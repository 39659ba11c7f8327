CONSTANTS
  j1 = j1
  z1 = z1
  j2 = j2
  None = None
  Unnamed = Unnamed
  Jobs = {j1, j2, z1}
  Lost = {z1}
  MaxTip = 2
  MaxKills = 1
SYMMETRY AskedJobs
SPECIFICATION Spec
INVARIANT OneWorker EndedJobsReport
PROPERTY PublishesItsBase VerdictsStand
CHECK_DEADLOCK FALSE
