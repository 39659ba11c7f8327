CONSTANTS
  c1 = c1
  c2 = c2
  c3 = c3
  p1 = p1
  p2 = p2
  p3 = p3
  None = None
  Empty = Empty
  Calls = {c1, c2, c3}
  Processes = {p1, p2, p3}
  ProcOf <- ThreeProcs
  PidOf <- ReusedPid
  Files = {f1, f2, f3}
  mark1 = mark1
  Turns = {gen1, gen2}
  NoTurn = NoTurn
  MaxFailures = 1
  MaxLives = 2
  Setups = {setup1, setup2, setup3}
  Clears = {clear1}
  Marks = {mark1, mark2}
  Nobody = Nobody
  NoMark = NoMark
  MaxTries = 3
  MaxFaults = 2
  MaxChanges = 1
SPECIFICATION MCSpec
INVARIANTS
  PendingIsArmed
  WrittenAsRecorded
  OneAccount
PROPERTIES
  KeepsPromise
  DeletedStaysDeleted
SYMMETRY FileSymmetry
CHECK_DEADLOCK FALSE
