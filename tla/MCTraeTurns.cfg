SPECIFICATION FairSpec
CONSTANTS
  t1 = t1
  t2 = t2
  s1 = s1
  s2 = s2
  s3 = s3
  p1 = p1
  p2 = p2
  Turns = {t1, t2}
  Starts = {s1, s2, s3}
  Stops = {p1, p2}
  TurnOf <- MCTurnOf
  StopOf <- MCStopOf
  NoStart = none
  MaxEntries = 1
  TurnLimit = 1
  MaxUpsets = 1
INVARIANTS
  NewestHoldsSession
  ReplacedNotWritten
PROPERTIES
  UsesCoordinator
  HooksAnswered
CHECK_DEADLOCK FALSE
