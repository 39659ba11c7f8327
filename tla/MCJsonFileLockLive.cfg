CONSTANTS
  c1 = c1
  c2 = c2
  c3 = c3
  p1 = p1
  p2 = p2
  p3 = p3
  None = None
  Empty = Empty
  Calls = {c1, c2, c3}
  Processes = {p1, p2, p3}
  ProcOf <- ThreeProcs
  PidOf <- OwnPids
  Files = {f1, f2, f3}
SPECIFICATION LastCallSpec
PROPERTY LastCallRecovers
CHECK_DEADLOCK FALSE
