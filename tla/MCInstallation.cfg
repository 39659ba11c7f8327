SPECIFICATION MCSpec
CONSTANTS
  p1 = p1
  Pids = {p1, p2}
  Instances = {i1, i2, i3}
  Nil = Nil
  g1 = g1
  g2 = g2
  s1 = s1
  s2 = s2
  inst1 = inst1
  inst2 = inst2
  prompt1 = prompt1
  prompt2 = prompt2
  stop = stop
  compact = compact
  startup = startup
  Generations = {g1, g2}
  Shells = {s1, s2}
  Installs = {inst1, inst2}
  HookCalls = {prompt1, prompt2, stop, compact, startup}
  EventOf <- MCEventOf
  MaxTurns = 2
  MaxLosses = 1
  MaxTurn = 2
  MaxCompact = 1
SYMMETRY MCSymmetry
INVARIANTS
  NoLostBackend
  OnlyTheMeantIsStopped
  TurnsKeepRuntime
  PublishedIsWhole
  ToldInOrder
  ContextOnce
PROPERTIES
  ReportsAreTrue
  SilentWhenDisposed
