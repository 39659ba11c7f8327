SPECIFICATION Spec
CONSTANTS
  t1 = t1
  t2 = t2
  t3 = t3
  degraded = degraded
  git = git
  Items <- MCReplayed
  Buffers = {degraded}
  BufferOf <- MCReplayedOf
  Chars <- MCReplayedChars
  Upgrades = {}
  MaxTurns = 2
  MaxChars = 9
  MaxParts = 2
  MaxAttempts = 1
  DedupeMax = 3
  ModeChanges = TRUE
  MaxTaken = 3
SYMMETRY MCSymmetry
INVARIANTS
  NoDuplicateWrite
  WritebackInv
CHECK_DEADLOCK FALSE
