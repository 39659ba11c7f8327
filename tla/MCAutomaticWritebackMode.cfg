SPECIFICATION Spec
CONSTANTS
  t1 = t1
  t2 = t2
  t3 = t3
  degraded = degraded
  git = git
  Items <- MCReplayed
  Buffers = {degraded}
  BufferOf <- MCReplayedOf
  Chars <- MCReplayedChars
  Upgrades = {}
  MaxTurns = 3
  MaxChars = 9
  MaxParts = 1
  MaxAttempts = 1
  DedupeMax = 1024
  ModeChanges = TRUE
  MaxTaken = 4
INVARIANTS
  NothingLost
CHECK_DEADLOCK FALSE
