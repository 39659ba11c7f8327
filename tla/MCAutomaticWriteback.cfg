SPECIFICATION FairSpec
CONSTANTS
  t1 = t1
  t2 = t2
  t3 = t3
  degraded = degraded
  git = git
  Items <- MCItems
  Buffers <- MCBuffers
  BufferOf <- MCBufferOf
  Chars <- MCChars
  Upgrades <- MCUpgrades
  MaxTurns = 3
  MaxChars = 2
  MaxParts = 1
  MaxAttempts = 2
  DedupeMax = 1024
  ModeChanges = FALSE
  MaxTaken = 3
INVARIANTS
  NothingLost
  DrainSettles
PROPERTIES
  NoWriteAfterShutdown
  EveryTurnSettles
CHECK_DEADLOCK FALSE
