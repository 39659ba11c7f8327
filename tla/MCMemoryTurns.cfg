SPECIFICATION Spec
CONSTANTS
  t1 = t1
  t2 = t2
  c1 = c1
  c2 = c2
  c3 = c3
  dir = dir
  gitdir = gitdir
  repo = repo
  user = user
  nodir = nodir
  Dirs = {dir}
  Inside <- MCInside
  NoDir = nodir
  Gone = gone
  Commons = {gitdir}
  RepoNames = {repo}
  Bases = {user}
  NoBase = nobody
  Turns = {t1, t2}
  Completions = {c1, c2, c3}
  CompletionOf <- MCCompletionOf
  Workspace = dir
  Broken <- MCBroken
  Whole <- MCWhole
  Base = user
  HeldAnswers = FALSE
  MaxStarts = 2
  MaxTurns = 2
  MaxChars = 10
  MaxAttempts = 1
  MaxTaken = 3
SYMMETRY MCSymmetry
INVARIANTS
  StartedTurnsAgree
PROPERTIES
  NoFallbackAfterUpgrade
CHECK_DEADLOCK FALSE
