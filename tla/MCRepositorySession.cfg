SPECIFICATION SteadySpec
CONSTANTS
  top = top
  sub = sub
  other = other
  c1 = c1
  c2 = c2
  c3 = c3
  nodir = nodir
  gone = gone
  gitdir = gitdir
  subdir = subdir
  repo = repo
  b1 = b1
  b2 = b2
  nobody = nobody
  Dirs <- MCDirs
  Inside <- MCInside
  NoDir = nodir
  Gone = gone
  Commons = {gitdir, subdir}
  RepoNames = {repo}
  NoBase = nobody
  Bases = {b1, b2}
  Calls = {c1, c2}
  Requests <- MCRequests
  Markers <- MCMarkers
  DefaultDirs = {other}
  DiskChanges = TRUE
PROPERTIES
  Linearizes
  NestedCallsKeepScope
  EveryCallAnswered
CHECK_DEADLOCK FALSE
