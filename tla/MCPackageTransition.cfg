SPECIFICATION MCSpec
CONSTANTS
  Clients = {dsh, codex, claude, trae}
  Codex = codex
  Claude = claude
  Dsh = dsh
  NoMarker = nm
  NoCall = nc
  Updates = {u1, u2}
  Direct = {u2}
  NoUpdate = nu
  MaxStops = 1
  Profiles = {headless, work}
  Headless = headless
  Releases = {newer, newest}
  Legacy = former
  Own = own
  MaxFaults = 1
  MaxEdits = 1
  MaxCommands = 2
INVARIANTS
  EnabledCovered
  UserStopHonoured
  OutageRecorded
  DshKeepsTrack
PROPERTIES
  SwitchedBetweenBackends
  AuthorityVerified
  OwnCopyLeftAlone
