--------------------------- MODULE MCLockedRecords ---------------------------
(***************************************************************************)
(* The lock file and two of the records that are kept under it, explored   *)
(* part by part in one run, fixed by `scene`: the calls that take and reap *)
(* the lock; the record of a Cursor session; and the trial credential,     *)
(* which is kept in the system's store under two such locks.  The parts    *)
(* share no state; the part of another scene stays as it began.            *)
(***************************************************************************)
EXTENDS MCJsonFileLock, CursorTurns, TrialCredential

CONSTANT mark1

VARIABLE scene

MCInit ==
  /\ scene \in {"lock", "cursor", "trial"}
  /\ Init /\ CursorInit /\ TrialInit
  /\ scene # "lock" => \A p \in Processes : proc[p] = "unborn"
  /\ scene # "trial" => machine = mark1

MCNext ==
  /\ UNCHANGED scene
  /\ \/ scene = "lock" /\ Next /\ UNCHANGED <<cursorVars, trialVars>>
     \/ scene = "cursor" /\ CursorNext /\ UNCHANGED <<vars, trialVars>>
     \/ scene = "trial" /\ TrialNext /\ UNCHANGED <<vars, cursorVars>>

MCSpec == MCInit /\ [][MCNext]_<<vars, cursorVars, trialVars, scene>>
==============================================================================
