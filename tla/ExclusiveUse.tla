---------------------------- MODULE ExclusiveUse ----------------------------
(***************************************************************************)
(* What withJsonFileLock promises its callers: each call runs its operation *)
(* at most once, and never while another call runs its own.  A call may end *)
(* without running it (timeout, abort, crash).                             *)
(***************************************************************************)
CONSTANT Calls
VARIABLE phase   \* "before", "running" or "after" its operation, per call

Init == phase = [c \in Calls |-> "before"]

Enter(c) ==
  /\ phase[c] = "before"
  /\ \A d \in Calls : phase[d] # "running"
  /\ phase' = [phase EXCEPT ![c] = "running"]

\* A crash ends all the calls of a process at once.
Leave(gone) ==
  phase' = [c \in Calls |-> IF c \in gone THEN "after" ELSE phase[c]]

Next == \/ \E c \in Calls : Enter(c)
        \/ \E gone \in SUBSET Calls : Leave(gone)

Spec == Init /\ [][Next]_phase
=============================================================================
