--------------------------- MODULE ServicePromise ---------------------------
(***************************************************************************)
(* What startBackendService and stopBackendService promise their callers:  *)
(* only a start puts a Backend on record, only a call takes it off, and    *)
(* the answer tells which.  A call whose process is killed answers nothing  *)
(* and may leave what it had done so far.                                   *)
(***************************************************************************)
VARIABLES
  up,      \* a Backend is on record
  call,    \* the call in progress: "none", "start" or "stop"
  answer   \* of the last call: "none", "started", "stopped" or "failed"

Init == up = FALSE /\ call = "none" /\ answer = "none"

\* A call begins or goes on; a start may replace a record and write its own.
Work(c) ==
  /\ call \in {"none", c} /\ call' = c /\ answer' = "none"
  /\ up' \in IF c = "start" THEN BOOLEAN ELSE {up}

Started == /\ call = "start" /\ up
           /\ call' = "none" /\ answer' = "started" /\ UNCHANGED up

Stopped == /\ call \in {"none", "stop"}
           /\ call' = "none" /\ answer' = "stopped" /\ up' = FALSE

Failed == /\ call' = "none" /\ answer' = "failed"
          /\ up' \in IF call = "stop" THEN {up} ELSE {up, FALSE}

Cut == call # "none" /\ call' = "none" /\ answer' = "none" /\ UNCHANGED up

Next == Work("start") \/ Work("stop") \/ Started \/ Stopped \/ Failed \/ Cut

Spec == Init /\ [][Next]_<<up, call, answer>>
=============================================================================
