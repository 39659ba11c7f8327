----------------------------- MODULE MCTraeTurns -----------------------------
(***************************************************************************)
(* Two prompts, the first reported twice, and a stop of each.              *)
(***************************************************************************)
EXTENDS TraeTurns, TLC

CONSTANTS t1, t2, s1, s2, s3, p1, p2

MCTurnOf == (s1 :> t1) @@ (s2 :> t2) @@ (s3 :> t1)
MCStopOf == (p1 :> t1) @@ (p2 :> t2)
=============================================================================
