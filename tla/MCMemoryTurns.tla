---------------------------- MODULE MCMemoryTurns ----------------------------
(***************************************************************************)
(* Two turns, one of them completed twice, in a workspace whose .git       *)
(* directory breaks and is repaired.                                       *)
(***************************************************************************)
EXTENDS MemoryTurns, TLC

CONSTANTS t1, t2, c1, c2, c3, dir, gitdir, repo, user, nodir

MCCompletionOf == (c1 :> t1) @@ (c2 :> t2) @@ (c3 :> t1)
MCSymmetry == Permutations({c1, c3})
MCInside == {<<dir, dir>>}
MCBroken == [kind |-> "broken", common |-> nodir, name |-> nodir]
MCWhole == [kind |-> "repository", common |-> gitdir, name |-> repo]
=============================================================================
