------------------------ MODULE MCAutomaticWriteback ------------------------
(***************************************************************************)
(* Instances of AutomaticWriteback: one session whose namespace is         *)
(* upgraded, with two turns in the degraded one and one in the other.      *)
(***************************************************************************)
EXTENDS AutomaticWriteback, TLC

CONSTANTS t1, t2, t3, degraded, git

MCItems == {t1, t2, t3}
MCBuffers == {degraded, git}
MCBufferOf == [i \in MCItems |-> IF i = t3 THEN git ELSE degraded]
MCChars == [i \in MCItems |-> IF i = t2 THEN 2 ELSE 1]
MCUpgrades == {<<degraded, git>>}

\* Two turns of one buffer, reported again and again.
MCReplayed == {t1, t2}
MCReplayedOf == [i \in MCReplayed |-> degraded]
MCReplayedChars == [i \in MCReplayed |-> 1]
MCSymmetry == Permutations(MCReplayed)
=============================================================================
