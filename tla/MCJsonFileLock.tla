--------------------------- MODULE MCJsonFileLock ---------------------------
(* Small instances of JsonFileLock for TLC.                                *)
EXTENDS JsonFileLock, TLC

CONSTANTS c1, c2, c3, p1, p2, p3

\* Three processes with one call each; the third reuses the first one's PID.
ThreeProcs == (c1 :> p1) @@ (c2 :> p2) @@ (c3 :> p3)
OwnPids    == (p1 :> 1) @@ (p2 :> 2) @@ (p3 :> 3)
ReusedPid  == (p1 :> 1) @@ (p2 :> 2) @@ (p3 :> 1)

\* Liveness for the call that comes last: the other two run, race and crash
\* first, so it meets whatever they left behind.
LastCallInit == Init /\ \A p \in Processes : proc[p] = "live"
LastCallNext == Next /\ (pc'[c3] # "idle" => Quiet(c3)')
LastCallSpec == LastCallInit /\ [][LastCallNext]_vars /\ FairCall(c3)

\* AbandonedLockRecovered of that call.
LastCallRecovers == AbandonedLockRecovered(c3)

FileSymmetry == Permutations(Files)
=============================================================================
