-------------------------- MODULE MCRepoMemoryJobs --------------------------
(***************************************************************************)
(* Instances of RepoMemoryJobs.                                            *)
(***************************************************************************)
EXTENDS RepoMemoryJobs, TLC

CONSTANTS j1, j2, z1

AskedJobs == Permutations({j1, j2})
=============================================================================
