------------------------- MODULE MCRepositorySession -------------------------
(***************************************************************************)
(* Instances of RepositorySession: a workspace with a directory below it   *)
(* that may hold a repository of its own, and another workspace, which is  *)
(* also the client's default-chat directory.  Some behaviours are steady:  *)
(* .git stays in them as it was at the start.                              *)
(***************************************************************************)
EXTENDS RepositorySession, TLC

CONSTANTS top, sub, other, c1, c2, c3, nodir, gone, gitdir, subdir, repo, b1, b2, nobody

VARIABLE steady
allVars == <<vars, steady>>

MCDirs == {top, sub, other}
MCInside == {<<d, d>> : d \in MCDirs} \cup {<<sub, top>>}
MCMarkers ==
  [d \in MCDirs |->
     CASE d = top -> {Unmarked("none"), Unmarked("broken"), Repository(gitdir, repo)}
       [] d = sub -> {Unmarked("none"), Repository(subdir, repo)}
       [] OTHER -> {Unmarked("none")}]

Asks(roots, kind, must, restored) ==
  [root : roots, kind : {kind}, must : {must}, restored : {restored}]
MCRequests ==
  Asks(MCDirs, "none", FALSE, NoScope)
    \cup Asks({nodir}, "projectless", FALSE, NoScope)
    \cup Asks({nodir}, "none", TRUE, NoScope)
    \cup Asks({top}, "none", FALSE, FolderScope(b1, top, TRUE))
    \cup Asks({gone}, "none", FALSE, NoScope)
    \cup Asks({sub}, "projectless", FALSE, NoScope)
    \cup Asks({other}, "other", FALSE, NoScope)

SteadyInit == Init /\ steady \in BOOLEAN
SteadyNext == Next /\ steady' = steady /\ (steady => disk' = disk)
SteadySpec ==
  /\ SteadyInit
  /\ [][SteadyNext]_allVars
  /\ \A c \in Calls : WF_vars(CallStep(c))

\* While .git stays as it is, a hook from inside the bound workspace never costs the
\* session its scope.
NestedCallsKeepScope == [][steady => InsideKeepsScope]_allVars
=============================================================================
