--------------------------- MODULE RepositoryScope ---------------------------
(***************************************************************************)
(* The scope of workspace memory: which namespace a directory belongs to,  *)
(* when two scopes are the same, and which one may replace the other.      *)
(* Source: packages/ts/memorax-code-backend/src/repository/scope.ts.       *)
(*                                                                         *)
(* A scope is identified by its base user, kind, id and name: id stands    *)
(* for what repositoryKey hashes (the Git common directory or the folder), *)
(* name for the slug, so that base and name are the effectiveUserId.  What *)
(* is parsed out of .git is abstracted to a marker of each directory.      *)
(***************************************************************************)
CONSTANTS
  Dirs,       \* canonical directories
  Inside,     \* <<d, e>>: d is e or below it
  NoDir,      \* no workspace root
  Gone,       \* a workspace root that is not a readable directory
  Commons,    \* Git common directories
  RepoNames,  \* names a repository takes from its remote or its directory
  Bases,      \* base users
  NoBase      \* no base user: the MemoraX configuration is missing

ASSUME DirsAssumption ==
  /\ Inside \subseteq Dirs \X Dirs
  /\ \A d \in Dirs : <<d, d>> \in Inside
  /\ \A d, e, f \in Dirs : <<d, e>> \in Inside /\ <<e, f>> \in Inside => <<d, f>> \in Inside
  /\ \A d, e \in Dirs : <<d, e>> \in Inside /\ <<e, d>> \in Inside => d = e
  /\ \A d \in Dirs : \A S \in SUBSET {e \in Dirs : <<d, e>> \in Inside} :
       S # {} => \E e \in S : \A f \in S : <<e, f>> \in Inside
  /\ Gone \notin Dirs /\ NoDir \notin Dirs /\ Gone # NoDir
ASSUME BasesAssumption == NoBase \notin Bases

\* What .git of a directory is: absent, a directory with malformed or incomplete
\* metadata, a pointer file or an error that leaves authority unverified, or Git.
Marker == [kind : {"none", "broken", "invalid", "repository"},
           common : Commons \cup {NoDir}, name : RepoNames \cup {NoDir}]
Unmarked(kind) == [kind |-> kind, common |-> NoDir, name |-> NoDir]
Repository(common, name) == [kind |-> "repository", common |-> common, name |-> name]

Scope == [base : Bases, kind : {"git", "folder", "general"},
          id : Dirs \cup Commons \cup {NoDir}, name : Dirs \cup RepoNames \cup {NoDir},
          root : Dirs \cup {NoDir}, degraded : BOOLEAN]
NoScope == [base |-> NoBase, kind |-> "none", id |-> NoDir, name |-> NoDir,
            root |-> NoDir, degraded |-> FALSE]

GeneralScope(base, dir) ==
  [base |-> base, kind |-> "general", id |-> dir, name |-> NoDir, root |-> dir, degraded |-> FALSE]
FolderScope(base, dir, degraded) ==
  [base |-> base, kind |-> "folder", id |-> dir, name |-> dir, root |-> dir, degraded |-> degraded]
GitScope(base, marker, dir) ==
  [base |-> base, kind |-> "git", id |-> marker.common, name |-> marker.name,
   root |-> dir, degraded |-> FALSE]

-----------------------------------------------------------------------------
Marked(disk, d) == {e \in Dirs : <<d, e>> \in Inside /\ disk[e].kind # "none"}

\* The directory of the nearest .git above d.
Nearest(disk, d) ==
  CHOOSE e \in Marked(disk, d) : \A f \in Marked(disk, d) : <<e, f>> \in Inside

\* The scope of a readable directory; NoScope: resolution fails closed.
DirScope(disk, d, projectless, base) ==
  IF Marked(disk, d) = {}
  THEN IF projectless THEN GeneralScope(base, d) ELSE FolderScope(base, d, FALSE)
  ELSE LET e == Nearest(disk, d)
       IN CASE disk[e].kind = "repository" -> GitScope(base, disk[e], e)
            [] disk[e].kind = "broken" -> FolderScope(base, e, TRUE)
            [] OTHER -> NoScope

ResolveScope(disk, root, projectless, base) ==
  CASE root \in Dirs -> DirScope(disk, root, projectless, base)
    [] root = NoDir /\ projectless -> GeneralScope(base, NoDir)
    [] OTHER -> NoScope

ScopesMatch(s, t) ==
  /\ s.kind = t.kind /\ s.id = t.id
  /\ s.base = t.base /\ s.name = t.name
  /\ s.degraded = t.degraded

CanUpgrade(s, t) ==
  /\ s.kind = "folder" /\ s.degraded
  /\ t.kind = "git" /\ ~t.degraded
  /\ s.base = t.base
  /\ s.root # NoDir /\ s.root = t.root

CanBindGeneral(s, t) ==
  /\ s.kind = "general" /\ s.root = NoDir
  /\ t.kind = "general" /\ t.root # NoDir
  /\ s.base = t.base /\ s.name = t.name

\* Does directory d work under the bound scope s?
ContainsWorkspace(disk, s, d) ==
  /\ s.root # NoDir
  /\ d \in Dirs
  /\ IF s.kind = "git"
     THEN /\ Marked(disk, d) # {}
          /\ disk[Nearest(disk, d)] = Repository(s.id, s.name)
     ELSE /\ <<d, s.root>> \in Inside
          /\ CASE s.degraded ->
                    /\ Marked(disk, d) # {}
                    /\ Nearest(disk, d) = s.id
                    /\ disk[s.id].kind = "broken"
               [] s.kind = "general" -> Marked(disk, d) = {}
               [] OTHER -> \A e \in Marked(disk, d) : <<e, s.root>> \notin Inside
=============================================================================
