-------------------------- MODULE RepositorySession --------------------------
(***************************************************************************)
(* The resolver of one client session's workspace scope.  Requests queue   *)
(* per session and resolve one after the other, reading the file system    *)
(* between awaits.  Sessions share nothing but the disk, so the module     *)
(* follows one of them.                                                    *)
(* Source: packages/ts/memorax-code-backend/src/memory/                    *)
(* repository-session.ts.                                                  *)
(***************************************************************************)
EXTENDS RepositoryScope, Sequences, Integers

CONSTANTS
  Calls,        \* resolutions; each is asked for once
  Requests,     \* what a caller passes: its cwd, its workspaceKind, requireBoundScope,
                \* and what restoreScope would return
  DefaultDirs,  \* the client's default-chat workspaces
  Markers,      \* the states of .git the environment may leave in a directory
  DiskChanges   \* may .git change while the Backend runs?

\* The workspaceKind of a request: none, blank, projectless, or any other, as the
\* "project" of OpenCode.
Kinds == {"none", "blank", "projectless", "other"}

ASSUME RequestsAssumption ==
  /\ Requests \subseteq [root : Dirs \cup {NoDir, Gone}, kind : Kinds, must : BOOLEAN,
                         restored : Scope \cup {NoScope}]
  /\ Markers \in [Dirs -> SUBSET Marker]
  /\ DefaultDirs \subseteq Dirs
  /\ DiskChanges \in BOOLEAN

VARIABLES
  disk,     \* the .git of each directory
  user,     \* the configured base user
  binding,  \* the session's entry in sessionScopes
  queue,    \* scopeResolutionQueues: the unanswered calls in the order they came
  call,     \* the state of each call
  handed    \* history: scopes answered since the session was bound

vars == <<disk, user, binding, queue, call, handed>>

Unbound == [scope |-> NoScope, mismatch |-> FALSE]
Phases == {"idle", "queued", "rooting", "resolving", "ok", "refused"}
Call == [phase : Phases, base : Bases \cup {NoBase}, asked : Requests,
         found : BOOLEAN, bound : Scope \cup {NoScope}, root : Dirs \cup {NoDir, Gone}, projectless : BOOLEAN]

TypeOK ==
  /\ disk \in [Dirs -> Marker]
  /\ user \in Bases
  /\ binding \in [scope : Scope \cup {NoScope}, mismatch : BOOLEAN]
  /\ queue \in Seq(Calls)
  /\ call \in [Calls -> Call]
  /\ handed \in Seq(Scope)

Init ==
  /\ disk \in {f \in [Dirs -> Marker] : \A d \in Dirs : f[d] \in Markers[d]}
  /\ user \in Bases
  /\ binding = Unbound
  /\ queue = <<>>
  /\ \E r \in Requests :
       call = [c \in Calls |-> [phase |-> "idle", base |-> NoBase, asked |-> r, found |-> FALSE,
                                bound |-> NoScope, root |-> NoDir, projectless |-> FALSE]]
  /\ handed = <<>>

-----------------------------------------------------------------------------
\* The caller waits; the configuration is read before it does.
Ask(c) ==
  /\ call[c].phase = "idle"
  /\ \E r \in Requests :
       call' = [call EXCEPT ![c].phase = "queued", ![c].base = user, ![c].asked = r]
  /\ queue' = Append(queue, c)
  /\ UNCHANGED <<disk, user, binding, handed>>

\* All earlier resolutions of the session have released the queue.
MyTurn(c) == queue # <<>> /\ Head(queue) = c

\* Mutant: a refused call keeps its place in the queue.
LeaveIfAnswered(c) ==
  queue' = IF call'[c].phase = "ok" THEN Tail(queue) ELSE queue

\* The call whose turn it is releases the queue, whatever its outcome.
Leave(c) == queue' = Tail(queue)

\* The cached binding, if it is of the base user this call read.
Cached(c) == binding.scope.base = call[c].base

\* A mismatch stays, whatever workspace the later hooks name.
Latched(c) == Cached(c) /\ binding.mismatch

Refuse(c) ==
  /\ call' = [call EXCEPT ![c].phase = "refused"]
  /\ Leave(c)
  /\ UNCHANGED <<disk, user, handed>>

Answer(c) ==
  /\ call' = [call EXCEPT ![c].phase = "ok"]
  /\ Leave(c)
  /\ UNCHANGED <<disk, user>>

\* The binding is latched, or the caller needs one and there is none.
RefuseLatched(c) ==
  /\ call[c].phase = "queued" /\ MyTurn(c)
  /\ Latched(c)
  /\ Refuse(c)
  /\ UNCHANGED binding

RefuseUnbound(c) ==
  /\ call[c].phase = "queued" /\ MyTurn(c)
  /\ ~Cached(c) /\ call[c].asked.must
  /\ Refuse(c)
  /\ UNCHANGED binding

\* An unbound session takes the restored scope as a candidate.
Enter(c) ==
  /\ call[c].phase = "queued" /\ MyTurn(c)
  /\ ~Latched(c) /\ (Cached(c) \/ ~call[c].asked.must)
  /\ call' = [call EXCEPT
       ![c].phase = "rooting",
       ![c].found = Cached(c),
       ![c].bound = IF Cached(c) THEN binding.scope
                    ELSE IF call[c].asked.restored.base = call[c].base
                         THEN call[c].asked.restored ELSE NoScope]
  /\ UNCHANGED <<disk, user, binding, queue, handed>>

\* Mutant: a hook below the bound directory resolves on its own.
KeepsRootNever(c) == FALSE

\* A hook from below the bound folder keeps the folder's root, unless it names a kind of
\* workspace that contradicts the bound one.
KeepsRoot(c) ==
  LET s == call[c].bound
  IN /\ \/ s.kind = "folder" /\ call[c].asked.kind # "projectless"
        \/ s.kind = "general" /\ call[c].asked.kind # "other"
     /\ ContainsWorkspace(disk, s, call[c].asked.root)

RootOf(c) ==
  IF KeepsRoot(c) \/ call[c].asked.root = NoDir THEN call[c].bound.root ELSE call[c].asked.root

\* Any kind the caller passes, a blank one too, takes precedence over the bound scope's.
Projectless(c) ==
  \/ call[c].asked.kind = "projectless"
  \/ call[c].asked.kind = "none" /\ call[c].bound.kind = "general"

ChooseRoot(c) ==
  /\ call[c].phase = "rooting"
  /\ RootOf(c) # NoDir \/ Projectless(c)
  /\ call' = [call EXCEPT ![c].phase = "resolving", ![c].root = RootOf(c),
                          ![c].projectless = Projectless(c)]
  /\ UNCHANGED <<disk, user, binding, queue, handed>>

RefuseRootless(c) ==
  /\ call[c].phase = "rooting"
  /\ RootOf(c) = NoDir /\ ~Projectless(c)
  /\ Refuse(c)
  /\ UNCHANGED binding

-----------------------------------------------------------------------------
(* The scope is resolved and committed in the stretch after the last await. *)

Resolved(c) == ResolveScope(disk, call[c].root, call[c].projectless, call[c].base)

RefuseUnresolved(c) ==
  /\ call[c].phase = "resolving"
  /\ Resolved(c) = NoScope
  /\ Refuse(c)
  /\ UNCHANGED binding

\* The restored candidate names another workspace: refused, and nothing is latched.
RefuseRestored(c) ==
  /\ call[c].phase = "resolving" /\ Resolved(c) # NoScope
  /\ ~call[c].found /\ call[c].bound # NoScope /\ ~ScopesMatch(call[c].bound, Resolved(c))
  /\ Refuse(c)
  /\ UNCHANGED binding

Bind(c) ==
  /\ call[c].phase = "resolving" /\ Resolved(c) # NoScope
  /\ ~call[c].found /\ (call[c].bound = NoScope \/ ScopesMatch(call[c].bound, Resolved(c)))
  /\ binding' = [scope |-> Resolved(c), mismatch |-> FALSE]
  /\ handed' = <<Resolved(c)>>
  /\ Answer(c)

Confirm(c) ==
  /\ call[c].phase = "resolving" /\ Resolved(c) # NoScope
  /\ call[c].found /\ ScopesMatch(binding.scope, Resolved(c))
  /\ handed' = Append(handed, binding.scope)
  /\ Answer(c)
  /\ UNCHANGED binding

\* Mutant: any Git repository may replace the degraded folder.
MayMoveAnywhere(s, t) ==
  \/ /\ CanBindGeneral(s, t)
     /\ t.root \in DefaultDirs
  \/ /\ s.kind = "folder" /\ s.degraded
     /\ t.kind = "git"

\* The General scope gets its default directory, or degraded Git is repaired.
MayMove(s, t) == (CanBindGeneral(s, t) /\ t.root \in DefaultDirs) \/ CanUpgrade(s, t)

Move(c) ==
  /\ call[c].phase = "resolving" /\ Resolved(c) # NoScope
  /\ call[c].found /\ ~ScopesMatch(binding.scope, Resolved(c))
  /\ MayMove(binding.scope, Resolved(c))
  /\ binding' = [binding EXCEPT !.scope = Resolved(c)]
  /\ handed' = Append(handed, Resolved(c))
  /\ Answer(c)

LatchMismatch(c) ==
  /\ call[c].phase = "resolving" /\ Resolved(c) # NoScope
  /\ call[c].found /\ ~ScopesMatch(binding.scope, Resolved(c))
  /\ ~MayMove(binding.scope, Resolved(c))
  /\ binding' = [binding EXCEPT !.mismatch = TRUE]
  /\ Refuse(c)

-----------------------------------------------------------------------------
(* The environment.                                                         *)

SetMarker(d) ==
  /\ DiskChanges
  /\ \E m \in Markers[d] : m # disk[d] /\ disk' = [disk EXCEPT ![d] = m]
  /\ UNCHANGED <<user, binding, queue, call, handed>>

ChangeUser ==
  /\ \E b \in Bases : b # user /\ user' = b
  /\ UNCHANGED <<disk, binding, queue, call, handed>>

CallStep(c) ==
  \/ RefuseLatched(c) \/ RefuseUnbound(c) \/ Enter(c)
  \/ ChooseRoot(c) \/ RefuseRootless(c)
  \/ RefuseUnresolved(c) \/ RefuseRestored(c) \/ Bind(c) \/ Confirm(c) \/ Move(c)
  \/ LatchMismatch(c)

Next ==
  \/ \E c \in Calls : Ask(c) \/ CallStep(c)
  \/ \E d \in Dirs : SetMarker(d)
  \/ ChangeUser

Spec == Init /\ [][Next]_vars

\* The event loop runs every continuation, and file system calls return.
FairSpec == Spec /\ \A c \in Calls : WF_vars(CallStep(c))

-----------------------------------------------------------------------------
\* Only the head of the queue is inside a resolution, and the binding it found on
\* entering is the binding it commits to.
OneAtATime ==
  \A c \in Calls :
    call[c].phase \in {"rooting", "resolving"} =>
      /\ MyTurn(c)
      /\ call[c].found <=> Cached(c)
      /\ call[c].found => ~binding.mismatch

AskedUser == \A c \in Calls : call[c].phase # "idle" => call[c].base \in Bases
LatchedBound == binding.mismatch => binding.scope # NoScope

\* The inductive invariant behind the refinement.
SessionInv == TypeOK /\ OneAtATime /\ AskedUser /\ LatchedBound

\* Every resolution takes effect at one instant, as SessionScope specifies.
Session == INSTANCE SessionScope
Linearizes == Session!Spec

\* Is a request from d about the bound workspace?
Belongs(d) ==
  d = NoDir \/ ContainsWorkspace(disk, binding.scope, d)

\* Does the kind a request names turn a folder outside Git into General, or General into
\* a folder?
Reclassifies(kind) ==
  \/ kind = "projectless" /\ binding.scope.kind = "folder" /\ ~binding.scope.degraded
  \/ kind \in {"blank", "other"} /\ binding.scope.kind = "general"

\* A hook that runs inside the bound workspace, however deep, and does not name another
\* kind of workspace does not latch a mismatch.
InsideKeepsScope ==
  \A c \in Calls :
    LatchMismatch(c) =>
      ~Belongs(call[c].asked.root) \/ Reclassifies(call[c].asked.kind)

\* Every request is answered.
EveryCallAnswered ==
  \A c \in Calls : (call[c].phase = "queued") ~> (call[c].phase \in {"ok", "refused"})
=============================================================================
