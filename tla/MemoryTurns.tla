----------------------------- MODULE MemoryTurns -----------------------------
(***************************************************************************)
(* One client session end to end: its scope, the turns it starts, their    *)
(* completions, and the writeback they feed.  Composes SessionScope (which *)
(* RepositorySession implements), the coordinator's choice of a scope and  *)
(* AutomaticWriteback, wired as memory/service.ts wires them, for a        *)
(* workspace whose Git metadata breaks and is repaired.                    *)
(***************************************************************************)
EXTENDS RepositoryScope, Sequences, Integers, FiniteSets

CONSTANTS
  Turns,        \* the turns of the session
  Completions,  \* completion requests; a client may report a turn again
  CompletionOf, \* the turn a completion is for
  Workspace,    \* the directory of the session
  Broken, Whole,\* the two states of its .git
  Base,         \* the base user
  HeldAnswers,  \* is an answer held across an await before it is used?
  MaxStarts,    \* bound on the turn starts
  MaxTurns, MaxChars, MaxAttempts, MaxTaken  \* as in AutomaticWriteback

ASSUME MemoryAssumption ==
  /\ CompletionOf \in [Completions -> Turns]
  /\ Workspace \in Dirs /\ Base \in Bases
  /\ {Broken, Whole} \subseteq Marker
  /\ Broken.kind = "broken" /\ Whole.kind = "repository"
  /\ HeldAnswers \in BOOLEAN
  /\ {MaxTurns, MaxAttempts} \subseteq Nat \ {0}
  /\ {MaxStarts, MaxChars, MaxTaken} \subseteq Nat

Namespaces == {"folder", "git"}
Items == Turns \X Namespaces

VARIABLES
  git,         \* the .git of the workspace
  binding, handed,  \* the session's scope, as in SessionScope
  metadata,    \* the scope each registered turn started with; NoScope: no entry
  completion,  \* the state of each completion and what it holds
  starts,      \* number of turn starts (bounded by MaxStarts)
  bufferOn, accepting, buffers, writes, pending, drain, awaited, taken, outcome, lapsed

writeback == <<bufferOn, accepting, buffers, writes, pending, drain, awaited, taken,
               outcome, lapsed>>
vars == <<git, binding, handed, metadata, completion, starts, writeback>>

Session == INSTANCE SessionScope
W == INSTANCE AutomaticWriteback WITH
  Buffers <- Namespaces, BufferOf <- [i \in Items |-> i[2]], Chars <- [i \in Items |-> 1],
  Upgrades <- {<<"folder", "git">>}, MaxParts <- 1, DedupeMax <- 1024, ModeChanges <- FALSE

\* `registered` is the scope of the registration a completion works on, and `own` says
\* that its turn was not registered again since.
Completion == [phase : {"idle", "asked", "answered", "done"}, own : BOOLEAN,
               registered : Scope \cup {NoScope}, answer : Scope \cup {NoScope}]
Resting(phase) == [phase |-> phase, own |-> FALSE, registered |-> NoScope, answer |-> NoScope]

TypeOK ==
  /\ git \in {Broken, Whole}
  /\ binding \in Session!Binding /\ (binding.mismatch => binding.scope # NoScope)
  /\ metadata \in [Turns -> Scope \cup {NoScope}]
  /\ completion \in [Completions -> Completion]
  /\ starts \in 0..MaxStarts
  /\ W!TypeOK

Init ==
  /\ git \in {Broken, Whole}
  /\ Session!Init
  /\ metadata = [t \in Turns |-> NoScope]
  /\ completion = [c \in Completions |-> Resting("idle")]
  /\ starts = 0
  /\ W!Init

-----------------------------------------------------------------------------
(* The resolver's answer, at the instant it takes effect.                   *)

Scopes(d) == [e \in Dirs |-> IF e = Workspace THEN d ELSE Unmarked("none")]
Resolved == ResolveScope(Scopes(git), Workspace, FALSE, Base)

\* Mutant: the buffers learn nothing of the upgrade.
UpgradeUnheard == UNCHANGED writeback

\* onScopeUpgrade: discardForScopeUpgrade of the writeback runtime.
UpgradeHeard == W!DiscardForScopeUpgrade("git")

\* Mutant: any later resolution replaces the session's scope.
MayReplaceAny(s, t) == TRUE

MayReplace(s, t) == CanUpgrade(s, t)

Answered(s) ==
  /\ s # NoScope /\ ~binding.mismatch
  /\ \/ /\ binding.scope = NoScope
        /\ binding' = [scope |-> s, mismatch |-> FALSE]
        /\ handed' = <<s>>
        /\ UNCHANGED writeback
     \/ /\ ScopesMatch(binding.scope, s)
        /\ handed' = Append(handed, binding.scope)
        /\ UNCHANGED <<binding, writeback>>
     \/ /\ binding.scope # NoScope
        /\ ~ScopesMatch(binding.scope, s) /\ MayReplace(binding.scope, s)
        /\ binding' = [binding EXCEPT !.scope = s]
        /\ handed' = Append(handed, s)
        /\ UpgradeHeard

\* A continuation that uses its answer at once lets no other request in between.
Undisturbed == HeldAnswers \/ \A c \in Completions : completion[c].phase # "answered"

StartTurn(t) ==
  /\ starts < MaxStarts /\ Undisturbed
  /\ starts' = starts + 1
  /\ Answered(Resolved)
  /\ metadata' = [metadata EXCEPT ![t] = binding'.scope]
  /\ completion' = [c \in Completions |->
                     [completion[c] EXCEPT !.own = @ /\ CompletionOf[c] # t]]
  /\ UNCHANGED git

\* The registration is looked up before the first await.
BeginCompletion(c) ==
  LET m == metadata[CompletionOf[c]]
  IN /\ completion[c].phase = "idle" /\ Undisturbed
     /\ completion' = [completion EXCEPT ![c] = [phase |-> "asked", own |-> m # NoScope,
                                                registered |-> m, answer |-> NoScope]]
     /\ UNCHANGED <<git, binding, handed, metadata, starts, writeback>>

AnswerCompletion(c) ==
  /\ completion[c].phase = "asked" /\ Undisturbed
  /\ Answered(Resolved)
  /\ completion' = [completion EXCEPT ![c].phase = "answered", ![c].answer = binding'.scope]
  /\ UNCHANGED <<git, metadata, starts>>

\* The session is in another workspace now: it is latched, and answers no more.
MeetMismatch ==
  /\ Undisturbed
  /\ binding.scope # NoScope /\ ~binding.mismatch
  /\ ~ScopesMatch(binding.scope, Resolved) /\ ~MayReplace(binding.scope, Resolved)
  /\ binding' = [binding EXCEPT !.mismatch = TRUE]
  /\ UNCHANGED <<git, handed, metadata, completion, starts, writeback>>

-----------------------------------------------------------------------------
(* completeMaterializedTurn, once it has its answer.                        *)

\* The scope the turn is written under.
Chosen(m, a) == IF m = NoScope \/ ~ScopesMatch(m, a) THEN a ELSE m

Agrees(m, a) == m = NoScope \/ ScopesMatch(m, a) \/ CanUpgrade(m, a) \/ CanBindGeneral(m, a)

ItemOf(c) ==
  <<CompletionOf[c],
    IF Chosen(completion[c].registered, completion[c].answer).kind = "git" THEN "git" ELSE "folder">>

\* turnMetadataDisposition of an accepted turn: the registration it worked on is consumed.
Consume(c) ==
  metadata' = IF completion[c].own THEN [metadata EXCEPT ![CompletionOf[c]] = NoScope]
              ELSE metadata

Complete(c) ==
  LET i == ItemOf(c)
      agreed == Agrees(completion[c].registered, completion[c].answer)
  IN /\ completion[c].phase = "answered"
     /\ completion' = [completion EXCEPT ![c] = Resting("done")]
     /\ \/ /\ agreed
           /\ W!EnqueueDirect(i) \/ W!EnqueueAgain(i) \/ W!EnqueueBuffered(i)
           /\ Consume(c)
        \/ \* the turn is pending already: accepted, nothing is scheduled
           /\ agreed /\ accepting /\ W!Reserved(i)
           /\ Consume(c)
           /\ UNCHANGED writeback
        \/ \* not accepted: the registration stays
           /\ ~(agreed /\ accepting)
           /\ UNCHANGED <<metadata, writeback>>
     /\ UNCHANGED <<git, binding, handed, starts>>

-----------------------------------------------------------------------------
ChangeGit ==
  /\ git' \in {Broken, Whole} \ {git}
  /\ UNCHANGED <<binding, handed, metadata, completion, starts, writeback>>

\* Timers, provider answers and shutdown.
WritebackStep ==
  /\ \/ \E b \in Namespaces : W!IdleFlush(b)
     \/ \E w \in 1..Len(writes) : W!WriteStep(w)
     \/ W!Drain \/ W!DrainResolves \/ W!Close
  /\ UNCHANGED <<git, binding, handed, metadata, completion, starts>>

Next ==
  \/ \E t \in Turns : StartTurn(t)
  \/ \E c \in Completions : BeginCompletion(c) \/ AnswerCompletion(c) \/ Complete(c)
  \/ MeetMismatch \/ ChangeGit \/ WritebackStep

Spec == Init /\ [][Next]_vars

-----------------------------------------------------------------------------
\* Once the session has moved to the verified Git namespace, nothing that waited for
\* the degraded one is sent: the troubleshooting guide promises that the unsent
\* buffer is discarded instead of being flushed into either namespace.
NoFallbackAfterUpgrade ==
  [][binding.scope.kind = "git" =>
       \A w \in Len(writes) + 1 .. Len(writes') :
         writes'[w].status # "blocked" =>
           \A k \in 1..Len(writes'[w].turns) : writes'[w].turns[k][2] = "git"]_vars

\* The same of the buffer alone: what is flushed is never the degraded namespace's.
FallbackNeverFlushed ==
  [][binding.scope.kind = "git" =>
       \A w \in Len(writes) + 1 .. Len(writes') :
         writes'[w].batch /\ writes'[w].status # "blocked" =>
           \A k \in 1..Len(writes'[w].turns) : writes'[w].turns[k][2] = "git"]_vars

\* The scope a registered turn started with and the session's answer at its completion
\* always agree: whoever is refused is refused by the resolver.
StartedTurnsAgree ==
  \A c \in Completions :
    completion[c].phase = "answered" =>
      Agrees(completion[c].registered, completion[c].answer)
=============================================================================
