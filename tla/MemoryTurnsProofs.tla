-------------------------- MODULE MemoryTurnsProofs --------------------------
(***************************************************************************)
(* Proofs about one session end to end (MemoryTurns), for any turns,       *)
(* completions and limits.  The composition uses the session's scope and   *)
(* automatic writeback as their modules describe them.  While no answer is *)
(* held across an await, MemoryInv says more: a completion's answer is the *)
(* session's scope, a turn is registered under that scope or the fallback  *)
(* it replaced, and the fallback's buffer is empty when it is not bound.   *)
(***************************************************************************)
EXTENDS MemoryTurns, SequenceTheorems, FiniteSetTheorems, TLAPS

\* The scopes of the workspace while its .git is broken, and while it is whole.
Fallback == FolderScope(Base, Workspace, TRUE)
Verified == GitScope(Base, Whole, Workspace)
Known == {NoScope, Fallback, Verified}

KnownCompletion == [phase : {"idle", "asked", "answered", "done"}, own : BOOLEAN,
                 registered : Known, answer : Known]

ScopeInv ==
  /\ git \in {Broken, Whole}
  /\ binding \in [scope : Known, mismatch : BOOLEAN]
  /\ metadata \in [Turns -> Known]
  /\ completion \in [Completions -> KnownCompletion]

Waits(b) == W!ItemsIn(buffers[b].turns)

\* A buffer holds turns of its own namespace.
BuffersInv ==
  /\ writes \in Seq(W!Write)
  /\ buffers \in [Namespaces -> W!Buffer]
  /\ \A b \in Namespaces : \A i \in Waits(b) : i \in Items /\ i[2] = b

AnswersInv ==
  /\ \A c \in Completions :
       /\ completion[c].phase = "answered" =>
            binding.scope # NoScope /\ completion[c].answer = binding.scope
       /\ completion[c].registered # NoScope => binding.scope # NoScope
       /\ completion[c].registered = Verified => binding.scope = Verified
  /\ \A t \in Turns : /\ metadata[t] # NoScope => binding.scope # NoScope
                      /\ metadata[t] = Verified => binding.scope = Verified

FallbackInv == binding.scope # Fallback => Waits("folder") = {}

MemoryInv == ScopeInv /\ BuffersInv /\ AnswersInv /\ FallbackInv

\* The turns of the dispatches that a step starts.
Sent == UNION {W!ItemsIn(writes'[w].turns) : w \in Len(writes) + 1 .. Len(writes')}

-----------------------------------------------------------------------------
(* The scopes of the workspace.                                             *)

LEMMA KnownScopes ==
  /\ Fallback \in Scope /\ Verified \in Scope /\ NoScope \notin Scope
  /\ Fallback.kind = "folder" /\ Verified.kind = "git" /\ NoScope.kind = "none"
  /\ Fallback.base = Base /\ Verified.base = Base /\ NoScope.base = NoBase /\ Base \in Bases
  /\ ScopesMatch(Fallback, Fallback) /\ ScopesMatch(Verified, Verified)
  /\ ~ScopesMatch(Fallback, Verified) /\ ~ScopesMatch(Verified, Fallback)
  /\ ~ScopesMatch(NoScope, Fallback) /\ ~ScopesMatch(NoScope, Verified)
  /\ CanUpgrade(Fallback, Verified)
  /\ \A s \in Known : ~CanUpgrade(Verified, s) /\ ~CanUpgrade(s, Fallback)
<1>1. Workspace \in Dirs /\ Base \in Bases /\ NoBase \notin Bases /\ NoDir \notin Dirs
      /\ Whole.common \in Commons \cup {NoDir} /\ Whole.name \in RepoNames \cup {NoDir}
  BY MemoryAssumption, BasesAssumption, DirsAssumption DEF Marker
<1>2. Fallback \in Scope /\ Verified \in Scope /\ NoScope \notin Scope
  BY <1>1 DEF Fallback, Verified, FolderScope, GitScope, NoScope, Scope
<1> QED
  BY <1>1, <1>2 DEF Known, Fallback, Verified, FolderScope, GitScope, NoScope, ScopesMatch, CanUpgrade

\* The resolver finds the workspace's own .git.
LEMMA ResolvedIs ==
  ASSUME git \in {Broken, Whole}
  PROVE  Resolved = Fallback \/ Resolved = Verified
<1> DEFINE disk == Scopes(git)
<1>1. /\ Workspace \in Dirs /\ <<Workspace, Workspace>> \in Inside
      /\ Broken.kind = "broken" /\ Whole.kind = "repository"
  BY MemoryAssumption, DirsAssumption
<1>2. disk[Workspace] = git /\ \A e \in Dirs : e # Workspace => disk[e].kind = "none"
  BY <1>1 DEF Scopes, Unmarked
<1>3. Marked(disk, Workspace) = {Workspace}
  BY <1>1, <1>2 DEF Marked
<1>4. Nearest(disk, Workspace) = Workspace
  BY <1>1, <1>3 DEF Nearest
<1>5. Resolved = DirScope(disk, Workspace, FALSE, Base)
  BY <1>1 DEF Resolved, ResolveScope
<1> HIDE DEF disk
<1>6. CASE git = Broken
  <2>1. disk[Nearest(disk, Workspace)].kind = "broken"
    BY <1>1, <1>2, <1>4, <1>6
  <2>2. DirScope(disk, Workspace, FALSE, Base) = FolderScope(Base, Nearest(disk, Workspace), TRUE)
    BY <1>3, <2>1 DEF DirScope
  <2> QED
    BY <1>4, <1>5, <2>2 DEF Fallback
<1>7. CASE git = Whole
  <2>1. disk[Nearest(disk, Workspace)].kind = "repository"
    BY <1>1, <1>2, <1>4, <1>7
  <2>2. DirScope(disk, Workspace, FALSE, Base)
          = GitScope(Base, disk[Nearest(disk, Workspace)], Nearest(disk, Workspace))
    BY <1>3, <2>1 DEF DirScope
  <2> QED
    BY <1>2, <1>4, <1>5, <1>7, <2>2 DEF Verified
<1> QED
  BY <1>6, <1>7

\* What an answer makes of the binding: it binds, confirms or upgrades.
LEMMA AnsweredIs ==
  ASSUME ScopeInv, Answered(Resolved)
  PROVE  /\ binding' \in [scope : {Fallback, Verified}, mismatch : {FALSE}]
         /\ ~binding.mismatch
         /\ \/ /\ binding.scope = NoScope /\ handed' = <<binding'.scope>>
               /\ UNCHANGED writeback
            \/ /\ binding.scope # NoScope /\ binding' = binding
               /\ handed' = Append(handed, binding.scope)
               /\ UNCHANGED writeback
            \/ /\ binding.scope = Fallback /\ binding'.scope = Verified
               /\ handed' = Append(handed, binding'.scope)
               /\ W!DiscardForScopeUpgrade("git")
<1>1. Resolved \in {Fallback, Verified} /\ ~binding.mismatch
  BY ResolvedIs DEF ScopeInv, Answered
<1>2. binding \in [scope : Known, mismatch : BOOLEAN]
  BY DEF ScopeInv
<1>3. Fallback # NoScope /\ Verified # NoScope
  BY KnownScopes
<1>4. CASE binding.scope = NoScope
  <2>1. binding' = [scope |-> Resolved, mismatch |-> FALSE] /\ handed' = <<Resolved>> /\ UNCHANGED writeback
    BY <1>1, <1>4, KnownScopes DEF Answered
  <2> QED
    BY <1>1, <1>4, <2>1
<1>5. CASE binding.scope # NoScope /\ ScopesMatch(binding.scope, Resolved)
  <2>1. binding' = binding /\ handed' = Append(handed, binding.scope) /\ UNCHANGED writeback
    BY <1>5 DEF Answered
  <2> QED
    BY <1>1, <1>2, <1>5, <2>1 DEF Known
<1>6. CASE binding.scope # NoScope /\ ~ScopesMatch(binding.scope, Resolved)
  <2>1. /\ CanUpgrade(binding.scope, Resolved)
        /\ binding' = [binding EXCEPT !.scope = Resolved]
        /\ handed' = Append(handed, Resolved)
        /\ W!DiscardForScopeUpgrade("git")
    BY <1>6 DEF Answered, MayReplace, UpgradeHeard
  <2>2. binding.scope = Fallback /\ Resolved = Verified
    BY <1>1, <1>2, <1>6, <2>1, KnownScopes DEF Known
  <2> QED
    BY <1>1, <1>2, <2>1, <2>2
<1> QED
  BY <1>4, <1>5, <1>6

LEMMA ScopeInit == Init => ScopeInv
  BY DEF Init, ScopeInv, KnownCompletion, Resting, Known, Session!Init, Session!Unbound, Session!NoScope,
         NoScope

LEMMA ScopeStep == ScopeInv /\ [Next]_vars => ScopeInv'
<1> SUFFICES ASSUME ScopeInv, [Next]_vars PROVE ScopeInv'
  OBVIOUS
<1> USE DEF ScopeInv
<1>1. ASSUME NEW t \in Turns, StartTurn(t) PROVE ScopeInv'
  <2>1. binding' \in [scope : {Fallback, Verified}, mismatch : {FALSE}]
    BY <1>1, AnsweredIs DEF StartTurn
  <2>2. completion' \in [Completions -> KnownCompletion]
    <3>1. \A c \in Completions : completion[c] \in KnownCompletion
      OBVIOUS
    <3>2. \A c \in Completions : \A b \in BOOLEAN : [completion[c] EXCEPT !.own = b] \in KnownCompletion
      BY <3>1 DEF KnownCompletion
    <3>3. \A c \in Completions : \E b \in BOOLEAN : completion'[c] = [completion[c] EXCEPT !.own = b]
      <4> TAKE c \in Completions
      <4> DEFINE b == completion[c].own /\ CompletionOf[c] # t
      <4>1. b \in BOOLEAN
        OBVIOUS
      <4>2. completion'[c] = [completion[c] EXCEPT !.own = b]
        BY <1>1 DEF StartTurn
      <4> HIDE DEF b
      <4> QED
        BY <4>1, <4>2
    <3>4. completion' = [c \in Completions |-> completion'[c]]
      BY <1>1 DEF StartTurn
    <3>5. \A c \in Completions : completion'[c] \in KnownCompletion
      <4> TAKE c \in Completions
      <4>1. PICK b \in BOOLEAN : completion'[c] = [completion[c] EXCEPT !.own = b]
        BY <3>3
      <4>2. [completion[c] EXCEPT !.own = b] \in KnownCompletion
        BY <3>2
      <4> QED
        BY <4>1, <4>2
    <3> QED
      BY <3>4, <3>5
  <2> QED
    BY <1>1, <2>1, <2>2 DEF StartTurn, Known
<1>2. ASSUME NEW c \in Completions, AnswerCompletion(c) PROVE ScopeInv'
  <2>1. binding' \in [scope : {Fallback, Verified}, mismatch : {FALSE}]
    BY <1>2, AnsweredIs DEF AnswerCompletion
  <2>2. /\ completion[c] \in KnownCompletion
        /\ completion' = [completion EXCEPT ![c] = [[completion[c] EXCEPT !.phase = "answered"]
                                                      EXCEPT !.answer = binding'.scope]]
    BY <1>2 DEF AnswerCompletion
  <2>3. completion' \in [Completions -> KnownCompletion]
    BY <2>1, <2>2 DEF KnownCompletion, Known
  <2> QED
    BY <1>2, <2>1, <2>3 DEF AnswerCompletion, Known
<1>3. ASSUME NEW c \in Completions, Complete(c) PROVE ScopeInv'
  <2>1. metadata' = metadata \/ metadata' = [metadata EXCEPT ![CompletionOf[c]] = NoScope]
    BY <1>3 DEF Complete, Consume
  <2>2. metadata' \in [Turns -> Known]
    BY <2>1 DEF Known
  <2>3. completion' = [completion EXCEPT ![c] = Resting("done")] /\ UNCHANGED <<git, binding>>
    BY <1>3 DEF Complete
  <2>4. Resting("done") \in KnownCompletion
    BY DEF Resting, KnownCompletion, Known
  <2> QED
    BY <2>2, <2>3, <2>4
<1>4. CASE MeetMismatch \/ ChangeGit \/ WritebackStep \/ UNCHANGED vars
  BY <1>4 DEF MeetMismatch, ChangeGit, WritebackStep, vars
<1>5. ASSUME NEW c \in Completions, BeginCompletion(c) PROVE ScopeInv'
  <2> DEFINE m == metadata[CompletionOf[c]]
             asked == [phase |-> "asked", own |-> m # NoScope, registered |-> m, answer |-> NoScope]
  <2>1. m \in Known /\ (m # NoScope) \in BOOLEAN
    BY MemoryAssumption
  <2>2. asked \in KnownCompletion
    BY <2>1 DEF KnownCompletion, Known
  <2>3. completion' = [completion EXCEPT ![c] = asked] /\ UNCHANGED <<git, binding, metadata>>
    BY <1>5 DEF BeginCompletion
  <2> HIDE DEF asked
  <2> QED
    BY <2>2, <2>3
<1> QED
  BY <1>1, <1>2, <1>3, <1>4, <1>5 DEF Next

-----------------------------------------------------------------------------
(* The composition uses its parts as they are described.                    *)

\* The answers, and the mismatch, are steps of SessionScope.
THEOREM SessionIsUsedAsDescribed == Spec => Session!Spec
<1>1. Init => Session!Init
  BY DEF Init
<1>2. ScopeInv /\ [Next]_vars => [Session!Next]_(Session!vars)
  <2> SUFFICES ASSUME ScopeInv, [Next]_vars PROVE [Session!Next]_(Session!vars)
    OBVIOUS
  <2>0. Session!Scope = Scope /\ Session!NoScope = NoScope
        /\ Session!CanUpgrade(Fallback, Verified) = CanUpgrade(Fallback, Verified)
    BY DEF Session!Scope, Scope, Session!NoScope, NoScope, Session!CanUpgrade, CanUpgrade
  <2>1. ASSUME Answered(Resolved) PROVE Session!Next
    <3>1. binding' \in [scope : {Fallback, Verified}, mismatch : {FALSE}] /\ ~binding.mismatch
      BY <2>1, AnsweredIs
    <3>2. binding' \in [scope : Session!Scope, mismatch : {FALSE}] /\ binding'.scope.base = Base
      BY <2>0, <3>1, KnownScopes
    <3>3. \/ binding.scope = NoScope /\ handed' = <<binding'.scope>>
          \/ /\ binding.scope # NoScope /\ binding' = binding
             /\ handed' = Append(handed, binding.scope)
          \/ /\ binding.scope = Fallback /\ binding'.scope = Verified
             /\ handed' = Append(handed, binding'.scope)
      BY <2>1, AnsweredIs
    <3>4. CASE binding.scope = NoScope /\ handed' = <<binding'.scope>>
      <4>1. binding'.scope.base # binding.scope.base
        BY <3>2, <3>4, KnownScopes, BasesAssumption
      <4> QED
        BY <3>2, <3>4, <4>1 DEF Session!Next, Session!Bind
    <3>5. CASE /\ binding.scope # NoScope /\ binding' = binding
               /\ handed' = Append(handed, binding.scope)
      BY <2>0, <3>1, <3>5 DEF Session!Next, Session!Confirm
    <3>6. CASE /\ binding.scope = Fallback /\ binding'.scope = Verified
               /\ handed' = Append(handed, binding'.scope)
      <4>1. Session!CanUpgrade(binding.scope, binding'.scope)
        BY <2>0, <3>6, KnownScopes
      <4> QED
        BY <3>1, <3>2, <3>6, <4>1 DEF Session!Next, Session!Move
    <3> QED
      BY <3>3, <3>4, <3>5, <3>6
  <2>2. CASE MeetMismatch
    BY <2>0, <2>2 DEF MeetMismatch, Session!Next, Session!Latch
  <2>3. CASE \/ \E c \in Completions : BeginCompletion(c) \/ Complete(c)
             \/ ChangeGit \/ WritebackStep \/ UNCHANGED vars
    BY <2>3 DEF BeginCompletion, Complete, ChangeGit, WritebackStep, vars, Session!vars
  <2> QED
    BY <2>1, <2>2, <2>3 DEF Next, StartTurn, AnswerCompletion
<1> QED
  BY <1>1, <1>2, ScopeInit, ScopeStep, PTL DEF Spec, Session!Spec

\* Every step is one of the writeback runtime or leaves it alone.
THEOREM WritebackIsUsedAsDescribed == Spec => W!Spec
<1>1. Init => W!Init
  BY DEF Init
<1>2. ScopeInv /\ [Next]_vars => [W!Next]_(W!vars)
  <2> SUFFICES ASSUME ScopeInv, [Next]_vars PROVE [W!Next]_(W!vars)
    OBVIOUS
  <2>1. ASSUME Answered(Resolved) PROVE [W!Next]_(W!vars)
    <3>1. UNCHANGED writeback \/ W!DiscardForScopeUpgrade("git")
      BY <2>1, AnsweredIs
    <3>2. "git" \in Namespaces
      BY DEF Namespaces
    <3> QED
      BY <3>1, <3>2 DEF writeback, W!vars, W!Next
  <2>2. ASSUME NEW c \in Completions, Complete(c) PROVE [W!Next]_(W!vars)
    <3>1. ItemOf(c) \in Items
      BY MemoryAssumption DEF ItemOf, Items, Namespaces
    <3>2. \/ W!EnqueueDirect(ItemOf(c)) \/ W!EnqueueAgain(ItemOf(c)) \/ W!EnqueueBuffered(ItemOf(c))
          \/ UNCHANGED writeback
      BY <2>2 DEF Complete
    <3> QED
      BY <3>1, <3>2 DEF writeback, W!vars, W!Next
  <2>3. CASE WritebackStep
    BY <2>3 DEF WritebackStep, W!Next
  <2>4. CASE (\E c \in Completions : BeginCompletion(c)) \/ MeetMismatch \/ ChangeGit \/ UNCHANGED vars
    BY <2>4 DEF BeginCompletion, MeetMismatch, ChangeGit, vars, writeback, W!vars
  <2> QED
    BY <2>1, <2>2, <2>3, <2>4 DEF Next, StartTurn, AnswerCompletion
<1> QED
  BY <1>1, <1>2, ScopeInit, ScopeStep, PTL DEF Spec, W!Spec

-----------------------------------------------------------------------------
(* Which turns wait, and which a step sends.                                *)

\* The dispatches that begin carry the batches of Dispatch.
LEMMA DispatchSends ==
  ASSUME BuffersInv, NEW batches \in Seq(Seq(Items)), NEW batch \in BOOLEAN,
         W!Dispatch(batches, batch)
  PROVE  /\ writes' \in Seq(W!Write)
         /\ \A x \in Sent : \E k \in 1..Len(batches) : x \in W!ItemsIn(batches[k])
<1>1. PICK parts \in [1..Len(batches) -> 1..1] :
        writes' = writes \o [k \in 1..Len(batches) |-> W!NewWrite(batches[k], batch, parts[k])]
  BY DEF W!Dispatch
<1> DEFINE new == [k \in 1..Len(batches) |-> W!NewWrite(batches[k], batch, parts[k])]
<1>2. ASSUME NEW k \in 1..Len(batches)
      PROVE  W!NewWrite(batches[k], batch, parts[k]) \in W!Write
  <2>1. batches[k] \in Seq(Items) /\ parts[k] \in 1..1 /\ 1 \in 1..1 /\ 1 \in 1..MaxAttempts
    BY <1>1, MemoryAssumption
  <2>2. (IF batch /\ W!Blocked(batches[k]) THEN "blocked" ELSE "running") \in W!Statuses
    BY DEF W!Statuses
  <2> QED
    BY <2>1, <2>2 DEF W!NewWrite, W!Write
<1>3. new \in Seq(W!Write) /\ Len(new) = Len(batches) /\ \A k \in 1..Len(new) : new[k].turns = batches[k]
  <2>1. \A k \in 1..Len(batches) : W!NewWrite(batches[k], batch, parts[k]).turns = batches[k]
    BY DEF W!NewWrite
  <2> QED
    BY <1>2, <2>1
<1>4. writes \in Seq(W!Write) /\ writes' = writes \o new
  BY <1>1 DEF BuffersInv
<1> HIDE DEF new
<1>c. \A s1, s2 \in Seq(W!Write) :
        /\ s1 \o s2 \in Seq(W!Write) /\ Len(s1 \o s2) = Len(s1) + Len(s2)
        /\ \A i \in 1..Len(s1) + Len(s2) :
             (s1 \o s2)[i] = IF i <= Len(s1) THEN s1[i] ELSE s2[i - Len(s1)]
  BY ConcatProperties
<1>d. new \in Seq(W!Write)
  BY <1>3
<1>5. /\ writes' \in Seq(W!Write) /\ Len(writes') = Len(writes) + Len(new)
      /\ \A i \in 1..Len(writes) + Len(new) :
           writes'[i] = IF i <= Len(writes) THEN writes[i] ELSE new[i - Len(writes)]
  BY <1>c, <1>d, <1>4
<1>6. ASSUME NEW w \in Len(writes) + 1 .. Len(writes'), NEW x \in W!ItemsIn(writes'[w].turns)
      PROVE  \E k \in 1..Len(batches) : x \in W!ItemsIn(batches[k])
  <2>1. Len(writes) \in Nat /\ Len(new) \in Nat
    BY <1>3, <1>4
  <2>2. w - Len(writes) \in 1..Len(new) /\ w \in 1..Len(writes) + Len(new) /\ ~(w <= Len(writes))
    BY <1>5, <2>1
  <2>3. writes'[w] = new[w - Len(writes)]
    BY <1>5, <2>2
  <2> QED
    BY <1>3, <1>6, <2>2, <2>3
<1> QED
  BY <1>5, <1>6 DEF Sent

LEMMA NothingSent ==
  ASSUME BuffersInv, Len(writes') = Len(writes)
  PROVE  Sent = {}
<1>1. Len(writes) \in Nat
  BY DEF BuffersInv
<1>2. Len(writes) + 1 .. Len(writes') = {}
  BY <1>1
<1> QED
  BY <1>2 DEF Sent

\* Buffers that are emptied or stay as they are.
LEMMA FewerWait ==
  ASSUME BuffersInv, buffers' \in [Namespaces -> W!Buffer], writes' \in Seq(W!Write),
         \A b \in Namespaces : buffers'[b] = buffers[b] \/ buffers'[b] = W!NoBuffer
  PROVE  BuffersInv' /\ \A b \in Namespaces : Waits(b)' \subseteq Waits(b)
<1>1. W!ItemsIn(W!NoBuffer.turns) = {}
  BY DEF W!ItemsIn, W!NoBuffer
<1>2. ASSUME NEW b \in Namespaces PROVE W!ItemsIn(buffers'[b].turns) \subseteq W!ItemsIn(buffers[b].turns)
  BY <1>1
<1>3. \A b \in Namespaces : Waits(b)' \subseteq Waits(b)
  BY <1>2 DEF Waits, W!ItemsIn
<1> QED
  BY <1>3 DEF BuffersInv

LEMMA NoBufferType == W!NoBuffer \in W!Buffer
  BY DEF W!NoBuffer, W!Buffer

\* An upgrade's discard empties the fallback's buffer.
LEMMA DiscardMoves ==
  ASSUME BuffersInv, W!DiscardForScopeUpgrade("git")
  PROVE  BuffersInv' /\ Sent = {} /\ Waits("folder")' = {}
         /\ \A b \in Namespaces : Waits(b)' \subseteq Waits(b)
<1>1. /\ buffers' = [c \in Namespaces |-> IF c \in W!Discarded("git") THEN W!NoBuffer ELSE buffers[c]]
      /\ writes' = writes
  BY DEF W!DiscardForScopeUpgrade
<1>2. buffers' \in [Namespaces -> W!Buffer] /\ writes' \in Seq(W!Write)
  BY <1>1, NoBufferType DEF BuffersInv
<1>3. \A b \in Namespaces : buffers'[b] = buffers[b] \/ buffers'[b] = W!NoBuffer
  BY <1>1
<1>4. BuffersInv' /\ \A b \in Namespaces : Waits(b)' \subseteq Waits(b)
  BY <1>2, <1>3, FewerWait
<1>5. buffers'["folder"] = W!NoBuffer \/ buffers'["folder"].turns = <<>>
  <2>1. "folder" \in Namespaces
    BY DEF Namespaces
  <2>2. buffers["folder"].turns # <<>> => "folder" \in W!Discarded("git")
    BY <2>1 DEF W!Discarded
  <2> QED
    BY <1>1, <2>1, <2>2
<1>6. buffers'["folder"].turns = <<>>
  BY <1>5 DEF W!NoBuffer
<1>7. Waits("folder")' = {}
  BY <1>6 DEF Waits, W!ItemsIn
<1> QED
  BY <1>1, <1>4, <1>7, NothingSent

\* What an enqueue keeps and flushes is its turn and the turns of its buffer.
LEMMA AppendedIs ==
  ASSUME BuffersInv, NEW i \in Items
  PROVE  /\ W!Appended(i) \in W!Buffer
         /\ W!ItemsIn(W!Appended(i).turns) \subseteq Waits(i[2]) \cup {i}
<1> DEFINE old == buffers[i[2]]
<1>1. i[2] \in Namespaces /\ [j \in Items |-> j[2]][i] = i[2] /\ [j \in Items |-> 1][i] = 1
  BY DEF Items
<1>2. old \in W!Buffer
  BY <1>1 DEF BuffersInv
<1>3. old.turns \in Seq(Items) /\ old.chars \in Nat
  BY <1>2 DEF W!Buffer
<1>4. CASE W!Overflows(i)
  <2>1. W!Appended(i) = [turns |-> <<i>>, chars |-> 1, armed |-> TRUE]
    BY <1>1, <1>4 DEF W!Appended
  <2>2. W!ItemsIn(<<i>>) = {i}
    BY DEF W!ItemsIn
  <2> QED
    BY <2>1, <2>2 DEF W!Buffer
<1>5. CASE ~W!Overflows(i)
  <2>1. W!Appended(i) = [turns |-> Append(old.turns, i), chars |-> old.chars + 1, armed |-> TRUE]
    BY <1>1, <1>5 DEF W!Appended
  <2>2. Append(old.turns, i) \in Seq(Items) /\ old.chars + 1 \in Nat
    BY <1>3
  <2>3. /\ Len(Append(old.turns, i)) = Len(old.turns) + 1
        /\ \A k \in 1..Len(old.turns) : Append(old.turns, i)[k] = old.turns[k]
        /\ Append(old.turns, i)[Len(old.turns) + 1] = i
        /\ Len(old.turns) \in Nat
    BY <1>3, AppendProperties
  <2>4. 1..Len(old.turns) + 1 = 1..Len(old.turns) \cup {Len(old.turns) + 1}
    BY <2>3
  <2> HIDE DEF old
  <2>5. W!ItemsIn(Append(old.turns, i)) = W!ItemsIn(old.turns) \cup {i}
    BY <2>3, <2>4 DEF W!ItemsIn
  <2>6. W!ItemsIn(old.turns) = Waits(i[2])
    BY DEF Waits, old
  <2> QED
    BY <2>1, <2>2, <2>5, <2>6 DEF W!Buffer
<1> QED
  BY <1>4, <1>5

LEMMA FlushedIs ==
  ASSUME BuffersInv, NEW i \in Items
  PROVE  /\ W!Flushed(i) \in Seq(Seq(Items))
         /\ \A k \in 1..Len(W!Flushed(i)) : W!ItemsIn(W!Flushed(i)[k]) \subseteq Waits(i[2]) \cup {i}
<1> DEFINE old == buffers[i[2]].turns
           turns == W!Appended(i).turns
           first == IF W!Overflows(i) THEN <<old>> ELSE <<>>
           second == IF W!Due(W!Appended(i)) THEN <<turns>> ELSE <<>>
<1>1. i[2] \in Namespaces /\ [j \in Items |-> j[2]][i] = i[2]
  BY DEF Items
<1>2. old \in Seq(Items)
  BY <1>1 DEF BuffersInv, W!Buffer
<1>3. turns \in Seq(Items) /\ W!ItemsIn(turns) \subseteq Waits(i[2]) \cup {i}
  BY AppendedIs DEF W!Buffer
<1>4. W!Flushed(i) = first \o second
  BY <1>1 DEF W!Flushed
<1>5. W!ItemsIn(old) = Waits(i[2])
  BY DEF Waits
<1> DEFINE Good(q) == W!ItemsIn(q) \subseteq Waits(i[2]) \cup {i}
<1>6. Good(old) /\ Good(turns)
  BY <1>3, <1>5
<1> HIDE DEF old, turns, Good
<1>7. first \in Seq(Seq(Items)) /\ \A k \in 1..Len(first) : Good(first[k])
  BY <1>2, <1>6
<1>8. second \in Seq(Seq(Items)) /\ \A k \in 1..Len(second) : Good(second[k])
  BY <1>3, <1>6
<1> HIDE DEF first, second
<1>9. /\ first \o second \in Seq(Seq(Items))
      /\ Len(first \o second) = Len(first) + Len(second)
      /\ \A k \in 1..Len(first) + Len(second) :
           (first \o second)[k] = IF k <= Len(first) THEN first[k] ELSE second[k - Len(first)]
  BY <1>7, <1>8, ConcatProperties
<1>10. ASSUME NEW k \in 1..Len(first \o second) PROVE Good((first \o second)[k])
  <2>1. Len(first) \in Nat /\ Len(second) \in Nat
    BY <1>7, <1>8
  <2>2. CASE k <= Len(first)
    BY <1>7, <1>9, <2>1, <2>2
  <2>3. CASE ~(k <= Len(first))
    <3>1. k - Len(first) \in 1..Len(second)
      BY <1>9, <2>1, <2>3
    <3> QED
      BY <1>8, <1>9, <2>3, <3>1
  <2> QED
    BY <2>2, <2>3
<1> QED
  BY <1>4, <1>9, <1>10 DEF Good

LEMMA EnqueueMoves ==
  ASSUME BuffersInv, NEW i \in Items,
         W!EnqueueDirect(i) \/ W!EnqueueAgain(i) \/ W!EnqueueBuffered(i)
  PROVE  /\ BuffersInv'
         /\ Sent \subseteq Waits(i[2]) \cup {i}
         /\ \A b \in Namespaces : Waits(b)' \subseteq Waits(b) \cup (IF b = i[2] THEN {i} ELSE {})
<1>1. i[2] \in Namespaces /\ [j \in Items |-> j[2]][i] = i[2]
  BY DEF Items
<1>2. buffers \in [Namespaces -> W!Buffer] /\ writes \in Seq(W!Write)
  BY DEF BuffersInv
<1>3. CASE W!EnqueueDirect(i)
  <2> DEFINE batches == << <<i>> >>
  <2>1. W!Dispatch(batches, FALSE) /\ buffers' = buffers
    BY <1>3 DEF W!EnqueueDirect
  <2>2. batches \in Seq(Seq(Items)) /\ \A k \in 1..Len(batches) : batches[k] = <<i>>
    OBVIOUS
  <2>3. W!ItemsIn(<<i>>) = {i}
    BY DEF W!ItemsIn
  <2> HIDE DEF batches
  <2>4. writes' \in Seq(W!Write) /\ \A x \in Sent : \E k \in 1..Len(batches) : x \in W!ItemsIn(batches[k])
    BY <2>1, <2>2, DispatchSends
  <2>5. Sent \subseteq {i}
    BY <2>2, <2>3, <2>4
  <2>6. BuffersInv' /\ \A b \in Namespaces : Waits(b)' \subseteq Waits(b)
    BY <1>2, <2>1, <2>4, FewerWait
  <2> QED
    BY <2>5, <2>6
<1>4. CASE W!EnqueueAgain(i)
  <2>1. /\ buffers' = [c \in Namespaces |-> IF c \in W!Discarded(i[2]) THEN W!NoBuffer ELSE buffers[c]]
        /\ writes' = writes
    BY <1>1, <1>4 DEF W!EnqueueAgain
  <2>2. buffers' \in [Namespaces -> W!Buffer] /\ writes' \in Seq(W!Write)
    BY <1>2, <2>1, NoBufferType
  <2>3. BuffersInv' /\ \A b \in Namespaces : Waits(b)' \subseteq Waits(b)
    BY <2>1, <2>2, FewerWait
  <2> QED
    BY <2>1, <2>3, NothingSent
<1>5. CASE W!EnqueueBuffered(i)
  <2>1. /\ buffers' = [c \in Namespaces |->
             IF c = i[2] THEN IF W!Due(W!Appended(i)) THEN W!NoBuffer ELSE W!Appended(i)
             ELSE IF c \in W!Discarded(i[2]) THEN W!NoBuffer ELSE buffers[c]]
        /\ W!Dispatch(W!Flushed(i), TRUE)
    BY <1>1, <1>5 DEF W!EnqueueBuffered
  <2>2. buffers' \in [Namespaces -> W!Buffer]
    BY <1>2, <2>1, NoBufferType, AppendedIs
  <2>3. writes' \in Seq(W!Write)
        /\ \A x \in Sent : \E k \in 1..Len(W!Flushed(i)) : x \in W!ItemsIn(W!Flushed(i)[k])
    BY <2>1, FlushedIs, DispatchSends
  <2>4. Sent \subseteq Waits(i[2]) \cup {i}
    BY <2>3, FlushedIs
  <2>5. ASSUME NEW b \in Namespaces
        PROVE  W!ItemsIn(buffers'[b].turns) \subseteq Waits(b) \cup (IF b = i[2] THEN {i} ELSE {})
    <3>1. W!ItemsIn(W!NoBuffer.turns) = {}
      BY DEF W!ItemsIn, W!NoBuffer
    <3>2. W!ItemsIn(buffers[b].turns) = Waits(b)
      BY DEF Waits
    <3> QED
      BY <2>1, <3>1, <3>2, AppendedIs
  <2>6. \A b \in Namespaces : Waits(b)' \subseteq Waits(b) \cup (IF b = i[2] THEN {i} ELSE {})
    BY <2>5 DEF Waits, W!ItemsIn
  <2>7. BuffersInv'
    BY <2>2, <2>3, <2>6 DEF BuffersInv
  <2> QED
    BY <2>4, <2>6, <2>7
<1> QED
  BY <1>3, <1>4, <1>5

LEMMA WriteMoves ==
  ASSUME BuffersInv, NEW w \in 1..Len(writes), W!WriteStep(w)
  PROVE  BuffersInv' /\ Sent = {} /\ \A b \in Namespaces : Waits(b)' \subseteq Waits(b)
<1>1. writes \in Seq(W!Write) /\ writes[w] \in W!Write /\ buffers' = buffers
  BY DEF BuffersInv, W!WriteStep, W!PartWritten, W!Retry, W!WriteFails
<1>2. writes[w].part \in 1..1 /\ writes[w].parts \in 1..1 /\ writes[w].attempt \in 1..MaxAttempts
      /\ MaxAttempts \in Nat
  BY <1>1, MemoryAssumption DEF W!Write
<1>3. \E new \in W!Write : writes' = [writes EXCEPT ![w] = new]
  <2>1. CASE W!PartWritten(w)
    <3> DEFINE new == [writes[w] EXCEPT !.status = "written"]
    <3>1. writes' = [writes EXCEPT ![w] = new]
      BY <1>2, <2>1 DEF W!PartWritten
    <3>2. new \in W!Write
      BY <1>1 DEF W!Write, W!Statuses
    <3> QED
      BY <3>1, <3>2
  <2>2. CASE W!Retry(w)
    <3> DEFINE new == [writes[w] EXCEPT !.attempt = @ + 1]
    <3>1. writes' = [writes EXCEPT ![w] = new]
      BY <2>2 DEF W!Retry
    <3>2. writes[w].attempt + 1 \in 1..MaxAttempts
      BY <1>2, <2>2 DEF W!Retry
    <3>3. new \in W!Write
      BY <1>1, <3>2 DEF W!Write
    <3> QED
      BY <3>1, <3>3
  <2>3. CASE W!WriteFails(w)
    <3> DEFINE new == [writes[w] EXCEPT !.status = "failed"]
    <3>1. writes' = [writes EXCEPT ![w] = new]
      BY <2>3 DEF W!WriteFails
    <3>2. new \in W!Write
      BY <1>1 DEF W!Write, W!Statuses
    <3> QED
      BY <3>1, <3>2
  <2> QED
    BY <2>1, <2>2, <2>3 DEF W!WriteStep
<1>4. writes' \in Seq(W!Write) /\ Len(writes') = Len(writes)
  BY <1>1, <1>3, ExceptSeq
<1>5. buffers' \in [Namespaces -> W!Buffer]
  BY <1>1 DEF BuffersInv
<1> QED
  BY <1>1, <1>4, <1>5, NothingSent, FewerWait

LEMMA FlushMoves ==
  ASSUME BuffersInv, NEW b \in Namespaces, W!IdleFlush(b)
  PROVE  BuffersInv' /\ Sent \subseteq Waits(b) /\ \A c \in Namespaces : Waits(c)' \subseteq Waits(c)
<1> DEFINE q == buffers[b].turns
           batches == <<q>>
<1>1. buffers \in [Namespaces -> W!Buffer] /\ q \in Seq(Items)
  BY DEF BuffersInv, W!Buffer
<1>2. W!Dispatch(batches, TRUE) /\ buffers' = [buffers EXCEPT ![b] = W!NoBuffer]
  BY DEF W!IdleFlush
<1>3. batches \in Seq(Seq(Items)) /\ \A k \in 1..Len(batches) : batches[k] = q
  <2> HIDE DEF q
  <2> QED
    BY <1>1
<1>4. W!ItemsIn(q) = Waits(b)
  BY DEF Waits
<1> HIDE DEF batches, q
<1>5. writes' \in Seq(W!Write) /\ \A x \in Sent : \E k \in 1..Len(batches) : x \in W!ItemsIn(batches[k])
  BY <1>2, <1>3, DispatchSends
<1>6. buffers' \in [Namespaces -> W!Buffer]
      /\ \A c \in Namespaces : buffers'[c] = buffers[c] \/ buffers'[c] = W!NoBuffer
  BY <1>1, <1>2, NoBufferType
<1> QED
  BY <1>3, <1>4, <1>5, <1>6, FewerWait

LEMMA DrainMoves ==
  ASSUME BuffersInv, W!Drain
  PROVE  /\ BuffersInv'
         /\ \A x \in Sent : \E b \in Namespaces : x \in Waits(b)
         /\ \A c \in Namespaces : Waits(c)' \subseteq Waits(c)
<1> DEFINE n == W!Cardinality(W!NonEmpty)
<1>1. n \in Nat
  <2>1. W!NonEmpty \subseteq Namespaces
    BY DEF W!NonEmpty
  <2>2. IsFiniteSet(Namespaces)
    <3>1. IsFiniteSet({"folder"}) /\ IsFiniteSet({"git"})
      BY FS_Singleton
    <3>2. IsFiniteSet({"folder"} \cup {"git"})
      BY <3>1, FS_Union
    <3>3. Namespaces = {"folder"} \cup {"git"}
      BY DEF Namespaces
    <3> QED
      BY <3>2, <3>3
  <2>3. W!Cardinality(W!NonEmpty) = Cardinality(W!NonEmpty)
    BY DEF W!Cardinality, Cardinality
  <2> QED
    BY <2>1, <2>2, <2>3, FS_Subset, FS_CardinalityType
<1>2. PICK order \in [1..n -> W!NonEmpty] : W!Dispatch([k \in 1..n |-> buffers[order[k]].turns], TRUE)
  BY DEF W!Drain
<1> DEFINE batches == [k \in 1..n |-> buffers[order[k]].turns]
<1> HIDE DEF n
<1>3. \A k \in 1..n : order[k] \in Namespaces /\ buffers[order[k]].turns \in Seq(Items)
  BY DEF BuffersInv, W!NonEmpty, W!Buffer
<1>4. batches \in Seq(Seq(Items)) /\ Len(batches) = n
      /\ \A k \in 1..n : batches[k] = buffers[order[k]].turns
  BY <1>1, <1>3
<1>5. W!Dispatch(batches, TRUE)
  BY <1>2
<1> HIDE DEF batches
<1>6. writes' \in Seq(W!Write) /\ \A x \in Sent : \E k \in 1..Len(batches) : x \in W!ItemsIn(batches[k])
  BY <1>4, <1>5, DispatchSends
<1>7. \A x \in Sent : \E b \in Namespaces : x \in Waits(b)
  BY <1>3, <1>4, <1>6 DEF Waits
<1>8. buffers' \in [Namespaces -> W!Buffer] /\ \A c \in Namespaces : buffers'[c] = W!NoBuffer
  BY NoBufferType DEF W!Drain
<1> QED
  BY <1>6, <1>7, <1>8, FewerWait

\* A step of the writeback runtime alone sends what waits, and nothing comes to wait.
LEMMA WritebackMoves ==
  ASSUME BuffersInv, WritebackStep
  PROVE  /\ BuffersInv'
         /\ \A x \in Sent : \E b \in Namespaces : x \in Waits(b)
         /\ \A b \in Namespaces : Waits(b)' \subseteq Waits(b)
<1>1. CASE W!DrainResolves \/ W!Close
  <2>1. writes' = writes /\ buffers' \in [Namespaces -> W!Buffer]
        /\ \A b \in Namespaces : buffers'[b] = buffers[b] \/ buffers'[b] = W!NoBuffer
    BY <1>1, NoBufferType DEF W!DrainResolves, W!Close, BuffersInv
  <2>2. writes' \in Seq(W!Write)
    BY <2>1 DEF BuffersInv
  <2> QED
    BY <2>1, <2>2, FewerWait, NothingSent
<1>2. ASSUME NEW b \in Namespaces, W!IdleFlush(b)
      PROVE  /\ BuffersInv'
             /\ \A x \in Sent : \E c \in Namespaces : x \in Waits(c)
             /\ \A c \in Namespaces : Waits(c)' \subseteq Waits(c)
  BY <1>2, FlushMoves
<1>3. ASSUME NEW w \in 1..Len(writes), W!WriteStep(w)
      PROVE  BuffersInv' /\ Sent = {} /\ \A c \in Namespaces : Waits(c)' \subseteq Waits(c)
  BY <1>3, WriteMoves
<1> QED
  BY <1>1, <1>2, <1>3, DrainMoves DEF WritebackStep

-----------------------------------------------------------------------------
(* The invariant.                                                           *)

LEMMA MemoryInit == Init => MemoryInv
<1> SUFFICES ASSUME Init PROVE MemoryInv
  OBVIOUS
<1>1. /\ writes = <<>> /\ buffers = [b \in Namespaces |-> W!NoBuffer]
  BY DEF Init, W!Init
<1>2. \A b \in Namespaces : Waits(b) = {}
  BY <1>1 DEF Waits, W!ItemsIn, W!NoBuffer
<1>3. BuffersInv
  BY <1>1, <1>2, NoBufferType DEF BuffersInv
<1>4. AnswersInv
  BY KnownScopes DEF Init, AnswersInv, Resting
<1>5. FallbackInv
  BY <1>2 DEF FallbackInv, Namespaces
<1> QED
  BY <1>3, <1>4, <1>5, ScopeInit DEF MemoryInv

\* An answer keeps the buffers, and empties the fallback's when it leaves the fallback.
LEMMA AnsweredKeeps ==
  ASSUME MemoryInv, Answered(Resolved)
  PROVE  /\ BuffersInv' /\ FallbackInv' /\ Sent = {}
         /\ binding'.scope # NoScope
         /\ binding.scope = Verified => binding'.scope = Verified
<1>1. ScopeInv /\ BuffersInv /\ FallbackInv
  BY DEF MemoryInv
<1>2. binding'.scope \in {Fallback, Verified} /\ Fallback # NoScope /\ Verified # NoScope /\ Fallback # Verified
  BY <1>1, AnsweredIs, KnownScopes
<1>3. CASE UNCHANGED writeback /\ (binding.scope = NoScope \/ binding' = binding)
  <2>1. writes' = writes /\ buffers' = buffers
    BY <1>3 DEF writeback
  <2>2. Sent = {} /\ BuffersInv'
    BY <1>1, <2>1, NothingSent DEF BuffersInv, Waits, W!ItemsIn
  <2>3. Waits("folder")' = Waits("folder")
    BY <2>1 DEF Waits, W!ItemsIn
  <2>4. FallbackInv'
    BY <1>1, <1>2, <1>3, <2>3 DEF FallbackInv
  <2> QED
    BY <1>2, <1>3, <2>2, <2>4
<1>4. CASE binding.scope = Fallback /\ binding'.scope = Verified /\ W!DiscardForScopeUpgrade("git")
  <2>1. BuffersInv' /\ Sent = {} /\ Waits("folder")' = {}
    BY <1>1, <1>4, DiscardMoves
  <2>2. FallbackInv'
    BY <2>1 DEF FallbackInv
  <2> QED
    BY <1>2, <1>4, <2>1, <2>2
<1> QED
  BY <1>1, <1>3, <1>4, AnsweredIs

\* The turn of a completion that has its answer belongs to the session's namespace.
LEMMA ItemIsBound ==
  ASSUME MemoryInv, NEW c \in Completions, completion[c].phase = "answered"
  PROVE  /\ ItemOf(c) \in Items
         /\ ItemOf(c)[2] = IF binding.scope = Verified THEN "git" ELSE "folder"
<1>1. CompletionOf[c] \in Turns
  BY MemoryAssumption
<1> DEFINE m == completion[c].registered
           a == completion[c].answer
<1>2. a = binding.scope /\ a \in {Fallback, Verified} /\ m \in Known
  BY <1>1 DEF MemoryInv, ScopeInv, KnownCompletion, AnswersInv, Known
<1>3. Chosen(m, a).kind = a.kind
  BY DEF Chosen, ScopesMatch
<1>4. ItemOf(c) = <<CompletionOf[c], IF Chosen(m, a).kind = "git" THEN "git" ELSE "folder">>
  BY DEF ItemOf
<1> HIDE DEF m, a
<1> QED
  BY <1>1, <1>2, <1>3, <1>4, KnownScopes DEF Items, Namespaces

LEMMA MemoryStep == ~HeldAnswers /\ MemoryInv /\ [Next]_vars => MemoryInv'
<1> SUFFICES ASSUME ~HeldAnswers, MemoryInv, [Next]_vars PROVE MemoryInv'
  OBVIOUS
<1>0. ScopeInv /\ BuffersInv /\ AnswersInv /\ FallbackInv
  BY DEF MemoryInv
<1>s. ScopeInv'
  BY <1>0, ScopeStep
<1>t. /\ metadata \in [Turns -> Known]
      /\ completion \in [Completions -> KnownCompletion]
  BY <1>0 DEF ScopeInv
<1>1. ASSUME NEW t \in Turns, StartTurn(t) PROVE BuffersInv' /\ AnswersInv' /\ FallbackInv'
  <2>1. /\ BuffersInv' /\ FallbackInv' /\ binding'.scope # NoScope
        /\ binding.scope = Verified => binding'.scope = Verified
    BY <1>1, AnsweredKeeps DEF StartTurn
  <2>2. \A c \in Completions : /\ completion'[c].phase # "answered"
                               /\ completion'[c].registered = completion[c].registered
    <3>1. \A c \in Completions : completion[c].phase # "answered"
      BY <1>1 DEF StartTurn, Undisturbed
    <3> TAKE c \in Completions
    <3> DEFINE b == completion[c].own /\ CompletionOf[c] # t
    <3>2. completion'[c] = [completion[c] EXCEPT !.own = b] /\ completion[c] \in KnownCompletion
      BY <1>1, <1>t DEF StartTurn
    <3> HIDE DEF b
    <3> QED
      BY <3>1, <3>2 DEF KnownCompletion
  <2>3. \A u \in Turns : metadata'[u] = IF u = t THEN binding'.scope ELSE metadata[u]
    BY <1>1, <1>t DEF StartTurn
  <2>4. AnswersInv'
    BY <1>0, <2>1, <2>2, <2>3 DEF AnswersInv
  <2> QED
    BY <2>1, <2>4
<1>2. ASSUME NEW c \in Completions, AnswerCompletion(c) PROVE BuffersInv' /\ AnswersInv' /\ FallbackInv'
  <2>1. /\ BuffersInv' /\ FallbackInv' /\ binding'.scope # NoScope
        /\ binding.scope = Verified => binding'.scope = Verified
    BY <1>2, AnsweredKeeps DEF AnswerCompletion
  <2>2. \A d \in Completions :
          /\ completion'[d].registered = completion[d].registered
          /\ completion'[d].phase = IF d = c THEN "answered" ELSE completion[d].phase
          /\ completion'[d].answer = IF d = c THEN binding'.scope ELSE completion[d].answer
    BY <1>2, <1>t DEF AnswerCompletion, KnownCompletion
  <2>3. \A d \in Completions : completion[d].phase # "answered"
    BY <1>2 DEF AnswerCompletion, Undisturbed
  <2>4. metadata' = metadata
    BY <1>2 DEF AnswerCompletion
  <2>5. \A d \in Completions : completion'[d].phase = "answered" => completion'[d].answer = binding'.scope
    BY <2>2, <2>3
  <2>6. AnswersInv'
    BY <1>0, <2>1, <2>2, <2>4, <2>5 DEF AnswersInv
  <2> QED
    BY <2>1, <2>6
<1>3. ASSUME NEW c \in Completions, Complete(c) PROVE BuffersInv' /\ AnswersInv' /\ FallbackInv'
  <2>1. binding' = binding /\ completion[c].phase = "answered"
        /\ completion' = [completion EXCEPT ![c] = Resting("done")]
        /\ (metadata' = metadata \/ metadata' = [metadata EXCEPT ![CompletionOf[c]] = NoScope])
    BY <1>3 DEF Complete, Consume
  <2>2. \A d \in Completions :
          /\ completion'[d].phase = "answered" => completion'[d] = completion[d]
          /\ completion'[d].registered # NoScope => completion'[d] = completion[d]
    BY <1>t, <2>1 DEF Resting
  <2>3. \A u \in Turns : metadata'[u] = metadata[u] \/ metadata'[u] = NoScope
    BY <1>t, <2>1
  <2>4. AnswersInv'
    BY <1>0, <2>1, <2>2, <2>3, KnownScopes DEF AnswersInv
  <2>5. /\ BuffersInv'
        /\ \A b \in Namespaces : Waits(b)' \subseteq Waits(b) \cup (IF b = ItemOf(c)[2] THEN {ItemOf(c)} ELSE {})
    <3>1. CASE UNCHANGED writeback
      BY <1>0, <3>1 DEF writeback, BuffersInv, Waits, W!ItemsIn
    <3>2. CASE \/ W!EnqueueDirect(ItemOf(c)) \/ W!EnqueueAgain(ItemOf(c))
               \/ W!EnqueueBuffered(ItemOf(c))
      BY <1>0, <2>1, <3>2, ItemIsBound, EnqueueMoves
    <3> QED
      BY <1>3, <3>1, <3>2 DEF Complete
  <2>6. binding.scope # Fallback => ItemOf(c)[2] = "git"
    BY <1>0, <2>1, ItemIsBound DEF ScopeInv, AnswersInv, Known
  <2>7. FallbackInv'
    BY <1>0, <2>1, <2>5, <2>6 DEF FallbackInv, Namespaces
  <2> QED
    BY <2>4, <2>5, <2>7
<1>4. ASSUME WritebackStep PROVE BuffersInv' /\ AnswersInv' /\ FallbackInv'
  <2>1. BuffersInv' /\ \A b \in Namespaces : Waits(b)' \subseteq Waits(b)
    BY <1>0, <1>4, WritebackMoves
  <2>2. UNCHANGED <<binding, metadata, completion>>
    BY <1>4 DEF WritebackStep
  <2>3. AnswersInv'
    BY <1>0, <2>2 DEF AnswersInv
  <2>4. FallbackInv'
    BY <1>0, <2>1, <2>2 DEF FallbackInv, Namespaces
  <2> QED
    BY <2>1, <2>3, <2>4
<1>5. ASSUME MeetMismatch \/ ChangeGit \/ UNCHANGED vars PROVE BuffersInv' /\ AnswersInv' /\ FallbackInv'
  <2>1. UNCHANGED <<metadata, completion, writes, buffers>> /\ binding'.scope = binding.scope
    BY <1>0, <1>5 DEF MeetMismatch, ChangeGit, vars, writeback, ScopeInv
  <2>2. AnswersInv'
    BY <1>0, <2>1 DEF AnswersInv
  <2>3. BuffersInv' /\ \A b \in Namespaces : Waits(b)' \subseteq Waits(b)
    <3>1. /\ buffers' \in [Namespaces -> W!Buffer] /\ writes' \in Seq(W!Write)
          /\ \A b \in Namespaces : buffers'[b] = buffers[b]
      BY <1>0, <2>1 DEF BuffersInv
    <3> QED
      BY <1>0, <3>1, FewerWait
  <2>4. FallbackInv'
    BY <1>0, <2>1, <2>3 DEF FallbackInv, Namespaces
  <2> QED
    BY <2>2, <2>3, <2>4
<1>6. ASSUME NEW c \in Completions, BeginCompletion(c) PROVE BuffersInv' /\ AnswersInv' /\ FallbackInv'
  <2>1. /\ UNCHANGED <<binding, metadata, writes, buffers>>
        /\ \A d \in Completions :
             /\ completion'[d].phase = "answered" => completion'[d] = completion[d]
             /\ completion'[d].registered \in {completion[d].registered, metadata[CompletionOf[d]]}
    BY <1>6, <1>t DEF BeginCompletion, writeback
  <2>2. AnswersInv'
    BY <1>0, <2>1, MemoryAssumption, KnownScopes DEF AnswersInv
  <2>3. BuffersInv' /\ \A b \in Namespaces : Waits(b)' \subseteq Waits(b)
    <3>1. /\ buffers' \in [Namespaces -> W!Buffer] /\ writes' \in Seq(W!Write)
          /\ \A b \in Namespaces : buffers'[b] = buffers[b]
      BY <1>0, <2>1 DEF BuffersInv
    <3> QED
      BY <1>0, <3>1, FewerWait
  <2>4. FallbackInv'
    BY <1>0, <2>1, <2>3 DEF FallbackInv, Namespaces
  <2> QED
    BY <2>2, <2>3, <2>4
<1>7. BuffersInv' /\ AnswersInv' /\ FallbackInv'
  BY <1>1, <1>2, <1>3, <1>4, <1>5, <1>6 DEF Next
<1> QED
  BY <1>s, <1>7 DEF MemoryInv

\* No turn of the fallback is sent by a step of a session bound to the verified namespace.
LEMMA SentIsBound ==
  ASSUME MemoryInv, Next, binding.scope = Verified
  PROVE  \A x \in Sent : x[2] = "git"
<1>0. /\ BuffersInv /\ Waits("folder") = {}
      /\ \A x \in Waits("git") : x[2] = "git"
  BY KnownScopes DEF MemoryInv, FallbackInv, BuffersInv, Namespaces
<1>1. ASSUME Answered(Resolved) PROVE Sent = {}
  BY <1>1, AnsweredKeeps
<1>2. ASSUME NEW c \in Completions, Complete(c) PROVE \A x \in Sent : x[2] = "git"
  <2>1. completion[c].phase = "answered"
    BY <1>2 DEF Complete
  <2>2. ItemOf(c) \in Items /\ ItemOf(c)[2] = "git"
    BY <2>1, ItemIsBound
  <2>3. CASE UNCHANGED writeback
    BY <1>0, <2>3, NothingSent DEF writeback
  <2>4. CASE \/ W!EnqueueDirect(ItemOf(c)) \/ W!EnqueueAgain(ItemOf(c))
             \/ W!EnqueueBuffered(ItemOf(c))
    BY <1>0, <2>2, <2>4, EnqueueMoves
  <2> QED
    BY <1>2, <2>3, <2>4 DEF Complete
<1>3. CASE WritebackStep
  BY <1>0, <1>3, WritebackMoves DEF Namespaces
<1>4. CASE (\E c \in Completions : BeginCompletion(c)) \/ MeetMismatch \/ ChangeGit
  BY <1>0, <1>4, NothingSent DEF BeginCompletion, MeetMismatch, ChangeGit, writeback
<1> QED
  BY <1>1, <1>2, <1>3, <1>4 DEF Next, StartTurn, AnswerCompletion

-----------------------------------------------------------------------------
\* While no answer is held across an await, the scope a turn started with and the answer
\* its completion gets agree: completeMaterializedTurn never has to refuse one.
THEOREM StartedTurnsKeepTheirScope == ~HeldAnswers => (Spec => []StartedTurnsAgree)
<1> SUFFICES ASSUME ~HeldAnswers PROVE Spec => []StartedTurnsAgree
  OBVIOUS
<1>1. MemoryInv /\ [Next]_vars => MemoryInv'
  BY MemoryStep
<1>2. MemoryInv => StartedTurnsAgree
  <2> SUFFICES ASSUME MemoryInv, NEW c \in Completions, completion[c].phase = "answered"
               PROVE  Agrees(completion[c].registered, completion[c].answer)
    BY DEF StartedTurnsAgree
  <2>1. /\ completion[c].registered \in Known /\ completion[c].answer \in {Fallback, Verified}
        /\ completion[c].registered = Verified => completion[c].answer = Verified
    BY DEF MemoryInv, ScopeInv, KnownCompletion, AnswersInv, Known
  <2> QED
    BY <2>1, KnownScopes DEF Agrees, Known
<1> QED
  BY <1>1, <1>2, MemoryInit, PTL DEF Spec

\* While no answer is held across an await, nothing that waited for the fallback is sent
\* once the session has moved to the verified Git namespace.
THEOREM FallbackIsNotSent == ~HeldAnswers => (Spec => NoFallbackAfterUpgrade)
<1> SUFFICES ASSUME ~HeldAnswers PROVE Spec => NoFallbackAfterUpgrade
  OBVIOUS
<1> DEFINE Clean == binding.scope.kind = "git" =>
             \A w \in Len(writes) + 1 .. Len(writes') :
               writes'[w].status # "blocked" =>
                 \A k \in 1..Len(writes'[w].turns) : writes'[w].turns[k][2] = "git"
<1>1. MemoryInv /\ [Next]_vars => MemoryInv'
  BY MemoryStep
<1>2. MemoryInv /\ [Next]_vars => [Clean]_vars
  <2> SUFFICES ASSUME MemoryInv, Next, binding.scope.kind = "git",
                      NEW w \in Len(writes) + 1 .. Len(writes'),
                      NEW k \in 1..Len(writes'[w].turns)
               PROVE  writes'[w].turns[k][2] = "git"
    OBVIOUS
  <2>1. binding.scope = Verified
    BY KnownScopes DEF MemoryInv, ScopeInv, Known
  <2>2. writes'[w].turns[k] \in Sent
    BY DEF Sent, W!ItemsIn
  <2> QED
    BY <2>1, <2>2, SentIsBound
<1> QED
  BY <1>1, <1>2, MemoryInit, PTL DEF Spec, NoFallbackAfterUpgrade
=============================================================================
