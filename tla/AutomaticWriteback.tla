-------------------------- MODULE AutomaticWriteback --------------------------
(***************************************************************************)
(* Automatic writeback: completed turns are accepted, buffered per session *)
(* and namespace, flushed in batches and written to the MemoraX provider.  *)
(* Sources: memory/automatic-writeback.ts and memory/writeback-buffer.ts   *)
(* of packages/ts/memorax-code-backend/src.                                *)
(*                                                                         *)
(* The code is one JavaScript thread: each action is one synchronous       *)
(* stretch between two awaits.  An item is a completed turn as its         *)
(* idempotency key identifies it (client, namespace, session, both texts), *)
(* so a turn that is reported twice is the same item twice.  What a turn   *)
(* says is abstracted to its length.                                       *)
(***************************************************************************)
EXTENDS Integers, Sequences, FiniteSets

CONSTANTS
  Items,        \* turns, by idempotency key
  Buffers,      \* (client, namespace, session) triples: the keys of writebackBuffers
  BufferOf,     \* the triple an item belongs to
  Chars,        \* writebackMessagesContentChars of an item
  Upgrades,     \* <<old, new>>: same session, old is the degraded-Git namespace of new
  MaxTurns,     \* buffer_max_turns
  MaxChars,     \* buffer_max_chars
  MaxParts,     \* most chunks a batch is split into
  MaxAttempts,  \* AUTOMATIC_MEMORY_WRITEBACK_MAX_ATTEMPTS
  DedupeMax,    \* WRITEBACK_DEDUPE_MAX
  ModeChanges,  \* may buffer_enabled change in the config file while the Backend runs?
  MaxTaken      \* bound on the turns taken up (buffered or dispatched)

ASSUME ItemsAssumption ==
  /\ IsFiniteSet(Buffers)
  /\ BufferOf \in [Items -> Buffers]
  /\ Chars \in [Items -> Nat]
  /\ Upgrades \subseteq Buffers \X Buffers
  /\ \A b \in Buffers : <<b, b>> \notin Upgrades
ASSUME LimitsAssumption ==
  /\ {MaxTurns, MaxParts, MaxAttempts} \subseteq Nat \ {0}
  /\ {MaxChars, DedupeMax, MaxTaken} \subseteq Nat
  /\ ModeChanges \in BOOLEAN

VARIABLES
  bufferOn,   \* memoryWritebackBufferEnabled, read anew by every enqueue
  accepting,  \* state.accepting
  buffers,    \* the buffer of each triple; no turns: no entry in writebackBuffers
  writes,     \* the dispatches, in the order they were started
  pending,    \* pendingWritebacks: <<w, p>> is the key of turn p of writes[w], p = 0 its batch key
  drain,      \* the promise of drain(): "none", "waiting" or "resolved"
  awaited,    \* the dispatches that promise waits for
  taken,      \* number of turns taken up (bounded by MaxTaken)
  outcome,    \* history: what became of the latest acceptance of an item
  lapsed      \* history: the dispatches that lost a reservation other than by their own failure

vars == <<bufferOn, accepting, buffers, writes, pending, drain, awaited, taken,
          outcome, lapsed>>

Statuses == {"running", "written", "failed", "blocked"}
Outcomes == {"none", "open", "written", "failed", "discarded", "dropped"}

Buffer == [turns : Seq(Items), chars : Nat, armed : BOOLEAN]
Write == [turns : Seq(Items), batch : BOOLEAN, parts : 1..MaxParts,
          part : 1..MaxParts, attempt : 1..MaxAttempts, status : Statuses]

PendingType ==
  /\ pending \subseteq (1..Len(writes)) \X Nat
  /\ \A e \in pending : e[2] <= Len(writes[e[1]].turns)

TypeOK ==
  /\ bufferOn \in BOOLEAN
  /\ accepting \in BOOLEAN
  /\ buffers \in [Buffers -> Buffer]
  /\ writes \in Seq(Write)
  /\ PendingType
  /\ drain \in {"none", "waiting", "resolved"}
  /\ awaited \subseteq 1..Len(writes)
  /\ taken \in 0..MaxTaken
  /\ outcome \in [Items -> Outcomes]
  /\ lapsed \subseteq 1..Len(writes)

ItemsIn(q) == {q[k] : k \in 1..Len(q)}
Running(w) == writes[w].status = "running"
NoBuffer == [turns |-> <<>>, chars |-> 0, armed |-> FALSE]

Init ==
  /\ bufferOn \in BOOLEAN
  /\ accepting = TRUE
  /\ buffers = [b \in Buffers |-> NoBuffer]
  /\ writes = <<>>
  /\ pending = {}
  /\ drain = "none"
  /\ awaited = {}
  /\ taken = 0
  /\ outcome = [i \in Items |-> "none"]
  /\ lapsed = {}

-----------------------------------------------------------------------------
(* Reservations.  A key is only reserved when it is not pending, so the Map *)
(* lists its keys in the order they were reserved, and the order of         *)
(* dispatches and of turns in a batch is that order.                        *)

ReservedBy(i, e) == e[2] > 0 /\ writes[e[1]].turns[e[2]] = i
Reserved(i) == \E e \in pending : ReservedBy(i, e)
BatchReservedBy(q, e) == e[2] = 0 /\ writes[e[1]].turns = q
Blocked(q) ==
  \E e \in pending : BatchReservedBy(q, e) \/ \E i \in ItemsIn(q) : ReservedBy(i, e)

Later(e, f) == e[1] > f[1] \/ (e[1] = f[1] /\ e[2] > f[2])
Newest(E) == {e \in E : Cardinality({f \in E : Later(f, e)}) < DedupeMax}

\* Mutant: the failed batch releases its own key and keeps those of its turns.
OwnKeysOfBatch(w) ==
  {e \in pending : IF writes[w].batch
                   THEN BatchReservedBy(writes[w].turns, e)
                   ELSE \E i \in ItemsIn(writes[w].turns) : ReservedBy(i, e)}

\* The entries the dispatch of w releases by key when it fails for good.
OwnKeys(w) ==
  {e \in pending : \/ \E i \in ItemsIn(writes[w].turns) : ReservedBy(i, e)
                   \/ writes[w].batch /\ BatchReservedBy(writes[w].turns, e)}

-----------------------------------------------------------------------------
(* Dispatching a sequence of batches in one synchronous stretch.  A batch   *)
(* with a pending key is thrown away (blocked): flushMemoryWritebackBuffer  *)
(* has removed the buffer before it looks.  The stretch looks at the keys   *)
(* pending before it: its own batches share no key.                         *)

NewWrite(q, batch, parts) ==
  [turns |-> q, batch |-> batch, parts |-> parts, part |-> 1, attempt |-> 1,
   status |-> IF batch /\ Blocked(q) THEN "blocked" ELSE "running"]

\* A blocked turn whose text a remembered dispatch has written is not lost.
WrittenBefore(i) ==
  \E e \in pending : writes[e[1]].status = "written" /\ i \in ItemsIn(writes[e[1]].turns)

\* The keys a dispatch reserves: its batch key, if it has one, and its turns'.
KeysOf(w, q, batch) == {<<w, p>> : p \in (IF batch THEN 0 ELSE 1)..Len(q)}

NewKeys(batches, batch) ==
  UNION {KeysOf(Len(writes) + k, batches[k], batch) :
           k \in {n \in 1..Len(batches) : ~(batch /\ Blocked(batches[n]))}}

Dispatch(batches, batch) ==
  LET all == pending \cup NewKeys(batches, batch)
  IN /\ \E parts \in [1..Len(batches) -> 1..MaxParts] :
          writes' = writes \o [k \in 1..Len(batches) |-> NewWrite(batches[k], batch, parts[k])]
     /\ pending' = Newest(all)
     /\ lapsed' = lapsed \cup {e[1] : e \in all \ Newest(all)}

\* What the blocked batches among these leave of their turns' outcomes.
Settled(batches, out) ==
  [i \in Items |-> IF /\ \E k \in 1..Len(batches) :
                            i \in ItemsIn(batches[k]) /\ Blocked(batches[k])
                      /\ WrittenBefore(i)
                   THEN "written" ELSE out[i]]

Discarded(b) == {c \in Buffers : <<c, b>> \in Upgrades /\ buffers[c].turns # <<>>}
DiscardedItems(b) == UNION {ItemsIn(buffers[c].turns) : c \in Discarded(b)}

-----------------------------------------------------------------------------
(* enqueue: rejections and duplicates that change nothing are no steps.     *)

\* Mutant: a replayed turn is not looked up among the pending ones.
MayTakeUnchecked(i) == accepting /\ taken < MaxTaken

MayTake(i) == accepting /\ ~Reserved(i) /\ taken < MaxTaken

\* buffer_enabled is false: the turn is dispatched at once, whatever is buffered.
EnqueueDirect(i) ==
  /\ MayTake(i) /\ ~bufferOn
  /\ Dispatch(<< <<i>> >>, FALSE)
  /\ taken' = taken + 1
  /\ outcome' = [outcome EXCEPT ![i] = "open"]
  /\ UNCHANGED <<bufferOn, accepting, buffers, drain, awaited>>

\* The turn is already in its buffer: only an upgrade's discard has an effect.
EnqueueAgain(i) ==
  LET b == BufferOf[i]
  IN /\ accepting /\ ~Reserved(i) /\ bufferOn
     /\ i \in ItemsIn(buffers[b].turns)
     /\ buffers' = [c \in Buffers |-> IF c \in Discarded(b) THEN NoBuffer ELSE buffers[c]]
     /\ outcome' = [j \in Items |-> IF j \in DiscardedItems(b) THEN "discarded" ELSE outcome[j]]
     /\ UNCHANGED <<bufferOn, accepting, writes, pending, drain, awaited, taken, lapsed>>

Overflows(i) ==
  LET old == buffers[BufferOf[i]]
  IN old.turns # <<>> /\ old.chars + Chars[i] > MaxChars

\* Mutant: the idle timer is only reset, never set for a new buffer.
AppendedUnarmed(i) ==
  LET old == buffers[BufferOf[i]]
  IN IF Overflows(i)
     THEN [turns |-> <<i>>, chars |-> Chars[i], armed |-> FALSE]
     ELSE [turns |-> Append(old.turns, i), chars |-> old.chars + Chars[i], armed |-> old.armed]

\* The buffer an enqueue of i leaves before the limits are checked.
Appended(i) ==
  LET old == buffers[BufferOf[i]]
  IN IF Overflows(i)
     THEN [turns |-> <<i>>, chars |-> Chars[i], armed |-> TRUE]
     ELSE [turns |-> Append(old.turns, i), chars |-> old.chars + Chars[i], armed |-> TRUE]

Due(buffer) == Len(buffer.turns) >= MaxTurns \/ buffer.chars > MaxChars

\* Mutant: the character limit starts a new buffer without flushing the old one.
FlushedAfterOnly(i) == IF Due(Appended(i)) THEN <<Appended(i).turns>> ELSE <<>>

Flushed(i) ==
  (IF Overflows(i) THEN <<buffers[BufferOf[i]].turns>> ELSE <<>>)
    \o (IF Due(Appended(i)) THEN <<Appended(i).turns>> ELSE <<>>)

EnqueueBuffered(i) ==
  LET b == BufferOf[i]
      kept == [j \in Items |-> IF j \in DiscardedItems(b) THEN "discarded" ELSE outcome[j]]
  IN /\ MayTake(i) /\ bufferOn
     /\ i \notin ItemsIn(buffers[b].turns)
     /\ buffers' = [c \in Buffers |->
          IF c = b THEN IF Due(Appended(i)) THEN NoBuffer ELSE Appended(i)
          ELSE IF c \in Discarded(b) THEN NoBuffer ELSE buffers[c]]
     /\ Dispatch(Flushed(i), TRUE)
     /\ outcome' = Settled(Flushed(i), [kept EXCEPT ![i] = "open"])
     /\ taken' = taken + 1
     /\ UNCHANGED <<bufferOn, accepting, drain, awaited>>

-----------------------------------------------------------------------------
(* The buffer's other operations.                                           *)

\* The idle timer of a buffer fires; clearing a timer keeps it from firing later.
IdleFlush(b) ==
  /\ buffers[b].armed
  /\ buffers' = [buffers EXCEPT ![b] = NoBuffer]
  /\ Dispatch(<<buffers[b].turns>>, TRUE)
  /\ outcome' = Settled(<<buffers[b].turns>>, outcome)
  /\ UNCHANGED <<bufferOn, accepting, drain, awaited, taken>>

\* The session has moved to b: what waits for its degraded namespace is dropped.
DiscardForScopeUpgrade(b) ==
  /\ buffers' = [c \in Buffers |-> IF c \in Discarded(b) THEN NoBuffer ELSE buffers[c]]
  /\ outcome' = [j \in Items |-> IF j \in DiscardedItems(b) THEN "discarded" ELSE outcome[j]]
  /\ UNCHANGED <<bufferOn, accepting, writes, pending, drain, awaited, taken, lapsed>>

-----------------------------------------------------------------------------
(* One dispatch: parts in order, at most MaxAttempts calls for each.        *)

PartWritten(w) ==
  /\ Running(w)
  /\ IF writes[w].part < writes[w].parts
     THEN /\ writes' = [writes EXCEPT ![w].part = @ + 1, ![w].attempt = 1]
          /\ UNCHANGED outcome
     ELSE /\ writes' = [writes EXCEPT ![w].status = "written"]
          /\ outcome' = [i \in Items |->
               IF i \in ItemsIn(writes[w].turns) THEN "written" ELSE outcome[i]]
  /\ UNCHANGED <<bufferOn, accepting, buffers, pending, drain, awaited, taken, lapsed>>

\* Timeout, transport, 408, 429 or 5xx: called again after a delay.
Retry(w) ==
  /\ Running(w)
  /\ writes[w].attempt < MaxAttempts
  /\ writes' = [writes EXCEPT ![w].attempt = @ + 1]
  /\ UNCHANGED <<bufferOn, accepting, buffers, pending, drain, awaited, taken, outcome, lapsed>>

\* A final answer, the last attempt, or an exception; the failure is recorded.
WriteFails(w) ==
  /\ Running(w)
  /\ writes' = [writes EXCEPT ![w].status = "failed"]
  /\ pending' = pending \ OwnKeys(w)
  /\ lapsed' = lapsed \cup ({e[1] : e \in OwnKeys(w)} \ {w})
  /\ outcome' = [i \in Items |-> IF i \in ItemsIn(writes[w].turns) THEN "failed" ELSE outcome[i]]
  /\ UNCHANGED <<bufferOn, accepting, buffers, drain, awaited, taken>>

\* WRITEBACK_DEDUPE_TTL_MS after a dispatch its keys are pruned, oldest first.
Expire(w) ==
  LET keys == {e \in pending : e[1] = w}
  IN /\ keys # {}
     /\ \A e \in pending : w <= e[1]
     /\ pending' = pending \ keys
     /\ lapsed' = lapsed \cup {w}
     /\ UNCHANGED <<bufferOn, accepting, buffers, writes, drain, awaited, taken, outcome>>

-----------------------------------------------------------------------------
(* Shutdown.                                                                *)

NonEmpty == {b \in Buffers : buffers[b].turns # <<>>}

\* Mutant: the promise is made of the dispatches that ran before the flush.
AwaitedBeforeFlush == {w \in 1..Len(writes) : Running(w)}

\* state.inFlight once the buffers are flushed.
RunningAfter == {w \in 1..Len(writes') : writes'[w].status = "running"}

\* flushAll follows the order of the buffers' creation: any order.
Drain ==
  /\ drain = "none"
  /\ accepting' = FALSE
  /\ \E order \in [1..Cardinality(NonEmpty) -> NonEmpty] :
       LET batches == [k \in 1..Cardinality(NonEmpty) |-> buffers[order[k]].turns]
       IN /\ \A j, k \in 1..Cardinality(NonEmpty) : j # k => order[j] # order[k]
          /\ Dispatch(batches, TRUE)
          /\ outcome' = Settled(batches, outcome)
  /\ buffers' = [b \in Buffers |-> NoBuffer]
  /\ drain' = "waiting"
  /\ awaited' = RunningAfter
  /\ UNCHANGED <<bufferOn, taken>>

DrainResolves ==
  /\ drain = "waiting"
  /\ \A w \in awaited : ~Running(w)
  /\ drain' = "resolved"
  /\ UNCHANGED <<bufferOn, accepting, buffers, writes, pending, awaited, taken, outcome, lapsed>>

\* Mutant: the buffers and their timers outlive close().
CloseKeepsBuffers ==
  /\ accepting' = FALSE
  /\ pending' = {}
  /\ lapsed' = lapsed \cup {e[1] : e \in pending}
  /\ UNCHANGED <<bufferOn, buffers, writes, drain, awaited, taken, outcome>>

Close ==
  /\ accepting' = FALSE
  /\ buffers' = [b \in Buffers |-> NoBuffer]
  /\ pending' = {}
  /\ lapsed' = lapsed \cup {e[1] : e \in pending}
  /\ outcome' = [i \in Items |->
       IF \E b \in Buffers : i \in ItemsIn(buffers[b].turns) THEN "dropped" ELSE outcome[i]]
  /\ UNCHANGED <<bufferOn, writes, drain, awaited, taken>>

ChangeMode ==
  /\ ModeChanges
  /\ bufferOn' = ~bufferOn
  /\ UNCHANGED <<accepting, buffers, writes, pending, drain, awaited, taken, outcome, lapsed>>

-----------------------------------------------------------------------------
WriteStep(w) == PartWritten(w) \/ Retry(w) \/ WriteFails(w)

Next ==
  \/ \E i \in Items : EnqueueDirect(i) \/ EnqueueAgain(i) \/ EnqueueBuffered(i)
  \/ \E b \in Buffers : IdleFlush(b) \/ DiscardForScopeUpgrade(b)
  \/ \E w \in 1..Len(writes) : WriteStep(w) \/ Expire(w)
  \/ Drain \/ DrainResolves \/ Close \/ ChangeMode

Spec == Init /\ [][Next]_vars

-----------------------------------------------------------------------------
(* Safety.                                                                  *)

Waiting(i) == \E b \in Buffers : i \in ItemsIn(buffers[b].turns)
Travelling(i) == \E w \in 1..Len(writes) : Running(w) /\ i \in ItemsIn(writes[w].turns)

\* An accepted turn is buffered, on its way to the provider, or has an outcome:
\* written, a recorded failure, discarded by a scope upgrade, dropped by close.
NothingLost == \A i \in Items : outcome[i] = "open" => Waiting(i) \/ Travelling(i)

\* Two dispatches carry the same turn only if the first failed or lost its
\* reservation (expired, evicted, released by an older dispatch of the turn).
NoDuplicateWrite ==
  \A v, w \in 1..Len(writes) :
    /\ v < w
    /\ writes[w].status # "blocked"
    /\ ItemsIn(writes[v].turns) \cap ItemsIn(writes[w].turns) # {}
    => writes[v].status \in {"failed", "blocked"} \/ v \in lapsed

\* A reservation never outlives the failure of its dispatch: the client may replay.
FailureReleases == \A e \in pending : writes[e[1]].status \in {"running", "written"}

\* A buffer waits below both limits and with its idle timer armed.
BuffersBounded ==
  \A b \in Buffers :
    /\ buffers[b].armed <=> buffers[b].turns # <<>>
    /\ Len(buffers[b].turns) < MaxTurns
    /\ buffers[b].chars <= MaxChars

\* When the promise of drain() resolves, every accepted turn has its outcome.
DrainSettles ==
  drain = "resolved" =>
    /\ \A w \in 1..Len(writes) : ~Running(w)
    /\ \A i \in Items : outcome[i] # "open"

\* After drain() or close() no dispatch is started: no timer, no late enqueue.
NoWriteAfterShutdown == [][~accepting => Len(writes') = Len(writes)]_vars

-----------------------------------------------------------------------------
(* The inductive invariant of the proofs.                                   *)

\* Until it lapses, a dispatch that has not failed holds the keys of its turns.
KeysHeld ==
  \A w \in 1..Len(writes) :
    writes[w].status \in {"running", "written"} /\ w \notin lapsed
      => \A p \in 1..Len(writes[w].turns) : <<w, p>> \in pending

\* Position 0 is the key of a batch.
BatchKeys == \A e \in pending : e[2] = 0 => writes[e[1]].batch

\* A buffer holds turns of its own triple, and nothing once accepting is false.
OwnBuffers ==
  \A b \in Buffers :
    /\ \A i \in ItemsIn(buffers[b].turns) : BufferOf[i] = b
    /\ ~accepting => buffers[b] = NoBuffer

WritebackInv ==
  /\ TypeOK
  /\ FailureReleases
  /\ KeysHeld
  /\ BatchKeys
  /\ OwnBuffers
  /\ BuffersBounded
  /\ NoDuplicateWrite

-----------------------------------------------------------------------------
(* Liveness: the event loop runs due timers, and every provider call ends   *)
(* (each has a timeout), so every dispatch moves on.                        *)

FairSpec ==
  /\ Spec
  /\ \A b \in Buffers : WF_vars(IdleFlush(b))
  /\ \A w \in 1..MaxTaken : WF_vars(w <= Len(writes) /\ WriteStep(w))
  /\ WF_vars(DrainResolves)

\* Every accepted turn gets an outcome, and drain() resolves.
EveryTurnSettles ==
  /\ \A i \in Items : (outcome[i] = "open") ~> (outcome[i] # "open")
  /\ (drain = "waiting") ~> (drain = "resolved")
=============================================================================
