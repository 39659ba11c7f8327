---------------------- MODULE AutomaticWritebackProofs ----------------------
(***************************************************************************)
(* Proofs about AutomaticWriteback, for any turns, buffers and limits.     *)
(* WritebackInv is inductive: the reservations of a dispatch that has not  *)
(* lapsed (KeysHeld) are what a later dispatch of the same turn runs into. *)
(* SteadyInv and DrainInv come on top of it: what has been accepted is not *)
(* lost while the mode stays as it is, and drain() awaits what runs.       *)
(***************************************************************************)
EXTENDS AutomaticWriteback, SequenceTheorems, FiniteSetTheorems, TLAPS

\* What a dispatch of several batches makes of the sequence of dispatches.
LEMMA DispatchWrites ==
  ASSUME WritebackInv,
         NEW batches \in Seq(Seq(Items)), NEW batch \in BOOLEAN,
         Dispatch(batches, batch)
  PROVE  /\ writes' \in Seq(Write)
         /\ Len(writes') = Len(writes) + Len(batches)
         /\ \A w \in 1..Len(writes) : writes'[w] = writes[w]
         /\ \A k \in 1..Len(batches) :
              /\ writes'[Len(writes) + k].turns = batches[k]
              /\ writes'[Len(writes) + k].batch = batch
              /\ writes'[Len(writes) + k].status =
                   IF batch /\ Blocked(batches[k]) THEN "blocked" ELSE "running"
<1>1. PICK parts \in [1..Len(batches) -> 1..MaxParts] :
        writes' = writes \o [k \in 1..Len(batches) |-> NewWrite(batches[k], batch, parts[k])]
  BY DEF Dispatch
<1> DEFINE new == [k \in 1..Len(batches) |-> NewWrite(batches[k], batch, parts[k])]
<1>2. 1 \in 1..MaxParts /\ 1 \in 1..MaxAttempts
  BY LimitsAssumption
<1>3. \A k \in 1..Len(batches) : NewWrite(batches[k], batch, parts[k]) \in Write
  <2>1. SUFFICES ASSUME NEW k \in 1..Len(batches)
                 PROVE  NewWrite(batches[k], batch, parts[k]) \in Write
    OBVIOUS
  <2>2. batches[k] \in Seq(Items) /\ parts[k] \in 1..MaxParts
    BY <1>1
  <2>3. (IF batch /\ Blocked(batches[k]) THEN "blocked" ELSE "running") \in Statuses
    BY DEF Statuses
  <2> QED
    BY <1>2, <2>2, <2>3 DEF NewWrite, Write
<1>4. new \in Seq(Write) /\ Len(new) = Len(batches)
  BY <1>3
<1>5. writes \in Seq(Write)
  BY DEF WritebackInv, TypeOK
<1> HIDE DEF new
<1>6. /\ writes \o new \in Seq(Write)
      /\ Len(writes \o new) = Len(writes) + Len(new)
      /\ \A w \in 1..Len(writes) : (writes \o new)[w] = writes[w]
      /\ \A k \in 1..Len(new) : (writes \o new)[Len(writes) + k] = new[k]
  <2>1. Len(writes) \in Nat /\ Len(new) \in Nat
    BY <1>4, <1>5
  <2>2. \A k \in 1..Len(new) :
          /\ Len(writes) + k \in 1..Len(writes) + Len(new)
          /\ ~(Len(writes) + k <= Len(writes))
          /\ Len(writes) + k - Len(writes) = k
    BY <2>1
  <2>3. /\ writes \o new \in Seq(Write)
        /\ Len(writes \o new) = Len(writes) + Len(new)
        /\ \A i \in 1..Len(writes) + Len(new) :
             (writes \o new)[i] = IF i <= Len(writes) THEN writes[i] ELSE new[i - Len(writes)]
    BY <1>4, <1>5, ConcatProperties
  <2> QED
    BY <2>1, <2>2, <2>3
<1>7. writes' = writes \o new
  BY <1>1 DEF new
<1>8. \A k \in 1..Len(batches) : new[k] = NewWrite(batches[k], batch, parts[k])
  BY DEF new
<1>9. \A k \in 1..Len(batches) : writes'[Len(writes) + k] = NewWrite(batches[k], batch, parts[k])
  BY <1>4, <1>6, <1>7, <1>8
<1>10. Len(writes') = Len(writes) + Len(batches)
  BY <1>4, <1>6, <1>7
<1>11. \A k \in 1..Len(batches) :
         LET w == NewWrite(batches[k], batch, parts[k])
         IN /\ w.turns = batches[k]
            /\ w.batch = batch
            /\ w.status = IF batch /\ Blocked(batches[k]) THEN "blocked" ELSE "running"
  BY DEF NewWrite
<1>12. writes' \in Seq(Write) /\ \A w \in 1..Len(writes) : writes'[w] = writes[w]
  BY <1>6, <1>7
<1> QED
  BY <1>9, <1>10, <1>11, <1>12

\* The keys pending after a dispatch: old ones, and those of its unblocked batches.
LEMMA DispatchKeys ==
  ASSUME WritebackInv,
         NEW batches \in Seq(Seq(Items)), NEW batch \in BOOLEAN,
         Dispatch(batches, batch)
  PROVE  /\ pending' \subseteq pending \cup NewKeys(batches, batch)
         /\ \A e \in pending \cup NewKeys(batches, batch) : e \in pending' \/ e[1] \in lapsed'
         /\ lapsed \subseteq lapsed'
         /\ lapsed' \subseteq 1..Len(writes')
         /\ NewKeys(batches, batch) \subseteq (Len(writes) + 1 .. Len(writes')) \X Nat
         /\ \A e \in NewKeys(batches, batch) :
              /\ e[2] <= Len(batches[e[1] - Len(writes)])
              /\ e[2] = 0 => batch
              /\ ~(batch /\ Blocked(batches[e[1] - Len(writes)]))
         /\ \A k \in 1..Len(batches) :
              ~(batch /\ Blocked(batches[k])) =>
                \A p \in 1..Len(batches[k]) : <<Len(writes) + k, p>> \in NewKeys(batches, batch)
<1> DEFINE all == pending \cup NewKeys(batches, batch)
<1>1. Newest(all) \subseteq all
  BY DEF Newest
<1>2. pending' = Newest(all) /\ lapsed' = lapsed \cup {e[1] : e \in all \ Newest(all)}
  BY DEF Dispatch
<1>3. Len(writes) \in Nat /\ Len(batches) \in Nat /\ Len(writes') = Len(writes) + Len(batches)
  BY DispatchWrites DEF WritebackInv, TypeOK
<1>4. ASSUME NEW e \in NewKeys(batches, batch)
      PROVE  /\ e \in (Len(writes) + 1 .. Len(writes')) \X Nat
             /\ e[2] <= Len(batches[e[1] - Len(writes)])
             /\ e[2] = 0 => batch
             /\ ~(batch /\ Blocked(batches[e[1] - Len(writes)]))
  <2>1. PICK k \in 1..Len(batches) :
          ~(batch /\ Blocked(batches[k])) /\ e \in KeysOf(Len(writes) + k, batches[k], batch)
    BY DEF NewKeys
  <2>2. PICK p \in (IF batch THEN 0 ELSE 1)..Len(batches[k]) : e = <<Len(writes) + k, p>>
    BY <2>1 DEF KeysOf
  <2>3. e[1] - Len(writes) = k /\ e[2] = p /\ p \in Nat /\ Len(batches[k]) \in Nat
    BY <1>3, <2>2
  <2> QED
    BY <1>3, <2>1, <2>2, <2>3
<1>5. ASSUME NEW k \in 1..Len(batches), ~(batch /\ Blocked(batches[k])),
             NEW p \in 1..Len(batches[k])
      PROVE  <<Len(writes) + k, p>> \in NewKeys(batches, batch)
  <2>1. p \in (IF batch THEN 0 ELSE 1)..Len(batches[k])
    OBVIOUS
  <2>2. <<Len(writes) + k, p>> \in KeysOf(Len(writes) + k, batches[k], batch)
    BY <2>1 DEF KeysOf
  <2> QED
    BY <1>5, <2>2 DEF NewKeys
<1>6. lapsed' \subseteq 1..Len(writes')
  <2>1. lapsed \subseteq 1..Len(writes) /\ pending \subseteq (1..Len(writes)) \X Nat
    BY DEF WritebackInv, TypeOK, PendingType
  <2>2. \A e \in all : e[1] \in 1..Len(writes')
    BY <1>3, <1>4, <2>1
  <2>3. 1..Len(writes) \subseteq 1..Len(writes')
    BY <1>3
  <2>4. {e[1] : e \in all \ Newest(all)} \subseteq 1..Len(writes')
    BY <2>2
  <2> QED
    BY <1>2, <2>1, <2>3, <2>4
<1>7. \A e \in all : e \in pending' \/ e[1] \in lapsed'
  BY <1>2
<1> QED
  BY <1>1, <1>2, <1>4, <1>5, <1>6, <1>7

\* A dispatch keeps the reservations' part of the invariant, if its batches share
\* no turn and the turn of a direct dispatch was found free.
LEMMA DispatchKeeps ==
  ASSUME WritebackInv,
         NEW batches \in Seq(Seq(Items)), NEW batch \in BOOLEAN,
         \A j, k \in 1..Len(batches) :
           j # k => ItemsIn(batches[j]) \cap ItemsIn(batches[k]) = {},
         ~batch => \A k \in 1..Len(batches) : \A i \in ItemsIn(batches[k]) : ~Reserved(i),
         Dispatch(batches, batch)
  PROVE  /\ writes' \in Seq(Write)
         /\ Len(writes) <= Len(writes')
         /\ lapsed' \subseteq 1..Len(writes')
         /\ PendingType'
         /\ FailureReleases'
         /\ KeysHeld'
         /\ BatchKeys'
         /\ NoDuplicateWrite'
<1> DEFINE old == 1..Len(writes)
<1> DEFINE new == Len(writes) + 1 .. Len(writes')
<1> DEFINE q(w) == batches[w - Len(writes)]
<1>1. /\ writes' \in Seq(Write)
      /\ Len(writes') = Len(writes) + Len(batches)
      /\ \A w \in old : writes'[w] = writes[w]
  BY DispatchWrites
<1>2. Len(writes) \in Nat /\ Len(batches) \in Nat /\ Len(writes') \in Nat
  BY <1>1 DEF WritebackInv, TypeOK
<1>3. 1..Len(writes') = old \cup new
  BY <1>1, <1>2
<1>4. ASSUME NEW w \in new
      PROVE  /\ w - Len(writes) \in 1..Len(batches)
             /\ writes'[w].turns = q(w)
             /\ writes'[w].batch = batch
             /\ writes'[w].status = IF batch /\ Blocked(q(w)) THEN "blocked" ELSE "running"
  <2>1. w - Len(writes) \in 1..Len(batches) /\ Len(writes) + (w - Len(writes)) = w
    BY <1>1, <1>2
  <2> QED
    BY <2>1, DispatchWrites
<1>5. /\ pending' \subseteq pending \cup NewKeys(batches, batch)
      /\ \A e \in pending \cup NewKeys(batches, batch) : e \in pending' \/ e[1] \in lapsed'
      /\ lapsed \subseteq lapsed'
      /\ lapsed' \subseteq 1..Len(writes')
      /\ NewKeys(batches, batch) \subseteq new \X Nat
  BY DispatchKeys
<1>6. ASSUME NEW e \in NewKeys(batches, batch)
      PROVE  /\ e[1] \in new /\ e[2] \in Nat
             /\ e[2] <= Len(q(e[1]))
             /\ e[2] = 0 => batch
             /\ ~(batch /\ Blocked(q(e[1])))
  BY <1>5, DispatchKeys
<1>7. ASSUME NEW e \in pending
      PROVE  /\ e[1] \in old /\ e[2] \in Nat
             /\ writes'[e[1]] = writes[e[1]]
             /\ e[2] <= Len(writes[e[1]].turns)
  BY <1>1 DEF WritebackInv, TypeOK, PendingType
<1>8. PendingType'
  <2>1. \A e \in pending' : e[2] <= Len(writes'[e[1]].turns)
    BY <1>4, <1>5, <1>6, <1>7
  <2>2. pending \subseteq old \X Nat
    BY DEF WritebackInv, TypeOK, PendingType
  <2>3. pending' \subseteq (1..Len(writes')) \X Nat
    BY <1>3, <1>5, <2>2
  <2> QED
    BY <2>1, <2>3 DEF PendingType
<1>9. FailureReleases'
  <2>1. \A e \in pending : writes'[e[1]].status \in {"running", "written"}
    BY <1>7 DEF WritebackInv, FailureReleases
  <2>2. \A e \in NewKeys(batches, batch) : writes'[e[1]].status = "running"
    BY <1>4, <1>6
  <2> QED
    BY <1>5, <2>1, <2>2 DEF FailureReleases
<1>10. BatchKeys'
  <2>1. \A e \in pending : e[2] = 0 => writes'[e[1]].batch
    BY <1>7 DEF WritebackInv, BatchKeys
  <2>2. \A e \in NewKeys(batches, batch) : e[2] = 0 => writes'[e[1]].batch
    BY <1>4, <1>6
  <2> QED
    BY <1>5, <2>1, <2>2 DEF BatchKeys
<1>11. KeysHeld'
  <2>1. SUFFICES ASSUME NEW w \in 1..Len(writes'),
                        writes'[w].status \in {"running", "written"}, w \notin lapsed',
                        NEW p \in 1..Len(writes'[w].turns)
                 PROVE  <<w, p>> \in pending'
    BY DEF KeysHeld
  <2>2. CASE w \in old
    <3>1. <<w, p>> \in pending
      BY <1>1, <1>5, <2>1, <2>2 DEF WritebackInv, KeysHeld
    <3> QED
      BY <1>5, <2>1, <3>1
  <2>3. CASE w \in new
    <3>1. ~(batch /\ Blocked(q(w))) /\ p \in 1..Len(q(w))
      BY <1>4, <2>1, <2>3
    <3>2. <<Len(writes) + (w - Len(writes)), p>> \in NewKeys(batches, batch)
      BY <1>4, <2>3, <3>1, DispatchKeys
    <3>3. <<w, p>> \in NewKeys(batches, batch)
      BY <1>2, <2>3, <3>2
    <3> QED
      BY <1>5, <2>1, <3>3
  <2> QED
    BY <1>3, <2>2, <2>3
<1>12. NoDuplicateWrite'
  <2>1. SUFFICES ASSUME NEW v \in 1..Len(writes'), NEW w \in 1..Len(writes'), v < w,
                        writes'[w].status # "blocked",
                        ItemsIn(writes'[v].turns) \cap ItemsIn(writes'[w].turns) # {}
                 PROVE  writes'[v].status \in {"failed", "blocked"} \/ v \in lapsed'
    BY DEF NoDuplicateWrite, ItemsIn
  <2>2. CASE w \in old
    <3>1. v \in old
      BY <1>2, <1>3, <2>1, <2>2
    <3> QED
      BY <1>1, <1>5, <2>1, <2>2, <3>1 DEF WritebackInv, NoDuplicateWrite
  <2>3. CASE w \in new /\ v \in old
    <3>1. PICK i : i \in ItemsIn(writes[v].turns) /\ i \in ItemsIn(q(w))
      BY <1>1, <1>4, <2>1, <2>3
    <3>2. PICK p \in 1..Len(writes[v].turns) : writes[v].turns[p] = i
      BY <3>1 DEF ItemsIn
    <3>3. ~(\E e \in pending : ReservedBy(i, e))
      BY <1>4, <2>1, <2>3, <3>1 DEF Blocked, Reserved
    <3>4. <<v, p>> \notin pending
      <4>1. p > 0
        OBVIOUS
      <4> QED
        BY <3>2, <3>3, <4>1 DEF ReservedBy
    <3>5. writes[v].status \notin {"running", "written"} \/ v \in lapsed
      <4>1. writes[v].status \in {"running", "written"} /\ v \notin lapsed
              => \A k \in 1..Len(writes[v].turns) : <<v, k>> \in pending
        BY <2>3 DEF WritebackInv, KeysHeld
      <4> QED
        BY <3>2, <3>4, <4>1
    <3>6. writes[v].status \in Statuses
      <4>1. writes \in Seq(Write)
        BY DEF WritebackInv, TypeOK
      <4>2. writes[v] \in Write
        BY <2>3, <4>1
      <4> QED
        BY <4>2 DEF Write
    <3> QED
      BY <1>1, <1>5, <2>3, <3>5, <3>6 DEF Statuses
  <2>4. CASE w \in new /\ v \in new
    <3>1. v - Len(writes) # w - Len(writes)
      BY <1>2, <2>1, <2>4
    <3> QED
      BY <1>4, <2>1, <2>4, <3>1
  <2>5. ~(w \in old /\ v \in new)
    BY <1>2, <2>1
  <2> QED
    BY <1>3, <2>2, <2>3, <2>4
<1> QED
  BY <1>1, <1>2, <1>5, <1>8, <1>9, <1>10, <1>11, <1>12

\* Steps that touch no reservation keep their part of the invariant.
LEMMA SameReservations ==
  ASSUME WritebackInv, UNCHANGED <<writes, pending, lapsed>>
  PROVE  /\ writes' \in Seq(Write)
         /\ lapsed' \subseteq 1..Len(writes')
         /\ PendingType'
         /\ FailureReleases'
         /\ KeysHeld'
         /\ BatchKeys'
         /\ NoDuplicateWrite'
<1>1. writes' = writes /\ pending' = pending /\ lapsed' = lapsed
  OBVIOUS
<1>2. writes' \in Seq(Write) /\ lapsed' \subseteq 1..Len(writes') /\ PendingType'
  BY <1>1 DEF WritebackInv, TypeOK, PendingType
<1>3. FailureReleases' /\ BatchKeys'
  BY <1>1 DEF WritebackInv, FailureReleases, BatchKeys
<1>4. KeysHeld'
  BY <1>1 DEF WritebackInv, KeysHeld
<1>5. NoDuplicateWrite'
  BY <1>1 DEF WritebackInv, NoDuplicateWrite, ItemsIn
<1> QED
  BY <1>2, <1>3, <1>4, <1>5

\* Steps that touch no buffer keep theirs, also when they end the accepting.
LEMMA SameBuffers ==
  ASSUME WritebackInv, UNCHANGED <<buffers, accepting>>
  PROVE  /\ buffers' \in [Buffers -> Buffer]
         /\ OwnBuffers'
         /\ BuffersBounded'
  BY DEF WritebackInv, TypeOK, OwnBuffers, BuffersBounded

\* Emptying some buffers, all of them when accepting ends, keeps theirs too.
LEMMA FewerBuffers ==
  ASSUME WritebackInv, NEW gone \in SUBSET Buffers,
         accepting' \in BOOLEAN, accepting' => accepting,
         ~accepting' => ~accepting \/ gone = Buffers,
         buffers' = [b \in Buffers |-> IF b \in gone THEN NoBuffer ELSE buffers[b]]
  PROVE  /\ buffers' \in [Buffers -> Buffer]
         /\ OwnBuffers'
         /\ BuffersBounded'
<1>1. NoBuffer \in Buffer /\ Len(NoBuffer.turns) = 0 /\ NoBuffer.turns = <<>>
      /\ NoBuffer.chars = 0 /\ NoBuffer.armed = FALSE
  BY DEF NoBuffer, Buffer
<1>2. buffers \in [Buffers -> Buffer]
  BY DEF WritebackInv, TypeOK
<1>3. buffers' \in [Buffers -> Buffer]
  BY <1>1, <1>2
<1>4. \A b \in Buffers : buffers'[b] = IF b \in gone THEN NoBuffer ELSE buffers[b]
  OBVIOUS
<1>5. OwnBuffers'
  <2>1. SUFFICES ASSUME NEW b \in Buffers
                 PROVE  /\ \A i \in ItemsIn(buffers'[b].turns) : BufferOf[i] = b
                        /\ ~accepting' => buffers'[b] = NoBuffer
    BY DEF OwnBuffers, NoBuffer, ItemsIn
  <2>2. ItemsIn(NoBuffer.turns) = {}
    BY <1>1 DEF ItemsIn
  <2>3. \A i \in ItemsIn(buffers[b].turns) : BufferOf[i] = b
    BY DEF WritebackInv, OwnBuffers
  <2>4. ~accepting => buffers[b] = NoBuffer
    BY DEF WritebackInv, OwnBuffers
  <2> QED
    BY <1>4, <2>2, <2>3, <2>4
<1>6. BuffersBounded'
  <2>1. SUFFICES ASSUME NEW b \in Buffers
                 PROVE  /\ buffers'[b].armed <=> buffers'[b].turns # <<>>
                        /\ Len(buffers'[b].turns) < MaxTurns
                        /\ buffers'[b].chars <= MaxChars
    BY DEF BuffersBounded
  <2>2. 0 < MaxTurns /\ 0 <= MaxChars
    BY LimitsAssumption
  <2>3. /\ buffers[b].armed <=> buffers[b].turns # <<>>
        /\ Len(buffers[b].turns) < MaxTurns
        /\ buffers[b].chars <= MaxChars
    BY DEF WritebackInv, BuffersBounded
  <2>4. CASE b \in gone
    BY <1>1, <1>4, <2>2, <2>4
  <2>5. CASE b \notin gone
    BY <1>4, <2>3, <2>5
  <2> QED
    BY <2>4, <2>5
<1> QED
  BY <1>3, <1>5, <1>6

\* One batch alone: the condition of DispatchKeeps on several is void.
LEMMA OneBatch ==
  ASSUME NEW q \in Seq(Items)
  PROVE  /\ <<q>> \in Seq(Seq(Items))
         /\ \A j, k \in 1..Len(<<q>>) : j = k
  OBVIOUS

\* Dispatching the batches of Dispatch with the other parts of a step known to be
\* well typed: what is left to show of each enqueue, flush and drain.
LEMMA StepOfParts ==
  ASSUME writes' \in Seq(Write), lapsed' \subseteq 1..Len(writes'), PendingType',
         FailureReleases', KeysHeld', BatchKeys', NoDuplicateWrite',
         buffers' \in [Buffers -> Buffer], OwnBuffers', BuffersBounded',
         bufferOn' \in BOOLEAN, accepting' \in BOOLEAN,
         drain' \in {"none", "waiting", "resolved"}, awaited' \subseteq 1..Len(writes'),
         taken' \in 0..MaxTaken, outcome' \in [Items -> Outcomes]
  PROVE  WritebackInv'
  BY DEF WritebackInv, TypeOK

\* Settled changes outcomes to outcomes.
LEMMA SettledType ==
  ASSUME NEW batches, NEW out \in [Items -> Outcomes]
  PROVE  Settled(batches, out) \in [Items -> Outcomes]
  BY DEF Settled, Outcomes

LEMMA WritebackInit == Init => WritebackInv
<1> SUFFICES ASSUME Init PROVE WritebackInv
  OBVIOUS
<1>1. writes = <<>> /\ pending = {} /\ lapsed = {} /\ awaited = {} /\ Len(writes) = 0
  BY DEF Init
<1>2. buffers = [b \in Buffers |-> NoBuffer] /\ NoBuffer \in Buffer
  BY DEF Init, NoBuffer, Buffer
<1>3. PendingType /\ FailureReleases /\ KeysHeld /\ BatchKeys /\ NoDuplicateWrite
  BY <1>1 DEF PendingType, FailureReleases, KeysHeld, BatchKeys, NoDuplicateWrite
<1>4. OwnBuffers
  BY <1>2 DEF OwnBuffers, NoBuffer, ItemsIn
<1>5. BuffersBounded
  <2>1. 0 < MaxTurns /\ 0 <= MaxChars
    BY LimitsAssumption
  <2> QED
    BY <1>2, <2>1 DEF BuffersBounded, NoBuffer
<1>6. TypeOK
  <2>1. writes \in Seq(Write) /\ taken \in 0..MaxTaken
    BY <1>1, LimitsAssumption DEF Init
  <2>2. outcome \in [Items -> Outcomes]
    BY DEF Init, Outcomes
  <2> QED
    BY <1>1, <1>2, <1>3, <2>1, <2>2 DEF Init, TypeOK
<1> QED
  BY <1>3, <1>4, <1>5, <1>6 DEF WritebackInv

\* A turn taken up while the buffer is off.
LEMMA EnqueueDirectKeeps ==
  ASSUME WritebackInv, NEW i \in Items, EnqueueDirect(i)
  PROVE  WritebackInv'
<1> DEFINE batches == << <<i>> >>
<1>1. batches \in Seq(Seq(Items)) /\ \A j, k \in 1..Len(batches) : j = k
  OBVIOUS
<1>2. \A k \in 1..Len(batches) : \A j \in ItemsIn(batches[k]) : ~Reserved(j)
  <2>1. ~Reserved(i)
    BY DEF EnqueueDirect, MayTake
  <2>2. \A k \in 1..Len(batches) : ItemsIn(batches[k]) = {i}
    BY DEF ItemsIn
  <2> QED
    BY <2>1, <2>2
<1>3. Dispatch(batches, FALSE)
  BY DEF EnqueueDirect
<1>4. /\ writes' \in Seq(Write)
      /\ Len(writes) <= Len(writes')
      /\ lapsed' \subseteq 1..Len(writes')
      /\ PendingType' /\ FailureReleases' /\ KeysHeld' /\ BatchKeys' /\ NoDuplicateWrite'
  <2> HIDE DEF batches
  <2> QED
    BY <1>1, <1>2, <1>3, DispatchKeeps
<1>5. buffers' \in [Buffers -> Buffer] /\ OwnBuffers' /\ BuffersBounded'
  BY SameBuffers DEF EnqueueDirect
<1>6. awaited' \subseteq 1..Len(writes')
  BY <1>4 DEF WritebackInv, TypeOK, EnqueueDirect
<1>7. taken' \in 0..MaxTaken /\ outcome' \in [Items -> Outcomes]
  BY LimitsAssumption DEF WritebackInv, TypeOK, EnqueueDirect, MayTake, Outcomes
<1>8. bufferOn' \in BOOLEAN /\ accepting' \in BOOLEAN /\ drain' \in {"none", "waiting", "resolved"}
  BY DEF WritebackInv, TypeOK, EnqueueDirect
<1> QED
  BY <1>4, <1>5, <1>6, <1>7, <1>8, StepOfParts

\* Buffers dropped by an upgrade, found by enqueue or by the session runtime.
LEMMA DiscardKeeps ==
  ASSUME WritebackInv, NEW b \in Buffers,
         buffers' = [c \in Buffers |-> IF c \in Discarded(b) THEN NoBuffer ELSE buffers[c]],
         outcome' = [j \in Items |-> IF j \in DiscardedItems(b) THEN "discarded" ELSE outcome[j]],
         UNCHANGED <<bufferOn, accepting, writes, pending, drain, awaited, taken, lapsed>>
  PROVE  WritebackInv'
<1>1. buffers' \in [Buffers -> Buffer] /\ OwnBuffers' /\ BuffersBounded'
  <2>1. Discarded(b) \in SUBSET Buffers
    BY DEF Discarded
  <2>2. accepting' \in BOOLEAN /\ accepting' = accepting
    BY DEF WritebackInv, TypeOK
  <2> QED
    BY <2>1, <2>2, FewerBuffers
<1>2. outcome' \in [Items -> Outcomes]
  BY DEF WritebackInv, TypeOK, Outcomes
<1>3. /\ bufferOn' \in BOOLEAN /\ accepting' \in BOOLEAN
      /\ drain' \in {"none", "waiting", "resolved"} /\ awaited' \subseteq 1..Len(writes')
      /\ taken' \in 0..MaxTaken
  BY DEF WritebackInv, TypeOK
<1> QED
  BY <1>1, <1>2, <1>3, SameReservations, StepOfParts

\* What an enqueue appends is a well-typed buffer of turns of its triple.
LEMMA AppendedShape ==
  ASSUME WritebackInv, NEW i \in Items
  PROVE  /\ Appended(i) \in Buffer
         /\ Appended(i).turns # <<>> /\ Appended(i).armed
         /\ \A j \in ItemsIn(Appended(i).turns) : BufferOf[j] = BufferOf[i]
<1>1. BufferOf[i] \in Buffers /\ Chars[i] \in Nat
  BY ItemsAssumption
<1> DEFINE old == buffers[BufferOf[i]]
<1>2. old \in Buffer
  BY <1>1 DEF WritebackInv, TypeOK
<1>3. old.turns \in Seq(Items) /\ old.chars \in Nat
  BY <1>2 DEF Buffer
<1>4. \A j \in ItemsIn(old.turns) : BufferOf[j] = BufferOf[i]
  BY <1>1 DEF WritebackInv, OwnBuffers
<1>5. CASE Overflows(i)
  BY <1>1, <1>5 DEF Appended, Buffer, ItemsIn
<1>6. CASE ~Overflows(i)
  <2>1. Appended(i) = [turns |-> Append(old.turns, i), chars |-> old.chars + Chars[i], armed |-> TRUE]
    BY <1>6 DEF Appended
  <2>2. /\ Append(old.turns, i) \in Seq(Items)
        /\ Append(old.turns, i) # <<>>
        /\ Len(Append(old.turns, i)) = Len(old.turns) + 1
        /\ \A k \in 1..Len(old.turns) : Append(old.turns, i)[k] = old.turns[k]
        /\ Append(old.turns, i)[Len(old.turns) + 1] = i
    BY <1>3, AppendProperties
  <2>3. ASSUME NEW k \in 1..Len(Append(old.turns, i))
        PROVE  BufferOf[Append(old.turns, i)[k]] = BufferOf[i]
    <3>1. CASE k \in 1..Len(old.turns)
      <4>1. old.turns[k] \in ItemsIn(old.turns)
        BY <3>1 DEF ItemsIn
      <4> QED
        BY <1>4, <2>2, <3>1, <4>1
    <3>2. CASE k = Len(old.turns) + 1
      BY <2>2, <3>2
    <3>3. k \in 1..Len(old.turns) \/ k = Len(old.turns) + 1
      BY <1>3, <2>2
    <3> QED
      BY <3>1, <3>2, <3>3
  <2>4. \A j \in ItemsIn(Append(old.turns, i)) : BufferOf[j] = BufferOf[i]
    BY <2>3 DEF ItemsIn
  <2>5. old.chars + Chars[i] \in Nat
    BY <1>1, <1>3
  <2> QED
    BY <2>1, <2>2, <2>4, <2>5 DEF Buffer
<1> QED
  BY <1>5, <1>6

\* The one or two batches of an enqueue share no turn: the first lacks i, and the
\* second, when there is a first, is i alone.
LEMMA FlushedShape ==
  ASSUME WritebackInv, NEW i \in Items, i \notin ItemsIn(buffers[BufferOf[i]].turns)
  PROVE  /\ Flushed(i) \in Seq(Seq(Items))
         /\ \A j, k \in 1..Len(Flushed(i)) :
              j # k => ItemsIn(Flushed(i)[j]) \cap ItemsIn(Flushed(i)[k]) = {}
<1> DEFINE old == buffers[BufferOf[i]].turns
<1> DEFINE turns == Appended(i).turns
<1>1. old \in Seq(Items)
  BY ItemsAssumption DEF WritebackInv, TypeOK, Buffer
<1>2. turns \in Seq(Items)
  BY AppendedShape DEF Buffer
<1>3. CASE ~Overflows(i) /\ ~Due(Appended(i))
  BY <1>3 DEF Flushed
<1>4. CASE ~Overflows(i) /\ Due(Appended(i))
  <2>1. Flushed(i) = <<turns>>
    BY <1>4 DEF Flushed
  <2> QED
    BY <1>2, <2>1
<1>5. CASE Overflows(i) /\ ~Due(Appended(i))
  <2>1. Flushed(i) = <<old>>
    BY <1>5 DEF Flushed
  <2> QED
    BY <1>1, <2>1
<1>6. CASE Overflows(i) /\ Due(Appended(i))
  <2>1. /\ Flushed(i) \in Seq(Seq(Items))
        /\ Len(Flushed(i)) = 2
        /\ Flushed(i)[1] = old /\ Flushed(i)[2] = turns
    <3>1. Flushed(i) = <<old>> \o <<turns>>
      BY <1>6 DEF Flushed
    <3>2. <<old>> \in Seq(Seq(Items)) /\ <<turns>> \in Seq(Seq(Items))
      BY <1>1, <1>2
    <3>3. Len(<<old>>) = 1 /\ Len(<<turns>>) = 1 /\ <<old>>[1] = old /\ <<turns>>[1] = turns
      OBVIOUS
    <3> HIDE DEF old, turns
    <3> QED
      BY <3>1, <3>2, <3>3, ConcatProperties
  <2>2. turns = <<i>>
    BY <1>6 DEF Appended
  <2>3. ItemsIn(turns) = {i}
    BY <2>2 DEF ItemsIn
  <2>4. ItemsIn(old) \cap ItemsIn(turns) = {}
    BY <2>3
  <2> HIDE DEF old, turns
  <2> QED
    BY <1>1, <1>2, <2>1, <2>4
<1> QED
  BY <1>3, <1>4, <1>5, <1>6

LEMMA EnqueueBufferedKeeps ==
  ASSUME WritebackInv, NEW i \in Items, EnqueueBuffered(i)
  PROVE  WritebackInv'
<1> DEFINE b == BufferOf[i]
<1>1. b \in Buffers /\ i \notin ItemsIn(buffers[b].turns)
  BY ItemsAssumption DEF EnqueueBuffered
<1>2. Dispatch(Flushed(i), TRUE)
  BY DEF EnqueueBuffered
<1>3. /\ writes' \in Seq(Write)
      /\ Len(writes) <= Len(writes')
      /\ lapsed' \subseteq 1..Len(writes')
      /\ PendingType' /\ FailureReleases' /\ KeysHeld' /\ BatchKeys' /\ NoDuplicateWrite'
  BY <1>1, <1>2, FlushedShape, DispatchKeeps
<1>4. /\ buffers' = [c \in Buffers |->
            IF c = b THEN IF Due(Appended(i)) THEN NoBuffer ELSE Appended(i)
            ELSE IF c \in Discarded(b) THEN NoBuffer ELSE buffers[c]]
      /\ accepting /\ accepting'
  BY DEF EnqueueBuffered, MayTake
<1>5. NoBuffer \in Buffer /\ Appended(i) \in Buffer /\ buffers \in [Buffers -> Buffer]
  BY AppendedShape DEF NoBuffer, Buffer, WritebackInv, TypeOK
<1>6. buffers' \in [Buffers -> Buffer]
  BY <1>4, <1>5
<1>7. OwnBuffers'
  <2>1. SUFFICES ASSUME NEW c \in Buffers
                 PROVE  \A j \in ItemsIn(buffers'[c].turns) : BufferOf[j] = c
    BY <1>4 DEF OwnBuffers, ItemsIn, NoBuffer
  <2>2. ItemsIn(NoBuffer.turns) = {}
    BY DEF ItemsIn, NoBuffer
  <2>3. \A j \in ItemsIn(buffers[c].turns) : BufferOf[j] = c
    BY DEF WritebackInv, OwnBuffers
  <2> QED
    BY <1>4, <2>2, <2>3, AppendedShape
<1>8. BuffersBounded'
  <2>1. SUFFICES ASSUME NEW c \in Buffers
                 PROVE  /\ buffers'[c].armed <=> buffers'[c].turns # <<>>
                        /\ Len(buffers'[c].turns) < MaxTurns
                        /\ buffers'[c].chars <= MaxChars
    BY DEF BuffersBounded
  <2>2. CASE buffers'[c] = NoBuffer
    BY <2>2, LimitsAssumption DEF NoBuffer
  <2>3. CASE buffers'[c] = buffers[c]
    BY <2>3 DEF WritebackInv, BuffersBounded
  <2>4. CASE buffers'[c] = Appended(i) /\ ~Due(Appended(i))
    <3>1. Appended(i).turns \in Seq(Items) /\ Appended(i).chars \in Nat
      BY <1>5 DEF Buffer
    <3>2. Len(Appended(i).turns) \in Nat /\ MaxTurns \in Nat /\ MaxChars \in Nat
      BY <3>1, LimitsAssumption
    <3> QED
      BY <2>4, <3>1, <3>2, AppendedShape DEF Due
  <2> QED
    BY <1>4, <2>2, <2>3, <2>4
<1>9. outcome' \in [Items -> Outcomes]
  <2> DEFINE kept == [j \in Items |-> IF j \in DiscardedItems(b) THEN "discarded" ELSE outcome[j]]
  <2>1. kept \in [Items -> Outcomes]
    BY DEF WritebackInv, TypeOK, Outcomes
  <2>2. [kept EXCEPT ![i] = "open"] \in [Items -> Outcomes]
    BY <2>1 DEF Outcomes
  <2>3. outcome' = Settled(Flushed(i), [kept EXCEPT ![i] = "open"])
    BY DEF EnqueueBuffered
  <2> QED
    BY <2>2, <2>3, SettledType
<1>10. awaited' \subseteq 1..Len(writes') /\ taken' \in 0..MaxTaken
  BY <1>3, LimitsAssumption DEF WritebackInv, TypeOK, EnqueueBuffered, MayTake
<1>11. bufferOn' \in BOOLEAN /\ accepting' \in BOOLEAN /\ drain' \in {"none", "waiting", "resolved"}
  BY DEF WritebackInv, TypeOK, EnqueueBuffered
<1> QED
  BY <1>3, <1>6, <1>7, <1>8, <1>9, <1>10, <1>11, StepOfParts

LEMMA IdleFlushKeeps ==
  ASSUME WritebackInv, NEW b \in Buffers, IdleFlush(b)
  PROVE  WritebackInv'
<1> DEFINE q == buffers[b].turns
<1>1. q \in Seq(Items)
  BY DEF WritebackInv, TypeOK, Buffer
<1>2. Dispatch(<<q>>, TRUE)
  BY DEF IdleFlush
<1>3. /\ writes' \in Seq(Write)
      /\ Len(writes) <= Len(writes')
      /\ lapsed' \subseteq 1..Len(writes')
      /\ PendingType' /\ FailureReleases' /\ KeysHeld' /\ BatchKeys' /\ NoDuplicateWrite'
  <2>1. <<q>> \in Seq(Seq(Items)) /\ \A j, k \in 1..Len(<<q>>) : j = k
    BY <1>1, OneBatch
  <2> HIDE DEF q
  <2> QED
    BY <1>2, <2>1, DispatchKeeps
<1>4. buffers' \in [Buffers -> Buffer] /\ OwnBuffers' /\ BuffersBounded'
  <2>1. buffers' = [c \in Buffers |-> IF c \in {b} THEN NoBuffer ELSE buffers[c]]
    BY DEF IdleFlush, WritebackInv, TypeOK
  <2>2. accepting' \in BOOLEAN /\ accepting' = accepting
    BY DEF WritebackInv, TypeOK, IdleFlush
  <2> QED
    BY <2>1, <2>2, FewerBuffers
<1>5. outcome' \in [Items -> Outcomes]
  <2>1. outcome' = Settled(<<q>>, outcome) /\ outcome \in [Items -> Outcomes]
    BY DEF IdleFlush, WritebackInv, TypeOK
  <2> QED
    BY <2>1, SettledType
<1>6. awaited' \subseteq 1..Len(writes')
  BY <1>3 DEF WritebackInv, TypeOK, IdleFlush
<1>7. /\ bufferOn' \in BOOLEAN /\ accepting' \in BOOLEAN
      /\ drain' \in {"none", "waiting", "resolved"} /\ taken' \in 0..MaxTaken
  BY DEF WritebackInv, TypeOK, IdleFlush
<1> QED
  BY <1>3, <1>4, <1>5, <1>6, <1>7, StepOfParts

\* A step that changes one dispatch, none of whose turns or keys, and not to "failed".
LEMMA WriteProgress ==
  ASSUME WritebackInv, NEW w \in 1..Len(writes), NEW new \in Write,
         new.turns = writes[w].turns, new.batch = writes[w].batch,
         Running(w), new.status \in {"running", "written"},
         writes' = [writes EXCEPT ![w] = new],
         UNCHANGED <<pending, lapsed>>
  PROVE  /\ writes' \in Seq(Write)
         /\ Len(writes') = Len(writes)
         /\ PendingType' /\ FailureReleases' /\ KeysHeld' /\ BatchKeys' /\ NoDuplicateWrite'
<1>1. /\ writes' \in Seq(Write)
      /\ Len(writes') = Len(writes)
      /\ \A v \in 1..Len(writes) : writes'[v] = IF v = w THEN new ELSE writes[v]
  BY ExceptSeq DEF WritebackInv, TypeOK
<1>2. \A v \in 1..Len(writes) :
        writes'[v].turns = writes[v].turns /\ writes'[v].batch = writes[v].batch
  BY <1>1
<1>3. pending' = pending /\ lapsed' = lapsed
  OBVIOUS
<1>4. \A e \in pending : e[1] \in 1..Len(writes)
  BY DEF WritebackInv, TypeOK, PendingType
<1>5. PendingType'
  BY <1>1, <1>2, <1>3, <1>4 DEF WritebackInv, TypeOK, PendingType
<1>6. FailureReleases'
  BY <1>1, <1>3, <1>4 DEF WritebackInv, FailureReleases
<1>7. BatchKeys'
  BY <1>2, <1>3, <1>4 DEF WritebackInv, BatchKeys
<1>8. KeysHeld'
  BY <1>1, <1>2, <1>3 DEF WritebackInv, KeysHeld, Running
<1>9. NoDuplicateWrite'
  <2>1. SUFFICES ASSUME NEW u \in 1..Len(writes), NEW v \in 1..Len(writes), u < v,
                        writes'[v].status # "blocked",
                        ItemsIn(writes'[u].turns) \cap ItemsIn(writes'[v].turns) # {}
                 PROVE  writes'[u].status \in {"failed", "blocked"} \/ u \in lapsed
    BY <1>1, <1>3 DEF NoDuplicateWrite, ItemsIn
  <2>2. writes[v].status # "blocked"
    BY <1>1, <2>1 DEF Running
  <2>3. ItemsIn(writes[u].turns) \cap ItemsIn(writes[v].turns) # {}
    BY <1>2, <2>1
  <2>4. writes[u].status \in {"failed", "blocked"} \/ u \in lapsed
    BY <2>1, <2>2, <2>3 DEF WritebackInv, NoDuplicateWrite
  <2> QED
    BY <1>1, <2>4 DEF Running
<1> QED
  BY <1>1, <1>5, <1>6, <1>7, <1>8, <1>9

LEMMA WriteType ==
  ASSUME WritebackInv, NEW w \in 1..Len(writes)
  PROVE  writes[w] \in Write
  BY DEF WritebackInv, TypeOK

LEMMA PartWrittenKeeps ==
  ASSUME WritebackInv, NEW w \in 1..Len(writes), PartWritten(w)
  PROVE  WritebackInv'
<1>1. writes[w] \in Write
  BY WriteType
<1>2. buffers' \in [Buffers -> Buffer] /\ OwnBuffers' /\ BuffersBounded'
  BY SameBuffers DEF PartWritten
<1>3. pending' = pending /\ lapsed' = lapsed /\ Running(w)
  BY DEF PartWritten
<1>4. outcome' \in [Items -> Outcomes]
  BY DEF PartWritten, WritebackInv, TypeOK, Outcomes
<1>5. /\ writes' \in Seq(Write)
      /\ Len(writes') = Len(writes)
      /\ PendingType' /\ FailureReleases' /\ KeysHeld' /\ BatchKeys' /\ NoDuplicateWrite'
  <2>1. CASE writes[w].part < writes[w].parts
    <3> DEFINE new == [writes[w] EXCEPT !.part = @ + 1, !.attempt = 1]
    <3>1. new \in Write /\ new.turns = writes[w].turns /\ new.batch = writes[w].batch
          /\ new.status = writes[w].status
      <4>1. MaxParts \in Nat /\ 1 \in 1..MaxAttempts
        BY LimitsAssumption
      <4>2. writes[w].part + 1 \in 1..MaxParts
        BY <1>1, <2>1, <4>1 DEF Write
      <4> QED
        BY <1>1, <4>1, <4>2 DEF Write
    <3>2. writes' = [writes EXCEPT ![w] = new]
      BY <2>1 DEF PartWritten
    <3> HIDE DEF new
    <3> QED
      BY <1>3, <3>1, <3>2, WriteProgress DEF Running
  <2>2. CASE ~(writes[w].part < writes[w].parts)
    <3> DEFINE new == [writes[w] EXCEPT !.status = "written"]
    <3>1. new \in Write /\ new.turns = writes[w].turns /\ new.batch = writes[w].batch
          /\ new.status = "written"
      BY <1>1 DEF Write, Statuses
    <3>2. writes' = [writes EXCEPT ![w] = new]
      BY <2>2 DEF PartWritten
    <3> HIDE DEF new
    <3> QED
      BY <1>3, <3>1, <3>2, WriteProgress
  <2> QED
    BY <2>1, <2>2
<1>6. /\ bufferOn' \in BOOLEAN /\ accepting' \in BOOLEAN
      /\ drain' \in {"none", "waiting", "resolved"} /\ taken' \in 0..MaxTaken
      /\ awaited' \subseteq 1..Len(writes') /\ lapsed' \subseteq 1..Len(writes')
  BY <1>5 DEF WritebackInv, TypeOK, PartWritten
<1> QED
  BY <1>2, <1>4, <1>5, <1>6, StepOfParts

LEMMA RetryKeeps ==
  ASSUME WritebackInv, NEW w \in 1..Len(writes), Retry(w)
  PROVE  WritebackInv'
<1> DEFINE new == [writes[w] EXCEPT !.attempt = @ + 1]
<1>1. writes[w] \in Write
  BY WriteType
<1>2. new \in Write /\ new.turns = writes[w].turns /\ new.batch = writes[w].batch
      /\ new.status = writes[w].status
  <2>1. MaxAttempts \in Nat
    BY LimitsAssumption
  <2>2. writes[w].attempt + 1 \in 1..MaxAttempts
    BY <1>1, <2>1 DEF Write, Retry
  <2> QED
    BY <1>1, <2>2 DEF Write
<1>3. writes' = [writes EXCEPT ![w] = new] /\ Running(w) /\ pending' = pending /\ lapsed' = lapsed
  BY DEF Retry
<1>4. /\ writes' \in Seq(Write)
      /\ Len(writes') = Len(writes)
      /\ PendingType' /\ FailureReleases' /\ KeysHeld' /\ BatchKeys' /\ NoDuplicateWrite'
  <2> HIDE DEF new
  <2> QED
    BY <1>2, <1>3, WriteProgress DEF Running
<1>5. buffers' \in [Buffers -> Buffer] /\ OwnBuffers' /\ BuffersBounded'
  BY SameBuffers DEF Retry
<1>6. /\ bufferOn' \in BOOLEAN /\ accepting' \in BOOLEAN
      /\ drain' \in {"none", "waiting", "resolved"} /\ taken' \in 0..MaxTaken
      /\ awaited' \subseteq 1..Len(writes') /\ lapsed' \subseteq 1..Len(writes')
      /\ outcome' \in [Items -> Outcomes]
  BY <1>4 DEF WritebackInv, TypeOK, Retry
<1> QED
  BY <1>4, <1>5, <1>6, StepOfParts

LEMMA WriteFailsKeeps ==
  ASSUME WritebackInv, NEW w \in 1..Len(writes), WriteFails(w)
  PROVE  WritebackInv'
<1> DEFINE new == [writes[w] EXCEPT !.status = "failed"]
<1>1. writes[w] \in Write
  BY WriteType
<1>2. new \in Write /\ new.turns = writes[w].turns /\ new.batch = writes[w].batch
      /\ new.status = "failed"
  BY <1>1 DEF Write, Statuses
<1>3. /\ writes' \in Seq(Write)
      /\ Len(writes') = Len(writes)
      /\ \A v \in 1..Len(writes) : writes'[v] = IF v = w THEN new ELSE writes[v]
  <2>1. writes' = [writes EXCEPT ![w] = new]
    BY DEF WriteFails
  <2> HIDE DEF new
  <2> QED
    BY <1>2, <2>1, ExceptSeq DEF WritebackInv, TypeOK
<1>4. \A v \in 1..Len(writes) :
        writes'[v].turns = writes[v].turns /\ writes'[v].batch = writes[v].batch
  BY <1>2, <1>3
<1>5. pending' = pending \ OwnKeys(w) /\ lapsed' = lapsed \cup ({e[1] : e \in OwnKeys(w)} \ {w})
  BY DEF WriteFails
<1>6. \A e \in pending : e[1] \in 1..Len(writes) /\ e[2] \in Nat /\ e[2] <= Len(writes[e[1]].turns)
  BY DEF WritebackInv, TypeOK, PendingType
<1>7. PendingType'
  BY <1>3, <1>4, <1>5, <1>6 DEF WritebackInv, TypeOK, PendingType
<1>8. BatchKeys'
  BY <1>4, <1>5, <1>6 DEF WritebackInv, BatchKeys
<1>9. \A e \in pending : e[1] = w => e \in OwnKeys(w)
  <2>1. SUFFICES ASSUME NEW e \in pending, e[1] = w
                 PROVE  e \in OwnKeys(w)
    OBVIOUS
  <2>2. CASE e[2] = 0
    BY <2>1, <2>2 DEF OwnKeys, BatchReservedBy, WritebackInv, BatchKeys
  <2>3. CASE e[2] # 0
    <3>1. e[2] \in 1..Len(writes[w].turns)
      <4>1. Len(writes[w].turns) \in Nat
        BY <1>1 DEF Write
      <4> QED
        BY <1>6, <2>1, <2>3, <4>1
    <3>2. writes[w].turns[e[2]] \in ItemsIn(writes[w].turns) /\ e[2] > 0
      BY <3>1 DEF ItemsIn
    <3> QED
      BY <2>1, <3>2 DEF OwnKeys, ReservedBy
  <2> QED
    BY <2>2, <2>3
<1>10. FailureReleases'
  BY <1>3, <1>5, <1>6, <1>9 DEF WritebackInv, FailureReleases
<1>11. KeysHeld'
  <2>1. SUFFICES ASSUME NEW v \in 1..Len(writes), v \notin lapsed',
                        writes'[v].status \in {"running", "written"},
                        NEW p \in 1..Len(writes[v].turns)
                 PROVE  <<v, p>> \in pending'
    BY <1>3, <1>4 DEF KeysHeld
  <2>2. v # w /\ writes[v].status \in {"running", "written"} /\ v \notin lapsed
    BY <1>2, <1>3, <1>5, <2>1
  <2>3. <<v, p>> \in pending
    BY <2>2 DEF WritebackInv, KeysHeld
  <2>4. <<v, p>> \notin OwnKeys(w)
    BY <1>5, <2>1, <2>2
  <2> QED
    BY <1>5, <2>3, <2>4
<1>12. NoDuplicateWrite'
  <2>1. SUFFICES ASSUME NEW u \in 1..Len(writes), NEW v \in 1..Len(writes), u < v,
                        writes'[v].status # "blocked",
                        ItemsIn(writes'[u].turns) \cap ItemsIn(writes'[v].turns) # {}
                 PROVE  writes'[u].status \in {"failed", "blocked"} \/ u \in lapsed'
    BY <1>3 DEF NoDuplicateWrite, ItemsIn
  <2>2. writes[v].status # "blocked"
    BY <1>3, <2>1 DEF WriteFails, Running
  <2>3. ItemsIn(writes[u].turns) \cap ItemsIn(writes[v].turns) # {}
    BY <1>4, <2>1
  <2>4. writes[u].status \in {"failed", "blocked"} \/ u \in lapsed
    BY <2>1, <2>2, <2>3 DEF WritebackInv, NoDuplicateWrite
  <2> QED
    BY <1>2, <1>3, <1>5, <2>4
<1>13. buffers' \in [Buffers -> Buffer] /\ OwnBuffers' /\ BuffersBounded'
  BY SameBuffers DEF WriteFails
<1>14. lapsed' \subseteq 1..Len(writes')
  <2>1. \A e \in OwnKeys(w) : e[1] \in 1..Len(writes)
    BY <1>6 DEF OwnKeys
  <2>2. lapsed \subseteq 1..Len(writes)
    BY DEF WritebackInv, TypeOK
  <2> QED
    BY <1>3, <1>5, <2>1, <2>2
<1>15. /\ bufferOn' \in BOOLEAN /\ accepting' \in BOOLEAN
       /\ drain' \in {"none", "waiting", "resolved"} /\ taken' \in 0..MaxTaken
       /\ awaited' \subseteq 1..Len(writes') /\ outcome' \in [Items -> Outcomes]
  BY <1>3 DEF WritebackInv, TypeOK, WriteFails, Outcomes
<1> QED
  BY <1>3, <1>7, <1>8, <1>10, <1>11, <1>12, <1>13, <1>14, <1>15, StepOfParts

\* Keys lost with the dispatches that held them marked as lapsed.
LEMMA LapseKeeps ==
  ASSUME WritebackInv, NEW lost \in SUBSET pending,
         writes' = writes, pending' = pending \ lost,
         lapsed' \subseteq 1..Len(writes), lapsed \subseteq lapsed',
         \A e \in lost : e[1] \in lapsed'
  PROVE  /\ PendingType' /\ FailureReleases' /\ KeysHeld' /\ BatchKeys' /\ NoDuplicateWrite'
<1>1. PendingType'
  BY DEF WritebackInv, TypeOK, PendingType
<1>2. FailureReleases' /\ BatchKeys'
  BY DEF WritebackInv, FailureReleases, BatchKeys
<1>3. KeysHeld'
  <2>1. SUFFICES ASSUME NEW v \in 1..Len(writes), v \notin lapsed',
                        writes[v].status \in {"running", "written"},
                        NEW p \in 1..Len(writes[v].turns)
                 PROVE  <<v, p>> \in pending'
    BY DEF KeysHeld
  <2>2. <<v, p>> \in pending
    BY <2>1 DEF WritebackInv, KeysHeld
  <2>3. <<v, p>> \notin lost
    BY <2>1
  <2> QED
    BY <2>2, <2>3
<1>4. NoDuplicateWrite'
  <2>1. SUFFICES ASSUME NEW u \in 1..Len(writes'), NEW v \in 1..Len(writes'), u < v,
                        writes'[v].status # "blocked",
                        ItemsIn(writes'[u].turns) \cap ItemsIn(writes'[v].turns) # {}
                 PROVE  writes'[u].status \in {"failed", "blocked"} \/ u \in lapsed'
    BY DEF NoDuplicateWrite, ItemsIn
  <2>2. u \in 1..Len(writes) /\ v \in 1..Len(writes)
    OBVIOUS
  <2>3. writes[u].status \in {"failed", "blocked"} \/ u \in lapsed
    BY <2>1, <2>2 DEF WritebackInv, NoDuplicateWrite
  <2> QED
    BY <2>3
<1> QED
  BY <1>1, <1>2, <1>3, <1>4

LEMMA ExpireKeeps ==
  ASSUME WritebackInv, NEW w \in 1..Len(writes), Expire(w)
  PROVE  WritebackInv'
<1> DEFINE keys == {e \in pending : e[1] = w}
<1>1. keys \in SUBSET pending /\ writes' = writes /\ pending' = pending \ keys
      /\ lapsed' = lapsed \cup {w}
  BY DEF Expire
<1>2. lapsed' \subseteq 1..Len(writes) /\ \A e \in keys : e[1] \in lapsed'
  BY <1>1 DEF WritebackInv, TypeOK
<1>3. PendingType' /\ FailureReleases' /\ KeysHeld' /\ BatchKeys' /\ NoDuplicateWrite'
  BY <1>1, <1>2, LapseKeeps
<1>4. buffers' \in [Buffers -> Buffer] /\ OwnBuffers' /\ BuffersBounded'
  BY SameBuffers DEF Expire
<1>5. /\ bufferOn' \in BOOLEAN /\ accepting' \in BOOLEAN /\ writes' \in Seq(Write)
      /\ drain' \in {"none", "waiting", "resolved"} /\ taken' \in 0..MaxTaken
      /\ awaited' \subseteq 1..Len(writes') /\ outcome' \in [Items -> Outcomes]
      /\ lapsed' \subseteq 1..Len(writes')
  BY <1>2 DEF WritebackInv, TypeOK, Expire
<1> QED
  BY <1>3, <1>4, <1>5, StepOfParts

LEMMA CloseKeeps ==
  ASSUME WritebackInv, Close
  PROVE  WritebackInv'
<1>1. writes' = writes /\ pending' = pending \ pending
      /\ lapsed' = lapsed \cup {e[1] : e \in pending}
  BY DEF Close
<1>2. \A e \in pending : e[1] \in 1..Len(writes)
  BY DEF WritebackInv, TypeOK, PendingType
<1>3. lapsed' \subseteq 1..Len(writes) /\ \A e \in pending : e[1] \in lapsed'
  BY <1>1, <1>2 DEF WritebackInv, TypeOK
<1>4. PendingType' /\ FailureReleases' /\ KeysHeld' /\ BatchKeys' /\ NoDuplicateWrite'
  BY <1>1, <1>3, LapseKeeps
<1>5. buffers' \in [Buffers -> Buffer] /\ OwnBuffers' /\ BuffersBounded'
  <2>1. buffers' = [b \in Buffers |-> IF b \in Buffers THEN NoBuffer ELSE buffers[b]]
        /\ accepting' = FALSE
    BY DEF Close
  <2> QED
    BY <2>1, FewerBuffers
<1>6. /\ bufferOn' \in BOOLEAN /\ accepting' \in BOOLEAN /\ writes' \in Seq(Write)
      /\ drain' \in {"none", "waiting", "resolved"} /\ taken' \in 0..MaxTaken
      /\ awaited' \subseteq 1..Len(writes') /\ lapsed' \subseteq 1..Len(writes')
  BY <1>3 DEF WritebackInv, TypeOK, Close
<1>7. outcome' \in [Items -> Outcomes]
  BY DEF WritebackInv, TypeOK, Close, Outcomes
<1> QED
  BY <1>4, <1>5, <1>6, <1>7, StepOfParts

LEMMA DrainKeeps ==
  ASSUME WritebackInv, Drain
  PROVE  WritebackInv'
<1> DEFINE n == Cardinality(NonEmpty)
<1>1. n \in Nat
  BY ItemsAssumption, FS_Subset, FS_CardinalityType DEF NonEmpty
<1>2. PICK order \in [1..n -> NonEmpty] :
        LET batches == [k \in 1..n |-> buffers[order[k]].turns]
        IN /\ \A j, k \in 1..n : j # k => order[j] # order[k]
           /\ Dispatch(batches, TRUE)
           /\ outcome' = Settled(batches, outcome)
  BY DEF Drain
<1> DEFINE batches == [k \in 1..n |-> buffers[order[k]].turns]
<1> HIDE DEF n
<1>3. \A k \in 1..n : order[k] \in Buffers /\ buffers[order[k]].turns \in Seq(Items)
  BY DEF NonEmpty, WritebackInv, TypeOK, Buffer
<1>4. batches \in Seq(Seq(Items)) /\ Len(batches) = n
  BY <1>1, <1>3
<1>5. \A j, k \in 1..Len(batches) :
        j # k => ItemsIn(batches[j]) \cap ItemsIn(batches[k]) = {}
  <2>1. \A k \in 1..n : \A i \in ItemsIn(batches[k]) : BufferOf[i] = order[k]
    BY <1>3 DEF WritebackInv, OwnBuffers
  <2>2. \A j, k \in 1..n : j # k => order[j] # order[k]
    BY <1>2
  <2>3. SUFFICES ASSUME NEW j \in 1..n, NEW k \in 1..n, j # k,
                        NEW i \in ItemsIn(batches[j]) \cap ItemsIn(batches[k])
                 PROVE  FALSE
    BY <1>4
  <2>4. BufferOf[i] = order[j] /\ BufferOf[i] = order[k]
    BY <2>1, <2>3
  <2> QED
    BY <2>2, <2>3, <2>4
<1>6. Dispatch(batches, TRUE) /\ outcome' = Settled(batches, outcome)
  BY <1>2
<1> HIDE DEF batches
<1>7. /\ writes' \in Seq(Write)
      /\ Len(writes) <= Len(writes')
      /\ lapsed' \subseteq 1..Len(writes')
      /\ PendingType' /\ FailureReleases' /\ KeysHeld' /\ BatchKeys' /\ NoDuplicateWrite'
  BY <1>4, <1>5, <1>6, DispatchKeeps
<1>8. buffers' \in [Buffers -> Buffer] /\ OwnBuffers' /\ BuffersBounded'
  <2>1. buffers' = [b \in Buffers |-> IF b \in Buffers THEN NoBuffer ELSE buffers[b]]
        /\ accepting' = FALSE
    BY DEF Drain
  <2> QED
    BY <2>1, FewerBuffers
<1>9. outcome' \in [Items -> Outcomes]
  BY <1>6, SettledType DEF WritebackInv, TypeOK
<1>10. /\ bufferOn' \in BOOLEAN /\ accepting' \in BOOLEAN
       /\ drain' \in {"none", "waiting", "resolved"} /\ taken' \in 0..MaxTaken
       /\ awaited' \subseteq 1..Len(writes')
  BY DEF WritebackInv, TypeOK, Drain, RunningAfter
<1> QED
  BY <1>7, <1>8, <1>9, <1>10, StepOfParts

LEMMA OtherStepKeeps ==
  ASSUME WritebackInv, DrainResolves \/ ChangeMode \/ UNCHANGED vars
  PROVE  WritebackInv'
<1>1. UNCHANGED <<writes, pending, lapsed, buffers, accepting>>
  BY DEF DrainResolves, ChangeMode, vars
<1>2. buffers' \in [Buffers -> Buffer] /\ OwnBuffers' /\ BuffersBounded'
  BY <1>1, SameBuffers
<1>3. /\ writes' \in Seq(Write)
      /\ lapsed' \subseteq 1..Len(writes')
      /\ PendingType' /\ FailureReleases' /\ KeysHeld' /\ BatchKeys' /\ NoDuplicateWrite'
  BY <1>1, SameReservations
<1>4. /\ bufferOn' \in BOOLEAN /\ accepting' \in BOOLEAN
      /\ drain' \in {"none", "waiting", "resolved"} /\ taken' \in 0..MaxTaken
      /\ awaited' \subseteq 1..Len(writes') /\ outcome' \in [Items -> Outcomes]
  BY DEF WritebackInv, TypeOK, DrainResolves, ChangeMode, vars
<1> QED
  BY <1>2, <1>3, <1>4, StepOfParts

LEMMA WritebackStep == WritebackInv /\ [Next]_vars => WritebackInv'
<1> SUFFICES ASSUME WritebackInv, [Next]_vars
             PROVE  WritebackInv'
  OBVIOUS
<1>1. CASE \E i \in Items : EnqueueDirect(i) \/ EnqueueAgain(i) \/ EnqueueBuffered(i)
  <2>1. PICK i \in Items : EnqueueDirect(i) \/ EnqueueAgain(i) \/ EnqueueBuffered(i)
    BY <1>1
  <2>2. CASE EnqueueDirect(i)
    BY <2>2, EnqueueDirectKeeps
  <2>3. CASE EnqueueAgain(i)
    <3>1. BufferOf[i] \in Buffers
      BY ItemsAssumption
    <3> QED
      BY <2>3, <3>1, DiscardKeeps DEF EnqueueAgain
  <2>4. CASE EnqueueBuffered(i)
    BY <2>4, EnqueueBufferedKeeps
  <2> QED
    BY <2>1, <2>2, <2>3, <2>4
<1>2. CASE \E b \in Buffers : IdleFlush(b) \/ DiscardForScopeUpgrade(b)
  BY <1>2, IdleFlushKeeps, DiscardKeeps DEF DiscardForScopeUpgrade
<1>3. CASE \E w \in 1..Len(writes) : WriteStep(w) \/ Expire(w)
  BY <1>3, PartWrittenKeeps, RetryKeeps, WriteFailsKeeps, ExpireKeeps DEF WriteStep
<1>4. CASE Drain
  BY <1>4, DrainKeeps
<1>5. CASE Close
  BY <1>5, CloseKeeps
<1>6. CASE DrainResolves \/ ChangeMode \/ UNCHANGED vars
  BY <1>6, OtherStepKeeps
<1> QED
  BY <1>1, <1>2, <1>3, <1>4, <1>5, <1>6 DEF Next

\* The invariant holds for any turns, buffers and limits, whichever mode changes.
THEOREM WritebackInvariant == Spec => []WritebackInv
<1> QED
  BY WritebackInit, WritebackStep, PTL DEF Spec

\* The state of the runtime keeps its types.
THEOREM WritebackType == Spec => []TypeOK
<1>1. WritebackInv => TypeOK
  BY DEF WritebackInv
<1> QED
  BY <1>1, WritebackInvariant, PTL

\* No turn is written twice unless its first dispatch failed or lost its reservation.
THEOREM WritesOnce == Spec => []NoDuplicateWrite
<1>1. WritebackInv => NoDuplicateWrite
  BY DEF WritebackInv
<1> QED
  BY <1>1, WritebackInvariant, PTL

\* What failed for good is reserved no longer: a replay of the turn is taken up.
THEOREM FailedMayReplay == Spec => []FailureReleases
<1>1. WritebackInv => FailureReleases
  BY DEF WritebackInv
<1> QED
  BY <1>1, WritebackInvariant, PTL

\* Every waiting buffer is below both limits and has its idle timer armed.
THEOREM BuffersStayBounded == Spec => []BuffersBounded
<1>1. WritebackInv => BuffersBounded
  BY DEF WritebackInv
<1> QED
  BY <1>1, WritebackInvariant, PTL

-----------------------------------------------------------------------------
(* While the mode stays as it is, no accepted turn is lost.                 *)

\* A turn in a buffer is reserved by no dispatch, and a runtime that does not buffer has
\* none.  A replay taken up directly while its turn waits would break the former.
FreeWaiting == \A b \in Buffers : \A i \in ItemsIn(buffers[b].turns) : ~Reserved(i)
NoneWaits == ~bufferOn => \A b \in Buffers : buffers[b] = NoBuffer

SteadyInv == NothingLost /\ FreeWaiting /\ NoneWaits

\* What a dispatch makes of the turns of its batches, if none of them is reserved.
LEMMA DispatchFinds ==
  ASSUME WritebackInv, NEW batches \in Seq(Seq(Items)), NEW batch \in BOOLEAN,
         Dispatch(batches, batch),
         \A k \in 1..Len(batches) : \A i \in ItemsIn(batches[k]) : ~Reserved(i)
  PROVE  /\ \A i \in Items : Travelling(i) => Travelling(i)'
         /\ \A k \in 1..Len(batches) : \A i \in ItemsIn(batches[k]) :
              Travelling(i)' \/ (batch /\ Blocked(batches[k]) /\ WrittenBefore(i))
         /\ \A i \in Items : Reserved(i)' =>
              Reserved(i) \/ \E k \in 1..Len(batches) : i \in ItemsIn(batches[k])
<1>1. /\ writes' \in Seq(Write) /\ Len(writes') = Len(writes) + Len(batches)
      /\ \A w \in 1..Len(writes) : writes'[w] = writes[w]
      /\ \A k \in 1..Len(batches) :
           /\ writes'[Len(writes) + k].turns = batches[k]
           /\ writes'[Len(writes) + k].status = IF batch /\ Blocked(batches[k]) THEN "blocked" ELSE "running"
  BY DispatchWrites
<1>2. Len(writes) \in Nat /\ Len(batches) \in Nat
  BY DEF WritebackInv, TypeOK
<1>3. \A w \in 1..Len(writes) : w \in 1..Len(writes')
  BY <1>1, <1>2
<1>4. \A k \in 1..Len(batches) : Len(writes) + k \in 1..Len(writes')
  BY <1>1, <1>2
<1>5. \A i \in Items : Travelling(i) => Travelling(i)'
  BY <1>1, <1>3 DEF Travelling, Running, ItemsIn
<1>6. ASSUME NEW k \in 1..Len(batches), NEW i \in ItemsIn(batches[k])
      PROVE  Travelling(i)' \/ (batch /\ Blocked(batches[k]) /\ WrittenBefore(i))
  <2>1. CASE ~(batch /\ Blocked(batches[k]))
    <3>1. writes'[Len(writes) + k].status = "running" /\ writes'[Len(writes) + k].turns = batches[k]
      BY <1>1, <2>1
    <3> QED
      BY <1>4, <1>6, <3>1 DEF Travelling, Running, ItemsIn
  <2>2. CASE batch /\ Blocked(batches[k])
    <3>1. PICK e \in pending : BatchReservedBy(batches[k], e) \/ \E j \in ItemsIn(batches[k]) : ReservedBy(j, e)
      BY <2>2 DEF Blocked
    <3>2. BatchReservedBy(batches[k], e)
      BY <3>1 DEF Reserved
    <3>3. writes[e[1]].turns = batches[k] /\ i \in ItemsIn(writes[e[1]].turns)
      BY <1>6, <3>2 DEF BatchReservedBy
    <3>4. e[1] \in 1..Len(writes) /\ writes[e[1]].status \in {"running", "written"}
      BY DEF WritebackInv, TypeOK, PendingType, FailureReleases
    <3>5. CASE writes[e[1]].status = "written"
      BY <2>2, <3>3, <3>5 DEF WrittenBefore
    <3>6. CASE writes[e[1]].status = "running"
      <4>1. e[1] \in 1..Len(writes') /\ writes'[e[1]] = writes[e[1]]
        BY <1>1, <1>3, <3>4
      <4> QED
        BY <3>3, <3>6, <4>1 DEF Travelling, Running, ItemsIn
    <3> QED
      BY <3>4, <3>5, <3>6
  <2> QED
    BY <2>1, <2>2
<1>7. ASSUME NEW i \in Items, Reserved(i)'
      PROVE  Reserved(i) \/ \E k \in 1..Len(batches) : i \in ItemsIn(batches[k])
  <2>1. PICK e \in pending' : e[2] > 0 /\ writes'[e[1]].turns[e[2]] = i
    BY <1>7 DEF Reserved, ReservedBy
  <2>2. e \in pending \/ e \in NewKeys(batches, batch)
    BY <2>1, DispatchKeys
  <2>3. CASE e \in pending
    <3>1. e[1] \in 1..Len(writes)
      BY <2>3 DEF WritebackInv, TypeOK, PendingType
    <3> QED
      BY <1>1, <2>1, <2>3, <3>1 DEF Reserved, ReservedBy
  <2>4. CASE e \in NewKeys(batches, batch)
    <3> DEFINE k == e[1] - Len(writes)
    <3>1. e \in (Len(writes) + 1 .. Len(writes')) \X Nat /\ e[2] <= Len(batches[k])
      BY <2>4, DispatchKeys
    <3>2. k \in 1..Len(batches) /\ Len(writes) + k = e[1]
      BY <1>1, <1>2, <3>1
    <3>3. writes'[e[1]].turns = batches[k]
      <4>1. writes'[Len(writes) + k].turns = batches[k]
        BY <1>1, <3>2
      <4> QED
        BY <3>2, <4>1
    <3>4. e[2] \in 1..Len(batches[k])
      <4>1. Len(batches[k]) \in Nat
        BY <3>2
      <4> QED
        BY <2>1, <3>1, <4>1
    <3>5. batches[k][e[2]] = i
      BY <2>1, <3>3
    <3> HIDE DEF k
    <3> QED
      BY <3>2, <3>4, <3>5 DEF ItemsIn
  <2> QED
    BY <2>2, <2>3, <2>4
<1> QED
  BY <1>5, <1>6, <1>7

\* A flush loses nothing, if what is open afterwards waits, travels or is in its batches.
LEMMA FlushLosesNothing ==
  ASSUME WritebackInv, NEW batches \in Seq(Seq(Items)), Dispatch(batches, TRUE),
         \A k \in 1..Len(batches) : \A i \in ItemsIn(batches[k]) : ~Reserved(i),
         NEW out \in [Items -> Outcomes], outcome' = Settled(batches, out),
         \A i \in Items : out[i] = "open" =>
           Waiting(i)' \/ Travelling(i) \/ \E k \in 1..Len(batches) : i \in ItemsIn(batches[k]),
         \A b \in Buffers : \A i \in ItemsIn(buffers'[b].turns) :
           /\ i \in Items /\ ~Reserved(i)
           /\ \A k \in 1..Len(batches) : i \notin ItemsIn(batches[k])
  PROVE  NothingLost' /\ FreeWaiting'
<1>1. TRUE \in BOOLEAN
  OBVIOUS
<1>2. /\ \A i \in Items : Travelling(i) => Travelling(i)'
      /\ \A k \in 1..Len(batches) : \A i \in ItemsIn(batches[k]) :
           Travelling(i)' \/ (Blocked(batches[k]) /\ WrittenBefore(i))
      /\ \A i \in Items : Reserved(i)' =>
           Reserved(i) \/ \E k \in 1..Len(batches) : i \in ItemsIn(batches[k])
  BY <1>1, DispatchFinds
<1>3. ASSUME NEW i \in Items, outcome'[i] = "open"
      PROVE  Waiting(i)' \/ Travelling(i)'
  <2>1. /\ out[i] = "open"
        /\ ~(\E k \in 1..Len(batches) : i \in ItemsIn(batches[k]) /\ Blocked(batches[k]) /\ WrittenBefore(i))
    <3>1. outcome'[i] = IF (\E k \in 1..Len(batches) : i \in ItemsIn(batches[k]) /\ Blocked(batches[k])) /\ WrittenBefore(i)
                        THEN "written" ELSE out[i]
      BY DEF Settled
    <3>2. ~((\E k \in 1..Len(batches) : i \in ItemsIn(batches[k]) /\ Blocked(batches[k])) /\ WrittenBefore(i))
      BY <1>3, <3>1
    <3> QED
      BY <1>3, <3>1, <3>2
  <2> QED
    BY <1>2, <2>1
<1>4. NothingLost'
  BY <1>3 DEF NothingLost
<1>5. FreeWaiting'
  BY <1>2 DEF FreeWaiting
<1> QED
  BY <1>4, <1>5

\* Turns are reserved and travel as before when no dispatch begins and none ends.
LEMMA SteadySame ==
  ASSUME SteadyInv, UNCHANGED <<writes, buffers, bufferOn, outcome>>, pending' \subseteq pending
  PROVE  SteadyInv'
<1>1. \A i \in Items : (Waiting(i) => Waiting(i)') /\ (Travelling(i) => Travelling(i)')
  BY DEF Waiting, Travelling, Running, ItemsIn
<1>2. NothingLost'
  BY <1>1 DEF SteadyInv, NothingLost
<1>3. FreeWaiting' /\ NoneWaits'
  BY DEF SteadyInv, FreeWaiting, NoneWaits, Reserved, ReservedBy, ItemsIn, NoBuffer
<1> QED
  BY <1>2, <1>3 DEF SteadyInv

\* The parts of the state that the steps read.
LEMMA SteadyParts ==
  ASSUME WritebackInv, SteadyInv
  PROVE  /\ outcome \in [Items -> Outcomes] /\ buffers \in [Buffers -> Buffer] /\ bufferOn \in BOOLEAN
         /\ \A b \in Buffers : buffers[b].turns \in Seq(Items)
         /\ \A b \in Buffers : \A i \in ItemsIn(buffers[b].turns) : i \in Items /\ BufferOf[i] = b /\ ~Reserved(i)
         /\ BufferOf \in [Items -> Buffers]
<1>1. /\ outcome \in [Items -> Outcomes] /\ buffers \in [Buffers -> Buffer] /\ bufferOn \in BOOLEAN
      /\ BufferOf \in [Items -> Buffers]
  BY ItemsAssumption DEF WritebackInv, TypeOK
<1>2. \A b \in Buffers : buffers[b].turns \in Seq(Items)
  BY <1>1 DEF Buffer
<1>3. \A b \in Buffers : \A i \in ItemsIn(buffers[b].turns) : i \in Items
  BY <1>2 DEF ItemsIn
<1>4. \A b \in Buffers : \A i \in ItemsIn(buffers[b].turns) : BufferOf[i] = b /\ ~Reserved(i)
  BY DEF WritebackInv, OwnBuffers, SteadyInv, FreeWaiting
<1> QED
  BY <1>1, <1>2, <1>3, <1>4

LEMMA NoBufferHoldsNone == ItemsIn(NoBuffer.turns) = {}
BY DEF ItemsIn, NoBuffer

LEMMA SteadyDirect ==
  ASSUME WritebackInv, SteadyInv, NEW i \in Items, EnqueueDirect(i) PROVE SteadyInv'
<1> DEFINE batches == << <<i>> >>
<1>0. ~Reserved(i) /\ Dispatch(batches, FALSE)
  BY DEF EnqueueDirect, MayTake
<1>1. batches \in Seq(Seq(Items)) /\ Len(batches) = 1 /\ batches[1] = <<i>>
  OBVIOUS
<1>2. /\ outcome' = [outcome EXCEPT ![i] = "open"] /\ ~bufferOn
      /\ UNCHANGED <<bufferOn, buffers>>
  BY DEF EnqueueDirect
<1> HIDE DEF batches
<1>3. /\ \A j \in Items : Travelling(j) => Travelling(j)'
      /\ Travelling(i)'
  <2>1. \A k \in 1..Len(batches) : batches[k] = <<i>>
    BY <1>1
  <2>2. ItemsIn(<<i>>) = {i}
    BY DEF ItemsIn
  <2>3. \A k \in 1..Len(batches) : \A j \in ItemsIn(batches[k]) : ~Reserved(j)
    BY <1>0, <2>1, <2>2
  <2>4. 1 \in 1..Len(batches) /\ i \in ItemsIn(batches[1]) /\ FALSE \in BOOLEAN
    BY <1>1, <2>2
  <2>5. /\ \A j \in Items : Travelling(j) => Travelling(j)'
        /\ \A k \in 1..Len(batches) : \A j \in ItemsIn(batches[k]) :
              Travelling(j)' \/ (FALSE /\ Blocked(batches[k]) /\ WrittenBefore(j))
    BY <1>0, <1>1, <2>3, <2>4, DispatchFinds
  <2> QED
    BY <2>4, <2>5
<1>4. \A b \in Buffers : buffers'[b] = NoBuffer
  BY <1>2 DEF SteadyInv, NoneWaits
<1>5. NothingLost'
  <2>1. ASSUME NEW j \in Items, outcome'[j] = "open" PROVE Waiting(j)' \/ Travelling(j)'
    <3>1. CASE j = i
      BY <1>3, <3>1
    <3>2. CASE j # i
      <4>1. outcome[j] = "open"
        BY <1>2, <2>1, <3>2, SteadyParts
      <4>2. ~Waiting(j)
        BY <1>2, <1>4, NoBufferHoldsNone DEF Waiting
      <4> QED
        BY <1>3, <4>1, <4>2 DEF SteadyInv, NothingLost
    <3> QED
      BY <3>1, <3>2
  <2> QED
    BY <2>1 DEF NothingLost
<1>6. FreeWaiting' /\ NoneWaits'
  BY <1>4, NoBufferHoldsNone DEF FreeWaiting, NoneWaits, NoBuffer, ItemsIn
<1> QED
  BY <1>5, <1>6 DEF SteadyInv

LEMMA SteadyDiscard ==
  ASSUME WritebackInv, SteadyInv, NEW b \in Buffers,
         buffers' = [c \in Buffers |-> IF c \in Discarded(b) THEN NoBuffer ELSE buffers[c]],
         outcome' = [j \in Items |-> IF j \in DiscardedItems(b) THEN "discarded" ELSE outcome[j]],
         UNCHANGED <<bufferOn, writes, pending>>
  PROVE  SteadyInv'
<1>1. ASSUME NEW j \in Items, outcome'[j] = "open" PROVE Waiting(j)' \/ Travelling(j)'
  <2>1. j \notin DiscardedItems(b) /\ outcome[j] = "open"
    BY <1>1
  <2>2. CASE Travelling(j)
    BY <2>2 DEF Travelling, Running, ItemsIn
  <2>3. CASE Waiting(j)
    <3>1. PICK c \in Buffers : j \in ItemsIn(buffers[c].turns)
      BY <2>3 DEF Waiting
    <3>2. c \notin Discarded(b)
      BY <2>1, <3>1 DEF DiscardedItems
    <3>3. buffers'[c] = buffers[c]
      BY <3>2
    <3> QED
      BY <3>1, <3>3 DEF Waiting, ItemsIn
  <2> QED
    BY <2>1, <2>2, <2>3 DEF SteadyInv, NothingLost
<1>2. \A c \in Buffers : buffers'[c] = NoBuffer \/ buffers'[c] = buffers[c]
  OBVIOUS
<1>3. FreeWaiting'
  <2>1. ASSUME NEW c \in Buffers, NEW i \in ItemsIn(buffers'[c].turns) PROVE ~Reserved(i)
    BY <1>2, <2>1, NoBufferHoldsNone DEF SteadyInv, FreeWaiting
  <2>2. \A i : Reserved(i)' <=> Reserved(i)
    BY DEF Reserved, ReservedBy
  <2> QED
    BY <2>1, <2>2 DEF FreeWaiting, ItemsIn
<1>4. NoneWaits'
  BY <1>2 DEF SteadyInv, NoneWaits, NoBuffer
<1> QED
  BY <1>1, <1>3, <1>4 DEF SteadyInv, NothingLost

LEMMA SteadyIdle ==
  ASSUME WritebackInv, SteadyInv, NEW b \in Buffers, IdleFlush(b) PROVE SteadyInv'
<1> DEFINE q == buffers[b].turns
           batches == <<q>>
<1>1. /\ q \in Seq(Items) /\ Dispatch(batches, TRUE) /\ outcome' = Settled(batches, outcome)
      /\ buffers' = [buffers EXCEPT ![b] = NoBuffer] /\ bufferOn' = bufferOn
  BY SteadyParts DEF IdleFlush
<1>2. batches \in Seq(Seq(Items)) /\ Len(batches) = 1 /\ batches[1] = q
  BY <1>1
<1>3. \A c \in Buffers : buffers'[c] = IF c = b THEN NoBuffer ELSE buffers[c]
  BY <1>1, SteadyParts
<1>4. \A i \in ItemsIn(q) : ~Reserved(i)
  BY SteadyParts
<1> HIDE DEF batches
<1>5. \A i \in Items : outcome[i] = "open" =>
        Waiting(i)' \/ Travelling(i) \/ \E k \in 1..Len(batches) : i \in ItemsIn(batches[k])
  <2>1. ASSUME NEW i \in Items, Waiting(i) PROVE Waiting(i)' \/ i \in ItemsIn(q)
    <3>1. PICK c \in Buffers : i \in ItemsIn(buffers[c].turns)
      BY <2>1 DEF Waiting
    <3>2. CASE c = b
      BY <3>1, <3>2
    <3>3. CASE c # b
      <4>1. buffers'[c] = buffers[c]
        BY <1>3, <3>3
      <4> QED
        BY <3>1, <4>1 DEF Waiting, ItemsIn
    <3> QED
      BY <3>2, <3>3
  <2> HIDE DEF q
  <2> QED
    BY <1>2, <2>1 DEF SteadyInv, NothingLost
<1>6. \A c \in Buffers : \A i \in ItemsIn(buffers'[c].turns) :
        /\ i \in Items /\ ~Reserved(i)
        /\ \A k \in 1..Len(batches) : i \notin ItemsIn(batches[k])
  <2>1. ASSUME NEW c \in Buffers, NEW i \in ItemsIn(buffers'[c].turns)
        PROVE  i \in Items /\ ~Reserved(i) /\ i \notin ItemsIn(q)
    <3>1. c # b /\ i \in ItemsIn(buffers[c].turns)
      BY <1>3, <2>1, NoBufferHoldsNone
    <3> QED
      BY <3>1, SteadyParts
  <2> HIDE DEF q
  <2> QED
    BY <1>2, <2>1
<1>7. NothingLost' /\ FreeWaiting'
  <2>1. outcome \in [Items -> Outcomes]
    BY SteadyParts
  <2>2. \A k \in 1..Len(batches) : \A i \in ItemsIn(batches[k]) : ~Reserved(i)
    <3>1. \A k \in 1..Len(batches) : batches[k] = q
      <4> HIDE DEF q
      <4> QED
        BY <1>2
    <3> HIDE DEF q
    <3> QED
      BY <1>4, <3>1
  <2>3. Dispatch(batches, TRUE) /\ outcome' = Settled(batches, outcome)
    BY <1>1 DEF batches
  <2> HIDE DEF q
  <2> QED
    BY <1>2, <1>5, <1>6, <2>1, <2>2, <2>3, FlushLosesNothing
<1>8. NoneWaits'
  BY <1>1, <1>3 DEF SteadyInv, NoneWaits, NoBuffer
<1> QED
  BY <1>7, <1>8 DEF SteadyInv

LEMMA SteadyDrain ==
  ASSUME WritebackInv, SteadyInv, Drain PROVE SteadyInv'
<1> DEFINE n == Cardinality(NonEmpty)
<1>1. n \in Nat /\ IsFiniteSet(NonEmpty)
  BY ItemsAssumption, FS_Subset, FS_CardinalityType DEF NonEmpty
<1>2. PICK order \in [1..n -> NonEmpty] :
        LET batches == [k \in 1..n |-> buffers[order[k]].turns]
        IN /\ \A j, k \in 1..n : j # k => order[j] # order[k]
           /\ Dispatch(batches, TRUE)
           /\ outcome' = Settled(batches, outcome)
  BY DEF Drain
<1> DEFINE batches == [k \in 1..n |-> buffers[order[k]].turns]
<1>3. NonEmpty \subseteq {order[k] : k \in 1..n}
  <2>1. order \in Injection(1..n, NonEmpty)
    BY <1>2 DEF Injection, IsInjective
  <2>2. IsFiniteSet(1..n) /\ Cardinality(1..n) = n
    BY <1>1, FS_Interval
  <2>3. order \in Surjection(1..n, NonEmpty)
    BY <1>1, <2>1, <2>2, FS_Surjection, FS_Injection
  <2> QED
    BY <2>3 DEF Surjection
<1> HIDE DEF n
<1>4. \A k \in 1..n : order[k] \in Buffers /\ buffers[order[k]].turns \in Seq(Items)
  BY SteadyParts DEF NonEmpty
<1>5. batches \in Seq(Seq(Items)) /\ Len(batches) = n /\ \A k \in 1..n : batches[k] = buffers[order[k]].turns
  BY <1>1, <1>4
<1>6. Dispatch(batches, TRUE) /\ outcome' = Settled(batches, outcome)
  BY <1>2
<1> HIDE DEF batches
<1>7. \A k \in 1..Len(batches) : \A i \in ItemsIn(batches[k]) : ~Reserved(i)
  BY <1>4, <1>5, SteadyParts
<1>8. \A i \in Items : Waiting(i) => \E k \in 1..Len(batches) : i \in ItemsIn(batches[k])
  <2>1. ASSUME NEW i \in Items, NEW b \in Buffers, i \in ItemsIn(buffers[b].turns)
        PROVE  \E k \in 1..Len(batches) : i \in ItemsIn(batches[k])
    <3>1. b \in NonEmpty
      BY <2>1 DEF NonEmpty, ItemsIn
    <3>2. PICK k \in 1..n : b = order[k]
      BY <1>3, <3>1
    <3> QED
      BY <1>5, <2>1, <3>2
  <2> QED
    BY <2>1 DEF Waiting
<1>9. bufferOn' = bufferOn /\ \A b \in Buffers : buffers'[b] = NoBuffer
  BY DEF Drain
<1>10. NothingLost' /\ FreeWaiting'
  <2>1. \A b \in Buffers : ItemsIn(buffers'[b].turns) = {}
    BY <1>9, NoBufferHoldsNone
  <2>2. outcome \in [Items -> Outcomes]
    BY SteadyParts
  <2>3. \A i \in Items : outcome[i] = "open" =>
          Waiting(i)' \/ Travelling(i) \/ \E k \in 1..Len(batches) : i \in ItemsIn(batches[k])
    BY <1>8 DEF SteadyInv, NothingLost
  <2> QED
    BY <1>5, <1>6, <1>7, <2>1, <2>2, <2>3, FlushLosesNothing
<1>11. NoneWaits'
  BY <1>9 DEF NoneWaits, NoBuffer
<1> QED
  BY <1>10, <1>11 DEF SteadyInv

\* An enqueue flushes or keeps each turn of its buffer and i, and never both.
LEMMA FlushedKeepsAll ==
  ASSUME WritebackInv, NEW i \in Items, i \notin ItemsIn(buffers[BufferOf[i]].turns)
  PROVE  /\ ItemsIn(Appended(i).turns) \subseteq ItemsIn(buffers[BufferOf[i]].turns) \cup {i}
         /\ \A k \in 1..Len(Flushed(i)) :
              ItemsIn(Flushed(i)[k]) \subseteq ItemsIn(buffers[BufferOf[i]].turns) \cup {i}
         /\ \A j \in ItemsIn(buffers[BufferOf[i]].turns) \cup {i} :
              \/ ~Due(Appended(i)) /\ j \in ItemsIn(Appended(i).turns)
              \/ \E k \in 1..Len(Flushed(i)) : j \in ItemsIn(Flushed(i)[k])
         /\ ~Due(Appended(i)) =>
              \A k \in 1..Len(Flushed(i)) : ItemsIn(Flushed(i)[k]) \cap ItemsIn(Appended(i).turns) = {}
<1> DEFINE old == buffers[BufferOf[i]].turns
           turns == Appended(i).turns
<1>1. old \in Seq(Items)
  BY ItemsAssumption DEF WritebackInv, TypeOK, Buffer
<1>2. turns \in Seq(Items)
  BY AppendedShape DEF Buffer
<1>3. Overflows(i) => ItemsIn(turns) = {i}
  <2>1. Overflows(i) => turns = <<i>>
    BY DEF Appended
  <2>2. ItemsIn(<<i>>) = {i}
    BY DEF ItemsIn
  <2> QED
    BY <2>1, <2>2
<1>4. ~Overflows(i) => ItemsIn(turns) = ItemsIn(old) \cup {i}
  <2>1. ~Overflows(i) => turns = Append(old, i)
    BY DEF Appended
  <2>2. /\ Len(Append(old, i)) = Len(old) + 1
        /\ \A k \in 1..Len(old) : Append(old, i)[k] = old[k]
        /\ Append(old, i)[Len(old) + 1] = i
    BY <1>1, AppendProperties
  <2>3. Len(old) \in Nat
    BY <1>1
  <2>4. 1..Len(old) + 1 = 1..Len(old) \cup {Len(old) + 1}
    BY <2>3
  <2> HIDE DEF old, turns
  <2>5. ItemsIn(Append(old, i)) = ItemsIn(old) \cup {i}
    BY <2>2, <2>4 DEF ItemsIn
  <2> QED
    BY <2>1, <2>5
<1>5. Flushed(i) = (IF Overflows(i) THEN <<old>> ELSE <<>>) \o (IF Due(Appended(i)) THEN <<turns>> ELSE <<>>)
  BY DEF Flushed
<1>6. i \notin ItemsIn(old)
  OBVIOUS
<1> HIDE DEF old, turns
<1>7. CASE ~Overflows(i) /\ ~Due(Appended(i))
  <2>1. Len(Flushed(i)) = 0
    BY <1>5, <1>7
  <2> QED
    BY <1>4, <1>7, <2>1 DEF old, turns
<1>8. CASE ~Overflows(i) /\ Due(Appended(i))
  <2>1. Len(Flushed(i)) = 1 /\ Flushed(i)[1] = turns
    BY <1>2, <1>5, <1>8
  <2>2. 1 \in 1..Len(Flushed(i)) /\ \A k \in 1..Len(Flushed(i)) : Flushed(i)[k] = turns
    BY <2>1
  <2> QED
    BY <1>4, <1>8, <2>2 DEF old, turns
<1>9. CASE Overflows(i) /\ ~Due(Appended(i))
  <2>1. Len(Flushed(i)) = 1 /\ Flushed(i)[1] = old
    BY <1>1, <1>5, <1>9
  <2>2. 1 \in 1..Len(Flushed(i)) /\ \A k \in 1..Len(Flushed(i)) : Flushed(i)[k] = old
    BY <2>1
  <2> QED
    BY <1>3, <1>6, <1>9, <2>2 DEF old, turns
<1>10. CASE Overflows(i) /\ Due(Appended(i))
  <2>1. Len(Flushed(i)) = 2 /\ Flushed(i)[1] = old /\ Flushed(i)[2] = turns
    <3>1. Flushed(i) = <<old>> \o <<turns>>
      BY <1>5, <1>10
    <3>2. <<old>> \in Seq(Seq(Items)) /\ <<turns>> \in Seq(Seq(Items))
      BY <1>1, <1>2
    <3>3. Len(<<old>>) = 1 /\ Len(<<turns>>) = 1 /\ <<old>>[1] = old /\ <<turns>>[1] = turns
      OBVIOUS
    <3> QED
      BY <3>1, <3>2, <3>3, ConcatProperties
  <2>2. /\ 1 \in 1..Len(Flushed(i)) /\ 2 \in 1..Len(Flushed(i))
        /\ \A k \in 1..Len(Flushed(i)) : Flushed(i)[k] = old \/ Flushed(i)[k] = turns
    BY <2>1
  <2> QED
    BY <1>3, <1>10, <2>1, <2>2 DEF old, turns
<1> QED
  BY <1>7, <1>8, <1>9, <1>10

LEMMA SteadyBuffered ==
  ASSUME WritebackInv, SteadyInv, NEW i \in Items, EnqueueBuffered(i) PROVE SteadyInv'
<1> DEFINE b == BufferOf[i]
           old == buffers[b].turns
           new == Appended(i)
           kept == [j \in Items |-> IF j \in DiscardedItems(b) THEN "discarded" ELSE outcome[j]]
           out == [kept EXCEPT ![i] = "open"]
           batches == Flushed(i)
<1>1. /\ ~Reserved(i) /\ i \notin ItemsIn(old) /\ b \in Buffers
      /\ Dispatch(batches, TRUE) /\ outcome' = Settled(batches, out)
      /\ bufferOn /\ bufferOn' = bufferOn
  BY SteadyParts DEF EnqueueBuffered, MayTake
<1>2. \A c \in Buffers : buffers'[c] =
        IF c = b THEN IF Due(new) THEN NoBuffer ELSE new
        ELSE IF c \in Discarded(b) THEN NoBuffer ELSE buffers[c]
  BY DEF EnqueueBuffered
<1>3. out \in [Items -> Outcomes]
  <2>1. kept \in [Items -> Outcomes]
    BY SteadyParts DEF Outcomes
  <2> QED
    BY <2>1 DEF Outcomes
<1>4. \A j \in Items : j # i /\ out[j] = "open" => outcome[j] = "open" /\ j \notin DiscardedItems(b)
  OBVIOUS
<1>5. batches \in Seq(Seq(Items))
  BY <1>1, FlushedShape
<1>6. /\ ItemsIn(new.turns) \subseteq ItemsIn(old) \cup {i}
      /\ \A k \in 1..Len(batches) : ItemsIn(batches[k]) \subseteq ItemsIn(old) \cup {i}
      /\ \A j \in ItemsIn(old) \cup {i} :
           \/ ~Due(new) /\ j \in ItemsIn(new.turns)
           \/ \E k \in 1..Len(batches) : j \in ItemsIn(batches[k])
      /\ ~Due(new) => \A k \in 1..Len(batches) : ItemsIn(batches[k]) \cap ItemsIn(new.turns) = {}
  BY <1>1, FlushedKeepsAll
<1>7. \A j \in ItemsIn(old) \cup {i} : j \in Items /\ BufferOf[j] = b /\ ~Reserved(j)
  BY <1>1, SteadyParts
<1>8. \A c \in Buffers : c # b => \A j \in ItemsIn(buffers[c].turns) : j \in Items /\ BufferOf[j] # b /\ ~Reserved(j)
  BY SteadyParts
<1>9. \A c \in Buffers, j \in Items :
        j \in ItemsIn(buffers[c].turns) /\ j \notin DiscardedItems(b) => c \notin Discarded(b)
  BY DEF DiscardedItems
<1> HIDE DEF b, old, new, kept, out, batches
<1>10. \A k \in 1..Len(batches) : \A j \in ItemsIn(batches[k]) : ~Reserved(j)
  BY <1>6, <1>7
<1>11. ASSUME NEW j \in ItemsIn(old) \cup {i}
       PROVE  Waiting(j)' \/ \E k \in 1..Len(batches) : j \in ItemsIn(batches[k])
  <2>1. ~Due(new) => buffers'[b] = new
    BY <1>1, <1>2
  <2>2. buffers'[b] = new /\ j \in ItemsIn(new.turns) => Waiting(j)'
    BY <1>1 DEF Waiting, ItemsIn
  <2> QED
    BY <1>6, <2>1, <2>2
<1>12. ASSUME NEW j \in Items, out[j] = "open"
       PROVE  Waiting(j)' \/ Travelling(j) \/ \E k \in 1..Len(batches) : j \in ItemsIn(batches[k])
  <2>1. CASE j = i
    BY <1>11, <2>1
  <2>2. CASE j # i
    <3>1. outcome[j] = "open" /\ j \notin DiscardedItems(b)
      BY <1>4, <1>12, <2>2
    <3>2. ASSUME NEW c \in Buffers, j \in ItemsIn(buffers[c].turns), c # b
          PROVE  Waiting(j)'
      <4>1. buffers'[c] = buffers[c]
        BY <1>2, <1>9, <3>1, <3>2
      <4> QED
        BY <3>2, <4>1 DEF Waiting, ItemsIn
    <3>3. j \in ItemsIn(buffers[b].turns) => j \in ItemsIn(old)
      BY DEF old
    <3>4. Waiting(j) \/ Travelling(j)
      BY <3>1 DEF SteadyInv, NothingLost
    <3> QED
      BY <1>11, <3>2, <3>3, <3>4 DEF Waiting
  <2> QED
    BY <2>1, <2>2
<1>13. ASSUME NEW c \in Buffers, NEW j \in ItemsIn(buffers'[c].turns)
       PROVE  /\ j \in Items /\ ~Reserved(j)
              /\ \A k \in 1..Len(batches) : j \notin ItemsIn(batches[k])
  <2>1. CASE c = b
    <3>1. ~Due(new) /\ j \in ItemsIn(new.turns)
      BY <1>2, <1>13, <2>1, NoBufferHoldsNone
    <3> QED
      BY <1>6, <1>7, <3>1
  <2>2. CASE c # b
    <3>1. j \in ItemsIn(buffers[c].turns)
      BY <1>2, <1>13, <2>2, NoBufferHoldsNone
    <3> QED
      BY <1>6, <1>7, <1>8, <2>2, <3>1
  <2> QED
    BY <2>1, <2>2
<1>14. NothingLost' /\ FreeWaiting'
  BY <1>1, <1>3, <1>5, <1>10, <1>12, <1>13, FlushLosesNothing
<1>15. NoneWaits'
  BY <1>1 DEF NoneWaits
<1> QED
  BY <1>14, <1>15 DEF SteadyInv

\* One dispatch moves on: its turns keep travelling with it, or it ends and they
\* have an outcome; the reservations only shrink.
LEMMA SteadyWrite ==
  ASSUME WritebackInv, SteadyInv, NEW w \in 1..Len(writes), NEW new \in Write,
         new.turns = writes[w].turns, writes' = [writes EXCEPT ![w] = new],
         UNCHANGED <<buffers, bufferOn>>, pending' \subseteq pending,
         \A j \in Items : outcome'[j] = "open" =>
           outcome[j] = "open" /\ (new.status = "running" \/ j \notin ItemsIn(new.turns))
  PROVE  SteadyInv'
<1>1. /\ Len(writes') = Len(writes)
      /\ \A v \in 1..Len(writes) : writes'[v] = IF v = w THEN new ELSE writes[v]
  BY ExceptSeq DEF WritebackInv, TypeOK
<1>2. \A v \in 1..Len(writes) : writes'[v].turns = writes[v].turns
  BY <1>1
<1>3. NothingLost'
  <2>1. SUFFICES ASSUME NEW j \in Items, outcome'[j] = "open"
                 PROVE  Waiting(j)' \/ Travelling(j)'
    BY DEF NothingLost
  <2>2. Waiting(j) => Waiting(j)'
    BY DEF Waiting, ItemsIn
  <2>3. ASSUME NEW v \in 1..Len(writes), Running(v), j \in ItemsIn(writes[v].turns)
        PROVE  Travelling(j)'
    <3>1. writes'[v].status = "running"
      BY <1>1, <2>1, <2>3 DEF Running
    <3> QED
      BY <1>1, <1>2, <2>3, <3>1 DEF Travelling, Running, ItemsIn
  <2>4. outcome[j] = "open"
    BY <2>1
  <2> QED
    BY <2>2, <2>3, <2>4 DEF SteadyInv, NothingLost, Travelling
<1>4. FreeWaiting'
  <2>1. \A e \in pending : e[1] \in 1..Len(writes)
    BY DEF WritebackInv, TypeOK, PendingType
  <2>2. ASSUME NEW j, Reserved(j)' PROVE Reserved(j)
    <3>1. PICK e \in pending' : e[2] > 0 /\ writes'[e[1]].turns[e[2]] = j
      BY <2>2 DEF Reserved, ReservedBy
    <3>2. e \in pending /\ writes'[e[1]].turns = writes[e[1]].turns
      BY <1>2, <2>1, <3>1
    <3> QED
      BY <3>1, <3>2 DEF Reserved, ReservedBy
  <2>3. \A c \in Buffers : \A j \in ItemsIn(buffers[c].turns) : ~Reserved(j)
    BY DEF SteadyInv, FreeWaiting
  <2>4. \A c \in Buffers : ItemsIn(buffers'[c].turns) = ItemsIn(buffers[c].turns)
    OBVIOUS
  <2> QED
    BY <2>2, <2>3, <2>4 DEF FreeWaiting
<1>5. NoneWaits'
  BY DEF SteadyInv, NoneWaits, NoBuffer
<1> QED
  BY <1>3, <1>4, <1>5 DEF SteadyInv

LEMMA SteadyWriteStep ==
  ASSUME WritebackInv, SteadyInv, NEW w \in 1..Len(writes), WriteStep(w)
  PROVE  SteadyInv'
<1>1. writes[w] \in Write /\ Running(w)
  BY WriteType DEF WriteStep, PartWritten, Retry, WriteFails
<1>2. outcome \in [Items -> Outcomes]
  BY SteadyParts
<1>3. CASE PartWritten(w) /\ writes[w].part < writes[w].parts
  <2> DEFINE new == [writes[w] EXCEPT !.part = @ + 1, !.attempt = 1]
  <2>1. MaxParts \in Nat /\ 1 \in 1..MaxAttempts
    BY LimitsAssumption
  <2>2. writes[w].part + 1 \in 1..MaxParts
    BY <1>1, <1>3, <2>1 DEF Write
  <2>3. new \in Write /\ new.turns = writes[w].turns /\ new.status = writes[w].status
    BY <1>1, <2>1, <2>2 DEF Write
  <2>4. writes' = [writes EXCEPT ![w] = new] /\ UNCHANGED <<outcome, buffers, bufferOn, pending>>
    BY <1>3 DEF PartWritten
  <2> HIDE DEF new
  <2> QED
    BY <1>1, <2>3, <2>4, SteadyWrite DEF Running
<1>4. CASE PartWritten(w) /\ ~(writes[w].part < writes[w].parts)
  <2> DEFINE new == [writes[w] EXCEPT !.status = "written"]
  <2>1. new \in Write /\ new.turns = writes[w].turns
    BY <1>1 DEF Write, Statuses
  <2>2. writes' = [writes EXCEPT ![w] = new] /\ UNCHANGED <<buffers, bufferOn, pending>>
    BY <1>4 DEF PartWritten
  <2>3. \A j \in Items : outcome'[j] = "open" => outcome[j] = "open" /\ j \notin ItemsIn(writes[w].turns)
    BY <1>4 DEF PartWritten
  <2> HIDE DEF new
  <2> QED
    BY <2>1, <2>2, <2>3, SteadyWrite
<1>5. CASE Retry(w)
  <2> DEFINE new == [writes[w] EXCEPT !.attempt = @ + 1]
  <2>1. MaxAttempts \in Nat
    BY LimitsAssumption
  <2>2. writes[w].attempt + 1 \in 1..MaxAttempts
    BY <1>1, <1>5, <2>1 DEF Write, Retry
  <2>3. new \in Write /\ new.turns = writes[w].turns /\ new.status = writes[w].status
    BY <1>1, <2>2 DEF Write
  <2>4. writes' = [writes EXCEPT ![w] = new] /\ UNCHANGED <<outcome, buffers, bufferOn, pending>>
    BY <1>5 DEF Retry
  <2> HIDE DEF new
  <2> QED
    BY <1>1, <2>3, <2>4, SteadyWrite DEF Running
<1>6. CASE WriteFails(w)
  <2> DEFINE new == [writes[w] EXCEPT !.status = "failed"]
  <2>1. new \in Write /\ new.turns = writes[w].turns
    BY <1>1 DEF Write, Statuses
  <2>2. writes' = [writes EXCEPT ![w] = new] /\ UNCHANGED <<buffers, bufferOn>> /\ pending' \subseteq pending
    BY <1>6 DEF WriteFails
  <2>3. \A j \in Items : outcome'[j] = "open" => outcome[j] = "open" /\ j \notin ItemsIn(writes[w].turns)
    BY <1>6 DEF WriteFails
  <2> HIDE DEF new
  <2> QED
    BY <2>1, <2>2, <2>3, SteadyWrite
<1> QED
  BY <1>3, <1>4, <1>5, <1>6 DEF WriteStep

LEMMA SteadyClose ==
  ASSUME WritebackInv, SteadyInv, Close PROVE SteadyInv'
<1>1. /\ \A b \in Buffers : buffers'[b] = NoBuffer
      /\ pending' = {} /\ UNCHANGED <<writes, bufferOn>>
      /\ \A j \in Items : outcome'[j] = "open" => outcome[j] = "open" /\ ~Waiting(j)
  BY DEF Close, Waiting
<1>2. \A j \in Items : Travelling(j) => Travelling(j)'
  BY <1>1 DEF Travelling, Running, ItemsIn
<1>3. NothingLost'
  BY <1>1, <1>2 DEF SteadyInv, NothingLost
<1>4. FreeWaiting' /\ NoneWaits'
  BY <1>1 DEF FreeWaiting, NoneWaits, Reserved, NoBuffer
<1> QED
  BY <1>3, <1>4 DEF SteadyInv

LEMMA SteadyInit == Init => SteadyInv
<1> SUFFICES ASSUME Init PROVE SteadyInv
  OBVIOUS
<1>1. pending = {} /\ \A b \in Buffers : buffers[b] = NoBuffer
  BY DEF Init
<1>2. \A j \in Items : outcome[j] # "open"
  BY DEF Init
<1> QED
  BY <1>1, <1>2 DEF SteadyInv, NothingLost, FreeWaiting, NoneWaits, Reserved

LEMMA SteadyStep == ~ModeChanges /\ WritebackInv /\ SteadyInv /\ [Next]_vars => SteadyInv'
<1> SUFFICES ASSUME ~ModeChanges, WritebackInv, SteadyInv, [Next]_vars
             PROVE  SteadyInv'
  OBVIOUS
<1>1. ASSUME NEW i \in Items, EnqueueDirect(i) \/ EnqueueAgain(i) \/ EnqueueBuffered(i)
      PROVE  SteadyInv'
  <2>1. CASE EnqueueAgain(i)
    <3>1. BufferOf[i] \in Buffers
      BY ItemsAssumption
    <3> QED
      BY <2>1, <3>1, SteadyDiscard DEF EnqueueAgain
  <2> QED
    BY <1>1, <2>1, SteadyDirect, SteadyBuffered
<1>2. ASSUME NEW b \in Buffers, IdleFlush(b) \/ DiscardForScopeUpgrade(b)
      PROVE  SteadyInv'
  BY <1>2, SteadyIdle, SteadyDiscard DEF DiscardForScopeUpgrade
<1>3. ASSUME NEW w \in 1..Len(writes), WriteStep(w) \/ Expire(w)
      PROVE  SteadyInv'
  BY <1>3, SteadyWriteStep, SteadySame DEF Expire
<1>4. CASE Drain \/ Close
  BY <1>4, SteadyDrain, SteadyClose
<1>5. CASE DrainResolves \/ UNCHANGED vars
  BY <1>5, SteadySame DEF DrainResolves, vars
<1>6. ~ChangeMode
  BY DEF ChangeMode
<1> QED
  BY <1>1, <1>2, <1>3, <1>4, <1>5, <1>6 DEF Next

\* While buffer_enabled stays as it is, a turn that was accepted waits in its buffer or
\* travels to the provider until it has an outcome.
THEOREM NothingIsLost == ~ModeChanges => (Spec => []NothingLost)
<1> SUFFICES ASSUME ~ModeChanges PROVE Spec => []NothingLost
  OBVIOUS
<1>1. WritebackInv /\ SteadyInv /\ [Next]_vars => SteadyInv'
  BY SteadyStep
<1>2. SteadyInv => NothingLost
  BY DEF SteadyInv
<1> QED
  BY <1>1, <1>2, SteadyInit, WritebackInvariant, PTL DEF Spec

-----------------------------------------------------------------------------
(* Shutdown.                                                                *)

\* Once accepting is false no step starts a dispatch.
LEMMA ShutdownStep == WritebackInv /\ [Next]_vars => [~accepting => Len(writes') = Len(writes)]_vars
<1>1. SUFFICES ASSUME WritebackInv, Next, ~accepting
               PROVE  Len(writes') = Len(writes)
  OBVIOUS
<1>2. \A b \in Buffers : buffers[b] = NoBuffer
  BY <1>1 DEF WritebackInv, OwnBuffers
<1>3. ASSUME NEW i \in Items PROVE ~EnqueueDirect(i) /\ ~EnqueueBuffered(i)
  BY <1>1 DEF EnqueueDirect, EnqueueBuffered, MayTake
<1>4. ASSUME NEW b \in Buffers PROVE ~IdleFlush(b)
  <2>1. ~buffers[b].armed
    BY <1>2 DEF NoBuffer
  <2> QED
    BY <2>1 DEF IdleFlush
<1>5. ASSUME NEW w \in 1..Len(writes), WriteStep(w)
      PROVE  Len(writes') = Len(writes)
  <2>1. writes \in Seq(Write)
    BY <1>1 DEF WritebackInv, TypeOK
  <2> QED
    BY <1>5, <2>1 DEF WriteStep, PartWritten, Retry, WriteFails
<1>6. ASSUME Drain PROVE Len(writes') = Len(writes)
  <2>1. NonEmpty = {}
    BY <1>2 DEF NonEmpty, NoBuffer
  <2>2. Cardinality(NonEmpty) = 0
    BY <2>1, FS_EmptySet
  <2>3. PICK batches \in Seq(Seq(Items)) : Len(batches) = 0 /\ Dispatch(batches, TRUE)
    <3>1. PICK order \in [1..0 -> NonEmpty] :
            Dispatch([k \in 1..0 |-> buffers[order[k]].turns], TRUE)
      <4>1. \E order \in [1..Cardinality(NonEmpty) -> NonEmpty] :
              Dispatch([k \in 1..Cardinality(NonEmpty) |-> buffers[order[k]].turns], TRUE)
        BY <1>6 DEF Drain
      <4> QED
        BY <2>2, <4>1
    <3>2. [k \in 1..0 |-> buffers[order[k]].turns] \in Seq(Seq(Items))
          /\ Len([k \in 1..0 |-> buffers[order[k]].turns]) = 0
      OBVIOUS
    <3> QED
      BY <3>1, <3>2
  <2>4. Len(writes') = Len(writes) + Len(batches)
    <3>1. WritebackInv /\ TRUE \in BOOLEAN
      BY <1>1
    <3> QED
      BY <2>3, <3>1, DispatchWrites
  <2>5. Len(writes) \in Nat
    BY <1>1 DEF WritebackInv, TypeOK
  <2> QED
    BY <2>3, <2>4, <2>5
<1> QED
  BY <1>1, <1>3, <1>4, <1>5, <1>6
     DEF Next, EnqueueAgain, DiscardForScopeUpgrade, Expire, DrainResolves, Close, ChangeMode

\* Once drain() or close() has run, no timer and no late enqueue starts a dispatch.
THEOREM QuietAfterShutdown == Spec => NoWriteAfterShutdown
<1> QED
  BY ShutdownStep, WritebackInvariant, PTL DEF Spec, NoWriteAfterShutdown

\* drain() has been called: nothing is accepted, and what still runs is awaited.
DrainInv ==
  /\ drain # "none" => ~accepting /\ \A w \in 1..Len(writes) : Running(w) => w \in awaited
  /\ drain = "resolved" => \A w \in 1..Len(writes) : ~Running(w)

\* Of dispatches that are no more in number, only those that ran before still run.
LEMMA DispatchesEnd ==
  ASSUME WritebackInv, [Next]_vars, ~accepting, drain # "none"
  PROVE  /\ Len(writes') = Len(writes)
         /\ \A w \in 1..Len(writes) : Running(w)' => Running(w)
<1>1. writes \in Seq(Write) /\ Len(writes) \in Nat
  BY DEF WritebackInv, TypeOK
<1>2. Len(writes') = Len(writes)
  BY ShutdownStep DEF vars
<1>3. ASSUME NEW w \in 1..Len(writes), WriteStep(w), NEW v \in 1..Len(writes), Running(v)'
      PROVE  Running(v)
  <2>1. CASE v = w
    BY <1>3, <2>1 DEF WriteStep, PartWritten, Retry, WriteFails
  <2>2. CASE v # w
    <3>1. writes'[v] = writes[v]
      BY <1>1, <1>3, <2>2 DEF WriteStep, PartWritten, Retry, WriteFails
    <3> QED
      BY <1>3, <3>1 DEF Running
  <2> QED
    BY <2>1, <2>2
<1>4. ASSUME UNCHANGED writes, NEW v \in 1..Len(writes), Running(v)'
      PROVE  Running(v)
  BY <1>4 DEF Running
<1>5. /\ ~Drain
      /\ \A i \in Items : ~EnqueueDirect(i) /\ ~EnqueueBuffered(i)
      /\ \A b \in Buffers : ~IdleFlush(b)
  <2>1. \A b \in Buffers : ~buffers[b].armed
    BY DEF WritebackInv, OwnBuffers, NoBuffer
  <2> QED
    BY <2>1 DEF Drain, EnqueueDirect, EnqueueBuffered, MayTake, IdleFlush
<1>6. UNCHANGED writes \/ \E w \in 1..Len(writes) : WriteStep(w)
  BY <1>5 DEF Next, EnqueueAgain, DiscardForScopeUpgrade, Expire, DrainResolves, Close, ChangeMode, vars
<1> QED
  BY <1>2, <1>3, <1>4, <1>6

LEMMA DrainInit == Init => DrainInv
BY DEF Init, DrainInv

LEMMA DrainStep == WritebackInv /\ DrainInv /\ [Next]_vars => DrainInv'
<1> SUFFICES ASSUME WritebackInv, DrainInv, [Next]_vars
             PROVE  DrainInv'
  OBVIOUS
<1>1. CASE Drain
  <2>1. drain' = "waiting" /\ ~accepting' /\ awaited' = RunningAfter
    BY <1>1 DEF Drain
  <2> QED
    BY <2>1 DEF DrainInv, RunningAfter, Running
<1>2. CASE ~Drain /\ drain = "none"
  <2>1. drain' = "none"
    BY <1>2 DEF Next, EnqueueDirect, EnqueueAgain, EnqueueBuffered, IdleFlush, DiscardForScopeUpgrade,
                WriteStep, PartWritten, Retry, WriteFails, Expire, DrainResolves, Close, ChangeMode, vars
  <2> QED
    BY <2>1 DEF DrainInv
<1>3. CASE drain # "none"
  <2>1. ~accepting
    BY <1>3 DEF DrainInv
  <2>2. /\ Len(writes') = Len(writes)
        /\ \A w \in 1..Len(writes) : Running(w)' => Running(w)
    BY <1>3, <2>1, DispatchesEnd
  <2>3. ~accepting' /\ awaited' = awaited
    <3>1. \A i \in Items : ~EnqueueDirect(i) /\ ~EnqueueAgain(i) /\ ~EnqueueBuffered(i)
      BY <2>1 DEF EnqueueDirect, EnqueueAgain, EnqueueBuffered, MayTake
    <3>2. ~Drain
      BY <1>3 DEF Drain
    <3>3. ASSUME NEW w \in 1..Len(writes), WriteStep(w) \/ Expire(w)
          PROVE  accepting' = accepting /\ awaited' = awaited
      BY <3>3 DEF WriteStep, PartWritten, Retry, WriteFails, Expire
    <3>4. ASSUME NEW b \in Buffers, IdleFlush(b) \/ DiscardForScopeUpgrade(b)
          PROVE  accepting' = accepting /\ awaited' = awaited
      BY <3>4 DEF IdleFlush, DiscardForScopeUpgrade
    <3>5. DrainResolves \/ Close \/ ChangeMode \/ UNCHANGED vars
            => awaited' = awaited /\ (accepting' = accepting \/ ~accepting')
      BY DEF DrainResolves, Close, ChangeMode, vars
    <3> QED
      BY <2>1, <3>1, <3>2, <3>3, <3>4, <3>5 DEF Next
  <2>4. drain' = "resolved" => drain = "resolved" \/ DrainResolves
    BY <1>3 DEF Next, EnqueueDirect, EnqueueAgain, EnqueueBuffered, IdleFlush, DiscardForScopeUpgrade,
                WriteStep, PartWritten, Retry, WriteFails, Expire, Drain, Close, ChangeMode, vars
  <2>5. DrainResolves => \A w \in 1..Len(writes) : ~Running(w)
    BY <1>3 DEF DrainInv, DrainResolves
  <2>6. \A w \in 1..Len(writes') : Running(w)' => w \in awaited'
    BY <1>3, <2>2, <2>3 DEF DrainInv
  <2>7. drain' = "resolved" => \A w \in 1..Len(writes') : ~Running(w)'
    BY <2>2, <2>4, <2>5 DEF DrainInv
  <2> QED
    BY <2>3, <2>6, <2>7 DEF DrainInv
<1> QED
  BY <1>1, <1>2, <1>3

\* While buffer_enabled stays as it is, no accepted turn is open and nothing runs any
\* more when the promise of drain() resolves.
THEOREM DrainLeavesNothing == ~ModeChanges => (Spec => []DrainSettles)
<1> SUFFICES ASSUME ~ModeChanges PROVE Spec => []DrainSettles
  OBVIOUS
<1>1. WritebackInv /\ NothingLost /\ DrainInv => DrainSettles
  <2> SUFFICES ASSUME WritebackInv, NothingLost, DrainInv, drain = "resolved"
               PROVE  /\ \A w \in 1..Len(writes) : ~Running(w)
                      /\ \A i \in Items : outcome[i] # "open"
    BY DEF DrainSettles
  <2>1. \A w \in 1..Len(writes) : ~Running(w)
    BY DEF DrainInv
  <2>2. \A b \in Buffers : ItemsIn(buffers[b].turns) = {}
    BY NoBufferHoldsNone DEF WritebackInv, OwnBuffers, DrainInv
  <2> QED
    BY <2>1, <2>2 DEF NothingLost, Waiting, Travelling
<1>2. Spec => []NothingLost
  BY NothingIsLost
<1>3. WritebackInv /\ DrainInv /\ [Next]_vars => DrainInv'
  BY DrainStep
<1> QED
  BY <1>1, <1>2, <1>3, DrainInit, WritebackInvariant, PTL DEF Spec
=============================================================================
