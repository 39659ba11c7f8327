--------------------------- MODULE TraeTurnsProofs ---------------------------
(***************************************************************************)
(* Proofs about the turns of a Trae session (TraeTurns), for any number of  *)
(* turns, prompts and stops, any capacity of the coordinator and any limit  *)
(* of the turns remembered.                                                 *)
(*                                                                         *)
(* TraeInv: unanswered starts wait in the order they came and only the      *)
(* first is under way; the turn of each stands in `asked` behind every turn *)
(* that was registered; a stop has captured a state of its own turn.        *)
(* MarksInv: a registered turn is over, holds the session, or one of the    *)
(* bounded tables has lost it.                                              *)
(***************************************************************************)
EXTENDS TraeTurns, WellFoundedInduction, TLAPS

Phases == {"queued", "interrupting", "resolving", "registered"}

\* The starts that are not answered wait in the order they came, and only the first is
\* under way; what is registered is registered once.
QueueInv ==
  /\ IsInjective(queue)
  /\ \A i \in DOMAIN queue : /\ start[queue[i]].phase \in Phases
                             /\ i # 1 => start[queue[i]].phase = "queued"
  /\ \A s \in Starts : start[s].phase \in Phases => \E i \in DOMAIN queue : queue[i] = s
  /\ \A s \in Starts : /\ start[s].phase \in {"idle", "queued", "interrupting", "resolving"} => born[s] = 0
                       /\ start[s].phase = "registered" => born[s] > 0
                       /\ start[s].phase = "interrupting" => start[s].previous \in Starts
  /\ \A r, s \in Starts : born[r] = born[s] /\ born[r] > 0 => r = s

\* The turn of a start under way or waiting stands in asked where the queue has it; one
\* that is registered came before the whole queue, or is its head.
AskedInv ==
  LET ahead == Len(asked) - Len(queue) IN
  /\ ahead >= 0
  /\ \A i \in DOMAIN queue : asked[ahead + i] = TurnOf[queue[i]]
  /\ \A s \in Starts : born[s] > 0 /\ start[s].phase # "registered" =>
       \E j \in 1..ahead : asked[j] = TurnOf[s]

\* What a stop has captured.
StopInv ==
  /\ active # NoStart => born[active] > 0
  /\ \A p \in Stops :
       /\ stop[p].phase = "idle" => stop[p].active = NoStart
       /\ stop[p].phase = "idle" => stop[p].seen = "idle"
       /\ stop[p].phase = "resolving" => stop[p].seen = "resolving"
       /\ stop[p].active # NoStart => TurnOf[stop[p].active] = StopOf[p]

TraeInv == TypeOK /\ QueueInv /\ AskedInv /\ StopInv /\ NewestHoldsSession

Over(t) == Interrupted(t) \/ Completed(t)

\* One of the bounded tables has lost the turn.
Gone(t) == t \in forgotten \/ \E s \in evicted : TurnOf[s] = t
Known(t) == Over(t) \/ Gone(t)

MarksInv ==
  /\ \A s \in Starts : born[s] > 0 => Known(TurnOf[s]) \/ (active # NoStart /\ TurnOf[active] = TurnOf[s])
  /\ \A r, s \in Starts : 0 < born[r] /\ born[r] < born[s] /\ TurnOf[r] # TurnOf[s] => Known(TurnOf[r])
  /\ \A s \in Starts :
       /\ start[s].phase = "interrupting" /\ active # NoStart => active = start[s].previous
       /\ start[s].phase = "resolving" /\ active # NoStart =>
            TurnOf[active] = TurnOf[s] \/ Known(TurnOf[active])
  /\ \A p \in Stops : /\ stop[p].phase = "recording" => Known(StopOf[p])
                      /\ stop[p].replaced => Gone(StopOf[p])

LEMMA TraeParts ==
  ASSUME TypeOK
  PROVE  /\ turns \subseteq {s \in Starts : born[s] > 0} /\ place \in [Starts -> Nat]
         /\ born \in [Starts -> 0..made] /\ made \in Nat /\ stale \subseteq {s \in Starts : born[s] > 0}
         /\ queue \in Seq(Starts) /\ start \in [Starts -> Start] /\ stop \in [Stops -> Stop]
         /\ active \in Starts \cup {NoStart}
         /\ interrupted \in Seq(Turns) /\ completed \in Seq(Turns)
         /\ Len(interrupted) <= TurnLimit /\ Len(completed) <= TurnLimit
         /\ asked \in Seq(Turns) /\ written \subseteq Stops
         /\ evicted \subseteq Starts /\ forgotten \subseteq Turns
         /\ TurnOf \in [Starts -> Turns] /\ StopOf \in [Stops -> Turns] /\ NoStart \notin Starts
         /\ TurnLimit \in Nat \ {0} /\ MaxEntries \in Nat \ {0}
  BY TraeAssumption DEF TypeOK, Coordinator!TypeOK, Coordinator!Made, Coordinator!TurnsAssumption

LEMMA TraeTypesAfter ==
  ASSUME turns' \subseteq {s \in Starts : born'[s] > 0}, place' \in [Starts -> Nat],
         born' \in [Starts -> 0..made'], made' \in Nat, stale' \subseteq {s \in Starts : born'[s] > 0},
         queue' \in Seq(Starts), start' \in [Starts -> Start], stop' \in [Stops -> Stop],
         active' \in Starts \cup {NoStart}, interrupted' \in Seq(Turns), completed' \in Seq(Turns),
         Len(interrupted') <= TurnLimit, Len(completed') <= TurnLimit,
         asked' \in Seq(Turns), written' \subseteq Stops, evicted' \subseteq Starts,
         forgotten' \subseteq Turns
  PROVE  TypeOK'
  <1>1. completion' \in [Stops -> [phase : {"idle", "resolving", "accepted", "rejected"},
                                   metadata : Starts \cup {NoStart}]]
    <2>1. \A p \in Stops : /\ stop'[p].seen \in {"idle", "resolving", "accepted", "rejected"}
                           /\ stop'[p].entry \in Starts \cup {NoStart}
      BY DEF Stop
    <2> QED
      BY <2>1 DEF completion
  <1>2. Coordinator!TypeOK'
    BY <1>1 DEF Coordinator!TypeOK, Coordinator!Made, Coordinator!Completion
  <1> QED
    BY <1>2 DEF TypeOK

LEMMA AppendIs ==
  ASSUME NEW S, NEW s \in Seq(S), NEW x \in S
  PROVE  /\ Append(s, x) \in Seq(S) /\ DOMAIN Append(s, x) = 1..(Len(s) + 1)
         /\ DOMAIN s = 1..Len(s) /\ Len(s) \in Nat /\ Len(Append(s, x)) = Len(s) + 1
         /\ \A i \in DOMAIN s : i \in DOMAIN Append(s, x) /\ Append(s, x)[i] = s[i]
         /\ Append(s, x)[Len(s) + 1] = x
         /\ \A i \in DOMAIN Append(s, x) : i \in DOMAIN s \/ i = Len(s) + 1
         /\ \A i \in DOMAIN s : i < Len(s) + 1
  OBVIOUS

LEMMA TailIs ==
  ASSUME NEW S, NEW s \in Seq(S), s # <<>>
  PROVE  /\ Tail(s) \in Seq(S) /\ Len(Tail(s)) = Len(s) - 1 /\ Len(s) \in Nat \ {0}
         /\ s[1] \in S /\ 1 \in DOMAIN s /\ Head(s) = s[1]
         /\ \A i \in DOMAIN Tail(s) : i \in Nat \ {0} /\ i + 1 \in DOMAIN s /\ Tail(s)[i] = s[i + 1]
         /\ \A i \in DOMAIN s : i \in Nat \ {0}
         /\ \A i \in DOMAIN s \ {1} : i - 1 \in DOMAIN Tail(s) /\ Tail(s)[i - 1] = s[i]
  <1>1. /\ Tail(s) \in Seq(S) /\ Len(Tail(s)) = Len(s) - 1 /\ Len(s) \in Nat \ {0}
        /\ s[1] \in S /\ 1 \in DOMAIN s /\ Head(s) = s[1]
    OBVIOUS
  <1>2. \A i \in DOMAIN Tail(s) : i \in Nat \ {0} /\ i + 1 \in DOMAIN s /\ Tail(s)[i] = s[i + 1]
    OBVIOUS
  <1>3. \A i \in DOMAIN s : i \in Nat \ {0}
    OBVIOUS
  <1>4. \A i \in DOMAIN s \ {1} : i - 1 \in DOMAIN Tail(s)
    OBVIOUS
  <1>5. \A i \in DOMAIN s \ {1} : Tail(s)[i - 1] = s[i]
    <2>1. \A i \in DOMAIN s \ {1} : (i - 1) + 1 = i
      BY <1>3
    <2> QED
      BY <1>2, <1>4, <2>1
  <1> QED
    BY <1>1, <1>2, <1>3, <1>4, <1>5

LEMMA RememberIs ==
  ASSUME NEW q \in Seq(Turns), NEW t \in Turns, Len(q) <= TurnLimit, TurnLimit \in Nat \ {0}
  PROVE  Remember(q, t) \in Seq(Turns) /\ Len(Remember(q, t)) <= TurnLimit
  <1> DEFINE r == IF t \in ToSet(q) THEN q ELSE Append(q, t)
  <1>1. r \in Seq(Turns) /\ Len(r) <= TurnLimit + 1 /\ Len(r) \in Nat
    OBVIOUS
  <1>2. Remember(q, t) = IF Len(r) > TurnLimit THEN Tail(r) ELSE r
    BY DEF Remember
  <1> HIDE DEF r
  <1> QED
    BY <1>1, <1>2

LEMMA DroppedIs == ASSUME NEW q \in Seq(Turns), NEW r PROVE Dropped(q, r) \subseteq Turns
  BY DEF Dropped, ToSet

\* A start under way is the head of the queue.
LEMMA UnderWayIsHead ==
  ASSUME TypeOK, QueueInv, NEW s \in Starts, start[s].phase \in Phases \ {"queued"}
  PROVE  queue # <<>> /\ queue[1] = s /\ 1 \in DOMAIN queue
  BY TraeParts DEF QueueInv

\* One start moves on in its place.
LEMMA StartGoes ==
  ASSUME TypeOK, QueueInv, AskedInv, NEW s \in Starts, start[s].phase \in Phases, queue # <<>>,
         queue[1] = s, NEW r \in Start, start' = [start EXCEPT ![s] = r],
         r.phase \in Phases, r.phase = "registered" <=> start[s].phase = "registered",
         r.phase = "interrupting" => r.previous \in Starts,
         UNCHANGED <<queue, asked, born>>
  PROVE  QueueInv' /\ AskedInv' /\ start' \in [Starts -> Start]
  <1>1. /\ start' \in [Starts -> Start] /\ start'[s] = r
        /\ \A u \in Starts : u # s => start'[u] = start[u]
    BY TraeParts
  <1>2. QueueInv'
    <2>1. \A i \in DOMAIN queue : /\ start'[queue[i]].phase \in Phases
                                  /\ i # 1 => start'[queue[i]].phase = "queued"
      <3>1. \A i \in DOMAIN queue : queue[i] \in Starts /\ (i # 1 => queue[i] # s)
        BY TraeParts DEF QueueInv, IsInjective
      <3> QED
        BY <1>1, <3>1 DEF QueueInv
    <2>2. \A u \in Starts : start'[u].phase \in Phases => \E i \in DOMAIN queue : queue[i] = u
      BY <1>1 DEF QueueInv
    <2>3. \A u \in Starts : /\ start'[u].phase \in {"idle", "queued", "interrupting", "resolving"} => born[u] = 0
                            /\ start'[u].phase = "registered" => born[u] > 0
                            /\ start'[u].phase = "interrupting" => start'[u].previous \in Starts
      BY <1>1 DEF QueueInv, Phases
    <2> QED
      BY <2>1, <2>2, <2>3 DEF QueueInv
  <1>3. AskedInv'
    BY <1>1 DEF AskedInv
  <1> QED
    BY <1>1, <1>2, <1>3

\* The head of the queue is answered, or refused.
LEMMA StartEnds ==
  ASSUME TypeOK, QueueInv, AskedInv, NEW s \in Starts, start[s].phase \in Phases, queue # <<>>,
         NEW e \in {"done", "failed"},
         queue[1] = s, start' = [start EXCEPT ![s].phase = e], queue' = Tail(queue),
         UNCHANGED <<asked, born>>
  PROVE  QueueInv' /\ AskedInv' /\ start' \in [Starts -> Start] /\ queue' \in Seq(Starts)
  <1>1. /\ start' \in [Starts -> Start] /\ start'[s].phase = e
        /\ \A u \in Starts : u # s => start'[u] = start[u]
    <2> DEFINE r == [start[s] EXCEPT !.phase = e]
    <2>1. start \in [Starts -> Start]
      BY TraeParts
    <2>2. r \in Start /\ r.phase = e
      <3>1. start[s] \in Start
        BY <2>1
      <3> QED
        BY <3>1 DEF Start
    <2>3. start' = [start EXCEPT ![s] = r]
      OBVIOUS
    <2> HIDE DEF r
    <2> QED
      BY <2>1, <2>2, <2>3
  <1>2. /\ queue' \in Seq(Starts) /\ Len(queue') = Len(queue) - 1 /\ Len(queue) \in Nat \ {0}
        /\ \A i \in DOMAIN queue' : i \in Nat \ {0} /\ i + 1 \in DOMAIN queue /\ queue'[i] = queue[i + 1]
        /\ \A i \in DOMAIN queue : i \in Nat \ {0} /\ queue[i] \in Starts
        /\ \A i \in DOMAIN queue \ {1} : i - 1 \in DOMAIN queue' /\ queue'[i - 1] = queue[i]
        /\ 1 \in DOMAIN queue /\ Len(asked) \in Nat
    <2>1. queue \in Seq(Starts) /\ asked \in Seq(Turns)
      BY TraeParts
    <2>2. \A i \in DOMAIN queue : queue[i] \in Starts
      BY <2>1
    <2>3. Len(asked) \in Nat
      BY <2>1
    <2> QED
      BY <2>1, <2>2, <2>3, TailIs
  <1>3. QueueInv'
    <2>0. \A i, j \in DOMAIN queue : queue[i] = queue[j] => i = j
      BY DEF QueueInv, IsInjective
    <2>1. IsInjective(queue')
      <3>1. ASSUME NEW i \in DOMAIN queue', NEW j \in DOMAIN queue', queue'[i] = queue'[j] PROVE i = j
        <4>1. i + 1 = j + 1
          BY <1>2, <2>0, <3>1
        <4> QED
          BY <1>2, <4>1
      <3> QED
        BY <3>1 DEF IsInjective
    <2>2. \A i \in DOMAIN queue' : start'[queue'[i]].phase = "queued"
      <3>1. ASSUME NEW i \in DOMAIN queue'
            PROVE  /\ queue[i + 1] \in Starts /\ queue[i + 1] # s
                   /\ start[queue[i + 1]].phase = "queued"
        <4>1. i + 1 # 1 /\ i + 1 \in DOMAIN queue
          BY <1>2
        <4>2. start[queue[i + 1]].phase = "queued"
          BY <4>1 DEF QueueInv
        <4> QED
          BY <1>2, <2>0, <4>1, <4>2
      <3> QED
        BY <1>1, <1>2, <3>1
    <2>3. \A u \in Starts : start'[u].phase \in Phases => \E i \in DOMAIN queue' : queue'[i] = u
      <3>1. \A u \in Starts : start'[u].phase \in Phases => u # s /\ \E i \in DOMAIN queue : queue[i] = u
        BY <1>1 DEF QueueInv, Phases
      <3>2. ASSUME NEW u \in Starts, start'[u].phase \in Phases
            PROVE  \E i \in DOMAIN queue' : queue'[i] = u
        <4>1. PICK i \in DOMAIN queue : queue[i] = u
          BY <3>1, <3>2
        <4>2. i # 1
          BY <3>1, <3>2, <4>1
        <4> QED
          BY <1>2, <4>1, <4>2
      <3> QED
        BY <3>2
    <2>4. \A u \in Starts : /\ start'[u].phase \in {"idle", "queued", "interrupting", "resolving"} => born[u] = 0
                            /\ start'[u].phase = "registered" => born[u] > 0
                            /\ start'[u].phase = "interrupting" => start'[u].previous \in Starts
      BY <1>1 DEF QueueInv
    <2> QED
      BY <2>1, <2>2, <2>3, <2>4 DEF QueueInv, Phases
  <1>4. AskedInv'
    <2> DEFINE ahead == Len(asked) - Len(queue)
    <2>1. /\ ahead \in Nat /\ Len(asked) - Len(queue') = ahead + 1
          /\ \A i \in DOMAIN queue : asked[ahead + i] = TurnOf[queue[i]]
          /\ \A u \in Starts : born[u] > 0 /\ start[u].phase # "registered" =>
               \E j \in 1..ahead : asked[j] = TurnOf[u]
      BY <1>2 DEF AskedInv
    <2> HIDE DEF ahead
    <2>2. \A i \in DOMAIN queue' : asked[(ahead + 1) + i] = TurnOf[queue'[i]]
      <3>1. \A i \in DOMAIN queue' : (ahead + 1) + i = ahead + (i + 1)
        BY <1>2, <2>1
      <3> QED
        BY <1>2, <2>1, <3>1
    <2>3. \A u \in Starts : born[u] > 0 /\ start'[u].phase # "registered" =>
            \E j \in 1..(ahead + 1) : asked[j] = TurnOf[u]
      <3>0. queue[1] = s /\ 1 \in DOMAIN queue
        BY <1>2
      <3>1. asked[ahead + 1] = TurnOf[s] /\ ahead + 1 \in 1..(ahead + 1)
        <4>1. asked[ahead + 1] = TurnOf[queue[1]]
          BY <2>1, <3>0
        <4>2. ahead + 1 \in 1..(ahead + 1)
          BY <2>1
        <4> QED
          BY <3>0, <4>1, <4>2
      <3>2. \A u \in Starts : u # s /\ born[u] > 0 /\ start'[u].phase # "registered" =>
              \E j \in 1..(ahead + 1) : asked[j] = TurnOf[u]
        BY <1>1, <2>1
      <3> QED
        BY <3>1, <3>2
    <2> QED
      BY <2>1, <2>2, <2>3 DEF AskedInv
  <1> QED
    BY <1>1, <1>2, <1>3, <1>4

\* Nothing is registered and the newest keeps the session.
LEMMA NewestStays ==
  ASSUME TypeOK, NewestHoldsSession, UNCHANGED <<born, made, active, evicted>>,
         asked' = asked \/ \E t \in Turns : asked' = Append(asked, t),
         \A p \in Stops : stop[p].active \in Starts => stop'[p].active = stop[p].active,
         \A p \in Stops : stop[p].phase = "done" => stop'[p].phase = "done"
  PROVE  NewestHoldsSession'
  <1>1. \A r, s \in Starts : 0 < born[r] /\ born[r] < born[s] =>
          \E j, k \in 1..Len(asked') : j < k /\ asked'[j] = TurnOf[r] /\ asked'[k] = TurnOf[s]
    <2>1. /\ 1..Len(asked) \subseteq 1..Len(asked')
          /\ \A j \in 1..Len(asked) : asked'[j] = asked[j]
      <3>1. asked \in Seq(Turns)
        BY TraeParts
      <3>2. CASE asked' = asked
        BY <3>2
      <3>3. ASSUME NEW t \in Turns, asked' = Append(asked, t)
            PROVE  /\ 1..Len(asked) \subseteq 1..Len(asked')
                   /\ \A j \in 1..Len(asked) : asked'[j] = asked[j]
        BY <3>1, <3>3
      <3> QED
        BY <3>2, <3>3
    <2> QED
      BY <2>1 DEF NewestHoldsSession
  <1>2. ASSUME NEW s \in Starts, born[s] > 0, born[s] = made, s \notin evicted,
               \A p \in Stops : stop'[p].active = s => stop'[p].phase # "done"
        PROVE  active = s
    <2>1. \A p \in Stops : stop[p].active = s => stop[p].phase # "done"
      BY <1>2
    <2> QED
      BY <1>2, <2>1 DEF NewestHoldsSession
  <1> QED
    BY <1>1, <1>2 DEF NewestHoldsSession

\* Of the states in a set there is one that was registered last.
LEMMA NewestIs ==
  ASSUME NEW f, NEW m \in Nat, NEW T, T # {}, \A x \in T : f[x] \in 0..m
  PROVE  \E s \in T : \A r \in T : f[r] <= f[s]
  <1> DEFINE D == {m - f[x] : x \in T}
             R == OpToRel(<, Nat)
  <1>1. D \subseteq Nat /\ D # {}
    OBVIOUS
  <1>2. IsWellFoundedOn(R, Nat)
    BY NatLessThanWellFounded
  <1>3. \A x, y \in Nat : <<x, y>> \notin R => ~(x < y)
    BY DEF OpToRel
  <1> HIDE DEF D, R
  <1>4. PICK d \in D : \A e \in D : <<e, d>> \notin R
    BY <1>1, <1>2, WFMin
  <1>5. \A e \in D : ~(e < d) /\ e \in Nat /\ d \in Nat
    BY <1>1, <1>3, <1>4
  <1>6. PICK s \in T : d = m - f[s]
    BY <1>4 DEF D
  <1>7. ASSUME NEW r \in T PROVE f[r] <= f[s]
    <2>1. m - f[r] \in D
      BY DEF D
    <2> QED
      BY <1>5, <1>6, <2>1
  <1> QED
    BY <1>7

LEMMA PreviousIs ==
  ASSUME TypeOK, NEW t \in Turns
  PROVE  Previous(t) \in Starts \cup {NoStart} /\ (active # NoStart => Previous(t) = active)
  <1> DEFINE others == {s \in Coordinator!Fresh : TurnOf[s] # t}
  <1>1. CASE active # NoStart
    BY <1>1, TraeParts DEF Previous
  <1>2. CASE active = NoStart /\ others = {}
    BY <1>2 DEF Previous
  <1>3. CASE active = NoStart /\ others # {}
    <2>1. others \subseteq Starts /\ \A s \in others : born[s] \in 0..made
      BY TraeParts DEF Coordinator!Fresh
    <2>2. Previous(t) = CHOOSE s \in others : \A r \in others : born[r] <= born[s]
      BY <1>3 DEF Previous
    <2> HIDE DEF others
    <2>3. \E s \in others : \A r \in others : born[r] <= born[s]
      BY <1>3, <2>1, NewestIs, TraeParts
    <2>4. Previous(t) \in others
      BY <2>2, <2>3
    <2> QED
      BY <1>3, <2>1, <2>4
  <1> QED
    BY <1>1, <1>2, <1>3

LEMMA FreshIs == Coordinator!Fresh = turns \ stale
  BY DEF Coordinator!Fresh

LEMMA AskStartKeeps == ASSUME TraeInv, NEW s \in Starts, AskStart(s) PROVE TraeInv'
  <1>1. /\ start[s].phase = "idle" /\ start' = [start EXCEPT ![s].phase = "queued"]
        /\ queue' = Append(queue, s) /\ asked' = Append(asked, TurnOf[s])
        /\ UNCHANGED <<turns, place, born, made, stale, stop, active, interrupted, completed, written,
                       evicted, forgotten>>
    BY DEF AskStart, registry, lost
  <1>2. TypeOK /\ QueueInv /\ AskedInv /\ StopInv /\ NewestHoldsSession
    BY DEF TraeInv
  <1>3. /\ start' \in [Starts -> Start] /\ start'[s].phase = "queued"
        /\ \A u \in Starts : u # s => start'[u] = start[u]
    BY <1>1, <1>2, TraeParts DEF Start
  <1> DEFINE n == Len(queue) + 1
             m == Len(asked) + 1
  <1>4. /\ queue' \in Seq(Starts) /\ queue'[n] = s /\ n \in Nat \ {0} /\ Len(queue') = n
        /\ Len(queue) \in Nat /\ DOMAIN queue = 1..Len(queue)
        /\ \A i \in DOMAIN queue : i \in DOMAIN queue' /\ queue'[i] = queue[i] /\ i < n /\ queue[i] \in Starts
        /\ \A i \in DOMAIN queue' : i \in DOMAIN queue \/ i = n
        /\ DOMAIN queue' = 1..n
    <2>1. queue \in Seq(Starts)
      BY <1>2, TraeParts
    <2>2. \A i \in DOMAIN queue : queue[i] \in Starts
      BY <2>1
    <2> QED
      BY <1>1, <2>1, <2>2, AppendIs
  <1>5. TurnOf[s] \in Turns /\ asked \in Seq(Turns)
    BY <1>2, TraeParts
  <1>6. /\ asked' \in Seq(Turns) /\ asked'[m] = TurnOf[s] /\ Len(asked') = m /\ Len(asked) \in Nat
        /\ \A i \in 1..Len(asked) : asked'[i] = asked[i]
    BY <1>1, <1>5, AppendIs
  <1>7. TypeOK'
    BY <1>1, <1>2, <1>3, <1>4, <1>6, TraeParts, TraeTypesAfter
  <1> HIDE DEF n, m
  <1>8. QueueInv'
    <2>1. \A i \in DOMAIN queue : queue[i] # s
      BY <1>1, <1>2 DEF QueueInv, Phases
    <2>2. IsInjective(queue')
      <3>1. ASSUME NEW i \in DOMAIN queue', NEW j \in DOMAIN queue', queue'[i] = queue'[j] PROVE i = j
        BY <1>2, <1>4, <2>1, <3>1 DEF QueueInv, IsInjective
      <3> QED
        BY <3>1 DEF IsInjective
    <2>3. \A i \in DOMAIN queue' : /\ start'[queue'[i]].phase \in Phases
                                   /\ i # 1 => start'[queue'[i]].phase = "queued"
      <3>1. \A i \in DOMAIN queue : start'[queue'[i]] = start[queue[i]]
        BY <1>3, <1>4, <2>1
      <3>2. start'[queue'[n]].phase = "queued"
        BY <1>3, <1>4
      <3> QED
        BY <1>2, <1>4, <3>1, <3>2 DEF QueueInv, Phases
    <2>4. \A u \in Starts : start'[u].phase \in Phases => \E i \in DOMAIN queue' : queue'[i] = u
      <3>1. n \in DOMAIN queue' /\ queue'[n] = s
        BY <1>4
      <3>2. \A u \in Starts : u # s /\ start'[u].phase \in Phases => \E i \in DOMAIN queue' : queue'[i] = u
        BY <1>2, <1>3, <1>4 DEF QueueInv
      <3> QED
        BY <3>1, <3>2
    <2>5. \A u \in Starts : /\ start'[u].phase \in {"idle", "queued", "interrupting", "resolving"} => born[u] = 0
                            /\ start'[u].phase = "registered" => born[u] > 0
                            /\ start'[u].phase = "interrupting" => start'[u].previous \in Starts
      BY <1>1, <1>2, <1>3 DEF QueueInv
    <2> QED
      BY <1>1, <1>2, <2>2, <2>3, <2>4, <2>5 DEF QueueInv
  <1>9. AskedInv'
    <2> DEFINE ahead == Len(asked) - Len(queue)
    <2>1. /\ ahead \in Nat
          /\ \A i \in DOMAIN queue : asked[ahead + i] = TurnOf[queue[i]]
          /\ \A u \in Starts : born[u] > 0 /\ start[u].phase # "registered" =>
               \E j \in 1..ahead : asked[j] = TurnOf[u]
      BY <1>2, <1>4, <1>6 DEF AskedInv
    <2>2. /\ Len(asked') - Len(queue') = ahead /\ ahead + n = m /\ \A j \in 1..ahead : j \in 1..Len(asked)
          /\ \A i \in DOMAIN queue : ahead + i \in 1..Len(asked)
      BY <1>4, <1>6, <2>1 DEF n, m
    <2> HIDE DEF ahead
    <2>3. \A i \in DOMAIN queue' : asked'[ahead + i] = TurnOf[queue'[i]]
      BY <1>4, <1>6, <2>1, <2>2
    <2>4. \A u \in Starts : born[u] > 0 /\ start'[u].phase # "registered" =>
            \E j \in 1..ahead : asked'[j] = TurnOf[u]
      <3>1. born[s] = 0
        BY <1>1, <1>2 DEF QueueInv
      <3>2. ASSUME NEW u \in Starts, born[u] > 0, start'[u].phase # "registered"
            PROVE  \E j \in 1..ahead : asked'[j] = TurnOf[u]
        <4>1. u # s
          BY <3>1, <3>2
        <4>2. PICK j \in 1..ahead : asked[j] = TurnOf[u]
          BY <1>3, <2>1, <3>2, <4>1
        <4>3. asked'[j] = asked[j]
          BY <1>6, <2>2
        <4> QED
          BY <4>2, <4>3
      <3> QED
        BY <3>2
    <2> QED
      BY <1>1, <2>1, <2>2, <2>3, <2>4 DEF AskedInv
  <1>10. StopInv'
    BY <1>1, <1>2 DEF StopInv
  <1>11. NewestHoldsSession'
    BY <1>1, <1>2, <1>5, NewestStays
  <1> QED
    BY <1>7, <1>8, <1>9, <1>10, <1>11 DEF TraeInv

LEMMA StartStepKeeps ==
  ASSUME TraeInv, NEW s \in Starts,
         SkipStart(s) \/ BeginStart(s) \/ Interrupt(s) \/ FailStart(s) \/ FinishStart(s)
  PROVE  TraeInv'
  <1>1. TypeOK /\ QueueInv /\ AskedInv /\ StopInv /\ NewestHoldsSession
    BY DEF TraeInv
  <1>2. /\ turns' \subseteq turns
        /\ UNCHANGED <<place, born, made, stale, stop, active, completed, asked, written, evicted>>
        /\ forgotten' = forgotten \/ forgotten' = forgotten \cup Dropped(interrupted, interrupted')
    BY FreshIs DEF SkipStart, BeginStart, Interrupt, FailStart, FinishStart, registry, lost
  <1>3. start[s].phase \in Phases /\ queue # <<>> /\ queue[1] = s
    <2>1. queue \in Seq(Starts)
      BY <1>1, TraeParts
    <2>2. CASE SkipStart(s) \/ BeginStart(s)
      BY <2>1, <2>2, TailIs DEF SkipStart, BeginStart, TurnOfQueue, Phases
    <2>3. CASE Interrupt(s) \/ FailStart(s) \/ FinishStart(s)
      BY <1>1, <2>3, UnderWayIsHead DEF Interrupt, FailStart, FinishStart, Phases
    <2> QED
      BY <2>2, <2>3
  <1>4. /\ QueueInv' /\ AskedInv' /\ start' \in [Starts -> Start] /\ queue' \in Seq(Starts)
        /\ interrupted' \in Seq(Turns) /\ Len(interrupted') <= TurnLimit
    <2>1. CASE SkipStart(s) \/ FailStart(s) \/ FinishStart(s)
      <3>1. PICK e \in {"done", "failed"} :
              start' = [start EXCEPT ![s].phase = e] /\ queue' = Tail(queue) /\ UNCHANGED interrupted
        BY <2>1 DEF SkipStart, FailStart, FinishStart
      <3> QED
        BY <1>1, <1>2, <1>3, <3>1, StartEnds, TraeParts
    <2>2. CASE BeginStart(s)
      <3> DEFINE prev == Previous(TurnOf[s])
      <3>1. prev \in Starts \cup {NoStart}
        BY <1>1, TraeParts, PreviousIs
      <3>2. /\ start[s].phase = "queued" /\ UNCHANGED <<queue, interrupted>>
            /\ \/ prev # NoStart /\ start' = [start EXCEPT ![s] = [phase |-> "interrupting", previous |-> prev]]
               \/ start' = [start EXCEPT ![s] = [phase |-> "resolving", previous |-> NoStart]]
        BY <2>2 DEF BeginStart
      <3> HIDE DEF prev
      <3>3. PICK r \in Start : /\ start' = [start EXCEPT ![s] = r]
                               /\ r.phase \in {"interrupting", "resolving"}
                               /\ r.phase = "interrupting" => r.previous \in Starts
        <4>1. [phase |-> "resolving", previous |-> NoStart] \in Start
          BY DEF Start
        <4>2. prev # NoStart => /\ [phase |-> "interrupting", previous |-> prev] \in Start
                                /\ prev \in Starts
          BY <3>1 DEF Start
        <4> QED
          BY <3>2, <4>1, <4>2
      <3>4. QueueInv' /\ AskedInv' /\ start' \in [Starts -> Start]
        BY <1>1, <1>2, <1>3, <3>2, <3>3, StartGoes DEF Phases
      <3> QED
        BY <1>1, <3>2, <3>4, TraeParts
    <2>3. CASE Interrupt(s)
      <3> DEFINE r == [phase |-> "resolving", previous |-> NoStart]
      <3>1. /\ start[s].phase = "interrupting" /\ start' = [start EXCEPT ![s] = r]
            /\ interrupted' = Remember(interrupted, TurnOf[start[s].previous]) /\ UNCHANGED queue
        BY <2>3 DEF Interrupt
      <3>2. start[s].previous \in Starts /\ start[s] \in Start
        BY <1>1, <3>1, TraeParts DEF QueueInv
      <3>3. r \in Start /\ r.phase = "resolving"
        BY DEF Start
      <3> HIDE DEF r
      <3>4. QueueInv' /\ AskedInv' /\ start' \in [Starts -> Start]
        BY <1>1, <1>2, <1>3, <3>1, <3>3, StartGoes DEF Phases
      <3>5. TurnOf[start[s].previous] \in Turns
        BY <1>1, <3>2, TraeParts
      <3> QED
        BY <1>1, <3>1, <3>4, <3>5, TraeParts, RememberIs
    <2> QED
      BY <2>1, <2>2, <2>3
  <1>a. forgotten' \subseteq Turns
    BY <1>1, <1>2, TraeParts, DroppedIs
  <1>5. TypeOK'
    BY <1>1, <1>2, <1>4, <1>a, TraeParts, TraeTypesAfter
  <1>6. StopInv'
    BY <1>1, <1>2 DEF StopInv
  <1>7. NewestHoldsSession'
    BY <1>1, <1>2, NewestStays
  <1> QED
    BY <1>4, <1>5, <1>6, <1>7 DEF TraeInv

\* The state is registered: its start is the head of the queue, and no other start has a
\* state that is not answered.
LEMMA RegisterKeeps == ASSUME TraeInv, NEW s \in Starts, Register(s) PROVE TraeInv'
  <1>1. /\ start[s].phase = "resolving" /\ start' = [start EXCEPT ![s].phase = "registered"]
        /\ active' = s /\ UNCHANGED <<queue, interrupted, completed, asked, written, stop, stale>>
        /\ UNCHANGED <<evicted, forgotten>>
        /\ made' = made + 1 /\ born' = [born EXCEPT ![s] = made']
    BY DEF Register, Coordinator!RecordTurnStart, lost
  <1>2. TypeOK /\ QueueInv /\ AskedInv /\ StopInv /\ NewestHoldsSession
    BY DEF TraeInv
  <1>3. queue # <<>> /\ queue[1] = s /\ 1 \in DOMAIN queue
    BY <1>1, <1>2, UnderWayIsHead DEF Phases
  <1>4. /\ start' \in [Starts -> Start] /\ start'[s].phase = "registered"
        /\ \A u \in Starts : u # s => start'[u] = start[u]
    <2> DEFINE r == [start[s] EXCEPT !.phase = "registered"]
    <2>1. start \in [Starts -> Start]
      BY <1>2, TraeParts
    <2>2. r \in Start /\ r.phase = "registered"
      BY <2>1 DEF Start
    <2>3. start' = [start EXCEPT ![s] = r]
      BY <1>1
    <2> HIDE DEF r
    <2> QED
      BY <2>1, <2>2, <2>3
  <1>5. /\ born' \in [Starts -> 0..made'] /\ made' \in Nat /\ born'[s] = made'
        /\ \A u \in Starts : u # s => born'[u] = born[u] /\ born[u] < made'
        /\ born[s] = 0
    <2>1. born \in [Starts -> 0..made] /\ made \in Nat
      BY <1>2, TraeParts
    <2>2. born[s] = 0
      BY <1>1, <1>2 DEF QueueInv
    <2> QED
      BY <1>1, <2>1, <2>2
  <1>6. /\ turns' \subseteq {u \in Starts : born'[u] > 0} /\ place' \in [Starts -> Nat]
        /\ stale' \subseteq {u \in Starts : born'[u] > 0}
    <2>1. turns \subseteq {u \in Starts : born[u] > 0} /\ stale \subseteq {u \in Starts : born[u] > 0}
          /\ place \in [Starts -> Nat] /\ made \in Nat
      BY <1>2, TraeParts
    <2>2. turns' \subseteq turns \cup {s}
      BY DEF Register, Coordinator!RecordTurnStart, Coordinator!Evicted
    <2>3. place' \in [Starts -> Nat]
      <3>1. PICK p \in IF Coordinator!OfTurn(TurnOf[s]) = {} THEN {made'}
                       ELSE {place[r] : r \in Coordinator!OfTurn(TurnOf[s])} :
              place' = [place EXCEPT ![s] = p]
        BY DEF Register, Coordinator!RecordTurnStart
      <3>2. Coordinator!OfTurn(TurnOf[s]) \subseteq Starts
        BY <2>1 DEF Coordinator!OfTurn
      <3>3. p \in Nat
        BY <1>5, <2>1, <3>2
      <3> QED
        BY <2>1, <3>1, <3>3
    <2>4. \A u \in Starts : born[u] > 0 => born'[u] > 0
      BY <1>5
    <2>5. born'[s] > 0
      <3>1. made \in Nat
        BY <2>1
      <3> QED
        BY <1>1, <1>5, <3>1
    <2> QED
      BY <1>1, <2>1, <2>2, <2>3, <2>4, <2>5
  <1>7. TypeOK'
    BY <1>1, <1>2, <1>4, <1>5, <1>6, TraeParts, TraeTypesAfter
  <1>8. \A i \in DOMAIN queue : queue[i] \in Starts /\ (i # 1 => queue[i] # s)
    <2>1. queue \in Seq(Starts)
      BY <1>2, TraeParts
    <2>2. \A i \in DOMAIN queue : queue[i] \in Starts
      BY <2>1
    <2> QED
      BY <1>2, <1>3, <2>2 DEF QueueInv, IsInjective
  <1>9. \A u \in Starts : start[u].phase # "registered"
    <2>1. ASSUME NEW u \in Starts, start[u].phase = "registered" PROVE FALSE
      <3>1. queue[1] = u
        BY <1>2, <2>1, UnderWayIsHead DEF Phases
      <3> QED
        BY <1>1, <1>3, <2>1, <3>1
    <2> QED
      BY <2>1
  <1>10. made \in Nat /\ born[s] = 0 /\ \A u \in Starts : born[u] \in 0..made
    BY <1>2, <1>5, TraeParts
  <1>11. QueueInv'
    <2>1. \A i \in DOMAIN queue : /\ start'[queue[i]].phase \in Phases
                                  /\ i # 1 => start'[queue[i]].phase = "queued"
      BY <1>2, <1>3, <1>4, <1>8 DEF QueueInv, Phases
    <2>2. \A u \in Starts : start'[u].phase \in Phases => \E i \in DOMAIN queue : queue[i] = u
      BY <1>2, <1>3, <1>4 DEF QueueInv
    <2>3. \A u \in Starts : /\ start'[u].phase \in {"idle", "queued", "interrupting", "resolving"} => born'[u] = 0
                            /\ start'[u].phase = "registered" => born'[u] > 0
                            /\ start'[u].phase = "interrupting" => start'[u].previous \in Starts
      BY <1>1, <1>2, <1>4, <1>5, <1>10 DEF QueueInv
    <2>4. \A r, u \in Starts : born'[r] = born'[u] /\ born'[r] > 0 => r = u
      <3>1. \A r, u \in Starts : r # s /\ u # s /\ born'[r] = born'[u] /\ born'[r] > 0 => r = u
        BY <1>2, <1>5 DEF QueueInv
      <3>2. \A u \in Starts : u # s => born'[u] # born'[s]
        BY <1>5, <1>10
      <3> QED
        BY <3>1, <3>2
    <2> QED
      BY <1>1, <1>2, <2>1, <2>2, <2>3, <2>4 DEF QueueInv, IsInjective
  <1>12. AskedInv'
    BY <1>1, <1>2, <1>4, <1>5 DEF AskedInv
  <1>13. StopInv'
    <2>1. born'[s] > 0
      BY <1>1, <1>5, <1>10
    <2> QED
      BY <1>1, <1>2, <2>1 DEF StopInv
  <1>14. NewestHoldsSession'
    <2> DEFINE ahead == Len(asked) - Len(queue)
    <2>1. /\ ahead \in Nat /\ ahead + 1 \in 1..Len(asked) /\ asked[ahead + 1] = TurnOf[s]
          /\ \A j \in 1..ahead : j \in 1..Len(asked) /\ j < ahead + 1
      <3>1. Len(asked) \in Nat /\ Len(queue) \in Nat \ {0}
        <4>1. asked \in Seq(Turns) /\ queue \in Seq(Starts)
          BY <1>2, TraeParts
        <4> QED
          BY <1>3, <4>1
      <3>2. ahead \in Nat
        BY <1>2, <3>1 DEF AskedInv
      <3>3. asked[ahead + 1] = TurnOf[queue[1]]
        BY <1>2, <1>3 DEF AskedInv
      <3> QED
        BY <1>3, <3>1, <3>2, <3>3
    <2>2. \A u \in Starts : born[u] > 0 => \E j \in 1..ahead : asked[j] = TurnOf[u]
      BY <1>2, <1>9 DEF AskedInv
    <2> HIDE DEF ahead
    <2>3. ASSUME NEW r \in Starts, NEW u \in Starts, 0 < born'[r], born'[r] < born'[u]
          PROVE  \E j, k \in 1..Len(asked) : j < k /\ asked[j] = TurnOf[r] /\ asked[k] = TurnOf[u]
      <3>1. r # s
        BY <1>5, <1>10, <2>3
      <3>2. CASE u = s
        <4>1. PICK j \in 1..ahead : asked[j] = TurnOf[r]
          BY <1>5, <2>2, <2>3, <3>1
        <4> QED
          BY <2>1, <3>2, <4>1
      <3>3. CASE u # s
        <4>1. 0 < born[r] /\ born[r] < born[u]
          BY <1>5, <2>3, <3>1, <3>3
        <4> QED
          BY <1>2, <4>1 DEF NewestHoldsSession
      <3> QED
        BY <3>2, <3>3
    <2>4. \A u \in Starts : born'[u] = made' => u = s
      BY <1>1, <1>5, <1>10
    <2> QED
      BY <1>1, <2>3, <2>4 DEF NewestHoldsSession
  <1> QED
    BY <1>7, <1>11, <1>12, <1>13, <1>14 DEF TraeInv

\* One stop goes on, and no start.
StopOnly(p) == /\ stop' \in [Stops -> Stop]
               /\ \A o \in Stops : o # p => stop'[o] = stop[o]
               /\ UNCHANGED <<place, born, made, stale, queue, start, asked, evicted>>
               /\ turns' \subseteq turns

LEMMA StopOnlyIs ==
  ASSUME TraeInv, NEW p \in Stops, NEW r \in Stop, stop' = [stop EXCEPT ![p] = r],
         UNCHANGED <<place, born, made, stale, queue, start, asked, evicted>>, turns' \subseteq turns
  PROVE  StopOnly(p) /\ stop'[p] = r
  <1>1. stop \in [Stops -> Stop]
    BY TraeParts DEF TraeInv
  <1> QED
    BY <1>1 DEF StopOnly

LEMMA StopMoves ==
  ASSUME TraeInv, NEW p \in Stops, StopOnly(p),
         interrupted' \in Seq(Turns), completed' \in Seq(Turns),
         Len(interrupted') <= TurnLimit, Len(completed') <= TurnLimit, written' \subseteq Stops,
         forgotten' \subseteq Turns, stop'[p].phase # "idle", stop'[p].phase = "resolving" => stop'[p].seen = "resolving",
         stop'[p].active # NoStart => TurnOf[stop'[p].active] = StopOf[p],
         stop[p].phase # "done", stop[p].phase # "idle" => stop'[p].active = stop[p].active,
         \/ active' = active /\ (stop'[p].phase = "done" => stop'[p].active = NoStart \/ stop'[p].active # active)
         \/ stop'[p].phase = "done" /\ stop'[p].active = active /\ active' = NoStart
  PROVE  TraeInv'
  <1>1. TypeOK /\ QueueInv /\ AskedInv /\ StopInv /\ NewestHoldsSession
    BY DEF TraeInv
  <1>2. /\ stop' \in [Stops -> Stop] /\ \A o \in Stops : o # p => stop'[o] = stop[o]
        /\ UNCHANGED <<place, born, made, stale, queue, start, asked, evicted>> /\ turns' \subseteq turns
    BY DEF StopOnly
  <1>3. TypeOK'
    BY <1>1, <1>2, TraeParts, TraeTypesAfter
  <1>4. QueueInv' /\ AskedInv'
    BY <1>1, <1>2 DEF QueueInv, AskedInv
  <1>5. StopInv'
    BY <1>1, <1>2 DEF StopInv
  <1>6. NewestHoldsSession'
    <2>1. ASSUME NEW s \in Starts, born[s] > 0, born[s] = made, s \notin evicted,
                 \A o \in Stops : stop'[o].active = s => stop'[o].phase # "done"
          PROVE  active' = s
      <3>1. stop[p].active = s => stop[p].phase # "done"
        OBVIOUS
      <3>2. \A o \in Stops : stop[o].active = s => stop[o].phase # "done"
        BY <1>2, <2>1, <3>1
      <3>3. active = s
        BY <1>1, <2>1, <3>2 DEF NewestHoldsSession
      <3>4. NoStart \notin Starts
        BY <1>1, TraeParts
      <3> QED
        BY <2>1, <3>3
    <2> QED
      BY <1>1, <1>2, <2>1 DEF NewestHoldsSession
  <1> QED
    BY <1>3, <1>4, <1>5, <1>6 DEF TraeInv

LEMMA MarkCompletedIs ==
  ASSUME TypeOK, NEW t \in Turns, MarkCompleted(t)
  PROVE  completed' \in Seq(Turns) /\ Len(completed') <= TurnLimit /\ forgotten' \subseteq Turns
  <1>1. completed' \in Seq(Turns) /\ Len(completed') <= TurnLimit
    BY TraeParts, RememberIs DEF MarkCompleted
  <1>2. forgotten' \subseteq Turns
    BY TraeParts, DroppedIs DEF MarkCompleted
  <1> QED
    BY <1>1, <1>2

LEMMA StopStepKeeps == ASSUME TraeInv, NEW p \in Stops, StopStep(p) PROVE TraeInv'
  <1>1. TypeOK /\ StopInv
    BY DEF TraeInv
  <1>2. /\ stop[p] \in Stop /\ StopOf[p] \in Turns /\ written \subseteq Stops
        /\ interrupted \in Seq(Turns) /\ completed \in Seq(Turns)
        /\ Len(interrupted) <= TurnLimit /\ Len(completed) <= TurnLimit
        /\ active \in Starts \cup {NoStart} /\ NoStart \notin Starts
        /\ turns \subseteq Starts /\ TurnLimit \in Nat \ {0} /\ forgotten \subseteq Turns
    BY <1>1, TraeParts
  <1>3. CASE RefuseStop(p)
    <2> DEFINE r == [stop[p] EXCEPT !.phase = "done"]
    <2>1. /\ stop[p].phase = "idle" /\ stop' = [stop EXCEPT ![p] = r]
          /\ interrupted' = Remember(interrupted, StopOf[p]) /\ turns' \subseteq turns
          /\ forgotten' = forgotten \cup Dropped(interrupted, interrupted')
          /\ UNCHANGED <<place, born, made, stale, queue, start, active, completed, asked, written,
                         evicted>>
      BY <1>3, FreshIs DEF RefuseStop
    <2>2. r \in Stop /\ r.phase = "done" /\ r.active = stop[p].active
      BY <1>2 DEF Stop
    <2>3. stop[p].active = NoStart
      BY <1>1, <2>1 DEF StopInv
    <2>4. interrupted' \in Seq(Turns) /\ Len(interrupted') <= TurnLimit
      BY <1>2, <2>1, RememberIs
    <2>6. forgotten' \subseteq Turns
      BY <1>2, <2>1, DroppedIs
    <2> HIDE DEF r
    <2>5. StopOnly(p) /\ stop'[p] = r
      BY <2>1, <2>2, StopOnlyIs
    <2> QED
      BY <1>2, <2>1, <2>2, <2>3, <2>4, <2>5, <2>6, StopMoves
  <1>4. CASE BeginStop(p)
    <2>1. PICK entry \in IF {s \in Coordinator!Fresh : TurnOf[s] = StopOf[p]} = {} THEN {active}
                         ELSE {s \in Coordinator!Fresh : TurnOf[s] = StopOf[p]} :
            stop' = [stop EXCEPT ![p] =
              [phase |-> "resolving", seen |-> "resolving", entry |-> entry, active |-> active,
               replaced |-> Replaced(StopOf[p]) /\ ~Completed(StopOf[p])]]
      BY <1>4 DEF BeginStop
    <2>2. /\ stop[p].phase = "idle" /\ ~NotOfActive(StopOf[p]) /\ turns' \subseteq turns
          /\ UNCHANGED <<place, born, made, stale, queue, start, active, interrupted, completed,
                         asked, written, evicted, forgotten>>
      BY <1>4, FreshIs DEF BeginStop, lost
    <2>3. entry \in Starts \cup {NoStart}
      BY <1>2, FreshIs
    <2> DEFINE b == Replaced(StopOf[p]) /\ ~Completed(StopOf[p])
               r == [phase |-> "resolving", seen |-> "resolving", entry |-> entry, active |-> active,
                     replaced |-> b]
    <2>4. b \in BOOLEAN
      OBVIOUS
    <2>5. stop' = [stop EXCEPT ![p] = r]
      BY <2>1
    <2> HIDE DEF b
    <2>6. r \in Stop /\ r.phase = "resolving" /\ r.seen = "resolving" /\ r.active = active
      BY <1>2, <2>3, <2>4 DEF Stop
    <2> HIDE DEF r
    <2>7. StopOnly(p) /\ stop'[p] = r
      BY <2>2, <2>5, <2>6, StopOnlyIs
    <2>8. active # NoStart => TurnOf[active] = StopOf[p]
      BY <2>2 DEF NotOfActive
    <2> QED
      BY <1>2, <2>2, <2>6, <2>7, <2>8, StopMoves
  <1>5. CASE AcceptStop(p) \/ RejectStop(p)
    <2>1. PICK seen \in {"accepted", "rejected"} :
            stop' = [stop EXCEPT ![p].phase = "recording", ![p].seen = seen]
      BY <1>5 DEF AcceptStop, RejectStop
    <2>2. /\ stop[p].phase = "resolving" /\ turns' \subseteq turns
          /\ MarkCompleted(StopOf[p]) /\ written' \subseteq Stops
          /\ UNCHANGED <<place, born, made, stale, queue, start, active, interrupted, asked, evicted>>
      BY <1>2, <1>5 DEF AcceptStop, RejectStop, registry
    <2> DEFINE r == [stop[p] EXCEPT !.phase = "recording", !.seen = seen]
    <2>3. r \in Stop /\ r.phase = "recording" /\ r.active = stop[p].active
      BY <1>2 DEF Stop
    <2>4. stop' = [stop EXCEPT ![p] = r]
      <3>1. stop \in [Stops -> Stop]
        BY <1>1, TraeParts
      <3> QED
        BY <2>1, <3>1
    <2> HIDE DEF r
    <2>5. StopOnly(p) /\ stop'[p] = r
      BY <2>2, <2>3, <2>4, StopOnlyIs
    <2>6. completed' \in Seq(Turns) /\ Len(completed') <= TurnLimit /\ forgotten' \subseteq Turns
      BY <1>1, <1>2, <2>2, MarkCompletedIs
    <2>7. stop[p].active # NoStart => TurnOf[stop[p].active] = StopOf[p]
      BY <1>1 DEF StopInv
    <2> QED
      BY <1>2, <2>2, <2>3, <2>5, <2>6, <2>7, StopMoves
  <1>6. CASE EndStop(p)
    <2> DEFINE r == [stop[p] EXCEPT !.phase = "done"]
    <2>1. /\ stop[p].phase = "recording" /\ stop' = [stop EXCEPT ![p] = r]
          /\ active' = IF stop[p].active # NoStart /\ active = stop[p].active THEN NoStart ELSE active
          /\ UNCHANGED <<turns, place, born, made, stale, queue, start, interrupted, completed, asked, written,
                         evicted, forgotten>>
      BY <1>6 DEF EndStop, ClearsActive, registry, lost
    <2>2. r \in Stop /\ r.phase = "done" /\ r.active = stop[p].active
      BY <1>2 DEF Stop
    <2> HIDE DEF r
    <2>3. StopOnly(p) /\ stop'[p] = r
      BY <2>1, <2>2, StopOnlyIs
    <2>4. stop[p].active # NoStart => TurnOf[stop[p].active] = StopOf[p]
      BY <1>1 DEF StopInv
    <2> QED
      BY <1>2, <2>1, <2>2, <2>3, <2>4, StopMoves
  <1>7. CASE FailStop(p)
    <2> DEFINE r == [stop[p] EXCEPT !.phase = "failed", !.seen = "rejected"]
    <2>1. /\ stop[p].phase = "resolving" /\ stop' = [stop EXCEPT ![p] = r]
          /\ UNCHANGED <<turns, place, born, made, stale, queue, start, active, interrupted, completed,
                         asked, written, evicted, forgotten>>
      <3>1. stop \in [Stops -> Stop]
        BY <1>1, TraeParts
      <3> QED
        BY <1>7, <3>1 DEF FailStop, registry, lost
    <2>2. r \in Stop /\ r.phase = "failed" /\ r.active = stop[p].active
      BY <1>2 DEF Stop
    <2> HIDE DEF r
    <2>3. StopOnly(p) /\ stop'[p] = r
      BY <2>1, <2>2, StopOnlyIs
    <2>4. stop[p].active # NoStart => TurnOf[stop[p].active] = StopOf[p]
      BY <1>1 DEF StopInv
    <2> QED
      BY <1>2, <2>1, <2>2, <2>3, <2>4, StopMoves
  <1> QED
    BY <1>3, <1>4, <1>5, <1>6, <1>7 DEF StopStep

LEMMA TimerKeeps ==
  ASSUME TraeInv, PruneExpired \/ \E s \in Starts : GrowOld(s) PROVE TraeInv'
  <1>1. TypeOK /\ QueueInv /\ AskedInv /\ StopInv /\ NewestHoldsSession
    BY DEF TraeInv
  <1>2. /\ turns' \subseteq turns /\ stale' \subseteq {u \in Starts : born[u] > 0}
        /\ UNCHANGED <<place, born, made, queue, start, stop, active, interrupted, completed, asked, written,
                       evicted, forgotten>>
    <2>1. stale \subseteq {u \in Starts : born[u] > 0}
      BY <1>1, TraeParts
    <2> QED
      BY <1>1, <2>1, FreshIs, TraeParts DEF PruneExpired, GrowOld, Coordinator!PruneExpired,
                                            Coordinator!GrowOld, lost
  <1>3. TypeOK'
    BY <1>1, <1>2, TraeParts, TraeTypesAfter
  <1>4. QueueInv' /\ AskedInv' /\ StopInv' /\ NewestHoldsSession'
    BY <1>1, <1>2 DEF QueueInv, AskedInv, StopInv, NewestHoldsSession
  <1> QED
    BY <1>3, <1>4 DEF TraeInv

\* What other sessions evict.
LEMMA OthersKeep == ASSUME TraeInv, OtherSessions PROVE TraeInv'
  <1>1. /\ TypeOK /\ QueueInv /\ AskedInv /\ StopInv /\ NewestHoldsSession
        /\ interrupted \in Seq(Turns) /\ completed \in Seq(Turns) /\ forgotten \subseteq Turns
        /\ Len(interrupted) <= TurnLimit /\ Len(completed) <= TurnLimit /\ TurnLimit \in Nat
        /\ active \in Starts \cup {NoStart} /\ NoStart \notin Starts /\ evicted \subseteq Starts
    BY TraeParts DEF TraeInv
  <1>2. /\ turns' \subseteq turns
        /\ UNCHANGED <<place, born, made, stale, queue, start, stop, asked, written>>
    BY DEF OtherSessions, EvictActive, EvictState, EvictInterrupted, EvictCompleted, registry,
           lost, Coordinator!DiscardTurn
  <1>3. \/ UNCHANGED <<active, evicted>>
        \/ active \in Starts /\ active' = NoStart /\ evicted' = evicted \cup {active}
    BY <1>1 DEF OtherSessions, EvictActive, EvictState, EvictInterrupted, EvictCompleted, lost
  <1>4. /\ interrupted' \in Seq(Turns) /\ Len(interrupted') <= TurnLimit
        /\ completed' \in Seq(Turns) /\ Len(completed') <= TurnLimit
    <2>1. /\ interrupted' = interrupted \/ (interrupted # <<>> /\ interrupted' = Tail(interrupted))
          /\ completed' = completed \/ (completed # <<>> /\ completed' = Tail(completed))
      BY DEF OtherSessions, EvictActive, EvictState, EvictInterrupted, EvictCompleted, lost
    <2>2. interrupted' \in Seq(Turns) /\ Len(interrupted') <= TurnLimit
      BY <1>1, <2>1
    <2>3. completed' \in Seq(Turns) /\ Len(completed') <= TurnLimit
      BY <1>1, <2>1
    <2> QED
      BY <2>2, <2>3
  <1>5. forgotten' \subseteq Turns
    <2>1. \/ forgotten' = forgotten \/ forgotten' = forgotten \cup Dropped(interrupted, interrupted')
          \/ forgotten' = forgotten \cup Dropped(completed, completed')
      BY DEF OtherSessions, EvictActive, EvictState, EvictInterrupted, EvictCompleted, lost
    <2> QED
      BY <1>1, <2>1, DroppedIs
  <1>6. TypeOK'
    BY <1>1, <1>2, <1>3, <1>4, <1>5, TraeParts, TraeTypesAfter
  <1>7. QueueInv' /\ AskedInv'
    BY <1>1, <1>2 DEF QueueInv, AskedInv
  <1>8. StopInv'
    BY <1>1, <1>2, <1>3 DEF StopInv
  <1>9. NewestHoldsSession'
    BY <1>1, <1>2, <1>3 DEF NewestHoldsSession
  <1> QED
    BY <1>6, <1>7, <1>8, <1>9 DEF TraeInv

LEMMA TraeBegins == ASSUME Init PROVE TraeInv
  <1>1. TypeOK
    <2>1. /\ \A s \in Starts : start[s] = [phase |-> "idle", previous |-> NoStart]
          /\ \A p \in Stops : stop[p] = [phase |-> "idle", seen |-> "idle", entry |-> NoStart,
                                          active |-> NoStart, replaced |-> FALSE]
      BY DEF Init
    <2>2. start \in [Starts -> Start] /\ stop \in [Stops -> Stop]
      BY DEF Init, Start, Stop
    <2>3. completion \in [Stops -> [phase : {"idle", "resolving", "accepted", "rejected"},
                                    metadata : Starts \cup {NoStart}]]
      BY <2>1 DEF completion
    <2>4. Coordinator!TypeOK
      BY <2>3 DEF Init, Coordinator!TypeOK, Coordinator!Made, Coordinator!Completion
    <2>5. /\ queue \in Seq(Starts) /\ {interrupted, completed} \subseteq Seq(Turns)
          /\ Len(interrupted) <= TurnLimit /\ Len(completed) <= TurnLimit /\ asked \in Seq(Turns)
      <3>1. TurnLimit \in Nat
        BY TraeAssumption
      <3> QED
        BY <3>1 DEF Init
    <2> QED
      BY <2>2, <2>4, <2>5 DEF Init, TypeOK
  <1>2. QueueInv
    BY DEF Init, QueueInv, Phases, IsInjective
  <1>3. AskedInv /\ StopInv /\ NewestHoldsSession
    BY DEF Init, AskedInv, StopInv, NewestHoldsSession
  <1> QED
    BY <1>1, <1>2, <1>3 DEF TraeInv

LEMMA TraeStutters == ASSUME TraeInv, UNCHANGED vars PROVE TraeInv'
  <1>1. UNCHANGED <<turns, place, born, made, stale, queue, start, stop, active, interrupted,
                    completed, asked, written, evicted, forgotten>>
    BY DEF vars
  <1>2. TypeOK'
    BY <1>1, TraeParts, TraeTypesAfter DEF TraeInv
  <1> QED
    BY <1>1, <1>2 DEF TraeInv, QueueInv, AskedInv, StopInv, NewestHoldsSession

LEMMA TraeSteps == TraeInv /\ [Next]_vars => TraeInv'
  <1> SUFFICES ASSUME TraeInv, [Next]_vars PROVE TraeInv'
    OBVIOUS
  <1>1. ASSUME NEW s \in Starts, AskStart(s) \/ StartStep(s) PROVE TraeInv'
    BY <1>1, AskStartKeeps, StartStepKeeps, RegisterKeeps DEF StartStep
  <1> QED
    BY <1>1, StopStepKeeps, TimerKeeps, OthersKeep, TraeStutters DEF Next

\* TraeInv holds of every state of a session, however the awaits of its prompts and stops
\* interleave with each other and with the coordinator's timer.
THEOREM TraeInvariant == Spec => []TraeInv
  BY TraeBegins, TraeSteps, PTL DEF Spec

\* Turns are registered in the order their prompts came, and the newest holds the session
\* until a stop of its own ends or other sessions evict it: no late stop of an older turn,
\* and no hook that throws, takes it away.
THEOREM NewestKeepsItsSession == Spec => []NewestHoldsSession
  <1>1. TraeInv => NewestHoldsSession
    BY DEF TraeInv
  <1> QED
    BY <1>1, TraeInvariant, PTL

-----------------------------------------------------------------------------
(* The runtime uses the registry as TurnCoordinator describes it.          *)

LEMMA CoordinatorBegins == ASSUME Init PROVE Coordinator!Init
  BY DEF Init, Coordinator!Init, completion

LEMMA CompletionRests ==
  ASSUME \A p \in Stops : stop'[p].seen = stop[p].seen /\ stop'[p].entry = stop[p].entry
  PROVE  completion' = completion
  BY DEF completion

\* A completion moves as the stop it stands for does.
LEMMA CompletionMoves ==
  ASSUME NEW p \in Stops, \A o \in Stops : o # p => stop'[o] = stop[o]
  PROVE  completion' = [completion EXCEPT ![p] = [phase |-> stop'[p].seen, metadata |-> stop'[p].entry]]
  BY DEF completion

LEMMA CoordinatorSteps ==
  TraeInv /\ [Next]_vars => [Coordinator!Next]_(Coordinator!vars)
  <1> SUFFICES ASSUME TraeInv, [Next]_vars PROVE [Coordinator!Next]_(Coordinator!vars)
    OBVIOUS
  <1>1. /\ TypeOK /\ QueueInv /\ StopInv /\ stop \in [Stops -> Stop]
        /\ turns \subseteq {s \in Starts : born[s] > 0} /\ active \in Starts \cup {NoStart}
        /\ StopOf \in [Stops -> Turns] /\ TurnOf \in [Starts -> Turns]
    BY TraeParts DEF TraeInv
  <1>2. ASSUME UNCHANGED <<turns, place, born, made, stale, completion>>
        PROVE  UNCHANGED Coordinator!vars
    BY <1>2 DEF Coordinator!vars
  <1>3. ASSUME UNCHANGED <<place, born, made, stale, completion>>, turns' = Coordinator!Fresh
        PROVE  Coordinator!Next
    BY <1>3 DEF Coordinator!Next, Coordinator!PruneExpired
  <1>4. ASSUME UNCHANGED stop PROVE completion' = completion
    BY <1>4, CompletionRests
  <1>5. ASSUME NEW s \in Starts, AskStart(s) \/ StartStep(s) \/ GrowOld(s)
        PROVE  [Coordinator!Next]_(Coordinator!vars)
    <2>1. CASE AskStart(s) \/ FailStart(s) \/ FinishStart(s)
      BY <1>2, <1>4, <2>1 DEF AskStart, FailStart, FinishStart, registry
    <2>2. CASE SkipStart(s) \/ BeginStart(s)
      BY <1>3, <1>4, <2>2 DEF SkipStart, BeginStart
    <2>3. CASE Interrupt(s)
      <3>1. TurnOf[start[s].previous] \in Turns
        BY <1>1, <2>3 DEF Interrupt, QueueInv
      <3>2. Coordinator!DiscardTurn(TurnOf[start[s].previous])
        BY <1>4, <2>3 DEF Interrupt, Coordinator!DiscardTurn
      <3> QED
        BY <3>1, <3>2 DEF Coordinator!Next
    <2>4. CASE Register(s)
      <3>1. Coordinator!RecordTurnStart(s)
        BY <2>4 DEF Register
      <3> QED
        BY <3>1 DEF Coordinator!Next
    <2>5. CASE GrowOld(s)
      <3>1. Coordinator!GrowOld(s)
        BY <2>5 DEF GrowOld
      <3> QED
        BY <3>1 DEF Coordinator!Next
    <2> QED
      BY <1>5, <2>1, <2>2, <2>3, <2>4, <2>5 DEF StartStep
  <1>6. ASSUME NEW p \in Stops, StopStep(p) PROVE [Coordinator!Next]_(Coordinator!vars)
    <2>0. stop[p] \in Stop
      BY <1>1
    <2>1. CASE RefuseStop(p)
      <3>1. \A o \in Stops : stop'[o].seen = stop[o].seen /\ stop'[o].entry = stop[o].entry
        BY <1>1, <2>1 DEF RefuseStop, Stop
      <3> QED
        BY <1>3, <2>1, <3>1, CompletionRests DEF RefuseStop
    <2>2. CASE BeginStop(p)
      <3>1. PICK entry \in IF {s \in Coordinator!Fresh : TurnOf[s] = StopOf[p]} = {} THEN {active}
                           ELSE {s \in Coordinator!Fresh : TurnOf[s] = StopOf[p]} :
              stop' = [stop EXCEPT ![p] =
                [phase |-> "resolving", seen |-> "resolving", entry |-> entry, active |-> active,
                 replaced |-> Replaced(StopOf[p]) /\ ~Completed(StopOf[p])]]
        BY <2>2 DEF BeginStop
      <3>2. /\ stop[p].phase = "idle" /\ ~NotOfActive(StopOf[p])
            /\ turns' = Coordinator!Fresh /\ UNCHANGED <<place, born, made, stale>>
        BY <2>2 DEF BeginStop
      <3>3. /\ stop'[p].seen = "resolving" /\ stop'[p].entry = entry
            /\ \A o \in Stops : o # p => stop'[o] = stop[o]
        BY <1>1, <3>1
      <3>4. completion' = [completion EXCEPT ![p] = [phase |-> "resolving", metadata |-> entry]]
        BY <3>3, CompletionMoves
      <3>5. completion[p].phase = "idle"
        BY <1>1, <3>2 DEF completion, StopInv
      <3>6. entry \in {r \in Coordinator!Made : TurnOf[r] = StopOf[p]} \cup {NoStart}
        <4>1. active = NoStart \/ (TurnOf[active] = StopOf[p] /\ active \in Starts /\ born[active] > 0)
          BY <1>1, <3>2 DEF NotOfActive, StopInv
        <4>2. Coordinator!Fresh \subseteq {s \in Starts : born[s] > 0}
          BY <1>1, FreshIs
        <4> QED
          BY <3>1, <4>1, <4>2 DEF Coordinator!Made
      <3>7. entry \in Starts \cup {NoStart}
        BY <3>6 DEF Coordinator!Made
      <3>8. Coordinator!Begin(p)
        BY <3>2, <3>4, <3>5, <3>6, <3>7 DEF Coordinator!Begin
      <3> QED
        BY <3>8 DEF Coordinator!Next
    <2>3. CASE AcceptStop(p)
      <3>1. /\ stop[p].phase = "resolving" /\ turns' = turns \ Coordinator!Consumed(p)
            /\ UNCHANGED <<place, born, made, stale>>
            /\ stop' = [stop EXCEPT ![p].phase = "recording", ![p].seen = "accepted"]
        BY <2>3 DEF AcceptStop, Consumed
      <3>2. /\ stop'[p].seen = "accepted" /\ stop'[p].entry = stop[p].entry
            /\ \A o \in Stops : o # p => stop'[o] = stop[o]
        BY <1>1, <2>0, <3>1 DEF Stop
      <3>3. completion[p] = [phase |-> "resolving", metadata |-> stop[p].entry]
        BY <1>1, <3>1 DEF completion, StopInv
      <3>4. completion' = [completion EXCEPT ![p].phase = "accepted"]
        <4>1. completion' = [completion EXCEPT ![p] = [phase |-> "accepted", metadata |-> stop[p].entry]]
          BY <3>2, CompletionMoves
        <4>2. [completion[p] EXCEPT !.phase = "accepted"] = [phase |-> "accepted", metadata |-> stop[p].entry]
          BY <3>3
        <4> QED
          BY <4>1, <4>2
      <3>5. Coordinator!Accept(p)
        BY <3>1, <3>3, <3>4 DEF Coordinator!Accept
      <3> QED
        BY <3>5 DEF Coordinator!Next
    <2>4. CASE RejectStop(p) \/ FailStop(p)
      <3>1. /\ stop[p].phase = "resolving" /\ UNCHANGED <<turns, place, born, made, stale>>
            /\ \E e \in {"recording", "failed"} :
                 stop' = [stop EXCEPT ![p].phase = e, ![p].seen = "rejected"]
        BY <2>4 DEF RejectStop, FailStop, registry
      <3>2. /\ stop'[p].seen = "rejected" /\ stop'[p].entry = stop[p].entry
            /\ \A o \in Stops : o # p => stop'[o] = stop[o]
        BY <1>1, <2>0, <3>1 DEF Stop
      <3>3. completion[p] = [phase |-> "resolving", metadata |-> stop[p].entry]
        BY <1>1, <3>1 DEF completion, StopInv
      <3>4. completion' = [completion EXCEPT ![p].phase = "rejected"]
        <4>1. completion' = [completion EXCEPT ![p] = [phase |-> "rejected", metadata |-> stop[p].entry]]
          BY <3>2, CompletionMoves
        <4>2. [completion[p] EXCEPT !.phase = "rejected"] = [phase |-> "rejected", metadata |-> stop[p].entry]
          BY <3>3
        <4> QED
          BY <4>1, <4>2
      <3>5. Coordinator!Reject(p)
        BY <3>1, <3>3, <3>4 DEF Coordinator!Reject
      <3> QED
        BY <3>5 DEF Coordinator!Next
    <2>5. CASE EndStop(p)
      <3>1. \A o \in Stops : stop'[o].seen = stop[o].seen /\ stop'[o].entry = stop[o].entry
        BY <1>1, <2>5 DEF EndStop, Stop
      <3> QED
        BY <1>2, <2>5, <3>1, CompletionRests DEF EndStop, registry
    <2> QED
      BY <1>6, <2>1, <2>2, <2>3, <2>4, <2>5 DEF StopStep
  <1>7. CASE PruneExpired
    <2>1. Coordinator!PruneExpired
      BY <1>7 DEF PruneExpired
    <2> QED
      BY <2>1 DEF Coordinator!Next
  <1>8. CASE UNCHANGED vars
    BY <1>2, <1>4, <1>8 DEF vars
  <1>9. CASE EvictActive \/ EvictInterrupted \/ EvictCompleted
    BY <1>2, <1>4, <1>9 DEF EvictActive, EvictInterrupted, EvictCompleted, registry
  <1>10. CASE EvictState
    <2>1. PICK s \in turns : Coordinator!DiscardTurn(TurnOf[s])
      BY <1>10 DEF EvictState
    <2>2. TurnOf[s] \in Turns
      BY <1>1
    <2> QED
      BY <2>1, <2>2 DEF Coordinator!Next
  <1> QED
    BY <1>5, <1>6, <1>7, <1>8, <1>9, <1>10 DEF Next, OtherSessions

\* Every step of the runtime is a step of the shared turn coordinator, or leaves it alone.
THEOREM TheCoordinatorIsUsedAsDescribed == Spec => UsesCoordinator
  <1>1. Init => Coordinator!Init
    BY CoordinatorBegins
  <1>2. TraeInv /\ [Next]_vars => [Coordinator!Next]_(Coordinator!vars)
    BY CoordinatorSteps
  <1> QED
    BY <1>1, <1>2, TraeInvariant, PTL DEF Spec, UsesCoordinator, Coordinator!Spec

-----------------------------------------------------------------------------
(* What is remembered of the turns that are over.                          *)

LEMMA MarkStays ==
  ASSUME NEW q \in Seq(Turns), NEW t \in Turns, Len(q) <= TurnLimit, TurnLimit \in Nat \ {0}
  PROVE  t \in ToSet(Remember(q, t))
  <1>1. CASE t \in ToSet(q)
    <2>1. Remember(q, t) = q
      BY <1>1 DEF Remember
    <2> QED
      BY <1>1, <2>1
  <1>2. CASE t \notin ToSet(q)
    <2> DEFINE r == Append(q, t)
    <2>1. /\ r \in Seq(Turns) /\ DOMAIN r = 1..(Len(q) + 1) /\ Len(r) = Len(q) + 1 /\ Len(q) \in Nat
          /\ r[Len(q) + 1] = t
      BY AppendIs
    <2>2. Remember(q, t) = IF Len(r) > TurnLimit THEN Tail(r) ELSE r
      BY <1>2 DEF Remember
    <2> HIDE DEF r
    <2>3. CASE Len(r) > TurnLimit
      <3>1. Len(q) \in Nat \ {0} /\ r # <<>>
        BY <2>1, <2>3
      <3>2. Len(q) \in DOMAIN Tail(r) /\ Tail(r)[Len(q)] = t
        BY <2>1, <3>1
      <3> QED
        BY <2>2, <2>3, <3>2 DEF ToSet
    <2>4. CASE ~(Len(r) > TurnLimit)
      <3>1. Len(q) + 1 \in DOMAIN r
        BY <2>1
      <3> QED
        BY <2>1, <2>2, <2>4, <3>1 DEF ToSet
    <2> QED
      BY <2>3, <2>4
  <1> QED
    BY <1>1, <1>2

\* Whatever is over stays so or is lost, and what is lost stays lost.
KnownStays == \A t \in Turns : (Known(t) => Known(t)') /\ (Gone(t) => Gone(t)')

LEMMA KnownGrows ==
  ASSUME interrupted' = interrupted \/ Dropped(interrupted, interrupted') \subseteq forgotten',
         completed' = completed \/ Dropped(completed, completed') \subseteq forgotten',
         forgotten \subseteq forgotten', evicted \subseteq evicted'
  PROVE  KnownStays
  <1>1. \A t : t \in ToSet(interrupted) => t \in ToSet(interrupted') \/ t \in forgotten'
    BY DEF Dropped
  <1>2. \A t : t \in ToSet(completed) => t \in ToSet(completed') \/ t \in forgotten'
    BY DEF Dropped
  <1>3. \A t : Gone(t) => Gone(t)'
    BY DEF Gone
  <1>4. \A t : Over(t) => Over(t)' \/ Gone(t)'
    BY <1>1, <1>2 DEF Over, Interrupted, Completed, Gone
  <1> QED
    BY <1>3, <1>4 DEF KnownStays, Known

\* Only the head of the queue is under way.
LEMMA OneUnderWay ==
  ASSUME TraeInv, NEW s \in Starts, NEW u \in Starts,
         start[s].phase \in Phases, queue # <<>>, queue[1] = s,
         start[u].phase \in {"interrupting", "resolving", "registered"}
  PROVE  u = s
  BY UnderWayIsHead DEF TraeInv, Phases

\* The marks when no stop moves and nothing is registered.
LEMMA MarksOfStart ==
  ASSUME TraeInv, MarksInv, NEW s \in Starts,
         SkipStart(s) \/ BeginStart(s) \/ Interrupt(s) \/ FailStart(s) \/ FinishStart(s) \/ AskStart(s)
  PROVE  MarksInv'
  <1>1. /\ TypeOK /\ QueueInv /\ start \in [Starts -> Start] /\ queue \in Seq(Starts)
        /\ active \in Starts \cup {NoStart} /\ TurnOf \in [Starts -> Turns]
        /\ StopOf \in [Stops -> Turns]
    BY TraeParts DEF TraeInv
  <1>2. UNCHANGED <<born, stop, active, completed, evicted>>
    BY DEF SkipStart, BeginStart, Interrupt, FailStart, FinishStart, AskStart, registry, lost
  <1>3. /\ interrupted' = interrupted \/ Dropped(interrupted, interrupted') \subseteq forgotten'
        /\ forgotten \subseteq forgotten'
    BY DEF SkipStart, BeginStart, Interrupt, FailStart, FinishStart, AskStart, lost
  <1>4. KnownStays
    BY <1>2, <1>3, KnownGrows
  <1>5. \A u \in Starts : u # s => start'[u] = start[u]
    BY <1>1 DEF SkipStart, BeginStart, Interrupt, FailStart, FinishStart, AskStart
  <1>6. /\ start'[s].phase = "interrupting" /\ active # NoStart => active = start'[s].previous
        /\ start'[s].phase = "resolving" /\ active # NoStart =>
             TurnOf[active] = TurnOf[s] \/ Known(TurnOf[active])'
    <2>1. CASE SkipStart(s) \/ FailStart(s) \/ FinishStart(s) \/ AskStart(s)
      <3>1. start'[s].phase \in {"done", "failed", "queued"}
        BY <1>1, <2>1 DEF SkipStart, FailStart, FinishStart, AskStart, Start
      <3> QED
        BY <3>1
    <2>2. CASE BeginStart(s)
      <3> DEFINE prev == Previous(TurnOf[s])
                 ends == prev # NoStart /\ TurnOf[prev] # TurnOf[s] /\ ~Completed(TurnOf[prev])
      <3>1. active # NoStart => prev = active
        BY <1>1, PreviousIs
      <3>2. start'[s] = IF ends THEN [phase |-> "interrupting", previous |-> prev]
                        ELSE [phase |-> "resolving", previous |-> NoStart]
        BY <1>1, <2>2 DEF BeginStart
      <3>3. active # NoStart => TurnOf[active] \in Turns
        BY <1>1
      <3> HIDE DEF prev
      <3>4. CASE ends
        BY <3>1, <3>2, <3>4
      <3>5. CASE ~ends
        <4>1. active # NoStart => TurnOf[active] = TurnOf[s] \/ Known(TurnOf[active])
          BY <3>1, <3>5 DEF Over, Known
        <4>2. active # NoStart => (Known(TurnOf[active]) => Known(TurnOf[active])')
          BY <1>2, <1>4, <3>3 DEF KnownStays
        <4> QED
          BY <3>2, <3>5, <4>1, <4>2
      <3> QED
        BY <3>4, <3>5
    <2>3. CASE Interrupt(s)
      <3>1. /\ start'[s].phase = "resolving" /\ start[s].phase = "interrupting"
            /\ interrupted' = Remember(interrupted, TurnOf[start[s].previous])
        BY <1>1, <2>3 DEF Interrupt, Start
      <3>2. start[s].previous \in Starts /\ TurnOf[start[s].previous] \in Turns
        BY <1>1, <3>1 DEF QueueInv
      <3>3. TurnOf[start[s].previous] \in ToSet(interrupted')
        BY <1>1, <3>1, <3>2, MarkStays, TraeParts
      <3>4. active # NoStart => active = start[s].previous
        BY <3>1 DEF MarksInv
      <3>5. active # NoStart => TurnOf[active] \in ToSet(interrupted')
        BY <3>3, <3>4
      <3> QED
        BY <1>2, <3>1, <3>5 DEF Known, Over, Interrupted
    <2> QED
      BY <2>1, <2>2, <2>3
  <1>7. \A u \in Starts : Known(TurnOf[u]) => Known(TurnOf[u])'
    BY <1>1, <1>4 DEF KnownStays
  <1>8. \A u \in Starts :
          /\ start'[u].phase = "interrupting" /\ active # NoStart => active = start'[u].previous
          /\ start'[u].phase = "resolving" /\ active # NoStart =>
               TurnOf[active] = TurnOf[u] \/ Known(TurnOf[active])'
    <2>1. active # NoStart => (Known(TurnOf[active]) => Known(TurnOf[active])')
      BY <1>1, <1>2, <1>7
    <2>2. ASSUME NEW u \in Starts, u # s
          PROVE  /\ start'[u].phase = "interrupting" /\ active # NoStart => active = start'[u].previous
                 /\ start'[u].phase = "resolving" /\ active # NoStart =>
                      TurnOf[active] = TurnOf[u] \/ Known(TurnOf[active])'
      BY <1>5, <2>1, <2>2 DEF MarksInv
    <2> QED
      BY <1>6, <2>2
  <1>9. \A p \in Stops : /\ stop[p].phase = "recording" => Known(StopOf[p])'
                         /\ stop[p].replaced => Gone(StopOf[p])'
    BY <1>1, <1>4 DEF MarksInv, KnownStays
  <1> QED
    BY <1>2, <1>7, <1>8, <1>9 DEF MarksInv

\* A newer turn is registered when whatever came before it is over, or lost.
LEMMA MarksOfRegister == ASSUME TraeInv, MarksInv, NEW s \in Starts, Register(s) PROVE MarksInv'
  <1>1. /\ start[s].phase = "resolving" /\ start' = [start EXCEPT ![s].phase = "registered"]
        /\ active' = s /\ UNCHANGED <<queue, interrupted, completed, stop, evicted, forgotten>>
        /\ made' = made + 1 /\ born' = [born EXCEPT ![s] = made']
    BY DEF Register, Coordinator!RecordTurnStart, lost
  <1>2. /\ TypeOK /\ QueueInv /\ start \in [Starts -> Start] /\ born \in [Starts -> 0..made] /\ made \in Nat
        /\ active \in Starts \cup {NoStart} /\ NoStart \notin Starts
    BY TraeParts DEF TraeInv
  <1>3. /\ start'[s].phase = "registered" /\ \A u \in Starts : u # s => start'[u] = start[u]
        /\ born'[s] = made' /\ \A u \in Starts : u # s => born'[u] = born[u] /\ born[u] < made'
    BY <1>1, <1>2 DEF Start
  <1>4. queue # <<>> /\ queue[1] = s
    BY <1>1, <1>2, UnderWayIsHead DEF Phases
  <1>5. \A u \in Starts : start'[u].phase \notin {"interrupting", "resolving"}
    BY <1>1, <1>3, <1>4, OneUnderWay DEF Phases
  <1>6. \A t : (Known(t)' <=> Known(t)) /\ (Gone(t)' <=> Gone(t))
    BY <1>1 DEF Known, Gone, Over, Interrupted, Completed
  <1>7. \A r \in Starts : born[r] > 0 /\ TurnOf[r] # TurnOf[s] => Known(TurnOf[r])
    BY <1>1 DEF MarksInv
  <1>8. \A u \in Starts : born'[u] > 0 => Known(TurnOf[u]) \/ TurnOf[s] = TurnOf[u]
    BY <1>3, <1>7
  <1>9. ASSUME NEW r \in Starts, NEW u \in Starts, 0 < born'[r], born'[r] < born'[u],
               TurnOf[r] # TurnOf[u]
        PROVE  Known(TurnOf[r])
    <2>1. r # s
      BY <1>1, <1>2, <1>3, <1>9
    <2>2. CASE u = s
      BY <1>3, <1>7, <1>9, <2>1, <2>2
    <2>3. CASE u # s
      BY <1>3, <1>9, <2>1, <2>3 DEF MarksInv
    <2> QED
      BY <2>2, <2>3
  <1>10. \A u \in Starts : Known(TurnOf[u])' <=> Known(TurnOf[u])
    BY <1>6
  <1>11. \A p \in Stops : (Known(StopOf[p])' <=> Known(StopOf[p])) /\ (Gone(StopOf[p])' <=> Gone(StopOf[p]))
    BY <1>6
  <1>12. \A p \in Stops : /\ stop'[p].phase = "recording" => Known(StopOf[p])'
                          /\ stop'[p].replaced => Gone(StopOf[p])'
    BY <1>1, <1>11 DEF MarksInv
  <1> QED
    BY <1>1, <1>2, <1>5, <1>8, <1>9, <1>10, <1>12 DEF MarksInv

\* A stop or an eviction: what it takes from the session it marks or records as lost.
LEMMA MarksMove ==
  ASSUME TraeInv, MarksInv, UNCHANGED <<start, born>>, KnownStays,
         \A o \in Stops : stop'[o].phase = "recording" =>
           stop[o].phase = "recording" \/ Known(StopOf[o])',
         \A o \in Stops : stop'[o].replaced => stop[o].replaced \/ Gone(StopOf[o])',
         \/ active' = active
         \/ active' = NoStart /\ active # NoStart /\ \E t \in Turns : t = TurnOf[active] /\ Known(t)'
  PROVE  MarksInv'
  <1>1. /\ TurnOf \in [Starts -> Turns] /\ StopOf \in [Stops -> Turns]
        /\ active \in Starts \cup {NoStart} /\ NoStart \notin Starts
    BY TraeParts DEF TraeInv
  <1>2. \A u \in Starts : Known(TurnOf[u]) => Known(TurnOf[u])'
    BY <1>1 DEF KnownStays
  <1>3. \A o \in Stops : (Known(StopOf[o]) => Known(StopOf[o])') /\ (Gone(StopOf[o]) => Gone(StopOf[o])')
    BY <1>1 DEF KnownStays
  <1>4. \A s \in Starts : born[s] > 0 =>
          Known(TurnOf[s])' \/ (active' # NoStart /\ TurnOf[active'] = TurnOf[s])
    <2>1. ASSUME NEW s \in Starts, born[s] > 0, active' = NoStart, active # NoStart,
                 TurnOf[active] = TurnOf[s], NEW t \in Turns, t = TurnOf[active], Known(t)'
          PROVE  Known(TurnOf[s])'
      BY <2>1
    <2>2. ASSUME NEW s \in Starts, born[s] > 0, active # NoStart, TurnOf[active] = TurnOf[s]
          PROVE  Known(TurnOf[s])' \/ (active' # NoStart /\ TurnOf[active'] = TurnOf[s])
      BY <2>1, <2>2
    <2> QED
      BY <1>2, <2>2 DEF MarksInv
  <1>5. \A r, s \in Starts : 0 < born[r] /\ born[r] < born[s] /\ TurnOf[r] # TurnOf[s] =>
                             Known(TurnOf[r])'
    BY <1>2 DEF MarksInv
  <1>6. \A s \in Starts :
          /\ start[s].phase = "interrupting" /\ active' # NoStart => active' = start[s].previous
          /\ start[s].phase = "resolving" /\ active' # NoStart =>
               TurnOf[active'] = TurnOf[s] \/ Known(TurnOf[active])'
    <2>1. CASE active' = NoStart
      BY <2>1
    <2>2. CASE active' = active
      <3>1. active # NoStart => (Known(TurnOf[active]) => Known(TurnOf[active])')
        <4>1. ASSUME active # NoStart, Known(TurnOf[active]) PROVE Known(TurnOf[active])'
          <5>1. PICK t \in Turns : t = TurnOf[active]
            BY <1>1, <4>1
          <5>2. Known(t)'
            BY <4>1, <5>1 DEF KnownStays
          <5>3. TurnOf[active'] = t
            BY <2>2, <5>1
          <5> QED
            BY <5>2, <5>3
        <4> QED
          BY <4>1
      <3>2. \A s \in Starts :
              /\ start[s].phase = "interrupting" /\ active # NoStart => active = start[s].previous
              /\ start[s].phase = "resolving" /\ active # NoStart =>
                   TurnOf[active] = TurnOf[s] \/ Known(TurnOf[active])
        BY DEF MarksInv
      <3> QED
        BY <2>2, <3>1, <3>2
    <2> QED
      BY <2>1, <2>2
  <1>7. \A o \in Stops : /\ stop'[o].phase = "recording" => Known(StopOf[o])'
                         /\ stop'[o].replaced => Gone(StopOf[o])'
    BY <1>3 DEF MarksInv
  <1> QED
    BY <1>4, <1>5, <1>6, <1>7 DEF MarksInv

LEMMA MarksOfStop ==
  ASSUME TraeInv, MarksInv, NEW p \in Stops,
         \A o \in Stops : o # p => stop'[o] = stop[o],
         UNCHANGED <<start, born>>, KnownStays,
         stop'[p].phase = "recording" => Known(StopOf[p])',
         stop'[p].replaced => stop[p].replaced \/ Gone(StopOf[p])',
         \/ active' = active
         \/ active' = NoStart /\ active # NoStart /\ \E t \in Turns : t = TurnOf[active] /\ Known(t)'
  PROVE  MarksInv'
  BY MarksMove

LEMMA MarksOfStopStep == ASSUME TraeInv, MarksInv, NEW p \in Stops, StopStep(p) PROVE MarksInv'
  <1>1. /\ TypeOK /\ StopInv /\ stop \in [Stops -> Stop] /\ stop[p] \in Stop
        /\ StopOf[p] \in Turns /\ TurnOf \in [Starts -> Turns] /\ active \in Starts \cup {NoStart}
        /\ interrupted \in Seq(Turns) /\ completed \in Seq(Turns)
        /\ Len(interrupted) <= TurnLimit /\ Len(completed) <= TurnLimit /\ TurnLimit \in Nat \ {0}
    BY TraeParts DEF TraeInv
  <1>2. /\ \A o \in Stops : o # p => stop'[o] = stop[o]
        /\ UNCHANGED <<start, born>>
    BY <1>1 DEF StopStep, RefuseStop, BeginStop, FailStop, AcceptStop, RejectStop, EndStop, registry
  <1>3. /\ interrupted' = interrupted \/ Dropped(interrupted, interrupted') \subseteq forgotten'
        /\ completed' = completed \/ Dropped(completed, completed') \subseteq forgotten'
        /\ forgotten \subseteq forgotten' /\ evicted \subseteq evicted'
    BY DEF StopStep, RefuseStop, BeginStop, FailStop, AcceptStop, RejectStop, EndStop, MarkCompleted, lost
  <1>4. KnownStays
    BY <1>3, KnownGrows
  <1>5. CASE RefuseStop(p) \/ FailStop(p)
    <2>1. /\ stop'[p].phase \in {"done", "failed"} /\ stop'[p].replaced = stop[p].replaced
          /\ active' = active
      BY <1>1, <1>5 DEF RefuseStop, FailStop, Stop
    <2> QED
      BY <1>2, <1>4, <2>1, MarksOfStop
  <1>6. CASE BeginStop(p)
    <2> DEFINE b == Replaced(StopOf[p]) /\ ~Completed(StopOf[p])
    <2>1. PICK entry \in IF {s \in Coordinator!Fresh : TurnOf[s] = StopOf[p]} = {} THEN {active}
                         ELSE {s \in Coordinator!Fresh : TurnOf[s] = StopOf[p]} :
            stop' = [stop EXCEPT ![p] =
              [phase |-> "resolving", seen |-> "resolving", entry |-> entry, active |-> active,
               replaced |-> Replaced(StopOf[p]) /\ ~Completed(StopOf[p])]]
      BY <1>6 DEF BeginStop
    <2>2. stop' = [stop EXCEPT ![p] =
              [phase |-> "resolving", seen |-> "resolving", entry |-> entry, active |-> active,
               replaced |-> b]]
      BY <2>1
    <2>3. active' = active /\ ~Interrupted(StopOf[p])
      BY <1>6 DEF BeginStop
    <2>4. Replaced(StopOf[p]) => Known(StopOf[p])
      <3>1. ASSUME NEW r \in Starts, NEW s \in Starts, TurnOf[r] = StopOf[p], TurnOf[s] # StopOf[p],
                   0 < born[r], born[r] < born[s]
            PROVE  Known(StopOf[p])
        BY <3>1 DEF MarksInv
      <3> QED
        BY <3>1 DEF Replaced
    <2>5. b => Gone(StopOf[p])
      BY <2>3, <2>4 DEF Known, Over
    <2> HIDE DEF b
    <2>6. stop'[p].phase = "resolving" /\ stop'[p].replaced = b
      BY <1>1, <2>2
    <2>7. Gone(StopOf[p]) => Gone(StopOf[p])'
      BY <1>1, <1>4 DEF KnownStays
    <2> QED
      BY <1>2, <1>4, <2>3, <2>5, <2>6, <2>7, MarksOfStop
  <1>7. CASE AcceptStop(p) \/ RejectStop(p)
    <2>1. /\ stop'[p].phase = "recording" /\ stop'[p].replaced = stop[p].replaced
          /\ MarkCompleted(StopOf[p]) /\ UNCHANGED <<active, interrupted>>
      BY <1>1, <1>7 DEF AcceptStop, RejectStop, Stop
    <2>2. Known(StopOf[p])'
      <3>1. CASE Interrupted(StopOf[p])
        BY <2>1, <3>1 DEF Known, Over, Interrupted
      <3>2. CASE ~Interrupted(StopOf[p])
        <4>1. completed' = Remember(completed, StopOf[p])
          BY <2>1, <3>2 DEF MarkCompleted
        <4>2. StopOf[p] \in ToSet(completed')
          BY <1>1, <4>1, MarkStays
        <4> QED
          BY <4>2 DEF Known, Over, Completed
      <3> QED
        BY <3>1, <3>2
    <2> QED
      BY <1>2, <1>4, <2>1, <2>2, MarksOfStop
  <1>8. CASE EndStop(p)
    <2>1. /\ stop[p].phase = "recording" /\ stop'[p].phase = "done"
          /\ stop'[p].replaced = stop[p].replaced
          /\ active' = active \/ (active' = NoStart /\ active # NoStart /\ active = stop[p].active)
      BY <1>1, <1>8 DEF EndStop, ClearsActive, Stop
    <2>2. Known(StopOf[p])'
      <3>1. Known(StopOf[p])
        BY <2>1 DEF MarksInv
      <3> QED
        BY <1>1, <1>4, <3>1 DEF KnownStays
    <2>3. active # NoStart /\ active = stop[p].active =>
            StopOf[p] = TurnOf[active] /\ StopOf[p] \in Turns
      BY <1>1 DEF StopInv
    <2>4. active # NoStart /\ active = stop[p].active =>
            \E t \in Turns : t = TurnOf[active] /\ Known(t)'
      BY <2>2, <2>3
    <2> QED
      BY <1>2, <1>4, <2>1, <2>4, MarksOfStop
  <1> QED
    BY <1>5, <1>6, <1>7, <1>8 DEF StopStep

\* What other sessions evict is recorded as lost.
LEMMA MarksOfOthers == ASSUME TraeInv, MarksInv, OtherSessions PROVE MarksInv'
  <1>1. /\ active \in Starts \cup {NoStart} /\ TurnOf \in [Starts -> Turns]
    BY TraeParts DEF TraeInv
  <1>2. UNCHANGED <<start, stop, born>>
    BY DEF OtherSessions, EvictActive, EvictState, EvictInterrupted, EvictCompleted, registry,
           Coordinator!DiscardTurn
  <1>3. /\ interrupted' = interrupted \/ Dropped(interrupted, interrupted') \subseteq forgotten'
        /\ completed' = completed \/ Dropped(completed, completed') \subseteq forgotten'
        /\ forgotten \subseteq forgotten' /\ evicted \subseteq evicted'
    BY DEF OtherSessions, EvictActive, EvictState, EvictInterrupted, EvictCompleted, lost
  <1>4. KnownStays
    BY <1>3, KnownGrows
  <1>5. CASE active' = active
    BY <1>2, <1>4, <1>5, MarksMove
  <1>6. CASE EvictActive
    <2>1. active \in Starts /\ active' = NoStart /\ active # NoStart /\ active \in evicted'
      BY <1>1, <1>6 DEF EvictActive
    <2>2. PICK t \in Turns : t = TurnOf[active]
      BY <1>1, <2>1
    <2>3. PICK s \in evicted' : TurnOf[s] = t
      BY <2>1, <2>2
    <2>4. Known(t)'
      BY <2>3 DEF Known, Gone
    <2>5. \E u \in Turns : u = TurnOf[active] /\ Known(u)'
      BY <2>2, <2>4
    <2> QED
      BY <1>2, <1>4, <2>1, <2>5, MarksMove
  <1> QED
    BY <1>5, <1>6 DEF OtherSessions, EvictState, EvictInterrupted, EvictCompleted

LEMMA MarksSteps == ASSUME TraeInv, MarksInv, [Next]_vars PROVE MarksInv'
  <1>1. CASE PruneExpired \/ (\E s \in Starts : GrowOld(s)) \/ UNCHANGED vars
    <2>1. UNCHANGED <<start, stop, active, interrupted, completed, born, evicted, forgotten>>
      BY <1>1 DEF PruneExpired, GrowOld, vars, lost, Coordinator!PruneExpired, Coordinator!GrowOld
    <2> QED
      BY <2>1 DEF MarksInv, Known, Gone, Over, Interrupted, Completed
  <1>2. ASSUME NEW s \in Starts, AskStart(s) \/ StartStep(s) PROVE MarksInv'
    BY <1>2, MarksOfStart, MarksOfRegister DEF StartStep
  <1> QED
    BY <1>1, <1>2, MarksOfStopStep, MarksOfOthers DEF Next

LEMMA MarksBegin == ASSUME Init PROVE MarksInv
  BY DEF Init, MarksInv

\* A stop that comes after the start of a newer turn was answered does not write a turn
\* that was not completed, unless one of the bounded tables has lost that turn.
THEOREM ReplacedIsNotWritten == Spec => []ReplacedNotWritten
  <1>1. TraeInv /\ MarksInv /\ [Next]_vars => MarksInv'
    BY MarksSteps
  <1>2. MarksInv /\ TraeInv => ReplacedNotWritten
    BY TraeParts DEF MarksInv, TraeInv, ReplacedNotWritten, Gone
  <1> QED
    BY <1>1, <1>2, MarksBegin, TraeInvariant, PTL DEF Spec
==============================================================================
