------------------------------ MODULE TraeTurns ------------------------------
(***************************************************************************)
(* One Trae session in the Backend.  UserPromptSubmit starts a turn, Stop  *)
(* completes one; a new prompt interrupts the turn before it.  Both        *)
(* handlers await trace writes and the scope between their steps, and the  *)
(* scope may throw.  The tables of the runtime are bounded and serve every *)
(* session: what the others register pushes this session's entries out.    *)
(* Source: packages/ts/memorax-code-backend/src/clients/trae/              *)
(* memory-hook-runtime.ts.                                                 *)
(***************************************************************************)
EXTENDS Integers, Sequences, FiniteSets, SequencesExt

CONSTANTS
  Turns,       \* the prompts of the session: a turn ID is made from its prompt
  Starts,      \* UserPromptSubmit requests
  Stops,       \* Stop requests
  TurnOf,      \* the turn a start is for
  StopOf,      \* the turn a stop is for
  NoStart,
  MaxEntries,  \* maxEntries of the shared coordinator
  TurnLimit,   \* runtimeTurnLimit: turns remembered as interrupted or completed
  MaxUpsets    \* bound: hooks that throw, and entries that other sessions evict

VARIABLES
  turns, place, born, made, stale,  \* the shared coordinator's
  queue,        \* turnStartOperations: the unanswered starts in the order they came
  start,        \* the state of each start
  stop,         \* the state of each stop
  active,       \* activeTurns of the session
  interrupted,  \* interruptedTurns, oldest first
  completed,    \* completedTurns, oldest first
  asked,        \* history: the turns of the starts that came, in order
  written,      \* history: the stops whose write was accepted
  evicted,      \* history: the starts whose entry in activeTurns was evicted
  forgotten     \* history: the turns whose mark as interrupted or completed was evicted

vars == <<turns, place, born, made, stale, queue, start, stop, active, interrupted,
          completed, asked, written, evicted, forgotten>>
registry == <<turns, place, born, made, stale>>
lost == <<evicted, forgotten>>

\* What the coordinator sees of the stops.
completion == [p \in Stops |->
  [phase |-> stop[p].seen, metadata |-> stop[p].entry]]

Coordinator == INSTANCE TurnCoordinator WITH
  Scoped <- Starts, Completions <- Stops, TurnFor <- StopOf

ASSUME TraeAssumption == Coordinator!TurnsAssumption /\ TurnLimit \in Nat \ {0}
                         /\ MaxUpsets \in Nat

Start == [phase : {"idle", "queued", "interrupting", "resolving", "registered", "done", "failed"},
          previous : Starts \cup {NoStart}]
Stop == [phase : {"idle", "resolving", "recording", "done", "failed"},
         seen : {"idle", "resolving", "accepted", "rejected"},
         entry : Starts \cup {NoStart}, active : Starts \cup {NoStart},
         replaced : BOOLEAN]

TypeOK ==
  /\ Coordinator!TypeOK
  /\ queue \in Seq(Starts)
  /\ start \in [Starts -> Start]
  /\ stop \in [Stops -> Stop]
  /\ active \in Starts \cup {NoStart}
  /\ {interrupted, completed} \subseteq Seq(Turns)
  /\ Len(interrupted) <= TurnLimit /\ Len(completed) <= TurnLimit
  /\ asked \in Seq(Turns)
  /\ written \subseteq Stops
  /\ evicted \subseteq Starts /\ forgotten \subseteq Turns

Init ==
  /\ turns = {} /\ made = 0 /\ stale = {}
  /\ place = [s \in Starts |-> 0] /\ born = [s \in Starts |-> 0]
  /\ queue = <<>>
  /\ start = [s \in Starts |-> [phase |-> "idle", previous |-> NoStart]]
  /\ stop = [p \in Stops |-> [phase |-> "idle", seen |-> "idle", entry |-> NoStart,
                              active |-> NoStart, replaced |-> FALSE]]
  /\ active = NoStart
  /\ interrupted = <<>> /\ completed = <<>>
  /\ asked = <<>> /\ written = {}
  /\ evicted = {} /\ forgotten = {}

-----------------------------------------------------------------------------
(* rememberBounded keeps the place of a turn it knows and drops the oldest. *)

Remember(q, t) ==
  LET r == IF t \in ToSet(q) THEN q ELSE Append(q, t)
  IN IF Len(r) > TurnLimit THEN Tail(r) ELSE r

\* The marks that a change of one table drops.
Dropped(q, r) == ToSet(q) \ ToSet(r)

Interrupted(t) == t \in ToSet(interrupted)
Completed(t) == t \in ToSet(completed)

-----------------------------------------------------------------------------
(* recordTurnStart, one at a time for the session.                          *)

AskStart(s) ==
  /\ start[s].phase = "idle"
  /\ start' = [start EXCEPT ![s].phase = "queued"]
  /\ queue' = Append(queue, s)
  /\ asked' = Append(asked, TurnOf[s])
  /\ UNCHANGED <<registry, stop, active, interrupted, completed, written, lost>>

TurnOfQueue(s) == queue # <<>> /\ Head(queue) = s

\* A repeated start of a turn that is over is answered and does nothing.
SkipStart(s) ==
  /\ start[s].phase = "queued" /\ TurnOfQueue(s)
  /\ Interrupted(TurnOf[s]) \/ Completed(TurnOf[s])
  /\ turns' = Coordinator!Fresh
  /\ start' = [start EXCEPT ![s].phase = "done"]
  /\ queue' = Tail(queue)
  /\ UNCHANGED <<place, born, made, stale, stop, active, interrupted, completed, asked, written,
                 lost>>

\* Mutant: only the coordinator is asked for the turn before, and it forgets.
PreviousRegistered(t) ==
  LET others == {s \in Coordinator!Fresh : TurnOf[s] # t}
  IN IF others = {} THEN NoStart
     ELSE CHOOSE s \in others : \A r \in others : born[r] <= born[s]

\* The turn a start of t finds before it: the active one, else the latest registered.
Previous(t) ==
  IF active # NoStart THEN active
  ELSE LET others == {s \in Coordinator!Fresh : TurnOf[s] # t}
       IN IF others = {} THEN NoStart
          ELSE CHOOSE s \in others : \A r \in others : born[r] <= born[s]

BeginStart(s) ==
  LET prev == Previous(TurnOf[s])
      ends == prev # NoStart /\ TurnOf[prev] # TurnOf[s] /\ ~Completed(TurnOf[prev])
  IN /\ start[s].phase = "queued" /\ TurnOfQueue(s)
     /\ ~Interrupted(TurnOf[s]) /\ ~Completed(TurnOf[s])
     /\ turns' = Coordinator!Fresh
     /\ start' = [start EXCEPT ![s] =
          IF ends THEN [phase |-> "interrupting", previous |-> prev]
          ELSE [phase |-> "resolving", previous |-> NoStart]]
     /\ UNCHANGED <<place, born, made, stale, queue, stop, active, interrupted, completed,
                    asked, written, lost>>

\* The trace of the previous turn is closed; then the turn is.
Interrupt(s) ==
  /\ start[s].phase = "interrupting"
  /\ turns' = turns \ Coordinator!OfTurn(TurnOf[start[s].previous])
  /\ interrupted' = Remember(interrupted, TurnOf[start[s].previous])
  /\ forgotten' = forgotten \cup Dropped(interrupted, interrupted')
  /\ start' = [start EXCEPT ![s] = [phase |-> "resolving", previous |-> NoStart]]
  /\ UNCHANGED <<place, born, made, stale, queue, stop, active, completed, asked, written,
                 evicted>>

MayUpset ==
  MaxUpsets > Cardinality(evicted) + Cardinality(forgotten)
              + Cardinality({s \in Starts : start[s].phase = "failed"})
              + Cardinality({p \in Stops : stop[p].phase = "failed"})

\* Mutant: a start that throws keeps its place in the queue.
FailStartInPlace(s) ==
  /\ start[s].phase = "resolving" /\ MayUpset
  /\ start' = [start EXCEPT ![s].phase = "failed"]
  /\ UNCHANGED <<registry, queue, stop, active, interrupted, completed, asked, written, lost>>

\* Resolving the scope throws: nothing is registered, and the next start goes on.  The
\* turn before it stays interrupted, and active.
FailStart(s) ==
  /\ start[s].phase = "resolving" /\ MayUpset
  /\ start' = [start EXCEPT ![s].phase = "failed"]
  /\ queue' = Tail(queue)
  /\ UNCHANGED <<registry, stop, active, interrupted, completed, asked, written, lost>>

\* The scope is resolved: the state is registered and published at once.  The session's
\* entry goes to the end of activeTurns: what this registration evicts is another's.
Register(s) ==
  /\ start[s].phase = "resolving"
  /\ UNCHANGED stop
  /\ Coordinator!RecordTurnStart(s)
  /\ active' = s
  /\ start' = [start EXCEPT ![s].phase = "registered"]
  /\ UNCHANGED <<queue, interrupted, completed, asked, written, lost>>

\* Traces and a quota notice are awaited before the hook is answered.
FinishStart(s) ==
  /\ start[s].phase = "registered"
  /\ start' = [start EXCEPT ![s].phase = "done"]
  /\ queue' = Tail(queue)
  /\ UNCHANGED <<registry, stop, active, interrupted, completed, asked, written, lost>>

-----------------------------------------------------------------------------
(* writeback.                                                               *)

\* When the stop came, the start of a newer turn had been answered.
Replaced(t) ==
  \E r, s \in Starts : /\ TurnOf[r] = t /\ TurnOf[s] # t
                       /\ start[s].phase = "done" /\ 0 < born[r] /\ born[r] < born[s]

NotOfActive(t) == active # NoStart /\ TurnOf[active] # t

RefuseStop(p) ==
  LET t == StopOf[p]
  IN /\ stop[p].phase = "idle"
     /\ Interrupted(t) \/ NotOfActive(t)
     /\ turns' = Coordinator!Fresh
     /\ interrupted' = Remember(interrupted, t)
     /\ forgotten' = forgotten \cup Dropped(interrupted, interrupted')
     /\ stop' = [stop EXCEPT ![p].phase = "done"]
     /\ UNCHANGED <<place, born, made, stale, queue, start, active, completed, asked, written,
                    evicted>>

\* The state of the turn is captured; the scope and two trace writes are awaited.
BeginStop(p) ==
  LET t == StopOf[p]
      mine == {s \in Coordinator!Fresh : TurnOf[s] = t}
  IN /\ stop[p].phase = "idle"
     /\ ~Interrupted(t) /\ ~NotOfActive(t)
     /\ turns' = Coordinator!Fresh
     /\ \E entry \in IF mine = {} THEN {active} ELSE mine :
          stop' = [stop EXCEPT ![p] =
            [phase |-> "resolving", seen |-> "resolving", entry |-> entry, active |-> active,
             replaced |-> Replaced(t) /\ ~Completed(t)]]
     /\ UNCHANGED <<place, born, made, stale, queue, start, active, interrupted, completed,
                    asked, written, lost>>

\* Resolving the scope throws: the stop ends with nothing recorded and nothing cleared.
FailStop(p) ==
  /\ stop[p].phase = "resolving" /\ MayUpset
  /\ stop' = [stop EXCEPT ![p].phase = "failed", ![p].seen = "rejected"]
  /\ UNCHANGED <<registry, queue, start, active, interrupted, completed, asked, written, lost>>

\* The turn stays completed, whether or not its write was accepted.
MarkCompleted(t) ==
  /\ completed' = IF Interrupted(t) THEN completed ELSE Remember(completed, t)
  /\ forgotten' = forgotten \cup Dropped(completed, completed')

\* Mutant: the completion consumes whatever is registered for the turn.
ConsumedByTurn(p) == Coordinator!OfTurn(StopOf[p])

Consumed(p) == Coordinator!Consumed(p)

AcceptStop(p) ==
  /\ stop[p].phase = "resolving"
  /\ turns' = turns \ Consumed(p)
  /\ stop' = [stop EXCEPT ![p].phase = "recording", ![p].seen = "accepted"]
  /\ MarkCompleted(StopOf[p])
  /\ written' = written \cup {p}
  /\ UNCHANGED <<place, born, made, stale, queue, start, active, interrupted, asked, evicted>>

\* No scope, another scope, or automatic writeback does not accept the turn.
RejectStop(p) ==
  /\ stop[p].phase = "resolving"
  /\ stop' = [stop EXCEPT ![p].phase = "recording", ![p].seen = "rejected"]
  /\ MarkCompleted(StopOf[p])
  /\ UNCHANGED <<registry, queue, start, active, interrupted, asked, written, evicted>>

\* Mutant: the active turn of the session is cleared whatever it is by now.
ClearsActiveAlways(p) == stop[p].active # NoStart

\* Only the state captured when the stop came is cleared.
ClearsActive(p) == stop[p].active # NoStart /\ active = stop[p].active

EndStop(p) ==
  /\ stop[p].phase = "recording"
  /\ active' = IF ClearsActive(p) THEN NoStart ELSE active
  /\ stop' = [stop EXCEPT ![p].phase = "done"]
  /\ UNCHANGED <<registry, queue, start, interrupted, completed, asked, written, lost>>

-----------------------------------------------------------------------------
(* The coordinator's timer, and what the other sessions' hooks do to the    *)
(* tables they share: each loses its oldest entry at its limit.             *)

GrowOld(s) ==
  /\ UNCHANGED stop
  /\ Coordinator!GrowOld(s)
  /\ UNCHANGED <<queue, start, active, interrupted, completed, asked, written, lost>>

PruneExpired ==
  /\ UNCHANGED stop
  /\ Coordinator!PruneExpired
  /\ UNCHANGED <<queue, start, active, interrupted, completed, asked, written, lost>>

\* Starts of other sessions evict this one from activeTurns.
EvictActive ==
  /\ active # NoStart /\ MayUpset
  /\ evicted' = evicted \cup {active}
  /\ active' = NoStart
  /\ UNCHANGED <<registry, queue, start, stop, interrupted, completed, asked, written,
                 forgotten>>

\* They evict its oldest state from the coordinator.
EvictState ==
  /\ UNCHANGED stop
  /\ \E s \in turns : /\ \A r \in turns : place[s] <= place[r]
                      /\ Coordinator!DiscardTurn(TurnOf[s])
  /\ UNCHANGED <<queue, start, active, interrupted, completed, asked, written, lost>>

\* Marks of other sessions' turns drop the oldest of this one's.
EvictInterrupted ==
  /\ interrupted # <<>> /\ MayUpset
  /\ interrupted' = Tail(interrupted)
  /\ forgotten' = forgotten \cup Dropped(interrupted, interrupted')
  /\ UNCHANGED <<registry, queue, start, stop, active, completed, asked, written, evicted>>

EvictCompleted ==
  /\ completed # <<>> /\ MayUpset
  /\ completed' = Tail(completed)
  /\ forgotten' = forgotten \cup Dropped(completed, completed')
  /\ UNCHANGED <<registry, queue, start, stop, active, interrupted, asked, written, evicted>>

OtherSessions == EvictActive \/ EvictState \/ EvictInterrupted \/ EvictCompleted

StartStep(s) ==
  \/ SkipStart(s) \/ BeginStart(s) \/ Interrupt(s) \/ FailStart(s) \/ Register(s)
  \/ FinishStart(s)

StopStep(p) ==
  RefuseStop(p) \/ BeginStop(p) \/ FailStop(p) \/ AcceptStop(p) \/ RejectStop(p) \/ EndStop(p)

Next ==
  \/ \E s \in Starts : AskStart(s) \/ StartStep(s) \/ GrowOld(s)
  \/ \E p \in Stops : StopStep(p)
  \/ PruneExpired \/ OtherSessions

Spec == Init /\ [][Next]_vars

\* The event loop runs every continuation; trace writes and scope reads return or throw.
FairSpec ==
  /\ Spec
  /\ \A s \in Starts : WF_vars(StartStep(s))
  /\ \A p \in Stops : WF_vars(stop[p].phase # "idle" /\ StopStep(p))

-----------------------------------------------------------------------------
\* The runtime uses the shared coordinator as TurnCoordinator describes it.
UsesCoordinator == Coordinator!Spec

\* A turn that was replaced before it completed is never written by a stop that comes
\* after the replacement's start was answered, unless a table has lost track of it: its
\* entry in activeTurns, or its mark as interrupted or completed, was evicted.
ReplacedNotWritten ==
  \A p \in written : stop[p].replaced =>
    \/ StopOf[p] \in forgotten
    \/ \E s \in evicted : TurnOf[s] = StopOf[p]

\* Turns are registered in the order their prompts came, and until one of its own stops
\* ends or other sessions evict it, the newest holds the session: no stop of an older
\* turn, and no start or stop that fails, takes its authority to be interrupted away.
NewestHoldsSession ==
  /\ \A r, s \in Starts :
       0 < born[r] /\ born[r] < born[s] =>
         \E j, k \in 1..Len(asked) : j < k /\ asked[j] = TurnOf[r] /\ asked[k] = TurnOf[s]
  /\ \A s \in Starts :
       /\ born[s] > 0 /\ born[s] = made /\ s \notin evicted
       /\ \A p \in Stops : stop[p].active = s => stop[p].phase # "done"
       => active = s

\* Every prompt's hook and every stop that began is answered, or refused with an error: a
\* start that throws lets the next one go on.  Each hook comes once, so that is to say the
\* session comes to rest.
HooksAnswered ==
  <>[](/\ \A s \in Starts : start[s].phase \in {"idle", "done", "failed"}
       /\ \A p \in Stops : stop[p].phase \in {"idle", "done", "failed"})
=============================================================================
