--------------------------- MODULE TurnCoordinator ---------------------------
(***************************************************************************)
(* The registry of started turns that every client runtime shares: a turn  *)
(* start registers a state under its key, a completion uses the state it   *)
(* was given and, once its write is accepted, removes exactly that one.    *)
(* Source: packages/ts/memorax-code-backend/src/memory/turn-coordinator.ts.*)
(***************************************************************************)
EXTENDS Integers, FiniteSets

CONSTANTS
  Turns,        \* turn keys: client, session and client turn id
  Starts,       \* the states turn starts register; each is registered once
  TurnOf,       \* the key of a state
  Scoped,       \* the states registered with a scope; the others carry its failure
  NoStart,      \* a completion without metadata
  Completions,  \* completions; each is asked for once
  TurnFor,      \* the key of a completion
  MaxEntries    \* maxEntries

\* What a module that uses the registry guarantees of its parameters.
TurnsAssumption ==
  /\ IsFiniteSet(Starts)
  /\ TurnOf \in [Starts -> Turns]
  /\ TurnFor \in [Completions -> Turns]
  /\ Scoped \subseteq Starts
  /\ NoStart \notin Starts
  /\ MaxEntries \in Nat \ {0}

VARIABLES
  turns,       \* the states in the Map
  place,       \* where the key of each state stands in the Map's iteration order
  born,        \* history: when each state was registered, 0: not yet
  made,        \* history: how many states have been registered
  stale,       \* the states whose createdAt is more than ttlMs ago
  completion   \* the state of each completion

vars == <<turns, place, born, made, stale, completion>>

Completion == [phase : {"idle", "resolving", "accepted", "rejected"},
               metadata : Starts \cup {NoStart}]

Made == {s \in Starts : born[s] > 0}

TypeOK ==
  /\ turns \subseteq Made
  /\ place \in [Starts -> Nat]
  /\ born \in [Starts -> 0..made]
  /\ made \in Nat
  /\ stale \subseteq Made
  /\ completion \in [Completions -> Completion]

Init ==
  /\ turns = {}
  /\ place = [s \in Starts |-> 0]
  /\ born = [s \in Starts |-> 0]
  /\ made = 0
  /\ stale = {}
  /\ completion = [c \in Completions |-> [phase |-> "idle", metadata |-> NoStart]]

-----------------------------------------------------------------------------
(* The Map.                                                                 *)

OfTurn(t) == {s \in turns : TurnOf[s] = t}
Fresh == turns \ stale

GetTurn(t) == IF OfTurn(t) = {} THEN NoStart ELSE CHOOSE s \in OfTurn(t) : TRUE

\* The state of another turn that was created last.
LatestTurn(t) ==
  LET others == turns \ OfTurn(t)
  IN IF others = {} THEN NoStart
     ELSE CHOOSE s \in others : \A r \in others : born[r] <= born[s]

\* evictOldest: the first key of the Map goes.  One state is set at a time, so at
\* most one is too many.
Evicted(S, pos) ==
  IF Cardinality(S) <= MaxEntries THEN S
  ELSE {s \in S : \E r \in S : pos[r] < pos[s]}

\* A key that is set again keeps its place in the Map.
RecordTurnStart(s) ==
  LET old == OfTurn(TurnOf[s])
  IN /\ born[s] = 0
     /\ made' = made + 1
     /\ born' = [born EXCEPT ![s] = made']
     /\ \E p \in IF old = {} THEN {made'} ELSE {place[r] : r \in old} :
          place' = [place EXCEPT ![s] = p]
     /\ turns' = Evicted((turns \ old) \cup {s}, place')
     /\ UNCHANGED <<stale, completion>>

DiscardTurn(t) ==
  /\ turns' = turns \ OfTurn(t)
  /\ UNCHANGED <<place, born, made, stale, completion>>

\* Time passes: a state reaches its time to live.
GrowOld(s) ==
  /\ s \in turns \ stale
  /\ stale' = stale \cup {s}
  /\ UNCHANGED <<turns, place, born, made, completion>>

\* The timer, a size() or a hook that prunes before it looks.
PruneExpired ==
  /\ turns' = Fresh
  /\ UNCHANGED <<place, born, made, stale, completion>>

\* close, with the Backend.
Close ==
  /\ turns' = {}
  /\ UNCHANGED <<place, born, made, stale, completion>>

-----------------------------------------------------------------------------
(* completeMaterializedTurn.  A client hands in the state it looked up, or  *)
(* one it kept itself; it may have pruned the Map just before.  A state of  *)
(* another key is refused at once, which is no step.                        *)

Begin(c) ==
  /\ completion[c].phase = "idle"
  /\ turns' \in {turns, Fresh}
  /\ \E s \in {r \in Made : TurnOf[r] = TurnFor[c]} \cup {NoStart} :
       completion' = [completion EXCEPT ![c] =
         [phase |-> IF s \in Scoped \cup {NoStart} THEN "resolving" ELSE "rejected",
          metadata |-> s]]
  /\ UNCHANGED <<place, born, made, stale>>

\* turnMetadataDisposition: the completion's own state is removed, no other.
Consumed(c) == turns \cap {completion[c].metadata}

\* The scope is resolved and the write accepted in one stretch.
Accept(c) ==
  /\ completion[c].phase = "resolving"
  /\ completion' = [completion EXCEPT ![c].phase = "accepted"]
  /\ turns' = turns \ Consumed(c)
  /\ UNCHANGED <<place, born, made, stale>>

\* No scope, another scope, or a write that is not accepted: the state stays.
Reject(c) ==
  /\ completion[c].phase = "resolving"
  /\ completion' = [completion EXCEPT ![c].phase = "rejected"]
  /\ UNCHANGED <<turns, place, born, made, stale>>

Next ==
  \/ \E s \in Starts : RecordTurnStart(s) \/ GrowOld(s)
  \/ \E t \in Turns : DiscardTurn(t)
  \/ PruneExpired \/ Close
  \/ \E c \in Completions : Begin(c) \/ Accept(c) \/ Reject(c)

Spec == Init /\ [][Next]_vars

-----------------------------------------------------------------------------
\* The Map is a map, its order is one, and it never holds more than its limit.
MapBounded ==
  /\ \A r, s \in turns : r # s => TurnOf[r] # TurnOf[s] /\ place[r] # place[s]
  /\ Cardinality(turns) <= MaxEntries

CoordinatorInv == TypeOK /\ MapBounded /\ \A s \in turns : place[s] \in 1..made

\* A turn that is started again while a completion of it is resolving its scope
\* keeps the new state: the completion ends without touching it.
NewerStartsSurvive ==
  [][\A c \in Completions :
       completion[c].phase = "resolving" /\ completion'[c].phase # "resolving" =>
         \A s \in turns : s # completion[c].metadata => s \in turns']_vars
=============================================================================
