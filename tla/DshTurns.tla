------------------------------- MODULE DshTurns -------------------------------
(***************************************************************************)
(* The plugin that runs inside DSH (dsh-adapter/src/plugin), for one        *)
(* session.  DSH reports the turns of the session and asks before each step *)
(* whether to add context.  The plugin tells the Backend of a turn when it  *)
(* begins and again when it has ended; a turn that was interrupted when DSH *)
(* last ended, turn 0 here, is told first.  Between two awaits the turn may *)
(* end, the session move to another directory, the user stop the adapter,   *)
(* or DSH unload the plugin.                                                *)
(***************************************************************************)
EXTENDS Naturals, Sequences, SequencesExt

CONSTANTS
  MaxTurn,     \* bound: turns that DSH starts
  MaxCompact   \* bound: compactions of the session

ASSUME DshAssumption == MaxTurn \in Nat

VARIABLES
  now,         \* the turn DSH is in, 0 before the first, and whether it goes on
  local,       \* what the plugin keeps of each turn
  step,        \* the pre-step of each turn: its progress, and whether DSH gave it up
  deferred,    \* turns whose writeback is enqueued in the next microtask
  tail,        \* the chain of writebacks; the first one is under way
  recovery,    \* the resumed turn: "none", "due", "pending" or "settled"
  context,     \* personal context: what was attempted, is pending, was accepted
  generation,  \* successful compactions
  moved,       \* the session's directory has changed
  authority,   \* the adapter is enabled
  phase,       \* of the plugin: "accepting", "draining" or "disposed"
  received,    \* what has reached the Backend, in order
  \* History, read by the properties only:
  spoiled,     \* turns reported twice, or that were not over when the directory changed
  offered      \* <<turn, generation>> of the context messages that DSH accepted

dshVars == <<now, local, step, deferred, tail, recovery, context, generation, moved,
             authority, phase, received, spoiled, offered>>

Turns == 1..MaxTurn
None  == <<0, 0>>
Start(t) == <<"start", t>>
Write(t) == <<"write", t>>

DshInit ==
  /\ now = [turn |-> 0, on |-> FALSE]
  /\ local = [t \in Turns |-> "none"]
  /\ step = [t \in Turns |-> [pc |-> "none", off |-> FALSE, told |-> FALSE, tries |-> None]]
  /\ deferred = <<>> /\ tail = <<>>
  /\ recovery \in {"none", "due"}
  /\ context = [attempt |-> None, pending |-> None, seen |-> FALSE, applied |-> 0]
  /\ generation = 0 /\ moved = FALSE /\ authority = TRUE /\ phase = "accepting"
  /\ received = <<>> /\ spoiled = {} /\ offered = <<>>

Listening == phase = "accepting" /\ ~moved
Steps == <<step, context, received, offered>>
Surroundings == <<now, generation, moved, authority, phase, spoiled>>

-----------------------------------------------------------------------------
(* The chain of writebacks of the session.                                 *)

\* Mutant: a writeback does not wait for the one before it.
Unchained(t) == tail' = <<[turn |-> t, pc |-> "queued"]>> \o tail

\* enqueueWriteback
Enqueue(t) == tail' = Append(tail, [turn |-> t, pc |-> "queued"])

\* DSH resumes a session whose last turn was interrupted.
RecoverResumedTurn ==
  /\ recovery = "due" /\ now.turn = 0
  /\ IF Listening THEN Enqueue(0) /\ recovery' = "pending"
                  ELSE recovery' = "none" /\ UNCHANGED tail
  /\ UNCHANGED <<local, deferred>> /\ UNCHANGED Steps /\ UNCHANGED Surroundings

Microtask ==
  /\ deferred # <<>>
  /\ deferred' = Tail(deferred)
  /\ Enqueue(Head(deferred))
  /\ UNCHANGED <<local, recovery>> /\ UNCHANGED Steps /\ UNCHANGED Surroundings

Busy(pc) == tail # <<>> /\ Head(tail).pc = pc
Advance(pc) == /\ tail' = <<[Head(tail) EXCEPT !.pc = pc]>> \o Tail(tail)
               /\ UNCHANGED <<local, recovery>>
\* The promise of the head settles; its turn is forgotten.
Settle ==
  LET t == Head(tail).turn IN
  /\ tail' = Tail(tail)
  /\ recovery' = IF t = 0 THEN "settled" ELSE recovery
  /\ local' = [u \in Turns |-> IF u = t THEN "none" ELSE local[u]]

\* captureWriteback up to the command: the abort and the directory are looked at
\* before the flush, after it and after the persisted events have been read.
Capture ==
  /\ \E pcs \in {<<"queued", "flushing">>, <<"flushing", "reading">>, <<"reading", "ensuring">>} :
       /\ Busy(pcs[1])
       /\ \/ phase # "disposed" /\ ~moved /\ Advance(pcs[2])
          \/ (phase = "disposed" \/ moved \/ pcs[1] # "queued") /\ Settle
  /\ UNCHANGED deferred /\ UNCHANGED Steps /\ UNCHANGED Surroundings

\* Mutant: the wait for the Backend is not cut off when the plugin is unloaded.
SendWritebackAnyway ==
  /\ Busy("ensuring")
  /\ \/ /\ authority
        /\ received' = Append(received, Write(Head(tail).turn))
        /\ Advance("sent")
     \/ Settle /\ UNCHANGED received
  /\ UNCHANGED <<deferred, step, context, offered>> /\ UNCHANGED Surroundings

\* The Backend is ensured, then the command is sent; the directory is not looked
\* at any more.
SendWriteback ==
  /\ Busy("ensuring")
  /\ \/ /\ phase # "disposed" /\ authority
        /\ received' = Append(received, Write(Head(tail).turn))
        /\ Advance("sent")
     \/ Settle /\ UNCHANGED received
  /\ UNCHANGED <<deferred, step, context, offered>> /\ UNCHANGED Surroundings

\* An answer, a time-out or the abort.
WritebackAnswered ==
  /\ Busy("sent") /\ Settle
  /\ UNCHANGED deferred /\ UNCHANGED Steps /\ UNCHANGED Surroundings

-----------------------------------------------------------------------------
(* What DSH does.                                                          *)

\* context.pending of turn t, or of any turn, is given up.
Discarded(c) == [c EXCEPT !.pending = None,
                          !.attempt = IF @ = c.pending THEN None ELSE @]

TurnStart ==
  /\ ~now.on /\ now.turn < MaxTurn /\ recovery # "due"
  /\ now' = [turn |-> now.turn + 1, on |-> TRUE]
  /\ local' = IF Listening THEN [local EXCEPT ![now.turn + 1] = "open"] ELSE local
  /\ UNCHANGED <<deferred, tail, recovery, generation, moved, authority, phase, spoiled>>
  /\ UNCHANGED Steps

\* The start of the turn is reported a second time.
RepeatedStart ==
  /\ now.on /\ Listening /\ now.turn \notin spoiled /\ local[now.turn] = "open"
  /\ local' = [local EXCEPT ![now.turn] = "invalid"]
  /\ spoiled' = spoiled \cup {now.turn}
  /\ UNCHANGED <<now, deferred, tail, recovery, generation, moved, authority, phase>>
  /\ UNCHANGED Steps

\* Completed or interrupted; a step under way is given up.
TurnEnd ==
  LET t == now.turn IN
  /\ now.on /\ now' = [now EXCEPT !.on = FALSE]
  /\ step' = [step EXCEPT ![t].off = TRUE]
  /\ IF Listening
     THEN /\ context' = IF context.pending # None /\ context.pending[1] = t
                        THEN Discarded(context) ELSE context
          /\ IF local[t] = "open"
             THEN /\ local' = [local EXCEPT ![t] = "closed"]
                  /\ deferred' = Append(deferred, t)
             ELSE UNCHANGED <<local, deferred>>
     ELSE UNCHANGED <<context, local, deferred>>
  /\ UNCHANGED <<tail, recovery, received, offered, generation, moved, authority, phase, spoiled>>

\* Pending state of the session is dropped, what is in the chain is not.
Forget ==
  /\ local' = [t \in Turns |-> "none"]
  /\ context' = Discarded(context)

\* working-directory/change of a session in the latest format.
DirectoryChange ==
  /\ ~moved /\ moved' = TRUE
  /\ Forget
  /\ spoiled' = IF now.on THEN spoiled \cup {now.turn} ELSE spoiled
  /\ UNCHANGED <<now, step, deferred, tail, recovery, generation, authority, phase>>
  /\ UNCHANGED <<received, offered>>

SessionDisposed ==
  /\ now' = [turn |-> MaxTurn, on |-> FALSE]
  /\ step' = [t \in Turns |-> [step[t] EXCEPT !.off = TRUE]]
  /\ Forget
  /\ UNCHANGED <<deferred, tail, recovery, generation, moved, authority, phase>>
  /\ UNCHANGED <<received, spoiled, offered>>

Compaction ==
  /\ now.on /\ generation < MaxCompact /\ generation' = generation + 1
  /\ UNCHANGED <<now, local, deferred, tail, recovery, moved, authority, phase, spoiled>>
  /\ UNCHANGED Steps

\* The user stops or uninstalls the adapter, or starts it again.
AuthorityChange ==
  /\ authority' = ~authority
  /\ UNCHANGED <<now, local, deferred, tail, recovery, generation, moved, phase, spoiled>>
  /\ UNCHANGED Steps

\* The plugin is unloaded: no new work is taken; what was accepted is waited for
\* until a time limit, then aborted.
DisposeBegins ==
  /\ phase = "accepting" /\ phase' = "draining"
  /\ UNCHANGED <<now, local, deferred, tail, recovery, generation, moved, authority, spoiled>>
  /\ UNCHANGED Steps

DisposeEnds ==
  /\ phase = "draining" /\ phase' = "disposed"
  /\ UNCHANGED <<now, local, deferred, tail, recovery, generation, moved, authority, spoiled>>
  /\ UNCHANGED Steps

-----------------------------------------------------------------------------
(* agent/pre-step: the turn is told, and context is added.                 *)

StepAt(t, pc) == step[t].pc = pc
StepGoes(t, pc) == step' = [step EXCEPT ![t].pc = pc]
StepRests == UNCHANGED <<local, deferred, tail, recovery>> /\ UNCHANGED Surroundings
Wanted(t) == Listening /\ ~step[t].off /\ authority

\* The first step of a turn with a prompt of the user; the start is tried once.
PreStep(t) ==
  /\ StepAt(t, "none") /\ now.on /\ now.turn = t /\ Wanted(t)
  /\ StepGoes(t, IF local[t] = "open" THEN "waiting" ELSE "collect")
  /\ UNCHANGED <<context, received, offered>> /\ StepRests

\* Mutant: the start does not wait for the turn that is recovered.
StartUnordered(t) ==
  /\ StepAt(t, "waiting")
  /\ \/ Listening /\ ~step[t].off /\ StepGoes(t, "ensuring")
     \/ StepGoes(t, "collect")
  /\ UNCHANGED <<context, received, offered>> /\ StepRests

\* waitForResumeReconciliation: without its end within the limit, no start.
AwaitRecovery(t) ==
  /\ StepAt(t, "waiting")
  /\ \/ recovery # "pending" /\ Listening /\ ~step[t].off /\ StepGoes(t, "ensuring")
     \/ StepGoes(t, "collect")
  /\ UNCHANGED <<context, received, offered>> /\ StepRests

\* The abort cuts the wait for the Backend off; the directory does not.
SendStart(t) ==
  /\ StepAt(t, "ensuring")
  /\ \/ /\ phase = "accepting" /\ ~step[t].off /\ authority
        /\ received' = Append(received, Start(t))
        /\ StepGoes(t, "sent")
     \/ StepGoes(t, "collect") /\ UNCHANGED received
  /\ UNCHANGED <<context, offered>> /\ StepRests

StartAnswered(t) ==
  /\ StepAt(t, "sent")
  /\ \E told \in BOOLEAN :
       /\ told => Listening /\ ~step[t].off
       /\ step' = [step EXCEPT ![t].pc = "collect", ![t].told = told]
  /\ UNCHANGED <<context, received, offered>> /\ StepRests

Attempt(t) == <<t, generation>>
Due == ~context.seen \/ context.applied < generation
Load(t) == /\ step' = [step EXCEPT ![t].pc = "loading", ![t].tries = Attempt(t)]
           /\ context' = [context EXCEPT !.attempt = Attempt(t)]

\* Mutant: the context is collected again in every step.
CollectAgain(t) ==
  /\ StepAt(t, "collect")
  /\ IF Wanted(t) /\ Due THEN Load(t) ELSE StepGoes(t, "done") /\ UNCHANGED context
  /\ UNCHANGED <<received, offered>> /\ StepRests

\* collectPersonalContext: one attempt for a turn and a compaction.
Collect(t) ==
  /\ StepAt(t, "collect")
  /\ IF Wanted(t) /\ Due /\ context.attempt # Attempt(t)
     THEN Load(t) ELSE StepGoes(t, "done") /\ UNCHANGED context
  /\ UNCHANGED <<received, offered>> /\ StepRests

Committed(c, g) == [c EXCEPT !.seen = TRUE, !.applied = g]

\* The profile is there and a message is staged, unless another one still is; or there
\* is none, or it cannot be loaded; or nobody wants it any more, after which a failed
\* load still counts as tried, unless it was cut off.
Loaded(t) ==
  LET tries   == step[t].tries
      dropped == [context EXCEPT !.attempt = IF @ = tries THEN None ELSE @]
  IN /\ StepAt(t, "loading") /\ StepGoes(t, "done")
     /\ IF ~Wanted(t)
        THEN \/ context' = dropped
             \/ phase = "accepting" /\ ~step[t].off /\ UNCHANGED context
        ELSE \/ /\ step[t].told
                /\ context' = IF context.pending = None
                              THEN [context EXCEPT !.pending = tries] ELSE dropped
             \/ step[t].told /\ context' = Committed(context, tries[2])
             \/ UNCHANGED context
     /\ UNCHANGED <<received, offered>> /\ StepRests

\* A later step of the turn.
NextStep(t) ==
  /\ StepAt(t, "done") /\ now.on /\ now.turn = t /\ Wanted(t)
  /\ StepGoes(t, "collect")
  /\ UNCHANGED <<context, received, offered>> /\ StepRests

\* DSH publishes the message of the step.
Accepted ==
  /\ context.pending # None /\ now.on /\ now.turn = context.pending[1] /\ Listening
  /\ context' = [Committed(context, context.pending[2]) EXCEPT !.pending = None]
  /\ offered' = Append(offered, context.pending)
  /\ UNCHANGED <<step, received>> /\ StepRests

DshNext ==
  \/ RecoverResumedTurn \/ Microtask \/ Capture \/ SendWriteback \/ WritebackAnswered
  \/ TurnStart \/ RepeatedStart \/ TurnEnd \/ DirectoryChange \/ SessionDisposed
  \/ Compaction
  \/ AuthorityChange \/ DisposeBegins \/ DisposeEnds \/ Accepted
  \/ \E t \in Turns : \/ PreStep(t) \/ AwaitRecovery(t) \/ SendStart(t) \/ StartAnswered(t)
                      \/ Collect(t) \/ Loaded(t) \/ NextStep(t)

DshSpec == DshInit /\ [][DshNext]_dshVars

-----------------------------------------------------------------------------
\* The writebacks of a session reach the Backend in the order of its turns, each
\* once, the recovered one before any other message; a turn that was reported twice, or
\* that went on when the session moved to another directory, is not written.
ToldInOrder ==
  /\ \A i, j \in DOMAIN received :
       /\ i < j /\ received[i][1] = received[j][1] => received[i][2] < received[j][2]
       /\ received[j] = Write(0) => j = 1
  /\ \A t \in spoiled : ~Contains(received, Write(t))

\* At most one context message of a turn and a compaction is accepted, and one that
\* is pending belongs to the turn DSH is in.
ContextOnce ==
  /\ IsInjective(offered)
  /\ context.pending # None /\ Listening => now.on /\ context.pending[1] = now.turn

\* Once the plugin is disposed of nothing reaches the Backend, and no turn is told
\* that began to be unloaded.
SilentWhenDisposed ==
  [][/\ phase = "disposed" => received' = received
     /\ phase # "accepting" => \A t \in Turns :
          Contains(received', Start(t)) => Contains(received, Start(t))]_dshVars
===============================================================================
