----------------------------- MODULE CursorTurns -----------------------------
(***************************************************************************)
(* The turns of one Cursor session in the Backend (clients/cursor).  Cursor *)
(* calls a generation what other clients call a turn; its hooks only say    *)
(* that one started, replied or stopped, in any order, once, twice or not   *)
(* at all.  The text is read from Cursor's own database, which lags behind. *)
(* So the Backend keeps the turn in a record on disk, under a lock          *)
(* (ExclusiveUse), and reads again until the text is there or the time for  *)
(* it is over, also after a restart.  One step runs from one await to the   *)
(* next.                                                                    *)
(***************************************************************************)
EXTENDS Naturals

CONSTANTS
  Turns,       \* Cursor's generations
  NoTurn,
  MaxFailures, \* bound: writes of the record that fail
  MaxLives     \* bound: Backends, one after the other

ASSUME CursorAssumption == NoTurn \notin Turns

VARIABLES
  record,      \* the session's record on disk
  job,         \* the operation that holds the lock, with its copy of the record
  timer,       \* the turn the retry timer is set for
  fired,       \* turns whose retry waits for the lock
  expired,     \* turns whose retryUntil has passed
  life,        \* of the Backend: "up", "closing" or "down"
  reserved,    \* turns that this Backend has taken for writing
  lives, failures,
  \* History, read by the properties only:
  written,     \* how often a turn was given to automatic writeback as new
  torn,        \* turns given to it without the record saying so
  cut          \* turns whose retries this Backend has lost: a hook ended with an
               \* exception, or the timer was set again for a turn replaced meanwhile

cursorVars == <<record, job, timer, fired, expired, life, reserved, lives, failures,
                written, torn, cut>>
backend == <<life, reserved, lives>>

New(t, state) == [id |-> t, state |-> state, stop |-> "none", replied |-> FALSE, until |-> FALSE]
NoRecord == [active |-> New(NoTurn, "none"), retired |-> {}]
Idle == [pc |-> "idle", kind |-> "none", turn |-> NoTurn, work |-> NoRecord]

CursorInit ==
  /\ record = NoRecord /\ job = Idle
  /\ timer = NoTurn /\ fired = {} /\ expired = {}
  /\ life = "up" /\ reserved = {} /\ lives = 1 /\ failures = 0
  /\ written = [t \in Turns |-> 0] /\ torn = {} /\ cut = {}

JobAt(pc) == job.pc = pc
SessionFree == JobAt("idle") /\ life = "up"
Complete(a) == a.stop = "completed" /\ a.replied
Pending(a) == a.state = "open" /\ Complete(a)

\* scheduleRetry
Armed(t) == IF life = "up" /\ timer = NoTurn /\ t \notin expired THEN t ELSE timer

\* The operation goes on with a copy of the record, or lets the lock go.
JobGoes(pc, w) == job' = IF pc = "idle" THEN Idle ELSE [job EXCEPT !.pc = pc, !.work = w]

\* save() throws.  The operation ends; only a retry sets the timer again.
Throw(tm) ==
  /\ failures < MaxFailures /\ failures' = failures + 1
  /\ job' = Idle /\ UNCHANGED record
  /\ torn' = IF JobAt("enqueued") THEN torn \cup {job.work.active.id} ELSE torn
  /\ IF job.kind = "retry" THEN timer' = Armed(job.turn) /\ UNCHANGED cut
                           ELSE timer' = tm /\ cut' = cut \cup {record.active.id}

\* save(), after which the timer is what tm says.
SaveRecord(w, pc, tm) ==
  \/ record' = w /\ JobGoes(pc, w) /\ timer' = tm /\ UNCHANGED <<failures, torn, cut>>
  \/ Throw(timer)

Unsaved == UNCHANGED <<record, timer, failures, torn, cut>>
Around == UNCHANGED <<fired, expired, written>> /\ UNCHANGED backend
Changed(w, a) == [w EXCEPT !.active = a]

-----------------------------------------------------------------------------
(* completePending: for a hook, for a retry, or for the start of the next   *)
(* turn, which goes on with its own work.                                   *)

After == IF job.kind = "start" THEN "replace" ELSE "idle"

\* Mutant: what became of the turn is not looked at.
CompleteAnything ==
  LET a == job.work.active IN
  /\ JobAt("completing")
  /\ IF life # "up" \/ ~Complete(a)
     THEN JobGoes(After, job.work) /\ Unsaved
     ELSE SaveRecord(Changed(job.work, [a EXCEPT !.until = TRUE]), "reading", timer)
  /\ Around

CompletePending ==
  LET a == job.work.active IN
  /\ JobAt("completing")
  /\ IF life # "up" \/ ~Pending(a)
     THEN JobGoes(After, job.work) /\ Unsaved
     ELSE SaveRecord(Changed(job.work, [a EXCEPT !.until = TRUE]), "reading", timer)
  /\ Around

\* The database is read: the turn is there as it was reported, or not yet, or can never
\* be, as when another one has taken its place.
ReadNative ==
  LET a == job.work.active IN
  /\ JobAt("reading")
  /\ IF life # "up" THEN JobGoes(After, job.work) /\ Unsaved
     ELSE \/ JobGoes("resolving", job.work) /\ Unsaved
          \/ SaveRecord(job.work, After, Armed(a.id))
          \/ SaveRecord(Changed(job.work, [a EXCEPT !.state = "blocked"]), After, NoTurn)
  /\ Around

\* completeTurn resolves the scope and asks automatic writeback, which takes a turn that
\* it has taken before for a duplicate.
CompleteTurn ==
  LET a == job.work.active IN
  /\ JobAt("resolving")
  /\ \/ /\ SaveRecord(job.work, After, Armed(a.id))
        /\ UNCHANGED <<reserved, written>>
     \/ /\ life = "up" /\ JobGoes("enqueued", job.work) /\ Unsaved
        /\ reserved' = reserved \cup {a.id}
        /\ written' = IF a.id \in reserved THEN written
                      ELSE [written EXCEPT ![a.id] = @ + 1]
  /\ UNCHANGED <<fired, expired, life, lives>>

MarkAccepted ==
  LET a == job.work.active IN
  /\ JobAt("enqueued")
  /\ SaveRecord(Changed(job.work, [a EXCEPT !.state = "accepted", !.until = FALSE]), After, NoTurn)
  /\ Around

-----------------------------------------------------------------------------
(* recordTurnStart                                                          *)

\* The start of the active turn is reported again: the turn is not trusted any more.
RepeatStart(t) ==
  LET a == record.active IN
  /\ SessionFree /\ a.id = t /\ a.state \in {"open", "blocked"}
  /\ SaveRecord(Changed(record, [a EXCEPT !.state = "blocked"]), "idle", timer)
  /\ Around

\* The active turn gets a last chance before it is replaced.
StartTurn(t) ==
  LET a == record.active IN
  /\ SessionFree /\ t \notin record.retired \cup {a.id}
  /\ job' = [pc |-> IF Pending(a) THEN "completing" ELSE "replace",
             kind |-> "start", turn |-> t, work |-> record]
  /\ Unsaved /\ Around

\* The new turn; one without a prompt continues the turn before, which has to be over,
\* and is blocked when that cannot be found in the database.
Successor(w, t, state) ==
  [active |-> New(t, state),
   retired |-> IF w.active.id = NoTurn THEN w.retired ELSE w.retired \cup {w.active.id}]

\* Mutant: the retry of the turn before stays set.
ReplaceTurnKeepsTimer ==
  /\ JobAt("replace") /\ UNCHANGED timer
  /\ \E state \in {"open", "blocked"} :
       JobGoes("registering", Successor(job.work, job.turn, state))
  /\ UNCHANGED <<record, failures, torn, cut>> /\ Around

ReplaceTurn ==
  /\ JobAt("replace") /\ timer' = NoTurn
  /\ \E state \in {"open", "blocked"} :
       JobGoes("registering", Successor(job.work, job.turn, state))
  /\ UNCHANGED <<record, failures, torn, cut>> /\ Around

\* The scope is known, the turn registered and saved at once.
RegisterTurn ==
  /\ JobAt("registering") /\ SaveRecord(job.work, "idle", timer) /\ Around

-----------------------------------------------------------------------------
(* writeback: the reply and the stop of the active turn.                    *)

Reports(t) == SessionFree /\ record.active.id = t /\ record.active.state \in {"open", "blocked"}
\* A report is saved as it came, before anything is made of it.
Hook(t, a) ==
  LET w == Changed(record, a) IN
  \/ /\ record' = w /\ UNCHANGED <<timer, failures, torn, cut>>
     /\ job' = [pc |-> "completing", kind |-> "hook", turn |-> t, work |-> w]
  \/ Throw(timer)

\* The report contradicts an earlier one, or comes from another database or workspace.
\* A stop that was not completed takes the timer away before it is compared.
Block(t) ==
  /\ Reports(t)
  /\ \/ SaveRecord(Changed(record, [record.active EXCEPT !.state = "blocked"]), "idle", NoTurn)
     \/ record.active.stop = "completed" /\ Throw(NoTurn)
  /\ Around

Reply(t) ==
  LET a == record.active IN
  /\ Reports(t)
  /\ Hook(t, [a EXCEPT !.replied = TRUE, !.until = @ \/ a.stop = "completed"])
  /\ Around

\* Between the two the outcome is traced.
StopCompleted(t) ==
  LET a == record.active IN
  /\ Reports(t) /\ a.stop # "aborted"
  /\ Hook(t, [a EXCEPT !.stop = "completed", !.until = @ \/ a.replied])
  /\ Around

\* The timer goes before the record is saved.
StopAborted(t) ==
  LET a == record.active IN
  /\ Reports(t) /\ a.stop # "completed"
  /\ \/ /\ record' = Changed(record, [a EXCEPT !.stop = "aborted", !.state = "interrupted"])
        /\ timer' = NoTurn /\ UNCHANGED <<job, failures, torn, cut>>
     \/ Throw(NoTurn)
  /\ Around

-----------------------------------------------------------------------------
(* The retry timer.                                                         *)

TimerFires ==
  /\ timer # NoTurn /\ fired' = fired \cup {timer} /\ timer' = NoTurn
  /\ UNCHANGED <<record, job, expired, failures, written, torn, cut>>
  /\ UNCHANGED backend

RetryRuns(t) ==
  /\ t \in fired /\ JobAt("idle") /\ fired' = fired \ {t}
  /\ job' = IF life = "up" /\ record.active.id = t /\ Pending(record.active)
               /\ record.active.until /\ t \notin expired
            THEN [pc |-> "completing", kind |-> "retry", turn |-> t, work |-> record]
            ELSE Idle
  /\ Unsaved /\ UNCHANGED <<expired, written>> /\ UNCHANGED backend

\* The lock is not to be had in time.  Whether the turn has been replaced meanwhile is
\* not looked at, and no other turn of the session is armed beside it.
RetryLater(t) ==
  /\ t \in fired /\ ~JobAt("idle") /\ fired' = fired \ {t} /\ timer' = Armed(t)
  /\ cut' = IF t \in job.work.retired THEN cut \cup {job.work.active.id} ELSE cut
  /\ UNCHANGED <<record, job, expired, failures, written, torn>>
  /\ UNCHANGED backend

-----------------------------------------------------------------------------
(* Time and the Backend's process.                                         *)

Expire ==
  /\ record.active.until /\ expired' = expired \cup {record.active.id}
  /\ UNCHANGED <<record, job, timer, fired, failures, written, torn, cut>>
  /\ UNCHANGED backend

Close ==
  /\ life = "up" /\ life' = "closing" /\ timer' = NoTurn
  /\ UNCHANGED <<record, job, fired, expired, reserved, lives, failures, written, torn, cut>>

\* The process ends, by itself or killed at any await.
Exit ==
  /\ life # "down" /\ life' = "down"
  /\ job' = Idle /\ timer' = NoTurn /\ fired' = {} /\ reserved' = {} /\ cut' = {}
  /\ torn' = IF JobAt("enqueued") THEN torn \cup {job.work.active.id} ELSE torn
  /\ UNCHANGED <<record, expired, lives, failures, written>>

\* cursorPendingSessions: the retries that were due when the last Backend ended.
Restart ==
  /\ life = "down" /\ lives < MaxLives /\ lives' = lives + 1 /\ life' = "up"
  /\ timer' = IF Pending(record.active) /\ record.active.until THEN record.active.id
              ELSE NoTurn
  /\ UNCHANGED <<record, job, fired, expired, reserved, failures, written, torn, cut>>

CursorNext ==
  \/ CompletePending \/ ReadNative \/ CompleteTurn \/ MarkAccepted
  \/ ReplaceTurn \/ RegisterTurn
  \/ \E t \in Turns : \/ RepeatStart(t) \/ StartTurn(t) \/ Block(t) \/ Reply(t)
                      \/ StopCompleted(t) \/ StopAborted(t) \/ RetryRuns(t) \/ RetryLater(t)
  \/ TimerFires \/ Expire \/ Close \/ Exit \/ Restart

CursorSpec == CursorInit /\ [][CursorNext]_cursorVars

-----------------------------------------------------------------------------
\* While its time lasts, a turn that is over on disk and waits for its text has a retry
\* to come, unless an exception cut a hook of this Backend short or a retry crossed a new turn.
PendingIsArmed ==
  LET a == record.active IN
  SessionFree /\ Pending(a) /\ a.id \notin cut \cup expired => timer = a.id \/ a.id \in fired

\* A turn is given to writeback as new at most once, whatever is reported again and
\* however often the Backend starts, and the record says truly whether it was; except a
\* turn whose acceptance could not be recorded.
WrittenAsRecorded ==
  /\ \A t \in Turns \ torn : written[t] <= 1
  /\ LET a == record.active IN
       /\ a.state = "accepted" => written[a.id] > 0
       /\ a.state \in {"blocked", "interrupted"} /\ a.id \notin torn => written[a.id] = 0
==============================================================================
