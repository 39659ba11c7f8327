-------------------------- MODULE LockedRecordsProofs --------------------------
(***************************************************************************)
(* Proofs about the lock file and about two records that are kept under    *)
(* such locks, as MCLockedRecords explores them, without the bounds of the *)
(* run:                                                                    *)
(*   the turns of a Cursor session (CursorTurns), invariant CursorInv;     *)
(*   the trial credential (TrialCredential), invariant AccountInv;         *)
(*   the lock (JsonFileLock), invariant LockInv, for any number of calls,  *)
(*   processes, shared PIDs and recycled inodes.                           *)
(***************************************************************************)
EXTENDS JsonFileLock, CursorTurns, TrialCredential, TLAPS

-----------------------------------------------------------------------------
(* The turns of a Cursor session.                                             *)

Ids == Turns \cup {NoTurn}
ActiveTurns == [id : Ids, state : {"none", "open", "blocked", "interrupted", "accepted"},
                stop : {"none", "completed", "aborted"}, replied : BOOLEAN, until : BOOLEAN]
CursorRecords == [active : ActiveTurns, retired : SUBSET Turns]
Jobs == [pc : {"idle", "completing", "reading", "resolving", "enqueued", "replace",
               "registering"},
         kind : {"none", "start", "hook", "retry"}, turn : Ids, work : CursorRecords]

CursorTypeOK ==
  /\ record \in CursorRecords /\ job \in Jobs
  /\ timer \in Ids /\ fired \subseteq Turns /\ expired \subseteq Ids
  /\ life \in {"up", "closing", "down"} /\ reserved \subseteq Turns
  /\ failures \in Nat /\ lives \in Nat
  /\ written \in [Turns -> Nat] /\ torn \subseteq Turns /\ cut \subseteq Ids

\* A turn on record is not retired as well, and one that is over has its time limit
\* until it was accepted.
RecordInv ==
  LET a == record.active IN
  /\ a.id = NoTurn <=> a.state = "none"
  /\ a.id \notin record.retired
  /\ Complete(a) => a.until \/ a.state = "accepted"

\* The operation under way works on what is on record, and only its last step differs.
JobInv ==
  /\ job.pc = "idle" => job = Idle
  /\ life = "down" => job = Idle
  /\ job.pc \notin {"idle", "registering"} => job.work = record
  /\ job.kind = "none" <=> job.pc = "idle"
  /\ job.kind = "start" => job.turn \in Turns \ (record.retired \cup {record.active.id})
  /\ job.kind \in {"hook", "retry"} =>
       job.turn = record.active.id /\ job.pc \notin {"replace", "registering"}
  /\ job.pc \in {"reading", "resolving", "enqueued"} => Pending(record.active)
  /\ job.pc = "registering" =>
       \E state \in {"open", "blocked"} : job.work = Successor(record, job.turn, state)

\* The record as the operation under way will leave it.
Worked == IF job.pc = "idle" THEN record ELSE job.work

\* Retries are set for the turn in hand, or left over from one that is retired, and
\* while the timer is taken by such a one the turn in hand is known to be cut off.
TimerInv ==
  LET w == Worked IN
  /\ timer \in {NoTurn, w.active.id} \cup w.retired
  /\ fired \subseteq {w.active.id} \cup w.retired
  /\ timer \in w.retired => w.active.id \in cut
  /\ job.pc = "registering" => timer # w.active.id /\ w.active.id \notin fired

\* What was written is on record as accepted, or is about to be, or is retired.
WriteInv ==
  /\ \A t \in reserved : written[t] > 0
  /\ job.pc = "enqueued" => record.active.id \in reserved
  /\ \A t \in Turns \ torn :
       /\ written[t] <= 1
       /\ written[t] > 0 => \/ t \in record.retired
                            \/ t = record.active.id /\ record.active.state = "accepted"
                            \/ t = record.active.id /\ job.pc = "enqueued"
  /\ record.active.state = "accepted" => written[record.active.id] > 0

CursorInv ==
  /\ CursorTypeOK /\ RecordInv /\ JobInv /\ TimerInv /\ WriteInv /\ PendingIsArmed

-----------------------------------------------------------------------------
\* A record with another active turn.
LEMMA ChangedIs ==
  ASSUME NEW w \in CursorRecords, NEW a \in ActiveTurns
  PROVE  /\ Changed(w, a) \in CursorRecords
         /\ Changed(w, a).active = a /\ Changed(w, a).retired = w.retired
  BY DEF CursorRecords, Changed

\* What an operation that goes on is about afterwards.
LEMMA GoesTo ==
  ASSUME job \in Jobs, NEW w \in CursorRecords,
         NEW place \in {"idle", "completing", "reading", "resolving", "enqueued", "replace",
                     "registering"},
         JobGoes(place, w)
  PROVE  /\ place = "idle" => job' = Idle
         /\ place # "idle" => /\ job' \in Jobs /\ job'.pc = place /\ job'.work = w
                           /\ job'.kind = job.kind /\ job'.turn = job.turn
  BY DEF Jobs, JobGoes

LEMMA IdleIs ==
  /\ Idle \in Jobs /\ Idle.pc = "idle" /\ Idle.kind = "none" /\ Idle.turn = NoTurn
  /\ Idle.work = NoRecord /\ NoRecord \in CursorRecords
  BY DEF Idle, Jobs, NoRecord, CursorRecords, New, ActiveTurns, Ids

\* The parts of the state that the steps read.
LEMMA JobParts ==
  ASSUME CursorInv
  PROVE  /\ record.active \in ActiveTurns /\ record.active.id \in Ids
         /\ record.retired \subseteq Turns
         /\ job.work \in CursorRecords /\ job.work.active \in ActiveTurns
         /\ job.work.active.id \in Ids /\ job.work.retired \subseteq Turns
         /\ job.turn \in Ids
         /\ Worked \in CursorRecords /\ Worked.active.id \in Ids /\ Worked.retired \subseteq Turns
         /\ Worked.active.id \notin Worked.retired
         /\ job.pc = "registering" => Worked.active.id \in Turns
  <1>1. /\ record \in CursorRecords /\ job \in Jobs /\ record.active.id \notin record.retired
    BY DEF CursorInv, CursorTypeOK, RecordInv
  <1>2. /\ record.active \in ActiveTurns /\ record.active.id \in Ids
        /\ record.retired \subseteq Turns
        /\ job.work \in CursorRecords /\ job.work.active \in ActiveTurns
        /\ job.work.active.id \in Ids /\ job.work.retired \subseteq Turns
        /\ job.turn \in Ids
    BY <1>1 DEF CursorRecords, ActiveTurns, Jobs
  <1>3. job.pc = "registering" => job.work.active.id \in Turns \ job.work.retired
    <2>1. SUFFICES ASSUME job.pc = "registering"
                   PROVE  job.work.active.id \in Turns \ job.work.retired
      OBVIOUS
    <2>2. PICK s \in {"open", "blocked"} : job.work = Successor(record, job.turn, s)
      BY <2>1 DEF CursorInv, JobInv
    <2>3. job.turn \in Turns \ (record.retired \cup {record.active.id})
      BY <1>1, <2>1 DEF CursorInv, JobInv, Jobs
    <2>4. /\ job.work.active.id = job.turn
          /\ job.work.retired \subseteq record.retired \cup {record.active.id}
      BY <2>2 DEF Successor, New
    <2> QED
      BY <2>3, <2>4
  <1>4. job.pc \notin {"idle", "registering"} => job.work = record
    BY DEF CursorInv, JobInv
  <1> QED
    BY <1>1, <1>2, <1>3, <1>4 DEF Worked

\* The retries are still of the turn in hand when neither it nor the retired ones change.
LEMMA TimerKept ==
  ASSUME CursorInv,
         Worked'.active.id = Worked.active.id, Worked'.retired = Worked.retired,
         timer' \in {timer, NoTurn, Worked.active.id},
         fired' \subseteq fired \cup {Worked.active.id},
         cut \subseteq cut', job'.pc # "registering"
  PROVE  TimerInv'
  BY JobParts, CursorAssumption DEF CursorInv, TimerInv, RecordInv, Ids

\* What was written is still so when only the state of the active turn changes.
LEMMA WriteKept ==
  ASSUME CursorInv,
         record'.active.id = record.active.id, record'.retired = record.retired,
         UNCHANGED <<reserved, written>>, torn \subseteq torn', torn' \subseteq Turns,
         record.active.state = "accepted" => record'.active.state = "accepted",
         record'.active.state = "accepted" =>
           record.active.state = "accepted" \/ job.pc = "enqueued",
         job.pc = "enqueued" =>
           record'.active.state = "accepted" \/ record.active.id \in torn',
         job'.pc # "enqueued"
  PROVE  WriteInv'
  BY DEF CursorInv, CursorTypeOK, WriteInv

\* An exception ends the operation; what was on record stays.
LEMMA ThrowKeeps ==
  ASSUME CursorInv, NEW tm \in {timer, NoTurn}, Throw(tm), Around,
         job.pc # "idle" \/ record.active.id \in Turns
  PROVE  CursorInv'
  <1> DEFINE old == record.active.id
  <1>1. /\ record' = record /\ job' = Idle /\ job'.pc = "idle"
        /\ failures' = failures + 1
        /\ fired' = fired /\ expired' = expired /\ written' = written
        /\ life' = life /\ reserved' = reserved /\ lives' = lives
        /\ torn' = IF job.pc = "enqueued" THEN torn \cup {job.work.active.id} ELSE torn
        /\ job.kind = "retry" => timer' = Armed(job.turn) /\ cut' = cut
        /\ job.kind # "retry" => timer' = tm /\ cut' = cut \cup {old}
    BY IdleIs DEF Throw, Around, backend, JobAt
  <1>2. job.pc = "enqueued" => job.work.active.id = old /\ old \in Turns
    <2>1. job.pc = "enqueued" => job.work = record /\ Pending(record.active)
      BY DEF CursorInv, JobInv
    <2> QED
      BY <2>1, JobParts DEF CursorInv, RecordInv, Pending, Ids
  <1>3. job.kind = "retry" => job.turn = old /\ Worked = record
    BY DEF CursorInv, JobInv, Worked
  <1>4. timer' \in Ids
    BY <1>1, <1>3, JobParts DEF CursorInv, CursorTypeOK, Armed, Ids
  <1>5. CursorTypeOK'
    BY <1>1, <1>2, <1>4, IdleIs, JobParts DEF CursorInv, CursorTypeOK, Ids
  <1>6. RecordInv'
    BY <1>1 DEF CursorInv, RecordInv, Complete
  <1>7. JobInv'
    BY <1>1, IdleIs DEF JobInv
  <1>8. TimerInv'
    <2>1. Worked' = record
      BY <1>1 DEF Worked
    <2>2. CASE job.pc = "registering"
      <3>1. job.kind # "retry"
        BY <2>2 DEF CursorInv, JobInv
      <3>2. /\ job.work.retired \subseteq record.retired \cup {old}
            /\ Worked = job.work
        BY <2>2 DEF CursorInv, JobInv, Successor, Worked
      <3> QED
        BY <1>1, <2>1, <2>2, <3>1, <3>2, JobParts, CursorAssumption DEF CursorInv, TimerInv, Ids
    <2>3. CASE job.pc # "registering"
      <3>1. Worked = record
        BY <2>3 DEF CursorInv, JobInv, Worked
      <3> QED
        BY <1>1, <1>3, <2>1, <3>1, TimerKept DEF Armed
    <2> QED
      BY <2>2, <2>3
  <1>9. WriteInv'
    BY <1>1, <1>2, <1>5, WriteKept DEF CursorTypeOK
  <1>10. PendingIsArmed'
    <2>1. SUFFICES ASSUME life = "up", Pending(record.active), old \notin cut' \cup expired
                   PROVE  timer' = old \/ old \in fired
      BY <1>1 DEF PendingIsArmed, SessionFree, JobAt
    <2>2. job.kind = "retry" /\ timer' = Armed(old) /\ cut' = cut
      BY <1>1, <1>3, <2>1
    <2>3. timer \in {NoTurn, old}
      BY <1>3, <2>1, <2>2 DEF CursorInv, TimerInv
    <2> QED
      BY <2>1, <2>2, <2>3 DEF Armed
  <1> QED
    BY <1>5, <1>6, <1>7, <1>8, <1>9, <1>10 DEF CursorInv

\* The record is saved with another state of its active turn, and the operation ends or
\* goes on with it.
LEMMA ChangeKeeps ==
  ASSUME CursorInv, record.active.id \in Turns,
         NEW b \in ActiveTurns, b.id = record.active.id, b.state # "none",
         Complete(b) => b.until \/ b.state = "accepted",
         record' = Changed(record, b),
         job.pc # "registering", life # "down" \/ job.pc # "idle",
         job' \in Jobs, job'.pc \in {"idle", "completing", "reading", "replace"},
         job'.pc = "idle" => job' = Idle,
         job'.pc # "idle" => /\ job'.work = record' /\ job'.kind # "none"
                             /\ job'.turn = IF job.pc = "idle" THEN b.id ELSE job.turn
                             /\ job'.kind = IF job.pc = "idle" THEN "hook" ELSE job.kind,
         job'.pc = "replace" => job.kind = "start",
         job'.pc = "reading" => Pending(b),
         timer' \in {timer, NoTurn, b.id}, UNCHANGED <<fired, expired, life, lives>>,
         failures' = failures, UNCHANGED <<reserved, written, torn, cut>>,
         record.active.state = "accepted" => b.state = "accepted",
         b.state = "accepted" => record.active.state = "accepted" \/ job.pc = "enqueued",
         job.pc = "enqueued" => b.state = "accepted" \/ b.id \in torn,
         job'.pc = "idle" /\ Pending(b) /\ life = "up" /\ b.id \notin cut \cup expired =>
           timer' = b.id \/ b.id \in fired
  PROVE  CursorInv'
  <1>1. /\ record' \in CursorRecords /\ record'.active = b /\ record'.retired = record.retired
    BY ChangedIs DEF CursorInv, CursorTypeOK
  <1>2. Worked.active.id = b.id /\ Worked.retired = record.retired
    BY JobParts DEF CursorInv, JobInv, Worked
  <1>3. Worked'.active.id = b.id /\ Worked'.retired = record.retired
    BY <1>1 DEF Worked
  <1>4. CursorTypeOK'
    BY <1>1 DEF CursorInv, CursorTypeOK, Ids
  <1>5. RecordInv'
    BY <1>1, CursorAssumption DEF CursorInv, RecordInv
  <1>6. JobInv'
    BY <1>1, IdleIs, CursorAssumption DEF CursorInv, JobInv, Jobs
  <1>7. TimerInv'
    BY <1>2, <1>3, TimerKept
  <1>8. WriteInv'
    BY <1>1, WriteKept DEF CursorInv, CursorTypeOK
  <1>9. PendingIsArmed'
    BY <1>1 DEF PendingIsArmed, SessionFree, JobAt
  <1> QED
    BY <1>4, <1>5, <1>6, <1>7, <1>8, <1>9 DEF CursorInv

\* Only the place of the operation changes, within its work on a turn that is over.
LEMMA GoKeeps ==
  ASSUME CursorInv, job.pc \in {"completing", "reading", "resolving"}, Unsaved, Around,
         NEW place \in {"idle", "resolving", "replace"}, JobGoes(place, job.work),
         place \in {"idle", "replace"} => place = After,
         place = "resolving" => job.pc = "reading",
         place = "idle" => life # "up" \/ ~Pending(record.active)
  PROVE  CursorInv'
  <1>1. /\ UNCHANGED <<record, timer, failures, torn, cut, fired, expired, written, life,
                      reserved, lives>>
        /\ job.work = record /\ Worked = record
    BY DEF Unsaved, Around, backend, CursorInv, JobInv, Worked
  <1>2. /\ place = "idle" => job' = Idle
        /\ place # "idle" => /\ job'.pc = place /\ job'.work = record
                          /\ job'.kind = job.kind /\ job'.turn = job.turn
        /\ job' \in Jobs
    BY <1>1, GoesTo, JobParts, IdleIs DEF CursorInv, CursorTypeOK
  <1>3. place = "replace" => job.kind = "start"
    BY DEF After
  <1>4. place = "idle" => job.kind # "start"
    BY DEF After
  <1>5. CursorTypeOK' /\ RecordInv'
    BY <1>1, <1>2 DEF CursorInv, CursorTypeOK, RecordInv, Complete
  <1>6. JobInv'
    BY <1>1, <1>2, <1>3, IdleIs DEF CursorInv, JobInv, Pending, Complete
  <1>7. TimerInv'
    BY <1>1, <1>2, IdleIs, TimerKept DEF Worked
  <1>8. WriteInv'
    BY <1>1, <1>2, IdleIs DEF CursorInv, WriteInv
  <1>9. PendingIsArmed'
    BY <1>1, <1>2 DEF PendingIsArmed, SessionFree, JobAt, Pending, Complete
  <1> QED
    BY <1>5, <1>6, <1>7, <1>8, <1>9 DEF CursorInv

\* What holds while a turn that is over is worked on.
LEMMA Working ==
  ASSUME CursorInv, job.pc \in {"reading", "resolving", "enqueued"}
  PROVE  /\ job.work = record /\ Pending(record.active) /\ record.active.id \in Turns
         /\ job.kind \in {"start", "hook", "retry"} /\ life # "down"
         /\ timer = NoTurn \/ timer = record.active.id \/ record.active.id \in cut
         /\ record.active.until
  <1>1. job.work = record /\ Pending(record.active) /\ life # "down" /\ Worked = record
    BY IdleIs DEF CursorInv, JobInv, Worked
  <1>2. record.active.id \in Turns
    BY <1>1, JobParts DEF CursorInv, RecordInv, Pending, Ids
  <1> QED
    BY <1>1, <1>2, JobParts DEF CursorInv, JobInv, CursorTypeOK, Jobs, TimerInv, RecordInv, Pending

\* A turn that is saved as it was stays pending, with its retry set or known to be cut off.
LEMMA LaterKeeps ==
  ASSUME CursorInv, job.pc \in {"reading", "resolving"},
         SaveRecord(job.work, After, Armed(job.work.active.id)), Around
  PROVE  CursorInv'
  <1> DEFINE a == record.active
  <1>1. /\ job.work = record /\ Pending(a) /\ a.id \in Turns /\ a \in ActiveTurns
        /\ life # "down" /\ a.until /\ job.kind \in {"start", "hook", "retry"}
        /\ timer = NoTurn \/ timer = a.id \/ a.id \in cut
    BY Working, JobParts
  <1>2. CASE Throw(timer)
    BY <1>1, <1>2, ThrowKeeps
  <1>3. CASE /\ record' = job.work /\ JobGoes(After, job.work) /\ timer' = Armed(a.id)
             /\ UNCHANGED <<failures, torn, cut>>
    <2>1. record' = Changed(record, a)
      BY <1>1, <1>3, JobParts DEF Changed, CursorRecords, CursorInv, CursorTypeOK
    <2>2. /\ After \in {"idle", "replace"}
          /\ After = "replace" => job.kind = "start"
      BY DEF After
    <2>3. /\ After = "idle" => job' = Idle
          /\ After # "idle" => /\ job' \in Jobs /\ job'.pc = After /\ job'.work = record'
                               /\ job'.kind = job.kind /\ job'.turn = job.turn
      BY <1>1, <1>3, <2>2, GoesTo DEF CursorInv, CursorTypeOK
    <2>4. timer' \in {timer, a.id} /\ (life = "up" /\ a.id \notin cut \cup expired => timer' = a.id)
      BY <1>1, <1>3 DEF Armed
    <2> QED
      BY <1>1, <1>3, <2>1, <2>2, <2>3, <2>4, IdleIs, ChangeKeeps
      DEF Around, backend, Pending, CursorInv, RecordInv
  <1> QED
    BY <1>1, <1>2, <1>3 DEF SaveRecord

\* The state of the active turn is saved by an operation that works on it.
LEMMA SavedKeeps ==
  ASSUME CursorInv, job.pc \in {"completing", "reading", "enqueued"}, life # "down",
         Pending(record.active),
         NEW b \in ActiveTurns, b.id = record.active.id,
         NEW place \in {After, "reading"}, NEW tm \in {timer, NoTurn},
         SaveRecord(Changed(job.work, b), place, tm), Around,
         Complete(b) => b.until \/ b.state = "accepted",
         b.state \in {"open", "blocked", "accepted"},
         place = "reading" <=> Pending(b),
         b.state = "accepted" <=> job.pc = "enqueued"
  PROVE  CursorInv'
  <1>1. /\ job.work = record /\ record.active.id \in Turns
        /\ job.kind \in {"start", "hook", "retry"}
    BY JobParts DEF CursorInv, CursorTypeOK, Jobs, JobInv, RecordInv, Pending, Ids
  <1>2. CASE Throw(timer)
    BY <1>1, <1>2, ThrowKeeps
  <1>3. CASE /\ record' = Changed(record, b) /\ JobGoes(place, Changed(record, b)) /\ timer' = tm
             /\ UNCHANGED <<failures, torn, cut>>
    <2>1. Changed(record, b) \in CursorRecords
      BY ChangedIs DEF CursorInv, CursorTypeOK
    <2>2. /\ After \in {"idle", "replace"}
          /\ After = "replace" => job.kind = "start"
      BY DEF After
    <2>3. /\ place = "idle" => job' = Idle
          /\ place # "idle" => /\ job' \in Jobs /\ job'.pc = place /\ job'.work = record'
                            /\ job'.kind = job.kind /\ job'.turn = job.turn
      BY <1>3, <2>1, <2>2, GoesTo DEF CursorInv, CursorTypeOK
    <2> QED
      BY <1>1, <1>3, <2>2, <2>3, IdleIs, ChangeKeeps DEF Around, backend, Pending
  <1> QED
    BY <1>1, <1>2, <1>3 DEF SaveRecord

LEMMA CompletePendingKeeps == ASSUME CursorInv, CompletePending PROVE CursorInv'
  <1> DEFINE a == job.work.active
             b == [a EXCEPT !.until = TRUE]
  <1>1. job.pc = "completing" /\ Around /\ job.work = record
    BY DEF CompletePending, JobAt, CursorInv, JobInv
  <1>2. CASE life # "up" \/ ~Pending(a)
    BY <1>1, <1>2, GoKeeps DEF CompletePending, After
  <1>3. CASE life = "up" /\ Pending(a)
    <2>1. /\ b \in ActiveTurns /\ b.id = a.id /\ Pending(b) /\ b.until
          /\ b.state = "open"
      BY <1>3, JobParts DEF ActiveTurns, Pending, Complete
    <2> QED
      BY <1>1, <1>3, <2>1, SavedKeeps DEF CompletePending, After
  <1> QED
    BY <1>2, <1>3

LEMMA ReadNativeKeeps == ASSUME CursorInv, ReadNative PROVE CursorInv'
  <1> DEFINE a == job.work.active
             b == [a EXCEPT !.state = "blocked"]
  <1>1. /\ job.pc = "reading" /\ Around /\ job.work = record /\ Pending(a) /\ life # "down"
    BY Working DEF ReadNative, JobAt
  <1>2. CASE life # "up"
    BY <1>1, <1>2, GoKeeps DEF ReadNative, After
  <1>3. CASE JobGoes("resolving", job.work) /\ Unsaved
    BY <1>1, <1>3, GoKeeps
  <1>4. CASE SaveRecord(job.work, After, Armed(a.id))
    BY <1>1, <1>4, LaterKeeps
  <1>5. CASE SaveRecord(Changed(job.work, b), After, NoTurn)
    <2>1. /\ b \in ActiveTurns /\ b.id = a.id /\ ~Pending(b) /\ b.state = "blocked"
          /\ Complete(b) => b.until
      BY <1>1, Working, JobParts DEF ActiveTurns, Pending, Complete
    <2>2. After # "reading"
      BY DEF After
    <2> QED
      BY <1>1, <1>5, <2>1, <2>2, SavedKeeps
  <1> QED
    BY <1>2, <1>3, <1>4, <1>5 DEF ReadNative

\* The turn is counted once: had it been written before, it would be accepted, retired
\* or torn, and it is pending.
LEMMA CompleteTurnKeeps == ASSUME CursorInv, CompleteTurn PROVE CursorInv'
  <1> DEFINE a == job.work.active
  <1>1. /\ job.pc = "resolving" /\ job.work = record /\ Pending(a) /\ a.id \in Turns
        /\ UNCHANGED <<fired, expired, life, lives>>
    BY Working DEF CompleteTurn, JobAt
  <1>2. CASE SaveRecord(job.work, After, Armed(a.id)) /\ UNCHANGED <<reserved, written>>
    BY <1>1, <1>2, LaterKeeps DEF Around, backend
  <1>3. CASE /\ life = "up" /\ JobGoes("enqueued", job.work) /\ Unsaved
             /\ reserved' = reserved \cup {a.id}
             /\ written' = IF a.id \in reserved THEN written
                           ELSE [written EXCEPT ![a.id] = @ + 1]
    <2>1. /\ job' \in Jobs /\ job'.pc = "enqueued" /\ job'.work = record
          /\ job'.kind = job.kind /\ job'.turn = job.turn
          /\ UNCHANGED <<record, timer, failures, torn, cut>>
      BY <1>1, <1>3, GoesTo, JobParts DEF CursorInv, CursorTypeOK, Unsaved
    <2>2. CursorTypeOK' /\ RecordInv'
      BY <1>1, <1>3, <2>1 DEF CursorInv, CursorTypeOK, RecordInv, Complete
    <2>3. JobInv'
      BY <1>1, <1>3, <2>1 DEF CursorInv, JobInv, Pending, Complete
    <2>4. TimerInv'
      BY <1>1, <2>1, TimerKept DEF CursorInv, JobInv, Worked
    <2>5. WriteInv'
      <3>1. a.id \notin torn => written[a.id] = 0 \/ a.id \in reserved
        BY <1>1 DEF CursorInv, CursorTypeOK, RecordInv, WriteInv, Pending
      <3>2. /\ written'[a.id] > 0 /\ (a.id \notin torn => written'[a.id] <= 1)
            /\ \A t \in Turns \ {a.id} : written'[t] = written[t]
        BY <1>1, <1>3, <3>1 DEF CursorInv, CursorTypeOK, WriteInv
      <3> QED
        BY <1>1, <1>3, <2>1, <3>2 DEF CursorInv, CursorTypeOK, WriteInv, Pending
    <2>6. PendingIsArmed'
      BY <2>1 DEF PendingIsArmed, SessionFree, JobAt
    <2> QED
      BY <2>2, <2>3, <2>4, <2>5, <2>6 DEF CursorInv
  <1> QED
    BY <1>2, <1>3 DEF CompleteTurn

LEMMA MarkAcceptedKeeps == ASSUME CursorInv, MarkAccepted PROVE CursorInv'
  <1> DEFINE a == job.work.active
             b == [a EXCEPT !.state = "accepted", !.until = FALSE]
  <1>1. /\ job.pc = "enqueued" /\ Around /\ job.work = record /\ Pending(a) /\ life # "down"
        /\ SaveRecord(Changed(job.work, b), After, NoTurn)
    BY Working DEF MarkAccepted, JobAt
  <1>2. /\ b \in ActiveTurns /\ b.id = a.id /\ ~Pending(b) /\ b.state = "accepted"
    BY <1>1, JobParts DEF ActiveTurns, Pending
  <1>3. After # "reading"
    BY DEF After
  <1> QED
    BY <1>1, <1>2, <1>3, SavedKeeps

LEMMA CursorStarts == ASSUME CursorInit PROVE CursorInv
  BY CursorAssumption
  DEF CursorInit, CursorInv, CursorTypeOK, RecordInv, JobInv, TimerInv, WriteInv, PendingIsArmed,
      CursorRecords, ActiveTurns, Jobs, NoRecord, Idle, New, Ids, Complete, Pending, Worked

LEMMA RepeatStartKeeps == ASSUME CursorInv, NEW t \in Turns, RepeatStart(t) PROVE CursorInv'
  <1> DEFINE a == record.active
             b == [a EXCEPT !.state = "blocked"]
  <1>1. /\ job.pc = "idle" /\ life = "up" /\ a.id \in Turns /\ a.state \in {"open", "blocked"}
        /\ SaveRecord(Changed(record, b), "idle", timer) /\ Around
    BY DEF RepeatStart, SessionFree, JobAt
  <1>2. /\ b \in ActiveTurns /\ b.id = a.id /\ b.state = "blocked" /\ ~Pending(b)
        /\ Complete(b) => b.until
    BY <1>1, JobParts DEF ActiveTurns, Pending, Complete, CursorInv, RecordInv
  <1>3. CASE Throw(timer)
    BY <1>1, <1>3, ThrowKeeps
  <1>4. CASE /\ record' = Changed(record, b) /\ JobGoes("idle", record') /\ timer' = timer
             /\ UNCHANGED <<failures, torn, cut>>
    <2>1. job' = Idle
      BY <1>4 DEF JobGoes
    <2> QED
      BY <1>1, <1>2, <1>4, <2>1, IdleIs, ChangeKeeps DEF Around, backend
  <1> QED
    BY <1>1, <1>3, <1>4 DEF SaveRecord

LEMMA StartTurnKeeps == ASSUME CursorInv, NEW t \in Turns, StartTurn(t) PROVE CursorInv'
  <1> DEFINE a == record.active
             place == IF Pending(a) THEN "completing" ELSE "replace"
  <1>1. /\ job.pc = "idle" /\ life = "up" /\ t \notin record.retired \cup {a.id}
        /\ job' = [pc |-> place, kind |-> "start", turn |-> t, work |-> record]
        /\ UNCHANGED <<record, timer, failures, torn, cut, fired, expired, written, life,
                       reserved, lives>>
    BY DEF StartTurn, SessionFree, JobAt, Unsaved, Around, backend
  <1>2. /\ job' \in Jobs /\ job'.pc = place /\ job'.kind = "start" /\ job'.turn = t
        /\ job'.work = record
    BY <1>1 DEF CursorInv, CursorTypeOK, Jobs, Ids
  <1>3. CursorTypeOK' /\ RecordInv'
    BY <1>1, <1>2 DEF CursorInv, CursorTypeOK, RecordInv, Complete
  <1>4. JobInv'
    BY <1>1, <1>2 DEF JobInv
  <1>5. TimerInv'
    BY <1>1, <1>2, TimerKept DEF Worked
  <1>6. WriteInv'
    BY <1>1, <1>2 DEF CursorInv, WriteInv
  <1>7. PendingIsArmed'
    BY <1>2 DEF PendingIsArmed, SessionFree, JobAt
  <1> QED
    BY <1>3, <1>4, <1>5, <1>6, <1>7 DEF CursorInv

LEMMA BlockKeeps == ASSUME CursorInv, NEW t \in Turns, Block(t) PROVE CursorInv'
  <1> DEFINE a == record.active
             b == [a EXCEPT !.state = "blocked"]
  <1>1. /\ job.pc = "idle" /\ life = "up" /\ a.id \in Turns /\ a.state \in {"open", "blocked"}
        /\ Around
    BY DEF Block, Reports, SessionFree, JobAt
  <1>2. /\ b \in ActiveTurns /\ b.id = a.id /\ b.state = "blocked" /\ ~Pending(b)
        /\ Complete(b) => b.until
    BY <1>1, JobParts DEF ActiveTurns, Pending, Complete, CursorInv, RecordInv
  <1>3. CASE Throw(timer) \/ Throw(NoTurn)
    BY <1>1, <1>3, ThrowKeeps
  <1>4. CASE /\ record' = Changed(record, b) /\ JobGoes("idle", record') /\ timer' = NoTurn
             /\ UNCHANGED <<failures, torn, cut>>
    <2>1. job' = Idle
      BY <1>4 DEF JobGoes
    <2> QED
      BY <1>1, <1>2, <1>4, <2>1, IdleIs, ChangeKeeps DEF Around, backend
  <1> QED
    BY <1>3, <1>4 DEF Block, SaveRecord

\* A report about the active turn that does not change what became of it.
LEMMA HookKeeps ==
  ASSUME CursorInv, NEW t \in Turns, Reports(t), NEW b \in ActiveTurns,
         b.id = t, b.state = record.active.state, Complete(b) => b.until,
         Hook(t, b), Around
  PROVE  CursorInv'
  <1>1. /\ job.pc = "idle" /\ life = "up" /\ record.active.id = t
        /\ b.state \in {"open", "blocked"}
    BY DEF Reports, SessionFree, JobAt
  <1>2. CASE Throw(timer)
    BY <1>1, <1>2, ThrowKeeps
  <1>3. CASE /\ record' = Changed(record, b) /\ UNCHANGED <<timer, failures, torn, cut>>
             /\ job' = [pc |-> "completing", kind |-> "hook", turn |-> t, work |-> record']
    <2>1. /\ job' \in Jobs /\ job'.pc = "completing" /\ job'.kind = "hook" /\ job'.turn = t
          /\ job'.work = record'
      BY <1>1, <1>3, ChangedIs DEF CursorInv, CursorTypeOK, Jobs, Ids
    <2> QED
      BY <1>1, <1>3, <2>1, ChangeKeeps DEF Around, backend
  <1> QED
    BY <1>2, <1>3 DEF Hook

LEMMA ReplyKeeps == ASSUME CursorInv, NEW t \in Turns, Reply(t) PROVE CursorInv'
  <1> DEFINE a == record.active
             b == [a EXCEPT !.replied = TRUE, !.until = @ \/ a.stop = "completed"]
  <1>1. /\ b \in ActiveTurns /\ b.id = a.id /\ b.state = a.state /\ (Complete(b) => b.until)
    BY JobParts DEF ActiveTurns, Complete
  <1>2. Reports(t) /\ a.id = t /\ Hook(t, b) /\ Around
    BY DEF Reply, Reports
  <1> QED
    BY <1>1, <1>2, HookKeeps

LEMMA StopCompletedKeeps == ASSUME CursorInv, NEW t \in Turns, StopCompleted(t) PROVE CursorInv'
  <1> DEFINE a == record.active
             b == [a EXCEPT !.stop = "completed", !.until = @ \/ a.replied]
  <1>1. /\ b \in ActiveTurns /\ b.id = a.id /\ b.state = a.state /\ (Complete(b) => b.until)
    BY JobParts DEF ActiveTurns, Complete
  <1>2. Reports(t) /\ a.id = t /\ Hook(t, b) /\ Around
    BY DEF StopCompleted, Reports
  <1> QED
    BY <1>1, <1>2, HookKeeps

LEMMA StopAbortedKeeps == ASSUME CursorInv, NEW t \in Turns, StopAborted(t) PROVE CursorInv'
  <1> DEFINE a == record.active
             b == [a EXCEPT !.stop = "aborted", !.state = "interrupted"]
  <1>1. /\ job.pc = "idle" /\ life = "up" /\ a.id \in Turns /\ a.state \in {"open", "blocked"}
        /\ Around
    BY DEF StopAborted, Reports, SessionFree, JobAt
  <1>2. /\ b \in ActiveTurns /\ b.id = a.id /\ b.state = "interrupted" /\ ~Complete(b)
        /\ ~Pending(b)
    BY <1>1, JobParts DEF ActiveTurns, Pending, Complete
  <1>3. CASE Throw(NoTurn)
    BY <1>1, <1>3, ThrowKeeps
  <1>4. CASE /\ record' = Changed(record, b) /\ timer' = NoTurn
             /\ UNCHANGED <<job, failures, torn, cut>>
    <2>1. job' = Idle
      BY <1>1, <1>4 DEF CursorInv, JobInv
    <2> QED
      BY <1>1, <1>2, <1>4, <2>1, IdleIs, ChangeKeeps DEF Around, backend
  <1> QED
    BY <1>3, <1>4 DEF StopAborted

\* The record with which the start of turn t leaves w behind.
LEMMA SuccessorIs ==
  ASSUME NEW w \in CursorRecords, NEW t \in Turns, NEW s \in {"open", "blocked"}
  PROVE  /\ Successor(w, t, s) \in CursorRecords
         /\ Successor(w, t, s).active = New(t, s)
         /\ Successor(w, t, s).retired =
              IF w.active.id = NoTurn THEN w.retired ELSE w.retired \cup {w.active.id}
         /\ New(t, s).id = t /\ New(t, s).state = s /\ ~Complete(New(t, s))
         /\ ~Pending(New(t, s))
  BY DEF CursorRecords, ActiveTurns, Ids, New, Successor, Complete, Pending

\* The retry of the turn before is taken away with it.
LEMMA ReplaceTurnKeeps == ASSUME CursorInv, ReplaceTurn PROVE CursorInv'
  <1> DEFINE old == record.active.id
  <1>1. /\ job.pc = "replace" /\ job.work = record /\ job.kind = "start"
        /\ job.turn \in Turns \ (record.retired \cup {old})
        /\ record \in CursorRecords /\ life # "down" /\ Worked = record
    BY IdleIs DEF ReplaceTurn, JobAt, CursorInv, JobInv, CursorTypeOK, Jobs, Worked
  <1>2. PICK s \in {"open", "blocked"} : JobGoes("registering", Successor(record, job.turn, s))
    BY <1>1 DEF ReplaceTurn
  <1> DEFINE w == Successor(record, job.turn, s)
  <1>3. /\ w \in CursorRecords /\ w.active.id = job.turn
        /\ w.retired = IF old = NoTurn THEN record.retired ELSE record.retired \cup {old}
    <2>1. record \in CursorRecords /\ job.turn \in Turns
      BY <1>1
    <2> QED
      BY <2>1, SuccessorIs
  <1>4. /\ job' \in Jobs /\ job'.pc = "registering" /\ job'.work = w
        /\ job'.kind = "start" /\ job'.turn = job.turn
    BY <1>1, <1>2, <1>3, GoesTo DEF CursorInv, CursorTypeOK
  <1>5. /\ timer' = NoTurn
        /\ UNCHANGED <<record, failures, torn, cut, fired, expired, written, life,
                       reserved, lives>>
    BY DEF ReplaceTurn, Around, backend
  <1>6. CursorTypeOK' /\ RecordInv'
    BY <1>4, <1>5 DEF CursorInv, CursorTypeOK, RecordInv, Complete, Ids
  <1>7. JobInv'
    BY <1>1, <1>4, <1>5 DEF JobInv
  <1>8. TimerInv'
    <2>1. Worked' = w
      BY <1>4 DEF Worked
    <2>2. fired \subseteq {old} \cup record.retired /\ fired \subseteq Turns
      BY <1>1 DEF CursorInv, TimerInv, CursorTypeOK
    <2> QED
      BY <1>1, <1>3, <1>4, <1>5, <2>1, <2>2, CursorAssumption
      DEF TimerInv, CursorInv, CursorTypeOK, CursorRecords
  <1>9. WriteInv'
    BY <1>1, <1>4, <1>5 DEF CursorInv, WriteInv
  <1>10. PendingIsArmed'
    BY <1>4 DEF PendingIsArmed, SessionFree, JobAt
  <1> QED
    BY <1>6, <1>7, <1>8, <1>9, <1>10 DEF CursorInv

LEMMA RegisterTurnKeeps == ASSUME CursorInv, RegisterTurn PROVE CursorInv'
  <1> DEFINE old == record.active.id
  <1>1. /\ job.pc = "registering" /\ Around /\ SaveRecord(job.work, "idle", timer)
    BY DEF RegisterTurn, JobAt
  <1>2. CASE Throw(timer)
    BY <1>1, <1>2, ThrowKeeps
  <1>3. CASE /\ record' = job.work /\ JobGoes("idle", job.work) /\ timer' = timer
             /\ UNCHANGED <<failures, torn, cut>>
    <2>1. PICK s \in {"open", "blocked"} : job.work = Successor(record, job.turn, s)
      BY <1>1 DEF CursorInv, JobInv
    <2>2. /\ job.turn \in Turns \ (record.retired \cup {old}) /\ Worked = job.work
          /\ life # "down" /\ record \in CursorRecords
      BY <1>1, IdleIs DEF CursorInv, JobInv, CursorTypeOK, Jobs, Worked
    <2>3. /\ job' = Idle /\ record' = job.work /\ Worked' = job.work
          /\ UNCHANGED <<timer, failures, torn, cut, fired, expired, written, life,
                       reserved, lives>>
      BY <1>1, <1>3, IdleIs DEF JobGoes, Around, backend, Worked
    <2> DEFINE w == Successor(record, job.turn, s)
    <2>4. /\ record' \in CursorRecords /\ record'.active.id = job.turn
          /\ record'.retired = IF old = NoTurn THEN record.retired ELSE record.retired \cup {old}
          /\ record'.active.state \in {"open", "blocked"}
          /\ ~Complete(record'.active) /\ ~Pending(record'.active)
      <3>1. record' = w
        BY <2>1, <2>3
      <3>2. /\ w \in CursorRecords /\ w.active = New(job.turn, s) /\ w.active.id = job.turn
            /\ w.active.state = s /\ ~Complete(w.active) /\ ~Pending(w.active)
            /\ w.retired = IF old = NoTurn THEN record.retired ELSE record.retired \cup {old}
        <4>1. record \in CursorRecords /\ job.turn \in Turns
          BY <2>2
        <4> QED
          BY <4>1, SuccessorIs
      <3> QED
        BY <3>1, <3>2
    <2>5. CursorTypeOK'
      BY <2>3, <2>4, IdleIs DEF CursorInv, CursorTypeOK
    <2>6. RecordInv'
      BY <2>2, <2>4, CursorAssumption, JobParts DEF RecordInv
    <2>7. JobInv'
      BY <2>3, IdleIs DEF JobInv
    <2>8. TimerInv'
      BY <2>2, <2>3, IdleIs DEF CursorInv, TimerInv
    <2>9. WriteInv'
      BY <1>1, <2>2, <2>3, <2>4, IdleIs, CursorAssumption DEF CursorInv, WriteInv
    <2>10. PendingIsArmed'
      BY <2>4 DEF PendingIsArmed, Pending, Complete
    <2> QED
      BY <2>5, <2>6, <2>7, <2>8, <2>9, <2>10 DEF CursorInv
  <1> QED
    BY <1>1, <1>2, <1>3 DEF SaveRecord

LEMMA TimerFiresKeeps == ASSUME CursorInv, TimerFires PROVE CursorInv'
  <1>1. /\ timer # NoTurn /\ fired' = fired \cup {timer} /\ timer' = NoTurn
        /\ UNCHANGED <<record, job, expired, failures, written, torn, cut, life,
                       reserved, lives>>
        /\ Worked' = Worked
    BY DEF TimerFires, backend, Worked
  <1>2. CursorTypeOK' /\ RecordInv' /\ JobInv' /\ WriteInv'
    BY <1>1 DEF CursorInv, CursorTypeOK, RecordInv, JobInv, WriteInv, Complete, Pending, Ids
  <1>3. TimerInv'
    BY <1>1, JobParts, CursorAssumption DEF CursorInv, TimerInv
  <1>4. PendingIsArmed'
    BY <1>1 DEF CursorInv, PendingIsArmed, SessionFree, JobAt, Pending, Complete
  <1> QED
    BY <1>2, <1>3, <1>4 DEF CursorInv

\* A retry that finds nothing to do is not the one of a turn that is still pending.
LEMMA RetryRunsKeeps == ASSUME CursorInv, NEW t \in Turns, RetryRuns(t) PROVE CursorInv'
  <1> DEFINE a == record.active
             runs == life = "up" /\ a.id = t /\ Pending(a) /\ a.until /\ t \notin expired
  <1>1. /\ job.pc = "idle" /\ fired' = fired \ {t}
        /\ job' = IF runs THEN [pc |-> "completing", kind |-> "retry", turn |-> t,
                                work |-> record]
                  ELSE Idle
        /\ UNCHANGED <<record, timer, failures, torn, cut, expired, written, life, reserved, lives>>
    BY DEF RetryRuns, JobAt, Unsaved, backend
  <1>2. CASE runs
    <2>1. /\ job' \in Jobs /\ job'.pc = "completing" /\ job'.kind = "retry" /\ job'.turn = t
          /\ job'.work = record
      BY <1>1, <1>2 DEF CursorInv, CursorTypeOK, Jobs, Ids
    <2>2. CursorTypeOK' /\ RecordInv'
      BY <1>1, <2>1 DEF CursorInv, CursorTypeOK, RecordInv, Complete
    <2>3. JobInv'
      BY <1>1, <1>2, <2>1 DEF JobInv
    <2>4. TimerInv'
      BY <1>1, <2>1, TimerKept DEF Worked
    <2>5. WriteInv'
      BY <1>1, <2>1 DEF CursorInv, WriteInv
    <2>6. PendingIsArmed'
      BY <2>1 DEF PendingIsArmed, SessionFree, JobAt
    <2> QED
      BY <2>2, <2>3, <2>4, <2>5, <2>6 DEF CursorInv
  <1>3. CASE ~runs
    <2>1. job' = Idle /\ job'.pc = "idle"
      BY <1>1, <1>3, IdleIs
    <2>2. CursorTypeOK' /\ RecordInv'
      BY <1>1, <2>1, IdleIs DEF CursorInv, CursorTypeOK, RecordInv, Complete
    <2>3. JobInv'
      BY <1>1, <2>1, IdleIs DEF JobInv
    <2>4. TimerInv'
      BY <1>1, <2>1, TimerKept DEF Worked
    <2>5. WriteInv'
      BY <1>1, <2>1 DEF CursorInv, WriteInv
    <2>6. PendingIsArmed'
      BY <1>1, <1>3 DEF CursorInv, RecordInv, PendingIsArmed, SessionFree, JobAt, Pending, Complete
    <2> QED
      BY <2>2, <2>3, <2>4, <2>5, <2>6 DEF CursorInv
  <1> QED
    BY <1>2, <1>3

\* A retry that comes back for a retired turn takes the timer from the turn in hand.
LEMMA RetryLaterKeeps == ASSUME CursorInv, NEW t \in Turns, RetryLater(t) PROVE CursorInv'
  <1>1. /\ t \in fired /\ job.pc # "idle" /\ fired' = fired \ {t} /\ timer' = Armed(t)
        /\ cut' = IF t \in job.work.retired THEN cut \cup {job.work.active.id} ELSE cut
        /\ UNCHANGED <<record, job, expired, failures, written, torn, life, reserved, lives>>
        /\ Worked = job.work /\ Worked' = Worked
    BY DEF RetryLater, JobAt, backend, Worked
  <1>2. timer' \in {t, timer}
    BY <1>1 DEF Armed
  <1>3. CursorTypeOK'
    BY <1>1, <1>2, JobParts DEF CursorInv, CursorTypeOK, Ids
  <1>4. RecordInv' /\ JobInv' /\ WriteInv'
    BY <1>1 DEF CursorInv, RecordInv, JobInv, WriteInv, Complete, Pending
  <1>5. TimerInv'
    BY <1>1, <1>2, JobParts DEF CursorInv, TimerInv
  <1>6. PendingIsArmed'
    BY <1>1 DEF PendingIsArmed, SessionFree, JobAt
  <1> QED
    BY <1>3, <1>4, <1>5, <1>6 DEF CursorInv

LEMMA ExpireKeeps == ASSUME CursorInv, Expire PROVE CursorInv'
  <1>1. /\ expired' = expired \cup {record.active.id}
        /\ UNCHANGED <<record, job, timer, fired, failures, written, torn, cut, life,
                       reserved, lives>>
        /\ Worked' = Worked
    BY DEF Expire, backend, Worked
  <1>2. CursorTypeOK'
    BY <1>1, JobParts DEF CursorInv, CursorTypeOK
  <1>3. RecordInv' /\ JobInv' /\ TimerInv' /\ WriteInv'
    BY <1>1 DEF CursorInv, RecordInv, JobInv, TimerInv, WriteInv, Complete, Pending
  <1>4. PendingIsArmed'
    BY <1>1 DEF CursorInv, PendingIsArmed, SessionFree, JobAt, Pending, Complete
  <1> QED
    BY <1>2, <1>3, <1>4 DEF CursorInv

LEMMA CloseKeeps == ASSUME CursorInv, Close PROVE CursorInv'
  <1>1. /\ life = "up" /\ life' = "closing" /\ timer' = NoTurn
        /\ UNCHANGED <<record, job, fired, expired, reserved, lives, failures, written, torn, cut>>
        /\ Worked' = Worked
    BY DEF Close, Worked
  <1>2. CursorTypeOK' /\ RecordInv' /\ JobInv' /\ WriteInv'
    BY <1>1 DEF CursorInv, CursorTypeOK, RecordInv, JobInv, WriteInv, Complete, Pending, Ids
  <1>3. TimerInv'
    BY <1>1, JobParts, CursorAssumption DEF CursorInv, TimerInv
  <1>4. PendingIsArmed'
    BY <1>1 DEF PendingIsArmed, SessionFree
  <1> QED
    BY <1>2, <1>3, <1>4 DEF CursorInv

\* A turn whose acceptance was not recorded when the process ended counts as torn.
LEMMA ExitKeeps == ASSUME CursorInv, Exit PROVE CursorInv'
  <1> DEFINE old == record.active.id
  <1>1. /\ life' = "down" /\ job' = Idle /\ job'.pc = "idle" /\ timer' = NoTurn /\ fired' = {}
        /\ reserved' = {} /\ cut' = {}
        /\ torn' = IF job.pc = "enqueued" THEN torn \cup {job.work.active.id} ELSE torn
        /\ UNCHANGED <<record, expired, lives, failures, written>>
    BY IdleIs DEF Exit, JobAt
  <1>2. job.pc = "enqueued" => job.work.active.id = old /\ old \in Turns
    BY Working
  <1>3. CursorTypeOK'
    BY <1>1, <1>2, IdleIs DEF CursorInv, CursorTypeOK, Ids
  <1>4. RecordInv' /\ JobInv'
    BY <1>1, IdleIs DEF CursorInv, RecordInv, JobInv, Complete
  <1>5. TimerInv'
    <2>1. Worked' = record
      BY <1>1 DEF Worked
    <2> QED
      BY <1>1, <2>1, JobParts, CursorAssumption DEF TimerInv
  <1>6. WriteInv'
    BY <1>1, <1>2 DEF CursorInv, WriteInv
  <1>7. PendingIsArmed'
    BY <1>1 DEF PendingIsArmed, SessionFree
  <1> QED
    BY <1>3, <1>4, <1>5, <1>6, <1>7 DEF CursorInv

LEMMA RestartKeeps == ASSUME CursorInv, Restart PROVE CursorInv'
  <1>1. /\ life = "down" /\ life' = "up" /\ lives' = lives + 1
        /\ timer' = IF Pending(record.active) /\ record.active.until THEN record.active.id
                    ELSE NoTurn
        /\ UNCHANGED <<record, job, fired, expired, reserved, failures, written, torn, cut>>
        /\ job.pc = "idle" /\ Worked = record /\ Worked' = record
    BY IdleIs DEF Restart, Worked, CursorInv, JobInv
  <1>2. CursorTypeOK'
    BY <1>1, JobParts DEF CursorInv, CursorTypeOK, Ids
  <1>3. RecordInv' /\ JobInv' /\ WriteInv'
    BY <1>1 DEF CursorInv, RecordInv, JobInv, WriteInv, Complete, Pending
  <1>4. TimerInv'
    BY <1>1, JobParts, CursorAssumption DEF CursorInv, TimerInv
  <1>5. PendingIsArmed'
    BY <1>1 DEF CursorInv, RecordInv, PendingIsArmed, Pending, Complete
  <1> QED
    BY <1>2, <1>3, <1>4, <1>5 DEF CursorInv

LEMMA CursorStutters == ASSUME CursorInv, UNCHANGED cursorVars PROVE CursorInv'
  <1>1. /\ UNCHANGED <<record, job, timer, fired, expired, life, reserved, lives, failures,
                       written, torn, cut>>
        /\ Worked' = Worked
    BY DEF cursorVars, Worked
  <1> QED
    BY <1>1 DEF CursorInv, CursorTypeOK, RecordInv, JobInv, TimerInv, WriteInv, PendingIsArmed,
                SessionFree, JobAt, Complete, Pending

LEMMA CursorSteps == ASSUME CursorInv, [CursorNext]_cursorVars PROVE CursorInv'
  <1>1. CASE \/ CompletePending \/ ReadNative \/ CompleteTurn \/ MarkAccepted
             \/ ReplaceTurn \/ RegisterTurn
    BY <1>1, CompletePendingKeeps, ReadNativeKeeps, CompleteTurnKeeps, MarkAcceptedKeeps,
       ReplaceTurnKeeps, RegisterTurnKeeps
  <1>2. ASSUME NEW t \in Turns,
               \/ RepeatStart(t) \/ StartTurn(t) \/ Block(t) \/ Reply(t)
               \/ StopCompleted(t) \/ StopAborted(t) \/ RetryRuns(t) \/ RetryLater(t)
        PROVE  CursorInv'
    BY <1>2, RepeatStartKeeps, StartTurnKeeps, BlockKeeps, ReplyKeeps, StopCompletedKeeps,
       StopAbortedKeeps, RetryRunsKeeps, RetryLaterKeeps
  <1>3. CASE TimerFires \/ Expire \/ Close \/ Exit \/ Restart \/ UNCHANGED cursorVars
    BY <1>3, TimerFiresKeeps, ExpireKeeps, CloseKeeps, ExitKeeps, RestartKeeps, CursorStutters
  <1> QED
    BY <1>1, <1>2, <1>3 DEF CursorNext

\* The invariant: the operation that holds the session's lock works on what is on record,
\* retries belong to the turn in hand or to a retired one, and what automatic writeback was
\* given is on record (clients/cursor/writeback.ts), for any number of turns and without
\* the bounds of the run.
THEOREM CursorInvariant == CursorSpec => []CursorInv
  BY CursorStarts, CursorSteps, PTL DEF CursorSpec

\* While its time lasts, a turn that is over and waits for its text has a retry to come,
\* unless an exception or the retry of a retired turn took it (scheduleRetry).
THEOREM RetriesAreArmed == CursorSpec => []PendingIsArmed
  <1>1. CursorInv => PendingIsArmed
    BY DEF CursorInv
  <1> QED
    BY <1>1, CursorInvariant, PTL

\* A turn is given to automatic writeback as new at most once, over any number of restarts,
\* and its record says truly whether it was; except one whose acceptance was not recorded.
THEOREM WrittenTruly == CursorSpec => []WrittenAsRecorded
  <1>1. CursorInv => WrittenAsRecorded
    <2>1. SUFFICES ASSUME CursorInv PROVE WrittenAsRecorded
      OBVIOUS
    <2> DEFINE a == record.active
    <2>2. /\ a.state # "none" => a.id \in Turns
          /\ a.id \notin record.retired
          /\ job.pc = "enqueued" => a.state = "open"
      BY <2>1, JobParts DEF CursorInv, RecordInv, JobInv, Pending, Ids
    <2> QED
      BY <2>1, <2>2 DEF CursorInv, CursorTypeOK, WriteInv, WrittenAsRecorded
  <1> QED
    BY <1>1, CursorInvariant, PTL

-----------------------------------------------------------------------------
(* The trial credential.                                                      *)

Credentials == [state : {"absent", "provisioning", "ready"}, mark : Marks \cup {NoMark}]
Places == {"idle", "load", "create", "creating", "save", "verify", "request", "asked",
           "complete", "completing", "clear", "clearing", "verifyGone"} \cup Ended

States == [pc : Places, work : Credentials, tries : Nat]

TrialTypeOK ==
  /\ store \in Credentials
  /\ machine \in Marks
  /\ command \in [Commands -> States]

\* The lock of the provisioning spans all that a command does.
ProvisionInv == \A c \in Commands : UnderWay(c) => provisionLock = c

\* A record is of some machine, unless there is none.
StoreInv == store = Absent \/ (store.state \in {"provisioning", "ready"} /\ store.mark \in Marks)

\* What a command at a place, with its record r, knows of what is stored.
Knows(s, place, r) ==
  /\ place \in {"create", "creating"} => s = Absent /\ r.state = "provisioning" /\ r.mark \in Marks
  /\ place \in {"request", "asked", "complete", "completing"} =>
       s = r /\ r.state = "provisioning" /\ r.mark \in Marks
  /\ place = "save" =>
       /\ r.mark \in Marks
       /\ \/ r.state = "provisioning" /\ s = Absent
          \/ r.state = "ready" /\ s.state = "provisioning" /\ s.mark = r.mark
  /\ place = "verify" => r.mark \in Marks /\ r.state \in {"provisioning", "ready"}

\* Only the command under way changes the store.
WorkInv == \A c \in Commands : Knows(store, command[c].pc, command[c].work)

AccountInv == TrialTypeOK /\ ProvisionInv /\ StoreInv /\ WorkInv /\ OneAccount /\ overtaken = {}
-----------------------------------------------------------------------------
(* Every step of a command goes on with it, or ends it.                      *)

\* A command that is under way is the only one: a step of it leaves the places of the
\* others alone, and they are not under way.
LEMMA OthersRest ==
  ASSUME ProvisionInv, NEW c \in Commands, UnderWay(c)
  PROVE  \A d \in Commands \ {c} : ~UnderWay(d)
  BY DEF ProvisionInv

\* Nobody but the one that goes on is under way after the step.
LEMMA GotoKeepsLock ==
  ASSUME TrialTypeOK, ProvisionInv, NEW c \in Commands, UnderWay(c),
         provisionLock' = provisionLock,
         \A d \in Commands \ {c} : command'[d] = command[d]
  PROVE  ProvisionInv'
  BY DEF ProvisionInv, UnderWay

\* A command that goes on is where it goes, with what it takes along.
LEMMA GotoMoves ==
  ASSUME TrialTypeOK, NEW c \in Commands, NEW place \in Places, NEW r \in Credentials, CommandGoes(c, place, r)
  PROVE  /\ command' \in [Commands -> States]
         /\ command'[c].pc = place /\ command'[c].work = r
         /\ \A d \in Commands \ {c} : command'[d] = command[d]
  <1>1. command[c] \in States
    BY DEF TrialTypeOK
  <1>2. command'[c] = [[command[c] EXCEPT !.pc = place] EXCEPT !.work = r]
    BY DEF TrialTypeOK, CommandGoes
  <1>3. command'[c] \in States /\ command'[c].pc = place /\ command'[c].work = r
    BY <1>1, <1>2 DEF States
  <1> QED
    BY <1>3 DEF TrialTypeOK, CommandGoes

\* The end of a command frees the lock of no other.
LEMMA EndKeepsLock ==
  ASSUME TrialTypeOK, ProvisionInv, NEW c \in Commands, NEW r \in Ended, End(c, r)
  PROVE  /\ ProvisionInv'
         /\ command'[c].pc = r
         /\ \A d \in Commands \ {c} : command'[d] = command[d]
         /\ command' \in [Commands -> States]
  BY DEF TrialTypeOK, ProvisionInv, UnderWay, End, Unlocked, Ended, States, Places, Credentials, Absent

\* The end of a command that was not waiting for another disturbs nothing.
LEMMA EndKeepsWork ==
  ASSUME TrialTypeOK, ProvisionInv, WorkInv, NEW c \in Commands, NEW r \in Ended, End(c, r),
         UnderWay(c) \/ UNCHANGED store
  PROVE  WorkInv'
  <1>1. /\ command'[c].pc = r
        /\ \A d \in Commands \ {c} : command'[d] = command[d]
    BY EndKeepsLock
  <1>2. ASSUME NEW d \in Commands, d # c, UnderWay(d)
        PROVE  ~UnderWay(c)
    BY <1>2, OthersRest
  <1> QED
    BY <1>1, <1>2 DEF WorkInv, Knows, CommandAt, UnderWay, Ended
-----------------------------------------------------------------------------
\* At the beginning there is no record and nobody asks.
LEMMA AccountInit == ASSUME TrialInit PROVE AccountInv
  <1>1. TrialTypeOK
    BY DEF TrialInit, TrialTypeOK, States, Places, Credentials, Absent
  <1> QED
    BY <1>1, TrialAssumption DEF TrialInit, AccountInv, ProvisionInv, StoreInv, WorkInv, Knows, OneAccount, Absent,
                UnderWay, CommandAt

\* A command of either kind takes the first lock, or the lock of the record.
LEMMA BeginKeeps ==
  ASSUME AccountInv, NEW c \in Commands, NEW place \in {"load", "clear"}, CommandBegins(c, place)
  PROVE  AccountInv'
  <1>1. \A d \in Commands : ~UnderWay(d)
    BY TrialAssumption DEF AccountInv, ProvisionInv, CommandBegins
  <1>2. /\ CommandGoes(c, place, Absent) /\ provisionLock' = c
        /\ UNCHANGED <<store, machine, asked, reported, overtaken>>
    BY DEF CommandBegins, Machine, history
  <1>3. /\ command' \in [Commands -> States] /\ command'[c].pc = place
        /\ \A d \in Commands \ {c} : command'[d] = command[d]
    <2>1. place \in Places /\ Absent \in Credentials
      BY DEF Places, Credentials, Absent
    <2> QED
      BY <1>2, <2>1, GotoMoves DEF AccountInv
  <1>4. ProvisionInv'
    BY <1>1, <1>2, <1>3 DEF ProvisionInv, UnderWay
  <1>5. WorkInv'
    BY <1>1, <1>2, <1>3 DEF AccountInv, WorkInv, Knows, UnderWay, CommandAt, Ended
  <1> QED
    BY <1>2, <1>3, <1>4, <1>5 DEF AccountInv, TrialTypeOK, StoreInv, OneAccount

LEMMA TakeRecordKeeps ==
  ASSUME AccountInv, NEW c \in Commands, NEW before, NEW after,
         \/ before = "create" /\ after = "creating"
         \/ before = "complete" /\ after = "completing"
         \/ before = "clear" /\ after = "clearing",
         TakeRecord(c, before, after)
  PROVE  AccountInv'
  <1>1. /\ command[c].pc = before /\ CommandGoes(c, after, command[c].work)
        /\ UNCHANGED <<store, machine, provisionLock, asked, reported, overtaken>>
    BY DEF TakeRecord, CommandAt, Machine, history
  <1>2. UnderWay(c)
    BY <1>1 DEF UnderWay, Ended
  <1>3. after \in Places /\ command[c].work \in Credentials
    BY DEF AccountInv, TrialTypeOK, States, Places
  <1>4. /\ command' \in [Commands -> States]
        /\ command'[c].pc = after /\ command'[c].work = command[c].work
        /\ \A d \in Commands \ {c} : command'[d] = command[d]
    BY <1>1, <1>3, GotoMoves DEF AccountInv
  <1>5. ProvisionInv'
    BY <1>1, <1>2, <1>4, GotoKeepsLock DEF AccountInv
  <1>6. WorkInv'
    BY <1>1, <1>4 DEF AccountInv, WorkInv, Knows, CommandAt
  <1> QED
    BY <1>1, <1>4, <1>5, <1>6 DEF AccountInv, TrialTypeOK, StoreInv, OneAccount

\* A command ends and changes nothing else.
LEMMA EndKeeps ==
  ASSUME AccountInv, NEW c \in Commands, NEW r \in Ended, End(c, r),
         UNCHANGED <<store, machine, asked, reported, overtaken>>
  PROVE  AccountInv'
  <1>1. TrialTypeOK /\ ProvisionInv /\ WorkInv
    BY DEF AccountInv
  <1>2. ProvisionInv' /\ command' \in [Commands -> States]
    BY <1>1, EndKeepsLock
  <1>3. WorkInv'
    BY <1>1, EndKeepsWork
  <1> QED
    BY <1>2, <1>3 DEF AccountInv, TrialTypeOK, StoreInv, OneAccount

LEMMA FaultKeeps ==
  ASSUME AccountInv, NEW c \in Commands, Fault(c),
         UNCHANGED <<store, machine, asked, reported, overtaken>>
  PROVE  AccountInv'
  BY EndKeeps DEF Fault, Ended

\* What a stored record of a setup under way is judged to be.
LEMMA JudgeKeeps ==
  ASSUME AccountInv, NEW c \in Commands, UnderWay(c), store # Absent,
         Judge(c, store), UNCHANGED <<store, machine, asked, overtaken>>
  PROVE  AccountInv'
  <1>1. CASE store.state = "ready"
    <2>1. End(c, "ready") /\ reported' = reported \cup {store.mark}
      BY <1>1 DEF Judge
    <2>2. /\ ProvisionInv' /\ WorkInv'
          /\ command' \in [Commands -> States]
      BY <2>1, EndKeepsLock, EndKeepsWork DEF AccountInv, Ended
    <2> QED
      BY <1>1, <2>1, <2>2, TrialAssumption DEF AccountInv, TrialTypeOK, StoreInv, OneAccount, Absent
  <1>2. CASE store.state # "ready"
    <2>1. /\ CommandGoes(c, "request", store) /\ UNCHANGED <<provisionLock, reported>>
      BY <1>2 DEF Judge
    <2>2. "request" \in Places
      BY DEF Places
    <2>3. /\ command' \in [Commands -> States]
          /\ command'[c].pc = "request" /\ command'[c].work = store
          /\ \A d \in Commands \ {c} : command'[d] = command[d]
      BY <2>1, <2>2, GotoMoves DEF AccountInv, TrialTypeOK
    <2>4. ProvisionInv'
      BY <2>1, <2>3, GotoKeepsLock DEF AccountInv
    <2>5. WorkInv'
      BY <1>2, <2>1, <2>3, OthersRest DEF AccountInv, StoreInv, WorkInv, Knows, CommandAt, UnderWay, Ended
    <2> QED
      BY <2>1, <2>3, <2>4, <2>5 DEF AccountInv, TrialTypeOK, StoreInv, OneAccount
  <1> QED
    BY <1>1, <1>2
-----------------------------------------------------------------------------
(* The steps of a setup.                                                     *)

\* A step that keeps the lock and goes on: only what its command knows is left to check.
LEMMA MoveKeeps ==
  ASSUME AccountInv, NEW c \in Commands, UnderWay(c), NEW place, NEW r,
         command' \in [Commands -> States], command'[c].pc = place, command'[c].work = r,
         \A d \in Commands \ {c} : command'[d] = command[d],
         UNCHANGED <<machine, provisionLock, overtaken>>,
         StoreInv', OneAccount', store' \in Credentials, Knows(store', place, r)
  PROVE  AccountInv'
  <1>1. TrialTypeOK'
    BY DEF AccountInv, TrialTypeOK
  <1>2. ProvisionInv'
    BY GotoKeepsLock DEF AccountInv, TrialTypeOK
  <1>3. WorkInv'
    BY OthersRest DEF AccountInv, TrialTypeOK, WorkInv, Knows, CommandAt, UnderWay, Ended
  <1> QED
    BY <1>1, <1>2, <1>3 DEF AccountInv

LEMMA GotoKeeps ==
  ASSUME AccountInv, NEW c \in Commands, UnderWay(c),
         NEW place \in Places, NEW r \in Credentials, CommandGoes(c, place, r),
         UNCHANGED <<machine, provisionLock, overtaken>>,
         StoreInv', OneAccount', store' \in Credentials, Knows(store', place, r)
  PROVE  AccountInv'
  <1>1. /\ command' \in [Commands -> States]
        /\ command'[c].pc = place /\ command'[c].work = r
        /\ \A d \in Commands \ {c} : command'[d] = command[d]
    BY GotoMoves DEF AccountInv
  <1> QED
    BY <1>1, MoveKeeps

\* As GotoKeeps, for a step that leaves the store alone.
LEMMA GoOnKeeps ==
  ASSUME AccountInv, NEW c \in Commands, UnderWay(c),
         NEW place \in Places, NEW r \in Credentials, CommandGoes(c, place, r),
         UNCHANGED <<store, machine, provisionLock, asked, reported, overtaken>>,
         Knows(store, place, r)
  PROVE  AccountInv'
  <1>1. StoreInv' /\ OneAccount' /\ store' \in Credentials /\ Knows(store', place, r)
    BY DEF AccountInv, TrialTypeOK, StoreInv, OneAccount, Knows
  <1> QED
    BY <1>1, GotoKeeps

LEMMA LoadKeeps ==
  ASSUME AccountInv, NEW c \in Commands, LoadRecord(c)
  PROVE  AccountInv'
  <1>1. UnderWay(c) /\ UNCHANGED <<store, machine, asked, overtaken>>
    BY DEF LoadRecord, CommandAt, UnderWay, Ended, Machine
  <1>2. CASE store # Absent /\ Judge(c, store)
    BY <1>1, <1>2, JudgeKeeps
  <1>3. CASE store = Absent /\ UNCHANGED reported /\ CommandGoes(c, "create", Seed(machine)) /\ KeepLocks
    <2>1. Seed(machine) \in Credentials /\ "create" \in Places /\ Knows(store, "create", Seed(machine))
      BY <1>3 DEF AccountInv, TrialTypeOK, Seed, Credentials, Places, Knows
    <2> QED
      BY <1>1, <1>3, <2>1, GoOnKeeps DEF KeepLocks
  <1>4. CASE End(c, "failed") /\ UNCHANGED reported
    BY <1>1, <1>4, EndKeeps DEF Ended
  <1>5. CASE Fault(c) /\ UNCHANGED reported
    BY <1>1, <1>5, FaultKeeps
  <1> QED
    BY <1>2, <1>3, <1>4, <1>5 DEF LoadRecord

LEMMA CreateKeeps ==
  ASSUME AccountInv, NEW c \in Commands, CreateIfAbsent(c)
  PROVE  AccountInv'
  <1>1. /\ UnderWay(c) /\ command[c].pc = "creating"
        /\ UNCHANGED <<store, machine, asked, overtaken>>
    BY DEF CreateIfAbsent, CommandAt, UnderWay, Ended, Machine
  <1>2. CASE store # Absent /\ Judge(c, store)
    BY <1>1, <1>2, JudgeKeeps
  <1>3. CASE store = Absent /\ CommandGoes(c, "save", command[c].work) /\ KeepLocks /\ UNCHANGED reported
    <2>1. command[c].work \in Credentials /\ "save" \in Places
      BY DEF AccountInv, TrialTypeOK, States, Places
    <2>2. Knows(store, "save", command[c].work)
      BY <1>1, <1>3 DEF AccountInv, WorkInv, Knows
    <2> QED
      BY <1>1, <1>3, <2>1, <2>2, GoOnKeeps DEF KeepLocks
  <1>4. CASE Fault(c) /\ UNCHANGED reported
    BY <1>1, <1>4, FaultKeeps
  <1> QED
    BY <1>2, <1>3, <1>4 DEF CreateIfAbsent

\* The store is as it was, or holds the record that is saved.
LEMMA StoredKeeps ==
  ASSUME AccountInv, NEW c \in Commands, CommandAt(c, "save"),
         store' \in {store, command[c].work}, UNCHANGED <<asked, reported>>
  PROVE  /\ StoreInv' /\ OneAccount' /\ store' \in Credentials
         /\ command[c].work \in Credentials /\ Knows(store', "verify", command[c].work)
  <1>1. command[c].work \in Credentials /\ store \in Credentials
    BY DEF AccountInv, TrialTypeOK, States
  <1>2. /\ command[c].work.mark \in Marks
        /\ \/ command[c].work.state = "provisioning" /\ store = Absent
           \/ command[c].work.state = "ready" /\ store.state = "provisioning"
              /\ store.mark = command[c].work.mark
    BY DEF AccountInv, WorkInv, Knows, CommandAt
  <1>3. StoreInv'
    BY <1>2 DEF AccountInv, StoreInv
  <1>4. OneAccount'
    BY <1>2, TrialAssumption DEF AccountInv, OneAccount, Absent
  <1> QED
    BY <1>1, <1>2, <1>3, <1>4 DEF Knows

LEMMA SaveKeeps ==
  ASSUME AccountInv, NEW c \in Commands, Save(c)
  PROVE  AccountInv'
  <1>1. /\ UnderWay(c) /\ CommandAt(c, "save") /\ store' \in {store, command[c].work}
        /\ UNCHANGED <<machine, asked, reported, overtaken>>
    BY DEF Save, CommandAt, UnderWay, Ended, Machine, history
  <1>2. /\ StoreInv' /\ OneAccount' /\ store' \in Credentials
        /\ command[c].work \in Credentials /\ Knows(store', "verify", command[c].work)
    BY <1>1, StoredKeeps
  <1>3. CASE CommandGoes(c, "verify", command[c].work) /\ KeepLocks
    <2>1. "verify" \in Places /\ UNCHANGED provisionLock
      BY <1>3 DEF Places, KeepLocks
    <2> QED
      BY <1>1, <1>2, <1>3, <2>1, GotoKeeps
  <1>4. CASE End(c, "failed")
    <2>1. ProvisionInv' /\ WorkInv' /\ command' \in [Commands -> States]
      BY <1>1, <1>4, EndKeepsLock, EndKeepsWork DEF AccountInv, Ended
    <2> QED
      BY <1>1, <1>2, <2>1 DEF AccountInv, TrialTypeOK
  <1> QED
    BY <1>3, <1>4 DEF Save

LEMMA VerifyKeeps ==
  ASSUME AccountInv, NEW c \in Commands, Verify(c)
  PROVE  AccountInv'
  <1>1. UnderWay(c) /\ CommandAt(c, "verify") /\ UNCHANGED <<store, machine, asked, overtaken>>
    BY DEF Verify, CommandAt, UnderWay, Ended, Machine
  <1>2. CASE store = command[c].work /\ Judge(c, store)
    <2>1. store # Absent
      BY <1>1, <1>2 DEF AccountInv, WorkInv, Knows, CommandAt, Absent
    <2> QED
      BY <1>1, <1>2, <2>1, JudgeKeeps
  <1>3. CASE End(c, "failed") /\ UNCHANGED reported
    BY <1>1, <1>3, EndKeeps DEF Ended
  <1>4. CASE Fault(c) /\ UNCHANGED reported
    BY <1>1, <1>4, FaultKeeps
  <1> QED
    BY <1>2, <1>3, <1>4 DEF Verify

\* The mark that is asked for is the stored one.
LEMMA RequestKeeps ==
  ASSUME AccountInv, NEW c \in Commands, Request(c)
  PROVE  AccountInv'
  <1>1. /\ UnderWay(c) /\ CommandGoes(c, "asked", command[c].work)
        /\ UNCHANGED <<store, machine, provisionLock, reported, overtaken>>
        /\ asked' = asked \cup {command[c].work.mark}
    BY DEF Request, CommandAt, UnderWay, Ended, Machine, KeepLocks
  <1>2. store = command[c].work /\ Knows(store, "asked", command[c].work)
    BY DEF Request, CommandAt, AccountInv, WorkInv, Knows
  <1>3. "asked" \in Places /\ command[c].work \in Credentials
    BY DEF AccountInv, TrialTypeOK, States, Places
  <1>4. OneAccount'
    BY <1>1, <1>2, TrialAssumption DEF AccountInv, OneAccount, Knows
  <1>5. StoreInv' /\ store' \in Credentials /\ Knows(store', "asked", command[c].work)
    BY <1>1, <1>2 DEF AccountInv, TrialTypeOK, StoreInv
  <1> QED
    BY <1>1, <1>3, <1>4, <1>5, GotoKeeps

LEMMA AnswerKeeps ==
  ASSUME AccountInv, NEW c \in Commands, Answer(c)
  PROVE  AccountInv'
  <1>1. /\ UnderWay(c) /\ UNCHANGED <<store, machine, asked, reported, overtaken>>
    BY DEF Answer, CommandAt, UnderWay, Ended, Machine, history
  <1>2. Knows(store, "complete", command[c].work) /\ Knows(store, "request", command[c].work)
    BY DEF Answer, CommandAt, AccountInv, WorkInv, Knows
  <1>3. "complete" \in Places /\ "request" \in Places /\ command[c].work \in Credentials
    BY DEF AccountInv, TrialTypeOK, States, Places
  <1>4. CASE CommandGoes(c, "complete", command[c].work) /\ KeepLocks
    BY <1>1, <1>2, <1>3, <1>4, GoOnKeeps DEF KeepLocks
  <1>5. CASE KeepLocks /\ command' = [command EXCEPT ![c].pc = "request", ![c].tries = @ + 1]
    <2>1. command[c] \in States /\ command[c].tries + 1 \in Nat
      BY DEF AccountInv, TrialTypeOK, States
    <2>2. command'[c] = [[command[c] EXCEPT !.pc = "request"]
                           EXCEPT !.tries = command[c].tries + 1]
      BY <1>5 DEF AccountInv, TrialTypeOK
    <2>3. command'[c] \in States /\ command'[c].pc = "request" /\ command'[c].work = command[c].work
      <3> DEFINE n == command[c].tries + 1
      <3> HIDE DEF n
      <3>1. n \in Nat
        BY <2>1 DEF n
      <3>2. command'[c] = [[command[c] EXCEPT !.pc = "request"] EXCEPT !.tries = n]
        BY <2>2 DEF n
      <3> QED
        BY <2>1, <3>1, <3>2, <1>3 DEF States
    <2>4. /\ command' \in [Commands -> States]
          /\ \A d \in Commands \ {c} : command'[d] = command[d]
      BY <1>5, <2>3 DEF AccountInv, TrialTypeOK
    <2>5. /\ StoreInv' /\ OneAccount' /\ store' \in Credentials
          /\ Knows(store', "request", command[c].work)
      BY <1>1, <1>2 DEF AccountInv, TrialTypeOK, StoreInv, OneAccount
    <2> QED
      BY <1>1, <1>5, <2>3, <2>4, <2>5, MoveKeeps DEF KeepLocks
  <1>6. CASE End(c, "failed")
    BY <1>1, <1>6, EndKeeps DEF Ended
  <1> QED
    BY <1>4, <1>5, <1>6 DEF Answer

LEMMA CompareKeeps ==
  ASSUME AccountInv, NEW c \in Commands, CompareRecord(c)
  PROVE  AccountInv'
  <1>1. /\ UnderWay(c) /\ UNCHANGED <<store, machine, asked, reported, overtaken>>
    BY DEF CompareRecord, CommandAt, UnderWay, Ended, Machine, history
  <1>2. CASE store = command[c].work /\ CommandGoes(c, "save", Ready(store)) /\ KeepLocks
    <2>1. store \in Credentials /\ store.state = "provisioning" /\ store.mark \in Marks
      BY <1>2 DEF CompareRecord, CommandAt, AccountInv, TrialTypeOK, WorkInv, Knows
    <2>2. Ready(store) \in Credentials /\ Ready(store).state = "ready" /\ Ready(store).mark = store.mark
      BY <2>1 DEF Ready, Credentials
    <2>3. "save" \in Places /\ Knows(store, "save", Ready(store))
      BY <2>1, <2>2 DEF Places, Knows
    <2> QED
      BY <1>1, <1>2, <2>2, <2>3, GoOnKeeps DEF KeepLocks
  <1>3. CASE End(c, "failed")
    BY <1>1, <1>3, EndKeeps DEF Ended
  <1>4. CASE Fault(c)
    BY <1>1, <1>4, FaultKeeps
  <1> QED
    BY <1>2, <1>3, <1>4 DEF CompareRecord

-----------------------------------------------------------------------------
(* The steps of a deletion.                                                  *)

LEMMA DeleteKeeps ==
  ASSUME AccountInv, NEW d \in Commands, Delete(d)
  PROVE  AccountInv'
  <1>1. /\ UnderWay(d) /\ store' \in {store, Absent} /\ UNCHANGED <<machine, overtaken>>
        /\ IF store' = Absent THEN asked' = {} /\ reported' = {} ELSE UNCHANGED <<asked, reported>>
    BY DEF Delete, CommandAt, UnderWay, Ended, Machine
  <1>2. StoreInv' /\ OneAccount' /\ store' \in Credentials /\ Absent \in Credentials
    BY <1>1 DEF AccountInv, TrialTypeOK, StoreInv, OneAccount, Credentials, Absent
  <1>3. CASE CommandGoes(d, "verifyGone", Absent) /\ KeepLocks
    <2>1. "verifyGone" \in Places /\ Knows(store', "verifyGone", Absent)
      BY DEF Places, Knows
    <2> QED
      BY <1>1, <1>2, <1>3, <2>1, GotoKeeps DEF KeepLocks
  <1>4. CASE End(d, "failed")
    <2>1. ProvisionInv' /\ WorkInv' /\ command' \in [Commands -> States]
      BY <1>1, <1>4, EndKeepsLock, EndKeepsWork DEF AccountInv, Ended
    <2> QED
      BY <1>1, <1>2, <2>1 DEF AccountInv, TrialTypeOK
  <1> QED
    BY <1>3, <1>4 DEF Delete

\* No setup is under way while a deletion has the lock, so none is overtaken.
LEMMA VerifyGoneKeeps ==
  ASSUME AccountInv, NEW d \in Clears, VerifyGone(d)
  PROVE  AccountInv'
  <1>1. /\ d \in Commands /\ UnderWay(d) /\ UNCHANGED <<store, machine, asked, reported>>
    BY DEF VerifyGone, CommandAt, UnderWay, Ended, Machine, Commands
  <1>2. UNCHANGED overtaken
    <2>1. {s \in Setups : UnderWay(s)} = {}
      BY <1>1, OthersRest, TrialAssumption DEF AccountInv, Commands
    <2> QED
      BY <2>1 DEF VerifyGone
  <1>3. CASE End(d, "deleted")
    BY <1>1, <1>2, <1>3, EndKeeps DEF Ended
  <1>4. CASE End(d, "failed")
    BY <1>1, <1>2, <1>4, EndKeeps DEF Ended
  <1>5. CASE Fault(d)
    BY <1>1, <1>2, <1>5, FaultKeeps
  <1> QED
    BY <1>3, <1>4, <1>5 DEF VerifyGone

-----------------------------------------------------------------------------
(* The theorems.                                                             *)

LEMMA TrialSteps == ASSUME AccountInv, TrialNext PROVE AccountInv'
  <1>1. ASSUME NEW s \in Setups, SetupStep(s) PROVE AccountInv'
    <2>1. s \in Commands
      BY DEF Commands
    <2>2. CASE CommandBegins(s, "load")
      BY <2>1, <2>2, BeginKeeps
    <2>3. CASE TakeRecord(s, "create", "creating") \/ TakeRecord(s, "complete", "completing")
      BY <2>1, <2>3, TakeRecordKeeps
    <2>4. CASE LoadRecord(s) \/ CreateIfAbsent(s)
      BY <2>1, <2>4, LoadKeeps, CreateKeeps
    <2>5. CASE Save(s) \/ Verify(s)
      BY <2>1, <2>5, SaveKeeps, VerifyKeeps
    <2>6. CASE Request(s) \/ Answer(s) \/ CompareRecord(s)
      BY <2>1, <2>6, RequestKeeps, AnswerKeeps, CompareKeeps
    <2> QED
      BY <1>1, <2>2, <2>3, <2>4, <2>5, <2>6 DEF SetupStep
  <1>2. ASSUME NEW d \in Clears, ClearStep(d) PROVE AccountInv'
    <2>1. d \in Commands
      BY DEF Commands
    <2>2. CASE BeginClear(d)
      BY <2>1, <2>2, BeginKeeps DEF BeginClear
    <2>3. CASE TakeRecord(d, "clear", "clearing")
      BY <2>1, <2>3, TakeRecordKeeps
    <2>4. CASE Delete(d) \/ VerifyGone(d)
      BY <2>1, <2>4, DeleteKeeps, VerifyGoneKeeps
    <2> QED
      BY <1>2, <2>2, <2>3, <2>4 DEF ClearStep
  <1>3. ASSUME NEW c \in Commands, LockTimeout(c) \/ Kill(c) PROVE AccountInv'
    BY <1>3, EndKeeps DEF LockTimeout, Kill, Ended, Machine, history
  <1>4. CASE ChangeMachine
    BY <1>4 DEF ChangeMachine, history, AccountInv, TrialTypeOK, ProvisionInv, UnderWay, StoreInv, WorkInv,
                OneAccount
  <1> QED
    BY <1>1, <1>2, <1>3, <1>4 DEF TrialNext

LEMMA TrialStutters == ASSUME AccountInv, UNCHANGED trialVars PROVE AccountInv'
  BY DEF AccountInv, trialVars, TrialTypeOK, ProvisionInv, UnderWay, StoreInv, WorkInv, OneAccount

\* The invariant: one command at a time is under way, and what it knows of the store
\* (trial-credential-store.mjs) holds until it acts on it.
THEOREM AccountInvariant == TrialSpec => []AccountInv
  <1>1. TrialInit => AccountInv
    BY AccountInit
  <1>2. AccountInv /\ [TrialNext]_trialVars => AccountInv'
    BY TrialSteps, TrialStutters
  <1> QED
    BY <1>1, <1>2, PTL DEF TrialSpec

\* However many setups fail, die and race, and however often the machine changes, the
\* service is asked for one mark until the record is deleted, the stored one
\* (trial-provision-flow.mjs).
THEOREM OneAccountOnly == TrialSpec => []OneAccount
  <1>1. AccountInv => OneAccount
    BY DEF AccountInv
  <1> QED
    BY <1>1, AccountInvariant, PTL

\* After a deletion was reported only a setup that began later stores a record
\* (clearTrialCredentialRecord takes the lock of the provisioning first).
THEOREM DeletionLasts == TrialSpec => DeletedStaysDeleted
  <1> DEFINE Brought == store = Absent /\ store' # Absent =>
                          \E s \in Setups \ overtaken : CommandAt(s, "save") /\ store' = command[s].work
  <1>1. AccountInv /\ [TrialNext]_trialVars => Brought
    <2> SUFFICES ASSUME AccountInv, [TrialNext]_trialVars, store' # store, store = Absent PROVE Brought
      OBVIOUS
    <2>1. ASSUME NEW s \in Setups, SetupStep(s) PROVE Save(s)
      BY <2>1 DEF SetupStep, CommandBegins, LoadRecord, TakeRecord, CreateIfAbsent, Verify, Request,
                  Answer, CompareRecord
    <2>2. ASSUME NEW s \in Setups, Save(s) PROVE Brought
      BY <2>2 DEF Save, AccountInv
    <2>3. ASSUME NEW d \in Clears, ClearStep(d) PROVE Brought
      BY <2>3 DEF ClearStep, BeginClear, CommandBegins, TakeRecord, Delete, VerifyGone
    <2>4. ASSUME NEW c \in Commands, LockTimeout(c) \/ Kill(c) PROVE Brought
      BY <2>4 DEF LockTimeout, Kill
    <2> QED
      BY <2>1, <2>2, <2>3, <2>4 DEF TrialNext, ChangeMachine, trialVars
  <1>2. AccountInv /\ [TrialNext]_trialVars => [Brought]_trialVars
    BY <1>1
  <1> QED
    BY <1>2, AccountInvariant, PTL DEF TrialSpec, DeletedStaysDeleted

-----------------------------------------------------------------------------
(* The lock.                                                                  *)

USE DEF Live, At, Goto

LEMMA InitType == ASSUME Init PROVE TypeOK
  BY CallsAssumption DEF Init, TypeOK, Steps

LEMMA NextType == ASSUME TypeOK, [Next]_vars PROVE TypeOK'
<1> USE CallsAssumption DEF TypeOK, Steps, ReapSteps, Acquired, Endings
<1>1. CASE UNCHANGED vars
  BY <1>1 DEF vars
<1>2. ASSUME NEW c \in Calls, CallStep(c) PROVE TypeOK'
  <2>1. CASE Begin(c)  BY <2>1 DEF Begin
  <2>2. CASE TryAcquire(c)
    <3>1. CASE StatDescriptor(c)
      <4>1. OneLink(desc[c]) \in BOOLEAN  BY DEF OneLink
      <4> QED  BY <3>1, <4>1 DEF StatDescriptor
    <3>2. CASE LostPath(c) \/ ClaimPending(c) \/ Acquire(c)
      BY <3>2 DEF LostPath, ClaimPending, Acquire
    <3> QED
      BY <2>2, <3>1, <3>2
      DEF TryAcquire, CreateLock, OpenDenied, LockExists, WriteOwner, WriteFails
  <2>3. CASE RemoveStale(c)
    <3>1. CASE SweepFails(c)
      BY <3>1 DEF SweepFails, Sweep, Abandon, DropSnapshot
    <3>2. CASE ClaimStays(c)
      BY <3>2 DEF ClaimStays, Abandon, DropSnapshot
    <3> QED
      BY <2>3, <3>1, <3>2
      DEF RemoveStale, ReadSnapshot, SnapshotMissing, JudgeStale, JudgeKept, SweepClaims,
          Sweep, LinkClaim, LinkFails, StatClaim, ReadClaim, StatPath, UnlinkStale,
          UnlinkDenied, DropClaim, CheckClaim, DropSnapshot, Retry
  <2>4. CASE RetryAfterWait(c) \/ GiveUp(c)
    BY <2>4 DEF RetryAfterWait, GiveUp, Abandon, DropSnapshot, Retry
  <2>5. CASE Release(c)
    BY <2>5 DEF Release, Finish, ReadOwner, UnlinkOwn, ReleaseFails
  <2> QED  BY <1>2, <2>1, <2>2, <2>3, <2>4, <2>5 DEF CallStep
<1>3. ASSUME NEW p \in Processes, Spawn(p) \/ Crash(p) PROVE TypeOK'
  BY <1>3 DEF Spawn, Crash
<1> QED  BY <1>1, <1>2, <1>3 DEF Next

-----------------------------------------------------------------------------
(* The steps of the path, its files and the claims on them, one case each.  *)
(* Every other step leaves proc, lockPath, content, desc and claim alone    *)
(* and enters none of the steps LockInv speaks of.                          *)

LEMMA NextInv == ASSUME LockInv, [Next]_vars PROVE LockInv'
<1> USE CallsAssumption
<1> DEFINE Parts == /\ OnlyLiveRun /\ OwnersBorn /\ DescriptorsOwned
                    /\ HolderKeepsPath /\ ReapersJudged /\ ClaimKeepsOwnersOut
                    /\ ElectedAtPath /\ ReaperElected
<1>0. TypeOK /\ TypeOK' /\ Parts
  BY NextType DEF LockInv
<1> SUFFICES Parts'  BY <1>0 DEF LockInv
<1> USE DEF OnlyLiveRun, OwnersBorn, DescriptorsOwned, HolderKeepsPath,
            ReapersJudged, ClaimKeepsOwnersOut, ElectedAtPath, ReaperElected,
            InCriticalSection, ReapSteps, Acquired, Endings, TypeOK, Steps
<1>1. CASE UNCHANGED vars
  BY <1>0, <1>1 DEF vars
<1>2. ASSUME NEW c \in Calls, CallStep(c) PROVE Parts'
  <2>1. CASE Begin(c)  BY <1>0, <2>1 DEF Begin
  <2>2. CASE CreateLock(c)  BY <1>0, <2>2 DEF CreateLock, Free
  <2>3. CASE OpenDenied(c) \/ LockExists(c)
    BY <1>0, <2>3 DEF OpenDenied, LockExists
  <2>4. CASE WriteOwner(c)  BY <1>0, <2>4 DEF WriteOwner
  <2>5. CASE WriteFails(c)  BY <1>0, <2>5 DEF WriteFails
  <2>6. CASE StatDescriptor(c)  BY <1>0, <2>6 DEF StatDescriptor
  <2>7. CASE LostPath(c)  BY <1>0, <2>7 DEF LostPath
  <2>8. CASE ClaimPending(c)  BY <1>0, <2>8 DEF ClaimPending
  <2>9. CASE Acquire(c)  BY <1>0, <2>9 DEF Acquire, OneLink, Claimants
  <2>10. CASE ReadSnapshot(c) BY <1>0, <2>10 DEF ReadSnapshot
  <2>11. CASE SnapshotMissing(c) \/ JudgeKept(c) \/ LinkFails(c)
    <3>1. /\ DropSnapshot(c)
          /\ pc[c] \in {"snapRead", "snapStat", "link"} /\ Live(c)
          /\ Goto(c, "wait")
          /\ UNCHANGED <<proc, lockPath, content, desc, claim>>
      BY <2>11 DEF SnapshotMissing, JudgeKept, LinkFails
    <3> QED  BY <1>0, <3>1 DEF DropSnapshot
  <2>12. CASE JudgeStale(c)  BY <1>0, <2>12 DEF JudgeStale, CanBeStale
  <2>13. CASE SweepClaims(c)  BY <1>0, <2>13 DEF SweepClaims, Sweep, Abandoned
  <2>14. CASE LinkClaim(c)  BY <1>0, <2>14 DEF LinkClaim
  <2>15. CASE StatClaim(c)  BY <1>0, <2>15 DEF StatClaim, CheckClaim
  <2>16. CASE ReadClaim(c)  BY <1>0, <2>16 DEF ReadClaim, CheckClaim
  <2>17. CASE StatPath(c)  BY <1>0, <2>17 DEF StatPath, CheckClaim, TwoLinks, Claimants
  <2>18. CASE UnlinkStale(c)  BY <1>0, <2>18 DEF UnlinkStale
  <2>19. CASE UnlinkDenied(c)  BY <1>0, <2>19 DEF UnlinkDenied
  <2>20. CASE DropClaim(c)  BY <1>0, <2>20 DEF DropClaim, DropSnapshot, Retry
  <2>21. CASE RetryAfterWait(c)  BY <1>0, <2>21 DEF RetryAfterWait, Retry
  <2>22. CASE GiveUp(c) \/ SweepFails(c) \/ ClaimStays(c)
    <3>1. /\ Live(c) /\ pc[c] \in GivesUpAt \cup {"sweep", "dropReaped", "dropKept"}
          /\ Abandon(c, "done") \/ Abandon(c, "left")
          /\ UNCHANGED <<proc, lockPath>>
          /\ \A d \in Calls : Live(d) => claim'[d] = claim[d]
          /\ \A d \in Calls : claim'[d] \in {claim[d], None}
      BY <1>0, <2>22 DEF GiveUp, SweepFails, ClaimStays, Sweep, Abandoned
    <3>2. \E end \in {"done", "left"} : pc' = [pc EXCEPT ![c] = end]
      BY <3>1 DEF Abandon
    <3>3. /\ desc' = [desc EXCEPT ![c] = None]
          /\ snapRaw' = [snapRaw EXCEPT ![c] = Empty]
      BY <3>1 DEF Abandon, DropSnapshot
    <3>4. /\ content' \in {content, [content EXCEPT ![desc[c]] = Empty]}
          /\ desc[c] = None => content' = content
          /\ pc[c] # "write"
      BY <3>1 DEF Abandon, GivesUpAt
    <3> HIDE DEF At, Goto
    <3>5. OnlyLiveRun' /\ OwnersBorn'  BY <1>0, <3>1, <3>2, <3>3, <3>4
    <3>6. DescriptorsOwned'  BY <1>0, <3>1, <3>2, <3>3, <3>4
    <3>7. HolderKeepsPath'  BY <1>0, <3>1, <3>2, <3>3, <3>4
    <3>8. ReapersJudged'  BY <1>0, <3>1, <3>2, <3>3, <3>4
    <3>9. ClaimKeepsOwnersOut' /\ ElectedAtPath' /\ ReaperElected'
      BY <1>0, <3>1, <3>2, <3>3, <3>4
    <3> QED  BY <3>5, <3>6, <3>7, <3>8, <3>9
  <2>23. CASE Finish(c) \/ ReadOwner(c) \/ ReleaseFails(c)
    BY <1>0, <2>23 DEF Finish, ReadOwner, ReleaseFails
  <2>24. CASE UnlinkOwn(c)  BY <1>0, <2>24 DEF UnlinkOwn
  <2> QED
    BY <1>2, <2>1, <2>2, <2>3, <2>4, <2>5, <2>6, <2>7, <2>8, <2>9, <2>10, <2>11,
       <2>12, <2>13, <2>14, <2>15, <2>16, <2>17, <2>18, <2>19, <2>20, <2>21,
       <2>22, <2>23, <2>24
    DEF CallStep, TryAcquire, RemoveStale, Release
<1>3. ASSUME NEW p \in Processes, Spawn(p) PROVE Parts'
  BY <1>0, <1>3 DEF Spawn
<1>4. ASSUME NEW p \in Processes, Crash(p) PROVE Parts'
  BY <1>0, <1>4 DEF Crash
<1> QED  BY <1>1, <1>2, <1>3, <1>4 DEF Next

LEMMA InitInv == ASSUME Init PROVE LockInv
<1>1. TypeOK  BY InitType
<1> QED
  BY <1>1, CallsAssumption
  DEF Init, LockInv, OnlyLiveRun, OwnersBorn, DescriptorsOwned, HolderKeepsPath,
      ReapersJudged, ClaimKeepsOwnersOut, ElectedAtPath, ReaperElected,
      InCriticalSection, Acquired, TypeOK

\* LockInv holds in every reachable state.
THEOREM LockInvariant == Spec => []LockInv
  BY InitInv, NextInv, PTL DEF Spec

\* The types of the lock's state.
THEOREM LockType == Spec => []TypeOK
<1>1. LockInv => TypeOK  BY DEF LockInv
<1> QED  BY <1>1, LockInvariant, PTL

\* withJsonFileLock: no two calls run their operations at the same time.
THEOREM LockExcludes == Spec => []MutualExclusion
<1>1. LockInv => MutualExclusion
  BY CallsAssumption DEF LockInv, HolderKeepsPath, MutualExclusion
<1> QED  BY <1>1, LockInvariant, PTL

\* removeStaleJsonFileLock, releaseJsonFileLock: the path of a held lock names
\* its holder's record until the holder unlinks it.
THEOREM LockPathKept == Spec => []HolderKeepsPath
<1>1. LockInv => HolderKeepsPath  BY DEF LockInv
<1> QED  BY <1>1, LockInvariant, PTL

\* removeStaleJsonFileLock: two reapers never both stand before unlinkSync.
THEOREM OneReaper == Spec => []ReaperElected
<1>1. LockInv => ReaperElected  BY DEF LockInv
<1> QED  BY <1>1, LockInvariant, PTL

-----------------------------------------------------------------------------
(* The lock implements ExclusiveUse.                                       *)

LEMMA InitPromise == ASSUME Init PROVE Promise!Init
  BY DEF Init, Promise!Init, phase, Acquired, Endings

\* Any set of calls may leave at once; only Acquire enters.
LEMMA NextPromise ==
  ASSUME LockInv, [Next]_vars PROVE [Promise!Next]_phase
<1> USE CallsAssumption DEF phase
<1>0. TypeOK  BY DEF LockInv
<1>1. CASE UNCHANGED vars
  BY <1>1 DEF vars
<1>2. ASSUME NEW c \in Calls, CallStep(c) PROVE [Promise!Next]_phase
  <2>1. CASE Acquire(c)
    <3>1. phase[c] = "before"  BY <2>1 DEF Acquire, Acquired, Endings
    <3>2. \A d \in Calls : phase[d] # "running"
      <4> SUFFICES ASSUME NEW d \in Calls, pc[d] \in Acquired PROVE FALSE
        BY DEF Acquired
      <4>1. content[lockPath] = c /\ lockPath # None
        BY <2>1 DEF Acquire, LockInv, DescriptorsOwned
      <4>2. content[lockPath] = d
        BY DEF LockInv, HolderKeepsPath, InCriticalSection
      <4> QED  BY <2>1, <4>1, <4>2 DEF Acquire, Acquired
    <3>3. phase' = [phase EXCEPT ![c] = "running"]
      BY <1>0, <2>1 DEF Acquire, Acquired, Endings, TypeOK
    <3> QED  BY <3>1, <3>2, <3>3 DEF Promise!Next, Promise!Enter
  <2>2. CASE ~Acquire(c)
    <3>1. phase' = [d \in Calls |-> IF d \in {c} /\ phase'[c] = "after"
                                    THEN "after" ELSE phase[d]]
      <4> USE <1>0 DEF TypeOK, Acquired, Steps, ReapSteps, Endings
      <4>1. CASE Begin(c)  BY <4>1 DEF Begin
      <4>2. CASE TryAcquire(c)
        BY <2>2, <4>2 DEF TryAcquire, CreateLock, OpenDenied, LockExists, WriteOwner,
                     WriteFails, StatDescriptor, LostPath, ClaimPending
      <4>3. CASE RemoveStale(c)
        BY <4>3 DEF RemoveStale, ReadSnapshot, SnapshotMissing, JudgeStale, JudgeKept,
                    SweepClaims, SweepFails, LinkClaim, LinkFails, StatClaim, ReadClaim,
                    StatPath, UnlinkStale, UnlinkDenied, DropClaim, ClaimStays, CheckClaim,
                    Abandon, Retry
      <4>4. CASE RetryAfterWait(c) \/ GiveUp(c)
        BY <4>4 DEF RetryAfterWait, GiveUp, GivesUpAt, Abandon, Retry
      <4>5. CASE Release(c)
        BY <4>5 DEF Release, Finish, ReadOwner, UnlinkOwn, ReleaseFails
      <4> QED  BY <1>2, <4>1, <4>2, <4>3, <4>4, <4>5 DEF CallStep
    <3>2. CASE phase'[c] = "after"
      <4>1. Promise!Leave({c})  BY ONLY <3>1, <3>2 DEF Promise!Leave
      <4> QED  BY <4>1 DEF Promise!Next
    <3>3. CASE phase'[c] # "after"
      BY <3>1, <3>3
    <3> QED  BY <3>2, <3>3
  <2> QED  BY <2>1, <2>2
<1>3. ASSUME NEW p \in Processes, Spawn(p) PROVE [Promise!Next]_phase
  BY <1>3 DEF Spawn
<1>4. ASSUME NEW p \in Processes, Crash(p) PROVE [Promise!Next]_phase
  <2> DEFINE gone == {c \in Calls : ProcOf[c] = p}
  <2>1. phase' = [c \in Calls |-> IF c \in gone THEN "after" ELSE phase[c]]
    BY <1>4 DEF Crash, Acquired, Endings
  <2> QED  BY <2>1 DEF Promise!Next, Promise!Leave
<1> QED  BY <1>1, <1>2, <1>3, <1>4 DEF Next

\* The lock, crashes and reapers included, implements what its callers rely on.
THEOREM LockKeepsPromise == Spec => KeepsPromise
  BY InitPromise, NextPromise, LockInvariant, PTL
  DEF Spec, KeepsPromise, Promise!Spec
=============================================================================
