--------------------------- MODULE BackendService ---------------------------
(***************************************************************************)
(* Starting and stopping the managed Backend (lifecycle/backend).          *)
(*                                                                         *)
(* A command process holds the lifecycle lock, so one call runs at a time   *)
(* (ExclusiveUse); between two awaits its event loop runs one turn, which   *)
(* is one step here.  Processes come and go around it: the Backend listens, *)
(* hangs, exits; its PID may be given to another program; another program   *)
(* may hold its port; the command itself may be killed at any await.        *)
(***************************************************************************)
EXTENDS Integers

CONSTANTS
  Pids,        \* the process ids the operating system hands out, reused
  Instances,   \* the random instance ids; each is used for one Backend
  Nil

Target == [pid : Pids, id : Instances]

ASSUME ServiceAssumption == Nil \notin Instances \cup Pids \cup Target

VARIABLES
  windows,    \* the platform; never changes
  process,    \* what runs under each PID
  port,       \* the PID that listens on the configured port, or Nil
  record,     \* backend.pid.json: [pid, id], or Nil
  request,    \* backend.shutdown.json: [pid, id], or Nil (Windows)
  command,    \* the call in progress
  used,       \* instance ids spawned so far
  \* History, read by the properties only:
  served,     \* instances that have listened
  signals,    \* <<instance meant, instance hit>> of each termination sent
  abandoned   \* instances a killed or failed start left without a record

world   == <<process, port, served>>
history == <<signals, abandoned>>
vars == <<windows, process, port, record, request, command, used,
          served, signals, abandoned>>

Nobody   == [kind |-> "none", id |-> Nil, phase |-> "none"]
Stranger == [kind |-> "other", id |-> Nil, phase |-> "none"]
Backend(i, phase) == [kind |-> "backend", id |-> i, phase |-> phase]
\* An exited child whose parent has not reaped it: its PID is not reusable.
Zombie(i) == [kind |-> "zombie", id |-> i, phase |-> "none"]

Is(i, p)   == process[p].kind = "backend" /\ process[p].id = i

\* kill(pid, 0) also succeeds for a zombie; a Windows handle to one does not.
isProcessAlive(p) ==
  \/ process[p].kind \in {"backend", "other"}
  \/ process[p].kind = "zombie" /\ ~windows

\* A call under way, and one that returned (or was killed).
Doing(pc, target, exited, health) ==
  [pc |-> pc, target |-> target, exited |-> exited, health |-> health,
   result |-> "none"]
Begun(pc, target) == Doing(pc, target, FALSE, "none")
Returned(target, result) ==
  [pc |-> "idle", target |-> target, exited |-> FALSE, health |-> "none",
   result |-> result]
Idle == Returned(Nil, "none")

Pcs == {"idle", "asked", "stopHealth", "stopProbe", "stopping", "startHealth",
        "startProbe", "spawned", "waiting", "answered", "failing", "failingBare"}

Kinds  == {"none", "other", "zombie", "backend"}
Phases == {"none", "starting", "serving", "hung", "closing"}
Command == [pc : Pcs, target : Target \cup {Nil}, exited : BOOLEAN,
            health : {"none", "matched", "conflicting", "inconclusive"},
            result : {"none", "started", "stopped", "failed"}]

TypeOK ==
  /\ windows \in BOOLEAN
  /\ process \in [Pids -> [kind : Kinds, id : Instances \cup {Nil}, phase : Phases]]
  /\ port \in Pids \cup {Nil}
  /\ record \in Target \cup {Nil}
  /\ request \in Target \cup {Nil}
  /\ command \in Command
  /\ used \subseteq Instances /\ served \subseteq used /\ abandoned \subseteq used
  /\ signals \subseteq Instances \X (Instances \cup {Nil})

Init ==
  /\ windows \in BOOLEAN
  /\ process = [p \in Pids |-> Nobody]
  /\ port = Nil /\ record = Nil /\ request = Nil
  /\ command = Idle
  /\ used = {} /\ served = {} /\ signals = {} /\ abandoned = {}

-----------------------------------------------------------------------------
(* The processes around a command.                                         *)

\* A child of the command in progress stays a zombie until it is reaped.
Gone(p) ==
  IF command.pc \in {"spawned", "waiting", "answered", "failing", "failingBare"}
     /\ process[p].kind = "backend" /\ command.target.id = process[p].id
  THEN Zombie(process[p].id)
  ELSE Nobody

ExitOf(p) ==
  /\ process' = [process EXCEPT ![p] = Gone(p)]
  /\ port' = IF port = p THEN Nil ELSE port

\* The operating system gives a free PID to another program, which may take
\* the Backend's port, and ends.
StrangerStarts(p) ==
  /\ process[p] = Nobody
  /\ process' = [process EXCEPT ![p] = Stranger]
  /\ port' \in {port} \cup (IF port = Nil THEN {p} ELSE {})
  /\ UNCHANGED <<windows, record, request, command, used, served, history>>

StrangerEnds(p) ==
  /\ process[p] = Stranger
  /\ ExitOf(p)
  /\ UNCHANGED <<windows, record, request, command, used, served, history>>

\* server.listen: the port is free, or EADDRINUSE ends the process.
Listen(p) ==
  /\ process[p].kind = "backend" /\ process[p].phase = "starting"
  /\ IF port = Nil
     THEN /\ process' = [process EXCEPT ![p] = Backend(process[p].id, "serving")]
          /\ port' = p
          /\ served' = served \cup {process[p].id}
     ELSE ExitOf(p) /\ UNCHANGED served
  /\ UNCHANGED <<windows, record, request, command, used, history>>

Hang(p) ==
  /\ process[p].kind = "backend" /\ process[p].phase \in {"starting", "serving"}
  /\ process' = [process EXCEPT ![p] = Backend(process[p].id, "hung")]
  /\ UNCHANGED <<windows, port, record, request, command, used, served, history>>

\* The end of a shutdown, an uninstalled package or a failure; on Windows an
\* orderly end closes the watcher, which removes whatever request there is.
BackendExits(p) ==
  /\ process[p].kind = "backend"
  /\ ExitOf(p)
  /\ request' \in {request} \cup (IF windows THEN {Nil} ELSE {})
  /\ UNCHANGED <<windows, record, command, used, served, history>>

\* The Windows watcher takes any request it sees and obeys its own.
TakeRequest(p) ==
  /\ windows /\ request # Nil
  /\ process[p].kind = "backend" /\ process[p].phase \in {"starting", "serving"}
  /\ request' = Nil
  /\ process' = IF request = [pid |-> p, id |-> process[p].id]
                THEN [process EXCEPT ![p] = Backend(process[p].id, "closing")]
                ELSE process
  /\ signals' = IF process' = process THEN signals
                ELSE signals \cup {<<request.id, process[p].id>>}
  /\ UNCHANGED <<windows, port, record, command, used, served, abandoned>>

\* The event loop of the command reaps its exited child; none of its turns
\* passes between the spawn and the record (the "spawn" event is a next tick).
Reap ==
  /\ command.pc \in {"waiting", "answered", "failing", "failingBare"}
  /\ \E p \in Pids :
       /\ process[p] = Zombie(command.target.id)
       /\ process' = [process EXCEPT ![p] = Nobody]
  /\ command' = Doing(command.pc, command.target, TRUE, command.health)
  /\ UNCHANGED <<windows, port, record, request, used, served, history>>

\* A zombie whose parent is no more is reaped by init.
InitReaps(p) ==
  /\ process[p].kind = "zombie"
  /\ command.pc = "idle" \/ command.target # [pid |-> p, id |-> process[p].id]
  /\ process' = [process EXCEPT ![p] = Nobody]
  /\ UNCHANGED <<windows, port, record, request, command, used, served, history>>

-----------------------------------------------------------------------------
(* What a command does in one turn of its event loop.                      *)

At(pc) == command.pc = pc

Goto(pc) ==
  command' = Doing(pc, command.target, command.exited, command.health)

\* The call returns; the exit of its process leaves a zombie to init.
End(result) == command' = Returned(command.target, result)

\* removeBackendServiceStateIfOwnedAtPath: only the record of that instance;
\* a failed link, read or unlink keeps it.
ClearRecord(target, ok) ==
  \/ record = target /\ ok /\ record' = Nil
  \/ record = target /\ ~ok /\ UNCHANGED record
  \/ record # target /\ (ok <=> record = Nil) /\ UNCHANGED record

\* SIGTERM: a serving Backend begins to close, one without handlers ends, a
\* hung one does not notice.  taskkill /F ends the process.
Strike(p, after) ==
  LET q == process[p] IN
  \/ q.kind # "backend" /\ after = q
  \/ q.kind = "other" /\ after = Gone(p)
  \/ q.kind = "backend" /\ windows /\ after = Gone(p)
  \/ q.kind = "backend" /\ ~windows /\ q.phase = "hung" /\ after = q
  \/ q.kind = "backend" /\ ~windows /\ q.phase # "hung"
       /\ after = Backend(q.id, "closing")
  \/ q.kind = "backend" /\ ~windows /\ q.phase \in {"starting", "closing"}
       /\ after = Gone(p)

\* terminateProcessTree: sent = FALSE when the signal or taskkill failed.
Terminate(target, sent) ==
  IF sent /\ isProcessAlive(target.pid)
  THEN /\ \E s \in {process[target.pid], Gone(target.pid),
                  Backend(process[target.pid].id, "closing")} :
            /\ Strike(target.pid, s)
            /\ process' = [process EXCEPT ![target.pid] = s]
            /\ port' = IF s.kind \in {"none", "zombie"} /\ port = target.pid
                       THEN Nil ELSE port
       /\ signals' = IF process[target.pid].kind = "zombie" THEN signals
                     ELSE signals \cup {<<target.id, process[target.pid].id>>}
  ELSE /\ sent \/ isProcessAlive(target.pid)
       /\ UNCHANGED <<process, port, signals>>

\* The answer of whoever listens; a process that hangs, or a failed or late
\* answer, is inconclusive.
HealthAnswers(i) ==
  {"inconclusive"} \cup
    IF port = Nil \/ process[port].phase = "hung" THEN {}
    ELSE IF Is(i, port) THEN {"matched"} ELSE {"conflicting"}

\* The command line of the process, or no conclusive answer.
probeProcessCommandLine(target) ==
  {"inconclusive"} \cup
    IF Is(target.id, target.pid) THEN {"matched"}
    ELSE IF process[target.pid].kind = "other" THEN {"mismatched"} ELSE {"not_found"}

\* Mutant: the health answer alone authorizes the signal.
ForceUnprobed(health, probed) == health # "conflicting"

canForceStop(health, probed) == health # "conflicting" /\ probed = "matched"

canReportRunning(health, probed) ==
  /\ health # "conflicting" /\ probed \notin {"mismatched", "not_found"}
  /\ health = "matched" \/ probed = "matched"

-----------------------------------------------------------------------------
(* stopBackendService                                                      *)

\* The process is gone: the request and the record are removed.
StopDone(target) ==
  /\ request' = Nil
  /\ \E result \in {"stopped", "failed"} :
       /\ ClearRecord(target, result = "stopped")
       /\ command' = Returned(target, result)
  /\ UNCHANGED <<windows, world, used, history>>

StopCall ==
  /\ At("idle") /\ record # Nil
  /\ IF ~isProcessAlive(record.pid) THEN StopDone(record)
     ELSE /\ \/ /\ ~windows /\ UNCHANGED request
                /\ command' = Begun("stopHealth", record)
             \/ /\ windows /\ request' = record
                /\ command' = Begun("asked", record)
             \/ /\ windows /\ request' = Nil     \* it could not be written
                /\ command' = Begun("stopHealth", record)
          /\ UNCHANGED <<windows, world, record, used, history>>

\* Windows: the request is withdrawn once the process is gone or time is up.
StopAsked ==
  /\ At("asked")
  /\ IF isProcessAlive(command.target.pid)
     THEN /\ request' = Nil /\ Goto("stopHealth")
          /\ UNCHANGED <<windows, world, record, used, history>>
     ELSE StopDone(command.target)

ReadHealth(at, next) ==
  /\ At(at)
  /\ \E h \in HealthAnswers(command.target.id) :
       command' = Doing(next, command.target, FALSE, h)
  /\ UNCHANGED <<windows, world, record, request, used, history>>

StopHealth == ReadHealth("stopHealth", "stopProbe")

\* The probe, the decision and the signal are one turn.
StopProbe ==
  /\ At("stopProbe")
  /\ IF ~isProcessAlive(command.target.pid) THEN StopDone(command.target)
     ELSE \E probed \in probeProcessCommandLine(command.target) :
       /\ IF ~canForceStop(command.health, probed)
          THEN End("failed") /\ UNCHANGED <<process, port, signals>>
          ELSE \E sent \in BOOLEAN :
                 /\ Terminate(command.target, sent)
                 /\ IF sent THEN Goto("stopping") ELSE End("failed")
       /\ UNCHANGED <<windows, record, request, used, served, abandoned>>

\* Mutant: the wait is not followed by another look at the process.
StopWaitedOnce == At("stopping") /\ StopDone(command.target)

StopWaited ==
  /\ At("stopping")
  /\ IF isProcessAlive(command.target.pid)
     THEN /\ End("failed")
          /\ UNCHANGED <<windows, world, record, request, used, history>>
     ELSE StopDone(command.target)

-----------------------------------------------------------------------------
(* startBackendService                                                     *)

\* After any old record is gone: spawn a detached child under a fresh id.
Spawn ==
  /\ request' = Nil
  /\ \/ /\ \E p \in Pids, i \in Instances \ used :
             /\ process[p] = Nobody
             /\ process' = [process EXCEPT ![p] = Backend(i, "starting")]
             /\ command' = Begun("spawned", [pid |-> p, id |-> i])
             /\ used' = used \cup {i}
     \/ End("failed") /\ UNCHANGED <<process, used>>
  /\ UNCHANGED <<windows, port, served, history>>

\* A dead record is removed before a Backend is spawned.
Replace(target) ==
  \/ ClearRecord(target, TRUE) /\ Spawn
  \/ /\ ClearRecord(target, FALSE) /\ End("failed")
     /\ UNCHANGED <<windows, world, request, used, history>>

StartCall ==
  /\ At("idle")
  /\ IF record = Nil THEN Spawn /\ UNCHANGED record
     ELSE IF ~isProcessAlive(record.pid) THEN Replace(record)
     ELSE /\ command' = Begun("startHealth", record)
          /\ UNCHANGED <<windows, world, record, request, used, history>>

StartHealth == ReadHealth("startHealth", "startProbe")

StartProbe ==
  /\ At("startProbe")
  /\ \E probed \in probeProcessCommandLine(command.target) :
       IF canReportRunning(command.health, probed) \/ isProcessAlive(command.target.pid)
       THEN /\ End(IF canReportRunning(command.health, probed)
                   THEN "started" ELSE "failed")
            /\ UNCHANGED <<windows, world, record, request, used, history>>
       ELSE Replace(command.target)

\* stopFailedBackendStart: the child this call spawned is told to end.
GiveUp(next) ==
  /\ \E sent \in BOOLEAN :
       /\ Terminate(command.target, sent)
       /\ IF sent THEN Goto(next) ELSE End("failed")
       /\ abandoned' = IF ~sent /\ next = "failingBare"
                       THEN abandoned \cup {command.target.id} ELSE abandoned
  /\ UNCHANGED <<windows, request, used, served>>

\* The spawn event: the record is written, or the child is given up.
Persist ==
  /\ At("spawned")
  /\ \/ /\ record' = command.target /\ Goto("waiting")
        /\ UNCHANGED <<windows, world, request, used, history>>
     \/ UNCHANGED record /\ GiveUp("failingBare")

\* Mutant: any healthy Backend on the port will do.
HealthMatchedAnyone ==
  /\ At("waiting") /\ port # Nil /\ process[port].phase # "hung"
  /\ Goto("answered")
  /\ UNCHANGED <<windows, world, record, request, used, history>>

\* The /health answer names this instance.
HealthMatched ==
  /\ At("waiting") /\ port # Nil
  /\ Is(command.target.id, port) /\ process[port].phase # "hung"
  /\ Goto("answered")
  /\ UNCHANGED <<windows, world, record, request, used, history>>

\* The record of a start whose process is known to be gone is withdrawn.
Withdraw ==
  /\ \E ok \in BOOLEAN : ClearRecord(command.target, ok)
  /\ End("failed")
  /\ UNCHANGED <<windows, world, request, used, history>>

\* The child was reaped, or the time to become healthy is over.
StartTimedOut ==
  /\ At("waiting")
  /\ IF command.exited THEN Withdraw ELSE GiveUp("failing") /\ UNCHANGED record

\* Back from the answer: a child reaped meanwhile has failed; otherwise the
\* token and the connection are written, and the start has succeeded.
StartReady ==
  /\ At("answered")
  /\ IF command.exited THEN Withdraw
     ELSE /\ UNCHANGED record
          /\ \/ /\ End("started")
                /\ UNCHANGED <<windows, world, request, used, history>>
             \/ GiveUp("failing")

StartGivenUp ==
  /\ command.pc \in {"failing", "failingBare"}
  /\ IF At("failing") /\ ~isProcessAlive(command.target.pid)
     THEN Withdraw
     ELSE /\ End("failed")
          /\ abandoned' = IF At("failingBare") /\ isProcessAlive(command.target.pid)
                          THEN abandoned \cup {command.target.id} ELSE abandoned
          /\ UNCHANGED <<windows, world, record, request, used, signals>>

\* The command is killed: npm's time limit, the user, the machine.
Killed ==
  /\ ~At("idle")
  /\ command' = Idle
  /\ abandoned' = IF command.pc \in {"spawned", "failingBare"}
                  THEN abandoned \cup {command.target.id} ELSE abandoned
  /\ UNCHANGED <<windows, world, record, request, used, signals>>

-----------------------------------------------------------------------------
Environment ==
  \E p \in Pids : \/ StrangerStarts(p) \/ StrangerEnds(p) \/ Listen(p)
                  \/ Hang(p) \/ BackendExits(p) \/ TakeRequest(p) \/ InitReaps(p)

Next == \/ Environment \/ Reap \/ Killed
        \/ StopCall \/ StopAsked \/ StopHealth \/ StopProbe \/ StopWaited
        \/ StartCall \/ StartHealth \/ StartProbe \/ Persist
        \/ HealthMatched \/ StartTimedOut \/ StartReady \/ StartGivenUp

Spec == Init /\ [][Next]_vars

-----------------------------------------------------------------------------
\* A termination, by signal or by request, hits the very instance it was meant
\* for: not a program that was given the PID since (stopBackendService's probe
\* after the health answer, waitForHealth's "known exited child", the
\* watcher's comparison of PID and instance).
OnlyTheMeantIsStopped == \A s \in signals : s[1] = s[2]

\* A Backend that runs can be found: it is the one on record, or the call that
\* spawned it has yet to write the record, or that call was killed, or could
\* neither write it nor end its child, and said so (BackendServiceResult).
NoLostBackend ==
  \A p \in Pids : process[p].kind = "backend" =>
    LET it == [pid |-> p, id |-> process[p].id] IN
    \/ record = it
    \/ it.id \in abandoned
    \/ command.pc \in {"spawned", "failingBare"} /\ command.target = it

TargetRuns == \E p \in Pids : Is(command.target.id, p)

\* The started Backend is on record and has listened, or was found under its
\* PID by a later start; a stopped one runs no more and is off the record.
ReportIsTrue ==
  /\ command.pc # "idle" /\ command'.result = "started" =>
       /\ record' = command.target
       /\ record'.id \in served \/ Is(record'.id, record'.pid)
  /\ command'.result = "stopped" /\ command' # command =>
       record' = Nil /\ ~TargetRuns'

\* A call that reports success tells the truth (BackendServiceResult.ok of
\* startBackendService and stopBackendService).
ReportsAreTrue == [][ReportIsTrue]_vars

Call == IF command.pc = "idle" THEN "none"
        ELSE IF command.pc \in {"asked", "stopHealth", "stopProbe", "stopping"}
             THEN "stop" ELSE "start"

Promise == INSTANCE ServicePromise WITH
  up <- record # Nil, call <- Call, answer <- command.result

\* To its callers, the lifecycle commands, a call is what ServicePromise says.
KeepsServicePromise == Promise!Spec

-----------------------------------------------------------------------------
(* Why: what each place of a call can rely on.                             *)

\* A call knows whom it is about; one under way has not answered yet.
PlacesMakeSense ==
  /\ command.pc # "idle" => command.target # Nil /\ command.result = "none"
  /\ command.pc \notin {"idle", "spawned", "failingBare"} => record = command.target
  /\ command.pc \in {"spawned", "failingBare"} => record = Nil
  /\ command.pc = "spawned" => ~command.exited
  /\ command.pc = "answered" => command.target.id \in served

\* The PID of a child stays its own until the call knows it was reaped.
ChildKeepsItsPid ==
  command.pc \in {"spawned", "waiting", "answered"} /\ ~command.exited =>
    LET p == command.target.pid IN
    /\ process[p].kind \in {"backend", "zombie"}
    /\ process[p].id = command.target.id

\* What a call has learnt stays true: nothing runs under the instance of a
\* child that was reaped; an instance whose answer was heard has listened.
LearntIsTrue ==
  /\ command.exited => /\ command.target # Nil
                       /\ \A p \in Pids : process[p].id # command.target.id
  /\ command.health = "matched" => /\ command.target # Nil
                                   /\ command.target.id \in served

\* A PID and instance that were spawned; no other PID has had the instance.
Known(t) ==
  t # Nil => t.id \in used /\ \A p \in Pids : process[p].id = t.id => p = t.pid

\* Every instance was spawned once, under one PID.
OnePidEach ==
  /\ \A p \in Pids :
       process[p].id \in IF process[p].kind \in {"zombie", "backend"}
                         THEN used ELSE {Nil}
  /\ \A p, q \in Pids : process[p].id = process[q].id /\ process[p].id # Nil => p = q
  /\ Known(record) /\ Known(request) /\ Known(command.target)

\* Whoever listens runs, and a Backend that does has served.
ListenerRuns ==
  port # Nil => \/ process[port].kind = "other"
                \/ process[port].kind = "backend" /\ process[port].id \in served

\* All of it together is inductive: at every await of startBackendService and
\* stopBackendService the call's target, the record, the processes and the
\* history fit together, whatever ran in between.
ServiceInv == /\ TypeOK /\ PlacesMakeSense /\ ChildKeepsItsPid /\ OnePidEach
              /\ LearntIsTrue /\ ListenerRuns
              /\ NoLostBackend /\ OnlyTheMeantIsStopped
=============================================================================
