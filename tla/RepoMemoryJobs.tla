--------------------------- MODULE RepoMemoryJobs ---------------------------
(***************************************************************************)
(* Background jobs that build and update a repository's memory: the        *)
(* command that starts one (the supervisor), the detached worker it        *)
(* leaves behind, the marker that announces a worker, the startup lock,    *)
(* and the baseline that automatic jobs publish for every worktree.        *)
(* A step is one file-system call, or one run of a program between two     *)
(* that others cannot observe; but a worker's read of the marker and its   *)
(* judgement are one, since it finds its own there unless a race came      *)
(* first.                                                                  *)
(* Source: packages/ts/memorax-code-adapter-common/src/repo-memory/.       *)
(***************************************************************************)
EXTENDS Integers, FiniteSets

CONSTANTS
  Jobs,       \* commands, each with the job it would start
  Lost,       \* those whose processes were killed before, and may have left things behind
  None,       \* no job
  Unnamed,    \* a lock directory whose lock.json is not written yet
  MaxTip,     \* bound: commits that the default branch reaches
  MaxKills    \* bound: processes that are killed

ASSUME JobsAssumption ==
  /\ Lost \subseteq Jobs
  /\ None \notin Jobs /\ Unnamed \notin Jobs /\ None # Unnamed
  /\ MaxTip \in Nat \ {0}
  /\ MaxKills \in Nat

VARIABLES
  tip,       \* commits on the default branch; its history only grows
  baseline,  \* the commit whose memory is published, 0 before the first
  cooling,   \* the baseline of the last attempt until its cooldown ends, or -1
  lock,      \* whose token the startup lock holds, Unnamed, or None
  marker,    \* the job of the marker file
  starter,   \* where each command is
  worker,    \* where each worker is
  automatic, \* the commands that "maintain"; the others "start" a job in the worktree
  base,      \* the baseline an automatic job found
  head,      \* the commit it works on
  judged,    \* what a command read last: the token of a stale lock, the job of a marker
  status,    \* job.json
  told,      \* jobs whose worker was sent SIGTERM by its supervisor
  stolen,    \* history: a command lost the startup lock to another
  torn       \* history: a worker lost its marker to someone who had read an older one

jobFiles == <<automatic, base, head, status, told>>
vars == <<tip, baseline, cooling, lock, marker, starter, worker, judged, jobFiles, stolen, torn>>

\* The command holds the startup lock, or believes so.
Holding  == {"name", "recheck", "recheckJudge", "recheckClear", "plan", "attempt", "clone", "assert", "spawn",
             "pid", "mark", "watch", "fail", "disown", "disownClear", "release", "unlock"}
\* The command has given its worker up and is writing that down.
GivingUp == {"fail", "disown", "disownClear"}
Starting == {"look", "lookJudge", "lookClear", "inspect", "lock", "classify", "reap", "remove",
             "relock", "wait", "waitJudge", "waitClear"} \cup Holding
Working  == {"await", "awaitClear", "begin", "run", "client", "check", "checkClear", "stage",
             "commit", "publish", "succeed", "fail", "drop", "dropClear"}
Statuses == {"none", "preparing", "started", "running", "succeeded", "failed"}

TypeOK ==
  /\ tip \in 1..MaxTip /\ baseline \in 0..MaxTip /\ cooling \in -1..MaxTip
  /\ lock \in Jobs \cup {None, Unnamed} /\ marker \in Jobs \cup {None}
  /\ starter \in [Jobs -> Starting \cup {"idle", "done", "killed"}]
  /\ worker \in [Jobs -> Working \cup {"none", "gone", "killed"}]
  /\ base \in [Jobs -> 0..MaxTip] /\ head \in [Jobs -> 0..MaxTip]
  /\ judged \in [Jobs -> Jobs \cup {None}]
  /\ status \in [Jobs -> Statuses]
  /\ told \subseteq Jobs /\ automatic \subseteq Jobs
  /\ stolen \in BOOLEAN /\ torn \in BOOLEAN

Init ==
  /\ tip = 1 /\ baseline = 0 /\ cooling = -1
  /\ lock \in {None} \cup Lost \cup (IF Lost = {} THEN {} ELSE {Unnamed})
  /\ marker \in {None} \cup Lost
  /\ starter = [j \in Jobs |-> IF j \in Lost THEN "killed" ELSE "idle"]
  /\ worker = [j \in Jobs |-> IF j \in Lost THEN "killed" ELSE "none"]
  /\ base = [j \in Jobs |-> 0] /\ head = [j \in Jobs |-> 0]
  /\ judged = [j \in Jobs |-> None]
  /\ status = [j \in Jobs |-> IF j \in Lost THEN "started" ELSE "none"]
  /\ told = {} /\ automatic = {} /\ stolen = FALSE /\ torn = FALSE

\* Mutant: the marker names the supervisor's process, not the worker's.
StarterAlive(j) == starter[j] \in Starting

Alive(j)  == worker[j] \in Working
Abandoned == marker # None /\ ~Alive(marker)
Held(j)   == \E k \in Jobs \ {j} : starter[k] \in Holding
Killed    == Cardinality({j \in Jobs \ Lost : starter[j] = "killed"})
               + Cardinality({j \in Jobs \ Lost : worker[j] = "killed"})

At(j, here, next)   == starter[j] = here /\ starter' = [starter EXCEPT ![j] = next]
Work(j, here, next) == worker[j] = here /\ worker' = [worker EXCEPT ![j] = next]
Record(j, s)        == status' = [status EXCEPT ![j] = s]

\* Whatever the marker file holds by now is removed.
Unmark(j) ==
  /\ marker' = None
  /\ torn' = (torn \/ (marker \notin {None, j} /\ Alive(marker)))
\* Whatever the lock directory holds by now is removed.
Unlock(j) ==
  /\ lock' = None
  /\ stolen' = (stolen \/ (lock # None /\ Held(j)))

-----------------------------------------------------------------------------
(* The supervisor, up to the startup lock.                                   *)

\* readActiveRepoMemoryJobMarker reads the marker, asks whether its process lives, and only
\* then removes the file; it also does so when the file it saw was gone before the read.
Look(j, here, judge, free) ==
  /\ IF marker = None
       THEN At(j, here, free) /\ UNCHANGED judged
       ELSE At(j, here, judge) /\ judged' = [judged EXCEPT ![j] = marker]
  /\ UNCHANGED <<tip, baseline, cooling, lock, marker, worker, jobFiles, stolen, torn>>
Judge(j, judge, clear, busy) ==
  /\ \/ At(j, judge, busy) /\ Alive(judged[j])
     \/ At(j, judge, clear) /\ (marker = None \/ ~Alive(judged[j]))
  /\ judged' = [judged EXCEPT ![j] = None]
  /\ UNCHANGED <<tip, baseline, cooling, lock, marker, worker, jobFiles, stolen, torn>>
Clear(j, clear, free) ==
  /\ At(j, clear, free)
  /\ Unmark(j)
  /\ UNCHANGED <<tip, baseline, cooling, lock, worker, judged, jobFiles, stolen>>

Ask(j) ==
  /\ At(j, "idle", "look")
  /\ automatic' = automatic \cup {j} \/ UNCHANGED automatic
  /\ UNCHANGED <<tip, baseline, cooling, lock, marker, worker, judged, base, head, status, told,
                 stolen, torn>>

\* Mutant: a failed attempt is repeated at once.
WorkDueAgain == baseline = 0 \/ baseline < tip

\* Is there work for an automatic job on this baseline and commit?  The policy may
\* still find that an update is not due.
WorkDue == (baseline = 0 \/ baseline < tip) /\ cooling # baseline

Inspect(j) ==
  /\ At(j, "inspect", "lock")
  /\ IF j \in automatic
       THEN WorkDue /\ base' = [base EXCEPT ![j] = baseline] /\ head' = [head EXCEPT ![j] = tip]
       ELSE UNCHANGED <<base, head>>
  /\ UNCHANGED <<tip, baseline, cooling, lock, marker, worker, judged, automatic, status, told,
                 stolen, torn>>
NothingDue(j) ==
  /\ j \in automatic
  /\ At(j, "inspect", "done")
  /\ UNCHANGED <<tip, baseline, cooling, lock, marker, worker, judged, jobFiles, stolen, torn>>

\* mkdir of the lock directory, before and after a stale one was removed.
TakeLock(j) ==
  /\ lock = None
  /\ At(j, "lock", "name") \/ At(j, "relock", "name")
  /\ lock' = Unnamed
  /\ UNCHANGED <<tip, baseline, cooling, marker, worker, judged, jobFiles, stolen, torn>>

LockTaken(j) ==
  /\ lock # None
  /\ At(j, "lock", "classify")
  /\ UNCHANGED <<tip, baseline, cooling, lock, marker, worker, judged, jobFiles, stolen, torn>>

\* A named lock is stale once its process is gone, an unnamed one after a grace period, and
\* one that vanished since at once: its age is infinite.
LockBusy(j) ==
  /\ lock # None
  /\ \/ (lock \in Jobs => starter[lock] \in Starting) /\ At(j, "classify", "wait")
     \/ At(j, "relock", "wait")
  /\ UNCHANGED <<tip, baseline, cooling, lock, marker, worker, judged, jobFiles, stolen, torn>>
LockStale(j) ==
  /\ lock \in Jobs => starter[lock] \notin Starting
  /\ At(j, "classify", IF lock \in Jobs THEN "reap" ELSE "remove")
  /\ judged' = [judged EXCEPT ![j] = IF lock \in Jobs THEN lock ELSE None]
  /\ UNCHANGED <<tip, baseline, cooling, lock, marker, worker, jobFiles, stolen, torn>>

\* removeStaleStartupLock compares the token once more, then removes the directory.
Reap(j) ==
  /\ At(j, "reap", IF lock = judged[j] THEN "remove" ELSE "wait")
  /\ judged' = [judged EXCEPT ![j] = None]
  /\ UNCHANGED <<tip, baseline, cooling, lock, marker, worker, jobFiles, stolen, torn>>
RemoveLock(j) ==
  /\ At(j, "remove", "relock")
  /\ Unlock(j)
  /\ UNCHANGED <<tip, baseline, cooling, marker, worker, judged, jobFiles, torn>>

\* Two seconds without an active marker: "startup is already in progress".
StopWaiting(j) ==
  /\ At(j, "wait", "done")
  /\ UNCHANGED <<tip, baseline, cooling, lock, marker, worker, judged, jobFiles, stolen, torn>>

\* writeFileSync goes through the path, into whoever's directory is there.
NameLock(j) ==
  /\ IF lock = None
       THEN At(j, "name", "unlock") /\ UNCHANGED <<lock, stolen>>
       ELSE At(j, "name", "recheck") /\ lock' = j /\ stolen' = (stolen \/ Held(j))
  /\ UNCHANGED <<tip, baseline, cooling, marker, worker, judged, jobFiles, torn>>

-----------------------------------------------------------------------------
(* The supervisor under the startup lock.                                    *)

\* recheckSharedRepoMemoryMaintenance, which takes its time, and then the attempt's record.
Unchanged(j) == WorkDue /\ baseline = base[j] /\ tip = head[j]
Plan(j) ==
  /\ \/ j \in automatic /\ Unchanged(j) /\ At(j, "plan", "attempt") /\ Record(j, "preparing")
     \/ j \in automatic /\ At(j, "plan", "release") /\ UNCHANGED status
     \/ j \notin automatic /\ At(j, "plan", "assert") /\ Record(j, "preparing")
  /\ UNCHANGED <<tip, baseline, cooling, lock, marker, worker, judged, automatic, base, head, told,
                 stolen, torn>>
Attempt(j) ==
  /\ At(j, "attempt", "clone")
  /\ cooling' = base[j]
  /\ UNCHANGED <<tip, baseline, lock, marker, worker, judged, jobFiles, stolen, torn>>

\* prepareSharedRepoMemorySnapshot copies the baseline into a private clone; or it fails.
Clone(j) ==
  /\ \/ baseline = base[j] /\ At(j, "clone", "assert") /\ UNCHANGED status
     \/ At(j, "clone", "release") /\ Record(j, "failed")
  /\ UNCHANGED <<tip, baseline, cooling, lock, marker, worker, judged, automatic, base, head,
                 told, stolen, torn>>
AssertOwned(j) ==
  /\ IF lock = j THEN At(j, "assert", "spawn") /\ Record(j, "started")
                 ELSE At(j, "assert", "release") /\ Record(j, "failed")
  /\ UNCHANGED <<tip, baseline, cooling, lock, marker, worker, judged, automatic, base, head,
                 told, stolen, torn>>
Spawn(j) ==
  /\ \/ At(j, "spawn", "pid") /\ Work(j, "none", "await")
     \/ At(j, "spawn", "release") /\ UNCHANGED worker
  /\ UNCHANGED <<tip, baseline, cooling, lock, marker, judged, jobFiles, stolen, torn>>
\* The worker's PID goes into job.json, over what the worker may have written by then.
WritePid(j) ==
  /\ At(j, "pid", "mark")
  /\ Record(j, "started")
  /\ UNCHANGED <<tip, baseline, cooling, lock, marker, worker, judged, automatic, base, head, told,
                 stolen, torn>>
WriteMarker(j) ==
  /\ At(j, "mark", "watch")
  /\ marker' = j
  /\ UNCHANGED <<tip, baseline, cooling, lock, worker, judged, jobFiles, stolen, torn>>

\* waitForWorkerInitialization: until the worker has written to job.json, or is gone,
\* or three seconds have passed.
SeeRunning(j) ==
  /\ status[j] \in {"running", "succeeded", "failed"}
  /\ At(j, "watch", "release")
  /\ UNCHANGED <<tip, baseline, cooling, lock, marker, worker, judged, jobFiles, stolen, torn>>
GiveUp(j) ==
  /\ status[j] = "started"
  /\ At(j, "watch", "fail")
  /\ told' = IF Alive(j) THEN told \cup {j} ELSE told
  /\ UNCHANGED <<tip, baseline, cooling, lock, marker, worker, judged, automatic, base, head,
                 status, stolen, torn>>
FailStart(j) ==
  /\ At(j, "fail", "disown")
  /\ Record(j, "failed")
  /\ UNCHANGED <<tip, baseline, cooling, lock, marker, worker, judged, automatic, base, head,
                 told, stolen, torn>>
\* removeRepoMemoryJobMarkerIfOwned reads, compares and then removes.
Disown(j) ==
  /\ At(j, "disown", IF marker = j THEN "disownClear" ELSE "release")
  /\ UNCHANGED <<tip, baseline, cooling, lock, marker, worker, judged, jobFiles, stolen, torn>>

Release(j) ==
  /\ At(j, "release", IF lock = j THEN "unlock" ELSE "done")
  /\ UNCHANGED <<tip, baseline, cooling, lock, marker, worker, judged, jobFiles, stolen, torn>>
DropLock(j) ==
  /\ At(j, "unlock", "done")
  /\ Unlock(j)
  /\ UNCHANGED <<tip, baseline, cooling, marker, worker, judged, jobFiles, torn>>

-----------------------------------------------------------------------------
(* The worker.                                                               *)

\* Its reads of the marker remove an abandoned one, its end removes its own.
WorkerClear(j, clear, next) ==
  /\ Work(j, clear, next)
  /\ Unmark(j)
  /\ UNCHANGED <<tip, baseline, cooling, lock, starter, judged, jobFiles, stolen>>

\* waitForOwnedMarker; a signal or three seconds end it with an error.
AwaitMarker(j) ==
  /\ \/ marker = j /\ Work(j, "await", "begin")
     \/ Abandoned /\ Work(j, "await", "awaitClear")
     \/ Work(j, "await", IF status[j] = "failed" THEN "drop" ELSE "fail")
  /\ UNCHANGED <<tip, baseline, cooling, lock, marker, starter, judged, jobFiles, stolen, torn>>
\* Only a job that is still "started" runs; the check and the write are two calls.
Begin(j) ==
  /\ Work(j, "begin", IF status[j] = "started" THEN "run" ELSE "drop")
  /\ UNCHANGED <<tip, baseline, cooling, lock, marker, starter, judged, jobFiles, stolen, torn>>
Run(j) ==
  /\ Work(j, "run", "client")
  /\ Record(j, "running")
  /\ UNCHANGED <<tip, baseline, cooling, lock, marker, starter, judged, automatic, base, head,
                 told, stolen, torn>>

\* The client ends, by itself or at its time limit, and its bundle is validated.  It is a
\* language model at work: it takes longer than a supervisor that is giving up.
ClientEnds(j) ==
  /\ starter[j] \notin GivingUp
  /\ Work(j, "client", "check") \/ Work(j, "client", "fail")
  /\ UNCHANGED <<tip, baseline, cooling, lock, marker, starter, judged, jobFiles, stolen, torn>>

\* Mutant: a worker publishes without asking whether the marker is still its own.
CheckNothing(j) ==
  /\ Work(j, "check", IF j \in automatic THEN "stage" ELSE "succeed")
  /\ UNCHANGED <<tip, baseline, cooling, lock, marker, starter, judged, jobFiles, stolen, torn>>

CheckOwner(j) ==
  /\ \/ marker = j /\ Work(j, "check", IF j \in automatic THEN "stage" ELSE "succeed")
     \/ Abandoned /\ Work(j, "check", "checkClear")
     \/ marker # j /\ ~Abandoned /\ Work(j, "check", "fail")
  /\ UNCHANGED <<tip, baseline, cooling, lock, marker, starter, judged, jobFiles, stolen, torn>>
\* publishSharedRepoMemorySnapshot asks twice whether the baseline is still the job's.
Stage(j) ==
  /\ \/ Work(j, "stage", "commit") /\ baseline = base[j]
     \/ Work(j, "stage", "fail")
  /\ UNCHANGED <<tip, baseline, cooling, lock, marker, starter, judged, jobFiles, stolen, torn>>
Commit(j) ==
  /\ \/ Work(j, "commit", "publish") /\ baseline = base[j]
     \/ Work(j, "commit", "fail")
  /\ UNCHANGED <<tip, baseline, cooling, lock, marker, starter, judged, jobFiles, stolen, torn>>
Publish(j) ==
  /\ Work(j, "publish", "succeed")
  /\ baseline' = head[j]
  /\ UNCHANGED <<tip, cooling, lock, marker, starter, judged, jobFiles, stolen, torn>>

\* Mutant: a failure is not written down.
FinishQuietly(j) ==
  /\ \/ Work(j, "succeed", "drop") /\ Record(j, "succeeded")
     \/ Work(j, "fail", "drop") /\ UNCHANGED status
  /\ UNCHANGED <<tip, baseline, cooling, lock, marker, starter, judged, automatic, base, head, told,
                 stolen, torn>>

Finish(j) ==
  /\ \/ Work(j, "succeed", "drop") /\ Record(j, "succeeded")
     \/ Work(j, "fail", "drop") /\ Record(j, "failed")
  /\ UNCHANGED <<tip, baseline, cooling, lock, marker, starter, judged, automatic, base, head,
                 told, stolen, torn>>
DropMarker(j) ==
  /\ Work(j, "drop", IF marker = j THEN "dropClear" ELSE "gone")
  /\ UNCHANGED <<tip, baseline, cooling, lock, marker, starter, judged, jobFiles, stolen, torn>>

-----------------------------------------------------------------------------
(* The environment.                                                          *)

Push ==
  /\ tip < MaxTip
  /\ tip' = tip + 1
  /\ UNCHANGED <<baseline, cooling, lock, marker, starter, worker, judged, jobFiles, stolen, torn>>

\* Cooldowns are hours, jobs minutes.
Cool ==
  /\ \A j \in automatic : ~Alive(j) /\ starter[j] \notin Holding
  /\ cooling # -1 /\ cooling' = -1
  /\ UNCHANGED <<tip, baseline, lock, marker, starter, worker, judged, jobFiles, stolen, torn>>

Kill(j) ==
  /\ Killed < MaxKills
  /\ \/ starter[j] \in Starting /\ At(j, starter[j], "killed") /\ UNCHANGED worker
     \/ worker[j] \in Working /\ Work(j, worker[j], "killed") /\ UNCHANGED starter
  /\ UNCHANGED <<tip, baseline, cooling, lock, marker, judged, jobFiles, stolen, torn>>

Supervise(j) ==
  \/ Look(j, "look", "lookJudge", "inspect") \/ Judge(j, "lookJudge", "lookClear", "done")
  \/ Clear(j, "lookClear", "inspect")
  \/ Inspect(j) \/ NothingDue(j)
  \/ TakeLock(j) \/ LockTaken(j) \/ LockBusy(j) \/ LockStale(j) \/ Reap(j) \/ RemoveLock(j)
  \/ Look(j, "wait", "waitJudge", "wait") \/ Judge(j, "waitJudge", "waitClear", "done")
  \/ Clear(j, "waitClear", "wait") \/ StopWaiting(j)
  \/ NameLock(j)
  \/ Look(j, "recheck", "recheckJudge", "plan") \/ Judge(j, "recheckJudge", "recheckClear", "release")
  \/ Clear(j, "recheckClear", "plan")
  \/ Plan(j) \/ Attempt(j) \/ Clone(j) \/ AssertOwned(j) \/ Spawn(j) \/ WritePid(j)
  \/ WriteMarker(j)
  \/ SeeRunning(j) \/ GiveUp(j) \/ FailStart(j) \/ Disown(j) \/ Clear(j, "disownClear", "release")
  \/ Release(j) \/ DropLock(j)

Toil(j) ==
  \/ AwaitMarker(j) \/ WorkerClear(j, "awaitClear", "await") \/ Begin(j) \/ Run(j) \/ ClientEnds(j)
  \/ CheckOwner(j) \/ WorkerClear(j, "checkClear", "fail")
  \/ Stage(j) \/ Commit(j) \/ Publish(j)
  \/ Finish(j) \/ DropMarker(j) \/ WorkerClear(j, "dropClear", "gone")

Next ==
  \/ \E j \in Jobs : Ask(j) \/ Supervise(j) \/ Toil(j) \/ Kill(j)
  \/ Push \/ Cool

Spec == Init /\ [][Next]_vars

-----------------------------------------------------------------------------
AtWork == {j \in Jobs : worker[j] \in {"run", "client", "check", "stage", "commit", "publish"}}

\* Two workers are never at work on the repository at once, except when the supervisor of
\* one has given it up, or when one of the two races came first that the history variables
\* record: a startup lock or a marker removed on the strength of an older one's content.
OneWorker == stolen \/ torn \/ \A j, k \in AtWork \ told : j = k

\* A baseline is replaced only by a job that was started from it, and by the memory of a
\* later commit; a lost marker does not change that, for the attempt's cooldown remains.
PublishesItsBase ==
  [][baseline' # baseline =>
       \/ stolen
       \/ /\ baseline' > baseline
          /\ \E j \in automatic : worker[j] = "publish" /\ base[j] = baseline]_vars

\* A verdict stands: a job whose start was reported as failed never publishes and never
\* turns into a success, and a success is never reported as a failure.
VerdictsStand ==
  [][/\ \A j \in told : starter[j] \in {"release", "unlock", "done"} =>
            worker[j] # "publish" /\ status'[j] # "succeeded"
     /\ \A j \in Jobs : status[j] = "succeeded" => status'[j] = "succeeded"]_vars

\* Whatever the two processes write over each other in job.json, a worker that ended by
\* itself leaves a verdict, or a supervisor that has yet to look or was killed before it.
EndedJobsReport ==
  \A j \in Jobs : worker[j] = "gone" =>
    \/ status[j] \in {"succeeded", "failed"}
    \/ status[j] = "started" /\ starter[j] \in {"mark", "watch", "fail", "killed"}
=============================================================================
