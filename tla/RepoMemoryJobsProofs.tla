------------------------ MODULE RepoMemoryJobsProofs ------------------------
(***************************************************************************)
(* Proofs about RepoMemoryJobs, for any number of commands, commits and     *)
(* kills.  The invariant has a part that always holds (WorkerInv,           *)
(* ReportInv), parts that hold until a startup lock is stolen (LockInv,     *)
(* BaselineInv), and one that holds until a marker is torn as well          *)
(* (MarkerInv).                                                             *)
(***************************************************************************)
EXTENDS RepoMemoryJobs, TLAPS

Prepared == {"attempt", "clone", "assert", "spawn"}
Quiet    == Prepared \cup {"plan", "pid", "mark"}
Early    == {"idle", "look", "lookJudge", "lookClear", "inspect", "lock", "classify", "reap", "remove",
             "relock", "wait", "waitJudge", "waitClear", "name", "recheck", "recheckJudge",
             "recheckClear", "plan"} \cup Prepared
Owning   == {"begin", "run", "client", "check", "stage", "commit", "publish"}
Launched == Owning \cup {"await", "awaitClear"}

\* A worker comes of Spawn alone, and one whose supervisor gives up is told or dead;
\* only automatic jobs make an attempt and publish.
WorkerInv ==
  \A j \in Jobs :
    /\ starter[j] \in Early => worker[j] = "none"
    /\ starter[j] \in GivingUp => j \in told \/ ~Alive(j)
    /\ starter[j] \in {"attempt", "clone"} => j \in automatic
    /\ worker[j] \in {"stage", "commit", "publish"} => j \in automatic

\* The startup lock is its one holder's.
LockInv ==
  /\ \A j \in Jobs : starter[j] \in Holding => lock = IF starter[j] = "name" THEN Unnamed ELSE j
  /\ \A j, k \in Jobs : starter[j] \in Holding /\ starter[k] \in Holding => j = k

\* The holder that starts a worker sees no marker, and a worker keeps its own.
MarkerInv ==
  \A j \in Jobs :
    /\ starter[j] \in Quiet => marker = None
    /\ worker[j] \in Owning /\ j \notin told => marker = j

\* An automatic job on its way to a publication.  There is one for each baseline, and
\* its attempt keeps the next one away.
Engaged(j) == j \in automatic /\ (starter[j] \in Prepared \/ worker[j] \in Launched)

BaselineInv ==
  /\ \A j \in Jobs :
       /\ base[j] <= baseline
       /\ Engaged(j) => base[j] < head[j]
       /\ Engaged(j) /\ base[j] = baseline /\ starter[j] # "attempt" => cooling = baseline
       /\ j \in automatic /\ starter[j] \in Prepared => base[j] = baseline
       /\ worker[j] = "publish" => base[j] = baseline
  /\ \A j, k \in Jobs :
       Engaged(j) /\ Engaged(k) /\ base[j] = baseline /\ base[k] = baseline => j = k

\* What job.json says, while both processes write to it.  A worker cannot get past its
\* wait before the marker is written, nor past its client while it is being given up.
Unannounced == Early \cup {"pid", "mark"}
Past  == {"check", "checkClear", "stage", "commit", "publish", "succeed"}
Ended == {"drop", "dropClear", "gone"}

ReportInv ==
  \A j \in Jobs :
    /\ starter[j] \in Unannounced =>
         marker # j /\ worker[j] \in Ended \cup {"none", "await", "awaitClear", "fail", "killed"}
    /\ starter[j] = "spawn" => status[j] = "started"
    /\ worker[j] \in {"await", "awaitClear", "begin", "run"} => status[j] \in {"started", "failed"}
    /\ worker[j] \in Past \cup {"client"} => status[j] \in {"running", "failed"}
    /\ worker[j] \in Ended =>
         \/ status[j] \in {"succeeded", "failed"}
         \/ status[j] = "started" /\ starter[j] \in {"mark", "watch", "fail", "killed"}
    /\ j \in told => starter[j] \in GivingUp \cup {"release", "unlock", "done", "killed"}
    /\ j \in told /\ starter[j] \in GivingUp => worker[j] \notin Past
    /\ j \in told /\ starter[j] \in {"release", "unlock", "done"} =>
         /\ marker # j
         /\ worker[j] \notin {"stage", "commit", "publish", "succeed"}
         /\ status[j] # "succeeded"
    /\ status[j] = "succeeded" =>
         /\ worker[j] \in Ended \cup {"killed"}
         /\ starter[j] \notin Unannounced \cup GivingUp

JobsInv ==
  /\ TypeOK
  /\ WorkerInv
  /\ ReportInv
  /\ ~stolen => LockInv /\ BaselineInv
  /\ ~stolen /\ ~torn => MarkerInv
-----------------------------------------------------------------------------
\* Every step keeps the variables in their types.
LEMMA TypeKeeps == TypeOK /\ [Next]_vars => TypeOK'
<1> SUFFICES ASSUME TypeOK, [Next]_vars PROVE TypeOK'
  OBVIOUS
<1> USE JobsAssumption DEF TypeOK, At, Work, Record, Unmark, Unlock, jobFiles, Starting, Holding,
                           Working, Statuses
<1>1. ASSUME NEW j \in Jobs, Supervise(j) PROVE TypeOK'
  <2>1. CASE Look(j, "look", "lookJudge", "inspect")
    BY <2>1 DEF Look
  <2>1j. CASE Judge(j, "lookJudge", "lookClear", "done")
    BY <2>1j DEF Judge
  <2>2. CASE Clear(j, "lookClear", "inspect")
    BY <2>2 DEF Clear
  <2>3. CASE Inspect(j)
    BY <2>3 DEF Inspect
  <2>4. CASE NothingDue(j)
    BY <2>4 DEF NothingDue
  <2>5. CASE TakeLock(j)
    BY <2>5 DEF TakeLock
  <2>6t. CASE LockTaken(j)
    BY <2>6t DEF LockTaken
  <2>6. CASE LockBusy(j)
    BY <2>6 DEF LockBusy
  <2>7. CASE LockStale(j)
    BY <2>7 DEF LockStale
  <2>8. CASE Reap(j)
    BY <2>8 DEF Reap
  <2>9. CASE RemoveLock(j)
    BY <2>9 DEF RemoveLock
  <2>10. CASE Look(j, "wait", "waitJudge", "wait")
    BY <2>10 DEF Look
  <2>10j. CASE Judge(j, "waitJudge", "waitClear", "done")
    BY <2>10j DEF Judge
  <2>11. CASE Clear(j, "waitClear", "wait")
    BY <2>11 DEF Clear
  <2>12. CASE StopWaiting(j)
    BY <2>12 DEF StopWaiting
  <2>13. CASE NameLock(j)
    BY <2>13 DEF NameLock
  <2>14. CASE Look(j, "recheck", "recheckJudge", "plan")
    BY <2>14 DEF Look
  <2>14j. CASE Judge(j, "recheckJudge", "recheckClear", "release")
    BY <2>14j DEF Judge
  <2>15. CASE Clear(j, "recheckClear", "plan")
    BY <2>15 DEF Clear
  <2>16. CASE Plan(j)
    BY <2>16 DEF Plan
  <2>17. CASE Attempt(j)
    BY <2>17 DEF Attempt
  <2>18. CASE Clone(j)
    BY <2>18 DEF Clone
  <2>19. CASE AssertOwned(j)
    BY <2>19 DEF AssertOwned
  <2>20. CASE Spawn(j)
    BY <2>20 DEF Spawn
  <2>21. CASE WritePid(j)
    BY <2>21 DEF WritePid
  <2>22. CASE WriteMarker(j)
    BY <2>22 DEF WriteMarker
  <2>23. CASE SeeRunning(j)
    BY <2>23 DEF SeeRunning
  <2>24. CASE GiveUp(j)
    BY <2>24 DEF GiveUp
  <2>25. CASE FailStart(j)
    BY <2>25 DEF FailStart
  <2>26. CASE Disown(j)
    BY <2>26 DEF Disown
  <2>27. CASE Clear(j, "disownClear", "release")
    BY <2>27 DEF Clear
  <2>28. CASE Release(j)
    BY <2>28 DEF Release
  <2>29. CASE DropLock(j)
    BY <2>29 DEF DropLock
  <2> QED BY <1>1, <2>1, <2>1j, <2>2, <2>3, <2>4, <2>5, <2>6, <2>6t, <2>7, <2>8, <2>9, <2>10, <2>10j, <2>11, <2>12, <2>13, <2>14, <2>14j, <2>15, <2>16, <2>17, <2>18, <2>19, <2>20, <2>21, <2>22, <2>23, <2>24, <2>25, <2>26, <2>27, <2>28, <2>29 DEF Supervise
<1>2. ASSUME NEW j \in Jobs, Toil(j) PROVE TypeOK'
  <2>1. CASE AwaitMarker(j)
    BY <2>1 DEF AwaitMarker
  <2>2. CASE WorkerClear(j, "awaitClear", "await")
    BY <2>2 DEF WorkerClear
  <2>3. CASE Begin(j)
    BY <2>3 DEF Begin
  <2>4. CASE Run(j)
    BY <2>4 DEF Run
  <2>5. CASE ClientEnds(j)
    BY <2>5 DEF ClientEnds
  <2>6. CASE CheckOwner(j)
    BY <2>6 DEF CheckOwner
  <2>7. CASE WorkerClear(j, "checkClear", "fail")
    BY <2>7 DEF WorkerClear
  <2>8. CASE Stage(j)
    BY <2>8 DEF Stage
  <2>9. CASE Commit(j)
    BY <2>9 DEF Commit
  <2>10. CASE Publish(j)
    BY <2>10 DEF Publish
  <2>11. CASE Finish(j)
    BY <2>11 DEF Finish
  <2>12. CASE DropMarker(j)
    BY <2>12 DEF DropMarker
  <2>13. CASE WorkerClear(j, "dropClear", "gone")
    BY <2>13 DEF WorkerClear
  <2> QED BY <1>2, <2>1, <2>2, <2>3, <2>4, <2>5, <2>6, <2>7, <2>8, <2>9, <2>10, <2>11, <2>12, <2>13 DEF Toil
<1>3. ASSUME NEW j \in Jobs, Ask(j) PROVE TypeOK'
  BY <1>3 DEF Ask
<1>4. ASSUME NEW j \in Jobs, Kill(j) PROVE TypeOK'
  BY <1>4 DEF Kill
<1>5. CASE Push
  BY <1>5 DEF Push
<1>6. CASE Cool
  BY <1>6 DEF Cool
<1>7. CASE UNCHANGED vars
  BY <1>7 DEF vars
<1> QED BY <1>1, <1>2, <1>3, <1>4, <1>5, <1>6, <1>7 DEF Next

\* Every step keeps WorkerInv.
LEMMA WorkerKeeps == TypeOK /\ WorkerInv /\ [Next]_vars => WorkerInv'
<1> SUFFICES ASSUME TypeOK, WorkerInv, [Next]_vars PROVE WorkerInv'
  OBVIOUS
<1> USE JobsAssumption DEF TypeOK, WorkerInv, Early, Prepared, GivingUp, Alive, At, Work, Record, Unmark,
                           Unlock, jobFiles, Working
<1>1. ASSUME NEW j \in Jobs, Supervise(j) PROVE WorkerInv'
  <2>1. CASE Look(j, "look", "lookJudge", "inspect")
    BY <2>1 DEF Look
  <2>1j. CASE Judge(j, "lookJudge", "lookClear", "done")
    BY <2>1j DEF Judge
  <2>2. CASE Clear(j, "lookClear", "inspect")
    BY <2>2 DEF Clear
  <2>3. CASE Inspect(j)
    BY <2>3 DEF Inspect
  <2>4. CASE NothingDue(j)
    BY <2>4 DEF NothingDue
  <2>5. CASE TakeLock(j)
    BY <2>5 DEF TakeLock
  <2>6t. CASE LockTaken(j)
    BY <2>6t DEF LockTaken
  <2>6. CASE LockBusy(j)
    BY <2>6 DEF LockBusy
  <2>7. CASE LockStale(j)
    BY <2>7 DEF LockStale
  <2>8. CASE Reap(j)
    BY <2>8 DEF Reap
  <2>9. CASE RemoveLock(j)
    BY <2>9 DEF RemoveLock
  <2>10. CASE Look(j, "wait", "waitJudge", "wait")
    BY <2>10 DEF Look
  <2>10j. CASE Judge(j, "waitJudge", "waitClear", "done")
    BY <2>10j DEF Judge
  <2>11. CASE Clear(j, "waitClear", "wait")
    BY <2>11 DEF Clear
  <2>12. CASE StopWaiting(j)
    BY <2>12 DEF StopWaiting
  <2>13. CASE NameLock(j)
    BY <2>13 DEF NameLock
  <2>14. CASE Look(j, "recheck", "recheckJudge", "plan")
    BY <2>14 DEF Look
  <2>14j. CASE Judge(j, "recheckJudge", "recheckClear", "release")
    BY <2>14j DEF Judge
  <2>15. CASE Clear(j, "recheckClear", "plan")
    BY <2>15 DEF Clear
  <2>16. CASE Plan(j)
    BY <2>16 DEF Plan
  <2>17. CASE Attempt(j)
    BY <2>17 DEF Attempt
  <2>18. CASE Clone(j)
    BY <2>18 DEF Clone
  <2>19. CASE AssertOwned(j)
    BY <2>19 DEF AssertOwned
  <2>20. CASE Spawn(j)
    BY <2>20 DEF Spawn
  <2>21. CASE WritePid(j)
    BY <2>21 DEF WritePid
  <2>22. CASE WriteMarker(j)
    BY <2>22 DEF WriteMarker
  <2>23. CASE SeeRunning(j)
    BY <2>23 DEF SeeRunning
  <2>24. CASE GiveUp(j)
    BY <2>24 DEF GiveUp
  <2>25. CASE FailStart(j)
    BY <2>25 DEF FailStart
  <2>26. CASE Disown(j)
    BY <2>26 DEF Disown
  <2>27. CASE Clear(j, "disownClear", "release")
    BY <2>27 DEF Clear
  <2>28. CASE Release(j)
    BY <2>28 DEF Release
  <2>29. CASE DropLock(j)
    BY <2>29 DEF DropLock
  <2> QED BY <1>1, <2>1, <2>1j, <2>2, <2>3, <2>4, <2>5, <2>6, <2>6t, <2>7, <2>8, <2>9, <2>10, <2>10j, <2>11, <2>12, <2>13, <2>14, <2>14j, <2>15, <2>16, <2>17, <2>18, <2>19, <2>20, <2>21, <2>22, <2>23, <2>24, <2>25, <2>26, <2>27, <2>28, <2>29 DEF Supervise
<1>2. ASSUME NEW j \in Jobs, Toil(j) PROVE WorkerInv'
  <2>1. CASE AwaitMarker(j)
    BY <2>1 DEF AwaitMarker
  <2>2. CASE WorkerClear(j, "awaitClear", "await")
    BY <2>2 DEF WorkerClear
  <2>3. CASE Begin(j)
    BY <2>3 DEF Begin
  <2>4. CASE Run(j)
    BY <2>4 DEF Run
  <2>5. CASE ClientEnds(j)
    BY <2>5 DEF ClientEnds
  <2>6. CASE CheckOwner(j)
    BY <2>6 DEF CheckOwner
  <2>7. CASE WorkerClear(j, "checkClear", "fail")
    BY <2>7 DEF WorkerClear
  <2>8. CASE Stage(j)
    BY <2>8 DEF Stage
  <2>9. CASE Commit(j)
    BY <2>9 DEF Commit
  <2>10. CASE Publish(j)
    BY <2>10 DEF Publish
  <2>11. CASE Finish(j)
    BY <2>11 DEF Finish
  <2>12. CASE DropMarker(j)
    BY <2>12 DEF DropMarker
  <2>13. CASE WorkerClear(j, "dropClear", "gone")
    BY <2>13 DEF WorkerClear
  <2> QED BY <1>2, <2>1, <2>2, <2>3, <2>4, <2>5, <2>6, <2>7, <2>8, <2>9, <2>10, <2>11, <2>12, <2>13 DEF Toil
<1>3. ASSUME NEW j \in Jobs, Ask(j) PROVE WorkerInv'
  BY <1>3 DEF Ask
<1>4. ASSUME NEW j \in Jobs, Kill(j) PROVE WorkerInv'
  BY <1>4 DEF Kill
<1>5. CASE Push
  BY <1>5 DEF Push
<1>6. CASE Cool
  BY <1>6 DEF Cool
<1>7. CASE UNCHANGED vars
  BY <1>7 DEF vars
<1> QED BY <1>1, <1>2, <1>3, <1>4, <1>5, <1>6, <1>7 DEF Next

\* While no lock is stolen, the holder's name is on it.
LEMMA LockKeeps ==
  TypeOK /\ (~stolen => LockInv) /\ [Next]_vars => (~stolen => LockInv)'
<1> SUFFICES ASSUME TypeOK, ~stolen => LockInv, [Next]_vars, ~stolen' PROVE LockInv'
  OBVIOUS
<1> USE JobsAssumption DEF TypeOK, LockInv, Holding, GivingUp, Held, At, Work, Record, Unmark, Unlock,
                           jobFiles, Starting
<1>1. ASSUME NEW j \in Jobs, Supervise(j) PROVE LockInv'
  <2>1. CASE Look(j, "look", "lookJudge", "inspect")
    BY <2>1 DEF Look
  <2>1j. CASE Judge(j, "lookJudge", "lookClear", "done")
    BY <2>1j DEF Judge
  <2>2. CASE Clear(j, "lookClear", "inspect")
    BY <2>2 DEF Clear
  <2>3. CASE Inspect(j)
    BY <2>3 DEF Inspect
  <2>4. CASE NothingDue(j)
    BY <2>4 DEF NothingDue
  <2>5. CASE TakeLock(j)
    BY <2>5 DEF TakeLock
  <2>6t. CASE LockTaken(j)
    BY <2>6t DEF LockTaken
  <2>6. CASE LockBusy(j)
    BY <2>6 DEF LockBusy
  <2>7. CASE LockStale(j)
    BY <2>7 DEF LockStale
  <2>8. CASE Reap(j)
    BY <2>8 DEF Reap
  <2>9. CASE RemoveLock(j)
    BY <2>9 DEF RemoveLock
  <2>10. CASE Look(j, "wait", "waitJudge", "wait")
    BY <2>10 DEF Look
  <2>10j. CASE Judge(j, "waitJudge", "waitClear", "done")
    BY <2>10j DEF Judge
  <2>11. CASE Clear(j, "waitClear", "wait")
    BY <2>11 DEF Clear
  <2>12. CASE StopWaiting(j)
    BY <2>12 DEF StopWaiting
  <2>13. CASE NameLock(j)
    BY <2>13 DEF NameLock
  <2>14. CASE Look(j, "recheck", "recheckJudge", "plan")
    BY <2>14 DEF Look
  <2>14j. CASE Judge(j, "recheckJudge", "recheckClear", "release")
    BY <2>14j DEF Judge
  <2>15. CASE Clear(j, "recheckClear", "plan")
    BY <2>15 DEF Clear
  <2>16. CASE Plan(j)
    BY <2>16 DEF Plan
  <2>17. CASE Attempt(j)
    BY <2>17 DEF Attempt
  <2>18. CASE Clone(j)
    BY <2>18 DEF Clone
  <2>19. CASE AssertOwned(j)
    BY <2>19 DEF AssertOwned
  <2>20. CASE Spawn(j)
    BY <2>20 DEF Spawn
  <2>21. CASE WritePid(j)
    BY <2>21 DEF WritePid
  <2>22. CASE WriteMarker(j)
    BY <2>22 DEF WriteMarker
  <2>23. CASE SeeRunning(j)
    BY <2>23 DEF SeeRunning
  <2>24. CASE GiveUp(j)
    BY <2>24 DEF GiveUp
  <2>25. CASE FailStart(j)
    BY <2>25 DEF FailStart
  <2>26. CASE Disown(j)
    BY <2>26 DEF Disown
  <2>27. CASE Clear(j, "disownClear", "release")
    BY <2>27 DEF Clear
  <2>28. CASE Release(j)
    BY <2>28 DEF Release
  <2>29. CASE DropLock(j)
    BY <2>29 DEF DropLock
  <2> QED BY <1>1, <2>1, <2>1j, <2>2, <2>3, <2>4, <2>5, <2>6, <2>6t, <2>7, <2>8, <2>9, <2>10, <2>10j, <2>11, <2>12, <2>13, <2>14, <2>14j, <2>15, <2>16, <2>17, <2>18, <2>19, <2>20, <2>21, <2>22, <2>23, <2>24, <2>25, <2>26, <2>27, <2>28, <2>29 DEF Supervise
<1>2. ASSUME NEW j \in Jobs, Toil(j) PROVE LockInv'
  <2>1. CASE AwaitMarker(j)
    BY <2>1 DEF AwaitMarker
  <2>2. CASE WorkerClear(j, "awaitClear", "await")
    BY <2>2 DEF WorkerClear
  <2>3. CASE Begin(j)
    BY <2>3 DEF Begin
  <2>4. CASE Run(j)
    BY <2>4 DEF Run
  <2>5. CASE ClientEnds(j)
    BY <2>5 DEF ClientEnds
  <2>6. CASE CheckOwner(j)
    BY <2>6 DEF CheckOwner
  <2>7. CASE WorkerClear(j, "checkClear", "fail")
    BY <2>7 DEF WorkerClear
  <2>8. CASE Stage(j)
    BY <2>8 DEF Stage
  <2>9. CASE Commit(j)
    BY <2>9 DEF Commit
  <2>10. CASE Publish(j)
    BY <2>10 DEF Publish
  <2>11. CASE Finish(j)
    BY <2>11 DEF Finish
  <2>12. CASE DropMarker(j)
    BY <2>12 DEF DropMarker
  <2>13. CASE WorkerClear(j, "dropClear", "gone")
    BY <2>13 DEF WorkerClear
  <2> QED BY <1>2, <2>1, <2>2, <2>3, <2>4, <2>5, <2>6, <2>7, <2>8, <2>9, <2>10, <2>11, <2>12, <2>13 DEF Toil
<1>3. ASSUME NEW j \in Jobs, Ask(j) PROVE LockInv'
  BY <1>3 DEF Ask
<1>4. ASSUME NEW j \in Jobs, Kill(j) PROVE LockInv'
  BY <1>4 DEF Kill
<1>5. CASE Push
  BY <1>5 DEF Push
<1>6. CASE Cool
  BY <1>6 DEF Cool
<1>7. CASE UNCHANGED vars
  BY <1>7 DEF vars
<1> QED BY <1>1, <1>2, <1>3, <1>4, <1>5, <1>6, <1>7 DEF Next

\* While no lock is stolen and no marker torn, a worker's marker is its own.
LEMMA MarkerKeeps ==
  /\ TypeOK /\ WorkerInv /\ (~stolen => LockInv) /\ (~stolen /\ ~torn => MarkerInv)
  /\ [Next]_vars
  => (~stolen /\ ~torn => MarkerInv)'
<1> SUFFICES ASSUME TypeOK, WorkerInv, ~stolen => LockInv, ~stolen /\ ~torn => MarkerInv,
                    [Next]_vars, ~stolen', ~torn'
             PROVE  MarkerInv'
  OBVIOUS
<1> USE JobsAssumption DEF TypeOK, WorkerInv, LockInv, MarkerInv, Quiet, Prepared, Early, Owning, GivingUp,
                           Holding, Held, Alive, Abandoned, At, Work, Record, Unmark, Unlock, jobFiles, Working
<1>1. ASSUME NEW j \in Jobs, Supervise(j) PROVE MarkerInv'
  <2>1. CASE Look(j, "look", "lookJudge", "inspect")
    BY <2>1 DEF Look
  <2>1j. CASE Judge(j, "lookJudge", "lookClear", "done")
    BY <2>1j DEF Judge
  <2>2. CASE Clear(j, "lookClear", "inspect")
    BY <2>2 DEF Clear
  <2>3. CASE Inspect(j)
    BY <2>3 DEF Inspect
  <2>4. CASE NothingDue(j)
    BY <2>4 DEF NothingDue
  <2>5. CASE TakeLock(j)
    BY <2>5 DEF TakeLock
  <2>6t. CASE LockTaken(j)
    BY <2>6t DEF LockTaken
  <2>6. CASE LockBusy(j)
    BY <2>6 DEF LockBusy
  <2>7. CASE LockStale(j)
    BY <2>7 DEF LockStale
  <2>8. CASE Reap(j)
    BY <2>8 DEF Reap
  <2>9. CASE RemoveLock(j)
    BY <2>9 DEF RemoveLock
  <2>10. CASE Look(j, "wait", "waitJudge", "wait")
    BY <2>10 DEF Look
  <2>10j. CASE Judge(j, "waitJudge", "waitClear", "done")
    BY <2>10j DEF Judge
  <2>11. CASE Clear(j, "waitClear", "wait")
    BY <2>11 DEF Clear
  <2>12. CASE StopWaiting(j)
    BY <2>12 DEF StopWaiting
  <2>13. CASE NameLock(j)
    BY <2>13 DEF NameLock
  <2>14. CASE Look(j, "recheck", "recheckJudge", "plan")
    BY <2>14 DEF Look
  <2>14j. CASE Judge(j, "recheckJudge", "recheckClear", "release")
    BY <2>14j DEF Judge
  <2>15. CASE Clear(j, "recheckClear", "plan")
    BY <2>15 DEF Clear
  <2>16. CASE Plan(j)
    BY <2>16 DEF Plan
  <2>17. CASE Attempt(j)
    BY <2>17 DEF Attempt
  <2>18. CASE Clone(j)
    BY <2>18 DEF Clone
  <2>19. CASE AssertOwned(j)
    BY <2>19 DEF AssertOwned
  <2>20. CASE Spawn(j)
    BY <2>20 DEF Spawn
  <2>21. CASE WritePid(j)
    BY <2>21 DEF WritePid
  <2>22. CASE WriteMarker(j)
    BY <2>22 DEF WriteMarker
  <2>23. CASE SeeRunning(j)
    BY <2>23 DEF SeeRunning
  <2>24. CASE GiveUp(j)
    BY <2>24 DEF GiveUp
  <2>25. CASE FailStart(j)
    BY <2>25 DEF FailStart
  <2>26. CASE Disown(j)
    BY <2>26 DEF Disown
  <2>27. CASE Clear(j, "disownClear", "release")
    BY <2>27 DEF Clear
  <2>28. CASE Release(j)
    BY <2>28 DEF Release
  <2>29. CASE DropLock(j)
    BY <2>29 DEF DropLock
  <2> QED BY <1>1, <2>1, <2>1j, <2>2, <2>3, <2>4, <2>5, <2>6, <2>6t, <2>7, <2>8, <2>9, <2>10, <2>10j, <2>11, <2>12, <2>13, <2>14, <2>14j, <2>15, <2>16, <2>17, <2>18, <2>19, <2>20, <2>21, <2>22, <2>23, <2>24, <2>25, <2>26, <2>27, <2>28, <2>29 DEF Supervise
<1>2. ASSUME NEW j \in Jobs, Toil(j) PROVE MarkerInv'
  <2>1. CASE AwaitMarker(j)
    BY <2>1 DEF AwaitMarker
  <2>2. CASE WorkerClear(j, "awaitClear", "await")
    BY <2>2 DEF WorkerClear
  <2>3. CASE Begin(j)
    BY <2>3 DEF Begin
  <2>4. CASE Run(j)
    BY <2>4 DEF Run
  <2>5. CASE ClientEnds(j)
    BY <2>5 DEF ClientEnds
  <2>6. CASE CheckOwner(j)
    BY <2>6 DEF CheckOwner
  <2>7. CASE WorkerClear(j, "checkClear", "fail")
    BY <2>7 DEF WorkerClear
  <2>8. CASE Stage(j)
    BY <2>8 DEF Stage
  <2>9. CASE Commit(j)
    BY <2>9 DEF Commit
  <2>10. CASE Publish(j)
    BY <2>10 DEF Publish
  <2>11. CASE Finish(j)
    BY <2>11 DEF Finish
  <2>12. CASE DropMarker(j)
    BY <2>12 DEF DropMarker
  <2>13. CASE WorkerClear(j, "dropClear", "gone")
    BY <2>13 DEF WorkerClear
  <2> QED BY <1>2, <2>1, <2>2, <2>3, <2>4, <2>5, <2>6, <2>7, <2>8, <2>9, <2>10, <2>11, <2>12, <2>13 DEF Toil
<1>3. ASSUME NEW j \in Jobs, Ask(j) PROVE MarkerInv'
  BY <1>3 DEF Ask
<1>4. ASSUME NEW j \in Jobs, Kill(j) PROVE MarkerInv'
  BY <1>4 DEF Kill
<1>5. CASE Push
  BY <1>5 DEF Push
<1>6. CASE Cool
  BY <1>6 DEF Cool
<1>7. CASE UNCHANGED vars
  BY <1>7 DEF vars
<1> QED BY <1>1, <1>2, <1>3, <1>4, <1>5, <1>6, <1>7 DEF Next

\* While no lock is stolen, every baseline has one job on its way to replace it.
LEMMA BaselineKeeps ==
  TypeOK /\ WorkerInv /\ (~stolen => LockInv /\ BaselineInv) /\ [Next]_vars
  => (~stolen => BaselineInv)'
<1> SUFFICES ASSUME TypeOK, WorkerInv, ~stolen => LockInv /\ BaselineInv, [Next]_vars, ~stolen'
             PROVE  BaselineInv'
  OBVIOUS
<1> USE JobsAssumption DEF TypeOK, WorkerInv, BaselineInv, LockInv, Engaged, Prepared, Early, Launched, Owning,
                           Holding, At, Work, Record, Unmark, Unlock, Alive, jobFiles, Working
<1>1. ASSUME NEW j \in Jobs, Supervise(j) PROVE BaselineInv'
  <2>1. CASE Look(j, "look", "lookJudge", "inspect")
    BY <2>1 DEF Look
  <2>1j. CASE Judge(j, "lookJudge", "lookClear", "done")
    BY <2>1j DEF Judge
  <2>2. CASE Clear(j, "lookClear", "inspect")
    BY <2>2 DEF Clear
  <2>3. CASE Inspect(j)
    BY <2>3 DEF Inspect, WorkDue
  <2>4. CASE NothingDue(j)
    BY <2>4 DEF NothingDue
  <2>5. CASE TakeLock(j)
    BY <2>5 DEF TakeLock
  <2>6t. CASE LockTaken(j)
    BY <2>6t DEF LockTaken
  <2>6. CASE LockBusy(j)
    BY <2>6 DEF LockBusy
  <2>7. CASE LockStale(j)
    BY <2>7 DEF LockStale
  <2>8. CASE Reap(j)
    BY <2>8 DEF Reap
  <2>9. CASE RemoveLock(j)
    BY <2>9 DEF RemoveLock
  <2>10. CASE Look(j, "wait", "waitJudge", "wait")
    BY <2>10 DEF Look
  <2>10j. CASE Judge(j, "waitJudge", "waitClear", "done")
    BY <2>10j DEF Judge
  <2>11. CASE Clear(j, "waitClear", "wait")
    BY <2>11 DEF Clear
  <2>12. CASE StopWaiting(j)
    BY <2>12 DEF StopWaiting
  <2>13. CASE NameLock(j)
    BY <2>13 DEF NameLock
  <2>14. CASE Look(j, "recheck", "recheckJudge", "plan")
    BY <2>14 DEF Look
  <2>14j. CASE Judge(j, "recheckJudge", "recheckClear", "release")
    BY <2>14j DEF Judge
  <2>15. CASE Clear(j, "recheckClear", "plan")
    BY <2>15 DEF Clear
  <2>16. CASE Plan(j)
    BY <2>16 DEF Plan, Unchanged, WorkDue
  <2>17. CASE Attempt(j)
    BY <2>17 DEF Attempt
  <2>18. CASE Clone(j)
    BY <2>18 DEF Clone
  <2>19. CASE AssertOwned(j)
    BY <2>19 DEF AssertOwned
  <2>20. CASE Spawn(j)
    BY <2>20 DEF Spawn
  <2>21. CASE WritePid(j)
    BY <2>21 DEF WritePid
  <2>22. CASE WriteMarker(j)
    BY <2>22 DEF WriteMarker
  <2>23. CASE SeeRunning(j)
    BY <2>23 DEF SeeRunning
  <2>24. CASE GiveUp(j)
    BY <2>24 DEF GiveUp
  <2>25. CASE FailStart(j)
    BY <2>25 DEF FailStart
  <2>26. CASE Disown(j)
    BY <2>26 DEF Disown
  <2>27. CASE Clear(j, "disownClear", "release")
    BY <2>27 DEF Clear
  <2>28. CASE Release(j)
    BY <2>28 DEF Release
  <2>29. CASE DropLock(j)
    BY <2>29 DEF DropLock
  <2> QED BY <1>1, <2>1, <2>1j, <2>2, <2>3, <2>4, <2>5, <2>6, <2>6t, <2>7, <2>8, <2>9, <2>10, <2>10j, <2>11, <2>12, <2>13, <2>14, <2>14j, <2>15, <2>16, <2>17, <2>18, <2>19, <2>20, <2>21, <2>22, <2>23, <2>24, <2>25, <2>26, <2>27, <2>28, <2>29 DEF Supervise
<1>2. ASSUME NEW j \in Jobs, Toil(j) PROVE BaselineInv'
  <2>1. CASE AwaitMarker(j)
    BY <2>1 DEF AwaitMarker
  <2>2. CASE WorkerClear(j, "awaitClear", "await")
    BY <2>2 DEF WorkerClear
  <2>3. CASE Begin(j)
    BY <2>3 DEF Begin
  <2>4. CASE Run(j)
    BY <2>4 DEF Run
  <2>5. CASE ClientEnds(j)
    BY <2>5 DEF ClientEnds
  <2>6. CASE CheckOwner(j)
    BY <2>6 DEF CheckOwner
  <2>7. CASE WorkerClear(j, "checkClear", "fail")
    BY <2>7 DEF WorkerClear
  <2>8. CASE Stage(j)
    BY <2>8 DEF Stage
  <2>9. CASE Commit(j)
    BY <2>9 DEF Commit
  <2>10. CASE Publish(j)
    BY <2>10 DEF Publish
  <2>11. CASE Finish(j)
    BY <2>11 DEF Finish
  <2>12. CASE DropMarker(j)
    BY <2>12 DEF DropMarker
  <2>13. CASE WorkerClear(j, "dropClear", "gone")
    BY <2>13 DEF WorkerClear
  <2> QED BY <1>2, <2>1, <2>2, <2>3, <2>4, <2>5, <2>6, <2>7, <2>8, <2>9, <2>10, <2>11, <2>12, <2>13 DEF Toil
<1>3. ASSUME NEW j \in Jobs, Ask(j) PROVE BaselineInv'
  BY <1>3 DEF Ask
<1>4. ASSUME NEW j \in Jobs, Kill(j) PROVE BaselineInv'
  BY <1>4 DEF Kill
<1>5. CASE Push
  BY <1>5 DEF Push
<1>6. CASE Cool
  BY <1>6 DEF Cool
<1>7. CASE UNCHANGED vars
  BY <1>7 DEF vars
<1> QED BY <1>1, <1>2, <1>3, <1>4, <1>5, <1>6, <1>7 DEF Next

\* Every step keeps ReportInv.
LEMMA ReportKeeps == TypeOK /\ WorkerInv /\ ReportInv /\ [Next]_vars => ReportInv'
<1> SUFFICES ASSUME TypeOK, WorkerInv, ReportInv, [Next]_vars PROVE ReportInv'
  OBVIOUS
<1> USE JobsAssumption DEF TypeOK, WorkerInv, ReportInv, Unannounced, Past, Ended, Early, Prepared, GivingUp,
                           Alive, At, Work, Record, Unmark, Unlock, jobFiles, Working
<1>1. ASSUME NEW j \in Jobs, Supervise(j) PROVE ReportInv'
  <2>1. CASE Look(j, "look", "lookJudge", "inspect")
    BY <2>1 DEF Look
  <2>1j. CASE Judge(j, "lookJudge", "lookClear", "done")
    BY <2>1j DEF Judge
  <2>2. CASE Clear(j, "lookClear", "inspect")
    BY <2>2 DEF Clear
  <2>3. CASE Inspect(j)
    BY <2>3 DEF Inspect
  <2>4. CASE NothingDue(j)
    BY <2>4 DEF NothingDue
  <2>5. CASE TakeLock(j)
    BY <2>5 DEF TakeLock
  <2>6t. CASE LockTaken(j)
    BY <2>6t DEF LockTaken
  <2>6. CASE LockBusy(j)
    BY <2>6 DEF LockBusy
  <2>7. CASE LockStale(j)
    BY <2>7 DEF LockStale
  <2>8. CASE Reap(j)
    BY <2>8 DEF Reap
  <2>9. CASE RemoveLock(j)
    BY <2>9 DEF RemoveLock
  <2>10. CASE Look(j, "wait", "waitJudge", "wait")
    BY <2>10 DEF Look
  <2>10j. CASE Judge(j, "waitJudge", "waitClear", "done")
    BY <2>10j DEF Judge
  <2>11. CASE Clear(j, "waitClear", "wait")
    BY <2>11 DEF Clear
  <2>12. CASE StopWaiting(j)
    BY <2>12 DEF StopWaiting
  <2>13. CASE NameLock(j)
    BY <2>13 DEF NameLock
  <2>14. CASE Look(j, "recheck", "recheckJudge", "plan")
    BY <2>14 DEF Look
  <2>14j. CASE Judge(j, "recheckJudge", "recheckClear", "release")
    BY <2>14j DEF Judge
  <2>15. CASE Clear(j, "recheckClear", "plan")
    BY <2>15 DEF Clear
  <2>16. CASE Plan(j)
    BY <2>16 DEF Plan
  <2>17. CASE Attempt(j)
    BY <2>17 DEF Attempt
  <2>18. CASE Clone(j)
    BY <2>18 DEF Clone
  <2>19. CASE AssertOwned(j)
    BY <2>19 DEF AssertOwned
  <2>20. CASE Spawn(j)
    BY <2>20 DEF Spawn
  <2>21. CASE WritePid(j)
    BY <2>21 DEF WritePid
  <2>22. CASE WriteMarker(j)
    BY <2>22 DEF WriteMarker
  <2>23. CASE SeeRunning(j)
    BY <2>23 DEF SeeRunning
  <2>24. CASE GiveUp(j)
    BY <2>24 DEF GiveUp
  <2>25. CASE FailStart(j)
    BY <2>25 DEF FailStart
  <2>26. CASE Disown(j)
    BY <2>26 DEF Disown
  <2>27. CASE Clear(j, "disownClear", "release")
    BY <2>27 DEF Clear
  <2>28. CASE Release(j)
    BY <2>28 DEF Release
  <2>29. CASE DropLock(j)
    BY <2>29 DEF DropLock
  <2> QED BY <1>1, <2>1, <2>1j, <2>2, <2>3, <2>4, <2>5, <2>6, <2>6t, <2>7, <2>8, <2>9, <2>10, <2>10j, <2>11, <2>12, <2>13, <2>14, <2>14j, <2>15, <2>16, <2>17, <2>18, <2>19, <2>20, <2>21, <2>22, <2>23, <2>24, <2>25, <2>26, <2>27, <2>28, <2>29 DEF Supervise
<1>2. ASSUME NEW j \in Jobs, Toil(j) PROVE ReportInv'
  <2>1. CASE AwaitMarker(j)
    BY <2>1 DEF AwaitMarker
  <2>2. CASE WorkerClear(j, "awaitClear", "await")
    BY <2>2 DEF WorkerClear
  <2>3. CASE Begin(j)
    BY <2>3 DEF Begin
  <2>4. CASE Run(j)
    BY <2>4 DEF Run
  <2>5. CASE ClientEnds(j)
    BY <2>5 DEF ClientEnds
  <2>6. CASE CheckOwner(j)
    BY <2>6 DEF CheckOwner
  <2>7. CASE WorkerClear(j, "checkClear", "fail")
    BY <2>7 DEF WorkerClear
  <2>8. CASE Stage(j)
    BY <2>8 DEF Stage
  <2>9. CASE Commit(j)
    BY <2>9 DEF Commit
  <2>10. CASE Publish(j)
    BY <2>10 DEF Publish
  <2>11. CASE Finish(j)
    BY <2>11 DEF Finish
  <2>12. CASE DropMarker(j)
    BY <2>12 DEF DropMarker
  <2>13. CASE WorkerClear(j, "dropClear", "gone")
    BY <2>13 DEF WorkerClear
  <2> QED BY <1>2, <2>1, <2>2, <2>3, <2>4, <2>5, <2>6, <2>7, <2>8, <2>9, <2>10, <2>11, <2>12, <2>13 DEF Toil
<1>3. ASSUME NEW j \in Jobs, Ask(j) PROVE ReportInv'
  BY <1>3 DEF Ask
<1>4. ASSUME NEW j \in Jobs, Kill(j) PROVE ReportInv'
  BY <1>4 DEF Kill, Starting, Holding
<1>5. CASE Push
  BY <1>5 DEF Push
<1>6. CASE Cool
  BY <1>6 DEF Cool
<1>7. CASE UNCHANGED vars
  BY <1>7 DEF vars
<1> QED BY <1>1, <1>2, <1>3, <1>4, <1>5, <1>6, <1>7 DEF Next

-----------------------------------------------------------------------------
\* The inductive invariant.
THEOREM JobsInductive == Spec => []JobsInv
<1>1. Init => JobsInv
  <2> SUFFICES ASSUME Init PROVE JobsInv
    OBVIOUS
  <2> USE JobsAssumption DEF Init
  <2>1. TypeOK
    <3>1. /\ lock \in Jobs \cup {None, Unnamed} /\ marker \in Jobs \cup {None}
          /\ judged \in [Jobs -> Jobs \cup {None}]
      OBVIOUS
    <3>2. /\ starter \in [Jobs -> {"idle", "killed"}] /\ worker \in [Jobs -> {"none", "killed"}]
          /\ status \in [Jobs -> {"none", "started"}]
      OBVIOUS
    <3>3. /\ tip \in 1..MaxTip /\ baseline \in 0..MaxTip /\ cooling \in -1..MaxTip
          /\ base \in [Jobs -> 0..MaxTip] /\ head \in [Jobs -> 0..MaxTip]
      OBVIOUS
    <3> QED
      BY <3>1, <3>2, <3>3 DEF TypeOK, Statuses
  <2>2. \A j \in Jobs : starter[j] \in {"idle", "killed"} /\ worker[j] \in {"none", "killed"}
                       /\ status[j] \in {"none", "started"} /\ base[j] = 0
    OBVIOUS
  <2>3. \A j \in Jobs : starter[j] = "idle" => worker[j] = "none" /\ marker # j
    OBVIOUS
  <2>4. WorkerInv /\ LockInv /\ MarkerInv
    BY <2>2, <2>3 DEF WorkerInv, LockInv, MarkerInv, Prepared, Early, Quiet, Owning, GivingUp, Holding
  <2>5. ReportInv
    BY <2>2, <2>3 DEF ReportInv, Unannounced, Past, Ended, Early, Prepared, GivingUp
  <2>6. BaselineInv
    BY <2>2 DEF BaselineInv, Engaged, Prepared, Owning, Launched
  <2> QED
    BY <2>1, <2>4, <2>5, <2>6 DEF JobsInv
<1>2. JobsInv /\ [Next]_vars => JobsInv'
  BY TypeKeeps, WorkerKeeps, ReportKeeps, LockKeeps, MarkerKeeps, BaselineKeeps DEF JobsInv
<1> QED
  BY <1>1, <1>2, PTL DEF Spec

\* However many commands there are and whichever processes are killed: two workers are at
\* work at once only if one has been given up, or if a lock was stolen or a marker torn.
THEOREM OneWorkerAtATime == Spec => []OneWorker
<1>1. JobsInv => OneWorker
  BY DEF JobsInv, MarkerInv, OneWorker, AtWork, Owning
<1> QED
  BY <1>1, JobsInductive, PTL

\* A worker that has ended by itself has left a verdict, or left it to its supervisor.
THEOREM EveryEndIsReported == Spec => []EndedJobsReport
<1>1. JobsInv => EndedJobsReport
  BY DEF JobsInv, ReportInv, Ended, EndedJobsReport
<1> QED
  BY <1>1, JobsInductive, PTL

\* Until a lock is stolen, every published baseline follows the one its job started from,
\* also when markers are torn.
THEOREM BaselinesFollow == Spec => PublishesItsBase
<1> DEFINE Follows == baseline' # baseline =>
                        \/ stolen
                        \/ /\ baseline' > baseline
                           /\ \E j \in automatic : worker[j] = "publish" /\ base[j] = baseline
<1>1. JobsInv /\ [Next]_vars => Follows
  <2> SUFFICES ASSUME JobsInv, [Next]_vars, baseline' # baseline, ~stolen PROVE Follows
    OBVIOUS
  <2> USE DEF At, Work, Record, Unmark, Unlock, jobFiles
  <2>1. PICK j \in Jobs : Publish(j)
    <3>1. \A j \in Jobs : Supervise(j) => baseline' = baseline
      BY DEF Supervise, Look, Judge, Clear, Inspect, NothingDue, TakeLock, LockTaken, LockBusy, LockStale, Reap, RemoveLock,
             StopWaiting, NameLock, Plan, Attempt, Clone, AssertOwned, Spawn, WritePid, WriteMarker,
             SeeRunning, GiveUp, FailStart, Disown, Release, DropLock
    <3>2. \A j \in Jobs : Toil(j) => baseline' = baseline \/ Publish(j)
      BY DEF Toil, AwaitMarker, WorkerClear, Begin, Run, ClientEnds, CheckOwner, Stage, Commit, Finish,
             DropMarker
    <3> QED
      BY <3>1, <3>2 DEF Next, Ask, Kill, Push, Cool, vars
  <2>2. worker[j] = "publish" /\ baseline' = head[j]
    BY <2>1 DEF Publish
  <2>3. j \in automatic /\ base[j] = baseline /\ base[j] < head[j]
    BY <2>2 DEF JobsInv, WorkerInv, BaselineInv, Engaged, Launched, Owning
  <2> QED
    BY <2>2, <2>3
<1> QED
  BY <1>1, JobsInductive, PTL DEF Spec, PublishesItsBase

\* What VerdictsStand says of one step.
Stands ==
  /\ \A j \in told : starter[j] \in {"release", "unlock", "done"} =>
         worker[j] # "publish" /\ status'[j] # "succeeded"
  /\ \A j \in Jobs : status[j] = "succeeded" => status'[j] = "succeeded"

\* A reported failure is never published or turned into a success, nor the other way round.
THEOREM VerdictsAreFinal == Spec => VerdictsStand
<1>1. JobsInv /\ [Next]_vars => Stands
  <2> SUFFICES ASSUME JobsInv, [Next]_vars PROVE Stands
    OBVIOUS
  <2> USE DEF TypeOK, ReportInv, WorkerInv, JobsInv, Unannounced, Past, Ended, Early, Prepared, GivingUp,
              At, Work, Record, Unmark, Unlock, jobFiles, Stands
  <2>1. ASSUME NEW j \in Jobs, Supervise(j) PROVE Stands
    <3>1. CASE Look(j, "look", "lookJudge", "inspect")
      BY <3>1 DEF Look
    <3>1j. CASE Judge(j, "lookJudge", "lookClear", "done")
      BY <3>1j DEF Judge
    <3>2. CASE Clear(j, "lookClear", "inspect")
      BY <3>2 DEF Clear
    <3>3. CASE Inspect(j)
      BY <3>3 DEF Inspect
    <3>4. CASE NothingDue(j)
      BY <3>4 DEF NothingDue
    <3>5. CASE TakeLock(j)
      BY <3>5 DEF TakeLock
    <3>6t. CASE LockTaken(j)
      BY <3>6t DEF LockTaken
    <3>6. CASE LockBusy(j)
      BY <3>6 DEF LockBusy
    <3>7. CASE LockStale(j)
      BY <3>7 DEF LockStale
    <3>8. CASE Reap(j)
      BY <3>8 DEF Reap
    <3>9. CASE RemoveLock(j)
      BY <3>9 DEF RemoveLock
    <3>10. CASE Look(j, "wait", "waitJudge", "wait")
      BY <3>10 DEF Look
    <3>10j. CASE Judge(j, "waitJudge", "waitClear", "done")
      BY <3>10j DEF Judge
    <3>11. CASE Clear(j, "waitClear", "wait")
      BY <3>11 DEF Clear
    <3>12. CASE StopWaiting(j)
      BY <3>12 DEF StopWaiting
    <3>13. CASE NameLock(j)
      BY <3>13 DEF NameLock
    <3>14. CASE Look(j, "recheck", "recheckJudge", "plan")
      BY <3>14 DEF Look
    <3>14j. CASE Judge(j, "recheckJudge", "recheckClear", "release")
      BY <3>14j DEF Judge
    <3>15. CASE Clear(j, "recheckClear", "plan")
      BY <3>15 DEF Clear
    <3>16. CASE Plan(j)
      BY <3>16 DEF Plan
    <3>17. CASE Attempt(j)
      BY <3>17 DEF Attempt
    <3>18. CASE Clone(j)
      BY <3>18 DEF Clone
    <3>19. CASE AssertOwned(j)
      BY <3>19 DEF AssertOwned
    <3>20. CASE Spawn(j)
      BY <3>20 DEF Spawn
    <3>21. CASE WritePid(j)
      BY <3>21 DEF WritePid
    <3>22. CASE WriteMarker(j)
      BY <3>22 DEF WriteMarker
    <3>23. CASE SeeRunning(j)
      BY <3>23 DEF SeeRunning
    <3>24. CASE GiveUp(j)
      BY <3>24 DEF GiveUp
    <3>25. CASE FailStart(j)
      BY <3>25 DEF FailStart
    <3>26. CASE Disown(j)
      BY <3>26 DEF Disown
    <3>27. CASE Clear(j, "disownClear", "release")
      BY <3>27 DEF Clear
    <3>28. CASE Release(j)
      BY <3>28 DEF Release
    <3>29. CASE DropLock(j)
      BY <3>29 DEF DropLock
    <3> QED BY <2>1, <3>1, <3>1j, <3>2, <3>3, <3>4, <3>5, <3>6, <3>6t, <3>7, <3>8, <3>9, <3>10, <3>10j, <3>11, <3>12, <3>13, <3>14, <3>14j, <3>15, <3>16, <3>17, <3>18, <3>19, <3>20, <3>21, <3>22, <3>23, <3>24, <3>25, <3>26, <3>27, <3>28, <3>29 DEF Supervise
  <2>2. ASSUME NEW j \in Jobs, Toil(j) PROVE Stands
    <3>1. CASE AwaitMarker(j)
      BY <3>1 DEF AwaitMarker
    <3>2. CASE WorkerClear(j, "awaitClear", "await")
      BY <3>2 DEF WorkerClear
    <3>3. CASE Begin(j)
      BY <3>3 DEF Begin
    <3>4. CASE Run(j)
      BY <3>4 DEF Run
    <3>5. CASE ClientEnds(j)
      BY <3>5 DEF ClientEnds
    <3>6. CASE CheckOwner(j)
      BY <3>6 DEF CheckOwner
    <3>7. CASE WorkerClear(j, "checkClear", "fail")
      BY <3>7 DEF WorkerClear
    <3>8. CASE Stage(j)
      BY <3>8 DEF Stage
    <3>9. CASE Commit(j)
      BY <3>9 DEF Commit
    <3>10. CASE Publish(j)
      BY <3>10 DEF Publish
    <3>11. CASE Finish(j)
      BY <3>11 DEF Finish
    <3>12. CASE DropMarker(j)
      BY <3>12 DEF DropMarker
    <3>13. CASE WorkerClear(j, "dropClear", "gone")
      BY <3>13 DEF WorkerClear
    <3> QED BY <2>2, <3>1, <3>2, <3>3, <3>4, <3>5, <3>6, <3>7, <3>8, <3>9, <3>10, <3>11, <3>12, <3>13 DEF Toil
  <2>3. ASSUME NEW j \in Jobs, Ask(j) PROVE Stands
    BY <2>3 DEF Ask
  <2>4. ASSUME NEW j \in Jobs, Kill(j) PROVE Stands
    BY <2>4 DEF Kill
  <2>5. CASE Push
    BY <2>5 DEF Push
  <2>6. CASE Cool
    BY <2>6 DEF Cool
  <2>7. CASE UNCHANGED vars
    BY <2>7 DEF vars
  <2> QED BY <2>1, <2>2, <2>3, <2>4, <2>5, <2>6, <2>7 DEF Next
<1> QED
  BY <1>1, JobsInductive, PTL DEF Spec, VerdictsStand, Stands
=============================================================================
