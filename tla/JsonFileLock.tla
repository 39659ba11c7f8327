---------------------------- MODULE JsonFileLock ----------------------------
(***************************************************************************)
(* The cross-process lock of adapter-common (config-utils.mjs), taken by   *)
(* withJsonFileLock and withJsonFileLockAsync around every shared record:  *)
(* the Backend lifecycle, hook generations, client configuration, quota    *)
(* notices, trial credentials and package replacement.                     *)
(*                                                                         *)
(* Every step below is one system call, or one run of the program between  *)
(* two system calls that others cannot observe.  A call is one use of the  *)
(* lock, with an ownerId of its own; a process may have several calls at   *)
(* once (the asynchronous form), and dies with all of them.                *)
(***************************************************************************)
EXTENDS Integers, FiniteSets

CONSTANTS
  Calls,      \* uses of the lock, each with a unique ownerId
  Processes,  \* process incarnations
  ProcOf,     \* the process that makes each call
  PidOf,      \* the PID of each incarnation; two incarnations may share one
  Files,      \* inode numbers, recycled once nothing refers to them
  None,       \* no file, no descriptor
  Empty       \* the content of a lock file without a readable owner record

ASSUME CallsAssumption ==
  /\ ProcOf \in [Calls -> Processes]
  /\ None \notin Files
  /\ Empty \notin Calls

VARIABLES
  proc,       \* "unborn", "live" or "dead", per incarnation
  pc,         \* where each call is
  lockPath,   \* the inode the lock's path names, or None
  content,    \* the owner record (a call) or Empty, per inode
  desc,       \* the descriptor a call holds on the file it created
  claim,      \* the inode a call's reap claim is a hard link to
  alone,      \* whether fstat found the descriptor's file with one link
  snapRaw,    \* content in the snapshot of a supposed stale lock
  snapFile    \* inode in that snapshot

vars == <<proc, pc, lockPath, content, desc, claim, alone, snapRaw, snapFile>>

ReapSteps == {"sweep", "link", "claimStat", "claimRead", "pathStat", "unlink"}
Acquired  == {"critical", "relRead", "relUnlink"}
\* A call that ended "left" something of its own, which the host refused to remove.
Endings     == {"done", "left", "crashed"}
Steps     == {"idle", "open", "write", "fstat", "stat", "snapRead", "snapStat",
              "dropReaped", "dropKept", "wait"} \cup ReapSteps \cup Acquired \cup Endings

-----------------------------------------------------------------------------
(* Links of an inode: the lock path and the claims made by hard link.       *)

Claimants(f) == {c \in Calls : claim[c] = f}

\* st_nlink of 1 and of 2.
OneLink(f)  == IF lockPath = f THEN Claimants(f) = {}
               ELSE \E c \in Calls : Claimants(f) = {c}
TwoLinks(f) == IF lockPath = f THEN \E c \in Calls : Claimants(f) = {c}
               ELSE \E c, d \in Calls : c # d /\ Claimants(f) = {c, d}

\* No name and no descriptor keeps the inode: the file system may reuse it.
Free(f) == lockPath # f /\ \A c \in Calls : claim[c] # f /\ desc[c] # f

Live(c)    == proc[ProcOf[c]] = "live"
PidLive(c) == \E q \in Processes : proc[q] = "live" /\ PidOf[q] = PidOf[ProcOf[c]]

\* Mutant: a lock file's age alone makes it stale.
StaleByAge(raw) == TRUE

(* removeStaleJsonFileLock's verdict.  A record without a readable PID is   *)
(* stale by age alone, which the model leaves open.  A live owner's process *)
(* birth always matches its record; when another incarnation has the PID,   *)
(* the verdict depends on age and on whether the birth could be observed.   *)
CanBeStale(raw) == raw # Empty => ~Live(raw)
CanBeKept(raw)  == raw # Empty => PidLive(raw)

InCriticalSection(c) == pc[c] \in Acquired

-----------------------------------------------------------------------------
Init ==
  /\ proc \in [Processes -> {"unborn", "live"}]
  /\ \A p, q \in Processes :
       proc[p] = "live" /\ proc[q] = "live" /\ PidOf[p] = PidOf[q] => p = q
  /\ pc = [c \in Calls |-> "idle"]
  /\ lockPath = None
  /\ content = [f \in Files |-> Empty]
  /\ desc = [c \in Calls |-> None]
  /\ claim = [c \in Calls |-> None]
  /\ alone = [c \in Calls |-> FALSE]
  /\ snapRaw = [c \in Calls |-> Empty]
  /\ snapFile = [c \in Calls |-> None]

At(c, step)   == Live(c) /\ pc[c] = step
Goto(c, step) == pc' = [pc EXCEPT ![c] = step]
\* removeStaleJsonFileLock returns: its snapshot goes out of scope.
DropSnapshot(c) ==
  /\ snapRaw' = [snapRaw EXCEPT ![c] = Empty]
  /\ snapFile' = [snapFile EXCEPT ![c] = None]
\* closeJsonFileLockAcquisition of an unfinished acquisition: it empties its record
\* through the descriptor, unless the host refuses that, and never unlinks the path.
Abandon(c, end) ==
  /\ \/ /\ content' = IF desc[c] = None THEN content
                       ELSE [content EXCEPT ![desc[c]] = Empty]
        /\ Goto(c, end)
     \/ desc[c] # None /\ content' = content /\ Goto(c, "left")
  /\ desc' = [desc EXCEPT ![c] = None]
  /\ alone' = [alone EXCEPT ![c] = FALSE]
  /\ DropSnapshot(c)
\* tryAcquireJsonFileLock again: a descriptor still held skips the open.
Retry(c)      == Goto(c, IF desc[c] = None THEN "open" ELSE "fstat")

Begin(c) ==
  /\ At(c, "idle")
  /\ Goto(c, "open")
  /\ UNCHANGED <<proc, lockPath, content, desc, claim, alone, snapRaw, snapFile>>

-----------------------------------------------------------------------------
(* tryAcquireJsonFileLock                                                  *)

\* openSync(lockPath, "wx") creates an empty file.
CreateLock(c) ==
  /\ At(c, "open")
  /\ lockPath = None
  /\ \E f \in Files :
       /\ Free(f)
       /\ lockPath' = f
       /\ content' = [content EXCEPT ![f] = Empty]
       /\ desc' = [desc EXCEPT ![c] = f]
  /\ Goto(c, "write")
  /\ UNCHANGED <<proc, claim, alone, snapRaw, snapFile>>

\* Windows may deny the exclusive open while a deleted lock is still open; the
\* call then waits without looking for a stale lock.
OpenDenied(c) ==
  /\ At(c, "open")
  /\ Goto(c, "wait")
  /\ UNCHANGED <<proc, lockPath, content, desc, claim, alone, snapRaw, snapFile>>

LockExists(c) ==
  /\ At(c, "open")
  /\ lockPath # None
  /\ Goto(c, "snapRead")
  /\ UNCHANGED <<proc, lockPath, content, desc, claim, alone, snapRaw, snapFile>>

WriteOwner(c) ==
  /\ At(c, "write")
  /\ content' = [content EXCEPT ![desc[c]] = c]
  /\ Goto(c, "fstat")
  /\ UNCHANGED <<proc, lockPath, desc, claim, alone, snapRaw, snapFile>>

\* A failed write leaves the incomplete record for stale recovery and throws: the
\* release that follows finds that it does not parse, or someone else's in its place.
WriteFails(c) ==
  /\ At(c, "write")
  /\ desc' = [desc EXCEPT ![c] = None]
  /\ Goto(c, "done")
  /\ UNCHANGED <<proc, lockPath, content, claim, alone, snapRaw, snapFile>>

StatDescriptor(c) ==
  /\ At(c, "fstat")
  /\ alone' = [alone EXCEPT ![c] = OneLink(desc[c])]
  /\ Goto(c, "stat")
  /\ UNCHANGED <<proc, lockPath, content, desc, claim, snapRaw, snapFile>>

\* The path names another file, or none: an unlinked file is not ownership.
LostPath(c) ==
  /\ At(c, "stat")
  /\ lockPath # desc[c]
  /\ desc' = [desc EXCEPT ![c] = None]
  /\ alone' = [alone EXCEPT ![c] = FALSE]
  /\ Goto(c, "snapRead")
  /\ UNCHANGED <<proc, lockPath, content, claim, snapRaw, snapFile>>

\* A reaper's claim is still on the file: keep the descriptor and wait.
ClaimPending(c) ==
  /\ At(c, "stat")
  /\ lockPath = desc[c]
  /\ ~(alone[c] /\ OneLink(desc[c]))
  /\ alone' = [alone EXCEPT ![c] = FALSE]
  /\ Goto(c, "snapRead")
  /\ UNCHANGED <<proc, lockPath, content, desc, claim, snapRaw, snapFile>>

Acquire(c) ==
  /\ At(c, "stat")
  /\ lockPath = desc[c]
  /\ alone[c] /\ OneLink(desc[c])
  /\ desc' = [desc EXCEPT ![c] = None]
  /\ alone' = [alone EXCEPT ![c] = FALSE]
  /\ Goto(c, "critical")
  /\ UNCHANGED <<proc, lockPath, content, claim, snapRaw, snapFile>>

-----------------------------------------------------------------------------
(* removeStaleJsonFileLock                                                 *)

ReadSnapshot(c) ==
  /\ At(c, "snapRead")
  /\ lockPath # None
  /\ snapRaw' = [snapRaw EXCEPT ![c] = content[lockPath]]
  /\ Goto(c, "snapStat")
  /\ UNCHANGED <<proc, lockPath, content, desc, claim, alone, snapFile>>

SnapshotMissing(c) ==
  /\ \/ At(c, "snapRead")
     \/ At(c, "snapStat")
  /\ lockPath = None
  /\ DropSnapshot(c)
  /\ Goto(c, "wait")
  /\ UNCHANGED <<proc, lockPath, content, desc, claim, alone>>

\* The stat may see another file than the read did.
JudgeStale(c) ==
  /\ At(c, "snapStat")
  /\ lockPath # None
  /\ CanBeStale(snapRaw[c])
  /\ snapFile' = [snapFile EXCEPT ![c] = lockPath]
  /\ Goto(c, "sweep")
  /\ UNCHANGED <<proc, lockPath, content, desc, claim, alone, snapRaw>>

JudgeKept(c) ==
  /\ At(c, "snapStat")
  /\ lockPath # None
  /\ CanBeKept(snapRaw[c])
  /\ DropSnapshot(c)
  /\ Goto(c, "wait")
  /\ UNCHANGED <<proc, lockPath, content, desc, claim, alone>>

\* removeAbandonedReapClaims: claims of dead processes; one whose PID is in
\* use again stays when the birth of the new process cannot be observed.
Abandoned == {d \in Calls : claim[d] # None /\ ~Live(d)}
Sweep(gone) == claim' = [d \in Calls |-> IF d \in gone THEN None ELSE claim[d]]
SweepClaims(c) ==
  /\ At(c, "sweep")
  /\ \E gone \in SUBSET Abandoned :
       /\ \A d \in Abandoned : ~PidLive(d) => d \in gone
       /\ Sweep(gone)
  /\ Goto(c, "link")
  /\ UNCHANGED <<proc, lockPath, content, desc, alone, snapRaw, snapFile>>

\* A claim that cannot be removed: the exception ends the acquisition.
SweepFails(c) ==
  /\ At(c, "sweep")
  /\ \E gone \in SUBSET Abandoned : gone # Abandoned /\ Sweep(gone)
  /\ Abandon(c, "done")
  /\ UNCHANGED <<proc, lockPath>>

LinkClaim(c) ==
  /\ At(c, "link")
  /\ lockPath # None
  /\ claim' = [claim EXCEPT ![c] = lockPath]
  /\ Goto(c, "claimStat")
  /\ UNCHANGED <<proc, lockPath, content, desc, alone, snapRaw, snapFile>>

\* The path is gone, or the host refuses the link.
LinkFails(c) ==
  /\ At(c, "link")
  /\ DropSnapshot(c)
  /\ Goto(c, "wait")
  /\ UNCHANGED <<proc, lockPath, content, desc, claim, alone>>

\* One check of the claim; a failed one drops it.
CheckClaim(c, step, holds, next) ==
  /\ At(c, step)
  /\ Goto(c, IF holds THEN next ELSE "dropKept")
  /\ UNCHANGED <<proc, lockPath, content, desc, claim, alone, snapRaw, snapFile>>

StatClaim(c) ==
  CheckClaim(c, "claimStat",
             claim[c] = snapFile[c] /\ TwoLinks(claim[c]), "claimRead")
ReadClaim(c) ==
  CheckClaim(c, "claimRead", content[claim[c]] = snapRaw[c], "pathStat")
StatPath(c) ==
  CheckClaim(c, "pathStat", lockPath = claim[c] /\ TwoLinks(claim[c]), "unlink")

UnlinkStale(c) ==
  /\ At(c, "unlink")
  /\ lockPath' = None
  /\ Goto(c, "dropReaped")
  /\ UNCHANGED <<proc, content, desc, claim, alone, snapRaw, snapFile>>

UnlinkDenied(c) ==
  /\ At(c, "unlink")
  /\ Goto(c, "dropKept")
  /\ UNCHANGED <<proc, lockPath, content, desc, claim, alone, snapRaw, snapFile>>

DropClaim(c) ==
  /\ claim' = [claim EXCEPT ![c] = None]
  /\ DropSnapshot(c)
  /\ \/ At(c, "dropReaped") /\ Retry(c)
     \/ At(c, "dropKept") /\ Goto(c, "wait")
  /\ UNCHANGED <<proc, lockPath, content, desc, alone>>

\* rmSync of the claim throws out of the acquisition: the claim stays, and keeps the
\* link count up until the process is dead and another reaper sweeps.
ClaimStays(c) ==
  /\ At(c, "dropReaped") \/ At(c, "dropKept")
  /\ Abandon(c, "left")
  /\ UNCHANGED <<proc, lockPath, claim>>

-----------------------------------------------------------------------------
(* withJsonFileLock, withJsonFileLockAsync, releaseJsonFileLock             *)

RetryAfterWait(c) ==
  /\ At(c, "wait")
  /\ Retry(c)
  /\ UNCHANGED <<proc, lockPath, content, desc, claim, alone, snapRaw, snapFile>>

\* Deadline, abort before looking for a stale lock, or a system call that fails.
GivesUpAt == {"open", "fstat", "stat", "snapRead", "wait"}

\* Mutant: the owner record stays behind a timed-out acquisition.
GiveUpKeepsRecord(c) ==
  /\ Live(c) /\ pc[c] \in GivesUpAt
  /\ desc' = [desc EXCEPT ![c] = None]
  /\ alone' = [alone EXCEPT ![c] = FALSE]
  /\ DropSnapshot(c)
  /\ Goto(c, "done")
  /\ UNCHANGED <<proc, lockPath, content, claim>>

GiveUp(c) ==
  /\ Live(c) /\ pc[c] \in GivesUpAt
  /\ Abandon(c, "done")
  /\ UNCHANGED <<proc, lockPath, claim>>

Finish(c) ==
  /\ At(c, "critical")
  /\ Goto(c, "relRead")
  /\ UNCHANGED <<proc, lockPath, content, desc, claim, alone, snapRaw, snapFile>>

ReadOwner(c) ==
  /\ At(c, "relRead")
  /\ Goto(c, IF lockPath # None /\ content[lockPath] = c THEN "relUnlink" ELSE "done")
  /\ UNCHANGED <<proc, lockPath, content, desc, claim, alone, snapRaw, snapFile>>

UnlinkOwn(c) ==
  /\ At(c, "relUnlink")
  /\ lockPath' = None
  /\ Goto(c, "done")
  /\ UNCHANGED <<proc, content, desc, claim, alone, snapRaw, snapFile>>

\* JSON_FILE_LOCK_RELEASE_FAILED: neither the read nor the unlink may succeed, and the
\* record of a process that lives on is not stale.
ReleaseFails(c) ==
  /\ At(c, "relRead") \/ At(c, "relUnlink")
  /\ Goto(c, "left")
  /\ UNCHANGED <<proc, lockPath, content, desc, claim, alone, snapRaw, snapFile>>

-----------------------------------------------------------------------------
(* The environment: processes start and die, and PIDs are reused.          *)

Spawn(p) ==
  /\ proc[p] = "unborn"
  /\ \A q \in Processes : proc[q] = "live" => PidOf[q] # PidOf[p]
  /\ proc' = [proc EXCEPT ![p] = "live"]
  /\ UNCHANGED <<pc, lockPath, content, desc, claim, alone, snapRaw, snapFile>>

\* Descriptors close with the process; its lock file and claims stay.
Crash(p) ==
  /\ proc[p] = "live"
  /\ proc' = [proc EXCEPT ![p] = "dead"]
  /\ pc' = [c \in Calls |-> IF ProcOf[c] = p THEN "crashed" ELSE pc[c]]
  /\ desc' = [c \in Calls |-> IF ProcOf[c] = p THEN None ELSE desc[c]]
  /\ UNCHANGED <<lockPath, content, claim, alone, snapRaw, snapFile>>

TryAcquire(c) ==
  \/ CreateLock(c) \/ OpenDenied(c) \/ LockExists(c) \/ WriteOwner(c) \/ WriteFails(c)
  \/ StatDescriptor(c) \/ LostPath(c) \/ ClaimPending(c) \/ Acquire(c)

RemoveStale(c) ==
  \/ ReadSnapshot(c) \/ SnapshotMissing(c) \/ JudgeStale(c) \/ JudgeKept(c)
  \/ SweepClaims(c) \/ SweepFails(c) \/ LinkClaim(c) \/ LinkFails(c) \/ StatClaim(c)
  \/ ReadClaim(c) \/ StatPath(c) \/ UnlinkStale(c) \/ UnlinkDenied(c)
  \/ DropClaim(c) \/ ClaimStays(c)

Release(c) == Finish(c) \/ ReadOwner(c) \/ UnlinkOwn(c) \/ ReleaseFails(c)

CallStep(c) ==
  \/ Begin(c) \/ TryAcquire(c) \/ RemoveStale(c)
  \/ RetryAfterWait(c) \/ GiveUp(c) \/ Release(c)

Next ==
  \/ \E c \in Calls : CallStep(c)
  \/ \E p \in Processes : Spawn(p) \/ Crash(p)

Spec == Init /\ [][Next]_vars

(***************************************************************************)
(* Fairness of a call that keeps running: its program proceeds, the host   *)
(* does not refuse opens, links and unlinks for ever, and a lock file's age and    *)
(* the birth of a process, once observable, are eventually observed.       *)
(***************************************************************************)
FairCall(c) ==
  /\ WF_vars(CallStep(c) /\ (pc'[c] \in Endings => pc[c] \in Acquired))
  /\ SF_vars(CreateLock(c) \/ LockExists(c))
  /\ SF_vars(WriteOwner(c))
  /\ SF_vars(JudgeStale(c))
  /\ SF_vars(LinkClaim(c))
  /\ SF_vars(UnlinkStale(c))

-----------------------------------------------------------------------------
TypeOK ==
  /\ proc \in [Processes -> {"unborn", "live", "dead"}]
  /\ pc \in [Calls -> Steps]
  /\ lockPath \in Files \cup {None}
  /\ content \in [Files -> Calls \cup {Empty}]
  /\ desc \in [Calls -> Files \cup {None}]
  /\ claim \in [Calls -> Files \cup {None}]
  /\ alone \in [Calls -> BOOLEAN]
  /\ snapRaw \in [Calls -> Calls \cup {Empty}]
  /\ snapFile \in [Calls -> Files \cup {None}]

\* Two uses of the lock never run their operations at the same time, whatever
\* reapers, crashes, reused PIDs and recycled inodes do in between
\* (withJsonFileLock's reason to exist).
MutualExclusion ==
  \A c, d \in Calls :
    InCriticalSection(c) /\ InCriticalSection(d) => c = d

\* While an operation runs, the path keeps naming its own owner record: no
\* reaper took a live owner's lock away, and its release unlinks its own file
\* and nobody else's (the hard-link election and the checks before unlinkSync).
HolderKeepsPath ==
  \A c \in Calls : InCriticalSection(c) =>
    lockPath # None /\ content[lockPath] = c

\* A reaper about to unlink has elected itself: its claim is the path's only
\* other link, so no second reaper removes a file created in between.
ReaperElected ==
  \A c, d \in Calls : pc[c] = "unlink" /\ pc[d] = "unlink" => c = d

\* Nothing that timed-out, aborted or crashed calls left behind (an owner record,
\* an empty file, reap claims) wedges the lock: a call that neither gives up nor
\* crashes runs its operation, provided no other call is active meanwhile
\* (stale recovery, and the truncation in closeJsonFileLockAcquisition).  What the
\* host refused to remove is recovered too, once the process that left it is dead.
Quiet(c) == \A d \in Calls \ {c} : pc[d] \in {"idle"} \cup Endings
AbandonedLockRecovered(c) ==
  (pc[c] = "open" /\ desc[c] = None /\ Quiet(c) /\ \A d \in Calls : pc[d] # "left")
    ~> (pc[c] \in {"critical"} \cup Endings \/ ~Quiet(c))

-----------------------------------------------------------------------------
(* The promise of the lock, and the invariant that makes it inductive.      *)

phase == [c \in Calls |->
            IF pc[c] \in Acquired THEN "running"
            ELSE IF pc[c] \in Endings THEN "after" ELSE "before"]
Promise == INSTANCE ExclusiveUse
\* Each call runs its operation at most once and alone (see ExclusiveUse).
KeepsPromise == Promise!Spec

\* Only a live process has running calls and open descriptors.
OnlyLiveRun ==
  \A c \in Calls : ~Live(c) => pc[c] \in {"idle", "crashed"} /\ desc[c] = None

\* Owner records name processes that exist or existed, so "not live" is final.
OwnersBorn ==
  /\ \A f \in Files : content[f] # Empty => proc[ProcOf[content[f]]] # "unborn"
  /\ \A c \in Calls : snapRaw[c] # Empty => proc[ProcOf[snapRaw[c]]] # "unborn"

\* An open descriptor is its call's alone, and so is the record behind it.
DescriptorsOwned ==
  /\ \A c \in Calls : pc[c] \in {"write", "fstat", "stat"} => desc[c] # None
  /\ \A c \in Calls : desc[c] # None =>
       content[desc[c]] = IF pc[c] = "write" THEN Empty ELSE c
  /\ \A c, d \in Calls : desc[c] # None /\ desc[c] = desc[d] => c = d

\* A reaper holds its claim, and judged an empty or a dead owner's record.
ReapersJudged ==
  \A r \in Calls :
    /\ pc[r] \in {"claimStat", "claimRead", "pathStat", "unlink"} => claim[r] # None
    /\ pc[r] \in {"sweep", "link", "claimStat", "claimRead"} /\ snapRaw[r] # Empty
         => proc[ProcOf[snapRaw[r]]] = "dead"

\* From the content check on, a claim on the path's file keeps owners out.
ClaimKeepsOwnersOut ==
  \A r, c \in Calls :
    pc[r] \in {"pathStat", "unlink"} /\ lockPath = claim[r] => pc[c] \notin Acquired

ElectedAtPath ==
  \A r \in Calls : pc[r] = "unlink" => lockPath = claim[r]

LockInv ==
  /\ TypeOK
  /\ OnlyLiveRun
  /\ OwnersBorn
  /\ DescriptorsOwned
  /\ HolderKeepsPath
  /\ ReapersJudged
  /\ ClaimKeepsOwnersOut
  /\ ElectedAtPath
  /\ ReaperElected
=============================================================================
