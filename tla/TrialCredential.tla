--------------------------- MODULE TrialCredential ---------------------------
(***************************************************************************)
(* The trial credential of an installation: how a setup makes the account  *)
(* that it will use (trial-provision-flow.mjs) and how its record is kept  *)
(* in the credential store of the operating system                         *)
(* (trial-credential-store.mjs).  The service knows an installation by a   *)
(* mark that is derived from the machine.  The record is stored with its   *)
(* mark before the service is asked, so that an attempt that fails or dies *)
(* is made again under the same mark, and completed with the service's     *)
(* answer.  Each await of a command is a step; the two locks are those of  *)
(* ExclusiveUse, which free themselves of a holder that died.              *)
(***************************************************************************)
EXTENDS Naturals

CONSTANTS
  Setups,     \* commands that ensure a ready credential
  Clears,     \* commands that delete it
  Marks,      \* what the machine may be known by
  Nobody, NoMark,
  MaxTries,   \* RETRY_DELAYS_MS.length
  MaxFaults,  \* bound: calls of the credential store that fail or have no effect
  MaxChanges  \* bound: changes of the machine that change its mark

VARIABLES
  store,      \* the record in the credential store
  machine,    \* the mark that would be derived now
  provisionLock, recordLock,
  command,    \* per command: where it is, with the record it works on
  faults, changes,
  \* History, read by the properties only:
  asked,      \* marks the service was asked for since the last deletion
  reported,   \* marks reported as ready since the last deletion
  overtaken   \* commands that were under way when a deletion was reported

trialVars == <<store, machine, provisionLock, recordLock, command, faults, changes,
          asked, reported, overtaken>>
history == <<asked, reported, overtaken>>

Commands == Setups \cup Clears

\* Commands are told apart from nobody and from one another, marks from none.
ASSUME TrialAssumption ==
  Setups \cap Clears = {} /\ Nobody \notin Commands /\ NoMark \notin Marks

Ended == {"ready", "deleted", "failed", "killed"}
Absent == [state |-> "absent", mark |-> NoMark]
Seed(m) == [state |-> "provisioning", mark |-> m]
Ready(r) == [r EXCEPT !.state = "ready"]

TrialInit ==
  /\ store = Absent
  /\ machine \in Marks
  /\ provisionLock = Nobody /\ recordLock = Nobody
  /\ command = [c \in Commands |-> [pc |-> "idle", work |-> Absent, tries |-> 0]]
  /\ faults = 0 /\ changes = 0
  /\ asked = {} /\ reported = {} /\ overtaken = {}

CommandAt(c, pc) == command[c].pc = pc
UnderWay(c) == command[c].pc \notin Ended \cup {"idle"}

CommandGoes(c, pc, r) == command' = [command EXCEPT ![c].pc = pc, ![c].work = r]
Unlocked(lock, c) == IF lock = c THEN Nobody ELSE lock

\* The command is over and lets its locks go.
End(c, result) ==
  /\ command' = [command EXCEPT ![c] = [pc |-> result, work |-> Absent, tries |-> 0]]
  /\ provisionLock' = Unlocked(provisionLock, c)
  /\ recordLock' = Unlocked(recordLock, c)

KeepLocks == UNCHANGED <<provisionLock, recordLock>>
Machine == UNCHANGED <<machine, changes>>

\* A call of the credential store throws.
Fault(c) == faults < MaxFaults /\ faults' = faults + 1 /\ End(c, "failed")

-----------------------------------------------------------------------------
(* The locks.                                                              *)

\* withProvisionLock
CommandBegins(c, first) ==
  /\ CommandAt(c, "idle") /\ provisionLock = Nobody /\ provisionLock' = c
  /\ CommandGoes(c, first, Absent)
  /\ UNCHANGED <<store, recordLock, faults>> /\ UNCHANGED history /\ Machine

\* The lock of the record, inside the other one.
TakeRecord(c, before, after) ==
  /\ CommandAt(c, before) /\ recordLock = Nobody /\ recordLock' = c
  /\ CommandGoes(c, after, command[c].work)
  /\ UNCHANGED <<store, provisionLock, faults>> /\ UNCHANGED history /\ Machine

\* A lock is not to be had in time.
LockTimeout(c) ==
  /\ \/ CommandAt(c, "idle") /\ provisionLock # Nobody
     \/ command[c].pc \in {"create", "complete", "clear"} /\ recordLock # Nobody
  /\ End(c, "failed")
  /\ UNCHANGED <<store, faults>> /\ UNCHANGED history /\ Machine

-----------------------------------------------------------------------------
(* ensureTrialCredentialReady                                              *)

\* What follows from a record: the request, or the report of a ready one.
Judge(c, r) ==
  IF r.state = "ready"
  THEN End(c, "ready") /\ reported' = reported \cup {r.mark}
  ELSE /\ CommandGoes(c, "request", r) /\ recordLock' = Unlocked(recordLock, c)
       /\ UNCHANGED <<provisionLock, reported>>

\* Without a record the machine is asked for its mark, which may fail.
LoadRecord(c) ==
  /\ CommandAt(c, "load")
  /\ \/ /\ store # Absent /\ Judge(c, store) /\ UNCHANGED faults
     \/ /\ store = Absent /\ UNCHANGED <<faults, reported>>
        /\ \/ CommandGoes(c, "create", Seed(machine)) /\ KeepLocks
           \/ End(c, "failed")
     \/ Fault(c) /\ UNCHANGED reported
  /\ UNCHANGED <<store, asked, overtaken>> /\ Machine

\* createIfAbsent: a record that is there wins.
CreateIfAbsent(c) ==
  /\ CommandAt(c, "creating")
  /\ \/ /\ store # Absent /\ Judge(c, store) /\ UNCHANGED faults
     \/ /\ store = Absent /\ CommandGoes(c, "save", command[c].work)
        /\ KeepLocks /\ UNCHANGED <<faults, reported>>
     \/ Fault(c) /\ UNCHANGED reported
  /\ UNCHANGED <<store, asked, overtaken>> /\ Machine

\* saveVerifiedRecord: a failed call may have had its effect, one that returned may not.
Save(c) ==
  /\ CommandAt(c, "save")
  /\ \/ /\ store' = command[c].work /\ CommandGoes(c, "verify", command[c].work)
        /\ KeepLocks /\ UNCHANGED faults
     \/ /\ faults < MaxFaults /\ faults' = faults + 1
        /\ \/ store' \in {store, command[c].work} /\ End(c, "failed")
           \/ UNCHANGED store /\ CommandGoes(c, "verify", command[c].work) /\ KeepLocks
  /\ UNCHANGED history /\ Machine

\* Only what is read back counts.
Verify(c) ==
  /\ CommandAt(c, "verify")
  /\ \/ /\ store = command[c].work /\ Judge(c, store) /\ UNCHANGED faults
     \/ /\ store # command[c].work /\ End(c, "failed") /\ UNCHANGED <<faults, reported>>
     \/ Fault(c) /\ UNCHANGED reported
  /\ UNCHANGED <<store, asked, overtaken>> /\ Machine

\* Mutant: the mark is derived again for every request.
RequestAnew(c) ==
  /\ CommandAt(c, "request")
  /\ CommandGoes(c, "asked", Seed(machine)) /\ asked' = asked \cup {machine}
  /\ UNCHANGED <<store, faults, reported, overtaken>> /\ KeepLocks /\ Machine

\* The service is asked for the account of the record's mark.
Request(c) ==
  /\ CommandAt(c, "request")
  /\ CommandGoes(c, "asked", command[c].work) /\ asked' = asked \cup {command[c].work.mark}
  /\ UNCHANGED <<store, faults, reported, overtaken>> /\ KeepLocks /\ Machine

\* It answers; or the request is sent again, after an error that may pass or, once, after
\* an answer that makes no sense; or the setup fails, on any other answer at once.
Answer(c) ==
  /\ CommandAt(c, "asked")
  /\ \/ CommandGoes(c, "complete", command[c].work) /\ KeepLocks
     \/ /\ command[c].tries < MaxTries /\ KeepLocks
        /\ command' = [command EXCEPT ![c].pc = "request", ![c].tries = @ + 1]
     \/ End(c, "failed")
  /\ UNCHANGED <<store, faults>> /\ UNCHANGED history /\ Machine

\* complete: only the very record that was asked for is completed.
CompareRecord(c) ==
  /\ CommandAt(c, "completing")
  /\ \/ /\ store = command[c].work /\ CommandGoes(c, "save", Ready(store))
        /\ KeepLocks /\ UNCHANGED faults
     \/ /\ store # command[c].work /\ End(c, "failed") /\ UNCHANGED faults
     \/ Fault(c)
  /\ UNCHANGED store /\ UNCHANGED history /\ Machine

-----------------------------------------------------------------------------
(* clearTrialCredentialRecord                                              *)

\* Mutant: the deletion waits for no setup.
BeginClearAtOnce(d) ==
  /\ CommandAt(d, "idle") /\ CommandGoes(d, "clear", Absent)
  /\ UNCHANGED <<store, provisionLock, recordLock, faults>> /\ UNCHANGED history /\ Machine

BeginClear(d) == CommandBegins(d, "clear")

Delete(d) ==
  /\ CommandAt(d, "clearing")
  /\ \/ /\ store' = Absent /\ CommandGoes(d, "verifyGone", Absent) /\ KeepLocks /\ UNCHANGED faults
     \/ /\ faults < MaxFaults /\ faults' = faults + 1
        /\ \/ store' \in {store, Absent} /\ End(d, "failed")
           \/ UNCHANGED store /\ CommandGoes(d, "verifyGone", Absent) /\ KeepLocks
  /\ IF store' = Absent THEN asked' = {} /\ reported' = {} ELSE UNCHANGED <<asked, reported>>
  /\ UNCHANGED overtaken /\ Machine

VerifyGone(d) ==
  /\ CommandAt(d, "verifyGone")
  /\ \/ /\ store = Absent /\ End(d, "deleted") /\ UNCHANGED faults
        /\ overtaken' = overtaken \cup {s \in Setups : UnderWay(s)}
     \/ /\ store # Absent /\ End(d, "failed") /\ UNCHANGED <<faults, overtaken>>
     \/ Fault(d) /\ UNCHANGED overtaken
  /\ UNCHANGED <<store, asked, reported>> /\ Machine

-----------------------------------------------------------------------------
Kill(c) ==
  /\ UnderWay(c) /\ End(c, "killed")
  /\ UNCHANGED <<store, faults>> /\ UNCHANGED history /\ Machine

\* A network card or the name of the host is changed.
ChangeMachine ==
  /\ changes < MaxChanges /\ changes' = changes + 1
  /\ machine' \in Marks \ {machine}
  /\ UNCHANGED <<store, provisionLock, recordLock, command, faults>> /\ UNCHANGED history

SetupStep(s) ==
  \/ CommandBegins(s, "load") \/ LoadRecord(s)
  \/ TakeRecord(s, "create", "creating") \/ CreateIfAbsent(s) \/ Save(s) \/ Verify(s)
  \/ Request(s) \/ Answer(s)
  \/ TakeRecord(s, "complete", "completing") \/ CompareRecord(s)

ClearStep(d) ==
  BeginClear(d) \/ TakeRecord(d, "clear", "clearing") \/ Delete(d) \/ VerifyGone(d)

TrialNext ==
  \/ \E s \in Setups : SetupStep(s)
  \/ \E d \in Clears : ClearStep(d)
  \/ \E c \in Commands : LockTimeout(c) \/ Kill(c)
  \/ ChangeMachine

TrialSpec == TrialInit /\ [][TrialNext]_trialVars

-----------------------------------------------------------------------------
\* However often setups fail, die or race and the machine changes, the service is asked
\* for one mark only until the record is deleted, the stored one; and whoever was told
\* that the credential is ready can load that very one.
OneAccount ==
  /\ asked \cup reported \subseteq {store.mark} \ {NoMark}
  /\ reported # {} => store.state = "ready"

\* A setup that was under way when a deletion was reported brings nothing back.
DeletedStaysDeleted ==
  [][store = Absent /\ store' # Absent =>
       \E s \in Setups \ overtaken : CommandAt(s, "save") /\ store' = command[s].work]_trialVars
==============================================================================
