------------------------- MODULE PackageTransition -------------------------
(***************************************************************************)
(* Replacing the npm package under a running installation                  *)
(* (lib/package-transition.mjs, lib/package-update.mjs) and the permission  *)
(* that lets it restore the Backend (adapter-common package-recovery.mjs).  *)
(*                                                                         *)
(* An update observes the stop revision; preinstall writes a durable record *)
(* and runs `stop` as a child; npm replaces the files; postinstall runs     *)
(* `start` and `status` and only then removes the record.  The children are *)
(* lifecycle commands (ClientLifecycle) that wait for the lifecycle lock    *)
(* like the user's; any process may be killed at any point, and a child     *)
(* outlives a parent that is.                                              *)
(***************************************************************************)
EXTENDS ClientLifecycle, Integers

CONSTANTS
  Updates,    \* npm installations; the id of each one's own transition
  Direct,     \* those that run without `memorax-code update` around them
  NoUpdate,   \* no transition, no id, a command that is not npm's
  MaxStops    \* bound: user commands that revoke

ASSUME UpdatesAssumption ==
  NoUpdate \notin Updates /\ Direct \subseteq Updates /\ MaxStops \in Nat

VARIABLES
  revision,    \* package-recovery.json: <<"permit", u>>, <<"stopped", n>>, or absent
  transition,  \* package-transition.json: [state, id, old], or NoTransition
  tlock,       \* the postinstall that holds the lock of that record
  update,      \* what each update does
  issuer,      \* [by, id] of the command that holds the lifecycle lock
  \* History, read by the properties only:
  stops,       \* user commands that revoked so far
  revoked,     \* updates that had observed a revision which a user then revoked
  downed       \* the update whose retirement took the Backend down, until it is up
               \* again; a stop that carries no id, a clean-up of npm's too, sets none

package == <<revision, transition, tlock, update, issuer, stops, revoked, downed>>
allVars == <<vars, package>>

Absent       == <<"absent", 0>>
NoTransition == [state |-> "none", id |-> NoUpdate, old |-> FALSE]
Ours         == [by |-> NoUpdate, id |-> NoUpdate]

\* `mode` is who restores: npm's postinstall, the update command around a failed
\* npm, or an explicit `update --recover`.  `child` is what the child process
\* `job` does with the transition `id` it was given: waiting for the lifecycle
\* lock, running under it, or ended; `tries` are the retries it has left.
Update(pc) == [pc |-> pc, mode |-> "npm", seen |-> Absent, child |-> "none",
               job |-> "none", id |-> NoUpdate, tries |-> 0]
\* A child that waits for the lifecycle lock; no child that could still get it.
Waiting(u)   == update[u].child = "waiting" /\ update[u].job \in {"stop", "start"}
Childless(u) == update[u].child # "running" /\ ~Waiting(u)

In(u, pc)     == update[u].pc = pc
Set(u, new)   == update' = [update EXCEPT ![u] = new]
Move(u, pc)   == Set(u, [update[u] EXCEPT !.pc = pc, !.child = "none"])
\* The update command looks at the record once more when npm has failed.
Failing(u)    == IF u \in Direct \/ update[u].mode # "npm" THEN "failed" ELSE "rolledBack"
Fail(u)       == Move(u, Failing(u))
Spawn(u, pc, job, id) ==
  Set(u, [update[u] EXCEPT !.pc = pc, !.child = "waiting", !.job = job, !.id = id])

PackageInit ==
  /\ Init
  /\ revision = Absent /\ transition = NoTransition /\ tlock = NoUpdate
  /\ update = [u \in Updates |-> Update("new")]
  /\ issuer = Ours /\ stops = 0 /\ revoked = {} /\ downed = NoUpdate

-----------------------------------------------------------------------------
(* The lifecycle commands under withMemoraxCodeLifecycleLock. *)

Observed == {u \in Updates : ~In(u, "new")}

\* A user's stop, restart or uninstall writes a fresh stopped revision first.
Revoke ==
  /\ stops < MaxStops
  /\ stops' = stops + 1
  /\ revision' = <<"stopped", stops + 1>>
  /\ revoked' = revoked \cup Observed
  /\ downed' = NoUpdate

OwnBegin(clients, flag) ==
  /\ issuer' = Ours
  /\ UNCHANGED <<transition, tlock, update>>
  /\ \/ /\ BeginStart(clients, flag)            \* start, from a user or a hook
        /\ UNCHANGED <<revision, stops, revoked, downed>>
     \/ /\ \/ BeginStart(clients, flag)         \* restart
           \/ BeginStop("stop", clients, flag)
           \/ BeginStop("uninstall", clients, flag)
        /\ Revoke

\* npm's children: a stop with an id checks the revision its update observed, a
\* start with an id checks the permit; without an id neither is checked.
\* As Permitted, but a retirement does not look at the revision again.
PermittedStop(u) ==
  \/ update[u].id = NoUpdate \/ update[u].job = "stop"
  \/ revision = <<"permit", update[u].id>>

Permitted(u) ==
  LET id == update[u].id IN
  \/ id = NoUpdate
  \/ update[u].job = "stop" /\ revision = update[u].seen
  \/ update[u].job = "start" /\ revision = <<"permit", id>>

ChildBegins(u, clients) ==
  /\ Waiting(u)
  /\ Permitted(u)
  /\ IF update[u].job = "stop" THEN BeginReplacementStop
     ELSE BeginStart(IF marker = NoMarker THEN clients ELSE marker, TRUE)
  /\ issuer' = [by |-> u, id |-> update[u].id]
  /\ Set(u, [update[u] EXCEPT !.child = "running"])
  /\ UNCHANGED <<revision, transition, tlock, stops, revoked, downed>>

ChildRefused(u) ==
  /\ Waiting(u)
  /\ call = NoCall /\ ~Permitted(u)
  /\ Set(u, [update[u] EXCEPT !.child = "failed"])
  /\ UNCHANGED <<vars, revision, transition, tlock, issuer, stops, revoked, downed>>

CommandStep ==
  /\ Step
  /\ downed' = IF backend' = "up" THEN NoUpdate
               ELSE IF call.op = "stop" /\ backend = "up" /\ backend' = "none"
               THEN issuer.id
               ELSE downed
  /\ UNCHANGED <<revision, transition, tlock, update, issuer, stops, revoked>>

\* Still under the lock, a retirement that went well writes the permit.
CommandReturns ==
  /\ Return
  /\ issuer' = Ours
  /\ \/ issuer.by = NoUpdate /\ UNCHANGED <<revision, update>>
     \/ /\ issuer.by # NoUpdate
        /\ revision' = IF call.op = "stop" /\ call.ok /\ issuer.id # NoUpdate
                       THEN <<"permit", issuer.id>> ELSE revision
        /\ Set(issuer.by, [update[issuer.by] EXCEPT
                             !.child = IF call.ok THEN "ok" ELSE "failed"])
  /\ UNCHANGED <<transition, tlock, stops, revoked, downed>>

\* A killed child is one that failed; npm also kills one that takes too long.
CommandKilled ==
  /\ Killed
  /\ issuer' = Ours
  /\ IF issuer.by = NoUpdate THEN UNCHANGED update
     ELSE Set(issuer.by, [update[issuer.by] EXCEPT !.child = "failed"])
  /\ UNCHANGED <<revision, transition, tlock, stops, revoked, downed>>

WaitingChildKilled(u) ==
  /\ Waiting(u)
  /\ Set(u, [update[u] EXCEPT !.child = "failed"])
  /\ UNCHANGED <<vars, revision, transition, tlock, issuer, stops, revoked, downed>>

-----------------------------------------------------------------------------
(* preinstallPackageTransition *)

Alone == UNCHANGED <<vars, revision, issuer, stops, revoked, downed>>

\* withPackageUpdateLock: an installation around which an update command runs.
UpdateLockFree ==
  \A v \in Updates \ Direct : update[v].pc \in {"new", "finished", "failed"}

\* installPackageUpdate, or preinstall itself: a pending record ends the update.
Observe(u) ==
  /\ In(u, "new")
  /\ u \in Direct \/ UpdateLockFree
  /\ Set(u, [Update(IF transition = NoTransition THEN "preinstall" ELSE "failed")
             EXCEPT !.seen = revision])
  /\ UNCHANGED <<transition, tlock>> /\ Alone

\* As BeginRetire, but the record is left for the end of the retirement.
BeginRetireUnrecorded(u) ==
  /\ In(u, "preinstall") /\ tlock = NoUpdate
  /\ IF transition # NoTransition THEN Fail(u)
     ELSE IF backend = "up" THEN Spawn(u, "retiring", "stop", u)
     ELSE Move(u, "replaced")
  /\ UNCHANGED <<transition, tlock>> /\ Alone

\* Under the lock of the record.  DSH state, enabled or not, counts like a
\* running Backend.  A Backend's record alone, of a dead process or one that
\* cannot be read, is only cleaned up, by a stop without an id.
BeginRetire(u) ==
  /\ In(u, "preinstall") /\ tlock = NoUpdate
  /\ \E dshState \in {(Dsh \in enabled), (Dsh \in Clients)}, unreadable \in BOOLEAN :
       IF transition # NoTransition THEN Fail(u) /\ UNCHANGED transition
       ELSE IF (backend = "up" /\ ~unreadable) \/ dshState
       THEN /\ transition' = [state |-> "retiring", id |-> u, old |-> FALSE]
            /\ Spawn(u, "retiring", "stop", u)
       ELSE IF backend # "none"
       THEN Spawn(u, "cleaning", "stop", NoUpdate) /\ UNCHANGED transition
       ELSE Move(u, "replaced") /\ UNCHANGED transition
  /\ UNCHANGED tlock /\ Alone

\* The child's end, and the check that no Backend record remains.
Retired(u) ==
  /\ update[u].pc \in {"retiring", "cleaning"} /\ tlock = NoUpdate
  /\ update[u].child \in {"ok", "failed"}
  /\ IF update[u].child = "failed" \/ backend # "none"
     THEN Fail(u) /\ UNCHANGED transition
     ELSE IF In(u, "cleaning") THEN Move(u, "replaced") /\ UNCHANGED transition
     ELSE IF transition.state = "retiring" /\ transition.id = u
     THEN Move(u, "replaced") /\ transition' = [transition EXCEPT !.state = "retired"]
     ELSE Fail(u) /\ UNCHANGED transition
  /\ UNCHANGED tlock /\ Alone

\* The lock could not be had in time, or npm stopped on its own.
NpmFails(u) ==
  /\ update[u].pc \in {"preinstall", "replaced"}
  /\ Fail(u)
  /\ UNCHANGED <<transition, tlock>> /\ Alone

-----------------------------------------------------------------------------
(* postinstallPackageTransition, for postinstall, for the update command and   *)
(* for `update --recover`.                                                     *)

Release(u, pc) == Move(u, pc) /\ tlock' = NoUpdate

BeginRestore(u) ==
  /\ In(u, "replaced") /\ tlock = NoUpdate
  /\ IF transition = NoTransition THEN Move(u, "finished") /\ UNCHANGED tlock
     ELSE IF \/ u \notin Direct /\ update[u].mode # "recover" /\ transition.id # u
             \/ transition.state # "retired"
             \/ transition.old /\ update[u].mode # "recover"
     THEN Fail(u) /\ UNCHANGED tlock
     ELSE /\ tlock' = u
          /\ Set(u, [update[u] EXCEPT
               !.pc = "starting", !.child = "waiting", !.job = "start", !.tries = 1,
               !.id = IF update[u].mode = "recover" THEN NoUpdate ELSE transition.id])
  /\ UNCHANGED transition /\ Alone

\* A failed start or status is tried once more by postinstall.
Again(u, job) ==
  \/ /\ update[u].tries > 0
     /\ Set(u, [update[u] EXCEPT !.child = "waiting", !.job = job, !.tries = 0])
     /\ UNCHANGED tlock
  \/ Release(u, Failing(u))

Started(u) ==
  /\ In(u, "starting") /\ update[u].child \in {"ok", "failed"}
  /\ IF update[u].child = "failed" THEN Again(u, "start")
     ELSE /\ Set(u, [update[u] EXCEPT !.pc = "verifying", !.child = "waiting",
                                      !.job = "status", !.tries = 1])
          /\ UNCHANGED tlock
  /\ UNCHANGED transition /\ Alone

\* status takes no lock; it is ok only of a Backend that answers.
Verified(u) ==
  /\ In(u, "verifying") /\ update[u].child = "waiting"
  /\ \/ /\ backend = "up"
        /\ Set(u, [update[u] EXCEPT !.pc = "consuming", !.child = "none"])
        /\ UNCHANGED tlock
     \/ Again(u, "status")
  /\ UNCHANGED transition /\ Alone

\* The record must still be the one this process restored.
Consume(u) ==
  /\ In(u, "consuming")
  /\ transition' = NoTransition /\ Release(u, "finished")
  /\ Alone

\* After a failed npm the update command restores its own retired record.
RestoreOwn(u) ==
  /\ In(u, "rolledBack") /\ Childless(u)
  /\ \/ /\ transition.id = u /\ transition.state = "retired"
        /\ Set(u, [update[u] EXCEPT !.pc = "replaced", !.child = "none", !.mode = "wrapper"])
     \/ Move(u, "failed")
  /\ UNCHANGED <<transition, tlock>> /\ Alone

\* `update --recover`, by the user, of whatever record there is.
RecoverCommand(u) ==
  /\ In(u, "failed") /\ Childless(u) /\ UpdateLockFree
  /\ Set(u, [update[u] EXCEPT !.pc = "replaced", !.child = "none", !.mode = "recover"])
  /\ UNCHANGED <<transition, tlock>> /\ Alone

\* npm and its script, or the command around them too, are killed; the child goes
\* on, and no one restores before it has ended.  A script that outlives npm goes
\* on as the scripts of a Direct installation do.
UpdateKilled(u) ==
  /\ update[u].pc \notin {"new", "finished", "failed"}
  /\ \E pc \in {"failed", Failing(u)} : Set(u, [update[u] EXCEPT !.pc = pc])
  /\ tlock' = IF tlock = u THEN NoUpdate ELSE tlock
  /\ UNCHANGED transition /\ Alone

\* Fifteen minutes pass.
GrowOld ==
  /\ transition.state = "retired" /\ ~transition.old
  /\ transition' = [transition EXCEPT !.old = TRUE]
  /\ UNCHANGED <<tlock, update>> /\ Alone

UpdateStep(u) ==
  \/ Observe(u) \/ BeginRetire(u) \/ Retired(u) \/ NpmFails(u)
  \/ BeginRestore(u) \/ Started(u) \/ Verified(u) \/ Consume(u)
  \/ UpdateKilled(u) \/ WaitingChildKilled(u) \/ ChildRefused(u)
  \/ RestoreOwn(u) \/ RecoverCommand(u)
  \/ \E clients \in SUBSET Clients : ChildBegins(u, clients)

PackageNext ==
  \/ \E u \in Updates : UpdateStep(u)
  \/ \E clients \in SUBSET Clients, flag \in BOOLEAN : OwnBegin(clients, flag)
  \/ CommandStep \/ CommandReturns \/ CommandKilled
  \/ BackendDies /\ UNCHANGED package
  \/ GrowOld

PackageSpec == PackageInit /\ [][PackageNext]_allVars

-----------------------------------------------------------------------------
Revision == {Absent} \cup ({"permit"} \X Updates) \cup ({"stopped"} \X (1..MaxStops))

UpdateState ==
  [pc : {"new", "preinstall", "retiring", "cleaning", "replaced", "starting",
         "verifying", "consuming", "rolledBack", "failed", "finished"},
   mode : {"npm", "wrapper", "recover"}, seen : Revision,
   child : {"none", "waiting", "running", "ok", "failed"},
   job : {"none", "stop", "start", "status"},
   id : Updates \cup {NoUpdate}, tries : {0, 1}]

\* Types, and: only one update at a time restores, from a record that is retired,
\* and a record that is retired carries the permission of its retirement, unless
\* that was revoked.
PackageInv ==
  /\ LifecycleInv
  /\ revision \in Revision
  /\ transition \in [state : {"none", "retiring", "retired"},
                     id : Updates \cup {NoUpdate}, old : BOOLEAN]
  /\ tlock \in Updates \cup {NoUpdate}
  /\ issuer \in [by : Updates \cup {NoUpdate}, id : Updates \cup {NoUpdate}]
  /\ stops \in 0..MaxStops /\ revoked \subseteq Updates
  /\ downed \in Updates \cup {NoUpdate}
  /\ update \in [Updates -> UpdateState]
  /\ \A u \in Updates : update[u].pc \in {"starting", "verifying", "consuming"}
       => tlock = u /\ transition.state = "retired"
  /\ transition.state = "retired" =>
       revision = <<"permit", transition.id>> \/ transition.id \in revoked

\* "This restoration cannot undo a later user stop": a command that npm runs on
\* its own authority never runs once a user has stopped, restarted or uninstalled
\* since the update whose transition it carries observed the stop revision.
UserStopHonoured ==
  call # NoCall /\ issuer.id # NoUpdate => issuer.id \notin revoked

\* A Backend that an update retired is not forgotten: until it runs again, or a
\* user stops it, the durable record says so, whoever fails or is killed.  A
\* Backend that npm's clean-up took down is none: preinstall judged the record
\* dead or unreadable, so it wrote no transition to remember.
OutageRecorded == downed # NoUpdate => transition.id = downed
=============================================================================
