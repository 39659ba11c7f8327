# MemoraX Code: models, checks and proofs

MemoraX Code gives coding agents (Codex, Claude Code, Cursor, Trae, CodeBuddy, Qoder,
OpenCode, DSH) a memory: hooks in the clients report the turns of a conversation to a local
Backend, which retrieves memories for a prompt and writes finished turns to a provider. An
npm package installs the command line, manages the Backend process and switches the clients'
integrations on and off.

This directory holds TLA+ modules that model the parts of the system in which processes,
hooks, timers and crashes meet, TLC configurations that check them on small instances, and
TLAPS proofs that hold for every instance. `PROJECT.json` maps every definition to the source
lines it stands for. Paths below are relative to the repository; `backend/` abbreviates
`packages/ts/memorax-code-backend/src/`, `common/` `packages/ts/memorax-code-adapter-common/src/`
and `npm/` `packages/npm/memorax-code/`.

1. [The system](#1-the-system)
2. [Modules and how they correspond to the code](#2-modules-and-how-they-correspond-to-the-code)
3. [Runs](#3-runs)
4. [Fairness](#4-fairness)
5. [Proofs](#5-proofs)
6. [What the models found](#6-what-the-models-found)
7. [What is left out](#7-what-is-left-out)
8. [Plan](#8-plan)

Inside this directory `tlc -config X.cfg M` checks a run, `tlapm M.tla` a module's proofs.

## 1. The system

### Processes

* The **Backend** is one Node process per user. It serves hooks over HTTP on the loopback
  interface; all state of a session lives in its memory and every handler runs on one event
  loop, so handlers interleave at their awaits and nowhere else.
* **Lifecycle commands** (`memorax-code start | restart | stop | uninstall`) are processes that
  exclude each other with a file lock and change the Backend and the clients' integrations.
* **npm** replaces the package under all of this; its `preinstall` and `postinstall` scripts,
  and the `update` command around them, run lifecycle commands as children.
* **Hooks** are short-lived processes that clients start at each prompt and stop; several run
  at once, and a client may report one turn more than once.
* **Repository-memory jobs** are detached workers that build a description of a repository.

Processes share files: lock files, the Backend's record and token, the cleanup marker, the
package transition and the stop revision. Any of them may be killed at any point.

### Inventory

| Component | State | Operations | Where it is hard | What makes it correct |
|---|---|---|---|---|
| JSON file lock, `common/config-utils.mjs` | lock file, its hard-linked claims, owner record | acquire, reap a stale lock, release, time out | every system call of one process between two of another; PID and inode reuse; crashes | one holder; a crash never blocks later calls, a refused clean-up only while its process lives |
| Automatic writeback, `backend/memory/automatic-writeback.ts`, `writeback-buffer.ts` | reservations with expiry, buffers, idle timers, running dispatches, attempts | enqueue, flush by limit, timer or drain, dispatch, retry, discard of a namespace, close | replays during flight, timers of replaced buffers, drain against enqueue | no accepted turn vanishes, none is written twice without cause, drain waits for all |
| Repository scope, `backend/repository/scope.ts` | none (reads `.git`) | resolve, match, may-bind, may-upgrade | broken or missing `.git`, nested directories | one workspace, one namespace |
| Session resolver, `backend/memory/repository-session.ts` | binding and mismatch latch per session, queue | resolve with up to three awaits | overlapping hooks from different directories, `.git` repaired meanwhile | a session never speaks for two workspaces |
| Turn coordinator, `backend/memory/turn-coordinator.ts` | Map of started turns | register, look up, discard, expire, complete | completion awaits the scope while the key is registered again | a completion consumes its own registration only |
| Trae hook runtime, `backend/clients/trae/memory-hook-runtime.ts` | start queue, active, interrupted, completed turns | prompt, stop | prompt and stop overlap; starts overlap; bounded tables | the newest turn keeps the session, a replaced turn is not written |
| Memory service, `backend/memory/service.ts` | the four above, wired together | retrieve, start, complete, upgrade, drain, close | an answer used after the scope it named was replaced | a turn is written under the scope of its session |
| Managed Backend, `backend/lifecycle/backend/*` | process, record, token, shutdown request | start, stop, restart, status | kill between spawn and record, PID reuse during a health probe, time-outs | no other process is ended, no Backend is lost, answers are true |
| Client lifecycle, `backend/lifecycle/orchestrator.ts`, `active-clients.ts` | integrations, cleanup marker | start, restart, stop, uninstall | any phase fails in part or is killed | what is on is on record; integrations change between Backends |
| Package transition, `npm/lib/package-transition.mjs`, `package-update.mjs`, `common/package-recovery.mjs` | transition record, stop revision, update lock | preinstall, postinstall, `update`, `update --recover`, user stop | user stop between npm's stop and start; npm or a child killed | a user stop is never undone, an outage never forgotten |
| Automatic update, `npm/lib/automatic-update.mjs`, `backend/lifecycle/automatic-update-scheduler.ts` | state file, timers, child | schedule, check, install, set up | update in the Backend that it replaces | one attempt at a time, backoff |
| Repository-memory jobs, `common/repo-memory/*` | startup lock, job marker, attempt record, published snapshot | schedule, supervise, run, publish | two schedulers, stale marker, worker killed or overrun | one worker per repository; a baseline is replaced from itself only; verdicts stand |
| Repository-memory collection, `backend/repo-memory/*` | bundle files | prepare, collect, detect, validate | partial provider answers | validated before published |
| Hook runtime generations, `common/hooks/hook-runtime-generation.mjs`, `client-hook-launcher.mjs` | immutable generations, current pointer, pin of a session | stage, sync, activate, select, pin | an install between the hooks of one turn; kill or power loss during publication | a turn keeps its runtime; what is current is whole |
| Cursor hook runtime, `backend/clients/cursor/memory-hook-runtime.ts`, `turn-store.ts`, `database-turn.ts` | session record on disk, retry timer | start, reply, stop, retry, restart | text that comes late; a start that replaces a waiting turn; a write that fails | a finished turn keeps a retry; it is written once and its record says so |
| Backend recovery from hooks, `common/hooks/ensure-backend-runner.mjs` | recovery lock | probe, start | recovery against a user's stop | one recovery at a time |
| Other client runtimes, `backend/clients/*/memory-hook-runtime.ts` | per-client turn tables | prompt, stop, compaction, rollback | native history written while it is read | as for Trae |
| Native materialisation, `backend/clients/*/{transcript,rollout,message,session,database}-turn.ts` | none | read a transcript, find the turn | a file in the middle of a write | only finished turns, whole |
| Search guidance and reminders | bounded table, counters | claim, due | cadence under concurrent hooks | not more often than configured |
| Quota notice, `backend/memory/quota-notice.ts` | state file under the lock | claim, deliver | several sessions at once | once per window |
| Provider adapters, `backend/provider/*` | none | search, add | time-outs | an error is reported as one |
| Trace, `backend/trace/*` | JSON-lines files, current-turn files | append, rotate, prune | concurrent appends | retention |
| Setup, `npm/bin/memorax-code-setup.mjs` | completion record | select, reconcile, start | interrupted setup | repeatable |
| Trial credentials, `npm/lib/trial-provision-*.mjs`, `common/credentials/*` | platform store, record, locks | provision, retry, clear | a request answered after the process died | one identity per installation |
| Client integrations, `packages/ts/memorax-code-*-adapter` | entries in the user's configuration files | enable, disable, repair | crash inside a rewrite; user edits | only managed entries change |
| DSH profiles, `packages/ts/memorax-code-dsh-adapter/src/profile-lifecycle.mjs` | state file, bundles, plugin lists of the profiles | install, roll back, activate, disable, remove | kill or fault between two profiles; user edits | what is installed is claimed; authority only when all profiles agree |
| DSH plugin, `packages/ts/memorax-code-dsh-adapter/src/plugin.mjs` | chain of writebacks, pending context per session | turn start and end, pre-step, recovery, dispose | turn end, move, compaction or unload at any await | told in order and once; context once; silent after dispose |
| Diagnostics, command resolution, Windows helpers | append-only records | record | | |

The `components` list of `PROJECT.json` says for each which modules model it and how far.

### How they interact

```
 client hook ──HTTP──> hook runtime (Trae, ...) ──> session resolver ──> .git
                            │        │
                            │        └──> turn coordinator ──> automatic writeback ──> provider
                            └──> trace                     (upgrade discards the old namespace)

 user ─> lifecycle command ─[file lock]─> client integrations, cleanup marker
 npm ──> preinstall / postinstall ─child─┘  │     └──> managed Backend: record, token, signals
              └──> transition record        └──> DSH profiles, hook runtime generations
                   and stop revision                        └── chosen and pinned by each hook

 setup ─[two file locks]─> trial credential ──HTTP──> provisioning service
 hook ──> repository-memory command ─[startup lock]─> detached worker ──> baseline
```

## 2. Modules and how they correspond to the code

| Module | Models | Composes / refines |
|---|---|---|
| `ExclusiveUse` | what a caller of the lock relies on | |
| `JsonFileLock` | `withJsonFileLock(Async)`, a system call a step | implements `ExclusiveUse` (`KeepsPromise`) |
| `AutomaticWriteback` | the writeback runtime | |
| `RepositoryScope` | scopes as values; no state | |
| `SessionScope` | what the resolver promises | extends `RepositoryScope` |
| `RepositorySession` | the resolver | implements `SessionScope` (`Linearizes`) |
| `TurnCoordinator` | the registry of turns | |
| `TraeTurns` | the Trae runtime | implements `TurnCoordinator` (`UsesCoordinator`) |
| `MemoryTurns` | one session end to end | composes `SessionScope` and `AutomaticWriteback`; every step of it is one of theirs or leaves their variables alone (proved) |
| `ServicePromise` | what a lifecycle command relies on when it starts or stops the Backend | |
| `BackendService` | start and stop of the Backend process | implements `ServicePromise` (`KeepsServicePromise`) |
| `ClientLifecycle` | the lifecycle commands | each command has the lifecycle lock to itself, as `ExclusiveUse` promises; uses the Backend as `ServicePromise` promises |
| `PackageTransition` | npm beside the commands | extends `ClientLifecycle`; every step of it is one of `ClientLifecycle` or leaves its variables alone (proved: `PackageKeepsLifecycle`) |
| `RepoMemoryJobs` | the command that starts a job, its worker, marker, startup lock and baseline | |
| `HookGenerations` | the durable hook runtime and the launcher | |
| `DshProfiles` | the adapter in the profiles of DSH | what `ClientLifecycle` calls DSH's on, off or failed |
| `DshTurns` | the plugin inside DSH, one session | |
| `CursorTurns` | the turns of one Cursor session | has the record to itself, as `ExclusiveUse` promises |
| `TrialCredential` | setup and deletion of the trial credential | uses two locks as `ExclusiveUse` promises, which free themselves of a holder that died |
| `*Proofs` | theorems and proofs | each about the modules it extends, see section 5 |
| `MC*` | instances for TLC | |

### The file lock

`proc` is the state of each process, `pc` and the registers of each call what its local
variables hold; `lockPath` and `claim` are the names of inodes, `content` is what each holds, and
the link counts follow from the names. An action is one system call of `config-utils.mjs`:
exclusive create, write of the owner record, link of a claim, the two stats, unlink. A call may
find the path gone or replaced at each of them; a process may crash at each; a PID may be given
to a new process and a freed inode number to a new file. The owner's age and the liveness of its
PID are read as the code reads them, so a judgement may be stale by the time it is used.

The host may refuse what a call does to clean up: the unlink of its own record or the read
before it (`ReleaseFails`, the code's `JSON_FILE_LOCK_RELEASE_FAILED`), the removal of its own
claim (`ClaimStays`) or of an abandoned one (`SweepFails`), the truncation of a record that it
abandons (`Abandon`). Each ends the call, and three of them leave something of a live process
behind, which is never stale while that process lives: the call is then `"left"`, and
`AbandonedLockRecovered` promises nothing until the process is dead. Exclusion needs no such
exemption. Left out of a failed write is a record that lacks only its newline: it parses, and the
release after the failure would unlink the path.

### Writeback

One action per entry point and per continuation after an await: `enqueue` (directly or into a
buffer), the flush of a buffer by a limit, by its timer or by `drain`, the start of a
dispatch, the end of an attempt, the discard of an upgraded namespace. An enqueue that is
refused or a duplicate changes nothing and is no step. The order in which `flushAll` visits
the buffers is arbitrary. The number of parts of a batch and the runtime limits are
constants (`buffer_max_turns` of -1 behaves as 1). Expiry of a reservation is an action of
the environment that may happen whenever five minutes could have passed, which includes the
middle of a long dispatch. The Map's order is the order of reservation.

### Session scope

`RepositorySession` follows one session: sessions share nothing but the disk. A request is
queued; at the head of the queue it reads the binding (`Enter`), chooses a root (`ChooseRoot`),
and after the last await resolves and commits in one stretch (`Bind`, `Confirm`, `Move`,
`LatchMismatch` or a refusal). `.git` may change between any two of these. Requests without a
session id or configuration return without touching the session and are no steps. A request
carries a kind of workspace or none; a blank one and OpenCode's `"project"` are told apart from
none, as the code does. The several reads of one resolution are taken as one read of the disk.
`SessionScope` is the same promise with one atomic step per answer; that a mismatch is final
(`MismatchFinal`) and that no two answers name different workspaces (`HandedAgree`) are proved
of it once, and hold for the resolver because it implements it.

### Turns

`TurnCoordinator` is the Map that all runtimes share: re-registering a key keeps its place in
the Map's order, so the eviction may hit it. `TraeTurns` follows one session of Trae: starts
queue, a stop awaits between reading and writing the three tables, time is `GrowOld`. A start or
a stop whose scope cannot be resolved throws (`FailStart`, `FailStop`); the start then releases
the queue. The tables of active, interrupted and completed turns and the coordinator's are
bounded and serve all sessions: what the others do is `OtherSessions`, which pushes this
session's oldest entry out of one of them at any time. `evicted` and `forgotten` record the
entries so lost, for the two properties they affect. A start's own registration moves its entry
to the end of `activeTurns`, so what it evicts is another session's. Steps of the runtime that
only trace or log are left out. A completion that the coordinator rejects for its scope is a
nondeterministic `RejectStop`.

`MemoryTurns` composes the abstract session, a registry and the writeback for one session
whose `.git` breaks and is repaired; it uses the session atomically, which `Linearizes`
justifies. `HeldAnswers` chooses between clients that complete in the microtask in which
they got the scope and Trae, which awaits trace writes in between. A completion looks its registration
up before its first await (`BeginCompletion`) and consumes it only while its turn was not
registered again (`own`).

### Managed Backend

`BackendService` has a table of operating-system processes: PIDs are reused, a stranger may
hold the port, a Backend may hang, exit late or be reaped late. A command is one stretch per
turn of its event loop, killed between any two. On Windows a stop writes a shutdown request
that the Backend's watcher polls for; any watcher removes any request. A stop without a
record answers ok and is no step; a start that fails on its arguments is no step. A restart
is a stop and then a start. `startBackendService`'s answer for an already running Backend is
modelled although the orchestrator always stops first.

Between the last check of a PID and the signal lie a few system calls in which a PID could be
reused in principle; the model, like the code, takes the stretch as one.

### Lifecycle and package replacement

A command of `ClientLifecycle` is a record `call` whose `phase` names what it does next; the
calls to the clients within one phase are one step in which any subset may fail with or
without its effect, which is also what a kill in the middle leaves. There is one installation
per client. A command that cannot get the lock is no step. `status` takes no lock and changes
nothing. The marker's legacy alias and an unreadable marker are not modelled.

`PackageTransition` adds the installations: `update[u].pc` is where npm, its scripts or the
update command around them stand, `child` what the lifecycle command they spawned does. A
child waits for the lifecycle lock like a user's command and outlives a parent that is
killed. Whoever restores waits until that child has ended: a start left behind by a killed npm
beside the update command's own start is not modelled, nor is a script that outlives its npm
under an update command (it goes on as the scripts of a `Direct` installation do). `stops`,
`revoked` and `downed` are history for the properties: user stops so far, updates that looked
before one of them, the update whose retirement took the Backend down; the clean-up stop carries
no id and sets no `downed`. The PID record may be unreadable whenever preinstall reads it. A
postinstall retries a failed start or status once; the update command restores its own
retired record once after a failed npm. Hooks' starts carry no permit. The lock of the
update command is `UpdateLockFree`. The recheck of the record before it is removed is
redundant under `tlock` and left out.

### Repository-memory jobs

`RepoMemoryJobs` follows a command (`starter`) and the worker it leaves (`worker`) for each job.
A step is one file-system call on the marker, the lock directory, `job.json` or the baseline, or
a stretch others cannot observe. The lock here is not `JsonFileLock` but a directory that is
classified, compared and removed in three calls (one that vanished before it is classified is
removed without a comparison), and a command reads, judges and removes a marker in three; a
worker's own reading and judging is one step. The comment in `repo-memory-job-supervisor.mjs`
("The startup lock serializes worker publication; the active marker prevents another launch
after this short-lived lock is released") holds up to these two races: `stolen` and `torn` are
history variables that record when one of them took a lock or a marker on the strength of an
older content, and `OneWorker` is stated up to them. `PublishesItsBase` survives a torn marker,
because the attempt's cooldown keeps the next job away, but not a stolen lock.

Two assumptions on time are built in: cooldowns are hours, so that none ends while an automatic
job is alive, and a client at work takes longer than a supervisor that is giving up. Not
modelled: the six-hour limit of markers, PID reuse, lease markers of native jobs, the second
marker and lock that a linked worktree keeps for older versions, a rewritten default branch, and
the client process that a killed worker leaves behind.

### Hook runtime

In `HookGenerations` an install copies, syncs, renames and syncs again, then activates once the
Backend is ready; a hook reads the pin and the current record and runs what they name, or
nothing. `tree[g].safe` says what a power loss spares. A pin is durable with the step that
writes it. Every shell brings a runtime of its own. A late `UserPromptSubmit` of an earlier turn
takes the session's pin again, and the stop of the newer turn then finds a pin that is not its
own; the comment "A Turn must finish with the runtime selected at its start"
(`client-hook-launcher.mjs`) is therefore stated for the turns that are not `retaken`.

### DSH

`DshProfiles` takes one native `dsh plugin add` or `remove` as a step; it may do its work, do
nothing, do it and report a failure, or leave a torn manifest. The lifecycle command may be
killed between any two, and the user edits profiles meanwhile; a native command does not outlive
its caller. A kill between the materialization of a bundle and the write of the state, which
leaves an unused bundle, is left out. One gap is known and named `unseen`: an update whose add
leaves a profile that was new to it with an unreadable manifest forgets that profile when it
rolls back, although the comment at `profile-lifecycle.mjs:490` promises that every target stays
claimed. What a rollback could not remove from a profile is a bundle that the state does not
authorize, and `AuthorityVerified` exempts it. A rollback writes the prior state back as it was
(`profile-lifecycle.mjs:666`): a profile that the user deleted and made anew with a copy of
their own meanwhile is claimed again. That takes three edits during one command, more than the
run allows; the proof of `OwnCopyLeftAlone` found it, and the property names the case.

`DshTurns` is the plugin: `tail` is the chain of writebacks, `step[t]` the pre-step of turn t,
`context` the staged message. Turn 0 is the one that was interrupted when DSH last ended. The
Backend is seen only through what it `received`. A change of directory during the wait for the
Backend does not stop a command that is already built, as in the code. Left out: the cadence of
reminders and its file, search guidance, duplicate concurrent pre-steps, reminder traces.

### Cursor

`CursorTurns` keeps one session's record as the disk has it and a `job` that holds the lock with
its own copy; a step runs from one await to the next. Hooks come in any order, repeated or not
at all. `SaveRecord` may throw, which ends the operation; a retry then sets its timer again, a hook
does not. The database is abstracted to "there as reported", "not yet" and "never". `cut` names
the turns whose retries this Backend has lost: a hook ended with an exception, or a retry that
waited in vain for the lock set the timer for a turn that was replaced meanwhile
(`scheduleRetry` does not look, and `retries` holds one timer per session). The new turn then
waits for its next hook, the next start or a restart. `docs/troubleshooting.md` promises that
missing content "is retried for up to 30 seconds"; the gap needs an operation that holds the
lock for more than a second, and `PendingIsArmed` is stated outside it. Left out: compaction,
subagents, the limit of 8192 retired turns, diagnostics.

### Trial credential

`TrialCredential` has one step per await of a setup or a deletion: both locks, each call of the
operating system's store, the request. A store call may fail with or without its effect or
report success without any, which is why the code reads back what it saved. A command may be
killed at any point, and the machine may change the mark it would derive. The service gives one
account per mark. A helper process of the store does not outlive its caller, nobody tampers with
the store, and readers without a lock are left out.

## 3. Runs

| Run | Question | Instance |
|---|---|---|
| `lock_reaping` | Is the lock exclusive under crashes, reaping, PID and inode reuse? Is a Cursor turn retried and written once, is there one trial account, does a deletion last? | three scenes: 3 processes, one call each, the third with the first one's PID, 3 inodes; 2 Cursor turns, 2 Backends, 1 failed write; 3 setups, 1 deletion, 2 marks, 2 store faults, 3 tries, 1 change of the machine |
| `lock_recovery` | Does a later call get past what two racing, crashing, refused calls left? | the same with own PIDs; the last call starts when the others are quiet |
| `writeback_upgrade` | Does every accepted turn end in a write or a failure, also through upgrade, drain and close? | 2 turns in the degraded, 1 in the Git namespace; 3 enqueues, 2 attempts, character limit reached by 2 |
| `writeback_replay` | Is a turn written twice only after a failure or a lost reservation? | 2 turns reported up to 3 times, 3 reservations, 2 parts, mode switched |
| `writeback_mode` (violation) | Is no accepted turn lost when buffering is switched off? | see section 6 |
| `session` | Do overlapping resolutions look like atomic ones? | 2 calls, 3 directories of which one is nested, `.git` absent, broken or present, 2 base users |
| `trae_turns` | Do overlapping prompts and stops keep the session's order, whatever throws or is evicted? | 2 turns, the first reported twice, 2 stops, a registry of 1, marks for 1 turn, 1 hook that throws or entry that other sessions evict |
| `memory_turns` | Is nothing sent under a namespace after its upgrade? | 2 turns, 3 completions, `.git` broken and repaired, answers used at once |
| `memory_turns_held` (violation) | The same for a client that holds its answer | see section 6 |
| `installation` | Does a start or stop end only the process it means, lose none and tell the truth? Does a turn keep its runtime, and is what is published whole? Does the DSH plugin tell in order, give context once and fall silent? | six scenes, see below |
| `package_update` | Are integrations on record, user stops final and outages remembered? Does the DSH adapter keep track of its profiles and leave the user's own alone? | four scenes, see below |
| `repo_memory` | Is there one worker, are baselines replaced from themselves, do verdicts stand? | 2 commands, automatic or manual; a third was killed before and may have left a marker or a lock; 2 commits, 1 more killed process |

Why the bounds are enough: each hazard needs a fixed, small number of actors. A lock is
misjudged by one process about a second while a third creates it anew; a turn is written
twice by two reports of it; a session is split by two resolutions; a late stop needs one turn
after its own. With two resolutions the second can latch a mismatch, but none is left to be
refused for it: that a latched session answers no more is shown by the theorems `MismatchStays`
and `AnswersAgree` alone. The reservation table, the registries and the buffers are set to limits
that the instance exceeds. `MaxTaken`, `MaxStarts`, `MaxStops`, `MaxUpsets`, `MaxAttempts` and
`MaxParts` bound what is otherwise unbounded; the theorems of section 5 drop these bounds.

`MCPackageTransition` explores four scenes in one run: *clients*, the commands alone with every
selection of four clients (Codex and Claude, whose failures are treated apart, DSH, and one of
the rest); *update*, one installation under the update command, with DSH selected or not;
*updates*, an installation under the update command and a direct one at the same time, clients
left out; *profiles*, two profiles of DSH, one of them the built-in, with two releases and the
former package name, one fault, one edit and two commands. In the first three the user stops,
restarts or uninstalls at most once with effect on the revision. The scenes split the product of
features that do not interact except through the Backend, the record and the revision, which
they keep; the theorems cover the product.

`MCInstallation` explores six: *backend*, two PIDs and three instances on POSIX and Windows;
*turns*, *session* and *install*, the hook runtime with two generations, two shells, two turns,
one damage or power loss, and the prompts and the stop of two turns, the hooks around a
compaction, or two installs at once; *told* and *context*, the DSH plugin with two turns after
an interrupted one and one compaction, with what it tells under at most one kind of disturbance
(a move, a stop by the user, an unload), or with the context it adds while nothing disturbs.
`MCLockedRecords` explores three: *lock*, *cursor* and *trial*. The parts of these two modules
share no state: a scene leaves the state of the others as it began, so that nothing is lost by
exploring them apart. The Cursor scene was also checked once with three turns (4.5 million
states).

Deadlock is checked only where the system should never stop (`installation`,
`package_update`); the other configurations use each call, turn or request once and end.

Each property has a mutant in `PROJECT.json`: a change of one definition, such as a dropped
recheck, a missing reset or a swapped order, under which TLC refutes it. The bodies are the
operators commented "Mutant" or "As X, but ..." in the modules; nothing else uses them.

## 4. Fairness

* `FairCall` (lock): a call that keeps running takes its next system call (weak fairness), and
  a create, write, judgement, link or unlink that is possible again and again succeeds in the end
  (strong fairness): its call polls, ages grow and transient refusals pass. Nothing
  is promised while others keep taking the lock: the code polls and has no queue.
* `FairSpec` of `AutomaticWriteback`: timers fire, provider requests are answered (the adapter
  aborts them) and continuations run.
* `CallStep` in `RepositorySession`, the hook steps in `TraeTurns`: Node runs every
  continuation, and file-system calls return. New hooks need not come.
* `BackendService`, `ClientLifecycle`, `PackageTransition`, `RepoMemoryJobs`, `HookGenerations`,
  `DshProfiles`, `DshTurns`, `CursorTurns` and `TrialCredential` claim no liveness: their
  commands have time-outs that the models make nondeterministic, and may be killed.

## 5. Proofs

All theorems hold for every value of the constants that satisfies the named assumptions of the
module that declares them.

**Lock** (`LockedRecordsProofs`). `LockInv` is inductive: a path is held by at most one call,
link counts say who may be about to remove it (`OneReaper`), and a claim pins the inode so that a
recycled number cannot be taken for it. From it: `LockExcludes`, `LockPathKept` and the
refinement `LockKeepsPromise`. The proof does not use the two checks by `fstat`; they are
redundant for exclusion.

**Cursor turns** (`LockedRecordsProofs`). `CursorInv` says that an operation works on what is on
record and only its last step differs (`JobInv`), where the timer of a waiting turn is at each
place of the operation (`TimerInv`), and that what was written is reserved, recorded or about to
be (`WriteInv`). `RetriesAreArmed` is part of it, `WrittenTruly` follows. The assumption is that
`NoTurn` is no turn.

**Trial credential** (`LockedRecordsProofs`). `AccountInv` says that only the command with the
provisioning lock is under way (`ProvisionInv`), and what it knows of the store at each place
(`WorkInv`, by `Knows`): a seed is saved only over nothing, a completed record only over the
seed it completes. From it `OneAccountOnly` and `DeletionLasts`; `overtaken` is proved to stay
empty. The assumption, `TrialAssumption`, is that commands, marks, and the absence of either
differ.

**Writeback** (`AutomaticWritebackProofs`). `WritebackInv` ties reservations, buffers and
dispatches together: a key is pending exactly while a buffer or dispatch of its turn needs it
or it lapsed. From it: `WritesOnce`, `FailedMayReplay`, `BuffersStayBounded` and
`QuietAfterShutdown`. `NothingIsLost` and `DrainLeavesNothing` have the hypothesis
`~ModeChanges`: with it false `NothingLost` fails, which is the finding of section 6. `SteadyInv`
says what the mode change breaks: no turn in a buffer is reserved by a dispatch, and without
buffering no buffer holds one; so a flush is blocked only by a remembered dispatch of the same
whole batch, and that dispatch runs or has written it. `DrainInv`, which needs no such
hypothesis, says that everything that runs after drain() is awaited by its promise.

**Session** (`RepositorySessionProofs`). `SessionInv` says that only the head of the queue is
inside a resolution and that the binding it found still stands; then each commit is a step of
`SessionScope` (`ResolverLinearizes`). `AnswersAgree` and `MismatchStays` are proved of the
abstract module, by cases on what a scope may be replaced by, and hold of the resolver because
it implements that module. `NestedCallsAreKept` is about behaviours in which `.git` stays as it
is: `SteadyInv` says that the bound scope is what a resolution yields (`Genuine`) and that a call
under way would choose its root again; the lemma `ResolvesAgain` says that such a scope is found
again from its own root, and a Git scope, or the folder of a broken `.git`, from every directory
it contains. A hook that names another kind of workspace (`Reclassifies`) is outside it. With a
changing `.git` the property fails, as listed among the hazards.

**One session end to end** (`MemoryTurnsProofs`). `SessionIsUsedAsDescribed` and
`WritebackIsUsedAsDescribed` say that the composition does to its parts only what their modules
describe. `StartedTurnsKeepTheirScope` and `FallbackIsNotSent` have the hypothesis
`~HeldAnswers`; with it false the second fails, which is the finding of section 6. `MemoryInv`
then says that an answered completion has the session's present scope, that a turn registered
under the Git scope is in a session bound to it (`AnswersInv`), that a buffer holds turns of its
own namespace (`BuffersInv`), and that the fallback's buffer is empty unless the session is bound
to the fallback (`FallbackInv`). `MemoryAssumption` says of the limits that they are natural
numbers, and of two that they are positive, as the defaults of the configuration are.

**Trae turns** (`TraeTurnsProofs`). `TraeInv` says that the unanswered starts wait in the order
they came and only the first is under way (`QueueInv`); that the turn of each stands in `asked`
behind every turn that was registered (`AskedInv`); and that a stop has captured a state of its
own turn (`StopInv`). From it `NewestKeepsItsSession` and the refinement of `TurnCoordinator`,
`TheCoordinatorIsUsedAsDescribed`. `ReplacedIsNotWritten` follows from `MarksInv`: a registered
turn is marked as over, holds the session, or was lost by one of the bounded tables (`Gone`); so
a stop of a replaced turn gets past the refusal only if its turn was lost. It needs no bound on
the turns, and none on what other sessions evict.

**Hook runtime** (`InstallationProofs`). `HookInv` says that what is current, kept, pinned or
about to be pinned is whole and synced (`HeldInv`, `SelectInv`), that one install at a time
copies, over nothing (`InstallInv`), and that a turn's pin was written by a prompt that ran
(`RunInv`). From it `PublishedStaysWhole` and `TurnsKeepTheirRuntime`.

**DSH plugin** (`InstallationProofs`). `DshInv` says which turns the chain of writebacks may still
tell and in which order (`ChainInv`, `WrittenInv`), that a recovery comes before the first of
them (`RecoveryInv`), what each pre-step has in hand (`StepInv`), and which context was tried
last (`ContextInv`). From it `ToldInTheirOrder`, `ContextIsAcceptedOnce` and the action property
`SilentOnceDisposed`. The assumption is that `MaxTurn` is a natural number.

**Managed Backend** (`InstallationProofs`). `ServiceInv` relates record, process table and
the registers of the call under way. From it all three safety properties and the refinement
`ServiceKeepsPromise`.

**DSH profiles** (`LifecycleProofs`). `ProfilesInv`: what a command has still to deal with is
claimed by the state or by the prior state it may go back to (`OpInv`, `UpdateInv`,
`RemovalInv`), and what it has dealt with is as it should be (`DoneInv`); `ManifestInv` says that
no profile lists two bundles of one name. `ProfilesAreTracked` is part of it; the action
properties `AuthorityIsVerified` and `OwnCopyIsLeftAlone` follow step by step.

**Lifecycle and package** (`LifecycleProofs`). `CommandInv` says for each phase what marker,
Backend and integrations may be; the delicate part is a stop's commit (`Scope \ clients` is
covered by what it will keep) and the re-enabling of DSH after a failed start, which first
widens the marker. From it `IntegrationsAreCovered` and `SwitchesBetweenBackends`.
`PackageKeepsLifecycle` carries both over to npm's world. `PackageIInv` adds: no revision that a
revoked update has seen is ever written again (`SeenInv`), a permit names an update that is
not revoked, the lock's holder is the running child of its issuer, a retirement under way is
the one the record names, and an outage's record outlives its cause. From it
`PackageInvariant`, `UserStopIsHonoured` and `OutageIsRecorded`.

**Repository-memory jobs** (`RepoMemoryJobsProofs`). `JobsInv` is the conjunction of `TypeOK`;
`WorkerInv`, which phases of a command and its worker go together; `ReportInv`, what `job.json`
may say in each, whoever wrote it last; `LockInv` and `BaselineInv`, that one command holds the
lock and that of the automatic jobs started from one baseline only one can still publish, until
a lock is stolen; and `MarkerInv`, that a worker at work owns the marker, until a lock is stolen
or a marker torn. From it all four properties of the run, `OneWorkerAtATime`,
`EveryEndIsReported`, `BaselinesFollow` and `VerdictsAreFinal`.

Each invariant was first checked by TLC on the instances above. Only proved, and checked by no
run in its present form: `ServiceKeepsPromise`, `LockInvariant` and the other inductive
invariants (but `WritebackInv`, which a run checks). Only model-checked: all liveness
(`EveryTurnSettles`, `HooksAnswered`, `EveryCallAnswered`, `LastCallRecovers`). TLAPS has no
support for `ENABLED` or fairness here, nor for induction over data; no module that is proved
about declares a `RECURSIVE` operator.

## 6. What the models found

* **Buffered turns dropped when buffering is switched off** (`writeback_mode`).
  `flushMemoryWritebackBuffer` drops a whole buffer when the key of any one of its turns is
  pending. The mode is read at each enqueue, so after it is switched off a replay of one
  buffered turn reserves its key directly, and the idle flush then drops its neighbours, which
  had been accepted, without a write or a failure.
* **A late answer fills the degraded namespace after its discard** (`memory_turns_held`).
  `docs/troubleshooting.md` says unsent turns of the fallback scope are never flushed after an
  upgrade. The Trae runtime resolves the scope, awaits trace writes and then completes with
  the old answer; if the session is upgraded in between, the turn enters the discarded buffer
  and is flushed.

Behaviour the models admit and no property forbids, for maintainers to know:

* A Backend whose start was killed before its record was durable keeps the port; later starts
  fail on it until it is ended by hand (`NoLostBackend` says exactly when this may happen).
* The watcher of such an orphan may consume another instance's shutdown request; the stop then
  falls back to ending the process tree.
* A second SIGTERM while the Backend closes ends it without a drain.
* A retiring record left by a kill blocks later installations, and `update --recover` refuses
  it; `docs/troubleshooting.md` documents that.
* The cleanup of a dead Backend's record, or of one that preinstall cannot read, runs without a
  transition id and stops whatever Backend runs, also one that a hook or a user started meanwhile;
  no transition remembers that outage (`OutageRecorded` is about retirements only).
* A lock file or a reap claim that the host refuses to remove holds every later call up until the
  process that left it is dead (`AbandonedLockRecovered` says exactly when).
* A late Stop of a replaced Trae turn is written when other sessions have pushed the turn's entry
  or its mark out of a bounded table (`ReplacedNotWritten` says exactly when).
* A reservation can expire in the middle of a long dispatch, and the turn can then be written
  twice; `NoDuplicateWrite` counts a lapsed reservation as a cause.

## 7. What is left out

Logging, tracing, diagnostics, formatting and redaction; HTTP and the provider (each request
succeeds or fails); parsing of configuration, `.git` and transcripts (their outcomes are
inputs); the terminal dialogues. A single base user is used in `MemoryTurns`. The resolver's,
the Trae runtime's and the service's `close()` only drop tables of a process that exits.
Reading a lifecycle file that is corrupt is not modelled. Components not modelled at all are
listed with the reason in `PROJECT.json` and in the plan.

## 8. Plan

Done: the lock; writeback; session and scope; coordinator, Trae and their composition; managed
Backend; client lifecycle; package transition; repository-memory jobs; the hook runtime; DSH's
profiles and plugin; Cursor's turns; the trial credential; proofs of all of these.

Next, in this order:

1. The other client runtimes, as far as they differ from Trae and Cursor: Codex (rollback),
   OpenCode (events inside the client), each against `TurnCoordinator`; Cursor's compaction.
2. Pure algorithms against reference definitions: writeback chunking, update policy, turn
   materialisation from a transcript being written, reminder cadence.
3. `AutomaticUpdate` (scheduler, child, state file), with one property first: an updater is
   launched only for a pending transition or a record that is stale for the package on disk.
   The scheduler (`automatic-update-scheduler.ts:133`) compares the record with the version of
   its own process, `automatic-update.mjs` with the version on disk, and a setup retains a
   Backend that runs (`service.ts:203`), so the two versions can differ. Then `QuotaNotice`,
   `Setup`, and `ensure-backend-runner` beside the lifecycle.
4. `ManagedConfig`: the rewrite of client configuration with crashes and user edits; the trace
   store's append and retention.

Small independent components share a run: their MC module composes them under a `scene`
variable as `MCPackageTransition` does, so that each still has its whole state space explored.
