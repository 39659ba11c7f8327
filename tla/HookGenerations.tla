--------------------------- MODULE HookGenerations ---------------------------
(***************************************************************************)
(* The durable hook runtime (hooks/hook-runtime-generation) and the         *)
(* launcher that picks one for each hook (hooks/client-hook-launcher).      *)
(*                                                                         *)
(* An install stages the runtime of its package as a generation, and makes  *)
(* it current once the Backend is ready.  A generation is never changed or  *)
(* removed by the program.  The hooks of one session run beside that: the   *)
(* first hook of a turn pins a runtime, the others follow the pin.  A plugin *)
(* shell brings a runtime of its own, used when there is no current one.    *)
(***************************************************************************)
EXTENDS Naturals

CONSTANTS
  Generations,  \* version and content digest of a package's runtime
  Shells,       \* versions of the plugin shell that may be installed
  Installs,     \* install commands, each run once
  HookCalls,    \* hook processes of the session
  EventOf,      \* the event each is started for
  MaxTurns,     \* bound: turns of the session
  MaxLosses     \* bound: external damage and power losses

VARIABLES
  tree,        \* generations/<id>: its content, and what would survive a power loss
  current,     \* current.json: the record read now, and the one on the disk
  install,     \* the progress of each install command
  pin,         \* pins/<client>/<session>.json
  hook,        \* the progress of each hook process
  turn,        \* the turn the client is in
  losses,      \* damage and power losses so far
  \* History, read by the properties only:
  damaged,     \* generations damaged from outside
  retaken      \* turns whose pin another turn has replaced

stores  == <<tree, current>>
hookVars == <<tree, current, install, pin, hook, turn, losses, damaged, retaken>>

Absent == "absent"
NoTree == [content |-> Absent, safe |-> FALSE, listed |-> FALSE]

Durable(g) == <<"durable", g>>
Bundled(s) == <<"bundled", s>>
NoRuntime  == <<"none", Absent>>
NoPin      == [status |-> "absent", turn |-> 0, runtime |-> NoRuntime]
BadPin     == [NoPin EXCEPT !.status = "invalid"]  \* another ABI, or torn
PinOf(t, r) == [status |-> "valid", turn |-> t, runtime |-> r]

HookAt(pc, t, s, r) == [pc |-> pc, turn |-> t, shell |-> s, runtime |-> r]
\* A hook that was skipped or killed.
Dropped == HookAt("dropped", 0, Absent, NoRuntime)

\* Nothing is installed yet, or an earlier release is current.
HookInit ==
  /\ \E g \in Generations \cup {Absent} :
       /\ tree = [k \in Generations |->
            IF k = g THEN [content |-> "whole", safe |-> TRUE, listed |-> TRUE] ELSE NoTree]
       /\ current = [now |-> g, kept |-> g]
  /\ install = [i \in Installs |-> [pc |-> "idle", gen |-> Absent]]
  /\ pin \in {NoPin, BadPin}
  /\ hook = [h \in HookCalls |-> HookAt("unused", 0, Absent, NoRuntime)]
  /\ turn = 1 /\ losses = 0 /\ damaged = {} /\ retaken = {}

-----------------------------------------------------------------------------
(* Staging and activating a generation.                                    *)

\* As published; else files of it were "changed", or it is "broken": its manifest or a
\* module cannot be read.
Whole(g)    == tree[g].content = "whole"
Readable(g) == tree[g].content \in {"whole", "changed"}
Harmed(g)   == {[tree[g] EXCEPT !.content = c] : c \in {"changed", "broken"}}

InstallAt(i, pc, g) == install' = [install EXCEPT ![i] = [pc |-> pc, gen |-> g]]
InstallEnds(i) == InstallAt(i, "ended", Absent)
InstallRests == UNCHANGED <<pin, hook, turn, losses, damaged, retaken>>

\* The install lock covers the whole of stageClientHookRuntimeGeneration.
InstallLockFree == \A i \in Installs : install[i].pc \notin {"copied", "renamed"}

\* Mutant: a generation that is already there is taken without syncing it.
ReuseUnsynced(g) == Whole(g) /\ UNCHANGED tree

\* An existing generation must have the expected digest; whoever published it
\* may have died before it was synced.
Reuse(g) ==
  /\ Whole(g)
  /\ tree' = [tree EXCEPT ![g].safe = TRUE, ![g].listed = TRUE]

\* Read the package, then reuse its generation or copy, verify and sync a
\* temporary tree.
Stage(i) ==
  /\ install[i].pc = "idle" /\ InstallLockFree
  /\ \E g \in Generations :
       \/ /\ tree[g].content # Absent
          /\ Reuse(g)
          /\ InstallAt(i, "staged", g)
       \/ /\ tree[g].content # Absent /\ ~Whole(g)
          /\ InstallEnds(i) /\ UNCHANGED tree
       \/ /\ tree[g].content = Absent
          /\ InstallAt(i, "copied", g)
          /\ UNCHANGED tree
  /\ UNCHANGED current /\ InstallRests

\* The rename publishes the synced tree.
Rename(i) ==
  /\ install[i].pc = "copied"
  /\ tree' = [tree EXCEPT ![install[i].gen] =
                [content |-> "whole", safe |-> TRUE, listed |-> FALSE]]
  /\ InstallAt(i, "renamed", install[i].gen)
  /\ UNCHANGED current /\ InstallRests

\* The directory is synced; when that fails the generation is there all the
\* same, and is verified and synced again.
SyncRenamed(i) ==
  /\ install[i].pc = "renamed"
  /\ \/ /\ Reuse(install[i].gen) /\ InstallAt(i, "staged", install[i].gen)
     \/ InstallEnds(i) /\ UNCHANGED tree
  /\ UNCHANGED current /\ InstallRests

\* The Backend did not start, or the copy or the rename failed.
InstallFails(i) ==
  /\ install[i].pc \in {"copied", "staged"}
  /\ InstallEnds(i)
  /\ UNCHANGED stores /\ InstallRests

\* The digest is verified again; the record is replaced under its lock, and
\* its durability is uncertain when the directory cannot be synced.
Activate(i) ==
  /\ install[i].pc = "staged"
  /\ IF Whole(install[i].gen)
     THEN /\ InstallEnds(i)
          /\ \E kept \in {current.kept, install[i].gen} :
               current' = [now |-> install[i].gen, kept |-> kept]
     ELSE InstallEnds(i) /\ UNCHANGED current
  /\ UNCHANGED tree /\ InstallRests

InstallKilled(i) ==
  /\ install[i].pc \in {"copied", "renamed", "staged"}
  /\ InstallEnds(i)
  /\ UNCHANGED stores /\ InstallRests

-----------------------------------------------------------------------------
(* The hooks of one session.                                               *)

HookRests == UNCHANGED <<tree, current, install, turn, losses, damaged>>

\* The client begins the hooks of the turn it is in: the prompt's, then the
\* stop's.  Each runs the launcher of the shell installed at that moment.
HookStarts(h, s) ==
  /\ hook[h].pc = "unused"
  /\ EventOf[h] = "UserPromptSubmit" =>
       \A k \in HookCalls : EventOf[k] = "Stop" => hook[k].turn # turn
  /\ hook' = [hook EXCEPT ![h] = HookAt("waiting", turn, s, NoRuntime)]
  /\ UNCHANGED <<pin, retaken>> /\ HookRests

PinFree == \A h \in HookCalls : hook[h].pc # "selected"

\* readCurrentClientHookRuntime and resolveClientHookRuntimeModule: the
\* record must name a generation whose manifest and module can be read.
currentSelection(h) ==
  IF current.now # Absent /\ Readable(current.now)
  THEN Durable(current.now) ELSE Bundled(hook[h].shell)

\* The pinned generation can be read, or the pinned bundled runtime is the one
\* of this very shell.
PinResolves(h) ==
  \/ pin.runtime = Bundled(hook[h].shell)
  \/ pin.runtime[1] = "durable" /\ Readable(pin.runtime[2])

\* Mutant: another runtime stands in for one that cannot be resolved.
PinOrCurrent(h) ==
  IF PinResolves(h) THEN pin.runtime ELSE currentSelection(h)

\* Nothing else is taken in its place.
selectionFromPin(h) ==
  IF PinResolves(h) THEN pin.runtime ELSE NoRuntime

\* A hook without a runtime does nothing.
Use(h, r) ==
  hook' = [hook EXCEPT ![h] = IF r = NoRuntime THEN Dropped
                              ELSE HookAt("runs", hook[h].turn, Absent, r)]

Pinned(h) == pin.status = "valid" /\ pin.turn = hook[h].turn

\* The first hook of a turn selects a runtime, and pins it by Pin below.
PromptHook(h) ==
  /\ hook[h].pc = "waiting" /\ EventOf[h] = "UserPromptSubmit" /\ PinFree
  /\ CASE pin.status = "invalid" -> Use(h, NoRuntime)
       [] Pinned(h)              -> Use(h, selectionFromPin(h))
       [] OTHER -> hook' = [hook EXCEPT ![h].pc = "selected",
                                        ![h].runtime = currentSelection(h)]
  /\ UNCHANGED <<pin, retaken>> /\ HookRests

Pin(h) ==
  /\ hook[h].pc = "selected"
  /\ pin' = PinOf(hook[h].turn, hook[h].runtime)
  /\ retaken' = IF pin.status = "valid" THEN retaken \cup {pin.turn} ELSE retaken
  /\ Use(h, hook[h].runtime)
  /\ HookRests

StopHook(h) ==
  /\ hook[h].pc = "waiting" /\ EventOf[h] = "Stop" /\ PinFree
  /\ Use(h, IF Pinned(h) THEN selectionFromPin(h) ELSE NoRuntime)
  /\ UNCHANGED <<pin, retaken>> /\ HookRests

\* SessionStart: after a compaction the pin of the session counts, whatever
\* its turn; otherwise the current runtime is taken without a lock.
SessionHook(h) ==
  /\ hook[h].pc = "waiting"
  /\ \/ /\ EventOf[h] = "compact" /\ PinFree
        /\ Use(h, IF pin.status = "valid" THEN selectionFromPin(h) ELSE NoRuntime)
     \/ EventOf[h] = "startup" /\ Use(h, currentSelection(h))
  /\ UNCHANGED <<pin, retaken>> /\ HookRests

HookKilled(h) ==
  /\ hook[h].pc \in {"waiting", "selected"}
  /\ hook' = [hook EXCEPT ![h] = Dropped]
  /\ UNCHANGED <<pin, retaken>> /\ HookRests

\* The turn ends, or the user interrupts it.
NextTurn ==
  /\ turn < MaxTurns /\ turn' = turn + 1
  /\ UNCHANGED <<stores, install, pin, hook, losses, damaged, retaken>>

-----------------------------------------------------------------------------
(* What the machine and the user do to the files.                          *)

\* Someone removes or breaks files of a published generation.
Damage(g) ==
  /\ losses < MaxLosses /\ losses' = losses + 1
  /\ Whole(g)
  /\ \E harmed \in Harmed(g) : tree' = [tree EXCEPT ![g] = harmed]
  /\ damaged' = damaged \cup {g}
  /\ UNCHANGED <<current, install, pin, hook, turn, retaken>>

\* What was not synced may be lost; every process ends.  (A pin is synced in
\* the step that writes it.)
PowerLoss ==
  /\ losses < MaxLosses /\ losses' = losses + 1
  /\ tree' \in [Generations -> {NoTree} \cup UNION {{tree[g]} \cup Harmed(g) : g \in Generations}]
  /\ \A g \in Generations :
       \/ tree'[g] = tree[g]
       \/ tree'[g] = NoTree /\ ~tree[g].listed
       \/ tree'[g] \in Harmed(g) /\ tree[g].content # Absent /\ ~tree[g].safe
  /\ \E r \in {current.now, current.kept} : current' = [now |-> r, kept |-> r]
  /\ install' = [i \in Installs |->
       IF install[i].pc \in {"copied", "renamed", "staged"}
       THEN [pc |-> "ended", gen |-> Absent] ELSE install[i]]
  /\ hook' = [h \in HookCalls |->
       IF hook[h].pc \in {"waiting", "selected"}
       THEN Dropped ELSE hook[h]]
  /\ UNCHANGED <<pin, turn, damaged, retaken>>

HookNext ==
  \/ \E i \in Installs : \/ Stage(i) \/ Rename(i) \/ SyncRenamed(i)
                         \/ InstallFails(i) \/ Activate(i) \/ InstallKilled(i)
  \/ \E h \in HookCalls :
       \/ \E s \in Shells : HookStarts(h, s)
       \/ PromptHook(h) \/ Pin(h) \/ StopHook(h) \/ SessionHook(h) \/ HookKilled(h)
  \/ NextTurn \/ PowerLoss \/ \E g \in Generations : Damage(g)

HookSpec == HookInit /\ [][HookNext]_hookVars

-----------------------------------------------------------------------------
\* Every hook of a turn that runs, runs the runtime the turn began with: not
\* the current one after an install, nor another bundled one after the plugin
\* was replaced, nor a stand-in for one that is damaged.  The hooks of a stop
\* run only what a hook of its prompt has pinned, those after a compaction what
\* some prompt's has.  (A late hook of an earlier prompt takes the pin of the
\* session again; `retaken` names those turns.)
TurnKeepsRuntime ==
  \A h, k \in HookCalls :
    /\ hook[h].pc = "runs" /\ hook[k].pc = "runs"
    /\ {EventOf[h], EventOf[k]} \subseteq {"UserPromptSubmit", "Stop"}
    /\ hook[h].turn = hook[k].turn /\ hook[h].turn \notin retaken
    => hook[h].runtime = hook[k].runtime

PinIsFollowed ==
  \A h \in HookCalls :
    hook[h].pc = "runs" /\ EventOf[h] \in {"Stop", "compact"} =>
      \E k \in HookCalls : /\ hook[k].pc = "runs" /\ EventOf[k] = "UserPromptSubmit"
                           /\ hook[k].runtime = hook[h].runtime
                           /\ EventOf[h] = "Stop" => hook[k].turn = hook[h].turn

TurnsKeepRuntime == TurnKeepsRuntime /\ PinIsFollowed

\* The generation that is current, and the one a session has pinned, are whole
\* as published, also after a power loss, unless someone outside damaged them.
PublishedIsWhole ==
  \A g \in Generations \ damaged :
    g \in {current.now, current.kept} \/ pin.runtime = Durable(g) => Whole(g)
=============================================================================
