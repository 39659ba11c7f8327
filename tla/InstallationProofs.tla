------------------------- MODULE InstallationProofs -------------------------
(***************************************************************************)
(* Proofs about what `memorax-code start` leaves on a machine: the runtime  *)
(* of the hooks (HookGenerations), the plugin inside DSH (DshTurns) and the *)
(* calls that start and stop the Backend (BackendService), for any          *)
(* generations, shells, hook calls, installs, turns, PIDs and instances.    *)
(*                                                                         *)
(* HookInv: whatever is current or pinned, or selected and about to be      *)
(* pinned, is whole and synced, and a hook that runs follows the pin of its *)
(* turn.  DshInv: the turns in the chain of writebacks are over and in      *)
(* order, after whatever was written, and a context that was accepted, is   *)
(* pending or is loading was tried last.  ServiceInv is inductive as        *)
(* BackendService states it; its lemmas follow the calls.                   *)
(***************************************************************************)
EXTENDS BackendService, HookGenerations, DshTurns, TLAPS

-----------------------------------------------------------------------------
(***************************************************************************)
(* The runtime of the hooks.                                               *)
(***************************************************************************)
Runtimes == {Durable(g) : g \in Generations} \cup {Bundled(s) : s \in Shells} \cup {NoRuntime}
Trees == [content : {Absent, "whole", "changed", "broken"}, safe : BOOLEAN, listed : BOOLEAN]

HookTypeOK ==
  /\ tree \in [Generations -> Trees]
  /\ current \in [now : Generations \cup {Absent}, kept : Generations \cup {Absent}]
  /\ install \in [Installs -> [pc : {"idle", "copied", "renamed", "staged", "ended"},
                               gen : Generations \cup {Absent}]]
  /\ pin \in [status : {"absent", "invalid", "valid"}, turn : Nat, runtime : Runtimes]
  /\ hook \in [HookCalls -> [pc : {"unused", "waiting", "selected", "runs", "dropped"},
                             turn : Nat, shell : Shells \cup {Absent}, runtime : Runtimes]]
  /\ \A h \in HookCalls : hook[h].pc = "waiting" => hook[h].shell \in Shells
  /\ turn \in Nat /\ losses \in Nat /\ damaged \subseteq Generations /\ retaken \subseteq Nat

\* One install at a time copies or publishes, and what it copies is not there yet.
InstallInv ==
  /\ \A i \in Installs :
       /\ install[i].pc \in {"copied", "renamed", "staged"} => install[i].gen \in Generations
       /\ install[i].pc = "copied" => tree[install[i].gen].content = Absent
  /\ \A i, j \in Installs :
       {install[i].pc, install[j].pc} \subseteq {"copied", "renamed"} => i = j

\* Whatever is current or pinned, or may become so without another look at the disk,
\* would survive a power loss.
Held(g) ==
  \/ g \in {current.now, current.kept} \/ pin.runtime = Durable(g)
  \/ \E h \in HookCalls : hook[h].pc = "selected" /\ hook[h].runtime = Durable(g)
  \/ \E i \in Installs : install[i].pc = "staged" /\ install[i].gen = g
Secured(g) == tree[g] = [content |-> "whole", safe |-> TRUE, listed |-> TRUE]
HeldInv == \A g \in Generations \ damaged : Held(g) => Secured(g)

\* One hook at a time selects, for a turn that has no pin.
SelectInv ==
  /\ \A h \in HookCalls :
       hook[h].pc = "selected" =>
         EventOf[h] = "UserPromptSubmit" /\ hook[h].runtime # NoRuntime /\ ~Pinned(h)
  /\ \A h, k \in HookCalls : hook[h].pc = "selected" /\ hook[k].pc = "selected" => h = k

\* A turn whose pin was not replaced runs what is pinned, and a hook of its prompt ran it.
RunInv ==
  /\ \A h \in HookCalls :
       hook[h].pc = "runs" /\ EventOf[h] \in {"UserPromptSubmit", "Stop"}
         /\ hook[h].turn \notin retaken
         => pin = PinOf(hook[h].turn, hook[h].runtime)
  /\ pin.status = "valid" =>
       \E k \in HookCalls : /\ hook[k].pc = "runs" /\ EventOf[k] = "UserPromptSubmit"
                            /\ hook[k].turn = pin.turn /\ hook[k].runtime = pin.runtime

HookInv == HookTypeOK /\ InstallInv /\ HeldInv /\ SelectInv /\ RunInv /\ PinIsFollowed

HookRecords == [pc : {"unused", "waiting", "selected", "runs", "dropped"}, turn : Nat,
                shell : Shells \cup {Absent}, runtime : Runtimes]

\* The parts of the state that the steps read.
LEMMA HookParts ==
  ASSUME HookInv
  PROVE  /\ \A g \in Generations : tree[g] \in Trees
         /\ current.now \in Generations \cup {Absent} /\ current.kept \in Generations \cup {Absent}
         /\ pin.status \in {"absent", "invalid", "valid"} /\ pin.turn \in Nat
         /\ pin.runtime \in Runtimes
         /\ \A h \in HookCalls : hook[h] \in HookRecords
         /\ \A i \in Installs : install[i].gen \in Generations \cup {Absent}
         /\ turn \in Nat
  BY DEF HookInv, HookTypeOK, HookRecords

LEMMA RuntimesDiffer ==
  /\ \A g, k : Durable(g) = Durable(k) => g = k
  /\ \A g : Durable(g) # NoRuntime /\ Durable(g)[1] = "durable" /\ Durable(g)[2] = g
  /\ \A s : Bundled(s) # NoRuntime /\ Bundled(s)[1] = "bundled"
  /\ \A g, s : Durable(g) # Bundled(s)
  /\ NoRuntime[1] = "none"
  BY DEF Durable, Bundled, NoRuntime

\* A step of an install keeps the invariant when what it makes current or stages is, or was
\* held already, and nothing that is held loses its durability.
LEMMA InstallStep ==
  ASSUME HookInv, NEW i \in Installs, NEW pc \in {"copied", "renamed", "staged", "ended"},
         NEW g \in Generations \cup {Absent}, InstallAt(i, pc, g), InstallRests,
         tree' \in [Generations -> Trees],
         current' \in [now : Generations \cup {Absent}, kept : Generations \cup {Absent}],
         pc # "ended" => g \in Generations,
         pc = "copied" => tree'[g].content = Absent,
         pc \in {"copied", "renamed"} => InstallLockFree \/ install[i].pc \in {"copied", "renamed"},
         \A k \in Generations :
           tree[k].content = Absent /\ tree'[k] # tree[k] => install[i].pc = "copied",
         \A k \in Generations \ damaged :
           k \in {current'.now, current'.kept} \/ (pc = "staged" /\ k = g) => Held(k) \/ Secured(k)',
         \A k \in Generations \ damaged : Held(k) => Secured(k)'
  PROVE  HookInv'
  <1>1. /\ install' = [install EXCEPT ![i] = [pc |-> pc, gen |-> g]]
        /\ UNCHANGED <<pin, hook, turn, losses, damaged, retaken>>
    BY DEF InstallAt, InstallRests
  <1>2. HookTypeOK'
    BY <1>1 DEF HookInv, HookTypeOK
  <1>3. /\ install'[i].pc = pc /\ install'[i].gen = g
        /\ \A j \in Installs \ {i} : install'[j] = install[j]
    BY <1>1 DEF HookInv, HookTypeOK
  <1>4. InstallInv'
    <2>1. ASSUME NEW j \in Installs, install'[j].pc \in {"copied", "renamed", "staged"}
          PROVE  /\ install'[j].gen \in Generations
                 /\ install'[j].pc = "copied" => tree'[install'[j].gen].content = Absent
      <3>1. CASE j = i
        BY <1>3, <2>1, <3>1
      <3>2. CASE j # i
        <4>1. install'[j] = install[j]
          BY <1>3, <3>2
        <4>2. /\ install[j].gen \in Generations
              /\ install[j].pc = "copied" => tree[install[j].gen].content = Absent
          BY <2>1, <4>1 DEF HookInv, InstallInv
        <4>3. install[j].pc = "copied" => install[i].pc # "copied"
          BY <3>2 DEF HookInv, InstallInv
        <4> QED
          BY <4>1, <4>2, <4>3
      <3> QED
        BY <3>1, <3>2
    <2>2. ASSUME NEW j \in Installs, NEW k \in Installs, j # k,
                 {install'[j].pc, install'[k].pc} \subseteq {"copied", "renamed"}
          PROVE  FALSE
      <3>1. \A x, y \in Installs :
              install[x].pc \in {"copied", "renamed"} /\ install[y].pc \in {"copied", "renamed"} => x = y
        BY DEF HookInv, InstallInv
      <3>2. InstallLockFree => \A x \in Installs : install[x].pc \notin {"copied", "renamed"}
        BY DEF InstallLockFree
      <3>3. CASE j = i
        BY <1>3, <2>2, <3>1, <3>2, <3>3
      <3>4. CASE k = i
        BY <1>3, <2>2, <3>1, <3>2, <3>4
      <3>5. CASE j # i /\ k # i
        BY <1>3, <2>2, <3>1, <3>5
      <3> QED
        BY <3>3, <3>4, <3>5
    <2> QED
      BY <2>1, <2>2 DEF InstallInv
  <1>5. HeldInv'
    <2>1. ASSUME NEW k \in Generations \ damaged, Held(k)' PROVE Secured(k)'
      <3>1. CASE \/ k \in {current'.now, current'.kept}
                 \/ pin.runtime = Durable(k)
                 \/ \E h \in HookCalls : hook[h].pc = "selected" /\ hook[h].runtime = Durable(k)
        BY <3>1 DEF Held
      <3>2. ASSUME NEW j \in Installs, install'[j].pc = "staged", install'[j].gen = k
            PROVE  Secured(k)'
        <4>1. CASE j = i
          BY <1>3, <3>2, <4>1
        <4>2. CASE j # i
          BY <1>3, <3>2, <4>2 DEF Held
        <4> QED
          BY <4>1, <4>2
      <3> QED
        BY <1>1, <2>1, <3>1, <3>2 DEF Held
    <2> QED
      BY <1>1, <2>1 DEF HeldInv
  <1>6. SelectInv' /\ RunInv' /\ PinIsFollowed'
    BY <1>1 DEF HookInv, SelectInv, RunInv, PinIsFollowed, Pinned
  <1> QED
    BY <1>2, <1>4, <1>5, <1>6 DEF HookInv

\* An existing generation that is taken has become durable.
LEMMA ReuseIs ==
  ASSUME HookInv, NEW g \in Generations, Reuse(g)
  PROVE  /\ tree' \in [Generations -> Trees] /\ Secured(g)' /\ tree[g].content # Absent
         /\ \A k \in Generations : k # g => tree'[k] = tree[k]
         /\ \A k \in Generations \ damaged : Held(k) => Secured(k)'
  <1>1. /\ tree[g].content = "whole" /\ tree \in [Generations -> Trees]
        /\ tree' = [tree EXCEPT ![g] = [tree[g] EXCEPT !.safe = TRUE, !.listed = TRUE]]
    BY DEF Reuse, Whole, HookInv, HookTypeOK
  <1>2. tree'[g] = [content |-> "whole", safe |-> TRUE, listed |-> TRUE]
    BY <1>1 DEF Trees
  <1>3. /\ tree' \in [Generations -> Trees] /\ \A k \in Generations : k # g => tree'[k] = tree[k]
    BY <1>1, <1>2 DEF Trees
  <1>4. tree[g].content # Absent
    BY <1>1 DEF Absent
  <1> QED
    BY <1>2, <1>3, <1>4 DEF Secured, HookInv, HeldInv

\* What is there and untouched stays as durable as it is.
LEMMA TreeStays ==
  ASSUME HookInv, tree' = tree
  PROVE  /\ tree' \in [Generations -> Trees]
         /\ \A k \in Generations \ damaged : Held(k) => Secured(k)'
  BY DEF HookInv, HeldInv, HookTypeOK, Secured

LEMMA CurrentStays ==
  ASSUME HookInv, current' = current
  PROVE  /\ current' \in [now : Generations \cup {Absent}, kept : Generations \cup {Absent}]
         /\ \A k : k \in {current'.now, current'.kept} => Held(k)
  BY DEF HookInv, HookTypeOK, Held

LEMMA InstallEndsKeeps ==
  ASSUME HookInv, NEW i \in Installs, InstallEnds(i), InstallRests, tree' = tree, current' = current
  PROVE  HookInv'
  <1>1. InstallAt(i, "ended", Absent)
    BY DEF InstallEnds
  <1> QED
    BY <1>1, TreeStays, CurrentStays, InstallStep

LEMMA StageKeeps == ASSUME HookInv, NEW i \in Installs, Stage(i) PROVE HookInv'
  <1>1. PICK g \in Generations :
          \/ Reuse(g) /\ InstallAt(i, "staged", g)
          \/ InstallEnds(i) /\ UNCHANGED tree
          \/ tree[g].content = Absent /\ InstallAt(i, "copied", g) /\ UNCHANGED tree
    BY DEF Stage
  <1>2. InstallLockFree /\ UNCHANGED current /\ InstallRests
    BY DEF Stage
  <1>3. CASE Reuse(g) /\ InstallAt(i, "staged", g)
    BY <1>2, <1>3, ReuseIs, CurrentStays, InstallStep
  <1>4. CASE InstallEnds(i) /\ UNCHANGED tree
    BY <1>2, <1>4, InstallEndsKeeps
  <1>5. CASE tree[g].content = Absent /\ InstallAt(i, "copied", g) /\ UNCHANGED tree
    BY <1>2, <1>5, TreeStays, CurrentStays, InstallStep
  <1> QED
    BY <1>1, <1>3, <1>4, <1>5

LEMMA RenameKeeps == ASSUME HookInv, NEW i \in Installs, Rename(i) PROVE HookInv'
  <1> DEFINE g == install[i].gen
             new == [content |-> "whole", safe |-> TRUE, listed |-> FALSE]
  <1>1. /\ install[i].pc = "copied" /\ tree' = [tree EXCEPT ![g] = new]
        /\ InstallAt(i, "renamed", g) /\ UNCHANGED current /\ InstallRests
    BY DEF Rename
  <1>2. g \in Generations /\ tree[g].content = Absent /\ tree \in [Generations -> Trees]
    BY <1>1 DEF HookInv, InstallInv, HookTypeOK
  <1>3. new \in Trees
    BY DEF Trees
  <1>4. g \in damaged \/ ~Held(g)
    BY <1>2 DEF HookInv, HeldInv, Secured, Absent
  <1> HIDE DEF g, new
  <1>5. /\ tree' \in [Generations -> Trees] /\ \A k \in Generations : k # g => tree'[k] = tree[k]
    BY <1>1, <1>2, <1>3
  <1>6. \A k \in Generations \ damaged : Held(k) => Secured(k)'
    BY <1>4, <1>5 DEF HookInv, HeldInv, Secured
  <1> QED
    BY <1>1, <1>2, <1>5, <1>6, CurrentStays, InstallStep

LEMMA SyncRenamedKeeps == ASSUME HookInv, NEW i \in Installs, SyncRenamed(i) PROVE HookInv'
  <1> DEFINE g == install[i].gen
  <1>1. /\ install[i].pc = "renamed" /\ UNCHANGED current /\ InstallRests
        /\ \/ Reuse(g) /\ InstallAt(i, "staged", g)
           \/ InstallEnds(i) /\ UNCHANGED tree
    BY DEF SyncRenamed
  <1>2. g \in Generations
    BY <1>1 DEF HookInv, InstallInv
  <1> HIDE DEF g
  <1>3. CASE Reuse(g) /\ InstallAt(i, "staged", g)
    BY <1>1, <1>2, <1>3, ReuseIs, CurrentStays, InstallStep
  <1> QED
    BY <1>1, <1>3, InstallEndsKeeps

LEMMA ActivateHookKeeps == ASSUME HookInv, NEW i \in Installs, Activate(i) PROVE HookInv'
  <1> DEFINE g == install[i].gen
  <1>1. /\ install[i].pc = "staged" /\ InstallEnds(i) /\ UNCHANGED tree /\ InstallRests
        /\ \/ UNCHANGED current
           \/ \E kept \in {current.kept, g} : current' = [now |-> g, kept |-> kept]
    BY DEF Activate
  <1>2. g \in Generations /\ Held(g)
    BY <1>1 DEF HookInv, InstallInv, Held
  <1>3. CASE \E kept \in {current.kept, g} : current' = [now |-> g, kept |-> kept]
    <2>1. PICK kept \in {current.kept, g} : current' = [now |-> g, kept |-> kept]
      BY <1>3
    <2> HIDE DEF g
    <2>2. current' \in [now : Generations \cup {Absent}, kept : Generations \cup {Absent}]
      BY <1>2, <2>1, HookParts
    <2>3. Held(current.kept)
      BY DEF Held
    <2>4. \A k \in {current'.now, current'.kept} : Held(k)
      BY <1>2, <2>1, <2>3
    <2> QED
      BY <1>1, <2>2, <2>4, TreeStays, InstallStep DEF InstallEnds
  <1> QED
    BY <1>1, <1>3, InstallEndsKeeps

LEMMA InstallGivesUp ==
  ASSUME HookInv, NEW i \in Installs, InstallFails(i) \/ InstallKilled(i) PROVE HookInv'
  <1>1. InstallEnds(i) /\ InstallRests /\ tree' = tree /\ current' = current
    BY DEF InstallFails, InstallKilled, stores
  <1> QED
    BY <1>1, InstallEndsKeeps

\* The current runtime is a generation that is held, or the bundled one of the shell.
LEMMA SelectionIs ==
  ASSUME HookInv, NEW h \in HookCalls, hook[h].pc = "waiting"
  PROVE  /\ currentSelection(h) \in Runtimes \ {NoRuntime}
         /\ \A g \in Generations : currentSelection(h) = Durable(g) => Held(g)
  <1> hook[h].shell \in Shells
    BY DEF HookInv, HookTypeOK
  <1>1. CASE current.now # Absent /\ Readable(current.now)
    <2>1. currentSelection(h) = Durable(current.now) /\ current.now \in Generations
      BY <1>1, HookParts DEF currentSelection
    <2> QED
      BY <2>1, RuntimesDiffer DEF Runtimes, Held
  <1>2. CASE ~(current.now # Absent /\ Readable(current.now))
    <2>1. currentSelection(h) = Bundled(hook[h].shell)
      BY <1>2 DEF currentSelection
    <2> QED
      BY <2>1, RuntimesDiffer DEF Runtimes
  <1> QED
    BY <1>1, <1>2

\* A hook begins, is dropped, or runs what is pinned.
LEMMA HookMoves ==
  ASSUME HookInv, NEW h \in HookCalls, NEW x \in HookRecords,
         hook' = [hook EXCEPT ![h] = x], UNCHANGED <<pin, retaken>>, HookRests,
         hook[h].pc # "runs", x.pc \in {"waiting", "dropped", "runs"},
         x.pc = "waiting" => x.shell \in Shells,
         x.pc = "runs" => /\ pin.status = "valid" /\ x.runtime = pin.runtime
                          /\ EventOf[h] \in {"UserPromptSubmit", "Stop"} => x.turn = pin.turn
  PROVE  HookInv'
  <1>1. UNCHANGED <<tree, current, install, turn, losses, damaged>>
    BY DEF HookRests
  <1>2. HookTypeOK'
    BY <1>1 DEF HookInv, HookTypeOK, HookRecords
  <1>3. hook'[h] = x /\ \A k \in HookCalls : k # h => hook'[k] = hook[k]
    BY DEF HookInv, HookTypeOK
  <1>4. InstallInv'
    BY <1>1 DEF HookInv, InstallInv
  <1>5. HeldInv'
    <2>1. \A g : Held(g)' => Held(g)
      BY <1>1, <1>3 DEF Held
    <2> QED
      BY <1>1, <2>1 DEF HookInv, HeldInv, Secured
  <1>6. SelectInv'
    BY <1>1, <1>3 DEF HookInv, SelectInv, Pinned
  <1>7. RunInv'
    <2>1. ASSUME NEW k \in HookCalls, hook'[k].pc = "runs",
                 EventOf[k] \in {"UserPromptSubmit", "Stop"}, hook'[k].turn \notin retaken
          PROVE  pin = PinOf(hook'[k].turn, hook'[k].runtime)
      <3>1. CASE k = h
        <4>1. x.pc = "runs" /\ x.runtime = pin.runtime /\ x.turn = pin.turn /\ pin.status = "valid"
          BY <1>3, <2>1, <3>1
        <4>2. pin = [status |-> pin.status, turn |-> pin.turn, runtime |-> pin.runtime]
          BY DEF HookInv, HookTypeOK
        <4> QED
          BY <1>3, <3>1, <4>1, <4>2 DEF PinOf
      <3>2. CASE k # h
        BY <1>3, <2>1, <3>2 DEF HookInv, RunInv
      <3> QED
        BY <3>1, <3>2
    <2>2. pin.status = "valid" =>
            \E k \in HookCalls : /\ hook'[k].pc = "runs" /\ EventOf[k] = "UserPromptSubmit"
                                 /\ hook'[k].turn = pin.turn /\ hook'[k].runtime = pin.runtime
      BY <1>3 DEF HookInv, RunInv
    <2> QED
      BY <1>1, <2>1, <2>2 DEF RunInv
  <1>8. PinIsFollowed'
    <2>1. ASSUME NEW k \in HookCalls, hook'[k].pc = "runs", EventOf[k] \in {"Stop", "compact"}
          PROVE  \E r \in HookCalls :
                   /\ hook'[r].pc = "runs" /\ EventOf[r] = "UserPromptSubmit"
                   /\ hook'[r].runtime = hook'[k].runtime
                   /\ EventOf[k] = "Stop" => hook'[r].turn = hook'[k].turn
      <3>1. CASE k = h
        <4>1. /\ pin.status = "valid" /\ hook'[k].runtime = pin.runtime
              /\ EventOf[k] = "Stop" => hook'[k].turn = pin.turn
          BY <1>3, <2>1, <3>1
        <4>2. PICK r \in HookCalls :
                /\ hook[r].pc = "runs" /\ EventOf[r] = "UserPromptSubmit"
                /\ hook[r].turn = pin.turn /\ hook[r].runtime = pin.runtime
          BY <4>1 DEF HookInv, RunInv
        <4>3. hook'[r] = hook[r]
          BY <1>3, <4>2
        <4> QED
          BY <4>1, <4>2, <4>3
      <3>2. CASE k # h
        <4>1. hook[k].pc = "runs" /\ hook'[k] = hook[k]
          BY <1>3, <2>1, <3>2
        <4>2. PICK r \in HookCalls :
                /\ hook[r].pc = "runs" /\ EventOf[r] = "UserPromptSubmit"
                /\ hook[r].runtime = hook[k].runtime
                /\ EventOf[k] = "Stop" => hook[r].turn = hook[k].turn
          BY <2>1, <4>1 DEF HookInv, PinIsFollowed
        <4>3. hook'[r] = hook[r]
          BY <1>3, <4>2
        <4> QED
          BY <4>1, <4>2, <4>3
      <3> QED
        BY <3>1, <3>2
    <2> QED
      BY <2>1 DEF PinIsFollowed
  <1> QED
    BY <1>2, <1>4, <1>5, <1>6, <1>7, <1>8 DEF HookInv

LEMMA HookRecordIs ==
  ASSUME NEW pc \in {"unused", "waiting", "selected", "runs", "dropped"}, NEW t \in Nat,
         NEW s \in Shells \cup {Absent}, NEW r \in Runtimes
  PROVE  /\ HookAt(pc, t, s, r) \in HookRecords
         /\ HookAt(pc, t, s, r).pc = pc /\ HookAt(pc, t, s, r).turn = t
         /\ HookAt(pc, t, s, r).runtime = r /\ HookAt(pc, t, s, r).shell = s
  BY DEF HookAt, HookRecords

LEMMA DroppedIs == Dropped \in HookRecords /\ Dropped.pc = "dropped"
  BY DEF Dropped, HookAt, HookRecords, Runtimes

LEMMA HookBeginsKeeps ==
  ASSUME HookInv, NEW h \in HookCalls, NEW s \in Shells, HookStarts(h, s) PROVE HookInv'
  <1>1. /\ hook[h].pc = "unused" /\ hook' = [hook EXCEPT ![h] = HookAt("waiting", turn, s, NoRuntime)]
        /\ UNCHANGED <<pin, retaken>> /\ HookRests
    BY DEF HookStarts
  <1>2. /\ HookAt("waiting", turn, s, NoRuntime) \in HookRecords
        /\ HookAt("waiting", turn, s, NoRuntime).pc = "waiting"
        /\ HookAt("waiting", turn, s, NoRuntime).shell = s
    BY HookParts, HookRecordIs DEF Runtimes
  <1> QED
    BY <1>1, <1>2, HookMoves

LEMMA HookKilledKeeps == ASSUME HookInv, NEW h \in HookCalls, HookKilled(h) PROVE HookInv'
  BY HookMoves, DroppedIs DEF HookKilled

\* A hook that is given what is pinned, or nothing.
LEMMA UsesPin ==
  ASSUME HookInv, NEW h \in HookCalls, hook[h].pc = "waiting", pin.status = "valid",
         EventOf[h] \in {"UserPromptSubmit", "Stop"} => pin.turn = hook[h].turn,
         Use(h, selectionFromPin(h)), UNCHANGED <<pin, retaken>>, HookRests
  PROVE  HookInv'
  <1> DEFINE x == HookAt("runs", hook[h].turn, Absent, pin.runtime)
  <1>1. hook' = [hook EXCEPT ![h] = Dropped] \/ hook' = [hook EXCEPT ![h] = x]
    BY DEF Use, selectionFromPin
  <1>2. hook[h].turn \in Nat /\ pin.runtime \in Runtimes
    BY DEF HookInv, HookTypeOK
  <1>3. x \in HookRecords /\ x.pc = "runs" /\ x.runtime = pin.runtime /\ x.turn = hook[h].turn
    BY <1>2, HookRecordIs
  <1> HIDE DEF x
  <1> QED
    BY <1>1, <1>3, HookMoves, DroppedIs

LEMMA UsesNothing ==
  ASSUME HookInv, NEW h \in HookCalls, hook[h].pc = "waiting",
         Use(h, NoRuntime), UNCHANGED <<pin, retaken>>, HookRests
  PROVE  HookInv'
  BY HookMoves, DroppedIs DEF Use

LEMMA PromptHookKeeps == ASSUME HookInv, NEW h \in HookCalls, PromptHook(h) PROVE HookInv'
  <1>1. /\ hook[h].pc = "waiting" /\ EventOf[h] = "UserPromptSubmit" /\ PinFree
        /\ UNCHANGED <<pin, retaken>> /\ HookRests
        /\ \/ Use(h, NoRuntime)
           \/ Pinned(h) /\ Use(h, selectionFromPin(h))
           \/ /\ ~Pinned(h)
              /\ hook' = [hook EXCEPT ![h].pc = "selected", ![h].runtime = currentSelection(h)]
    BY DEF PromptHook
  <1>2. CASE Use(h, NoRuntime)
    BY <1>1, <1>2, UsesNothing
  <1>3. CASE Pinned(h) /\ Use(h, selectionFromPin(h))
    BY <1>1, <1>3, UsesPin DEF Pinned
  <1>4. CASE /\ ~Pinned(h)
             /\ hook' = [hook EXCEPT ![h].pc = "selected", ![h].runtime = currentSelection(h)]
    <2> DEFINE r == currentSelection(h)
    <2>1. r \in Runtimes \ {NoRuntime} /\ \A g \in Generations : r = Durable(g) => Held(g)
      BY <1>1, SelectionIs
    <2> HIDE DEF r
    <2>2. /\ UNCHANGED <<tree, current, install, turn, losses, damaged, pin, retaken>>
          /\ hook \in [HookCalls -> HookRecords]
      BY <1>1, HookParts DEF HookRests, HookInv, HookTypeOK, HookRecords
    <2>3. /\ hook' \in [HookCalls -> HookRecords]
          /\ hook'[h].pc = "selected" /\ hook'[h].runtime = r /\ hook'[h].turn = hook[h].turn
          /\ \A k \in HookCalls : k # h => hook'[k] = hook[k]
      BY <1>4, <2>1, <2>2 DEF HookRecords, r
    <2>4. HookTypeOK'
      BY <2>2, <2>3 DEF HookInv, HookTypeOK, HookRecords
    <2>5. InstallInv'
      BY <2>2 DEF HookInv, InstallInv
    <2>6. HeldInv'
      <3>1. \A g \in Generations : Held(g)' => Held(g)
        BY <2>1, <2>2, <2>3 DEF Held
      <3> QED
        BY <2>2, <3>1 DEF HookInv, HeldInv, Secured
    <2>7. SelectInv'
      <3>1. \A k \in HookCalls : hook[k].pc # "selected"
        BY <1>1 DEF PinFree
      <3>2. \A k \in HookCalls : hook'[k].pc = "selected" => k = h
        BY <2>3, <3>1
      <3>3. ~Pinned(h)'
        BY <1>4, <2>2, <2>3 DEF Pinned
      <3> QED
        BY <1>1, <2>1, <2>2, <2>3, <3>2, <3>3 DEF SelectInv
    <2>8. RunInv'
      BY <1>1, <2>2, <2>3 DEF HookInv, RunInv
    <2>9. PinIsFollowed'
      BY <1>1, <2>2, <2>3 DEF HookInv, PinIsFollowed
    <2> QED
      BY <2>4, <2>5, <2>6, <2>7, <2>8, <2>9 DEF HookInv
  <1> QED
    BY <1>1, <1>2, <1>3, <1>4

\* A turn takes the pin of the session: the turn it replaces is remembered.
LEMMA PinKeeps == ASSUME HookInv, NEW h \in HookCalls, Pin(h) PROVE HookInv'
  <1> DEFINE t == hook[h].turn
             r == hook[h].runtime
             x == HookAt("runs", t, Absent, r)
  <1>1. /\ hook[h].pc = "selected" /\ pin' = PinOf(t, r)
        /\ retaken' = IF pin.status = "valid" THEN retaken \cup {pin.turn} ELSE retaken
        /\ Use(h, r)
        /\ UNCHANGED <<tree, current, install, turn, losses, damaged>>
    BY DEF Pin, HookRests
  <1>2. /\ t \in Nat /\ r \in Runtimes /\ r # NoRuntime /\ EventOf[h] = "UserPromptSubmit"
        /\ ~Pinned(h)
    BY <1>1 DEF HookInv, HookTypeOK, SelectInv
  <1>3. x \in HookRecords /\ x.pc = "runs" /\ x.turn = t /\ x.runtime = r
    BY <1>2, HookRecordIs
  <1>4. hook' = [hook EXCEPT ![h] = x]
    BY <1>1, <1>2 DEF Use
  <1>5. pin.status = "valid" => pin.turn # t
    BY <1>2 DEF Pinned
  <1> HIDE DEF t, r, x
  <1>6. /\ pin'.status = "valid" /\ pin'.turn = t /\ pin'.runtime = r
        /\ pin' \in [status : {"absent", "invalid", "valid"}, turn : Nat, runtime : Runtimes]
    BY <1>1, <1>2 DEF PinOf
  <1>7. retaken' \subseteq Nat /\ hook \in [HookCalls -> HookRecords]
    BY <1>1, HookParts DEF HookInv, HookTypeOK, HookRecords
  <1>8. hook'[h] = x /\ \A k \in HookCalls : k # h => hook'[k] = hook[k]
    BY <1>4, <1>7
  <1>9. HookTypeOK'
    BY <1>1, <1>3, <1>4, <1>6, <1>7, <1>8 DEF HookInv, HookTypeOK, HookRecords
  <1>10. InstallInv'
    BY <1>1 DEF HookInv, InstallInv
  <1>11. HeldInv'
    <2>1. \A g \in Generations : Held(g)' => Held(g)
      BY <1>1, <1>3, <1>6, <1>8 DEF Held, r
    <2> QED
      BY <1>1, <2>1 DEF HookInv, HeldInv, Secured
  <1>12. SelectInv'
    <2>1. \A k \in HookCalls : hook'[k].pc # "selected"
      BY <1>1, <1>3, <1>8 DEF HookInv, SelectInv
    <2> QED
      BY <2>1 DEF SelectInv
  <1>13. RunInv'
    <2>1. ASSUME NEW k \in HookCalls, hook'[k].pc = "runs",
                 EventOf[k] \in {"UserPromptSubmit", "Stop"}, hook'[k].turn \notin retaken'
          PROVE  pin' = PinOf(hook'[k].turn, hook'[k].runtime)
      <3>1. CASE k = h
        BY <1>1, <1>3, <1>8, <3>1
      <3>2. CASE k # h
        <4>1. hook'[k] = hook[k] /\ hook[k].turn \notin retaken
          BY <1>1, <1>8, <2>1, <3>2
        <4>2. pin = PinOf(hook[k].turn, hook[k].runtime)
          BY <2>1, <4>1 DEF HookInv, RunInv
        <4>3. pin.status = "valid" /\ pin.turn = hook[k].turn
          BY <4>2 DEF PinOf
        <4> QED
          BY <1>1, <2>1, <4>1, <4>3
      <3> QED
        BY <3>1, <3>2
    <2>2. \E k \in HookCalls : /\ hook'[k].pc = "runs" /\ EventOf[k] = "UserPromptSubmit"
                               /\ hook'[k].turn = pin'.turn /\ hook'[k].runtime = pin'.runtime
      BY <1>2, <1>3, <1>6, <1>8
    <2> QED
      BY <2>1, <2>2 DEF RunInv
  <1>14. PinIsFollowed'
    <2>1. \A k \in HookCalls : hook[k].pc = "runs" => k # h
      BY <1>1
    <2> QED
      BY <1>2, <1>8, <2>1 DEF HookInv, PinIsFollowed
  <1> QED
    BY <1>9, <1>10, <1>11, <1>12, <1>13, <1>14 DEF HookInv

LEMMA StopHookKeeps == ASSUME HookInv, NEW h \in HookCalls, StopHook(h) PROVE HookInv'
  <1>1. /\ hook[h].pc = "waiting" /\ UNCHANGED <<pin, retaken>> /\ HookRests
        /\ \/ Use(h, NoRuntime)
           \/ Pinned(h) /\ Use(h, selectionFromPin(h))
    BY DEF StopHook
  <1> QED
    BY <1>1, UsesNothing, UsesPin DEF Pinned

\* A hook at the start of a session is no hook of a turn; after a compaction it follows
\* the pin.
LEMMA SessionHookKeeps == ASSUME HookInv, NEW h \in HookCalls, SessionHook(h) PROVE HookInv'
  <1>1. hook[h].pc = "waiting" /\ UNCHANGED <<pin, retaken>> /\ HookRests
    BY DEF SessionHook
  <1>2. CASE EventOf[h] = "compact"
    <2>1. \/ Use(h, NoRuntime)
          \/ pin.status = "valid" /\ Use(h, selectionFromPin(h))
      BY <1>2 DEF SessionHook
    <2>2. CASE Use(h, NoRuntime)
      BY <1>1, <2>2, UsesNothing
    <2>3. CASE pin.status = "valid" /\ Use(h, selectionFromPin(h))
      BY <1>1, <1>2, <2>3, UsesPin
    <2> QED
      BY <2>1, <2>2, <2>3
  <1>3. CASE EventOf[h] = "startup" /\ Use(h, currentSelection(h))
    <2> DEFINE r == currentSelection(h)
               x == HookAt("runs", hook[h].turn, Absent, r)
    <2>1. r \in Runtimes /\ hook[h].turn \in Nat /\ r # NoRuntime
      BY <1>1, SelectionIs DEF HookInv, HookTypeOK
    <2>2. x \in HookRecords /\ x.pc = "runs"
      BY <2>1, HookRecordIs
    <2>3. hook' = [hook EXCEPT ![h] = x]
      BY <1>3, <2>1 DEF Use
    <2> HIDE DEF x, r
    <2>4. UNCHANGED <<tree, current, install, turn, losses, damaged, pin, retaken>>
      BY <1>1 DEF HookRests
    <2>5. hook'[h] = x /\ \A k \in HookCalls : k # h => hook'[k] = hook[k]
      BY <2>3 DEF HookInv, HookTypeOK
    <2>6. HookTypeOK'
      BY <2>2, <2>3, <2>4 DEF HookInv, HookTypeOK, HookRecords
    <2>7. InstallInv' /\ HeldInv'
      <3>1. \A g \in Generations : Held(g)' => Held(g)
        BY <2>2, <2>4, <2>5 DEF Held
      <3> QED
        BY <2>4, <3>1 DEF HookInv, InstallInv, HeldInv, Secured
    <2>8. SelectInv'
      BY <2>2, <2>4, <2>5 DEF HookInv, SelectInv, Pinned
    <2>9. RunInv'
      BY <1>1, <1>3, <2>4, <2>5 DEF HookInv, RunInv
    <2>10. PinIsFollowed'
      BY <1>1, <1>3, <2>5 DEF HookInv, PinIsFollowed
    <2> QED
      BY <2>6, <2>7, <2>8, <2>9, <2>10 DEF HookInv
  <1> QED
    BY <1>2, <1>3 DEF SessionHook

LEMMA NextTurnKeeps == ASSUME HookInv, NextTurn PROVE HookInv'
  BY DEF NextTurn, stores, HookInv, HookTypeOK, InstallInv, HeldInv, Held, Secured, SelectInv, Pinned, RunInv,
         PinIsFollowed

LEMMA HookStutter == ASSUME HookInv, UNCHANGED hookVars PROVE HookInv'
  BY DEF hookVars, HookInv, HookTypeOK, InstallInv, HeldInv, Held, Secured, SelectInv, Pinned, RunInv,
         PinIsFollowed

\* Damage spares nothing, but is remembered.
LEMMA DamageKeeps == ASSUME HookInv, NEW g \in Generations, Damage(g) PROVE HookInv'
  <1>1. PICK harmed \in Harmed(g) : tree' = [tree EXCEPT ![g] = harmed]
    BY DEF Damage
  <1>2. /\ tree[g].content = "whole" /\ damaged' = damaged \cup {g} /\ losses' = losses + 1
        /\ UNCHANGED <<current, install, pin, hook, turn, retaken>>
    BY DEF Damage, Whole
  <1>3. harmed \in Trees
    BY <1>1 DEF Harmed, HookInv, HookTypeOK, Trees
  <1>4. HookTypeOK'
    BY <1>1, <1>2, <1>3 DEF HookInv, HookTypeOK
  <1>5. \A k \in Generations : k # g => tree'[k] = tree[k]
    BY <1>1 DEF HookInv, HookTypeOK
  <1>6. InstallInv'
    <2>1. \A i \in Installs : install[i].pc = "copied" => install[i].gen # g
      BY <1>2 DEF HookInv, InstallInv, Absent
    <2> QED
      BY <1>2, <1>5, <2>1 DEF HookInv, InstallInv
  <1>7. HeldInv'
    BY <1>2, <1>5 DEF HookInv, HeldInv, Held, Secured
  <1>8. SelectInv' /\ RunInv' /\ PinIsFollowed'
    BY <1>2 DEF HookInv, SelectInv, Pinned, RunInv, PinIsFollowed
  <1> QED
    BY <1>4, <1>6, <1>7, <1>8 DEF HookInv

\* A power loss ends every process that had yet to finish, and takes nothing durable.
LEMMA PowerLossKeeps == ASSUME HookInv, PowerLoss PROVE HookInv'
  <1>1. /\ losses' = losses + 1 /\ UNCHANGED <<pin, turn, damaged, retaken>>
        /\ \A g \in Generations :
             \/ tree'[g] = tree[g]
             \/ tree'[g] = NoTree /\ ~tree[g].listed
             \/ tree'[g] \in Harmed(g) /\ tree[g].content # Absent /\ ~tree[g].safe
        /\ \E r \in {current.now, current.kept} : current' = [now |-> r, kept |-> r]
    BY DEF PowerLoss
  <1>3. /\ install' = [i \in Installs |->
              IF install[i].pc \in {"copied", "renamed", "staged"}
              THEN [pc |-> "ended", gen |-> Absent] ELSE install[i]]
        /\ hook' = [h \in HookCalls |->
              IF hook[h].pc \in {"waiting", "selected"} THEN Dropped ELSE hook[h]]
    BY DEF PowerLoss
  <1>4. \A g \in Generations : tree'[g] \in Trees
    <2>1. NoTree \in Trees
      BY DEF NoTree, Trees
    <2>2. \A g \in Generations : \A x \in Harmed(g) : x \in Trees
      BY DEF Harmed, HookInv, HookTypeOK, Trees
    <2> QED
      BY <1>1, <2>1, <2>2, HookParts
  <1>5. tree' \in [Generations -> Trees]
    <2>1. \E T : tree' \in [Generations -> T]
      BY DEF PowerLoss
    <2> QED
      BY <1>4, <2>1
  <1>6. /\ current' \in [now : Generations \cup {Absent}, kept : Generations \cup {Absent}]
        /\ current'.now \in {current.now, current.kept} /\ current'.kept \in {current.now, current.kept}
    BY <1>1, HookParts
  <1>7. \A i \in Installs : /\ install'[i].pc \in {"idle", "ended"}
                            /\ install'[i].gen \in Generations \cup {Absent}
    BY <1>3 DEF HookInv, HookTypeOK
  <1>8. \A h \in HookCalls : /\ hook'[h] \in HookRecords
                             /\ hook'[h].pc \in {"unused", "dropped", "runs"}
                             /\ hook[h].pc = "runs" <=> hook'[h].pc = "runs"
                             /\ hook[h].pc = "runs" => hook'[h] = hook[h]
    BY <1>3, DroppedIs, HookParts DEF HookRecords
  <1>9. HookTypeOK'
    <2>1. install' \in [Installs -> [pc : {"idle", "copied", "renamed", "staged", "ended"},
                                     gen : Generations \cup {Absent}]]
      BY <1>3 DEF HookInv, HookTypeOK
    <2>2. hook' \in [HookCalls -> HookRecords]
      BY <1>3, <1>8
    <2> QED
      BY <1>1, <1>5, <1>6, <1>8, <2>1, <2>2 DEF HookInv, HookTypeOK, HookRecords
  <1>10. InstallInv'
    BY <1>7 DEF InstallInv
  <1>11. HeldInv'
    <2>1. \A g \in Generations : Held(g)' => Held(g)
      BY <1>1, <1>6, <1>7, <1>8 DEF Held
    <2>2. \A g \in Generations : Secured(g) => tree'[g] = tree[g]
      BY <1>1 DEF Secured
    <2> QED
      BY <1>1, <2>1, <2>2 DEF HookInv, HeldInv, Secured
  <1>12. SelectInv'
    BY <1>8 DEF SelectInv
  <1>13. RunInv'
    BY <1>1, <1>8 DEF HookInv, RunInv
  <1>14. PinIsFollowed'
    BY <1>8 DEF HookInv, PinIsFollowed
  <1> QED
    BY <1>9, <1>10, <1>11, <1>12, <1>13, <1>14 DEF HookInv

LEMMA HookBegins == ASSUME HookInit PROVE HookInv
  <1>1. /\ install = [i \in Installs |-> [pc |-> "idle", gen |-> Absent]]
        /\ pin \in {NoPin, BadPin} /\ turn = 1 /\ losses = 0 /\ damaged = {} /\ retaken = {}
        /\ hook = [h \in HookCalls |-> HookAt("unused", 0, Absent, NoRuntime)]
    BY DEF HookInit
  <1>2. PICK g \in Generations \cup {Absent} :
          /\ tree = [k \in Generations |->
               IF k = g THEN [content |-> "whole", safe |-> TRUE, listed |-> TRUE] ELSE NoTree]
          /\ current = [now |-> g, kept |-> g]
    BY DEF HookInit
  <1>3. /\ pin \in [status : {"absent", "invalid", "valid"}, turn : Nat, runtime : Runtimes]
        /\ pin.status # "valid" /\ pin.runtime = NoRuntime
    BY <1>1 DEF NoPin, BadPin, Runtimes
  <1>4. \A h \in HookCalls : hook[h].pc = "unused" /\ hook[h] \in HookRecords
    BY <1>1 DEF HookAt, HookRecords, Runtimes
  <1>5. hook \in [HookCalls -> HookRecords]
    BY <1>1, <1>4
  <1>6. \A i \in Installs : install[i].pc = "idle"
    BY <1>1
  <1>7. tree \in [Generations -> Trees]
    BY <1>2 DEF Trees, NoTree
  <1>8. HookTypeOK
    BY <1>1, <1>2, <1>3, <1>4, <1>5, <1>7 DEF HookTypeOK, HookRecords
  <1>9. InstallInv /\ SelectInv /\ RunInv /\ PinIsFollowed
    BY <1>3, <1>4, <1>6 DEF InstallInv, SelectInv, RunInv, PinIsFollowed
  <1>10. HeldInv
    BY <1>2, <1>3, <1>4, <1>6, RuntimesDiffer DEF HeldInv, Held, Secured
  <1> QED
    BY <1>8, <1>9, <1>10 DEF HookInv

LEMMA HookStep == ASSUME HookInv, [HookNext]_hookVars PROVE HookInv'
  <1>1. ASSUME NEW i \in Installs, \/ Stage(i) \/ Rename(i) \/ SyncRenamed(i)
                                   \/ InstallFails(i) \/ Activate(i) \/ InstallKilled(i)
        PROVE  HookInv'
    BY <1>1, StageKeeps, RenameKeeps, SyncRenamedKeeps, ActivateHookKeeps, InstallGivesUp
  <1>2. ASSUME NEW h \in HookCalls,
               \/ \E s \in Shells : HookStarts(h, s)
               \/ PromptHook(h) \/ Pin(h) \/ StopHook(h) \/ SessionHook(h) \/ HookKilled(h)
        PROVE  HookInv'
    BY <1>2, HookBeginsKeeps, PromptHookKeeps, PinKeeps, StopHookKeeps, SessionHookKeeps,
       HookKilledKeeps
  <1>3. CASE NextTurn \/ PowerLoss \/ \E g \in Generations : Damage(g)
    BY <1>3, NextTurnKeeps, PowerLossKeeps, DamageKeeps
  <1>4. CASE UNCHANGED hookVars
    BY <1>4, HookStutter
  <1> QED
    BY <1>1, <1>2, <1>3, <1>4 DEF HookNext

\* HookInv holds of every state that installs, hooks, damage and power losses reach.
THEOREM HookInvariant == HookSpec => []HookInv
  BY HookBegins, HookStep, PTL DEF HookSpec

\* The generation that is current and the one a session has pinned are whole as
\* published, also after a power loss, unless someone outside damaged them.
THEOREM PublishedStaysWhole == HookSpec => []PublishedIsWhole
  <1>1. HookInv => PublishedIsWhole
    BY DEF HookInv, HeldInv, Held, Secured, PublishedIsWhole, Whole
  <1> QED
    BY <1>1, HookInvariant, PTL

\* Every hook of a turn that runs, runs the runtime the turn began with, and the hooks of
\* a stop or after a compaction run only what a hook of a prompt has pinned.
THEOREM TurnsKeepTheirRuntime == HookSpec => []TurnsKeepRuntime
  <1>1. HookInv => TurnKeepsRuntime
    <2> SUFFICES ASSUME HookInv, NEW h \in HookCalls, NEW k \in HookCalls,
                        hook[h].pc = "runs", hook[k].pc = "runs",
                        EventOf[h] \in {"UserPromptSubmit", "Stop"},
                        EventOf[k] \in {"UserPromptSubmit", "Stop"},
                        hook[h].turn = hook[k].turn, hook[h].turn \notin retaken
                 PROVE  hook[h].runtime = hook[k].runtime
      BY DEF TurnKeepsRuntime
    <2>1. pin = PinOf(hook[h].turn, hook[h].runtime) /\ pin = PinOf(hook[k].turn, hook[k].runtime)
      BY DEF HookInv, RunInv
    <2> QED
      BY <2>1 DEF PinOf
  <1>2. HookInv => TurnsKeepRuntime
    BY <1>1 DEF HookInv, TurnsKeepRuntime
  <1> QED
    BY <1>2, HookInvariant, PTL

-----------------------------------------------------------------------------
(***************************************************************************)
(* The plugin inside DSH.                                                  *)
(***************************************************************************)
Attempts == (0..MaxTurn) \X Nat
Messages == {"start", "write"} \X (0..MaxTurn)
Jobs     == [turn : 0..MaxTurn, pc : {"queued", "flushing", "reading", "ensuring", "sent"}]

DshTypeOK ==
  /\ now \in [turn : 0..MaxTurn, on : BOOLEAN]
  /\ local \in [Turns -> {"none", "open", "closed", "invalid"}]
  /\ step \in [Turns -> [pc : {"none", "waiting", "ensuring", "sent", "collect", "loading", "done"},
                         off : BOOLEAN, told : BOOLEAN, tries : Attempts]]
  /\ deferred \in Seq(Turns) /\ tail \in Seq(Jobs)
  /\ recovery \in {"none", "due", "pending", "settled"}
  /\ context \in [attempt : Attempts, pending : Attempts, seen : BOOLEAN, applied : Nat]
  /\ generation \in Nat /\ moved \in BOOLEAN /\ authority \in BOOLEAN
  /\ phase \in {"accepting", "draining", "disposed"}
  /\ received \in Seq(Messages) /\ spoiled \subseteq Turns /\ offered \in Seq(Turns \X Nat)

\* The turn is over.
Past(t) == t <= now.turn /\ (now.on => t < now.turn)

\* Turns are deferred and queued in their order, and only when they are over.
ChainInv ==
  /\ \A i, j \in DOMAIN tail : i < j => tail[i].turn < tail[j].turn /\ tail[j].pc = "queued"
  /\ \A i, j \in DOMAIN deferred : i < j => deferred[i] < deferred[j]
  /\ \A i \in DOMAIN tail, j \in DOMAIN deferred : tail[i].turn < deferred[j]
  /\ \A i \in DOMAIN tail : Past(tail[i].turn)
  /\ \A j \in DOMAIN deferred : Past(deferred[j])

\* What is written comes before whatever is still to be written.
WrittenInv ==
  \A i \in DOMAIN received : received[i][1] = "write" =>
    /\ Past(received[i][2])
    /\ \A j \in DOMAIN tail :
         \/ received[i][2] < tail[j].turn
         \/ j = 1 /\ tail[j].pc = "sent" /\ received[i][2] = tail[j].turn
    /\ \A j \in DOMAIN deferred : received[i][2] < deferred[j]

\* The recovered turn is told before anything else.
RecoveryInv ==
  /\ recovery = "due" => /\ tail = <<>> /\ deferred = <<>> /\ received = <<>> /\ ~now.on
                         /\ \A t \in Turns : step[t].pc = "none"
  /\ recovery = "pending" => /\ tail # <<>> /\ tail[1].turn = 0
                             /\ received = <<>> \/ tail[1].pc = "sent"
                             /\ \A t \in Turns : step[t].pc # "ensuring"
  /\ \A i \in DOMAIN tail : tail[i].turn = 0 => recovery = "pending"

\* Only the turn DSH is in has a step that was not given up, and only the step of a turn
\* that is over was; a start is sent once.
StepInv ==
  /\ now.on => now.turn # 0
  /\ \A t \in Turns :
       /\ step[t].pc # "none" => t <= now.turn
       /\ step[t].pc # "none" /\ ~step[t].off => now.on /\ now.turn = t
       /\ step[t].off => t <= now.turn /\ (now.on => t < now.turn)
  /\ \A i \in DOMAIN received : received[i][1] = "start" =>
       /\ received[i][2] \in Turns /\ received[i][2] <= now.turn
       /\ step[received[i][2]].pc \notin {"none", "waiting", "ensuring"}

SpoiledInv ==
  \A t \in spoiled : /\ t <= now.turn /\ local[t] # "open"
                     /\ \A i \in DOMAIN tail : tail[i].turn # t
                     /\ \A j \in DOMAIN deferred : deferred[j] # t

\* A context is tried once for a turn and a generation: what was accepted, is pending or
\* is being loaded for the turn DSH is in is the last attempt, or of an earlier generation.
ContextInv ==
  /\ \A t \in Turns : step[t].pc = "loading" =>
       /\ step[t].tries[1] = t /\ step[t].tries[2] <= generation
       /\ ~step[t].off => /\ context.attempt = step[t].tries /\ context.pending # step[t].tries
                          /\ \A i \in DOMAIN offered : offered[i] # step[t].tries
  /\ context.pending # None =>
       /\ context.pending[1] \in Turns /\ context.pending[1] <= now.turn
       /\ context.pending[2] <= generation
       /\ \A i \in DOMAIN offered : offered[i] # context.pending
       /\ Listening /\ context.pending[2] = generation => context.attempt = context.pending
  /\ \A i \in DOMAIN offered : /\ offered[i][1] <= now.turn /\ offered[i][2] <= generation
                               /\ now.on /\ offered[i] = <<now.turn, generation>> =>
                                    context.attempt = offered[i]

DshInv == DshTypeOK /\ ChainInv /\ WrittenInv /\ RecoveryInv /\ StepInv /\ SpoiledInv /\ ContextInv
          /\ ToldInOrder /\ ContextOnce

LEMMA AppendIs ==
  ASSUME NEW S, NEW s \in Seq(S), NEW x \in S
  PROVE  /\ Append(s, x) \in Seq(S) /\ DOMAIN Append(s, x) = 1..(Len(s) + 1)
         /\ DOMAIN s = 1..Len(s) /\ Len(s) \in Nat
         /\ \A i \in DOMAIN s : i \in DOMAIN Append(s, x) /\ Append(s, x)[i] = s[i]
         /\ Append(s, x)[Len(s) + 1] = x
         /\ \A i \in DOMAIN Append(s, x) : i \in DOMAIN s \/ i = Len(s) + 1
         /\ \A i \in DOMAIN s : i < Len(s) + 1
  OBVIOUS

LEMMA TailIs ==
  ASSUME NEW S, NEW s \in Seq(S), s # <<>>
  PROVE  /\ Tail(s) \in Seq(S) /\ Head(s) \in S /\ Head(s) = s[1] /\ 1 \in DOMAIN s
         /\ \A i \in DOMAIN Tail(s) : i + 1 \in DOMAIN s /\ Tail(s)[i] = s[i + 1] /\ i \in Nat \ {0}
         /\ \A i \in DOMAIN s : i \in Nat \ {0}
  OBVIOUS

LEMMA HeadReplaced ==
  ASSUME NEW S, NEW s \in Seq(S), s # <<>>, NEW x \in S
  PROVE  /\ <<x>> \o Tail(s) \in Seq(S) /\ DOMAIN (<<x>> \o Tail(s)) = DOMAIN s
         /\ (<<x>> \o Tail(s))[1] = x /\ <<x>> \o Tail(s) # <<>>
         /\ \A i \in DOMAIN s : i # 1 => (<<x>> \o Tail(s))[i] = s[i]
  <1>1. Tail(s) \in Seq(S) /\ Len(Tail(s)) = Len(s) - 1 /\ Len(s) \in Nat \ {0}
    OBVIOUS
  <1>2. <<x>> \in Seq(S) /\ Len(<<x>>) = 1 /\ <<x>>[1] = x
    OBVIOUS
  <1>3. <<x>> \o Tail(s) \in Seq(S) /\ Len(<<x>> \o Tail(s)) = Len(s)
    BY <1>1, <1>2
  <1>4. \A i \in 1..Len(s) : (<<x>> \o Tail(s))[i] = IF i <= 1 THEN <<x>>[i] ELSE Tail(s)[i - 1]
    BY <1>1, <1>2
  <1>5. \A i \in 1..Len(s) : i # 1 => Tail(s)[i - 1] = s[i]
    OBVIOUS
  <1> QED
    BY <1>1, <1>2, <1>3, <1>4, <1>5

\* The parts of the state that the steps read.
LEMMA DshParts ==
  ASSUME DshInv
  PROVE  /\ now.turn \in 0..MaxTurn /\ now.on \in BOOLEAN
         /\ deferred \in Seq(Turns) /\ tail \in Seq(Jobs) /\ received \in Seq(Messages)
         /\ offered \in Seq(Turns \X Nat) /\ generation \in Nat
         /\ \A i \in DOMAIN tail : /\ tail[i].turn \in 0..MaxTurn /\ i \in Nat \ {0} /\ tail[i] \in Jobs
         /\ \A j \in DOMAIN deferred : deferred[j] \in Turns /\ j \in Nat \ {0}
         /\ \A i \in DOMAIN received : /\ received[i][1] \in {"start", "write"}
                                       /\ received[i][2] \in 0..MaxTurn /\ i \in Nat \ {0}
                                       /\ received[i] = <<received[i][1], received[i][2]>>
  <1>1. /\ now.turn \in 0..MaxTurn /\ now.on \in BOOLEAN
        /\ deferred \in Seq(Turns) /\ tail \in Seq(Jobs) /\ received \in Seq(Messages)
        /\ offered \in Seq(Turns \X Nat) /\ generation \in Nat
    BY DEF DshInv, DshTypeOK
  <1>2. \A i \in DOMAIN tail : tail[i] \in Jobs /\ i \in Nat \ {0}
    BY <1>1
  <1>3. \A j \in DOMAIN deferred : deferred[j] \in Turns /\ j \in Nat \ {0}
    BY <1>1
  <1>4. \A i \in DOMAIN received : received[i] \in Messages /\ i \in Nat \ {0}
    BY <1>1
  <1>5. \A i \in DOMAIN tail : tail[i].turn \in 0..MaxTurn
    BY <1>2 DEF Jobs
  <1>6. \A m \in Messages : m[1] \in {"start", "write"} /\ m[2] \in 0..MaxTurn /\ m = <<m[1], m[2]>>
    BY DEF Messages
  <1> QED
    BY <1>1, <1>2, <1>3, <1>4, <1>5, <1>6

\* A step that leaves the context, the steps and the turn alone.
LEMMA ContextRests ==
  ASSUME DshInv, UNCHANGED <<now, step, context, generation, moved, phase, offered>>
  PROVE  ContextInv' /\ ContextOnce'
  BY DEF DshInv, ContextInv, ContextOnce, Listening, IsInjective

\* One more turn is queued, a turn that comes after every other.
LEMMA EnqueueIs ==
  ASSUME DshInv, NEW t \in 0..MaxTurn, Enqueue(t)
  PROVE  /\ tail' \in Seq(Jobs) /\ tail' # <<>>
         /\ \A i \in DOMAIN tail : i \in DOMAIN tail' /\ tail'[i] = tail[i] /\ i < Len(tail) + 1
         /\ \A i \in DOMAIN tail' : i \in DOMAIN tail \/ i = Len(tail) + 1
         /\ tail'[Len(tail) + 1].turn = t /\ tail'[Len(tail) + 1].pc = "queued"
         /\ Len(tail) \in Nat /\ DOMAIN tail' = 1..(Len(tail) + 1)
  <1> DEFINE x == [turn |-> t, pc |-> "queued"]
  <1>1. x \in Jobs /\ x.turn = t /\ x.pc = "queued"
    BY DEF Jobs
  <1>2. tail' = Append(tail, x) /\ tail \in Seq(Jobs)
    BY DshParts DEF Enqueue
  <1> HIDE DEF x
  <1>3. tail' # <<>>
    BY <1>1, <1>2
  <1> QED
    BY <1>1, <1>2, <1>3, AppendIs

LEMMA RecoverResumedKeeps == ASSUME DshInv, RecoverResumedTurn PROVE DshInv'
  <1>1. /\ recovery = "due" /\ now.turn = 0
        /\ \/ Enqueue(0) /\ recovery' = "pending"
           \/ recovery' = "none" /\ UNCHANGED tail
        /\ UNCHANGED <<local, deferred, step, context, received, offered, now, generation, moved,
                       authority, phase, spoiled>>
    BY DEF RecoverResumedTurn, Steps, Surroundings
  <1>2. /\ tail = <<>> /\ deferred = <<>> /\ received = <<>> /\ ~now.on
        /\ \A t \in Turns : step[t].pc = "none"
    BY <1>1 DEF DshInv, RecoveryInv
  <1>3. ContextInv' /\ ContextOnce'
    BY <1>1, ContextRests
  <1>4. CASE recovery' = "none" /\ UNCHANGED tail
    BY <1>1, <1>2, <1>3, <1>4
    DEF DshInv, DshTypeOK, ChainInv, WrittenInv, RecoveryInv, StepInv, SpoiledInv, ToldInOrder, Contains,
        Past
  <1>5. CASE Enqueue(0) /\ recovery' = "pending"
    <2>1. 0 \in 0..MaxTurn /\ Len(tail) = 0
      BY <1>2, DshAssumption
    <2>2. /\ tail' \in Seq(Jobs) /\ tail' # <<>> /\ DOMAIN tail' = {1}
          /\ tail'[1].turn = 0 /\ tail'[1].pc = "queued"
      BY <1>5, <2>1, EnqueueIs
    <2>3. DshTypeOK'
      BY <1>1, <1>5, <2>2 DEF DshInv, DshTypeOK
    <2>4. ChainInv'
      BY <1>1, <1>2, <2>2 DEF ChainInv, Past
    <2>5. WrittenInv' /\ ToldInOrder' /\ StepInv'
      BY <1>1, <1>2 DEF DshInv, WrittenInv, ToldInOrder, StepInv, Contains
    <2>6. RecoveryInv'
      BY <1>1, <1>2, <1>5, <2>2 DEF RecoveryInv
    <2>7. SpoiledInv'
      BY <1>1, <1>2, <2>2 DEF DshInv, DshTypeOK, SpoiledInv, Turns
    <2> QED
      BY <1>3, <2>3, <2>4, <2>5, <2>6, <2>7 DEF DshInv
  <1> QED
    BY <1>1, <1>4, <1>5

LEMMA MicrotaskKeeps == ASSUME DshInv, Microtask PROVE DshInv'
  <1> DEFINE t == deferred[1]
  <1>1. /\ deferred # <<>> /\ deferred' = Tail(deferred) /\ Enqueue(t)
        /\ UNCHANGED <<local, recovery, step, context, received, offered, now, generation, moved,
                       authority, phase, spoiled>>
    BY DshParts, TailIs DEF Microtask, Steps, Surroundings
  <1>2. /\ t \in Turns /\ 1 \in DOMAIN deferred /\ deferred' \in Seq(Turns)
        /\ \A j \in DOMAIN deferred' : j + 1 \in DOMAIN deferred /\ deferred'[j] = deferred[j + 1]
                                       /\ j \in Nat \ {0}
    BY <1>1, DshParts, TailIs
  <1>3. t \in 0..MaxTurn /\ t # 0
    BY <1>2 DEF Turns
  <1>4. /\ \A i \in DOMAIN tail : tail[i].turn < t
        /\ \A j \in DOMAIN deferred' : t < deferred'[j]
        /\ \A i \in DOMAIN received : received[i][1] = "write" => received[i][2] < t
    BY <1>2 DEF DshInv, ChainInv, WrittenInv
  <1>5. Past(t) /\ \A s \in spoiled : s # t
    BY <1>2 DEF DshInv, ChainInv, SpoiledInv
  <1> HIDE DEF t
  <1>6. /\ tail' \in Seq(Jobs) /\ tail' # <<>>
        /\ \A i \in DOMAIN tail : i \in DOMAIN tail' /\ tail'[i] = tail[i] /\ i < Len(tail) + 1
        /\ \A i \in DOMAIN tail' : i \in DOMAIN tail \/ i = Len(tail) + 1
        /\ tail'[Len(tail) + 1].turn = t /\ tail'[Len(tail) + 1].pc = "queued"
        /\ Len(tail) \in Nat
    BY <1>1, <1>3, EnqueueIs
  <1>7. ContextInv' /\ ContextOnce'
    BY <1>1, ContextRests
  <1>8. DshTypeOK'
    BY <1>1, <1>2, <1>6 DEF DshInv, DshTypeOK
  <1>9. ChainInv'
    <2>1. ASSUME NEW i \in DOMAIN tail', NEW j \in DOMAIN tail', i < j
          PROVE  tail'[i].turn < tail'[j].turn /\ tail'[j].pc = "queued"
      <3>1. CASE j \in DOMAIN tail
        <4>1. i \in DOMAIN tail
          BY <1>6, <2>1, <3>1, DshParts
        <4> QED
          BY <1>6, <2>1, <3>1, <4>1 DEF DshInv, ChainInv
      <3>2. CASE j = Len(tail) + 1
        BY <1>4, <1>6, <2>1, <3>2
      <3> QED
        BY <1>6, <3>1, <3>2
    <2>2. \A i, j \in DOMAIN deferred' : i < j => deferred'[i] < deferred'[j]
      BY <1>2 DEF DshInv, ChainInv
    <2>3. \A i \in DOMAIN tail', j \in DOMAIN deferred' : tail'[i].turn < deferred'[j]
      BY <1>2, <1>4, <1>6 DEF DshInv, ChainInv
    <2>4. \A i \in DOMAIN tail' : Past(tail'[i].turn)
      BY <1>5, <1>6 DEF DshInv, ChainInv
    <2>5. \A j \in DOMAIN deferred' : Past(deferred'[j])
      BY <1>2 DEF DshInv, ChainInv
    <2> QED
      BY <1>1, <2>1, <2>2, <2>3, <2>4, <2>5 DEF ChainInv, Past
  <1>10. WrittenInv'
    <2>1. ASSUME NEW i \in DOMAIN received, received[i][1] = "write"
          PROVE  /\ Past(received[i][2])
                 /\ \A j \in DOMAIN tail' :
                      \/ received[i][2] < tail'[j].turn
                      \/ j = 1 /\ tail'[j].pc = "sent" /\ received[i][2] = tail'[j].turn
                 /\ \A j \in DOMAIN deferred' : received[i][2] < deferred'[j]
      BY <1>2, <1>4, <1>6, <2>1 DEF DshInv, WrittenInv
    <2> QED
      BY <1>1, <2>1 DEF WrittenInv, Past
  <1>11. RecoveryInv'
    <2>1. recovery # "due"
      BY <1>1 DEF DshInv, RecoveryInv
    <2>2. recovery = "pending" => 1 \in DOMAIN tail
      BY DshParts, TailIs DEF DshInv, RecoveryInv
    <2>3. \A i \in DOMAIN tail' : tail'[i].turn = 0 => recovery = "pending"
      BY <1>3, <1>6 DEF DshInv, RecoveryInv
    <2> QED
      BY <1>1, <1>6, <2>1, <2>2, <2>3 DEF DshInv, RecoveryInv
  <1>12. StepInv' /\ ToldInOrder'
    BY <1>1 DEF DshInv, StepInv, ToldInOrder, Contains
  <1>13. SpoiledInv'
    BY <1>1, <1>2, <1>5, <1>6 DEF DshInv, SpoiledInv
  <1> QED
    BY <1>7, <1>8, <1>9, <1>10, <1>11, <1>12, <1>13 DEF DshInv

LEMMA AdvanceIs ==
  ASSUME DshInv, tail # <<>>,
         NEW pc \in {"queued", "flushing", "reading", "ensuring", "sent"}, Advance(pc)
  PROVE  /\ tail' \in Seq(Jobs) /\ tail' # <<>> /\ DOMAIN tail' = DOMAIN tail /\ 1 \in DOMAIN tail
         /\ tail'[1].pc = pc /\ \A i \in DOMAIN tail : tail'[i].turn = tail[i].turn
         /\ \A i \in DOMAIN tail : i # 1 => tail'[i] = tail[i]
         /\ UNCHANGED <<local, recovery>> /\ Head(tail) = tail[1]
  <1> DEFINE x == [Head(tail) EXCEPT !.pc = pc]
  <1>1. tail \in Seq(Jobs) /\ tail' = <<x>> \o Tail(tail) /\ UNCHANGED <<local, recovery>>
    BY DshParts DEF Advance
  <1>2. Head(tail) \in Jobs /\ Head(tail) = tail[1] /\ 1 \in DOMAIN tail
    BY <1>1, TailIs
  <1>3. x \in Jobs /\ x.pc = pc /\ x.turn = tail[1].turn
    BY <1>2 DEF Jobs
  <1> HIDE DEF x
  <1>4. /\ tail' \in Seq(Jobs) /\ DOMAIN tail' = DOMAIN tail /\ tail'[1] = x /\ tail' # <<>>
        /\ \A i \in DOMAIN tail : i # 1 => tail'[i] = tail[i]
    BY <1>1, <1>3, HeadReplaced
  <1> QED
    BY <1>1, <1>2, <1>3, <1>4

ChainRests == UNCHANGED <<deferred, step, context, offered, now, generation, moved, authority, phase, spoiled>>

\* The writeback under way goes on, but not to its command.
LEMMA AdvanceKeeps ==
  ASSUME DshInv, tail # <<>>, NEW pc \in {"queued", "flushing", "reading", "ensuring"}, Advance(pc),
         tail[1].pc # "sent", received' = received, ChainRests
  PROVE  DshInv'
  <1>1. /\ tail' \in Seq(Jobs) /\ tail' # <<>> /\ DOMAIN tail' = DOMAIN tail /\ 1 \in DOMAIN tail
        /\ tail'[1].pc = pc /\ \A i \in DOMAIN tail : tail'[i].turn = tail[i].turn
        /\ \A i \in DOMAIN tail : i # 1 => tail'[i] = tail[i]
        /\ UNCHANGED <<local, recovery>>
    BY AdvanceIs
  <1>2. /\ UNCHANGED <<deferred, step, context, offered, now, generation, moved, authority, phase, spoiled>>
        /\ UNCHANGED <<local, recovery, received>>
    BY <1>1 DEF ChainRests
  <1>3. ContextInv' /\ ContextOnce'
    BY <1>2, ContextRests
  <1>4. DshTypeOK'
    BY <1>1, <1>2 DEF DshInv, DshTypeOK
  <1>5. ChainInv'
    <2>1. ASSUME NEW i \in DOMAIN tail', NEW j \in DOMAIN tail', i < j
          PROVE  tail'[i].turn < tail'[j].turn /\ tail'[j].pc = "queued"
      <3>1. j # 1
        BY <1>1, <2>1, DshParts
      <3> QED
        BY <1>1, <2>1, <3>1 DEF DshInv, ChainInv
    <2>2. \A i \in DOMAIN tail', j \in DOMAIN deferred : tail'[i].turn < deferred[j]
      BY <1>1 DEF DshInv, ChainInv
    <2>3. \A i \in DOMAIN tail' : Past(tail'[i].turn)
      BY <1>1 DEF DshInv, ChainInv
    <2> QED
      BY <1>2, <2>1, <2>2, <2>3 DEF DshInv, ChainInv, Past
  <1>6. WrittenInv'
    BY <1>1, <1>2 DEF DshInv, WrittenInv, Past
  <1>7. RecoveryInv'
    BY <1>1, <1>2 DEF DshInv, RecoveryInv
  <1>8. StepInv' /\ ToldInOrder'
    BY <1>2 DEF DshInv, StepInv, ToldInOrder, Contains
  <1>9. SpoiledInv'
    BY <1>1, <1>2 DEF DshInv, SpoiledInv
  <1> QED
    BY <1>3, <1>4, <1>5, <1>6, <1>7, <1>8, <1>9 DEF DshInv

LEMMA SettleKeeps ==
  ASSUME DshInv, tail # <<>>, Settle, received' = received, ChainRests
  PROVE  DshInv'
  <1> DEFINE t == tail[1].turn
  <1>1. /\ tail' = Tail(tail) /\ recovery' = (IF t = 0 THEN "settled" ELSE recovery)
        /\ local' = [u \in Turns |-> IF u = t THEN "none" ELSE local[u]]
    BY DshParts, TailIs DEF Settle
  <1>2. /\ tail' \in Seq(Jobs) /\ 1 \in DOMAIN tail
        /\ \A i \in DOMAIN tail' : i + 1 \in DOMAIN tail /\ tail'[i] = tail[i + 1] /\ i \in Nat \ {0}
    BY <1>1, DshParts, TailIs
  <1>3. UNCHANGED <<deferred, step, context, offered, now, generation, moved, authority, phase, spoiled,
                    received>>
    BY DEF ChainRests
  <1>4. t \in 0..MaxTurn /\ \A i \in DOMAIN tail' : t < tail'[i].turn /\ tail'[i].pc = "queued"
    BY <1>2, DshParts DEF DshInv, ChainInv
  <1>5. recovery # "due" /\ (recovery = "pending" => t = 0)
    BY DEF DshInv, RecoveryInv
  <1> HIDE DEF t
  <1>6. ContextInv' /\ ContextOnce'
    BY <1>3, ContextRests
  <1>7. DshTypeOK'
    BY <1>1, <1>2, <1>3 DEF DshInv, DshTypeOK
  <1>8. ChainInv'
    <2>1. ASSUME NEW i \in DOMAIN tail', NEW j \in DOMAIN tail', i < j
          PROVE  tail'[i].turn < tail'[j].turn /\ tail'[j].pc = "queued"
      <3>1. /\ i + 1 \in DOMAIN tail /\ j + 1 \in DOMAIN tail /\ i + 1 < j + 1
            /\ tail'[i] = tail[i + 1] /\ tail'[j] = tail[j + 1]
        BY <1>2, <2>1
      <3> QED
        BY <3>1 DEF DshInv, ChainInv
    <2>2. \A i \in DOMAIN tail', j \in DOMAIN deferred : tail'[i].turn < deferred[j]
      BY <1>2 DEF DshInv, ChainInv
    <2>3. \A i \in DOMAIN tail' : Past(tail'[i].turn)
      BY <1>2 DEF DshInv, ChainInv
    <2> QED
      BY <1>3, <2>1, <2>2, <2>3 DEF DshInv, ChainInv, Past
  <1>9. WrittenInv'
    <2>1. ASSUME NEW i \in DOMAIN received, received[i][1] = "write", NEW j \in DOMAIN tail'
          PROVE  received[i][2] < tail'[j].turn
      BY <1>2, <2>1 DEF DshInv, WrittenInv
    <2> QED
      BY <1>3, <2>1 DEF DshInv, WrittenInv, Past
  <1>10. RecoveryInv'
    <2>1. recovery' # "due" /\ recovery' # "pending"
      BY <1>1, <1>5
    <2>2. \A i \in DOMAIN tail' : tail'[i].turn # 0
      BY <1>2, <1>4, DshParts
    <2> QED
      BY <2>1, <2>2 DEF RecoveryInv
  <1>11. StepInv' /\ ToldInOrder'
    BY <1>3 DEF DshInv, StepInv, ToldInOrder, Contains
  <1>12. SpoiledInv'
    BY <1>1, <1>2, <1>3 DEF DshInv, DshTypeOK, SpoiledInv
  <1> QED
    BY <1>6, <1>7, <1>8, <1>9, <1>10, <1>11, <1>12 DEF DshInv

LEMMA CaptureKeeps == ASSUME DshInv, Capture PROVE DshInv'
  <1>1. PICK pcs \in {<<"queued", "flushing">>, <<"flushing", "reading">>, <<"reading", "ensuring">>} :
          Busy(pcs[1]) /\ (Advance(pcs[2]) \/ Settle)
    BY DEF Capture
  <1>2. received' = received /\ ChainRests
    BY DEF Capture, Steps, Surroundings, ChainRests
  <1>3. tail # <<>> /\ Head(tail).pc = pcs[1] /\ Head(tail) = tail[1]
    BY <1>1, DshParts, TailIs DEF Busy
  <1>4. /\ pcs[1] \in {"queued", "flushing", "reading"}
        /\ pcs[2] \in {"queued", "flushing", "reading", "ensuring"}
    BY <1>1
  <1>5. tail[1].pc # "sent"
    BY <1>3, <1>4
  <1>6. CASE Advance(pcs[2])
    BY <1>2, <1>3, <1>4, <1>5, <1>6, AdvanceKeeps
  <1>7. CASE Settle
    BY <1>2, <1>3, <1>7, SettleKeeps
  <1> QED
    BY <1>1, <1>6, <1>7

\* The command: every earlier turn is told, and this one was not.
LEMMA SendWritebackKeeps == ASSUME DshInv, SendWriteback PROVE DshInv'
  <1> DEFINE t == tail[1].turn
             n == Len(received) + 1
  <1>1. /\ tail # <<>> /\ tail[1].pc = "ensuring" /\ ChainRests
        /\ \/ received' = Append(received, Write(t)) /\ Advance("sent")
           \/ Settle /\ UNCHANGED received
    BY DshParts, TailIs DEF SendWriteback, Busy, Surroundings, ChainRests
  <1>2. CASE Settle /\ UNCHANGED received
    BY <1>1, <1>2, SettleKeeps
  <1>3. CASE received' = Append(received, Write(t)) /\ Advance("sent")
    <2>1. /\ tail' \in Seq(Jobs) /\ tail' # <<>> /\ DOMAIN tail' = DOMAIN tail /\ 1 \in DOMAIN tail
          /\ tail'[1].pc = "sent" /\ \A i \in DOMAIN tail : tail'[i].turn = tail[i].turn
          /\ \A i \in DOMAIN tail : i # 1 => tail'[i] = tail[i]
          /\ UNCHANGED <<local, recovery>>
      BY <1>1, <1>3, AdvanceIs
    <2>2. UNCHANGED <<deferred, step, context, offered, now, generation, moved, authority, phase, spoiled,
                      local, recovery>>
      BY <1>1, <2>1 DEF ChainRests
    <2>3. t \in 0..MaxTurn
      BY <2>1, DshParts
    <2>4. Write(t) \in Messages /\ Write(t)[1] = "write" /\ Write(t)[2] = t
      BY <2>3 DEF Write, Messages
    <2>5. /\ received' \in Seq(Messages) /\ received'[n] = Write(t) /\ n \in DOMAIN received'
          /\ \A i \in DOMAIN received : i \in DOMAIN received' /\ received'[i] = received[i] /\ i < n
          /\ \A i \in DOMAIN received' : i \in DOMAIN received \/ i = n
          /\ n \in Nat /\ (received = <<>> => n = 1)
      BY <1>3, <2>4, DshParts, AppendIs
    <2>6. /\ \A i \in DOMAIN received : received[i][1] = "write" => received[i][2] < t
          /\ \A j \in DOMAIN deferred : t < deferred[j]
          /\ \A j \in DOMAIN tail : j # 1 => t < tail[j].turn
          /\ Past(t)
      <3>1. \A j \in DOMAIN tail : j # 1 => 1 < j
        BY DshParts
      <3> QED
        BY <1>1, <2>1, <3>1 DEF DshInv, WrittenInv, ChainInv
    <2>7. t = 0 => received = <<>>
      BY <1>1, <2>1 DEF DshInv, RecoveryInv
    <2>8. \A s \in spoiled : s # t
      BY <2>1 DEF DshInv, SpoiledInv
    <2> HIDE DEF t, n
    <2>9. ContextInv' /\ ContextOnce'
      BY <2>2, ContextRests
    <2>10. DshTypeOK'
      BY <2>1, <2>2, <2>5 DEF DshInv, DshTypeOK
    <2>11. ChainInv'
      <3>1. \A i \in DOMAIN tail', j \in DOMAIN tail' :
              i < j => tail'[i].turn < tail'[j].turn /\ tail'[j].pc = "queued"
        <4>1. \A i, j \in DOMAIN tail : i < j => j # 1
          BY DshParts
        <4> QED
          BY <2>1, <4>1 DEF DshInv, ChainInv
      <3> QED
        BY <2>1, <2>2, <3>1 DEF DshInv, ChainInv, Past
    <2>12. WrittenInv'
      <3>1. ASSUME NEW i \in DOMAIN received', received'[i][1] = "write"
            PROVE  /\ Past(received'[i][2])
                   /\ \A j \in DOMAIN tail' :
                        \/ received'[i][2] < tail'[j].turn
                        \/ j = 1 /\ tail'[j].pc = "sent" /\ received'[i][2] = tail'[j].turn
                   /\ \A j \in DOMAIN deferred : received'[i][2] < deferred[j]
        <4>1. CASE i = n
          <5>1. received'[i][2] = t
            BY <2>4, <2>5, <4>1
          <5>2. \A j \in DOMAIN tail' : j = 1 => tail'[j].turn = t
            BY <2>1 DEF t
          <5> QED
            BY <2>1, <2>6, <5>1, <5>2
        <4>2. CASE i \in DOMAIN received
          <5>1. received'[i] = received[i] /\ received[i][2] < t
            BY <2>5, <2>6, <3>1, <4>2
          <5>2. \A j \in DOMAIN tail : received[i][2] < tail[j].turn
            BY <1>1, <3>1, <4>2, <5>1 DEF DshInv, WrittenInv
          <5> QED
            BY <2>1, <3>1, <4>2, <5>1, <5>2 DEF DshInv, WrittenInv
        <4> QED
          BY <2>5, <4>1, <4>2
      <3> QED
        BY <2>2, <3>1 DEF WrittenInv, Past
    <2>13. RecoveryInv'
      BY <1>1, <2>1, <2>2 DEF DshInv, RecoveryInv
    <2>14. StepInv'
      <3>1. \A i \in DOMAIN received' : received'[i][1] = "start" =>
              i \in DOMAIN received /\ received'[i] = received[i]
        BY <2>4, <2>5
      <3> QED
        BY <2>2, <3>1 DEF DshInv, StepInv
    <2>15. SpoiledInv'
      BY <2>1, <2>2 DEF DshInv, SpoiledInv
    <2>16. ToldInOrder'
      <3>1. ASSUME NEW i \in DOMAIN received', NEW j \in DOMAIN received', i < j,
                   received'[i][1] = received'[j][1]
            PROVE  received'[i][2] < received'[j][2]
        <4>1. i \in DOMAIN received /\ received'[i] = received[i]
          BY <2>5, <3>1, DshParts
        <4>2. CASE j = n
          BY <2>4, <2>5, <2>6, <3>1, <4>1, <4>2
        <4>3. CASE j \in DOMAIN received
          BY <2>5, <3>1, <4>1, <4>3 DEF DshInv, ToldInOrder
        <4> QED
          BY <2>5, <4>2, <4>3
      <3>2. ASSUME NEW j \in DOMAIN received', received'[j] = Write(0) PROVE j = 1
        <4>1. CASE j = n
          BY <2>4, <2>5, <2>7, <3>2, <4>1 DEF Write
        <4>2. CASE j \in DOMAIN received
          BY <2>5, <3>2, <4>2 DEF DshInv, ToldInOrder
        <4> QED
          BY <2>5, <4>1, <4>2
      <3>3. ASSUME NEW s \in spoiled, NEW j \in DOMAIN received', received'[j] = Write(s) PROVE FALSE
        <4>1. CASE j = n
          <5>1. Write(s) = Write(t)
            BY <2>5, <3>3, <4>1
          <5>2. s = t
            BY <5>1 DEF Write
          <5> QED
            BY <2>8, <5>2
        <4>2. CASE j \in DOMAIN received
          BY <2>5, <3>3, <4>2 DEF DshInv, ToldInOrder, Contains
        <4> QED
          BY <2>5, <4>1, <4>2
      <3> QED
        BY <2>2, <3>1, <3>2, <3>3 DEF ToldInOrder, Contains
    <2> QED
      BY <2>9, <2>10, <2>11, <2>12, <2>13, <2>14, <2>15, <2>16 DEF DshInv
  <1> QED
    BY <1>1, <1>2, <1>3

LEMMA WritebackAnsweredKeeps == ASSUME DshInv, WritebackAnswered PROVE DshInv'
  BY SettleKeeps DEF WritebackAnswered, Busy, Steps, Surroundings, ChainRests

\* What is queued, deferred and written stays in order while time goes on.
LEMMA ChainStays ==
  ASSUME DshInv, UNCHANGED <<tail, deferred, received>>,
         \A x \in 0..MaxTurn : Past(x) => Past(x)'
  PROVE  ChainInv' /\ WrittenInv'
  <1>1. /\ \A i \in DOMAIN tail : Past(tail[i].turn)'
        /\ \A i \in DOMAIN received : received[i][1] = "write" => Past(received[i][2])'
    BY DshParts DEF DshInv, ChainInv, WrittenInv
  <1>2. \A j \in DOMAIN deferred : Past(deferred[j])'
    BY DshParts DEF DshInv, ChainInv, Turns
  <1> QED
    BY <1>1, <1>2 DEF DshInv, ChainInv, WrittenInv, Past

LEMMA ToldStays ==
  ASSUME DshInv, received' = received, spoiled' = spoiled PROVE ToldInOrder'
  BY DEF DshInv, ToldInOrder, Contains

\* The context when turns, generations and the plugin go on, and at most what was pending
\* is given up.
LEMMA ContextStays ==
  ASSUME DshInv, offered' = offered, generation' \in Nat, generation' >= generation,
         now' \in [turn : 0..MaxTurn, on : BOOLEAN], now'.turn >= now.turn,
         now'.on => (now.on /\ now'.turn = now.turn) \/ now'.turn > now.turn,
         \A t \in Turns : /\ step'[t].pc = step[t].pc /\ step'[t].tries = step[t].tries
                          /\ step[t].off => step'[t].off,
         Listening' => Listening,
         context' = context \/ context' = Discarded(context),
         Listening' /\ context'.pending # None => now'.on /\ context'.pending[1] = now'.turn
  PROVE  ContextInv' /\ ContextOnce' /\ context' \in [attempt : Attempts, pending : Attempts,
                                                       seen : BOOLEAN, applied : Nat]
  <1>1. context \in [attempt : Attempts, pending : Attempts, seen : BOOLEAN, applied : Nat]
    BY DEF DshInv, DshTypeOK
  <1>2. None \in Attempts
    BY DshAssumption DEF None, Attempts
  <1>3. /\ context' \in [attempt : Attempts, pending : Attempts, seen : BOOLEAN, applied : Nat]
        /\ \/ context'.pending = context.pending /\ context'.attempt = context.attempt
           \/ /\ context'.pending = None
              /\ context'.attempt = IF context.attempt = context.pending THEN None
                                    ELSE context.attempt
    BY <1>1, <1>2 DEF Discarded
  <1>4. \A t \in Turns : step[t].pc = "loading" =>
          /\ step[t].tries[1] = t /\ step[t].tries[2] <= generation
          /\ step[t].tries \in Attempts
          /\ ~step[t].off => /\ context.attempt = step[t].tries /\ context.pending # step[t].tries
                             /\ \A i \in DOMAIN offered : offered[i] # step[t].tries
    BY DEF DshInv, ContextInv, DshTypeOK
  <1>5. \A t \in Turns : step[t].pc = "loading" => step[t].tries # None
    BY <1>4 DEF None, Turns
  <1>6. \A t \in Turns : step'[t].pc = "loading" =>
          /\ step'[t].tries[1] = t /\ step'[t].tries[2] <= generation'
          /\ ~step'[t].off => /\ context'.attempt = step'[t].tries
                              /\ context'.pending # step'[t].tries
                              /\ \A i \in DOMAIN offered : offered[i] # step'[t].tries
    <2> SUFFICES ASSUME NEW t \in Turns, step[t].pc = "loading"
                 PROVE  /\ step[t].tries[1] = t /\ step[t].tries[2] <= generation'
                        /\ ~step[t].off => /\ context'.attempt = step[t].tries
                                           /\ context'.pending # step[t].tries
                                           /\ \A i \in DOMAIN offered : offered[i] # step[t].tries
      OBVIOUS
    <2>1. step[t].tries[2] \in Nat /\ generation \in Nat
      BY <1>4, DshParts DEF Attempts
    <2> QED
      BY <1>3, <1>4, <1>5, <2>1
  <1>7. context'.pending # None =>
          /\ context'.pending[1] \in Turns /\ context'.pending[1] <= now'.turn
          /\ context'.pending[2] <= generation'
          /\ \A i \in DOMAIN offered : offered[i] # context'.pending
          /\ Listening' /\ context'.pending[2] = generation' => context'.attempt = context'.pending
    <2> SUFFICES ASSUME context'.pending # None
                 PROVE  /\ context'.pending[1] \in Turns /\ context'.pending[1] <= now'.turn
                        /\ context'.pending[2] <= generation'
                        /\ \A i \in DOMAIN offered : offered[i] # context'.pending
                        /\ Listening' /\ context'.pending[2] = generation' =>
                             context'.attempt = context'.pending
      OBVIOUS
    <2>1. context'.pending = context.pending /\ context'.attempt = context.attempt
      BY <1>3
    <2>2. context.pending[2] \in Nat /\ generation \in Nat /\ now.turn \in 0..MaxTurn
      BY <1>1, DshParts DEF Attempts
    <2>3. /\ context.pending[1] \in Turns /\ context.pending[1] <= now.turn
          /\ context.pending[2] <= generation
          /\ \A i \in DOMAIN offered : offered[i] # context.pending
          /\ Listening /\ context.pending[2] = generation => context.attempt = context.pending
      BY <2>1 DEF DshInv, ContextInv
    <2>4. context.pending[1] \in Nat
      BY <2>3 DEF Turns
    <2> QED
      BY <2>1, <2>2, <2>3, <2>4
  <1>8. \A i \in DOMAIN offered :
          /\ offered[i][1] <= now'.turn /\ offered[i][2] <= generation'
          /\ now'.on /\ offered[i] = <<now'.turn, generation'>> => context'.attempt = offered[i]
    <2> SUFFICES ASSUME NEW i \in DOMAIN offered
                 PROVE  /\ offered[i][1] <= now'.turn /\ offered[i][2] <= generation'
                        /\ now'.on /\ offered[i] = <<now'.turn, generation'>> =>
                             context'.attempt = offered[i]
      OBVIOUS
    <2>1. /\ offered[i][1] <= now.turn /\ offered[i][2] <= generation
          /\ now.on /\ offered[i] = <<now.turn, generation>> => context.attempt = offered[i]
      BY DEF DshInv, ContextInv
    <2>2. offered[i] \in Turns \X Nat
      BY DshParts
    <2>3. /\ offered[i][1] \in Nat /\ offered[i][2] \in Nat /\ offered[i][1] # 0
          /\ generation \in Nat /\ now.turn \in 0..MaxTurn
      BY <2>2, DshParts DEF Turns
    <2>4. ASSUME now'.on, offered[i] = <<now'.turn, generation'>>
          PROVE  context'.attempt = offered[i]
      <3>1. offered[i][1] = now'.turn /\ offered[i][2] = generation'
        BY <2>4
      <3>2. now'.turn = now.turn /\ generation' = generation /\ now.on
        BY <2>1, <2>3, <2>4, <3>1
      <3>3. context.attempt = offered[i]
        BY <2>1, <2>4, <3>2
      <3>4. context.pending # offered[i] \/ context.pending = None
        BY DEF DshInv, ContextInv
      <3>5. offered[i] # None
        BY <2>3 DEF None
      <3> QED
        BY <1>3, <3>3, <3>4, <3>5
    <2> QED
      BY <2>1, <2>3, <2>4
  <1>9. ContextInv'
    BY <1>6, <1>7, <1>8 DEF ContextInv
  <1>10. ContextOnce'
    BY DEF DshInv, ContextOnce, IsInjective
  <1> QED
    BY <1>3, <1>9, <1>10

\* The recovery and the steps, when the chain and the steps' progress stay.
LEMMA StepsStay ==
  ASSUME DshInv, UNCHANGED <<tail, recovery, received>>,
         recovery = "due" => deferred' = deferred /\ ~now'.on,
         now' \in [turn : 0..MaxTurn, on : BOOLEAN], now'.turn >= now.turn,
         now'.on => now'.turn # 0,
         \A t \in Turns : /\ step'[t].pc = step[t].pc
                          /\ step[t].off => step'[t].off
                          /\ now.on /\ now.turn = t /\ ~step'[t].off => now'.on /\ now'.turn = t
                          /\ step'[t].off => step[t].off \/ Past(t)',
         \A x \in 0..MaxTurn : Past(x) => Past(x)'
  PROVE  RecoveryInv' /\ StepInv'
  <1>1. RecoveryInv'
    BY DEF DshInv, RecoveryInv
  <1>2. ASSUME NEW t \in Turns, step'[t].pc # "none"
        PROVE  t <= now'.turn /\ (~step'[t].off => now'.on /\ now'.turn = t)
    <2>1. t <= now.turn /\ (~step[t].off => now.on /\ now.turn = t)
      BY <1>2 DEF DshInv, StepInv
    <2> QED
      BY <2>1, DshParts DEF Turns
  <1>3. ASSUME NEW i \in DOMAIN received, received[i][1] = "start"
        PROVE  /\ received[i][2] \in Turns /\ received[i][2] <= now'.turn
               /\ step'[received[i][2]].pc \notin {"none", "waiting", "ensuring"}
    <2>1. /\ received[i][2] \in Turns /\ received[i][2] <= now.turn
          /\ step[received[i][2]].pc \notin {"none", "waiting", "ensuring"}
      BY <1>3 DEF DshInv, StepInv
    <2> QED
      BY <2>1, DshParts DEF Turns
  <1>4. ASSUME NEW t \in Turns, step'[t].off PROVE Past(t)'
    <2>1. t \in 0..MaxTurn /\ (step[t].off => Past(t))
      BY DshAssumption DEF DshInv, StepInv, Turns, Past
    <2> QED
      BY <1>4, <2>1
  <1> QED
    BY <1>1, <1>2, <1>3, <1>4 DEF StepInv, Past

LEMMA TurnStartKeeps == ASSUME DshInv, TurnStart PROVE DshInv'
  <1> DEFINE t == now.turn + 1
  <1>1. /\ ~now.on /\ now.turn < MaxTurn /\ recovery # "due"
        /\ now' = [turn |-> t, on |-> TRUE]
        /\ local' = local \/ local' = [local EXCEPT ![t] = "open"]
        /\ UNCHANGED <<deferred, tail, recovery, generation, moved, authority, phase, spoiled,
                       step, context, received, offered>>
    BY DEF TurnStart, Steps
  <1>2. t \in Turns /\ t \in 0..MaxTurn /\ t > now.turn /\ now.turn \in Nat
    BY <1>1, DshParts, DshAssumption DEF Turns
  <1>3. /\ now' \in [turn : 0..MaxTurn, on : BOOLEAN] /\ now'.turn = t /\ now'.on
    BY <1>1, <1>2
  <1> HIDE DEF t
  <1>4. DshTypeOK'
    BY <1>1, <1>2, <1>3 DEF DshInv, DshTypeOK
  <1>5. ChainInv' /\ WrittenInv' /\ ToldInOrder'
    <2>1. \A x \in 0..MaxTurn : Past(x) => Past(x)'
      BY <1>2, <1>3 DEF Past
    <2> QED
      BY <1>1, <2>1, ChainStays, ToldStays
  <1>6. RecoveryInv' /\ StepInv'
    <2>1. \A x \in 0..MaxTurn : Past(x) => Past(x)'
      BY <1>2, <1>3 DEF Past
    <2>2. now'.turn >= now.turn /\ now'.turn # 0
      BY <1>2, <1>3 DEF Turns
    <2> QED
      BY <1>1, <1>3, <2>1, <2>2, StepsStay
  <1>7. SpoiledInv'
    <2>1. \A s \in spoiled : s <= now.turn /\ s # t /\ s \in Nat
      BY <1>2 DEF DshInv, SpoiledInv, DshTypeOK, Turns
    <2>2. \A s \in spoiled : local'[s] # "open"
      BY <1>1, <2>1 DEF DshInv, SpoiledInv, DshTypeOK
    <2> QED
      BY <1>1, <1>2, <1>3, <2>1, <2>2 DEF DshInv, SpoiledInv
  <1>8. ContextInv' /\ ContextOnce'
    <2>1. Listening' = Listening
      BY <1>1 DEF Listening
    <2>2. ~(Listening /\ context.pending # None)
      BY <1>1 DEF DshInv, ContextOnce
    <2>3. generation \in Nat /\ generation >= generation
      BY DshParts
    <2> QED
      BY <1>1, <1>2, <1>3, <2>1, <2>2, <2>3, ContextStays
  <1> QED
    BY <1>4, <1>5, <1>6, <1>7, <1>8 DEF DshInv

LEMMA RepeatedStartKeeps == ASSUME DshInv, RepeatedStart PROVE DshInv'
  <1> DEFINE t == now.turn
  <1>1. /\ now.on /\ spoiled' = spoiled \cup {t} /\ local' = [local EXCEPT ![t] = "invalid"]
        /\ UNCHANGED <<now, deferred, tail, recovery, generation, moved, authority, phase,
                       step, context, received, offered>>
    BY DEF RepeatedStart, Steps
  <1>2. t \in Turns
    BY <1>1, DshParts, DshAssumption DEF DshInv, StepInv, Turns
  <1>3. /\ \A i \in DOMAIN tail : tail[i].turn # t
        /\ \A j \in DOMAIN deferred : deferred[j] # t
        /\ \A i \in DOMAIN received : received[i] # Write(t)
    <2>1. /\ \A i \in DOMAIN tail : tail[i].turn < t
          /\ \A j \in DOMAIN deferred : deferred[j] < t
          /\ \A i \in DOMAIN received : received[i][1] = "write" => received[i][2] < t
      BY <1>1 DEF DshInv, ChainInv, WrittenInv, Past
    <2>2. t \in Nat /\ Write(t)[1] = "write" /\ Write(t)[2] = t
      BY <1>2 DEF Turns, Write
    <2> QED
      BY <2>1, <2>2, DshParts
  <1>4. t \in Nat /\ t <= now.turn
    BY <1>2 DEF Turns
  <1>5. DshTypeOK'
    BY <1>1, <1>2 DEF DshInv, DshTypeOK
  <1> HIDE DEF t
  <1>6. ChainInv' /\ WrittenInv'
    BY <1>1, ChainStays DEF Past
  <1>7. RecoveryInv' /\ StepInv'
    BY <1>1 DEF DshInv, RecoveryInv, StepInv, Past
  <1>8. SpoiledInv'
    <2>1. local'[t] = "invalid" /\ \A s \in Turns : s # t => local'[s] = local[s]
      BY <1>1, <1>2 DEF DshInv, DshTypeOK
    <2>2. spoiled \subseteq Turns
      BY DEF DshInv, DshTypeOK
    <2> QED
      BY <1>1, <1>3, <1>4, <2>1, <2>2 DEF DshInv, SpoiledInv
  <1>9. ToldInOrder'
    BY <1>1, <1>3 DEF DshInv, ToldInOrder, Contains
  <1>10. ContextInv' /\ ContextOnce'
    BY <1>1, ContextRests
  <1> QED
    BY <1>5, <1>6, <1>7, <1>8, <1>9, <1>10 DEF DshInv

\* The turn is over: it is deferred when it was open, and its context is given up.
LEMMA TurnEndKeeps == ASSUME DshInv, TurnEnd PROVE DshInv'
  <1> DEFINE t == now.turn
  <1>1. /\ now.on /\ now' = [now EXCEPT !.on = FALSE] /\ step' = [step EXCEPT ![t].off = TRUE]
        /\ UNCHANGED <<tail, recovery, received, offered, generation, moved, authority, phase, spoiled>>
    BY DEF TurnEnd
  <1>2. \/ UNCHANGED <<local, deferred>>
        \/ /\ local[t] = "open" /\ local' = [local EXCEPT ![t] = "closed"]
           /\ deferred' = Append(deferred, t)
    BY DEF TurnEnd
  <1>3. /\ context' = context \/ context' = Discarded(context)
        /\ Listening => context' = context \/ context'.pending = None
        /\ Listening /\ context.pending # None => context'.pending = None
    <2>1. Discarded(context).pending = None
      BY DEF Discarded, DshInv, DshTypeOK
    <2>2. Listening => context' = IF context.pending # None /\ context.pending[1] = t
                                  THEN Discarded(context) ELSE context
      BY DEF TurnEnd
    <2>3. ~Listening => context' = context
      BY DEF TurnEnd
    <2>4. Listening /\ context.pending # None => context.pending[1] = t
      BY DEF DshInv, ContextOnce
    <2> QED
      BY <2>1, <2>2, <2>3, <2>4
  <1>4. t \in Turns
    BY <1>1, DshParts, DshAssumption DEF DshInv, StepInv, Turns
  <1>5. /\ now' \in [turn : 0..MaxTurn, on : BOOLEAN] /\ now'.turn = t /\ ~now'.on
    BY <1>1 DEF DshInv, DshTypeOK
  <1>6. /\ step' \in [Turns -> [pc : {"none", "waiting", "ensuring", "sent", "collect", "loading", "done"},
                               off : BOOLEAN, told : BOOLEAN, tries : Attempts]]
        /\ \A s \in Turns : /\ step'[s].pc = step[s].pc /\ step'[s].tries = step[s].tries
                            /\ step[s].off => step'[s].off
                            /\ s = t => step'[s].off
                            /\ step'[s].off => step[s].off \/ s = t
    <2>1. step \in [Turns -> [pc : {"none", "waiting", "ensuring", "sent", "collect", "loading", "done"},
                              off : BOOLEAN, told : BOOLEAN, tries : Attempts]]
      BY DEF DshInv, DshTypeOK
    <2> HIDE DEF t
    <2> QED
      BY <1>1, <1>4, <2>1
  <1>7. recovery # "due"
    BY <1>1 DEF DshInv, RecoveryInv
  <1>8. t \in Nat /\ t <= now.turn
    BY <1>4 DEF Turns
  <1>9. \A x : Past(x) => x < t
    BY <1>1 DEF Past
  <1>10. \A x \in Nat : x <= t => Past(x)'
    BY <1>5 DEF Past
  <1>11. now.turn = t
    OBVIOUS
  <1> HIDE DEF t
  <1>12. RecoveryInv' /\ StepInv'
    <2>1. \A x \in 0..MaxTurn : Past(x) => Past(x)'
      BY <1>8, <1>9, <1>10
    <2>2. \A s \in Turns : step'[s].off => step[s].off \/ Past(s)'
      <3>1. \A s \in Turns : s = t => Past(s)'
        BY <1>10 DEF Turns
      <3> QED
        BY <1>6, <3>1
    <2>3. \A s \in Turns : /\ step'[s].pc = step[s].pc
                           /\ step[s].off => step'[s].off
                           /\ now.on /\ now.turn = s /\ ~step'[s].off => now'.on /\ now'.turn = s
      BY <1>6, <1>11
    <2>4. now'.turn >= now.turn /\ (now'.on => now'.turn # 0)
      BY <1>5, <1>8, <1>11
    <2> QED
      BY <1>1, <1>5, <1>7, <2>1, <2>2, <2>3, <2>4, StepsStay
  <1>13. /\ ContextInv' /\ ContextOnce'
         /\ context' \in [attempt : Attempts, pending : Attempts, seen : BOOLEAN, applied : Nat]
    <2>1. Listening' = Listening
      BY <1>1 DEF Listening
    <2>2. generation \in Nat /\ generation >= generation
      BY DshParts
    <2>3. ~(Listening' /\ context'.pending # None)
      BY <1>3, <2>1
    <2> QED
      BY <1>1, <1>3, <1>5, <1>6, <1>8, <1>11, <2>1, <2>2, <2>3, ContextStays
  <1>14. ToldInOrder'
    BY <1>1, ToldStays
  <1>15. CASE UNCHANGED <<local, deferred>>
    <2>1. DshTypeOK'
      BY <1>1, <1>5, <1>6, <1>13, <1>15 DEF DshInv, DshTypeOK
    <2>2. ChainInv' /\ WrittenInv'
      <3>1. \A x \in 0..MaxTurn : Past(x) => Past(x)'
        BY <1>8, <1>9, <1>10
      <3> QED
        BY <1>1, <1>15, <3>1, ChainStays
    <2>3. SpoiledInv'
      BY <1>1, <1>5, <1>11, <1>15 DEF DshInv, SpoiledInv
    <2> QED
      BY <1>12, <1>13, <1>14, <2>1, <2>2, <2>3 DEF DshInv
  <1>16. CASE /\ local[t] = "open" /\ local' = [local EXCEPT ![t] = "closed"]
              /\ deferred' = Append(deferred, t)
    <2> DEFINE n == Len(deferred) + 1
    <2>1. /\ deferred' \in Seq(Turns) /\ deferred'[n] = t
          /\ \A j \in DOMAIN deferred : deferred'[j] = deferred[j] /\ j < n
          /\ \A j \in DOMAIN deferred' : j \in DOMAIN deferred \/ j = n
          /\ n \in Nat
      BY <1>4, <1>16, DshParts, AppendIs
    <2> HIDE DEF n
    <2>2. /\ \A i \in DOMAIN tail : tail[i].turn < t
          /\ \A j \in DOMAIN deferred : deferred[j] < t
          /\ \A i \in DOMAIN received : received[i][1] = "write" => received[i][2] < t
      BY <1>9 DEF DshInv, ChainInv, WrittenInv
    <2>3. DshTypeOK'
      BY <1>1, <1>5, <1>6, <1>13, <1>16, <2>1 DEF DshInv, DshTypeOK
    <2>4. ChainInv'
      <3>1. \A i \in DOMAIN deferred', j \in DOMAIN deferred' : i < j => deferred'[i] < deferred'[j]
        <4> SUFFICES ASSUME NEW i \in DOMAIN deferred', NEW j \in DOMAIN deferred', i < j
                     PROVE  deferred'[i] < deferred'[j]
          OBVIOUS
        <4>1. i \in DOMAIN deferred
          <5>1. \A k \in DOMAIN deferred : k \in Nat
            BY DshParts
          <5> QED
            BY <2>1, <5>1
        <4>2. CASE j = n
          BY <2>1, <2>2, <4>1, <4>2
        <4>3. CASE j \in DOMAIN deferred
          BY <2>1, <4>1, <4>3 DEF DshInv, ChainInv
        <4> QED
          BY <2>1, <4>2, <4>3
      <3>2. \A i \in DOMAIN tail, j \in DOMAIN deferred' : tail[i].turn < deferred'[j]
        BY <2>1, <2>2 DEF DshInv, ChainInv
      <3>3. \A j \in DOMAIN deferred' : deferred'[j] <= t
        <4>1. \A j \in DOMAIN deferred : deferred[j] \in Nat
          BY DshParts DEF Turns
        <4>2. \A j \in DOMAIN deferred : deferred[j] <= t
          BY <1>8, <2>2, <4>1
        <4> QED
          BY <1>8, <2>1, <4>2
      <3>4. \A i \in DOMAIN tail : tail[i].turn <= t
        BY <1>8, <2>2, DshParts
      <3> QED
        BY <1>1, <1>5, <3>1, <3>2, <3>3, <3>4 DEF DshInv, ChainInv, Past
    <2>5. WrittenInv'
      <3>1. \A i \in DOMAIN received : received[i][1] = "write" => received[i][2] <= t
        BY <1>8, <2>2, DshParts
      <3> QED
        BY <1>1, <1>5, <2>1, <2>2, <3>1 DEF DshInv, WrittenInv, Past
    <2>6. SpoiledInv'
      <3>1. \A s \in spoiled : s # t /\ s \in Turns
        BY <1>16 DEF DshInv, SpoiledInv, DshTypeOK
      <3>2. \A s \in spoiled : local'[s] = local[s]
        BY <1>16, <3>1 DEF DshInv, DshTypeOK
      <3> QED
        BY <1>1, <1>5, <1>11, <2>1, <3>1, <3>2 DEF DshInv, SpoiledInv
    <2> QED
      BY <1>12, <1>13, <1>14, <2>3, <2>4, <2>5, <2>6 DEF DshInv
  <1> QED
    BY <1>2, <1>15, <1>16

ProgressRests == UNCHANGED <<deferred, tail, recovery, received, offered>>

\* A step in which DSH goes on, the session ends or moves, or the plugin is unloaded: the
\* turn goes on or is over, and its context may be given up.
LEMMA DshGoesOn ==
  ASSUME DshInv, ProgressRests, generation' \in Nat, generation' >= generation,
         now' = now \/ (now' \in [turn : 0..MaxTurn, on : BOOLEAN] /\ now'.turn >= now.turn /\ ~now'.on),
         step' = step \/ (step' = [t \in Turns |-> [step[t] EXCEPT !.off = TRUE]]),
         step' = step \/ \A t \in Turns : Past(t)',
         now' = now \/ step' = [t \in Turns |-> [step[t] EXCEPT !.off = TRUE]],
         moved' \in BOOLEAN, authority' \in BOOLEAN, phase' \in {"accepting", "draining", "disposed"},
         Listening' => Listening,
         local' = local \/ local' = [t \in Turns |-> "none"],
         context' = context \/ context' = Discarded(context),
         now' # now => context' = Discarded(context),
         \/ spoiled' = spoiled
         \/ now.on /\ spoiled' = spoiled \cup {now.turn} /\ local' = [t \in Turns |-> "none"]
  PROVE  DshInv'
  <1>1. UNCHANGED <<deferred, tail, recovery, received, offered>>
    BY DEF ProgressRests
  <1>2. /\ step' \in [Turns -> [pc : {"none", "waiting", "ensuring", "sent", "collect", "loading", "done"},
                               off : BOOLEAN, told : BOOLEAN, tries : Attempts]]
        /\ \A t \in Turns : /\ step'[t].pc = step[t].pc /\ step'[t].tries = step[t].tries
                            /\ step[t].off => step'[t].off
                            /\ now' = now \/ step'[t].off
                            /\ step'[t].off => step[t].off \/ Past(t)'
    <2> DEFINE R == [pc : {"none", "waiting", "ensuring", "sent", "collect", "loading", "done"},
                     off : BOOLEAN, told : BOOLEAN, tries : Attempts]
    <2>1. step \in [Turns -> R]
      BY DEF DshInv, DshTypeOK
    <2>2. CASE step' = [t \in Turns |-> [step[t] EXCEPT !.off = TRUE]]
      <3>1. \A t \in Turns : step'[t] = [step[t] EXCEPT !.off = TRUE] /\ step[t] \in R
        BY <2>1, <2>2
      <3>2. \A r \in R : /\ [r EXCEPT !.off = TRUE] \in R /\ [r EXCEPT !.off = TRUE].off
                        /\ [r EXCEPT !.off = TRUE].pc = r.pc
                        /\ [r EXCEPT !.off = TRUE].tries = r.tries
        OBVIOUS
      <3> HIDE DEF R
      <3>3. step' \in [Turns -> R]
        BY <2>2, <3>1, <3>2
      <3> QED
        BY <3>1, <3>2, <3>3 DEF R
    <2>3. CASE step' = step /\ now' = now
      BY <2>1, <2>3
    <2> QED
      BY <2>2, <2>3
  <1>12. \A x \in 0..MaxTurn : Past(x) => Past(x)'
    BY DshParts DEF Past
  <1>3. /\ now' \in [turn : 0..MaxTurn, on : BOOLEAN] /\ now'.turn >= now.turn
        /\ now'.on => now.on /\ now'.turn = now.turn
        /\ now'.on => now'.turn # 0
    BY DshParts DEF DshInv, DshTypeOK, StepInv
  <1>4. RecoveryInv' /\ StepInv'
    <2>1. recovery = "due" => deferred' = deferred /\ ~now'.on
      BY <1>1, <1>3 DEF DshInv, RecoveryInv
    <2>2. \A t \in Turns : /\ step'[t].pc = step[t].pc
                           /\ step[t].off => step'[t].off
                           /\ now.on /\ now.turn = t /\ ~step'[t].off => now'.on /\ now'.turn = t
                           /\ step'[t].off => step[t].off \/ Past(t)'
      BY <1>2
    <2> QED
      BY <1>1, <1>3, <1>12, <2>1, <2>2, StepsStay
  <1>5. ChainInv' /\ WrittenInv'
    BY <1>1, <1>12, ChainStays
  <1>6. /\ ContextInv' /\ ContextOnce'
        /\ context' \in [attempt : Attempts, pending : Attempts, seen : BOOLEAN, applied : Nat]
    <2>1. Listening' /\ context'.pending # None => now'.on /\ context'.pending[1] = now'.turn
      <3>1. Discarded(context).pending = None
        BY DEF Discarded, DshInv, DshTypeOK
      <3>2. Listening /\ context.pending # None => now.on /\ context.pending[1] = now.turn
        BY DEF DshInv, ContextOnce
      <3> QED
        BY <3>1, <3>2
    <2>2. offered' = offered
      BY <1>1
    <2>3. now'.on => (now.on /\ now'.turn = now.turn) \/ now'.turn > now.turn
      BY <1>3
    <2>4. \A t \in Turns : /\ step'[t].pc = step[t].pc /\ step'[t].tries = step[t].tries
                           /\ step[t].off => step'[t].off
      BY <1>2
    <2> QED
      BY <1>3, <2>1, <2>2, <2>3, <2>4, ContextStays
  <1>7. now.on => now.turn \in Turns
    BY DshParts, DshAssumption DEF DshInv, StepInv, Turns
  <1>8. DshTypeOK'
    BY <1>1, <1>2, <1>3, <1>6, <1>7 DEF DshInv, DshTypeOK
  <1>9. ASSUME now.on
        PROVE  /\ \A i \in DOMAIN tail : tail[i].turn # now.turn
               /\ \A j \in DOMAIN deferred : deferred[j] # now.turn
               /\ \A i \in DOMAIN received : received[i] # Write(now.turn)
    <2>1. /\ \A i \in DOMAIN tail : tail[i].turn < now.turn
          /\ \A j \in DOMAIN deferred : deferred[j] < now.turn
          /\ \A i \in DOMAIN received : received[i][1] = "write" => received[i][2] < now.turn
      BY <1>9 DEF DshInv, ChainInv, WrittenInv, Past
    <2>2. now.turn \in Nat /\ Write(now.turn)[1] = "write" /\ Write(now.turn)[2] = now.turn
      BY DshParts DEF Write
    <2> QED
      BY <2>1, <2>2, DshParts
  <1>10. SpoiledInv'
    <2>1. \A s \in spoiled' : local'[s] # "open"
      <3>1. spoiled' \subseteq Turns
        BY <1>7 DEF DshInv, DshTypeOK
      <3> QED
        BY <3>1 DEF DshInv, SpoiledInv
    <2>2. \A s \in spoiled' : s <= now'.turn
      <3>1. \A s \in spoiled' : s \in Nat /\ s <= now.turn
        BY <1>7, DshParts DEF DshInv, SpoiledInv, DshTypeOK, Turns
      <3> QED
        BY <1>3, <3>1, DshParts
    <2> QED
      BY <1>1, <1>9, <2>1, <2>2 DEF DshInv, SpoiledInv
  <1>11. ToldInOrder'
    BY <1>1, <1>9 DEF DshInv, ToldInOrder, Contains
  <1> QED
    BY <1>4, <1>5, <1>6, <1>8, <1>10, <1>11 DEF DshInv

LEMMA DshMovesKeeps ==
  ASSUME DshInv, \/ DirectoryChange \/ SessionDisposed \/ Compaction \/ AuthorityChange
                 \/ DisposeBegins \/ DisposeEnds
  PROVE  DshInv'
  <1>1. /\ generation \in Nat /\ generation >= generation /\ moved \in BOOLEAN /\ authority \in BOOLEAN
        /\ phase \in {"accepting", "draining", "disposed"}
    BY DshParts DEF DshInv, DshTypeOK
  <1>2. CASE DirectoryChange
    <2>1. /\ moved' = TRUE /\ local' = [t \in Turns |-> "none"] /\ context' = Discarded(context)
          /\ spoiled' = (IF now.on THEN spoiled \cup {now.turn} ELSE spoiled)
          /\ UNCHANGED <<now, step, generation, authority, phase>> /\ ProgressRests
      BY <1>2 DEF DirectoryChange, Forget, ProgressRests
    <2>2. ~Listening'
      BY <2>1 DEF Listening
    <2> QED
      BY <1>1, <2>1, <2>2, DshGoesOn
  <1>3. CASE SessionDisposed
    <2>1. /\ now' = [turn |-> MaxTurn, on |-> FALSE]
          /\ step' = [t \in Turns |-> [step[t] EXCEPT !.off = TRUE]]
          /\ local' = [t \in Turns |-> "none"] /\ context' = Discarded(context)
          /\ UNCHANGED <<generation, moved, authority, phase, spoiled>> /\ ProgressRests
      BY <1>3 DEF SessionDisposed, Forget, ProgressRests
    <2>2. /\ now' \in [turn : 0..MaxTurn, on : BOOLEAN] /\ now'.turn >= now.turn /\ ~now'.on
      BY <2>1, DshParts, DshAssumption
    <2>3. Listening' = Listening
      BY <2>1 DEF Listening
    <2>4. \A t \in Turns : Past(t)'
      BY <2>1, DshAssumption DEF Past, Turns
    <2> QED
      BY <1>1, <2>1, <2>2, <2>3, <2>4, DshGoesOn
  <1>4. CASE Compaction
    <2>1. /\ generation' = generation + 1 /\ ProgressRests
          /\ UNCHANGED <<now, local, moved, authority, phase, spoiled, step, context>>
      BY <1>4 DEF Compaction, Steps, ProgressRests
    <2>2. generation' \in Nat /\ generation' >= generation
      BY <1>1, <2>1
    <2>3. Listening' = Listening
      BY <2>1 DEF Listening
    <2> QED
      BY <1>1, <2>1, <2>2, <2>3, DshGoesOn
  <1>5. CASE AuthorityChange \/ DisposeBegins \/ DisposeEnds
    <2>1. /\ ProgressRests
          /\ UNCHANGED <<now, local, generation, moved, spoiled, step, context>>
          /\ authority' \in BOOLEAN /\ phase' \in {"accepting", "draining", "disposed"}
          /\ phase' = "accepting" => phase = "accepting"
      BY <1>1, <1>5 DEF AuthorityChange, DisposeBegins, DisposeEnds, Steps, ProgressRests
    <2>2. Listening' => Listening
      BY <2>1 DEF Listening
    <2> QED
      BY <1>1, <2>1, <2>2, DshGoesOn
  <1> QED
    BY <1>2, <1>3, <1>4, <1>5

StepRecords == [pc : {"none", "waiting", "ensuring", "sent", "collect", "loading", "done"},
                off : BOOLEAN, told : BOOLEAN, tries : Attempts]

\* The step of t, and no other one, goes on.
StepOnly(t) == /\ step' \in [Turns -> StepRecords]
               /\ \A u \in Turns : u # t => step'[u] = step[u]
               /\ step'[t].off = step[t].off

LEMMA StepGoesIs ==
  ASSUME DshInv, NEW t \in Turns,
         NEW pc \in {"waiting", "ensuring", "sent", "collect", "loading", "done"},
         StepGoes(t, pc)
  PROVE  StepOnly(t) /\ step'[t].pc = pc /\ step'[t].tries = step[t].tries
  <1>1. step \in [Turns -> StepRecords] /\ step[t] \in StepRecords
    BY DEF DshInv, DshTypeOK, StepRecords
  <1> DEFINE r == [step[t] EXCEPT !.pc = pc]
  <1>2. r \in StepRecords /\ r.off = step[t].off /\ r.pc = pc /\ r.tries = step[t].tries
    BY <1>1 DEF StepRecords
  <1>3. step' = [step EXCEPT ![t] = r]
    BY DEF StepGoes
  <1> HIDE DEF r
  <1> QED
    BY <1>1, <1>2, <1>3 DEF StepOnly

\* What a step of turn t cannot disturb but by sending its start.
LEMMA StepMoves ==
  ASSUME DshInv, NEW t \in Turns, StepRests, StepOnly(t),
         step[t].pc # "none" \/ (now.on /\ now.turn = t),
         step'[t].pc # "none",
         step'[t].pc \in {"waiting", "ensuring"} => step[t].pc \in {"none", "waiting"},
         step'[t].pc = "ensuring" => recovery # "pending",
         \/ received' = received
         \/ /\ step[t].pc = "ensuring" /\ ~step[t].off /\ step'[t].pc = "sent"
            /\ received' = Append(received, Start(t))
  PROVE  /\ ChainInv' /\ WrittenInv' /\ RecoveryInv' /\ StepInv' /\ SpoiledInv' /\ ToldInOrder'
         /\ received' \in Seq(Messages)
  <1>1. UNCHANGED <<local, deferred, tail, recovery, now, generation, moved, authority, phase, spoiled>>
    BY DEF StepRests, Surroundings
  <1>2. t \in Nat \ {0} /\ t \in 0..MaxTurn /\ t <= now.turn
    BY DshAssumption DEF DshInv, StepInv, Turns
  <1>3. recovery # "due" /\ (step[t].pc = "ensuring" => recovery # "pending")
    BY DEF DshInv, RecoveryInv
  <1>4. ~step[t].off => now.on /\ now.turn = t
    BY DEF DshInv, StepInv
  <1>5. CASE received' = received
    <2>1. ChainInv' /\ WrittenInv'
      BY <1>1, <1>5 DEF DshInv, ChainInv, WrittenInv, Past
    <2>2. SpoiledInv' /\ ToldInOrder' /\ received' \in Seq(Messages)
      BY <1>1, <1>5, DshParts DEF DshInv, SpoiledInv, ToldInOrder, Contains
    <2>3. RecoveryInv'
      BY <1>1, <1>3, <1>5 DEF DshInv, RecoveryInv, StepOnly
    <2>4. StepInv'
      <3>1. \A u \in Turns : /\ step'[u].pc # "none" => u <= now.turn
                             /\ step'[u].pc # "none" /\ ~step'[u].off => now.on /\ now.turn = u
                             /\ step'[u].off => u <= now.turn /\ (now.on => u < now.turn)
        BY <1>2, <1>4 DEF DshInv, StepInv, StepOnly
      <3>2. \A u \in Turns : step[u].pc \notin {"none", "waiting", "ensuring"} =>
                             step'[u].pc \notin {"none", "waiting", "ensuring"}
        BY DEF StepOnly
      <3> QED
        BY <1>1, <1>5, <3>1, <3>2 DEF DshInv, StepInv
    <2> QED
      BY <2>1, <2>2, <2>3, <2>4
  <1>6. CASE /\ step[t].pc = "ensuring" /\ ~step[t].off /\ step'[t].pc = "sent"
             /\ received' = Append(received, Start(t))
    <2> DEFINE n == Len(received) + 1
    <2>1. Start(t) \in Messages /\ Start(t)[1] = "start" /\ Start(t)[2] = t
      BY <1>2 DEF Start, Messages
    <2>2. /\ received' \in Seq(Messages) /\ received'[n] = Start(t) /\ n \in DOMAIN received'
          /\ \A i \in DOMAIN received : i \in DOMAIN received' /\ received'[i] = received[i] /\ i < n
          /\ \A i \in DOMAIN received' : i \in DOMAIN received \/ i = n
          /\ n \in Nat /\ DOMAIN received' = 1..n
      BY <1>6, <2>1, DshParts, AppendIs
    <2> HIDE DEF n
    <2>3. \A u \in 0..MaxTurn : Start(t) # Write(u)
      BY DEF Start, Write
    <2>4. ChainInv' /\ WrittenInv'
      <3>1. ChainInv'
        BY <1>1 DEF DshInv, ChainInv, Past
      <3>2. \A i \in DOMAIN received' : received'[i][1] = "write" =>
              i \in DOMAIN received /\ received'[i] = received[i]
        BY <2>1, <2>2
      <3>3. WrittenInv'
        BY <1>1, <3>2 DEF DshInv, WrittenInv, Past
      <3> QED
        BY <3>1, <3>3
    <2>5. RecoveryInv'
      BY <1>1, <1>3, <1>6 DEF DshInv, RecoveryInv, StepOnly
    <2>6. StepInv'
      <3>1. \A u \in Turns : /\ step'[u].pc # "none" => u <= now.turn
                             /\ step'[u].pc # "none" /\ ~step'[u].off => now.on /\ now.turn = u
                             /\ step'[u].off => u <= now.turn /\ (now.on => u < now.turn)
        BY <1>2, <1>4 DEF DshInv, StepInv, StepOnly
      <3>2. \A u \in Turns : step[u].pc \notin {"none", "waiting", "ensuring"} =>
                             step'[u].pc \notin {"none", "waiting", "ensuring"}
        BY DEF StepOnly
      <3>3. ASSUME NEW i \in DOMAIN received', received'[i][1] = "start"
            PROVE  /\ received'[i][2] \in Turns /\ received'[i][2] <= now.turn
                   /\ step'[received'[i][2]].pc \notin {"none", "waiting", "ensuring"}
        <4>1. CASE i = n
          BY <1>2, <1>6, <2>1, <2>2, <4>1
        <4>2. CASE i \in DOMAIN received
          <5>1. /\ received[i][2] \in Turns /\ received[i][2] <= now.turn
                /\ step[received[i][2]].pc \notin {"none", "waiting", "ensuring"}
            BY <2>2, <3>3, <4>2 DEF DshInv, StepInv
          <5> QED
            BY <2>2, <3>2, <4>2, <5>1
        <4> QED
          BY <2>2, <4>1, <4>2
      <3> QED
        BY <1>1, <3>1, <3>3 DEF DshInv, StepInv
    <2>7. SpoiledInv'
      BY <1>1 DEF DshInv, SpoiledInv
    <2>8. ToldInOrder'
      <3>1. ASSUME NEW i \in DOMAIN received, received[i][1] = "start" PROVE received[i][2] < t
        <4>1. /\ received[i][2] \in Turns /\ received[i][2] <= now.turn
              /\ step[received[i][2]].pc \notin {"none", "waiting", "ensuring"}
          BY <3>1 DEF DshInv, StepInv
        <4> QED
          BY <1>2, <1>4, <1>6, <4>1 DEF Turns
      <3>2. ASSUME NEW i \in DOMAIN received', NEW j \in DOMAIN received', i < j,
                   received'[i][1] = received'[j][1]
            PROVE  received'[i][2] < received'[j][2]
        <4>1. i \in DOMAIN received
          BY <2>2, <3>2
        <4>2. CASE j = n
          BY <2>1, <2>2, <3>1, <3>2, <4>1, <4>2
        <4>3. CASE j \in DOMAIN received
          BY <2>2, <3>2, <4>1, <4>3 DEF DshInv, ToldInOrder
        <4> QED
          BY <2>2, <4>2, <4>3
      <3>3. \A j \in DOMAIN received' : received'[j] = Write(0) => j = 1
        BY <1>2, <2>2, <2>3, DshAssumption DEF DshInv, ToldInOrder
      <3>4. \A s \in spoiled : ~Contains(received', Write(s))
        <4>1. \A s \in spoiled : s \in 0..MaxTurn
          BY DshAssumption DEF DshInv, DshTypeOK, Turns
        <4>2. \A s \in spoiled : \A i \in DOMAIN received : received[i] # Write(s)
          BY DshParts DEF DshInv, ToldInOrder, Contains
        <4> QED
          BY <2>2, <2>3, <4>1, <4>2 DEF Contains
      <3> QED
        BY <1>1, <3>2, <3>3, <3>4 DEF ToldInOrder
    <2> QED
      BY <2>2, <2>4, <2>5, <2>6, <2>7, <2>8
  <1> QED
    BY <1>5, <1>6

\* The context when it is not touched and no attempt begins.
LEMMA StepKeepsContext ==
  ASSUME DshInv, NEW t \in Turns, StepRests, StepOnly(t), step'[t].pc # "loading",
         UNCHANGED <<context, offered>>
  PROVE  ContextInv' /\ ContextOnce'
  <1>1. UNCHANGED <<local, deferred, tail, recovery, now, generation, moved, authority, phase, spoiled>>
    BY DEF StepRests, Surroundings
  <1>2. \A u \in Turns : step'[u].pc = "loading" => step'[u] = step[u]
    BY DEF StepOnly
  <1>3. Listening' = Listening
    BY <1>1 DEF Listening
  <1>4. ContextOnce'
    BY <1>1, <1>3 DEF DshInv, ContextOnce, IsInjective
  <1> QED
    BY <1>1, <1>2, <1>3, <1>4 DEF DshInv, ContextInv

\* A step that begins no attempt, and may send the start.
LEMMA StepKeeps ==
  ASSUME DshInv, NEW t \in Turns, StepRests, StepOnly(t),
         step[t].pc # "none" \/ (now.on /\ now.turn = t),
         step'[t].pc \notin {"none", "loading"},
         step'[t].pc \in {"waiting", "ensuring"} => step[t].pc \in {"none", "waiting"},
         step'[t].pc = "ensuring" => recovery # "pending",
         \/ received' = received
         \/ /\ step[t].pc = "ensuring" /\ ~step[t].off /\ step'[t].pc = "sent"
            /\ received' = Append(received, Start(t)),
         UNCHANGED <<context, offered>>
  PROVE  DshInv'
  <1>1. /\ ChainInv' /\ WrittenInv' /\ RecoveryInv' /\ StepInv' /\ SpoiledInv' /\ ToldInOrder'
        /\ received' \in Seq(Messages)
    BY StepMoves
  <1>2. ContextInv' /\ ContextOnce'
    BY StepKeepsContext
  <1>3. DshTypeOK'
    BY <1>1 DEF DshInv, DshTypeOK, StepRests, Surroundings, StepOnly, StepRecords
  <1> QED
    BY <1>1, <1>2, <1>3 DEF DshInv

LEMMA ToldStepsKeep ==
  ASSUME DshInv, NEW t \in Turns,
         \/ PreStep(t) \/ AwaitRecovery(t) \/ SendStart(t) \/ StartAnswered(t) \/ NextStep(t)
  PROVE  DshInv'
  <1>1. StepRests /\ UNCHANGED <<context, offered>>
    BY DEF PreStep, AwaitRecovery, SendStart, StartAnswered, NextStep
  <1>2. CASE PreStep(t)
    <2>1. PICK pc \in {"waiting", "collect"} : StepGoes(t, pc)
      BY <1>2 DEF PreStep
    <2>2. now.on /\ now.turn = t /\ received' = received /\ step[t].pc = "none"
      BY <1>2 DEF PreStep, StepAt
    <2>3. StepOnly(t) /\ step'[t].pc = pc
      BY <2>1, StepGoesIs
    <2> QED
      BY <1>1, <2>2, <2>3, StepKeeps
  <1>3. CASE AwaitRecovery(t)
    <2>1. PICK pc \in {"ensuring", "collect"} : StepGoes(t, pc) /\ (pc = "ensuring" => recovery # "pending")
      BY <1>3 DEF AwaitRecovery
    <2>2. received' = received /\ step[t].pc = "waiting"
      BY <1>3 DEF AwaitRecovery, StepAt
    <2>3. StepOnly(t) /\ step'[t].pc = pc
      BY <2>1, StepGoesIs
    <2> QED
      BY <1>1, <2>1, <2>2, <2>3, StepKeeps
  <1>4. CASE SendStart(t)
    <2>1. PICK pc \in {"sent", "collect"} :
            /\ StepGoes(t, pc)
            /\ \/ received' = received
               \/ pc = "sent" /\ ~step[t].off /\ received' = Append(received, Start(t))
      BY <1>4 DEF SendStart
    <2>2. step[t].pc = "ensuring"
      BY <1>4 DEF SendStart, StepAt
    <2>3. StepOnly(t) /\ step'[t].pc = pc
      BY <2>1, StepGoesIs
    <2> QED
      BY <1>1, <2>1, <2>2, <2>3, StepKeeps
  <1>5. CASE StartAnswered(t)
    <2>1. PICK told \in BOOLEAN : step' = [step EXCEPT ![t].pc = "collect", ![t].told = told]
      BY <1>5 DEF StartAnswered
    <2>2. received' = received /\ step[t].pc = "sent"
      BY <1>5 DEF StartAnswered, StepAt
    <2>3. StepOnly(t) /\ step'[t].pc = "collect"
      <3>1. step \in [Turns -> StepRecords] /\ step[t] \in StepRecords
        BY DEF DshInv, DshTypeOK, StepRecords
      <3> DEFINE r == [step[t] EXCEPT !.pc = "collect", !.told = told]
      <3>2. r \in StepRecords /\ r.off = step[t].off /\ r.pc = "collect"
        BY <3>1 DEF StepRecords
      <3>3. step' = [step EXCEPT ![t] = r]
        BY <2>1, <3>1
      <3> HIDE DEF r
      <3> QED
        BY <3>1, <3>2, <3>3 DEF StepOnly
    <2> QED
      BY <1>1, <2>2, <2>3, StepKeeps
  <1>6. CASE NextStep(t)
    <2>1. StepGoes(t, "collect") /\ received' = received /\ step[t].pc = "done"
      BY <1>6 DEF NextStep, StepAt
    <2>2. StepOnly(t) /\ step'[t].pc = "collect"
      BY <2>1, StepGoesIs
    <2> QED
      BY <1>1, <2>1, <2>2, StepKeeps
  <1> QED
    BY <1>2, <1>3, <1>4, <1>5, <1>6

Contexts == [attempt : Attempts, pending : Attempts, seen : BOOLEAN, applied : Nat]

\* An attempt begins: no message of this turn and generation was tried before.
LEMMA CollectKeeps == ASSUME DshInv, NEW t \in Turns, Collect(t) PROVE DshInv'
  <1>1. StepRests /\ UNCHANGED <<received, offered>> /\ step[t].pc = "collect"
    BY DEF Collect, StepAt
  <1>2. CASE StepGoes(t, "done") /\ UNCHANGED context
    <2>1. StepOnly(t) /\ step'[t].pc = "done"
      BY <1>2, StepGoesIs
    <2> QED
      BY <1>1, <1>2, <2>1, StepKeeps
  <1>3. CASE Wanted(t) /\ context.attempt # Attempt(t) /\ Load(t)
    <2> DEFINE a == <<t, generation>>
    <2>1. /\ step' = [step EXCEPT ![t].pc = "loading", ![t].tries = a]
          /\ context' = [context EXCEPT !.attempt = a] /\ context.attempt # a
          /\ Listening /\ ~step[t].off
      BY <1>3 DEF Load, Attempt, Wanted
    <2>2. /\ now.on /\ now.turn = t /\ generation \in Nat
          /\ UNCHANGED <<now, generation, moved, authority, phase, spoiled>>
      BY <1>1, <2>1, DshParts DEF DshInv, StepInv, StepRests, Surroundings
    <2>3. a \in Attempts /\ a[1] = t /\ a[2] = generation /\ a # None
      BY <2>2, DshAssumption DEF Attempts, None, Turns
    <2>4. /\ context' \in Contexts /\ context'.attempt = a /\ context'.pending = context.pending
      BY <2>1, <2>3 DEF DshInv, DshTypeOK, Contexts
    <2>5. StepOnly(t) /\ step'[t].pc = "loading" /\ step'[t].tries = a
      <3>1. step \in [Turns -> StepRecords] /\ step[t] \in StepRecords
        BY DEF DshInv, DshTypeOK, StepRecords
      <3> DEFINE r == [step[t] EXCEPT !.pc = "loading", !.tries = a]
      <3> HIDE DEF a
      <3>2. r \in StepRecords /\ r.off = step[t].off /\ r.pc = "loading" /\ r.tries = a
        BY <2>3, <3>1 DEF StepRecords
      <3>3. step' = [step EXCEPT ![t] = r]
        BY <2>1, <3>1
      <3> HIDE DEF r
      <3> QED
        BY <3>1, <3>2, <3>3 DEF StepOnly
    <2>6. \A i \in DOMAIN offered : offered[i] # a
      BY <2>1, <2>2 DEF DshInv, ContextInv
    <2>7. context.pending # a
      <3>1. context.pending # None /\ context.pending[2] = generation => context.attempt = context.pending
        BY <2>1 DEF DshInv, ContextInv
      <3> QED
        BY <2>1, <2>3, <3>1
    <2> HIDE DEF a
    <2>8. /\ ChainInv' /\ WrittenInv' /\ RecoveryInv' /\ StepInv' /\ SpoiledInv' /\ ToldInOrder'
          /\ received' \in Seq(Messages)
      BY <1>1, <2>5, StepMoves
    <2>9. DshTypeOK'
      BY <1>1, <2>4, <2>5, <2>8
      DEF DshInv, DshTypeOK, StepRests, Surroundings, StepOnly, StepRecords, Contexts
    <2>10. Listening' = Listening
      BY <2>2 DEF Listening
    <2>11. ContextOnce'
      BY <1>1, <2>2, <2>4, <2>10 DEF DshInv, ContextOnce, IsInjective
    <2>12. ContextInv'
      <3>1. ASSUME NEW u \in Turns, step'[u].pc = "loading"
            PROVE  /\ step'[u].tries[1] = u /\ step'[u].tries[2] <= generation
                   /\ ~step'[u].off => /\ a = step'[u].tries /\ context.pending # step'[u].tries
                                       /\ \A i \in DOMAIN offered : offered[i] # step'[u].tries
        <4>1. CASE u = t
          BY <2>2, <2>3, <2>5, <2>6, <2>7, <4>1
        <4>2. CASE u # t
          <5>1. step'[u] = step[u]
            BY <2>5, <4>2 DEF StepOnly
          <5>2. step'[u].off
            BY <2>2, <3>1, <4>2, <5>1 DEF DshInv, StepInv
          <5> QED
            BY <3>1, <5>1, <5>2 DEF DshInv, ContextInv
        <4> QED
          BY <4>1, <4>2
      <3>2. context.pending # None =>
              /\ context.pending[1] \in Turns /\ context.pending[1] <= now.turn
              /\ context.pending[2] <= generation
              /\ \A i \in DOMAIN offered : offered[i] # context.pending
              /\ context.pending[2] # generation
        <4>1. context.pending # None => context.pending[1] = t
          BY <2>1, <2>2 DEF DshInv, ContextOnce
        <4>2. context.pending \in Attempts
          BY DEF DshInv, DshTypeOK
        <4>3. context.pending # None => context.pending[2] # generation
          BY <2>7, <4>1, <4>2 DEF a, Attempts
        <4> QED
          BY <4>3 DEF DshInv, ContextInv
      <3>3. \A i \in DOMAIN offered : /\ offered[i][1] <= now.turn /\ offered[i][2] <= generation
                                      /\ offered[i] # <<now.turn, generation>>
        BY <2>2, <2>6 DEF DshInv, ContextInv, a
      <3> QED
        BY <1>1, <2>2, <2>4, <3>1, <3>2, <3>3 DEF ContextInv
    <2> QED
      BY <2>8, <2>9, <2>11, <2>12 DEF DshInv
  <1> QED
    BY <1>2, <1>3 DEF Collect

\* An attempt ends: its message is pending, or it is given up, or the context is settled.
LEMMA LoadedKeeps == ASSUME DshInv, NEW t \in Turns, Loaded(t) PROVE DshInv'
  <1> DEFINE a == step[t].tries
             dropped == [context EXCEPT !.attempt = IF @ = a THEN None ELSE @]
  <1>1. /\ StepRests /\ UNCHANGED <<received, offered>> /\ step[t].pc = "loading"
        /\ StepGoes(t, "done")
        /\ \/ context' = dropped /\ ~Wanted(t)
           \/ context' = dropped /\ Wanted(t)
           \/ context' = [context EXCEPT !.pending = a] /\ context.pending = None /\ Wanted(t)
           \/ context' = Committed(context, a[2])
           \/ context' = context
    BY DEF Loaded, StepAt
  <1>2. UNCHANGED <<now, generation, moved, authority, phase, spoiled>>
    BY <1>1 DEF StepRests, Surroundings
  <1>3. StepOnly(t) /\ step'[t].pc = "done"
    BY <1>1, StepGoesIs
  <1>4. /\ ChainInv' /\ WrittenInv' /\ RecoveryInv' /\ StepInv' /\ SpoiledInv' /\ ToldInOrder'
        /\ received' \in Seq(Messages)
    BY <1>1, <1>3, StepMoves
  <1>5. /\ context \in Contexts /\ a \in Attempts /\ None \in Attempts
        /\ a[2] \in Nat /\ a[1] = t /\ a[2] <= generation /\ a # None
    <2>1. context \in Contexts /\ a \in Attempts /\ None \in Attempts
      BY DshAssumption DEF DshInv, DshTypeOK, Contexts, None, Attempts
    <2>2. a[1] = t /\ a[2] <= generation
      BY <1>1 DEF DshInv, ContextInv
    <2> QED
      BY <2>1, <2>2 DEF Attempts, None, Turns
  <1>6. ~step[t].off => /\ context.attempt = a /\ context.pending # a /\ now.on /\ now.turn = t
                        /\ \A i \in DOMAIN offered : offered[i] # a
    BY <1>1 DEF DshInv, ContextInv, StepInv
  <1>7. step[t].off => ~now.on \/ now.turn # t
    BY DshParts DEF DshInv, StepInv, Turns
  <1>8. t <= now.turn
    BY <1>1 DEF DshInv, StepInv
  <1> HIDE DEF a
  <1>9. dropped \in Contexts /\ dropped.pending = context.pending
        /\ dropped.attempt = IF context.attempt = a THEN None ELSE context.attempt
    BY <1>5 DEF Contexts
  <1>10. Committed(context, a[2]) \in Contexts /\ Committed(context, a[2]).pending = context.pending
         /\ Committed(context, a[2]).attempt = context.attempt
    BY <1>5 DEF Contexts, Committed
  <1>11. context' \in Contexts
    <2>1. [context EXCEPT !.pending = a] \in Contexts
      BY <1>5 DEF Contexts
    <2> QED
      BY <1>1, <1>5, <1>9, <1>10, <2>1
  <1> HIDE DEF dropped
  <1>12. \/ /\ context'.pending = context.pending
            /\ context'.attempt = context.attempt
         \/ /\ context'.pending = context.pending
            /\ context'.attempt = IF context.attempt = a THEN None ELSE context.attempt
         \/ /\ context'.pending = a /\ context.pending = None /\ Listening /\ ~step[t].off
            /\ context'.attempt = context.attempt
    <2>1. CASE context' = [context EXCEPT !.pending = a] /\ context.pending = None /\ Wanted(t)
      <3>1. context'.pending = a /\ context'.attempt = context.attempt
        BY <1>5, <2>1 DEF Contexts
      <3> QED
        BY <2>1, <3>1 DEF Wanted
    <2> QED
      BY <1>1, <1>9, <1>10, <2>1
  <1>13. DshTypeOK'
    BY <1>1, <1>3, <1>4, <1>11
    DEF DshInv, DshTypeOK, StepRests, Surroundings, StepOnly, StepRecords, Contexts
  <1>14. Listening' = Listening
    BY <1>2 DEF Listening
  <1>15. ContextOnce'
    <2>1. IsInjective(offered')
      BY <1>1 DEF DshInv, ContextOnce, IsInjective
    <2>2. Listening /\ context.pending # None => now.on /\ context.pending[1] = now.turn
      BY DEF DshInv, ContextOnce
    <2> QED
      BY <1>2, <1>5, <1>6, <1>12, <1>14, <2>1, <2>2 DEF ContextOnce
  <1>16. ASSUME NEW u \in Turns, step'[u].pc = "loading"
         PROVE  /\ step'[u].tries[1] = u /\ step'[u].tries[2] <= generation
                /\ ~step'[u].off =>
                     /\ context'.attempt = step'[u].tries /\ context'.pending # step'[u].tries
                     /\ \A i \in DOMAIN offered : offered[i] # step'[u].tries
    <2>1. u # t /\ step'[u] = step[u]
      BY <1>3, <1>16 DEF StepOnly
    <2>2. /\ step[u].tries[1] = u /\ step[u].tries[2] <= generation
          /\ ~step[u].off => /\ context.attempt = step[u].tries /\ context.pending # step[u].tries
                             /\ \A i \in DOMAIN offered : offered[i] # step[u].tries
      BY <1>16, <2>1 DEF DshInv, ContextInv
    <2>3. step[u].tries # a
      BY <1>5, <2>1, <2>2
    <2> QED
      BY <1>12, <2>1, <2>2, <2>3
  <1>17. ASSUME context'.pending # None
         PROVE  /\ context'.pending[1] \in Turns /\ context'.pending[1] <= now.turn
                /\ context'.pending[2] <= generation
                /\ \A i \in DOMAIN offered : offered[i] # context'.pending
                /\ Listening /\ context'.pending[2] = generation => context'.attempt = context'.pending
    <2>1. CASE context'.pending = a /\ ~step[t].off /\ context'.attempt = context.attempt
      BY <1>5, <1>6, <1>8, <2>1
    <2>2. CASE /\ context'.pending = context.pending
               /\ \/ context'.attempt = context.attempt
                  \/ context'.attempt = IF context.attempt = a THEN None ELSE context.attempt
      <3>1. /\ context.pending[1] \in Turns /\ context.pending[1] <= now.turn
            /\ context.pending[2] <= generation
            /\ \A i \in DOMAIN offered : offered[i] # context.pending
            /\ Listening /\ context.pending[2] = generation => context.attempt = context.pending
        BY <1>17, <2>2 DEF DshInv, ContextInv
      <3>2. Listening => now.on /\ context.pending[1] = now.turn
        BY <1>17, <2>2 DEF DshInv, ContextOnce
      <3>3. Listening => context.pending # a
        BY <1>5, <1>6, <1>7, <3>2
      <3> QED
        BY <2>2, <3>1, <3>3
    <2> QED
      BY <1>12, <2>1, <2>2
  <1>18. ASSUME NEW i \in DOMAIN offered
         PROVE  /\ offered[i][1] <= now.turn /\ offered[i][2] <= generation
                /\ now.on /\ offered[i] = <<now.turn, generation>> => context'.attempt = offered[i]
    <2>1. /\ offered[i][1] <= now.turn /\ offered[i][2] <= generation
          /\ now.on /\ offered[i] = <<now.turn, generation>> => context.attempt = offered[i]
      BY DEF DshInv, ContextInv
    <2>2. now.on /\ offered[i] = <<now.turn, generation>> => offered[i] # a
      BY <1>5, <1>6, <1>7
    <2> QED
      BY <1>12, <2>1, <2>2
  <1>19. ContextInv'
    BY <1>1, <1>2, <1>14, <1>16, <1>17, <1>18 DEF ContextInv
  <1> QED
    BY <1>4, <1>13, <1>15, <1>19 DEF DshInv

\* The pending message is accepted: it is a new one.
LEMMA AcceptedKeeps == ASSUME DshInv, Accepted PROVE DshInv'
  <1> DEFINE p == context.pending
             n == Len(offered) + 1
  <1>1. /\ p # None /\ now.on /\ now.turn = p[1] /\ Listening
        /\ context' = [Committed(context, p[2]) EXCEPT !.pending = None]
        /\ offered' = Append(offered, p)
        /\ UNCHANGED <<step, received, local, deferred, tail, recovery, now, generation, moved,
                       authority, phase, spoiled>>
    BY DEF Accepted, StepRests, Surroundings
  <1>2. context \in Contexts /\ p \in Attempts /\ None \in Attempts /\ p[2] \in Nat
    BY DshAssumption DEF DshInv, DshTypeOK, Contexts, None, Attempts
  <1>3. /\ p[1] \in Turns /\ p[1] <= now.turn /\ p[2] <= generation
        /\ \A i \in DOMAIN offered : offered[i] # p
        /\ p[2] = generation => context.attempt = p
    BY <1>1 DEF DshInv, ContextInv
  <1>4. p \in Turns \X Nat
    BY <1>2, <1>3 DEF Attempts
  <1> HIDE DEF p
  <1>5. context' \in Contexts /\ context'.pending = None /\ context'.attempt = context.attempt
    BY <1>1, <1>2 DEF Contexts, Committed
  <1>6. /\ offered' \in Seq(Turns \X Nat) /\ offered'[n] = p
        /\ \A i \in DOMAIN offered : i \in DOMAIN offered' /\ offered'[i] = offered[i] /\ i < n
        /\ \A i \in DOMAIN offered' : i \in DOMAIN offered \/ i = n
        /\ n \in Nat /\ DOMAIN offered' = 1..n
    BY <1>1, <1>4, DshParts, AppendIs
  <1> HIDE DEF n
  <1>7. DshTypeOK'
    BY <1>1, <1>5, <1>6 DEF DshInv, DshTypeOK, Contexts
  <1>8. ChainInv' /\ WrittenInv' /\ RecoveryInv' /\ StepInv' /\ SpoiledInv' /\ ToldInOrder'
    BY <1>1 DEF DshInv, ChainInv, WrittenInv, RecoveryInv, StepInv, SpoiledInv, ToldInOrder, Contains,
                Past
  <1>9. ContextOnce'
    <2>1. \A i, j \in DOMAIN offered : offered[i] = offered[j] => i = j
      BY DEF DshInv, ContextOnce, IsInjective
    <2>2. \A i, j \in DOMAIN offered' : offered'[i] = offered'[j] => i = j
      BY <1>3, <1>6, <2>1
    <2> QED
      BY <1>5, <2>2 DEF ContextOnce, IsInjective
  <1>10. ASSUME NEW u \in Turns, step[u].pc = "loading"
         PROVE  /\ step[u].tries[1] = u /\ step[u].tries[2] <= generation
                /\ ~step[u].off => /\ context.attempt = step[u].tries /\ None # step[u].tries
                                   /\ \A i \in DOMAIN offered' : offered'[i] # step[u].tries
    <2>1. /\ step[u].tries[1] = u /\ step[u].tries[2] <= generation
          /\ ~step[u].off => /\ context.attempt = step[u].tries /\ p # step[u].tries
                             /\ \A i \in DOMAIN offered : offered[i] # step[u].tries
      BY <1>10 DEF DshInv, ContextInv, p
    <2>2. None # step[u].tries
      BY <2>1 DEF None, Turns
    <2> QED
      BY <1>6, <2>1, <2>2
  <1>11. ASSUME NEW i \in DOMAIN offered'
         PROVE  /\ offered'[i][1] <= now.turn /\ offered'[i][2] <= generation
                /\ offered'[i] = <<now.turn, generation>> => context.attempt = offered'[i]
    <2>1. CASE i = n
      BY <1>3, <1>6, <2>1
    <2>2. CASE i \in DOMAIN offered
      BY <1>1, <1>6, <2>2 DEF DshInv, ContextInv
    <2> QED
      BY <1>6, <2>1, <2>2
  <1>12. ContextInv'
    BY <1>1, <1>5, <1>10, <1>11 DEF ContextInv
  <1> QED
    BY <1>7, <1>8, <1>9, <1>12 DEF DshInv

LEMMA DshStarts == DshInit => DshInv
  <1> SUFFICES ASSUME DshInit PROVE DshInv
    OBVIOUS
  <1>1. None \in Attempts /\ 0 \in 0..MaxTurn
    BY DshAssumption DEF None, Attempts
  <1>2. DshTypeOK
    <2> DEFINE r == [pc |-> "none", off |-> FALSE, told |-> FALSE, tries |-> None]
    <2>1. r \in [pc : {"none", "waiting", "ensuring", "sent", "collect", "loading", "done"},
                 off : BOOLEAN, told : BOOLEAN, tries : Attempts]
      BY <1>1
    <2>2. step = [t \in Turns |-> r]
      BY DEF DshInit
    <2> HIDE DEF r
    <2>3. step \in [Turns -> [pc : {"none", "waiting", "ensuring", "sent", "collect", "loading", "done"},
                              off : BOOLEAN, told : BOOLEAN, tries : Attempts]]
      BY <2>1, <2>2
    <2>4. /\ now \in [turn : 0..MaxTurn, on : BOOLEAN]
          /\ local \in [Turns -> {"none", "open", "closed", "invalid"}]
          /\ context \in [attempt : Attempts, pending : Attempts, seen : BOOLEAN, applied : Nat]
      BY <1>1 DEF DshInit
    <2>5. /\ deferred \in Seq(Turns) /\ tail \in Seq(Jobs) /\ received \in Seq(Messages)
          /\ offered \in Seq(Turns \X Nat) /\ spoiled \subseteq Turns
      BY DEF DshInit
    <2> QED
      BY <2>3, <2>4, <2>5 DEF DshInit, DshTypeOK
  <1>3. \A t \in Turns : step[t].pc = "none" /\ ~step[t].off
    BY DEF DshInit
  <1>4. tail = <<>> /\ deferred = <<>> /\ received = <<>> /\ spoiled = {} /\ offered = <<>>
        /\ ~now.on /\ recovery \in {"none", "due"} /\ context.pending = None
    BY DEF DshInit
  <1>5. ChainInv /\ WrittenInv /\ RecoveryInv /\ SpoiledInv /\ ToldInOrder
    BY <1>3, <1>4 DEF ChainInv, WrittenInv, RecoveryInv, SpoiledInv, ToldInOrder
  <1>6. StepInv
    BY <1>3, <1>4 DEF StepInv
  <1>7. ContextInv /\ ContextOnce
    BY <1>3, <1>4 DEF ContextInv, ContextOnce, IsInjective
  <1> QED
    BY <1>2, <1>5, <1>6, <1>7 DEF DshInv

LEMMA DshStutters == ASSUME DshInv, UNCHANGED dshVars PROVE DshInv'
  <1>1. ContextInv' /\ ContextOnce'
    BY ContextRests DEF dshVars
  <1>2. DshTypeOK'
    BY DEF dshVars, DshInv, DshTypeOK
  <1> QED
    BY <1>1, <1>2 DEF dshVars, DshInv, ChainInv, WrittenInv, RecoveryInv, StepInv, SpoiledInv,
                      ToldInOrder, Contains, Past

LEMMA DshSteps == DshInv /\ [DshNext]_dshVars => DshInv'
  <1> SUFFICES ASSUME DshInv, [DshNext]_dshVars PROVE DshInv'
    OBVIOUS
  <1>1. CASE \/ RecoverResumedTurn \/ Microtask \/ Capture \/ SendWriteback \/ WritebackAnswered
    BY <1>1, RecoverResumedKeeps, MicrotaskKeeps, CaptureKeeps, SendWritebackKeeps, WritebackAnsweredKeeps
  <1>2. CASE TurnStart \/ RepeatedStart \/ TurnEnd
    BY <1>2, TurnStartKeeps, RepeatedStartKeeps, TurnEndKeeps
  <1>3. CASE \/ DirectoryChange \/ SessionDisposed \/ Compaction \/ AuthorityChange
             \/ DisposeBegins \/ DisposeEnds
    BY <1>3, DshMovesKeeps
  <1>4. ASSUME NEW t \in Turns,
               \/ PreStep(t) \/ AwaitRecovery(t) \/ SendStart(t) \/ StartAnswered(t) \/ NextStep(t)
        PROVE  DshInv'
    BY <1>4, ToldStepsKeep
  <1>5. ASSUME NEW t \in Turns, Collect(t) \/ Loaded(t) PROVE DshInv'
    BY <1>5, CollectKeeps, LoadedKeeps
  <1>6. CASE UNCHANGED dshVars
    BY <1>6, DshStutters
  <1> QED
    BY <1>1, <1>2, <1>3, <1>4, <1>5, <1>6, AcceptedKeeps DEF DshNext

\* DshInv holds of every state that the plugin reaches, whenever DSH ends a turn, moves or
\* drops the session, compacts it, or unloads the plugin between two awaits.
THEOREM DshInvariant == DshSpec => []DshInv
  <1> QED
    BY DshStarts, DshSteps, PTL DEF DshSpec

\* The writebacks of a session reach the Backend in the order of its turns, each once, the
\* recovered one before any other message; a turn reported twice, or that went on when the
\* session moved to another directory, is not written.
THEOREM ToldInTheirOrder == DshSpec => []ToldInOrder
  <1>1. DshInv => ToldInOrder
    BY DEF DshInv
  <1> QED
    BY <1>1, DshInvariant, PTL

\* At most one context message of a turn and a compaction is accepted, and one that is
\* pending belongs to the turn DSH is in.
THEOREM ContextIsAcceptedOnce == DshSpec => []ContextOnce
  <1>1. DshInv => ContextOnce
    BY DEF DshInv
  <1> QED
    BY <1>1, DshInvariant, PTL

\* No action but the sending of a writeback and of a start changes what was received.
LEMMA OnlySendingIsReceived ==
  ASSUME [DshNext]_dshVars
  PROVE  \/ received' = received
         \/ phase # "disposed" /\ received' = Append(received, Write(Head(tail).turn))
         \/ \E t \in Turns : phase = "accepting" /\ received' = Append(received, Start(t))
  <1>1. CASE DshNext
    BY <1>1 DEF DshNext, RecoverResumedTurn, Microtask, Capture, SendWriteback, WritebackAnswered,
       TurnStart, RepeatedStart, TurnEnd, DirectoryChange, SessionDisposed, Compaction,
       AuthorityChange, DisposeBegins, DisposeEnds, Accepted, PreStep, AwaitRecovery, SendStart,
       StartAnswered, Collect, Loaded, NextStep, Steps
  <1>2. CASE UNCHANGED dshVars
    BY <1>2 DEF dshVars
  <1> QED
    BY <1>1, <1>2

\* Nothing reaches the Backend after the plugin has been disposed of, and no turn is told
\* that began to be unloaded.
THEOREM SilentOnceDisposed == DshSpec => SilentWhenDisposed
  <1> DEFINE A == /\ phase = "disposed" => received' = received
                  /\ phase # "accepting" => \A t \in Turns :
                       Contains(received', Start(t)) => Contains(received, Start(t))
  <1>1. ASSUME DshInv, [DshNext]_dshVars PROVE A
    <2>1. CASE received' = received
      BY <2>1 DEF Contains
    <2>2. CASE phase # "disposed" /\ received' = Append(received, Write(Head(tail).turn))
      <3>1. received \in Seq(Messages) /\ \A t \in Turns : Write(Head(tail).turn) # Start(t)
        BY <1>1, DshParts DEF Write, Start
      <3> DEFINE w == Write(Head(tail).turn)
      <3>2. \A t \in Turns : Contains(Append(received, w), Start(t)) => Contains(received, Start(t))
        <4>1. \A t \in Turns : w # Start(t)
          BY <3>1
        <4> HIDE DEF w
        <4>2. \A i \in 1..Len(Append(received, w)) :
                \/ i = Len(received) + 1 /\ Append(received, w)[i] = w
                \/ i \in 1..Len(received) /\ Append(received, w)[i] = received[i]
          BY <3>1
        <4> QED
          BY <4>1, <4>2 DEF Contains
      <3> QED
        BY <2>2, <3>2
    <2>3. CASE \E t \in Turns : phase = "accepting" /\ received' = Append(received, Start(t))
      BY <2>3
    <2> QED
      BY <1>1, <2>1, <2>2, <2>3, OnlySendingIsReceived
  <1> QED
    BY <1>1, DshInvariant, PTL DEF SilentWhenDisposed, DshSpec

-----------------------------------------------------------------------------
(***************************************************************************)
(* The calls that start and stop the Backend.                              *)
(***************************************************************************)
USE ServiceAssumption DEF Target, world, history, Nobody, Stranger, Backend, Zombie,
  Pcs, Kinds, Phases

-----------------------------------------------------------------------------
(* Records and parts of calls.                                             *)

LEMMA DoingType ==
  ASSUME NEW pc \in Pcs, NEW target \in Target \cup {Nil}, NEW exited \in BOOLEAN,
         NEW health \in {"none", "matched", "conflicting", "inconclusive"}
  PROVE  Doing(pc, target, exited, health) \in Command
BY DEF Doing, Command

LEMMA ReturnedType ==
  ASSUME NEW target \in Target \cup {Nil},
         NEW result \in {"none", "started", "stopped", "failed"}
  PROVE  Returned(target, result) \in Command
BY DEF Returned, Command

LEMMA CommandType ==
  ASSUME TypeOK
  PROVE  /\ command.pc \in Pcs /\ command.target \in Target \cup {Nil}
         /\ command.exited \in BOOLEAN
         /\ command.health \in {"none", "matched", "conflicting", "inconclusive"}
BY DEF TypeOK, Command

\* A call that only moves on or returns, everything but its own place
\* unchanged, keeps what does not depend on that place.
LEMMA GotoType ==
  ASSUME ServiceInv, NEW pc \in Pcs, Goto(pc) PROVE command' \in Command
BY CommandType, DoingType DEF Goto, ServiceInv

LEMMA EndType ==
  ASSUME ServiceInv, NEW result \in {"started", "failed"}, End(result)
  PROVE  command' \in Command
BY CommandType, ReturnedType DEF End, ServiceInv

\* removeBackendServiceStateIfOwnedAtPath removes no record but the given one.
LEMMA ClearRecordKeeps ==
  ASSUME NEW t, NEW ok \in BOOLEAN, TypeOK, ClearRecord(t, ok)
  PROVE  /\ record' \in Target \cup {Nil}
         /\ record' = record \/ (record' = Nil /\ record = t)
         /\ ok => record' = Nil
BY DEF ClearRecord, TypeOK

\* A dead process leaves nothing to be lost with its record.
LEMMA StopDoneInv ==
  ASSUME ServiceInv, NEW t \in Target, Known(t), record = t,
         ~isProcessAlive(t.pid), command.pc \notin {"spawned", "failingBare"},
         StopDone(t)
  PROVE  ServiceInv'
<1>1. PICK result \in {"stopped", "failed"} :
        ClearRecord(t, result = "stopped") /\ command' = Returned(t, result)
  BY DEF StopDone
<1>2. record' \in {record, Nil}
  BY <1>1, ClearRecordKeeps DEF ServiceInv
<1>3. TypeOK'
  <2>1. command' \in Command BY <1>1, ReturnedType
  <2> QED BY <1>2, <2>1 DEF StopDone, ServiceInv, TypeOK
<1>4. PlacesMakeSense' BY <1>1 DEF PlacesMakeSense, Returned
<1>5. ChildKeepsItsPid' BY <1>1 DEF ChildKeepsItsPid, Returned
<1>6. OnePidEach'
  BY <1>1, <1>2 DEF StopDone, OnePidEach, Known, Returned, ServiceInv, TypeOK
<1>7. NoLostBackend'
  BY <1>1 DEF StopDone, NoLostBackend, isProcessAlive, ServiceInv, TypeOK
<1>9. ListenerRuns' BY DEF StopDone, ListenerRuns, ServiceInv
<1>20. LearntIsTrue' BY <1>1 DEF Returned, LearntIsTrue
<1>8. OnlyTheMeantIsStopped' BY DEF StopDone, OnlyTheMeantIsStopped, ServiceInv
<1> QED BY <1>3, <1>4, <1>5, <1>6, <1>7, <1>8, <1>9, <1>20 DEF ServiceInv

\* A new Backend gets a PID nobody has and an instance nobody had.
LEMMA SpawnInv ==
  ASSUME ServiceInv, Spawn, record' = Nil,
         command.pc \notin {"spawned", "failingBare"},
         \A p \in Pids : process[p].kind = "backend" =>
           record # [pid |-> p, id |-> process[p].id]
  PROVE  ServiceInv'
<1>1. CASE End("failed") /\ UNCHANGED <<process, used>>
  <2>1. TypeOK' BY <1>1, EndType DEF Spawn, ServiceInv, TypeOK
  <2>2. PlacesMakeSense' BY <1>1 DEF End, Returned, PlacesMakeSense
  <2>3. ChildKeepsItsPid' BY <1>1 DEF End, Returned, ChildKeepsItsPid
  <2>4. OnePidEach'
    BY <1>1 DEF Spawn, End, Returned, OnePidEach, Known, ServiceInv
  <2>5. NoLostBackend'
    BY <1>1 DEF Spawn, NoLostBackend, ServiceInv
  <2>7. ListenerRuns' BY <1>1 DEF Spawn, ListenerRuns, ServiceInv
  <2>20. LearntIsTrue' BY <1>1 DEF End, Returned, LearntIsTrue
  <2>6. OnlyTheMeantIsStopped'
    BY DEF Spawn, OnlyTheMeantIsStopped, ServiceInv
  <2> QED BY <2>1, <2>2, <2>3, <2>4, <2>5, <2>6, <2>7, <2>20 DEF ServiceInv
<1>2. CASE \E p \in Pids, i \in Instances \ used :
             /\ process[p] = Nobody
             /\ process' = [process EXCEPT ![p] = Backend(i, "starting")]
             /\ command' = Begun("spawned", [pid |-> p, id |-> i])
             /\ used' = used \cup {i}
  <2> PICK p \in Pids, i \in Instances \ used :
             /\ process[p] = Nobody
             /\ process' = [process EXCEPT ![p] = Backend(i, "starting")]
             /\ command' = Begun("spawned", [pid |-> p, id |-> i])
             /\ used' = used \cup {i}
    BY <1>2
  <2>0. /\ command'.pc = "spawned" /\ command'.target = [pid |-> p, id |-> i]
        /\ command'.exited = FALSE /\ command'.result = "none"
    BY DEF Begun, Doing
  <2>1. TypeOK'
    <3>1. command' \in Command BY DoingType DEF Begun
    <3> QED BY <3>1 DEF Spawn, ServiceInv, TypeOK
  <2>2. PlacesMakeSense' BY <2>0 DEF PlacesMakeSense
  <2>3. ChildKeepsItsPid' BY <2>0 DEF ChildKeepsItsPid, ServiceInv, TypeOK
  <2>4. OnePidEach'
    BY <2>0 DEF Spawn, OnePidEach, Known, ServiceInv, TypeOK
  <2>5. NoLostBackend'
    BY <2>0 DEF Spawn, NoLostBackend, ServiceInv, TypeOK
  <2>7. ListenerRuns' BY DEF Spawn, ListenerRuns, ServiceInv, TypeOK
  <2>20. LearntIsTrue' BY DEF LearntIsTrue, Begun, Doing
  <2>6. OnlyTheMeantIsStopped'
    BY DEF Spawn, OnlyTheMeantIsStopped, ServiceInv
  <2> QED BY <2>1, <2>2, <2>3, <2>4, <2>5, <2>6, <2>7, <2>20 DEF ServiceInv
<1> QED BY <1>1, <1>2 DEF Spawn

LEMMA ReplaceInv ==
  ASSUME ServiceInv, NEW t \in Target, record = t, ~isProcessAlive(t.pid),
         command.pc \notin {"spawned", "failingBare"}, Replace(t)
  PROVE  ServiceInv'
<1>0. \A p \in Pids : process[p].kind = "backend" =>
        record # [pid |-> p, id |-> process[p].id]
  BY DEF isProcessAlive
<1>1. CASE ClearRecord(t, TRUE) /\ Spawn
  BY <1>0, <1>1, SpawnInv, ClearRecordKeeps DEF ServiceInv
<1>2. CASE /\ ClearRecord(t, FALSE) /\ End("failed")
           /\ UNCHANGED <<windows, world, request, used, history>>
  <2>0. record' = record BY <1>2 DEF ClearRecord
  <2>1. TypeOK' BY <1>2, <2>0, EndType DEF ServiceInv, TypeOK
  <2>2. PlacesMakeSense' BY <1>2 DEF End, Returned, PlacesMakeSense
  <2>3. ChildKeepsItsPid' BY <1>2 DEF End, Returned, ChildKeepsItsPid
  <2>4. OnePidEach'
    BY <1>2, <2>0 DEF End, Returned, OnePidEach, Known, ServiceInv
  <2>5. NoLostBackend'
    BY <1>2, <2>0 DEF NoLostBackend, ServiceInv
  <2>7. ListenerRuns' BY <1>2 DEF ListenerRuns, ServiceInv
  <2>20. LearntIsTrue' BY <1>2 DEF End, Returned, LearntIsTrue
  <2>6. OnlyTheMeantIsStopped'
    BY <1>2 DEF OnlyTheMeantIsStopped, ServiceInv
  <2> QED BY <2>1, <2>2, <2>3, <2>4, <2>5, <2>6, <2>7, <2>20 DEF ServiceInv
<1> QED BY <1>1, <1>2 DEF Replace

\* A termination aimed at a PID that is still its instance's own touches
\* nothing else, and takes no running Backend's place.
LEMMA TerminateKeeps ==
  ASSUME ServiceInv, NEW t \in Target, NEW sent \in BOOLEAN, Terminate(t, sent),
         process[t.pid].kind \in {"backend", "zombie"}, process[t.pid].id = t.id
  PROVE  /\ process' \in [Pids -> [kind : Kinds, id : Instances \cup {Nil}, phase : Phases]]
         /\ port' \in Pids \cup {Nil}
         /\ signals' \subseteq signals \cup {<<t.id, t.id>>}
         /\ ListenerRuns /\ UNCHANGED served => ListenerRuns'
         /\ \A q \in Pids : q # t.pid => process'[q] = process[q]
         /\ \/ /\ process'[t.pid].kind \in {"backend", "zombie"}
               /\ process'[t.pid].id = t.id
               /\ process'[t.pid].kind = "backend" => process[t.pid].kind = "backend"
            \/ process'[t.pid] = Nobody /\ command.target.id # t.id
            \/ /\ process'[t.pid] = Nobody
               /\ command.pc \notin {"spawned", "waiting", "answered", "failing",
                                     "failingBare"}
BY DEF Terminate, Strike, Gone, isProcessAlive, ServiceInv, TypeOK, ListenerRuns

\* A call that gives up its child: the child's PID is still its own.
LEMMA GiveUpInv ==
  ASSUME ServiceInv, UNCHANGED record,
         command.pc \in {"spawned", "waiting", "answered"}, ~command.exited,
         NEW next \in {"failing", "failingBare"},
         next = "failingBare" <=> command.pc = "spawned",
         GiveUp(next)
  PROVE  ServiceInv'
<1> DEFINE t == command.target
<1>0. /\ t \in Target /\ t.pid \in Pids /\ t.id \in Instances
      /\ process[t.pid].kind \in {"backend", "zombie"} /\ process[t.pid].id = t.id
  BY CommandType DEF ServiceInv, PlacesMakeSense, ChildKeepsItsPid
<1>1. PICK sent \in BOOLEAN :
        /\ Terminate(t, sent)
        /\ IF sent THEN Goto(next) ELSE End("failed")
        /\ abandoned' = IF ~sent /\ next = "failingBare"
                        THEN abandoned \cup {t.id} ELSE abandoned
  BY DEF GiveUp
<1>2. /\ process' \in [Pids -> [kind : Kinds, id : Instances \cup {Nil}, phase : Phases]]
      /\ port' \in Pids \cup {Nil}
      /\ signals' \subseteq signals \cup {<<t.id, t.id>>}
      /\ \A q \in Pids : q # t.pid => process'[q] = process[q]
      /\ process'[t.pid].kind \in {"backend", "zombie"}
      /\ process'[t.pid].id = t.id
      /\ process'[t.pid].kind = "backend" => process[t.pid].kind = "backend"
  BY <1>0, <1>1, TerminateKeeps
<1>3. /\ command' \in Command
      /\ command'.target = t
      /\ command'.result \in {"none", "failed"}
      /\ command'.pc = IF sent THEN next ELSE "idle"
      /\ sent => command'.result = "none"
  BY <1>1, GotoType, EndType DEF Goto, End, Doing, Returned
<1>4. UNCHANGED <<windows, request, used, served>> BY DEF GiveUp
<1>5. Known(t) /\ t.id \in used BY <1>0 DEF ServiceInv, OnePidEach, Known
<1>6. TypeOK'
  BY <1>0, <1>1, <1>2, <1>3, <1>4, <1>5 DEF ServiceInv, TypeOK
<1>7. PlacesMakeSense'
  BY <1>0, <1>3 DEF ServiceInv, PlacesMakeSense
<1>8. ChildKeepsItsPid'
  BY <1>3 DEF ChildKeepsItsPid
<1>9. OnePidEach'
  <2>1. \A p \in Pids : process'[p].id = process[p].id /\ (process'[p].kind = process[p].kind \/ p = t.pid)
    BY <1>0, <1>2
  <2>2. \A p \in Pids :
          process'[p].id \in IF process'[p].kind \in {"zombie", "backend"}
                             THEN used ELSE {Nil}
    BY <1>0, <1>2, <1>5, <2>1 DEF ServiceInv, OnePidEach
  <2> QED BY <1>3, <1>4, <2>1, <2>2 DEF ServiceInv, OnePidEach, Known
<1>10. NoLostBackend'
  BY <1>0, <1>1, <1>2, <1>3, <1>4 DEF ServiceInv, NoLostBackend, PlacesMakeSense
<1>12. ListenerRuns' BY <1>0, <1>1, <1>4, TerminateKeeps DEF ServiceInv
<1>20. LearntIsTrue' BY <1>0, <1>1, <1>3, <1>4 DEF ServiceInv, LearntIsTrue, Goto, End, Doing, Returned
<1>11. OnlyTheMeantIsStopped'
  BY <1>0, <1>2 DEF ServiceInv, OnlyTheMeantIsStopped
<1> QED BY <1>6, <1>7, <1>8, <1>9, <1>10, <1>11, <1>12, <1>20
        DEF ServiceInv

\* The exit of the child is known: its PID carries it no more.
LEMMA WithdrawInv ==
  ASSUME ServiceInv, Withdraw,
         command.pc \in {"waiting", "answered", "failing"},
         \A p \in Pids : process[p].kind = "backend" =>
           command.target # [pid |-> p, id |-> process[p].id]
  PROVE  ServiceInv'
<1>1. record' \in {record, Nil} /\ (record' # record => record = command.target)
  BY ClearRecordKeeps DEF Withdraw, ServiceInv
<1>2. TypeOK' BY <1>1, EndType DEF Withdraw, ServiceInv, TypeOK
<1>3. PlacesMakeSense' BY DEF Withdraw, End, Returned, PlacesMakeSense
<1>4. ChildKeepsItsPid' BY DEF Withdraw, End, Returned, ChildKeepsItsPid
<1>5. OnePidEach'
  BY <1>1 DEF Withdraw, End, Returned, OnePidEach, Known, ServiceInv
<1>6. NoLostBackend' BY <1>1 DEF Withdraw, NoLostBackend, ServiceInv
<1>8. ListenerRuns' BY DEF Withdraw, ListenerRuns, ServiceInv
<1>20. LearntIsTrue' BY DEF Withdraw, End, Returned, LearntIsTrue
<1>7. OnlyTheMeantIsStopped' BY DEF Withdraw, OnlyTheMeantIsStopped, ServiceInv
<1> QED BY <1>2, <1>3, <1>4, <1>5, <1>6, <1>7, <1>8, <1>20 DEF ServiceInv

\* A call that only moves on among places with a record, or returns.
LEMMA MoveInv ==
  ASSUME ServiceInv, UNCHANGED <<windows, process, port, record, used, history>>,
         request' \in {request, Nil}, UNCHANGED served,
         command' \in Command, command'.target \in {command.target, record},
         command'.pc # "idle" =>
           /\ record # Nil /\ command'.target = record /\ command'.result = "none"
           /\ command'.pc \in {"stopHealth", "stopProbe", "asked", "stopping",
                               "startHealth", "startProbe"},
         command.pc \notin {"spawned", "failingBare"},
         command'.exited => command.exited /\ command'.target = command.target,
         command'.health = "matched" =>
           command'.target # Nil /\ command'.target.id \in served
  PROVE  ServiceInv'
<1>1. TypeOK' BY DEF ServiceInv, TypeOK
<1>2. PlacesMakeSense' BY DEF PlacesMakeSense
<1>3. ChildKeepsItsPid' BY DEF ChildKeepsItsPid
<1>4. OnePidEach' BY DEF OnePidEach, Known, ServiceInv
<1>5. NoLostBackend' BY DEF NoLostBackend, ServiceInv
<1>7. ListenerRuns' BY DEF ListenerRuns, ServiceInv
<1>20. LearntIsTrue' BY DEF ServiceInv, LearntIsTrue
<1>6. OnlyTheMeantIsStopped' BY DEF OnlyTheMeantIsStopped, ServiceInv
<1> QED BY <1>1, <1>2, <1>3, <1>4, <1>5, <1>6, <1>7, <1>20 DEF ServiceInv

-----------------------------------------------------------------------------
(* The processes around a command.                                         *)

LEMMA StrangerStartsInv ==
  ASSUME ServiceInv, NEW p \in Pids, StrangerStarts(p) PROVE ServiceInv'
BY DEF StrangerStarts, ServiceInv, TypeOK, PlacesMakeSense, ChildKeepsItsPid,
  OnePidEach, Known, LearntIsTrue, ListenerRuns, NoLostBackend, OnlyTheMeantIsStopped

LEMMA StrangerEndsInv ==
  ASSUME ServiceInv, NEW p \in Pids, StrangerEnds(p) PROVE ServiceInv'
BY DEF StrangerEnds, ExitOf, Gone, ServiceInv, TypeOK, PlacesMakeSense, ChildKeepsItsPid,
  OnePidEach, Known, LearntIsTrue, ListenerRuns, NoLostBackend, OnlyTheMeantIsStopped

\* A PID that is freed leaves the others and their instances as they are.
LEMMA FreedPid ==
  ASSUME ServiceInv, NEW p \in Pids, process'[p] = Nobody,
         \A q \in Pids : q # p => process'[q] = process[q],
         UNCHANGED <<record, request, used>>, command'.target = command.target
  PROVE  OnePidEach'
<1>1. /\ process'[p].kind = "none" /\ process'[p].id = Nil
      /\ record # Nil => record.id # Nil
      /\ request # Nil => request.id # Nil
      /\ command.target # Nil => command.target.id # Nil
  BY CommandType DEF ServiceInv, TypeOK
<1>2. \A q \in Pids :
        process'[q].id \in IF process'[q].kind \in {"zombie", "backend"}
                           THEN used ELSE {Nil}
  BY <1>1 DEF ServiceInv, OnePidEach
<1>3. \A q \in Pids : process'[q].id = process[q].id \/ process'[q].id = Nil
  BY <1>1
<1>4. \A q, r \in Pids : process'[q].id = process'[r].id /\ process'[q].id # Nil => q = r
  BY <1>3 DEF ServiceInv, OnePidEach
<1>5. Known(record)' /\ Known(request)' /\ Known(command.target)'
  BY <1>1, <1>3 DEF ServiceInv, OnePidEach, Known
<1> QED BY <1>2, <1>4, <1>5 DEF OnePidEach

\* A Backend that ends leaves a zombie to the call that spawned it.
LEMMA ExitInv ==
  ASSUME ServiceInv, NEW p \in Pids, process[p].kind = "backend", ExitOf(p),
         request' \in {request, Nil},
         UNCHANGED <<windows, record, command, used, served, history>>
  PROVE  ServiceInv'
BY DEF ExitOf, Gone, ServiceInv, TypeOK, PlacesMakeSense, ChildKeepsItsPid,
  OnePidEach, Known, LearntIsTrue, ListenerRuns, NoLostBackend, OnlyTheMeantIsStopped

LEMMA ListenInv ==
  ASSUME ServiceInv, NEW p \in Pids, Listen(p) PROVE ServiceInv'
<1>1. CASE port = Nil
  <2>1. /\ process[p].kind = "backend" /\ process[p].id \in used
        /\ process[p].id \in Instances
    BY DEF Listen, ServiceInv, OnePidEach, TypeOK
  <2>2. /\ process' \in [Pids -> [kind : Kinds, id : Instances \cup {Nil}, phase : Phases]]
        /\ \A q \in Pids : process'[q].kind = process[q].kind
                            /\ process'[q].id = process[q].id
    BY <1>1, <2>1 DEF Listen, ServiceInv, TypeOK
  <2>3. /\ port' = p /\ served' = served \cup {process[p].id}
        /\ UNCHANGED <<windows, record, request, command, used, history>>
    BY <1>1 DEF Listen
  <2>4. TypeOK' BY <2>1, <2>2, <2>3 DEF ServiceInv, TypeOK
  <2>5. PlacesMakeSense' BY <2>3 DEF ServiceInv, PlacesMakeSense
  <2>6. ChildKeepsItsPid'
    BY <2>2, <2>3, CommandType DEF ServiceInv, ChildKeepsItsPid, PlacesMakeSense
  <2>7. OnePidEach' BY <2>2, <2>3 DEF ServiceInv, OnePidEach, Known
  <2>8. ListenerRuns' BY <2>1, <2>2, <2>3 DEF ListenerRuns
  <2>9. NoLostBackend' BY <2>2, <2>3 DEF ServiceInv, NoLostBackend
  <2>20. LearntIsTrue' BY <2>2, <2>3 DEF ServiceInv, LearntIsTrue
  <2>10. OnlyTheMeantIsStopped' BY <2>3 DEF ServiceInv, OnlyTheMeantIsStopped
  <2> QED BY <2>4, <2>5, <2>6, <2>7, <2>8, <2>9, <2>10, <2>20 DEF ServiceInv
<1>2. CASE port # Nil
  BY <1>2, ExitInv DEF Listen
<1> QED BY <1>1, <1>2

LEMMA HangInv ==
  ASSUME ServiceInv, NEW p \in Pids, Hang(p) PROVE ServiceInv'
BY DEF Hang, ServiceInv, TypeOK, PlacesMakeSense, ChildKeepsItsPid,
  OnePidEach, Known, LearntIsTrue, ListenerRuns, NoLostBackend, OnlyTheMeantIsStopped

LEMMA BackendExitsInv ==
  ASSUME ServiceInv, NEW p \in Pids, BackendExits(p) PROVE ServiceInv'
BY ExitInv DEF BackendExits

LEMMA TakeRequestInv ==
  ASSUME ServiceInv, NEW p \in Pids, TakeRequest(p) PROVE ServiceInv'
BY DEF TakeRequest, ServiceInv, TypeOK, PlacesMakeSense, ChildKeepsItsPid,
  OnePidEach, Known, LearntIsTrue, ListenerRuns, NoLostBackend, OnlyTheMeantIsStopped

LEMMA InitReapsInv ==
  ASSUME ServiceInv, NEW p \in Pids, InitReaps(p) PROVE ServiceInv'
<1>1. /\ process' \in [Pids -> [kind : Kinds, id : Instances \cup {Nil}, phase : Phases]]
      /\ process'[p] = Nobody /\ \A q \in Pids : q # p => process'[q] = process[q]
  BY DEF InitReaps, ServiceInv, TypeOK
<1>2. /\ process[p].kind = "zombie"
      /\ command.pc = "idle" \/ command.target # [pid |-> p, id |-> process[p].id]
      /\ UNCHANGED <<windows, port, record, request, command, used, served, history>>
  BY DEF InitReaps
<1>3. TypeOK' BY <1>1, <1>2 DEF ServiceInv, TypeOK
<1>4. PlacesMakeSense' BY <1>2 DEF ServiceInv, PlacesMakeSense
<1>5. ChildKeepsItsPid'
  BY <1>1, <1>2, CommandType DEF ServiceInv, ChildKeepsItsPid, PlacesMakeSense
<1>6. OnePidEach' BY <1>1, <1>2, FreedPid
<1>7. ListenerRuns' BY <1>1, <1>2 DEF ServiceInv, TypeOK, ListenerRuns
<1>8. NoLostBackend' BY <1>1, <1>2 DEF ServiceInv, NoLostBackend
<1>20. LearntIsTrue' BY <1>1, <1>2, CommandType DEF ServiceInv, LearntIsTrue
<1>9. OnlyTheMeantIsStopped' BY <1>2 DEF ServiceInv, OnlyTheMeantIsStopped
<1> QED BY <1>3, <1>4, <1>5, <1>6, <1>7, <1>8, <1>9, <1>20 DEF ServiceInv

LEMMA ReapInv == ASSUME ServiceInv, Reap PROVE ServiceInv'
<1>1. command' = Doing(command.pc, command.target, TRUE, command.health)
  BY DEF Reap
<1>2. command' \in Command BY <1>1, CommandType, DoingType DEF ServiceInv
<1>3. /\ command'.pc = command.pc /\ command'.target = command.target
      /\ command'.exited = TRUE /\ command'.result = "none"
      /\ command'.health = command.health
  BY <1>1 DEF Doing
<1>4. PICK p \in Pids : /\ process[p] = Zombie(command.target.id)
                        /\ process' = [process EXCEPT ![p] = Nobody]
  BY DEF Reap
<1>5. /\ command.pc # "idle" /\ command.pc # "spawned"
      /\ UNCHANGED <<windows, port, record, request, used, served, history>>
  BY DEF Reap
<1>6. /\ process' \in [Pids -> [kind : Kinds, id : Instances \cup {Nil}, phase : Phases]]
      /\ process'[p] = Nobody /\ \A q \in Pids : q # p => process'[q] = process[q]
  BY <1>4 DEF ServiceInv, TypeOK
<1>7. TypeOK' BY <1>2, <1>5, <1>6 DEF ServiceInv, TypeOK
<1>8. PlacesMakeSense' BY <1>3, <1>5 DEF ServiceInv, PlacesMakeSense
<1>9. ChildKeepsItsPid' BY <1>3 DEF ChildKeepsItsPid
<1>10. OnePidEach'
  BY <1>3, <1>5, <1>6, FreedPid
<1>11. ListenerRuns' BY <1>4, <1>5, <1>6 DEF ServiceInv, TypeOK, ListenerRuns
<1>12. NoLostBackend' BY <1>3, <1>5, <1>6 DEF ServiceInv, NoLostBackend
<1>20. LearntIsTrue' BY <1>3, <1>4, <1>5, <1>6, CommandType DEF ServiceInv, PlacesMakeSense, OnePidEach, LearntIsTrue
<1>13. OnlyTheMeantIsStopped' BY <1>5 DEF ServiceInv, OnlyTheMeantIsStopped
<1> QED BY <1>7, <1>8, <1>9, <1>10, <1>11, <1>12, <1>13, <1>20 DEF ServiceInv

LEMMA KilledInv ==
  ASSUME ServiceInv, Killed PROVE ServiceInv'
<1>1. command' \in Command BY ReturnedType DEF Killed, Idle
<1>2. command'.pc = "idle" /\ command'.target = Nil
  BY DEF Killed, Idle, Returned
<1>3. command.pc \in {"spawned", "failingBare"} => command.target.id \in used
  BY CommandType DEF ServiceInv, PlacesMakeSense, OnePidEach, Known
<1>4. command.pc \in {"spawned", "failingBare"} => command.target.id \in abandoned'
  BY DEF Killed
<1>5. TypeOK' BY <1>1, <1>2, <1>3, <1>4 DEF Killed, At, ServiceInv, TypeOK, PlacesMakeSense
<1>6. PlacesMakeSense' BY <1>1, <1>2, <1>3, <1>4 DEF Killed, At, ServiceInv, PlacesMakeSense, TypeOK, OnePidEach
<1>7. ChildKeepsItsPid' BY <1>1, <1>2, <1>3, <1>4 DEF Killed, At, ServiceInv, ChildKeepsItsPid, TypeOK, OnePidEach, PlacesMakeSense
<1>8. OnePidEach' BY <1>1, <1>2, <1>3, <1>4 DEF Killed, At, ServiceInv, OnePidEach, Known, TypeOK, PlacesMakeSense
<1>9. ListenerRuns' BY <1>1, <1>2, <1>3, <1>4 DEF Killed, At, ServiceInv, ListenerRuns, TypeOK, OnePidEach, PlacesMakeSense
<1>10. NoLostBackend' BY <1>1, <1>2, <1>3, <1>4 DEF Killed, At, ServiceInv, NoLostBackend, TypeOK, OnePidEach, PlacesMakeSense
<1>20. LearntIsTrue' BY DEF Killed, Idle, Returned, LearntIsTrue
<1>11. OnlyTheMeantIsStopped' BY <1>1, <1>2, <1>3, <1>4 DEF Killed, At, ServiceInv, OnlyTheMeantIsStopped, TypeOK, PlacesMakeSense
<1> QED BY <1>5, <1>6, <1>7, <1>8, <1>9, <1>10, <1>11, <1>20 DEF ServiceInv

-----------------------------------------------------------------------------
(* The calls.                                                              *)

\* Away from a spawn, a call under way is about the record.
LEMMA TargetOnRecord ==
  ASSUME ServiceInv, command.pc \notin {"idle", "spawned", "failingBare"}
  PROVE  command.target \in Target /\ record = command.target /\ Known(command.target)
BY CommandType DEF ServiceInv, PlacesMakeSense, OnePidEach

LEMMA StopCallInv == ASSUME ServiceInv, StopCall PROVE ServiceInv'
<1>1. record \in Target /\ Known(record)
  BY DEF StopCall, ServiceInv, TypeOK, OnePidEach
<1>2. CASE ~isProcessAlive(record.pid)
  BY <1>1, <1>2, StopDoneInv DEF StopCall, At
<1>3. CASE isProcessAlive(record.pid)
  <2>1. PICK pc \in {"asked", "stopHealth"} : command' = Doing(pc, record, FALSE, "none")
    BY <1>3 DEF StopCall, Begun
  <2>2. command' \in Command BY <1>1, <2>1, DoingType
  <2>3. /\ command'.pc = pc /\ command'.target = record
        /\ command'.result = "none" /\ command'.exited = FALSE /\ command'.health = "none"
    BY <2>1 DEF Doing
  <2>4. request' \in {request, Nil, record}
    BY <1>3 DEF StopCall
  <2> QED
    BY <1>1, <1>3, <2>2, <2>3, <2>4 DEF StopCall, At, ServiceInv, TypeOK, PlacesMakeSense,
       ChildKeepsItsPid, OnePidEach, Known, LearntIsTrue, ListenerRuns, NoLostBackend, OnlyTheMeantIsStopped
<1> QED BY <1>2, <1>3

LEMMA StopAskedInv == ASSUME ServiceInv, StopAsked PROVE ServiceInv'
<1>1. command.target \in Target /\ record = command.target /\ Known(command.target)
  BY TargetOnRecord DEF StopAsked, At
<1>2. CASE ~isProcessAlive(command.target.pid)
  BY <1>1, <1>2, StopDoneInv DEF StopAsked, At
<1>3. CASE isProcessAlive(command.target.pid)
  <2>1. command' \in Command BY <1>3, GotoType DEF StopAsked
  <2>2. /\ command'.pc = "stopHealth" /\ command'.target = record
        /\ command'.result = "none" /\ command'.exited = command.exited
        /\ command'.health = command.health
    BY <1>1, <1>3 DEF StopAsked, Goto, Doing
  <2> QED BY <1>1, <1>3, <2>1, <2>2, MoveInv DEF StopAsked, At, ServiceInv, LearntIsTrue
<1> QED BY <1>2, <1>3

LEMMA ReadHealthInv ==
  ASSUME ServiceInv, NEW at \in {"stopHealth", "startHealth"},
         NEW next \in {"stopProbe", "startProbe"}, ReadHealth(at, next)
  PROVE  ServiceInv'
<1>1. command.target \in Target /\ record = command.target
  BY TargetOnRecord DEF ReadHealth, At
<1>2. PICK h \in HealthAnswers(command.target.id) :
        command' = Doing(next, command.target, FALSE, h)
  BY DEF ReadHealth
<1>3. command' \in Command BY <1>1, <1>2, DoingType DEF HealthAnswers
<1>4. /\ command'.pc = next /\ command'.target = record
      /\ command'.result = "none" /\ command'.exited = FALSE /\ command'.health = h
  BY <1>1, <1>2 DEF Doing
<1>5. h = "matched" => command.target.id \in served
  BY DEF HealthAnswers, Is, ServiceInv, ListenerRuns
<1> QED BY <1>1, <1>3, <1>4, <1>5, MoveInv DEF ReadHealth, At

LEMMA StopProbeInv == ASSUME ServiceInv, StopProbe PROVE ServiceInv'
<1> DEFINE t == command.target
<1>1. t \in Target /\ record = t /\ Known(t)
  BY TargetOnRecord DEF StopProbe, At
<1>2. CASE ~isProcessAlive(t.pid)
  BY <1>1, <1>2, StopDoneInv DEF StopProbe, At
<1>3. ASSUME isProcessAlive(t.pid), End("failed"),
             UNCHANGED <<process, port, signals>>
      PROVE  ServiceInv'
  <2>1. command' \in Command BY <1>3, EndType
  <2>2. /\ command'.pc = "idle" /\ command'.target = command.target
        /\ command'.exited = FALSE /\ command'.health = "none"
    BY <1>3 DEF End, Returned
  <2> QED BY <1>3, <2>1, <2>2, MoveInv DEF StopProbe, At
<1>4. ASSUME isProcessAlive(t.pid), NEW probed \in probeProcessCommandLine(t),
             canForceStop(command.health, probed), NEW sent \in BOOLEAN,
             Terminate(t, sent), IF sent THEN Goto("stopping") ELSE End("failed")
      PROVE  ServiceInv'
  <2>0. /\ t.pid \in Pids /\ t.id \in Instances
        /\ process[t.pid].kind = "backend" /\ process[t.pid].id = t.id
    BY <1>1, <1>4 DEF canForceStop, probeProcessCommandLine, Is
  <2>1. /\ process' \in [Pids -> [kind : Kinds, id : Instances \cup {Nil}, phase : Phases]]
        /\ port' \in Pids \cup {Nil}
        /\ signals' \subseteq signals \cup {<<t.id, t.id>>}
        /\ \A q \in Pids : q # t.pid => process'[q] = process[q]
        /\ \/ /\ process'[t.pid].kind \in {"backend", "zombie"}
              /\ process'[t.pid].id = t.id
           \/ process'[t.pid] = Nobody
    BY <1>1, <1>4, <2>0, TerminateKeeps
  <2>2. /\ command' \in Command
        /\ command'.target = t
        /\ command'.pc \in {"stopping", "idle"}
        /\ command'.pc # "idle" => command'.result = "none"
    BY <1>4, GotoType, EndType DEF Goto, End, Doing, Returned
  <2>3. UNCHANGED <<windows, record, request, used, served, abandoned>>
    BY <1>4 DEF StopProbe
  <2>4. TypeOK' BY <2>0, <2>1, <2>2, <2>3 DEF ServiceInv, TypeOK
  <2>5. PlacesMakeSense' BY <1>1, <2>2, <2>3 DEF PlacesMakeSense
  <2>6. ChildKeepsItsPid' BY <2>2 DEF ChildKeepsItsPid
  <2>7. OnePidEach'
    BY <1>1, <2>0, <2>1, <2>2, <2>3 DEF ServiceInv, OnePidEach, Known, TypeOK
  <2>8. NoLostBackend'
    BY <1>1, <2>0, <2>1, <2>2, <2>3 DEF ServiceInv, NoLostBackend, StopProbe, At
  <2>10. ListenerRuns' BY <1>1, <1>4, <2>0, <2>3, TerminateKeeps DEF ServiceInv
  <2>20. LearntIsTrue' BY <1>4, <2>0, <2>1, <2>2, <2>3 DEF ServiceInv, LearntIsTrue, Goto, End, Doing, Returned
  <2>9. OnlyTheMeantIsStopped'
    BY <2>0, <2>1 DEF ServiceInv, OnlyTheMeantIsStopped
  <2> QED BY <2>4, <2>5, <2>6, <2>7, <2>8, <2>9, <2>10, <2>20 DEF ServiceInv
<1> QED BY <1>2, <1>3, <1>4 DEF StopProbe

LEMMA StopWaitedInv == ASSUME ServiceInv, StopWaited PROVE ServiceInv'
<1>1. command.target \in Target /\ record = command.target /\ Known(command.target)
  BY TargetOnRecord DEF StopWaited, At
<1>2. CASE ~isProcessAlive(command.target.pid)
  BY <1>1, <1>2, StopDoneInv DEF StopWaited, At
<1>3. CASE isProcessAlive(command.target.pid)
  <2>1. command' \in Command BY <1>3, EndType DEF StopWaited
  <2>2. /\ command'.pc = "idle" /\ command'.target = command.target
        /\ command'.exited = FALSE /\ command'.health = "none"
    BY <1>3 DEF StopWaited, End, Returned
  <2> QED BY <1>3, <2>1, <2>2, MoveInv DEF StopWaited, At
<1> QED BY <1>2, <1>3

LEMMA StartCallInv == ASSUME ServiceInv, StartCall PROVE ServiceInv'
<1>1. CASE record = Nil
  <2>1. \A p \in Pids : [pid |-> p, id |-> process[p].id] \in Target \/ process[p].kind # "backend"
    BY DEF ServiceInv, TypeOK, OnePidEach
  <2> QED BY <1>1, <2>1, SpawnInv DEF StartCall, At
<1>2. CASE record # Nil
  <2>1. record \in Target BY <1>2 DEF ServiceInv, TypeOK
  <2>2. CASE ~isProcessAlive(record.pid)
    BY <1>2, <2>1, <2>2, ReplaceInv DEF StartCall, At
  <2>3. CASE isProcessAlive(record.pid)
    <3>1. command' = Doing("startHealth", record, FALSE, "none")
      BY <1>2, <2>3 DEF StartCall, Begun
    <3>2. command' \in Command BY <2>1, <3>1, DoingType
    <3>3. /\ command'.pc = "startHealth" /\ command'.target = record
          /\ command'.result = "none" /\ command'.exited = FALSE /\ command'.health = "none"
      BY <3>1 DEF Doing
    <3> QED BY <1>2, <2>3, <3>2, <3>3, MoveInv DEF StartCall, At
  <2> QED BY <2>2, <2>3
<1> QED BY <1>1, <1>2

LEMMA StartProbeInv == ASSUME ServiceInv, StartProbe PROVE ServiceInv'
<1>1. command.target \in Target /\ record = command.target
  BY TargetOnRecord DEF StartProbe, At
<1>2. ASSUME NEW result \in {"started", "failed"}, End(result),
             UNCHANGED <<windows, world, record, request, used, history>>
      PROVE  ServiceInv'
  <2>1. command' \in Command BY <1>2, EndType
  <2>2. /\ command'.pc = "idle" /\ command'.target = command.target
        /\ command'.exited = FALSE /\ command'.health = "none"
    BY <1>2 DEF End, Returned
  <2> QED BY <1>2, <2>1, <2>2, MoveInv DEF StartProbe, At
<1>3. ASSUME ~isProcessAlive(command.target.pid), Replace(command.target)
      PROVE  ServiceInv'
  BY <1>1, <1>3, ReplaceInv DEF StartProbe, At
<1> QED BY <1>2, <1>3 DEF StartProbe

LEMMA PersistInv == ASSUME ServiceInv, Persist PROVE ServiceInv'
<1>0. /\ command.pc = "spawned" /\ ~command.exited /\ record = Nil
      /\ command.target \in Target
  BY CommandType DEF Persist, At, ServiceInv, PlacesMakeSense
<1>1. CASE UNCHANGED record /\ GiveUp("failingBare")
  BY <1>0, <1>1, GiveUpInv
<1>2. CASE /\ record' = command.target
           /\ Goto("waiting")
           /\ UNCHANGED <<windows, world, request, used, history>>
  <2>1. command' \in Command BY <1>2, GotoType
  <2>2. /\ command'.pc = "waiting" /\ command'.target = command.target
        /\ command'.exited = command.exited /\ command'.result = "none"
        /\ command'.health = command.health
    BY <1>2 DEF Goto, Doing
  <2> QED
    BY <1>0, <1>2, <2>1, <2>2 DEF ServiceInv, TypeOK, PlacesMakeSense,
       ChildKeepsItsPid, OnePidEach, Known, LearntIsTrue, ListenerRuns, NoLostBackend, OnlyTheMeantIsStopped
<1> QED BY <1>1, <1>2 DEF Persist

LEMMA HealthMatchedInv == ASSUME ServiceInv, HealthMatched PROVE ServiceInv'
<1>1. command' \in Command BY GotoType DEF HealthMatched
<1>2. /\ command'.pc = "answered" /\ command'.target = command.target
      /\ command'.exited = command.exited /\ command'.result = "none"
      /\ command'.health = command.health
  BY DEF HealthMatched, Goto, Doing
<1>3. command.target.id \in served
  BY DEF HealthMatched, Is, ServiceInv, ListenerRuns
<1> QED
  BY <1>1, <1>2, <1>3 DEF HealthMatched, At, ServiceInv, TypeOK, PlacesMakeSense,
     ChildKeepsItsPid, OnePidEach, Known, LearntIsTrue, ListenerRuns, NoLostBackend, OnlyTheMeantIsStopped

LEMMA StartTimedOutInv == ASSUME ServiceInv, StartTimedOut PROVE ServiceInv'
<1>1. /\ command.target \in Target /\ record = command.target
      /\ command.pc = "waiting" /\ command.exited \in BOOLEAN
  BY TargetOnRecord, CommandType DEF StartTimedOut, At, ServiceInv
<1>2. CASE command.exited
  BY <1>1, <1>2, WithdrawInv DEF StartTimedOut, ServiceInv, LearntIsTrue
<1>3. CASE ~command.exited
  BY <1>1, <1>3, GiveUpInv DEF StartTimedOut
<1> QED BY <1>1, <1>2, <1>3

LEMMA StartReadyInv == ASSUME ServiceInv, StartReady PROVE ServiceInv'
<1>1. /\ command.target \in Target /\ record = command.target
      /\ command.pc = "answered" /\ command.exited \in BOOLEAN
  BY TargetOnRecord, CommandType DEF StartReady, At, ServiceInv
<1>2. CASE command.exited
  BY <1>1, <1>2, WithdrawInv DEF StartReady, ServiceInv, LearntIsTrue
<1>3. CASE ~command.exited /\ GiveUp("failing") /\ UNCHANGED record
  BY <1>1, <1>3, GiveUpInv
<1>4. CASE /\ End("started")
           /\ UNCHANGED <<windows, world, record, request, used, history>>
  <2>1. command' \in Command BY <1>4, EndType
  <2>2. /\ command'.pc = "idle" /\ command'.target = command.target
        /\ command'.exited = FALSE /\ command'.health = "none"
    BY <1>4 DEF End, Returned
  <2> QED BY <1>1, <1>4, <2>1, <2>2, MoveInv
<1> QED BY <1>1, <1>2, <1>3, <1>4 DEF StartReady

LEMMA StartGivenUpInv == ASSUME ServiceInv, StartGivenUp PROVE ServiceInv'
<1>1. /\ command.pc \in {"failing", "failingBare"}
      /\ command.target \in Target /\ Known(command.target)
  BY CommandType DEF StartGivenUp, ServiceInv, PlacesMakeSense, OnePidEach
<1>2. CASE At("failing") /\ ~isProcessAlive(command.target.pid)
  BY <1>2, WithdrawInv DEF StartGivenUp, At, isProcessAlive
<1>3. CASE ~(At("failing") /\ ~isProcessAlive(command.target.pid))
  <2>1. /\ End("failed")
        /\ abandoned' = IF At("failingBare") /\ isProcessAlive(command.target.pid)
                        THEN abandoned \cup {command.target.id} ELSE abandoned
        /\ UNCHANGED <<windows, world, record, request, used, signals>>
    BY <1>3 DEF StartGivenUp
  <2>2. command' \in Command BY <2>1, EndType
  <2>3. /\ command'.pc = "idle" /\ command'.target = command.target
        /\ command'.exited = FALSE /\ command'.health = "none"
    BY <2>1 DEF End, Returned
  <2>4. TypeOK' BY <1>1, <2>1, <2>2 DEF ServiceInv, TypeOK, Known
  <2>5. PlacesMakeSense' BY <2>3 DEF PlacesMakeSense
  <2>6. ChildKeepsItsPid' BY <2>3 DEF ChildKeepsItsPid
  <2>7. OnePidEach' BY <2>1, <2>3 DEF ServiceInv, OnePidEach, Known
  <2>8. LearntIsTrue' BY <2>3 DEF LearntIsTrue
  <2>9. ListenerRuns' BY <2>1 DEF ServiceInv, ListenerRuns
  <2>10. NoLostBackend'
    <3> SUFFICES ASSUME NEW p \in Pids, process[p].kind = "backend",
                        record # [pid |-> p, id |-> process[p].id]
                 PROVE  process[p].id \in abandoned'
      BY <2>1 DEF NoLostBackend
    <3>1. CASE process[p].id \in abandoned BY <2>1, <3>1
    <3>2. CASE command.pc = "failingBare" /\ command.target = [pid |-> p, id |-> process[p].id]
      <4>1. isProcessAlive(command.target.pid) /\ command.target.id = process[p].id
        BY <3>2 DEF isProcessAlive
      <4> QED BY <2>1, <3>2, <4>1 DEF At
    <3> QED BY <1>1, <3>1, <3>2 DEF ServiceInv, NoLostBackend
  <2>11. OnlyTheMeantIsStopped' BY <2>1 DEF ServiceInv, OnlyTheMeantIsStopped
  <2> QED BY <2>4, <2>5, <2>6, <2>7, <2>8, <2>9, <2>10, <2>11 DEF ServiceInv
<1> QED BY <1>2, <1>3

-----------------------------------------------------------------------------
(* The theorems.                                                           *)

LEMMA InitInv == Init => ServiceInv
<1> SUFFICES ASSUME Init PROVE ServiceInv OBVIOUS
<1>1. command \in Command /\ command.pc = "idle" /\ command.target = Nil
      /\ command.exited = FALSE /\ command.health = "none"
  BY ReturnedType DEF Init, Idle, Returned
<1> QED
  BY <1>1 DEF Init, ServiceInv, TypeOK, PlacesMakeSense, ChildKeepsItsPid, OnePidEach,
     Known, LearntIsTrue, ListenerRuns, NoLostBackend, OnlyTheMeantIsStopped

LEMMA NextInv == ServiceInv /\ [Next]_vars => ServiceInv'
<1> SUFFICES ASSUME ServiceInv, [Next]_vars PROVE ServiceInv' OBVIOUS
<1>1. CASE Environment
  BY <1>1, StrangerStartsInv, StrangerEndsInv, ListenInv, HangInv, BackendExitsInv,
     TakeRequestInv, InitReapsInv DEF Environment
<1>2. CASE Reap \/ Killed BY <1>2, ReapInv, KilledInv
<1>3. CASE StopCall \/ StopAsked \/ StopHealth \/ StopProbe \/ StopWaited
  BY <1>3, StopCallInv, StopAskedInv, ReadHealthInv, StopProbeInv, StopWaitedInv
     DEF StopHealth
<1>4. CASE StartCall \/ StartHealth \/ StartProbe \/ Persist
  BY <1>4, StartCallInv, ReadHealthInv, StartProbeInv, PersistInv DEF StartHealth
<1>5. CASE HealthMatched \/ StartTimedOut \/ StartReady \/ StartGivenUp
  BY <1>5, HealthMatchedInv, StartTimedOutInv, StartReadyInv, StartGivenUpInv
<1>6. CASE UNCHANGED vars
  BY <1>6 DEF vars, ServiceInv, TypeOK, PlacesMakeSense, ChildKeepsItsPid, OnePidEach,
     Known, LearntIsTrue, ListenerRuns, NoLostBackend, OnlyTheMeantIsStopped
<1> QED BY <1>1, <1>2, <1>3, <1>4, <1>5, <1>6 DEF Next

\* At every place of a start or stop call, whatever the processes around it
\* do, the call's target, the record and the history fit together.
THEOREM ServiceInvariant == Spec => []ServiceInv
BY InitInv, NextInv, PTL DEF Spec

\* No Backend runs that neither the record, the call under way, nor a call
\* that failed or was killed knows of (startBackendService, stopBackendService).
THEOREM NoBackendIsLost == Spec => []NoLostBackend
<1>1. ServiceInv => NoLostBackend BY DEF ServiceInv
<1> QED BY <1>1, ServiceInvariant, PTL

\* No signal, taskkill or shutdown request ends any process but the instance
\* it was meant for, although PIDs are reused.
THEOREM OnlyTheMeantIsHit == Spec => []OnlyTheMeantIsStopped
<1>1. ServiceInv => OnlyTheMeantIsStopped BY DEF ServiceInv
<1> QED BY <1>1, ServiceInvariant, PTL

-----------------------------------------------------------------------------
(* What the answers say.                                                   *)

\* What a caller gets of a step.
Kept == ReportIsTrue /\ [Promise!Next]_<<record # Nil, Call, command.result>>

LEMMA GoesOn ==
  ASSUME NEW pc, Goto(pc)
  PROVE  command'.pc = pc /\ command'.result = "none" /\ command'.target = command.target
BY DEF Goto, Doing

LEMMA Ends ==
  ASSUME NEW result, End(result)
  PROVE  command'.pc = "idle" /\ command'.result = result
BY DEF End, Returned

StopPlaces == {"asked", "stopHealth", "stopProbe", "stopping"}
StartPlaces == {"startHealth", "startProbe", "spawned", "waiting", "answered",
                "failing", "failingBare"}

LEMMA CallIs ==
  /\ Call = "none" <=> command.pc = "idle"
  /\ Call = "stop" <=> command.pc \in StopPlaces
  /\ command.pc \in StartPlaces => Call = "start"
BY DEF Call, StopPlaces, StartPlaces

LEMMA CallIsNext ==
  /\ Call' = "none" <=> command'.pc = "idle"
  /\ Call' = "stop" <=> command'.pc \in StopPlaces
  /\ command'.pc \in StartPlaces => Call' = "start"
BY DEF Call, StopPlaces, StartPlaces

\* A step that leaves the call's place, or its kind, and the record alone.
LEMMA UnseenKept ==
  ASSUME ServiceInv, UNCHANGED <<record, command>> PROVE Kept
BY DEF ServiceInv, PlacesMakeSense, Kept, ReportIsTrue, Call

\* A call that begins or goes on.
LEMMA WorkKept ==
  ASSUME ServiceInv, command'.result = "none", command'.pc # "idle",
         \/ /\ command.pc \in StopPlaces \cup {"idle"} /\ command'.pc \in StopPlaces
            /\ record' # Nil <=> record # Nil
         \/ command.pc \in StartPlaces \cup {"idle"} /\ command'.pc \in StartPlaces
  PROVE  Kept
<1>1. ReportIsTrue BY DEF ReportIsTrue
<1>2. CASE /\ command.pc \in StopPlaces \cup {"idle"} /\ command'.pc \in StopPlaces
           /\ record' # Nil <=> record # Nil
  <2>1. Promise!Work("stop") BY <1>2, CallIs, CallIsNext DEF Promise!Work
  <2> QED BY <1>1, <2>1 DEF Kept, Promise!Next
<1>3. CASE command.pc \in StartPlaces \cup {"idle"} /\ command'.pc \in StartPlaces
  <2>1. Promise!Work("start")
    BY <1>3, CallIs, CallIsNext DEF Promise!Work, StopPlaces, StartPlaces
  <2> QED BY <1>1, <2>1 DEF Kept, Promise!Next
<1> QED BY <1>2, <1>3

LEMMA FailedKept ==
  ASSUME command'.pc = "idle", command'.result = "failed",
         \/ record' # Nil <=> record # Nil
         \/ record' = Nil /\ command.pc \notin StopPlaces
  PROVE  Kept
<1>1. Promise!Failed BY CallIs, CallIsNext DEF Promise!Failed
<1> QED BY <1>1 DEF Kept, ReportIsTrue, Promise!Next

LEMMA StartedKept ==
  ASSUME command.pc \in StartPlaces, command'.pc = "idle", command'.result = "started",
         record = command.target, record' = record, record # Nil,
         record.id \in served \/ Is(record.id, record.pid)
  PROVE  Kept
<1>1. Promise!Started BY CallIs, CallIsNext DEF Promise!Started
<1> QED BY <1>1 DEF Kept, ReportIsTrue, Promise!Next

LEMMA StopDoneKept ==
  ASSUME NEW t \in Target, Known(t), record = t, ~isProcessAlive(t.pid),
         command.pc \in StopPlaces \cup {"idle"}, StopDone(t)
  PROVE  Kept
<1>1. PICK result \in {"stopped", "failed"} :
        ClearRecord(t, result = "stopped") /\ command' = Returned(t, result)
  BY DEF StopDone
<1>2. /\ command'.pc = "idle" /\ command'.result = result /\ command'.target = t
      /\ UNCHANGED process
  BY <1>1 DEF Returned, StopDone
<1>3. CASE result = "failed"
  BY <1>1, <1>2, <1>3, FailedKept DEF ClearRecord
<1>4. CASE result = "stopped"
  <2>1. record' = Nil BY <1>1, <1>4 DEF ClearRecord
  <2>2. \A p \in Pids : ~(process[p].kind = "backend" /\ process[p].id = t.id)
    BY DEF Known, isProcessAlive
  <2>3. ~TargetRuns' BY <1>2, <2>2 DEF TargetRuns, Is
  <2>4. Promise!Stopped
    BY <1>2, <1>4, <2>1, CallIs, CallIsNext DEF Promise!Stopped, StopPlaces
  <2> QED BY <1>2, <1>4, <2>1, <2>3, <2>4 DEF Kept, ReportIsTrue, Promise!Next
<1> QED BY <1>3, <1>4

LEMMA SpawnKept ==
  ASSUME ServiceInv, Spawn, record' = Nil, command.pc \in {"idle", "startProbe"}
  PROVE  Kept
<1>1. CASE End("failed")
  BY <1>1, Ends, FailedKept DEF StopPlaces
<1>2. CASE \E t \in Target : command' = Begun("spawned", t)
  BY <1>2, WorkKept DEF Begun, Doing, StartPlaces
<1> QED BY <1>1, <1>2 DEF Spawn

LEMMA ReplaceKept ==
  ASSUME ServiceInv, NEW t \in Target, Replace(t),
         command.pc \in {"idle", "startProbe"}
  PROVE  Kept
<1>1. CASE ClearRecord(t, TRUE) /\ Spawn
  BY <1>1, SpawnKept, ClearRecordKeeps DEF ServiceInv
<1>2. CASE ClearRecord(t, FALSE) /\ End("failed")
  BY <1>2, Ends, FailedKept DEF ClearRecord
<1> QED BY <1>1, <1>2 DEF Replace

LEMMA GiveUpKept ==
  ASSUME ServiceInv, UNCHANGED record, NEW next \in {"failing", "failingBare"},
         command.pc \in StartPlaces, GiveUp(next)
  PROVE  Kept
<1>1. CASE Goto(next) BY <1>1, GoesOn, WorkKept DEF StartPlaces
<1>2. CASE End("failed") BY <1>2, Ends, FailedKept
<1> QED BY <1>1, <1>2 DEF GiveUp

LEMMA WithdrawKept ==
  ASSUME ServiceInv, command.pc \in StartPlaces, Withdraw PROVE Kept
BY Ends, FailedKept, ClearRecordKeeps DEF Withdraw, ServiceInv, StopPlaces, StartPlaces

LEMMA EnvironmentKept == ASSUME ServiceInv, Environment PROVE Kept
BY UnseenKept DEF Environment, StrangerStarts, StrangerEnds, Listen, Hang, BackendExits,
   TakeRequest, InitReaps

LEMMA ReapKept == ASSUME ServiceInv, Reap PROVE Kept
<1>1. command'.pc = command.pc /\ command'.result = "none" /\ UNCHANGED record
  BY DEF Reap, Doing
<1> QED BY <1>1, WorkKept DEF Reap, StartPlaces

LEMMA KilledKept == ASSUME ServiceInv, Killed PROVE Kept
<1>1. command'.pc = "idle" /\ command'.result = "none" BY DEF Killed, Idle, Returned
<1>2. Promise!Cut BY <1>1, CallIs, CallIsNext DEF Promise!Cut, Killed, At
<1> QED BY <1>1, <1>2 DEF Kept, ReportIsTrue, Promise!Next

LEMMA StopKept ==
  ASSUME ServiceInv, StopCall \/ StopAsked \/ StopHealth \/ StopProbe \/ StopWaited
  PROVE  Kept
<1> USE DEF At, StopPlaces
<1>1. CASE StopCall
  <2>1. record \in Target /\ Known(record)
    BY <1>1 DEF StopCall, ServiceInv, TypeOK, OnePidEach
  <2>2. CASE ~isProcessAlive(record.pid) BY <1>1, <2>1, <2>2, StopDoneKept DEF StopCall
  <2>3. CASE isProcessAlive(record.pid)
    BY <1>1, <2>1, <2>3, WorkKept DEF StopCall, Begun, Doing
  <2> QED BY <2>2, <2>3
<1>2. CASE StopAsked
  <2>1. CASE ~isProcessAlive(command.target.pid)
    BY <1>2, <2>1, TargetOnRecord, StopDoneKept DEF StopAsked
  <2>2. CASE isProcessAlive(command.target.pid)
    BY <1>2, <2>2, GoesOn, WorkKept DEF StopAsked
  <2> QED BY <2>1, <2>2
<1>3. CASE StopHealth BY <1>3, WorkKept DEF StopHealth, ReadHealth, Doing
<1>4. CASE StopProbe
  <2>1. CASE ~isProcessAlive(command.target.pid)
    BY <1>4, <2>1, TargetOnRecord, StopDoneKept DEF StopProbe
  <2>2. CASE Goto("stopping") /\ UNCHANGED record BY <1>4, <2>2, GoesOn, WorkKept DEF StopProbe
  <2>3. CASE End("failed") /\ UNCHANGED record BY <2>3, Ends, FailedKept
  <2> QED BY <1>4, <2>1, <2>2, <2>3 DEF StopProbe
<1>5. CASE StopWaited
  <2>1. CASE ~isProcessAlive(command.target.pid)
    BY <1>5, <2>1, TargetOnRecord, StopDoneKept DEF StopWaited
  <2>2. CASE isProcessAlive(command.target.pid)
    BY <1>5, <2>2, Ends, FailedKept DEF StopWaited
  <2> QED BY <2>1, <2>2
<1> QED BY <1>1, <1>2, <1>3, <1>4, <1>5

LEMMA StartKept ==
  ASSUME ServiceInv,
         \/ StartCall \/ StartHealth \/ StartProbe \/ Persist
         \/ HealthMatched \/ StartTimedOut \/ StartReady \/ StartGivenUp
  PROVE  Kept
<1> USE DEF At, StartPlaces
<1>1. CASE StartCall
  <2>1. CASE record = Nil BY <1>1, <2>1, SpawnKept DEF StartCall
  <2>2. CASE record # Nil /\ ~isProcessAlive(record.pid)
    BY <1>1, <2>2, ReplaceKept DEF StartCall, ServiceInv, TypeOK
  <2>3. CASE record # Nil /\ isProcessAlive(record.pid)
    BY <1>1, <2>3, WorkKept DEF StartCall, Begun, Doing
  <2> QED BY <2>1, <2>2, <2>3
<1>2. CASE StartHealth BY <1>2, WorkKept DEF StartHealth, ReadHealth, Doing
<1>3. CASE StartProbe
  <2>0. command.target \in Target /\ record = command.target
    BY <1>3, TargetOnRecord DEF StartProbe
  <2>1. CASE Replace(command.target) BY <1>3, <2>0, <2>1, ReplaceKept DEF StartProbe
  <2>2. ASSUME NEW probed \in probeProcessCommandLine(command.target), UNCHANGED record,
               canReportRunning(command.health, probed), End("started")
        PROVE  Kept
    <3>1. record.id \in served \/ Is(record.id, record.pid)
      BY <2>0, <2>2 DEF canReportRunning, probeProcessCommandLine, ServiceInv, LearntIsTrue
    <3> QED BY <1>3, <2>0, <2>2, <3>1, Ends, StartedKept DEF StartProbe
  <2>3. CASE End("failed") /\ UNCHANGED record BY <2>3, Ends, FailedKept
  <2> QED BY <1>3, <2>1, <2>2, <2>3 DEF StartProbe
<1>4. CASE Persist
  <2>1. CASE Goto("waiting") BY <1>4, <2>1, GoesOn, WorkKept DEF Persist
  <2>2. CASE UNCHANGED record /\ GiveUp("failingBare") BY <1>4, <2>2, GiveUpKept DEF Persist
  <2> QED BY <1>4, <2>1, <2>2 DEF Persist
<1>5. CASE HealthMatched BY <1>5, GoesOn, WorkKept DEF HealthMatched
<1>6. CASE StartTimedOut BY <1>6, WithdrawKept, GiveUpKept DEF StartTimedOut
<1>7. CASE StartReady
  <2>1. CASE Withdraw BY <1>7, <2>1, WithdrawKept DEF StartReady
  <2>2. CASE End("started") /\ UNCHANGED record
    BY <1>7, <2>2, Ends, TargetOnRecord, StartedKept DEF StartReady, ServiceInv, PlacesMakeSense
  <2>3. CASE GiveUp("failing") /\ UNCHANGED record BY <1>7, <2>3, GiveUpKept DEF StartReady
  <2> QED BY <1>7, <2>1, <2>2, <2>3 DEF StartReady
<1>8. CASE StartGivenUp
  <2>1. CASE Withdraw BY <1>8, <2>1, WithdrawKept DEF StartGivenUp
  <2>2. CASE End("failed") /\ UNCHANGED record BY <2>2, Ends, FailedKept
  <2> QED BY <1>8, <2>1, <2>2 DEF StartGivenUp
<1> QED BY <1>1, <1>2, <1>3, <1>4, <1>5, <1>6, <1>7, <1>8

LEMMA NextKept == ServiceInv /\ [Next]_vars => Kept
<1>1. ASSUME ServiceInv, UNCHANGED vars PROVE Kept
  BY <1>1, UnseenKept DEF vars
<1> QED
  BY <1>1, EnvironmentKept, ReapKept, KilledKept, StopKept, StartKept DEF Next

\* A start that answers "started" and a stop that answers "stopped" tell the
\* truth (BackendServiceResult of startBackendService and stopBackendService).
THEOREM AnswersAreTrue == Spec => ReportsAreTrue
<1>1. ServiceInv /\ [Next]_vars => [ReportIsTrue]_vars
  BY NextKept DEF Kept
<1> QED BY <1>1, ServiceInvariant, PTL DEF Spec, ReportsAreTrue

\* To its callers (the lifecycle commands) the service is ServicePromise.
THEOREM ServiceKeepsPromise == Spec => KeepsServicePromise
<1>1. Init => Promise!Init
  BY DEF Init, Promise!Init, Call, Idle, Returned
<1>2. ServiceInv /\ [Next]_vars => [Promise!Next]_<<record # Nil, Call, command.result>>
  BY NextKept DEF Kept
<1> QED BY <1>1, <1>2, ServiceInvariant, PTL DEF Spec, KeepsServicePromise, Promise!Spec
=============================================================================
