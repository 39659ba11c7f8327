-------------------------- MODULE LifecycleProofs --------------------------
(***************************************************************************)
(* Proofs about the lifecycle commands (ClientLifecycle), the package       *)
(* transition beside them (PackageTransition) and the adapter in the        *)
(* profiles of DSH (DshProfiles), for any clients, updates, stops, profiles,*)
(* releases, faults and edits.                                              *)
(*                                                                         *)
(* The profiles come first (ProfilesInv): what a command has still to deal  *)
(* with is claimed, and whatever lists a bundle of ours is claimed or among *)
(* what the command in progress has yet to deal with.                       *)
(*                                                                         *)
(* Then the commands: what each phase may take for granted (CommandInv).    *)
(* The package transition only ever takes their steps, so what holds of the *)
(* commands holds beside it, and its own invariant is that of the revision, *)
(* of the children and of the outage.                                       *)
(***************************************************************************)
EXTENDS PackageTransition, DshProfiles, TLAPS

-----------------------------------------------------------------------------
(***************************************************************************)
(* The adapter in the profiles of DSH.                                     *)
(***************************************************************************)
Manifests == [manifest : {"missing", "valid", "torn"}, plugins : SUBSET (Bundles \cup {Own})]
AdapterStates == [present : BOOLEAN, enabled : BOOLEAN, bundle : Bundles \cup {Own},
                  claimed : SUBSET Profiles]
Operations == [pc : {"idle", "ensure", "rollback", "restored", "prune", "disable", "remove",
                     "unlink"},
               prior : AdapterStates, prev : SUBSET Profiles, todo : SUBSET Profiles,
               failed : SUBSET Profiles, mutated : SUBSET Profiles,
               residual : SUBSET Profiles, worker : Profiles, initialize : BOOLEAN,
               enable : BOOLEAN]

ProfilesTypeOK ==
  /\ profile \in [Profiles -> Manifests] /\ capable \subseteq Profiles
  /\ bundles \subseteq Bundles /\ state \in AdapterStates /\ op \in Operations
  /\ faults \in Nat /\ edits \in Nat /\ commands \in Nat /\ unseen \subseteq Profiles

\* The bundles of this program that a profile lists.
BundlesOf(p) == profile[p].plugins \cap Bundles

\* A manifest lists one version of a package, and none when it is missing.
GoodManifest(q) ==
  /\ q \in Manifests
  /\ q.manifest = "missing" => q.plugins = {}
  /\ \A b, c \in q.plugins : packageName(b) = packageName(c) => b = c

ManifestInv == \A p \in Profiles : GoodManifest(profile[p])

\* The state file, present or not.
AdapterStateInv == ~state.present => ~state.enabled /\ state.claimed = {}

\* Whatever a command has still to deal with.
OpInv ==
  /\ op.pc = "idle" => op = Idle
  /\ op.pc \in {"ensure", "disable", "remove"} => op.todo \subseteq state.claimed
  /\ op.pc \in {"disable", "remove"} => op.failed \subseteq state.claimed
  /\ op.pc = "ensure" => /\ state.bundle \in Releases /\ op.residual = {}
                         /\ op.mutated \subseteq state.claimed
  /\ op.pc = "rollback" => op.todo \subseteq state.claimed
  /\ op.pc \in {"ensure", "rollback"} /\ op.prior.present => op.prior.bundle \in bundles
  /\ op.pc = "rollback" => op.prior.present
  /\ op.pc \notin {"idle", "unlink"} => state.present
  /\ op.pc = "unlink" => ~state.present
  /\ op.pc = "restored" => /\ state.claimed \ op.residual \subseteq op.prior.claimed
                           /\ state.bundle = op.prior.bundle

\* An update has taken into account, or will, every profile in which it may have left a bundle.
UpdateInv ==
  \A p \in Profiles \ unseen : BundlesOf(p) # {} =>
    /\ op.pc = "ensure" => p \in op.prior.claimed \cup op.mutated
    /\ op.pc = "rollback" => p \in op.prior.claimed \cup op.todo \cup op.residual

\* A profile that an update is done with lists nothing but the new bundle.
DoneInv ==
  /\ op.pc = "ensure" => \A p \in state.claimed \ (op.todo \cup op.failed) : BundlesOf(p) \subseteq {state.bundle}
  /\ op.pc = "prune" => \A p \in Profiles \ unseen : BundlesOf(p) \subseteq {state.bundle}

\* A removal has dealt with, or will, every profile that lists a bundle.
RemovalInv ==
  \A p \in Profiles \ unseen : BundlesOf(p) # {} =>
    /\ op.pc \in {"disable", "remove"} => p \in op.todo \cup op.failed
    /\ op.pc # "unlink"

ProfilesInv ==
  /\ ProfilesTypeOK /\ ManifestInv /\ AdapterStateInv /\ OpInv /\ UpdateInv /\ DoneInv /\ RemovalInv
  /\ DshKeepsTrack

LEMMA TornIs ==
  ASSUME NEW q, GoodManifest(q)
  PROVE  /\ GoodManifest(Torn(q)) /\ Torn(q).plugins = q.plugins /\ Torn(q).manifest = "torn"
  BY DEF GoodManifest, Manifests, Torn

LEMMA ValidIs ==
  ASSUME NEW ps \in SUBSET (Bundles \cup {Own}),
         \A b, c \in ps : packageName(b) = packageName(c) => b = c
  PROVE  /\ GoodManifest(Valid(ps)) /\ Valid(ps).plugins = ps /\ Valid(ps).manifest = "valid"
  BY DEF GoodManifest, Manifests, Valid

LEMMA MissingIs ==
  GoodManifest(Missing) /\ Missing.plugins = {} /\ Missing.manifest = "missing"
  BY DEF GoodManifest, Manifests, Missing

\* A native command leaves its work done, undone or torn.
LEMMA NativeIs ==
  ASSUME NEW q, NEW done, NEW possible, NEW r \in Native(q, done, possible)
  PROVE  /\ r.after \in {q, done, Torn(done)} /\ r.fault \in {0, 1}
         /\ ~possible => r.after = q
  <1>1. CASE ~possible
    <2>1. r = Did(q, FALSE, 0)
      BY <1>1 DEF Native
    <2> QED
      BY <2>1 DEF Did
  <1>2. CASE possible
    <2>1. r \in {Did(done, TRUE, 0), Did(q, TRUE, 1), Did(q, FALSE, 1), Did(done, FALSE, 1),
                Did(Torn(done), FALSE, 1)}
      BY <1>2 DEF Native
    <2>2. r.after \in {q, done, Torn(done)} /\ r.fault \in {0, 1}
      BY <2>1 DEF Did
    <2> QED
      BY <1>2, <2>2
  <1> QED
    BY <1>1, <1>2

\* An add brings nothing but the bundle, which is on the disk.
LEMMA NativeAddIs ==
  ASSUME NEW p \in Profiles, NEW q, GoodManifest(q), NEW b \in Bundles, NEW r \in NativeAdd(p, q, b)
  PROVE  /\ GoodManifest(r.after) /\ r.fault \in {0, 1}
         /\ r.after.plugins \subseteq q.plugins \cup {b}
         /\ b \notin bundles => r.after = q
  <1> DEFINE ps == {c \in q.plugins : packageName(c) # packageName(b)} \cup {b}
             possible == /\ b \in bundles
                         /\ q.manifest = "valid" \/ (q.manifest = "missing" /\ p = Headless)
  <1>1. /\ ps \in SUBSET (Bundles \cup {Own}) /\ ps \subseteq q.plugins \cup {b}
        /\ \A c, d \in ps : packageName(c) = packageName(d) => c = d
    BY DEF GoodManifest, Manifests
  <1>2. /\ GoodManifest(Valid(ps)) /\ Valid(ps).plugins = ps
        /\ GoodManifest(Torn(Valid(ps))) /\ Torn(Valid(ps)).plugins = ps
    BY <1>1, ValidIs, TornIs
  <1>3. r \in Native(q, Valid(ps), possible)
    BY DEF NativeAdd
  <1>4. /\ r.after \in {q, Valid(ps), Torn(Valid(ps))} /\ r.fault \in {0, 1}
        /\ ~possible => r.after = q
    <2> HIDE DEF possible, ps
    <2> QED
      BY <1>3, NativeIs
  <1> QED
    BY <1>1, <1>2, <1>4

\* A removal takes packages away, and says so only when they are gone.
LEMMA RemovalIs ==
  ASSUME NEW q, GoodManifest(q), NEW names, NEW r \in RemovePackages(q, names)
  PROVE  /\ GoodManifest(r.after) /\ r.fault \in {0, 1}
         /\ r.after.plugins \subseteq q.plugins
         /\ r.ok => ~Mentions(r.after, names)
  <1> DEFINE ps == {c \in q.plugins : packageName(c) \notin names}
             none == q.manifest = "missing" \/ (q.manifest = "valid" /\ ~Mentions(q, names))
             possible == q.manifest = "valid"
  <1>1. /\ ps \in SUBSET (Bundles \cup {Own}) /\ ps \subseteq q.plugins
        /\ \A c, d \in ps : packageName(c) = packageName(d) => c = d
    BY DEF GoodManifest, Manifests
  <1>2. /\ GoodManifest(Valid(ps)) /\ Valid(ps).plugins = ps
        /\ GoodManifest(Torn(Valid(ps))) /\ Torn(Valid(ps)).plugins = ps
    BY <1>1, ValidIs, TornIs
  <1>3. CASE none
    <2>1. r = Did(q, TRUE, 0)
      BY <1>3 DEF RemovePackages
    <2>2. ~Mentions(q, names)
      BY <1>3 DEF Mentions, GoodManifest
    <2> QED
      BY <2>1, <2>2 DEF Did
  <1>4. CASE ~none
    <2>1. PICK s \in Native(q, Valid(ps), possible) :
            r = Did(s.after, s.ok /\ ~Mentions(s.after, names), s.fault)
      BY <1>4 DEF RemovePackages
    <2>2. /\ r.after = s.after /\ r.fault = s.fault /\ r.ok = (s.ok /\ ~Mentions(s.after, names))
      BY <2>1 DEF Did
    <2>4. s.after \in {q, Valid(ps), Torn(Valid(ps))} /\ s.fault \in {0, 1}
      BY <2>1, NativeIs
    <2> QED
      BY <1>1, <1>2, <2>2, <2>4
  <1> QED
    BY <1>3, <1>4

\* Nothing is left of what every package of ours is removed from.
LEMMA NoneLeft ==
  ASSUME NEW q, ~Mentions(q, Managed)
  PROVE  q.plugins = {}
  BY DEF Mentions, Managed, packageName

\* What an install leaves of a profile: at most the bundle of the state is new; and a
\* manifest that the add left unreadable stays as it is.
LEMMA InstallsIs ==
  ASSUME NEW p \in Profiles, GoodManifest(profile[p]), state.bundle \in Bundles,
         NEW r \in Installs(p)
  PROVE  /\ GoodManifest(r[1].after) /\ GoodManifest(r[2].after)
         /\ r[2].after.plugins \subseteq r[1].after.plugins
         /\ r[1].after.plugins \subseteq profile[p].plugins \cup {state.bundle}
         /\ state.bundle \notin bundles => r[1].after = profile[p]
         /\ r[1].fault \in {0, 1} /\ r[2].fault \in {0, 1}
         /\ r[1].after.manifest # "valid" => r[2].after = r[1].after
         /\ r[2].ok => ~Mentions(r[2].after, {"legacy"})
         /\ profileHasInstalledAdapter(profile[p], state.bundle) => r[1].after = profile[p]
  <1> DEFINE b == state.bundle
             added == IF profileHasInstalledAdapter(profile[p], b) THEN {Did(profile[p], TRUE, 0)}
                      ELSE NativeAdd(p, profile[p], b)
             Worked(a) == /\ a.ok /\ profileHasInstalledAdapter(a.after, b)
                          /\ p = op.worker => p \in capable
  <1>1. PICK a \in added :
          r \in IF ~Worked(a) THEN {<<a, Did(a.after, FALSE, 0)>>}
                ELSE {<<a, s>> : s \in RemovePackages(a.after, {"legacy"})}
    BY DEF Installs
  <1>2. /\ GoodManifest(a.after) /\ a.fault \in {0, 1}
        /\ a.after.plugins \subseteq profile[p].plugins \cup {b}
        /\ b \notin bundles => a.after = profile[p]
        /\ profileHasInstalledAdapter(profile[p], b) => a.after = profile[p]
    <2>1. CASE profileHasInstalledAdapter(profile[p], b)
      BY <1>1, <2>1 DEF Did
    <2>2. CASE ~profileHasInstalledAdapter(profile[p], b)
      <3>1. a \in NativeAdd(p, profile[p], b)
        BY <1>1, <2>2
      <3> QED
        BY <2>2, <3>1, NativeAddIs
    <2> QED
      BY <2>1, <2>2
  <1>3. CASE ~Worked(a)
    <2>1. r = <<a, Did(a.after, FALSE, 0)>>
      BY <1>1, <1>3
    <2>2. r[1] = a /\ r[2].after = a.after /\ ~r[2].ok /\ r[2].fault = 0
      BY <2>1 DEF Did
    <2> QED
      BY <1>2, <2>2
  <1>4. CASE Worked(a)
    <2>1. PICK s \in RemovePackages(a.after, {"legacy"}) : r = <<a, s>>
      BY <1>1, <1>4
    <2>2. /\ GoodManifest(s.after) /\ s.fault \in {0, 1} /\ s.after.plugins \subseteq a.after.plugins
          /\ s.ok => ~Mentions(s.after, {"legacy"})
      BY <1>2, <2>1, RemovalIs
    <2>3. a.after.manifest = "valid"
      BY <1>4 DEF profileHasInstalledAdapter
    <2> QED
      BY <1>2, <2>1, <2>2, <2>3
  <1> QED
    BY <1>3, <1>4

LEMMA OffIs ==
  ASSUME NEW b \in Bundles \cup {Own}, NEW ps \in SUBSET Profiles
  PROVE  /\ StateOf(FALSE, b, ps) \in AdapterStates /\ StateOf(FALSE, b, ps).present
         /\ ~StateOf(FALSE, b, ps).enabled /\ StateOf(FALSE, b, ps).bundle = b
         /\ StateOf(FALSE, b, ps).claimed = ps
  BY DEF StateOf, AdapterStates

LEMMA NoStateIs ==
  /\ NoState \in AdapterStates /\ ~NoState.present /\ ~NoState.enabled /\ NoState.claimed = {}
  BY DEF NoState, AdapterStates

LEMMA NoOperationIs ==
  /\ Idle \in Operations /\ Idle.pc = "idle" /\ Idle.todo = {} /\ Idle.residual = {}
  /\ Idle.failed = {} /\ Idle.mutated = {} /\ Idle.prior = NoState
  BY NoStateIs, ProfilesAssumption DEF Idle, Operations

\* The parts of the state that the steps read.
LEMMA ProfilesParts ==
  ASSUME ProfilesInv
  PROVE  /\ state \in AdapterStates /\ state.bundle \in Bundles \cup {Own}
         /\ state.claimed \subseteq Profiles /\ state.enabled \in BOOLEAN
         /\ state.enabled => state.present
         /\ state.present => state.bundle \in bundles
         /\ bundles \subseteq Bundles
         /\ op \in Operations /\ op.prior \in AdapterStates
         /\ op.prior.bundle \in Bundles \cup {Own} /\ op.prior.claimed \subseteq Profiles
         /\ op.todo \subseteq Profiles /\ op.failed \subseteq Profiles
         /\ op.mutated \subseteq Profiles /\ op.residual \subseteq Profiles
         /\ \A p \in Profiles : GoodManifest(profile[p])
         /\ \A p \in Profiles \ unseen : BundlesOf(p) \subseteq bundles
         /\ \A p \in Profiles \ unseen : BundlesOf(p) # {} => p \in state.claimed
         /\ \A p \in Profiles : ~Exists(p) => BundlesOf(p) = {}
  <1>1. /\ state \in AdapterStates /\ op \in Operations
        /\ \A p \in Profiles : GoodManifest(profile[p])
    BY DEF ProfilesInv, ProfilesTypeOK, ManifestInv
  <1>2. /\ state.bundle \in Bundles \cup {Own} /\ state.claimed \subseteq Profiles
        /\ state.enabled \in BOOLEAN
    BY <1>1 DEF AdapterStates
  <1>3. /\ op.prior \in AdapterStates /\ op.todo \subseteq Profiles /\ op.failed \subseteq Profiles
        /\ op.mutated \subseteq Profiles /\ op.residual \subseteq Profiles
    BY <1>1 DEF Operations
  <1>4. op.prior.bundle \in Bundles \cup {Own} /\ op.prior.claimed \subseteq Profiles
    BY <1>3 DEF AdapterStates
  <1>5. \A p \in Profiles : ~Exists(p) => BundlesOf(p) = {}
    BY <1>1 DEF GoodManifest, Exists, BundlesOf
  <1> QED
    BY <1>1, <1>2, <1>3, <1>4, <1>5
    DEF ProfilesInv, ProfilesTypeOK, AdapterStateInv, DshKeepsTrack, OursIsClaimed, UsedBundlesKept,
        BundlesOf

\* Nothing is left to be done when a command is over.
LEMMA IdleKeeps ==
  ASSUME op' = Idle
  PROVE  op' \in Operations /\ OpInv' /\ UpdateInv' /\ DoneInv' /\ RemovalInv'
  BY NoOperationIs DEF OpInv, UpdateInv, DoneInv, RemovalInv

\* A step that leaves the profiles alone and writes the state keeps track when whatever
\* lists a bundle of ours stays claimed.
LEMMA StateWritten ==
  ASSUME ProfilesInv, UNCHANGED <<profile, capable>>, state' \in AdapterStates,
         bundles \subseteq bundles', bundles' \subseteq Bundles,
         op' \in Operations, faults' \in Nat, edits' \in Nat, commands' \in Nat,
         unseen' = unseen,
         ~state'.present => ~state'.enabled /\ state'.claimed = {},
         state'.present => state'.bundle \in bundles',
         \A p \in Profiles \ unseen : BundlesOf(p) # {} => p \in state'.claimed
  PROVE  /\ ProfilesTypeOK' /\ ManifestInv' /\ AdapterStateInv' /\ DshKeepsTrack'
         /\ \A p \in Profiles : BundlesOf(p)' = BundlesOf(p)
  <1>1. \A p \in Profiles : BundlesOf(p)' = BundlesOf(p)
    BY DEF BundlesOf
  <1>2. ProfilesTypeOK' /\ ManifestInv' /\ AdapterStateInv'
    BY DEF ProfilesInv, ProfilesTypeOK, ManifestInv, AdapterStateInv, GoodManifest, Manifests
  <1>3. OursIsClaimed'
    BY DEF OursIsClaimed, BundlesOf
  <1>4. UsedBundlesKept'
    BY ProfilesParts DEF UsedBundlesKept, BundlesOf
  <1> QED
    BY <1>1, <1>2, <1>3, <1>4 DEF DshKeepsTrack

\* A command changes one profile that the state claims, and brings no bundle that is not
\* on the disk.
LEMMA ProfileChanged ==
  ASSUME ProfilesInv, NEW p \in Profiles, NEW q, GoodManifest(q),
         profile' = [profile EXCEPT ![p] = q],
         q.plugins \cap Bundles \subseteq BundlesOf(p) \cup bundles,
         q.plugins \cap Bundles \subseteq BundlesOf(p) \/ p \in state.claimed,
         op' \in Operations, faults' \in Nat, edits' \in Nat, commands' \in Nat,
         unseen \subseteq unseen', unseen' \subseteq Profiles,
         UNCHANGED <<capable, bundles, state>>
  PROVE  /\ ProfilesTypeOK' /\ ManifestInv' /\ AdapterStateInv' /\ DshKeepsTrack'
         /\ \A x \in Profiles \ {p} : BundlesOf(x)' = BundlesOf(x)
         /\ BundlesOf(p)' = q.plugins \cap Bundles
         /\ profile'[p] = q
  <1>1. profile \in [Profiles -> Manifests] /\ q \in Manifests
    BY DEF ProfilesInv, ProfilesTypeOK, GoodManifest
  <1>2. profile'[p] = q /\ \A x \in Profiles \ {p} : profile'[x] = profile[x]
    BY <1>1
  <1>3. /\ \A x \in Profiles \ {p} : BundlesOf(x)' = BundlesOf(x)
        /\ BundlesOf(p)' = q.plugins \cap Bundles
    BY <1>2 DEF BundlesOf
  <1>4. ProfilesTypeOK' /\ AdapterStateInv'
    BY <1>1 DEF ProfilesInv, ProfilesTypeOK, AdapterStateInv
  <1>5. ManifestInv'
    <2>1. \A x \in Profiles : GoodManifest(profile'[x])
      BY <1>2, ProfilesParts
    <2> QED
      BY <2>1 DEF ManifestInv, GoodManifest, Manifests
  <1>6. OursIsClaimed'
    <2>1. \A x \in Profiles \ unseen' : BundlesOf(x)' # {} => x \in state.claimed
      BY <1>3, ProfilesParts
    <2> QED
      BY <2>1 DEF OursIsClaimed, BundlesOf
  <1>7. UsedBundlesKept'
    <2>1. \A x \in Profiles \ unseen' : BundlesOf(x)' \subseteq bundles
      BY <1>3, ProfilesParts
    <2> QED
      BY <2>1, ProfilesParts DEF UsedBundlesKept, BundlesOf
  <1> QED
    BY <1>2, <1>3, <1>4, <1>5, <1>6, <1>7 DEF DshKeepsTrack

LEMMA EnsureRefusedKeeps == ASSUME ProfilesInv, EnsureRefused PROVE ProfilesInv'
  <1> DEFINE off(ps) == StateOf(FALSE, state.bundle, ps)
  <1>1. /\ op' = Idle /\ commands' = commands + 1
        /\ UNCHANGED <<profile, bundles, faults, capable, edits, unseen>>
    BY DEF EnsureRefused, ProfilesBegin, ProfilesReturn
  <1>2. \/ state' = state
        \/ state.present /\ state' = off(state.claimed)
        \/ /\ state.present /\ state' = off({})
           /\ \A p \in state.claimed : profile[p].manifest # "torn" /\ p \notin Discovered
    BY ProfilesParts DEF EnsureRefused, disabledState
  <1>3. (\A p \in state.claimed : profile[p].manifest # "torn" /\ p \notin Discovered) =>
          \A p \in state.claimed : BundlesOf(p) = {}
    BY ProfilesParts DEF Discovered, Exists, GoodManifest, Manifests
  <1>4. /\ off({}) \in AdapterStates /\ off({}).present /\ ~off({}).enabled
        /\ off({}).bundle = state.bundle
        /\ off(state.claimed) \in AdapterStates /\ off(state.claimed).present
        /\ ~off(state.claimed).enabled
        /\ off(state.claimed).bundle = state.bundle /\ off(state.claimed).claimed = state.claimed
    BY ProfilesParts, OffIs
  <1> HIDE DEF off
  <1>5. /\ state' \in AdapterStates
        /\ ~state'.present => ~state'.enabled /\ state'.claimed = {}
        /\ state'.present => state'.bundle \in bundles
        /\ \A p \in Profiles \ unseen : BundlesOf(p) # {} => p \in state'.claimed
    BY <1>2, <1>3, <1>4, ProfilesParts DEF ProfilesInv, AdapterStateInv
  <1>6. /\ op' \in Operations /\ commands' \in Nat /\ faults' \in Nat /\ edits' \in Nat
        /\ bundles \subseteq bundles' /\ bundles' \subseteq Bundles
    BY <1>1, IdleKeeps, ProfilesParts DEF ProfilesInv, ProfilesTypeOK
  <1>7. /\ ProfilesTypeOK' /\ ManifestInv' /\ AdapterStateInv' /\ DshKeepsTrack'
    BY <1>1, <1>5, <1>6, StateWritten
  <1> QED
    BY <1>1, <1>7, IdleKeeps DEF ProfilesInv

\* The state claims every profile that lists a bundle before DSH is called.
LEMMA EnsureBeginsKeeps ==
  ASSUME ProfilesInv, NEW b \in Releases, NEW enable \in BOOLEAN, EnsureBegins(b, enable)
  PROVE  ProfilesInv'
  <1> DEFINE prev == {p \in state.claimed : Exists(p)}
             worker == IF HasWorker(Discovered) THEN CHOOSE p \in Discovered : p \in capable
                       ELSE Headless
             targets == Discovered \cup {worker}
             new == [Idle EXCEPT !.pc = "ensure", !.prior = state, !.prev = prev,
                       !.todo = targets, !.worker = worker,
                       !.initialize = ~HasWorker(Discovered), !.enable = enable]
  <1>1. /\ op.pc = "idle" /\ commands' = commands + 1
        /\ \A p \in state.claimed : profile[p].manifest # "torn"
        /\ bundles' = bundles \cup {b}
        /\ state' = StateOf(FALSE, b, prev \cup targets)
        /\ op' = new
        /\ UNCHANGED <<profile, capable, faults, edits, unseen>>
    BY DEF EnsureBegins, ProfilesBegin
  <1>2. worker \in Profiles
    <2>1. CASE HasWorker(Discovered)
      <3>1. \E p \in Discovered : p \in capable
        BY <2>1 DEF HasWorker
      <3>2. (CHOOSE p \in Discovered : p \in capable) \in Discovered
        BY <3>1
      <3> QED
        BY <2>1, <3>2 DEF Discovered
    <2> QED
      BY <2>1, ProfilesAssumption
  <1>3. /\ prev \subseteq Discovered /\ targets \subseteq Profiles
        /\ prev \cup targets = targets
    <2>1. \A p \in prev : p \in Profiles /\ profile[p].manifest = "valid"
      BY <1>1, ProfilesParts DEF Exists, GoodManifest, Manifests
    <2> QED
      BY <1>2, <2>1 DEF Discovered
  <1> HIDE DEF worker, targets, prev
  <1>4. /\ new \in Operations /\ new.pc = "ensure" /\ new.prior = state /\ new.todo = targets
        /\ new.failed = {} /\ new.mutated = {} /\ new.residual = {}
    <2>1. Idle \in Operations /\ prev \subseteq Profiles
      BY <1>3, NoOperationIs
    <2>2. new \in Operations
      BY <1>2, <1>3, <2>1, ProfilesParts DEF Operations
    <2> QED
      BY <2>1, <2>2, NoOperationIs DEF Operations
  <1> HIDE DEF new
  <1>5. /\ state' \in AdapterStates /\ state'.present /\ state'.bundle = b
        /\ state'.claimed = targets
    <2>1. /\ state' = StateOf(FALSE, b, targets) /\ b \in Bundles \cup {Own}
          /\ targets \in SUBSET Profiles
      BY <1>1, <1>3 DEF Bundles
    <2> QED
      BY <2>1, OffIs
  <1>6. \A p \in Profiles \ unseen : BundlesOf(p) # {} => p \in targets /\ p \in state.claimed
    BY <1>3, ProfilesParts DEF prev
  <1>7. /\ op' \in Operations /\ faults' \in Nat /\ edits' \in Nat /\ commands' \in Nat
        /\ bundles \subseteq bundles' /\ bundles' \subseteq Bundles
    BY <1>1, <1>4, ProfilesParts DEF ProfilesInv, ProfilesTypeOK, Bundles
  <1>8. /\ ProfilesTypeOK' /\ ManifestInv' /\ AdapterStateInv' /\ DshKeepsTrack'
        /\ \A p \in Profiles : BundlesOf(p)' = BundlesOf(p)
    BY <1>1, <1>5, <1>6, <1>7, StateWritten
  <1>9. OpInv'
    BY <1>1, <1>4, <1>5, ProfilesParts DEF OpInv
  <1>10. UpdateInv' /\ DoneInv' /\ RemovalInv'
    BY <1>1, <1>4, <1>5, <1>6, <1>8 DEF UpdateInv, DoneInv, RemovalInv
  <1> QED
    BY <1>8, <1>9, <1>10 DEF ProfilesInv

\* After one target: what it lists is the bundle, or it is known to have failed; what it
\* lists anew is known to be changed, or nobody can read it.
LEMMA EnsureProfileKeeps ==
  ASSUME ProfilesInv, NEW p \in Profiles, EnsureProfile(p) PROVE ProfilesInv'
  <1>1. /\ op.pc = "ensure" /\ p \in op.todo /\ p \in state.claimed
        /\ state.bundle \in Releases /\ state.bundle \in bundles
        /\ UNCHANGED <<capable, edits, commands, bundles, state>>
    BY ProfilesParts DEF EnsureProfile, Keeps, ProfilesInv, OpInv
  <1>2. CASE /\ op' = [op EXCEPT !.todo = @ \ {p}, !.failed = @ \cup {p}]
             /\ UNCHANGED <<profile, faults, unseen>>
    <2>1. /\ op' \in Operations /\ op'.pc = "ensure" /\ op'.prior = op.prior
          /\ op'.todo = op.todo \ {p} /\ op'.failed = op.failed \cup {p}
          /\ op'.mutated = op.mutated /\ op'.residual = op.residual
      BY <1>1, <1>2, ProfilesParts DEF Operations
    <2>2. \A x \in Profiles : BundlesOf(x)' = BundlesOf(x)
      BY <1>2 DEF BundlesOf
    <2>3. ProfilesTypeOK' /\ ManifestInv' /\ AdapterStateInv' /\ DshKeepsTrack'
      BY <1>1, <1>2, <2>1, StateWritten, ProfilesParts
      DEF ProfilesInv, ProfilesTypeOK, AdapterStateInv
    <2>4. OpInv'
      BY <1>1, <2>1 DEF ProfilesInv, OpInv
    <2>5. UpdateInv' /\ RemovalInv'
      BY <1>1, <1>2, <2>1, <2>2 DEF ProfilesInv, UpdateInv, RemovalInv
    <2>6. DoneInv'
      BY <1>1, <2>1, <2>2, ProfilesParts DEF ProfilesInv, DoneInv
    <2> QED
      BY <2>3, <2>4, <2>5, <2>6 DEF ProfilesInv
  <1> DEFINE has == profileHasInstalledAdapter(profile[p], state.bundle)
             Touched(r) == \/ ~has /\ (p \in op.prev \/ profileMentionsAdapter(r[1].after))
                           \/ Mentions(r[1].after, {"legacy"}) /\ r[1].ok
             Fine(r) == r[2].ok /\ profileHasInstalledAdapter(r[2].after, state.bundle)
  <1>3. ASSUME NEW r \in Installs(p),
               faults' = faults + r[1].fault + r[2].fault,
               profile' = [profile EXCEPT ![p] = r[2].after],
               op' = [op EXCEPT !.todo = @ \ {p},
                        !.mutated = IF Touched(r) THEN @ \cup {p} ELSE @,
                        !.failed = IF Fine(r) THEN @ ELSE @ \cup {p}],
               unseen' = IF r[2].after.manifest = "torn" /\ ~Touched(r)
                         THEN unseen \cup {p} ELSE unseen
        PROVE  ProfilesInv'
    <2> DEFINE q == r[2].after
    <2>1. /\ GoodManifest(q) /\ GoodManifest(r[1].after)
          /\ q.plugins \subseteq r[1].after.plugins
          /\ r[1].after.plugins \subseteq profile[p].plugins \cup {state.bundle}
          /\ r[1].fault \in {0, 1} /\ r[2].fault \in {0, 1}
          /\ r[1].after.manifest # "valid" => q = r[1].after
          /\ r[2].ok => ~Mentions(q, {"legacy"})
          /\ has => r[1].after = profile[p]
      BY <1>1, InstallsIs, ProfilesParts DEF Bundles
    <2>2. /\ op' \in Operations /\ op'.pc = "ensure" /\ op'.prior = op.prior
          /\ op'.todo = op.todo \ {p} /\ op'.residual = op.residual
          /\ op'.failed = IF Fine(r) THEN op.failed ELSE op.failed \cup {p}
          /\ op'.mutated = IF Touched(r) THEN op.mutated \cup {p} ELSE op.mutated
      <3> HIDE DEF Touched, Fine
      <3> QED
        BY <1>1, <1>3, ProfilesParts DEF Operations
    <2>3. BundlesOf(p)' \subseteq BundlesOf(p) \cup {state.bundle}
      BY <1>3, <2>1 DEF BundlesOf, ProfilesInv, ProfilesTypeOK
    <2>4. /\ faults' \in Nat /\ edits' \in Nat /\ commands' \in Nat
          /\ unseen \subseteq unseen' /\ unseen' \subseteq Profiles
      <3> HIDE DEF Touched
      <3> QED
        BY <1>1, <1>3, <2>1 DEF ProfilesInv, ProfilesTypeOK
    <2>5. q.plugins \cap Bundles \subseteq BundlesOf(p) \cup bundles
      BY <1>1, <2>1 DEF BundlesOf
    <2>6. /\ ProfilesTypeOK' /\ ManifestInv' /\ AdapterStateInv' /\ DshKeepsTrack'
          /\ \A x \in Profiles \ {p} : BundlesOf(x)' = BundlesOf(x)
          /\ BundlesOf(p)' = q.plugins \cap Bundles
      BY <1>1, <1>3, <2>1, <2>2, <2>4, <2>5, ProfileChanged
    <2>7. OpInv'
      <3>1. op'.mutated \subseteq state.claimed /\ op'.todo \subseteq state.claimed
        <4> HIDE DEF Touched
        <4> QED
          BY <1>1, <2>2 DEF ProfilesInv, OpInv
      <3> QED
        BY <1>1, <2>2, <3>1 DEF ProfilesInv, OpInv
    <2>8. UpdateInv'
      <3>1. \A x \in Profiles \ {p} : x \in Profiles \ unseen' /\ BundlesOf(x)' # {} =>
              x \in op'.prior.claimed \cup op'.mutated
        <4> HIDE DEF Touched
        <4> QED
          BY <1>1, <2>2, <2>4, <2>6 DEF ProfilesInv, UpdateInv
      <3>2. p \notin unseen' /\ BundlesOf(p)' # {} => p \in op'.prior.claimed \cup op'.mutated
        <4>1. SUFFICES ASSUME p \notin unseen', BundlesOf(p)' # {}, BundlesOf(p) = {}
                       PROVE  p \in op'.prior.claimed \cup op'.mutated
          <5> HIDE DEF Touched
          <5> QED
            BY <1>1, <2>2, <2>4 DEF ProfilesInv, UpdateInv
        <4>2. ~has
          BY <1>1, <4>1 DEF profileHasInstalledAdapter, BundlesOf, Bundles
        <4>3. r[1].after.plugins # {}
          BY <2>1, <2>6, <4>1
        <4>4. CASE r[1].after.manifest = "valid"
          BY <2>2, <4>2, <4>3, <4>4 DEF profileMentionsAdapter
        <4>5. CASE r[1].after.manifest # "valid"
          <5>1. q.manifest = "torn"
            BY <2>1, <4>3, <4>5 DEF GoodManifest, Manifests
          <5>2. Touched(r)
            BY <1>3, <4>1, <5>1
          <5> HIDE DEF Touched
          <5> QED
            BY <2>2, <5>2
        <4> QED
          BY <4>4, <4>5
      <3> QED
        BY <2>2, <3>1, <3>2 DEF UpdateInv
    <2>9. DoneInv'
      <3>1. \A x \in state.claimed \ (op'.todo \cup op'.failed) :
              x # p => BundlesOf(x)' \subseteq {state.bundle}
        <4> HIDE DEF Fine
        <4> QED
          BY <1>1, <2>2, <2>6, ProfilesParts DEF ProfilesInv, DoneInv
      <3>2. p \notin op'.failed => BundlesOf(p)' \subseteq {state.bundle}
        <4>1. SUFFICES ASSUME p \notin op'.failed PROVE BundlesOf(p)' \subseteq {state.bundle}
          OBVIOUS
        <4>2. Fine(r)
          <5> HIDE DEF Fine
          <5> QED
            BY <2>2, <4>1
        <4>3. state.bundle \in q.plugins /\ ~Mentions(q, {"legacy"})
          BY <2>1, <4>2 DEF profileHasInstalledAdapter
        <4>4. \A b \in q.plugins : packageName(b) = packageName(state.bundle)
          BY <1>1, <4>3, ProfilesAssumption DEF Mentions, packageName
        <4> QED
          BY <2>1, <2>6, <4>3, <4>4 DEF GoodManifest
      <3> QED
        BY <1>1, <2>2, <3>1, <3>2 DEF DoneInv
    <2>10. RemovalInv'
      BY <2>2 DEF RemovalInv
    <2> QED
      BY <2>6, <2>7, <2>8, <2>9, <2>10 DEF ProfilesInv
  <1> QED
    BY <1>2, <1>3 DEF EnsureProfile, Apply

\* An update that ends well has given the new bundle, and no other, to every profile that
\* lists one, so the others may go.
LEMMA EnsureEndsKeeps == ASSUME ProfilesInv, EnsureEnds PROVE ProfilesInv'
  <1> DEFINE present == {p \in state.claimed : Exists(p)}
             failed == op.failed \cup
                       {p \in present : ~profileHasInstalledAdapter(profile[p], state.bundle)} \cup
                       (IF HasWorker(state.claimed) THEN {} ELSE {op.worker})
             on == op.enable /\ failed = {} /\ present # {}
  <1>1. /\ op.pc = "ensure" /\ op.todo = {} /\ state.present
        /\ UNCHANGED <<profile, bundles, faults, unseen, capable, edits, commands>>
    BY DEF EnsureEnds, Keeps, ProfilesInv, OpInv
  <1>2. \A p \in Profiles \ unseen : BundlesOf(p) # {} => p \in present
    BY ProfilesParts
  <1>3. failed = {} => \A p \in Profiles \ unseen : BundlesOf(p) \subseteq {state.bundle}
    BY <1>1, <1>2 DEF ProfilesInv, DoneInv
  <1>4. \/ /\ op.prior.present /\ op' = [op EXCEPT !.pc = "rollback", !.todo = op.mutated]
           /\ UNCHANGED state
        \/ /\ state' = [state EXCEPT !.enabled = on, !.claimed = present]
           /\ op' = Idle \/ (failed = {} /\ op' = [op EXCEPT !.pc = "prune"])
    BY DEF EnsureEnds, Goto, ProfilesReturn
  <1>5. present \subseteq Profiles /\ on \in BOOLEAN
    BY ProfilesParts
  <1> HIDE DEF present, failed, on
  <1>6. /\ faults' \in Nat /\ edits' \in Nat /\ commands' \in Nat /\ bundles' \subseteq Bundles
    BY <1>1 DEF ProfilesInv, ProfilesTypeOK
  <1>7. CASE /\ op.prior.present /\ op' = [op EXCEPT !.pc = "rollback", !.todo = op.mutated]
             /\ UNCHANGED state
    <2>1. /\ op' \in Operations /\ op'.pc = "rollback" /\ op'.todo = op.mutated
          /\ op'.prior = op.prior
      BY <1>7, ProfilesParts DEF Operations
    <2>2. /\ ProfilesTypeOK' /\ ManifestInv' /\ AdapterStateInv' /\ DshKeepsTrack'
          /\ \A p \in Profiles : BundlesOf(p)' = BundlesOf(p)
      BY <1>1, <1>6, <1>7, <2>1, StateWritten, ProfilesParts DEF ProfilesInv, AdapterStateInv
    <2>3. OpInv' /\ UpdateInv' /\ DoneInv' /\ RemovalInv'
      BY <1>1, <1>7, <2>1, <2>2
      DEF ProfilesInv, OpInv, UpdateInv, DoneInv, RemovalInv
    <2> QED
      BY <2>2, <2>3 DEF ProfilesInv
  <1>8. CASE /\ state' = [state EXCEPT !.enabled = on, !.claimed = present]
             /\ op' = Idle \/ (failed = {} /\ op' = [op EXCEPT !.pc = "prune"])
    <2>1. /\ state' \in AdapterStates /\ state'.present /\ state'.bundle = state.bundle
          /\ state'.claimed = present
      BY <1>1, <1>5, <1>8, ProfilesParts DEF AdapterStates
    <2>2. op' \in Operations /\ op'.pc \in {"idle", "prune"} /\ (op'.pc = "prune" => failed = {})
          /\ (op'.pc = "idle" => op' = Idle)
      BY <1>8, NoOperationIs, ProfilesParts DEF Operations
    <2>3. /\ ProfilesTypeOK' /\ ManifestInv' /\ AdapterStateInv' /\ DshKeepsTrack'
          /\ \A p \in Profiles : BundlesOf(p)' = BundlesOf(p)
      BY <1>1, <1>2, <1>6, <2>1, <2>2, StateWritten, ProfilesParts
    <2>4. OpInv' /\ UpdateInv' /\ RemovalInv'
      BY <2>1, <2>2 DEF OpInv, UpdateInv, RemovalInv
    <2>5. DoneInv'
      BY <1>1, <1>3, <2>1, <2>2, <2>3 DEF DoneInv
    <2> QED
      BY <2>3, <2>4, <2>5 DEF ProfilesInv
  <1> QED
    BY <1>4, <1>7, <1>8

\* Only bundles that no profile lists any more go, and never the one of the state.
LEMMA BundlesGo ==
  ASSUME ProfilesInv, op' = Idle, UNCHANGED <<profile, state, faults, unseen, capable, edits, commands>>,
         bundles' \subseteq bundles, state.present => state.bundle \in bundles',
         \A p \in Profiles \ unseen : BundlesOf(p) \subseteq bundles'
  PROVE  ProfilesInv'
  <1>1. ProfilesTypeOK' /\ ManifestInv' /\ AdapterStateInv'
    BY NoOperationIs
    DEF ProfilesInv, ProfilesTypeOK, ManifestInv, AdapterStateInv, GoodManifest, Manifests
  <1>2. DshKeepsTrack'
    BY DEF ProfilesInv, DshKeepsTrack, OursIsClaimed, UsedBundlesKept, BundlesOf
  <1> QED
    BY <1>1, <1>2, IdleKeeps DEF ProfilesInv

LEMMA PruneKeeps == ASSUME ProfilesInv, Prune PROVE ProfilesInv'
  <1>1. PICK gone \in SUBSET (bundles \ {state.bundle}) : bundles' = bundles \ gone
    BY DEF Prune
  <1>2. /\ op.pc = "prune" /\ op' = Idle
        /\ UNCHANGED <<profile, state, faults, unseen, capable, edits, commands>>
    BY DEF Prune, Keeps, ProfilesReturn
  <1>3. \A p \in Profiles \ unseen : BundlesOf(p) \subseteq {state.bundle}
    BY <1>2 DEF ProfilesInv, DoneInv
  <1> QED
    BY <1>1, <1>2, <1>3, BundlesGo, ProfilesParts

LEMMA UnlinkKeeps == ASSUME ProfilesInv, Unlink PROVE ProfilesInv'
  <1>1. /\ op.pc = "unlink" /\ op' = Idle /\ bundles' \in {{}, bundles}
        /\ UNCHANGED <<profile, state, faults, unseen, capable, edits, commands>>
    BY DEF Unlink, Keeps, ProfilesReturn
  <1>2. \A p \in Profiles \ unseen : BundlesOf(p) = {}
    BY <1>1 DEF ProfilesInv, RemovalInv
  <1>3. ~state.present
    BY <1>1 DEF ProfilesInv, OpInv
  <1> QED
    BY <1>1, <1>2, <1>3, BundlesGo, ProfilesParts

\* A profile of the prior state stays claimed; of another one nothing is left, or it is
\* claimed in addition.
LEMMA RollbackProfileKeeps ==
  ASSUME ProfilesInv, NEW p \in Profiles, RollbackProfile(p) PROVE ProfilesInv'
  <1>1. /\ op.pc = "rollback" /\ p \in op.todo /\ p \in state.claimed
        /\ op.prior.present /\ op.prior.bundle \in bundles
        /\ UNCHANGED <<bundles, state, unseen, capable, edits, commands>>
    BY DEF RollbackProfile, Keeps, ProfilesInv, OpInv
  <1>2. CASE p \in op.prior.claimed
    <2>1. PICK r \in NativeAdd(p, profile[p], op.prior.bundle) :
          \E s \in IF r.ok /\ r.after.manifest = "valid" /\ op.prior.bundle \in r.after.plugins
                   THEN RemovePackages(r.after, Other(op.prior.bundle))
                   ELSE {Did(r.after, FALSE, 0)} :
            /\ faults + r.fault + s.fault <= MaxFaults
            /\ faults' = faults + r.fault + s.fault
            /\ Apply(p, s)
            /\ op' = [op EXCEPT !.todo = @ \ {p}]
      BY <1>2 DEF RollbackProfile
    <2>2. /\ GoodManifest(r.after) /\ r.fault \in {0, 1}
          /\ r.after.plugins \subseteq profile[p].plugins \cup {op.prior.bundle}
      BY <1>1, <2>1, NativeAddIs, ProfilesParts
    <2>3. PICK s \in IF r.ok /\ r.after.manifest = "valid" /\ op.prior.bundle \in r.after.plugins
                     THEN RemovePackages(r.after, Other(op.prior.bundle))
                     ELSE {Did(r.after, FALSE, 0)} :
            /\ faults' = faults + r.fault + s.fault
            /\ Apply(p, s)
            /\ op' = [op EXCEPT !.todo = @ \ {p}]
      BY <2>1
    <2>4. /\ GoodManifest(s.after) /\ s.fault \in {0, 1}
          /\ s.after.plugins \subseteq r.after.plugins
      <3>1. s \in RemovePackages(r.after, Other(op.prior.bundle)) \/ s = Did(r.after, FALSE, 0)
        BY <2>3
      <3> QED
        BY <2>2, <3>1, RemovalIs DEF Did
    <2>5. /\ op' \in Operations /\ op'.pc = "rollback" /\ op'.prior = op.prior
          /\ op'.todo = op.todo \ {p} /\ op'.residual = op.residual
      BY <1>1, <2>3, ProfilesParts DEF Operations
    <2>6. /\ faults' \in Nat /\ edits' \in Nat /\ commands' \in Nat
          /\ unseen \subseteq unseen' /\ unseen' \subseteq Profiles
      BY <1>1, <2>2, <2>3, <2>4 DEF ProfilesInv, ProfilesTypeOK
    <2>7. s.after.plugins \cap Bundles \subseteq BundlesOf(p) \cup bundles
      BY <1>1, <2>2, <2>4 DEF BundlesOf
    <2>8. profile' = [profile EXCEPT ![p] = s.after]
      BY <2>3 DEF Apply
    <2>9. /\ ProfilesTypeOK' /\ ManifestInv' /\ AdapterStateInv' /\ DshKeepsTrack'
          /\ \A x \in Profiles \ {p} : BundlesOf(x)' = BundlesOf(x)
      BY <1>1, <2>4, <2>5, <2>6, <2>7, <2>8, ProfileChanged
    <2>10. OpInv' /\ DoneInv' /\ RemovalInv'
      BY <1>1, <2>5 DEF ProfilesInv, OpInv, DoneInv, RemovalInv
    <2>11. UpdateInv'
      BY <1>1, <1>2, <2>5, <2>9 DEF ProfilesInv, UpdateInv
    <2> QED
      BY <2>9, <2>10, <2>11 DEF ProfilesInv
  <1>3. CASE p \notin op.prior.claimed
    <2> DEFINE Left(q) == q.manifest = "torn" \/ profileMentionsAdapter(q)
    <2>1. PICK r \in RemovePackages(profile[p], Managed) :
            /\ faults' = faults + r.fault
            /\ Apply(p, r)
            /\ op' = [op EXCEPT !.todo = @ \ {p},
                 !.residual = IF Left(r.after) THEN @ \cup {p} ELSE @]
      BY <1>3 DEF RollbackProfile
    <2>2. /\ GoodManifest(r.after) /\ r.fault \in {0, 1}
          /\ r.after.plugins \subseteq profile[p].plugins
      BY <2>1, RemovalIs, ProfilesParts
    <2>3. ~Left(r.after) => r.after.plugins = {}
      BY <2>2 DEF GoodManifest, Manifests, profileMentionsAdapter
    <2> HIDE DEF Left
    <2>4. /\ op' \in Operations /\ op'.pc = "rollback" /\ op'.prior = op.prior
          /\ op'.todo = op.todo \ {p}
          /\ op'.residual = IF Left(r.after) THEN op.residual \cup {p} ELSE op.residual
      BY <1>1, <2>1, ProfilesParts DEF Operations
    <2>5. /\ faults' \in Nat /\ edits' \in Nat /\ commands' \in Nat
          /\ unseen \subseteq unseen' /\ unseen' \subseteq Profiles
      BY <1>1, <2>1, <2>2 DEF ProfilesInv, ProfilesTypeOK
    <2>6. r.after.plugins \cap Bundles \subseteq BundlesOf(p)
      BY <2>2 DEF BundlesOf
    <2>7. profile' = [profile EXCEPT ![p] = r.after]
      BY <2>1 DEF Apply
    <2>8. /\ ProfilesTypeOK' /\ ManifestInv' /\ AdapterStateInv' /\ DshKeepsTrack'
          /\ \A x \in Profiles \ {p} : BundlesOf(x)' = BundlesOf(x)
          /\ BundlesOf(p)' = r.after.plugins \cap Bundles
      BY <1>1, <2>2, <2>4, <2>5, <2>6, <2>7, ProfileChanged
    <2>9. OpInv' /\ DoneInv' /\ RemovalInv'
      BY <1>1, <2>4 DEF ProfilesInv, OpInv, DoneInv, RemovalInv
    <2>10. UpdateInv'
      BY <1>1, <2>3, <2>4, <2>8 DEF ProfilesInv, UpdateInv
    <2> QED
      BY <2>8, <2>9, <2>10 DEF ProfilesInv
  <1> QED
    BY <1>2, <1>3

LEMMA RollbackWritesKeeps == ASSUME ProfilesInv, RollbackWrites PROVE ProfilesInv'
  <1>1. /\ op.pc = "rollback" /\ op.todo = {} /\ op.prior.present /\ op.prior.bundle \in bundles
        /\ state' = [op.prior EXCEPT !.claimed = @ \cup op.residual, !.enabled = FALSE]
        /\ op' = [op EXCEPT !.pc = "restored"]
        /\ UNCHANGED <<profile, bundles, faults, unseen, capable, edits, commands>>
    BY DEF RollbackWrites, Keeps, Goto, ProfilesInv, OpInv
  <1>2. /\ state' \in AdapterStates /\ state'.present /\ state'.bundle = op.prior.bundle
        /\ state'.claimed = op.prior.claimed \cup op.residual
    BY <1>1, ProfilesParts DEF AdapterStates
  <1>3. /\ op' \in Operations /\ op'.pc = "restored" /\ op'.prior = op.prior
        /\ op'.residual = op.residual
    BY <1>1, ProfilesParts DEF Operations
  <1>4. \A p \in Profiles \ unseen : BundlesOf(p) # {} => p \in state'.claimed
    BY <1>1, <1>2 DEF ProfilesInv, UpdateInv
  <1>5. /\ faults' \in Nat /\ edits' \in Nat /\ commands' \in Nat /\ bundles' \subseteq Bundles
    BY <1>1 DEF ProfilesInv, ProfilesTypeOK
  <1>6. ProfilesTypeOK' /\ ManifestInv' /\ AdapterStateInv' /\ DshKeepsTrack'
    BY <1>1, <1>2, <1>3, <1>4, <1>5, StateWritten
  <1>7. OpInv' /\ UpdateInv' /\ DoneInv' /\ RemovalInv'
    BY <1>2, <1>3 DEF OpInv, UpdateInv, DoneInv, RemovalInv
  <1> QED
    BY <1>6, <1>7 DEF ProfilesInv

\* A command that ends, with at most another authority.
LEMMA AuthorityWritten ==
  ASSUME ProfilesInv, op' = Idle, state' \in AdapterStates, state'.present = state.present,
         state'.bundle = state.bundle, state'.claimed = state.claimed,
         state'.enabled => state.present,
         UNCHANGED <<profile, bundles, faults, unseen, capable, edits>>, commands' \in Nat
  PROVE  ProfilesInv'
  <1>1. /\ op' \in Operations /\ faults' \in Nat /\ edits' \in Nat /\ bundles' \subseteq Bundles
    BY IdleKeeps DEF ProfilesInv, ProfilesTypeOK
  <1>2. ~state'.present => ~state'.enabled /\ state'.claimed = {}
    BY DEF ProfilesInv, AdapterStateInv
  <1>3. ProfilesTypeOK' /\ ManifestInv' /\ AdapterStateInv' /\ DshKeepsTrack'
    BY <1>1, <1>2, StateWritten, ProfilesParts
  <1> QED
    BY <1>3, IdleKeeps DEF ProfilesInv

LEMMA RollbackVerifiesKeeps == ASSUME ProfilesInv, RollbackVerifies PROVE ProfilesInv'
  <1>1. /\ op.pc = "restored" /\ state.present /\ op' = Idle
        /\ UNCHANGED <<profile, bundles, faults, unseen, capable, edits, commands>>
        /\ state' = [state EXCEPT !.enabled = op.prior.enabled] \/ state' = state
    BY DEF RollbackVerifies, Keeps, ProfilesReturn, ProfilesInv, OpInv
  <1>2. /\ state' \in AdapterStates /\ state'.present = state.present
        /\ state'.bundle = state.bundle /\ state'.claimed = state.claimed
    BY <1>1, ProfilesParts DEF AdapterStates
  <1> QED
    BY <1>1, <1>2, AuthorityWritten DEF ProfilesInv, ProfilesTypeOK

LEMMA SwitchKeeps ==
  ASSUME ProfilesInv, ActivateProfiles \/ QuiesceProfiles \/ ProfilesKilled PROVE ProfilesInv'
  <1>1. /\ op' = Idle /\ UNCHANGED <<profile, bundles, faults, unseen, capable, edits>>
        /\ commands' \in Nat
    BY DEF ActivateProfiles, QuiesceProfiles, ProfilesKilled, ProfilesBegin, ProfilesReturn, Keeps,
           ProfilesInv, ProfilesTypeOK
  <1>2. /\ state' \in AdapterStates /\ state'.present = state.present
        /\ state'.bundle = state.bundle /\ state'.claimed = state.claimed
        /\ state'.enabled => state.present
    <2>1. CASE ActivateProfiles
      BY <2>1, ProfilesParts DEF ActivateProfiles, AdapterStates
    <2>2. CASE QuiesceProfiles
      BY <2>2, ProfilesParts, OffIs DEF QuiesceProfiles, disabledState
    <2>3. CASE ProfilesKilled
      BY <2>3, ProfilesParts DEF ProfilesKilled
    <2> QED
      BY <2>1, <2>2, <2>3
  <1> QED
    BY <1>1, <1>2, AuthorityWritten

LEMMA DisableBeginsKeeps ==
  ASSUME ProfilesInv, NEW next \in {"disable", "remove"}, DisableBegins(next) PROVE ProfilesInv'
  <1> DEFINE new == [Idle EXCEPT !.pc = next, !.todo = state.claimed]
  <1>1. /\ state.present /\ commands' = commands + 1
        /\ state' = StateOf(FALSE, state.bundle, state.claimed) /\ op' = new
        /\ UNCHANGED <<profile, bundles, capable, faults, edits, unseen>>
    BY DEF DisableBegins, ProfilesBegin, disabledState
  <1>2. /\ new \in Operations /\ new.pc = next /\ new.todo = state.claimed /\ new.failed = {}
    BY NoOperationIs, ProfilesParts DEF Operations
  <1>3. /\ state' \in AdapterStates /\ state'.present /\ state'.bundle = state.bundle
        /\ state'.claimed = state.claimed
    BY <1>1, OffIs, ProfilesParts
  <1>4. /\ faults' \in Nat /\ edits' \in Nat /\ commands' \in Nat /\ bundles' \subseteq Bundles
    BY <1>1 DEF ProfilesInv, ProfilesTypeOK
  <1> HIDE DEF new
  <1>5. /\ ProfilesTypeOK' /\ ManifestInv' /\ AdapterStateInv' /\ DshKeepsTrack'
        /\ \A p \in Profiles : BundlesOf(p)' = BundlesOf(p)
    BY <1>1, <1>2, <1>3, <1>4, StateWritten, ProfilesParts
  <1>6. OpInv' /\ UpdateInv' /\ DoneInv'
    BY <1>1, <1>2, <1>3 DEF OpInv, UpdateInv, DoneInv
  <1>7. RemovalInv'
    BY <1>1, <1>2, <1>5, ProfilesParts DEF RemovalInv
  <1> QED
    BY <1>5, <1>6, <1>7 DEF ProfilesInv

\* A profile is dealt with: nothing of ours is left in it, or it is known to have failed.
LEMMA DisableProfileKeeps ==
  ASSUME ProfilesInv, NEW p \in Profiles, DisableProfile(p) PROVE ProfilesInv'
  <1>1. /\ op.pc \in {"disable", "remove"} /\ p \in op.todo /\ p \in state.claimed
        /\ UNCHANGED <<bundles, state, unseen, capable, edits, commands>>
    BY DEF DisableProfile, Keeps, ProfilesInv, OpInv
  <1>2. PICK r \in RemovePackages(profile[p], Managed) :
          /\ faults' = faults + r.fault
          /\ Apply(p, r)
          /\ op' = [op EXCEPT !.todo = @ \ {p}, !.failed = IF r.ok THEN @ ELSE @ \cup {p}]
    BY DEF DisableProfile
  <1>3. /\ GoodManifest(r.after) /\ r.fault \in {0, 1}
        /\ r.after.plugins \subseteq profile[p].plugins
        /\ r.ok => r.after.plugins = {}
    BY <1>2, RemovalIs, NoneLeft, ProfilesParts
  <1>4. /\ op' \in Operations /\ op'.pc = op.pc /\ op'.prior = op.prior
        /\ op'.todo = op.todo \ {p}
        /\ op'.failed = IF r.ok THEN op.failed ELSE op.failed \cup {p}
    BY <1>1, <1>2, ProfilesParts DEF Operations
  <1>5. /\ faults' \in Nat /\ edits' \in Nat /\ commands' \in Nat
        /\ unseen \subseteq unseen' /\ unseen' \subseteq Profiles
    BY <1>1, <1>2, <1>3 DEF ProfilesInv, ProfilesTypeOK
  <1>6. /\ r.after.plugins \cap Bundles \subseteq BundlesOf(p)
        /\ profile' = [profile EXCEPT ![p] = r.after]
    BY <1>2, <1>3 DEF BundlesOf, Apply
  <1>7. /\ ProfilesTypeOK' /\ ManifestInv' /\ AdapterStateInv' /\ DshKeepsTrack'
        /\ \A x \in Profiles \ {p} : BundlesOf(x)' = BundlesOf(x)
        /\ BundlesOf(p)' = r.after.plugins \cap Bundles
    BY <1>1, <1>3, <1>4, <1>5, <1>6, ProfileChanged
  <1>8. OpInv' /\ UpdateInv' /\ DoneInv'
    BY <1>1, <1>4 DEF ProfilesInv, OpInv, UpdateInv, DoneInv
  <1>9. RemovalInv'
    BY <1>1, <1>3, <1>4, <1>7 DEF ProfilesInv, RemovalInv
  <1> QED
    BY <1>7, <1>8, <1>9 DEF ProfilesInv

LEMMA DisableSkipsKeeps ==
  ASSUME ProfilesInv, NEW p \in Profiles, DisableSkips(p) PROVE ProfilesInv'
  <1>1. /\ op.pc \in {"disable", "remove"} /\ p \in op.todo
        /\ op' = [op EXCEPT !.todo = @ \ {p}, !.failed = @ \cup {p}]
        /\ UNCHANGED <<profile, bundles, state, faults, unseen, capable, edits, commands>>
    BY DEF DisableSkips, Keeps
  <1>2. /\ op' \in Operations /\ op'.pc = op.pc /\ op'.prior = op.prior
        /\ op'.todo = op.todo \ {p} /\ op'.failed = op.failed \cup {p}
    BY <1>1, ProfilesParts DEF Operations
  <1>3. /\ faults' \in Nat /\ edits' \in Nat /\ commands' \in Nat /\ bundles' \subseteq Bundles
    BY <1>1 DEF ProfilesInv, ProfilesTypeOK
  <1>4. /\ ProfilesTypeOK' /\ ManifestInv' /\ AdapterStateInv' /\ DshKeepsTrack'
        /\ \A x \in Profiles : BundlesOf(x)' = BundlesOf(x)
    BY <1>1, <1>2, <1>3, StateWritten, ProfilesParts DEF ProfilesInv, AdapterStateInv
  <1>5. OpInv' /\ UpdateInv' /\ DoneInv' /\ RemovalInv'
    BY <1>1, <1>2, <1>4 DEF ProfilesInv, OpInv, UpdateInv, DoneInv, RemovalInv
  <1> QED
    BY <1>4, <1>5 DEF ProfilesInv

\* The profiles with which a removal has failed stay claimed.
LEMMA DisableEndsKeeps == ASSUME ProfilesInv, DisableEnds PROVE ProfilesInv'
  <1> DEFINE off(ps) == StateOf(FALSE, state.bundle, ps)
  <1>1. /\ op.pc \in {"disable", "remove"} /\ op.todo = {} /\ state.present
        /\ UNCHANGED <<profile, bundles, faults, unseen, capable, edits, commands>>
    BY DEF DisableEnds, Keeps, ProfilesInv, OpInv
  <1>2. \/ op' = Idle /\ state' = off(op.failed)
        \/ op' = Idle /\ state' = off({}) /\ op.failed = {}
        \/ op' = [op EXCEPT !.pc = "unlink"] /\ state' = NoState /\ op.failed = {}
    BY DEF DisableEnds, disabledState, ProfilesReturn, Goto
  <1>3. /\ off({}) \in AdapterStates /\ off({}).present
        /\ off({}).bundle = state.bundle
        /\ off(op.failed) \in AdapterStates /\ off(op.failed).present
        /\ off(op.failed).bundle = state.bundle /\ off(op.failed).claimed = op.failed
    BY OffIs, ProfilesParts
  <1> HIDE DEF off
  <1>4. \A p \in Profiles \ unseen : BundlesOf(p) # {} => p \in op.failed
    BY <1>1 DEF ProfilesInv, RemovalInv
  <1>5. /\ faults' \in Nat /\ edits' \in Nat /\ commands' \in Nat /\ bundles' \subseteq Bundles
    BY <1>1 DEF ProfilesInv, ProfilesTypeOK
  <1>6. CASE op' = Idle
    <2>1. /\ state' \in AdapterStates /\ state'.present /\ state'.bundle = state.bundle
          /\ \A p \in Profiles \ unseen : BundlesOf(p) # {} => p \in state'.claimed
      <3>1. [op EXCEPT !.pc = "unlink"] # Idle
        BY NoOperationIs, ProfilesParts DEF Operations
      <3> QED
        BY <1>2, <1>3, <1>4, <1>6, <3>1
    <2>2. ProfilesTypeOK' /\ ManifestInv' /\ AdapterStateInv' /\ DshKeepsTrack'
      BY <1>1, <1>5, <1>6, <2>1, IdleKeeps, StateWritten, ProfilesParts
    <2> QED
      BY <1>6, <2>2, IdleKeeps DEF ProfilesInv
  <1>7. CASE op' = [op EXCEPT !.pc = "unlink"] /\ state' = NoState /\ op.failed = {}
    <2>1. op' \in Operations /\ op'.pc = "unlink"
      BY <1>7, ProfilesParts DEF Operations
    <2>2. /\ ProfilesTypeOK' /\ ManifestInv' /\ AdapterStateInv' /\ DshKeepsTrack'
          /\ \A p \in Profiles : BundlesOf(p)' = BundlesOf(p)
      BY <1>1, <1>4, <1>5, <1>7, <2>1, NoStateIs, StateWritten, ProfilesParts
    <2>3. OpInv' /\ UpdateInv' /\ DoneInv'
      BY <1>7, <2>1, NoStateIs DEF OpInv, UpdateInv, DoneInv
    <2>4. RemovalInv'
      BY <1>1, <1>4, <1>7, <2>1, <2>2 DEF RemovalInv
    <2> QED
      BY <2>2, <2>3, <2>4 DEF ProfilesInv
  <1> QED
    BY <1>2, <1>6, <1>7

\* The user brings no bundle of ours.
LEMMA EditKeeps == ASSUME ProfilesInv, NEW p \in Profiles, Edit(p) PROVE ProfilesInv'
  <1>1. /\ edits' = edits + 1
        /\ UNCHANGED <<capable, bundles, state, op, faults, commands, unseen>>
    BY DEF Edit
  <1>2. PICK q \in {Missing, Torn(profile[p]), Valid({}), Valid(profile[p].plugins), Valid({Own})} :
          profile' = [profile EXCEPT ![p] = q]
    BY DEF Edit
  <1>3. GoodManifest(profile[p]) /\ profile[p].plugins \in SUBSET (Bundles \cup {Own})
    BY ProfilesParts DEF GoodManifest, Manifests
  <1>4. /\ GoodManifest(Missing) /\ Missing.plugins = {}
        /\ GoodManifest(Torn(profile[p])) /\ Torn(profile[p]).plugins = profile[p].plugins
        /\ GoodManifest(Valid({})) /\ Valid({}).plugins = {}
    BY <1>3, MissingIs, TornIs, ValidIs
  <1>5. /\ GoodManifest(Valid(profile[p].plugins))
        /\ Valid(profile[p].plugins).plugins = profile[p].plugins
    BY <1>3, ValidIs DEF GoodManifest
  <1>6. GoodManifest(Valid({Own})) /\ Valid({Own}).plugins = {Own}
    BY ValidIs
  <1>7. GoodManifest(q) /\ q.plugins \cap Bundles \subseteq BundlesOf(p)
    BY <1>2, <1>4, <1>5, <1>6, ProfilesAssumption DEF BundlesOf
  <1>8. /\ op' \in Operations /\ faults' \in Nat /\ edits' \in Nat /\ commands' \in Nat
        /\ unseen \subseteq unseen' /\ unseen' \subseteq Profiles
    BY <1>1 DEF ProfilesInv, ProfilesTypeOK
  <1>9. /\ ProfilesTypeOK' /\ ManifestInv' /\ AdapterStateInv' /\ DshKeepsTrack'
        /\ \A x \in Profiles : BundlesOf(x)' \subseteq BundlesOf(x)
    BY <1>1, <1>2, <1>7, <1>8, ProfileChanged
  <1>10. OpInv' /\ UpdateInv' /\ DoneInv' /\ RemovalInv'
    BY <1>1, <1>9, ProfilesParts DEF ProfilesInv, OpInv, UpdateInv, DoneInv, RemovalInv
  <1> QED
    BY <1>9, <1>10 DEF ProfilesInv

LEMMA ProfilesStutter == ASSUME ProfilesInv, UNCHANGED profilesVars PROVE ProfilesInv'
  <1>1. UNCHANGED <<profile, capable, bundles, state, op, faults, edits, commands, unseen>>
    BY DEF profilesVars
  <1>2. \A x \in Profiles : BundlesOf(x)' = BundlesOf(x)
    BY <1>1 DEF BundlesOf
  <1>3. ProfilesTypeOK' /\ ManifestInv' /\ AdapterStateInv' /\ DshKeepsTrack'
    BY <1>1, StateWritten, ProfilesParts DEF ProfilesInv, ProfilesTypeOK, AdapterStateInv
  <1>4. OpInv' /\ UpdateInv' /\ DoneInv' /\ RemovalInv'
    BY <1>1, <1>2, ProfilesParts DEF ProfilesInv, OpInv, UpdateInv, DoneInv, RemovalInv
  <1> QED
    BY <1>3, <1>4 DEF ProfilesInv

LEMMA ProfilesStart == ASSUME ProfilesInit PROVE ProfilesInv
  <1>1. /\ capable \subseteq Profiles /\ op = Idle /\ faults = 0 /\ edits = 0 /\ commands = 0
        /\ unseen = {}
    BY DEF ProfilesInit
  <1>2. op \in Operations /\ OpInv /\ UpdateInv /\ DoneInv /\ RemovalInv
    BY <1>1, NoOperationIs DEF OpInv, UpdateInv, DoneInv, RemovalInv
  <1>3. GoodManifest(Valid({})) /\ Valid({}).plugins = {}
    BY ValidIs
  <1>4. CASE /\ profile \in [Profiles -> {Missing, Valid({})}] /\ state = NoState /\ bundles = {}
    <2>1. \A p \in Profiles : GoodManifest(profile[p]) /\ profile[p].plugins = {}
      BY <1>3, <1>4, MissingIs
    <2>2. ProfilesTypeOK /\ ManifestInv /\ AdapterStateInv /\ DshKeepsTrack
      BY <1>1, <1>2, <1>4, <2>1, NoStateIs
      DEF ProfilesTypeOK, ManifestInv, AdapterStateInv, DshKeepsTrack, OursIsClaimed,
          UsedBundlesKept, GoodManifest
    <2> QED
      BY <1>2, <2>2 DEF ProfilesInv
  <1>5. ASSUME NEW b \in Bundles, profile = [p \in Profiles |-> Valid({b})],
               state = StateOf(TRUE, b, Profiles), bundles = {b}
        PROVE  ProfilesInv
    <2>1. \A p \in Profiles : GoodManifest(profile[p]) /\ profile[p].plugins = {b}
      BY <1>5, ValidIs
    <2>2. /\ state \in AdapterStates /\ state.present /\ state.bundle = b
          /\ state.claimed = Profiles
      BY <1>5 DEF StateOf, AdapterStates
    <2>3. ProfilesTypeOK /\ ManifestInv /\ AdapterStateInv /\ DshKeepsTrack
      BY <1>1, <1>2, <1>5, <2>1, <2>2
      DEF ProfilesTypeOK, ManifestInv, AdapterStateInv, DshKeepsTrack, OursIsClaimed,
          UsedBundlesKept, GoodManifest
    <2> QED
      BY <1>2, <2>3 DEF ProfilesInv
  <1> QED
    BY <1>4, <1>5 DEF ProfilesInit

LEMMA ProfilesStep == ASSUME ProfilesInv, [ProfilesNext]_profilesVars PROVE ProfilesInv'
  <1>1. CASE EnsureRefused \/ EnsureEnds \/ Prune \/ RollbackWrites \/ RollbackVerifies
    BY <1>1, EnsureRefusedKeeps, EnsureEndsKeeps, PruneKeeps, RollbackWritesKeeps,
       RollbackVerifiesKeeps
  <1>2. ASSUME NEW b \in Releases, NEW enable \in BOOLEAN, EnsureBegins(b, enable)
        PROVE  ProfilesInv'
    BY <1>2, EnsureBeginsKeeps
  <1>3. ASSUME NEW p \in Profiles, \/ EnsureProfile(p) \/ RollbackProfile(p)
                                   \/ DisableProfile(p) \/ DisableSkips(p) \/ Edit(p)
        PROVE  ProfilesInv'
    BY <1>3, EnsureProfileKeeps, RollbackProfileKeeps, DisableProfileKeeps, DisableSkipsKeeps,
       EditKeeps
  <1>4. ASSUME NEW next \in {"disable", "remove"}, DisableBegins(next) PROVE ProfilesInv'
    BY <1>4, DisableBeginsKeeps
  <1>5. CASE ActivateProfiles \/ QuiesceProfiles \/ DisableEnds \/ Unlink \/ ProfilesKilled
    BY <1>5, SwitchKeeps, DisableEndsKeeps, UnlinkKeeps
  <1>6. CASE UNCHANGED profilesVars
    BY <1>6, ProfilesStutter
  <1> QED
    BY <1>1, <1>2, <1>3, <1>4, <1>5, <1>6 DEF ProfilesNext

\* ProfilesInv holds of every state the commands on DSH's profiles reach, whatever is
\* killed, fails half-way or is edited by the user between two native commands.
THEOREM ProfilesInvariant == ProfilesSpec => []ProfilesInv
  BY ProfilesStart, ProfilesStep, PTL DEF ProfilesSpec

\* A profile that lists a bundle of this program is claimed by the state, and the bundle
\* is on the disk.
THEOREM ProfilesAreTracked == ProfilesSpec => []DshKeepsTrack
  <1>1. ProfilesInv => DshKeepsTrack
    BY DEF ProfilesInv
  <1> QED
    BY <1>1, ProfilesInvariant, PTL

\* What the two properties say of one step.
Authorizes ==
  state'.enabled /\ ~state.enabled =>
    \A p \in state'.claimed \ op.residual :
      Exists(p) => profileHasInstalledAdapter(profile[p], state'.bundle)
Spares(p) ==
  /\ p \in state'.claimed \ state.claimed =>
       Own \notin profile[p].plugins \/ p \in op.residual \cup op.prior.claimed
  /\ p \notin state.claimed /\ Own \in profile[p].plugins /\ edits' = edits
       => profile'[p] = profile[p]
Careful == Authorizes /\ \A p \in Profiles : Spares(p)

\* A step that writes no more than the state's claims and gives no authority.
LEMMA NothingTaken ==
  ASSUME profile' = profile, state'.claimed \subseteq state.claimed, ~state'.enabled \/ state' = state
  PROVE  Careful
  BY DEF Careful, Authorizes, Spares

\* A native command changes a profile that the state claims.
LEMMA ClaimedChanges ==
  ASSUME ProfilesInv, NEW p \in state.claimed, NEW q,
         profile' = [profile EXCEPT ![p] = q], state' = state
  PROVE  Careful
  <1>1. \A r \in Profiles : r # p => profile'[r] = profile[r]
    BY DEF ProfilesInv, ProfilesTypeOK
  <1> QED
    BY <1>1 DEF Careful, Authorizes, Spares

LEMMA EnsureIsCareful ==
  ASSUME ProfilesInv, \/ EnsureRefused \/ EnsureEnds
                      \/ \E b \in Releases, enable \in BOOLEAN : EnsureBegins(b, enable)
                      \/ \E p \in Profiles : EnsureProfile(p)
  PROVE  Careful
  <1>1. CASE EnsureRefused
    <2>1. /\ profile' = profile
          /\ \/ state' = state \/ state' = StateOf(FALSE, state.bundle, {})
             \/ state' = StateOf(FALSE, state.bundle, state.claimed)
      BY <1>1 DEF EnsureRefused, disabledState
    <2> QED
      BY <2>1, NothingTaken DEF StateOf
  <1>2. CASE EnsureEnds
    <2> DEFINE present == {p \in state.claimed : Exists(p)}
               failed == op.failed \cup
                         {p \in present : ~profileHasInstalledAdapter(profile[p], state.bundle)} \cup
                         (IF HasWorker(state.claimed) THEN {} ELSE {op.worker})
               on == op.enable /\ failed = {} /\ present # {}
    <2>1. /\ profile' = profile
          /\ \/ UNCHANGED state
             \/ state' = [state EXCEPT !.enabled = on, !.claimed = present]
      BY <1>2 DEF EnsureEnds
    <2>2. on => \A p \in present : profileHasInstalledAdapter(profile[p], state.bundle)
      OBVIOUS
    <2>3. present \subseteq state.claimed /\ on \in BOOLEAN
      BY ProfilesParts
    <2> HIDE DEF present, failed, on
    <2>4. CASE state' = [state EXCEPT !.enabled = on, !.claimed = present]
      <3>1. state'.enabled = on /\ state'.claimed = present /\ state'.bundle = state.bundle
        BY <2>4, ProfilesParts DEF AdapterStates
      <3> QED
        BY <2>1, <2>2, <2>3, <3>1 DEF Careful, Authorizes, Spares
    <2> QED
      BY <2>1, <2>4, NothingTaken
  <1>3. ASSUME NEW b \in Releases, NEW enable \in BOOLEAN, EnsureBegins(b, enable) PROVE Careful
    <2> DEFINE prev == {p \in state.claimed : Exists(p)}
               worker == IF HasWorker(Discovered) THEN CHOOSE p \in Discovered : p \in capable
                         ELSE Headless
               targets == Discovered \cup {worker}
    <2>1. /\ profile' = profile /\ state' = StateOf(FALSE, b, prev \cup targets)
          /\ Conflicts(prev) = {} /\ (HasWorker(Discovered) \/ ~Exists(Headless))
      BY <1>3 DEF EnsureBegins
    <2>2. worker \in Discovered \/ (worker = Headless /\ ~Exists(Headless))
      <3>1. HasWorker(Discovered) => \E p \in Discovered : p \in capable
        BY DEF HasWorker
      <3> QED
        BY <2>1, <3>1
    <2>3. \A p \in Discovered \ prev : profile[p].plugins = {}
      BY <2>1 DEF Conflicts, profileMentionsAdapter, Discovered
    <2>4. ~Exists(Headless) => profile[Headless].plugins = {}
      BY ProfilesAssumption DEF Exists, ProfilesInv, ManifestInv, GoodManifest
    <2>5. \A p \in (prev \cup targets) \ state.claimed : profile[p].plugins = {}
      <3> HIDE DEF worker
      <3> QED
        BY <2>2, <2>3, <2>4
    <2>6. ~state'.enabled /\ state'.claimed = prev \cup targets
      BY <2>1 DEF StateOf
    <2> HIDE DEF prev, targets
    <2> QED
      BY <2>1, <2>5, <2>6 DEF Careful, Authorizes, Spares
  <1>4. ASSUME NEW p \in Profiles, EnsureProfile(p) PROVE Careful
    <2>1. p \in state.claimed /\ state' = state
      BY <1>4 DEF EnsureProfile, ProfilesInv, OpInv
    <2>2. profile' = profile \/ \E r \in Installs(p) : profile' = [profile EXCEPT ![p] = r[2].after]
      BY <1>4 DEF EnsureProfile, Apply
    <2> QED
      BY <2>1, <2>2, NothingTaken, ClaimedChanges
  <1> QED
    BY <1>1, <1>2, <1>3, <1>4

LEMMA RollbackIsCareful ==
  ASSUME ProfilesInv, \/ RollbackWrites \/ RollbackVerifies
                      \/ \E p \in Profiles : RollbackProfile(p)
  PROVE  Careful
  <1>1. CASE RollbackWrites
    <2>1. /\ profile' = profile
          /\ state' = [op.prior EXCEPT !.claimed = @ \cup op.residual, !.enabled = FALSE]
      BY <1>1 DEF RollbackWrites
    <2>2. ~state'.enabled /\ state'.claimed = op.prior.claimed \cup op.residual
      BY <2>1, ProfilesParts DEF AdapterStates
    <2> QED
      BY <2>1, <2>2 DEF Careful, Authorizes, Spares
  <1>2. CASE RollbackVerifies
    <2>1. /\ profile' = profile /\ op.pc = "restored"
          /\ \/ /\ \A p \in op.prior.claimed : profileHasInstalledAdapter(profile[p], op.prior.bundle)
                /\ state' = [state EXCEPT !.enabled = op.prior.enabled]
             \/ state' = state
      BY <1>2 DEF RollbackVerifies
    <2>2. /\ state.claimed \ op.residual \subseteq op.prior.claimed
          /\ state.bundle = op.prior.bundle
      BY <2>1 DEF ProfilesInv, OpInv
    <2>3. state'.claimed = state.claimed /\ state'.bundle = state.bundle
      BY <2>1, ProfilesParts DEF AdapterStates
    <2>4. Authorizes
      BY <2>1, <2>2, <2>3 DEF Authorizes
    <2> QED
      BY <2>1, <2>3, <2>4 DEF Careful, Spares
  <1>3. ASSUME NEW p \in Profiles, RollbackProfile(p) PROVE Careful
    <2>1. p \in state.claimed /\ state' = state
      BY <1>3 DEF RollbackProfile, ProfilesInv, OpInv
    <2>2. \E q : profile' = [profile EXCEPT ![p] = q]
      BY <1>3 DEF RollbackProfile, Apply
    <2> QED
      BY <2>1, <2>2, ClaimedChanges
  <1> QED
    BY <1>1, <1>2, <1>3

LEMMA OthersAreCareful ==
  ASSUME ProfilesInv, \/ ActivateProfiles \/ QuiesceProfiles \/ DisableEnds \/ Unlink \/ Prune
                      \/ ProfilesKilled
                      \/ \E next \in {"disable", "remove"} : DisableBegins(next)
                      \/ \E p \in Profiles : DisableProfile(p) \/ DisableSkips(p) \/ Edit(p)
  PROVE  Careful
  <1>1. CASE ActivateProfiles
    <2>1. /\ profile' = profile /\ state' = [state EXCEPT !.enabled = TRUE]
          /\ \A p \in state.claimed : profileHasInstalledAdapter(profile[p], state.bundle)
      BY <1>1 DEF ActivateProfiles
    <2>2. state'.claimed = state.claimed /\ state'.bundle = state.bundle
      BY <2>1, ProfilesParts DEF AdapterStates
    <2> QED
      BY <2>1, <2>2 DEF Careful, Authorizes, Spares
  <1>2. CASE QuiesceProfiles \/ \E next \in {"disable", "remove"} : DisableBegins(next)
    <2>1. profile' = profile /\ state' = StateOf(FALSE, state.bundle, state.claimed)
      BY <1>2 DEF QuiesceProfiles, DisableBegins, disabledState
    <2> QED
      BY <2>1, NothingTaken DEF StateOf
  <1>3. CASE DisableEnds
    <2>1. /\ profile' = profile /\ op.pc \in {"disable", "remove"}
          /\ \/ state' = NoState
             \/ \E ps \in SUBSET op.failed : state' = StateOf(FALSE, state.bundle, ps)
      BY <1>3 DEF DisableEnds, disabledState
    <2>2. CASE state' = NoState
      BY <2>1, <2>2, NoStateIs, NothingTaken
    <2>3. CASE \E ps \in SUBSET op.failed : state' = StateOf(FALSE, state.bundle, ps)
      <3>1. op.failed \subseteq state.claimed
        BY <2>1 DEF ProfilesInv, OpInv
      <3>2. PICK ps \in SUBSET op.failed : state' = StateOf(FALSE, state.bundle, ps)
        BY <2>3
      <3> QED
        BY <2>1, <3>1, <3>2, NothingTaken DEF StateOf
    <2> QED
      BY <2>1, <2>2, <2>3
  <1>4. CASE Unlink \/ Prune \/ ProfilesKilled \/ \E p \in Profiles : DisableSkips(p)
    <2>1. profile' = profile /\ state' = state
      BY <1>4 DEF Unlink, Prune, ProfilesKilled, DisableSkips
    <2> QED
      BY <2>1, NothingTaken
  <1>5. ASSUME NEW p \in Profiles, DisableProfile(p) PROVE Careful
    <2>1. p \in state.claimed /\ state' = state
      BY <1>5 DEF DisableProfile, ProfilesInv, OpInv
    <2>2. \E q : profile' = [profile EXCEPT ![p] = q]
      BY <1>5 DEF DisableProfile, Apply
    <2> QED
      BY <2>1, <2>2, ClaimedChanges
  <1>6. ASSUME NEW p \in Profiles, Edit(p) PROVE Careful
    <2>1. state' = state /\ edits' = edits + 1 /\ edits \in Nat
      BY <1>6 DEF Edit, ProfilesInv, ProfilesTypeOK
    <2>2. edits' # edits
      BY <2>1
    <2> QED
      BY <2>1, <2>2 DEF Careful, Authorizes, Spares
  <1> QED
    BY <1>1, <1>2, <1>3, <1>4, <1>5, <1>6

LEMMA ProfilesStepCareful == ASSUME ProfilesInv, [ProfilesNext]_profilesVars PROVE Careful
  <1>1. CASE ProfilesNext
    BY <1>1, EnsureIsCareful, RollbackIsCareful, OthersAreCareful DEF ProfilesNext
  <1>2. CASE UNCHANGED profilesVars
    BY <1>2, NothingTaken DEF profilesVars
  <1> QED
    BY <1>1, <1>2

\* The adapter is given authority to work only when every claimed profile that exists has
\* installed the very bundle of the state.
THEOREM AuthorityIsVerified == ProfilesSpec => AuthorityVerified
  <1>1. ProfilesInv /\ [ProfilesNext]_profilesVars =>
          [state'.enabled /\ ~state.enabled =>
             \A p \in state'.claimed \ op.residual :
               Exists(p) => profileHasInstalledAdapter(profile[p], state'.bundle)]_profilesVars
    BY ProfilesStepCareful DEF Careful, Authorizes
  <1> QED
    BY <1>1, ProfilesInvariant, PTL DEF ProfilesSpec, AuthorityVerified

\* No profile is claimed for the first time while the user has a copy of the adapter in
\* it, and a copy in a profile that is not claimed is left alone.
THEOREM OwnCopyIsLeftAlone == ProfilesSpec => OwnCopyLeftAlone
  <1>1. ProfilesInv /\ [ProfilesNext]_profilesVars =>
          [\A p \in Profiles :
             /\ p \in state'.claimed \ state.claimed =>
                  Own \notin profile[p].plugins \/ p \in op.residual \cup op.prior.claimed
             /\ p \notin state.claimed /\ Own \in profile[p].plugins /\ edits' = edits
                  => profile'[p] = profile[p]]_profilesVars
    BY ProfilesStepCareful DEF Careful, Spares
  <1> QED
    BY <1>1, ProfilesInvariant, PTL DEF ProfilesSpec, OwnCopyLeftAlone

-----------------------------------------------------------------------------
(***************************************************************************)
(* The lifecycle commands and the package transition.                      *)
(***************************************************************************)
Covers(keep) == IF keep = NoMarker THEN {} ELSE keep

StartOnly == {"deselect", "mark", "prepare", "prepareDsh", "launch", "withdraw",
              "activate", "recover", "rescope"}
StopOnly  == {"disable", "remove", "commit"}

\* What the phases of a start and of a stop know of the marker, the integrations
\* and the Backend.
PhaseInv(c) ==
  /\ c.phase \in StartOnly => c.op = "start"
  /\ c.phase \in StopOnly => c.op # "start"
  /\ (c.op = "start" /\ c.phase \in {"quiesce", "halt", "deselect"}) => c.drop = Scope \ c.clients
  /\ c.phase = "mark" => enabled \subseteq c.clients
  /\ c.phase \in {"prepare", "prepareDsh", "launch", "withdraw", "activate"} => marker = c.clients
  /\ (c.phase \in {"quiesce", "halt"} /\ c.dsh = "was") => Dsh \in Scope
  /\ c.phase = "rescope" => c.dsh = "was"
  /\ c.phase = "reactivate" => Dsh \in Scope
  /\ (c.op # "start" /\ c.phase \in {"quiesce", "halt", "disable", "remove", "commit"})
       => Scope \ c.clients \subseteq Covers(c.keep)
  /\ c.phase \in {"remove", "commit"} => enabled \cap c.clients = {}

BackendInv(c) ==
  /\ c.phase \in {"deselect", "mark", "prepare", "prepareDsh", "launch", "recover"}
       => backend = "none"
  /\ c.phase \in {"activate", "rescope", "reactivate"} => backend # "none"
  /\ (c.phase = "quiesce" /\ (c.op = "start" \/ c.halt) /\ Dsh \notin c.clients \cup c.drop)
       => (c.op # "start" /\ c.clients = {}) \/ Dsh \notin Scope
  /\ (c.phase = "halt" /\ Dsh \in enabled)
       => c.dsh = "bad" \/ (c.op # "start" /\ c.clients = {})

\* Only a DSH that was on is taken back.
DshInv == call # NoCall /\ call.dsh = "was" => Dsh \in Clients

CommandInv ==
  /\ LifecycleInv
  /\ EnabledCovered
  /\ call # NoCall => PhaseInv(call) /\ BackendInv(call)

-----------------------------------------------------------------------------
\* The revision: a permit is of an update that is not revoked, and no revision
\* that a revoked update has seen is written again.
SeenInv(u) ==
  LET seen == update[u].seen IN
  /\ seen[1] = "permit" => seen[2] \in Observed
  /\ seen[1] = "stopped" => seen[2] <= stops
  /\ u \in revoked =>
       /\ stops > 0
       /\ seen[1] = "permit" => seen[2] \in revoked
       /\ seen[1] = "stopped" => seen[2] < stops

RevisionInv ==
  /\ revoked \subseteq Observed
  /\ revision[1] = "permit" => revision[2] \in Observed \ revoked
  /\ revision[1] = "stopped" => revision[2] = stops
  /\ stops > 0 => revision # Absent
  /\ \A u \in Updates : SeenInv(u)

\* The children: the command that holds the lock is the running child of its
\* issuer, and a retirement under way is the one that the record names.
IssuerInv ==
  /\ call = NoCall => issuer = Ours
  /\ issuer.by = NoUpdate => issuer.id = NoUpdate
  /\ issuer.id # NoUpdate => issuer.id \in Observed \ revoked
  /\ issuer.by # NoUpdate =>
       /\ update[issuer.by].child = "running"
       /\ update[issuer.by].id = issuer.id
       /\ update[issuer.by].job = call.op

ChildInv(u) ==
  /\ update[u].id # NoUpdate => update[u].id \in Observed
  /\ update[u].child = "running" => issuer.by = u
  /\ (update[u].child \in {"waiting", "running", "ok"} /\ update[u].job = "stop"
        /\ update[u].id # NoUpdate)
       => update[u].id = u /\ transition.state = "retiring" /\ transition.id = u
  /\ (update[u].child = "ok" /\ update[u].job = "stop" /\ update[u].id # NoUpdate)
       => revision = <<"permit", u>> \/ u \in revoked
  /\ update[u].pc \in {"new", "preinstall", "replaced", "consuming"} => update[u].child = "none"
  /\ update[u].pc = "new" => update[u].id = NoUpdate
  /\ update[u].pc \in {"retiring", "cleaning"} => update[u].job = "stop"
  /\ update[u].pc = "retiring" => update[u].id = u
  /\ update[u].pc = "starting" => update[u].job = "start"

TransitionInv ==
  /\ transition.id # NoUpdate => transition.id \in Observed
  /\ transition.state = "none" => transition = NoTransition

\* The outage: a start that may be reported ready has ended it.
OutageInv ==
  /\ OutageRecorded
  /\ (call # NoCall /\ call.op = "start"
        /\ (call.phase = "activate" \/ (call.phase = "done" /\ call.ok))) => downed = NoUpdate
  /\ \A u \in Updates :
       update[u].pc \in {"verifying", "consuming"}
         \/ (update[u].pc = "starting" /\ update[u].child = "ok") => downed = NoUpdate

PackageIInv ==
  /\ PackageInv
  /\ RevisionInv
  /\ IssuerInv
  /\ \A u \in Updates : ChildInv(u)
  /\ TransitionInv
  /\ OutageInv

-----------------------------------------------------------------------------
(* The commands. *)

USE ClientsAssumption

LEMMA GoFacts ==
  ASSUME call \in Call, NEW p \in Phases, Go(p)
  PROVE  /\ call' \in Call /\ call' # NoCall
         /\ call'.op = call.op /\ call'.clients = call.clients
         /\ call'.drop = call.drop /\ call'.keep = call.keep
         /\ call'.halt = call.halt /\ call'.dsh = call.dsh
         /\ call'.ok = call.ok /\ call'.phase = p
BY DEF Go, Call

LEMMA EndFacts ==
  ASSUME call \in Call, NEW ok \in BOOLEAN, End(ok)
  PROVE  /\ call' \in Call /\ call' # NoCall
         /\ call'.op = call.op /\ call'.phase = "done" /\ call'.ok = ok
BY DEF End, Call, Phases

\* A command that has ended knows nothing any more.
LEMMA EndKeeps ==
  ASSUME CommandInv, call # NoCall, NEW ok \in BOOLEAN, End(ok),
         enabled' \subseteq Clients, marker' \in {NoMarker} \cup SUBSET Clients,
         backend' \in {"up", "dead", "none"}, EnabledCovered'
  PROVE  CommandInv'
<1>1. call \in Call
  BY DEF CommandInv, LifecycleInv
<1>2. call' \in Call /\ call'.phase = "done"
  BY <1>1, EndFacts
<1>3. PhaseInv(call)' /\ BackendInv(call)'
  BY <1>2 DEF PhaseInv, BackendInv, StartOnly, StopOnly
<1> QED
  BY <1>2, <1>3 DEF CommandInv, LifecycleInv

LEMMA BeginKeeps ==
  ASSUME CommandInv, Begin
  PROVE  CommandInv'
<1>1. call = NoCall /\ UNCHANGED <<enabled, marker, backend>>
  BY DEF Begin, BeginStart, BeginStop, BeginReplacementStop
<1>2. Scope \in SUBSET Clients /\ Scope' = Scope
  BY <1>1 DEF Scope, CommandInv, LifecycleInv
<1>3. call' \in Call /\ call'.phase = "quiesce" /\ PhaseInv(call)' /\ BackendInv(call)'
  <2>1. CASE \E clients \in SUBSET Clients, flag \in BOOLEAN : BeginStart(clients, flag)
    BY <1>1, <1>2, <2>1 DEF BeginStart, StartCall, Call, Phases, PhaseInv, BackendInv,
         StartOnly, StopOnly
  <2>2. CASE \E clients \in SUBSET Clients, flag \in BOOLEAN :
               BeginStop("stop", clients, flag) \/ BeginStop("uninstall", clients, flag)
    <3>1. PICK kind \in {"stop", "uninstall"}, clients \in SUBSET Clients, flag \in BOOLEAN :
            BeginStop(kind, clients, flag)
      BY <2>2
    <3> DEFINE rest == IF flag THEN Scope \ clients ELSE {}
               keep == IF rest = {} THEN NoMarker ELSE rest
    <3>2. call' = StopCall(kind, clients, keep, clients = {} \/ rest = {})
      BY <3>1 DEF BeginStop
    <3>3. keep \in {NoMarker} \cup SUBSET Clients /\ Covers(keep) = rest
      BY <1>2 DEF Covers
    <3>4. Scope \ clients \subseteq rest
      BY <3>1 DEF BeginStop, Scope
    <3>5. call' \in Call /\ call'.phase = "quiesce"
      BY <1>2, <3>2, <3>3 DEF StopCall, Call, Phases
    <3>6. /\ call'.op = kind /\ call'.clients = clients /\ call'.drop = {}
          /\ call'.keep = keep /\ call'.halt = (clients = {} \/ rest = {})
          /\ call'.dsh = "off"
      BY <3>2 DEF StopCall
    <3>7. PhaseInv(call)'
      BY <1>2, <3>3, <3>4, <3>5, <3>6 DEF PhaseInv, StartOnly, StopOnly, Covers
    <3>8. BackendInv(call)'
      BY <1>2, <3>4, <3>5, <3>6 DEF BackendInv
    <3> QED
      BY <3>5, <3>7, <3>8
  <2>3. CASE BeginReplacementStop
    <3> DEFINE clients == {Dsh} \cap Clients
    <3>1. call' = StopCall("stop", clients, marker, TRUE)
      BY <2>3 DEF BeginReplacementStop
    <3>2. call' \in Call /\ call'.phase = "quiesce"
      BY <3>1 DEF StopCall, Call, Phases, CommandInv, LifecycleInv
    <3>3. /\ call'.op = "stop" /\ call'.clients = clients /\ call'.drop = {}
          /\ call'.keep = marker /\ call'.dsh = "off"
      BY <3>1 DEF StopCall
    <3>4. Scope = Covers(marker) /\ (Dsh \notin clients => Dsh \notin Scope)
      BY <1>2 DEF Scope, Covers
    <3>5. PhaseInv(call)'
      BY <1>2, <3>2, <3>3, <3>4 DEF PhaseInv, StartOnly, StopOnly, Covers
    <3>6. BackendInv(call)'
      BY <1>2, <3>2, <3>3, <3>4 DEF BackendInv
    <3> QED
      BY <3>2, <3>5, <3>6
  <2> QED
    BY <2>1, <2>2, <2>3 DEF Begin
<1> QED
  BY <1>1, <1>2, <1>3 DEF CommandInv, LifecycleInv, EnabledCovered

LEMMA QuiesceKeeps ==
  ASSUME CommandInv, Quiesce
  PROVE  CommandInv'
<1> DEFINE next == IF Starting \/ call.halt THEN "halt" ELSE "disable"
<1>1. /\ call \in Call /\ call # NoCall /\ call.phase = "quiesce"
      /\ UNCHANGED <<marker, backend>> /\ Scope' = Scope
      /\ PhaseInv(call) /\ BackendInv(call)
      /\ enabled \subseteq Scope /\ Scope \subseteq Clients
  BY DEF CommandInv, LifecycleInv, Quiesce, At, EnabledCovered, Scope
<1>2. enabled' \subseteq enabled
  BY DEF Quiesce
<1>3. EnabledCovered'
  BY <1>1, <1>2 DEF EnabledCovered
<1>4. next \in Phases /\ (next = "halt" => call.op = "start" \/ call.halt)
      /\ (next = "disable" => call.op # "start") /\ next \in {"halt", "disable"}
  BY <1>1 DEF Starting, Phases, Call
<1>5. CASE Dsh \notin call.clients \cup call.drop /\ Go(next) /\ UNCHANGED enabled
  <2>1. /\ call' \in Call /\ call' # NoCall /\ call'.phase = next
        /\ call'.op = call.op /\ call'.clients = call.clients
        /\ call'.drop = call.drop /\ call'.keep = call.keep /\ call'.dsh = call.dsh
    BY <1>1, <1>4, <1>5, GoFacts
  <2>2. call.dsh = "was" => Dsh \in Scope
    BY <1>1 DEF PhaseInv
  <2>3. PhaseInv(call)'
    BY <1>1, <1>4, <1>5, <2>1, <2>2 DEF PhaseInv, StartOnly, StopOnly
  <2>4. BackendInv(call)'
    BY <1>1, <1>4, <1>5, <2>1 DEF BackendInv
  <2> QED
    BY <1>1, <1>2, <1>3, <2>1, <2>3, <2>4 DEF CommandInv, LifecycleInv
<1>6. CASE /\ enabled' = enabled \ {Dsh}
           /\ \E found \in {"was", "off", "bad"} :
                /\ found = "was" => Dsh \in enabled
                /\ call' = [call EXCEPT !.phase = next, !.dsh = found]
  <2>1. PICK found \in {"was", "off", "bad"} :
             /\ found = "was" => Dsh \in enabled
             /\ call' = [call EXCEPT !.phase = next, !.dsh = found]
    BY <1>6
  <2>2. /\ call' \in Call /\ call' # NoCall /\ call'.phase = next
        /\ call'.op = call.op /\ call'.clients = call.clients
        /\ call'.drop = call.drop /\ call'.keep = call.keep /\ call'.dsh = found
    BY <1>1, <1>4, <2>1 DEF Call
  <2>3. PhaseInv(call)'
    BY <1>1, <1>4, <1>6, <2>1, <2>2 DEF PhaseInv, StartOnly, StopOnly
  <2>4. BackendInv(call)'
    BY <1>1, <1>4, <1>6, <2>2 DEF BackendInv
  <2> QED
    BY <1>1, <1>2, <1>3, <2>2, <2>3, <2>4 DEF CommandInv, LifecycleInv
<1>7. CASE call' = [call EXCEPT !.phase = next, !.dsh = "bad"]
  <2>1. /\ call' \in Call /\ call' # NoCall /\ call'.phase = next
        /\ call'.op = call.op /\ call'.clients = call.clients
        /\ call'.drop = call.drop /\ call'.keep = call.keep /\ call'.dsh = "bad"
    BY <1>1, <1>4, <1>7 DEF Call
  <2>2. PhaseInv(call)'
    BY <1>1, <1>4, <2>1 DEF PhaseInv, StartOnly, StopOnly
  <2>3. BackendInv(call)'
    BY <1>1, <1>4, <2>1 DEF BackendInv
  <2> QED
    BY <1>1, <1>2, <1>3, <2>1, <2>2, <2>3 DEF CommandInv, LifecycleInv
<1>8. CASE End(FALSE)
  BY <1>1, <1>2, <1>3, <1>8, EndKeeps DEF CommandInv, LifecycleInv
<1> QED
  BY <1>5, <1>6, <1>7, <1>8 DEF Quiesce

LEMMA HaltKeeps ==
  ASSUME CommandInv, Halt
  PROVE  CommandInv'
<1>1. /\ call \in Call /\ call # NoCall /\ call.phase = "halt"
      /\ UNCHANGED <<enabled, marker>> /\ Scope' = Scope
      /\ PhaseInv(call) /\ BackendInv(call) /\ EnabledCovered'
      /\ call' \in Call => LifecycleInv'
  BY DEF CommandInv, LifecycleInv, Halt, At, EnabledCovered, Scope
<1>2. CASE backend' = "none" /\ Go(IF Starting THEN "deselect" ELSE "disable")
  <2> DEFINE next == IF Starting THEN "deselect" ELSE "disable"
  <2>1. /\ next \in Phases /\ next \in {"deselect", "disable"}
        /\ (next = "deselect") <=> (call.op = "start")
    BY <1>1 DEF Starting, Phases
  <2>2. /\ call' \in Call /\ call' # NoCall /\ call'.phase = next
        /\ call'.op = call.op /\ call'.clients = call.clients
        /\ call'.drop = call.drop /\ call'.keep = call.keep
    BY <1>1, <1>2, <2>1, GoFacts
  <2>3. PhaseInv(call)' /\ BackendInv(call)'
    BY <1>1, <1>2, <2>1, <2>2 DEF PhaseInv, BackendInv, StartOnly, StopOnly
  <2> QED
    BY <1>1, <2>2, <2>3 DEF CommandInv
<1>3. CASE backend # "none" /\ UNCHANGED backend /\ call.dsh = "was" /\ Go("reactivate")
  <2>1. /\ call' \in Call /\ call' # NoCall /\ call'.phase = "reactivate"
    BY <1>1, <1>3, GoFacts DEF Phases
  <2>2. PhaseInv(call)' /\ BackendInv(call)'
    BY <1>1, <1>3, <2>1 DEF PhaseInv, BackendInv, StartOnly, StopOnly
  <2> QED
    BY <1>1, <2>1, <2>2 DEF CommandInv
<1>4. CASE UNCHANGED backend /\ End(FALSE)
  BY <1>1, <1>4, EndKeeps DEF CommandInv, LifecycleInv
<1> QED
  BY <1>2, <1>3, <1>4 DEF Halt

LEMMA DeselectKeeps ==
  ASSUME CommandInv, Deselect
  PROVE  CommandInv'
<1>1. /\ call \in Call /\ call # NoCall /\ call.phase = "deselect"
      /\ UNCHANGED <<marker, backend>> /\ Scope' = Scope
      /\ PhaseInv(call) /\ BackendInv(call) /\ enabled' \subseteq enabled
      /\ EnabledCovered' /\ enabled \subseteq Scope
      /\ call' \in Call => LifecycleInv'
  BY DEF CommandInv, LifecycleInv, Deselect, SwitchOff, At, EnabledCovered, Scope
<1>2. CASE enabled' = enabled \ call.drop /\ Go("mark")
  <2>1. /\ call' \in Call /\ call' # NoCall /\ call'.phase = "mark"
        /\ call'.op = call.op /\ call'.clients = call.clients
    BY <1>1, <1>2, GoFacts DEF Phases
  <2>2. enabled' \subseteq call.clients
    BY <1>1, <1>2 DEF PhaseInv, StartOnly
  <2>3. PhaseInv(call)' /\ BackendInv(call)'
    BY <1>1, <2>1, <2>2 DEF PhaseInv, BackendInv, StartOnly, StopOnly
  <2> QED
    BY <1>1, <2>1, <2>3 DEF CommandInv
<1>3. CASE Go("recover")
  <2>1. /\ call' \in Call /\ call' # NoCall /\ call'.phase = "recover"
        /\ call'.op = call.op
    BY <1>1, <1>3, GoFacts DEF Phases
  <2>2. PhaseInv(call)' /\ BackendInv(call)'
    BY <1>1, <2>1 DEF PhaseInv, BackendInv, StartOnly, StopOnly
  <2> QED
    BY <1>1, <2>1, <2>2 DEF CommandInv
<1> QED
  BY <1>2, <1>3 DEF Deselect, SwitchOff

LEMMA MarkKeeps ==
  ASSUME CommandInv, Mark
  PROVE  CommandInv'
<1>1. /\ call \in Call /\ call # NoCall /\ call.phase = "mark"
      /\ UNCHANGED <<enabled, backend>>
      /\ PhaseInv(call) /\ BackendInv(call)
      /\ enabled \subseteq Scope /\ enabled \subseteq call.clients
  BY DEF CommandInv, LifecycleInv, Mark, At, EnabledCovered, PhaseInv
<1>2. call.clients \in SUBSET Clients /\ call.clients # NoMarker
  BY <1>1 DEF Call
<1>3. EnabledCovered' /\ marker' \in {NoMarker} \cup SUBSET Clients
  BY <1>1, <1>2 DEF Mark, EnabledCovered, Scope, CommandInv, LifecycleInv
<1>4. CASE marker' = call.clients /\ Go("prepare")
  <2>1. /\ call' \in Call /\ call' # NoCall /\ call'.phase = "prepare"
        /\ call'.op = call.op /\ call'.clients = call.clients
    BY <1>1, <1>4, GoFacts DEF Phases
  <2>2. PhaseInv(call)' /\ BackendInv(call)'
    BY <1>1, <1>4, <2>1 DEF PhaseInv, BackendInv, StartOnly, StopOnly
  <2> QED
    BY <1>1, <1>3, <2>1, <2>2 DEF CommandInv, LifecycleInv
<1>5. CASE Go("recover")
  <2>1. /\ call' \in Call /\ call' # NoCall /\ call'.phase = "recover"
        /\ call'.op = call.op
    BY <1>1, <1>5, GoFacts DEF Phases
  <2>2. PhaseInv(call)' /\ BackendInv(call)'
    BY <1>1, <2>1 DEF PhaseInv, BackendInv, StartOnly, StopOnly
  <2> QED
    BY <1>1, <1>3, <2>1, <2>2 DEF CommandInv, LifecycleInv
<1> QED
  BY <1>4, <1>5 DEF Mark

LEMMA PrepareKeeps ==
  ASSUME CommandInv, Prepare
  PROVE  CommandInv'
<1>1. /\ call \in Call /\ call # NoCall /\ call.phase = "prepare"
      /\ UNCHANGED <<marker, backend>> /\ Scope' = Scope
      /\ PhaseInv(call) /\ BackendInv(call) /\ enabled \subseteq Scope
  BY DEF CommandInv, LifecycleInv, Prepare, At, EnabledCovered, Scope
<1>2. call.clients \in SUBSET Clients /\ marker = call.clients /\ Scope = call.clients
  BY <1>1 DEF Call, PhaseInv, Scope
<1>3. PICK bad \in SUBSET (call.clients \ {Dsh}) :
        LET touched == IF Codex \in bad THEN {Codex} ELSE call.clients \ {Dsh} IN
        /\ \E on \in SUBSET touched : enabled' = (enabled \ touched) \cup on
        /\ Go(IF bad \subseteq {Claude} THEN "prepareDsh" ELSE "recover")
  BY DEF Prepare
<1>4. enabled' \subseteq call.clients
  BY <1>1, <1>2, <1>3
<1>5. EnabledCovered' /\ enabled' \subseteq Clients
  BY <1>1, <1>2, <1>4 DEF EnabledCovered
<1> DEFINE next == IF bad \subseteq {Claude} THEN "prepareDsh" ELSE "recover"
<1>6. next \in {"prepareDsh", "recover"} /\ next \in Phases
  BY DEF Phases
<1>7. /\ call' \in Call /\ call' # NoCall /\ call'.phase = next
      /\ call'.op = call.op /\ call'.clients = call.clients
  BY <1>1, <1>3, <1>6, GoFacts
<1>8. PhaseInv(call)' /\ BackendInv(call)'
  BY <1>1, <1>2, <1>6, <1>7 DEF PhaseInv, BackendInv, StartOnly, StopOnly
<1> QED
  BY <1>1, <1>5, <1>7, <1>8 DEF CommandInv, LifecycleInv

LEMMA PrepareDshKeeps ==
  ASSUME CommandInv, PrepareDsh
  PROVE  CommandInv'
<1>1. /\ call \in Call /\ call # NoCall /\ call.phase = "prepareDsh"
      /\ UNCHANGED <<enabled, marker, backend>> /\ Scope' = Scope
      /\ PhaseInv(call) /\ BackendInv(call) /\ EnabledCovered'
      /\ call' \in Call => LifecycleInv'
  BY DEF CommandInv, LifecycleInv, PrepareDsh, At, EnabledCovered, Scope
<1>2. CASE Go("launch") \/ call' = [call EXCEPT !.phase = "launch", !.dsh = "bad"]
  <2>1. /\ call' \in Call /\ call' # NoCall /\ call'.phase = "launch"
        /\ call'.op = call.op /\ call'.clients = call.clients
    <3>1. CASE Go("launch")
      BY <1>1, <3>1, GoFacts DEF Phases
    <3>2. CASE call' = [call EXCEPT !.phase = "launch", !.dsh = "bad"]
      BY <1>1, <3>2 DEF Call, Phases
    <3> QED
      BY <1>2, <3>1, <3>2
  <2>2. PhaseInv(call)' /\ BackendInv(call)'
    BY <1>1, <2>1 DEF PhaseInv, BackendInv, StartOnly, StopOnly
  <2> QED
    BY <1>1, <2>1, <2>2 DEF CommandInv
<1>3. CASE Go("recover")
  <2>1. /\ call' \in Call /\ call' # NoCall /\ call'.phase = "recover"
        /\ call'.op = call.op
    BY <1>1, <1>3, GoFacts DEF Phases
  <2>2. PhaseInv(call)' /\ BackendInv(call)'
    BY <1>1, <2>1 DEF PhaseInv, BackendInv, StartOnly, StopOnly
  <2> QED
    BY <1>1, <2>1, <2>2 DEF CommandInv
<1> QED
  BY <1>2, <1>3 DEF PrepareDsh

LEMMA LaunchKeeps ==
  ASSUME CommandInv, Launch
  PROVE  CommandInv'
<1>1. /\ call \in Call /\ call # NoCall /\ call.phase = "launch"
      /\ UNCHANGED <<enabled, marker>> /\ Scope' = Scope
      /\ PhaseInv(call) /\ EnabledCovered'
      /\ call' \in Call => LifecycleInv'
  BY DEF CommandInv, LifecycleInv, Launch, At, EnabledCovered, Scope
<1>2. PICK next \in {"activate", "withdraw"} :
        Go(next) /\ (next = "activate" => backend' = "up")
  BY DEF Launch
<1>3. /\ call' \in Call /\ call' # NoCall /\ call'.phase = next
      /\ call'.op = call.op /\ call'.clients = call.clients
  BY <1>1, <1>2, GoFacts DEF Phases
<1>4. PhaseInv(call)' /\ BackendInv(call)'
  BY <1>1, <1>2, <1>3 DEF PhaseInv, BackendInv, StartOnly, StopOnly
<1> QED
  BY <1>1, <1>3, <1>4 DEF CommandInv

LEMMA WithdrawKeeps ==
  ASSUME CommandInv, Withdraw
  PROVE  CommandInv'
<1>1. /\ call # NoCall /\ UNCHANGED <<marker, backend>> /\ End(FALSE)
      /\ enabled' \subseteq enabled
  BY DEF Withdraw, SwitchOff, At
<1> QED
  BY <1>1, EndKeeps DEF CommandInv, LifecycleInv, EnabledCovered, Scope

LEMMA ActivateKeeps ==
  ASSUME CommandInv, Activate
  PROVE  CommandInv'
<1>1. /\ call \in Call /\ call # NoCall /\ call.phase = "activate"
      /\ UNCHANGED <<marker, backend>> /\ Scope' = Scope
      /\ PhaseInv(call) /\ enabled \subseteq Scope
  BY DEF CommandInv, LifecycleInv, Activate, At, EnabledCovered, Scope
<1>2. call.clients \in SUBSET Clients /\ Scope = call.clients
  BY <1>1 DEF Call, PhaseInv, Scope
<1>3. enabled' \subseteq call.clients
  BY <1>1, <1>2 DEF Activate
<1> QED
  BY <1>1, <1>2, <1>3, EndKeeps DEF Activate, EnabledCovered, CommandInv, LifecycleInv

LEMMA RecoverKeeps ==
  ASSUME CommandInv, Recover
  PROVE  CommandInv'
<1>1. /\ call \in Call /\ call # NoCall /\ call.phase = "recover"
      /\ UNCHANGED <<enabled, marker>> /\ Scope' = Scope
      /\ PhaseInv(call) /\ EnabledCovered' /\ backend' \in {"up", "none"}
      /\ call' \in Call => LifecycleInv'
  BY DEF CommandInv, LifecycleInv, Recover, At, EnabledCovered, Scope
<1>2. CASE backend' = "up" /\ call.dsh = "was" /\ Go("rescope")
  <2>1. /\ call' \in Call /\ call' # NoCall /\ call'.phase = "rescope"
        /\ call'.op = call.op /\ call'.dsh = call.dsh
    BY <1>1, <1>2, GoFacts DEF Phases
  <2>2. PhaseInv(call)' /\ BackendInv(call)'
    BY <1>1, <1>2, <2>1 DEF PhaseInv, BackendInv, StartOnly, StopOnly
  <2> QED
    BY <1>1, <2>1, <2>2 DEF CommandInv
<1>3. CASE End(FALSE)
  BY <1>1, <1>3, EndKeeps DEF CommandInv, LifecycleInv
<1> QED
  BY <1>2, <1>3 DEF Recover

LEMMA RescopeKeeps ==
  ASSUME CommandInv, DshInv, Rescope
  PROVE  CommandInv'
<1>1. /\ call \in Call /\ call # NoCall /\ call.phase = "rescope"
      /\ UNCHANGED <<enabled, backend>> /\ PhaseInv(call) /\ BackendInv(call)
      /\ enabled \subseteq Scope /\ enabled \subseteq Clients
  BY DEF CommandInv, LifecycleInv, Rescope, At, EnabledCovered
<1>2. /\ marker \in {NoMarker} \cup SUBSET Clients /\ call.clients \in SUBSET Clients
      /\ Dsh \in Clients
  BY <1>1 DEF CommandInv, LifecycleInv, Call, PhaseInv, DshInv
<1>3. CASE Go("reactivate") /\ Dsh \in Scope' /\ Scope \subseteq Scope'
           /\ marker' \in {NoMarker} \cup SUBSET Clients
  <2>1. /\ call' \in Call /\ call' # NoCall /\ call'.phase = "reactivate"
    BY <1>1, <1>3, GoFacts DEF Phases
  <2>2. PhaseInv(call)' /\ BackendInv(call)'
    BY <1>1, <1>3, <2>1 DEF PhaseInv, BackendInv, StartOnly, StopOnly
  <2> QED
    BY <1>1, <1>3, <2>1, <2>2 DEF CommandInv, LifecycleInv, EnabledCovered
<1>4. CASE UNCHANGED marker /\ End(FALSE)
  BY <1>1, <1>4, EndKeeps DEF CommandInv, LifecycleInv, EnabledCovered, Scope
<1> QED
  <2>1. CASE Dsh \in Scope /\ Go("reactivate") /\ UNCHANGED marker
    BY <1>2, <1>3, <2>1 DEF Scope
  <2>2. CASE /\ marker' = (IF marker = NoMarker THEN call.clients ELSE marker) \cup {Dsh}
             /\ Go("reactivate")
    BY <1>1, <1>2, <1>3, <2>2 DEF Scope
  <2> QED
    BY <1>4, <2>1, <2>2 DEF Rescope

LEMMA ReactivateKeeps ==
  ASSUME CommandInv, Reactivate
  PROVE  CommandInv'
<1>1. /\ call # NoCall /\ call.phase = "reactivate" /\ PhaseInv(call)
      /\ UNCHANGED <<marker, backend>> /\ Scope' = Scope /\ End(FALSE)
      /\ Dsh \in Scope /\ enabled \subseteq Scope /\ Scope \subseteq Clients
  BY DEF CommandInv, LifecycleInv, Reactivate, At, EnabledCovered, Scope, PhaseInv
<1>2. enabled' \subseteq Scope
  BY <1>1 DEF Reactivate
<1> QED
  BY <1>1, <1>2, EndKeeps DEF CommandInv, LifecycleInv, EnabledCovered

LEMMA DisableKeeps ==
  ASSUME CommandInv, Disable
  PROVE  CommandInv'
<1>1. /\ call \in Call /\ call # NoCall /\ call.phase = "disable"
      /\ UNCHANGED <<marker, backend>> /\ Scope' = Scope
      /\ PhaseInv(call) /\ enabled' \subseteq enabled /\ EnabledCovered'
      /\ call' \in Call => LifecycleInv'
  BY DEF CommandInv, LifecycleInv, Disable, SwitchOff, At, EnabledCovered, Scope
<1> DEFINE next == IF call.op = "uninstall" THEN "remove" ELSE "commit"
<1>2. CASE enabled' = enabled \ call.clients /\ Go(next)
  <2>1. next \in {"remove", "commit"} /\ next \in Phases
    BY DEF Phases
  <2>2. /\ call' \in Call /\ call' # NoCall /\ call'.phase = next
        /\ call'.op = call.op /\ call'.clients = call.clients /\ call'.keep = call.keep
    BY <1>1, <1>2, <2>1, GoFacts
  <2>3. PhaseInv(call)' /\ BackendInv(call)'
    BY <1>1, <1>2, <2>1, <2>2 DEF PhaseInv, BackendInv, StartOnly, StopOnly
  <2> QED
    BY <1>1, <2>2, <2>3 DEF CommandInv
<1>3. CASE End(FALSE)
  BY <1>1, <1>3, EndKeeps DEF CommandInv, LifecycleInv
<1> QED
  BY <1>2, <1>3 DEF Disable, SwitchOff

LEMMA RemoveKeeps ==
  ASSUME CommandInv, Remove
  PROVE  CommandInv'
<1>1. /\ call \in Call /\ call # NoCall /\ call.phase = "remove"
      /\ UNCHANGED <<enabled, marker, backend>> /\ Scope' = Scope
      /\ PhaseInv(call) /\ EnabledCovered'
      /\ call' \in Call => LifecycleInv'
  BY DEF CommandInv, LifecycleInv, Remove, At, EnabledCovered, Scope
<1>2. CASE Go("commit")
  <2>1. /\ call' \in Call /\ call' # NoCall /\ call'.phase = "commit"
        /\ call'.op = call.op /\ call'.clients = call.clients /\ call'.keep = call.keep
    BY <1>1, <1>2, GoFacts DEF Phases
  <2>2. PhaseInv(call)' /\ BackendInv(call)'
    BY <1>1, <2>1 DEF PhaseInv, BackendInv, StartOnly, StopOnly
  <2> QED
    BY <1>1, <2>1, <2>2 DEF CommandInv
<1>3. CASE End(FALSE)
  BY <1>1, <1>3, EndKeeps DEF CommandInv, LifecycleInv
<1> QED
  BY <1>2, <1>3 DEF Remove

\* What a stop commits still names every integration that it has not taken back.
LEMMA CommitKeeps ==
  ASSUME CommandInv, Commit
  PROVE  CommandInv'
<1>1. /\ call \in Call /\ call # NoCall /\ call.phase = "commit"
      /\ UNCHANGED <<enabled, backend>> /\ PhaseInv(call)
      /\ enabled \subseteq Scope
  BY DEF CommandInv, LifecycleInv, Commit, At, EnabledCovered
<1>2. CASE marker' = call.keep /\ End(TRUE)
  <2>1. enabled \cap call.clients = {} /\ Scope \ call.clients \subseteq Covers(call.keep)
    BY <1>1 DEF PhaseInv, StopOnly
  <2>2. Scope' = Covers(call.keep)
    BY <1>2 DEF Scope, Covers
  <2>3. EnabledCovered'
    BY <1>1, <2>1, <2>2 DEF EnabledCovered
  <2> QED
    BY <1>1, <1>2, <2>3, EndKeeps DEF CommandInv, LifecycleInv, Call
<1>3. CASE UNCHANGED marker /\ End(FALSE)
  BY <1>1, <1>3, EndKeeps DEF CommandInv, LifecycleInv, EnabledCovered, Scope
<1> QED
  BY <1>2, <1>3 DEF Commit

LEMMA DshKeeps ==
  ASSUME CommandInv, DshInv, [Next]_vars
  PROVE  DshInv'
<1>1. call = NoCall \/ call \in Call
  BY DEF CommandInv, LifecycleInv
<1>2. CASE Begin
  BY <1>2 DEF Begin, BeginStart, BeginStop, BeginReplacementStop, StartCall, StopCall, DshInv
<1>3. CASE Quiesce
  <2>1. call \in Call /\ enabled \subseteq Clients
    BY <1>1, <1>3 DEF Quiesce, At, CommandInv, LifecycleInv
  <2>2. call'.dsh = call.dsh \/ (call'.dsh = "was" /\ Dsh \in enabled) \/ call'.dsh \in {"off", "bad"}
    BY <1>3, <2>1 DEF Quiesce, Go, End, Call
  <2> QED
    BY <1>3, <2>1, <2>2 DEF DshInv, Quiesce, At
<1>4. CASE PrepareDsh
  <2>1. call \in Call
    BY <1>1, <1>4 DEF PrepareDsh, At
  <2>2. call'.dsh = call.dsh \/ call'.dsh = "bad"
    BY <1>4, <2>1 DEF PrepareDsh, Go, Call
  <2> QED
    BY <1>4, <2>2 DEF DshInv, PrepareDsh, At
<1>5. CASE /\ call \in Call
           /\ (\E p \in Phases : Go(p)) \/ (\E ok \in BOOLEAN : End(ok))
  BY <1>5, GoFacts DEF DshInv, End, Call
<1>6. CASE UNCHANGED call
  BY <1>6 DEF DshInv
<1>7. CASE call' = NoCall
  BY <1>7 DEF DshInv
<1>8. CASE Step /\ ~Quiesce /\ ~PrepareDsh
  <2>1. call \in Call
    BY <1>1, <1>8 DEF Step, At, Halt, Deselect, Mark, Prepare, Launch, Withdraw, Activate,
         Recover, Rescope, Reactivate, Disable, Remove, Commit
  <2>2. (\E p \in Phases : Go(p)) \/ (\E ok \in BOOLEAN : End(ok))
    <3>1. CASE Halt \/ Deselect \/ Mark \/ Launch \/ Withdraw \/ Recover
      BY <3>1 DEF Halt, Deselect, Mark, Launch, Withdraw, Recover, SwitchOff, Phases
    <3>2. CASE Prepare
      BY <3>2 DEF Prepare, Phases
    <3>3. CASE Activate \/ Rescope \/ Reactivate \/ Disable \/ Remove \/ Commit
      BY <3>3 DEF Activate, Rescope, Reactivate, Disable, Remove, Commit, SwitchOff, Phases
    <3> QED
      BY <1>8, <3>1, <3>2, <3>3 DEF Step
  <2> QED
    BY <1>5, <2>1, <2>2
<1> QED
  BY <1>2, <1>3, <1>4, <1>6, <1>7, <1>8 DEF Next, Return, Killed, BackendDies, vars

LEMMA CommandStepKeeps ==
  ASSUME CommandInv, DshInv, [Next]_vars
  PROVE  CommandInv'
<1>1. CASE Begin
  BY <1>1, BeginKeeps
<1>2. CASE Step
  BY <1>2, QuiesceKeeps, HaltKeeps, DeselectKeeps, MarkKeeps, PrepareKeeps, PrepareDshKeeps,
     LaunchKeeps, WithdrawKeeps, ActivateKeeps, RecoverKeeps, RescopeKeeps, ReactivateKeeps,
     DisableKeeps, RemoveKeeps, CommitKeeps DEF Step
<1>3. CASE Return \/ Killed
  BY <1>3 DEF Return, Killed, CommandInv, LifecycleInv, EnabledCovered, Scope
<1>4. CASE BackendDies
  BY <1>4 DEF BackendDies, CommandInv, LifecycleInv, EnabledCovered, Scope, PhaseInv, BackendInv
<1>5. CASE UNCHANGED vars
  BY <1>5 DEF vars, CommandInv, LifecycleInv, EnabledCovered, Scope, PhaseInv, BackendInv
<1> QED
  BY <1>1, <1>2, <1>3, <1>4, <1>5 DEF Next

\* Nobody but the phases between two Backends switches an integration on.
LEMMA SwitchesBetween ==
  ASSUME CommandInv, [Next]_vars
  PROVE  [SwitchBetween]_vars
<1>1. /\ call # NoCall => call \in Call /\ PhaseInv(call) /\ BackendInv(call)
      /\ enabled \subseteq Scope
  BY DEF CommandInv, LifecycleInv, EnabledCovered
<1>2. CASE enabled' \subseteq enabled /\ (backend' = "none" => backend = "none")
  BY <1>2 DEF SwitchBetween
<1>3. CASE Begin \/ Return \/ Killed \/ BackendDies \/ UNCHANGED vars
  BY <1>2, <1>3 DEF Begin, BeginStart, BeginStop, BeginReplacementStop, Return, Killed,
       BackendDies, vars
<1>4. CASE Quiesce \/ Deselect \/ Mark \/ PrepareDsh \/ Withdraw \/ Rescope \/ Disable
             \/ Remove \/ Commit
  BY <1>2, <1>4 DEF Quiesce, Deselect, Mark, PrepareDsh, Withdraw, Rescope, Disable, Remove,
       Commit, SwitchOff
<1>5. CASE Halt
  BY <1>1, <1>5 DEF Halt, At, BackendInv, SwitchBetween, BackendOnly
<1>6. CASE Prepare
  <2>1. backend = "none" /\ backend' = "none"
    BY <1>1, <1>6 DEF Prepare, At, BackendInv
  <2>2. Dsh \notin enabled' \ enabled
    BY <1>6 DEF Prepare
  <2> QED
    BY <2>1, <2>2 DEF SwitchBetween
<1>7. CASE Launch \/ Recover
  BY <1>1, <1>2, <1>7 DEF Launch, Recover, At, BackendInv
<1>8. CASE Activate \/ Reactivate
  <2>1. backend # "none" /\ backend' # "none"
    BY <1>1, <1>8 DEF Activate, Reactivate, At, BackendInv
  <2>2. enabled' \ enabled \subseteq {Dsh}
    BY <1>8 DEF Activate, Reactivate
  <2> QED
    BY <2>1, <2>2 DEF SwitchBetween
<1> QED
  BY <1>3, <1>4, <1>5, <1>6, <1>7, <1>8 DEF Next, Step

\* What the phases of a command may take for granted, whatever failed before and
\* whenever earlier commands were killed (executeMemoraxCodeStart and -Stop).
THEOREM CommandInvariant == Spec => [](CommandInv /\ DshInv)
<1>1. Init => CommandInv /\ DshInv
  BY DEF Init, CommandInv, LifecycleInv, EnabledCovered, Scope, DshInv
<1>2. CommandInv /\ DshInv /\ [Next]_vars => (CommandInv /\ DshInv)'
  BY CommandStepKeeps, DshKeeps
<1> QED
  BY <1>1, <1>2, PTL DEF Spec

\* The cleanup marker names every integration that is on: an unqualified stop or
\* uninstall takes all of them back.
THEOREM IntegrationsAreCovered == Spec => []EnabledCovered
<1>1. CommandInv => EnabledCovered
  BY DEF CommandInv
<1> QED
  BY <1>1, CommandInvariant, PTL

\* Integrations are switched on only between two Backends, and DSH only over one.
THEOREM SwitchesBetweenBackends == Spec => SwitchedBetweenBackends
<1>1. CommandInv /\ [Next]_vars => [SwitchBetween]_vars
  BY SwitchesBetween
<1> QED
  BY <1>1, CommandInvariant, PTL DEF Spec, SwitchedBetweenBackends

-----------------------------------------------------------------------------
(* The package transition. *)

USE UpdatesAssumption

\* npm's children and the user's commands are steps of the lifecycle commands.
LEMMA PackageTakesCommands ==
  ASSUME LifecycleInv, [PackageNext]_allVars
  PROVE  [Next]_vars
<1>1. CASE \E u \in Updates, clients \in SUBSET Clients : ChildBegins(u, clients)
  <2>1. PICK u \in Updates, clients \in SUBSET Clients : ChildBegins(u, clients)
    BY <1>1
  <2>2. (IF marker = NoMarker THEN clients ELSE marker) \in SUBSET Clients
    BY DEF LifecycleInv
  <2> QED
    BY <2>1, <2>2 DEF ChildBegins, Next, Begin
<1>2. CASE \E u \in Updates : /\ UpdateStep(u)
                              /\ ~\E clients \in SUBSET Clients : ChildBegins(u, clients)
  BY <1>2 DEF UpdateStep, Observe, BeginRetire, Retired, NpmFails, BeginRestore, Started,
       Verified, Consume, UpdateKilled, WaitingChildKilled, ChildRefused, RestoreOwn,
       RecoverCommand, Alone
<1>3. CASE \E clients \in SUBSET Clients, flag \in BOOLEAN : OwnBegin(clients, flag)
  BY <1>3 DEF OwnBegin, Next, Begin
<1>4. CASE CommandStep \/ CommandReturns \/ CommandKilled
  BY <1>4 DEF CommandStep, CommandReturns, CommandKilled, Next
<1>5. CASE BackendDies /\ UNCHANGED package
  BY <1>5 DEF Next
<1>6. CASE GrowOld \/ UNCHANGED allVars
  BY <1>6 DEF GrowOld, Alone, allVars, vars
<1> QED
  BY <1>1, <1>2, <1>3, <1>4, <1>5, <1>6 DEF PackageNext

\* With npm beside them the commands are still the lifecycle commands: all that
\* is proved of these holds under PackageSpec too.
THEOREM PackageKeepsLifecycle == PackageSpec => Spec
<1>1. PackageInit => Init /\ CommandInv /\ DshInv
  BY DEF PackageInit, Init, CommandInv, LifecycleInv, EnabledCovered, Scope, DshInv
<1>2. CommandInv /\ DshInv /\ [PackageNext]_allVars => (CommandInv /\ DshInv)' /\ [Next]_vars
  <2> SUFFICES ASSUME CommandInv, DshInv, [PackageNext]_allVars
               PROVE  (CommandInv /\ DshInv)' /\ [Next]_vars
    OBVIOUS
  <2>1. [Next]_vars
    BY PackageTakesCommands DEF CommandInv
  <2> QED
    BY <2>1, CommandStepKeeps, DshKeeps
<1> QED
  BY <1>1, <1>2, PTL DEF PackageSpec, Spec

-----------------------------------------------------------------------------
(* Typing of one update's step. *)

LEMMA SetFacts ==
  ASSUME update \in [Updates -> UpdateState], NEW u \in Updates, NEW r \in UpdateState, Set(u, r)
  PROVE  /\ update' \in [Updates -> UpdateState]
         /\ update'[u] = r
         /\ \A v \in Updates : v # u => update'[v] = update[v]
BY DEF Set

\* Move and Fail leave what the update has seen, and take its child away.
Moved(x, pc) == [x EXCEPT !.pc = pc, !.child = "none"]

LEMMA MovedFacts ==
  ASSUME NEW x \in UpdateState,
         NEW pc \in {"preinstall", "replaced", "consuming", "rolledBack", "failed", "finished"}
  PROVE  /\ Moved(x, pc) \in UpdateState /\ Moved(x, pc).pc = pc /\ Moved(x, pc).child = "none"
         /\ Moved(x, pc).seen = x.seen /\ Moved(x, pc).id = x.id /\ Moved(x, pc).job = x.job
BY DEF UpdateState, Moved

Retiring(x, id) == [x EXCEPT !.pc = "retiring", !.child = "waiting", !.job = "stop", !.id = id]

LEMMA RetiringFacts ==
  ASSUME NEW x \in UpdateState, NEW id \in Updates \cup {NoUpdate}
  PROVE  LET r == Retiring(x, id) IN
         /\ r \in UpdateState /\ r.pc = "retiring" /\ r.child = "waiting"
         /\ r.job = "stop" /\ r.seen = x.seen /\ r.id = id
BY DEF UpdateState, Retiring

Cleaning(x) == [x EXCEPT !.pc = "cleaning", !.child = "waiting", !.job = "stop", !.id = NoUpdate]

LEMMA CleaningFacts ==
  ASSUME NEW x \in UpdateState
  PROVE  LET r == Cleaning(x) IN
         /\ r \in UpdateState /\ r.pc = "cleaning" /\ r.child = "waiting"
         /\ r.job = "stop" /\ r.seen = x.seen /\ r.id = NoUpdate
BY DEF UpdateState, Cleaning

Restored(x, id) == [x EXCEPT !.pc = "starting", !.child = "waiting", !.job = "start",
                             !.tries = 1, !.id = id]

LEMMA RestoredFacts ==
  ASSUME NEW x \in UpdateState, NEW id \in Updates \cup {NoUpdate}
  PROVE  LET r == Restored(x, id) IN
         /\ r \in UpdateState /\ r.pc = "starting" /\ r.child = "waiting"
         /\ r.job = "start" /\ r.seen = x.seen /\ r.id = id
BY DEF UpdateState, Restored

Redone(x, mode) == [x EXCEPT !.pc = "replaced", !.child = "none", !.mode = mode]

LEMMA RedoneFacts ==
  ASSUME NEW x \in UpdateState, NEW mode \in {"wrapper", "recover"}
  PROVE  LET r == Redone(x, mode) IN
         /\ r \in UpdateState /\ r.pc = "replaced" /\ r.child = "none"
         /\ r.seen = x.seen /\ r.id = x.id
BY DEF UpdateState, Redone

Ended(x, pc) == [x EXCEPT !.pc = pc]

LEMMA EndedFacts ==
  ASSUME NEW x \in UpdateState, NEW pc \in {"failed", "rolledBack"}
  PROVE  LET r == Ended(x, pc) IN
         /\ r \in UpdateState /\ r.pc = pc /\ r.child = x.child /\ r.job = x.job
         /\ r.seen = x.seen /\ r.id = x.id
BY DEF UpdateState, Ended

Failed(x) == [x EXCEPT !.child = "failed"]

LEMMA FailedFacts ==
  ASSUME NEW x \in UpdateState
  PROVE  LET r == Failed(x) IN
         /\ r \in UpdateState /\ r.pc = x.pc /\ r.child = "failed" /\ r.job = x.job
         /\ r.seen = x.seen /\ r.id = x.id
BY DEF UpdateState, Failed

Running(x) == [x EXCEPT !.child = "running"]

LEMMA RunningFacts ==
  ASSUME NEW x \in UpdateState
  PROVE  LET r == Running(x) IN
         /\ r \in UpdateState /\ r.pc = x.pc /\ r.child = "running" /\ r.job = x.job
         /\ r.seen = x.seen /\ r.id = x.id
BY DEF UpdateState, Running

Finished(x, child) == [x EXCEPT !.child = child]

LEMMA FinishedFacts ==
  ASSUME NEW x \in UpdateState, NEW child \in {"ok", "failed"}
  PROVE  LET r == Finished(x, child) IN
         /\ r \in UpdateState /\ r.pc = x.pc /\ r.child = child /\ r.job = x.job
         /\ r.seen = x.seen /\ r.id = x.id
BY DEF UpdateState, Finished

LEMMA VerifyFacts ==
  ASSUME NEW x \in UpdateState, NEW r,
         r = [x EXCEPT !.pc = "verifying", !.child = "waiting", !.job = "status", !.tries = 1]
  PROVE  /\ r \in UpdateState /\ r.pc = "verifying" /\ r.child = "waiting"
         /\ r.job = "status" /\ r.seen = x.seen /\ r.id = x.id
BY DEF UpdateState

Restoring == {"starting", "verifying", "consuming"}

\* A step of one update that touches neither the record nor the revision, spawns no
\* retirement and loses no running child.
LEMMA UpdateKeeps ==
  ASSUME PackageIInv, NEW u \in Updates, NEW r \in UpdateState, Set(u, r), Alone,
         UNCHANGED transition,
         update[u].pc # "new", r.pc # "new", r.seen = update[u].seen,
         \/ tlock' = tlock
         \/ tlock = u /\ tlock' = NoUpdate
         \/ tlock = NoUpdate /\ tlock' = u,
         r.pc \in Restoring => tlock' = u /\ transition.state = "retired",
         \/ r.child = update[u].child /\ r.job = update[u].job /\ r.id = update[u].id
         \/ /\ update[u].child # "running"
            /\ \/ r.child \in {"none", "failed"}
               \/ r.child = "waiting" /\ (r.job # "stop" \/ r.id = NoUpdate),
         r.id # NoUpdate => r.id \in Observed,
         r.pc \in {"preinstall", "replaced", "consuming"} => r.child = "none",
         r.pc \in {"retiring", "cleaning"} => r.job = "stop",
         r.pc = "retiring" => r.id = u,
         r.pc = "starting" => r.job = "start",
         r.pc \in {"verifying", "consuming"} \/ (r.pc = "starting" /\ r.child = "ok")
           => downed = NoUpdate
  PROVE  PackageIInv'
<1>1. update \in [Updates -> UpdateState] /\ tlock \in Updates \cup {NoUpdate}
  BY DEF PackageIInv, PackageInv
<1>2. /\ update' \in [Updates -> UpdateState] /\ update'[u] = r
      /\ \A v \in Updates : v # u => update'[v] = update[v]
  BY <1>1, SetFacts
<1>3. UNCHANGED <<enabled, marker, backend, call, revision, issuer, stops, revoked, downed>>
  BY DEF Alone, vars
<1>4. Observed' = Observed
  BY <1>2 DEF Observed, In
<1>5. PackageInv'
  <2>1. \A v \in Updates : update'[v].pc \in {"starting", "verifying", "consuming"}
          => tlock' = v /\ transition'.state = "retired"
    BY <1>1, <1>2 DEF PackageIInv, PackageInv, Restoring
  <2> QED
    BY <1>1, <1>2, <1>3, <2>1 DEF PackageIInv, PackageInv, LifecycleInv
<1>6. RevisionInv'
  BY <1>2, <1>3, <1>4 DEF PackageIInv, RevisionInv, SeenInv
<1>7. IssuerInv'
  <2>1. issuer.by # NoUpdate => issuer.by \in Updates /\ update[issuer.by].child = "running"
    BY DEF PackageIInv, PackageInv, IssuerInv
  <2>2. issuer.by # NoUpdate => /\ update'[issuer.by].child = "running"
                                /\ update'[issuer.by].id = update[issuer.by].id
                                /\ update'[issuer.by].job = update[issuer.by].job
    BY <1>2, <2>1
  <2> QED
    BY <1>3, <1>4, <2>2 DEF PackageIInv, IssuerInv
<1>8. \A v \in Updates : ChildInv(v)'
  <2>1. ASSUME NEW v \in Updates, v # u PROVE ChildInv(v)'
    BY <1>2, <1>3, <1>4, <2>1 DEF PackageIInv, ChildInv
  <2>2. ChildInv(u)'
    BY <1>2, <1>3, <1>4 DEF PackageIInv, ChildInv
  <2> QED
    BY <2>1, <2>2
<1>9. TransitionInv'
  BY <1>4 DEF PackageIInv, TransitionInv
<1>10. OutageInv'
  BY <1>2, <1>3 DEF PackageIInv, OutageInv, OutageRecorded
<1> QED
  BY <1>5, <1>6, <1>7, <1>8, <1>9, <1>10 DEF PackageIInv

\* What is known of an update before its step.
LEMMA UpdateFacts ==
  ASSUME PackageIInv, NEW u \in Updates
  PROVE  /\ update \in [Updates -> UpdateState] /\ update[u] \in UpdateState
         /\ update[u].id # NoUpdate => update[u].id \in Observed
         /\ transition.id # NoUpdate => transition.id \in Observed
         /\ update[u].pc \in Restoring => tlock = u /\ transition.state = "retired"
         /\ update[u].pc \in {"verifying", "consuming"}
              \/ (update[u].pc = "starting" /\ update[u].child = "ok") => downed = NoUpdate
         /\ update[u].pc \in {"new", "preinstall", "replaced", "consuming"}
              => update[u].child = "none"
BY DEF PackageIInv, PackageInv, ChildInv, TransitionInv, OutageInv, Restoring

\* A step that ends at rest, its child gone and its lock given back or never taken.
LEMMA RestKeeps ==
  ASSUME PackageIInv, NEW u \in Updates, Alone, UNCHANGED transition,
         update[u].pc # "new", update[u].child # "running",
         NEW pc \in {"preinstall", "replaced", "rolledBack", "failed", "finished"},
         Move(u, pc),
         tlock' = tlock \/ (tlock = u /\ tlock' = NoUpdate)
  PROVE  PackageIInv'
<1> DEFINE r == Moved(update[u], pc)
<1>1. update[u] \in UpdateState /\ (update[u].id # NoUpdate => update[u].id \in Observed)
  BY UpdateFacts
<1>2. /\ r \in UpdateState /\ r.pc = pc /\ r.child = "none" /\ r.seen = update[u].seen
      /\ r.id = update[u].id
  BY <1>1, MovedFacts
<1>3. Set(u, r)
  BY DEF Move, Moved
<1> HIDE DEF r
<1> QED
  BY <1>1, <1>2, <1>3, UpdateKeeps DEF Restoring

LEMMA FailKeeps ==
  ASSUME PackageIInv, NEW u \in Updates, Alone, UNCHANGED transition,
         update[u].pc # "new", update[u].child # "running", Fail(u),
         tlock' = tlock \/ (tlock = u /\ tlock' = NoUpdate)
  PROVE  PackageIInv'
<1>1. Failing(u) \in {"failed", "rolledBack"}
  BY DEF Failing
<1> QED
  BY <1>1, RestKeeps DEF Fail

LEMMA NpmFailsKeeps ==
  ASSUME PackageIInv, NEW u \in Updates, NpmFails(u)
  PROVE  PackageIInv'
BY UpdateFacts, FailKeeps DEF NpmFails

LEMMA AgainKeeps ==
  ASSUME PackageIInv, NEW u \in Updates, NEW job \in {"start", "status"}, Again(u, job),
         UNCHANGED transition, Alone, update[u].child # "running",
         \/ update[u].pc = "starting" /\ job = "start"
         \/ update[u].pc = "verifying" /\ job = "status"
  PROVE  PackageIInv'
<1>1. /\ update[u] \in UpdateState /\ (update[u].id # NoUpdate => update[u].id \in Observed)
      /\ tlock = u /\ transition.state = "retired"
      /\ update[u].pc = "verifying" => downed = NoUpdate
  BY UpdateFacts DEF Restoring
<1>2. CASE Release(u, Failing(u))
  <2>1. Failing(u) \in {"failed", "rolledBack"}
    BY DEF Failing
  <2> QED
    BY <1>1, <1>2, <2>1, RestKeeps DEF Release
<1>3. CASE UNCHANGED tlock
           /\ Set(u, [update[u] EXCEPT !.child = "waiting", !.job = job, !.tries = 0])
  <2>0. PICK x \in UpdateState : x = update[u]
    BY <1>1
  <2> DEFINE r == [x EXCEPT !.child = "waiting", !.job = job, !.tries = 0]
  <2>1. /\ r \in UpdateState /\ r.pc = x.pc /\ r.child = "waiting"
        /\ r.seen = x.seen /\ r.id = x.id /\ r.job = job
    BY <2>0 DEF UpdateState
  <2>2. Set(u, r)
    BY <2>0, <1>3
  <2> HIDE DEF r
  <2> QED
    BY <1>1, <1>3, <2>0, <2>1, <2>2, UpdateKeeps DEF Restoring
<1> QED
  BY <1>2, <1>3 DEF Again

LEMMA BeginRestoreKeeps ==
  ASSUME PackageIInv, NEW u \in Updates, BeginRestore(u)
  PROVE  PackageIInv'
<1>1. /\ update[u].pc = "replaced" /\ update[u].child = "none" /\ tlock = NoUpdate
      /\ UNCHANGED transition /\ Alone
  BY UpdateFacts DEF BeginRestore, In
<1>2. CASE Move(u, "finished") /\ UNCHANGED tlock
  BY <1>1, <1>2, RestKeeps
<1>3. CASE Fail(u) /\ UNCHANGED tlock
  BY <1>1, <1>3, FailKeeps
<1>4. CASE /\ transition.state = "retired" /\ tlock' = u
           /\ Set(u, [update[u] EXCEPT
                !.pc = "starting", !.child = "waiting", !.job = "start", !.tries = 1,
                !.id = IF update[u].mode = "recover" THEN NoUpdate ELSE transition.id])
  <2> DEFINE id == IF update[u].mode = "recover" THEN NoUpdate ELSE transition.id
  <2>1. id \in Updates \cup {NoUpdate} /\ (id # NoUpdate => id \in Observed)
    BY UpdateFacts DEF PackageIInv, PackageInv
  <2> DEFINE r == Restored(update[u], id)
  <2>2. Set(u, r)
    BY <1>4 DEF Restored
  <2> HIDE DEF id
  <2>3. /\ r \in UpdateState /\ r.pc = "starting" /\ r.child = "waiting"
        /\ r.seen = update[u].seen /\ r.id = id /\ r.job = "start"
    BY <2>1, UpdateFacts, RestoredFacts
  <2> HIDE DEF r
  <2> QED
    BY <1>1, <1>4, <2>1, <2>2, <2>3, UpdateKeeps DEF Restoring
<1> QED
  BY <1>2, <1>3, <1>4 DEF BeginRestore

LEMMA StartedKeeps ==
  ASSUME PackageIInv, NEW u \in Updates, Started(u)
  PROVE  PackageIInv'
<1>1. /\ update[u].pc = "starting" /\ update[u].child \in {"ok", "failed"}
      /\ UNCHANGED transition /\ Alone
  BY DEF Started, In
<1>2. CASE Again(u, "start")
  BY <1>1, <1>2, AgainKeeps
<1>3. CASE /\ update[u].child # "failed" /\ UNCHANGED tlock
           /\ Set(u, [update[u] EXCEPT !.pc = "verifying", !.child = "waiting",
                                       !.job = "status", !.tries = 1])
  <2>0. PICK r : r = [update[u] EXCEPT !.pc = "verifying", !.child = "waiting",
                                       !.job = "status", !.tries = 1]
    OBVIOUS
  <2>1. /\ update[u] \in UpdateState /\ (update[u].id # NoUpdate => update[u].id \in Observed)
        /\ tlock = u /\ transition.state = "retired" /\ downed = NoUpdate
    BY <1>1, <1>3, UpdateFacts DEF Restoring
  <2>2. /\ r \in UpdateState /\ r.pc = "verifying" /\ r.child = "waiting"
        /\ r.seen = update[u].seen /\ r.id = update[u].id /\ r.job = "status"
    BY <2>0, <2>1, VerifyFacts
  <2>3. Set(u, r)
    BY <2>0, <1>3
  <2> QED
    BY <1>1, <1>3, <2>1, <2>2, <2>3, UpdateKeeps DEF Restoring
<1> QED
  BY <1>2, <1>3 DEF Started

LEMMA VerifiedKeeps ==
  ASSUME PackageIInv, NEW u \in Updates, Verified(u)
  PROVE  PackageIInv'
<1>1. /\ update[u].pc = "verifying" /\ update[u].child = "waiting"
      /\ UNCHANGED transition /\ Alone
  BY DEF Verified, In
<1>2. CASE Again(u, "status")
  BY <1>1, <1>2, AgainKeeps
<1>3. CASE /\ UNCHANGED tlock
           /\ Set(u, [update[u] EXCEPT !.pc = "consuming", !.child = "none"])
  <2> DEFINE r == Moved(update[u], "consuming")
  <2>1. /\ update[u] \in UpdateState /\ (update[u].id # NoUpdate => update[u].id \in Observed)
        /\ tlock = u /\ transition.state = "retired" /\ downed = NoUpdate
    BY <1>1, UpdateFacts DEF Restoring
  <2>2. /\ r \in UpdateState /\ r.pc = "consuming" /\ r.child = "none"
        /\ r.seen = update[u].seen /\ r.id = update[u].id
    BY <2>1, MovedFacts
  <2>3. Set(u, r)
    BY <1>3 DEF Moved
  <2> HIDE DEF r
  <2> QED
    BY <1>1, <1>3, <2>1, <2>2, <2>3, UpdateKeeps DEF Restoring
<1> QED
  BY <1>2, <1>3 DEF Verified

LEMMA RestoreOwnKeeps ==
  ASSUME PackageIInv, NEW u \in Updates, RestoreOwn(u)
  PROVE  PackageIInv'
<1>1. /\ update[u].pc = "rolledBack" /\ update[u].child # "running"
      /\ UNCHANGED <<transition, tlock>> /\ Alone
  BY DEF RestoreOwn, In, Childless
<1>2. CASE Move(u, "failed")
  BY <1>1, <1>2, RestKeeps
<1>3. CASE Set(u, [update[u] EXCEPT !.pc = "replaced", !.child = "none", !.mode = "wrapper"])
  <2> DEFINE r == Redone(update[u], "wrapper")
  <2>1. /\ r \in UpdateState /\ r.pc = "replaced" /\ r.child = "none"
        /\ r.seen = update[u].seen /\ r.id = update[u].id
    BY UpdateFacts, RedoneFacts
  <2>2. Set(u, r) /\ (update[u].id # NoUpdate => update[u].id \in Observed)
    BY <1>3, UpdateFacts DEF Redone
  <2> HIDE DEF r
  <2> QED
    BY <1>1, <2>1, <2>2, UpdateKeeps DEF Restoring
<1> QED
  BY <1>2, <1>3 DEF RestoreOwn

LEMMA RecoverCommandKeeps ==
  ASSUME PackageIInv, NEW u \in Updates, RecoverCommand(u)
  PROVE  PackageIInv'
<1> DEFINE r == Redone(update[u], "recover")
<1>1. /\ update[u].pc = "failed" /\ update[u].child # "running"
      /\ UNCHANGED <<transition, tlock>> /\ Alone
  BY DEF RecoverCommand, In, Childless
<1>2. /\ r \in UpdateState /\ r.pc = "replaced" /\ r.child = "none"
      /\ r.seen = update[u].seen /\ r.id = update[u].id
  BY UpdateFacts, RedoneFacts
<1>3. Set(u, r) /\ (update[u].id # NoUpdate => update[u].id \in Observed)
  BY UpdateFacts DEF Redone, RecoverCommand
<1> HIDE DEF r
<1> QED
  BY <1>1, <1>2, <1>3, UpdateKeeps DEF Restoring

LEMMA UpdateKilledKeeps ==
  ASSUME PackageIInv, NEW u \in Updates, UpdateKilled(u)
  PROVE  PackageIInv'
<1>1. PICK pc \in {"failed", "rolledBack"} : Set(u, [update[u] EXCEPT !.pc = pc])
  BY DEF UpdateKilled, Failing
<1> DEFINE r == Ended(update[u], pc)
<1>2. /\ update[u].pc # "new" /\ tlock' = (IF tlock = u THEN NoUpdate ELSE tlock)
      /\ UNCHANGED transition /\ Alone
  BY DEF UpdateKilled
<1>3. /\ r \in UpdateState /\ r.pc = pc /\ r.child = update[u].child
      /\ r.seen = update[u].seen /\ r.id = update[u].id /\ r.job = update[u].job
  BY UpdateFacts, EndedFacts
<1>4. Set(u, r) /\ (update[u].id # NoUpdate => update[u].id \in Observed)
  BY <1>1, UpdateFacts DEF Ended
<1> HIDE DEF r
<1> QED
  BY <1>2, <1>3, <1>4, UpdateKeeps DEF Restoring

LEMMA ChildFailsKeeps ==
  ASSUME PackageIInv, NEW u \in Updates, ChildRefused(u) \/ WaitingChildKilled(u)
  PROVE  PackageIInv'
<1> DEFINE r == Failed(update[u])
<1>1. /\ update[u].child = "waiting" /\ UNCHANGED <<transition, tlock>> /\ Alone
  BY DEF ChildRefused, WaitingChildKilled, Waiting, Alone
<1>2. /\ r \in UpdateState /\ r.pc = update[u].pc /\ r.child = "failed"
      /\ r.seen = update[u].seen /\ r.id = update[u].id /\ r.job = update[u].job
  BY UpdateFacts, FailedFacts
<1>3. Set(u, r)
  BY DEF ChildRefused, WaitingChildKilled, Failed
<1>4. /\ update[u].id # NoUpdate => update[u].id \in Observed
      /\ update[u].pc \in Restoring => tlock = u /\ transition.state = "retired"
      /\ update[u].pc \in {"verifying", "consuming"} => downed = NoUpdate
      /\ update[u].pc \notin {"new", "preinstall", "replaced", "consuming"}
  BY <1>1, UpdateFacts
<1>5. /\ update[u].pc \in {"retiring", "cleaning"} => update[u].job = "stop"
      /\ update[u].pc = "retiring" => update[u].id = u
      /\ update[u].pc = "starting" => update[u].job = "start"
  BY DEF PackageIInv, ChildInv
<1> HIDE DEF r
<1> QED
  BY <1>1, <1>2, <1>3, <1>4, <1>5, UpdateKeeps

\* A step of one update that changes the record, while no other update restores
\* and no other retirement is under way.
LEMMA RecordKeeps ==
  ASSUME PackageIInv, NEW u \in Updates, NEW r \in UpdateState, Set(u, r), Alone,
         transition' \in [state : {"none", "retiring", "retired"},
                          id : Updates \cup {NoUpdate}, old : BOOLEAN],
         tlock' \in Updates \cup {NoUpdate},
         transition'.id # NoUpdate => transition'.id \in Observed,
         transition'.state = "none" => transition' = NoTransition,
         transition'.state = "retired" =>
           revision = <<"permit", transition'.id>> \/ transition'.id \in revoked,
         downed # NoUpdate => transition'.id = downed,
         \A v \in Updates \ {u} :
           /\ update[v].pc \notin Restoring
           /\ update[v].child \in {"waiting", "running", "ok"} /\ update[v].job = "stop"
                => update[v].id = NoUpdate,
         update[u].pc # "new", r.pc # "new", r.seen = update[u].seen,
         update[u].child # "running",
         r.pc \notin Restoring, r.id # NoUpdate => r.id \in Observed,
         \/ /\ r.child = "none" /\ r.pc \notin {"retiring", "cleaning"}
         \/ /\ r.child = "waiting" /\ r.job = "stop" /\ r.id = u /\ r.pc = "retiring"
            /\ transition'.state = "retiring" /\ transition'.id = u
  PROVE  PackageIInv'
<1>1. update \in [Updates -> UpdateState]
  BY DEF PackageIInv, PackageInv
<1>2. /\ update' \in [Updates -> UpdateState] /\ update'[u] = r
      /\ \A v \in Updates : v # u => update'[v] = update[v]
  BY <1>1, SetFacts
<1>3. UNCHANGED <<enabled, marker, backend, call, revision, issuer, stops, revoked, downed>>
  BY DEF Alone, vars
<1>4. Observed' = Observed
  BY <1>2 DEF Observed, In
<1>5. PackageInv'
  <2>1. \A v \in Updates : update'[v].pc \notin {"starting", "verifying", "consuming"}
    BY <1>2 DEF Restoring
  <2> QED
    BY <1>2, <1>3, <2>1 DEF PackageIInv, PackageInv, LifecycleInv
<1>6. RevisionInv'
  BY <1>2, <1>3, <1>4 DEF PackageIInv, RevisionInv, SeenInv
<1>7. IssuerInv'
  <2>1. issuer.by # NoUpdate => issuer.by \in Updates /\ update[issuer.by].child = "running"
    BY DEF PackageIInv, PackageInv, IssuerInv
  <2>2. issuer.by # NoUpdate => update'[issuer.by] = update[issuer.by]
    BY <1>2, <2>1
  <2> QED
    BY <1>3, <1>4, <2>2 DEF PackageIInv, IssuerInv
<1>8. \A v \in Updates : ChildInv(v)'
  <2>1. ASSUME NEW v \in Updates, v # u PROVE ChildInv(v)'
    BY <1>2, <1>3, <1>4, <2>1 DEF PackageIInv, ChildInv
  <2>2. ChildInv(u)'
    BY <1>2, <1>3, <1>4 DEF PackageIInv, ChildInv, Restoring
  <2> QED
    BY <2>1, <2>2
<1>9. TransitionInv'
  BY <1>4 DEF TransitionInv
<1>10. OutageInv'
  <2>1. \A v \in Updates : update'[v].pc \notin Restoring
    BY <1>2
  <2> QED
    BY <1>3, <2>1 DEF PackageIInv, OutageInv, OutageRecorded, Restoring
<1> QED
  BY <1>5, <1>6, <1>7, <1>8, <1>9, <1>10 DEF PackageIInv

\* Whose record it is tells whose retirement is under way, and who restores.
LEMMA OthersIdle ==
  ASSUME PackageIInv, NEW u \in Updates, NEW v \in Updates \ {u},
         transition.state # "retiring" \/ transition.id = u,
         transition.state # "retired" \/ tlock \in {u, NoUpdate}
  PROVE  /\ update[v].pc \notin Restoring
         /\ update[v].child \in {"waiting", "running", "ok"} /\ update[v].job = "stop"
              => update[v].id = NoUpdate
BY DEF PackageIInv, PackageInv, ChildInv, Restoring

LEMMA NoTransitionFacts ==
  /\ NoTransition \in [state : {"none", "retiring", "retired"},
                       id : Updates \cup {NoUpdate}, old : BOOLEAN]
  /\ NoTransition.id = NoUpdate /\ NoTransition.state = "none"
BY DEF NoTransition

LEMMA BeginRetireKeeps ==
  ASSUME PackageIInv, NEW u \in Updates, BeginRetire(u)
  PROVE  PackageIInv'
<1>1. /\ update[u].pc = "preinstall" /\ update[u].child = "none" /\ tlock = NoUpdate
      /\ UNCHANGED tlock /\ Alone /\ update[u] \in UpdateState
      /\ update[u].id # NoUpdate => update[u].id \in Observed
  BY UpdateFacts DEF BeginRetire, In
<1>2. u \in Observed
  BY <1>1 DEF Observed, In
<1>3. CASE Fail(u) /\ UNCHANGED transition
  BY <1>1, <1>3, FailKeeps
<1>4. CASE Move(u, "replaced") /\ UNCHANGED transition
  BY <1>1, <1>4, RestKeeps
<1>5. CASE Spawn(u, "cleaning", "stop", NoUpdate) /\ UNCHANGED transition
  <2> DEFINE r == Cleaning(update[u])
  <2>1. /\ r \in UpdateState /\ r.pc = "cleaning" /\ r.child = "waiting" /\ r.job = "stop"
        /\ r.seen = update[u].seen /\ r.id = NoUpdate
    BY <1>1, CleaningFacts
  <2>2. Set(u, r)
    BY <1>5 DEF Spawn, Cleaning
  <2> HIDE DEF r
  <2> QED
    BY <1>1, <1>5, <2>1, <2>2, UpdateKeeps DEF Restoring
<1>6. CASE /\ transition = NoTransition
           /\ transition' = [state |-> "retiring", id |-> u, old |-> FALSE]
           /\ Spawn(u, "retiring", "stop", u)
  <2> DEFINE r == Retiring(update[u], u)
  <2>1. /\ r \in UpdateState /\ r.pc = "retiring" /\ r.child = "waiting" /\ r.job = "stop"
        /\ r.seen = update[u].seen /\ r.id = u
    BY <1>1, RetiringFacts
  <2>2. Set(u, r)
    BY <1>6 DEF Spawn, Retiring
  <2> HIDE DEF r
  <2>3. /\ transition'.state = "retiring" /\ transition'.id = u
        /\ transition' \in [state : {"none", "retiring", "retired"},
                            id : Updates \cup {NoUpdate}, old : BOOLEAN]
    BY <1>6
  <2>4. transition.state = "none" /\ transition.id = NoUpdate /\ downed = NoUpdate
    BY <1>6, NoTransitionFacts DEF PackageIInv, OutageInv, OutageRecorded
  <2>5. \A v \in Updates \ {u} :
          /\ update[v].pc \notin Restoring
          /\ update[v].child \in {"waiting", "running", "ok"} /\ update[v].job = "stop"
               => update[v].id = NoUpdate
    BY <2>4, OthersIdle
  <2> QED
    BY <1>1, <1>2, <2>1, <2>2, <2>3, <2>4, <2>5, RecordKeeps DEF Restoring
<1> QED
  BY <1>3, <1>4, <1>5, <1>6 DEF BeginRetire

LEMMA RetiredKeeps ==
  ASSUME PackageIInv, NEW u \in Updates, Retired(u)
  PROVE  PackageIInv'
<1>1. /\ update[u].pc \in {"retiring", "cleaning"} /\ update[u].child \in {"ok", "failed"}
      /\ tlock = NoUpdate /\ UNCHANGED tlock /\ Alone /\ update[u] \in UpdateState
      /\ update[u].id # NoUpdate => update[u].id \in Observed
  BY UpdateFacts DEF Retired
<1>2. CASE Fail(u) /\ UNCHANGED transition
  BY <1>1, <1>2, FailKeeps
<1>3. CASE Move(u, "replaced") /\ UNCHANGED transition
  BY <1>1, <1>3, RestKeeps
<1>4. CASE /\ update[u].child # "failed" /\ update[u].pc # "cleaning"
           /\ transition.state = "retiring" /\ transition.id = u
           /\ Move(u, "replaced") /\ transition' = [transition EXCEPT !.state = "retired"]
  <2> DEFINE r == Moved(update[u], "replaced")
  <2>1. /\ r \in UpdateState /\ r.pc = "replaced" /\ r.child = "none"
        /\ r.seen = update[u].seen /\ r.id = update[u].id
    BY <1>1, MovedFacts
  <2>2. Set(u, r)
    BY <1>4 DEF Move, Moved
  <2> HIDE DEF r
  <2>3. /\ transition'.state = "retired" /\ transition'.id = u
        /\ transition' \in [state : {"none", "retiring", "retired"},
                            id : Updates \cup {NoUpdate}, old : BOOLEAN]
    BY <1>4 DEF PackageIInv, PackageInv
  <2>4. revision = <<"permit", u>> \/ u \in revoked
    BY <1>1, <1>4 DEF PackageIInv, ChildInv
  <2>5. \A v \in Updates \ {u} :
          /\ update[v].pc \notin Restoring
          /\ update[v].child \in {"waiting", "running", "ok"} /\ update[v].job = "stop"
               => update[v].id = NoUpdate
    BY <1>4, OthersIdle
  <2>6. u \in Observed /\ (downed # NoUpdate => u = downed)
    BY <1>1, <1>4 DEF Observed, In, PackageIInv, OutageInv, OutageRecorded
  <2> QED
    BY <1>1, <2>1, <2>2, <2>3, <2>4, <2>5, <2>6, RecordKeeps DEF Restoring
<1> QED
  BY <1>1, <1>2, <1>3, <1>4 DEF Retired, In

LEMMA ConsumeKeeps ==
  ASSUME PackageIInv, NEW u \in Updates, Consume(u)
  PROVE  PackageIInv'
<1> DEFINE r == Moved(update[u], "finished")
<1>1. /\ update[u].pc = "consuming" /\ Alone /\ update[u] \in UpdateState
      /\ update[u].child = "none" /\ downed = NoUpdate
      /\ tlock = u /\ transition.state = "retired"
      /\ transition' = NoTransition /\ tlock' = NoUpdate
      /\ update[u].id # NoUpdate => update[u].id \in Observed
  BY UpdateFacts DEF Consume, In, Release, Restoring
<1>2. /\ r \in UpdateState /\ r.pc = "finished" /\ r.child = "none"
      /\ r.seen = update[u].seen /\ r.id = update[u].id
  BY <1>1, MovedFacts
<1>3. Set(u, r)
  BY DEF Consume, Release, Move, Moved
<1> HIDE DEF r
<1>4. \A v \in Updates \ {u} :
        /\ update[v].pc \notin Restoring
        /\ update[v].child \in {"waiting", "running", "ok"} /\ update[v].job = "stop"
             => update[v].id = NoUpdate
  BY <1>1, OthersIdle
<1> QED
  BY <1>1, <1>2, <1>3, <1>4, NoTransitionFacts, RecordKeeps DEF Restoring

\* What a new update observes is the present revision.
Fresh(pc) == [Update(pc) EXCEPT !.seen = revision]

LEMMA FreshFacts ==
  ASSUME revision \in Revision, NEW pc \in {"preinstall", "failed"}
  PROVE  /\ Fresh(pc) \in UpdateState /\ Fresh(pc).pc = pc /\ Fresh(pc).child = "none"
         /\ Fresh(pc).id = NoUpdate /\ Fresh(pc).seen = revision
BY DEF Fresh, Update, UpdateState

LEMMA ObserveKeeps ==
  ASSUME PackageIInv, NEW u \in Updates, Observe(u)
  PROVE  PackageIInv'
<1> DEFINE pc == IF transition = NoTransition THEN "preinstall" ELSE "failed"
<1>1. /\ update \in [Updates -> UpdateState] /\ revision \in Revision /\ update[u].pc = "new"
      /\ UNCHANGED <<transition, tlock>> /\ Alone
  BY DEF Observe, In, PackageIInv, PackageInv
<1>2. pc \in {"preinstall", "failed"}
  OBVIOUS
<1>3. Set(u, Fresh(pc))
  BY DEF Observe, Fresh
<1> HIDE DEF pc
<1> DEFINE r == Fresh(pc)
<1>4. /\ r \in UpdateState /\ r.pc = pc /\ r.child = "none" /\ r.id = NoUpdate
      /\ r.seen = revision
  BY <1>1, <1>2, FreshFacts
<1> HIDE DEF r
<1>5. /\ update' \in [Updates -> UpdateState] /\ update'[u] = r
      /\ \A v \in Updates : v # u => update'[v] = update[v]
  BY <1>1, <1>3, <1>4, SetFacts DEF r
<1>6. UNCHANGED <<enabled, marker, backend, call, revision, issuer, stops, revoked, downed>>
  BY <1>1 DEF Alone, vars
<1>7. Observed' = Observed \cup {u} /\ u \notin Observed
  BY <1>1, <1>2, <1>4, <1>5 DEF Observed, In
<1>8. PackageInv'
  <2>1. \A v \in Updates : update'[v].pc \in {"starting", "verifying", "consuming"}
          => tlock' = v /\ transition'.state = "retired"
    BY <1>1, <1>2, <1>4, <1>5 DEF PackageIInv, PackageInv
  <2> QED
    BY <1>1, <1>5, <1>6, <2>1 DEF PackageIInv, PackageInv, LifecycleInv
<1>9. RevisionInv'
  <2>1. ASSUME NEW v \in Updates, v # u PROVE SeenInv(v)'
    BY <1>5, <1>6, <1>7, <2>1 DEF PackageIInv, RevisionInv, SeenInv
  <2>2. SeenInv(u)'
    <3>1. u \notin revoked /\ (revision[1] = "permit" => revision[2] \in Observed)
          /\ (revision[1] = "stopped" => revision[2] = stops) /\ stops \in Nat
      BY <1>7 DEF PackageIInv, PackageInv, RevisionInv
    <3> QED
      BY <1>4, <1>5, <1>6, <1>7, <3>1 DEF SeenInv
  <2> QED
    BY <1>6, <1>7, <2>1, <2>2 DEF PackageIInv, RevisionInv
<1>10. IssuerInv'
  <2>1. issuer.by # NoUpdate => issuer.by \in Updates /\ issuer.by # u
    BY <1>1 DEF PackageIInv, PackageInv, IssuerInv, ChildInv
  <2> QED
    BY <1>5, <1>6, <1>7, <2>1 DEF PackageIInv, IssuerInv
<1>11. \A v \in Updates : ChildInv(v)'
  <2>1. ASSUME NEW v \in Updates, v # u PROVE ChildInv(v)'
    BY <1>1, <1>5, <1>6, <1>7, <2>1 DEF PackageIInv, ChildInv
  <2>2. ChildInv(u)'
    BY <1>2, <1>4, <1>5 DEF ChildInv
  <2> QED
    BY <2>1, <2>2
<1>12. TransitionInv' /\ OutageInv'
  BY <1>1, <1>2, <1>4, <1>5, <1>6, <1>7 DEF PackageIInv, TransitionInv, OutageInv, OutageRecorded
<1> QED
  BY <1>8, <1>9, <1>10, <1>11, <1>12 DEF PackageIInv

LEMMA GrowOldKeeps ==
  ASSUME PackageIInv, GrowOld
  PROVE  PackageIInv'
<1>1. /\ UNCHANGED <<enabled, marker, backend, call, revision, issuer, stops, revoked, downed,
                     tlock, update>>
      /\ transition'.id = transition.id /\ transition'.state = transition.state
      /\ transition.state = "retired"
      /\ transition' \in [state : {"none", "retiring", "retired"},
                          id : Updates \cup {NoUpdate}, old : BOOLEAN]
  BY DEF GrowOld, Alone, vars, PackageIInv, PackageInv
<1>2. Observed' = Observed
  BY <1>1 DEF Observed, In
<1> QED
  BY <1>1, <1>2 DEF PackageIInv, PackageInv, LifecycleInv, RevisionInv, SeenInv, IssuerInv,
     ChildInv, TransitionInv, OutageInv, OutageRecorded

\* An update that still sees its revision is not revoked.
LEMMA SeenNotRevoked ==
  ASSUME PackageIInv, NEW u \in Updates, revision = update[u].seen
  PROVE  u \notin revoked
<1> SUFFICES ASSUME u \in revoked PROVE FALSE
  OBVIOUS
<1>1. /\ revision \in Revision /\ SeenInv(u) /\ stops \in Nat /\ stops > 0
      /\ revision # Absent
  BY DEF PackageIInv, PackageInv, RevisionInv, SeenInv
<1>2. CASE revision[1] = "permit"
  BY <1>1, <1>2 DEF PackageIInv, RevisionInv, SeenInv
<1>3. CASE revision[1] = "stopped"
  BY <1>1, <1>3 DEF PackageIInv, RevisionInv, SeenInv
<1> QED
  BY <1>1, <1>2, <1>3 DEF Revision, Absent

\* The command that begins.
LEMMA StartFacts ==
  ASSUME LifecycleInv, NEW clients \in SUBSET Clients, NEW flag \in BOOLEAN,
         BeginStart(clients, flag)
  PROVE  call = NoCall /\ call' # NoCall /\ call'.op = "start" /\ call'.phase = "quiesce"
<1>1. Scope \in SUBSET Clients
  BY DEF LifecycleInv, Scope
<1>2. call' = StartCall(clients, flag) /\ StartCall(clients, flag) \in Call
  BY <1>1 DEF BeginStart, StartCall, Call, Phases
<1>3. call' # NoCall
  BY <1>2
<1> QED
  BY <1>2, <1>3 DEF BeginStart, StartCall

LEMMA StopFacts ==
  ASSUME LifecycleInv, NEW kind \in {"stop", "uninstall"}, NEW clients \in SUBSET Clients,
         NEW flag \in BOOLEAN, BeginStop(kind, clients, flag)
  PROVE  call = NoCall /\ call' # NoCall /\ call'.op = kind /\ call'.phase = "quiesce"
<1>1. Scope \in SUBSET Clients
  BY DEF LifecycleInv, Scope
<1>2. PICK keep \in {NoMarker} \cup SUBSET Clients, halt \in BOOLEAN :
        call' = StopCall(kind, clients, keep, halt)
  BY <1>1 DEF BeginStop
<1>3. StopCall(kind, clients, keep, halt) \in Call
  BY DEF StopCall, Call, Phases
<1>4. call' # NoCall
  BY <1>2, <1>3
<1> QED
  BY <1>2, <1>3, <1>4 DEF BeginStop, StopCall

LEMMA ReplacementFacts ==
  ASSUME LifecycleInv, BeginReplacementStop
  PROVE  call = NoCall /\ call' # NoCall /\ call'.op = "stop" /\ call'.phase = "quiesce"
<1>1. call' = StopCall("stop", {Dsh} \cap Clients, marker, TRUE)
  BY DEF BeginReplacementStop
<1>2. StopCall("stop", {Dsh} \cap Clients, marker, TRUE) \in Call
  BY DEF StopCall, Call, Phases, LifecycleInv
<1>3. call' # NoCall
  BY <1>1, <1>2
<1> QED
  BY <1>1, <1>2, <1>3 DEF BeginReplacementStop, StopCall

\* A child begins under the lock with a transition that nobody has revoked.
LEMMA ChildBeginsKeeps ==
  ASSUME PackageIInv, LifecycleInv', NEW u \in Updates, NEW clients \in SUBSET Clients,
         ChildBegins(u, clients)
  PROVE  PackageIInv'
<1> DEFINE r == Running(update[u])
<1>1. /\ call = NoCall /\ update[u].child = "waiting" /\ update[u].job \in {"stop", "start"}
      /\ call' # NoCall /\ call'.op = update[u].job /\ call'.phase = "quiesce"
      /\ UNCHANGED <<revision, transition, tlock, stops, revoked, downed>>
  <2>1. LifecycleInv
    BY DEF PackageIInv, PackageInv
  <2>2. CASE update[u].job = "stop"
    BY <2>1, <2>2, ReplacementFacts DEF ChildBegins, Waiting
  <2>3. CASE update[u].job = "start"
    <3>1. (IF marker = NoMarker THEN clients ELSE marker) \in SUBSET Clients
      BY <2>1 DEF LifecycleInv
    <3> QED
      BY <2>1, <2>3, <3>1, StartFacts DEF ChildBegins, Waiting
  <2> QED
    BY <2>2, <2>3 DEF ChildBegins, Waiting
<1>2. issuer' = [by |-> u, id |-> update[u].id] /\ Set(u, r)
  BY DEF ChildBegins, Running
<1>3. update \in [Updates -> UpdateState] /\ update[u] \in UpdateState
  BY UpdateFacts
<1>4. /\ r \in UpdateState /\ r.pc = update[u].pc /\ r.child = "running"
      /\ r.seen = update[u].seen /\ r.id = update[u].id /\ r.job = update[u].job
  BY <1>3, RunningFacts
<1>5. /\ update' \in [Updates -> UpdateState] /\ update'[u] = r
      /\ \A v \in Updates : v # u => update'[v] = update[v]
  BY <1>2, <1>3, <1>4, SetFacts
<1> HIDE DEF r
<1>6. Observed' = Observed
  BY <1>4, <1>5 DEF Observed, In
<1>7. update[u].id # NoUpdate => update[u].id \in Observed \ revoked
  <2> SUFFICES ASSUME update[u].id # NoUpdate PROVE update[u].id \in Observed \ revoked
    OBVIOUS
  <2>1. update[u].id \in Observed
    BY UpdateFacts
  <2>2. CASE update[u].job = "stop"
    <3>1. update[u].id = u /\ revision = update[u].seen
      BY <1>1, <2>2 DEF ChildBegins, Permitted, PackageIInv, ChildInv
    <3> QED
      BY <2>1, <3>1, SeenNotRevoked
  <2>3. CASE update[u].job = "start"
    <3>1. revision = <<"permit", update[u].id>>
      BY <2>3 DEF ChildBegins, Permitted
    <3> QED
      BY <3>1 DEF PackageIInv, RevisionInv
  <2> QED
    BY <1>1, <2>2, <2>3
<1>8. PackageInv'
  <2>1. \A v \in Updates : update'[v].pc = update[v].pc
    BY <1>4, <1>5
  <2>2. issuer' \in [by : Updates \cup {NoUpdate}, id : Updates \cup {NoUpdate}]
    BY <1>2, <1>7 DEF Observed
  <2> QED
    BY <1>1, <1>5, <2>1, <2>2 DEF PackageIInv, PackageInv
<1>9. RevisionInv'
  BY <1>1, <1>4, <1>5, <1>6 DEF PackageIInv, RevisionInv, SeenInv
<1>10. IssuerInv'
  BY <1>1, <1>2, <1>4, <1>5, <1>6, <1>7 DEF IssuerInv
<1>11. \A v \in Updates : ChildInv(v)'
  <2>1. ASSUME NEW v \in Updates, v # u PROVE ChildInv(v)'
    <3>1. update[v].child # "running"
      BY <1>1 DEF PackageIInv, IssuerInv, ChildInv, Ours
    <3> QED
      BY <1>1, <1>5, <1>6, <2>1, <3>1 DEF PackageIInv, ChildInv
  <2>2. ChildInv(u)'
    BY <1>1, <1>2, <1>4, <1>5, <1>6 DEF PackageIInv, ChildInv
  <2> QED
    BY <2>1, <2>2
<1>12. TransitionInv' /\ OutageInv'
  BY <1>1, <1>4, <1>5, <1>6 DEF PackageIInv, TransitionInv, OutageInv, OutageRecorded
<1> QED
  BY <1>8, <1>9, <1>10, <1>11, <1>12 DEF PackageIInv

\* A command of the user's; all but a start revoke what any update has observed.
LEMMA OwnBeginKeeps ==
  ASSUME PackageIInv, LifecycleInv', NEW clients \in SUBSET Clients, NEW flag \in BOOLEAN,
         OwnBegin(clients, flag)
  PROVE  PackageIInv'
<1>1. /\ call = NoCall /\ issuer' = Ours /\ UNCHANGED <<transition, tlock, update>>
      /\ call' # NoCall /\ call'.phase = "quiesce"
  <2>1. LifecycleInv
    BY DEF PackageIInv, PackageInv
  <2> QED
    BY <2>1, StartFacts, StopFacts DEF OwnBegin
<1>2. Observed' = Observed /\ issuer = Ours
  BY <1>1 DEF Observed, In, PackageIInv, IssuerInv
<1>3. IssuerInv' /\ TransitionInv'
  BY <1>1, <1>2 DEF IssuerInv, TransitionInv, Ours, PackageIInv
<1>4. \A v \in Updates : update[v].child # "running"
  BY <1>2 DEF PackageIInv, ChildInv, Ours
<1>5. CASE UNCHANGED <<revision, stops, revoked, downed>>
  BY <1>1, <1>2, <1>3, <1>4, <1>5 DEF PackageIInv, PackageInv, RevisionInv, SeenInv, ChildInv,
     OutageInv, OutageRecorded, Ours
<1>6. CASE Revoke
  <2>1. /\ stops \in Nat /\ stops < MaxStops /\ stops' = stops + 1
        /\ revision' = <<"stopped", stops + 1>> /\ revoked' = revoked \cup Observed
        /\ downed' = NoUpdate
    BY <1>6 DEF Revoke, PackageIInv, PackageInv
  <2>2. revision' \in Revision /\ revision' # Absent /\ stops' \in 0..MaxStops
        /\ revoked' \subseteq Updates /\ Observed \subseteq revoked'
    BY <2>1 DEF Revision, Absent, Observed, PackageIInv, PackageInv
  <2>3. transition.state = "retired" => transition.id \in revoked'
    <3>1. transition.state = "retired" => transition.id # NoUpdate
      BY DEF PackageIInv, PackageInv, RevisionInv, Observed
    <3> QED
      BY <2>2, <3>1 DEF PackageIInv, TransitionInv
  <2>4. PackageInv'
    BY <1>1, <2>1, <2>2, <2>3 DEF PackageIInv, PackageInv, Ours
  <2>5. ASSUME NEW v \in Updates PROVE SeenInv(v)'
    <3>1. SeenInv(v) /\ update[v].seen \in Revision
      BY DEF PackageIInv, RevisionInv, PackageInv, UpdateState
    <3>2. update[v].seen[1] = "stopped" => update[v].seen[2] \in Nat
      BY <3>1 DEF Revision, Absent
    <3> QED
      BY <1>1, <1>2, <2>1, <2>2, <3>1, <3>2 DEF SeenInv
  <2>6. RevisionInv'
    BY <1>2, <2>1, <2>2, <2>5 DEF RevisionInv, PackageIInv
  <2>7. \A v \in Updates : ChildInv(v)'
    <3>1. ASSUME NEW v \in Updates PROVE update[v].child = "ok" => v \in Observed
      BY <3>1 DEF PackageIInv, ChildInv, Observed, In
    <3> QED
      BY <1>1, <1>2, <1>4, <2>2, <3>1 DEF PackageIInv, ChildInv
  <2>8. OutageInv'
    BY <2>1 DEF OutageInv, OutageRecorded
  <2> QED
    BY <1>3, <2>4, <2>6, <2>7, <2>8 DEF PackageIInv
<1> QED
  BY <1>5, <1>6 DEF OwnBegin

\* A step of the command under way stays with the command; it ends well only from
\* activation or from the commit of a stop.
LEMMA StepFacts ==
  ASSUME CommandInv, Step
  PROVE  /\ call # NoCall /\ call' # NoCall /\ call'.op = call.op
         /\ (call.op = "start" /\ call'.phase = "activate") => backend' = "up"
         /\ (call.op = "start" /\ call'.phase = "done" /\ call'.ok) => call.phase = "activate"
<1>1. call # NoCall /\ call \in Call /\ PhaseInv(call)
  BY DEF CommandInv, LifecycleInv, Step, At, Quiesce, Halt, Deselect, Mark, Prepare,
     PrepareDsh, Launch, Withdraw, Activate, Recover, Rescope, Reactivate, Disable, Remove, Commit
<1>2. CASE /\ \E p \in Phases \ {"activate", "done"}, d \in {"was", "off", "bad"} :
                call' = [call EXCEPT !.phase = p, !.dsh = d]
  <2>1. PICK p \in Phases \ {"activate", "done"}, d \in {"was", "off", "bad"} :
          call' = [call EXCEPT !.phase = p, !.dsh = d]
    BY <1>2
  <2>2. call' \in Call
    BY <1>1, <2>1 DEF Call
  <2>3. call' # NoCall
    BY <2>2, ClientsAssumption
  <2>4. call'.op = call.op /\ call'.phase = p
    BY <1>1, <2>1 DEF Call
  <2> QED
    BY <1>1, <2>1, <2>3, <2>4
<1>3. CASE \E p \in Phases \ {"activate", "done"} : Go(p)
  <2>1. PICK p \in Phases \ {"activate", "done"} : Go(p)
    BY <1>3
  <2>2. call' # NoCall /\ call'.op = call.op /\ call'.phase = p
    BY <1>1, <2>1, GoFacts
  <2> QED
    BY <1>1, <2>1, <2>2
<1>4. CASE End(FALSE)
  BY <1>1, <1>4, EndFacts
<1>5. CASE Launch
  BY <1>1, <1>3, <1>5, GoFacts DEF Launch, Phases
<1>6. CASE Activate
  BY <1>1, <1>6, EndFacts DEF Activate, At
<1>7. CASE Commit
  <2>1. call.op # "start"
    BY <1>1, <1>7 DEF Commit, At, PhaseInv, StopOnly
  <2> QED
    BY <1>1, <1>7, <2>1, EndFacts DEF Commit
<1>8. CASE Quiesce \/ PrepareDsh
  <2>1. CASE Quiesce
    <3> DEFINE next == IF Starting \/ call.halt THEN "halt" ELSE "disable"
    <3>1. next \in Phases \ {"activate", "done"}
      BY DEF Phases
    <3> QED
      BY <1>2, <1>3, <1>4, <2>1, <3>1 DEF Quiesce
  <2>2. CASE PrepareDsh
    BY <1>2, <1>3, <2>2 DEF PrepareDsh, Phases
  <2> QED
    BY <1>8, <2>1, <2>2
<1>9. CASE Halt \/ Deselect \/ Mark \/ Withdraw \/ Recover
  BY <1>3, <1>4, <1>9 DEF Halt, Deselect, Mark, Withdraw, Recover, SwitchOff, Phases
<1>10. CASE Prepare \/ Rescope \/ Reactivate \/ Disable \/ Remove
  BY <1>3, <1>4, <1>10 DEF Prepare, Rescope, Reactivate, Disable, Remove, SwitchOff, Phases
<1> QED
  BY <1>5, <1>6, <1>7, <1>8, <1>9, <1>10 DEF Step

\* A stop that npm issued with its transition is the retirement on record.
LEMMA StopIsRetirement ==
  ASSUME PackageIInv, call.op = "stop", issuer.id # NoUpdate
  PROVE  /\ issuer.by \in Updates /\ issuer.id = issuer.by
         /\ transition.state = "retiring" /\ transition.id = issuer.id
<1>1. issuer.by # NoUpdate /\ issuer.by \in Updates
  BY DEF PackageIInv, PackageInv, IssuerInv
<1> QED
  BY <1>1 DEF PackageIInv, IssuerInv, ChildInv

LEMMA CommandStepPackage ==
  ASSUME PackageIInv, CommandInv, LifecycleInv', CommandStep
  PROVE  PackageIInv'
<1>1. UNCHANGED <<revision, transition, tlock, update, issuer, stops, revoked>>
  BY DEF CommandStep
<1>2. Observed' = Observed
  BY <1>1 DEF Observed, In
<1>3. /\ call # NoCall /\ call' # NoCall /\ call'.op = call.op
      /\ (call.op = "start" /\ call'.phase = "activate") => backend' = "up"
      /\ (call.op = "start" /\ call'.phase = "done" /\ call'.ok) => call.phase = "activate"
  BY StepFacts DEF CommandStep
<1>4. \/ downed' = NoUpdate
      \/ downed' = downed
      \/ call.op = "stop" /\ issuer.id # NoUpdate /\ downed' = issuer.id
  BY DEF CommandStep
<1>5. downed' # downed => downed' = NoUpdate
        \/ (transition.state = "retiring" /\ transition.id = downed')
  BY <1>4, StopIsRetirement
<1>6. PackageInv'
  BY <1>1, <1>4 DEF PackageIInv, PackageInv
<1>7. RevisionInv' /\ TransitionInv' /\ (\A u \in Updates : ChildInv(u)')
  BY <1>1, <1>2 DEF PackageIInv, RevisionInv, SeenInv, TransitionInv, ChildInv
<1>8. IssuerInv'
  BY <1>1, <1>2, <1>3 DEF PackageIInv, IssuerInv
<1>9. OutageInv'
  <2>1. OutageRecorded'
    BY <1>1, <1>5 DEF PackageIInv, OutageInv, OutageRecorded
  <2>2. ASSUME call'.op = "start", call'.phase = "activate" \/ (call'.phase = "done" /\ call'.ok)
        PROVE  downed' = NoUpdate
    <3>1. CASE backend' = "up"
      BY <3>1 DEF CommandStep
    <3>2. CASE call.phase = "activate"
      BY <1>3, <1>4, <2>2, <3>2 DEF PackageIInv, OutageInv
    <3> QED
      BY <1>3, <2>2, <3>1, <3>2
  <2>3. ASSUME NEW u \in Updates,
               update[u].pc \in {"verifying", "consuming"}
                 \/ (update[u].pc = "starting" /\ update[u].child = "ok")
        PROVE  downed' = NoUpdate
    <3>1. downed = NoUpdate /\ transition.state = "retired"
      BY <2>3, UpdateFacts DEF Restoring
    <3> QED
      BY <1>5, <3>1
  <2> QED
    BY <1>1, <2>1, <2>2, <2>3 DEF OutageInv
<1> QED
  BY <1>6, <1>7, <1>8, <1>9 DEF PackageIInv

\* The command ends: a retirement that went well leaves its permit.
LEMMA CommandEndsKeeps ==
  ASSUME PackageIInv, LifecycleInv', CommandReturns \/ CommandKilled
  PROVE  PackageIInv'
<1>1. /\ call # NoCall /\ call' = NoCall /\ issuer' = Ours
      /\ UNCHANGED <<transition, tlock, stops, revoked, downed>>
  BY DEF CommandReturns, CommandKilled, Return, Killed, At
<1>2. CASE issuer.by = NoUpdate
  <2>1. UNCHANGED <<revision, update>>
    BY <1>2 DEF CommandReturns, CommandKilled, Killed, PackageIInv, PackageInv
  <2>2. \A v \in Updates : update[v].child # "running"
    BY <1>2 DEF PackageIInv, ChildInv
  <2> QED
    BY <1>1, <2>1, <2>2 DEF PackageIInv, PackageInv, RevisionInv, SeenInv, IssuerInv, ChildInv,
       TransitionInv, OutageInv, OutageRecorded, Observed, In, Ours
<1>3. CASE issuer.by # NoUpdate
  <2> DEFINE u == issuer.by
             ok == call.phase = "done" /\ call.ok
  <2>1. /\ u \in Updates /\ update[u].child = "running" /\ update[u].id = issuer.id
        /\ update[u].job = call.op
        /\ issuer.id # NoUpdate => issuer.id \in Observed \ revoked
        /\ update \in [Updates -> UpdateState] /\ update[u] \in UpdateState
    BY <1>3 DEF PackageIInv, PackageInv, IssuerInv
  <2>2. PICK child \in {"ok", "failed"} :
          /\ Set(u, Finished(update[u], child))
          /\ child = "ok" => ok
          /\ revision' = (IF child = "ok" /\ call.op = "stop" /\ issuer.id # NoUpdate
                          THEN <<"permit", issuer.id>> ELSE revision)
    <3>1. CASE CommandReturns
      BY <1>3, <3>1 DEF CommandReturns, Return, At, Finished
    <3>2. CASE CommandKilled
      BY <1>3, <3>2 DEF CommandKilled, Finished
    <3> QED
      BY <3>1, <3>2
  <2> HIDE DEF u, ok
  <2> DEFINE r == Finished(update[u], child)
  <2>3. /\ r \in UpdateState /\ r.pc = update[u].pc /\ r.child = child
        /\ r.seen = update[u].seen /\ r.id = update[u].id /\ r.job = update[u].job
    BY <2>1, FinishedFacts
  <2>4. /\ update' \in [Updates -> UpdateState] /\ update'[u] = r
        /\ \A v \in Updates : v # u => update'[v] = update[v]
    BY <2>1, <2>2, <2>3, SetFacts
  <2> HIDE DEF r
  <2>5. Observed' = Observed
    BY <2>3, <2>4 DEF Observed, In
  <2>6. \/ revision' = revision
        \/ /\ child = "ok" /\ call.op = "stop" /\ issuer.id # NoUpdate
           /\ revision' = <<"permit", issuer.id>>
           /\ issuer.id = u /\ transition.state = "retiring" /\ transition.id = u
    BY <2>2, StopIsRetirement DEF u
  <2>7. PackageInv'
    <3>1. \A v \in Updates : update'[v].pc = update[v].pc
      BY <2>3, <2>4
    <3>2. revision' \in Revision /\ issuer' \in [by : Updates \cup {NoUpdate}, id : Updates \cup {NoUpdate}]
      BY <1>1, <2>1, <2>6 DEF PackageIInv, PackageInv, Revision, Ours
    <3> QED
      BY <1>1, <2>4, <2>6, <3>1, <3>2 DEF PackageIInv, PackageInv
  <2>8. RevisionInv'
    <3>1. ASSUME NEW v \in Updates PROVE SeenInv(v)'
      BY <1>1, <2>3, <2>4, <2>5 DEF PackageIInv, RevisionInv, SeenInv
    <3>2. CASE revision' = revision
      BY <1>1, <2>5, <3>1, <3>2 DEF PackageIInv, RevisionInv
    <3>3. CASE revision' = <<"permit", issuer.id>> /\ issuer.id # NoUpdate
      BY <1>1, <2>1, <2>5, <3>1, <3>3 DEF PackageIInv, RevisionInv, Absent
    <3> QED
      BY <2>6, <3>2, <3>3
  <2>9. IssuerInv'
    BY <1>1 DEF IssuerInv, Ours
  <2>10. \A v \in Updates : ChildInv(v)'
    <3>1. ASSUME NEW v \in Updates, v # u PROVE ChildInv(v)'
      <4>1. update[v].child # "running"
        BY <3>1 DEF PackageIInv, ChildInv, u
      <4> QED
        BY <1>1, <2>4, <2>5, <2>6, <3>1, <4>1 DEF PackageIInv, ChildInv
    <3>2. ASSUME NEW v \in Updates, v = u PROVE ChildInv(v)'
      <4>1. /\ ChildInv(v) /\ transition' = transition /\ update'[v].pc = update[v].pc
            /\ update'[v].child = child /\ update'[v].job = update[v].job
            /\ update'[v].id = update[v].id
        BY <1>1, <2>1, <2>3, <2>4, <3>2 DEF PackageIInv
      <4>2. update[v].pc \notin {"new", "preinstall", "replaced", "consuming"}
        BY <2>1, <3>2, <4>1 DEF ChildInv
      <4>3. child = "ok" /\ update[v].job = "stop" /\ update[v].id # NoUpdate
              => revision' = <<"permit", v>>
        BY <2>1, <2>2, <3>2, <4>1 DEF ChildInv
      <4> QED
        BY <2>1, <2>5, <3>2, <4>1, <4>2, <4>3 DEF ChildInv
    <3> QED
      BY <3>1, <3>2
  <2>11. TransitionInv'
    BY <1>1, <2>5 DEF PackageIInv, TransitionInv
  <2>12. OutageInv'
    <3>1. ASSUME NEW v \in Updates,
                 update'[v].pc \in {"verifying", "consuming"}
                   \/ (update'[v].pc = "starting" /\ update'[v].child = "ok")
          PROVE  downed = NoUpdate
      <4>1. CASE v # u
        BY <2>4, <3>1, <4>1, UpdateFacts
      <4>2. CASE v = u /\ update[u].pc = "starting" /\ child = "ok"
        <5>1. call.op = "start"
          BY <2>1, <4>2 DEF PackageIInv, ChildInv
        <5> QED
          BY <1>1, <2>2, <4>2, <5>1 DEF PackageIInv, OutageInv, ok
      <4>3. CASE v = u /\ update[u].pc \in {"verifying", "consuming"}
        BY <2>1, <4>3, UpdateFacts
      <4> QED
        BY <2>3, <2>4, <3>1, <4>1, <4>2, <4>3
    <3> QED
      BY <1>1, <3>1 DEF PackageIInv, OutageInv, OutageRecorded
  <2> QED
    BY <2>7, <2>8, <2>9, <2>10, <2>11, <2>12 DEF PackageIInv
<1> QED
  BY <1>2, <1>3


\* What the other steps leave: the Backend alone dies, or nothing happens.
LEMMA BackendDiesKeeps ==
  ASSUME PackageIInv, LifecycleInv', BackendDies /\ UNCHANGED package
  PROVE  PackageIInv'
<1>1. UNCHANGED <<call, revision, transition, tlock, update, issuer, stops, revoked, downed>>
      /\ backend = "up" /\ backend' = "dead"
  BY DEF BackendDies, package
<1>2. Observed' = Observed
  BY <1>1 DEF Observed, In
<1>3. PackageInv' /\ RevisionInv' /\ IssuerInv' /\ TransitionInv'
  BY <1>1, <1>2 DEF PackageIInv, PackageInv, RevisionInv, SeenInv, IssuerInv, TransitionInv
<1>4. \A u \in Updates : ChildInv(u)'
  BY <1>1, <1>2 DEF PackageIInv, ChildInv
<1>5. OutageInv'
  BY <1>1 DEF PackageIInv, OutageInv, OutageRecorded
<1> QED
  BY <1>3, <1>4, <1>5 DEF PackageIInv

LEMMA PackageStutterKeeps ==
  ASSUME PackageIInv, UNCHANGED allVars
  PROVE  PackageIInv'
<1>1. UNCHANGED <<enabled, marker, backend, call, revision, transition, tlock, update,
                  issuer, stops, revoked, downed>>
  BY DEF allVars, vars, package
<1>2. Observed' = Observed /\ LifecycleInv'
  BY <1>1 DEF Observed, In, LifecycleInv, PackageIInv, PackageInv
<1>3. PackageInv' /\ RevisionInv' /\ IssuerInv' /\ TransitionInv'
  BY <1>1, <1>2 DEF PackageIInv, PackageInv, RevisionInv, SeenInv, IssuerInv, TransitionInv
<1>4. \A u \in Updates : ChildInv(u)'
  BY <1>1, <1>2 DEF PackageIInv, ChildInv
<1>5. OutageInv'
  BY <1>1 DEF PackageIInv, OutageInv, OutageRecorded
<1> QED
  BY <1>3, <1>4, <1>5 DEF PackageIInv


-----------------------------------------------------------------------------
(* The invariant of an installation beside its updates. *)

LEMMA PackageStarts ==
  ASSUME PackageInit
  PROVE  PackageIInv
<1>1. LifecycleInv /\ call = NoCall
  BY DEF PackageInit, Init, LifecycleInv
<1>2. update \in [Updates -> UpdateState]
  <2>1. Update("new") \in UpdateState
    BY UpdatesAssumption DEF Update, UpdateState, Revision
  <2> QED
    BY <2>1 DEF PackageInit
<1>3. \A u \in Updates : update[u] = Update("new")
  BY DEF PackageInit
<1>4. \A u \in Updates : /\ update[u].pc = "new" /\ update[u].child = "none"
                         /\ update[u].id = NoUpdate /\ update[u].seen = Absent
  BY <1>3 DEF Update
<1>5. PackageInv
  BY <1>1, <1>2, <1>4, UpdatesAssumption, NoTransitionFacts
     DEF PackageInit, PackageInv, Revision, Ours
<1>6. RevisionInv /\ IssuerInv /\ TransitionInv
  BY <1>1, <1>4, NoTransitionFacts
     DEF PackageInit, RevisionInv, SeenInv, IssuerInv, TransitionInv, Absent, Ours
<1>7. \A u \in Updates : ChildInv(u)
  BY <1>4 DEF ChildInv
<1>8. OutageInv
  BY <1>1, <1>4 DEF PackageInit, OutageInv, OutageRecorded
<1> QED
  BY <1>5, <1>6, <1>7, <1>8 DEF PackageIInv

LEMMA PackageStepKeeps ==
  ASSUME CommandInv, DshInv, PackageIInv, [PackageNext]_allVars
  PROVE  PackageIInv'
<1>1. CommandInv' /\ LifecycleInv'
  <2>1. [Next]_vars
    BY PackageTakesCommands DEF CommandInv
  <2> QED
    BY <2>1, CommandStepKeeps DEF CommandInv
<1>2. ASSUME NEW u \in Updates, UpdateStep(u)
      PROVE  PackageIInv'
  <2>1. CASE Observe(u) \/ BeginRetire(u) \/ Retired(u) \/ NpmFails(u)
    BY <2>1, ObserveKeeps, BeginRetireKeeps, RetiredKeeps, NpmFailsKeeps
  <2>2. CASE BeginRestore(u) \/ Started(u) \/ Verified(u) \/ Consume(u)
    BY <2>2, BeginRestoreKeeps, StartedKeeps, VerifiedKeeps, ConsumeKeeps
  <2>3. CASE UpdateKilled(u) \/ WaitingChildKilled(u) \/ ChildRefused(u)
    BY <2>3, UpdateKilledKeeps, ChildFailsKeeps
  <2>4. CASE RestoreOwn(u) \/ RecoverCommand(u)
    BY <2>4, RestoreOwnKeeps, RecoverCommandKeeps
  <2>5. CASE \E clients \in SUBSET Clients : ChildBegins(u, clients)
    BY <1>1, <2>5, ChildBeginsKeeps
  <2> QED
    BY <1>2, <2>1, <2>2, <2>3, <2>4, <2>5 DEF UpdateStep
<1>3. CASE \E clients \in SUBSET Clients, flag \in BOOLEAN : OwnBegin(clients, flag)
  BY <1>1, <1>3, OwnBeginKeeps
<1>4. CASE CommandStep
  BY <1>1, <1>4, CommandStepPackage
<1>5. CASE CommandReturns \/ CommandKilled
  BY <1>1, <1>5, CommandEndsKeeps
<1>6. CASE BackendDies /\ UNCHANGED package
  BY <1>1, <1>6, BackendDiesKeeps
<1>7. CASE GrowOld
  BY <1>7, GrowOldKeeps
<1>8. CASE UNCHANGED allVars
  BY <1>8, PackageStutterKeeps
<1> QED
  BY <1>2, <1>3, <1>4, <1>5, <1>6, <1>7, <1>8 DEF PackageNext

\* The inductive invariant: PackageIInv says of revision, record, permit, children
\* and outage how they go together; CommandInv is what the commands keep.
THEOREM PackageInductive == PackageSpec => [](CommandInv /\ DshInv /\ PackageIInv)
<1>1. PackageInit => CommandInv /\ DshInv /\ PackageIInv
  BY PackageStarts
     DEF PackageInit, Init, CommandInv, LifecycleInv, EnabledCovered, Scope, DshInv
<1>2. CommandInv /\ DshInv /\ PackageIInv /\ [PackageNext]_allVars
        => (CommandInv /\ DshInv /\ PackageIInv)'
  <2> SUFFICES ASSUME CommandInv, DshInv, PackageIInv, [PackageNext]_allVars
               PROVE  (CommandInv /\ DshInv /\ PackageIInv)'
    OBVIOUS
  <2>1. [Next]_vars
    BY PackageTakesCommands DEF CommandInv
  <2> QED
    BY <2>1, CommandStepKeeps, DshKeeps, PackageStepKeeps
<1> QED
  BY <1>1, <1>2, PTL DEF PackageSpec

\* Only one update restores at a time, from a retired record, and a retired
\* record carries its permit unless a user revoked it.
THEOREM PackageInvariant == PackageSpec => []PackageInv
<1>1. PackageIInv => PackageInv
  BY DEF PackageIInv
<1> QED
  BY <1>1, PackageInductive, PTL

\* No command that npm runs on the authority of a transition runs after a user
\* has stopped, restarted or uninstalled since that update looked: whichever of
\* the processes is killed, and however many updates and stops there are.
THEOREM UserStopIsHonoured == PackageSpec => []UserStopHonoured
<1>1. PackageIInv => UserStopHonoured
  BY DEF PackageIInv, PackageInv, IssuerInv, UserStopHonoured
<1> QED
  BY <1>1, PackageInductive, PTL

\* A Backend that a replacement took down stays on record until it is up again
\* or a user stops it.
THEOREM OutageIsRecorded == PackageSpec => []OutageRecorded
<1>1. PackageIInv => OutageRecorded
  BY DEF PackageIInv, OutageInv
<1> QED
  BY <1>1, PackageInductive, PTL

\* Also beside npm, and after any kill, the marker names every integration that
\* is on.
THEOREM PackageCovers == PackageSpec => []EnabledCovered
BY PackageKeepsLifecycle, IntegrationsAreCovered, PTL
=============================================================================
