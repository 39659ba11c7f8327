----------------------------- MODULE DshProfiles -----------------------------
(***************************************************************************)
(* The adapter in the profiles of DSH (dsh-adapter/src/profile-lifecycle).  *)
(*                                                                         *)
(* A profile is a directory whose package.json lists plugins; only DSH's    *)
(* own command adds and removes them.  The state file claims profiles for   *)
(* one bundle, a generation of the adapter kept on the disk, and says       *)
(* whether the adapter may work.  The file's lock is held by one lifecycle  *)
(* command at a time; it may be killed between two native commands, a       *)
(* native command may fail half-way, and the user edits profiles meanwhile. *)
(***************************************************************************)
EXTENDS Naturals

CONSTANTS
  Profiles,    \* names of profiles, the built-in headless one among them
  Headless,
  Releases,    \* bundles this program materializes
  Legacy,      \* a bundle under the adapter's former package name
  Own,         \* a copy of the adapter the user has installed
  MaxFaults,   \* bound: native commands that fail
  MaxEdits,    \* bound: edits of the user
  MaxCommands  \* bound: lifecycle commands

Bundles == Releases \cup {Legacy}

ASSUME ProfilesAssumption ==
  Headless \in Profiles /\ Legacy \notin Releases /\ Own \notin Bundles

VARIABLES
  profile,     \* the manifest of each, and the adapter packages it lists
  capable,     \* profiles that can run the memory worker, once they exist
  bundles,     \* the generations on the disk
  state,       \* adapters/dsh/state.json
  op,          \* the lifecycle command in progress
  faults, edits, commands,
  \* History, read by the properties only:
  unseen       \* profiles whose failed add left a manifest nobody can read

profilesVars == <<profile, capable, bundles, state, op, faults, edits, commands, unseen>>

Missing == [manifest |-> "missing", plugins |-> {}]
Valid(plugins) == [manifest |-> "valid", plugins |-> plugins]
Torn(q) == [q EXCEPT !.manifest = "torn"]

NoState == [present |-> FALSE, enabled |-> FALSE, bundle |-> Own, claimed |-> {}]
StateOf(on, b, ps) == [present |-> TRUE, enabled |-> on, bundle |-> b, claimed |-> ps]
disabledState(ps) == StateOf(FALSE, state.bundle, ps)

Idle == [pc |-> "idle", prior |-> NoState, prev |-> {}, todo |-> {}, failed |-> {},
         mutated |-> {}, residual |-> {}, worker |-> Headless, initialize |-> FALSE,
         enable |-> FALSE]
Goto(pc) == op' = [op EXCEPT !.pc = pc]
ProfilesReturn   == op' = Idle

ProfilesInit ==
  /\ capable \in SUBSET Profiles
  /\ \/ /\ profile \in [Profiles -> {Missing, Valid({})}]
        /\ state = NoState /\ bundles = {}
     \/ \E b \in Bundles :  \* a release has been installed
        /\ profile = [p \in Profiles |-> Valid({b})]
        /\ state = StateOf(TRUE, b, Profiles) /\ bundles = {b}
  /\ op = Idle
  /\ faults = 0 /\ edits = 0 /\ commands = 0 /\ unseen = {}

-----------------------------------------------------------------------------
(* What a profile lists, and what DSH's command does to it.                *)

packageName(b) == IF b = Legacy THEN "legacy" ELSE "adapter"
Managed == {"adapter", "legacy"}
Mentions(q, names) == \E b \in q.plugins : packageName(b) \in names
profileMentionsAdapter(q) == q.manifest = "valid" /\ q.plugins # {}

\* The bundle is on the disk, the profile lists it and has installed this very
\* bundle, whose authority is the state in the file.
profileHasInstalledAdapter(q, b) ==
  q.manifest = "valid" /\ b \in bundles /\ b \in q.plugins

Exists(p) == profile[p].manifest # "missing"
Discovered == {p \in Profiles : profile[p].manifest = "valid"}
HasWorker(ps) == \E p \in ps : p \in Discovered /\ p \in capable

\* What one native command can leave: its work done, or a fault: nothing done
\* whatever it reports, or done and reported as a failure, or a torn manifest.
Did(q, ok, fault) == [after |-> q, ok |-> ok, fault |-> fault]
Native(q, done, possible) ==
  IF ~possible THEN {Did(q, FALSE, 0)}
  ELSE {Did(done, TRUE, 0)} \cup
         IF faults = MaxFaults THEN {}
         ELSE {Did(q, TRUE, 1), Did(q, FALSE, 1), Did(done, FALSE, 1), Did(Torn(done), FALSE, 1)}

\* Only the built-in profile is created by an add.
NativeAdd(p, q, b) ==
  Native(q, Valid({c \in q.plugins : packageName(c) # packageName(b)} \cup {b}),
         /\ b \in bundles
         /\ q.manifest = "valid" \/ (q.manifest = "missing" /\ p = Headless))

\* removeProfileAdapterPackages; "ok" when none of the names is left.
RemovePackages(q, names) ==
  IF q.manifest = "missing" \/ (q.manifest = "valid" /\ ~Mentions(q, names))
  THEN {Did(q, TRUE, 0)}
  ELSE {Did(r.after, r.ok /\ ~Mentions(r.after, names), r.fault) :
          r \in Native(q, Valid({c \in q.plugins : packageName(c) \notin names}),
                       q.manifest = "valid")}

Apply(p, r) == profile' = [profile EXCEPT ![p] = r.after]

-----------------------------------------------------------------------------
(* ensureInstalled                                                         *)

ProfilesBegin == op.pc = "idle" /\ commands < MaxCommands /\ commands' = commands + 1
Keeps == UNCHANGED <<capable, edits, commands>>

\* Mutant: a copy of the user's is taken over.
NoConflicts(prev) == {}
\* Profiles that list an adapter nobody has claimed.
Conflicts(prev) == {p \in Discovered \ prev : profileMentionsAdapter(profile[p])}

\* Every check that ends the call before anything is installed.  An adapter
\* that cannot work any more is disabled.
EnsureRefused ==
  /\ ProfilesBegin /\ ProfilesReturn
  /\ LET torn == \E p \in state.claimed : profile[p].manifest = "torn" IN
     \/ /\ torn /\ UNCHANGED state
     \/ /\ ~torn /\ Discovered = {}
        /\ state' = IF state.present THEN disabledState({}) ELSE state
     \/ /\ ~torn /\ Discovered # {}  \* no DSH, or no desktop, that can be used
        /\ state' = IF state.enabled THEN disabledState(state.claimed) ELSE state
     \/ /\ ~torn /\ Conflicts({p \in state.claimed : Exists(p)}) # {}
        /\ UNCHANGED state
     \/ /\ ~torn /\ Discovered # {} /\ ~HasWorker(Discovered) /\ Exists(Headless)
        /\ UNCHANGED state
  /\ UNCHANGED <<profile, bundles, faults, capable, edits, unseen>>

\* A worker's profile is found or will be initialized; the bundle is
\* materialized; the state claims every target before DSH is called.
EnsureBegins(b, enable) ==
  LET prev == {p \in state.claimed : Exists(p)}
      worker == IF HasWorker(Discovered) THEN CHOOSE p \in Discovered : p \in capable
                ELSE Headless
      targets == Discovered \cup {worker}
  IN /\ ProfilesBegin
     /\ \A p \in state.claimed : profile[p].manifest # "torn"
     /\ Discovered # {} /\ Conflicts(prev) = {}
     /\ HasWorker(Discovered) \/ ~Exists(Headless)
     /\ bundles' = bundles \cup {b}
     /\ state' = StateOf(FALSE, b, prev \cup targets)
     /\ op' = [Idle EXCEPT !.pc = "ensure", !.prior = state, !.prev = prev,
                 !.todo = targets, !.worker = worker,
                 !.initialize = ~HasWorker(Discovered), !.enable = enable]
     /\ UNCHANGED <<profile, capable, faults, edits, unseen>>

Creatable(p) == op.initialize /\ p = op.worker /\ ~Exists(p)

\* What the add (when one is needed) and the removal of the former package
\* leave of profile p: <<the add's result, the removal's>>.
Installs(p) ==
  LET added == IF profileHasInstalledAdapter(profile[p], state.bundle)
               THEN {Did(profile[p], TRUE, 0)}
               ELSE NativeAdd(p, profile[p], state.bundle)
      Worked(r) == /\ r.ok /\ profileHasInstalledAdapter(r.after, state.bundle)
                   /\ p = op.worker => p \in capable
  IN UNION {IF ~Worked(r) THEN {<<r, Did(r.after, FALSE, 0)>>}
            ELSE {<<r, s>> : s \in RemovePackages(r.after, {"legacy"})} : r \in added}

\* One target of the loop.
EnsureProfile(p) ==
  /\ op.pc = "ensure" /\ p \in op.todo
  /\ IF ~(profile[p].manifest = "valid" \/ Creatable(p))
     THEN /\ op' = [op EXCEPT !.todo = @ \ {p}, !.failed = @ \cup {p}]
          /\ UNCHANGED <<profile, faults, unseen>>
     ELSE \E r \in Installs(p) :
       LET add == r[1]
           removal == r[2]
           touched == \/ /\ ~profileHasInstalledAdapter(profile[p], state.bundle)
                         /\ p \in op.prev \/ profileMentionsAdapter(add.after)
                      \/ Mentions(add.after, {"legacy"}) /\ add.ok
           fine == removal.ok /\ profileHasInstalledAdapter(removal.after, state.bundle)
       IN /\ faults + add.fault + removal.fault <= MaxFaults
          /\ faults' = faults + add.fault + removal.fault
          /\ Apply(p, removal)
          /\ op' = [op EXCEPT !.todo = @ \ {p},
                      !.mutated = IF touched THEN @ \cup {p} ELSE @,
                      !.failed = IF fine THEN @ ELSE @ \cup {p}]
          /\ unseen' = IF removal.after.manifest = "torn" /\ ~touched
                       THEN unseen \cup {p} ELSE unseen
  /\ UNCHANGED <<bundles, state>> /\ Keeps

\* Every claimed profile is inspected again.  A failure of an update is rolled
\* back; otherwise the outcome is recorded.
EnsureEnds ==
  LET present == {p \in state.claimed : Exists(p)}
      failed == op.failed \cup
                {p \in present : ~profileHasInstalledAdapter(profile[p], state.bundle)} \cup
                (IF HasWorker(state.claimed) THEN {} ELSE {op.worker})
      rollback == failed # {} /\ op.prior.present
  IN /\ op.pc = "ensure" /\ op.todo = {}
     /\ IF rollback
        THEN /\ op' = [op EXCEPT !.pc = "rollback", !.todo = op.mutated]
             /\ UNCHANGED state
        ELSE /\ state' = [state EXCEPT !.enabled = op.enable /\ failed = {} /\ present # {},
                                       !.claimed = present]
             /\ IF failed = {} /\ present # {} THEN Goto("prune") ELSE ProfilesReturn
     /\ UNCHANGED <<profile, bundles, faults, unseen>> /\ Keeps

\* cleanupRuntimeGenerations: each removal is attempted.
Prune ==
  /\ op.pc = "prune" /\ ProfilesReturn
  /\ \E gone \in SUBSET (bundles \ {state.bundle}) : bundles' = bundles \ gone
  /\ UNCHANGED <<profile, state, faults, unseen>> /\ Keeps

-----------------------------------------------------------------------------
(* rollbackDshPluginReconciliation                                         *)

Other(b) == Managed \ {packageName(b)}

\* A profile of the prior state gets the prior bundle again; from a new one
\* the adapter is removed, and what is left stays claimed.
RollbackProfile(p) ==
  /\ op.pc = "rollback" /\ p \in op.todo
  /\ IF p \in op.prior.claimed
     THEN \E r \in NativeAdd(p, profile[p], op.prior.bundle) :
          \E s \in IF r.ok /\ r.after.manifest = "valid" /\ op.prior.bundle \in r.after.plugins
                   THEN RemovePackages(r.after, Other(op.prior.bundle))
                   ELSE {Did(r.after, FALSE, 0)} :
            /\ faults + r.fault + s.fault <= MaxFaults
            /\ faults' = faults + r.fault + s.fault
            /\ Apply(p, s)
            /\ op' = [op EXCEPT !.todo = @ \ {p}]
     ELSE \E r \in RemovePackages(profile[p], Managed) :
            /\ faults' = faults + r.fault
            /\ Apply(p, r)
            /\ op' = [op EXCEPT !.todo = @ \ {p},
                 !.residual = IF r.after.manifest = "torn" \/ profileMentionsAdapter(r.after)
                              THEN @ \cup {p} ELSE @]
  /\ UNCHANGED <<bundles, state, unseen>> /\ Keeps

\* Mutant: the prior authority is written before the profiles are verified.
RollbackWritesAtOnce ==
  /\ op.pc = "rollback" /\ op.todo = {}
  /\ state' = [op.prior EXCEPT !.claimed = @ \cup op.residual]
  /\ Goto("restored")
  /\ UNCHANGED <<profile, bundles, faults, unseen>> /\ Keeps

\* The prior state is written disabled.
RollbackWrites ==
  /\ op.pc = "rollback" /\ op.todo = {}
  /\ state' = [op.prior EXCEPT !.claimed = @ \cup op.residual, !.enabled = FALSE]
  /\ Goto("restored")
  /\ UNCHANGED <<profile, bundles, faults, unseen>> /\ Keeps

\* It is enabled again once every profile has the prior bundle and nothing
\* else; the desktop's runtime may be gone.
RollbackVerifies ==
  /\ op.pc = "restored" /\ ProfilesReturn
  /\ \/ /\ \A p \in op.prior.claimed :
             /\ profileHasInstalledAdapter(profile[p], op.prior.bundle)
             /\ ~Mentions(profile[p], Other(op.prior.bundle))
        /\ state' = [state EXCEPT !.enabled = op.prior.enabled]
     \/ UNCHANGED state
  /\ UNCHANGED <<profile, bundles, faults, unseen>> /\ Keeps

-----------------------------------------------------------------------------
(* activate, quiesce, disable and remove                                   *)

ActivateProfiles ==
  /\ ProfilesBegin /\ state.present /\ ProfilesReturn
  /\ state.claimed # {} /\ HasWorker(state.claimed)
  /\ \A p \in state.claimed : profileHasInstalledAdapter(profile[p], state.bundle)
  /\ state' = [state EXCEPT !.enabled = TRUE]
  /\ UNCHANGED <<profile, bundles, capable, faults, edits, unseen>>

QuiesceProfiles ==
  /\ ProfilesBegin /\ state.enabled /\ ProfilesReturn
  /\ state' = disabledState(state.claimed)
  /\ UNCHANGED <<profile, bundles, capable, faults, edits, unseen>>

\* The adapter stops working before anything is removed.
DisableBegins(next) ==
  /\ ProfilesBegin /\ state.present
  /\ state' = disabledState(state.claimed)
  /\ op' = [Idle EXCEPT !.pc = next, !.todo = state.claimed]
  /\ UNCHANGED <<profile, bundles, capable, faults, edits, unseen>>

\* A torn manifest, a desktop that cannot be used or a failed removal leaves
\* the profile to another attempt.
DisableProfile(p) ==
  /\ op.pc \in {"disable", "remove"} /\ p \in op.todo
  /\ \E r \in RemovePackages(profile[p], Managed) :
       /\ faults' = faults + r.fault
       /\ Apply(p, r)
       /\ op' = [op EXCEPT !.todo = @ \ {p}, !.failed = IF r.ok THEN @ ELSE @ \cup {p}]
  /\ UNCHANGED <<bundles, state, unseen>> /\ Keeps

\* Mutant: a profile is no longer claimed although its removal has failed.
DisableForgets ==
  /\ op.pc \in {"disable", "remove"} /\ op.todo = {} /\ ProfilesReturn
  /\ state' = IF op.pc = "disable" THEN disabledState({}) ELSE NoState
  /\ UNCHANGED <<profile, bundles, faults, unseen>> /\ Keeps

DisableEnds ==
  /\ op.pc \in {"disable", "remove"} /\ op.todo = {}
  /\ \/ /\ op.failed # {} /\ state' = disabledState(op.failed) /\ ProfilesReturn
     \/ /\ op.failed = {} /\ op.pc = "disable"
        /\ state' = disabledState({}) /\ ProfilesReturn
     \/ /\ op.failed = {} /\ op.pc = "remove"
        /\ state' = NoState /\ Goto("unlink")
  /\ UNCHANGED <<profile, bundles, faults, unseen>> /\ Keeps

\* After the state, its generations are removed.
Unlink ==
  /\ op.pc = "unlink" /\ ProfilesReturn
  /\ bundles' \in {{}, bundles}
  /\ UNCHANGED <<profile, state, faults, unseen>> /\ Keeps

\* The desktop's own profile cannot be changed without the desktop.
DisableSkips(p) ==
  /\ op.pc \in {"disable", "remove"} /\ p \in op.todo
  /\ profileMentionsAdapter(profile[p])
  /\ op' = [op EXCEPT !.todo = @ \ {p}, !.failed = @ \cup {p}]
  /\ UNCHANGED <<profile, bundles, state, faults, unseen>> /\ Keeps

-----------------------------------------------------------------------------
ProfilesKilled ==
  /\ op.pc # "idle" /\ ProfilesReturn
  /\ UNCHANGED <<profile, bundles, state, faults, unseen>> /\ Keeps

\* The user creates or deletes a profile, breaks or repairs its manifest,
\* removes the adapter or installs a copy of their own.
Edit(p) ==
  /\ edits < MaxEdits /\ edits' = edits + 1
  /\ \E q \in {Missing, Torn(profile[p]), Valid({}), Valid(profile[p].plugins), Valid({Own})} :
       /\ q # profile[p]
       /\ q = Torn(profile[p]) => Exists(p)
       /\ q = Valid({Own}) => profile[p] = Valid({})
       /\ profile' = [profile EXCEPT ![p] = q]
  /\ UNCHANGED <<capable, bundles, state, op, faults, commands, unseen>>

ProfilesNext ==
  \/ EnsureRefused \/ EnsureEnds \/ Prune \/ RollbackWrites \/ RollbackVerifies
  \/ \E b \in Releases, enable \in BOOLEAN : EnsureBegins(b, enable)
  \/ \E p \in Profiles : \/ EnsureProfile(p) \/ RollbackProfile(p)
                         \/ DisableProfile(p) \/ DisableSkips(p) \/ Edit(p)
  \/ \E next \in {"disable", "remove"} : DisableBegins(next)
  \/ ActivateProfiles \/ QuiesceProfiles \/ DisableEnds \/ Unlink \/ ProfilesKilled

ProfilesSpec == ProfilesInit /\ [][ProfilesNext]_profilesVars

-----------------------------------------------------------------------------
\* A profile that lists a bundle of this program is claimed by the state, so
\* that a later command can repair or remove it, whatever was killed or failed
\* before.  (An update whose add leaves a profile new to it with an unreadable
\* manifest forgets that profile when it rolls back: `unseen`.)
OursIsClaimed ==
  \A p \in Profiles \ unseen :
    profile[p].plugins \cap Bundles # {} => p \in state.claimed

\* A bundle that a profile lists, and the one the state names, are on the disk.
UsedBundlesKept ==
  /\ state.present => state.bundle \in bundles
  /\ \A p \in Profiles \ unseen : profile[p].plugins \cap Bundles \subseteq bundles

DshKeepsTrack == OursIsClaimed /\ UsedBundlesKept

\* The adapter is given authority to work only when every claimed profile that
\* exists has installed the very bundle of the state.  (What a rollback could
\* not remove from a profile is another bundle, which the state does not
\* authorize.)
AuthorityVerified ==
  [][state'.enabled /\ ~state.enabled =>
       \A p \in state'.claimed \ op.residual :
         Exists(p) => profileHasInstalledAdapter(profile[p], state'.bundle)]_profilesVars

\* A profile is claimed for the first time only when the user has no copy of
\* the adapter in it, and a copy in a profile that is not claimed is left alone.
\* (A rollback claims again whatever the prior state claimed, a profile that was
\* deleted and made anew by the user among it.)
OwnCopyLeftAlone ==
  [][\A p \in Profiles :
       /\ p \in state'.claimed \ state.claimed =>
            Own \notin profile[p].plugins \/ p \in op.residual \cup op.prior.claimed
       /\ p \notin state.claimed /\ Own \in profile[p].plugins /\ edits' = edits
            => profile'[p] = profile[p]]_profilesVars
=============================================================================
