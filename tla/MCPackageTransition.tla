------------------------ MODULE MCPackageTransition ------------------------
(***************************************************************************)
(* Explorations in one run, fixed by `scene`: the lifecycle commands with    *)
(* every selection of the clients; what those commands ask of the adapter   *)
(* in DSH's profiles, alone; one update, run by the update                  *)
(* command, among commands that select DSH or nothing; and two updates,     *)
(* where the clients are left out, the Backend does not die by itself, no   *)
(* record grows old, the user's own commands are not killed and only the    *)
(* first can be followed by `update --recover`.                             *)
(***************************************************************************)
EXTENDS PackageTransition, DshProfiles

VARIABLE scene

MCInit ==
  /\ PackageInit /\ ProfilesInit
  /\ scene \in {"profiles", "clients", "update", "updates"}
  /\ scene = "profiles" \/ (capable = {} /\ bundles = {} /\ Discovered = {})

Selections == CASE scene = "clients" -> SUBSET Clients
                [] scene = "update"  -> {{}, {Dsh}}
                [] scene = "updates" -> {{}}
Flags == IF scene = "clients" THEN BOOLEAN ELSE {TRUE}
Running == CASE scene = "clients" -> {}
             [] scene = "update"  -> Updates \ Direct
             [] scene = "updates" -> Updates

UpdateStepHere(u) ==
  \/ Observe(u) \/ BeginRetire(u) \/ Retired(u) \/ NpmFails(u)
  \/ BeginRestore(u) \/ Started(u) \/ Verified(u) \/ Consume(u)
  \/ RestoreOwn(u) \/ UpdateKilled(u) \/ WaitingChildKilled(u) \/ ChildRefused(u)
  \/ (u \notin Direct /\ RecoverCommand(u))
  \/ \E clients \in Selections : ChildBegins(u, clients)

CommandsNext ==
  \/ \E u \in Running : UpdateStepHere(u)
  \/ \E clients \in Selections, flag \in Flags : OwnBegin(clients, flag)
  \/ CommandStep \/ CommandReturns
  \/ ((scene # "updates" \/ issuer.by # NoUpdate) /\ CommandKilled)
  \/ (scene # "updates" /\ BackendDies /\ UNCHANGED package)
  \/ (scene # "updates" /\ GrowOld)

MCNext ==
  /\ UNCHANGED scene
  /\ \/ scene # "profiles" /\ CommandsNext /\ UNCHANGED profilesVars
     \/ scene = "profiles" /\ ProfilesNext /\ UNCHANGED allVars
     \/ scene = "profiles" /\ UNCHANGED <<allVars, profilesVars>>

MCSpec == MCInit /\ [][MCNext]_<<allVars, profilesVars, scene>>
============================================================================
