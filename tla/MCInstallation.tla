--------------------------- MODULE MCInstallation ---------------------------
(***************************************************************************)
(* What `memorax-code start` leaves on a machine, explored part by part in  *)
(* one run, fixed by `scene`: the calls that start and stop the Backend;    *)
(* the hook runtime, with the hooks of two turns, with those of a session   *)
(* that is compacted, or with two installs; the plugin inside DSH, with     *)
(* what it tells of two turns or with the context it adds to them.  The     *)
(* parts share no state; the part of another scene stays as it began.       *)
(***************************************************************************)
EXTENDS BackendService, HookGenerations, DshTurns, FiniteSets, TLC

CONSTANTS
  p1, g1, g2, s1, s2, inst1, inst2, prompt1, prompt2, stop, compact, startup

VARIABLE scene

MCEventOf == (prompt1 :> "UserPromptSubmit") @@ (prompt2 :> "UserPromptSubmit")
               @@ (stop :> "Stop") @@ (compact :> "compact") @@ (startup :> "startup")

\* The hooks that the client runs in a scene, and the install commands beside them.
HooksOf == [turns   |-> {prompt1, prompt2, stop},
            session |-> {prompt1, compact, startup},
            install |-> {prompt1}]
InstallsOf == [turns |-> {inst1}, session |-> {inst1}, install |-> {inst1, inst2}]
HookScene == scene \in DOMAIN HooksOf
OnlyThese ==
  /\ \A h \in DOMAIN MCEventOf \ HooksOf[scene] : hook'[h].pc = "unused"
  /\ \A i \in {inst1, inst2} \ InstallsOf[scene] : install'[i].pc = "idle"

\* What is told of the turns, without the context that follows, with at most one kind
\* of disturbance; or their context, while the user and DSH keep the plugin.
DshScene == scene \in {"told", "context"}
AtMostOne(p, q, r) == ~(p /\ q) /\ ~(p /\ r) /\ ~(q /\ r)
ThisScene ==
  IF scene = "told"
  THEN /\ context' = context /\ generation' = generation
       /\ \A t \in {1, 2} : step'[t].pc # "done"
       /\ AtMostOne(moved', ~authority', phase' # "accepting")
  ELSE tail' = <<>> /\ authority' = authority /\ phase' = phase

MCInit ==
  /\ scene \in {"backend", "told", "context"} \cup DOMAIN HooksOf
  /\ Init /\ HookInit /\ DshInit
  /\ scene # "backend" => ~windows
  /\ ~HookScene => pin = NoPin /\ current.now = Absent
  /\ scene # "told" => recovery = "none"

MCNext ==
  /\ UNCHANGED scene
  /\ \/ scene = "backend" /\ Next /\ UNCHANGED <<hookVars, dshVars>>
     \/ HookScene /\ HookNext /\ OnlyThese /\ UNCHANGED <<vars, dshVars>>
     \/ DshScene /\ DshNext /\ ThisScene /\ UNCHANGED <<vars, hookVars>>
     \/ scene # "backend" /\ UNCHANGED <<vars, hookVars, dshVars>>

MCSpec == MCInit /\ [][MCNext]_<<vars, hookVars, dshVars, scene>>

\* Generations are exchanged together with PIDs, and shells with every odd exchange of
\* instances, which leaves fewer permutations to try: where one part moves, the others
\* are as they began.
MCSymmetry ==
  {q \in {f @@ g @@ h @@ k : f \in Permutations(Pids), g \in Permutations({g1, g2}),
                             h \in Permutations(Instances), k \in Permutations({s1, s2})} :
     /\ q[g1] = g1 <=> q[p1] = p1
     /\ q[s1] = s1 <=> Cardinality({i \in Instances : q[i] = i}) # 1}
=============================================================================
