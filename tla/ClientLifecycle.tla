-------------------------- MODULE ClientLifecycle --------------------------
(***************************************************************************)
(* The lifecycle commands (lifecycle/orchestrator.ts): start and restart,   *)
(* stop and uninstall, each a process that holds the lifecycle lock from    *)
(* its first read to its last write (ExclusiveUse).  A command moves the    *)
(* shared Backend and the integrations of the clients from one state to     *)
(* another, and records in the cleanup marker which integrations a later    *)
(* command has to take back.  Each native call may fail, with or without    *)
(* its effect, and the process may be killed between any two of them.       *)
(*                                                                         *)
(* The calls to the clients of one phase are one step: a kill between two   *)
(* of them leaves what a partial failure of the phase leaves.               *)
(***************************************************************************)
EXTENDS FiniteSets

CONSTANTS
  Clients,             \* the clients a user may select
  Codex, Claude, Dsh,  \* the three the commands treat apart, in Clients or not
  NoMarker, NoCall     \* no marker file; no command holds the lock

VARIABLES
  enabled,   \* the clients whose integration is switched on
  marker,    \* managed-clients.json: the cleanup scope, or NoMarker
  backend,   \* "up", "dead" (its record left behind) or "none"
  call       \* the command that holds the lock, or NoCall

vars == <<enabled, marker, backend, call>>

Scope == IF marker = NoMarker THEN {} ELSE marker

\* A start: `drop` are the deselected clients.  A stop: `keep` is the marker it
\* commits, `halt` whether the Backend stops too.  `dsh` is what quiescing DSH
\* found: "was" enabled, "off", or "bad" when it failed.
StartCall(clients, optional) ==
  [op |-> "start", clients |-> clients, drop |-> Scope \ clients,
   optional |-> optional, keep |-> NoMarker, halt |-> TRUE,
   dsh |-> "off", phase |-> "quiesce", ok |-> FALSE]

StopCall(op, clients, keep, halt) ==
  [op |-> op, clients |-> clients, drop |-> {},
   optional |-> FALSE, keep |-> keep, halt |-> halt,
   dsh |-> "off", phase |-> "quiesce", ok |-> FALSE]

Phases == {"quiesce", "halt", "deselect", "mark", "prepare", "prepareDsh",
           "launch", "withdraw", "activate", "recover", "rescope",
           "reactivate", "disable", "remove", "commit", "done"}

Call == [op : {"start", "stop", "uninstall"}, clients : SUBSET Clients,
         drop : SUBSET Clients, optional : BOOLEAN,
         keep : {NoMarker} \cup SUBSET Clients, halt : BOOLEAN,
         dsh : {"was", "off", "bad"}, phase : Phases, ok : BOOLEAN]

ASSUME ClientsAssumption ==
  /\ \A s \in SUBSET Clients : s # NoMarker
  /\ NoCall \notin Call
  /\ Codex # Dsh /\ Claude # Dsh /\ Codex # Claude

At(p)    == call # NoCall /\ call.phase = p
Go(p)    == call' = [call EXCEPT !.phase = p]
End(ok)  == call' = [call EXCEPT !.phase = "done", !.ok = ok]
Starting == call # NoCall /\ call.op = "start"

Init ==
  /\ enabled = {} /\ marker = NoMarker
  /\ backend = "none" /\ call = NoCall

-----------------------------------------------------------------------------
\* start and restart, from a user, from setup, from npm or from a hook.  Only an
\* explicit selection makes DSH mandatory; npm's and the hooks' commands prefer
\* the marker to the configuration, so the selection is any set here.
BeginStart(clients, optional) ==
  /\ call = NoCall
  /\ call' = StartCall(clients, optional)
  /\ UNCHANGED <<enabled, marker, backend>>

\* stop and uninstall.  Clients that an explicit selection leaves keep the
\* Backend; without one the selection is the marker, if there is one.
BeginStop(op, clients, explicit) ==
  /\ call = NoCall
  /\ explicit \/ marker = NoMarker \/ clients = marker
  /\ LET rest == IF explicit THEN Scope \ clients ELSE {} IN
       call' = StopCall(op, clients, IF rest = {} THEN NoMarker ELSE rest,
                        clients = {} \/ rest = {})
  /\ UNCHANGED <<enabled, marker, backend>>

\* npm's stop for a package replacement: the Backend and DSH only, and the
\* marker is kept for the start that follows.
BeginReplacementStop ==
  /\ call = NoCall
  /\ call' = StopCall("stop", {Dsh} \cap Clients, marker, TRUE)
  /\ UNCHANGED <<enabled, marker, backend>>

\* As Quiesce, but a deselected DSH is left to the phase that disables it.
QuiesceSelectedOnly ==
  /\ At("quiesce")
  /\ UNCHANGED <<marker, backend>>
  /\ IF Dsh \notin call.clients
     THEN Go(IF Starting \/ call.halt THEN "halt" ELSE "disable") /\ UNCHANGED enabled
     ELSE /\ enabled' = enabled \ {Dsh}
          /\ call' = [call EXCEPT
                !.phase = IF Starting \/ call.halt THEN "halt" ELSE "disable",
                !.dsh = IF Dsh \in enabled THEN "was" ELSE "off"]

\* DSH publishes its disabled state before the Backend goes away.
Quiesce ==
  /\ At("quiesce")
  /\ UNCHANGED <<marker, backend>>
  /\ LET next == IF Starting \/ call.halt THEN "halt" ELSE "disable" IN
     IF Dsh \notin call.clients \cup call.drop THEN Go(next) /\ UNCHANGED enabled
     ELSE \/ /\ enabled' = enabled \ {Dsh}
             /\ call' = [call EXCEPT !.phase = next,
                           !.dsh = IF Dsh \in enabled THEN "was" ELSE "off"]
          \/ /\ enabled' \in {enabled, enabled \ {Dsh}}
             /\ IF Starting /\ call.optional /\ Dsh \in call.clients
                THEN call' = [call EXCEPT !.phase = next, !.dsh = "bad"]
                ELSE End(FALSE)

\* stopBackendService (BackendService): refused, it leaves everything as it was,
\* but for DSH, which is taken back.
Halt ==
  /\ At("halt")
  /\ UNCHANGED <<enabled, marker>>
  /\ \/ backend' = "none" /\ Go(IF Starting THEN "deselect" ELSE "disable")
     \/ /\ backend # "none" /\ UNCHANGED backend
        /\ IF call.dsh = "was" THEN Go("reactivate") ELSE End(FALSE)

\* Switch some clients off: a call that fails may leave its client either way.
SwitchOff(clients, onOk, onFail) ==
  \/ enabled' = enabled \ clients /\ onOk
  \/ \E left \in SUBSET ((enabled \cap clients) \ {Dsh}) :
       enabled' = (enabled \ clients) \cup left /\ onFail

Deselect ==
  /\ At("deselect")
  /\ SwitchOff(call.drop, Go("mark"), Go("recover"))
  /\ UNCHANGED <<marker, backend>>

\* writeActiveManagedClients, then the missing configuration is seeded.
Mark ==
  /\ At("mark")
  /\ \/ marker' = call.clients /\ Go("prepare")
     \/ marker' \in {marker, call.clients} /\ Go("recover")
  /\ UNCHANGED <<enabled, backend>>

\* prepareEnable of all but DSH.  Codex comes first and its failure ends the
\* phase; Claude's is only reported.  A client that is not installed is skipped.
Prepare ==
  /\ At("prepare")
  /\ \E bad \in SUBSET (call.clients \ {Dsh}) :
       LET touched == IF Codex \in bad THEN {Codex} ELSE call.clients \ {Dsh} IN
       /\ \E on \in SUBSET touched : enabled' = (enabled \ touched) \cup on
       /\ Go(IF bad \subseteq {Claude} THEN "prepareDsh" ELSE "recover")
  /\ UNCHANGED <<marker, backend>>

\* DSH is installed switched off; it is activated once the Backend answers.
PrepareDsh ==
  /\ At("prepareDsh")
  /\ \/ Go("launch")
     \/ /\ Dsh \in call.clients /\ ~call.optional
        /\ Go("recover")
     \/ /\ Dsh \in call.clients /\ call.optional
        /\ call' = [call EXCEPT !.phase = "launch", !.dsh = "bad"]
  /\ UNCHANGED <<enabled, marker, backend>>

\* startBackendService; a child that could not be ended may stay on record.
Launch ==
  /\ At("launch")
  /\ \/ backend' = "up" /\ Go("activate")
     \/ backend' \in {"none", "up"} /\ Go("withdraw")
  /\ UNCHANGED <<enabled, marker>>

\* Without a Backend the prepared clients are switched off again, but for Claude
\* and DSH; the outcome of that changes nothing.
Withdraw ==
  /\ At("withdraw")
  /\ SwitchOff(call.clients \ {Claude, Dsh}, End(FALSE), End(FALSE))
  /\ UNCHANGED <<marker, backend>>

\* The report is ok only when the selected clients are ready.
Activate ==
  /\ At("activate")
  /\ \/ UNCHANGED enabled
     \/ /\ Dsh \in call.clients /\ call.dsh # "bad"
        /\ enabled' = enabled \cup {Dsh}
  /\ \E ok \in BOOLEAN : End(ok)
  /\ UNCHANGED <<marker, backend>>

-----------------------------------------------------------------------------
\* recoverStartPreparationFailure: the Backend comes back for the clients that
\* were there, and DSH with it, but only inside the cleanup scope.
Recover ==
  /\ At("recover")
  /\ \/ backend' = "up" /\ IF call.dsh = "was" THEN Go("rescope") ELSE End(FALSE)
     \/ backend' \in {"none", "up"} /\ End(FALSE)
  /\ UNCHANGED <<enabled, marker>>

\* As Rescope, but the marker is left as the preparation wrote it.
RescopeSkipped ==
  /\ At("rescope") /\ Go("reactivate")
  /\ UNCHANGED <<enabled, marker, backend>>

Rescope ==
  /\ At("rescope")
  /\ IF Dsh \in Scope THEN Go("reactivate") /\ UNCHANGED marker
     ELSE \/ /\ marker' = (IF marker = NoMarker THEN call.clients ELSE marker)
                          \cup {Dsh}
             /\ Go("reactivate")
          \/ UNCHANGED marker /\ End(FALSE)
  /\ UNCHANGED <<enabled, backend>>

Reactivate ==
  /\ At("reactivate")
  /\ enabled' \in {enabled, enabled \cup {Dsh}}
  /\ End(FALSE)
  /\ UNCHANGED <<marker, backend>>

-----------------------------------------------------------------------------
Disable ==
  /\ At("disable")
  /\ SwitchOff(call.clients, Go(IF call.op = "uninstall" THEN "remove" ELSE "commit"),
               End(FALSE))
  /\ UNCHANGED <<marker, backend>>

\* uninstall: the plugins, then the npm package, before the marker is committed.
Remove ==
  /\ At("remove")
  /\ Go("commit") \/ End(FALSE)
  /\ UNCHANGED <<enabled, marker, backend>>

\* commitActiveManagedClients, the last write of a stop that went well.
Commit ==
  /\ At("commit")
  /\ \/ marker' = call.keep /\ End(TRUE)
     \/ UNCHANGED marker /\ End(FALSE)
  /\ UNCHANGED <<enabled, backend>>

Return ==
  /\ At("done") /\ call' = NoCall
  /\ UNCHANGED <<enabled, marker, backend>>

\* The process is killed; the next one reaps its lock (JsonFileLock).
Killed ==
  /\ call # NoCall /\ call' = NoCall
  /\ UNCHANGED <<enabled, marker, backend>>

BackendDies ==
  /\ backend = "up" /\ backend' = "dead"
  /\ UNCHANGED <<enabled, marker, call>>

Step == \/ Quiesce \/ Halt \/ Deselect \/ Mark \/ Prepare \/ PrepareDsh
        \/ Launch \/ Withdraw \/ Activate \/ Recover \/ Rescope \/ Reactivate
        \/ Disable \/ Remove \/ Commit

Begin ==
  \/ \E clients \in SUBSET Clients, flag \in BOOLEAN :
       \/ BeginStart(clients, flag)
       \/ BeginStop("stop", clients, flag)
       \/ BeginStop("uninstall", clients, flag)
  \/ BeginReplacementStop

Next == Begin \/ Step \/ Return \/ Killed \/ BackendDies

Spec == Init /\ [][Next]_vars

-----------------------------------------------------------------------------
LifecycleInv ==
  /\ enabled \subseteq Clients
  /\ marker \in {NoMarker} \cup SUBSET Clients
  /\ backend \in {"up", "dead", "none"}
  /\ call \in Call \cup {NoCall}

\* "The marker is a conservative cleanup scope ... so an unqualified stop or
\* uninstall still restores every client integration that this start may touch":
\* whatever fails and whenever a command is killed, each integration that is on
\* is one that the marker names.
EnabledCovered == enabled \subseteq Scope

BackendOnly == call.op # "start" /\ call.clients = {}

SwitchBetween ==
  /\ \A c \in enabled' \ enabled :
       IF c = Dsh THEN backend' # "none" ELSE backend # "up"
  /\ backend # "none" /\ backend' = "none" /\ Dsh \in enabled =>
       call.dsh = "bad" \/ BackendOnly

\* The Backend is changed between two generations of integrations: one that is
\* switched on never meets the Backend it replaces, DSH is only switched on over
\* a Backend on record, and a Backend that is retired leaves no DSH behind that
\* still relies on it, unless a stop selected no client at all or DSH refused.
SwitchedBetweenBackends == [][SwitchBetween]_vars
=============================================================================
