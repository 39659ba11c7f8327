---------------------------- MODULE SessionScope ----------------------------
(***************************************************************************)
(* What the session resolver promises of one client session: every request *)
(* for its scope is answered as if at one instant, from one binding that   *)
(* is made once per base user and moves only where a scope may be replaced.*)
(***************************************************************************)
EXTENDS RepositoryScope, Sequences, Integers

VARIABLES
  binding,  \* the session's scope, NoScope before the first; a mismatch is final
  handed    \* the scopes handed out since the session was bound

vars == <<binding, handed>>

Unbound == [scope |-> NoScope, mismatch |-> FALSE]
Binding == [scope : Scope \cup {NoScope}, mismatch : BOOLEAN]

Init == binding = Unbound /\ handed = <<>>

\* A session without a binding for the base user of the new scope is bound.
Bind ==
  /\ binding' \in [scope : Scope, mismatch : {FALSE}]
  /\ binding'.scope.base # binding.scope.base
  /\ handed' = <<binding'.scope>>

\* The workspace is still the bound one.
Confirm ==
  /\ binding.scope # NoScope /\ ~binding.mismatch
  /\ handed' = Append(handed, binding.scope)
  /\ UNCHANGED binding

\* A degraded namespace becomes Git's, or the General one gets its directory.
Move ==
  /\ ~binding.mismatch
  /\ binding' \in [scope : Scope, mismatch : {FALSE}]
  /\ CanUpgrade(binding.scope, binding'.scope) \/ CanBindGeneral(binding.scope, binding'.scope)
  /\ handed' = Append(handed, binding'.scope)

\* The session was seen in another workspace: no scope from here on.
Latch ==
  /\ binding.scope # NoScope
  /\ binding' = [binding EXCEPT !.mismatch = TRUE]
  /\ UNCHANGED handed

Next == Bind \/ Confirm \/ Move \/ Latch

Spec == Init /\ [][Next]_vars

-----------------------------------------------------------------------------
\* Every scope handed out since the session was bound is its scope now, or one
\* that its scope was allowed to replace: no answer names two workspaces.
HandedAgree ==
  \A k \in 1..Len(handed) :
    \/ handed[k] = binding.scope
    \/ CanUpgrade(handed[k], binding.scope)
    \/ CanBindGeneral(handed[k], binding.scope)

\* After a mismatch nothing is handed out until another base user is bound.
MismatchFinal ==
  [][binding.mismatch /\ handed' # handed => binding'.scope.base # binding.scope.base]_vars
=============================================================================
