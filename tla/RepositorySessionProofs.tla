----------------------- MODULE RepositorySessionProofs -----------------------
(***************************************************************************)
(* The resolver implements SessionScope: the queue makes every resolution, *)
(* with all the awaits inside it, look like one step.  What SessionScope   *)
(* promises of the answers follows.  While .git stays as it is, every      *)
(* scope is what a resolution of its own root yields (SteadyInv), and so a *)
(* hook from inside the bound workspace finds the bound scope again.       *)
(***************************************************************************)
EXTENDS MCRepositorySession, TLAPS

LEMMA NoScopeIsNone == NoScope \notin Scope /\ NoScope.base = NoBase
  BY BasesAssumption DEF NoScope, Scope

\* The nearest marked directory exists.
LEMMA NearestMarked ==
  ASSUME NEW dk \in [Dirs -> Marker], NEW d \in Dirs, Marked(dk, d) # {}
  PROVE  Nearest(dk, d) \in Marked(dk, d) /\ Nearest(dk, d) \in Dirs
<1>1. Marked(dk, d) \in SUBSET {e \in Dirs : <<d, e>> \in Inside}
  BY DEF Marked
<1>2. \E e \in Marked(dk, d) : \A f \in Marked(dk, d) : <<e, f>> \in Inside
  BY <1>1, DirsAssumption
<1> QED
  BY <1>2 DEF Nearest, Marked

\* Resolution yields a scope of the base user it was asked for, or fails.
LEMMA ResolveType ==
  ASSUME NEW dk \in [Dirs -> Marker], NEW d \in Dirs \cup {NoDir, Gone},
         NEW p \in BOOLEAN, NEW b \in Bases
  PROVE  \/ ResolveScope(dk, d, p, b) = NoScope
         \/ ResolveScope(dk, d, p, b) \in Scope /\ ResolveScope(dk, d, p, b).base = b
<1>1. CASE d \in Dirs /\ Marked(dk, d) = {}
  BY <1>1 DEF ResolveScope, DirScope, GeneralScope, FolderScope, Scope
<1>2. CASE d \in Dirs /\ Marked(dk, d) # {}
  <2> DEFINE e == Nearest(dk, d)
  <2>1. e \in Dirs /\ dk[e] \in Marker
    BY <1>2, NearestMarked
  <2>0. ResolveScope(dk, d, p, b) = DirScope(dk, d, p, b)
    BY <1>2, DirsAssumption DEF ResolveScope
  <2>2. DirScope(dk, d, p, b) =
          CASE dk[e].kind = "repository" -> GitScope(b, dk[e], e)
            [] dk[e].kind = "broken" -> FolderScope(b, e, TRUE)
            [] OTHER -> NoScope
    BY <1>2, Zenon DEF DirScope
  <2> HIDE DEF e
  <2>3. GitScope(b, dk[e], e) \in Scope /\ GitScope(b, dk[e], e).base = b
    BY <2>1 DEF GitScope, Scope, Marker
  <2>4. FolderScope(b, e, TRUE) \in Scope /\ FolderScope(b, e, TRUE).base = b
    BY <2>1 DEF FolderScope, Scope
  <2> QED
    BY <2>0, <2>2, <2>3, <2>4
<1>3. CASE d \notin Dirs
  BY <1>3 DEF ResolveScope, GeneralScope, Scope
<1> QED
  BY <1>1, <1>2, <1>3

LEMMA ResolvedType ==
  ASSUME SessionInv, NEW c \in Calls, call[c].phase = "resolving", Resolved(c) # NoScope
  PROVE  Resolved(c) \in Scope /\ Resolved(c).base = call[c].base
<1>1. call[c].base \in Bases /\ call[c].root \in Dirs \cup {NoDir, Gone}
      /\ call[c].projectless \in BOOLEAN /\ disk \in [Dirs -> Marker]
  BY DEF SessionInv, TypeOK, Call, AskedUser
<1> QED
  BY <1>1, ResolveType DEF Resolved

-----------------------------------------------------------------------------
\* A step of one call touches that call alone.
LEMMA OneCall ==
  ASSUME call \in [Calls -> Call], NEW c \in Calls, NEW new \in Call,
         call' = [call EXCEPT ![c] = new]
  PROVE  /\ call' \in [Calls -> Call]
         /\ call'[c] = new
         /\ \A d \in Calls : d # c => call'[d] = call[d]
  OBVIOUS

\* The call whose turn it is, is the only one that can have entered.
LEMMA Alone ==
  ASSUME SessionInv, NEW c \in Calls, MyTurn(c), NEW d \in Calls,
         call[d].phase \in {"rooting", "resolving"}
  PROVE  d = c
  BY DEF SessionInv, OneAtATime, MyTurn

\* Whoever is answered leaves no entered call behind.
LEMMA LeaveKeeps ==
  ASSUME SessionInv, NEW c \in Calls, MyTurn(c), NEW ph \in {"ok", "refused"},
         call' = [call EXCEPT ![c].phase = ph], call[c].phase # "idle", Leave(c),
         UNCHANGED <<disk, user>>,
         binding' \in [scope : Scope \cup {NoScope}, mismatch : BOOLEAN],
         handed' \in Seq(Scope), LatchedBound'
  PROVE  SessionInv'
<1>1. queue # <<>> /\ queue \in Seq(Calls)
  BY DEF SessionInv, TypeOK, MyTurn
<1>2. queue' \in Seq(Calls)
  BY <1>1 DEF Leave
<1>0. call \in [Calls -> Call]
  BY DEF SessionInv, TypeOK
<1> DEFINE new == [call[c] EXCEPT !.phase = ph]
<1>n. new \in Call /\ new.phase = ph /\ new.base = call[c].base
  BY <1>0 DEF Call, Phases
<1>u. call' = [call EXCEPT ![c] = new]
  BY <1>0
<1> HIDE DEF new
<1>3. /\ call' \in [Calls -> Call]
      /\ call'[c] = new
      /\ \A d \in Calls : d # c => call'[d] = call[d]
  BY <1>0, <1>n, <1>u, OneCall
<1>4. TypeOK'
  BY <1>2, <1>3 DEF SessionInv, TypeOK
<1>5. OneAtATime'
  <2>1. ASSUME NEW d \in Calls PROVE call'[d].phase \notin {"rooting", "resolving"}
    BY <1>3, <1>n, Alone
  <2> QED
    BY <2>1 DEF OneAtATime
<1>6. AskedUser'
  BY <1>3, <1>n DEF SessionInv, AskedUser
<1> QED
  BY <1>4, <1>5, <1>6 DEF SessionInv

LEMMA RefuseKeeps ==
  ASSUME SessionInv, NEW c \in Calls, MyTurn(c), call[c].phase # "idle", Refuse(c),
         binding' = binding \/ binding' = [binding EXCEPT !.mismatch = TRUE],
         LatchedBound'
  PROVE  SessionInv'
<1>1. binding' \in [scope : Scope \cup {NoScope}, mismatch : BOOLEAN] /\ handed' \in Seq(Scope)
  BY DEF SessionInv, TypeOK, Refuse
<1> QED
  BY <1>1, LeaveKeeps DEF Refuse

LEMMA EntersKeep ==
  ASSUME SessionInv, NEW c \in Calls, Enter(c) \/ ChooseRoot(c)
  PROVE  SessionInv'
<1>1. CASE Enter(c)
  <2>1. MyTurn(c) /\ call[c].asked.restored \in Scope \cup {NoScope}
    BY <1>1, RequestsAssumption DEF Enter, SessionInv, TypeOK, Call
  <2>0. call \in [Calls -> Call] /\ binding.scope \in Scope \cup {NoScope}
    BY DEF SessionInv, TypeOK
  <2> DEFINE bd == IF Cached(c) THEN binding.scope
                   ELSE IF call[c].asked.restored.base = call[c].base
                        THEN call[c].asked.restored ELSE NoScope
             new == [call[c] EXCEPT !.phase = "rooting", !.found = Cached(c), !.bound = bd]
  <2>b. bd \in Scope \cup {NoScope} /\ Cached(c) \in BOOLEAN
    BY <2>0, <2>1 DEF Cached
  <2>c. call' = [call EXCEPT ![c] = new]
    BY <1>1, <2>0 DEF Enter
  <2> HIDE DEF bd
  <2>m. /\ new \in Call /\ new.phase = "rooting"
        /\ new.found = Cached(c) /\ new.base = call[c].base
    BY <2>0, <2>b DEF Call, Phases
  <2> HIDE DEF new
  <2>n. /\ call' \in [Calls -> Call]
        /\ call'[c] = new
        /\ \A d \in Calls : d # c => call'[d] = call[d]
    BY <2>0, <2>c, <2>m, OneCall
  <2>2. TypeOK'
    BY <1>1, <2>n DEF Enter, SessionInv, TypeOK
  <2>3. OneAtATime'
    <3>1. ASSUME NEW d \in Calls, d # c
          PROVE call'[d].phase \notin {"rooting", "resolving"}
      BY <2>1, <2>n, <3>1, Alone
    <3>2. call'[c].found = Cached(c) /\ call'[c].base = call[c].base /\ ~Latched(c)
      BY <1>1, <2>n, <2>m DEF Enter
    <3>3. MyTurn(c)' /\ binding' = binding
      BY <1>1, <2>1 DEF Enter, MyTurn
    <3> QED
      BY <3>1, <3>2, <3>3 DEF OneAtATime, Cached, Latched
  <2> QED
    BY <1>1, <2>2, <2>3, <2>n, <2>m DEF Enter, SessionInv, AskedUser, LatchedBound
<1>2. CASE ChooseRoot(c)
  <2>1. RootOf(c) \in Dirs \cup {NoDir, Gone}
    <3>1. call[c].bound.root \in Dirs \cup {NoDir}
      BY DEF SessionInv, TypeOK, Call, Scope, NoScope
    <3>2. call[c].asked.root \in Dirs \cup {NoDir, Gone}
      BY RequestsAssumption DEF SessionInv, TypeOK, Call
    <3> QED
      BY <3>1, <3>2 DEF RootOf
  <2>2. Projectless(c) \in BOOLEAN
    BY DEF Projectless
  <2>0. call \in [Calls -> Call]
    BY DEF SessionInv, TypeOK
  <2> DEFINE new == [call[c] EXCEPT !.phase = "resolving", !.root = RootOf(c),
                                    !.projectless = Projectless(c)]
  <2>c. call' = [call EXCEPT ![c] = new]
    BY <1>2, <2>0 DEF ChooseRoot
  <2>m. /\ new \in Call /\ new.phase = "resolving"
        /\ new.found = call[c].found /\ new.base = call[c].base
    BY <2>0, <2>1, <2>2 DEF Call, Phases
  <2> HIDE DEF new
  <2>3. /\ call' \in [Calls -> Call]
        /\ call'[c] = new
        /\ \A d \in Calls : d # c => call'[d] = call[d]
    BY <2>0, <2>c, <2>m, OneCall
  <2>4. TypeOK'
    BY <1>2, <2>3 DEF ChooseRoot, SessionInv, TypeOK
  <2>5. OneAtATime'
    BY <1>2, <2>3, <2>m DEF ChooseRoot, SessionInv, OneAtATime, MyTurn, Cached
  <2> QED
    BY <1>2, <2>3, <2>m, <2>4, <2>5 DEF ChooseRoot, SessionInv, AskedUser, LatchedBound
<1> QED
  BY <1>1, <1>2

LEMMA OutsideKeeps ==
  ASSUME SessionInv,
         (\E c \in Calls : Ask(c)) \/ (\E d \in Dirs : SetMarker(d)) \/ ChangeUser
         \/ UNCHANGED vars
  PROVE  SessionInv'
<1>1. ASSUME NEW c \in Calls, Ask(c) PROVE SessionInv'
  <2>1. queue \in Seq(Calls) /\ queue' = Append(queue, c) /\ binding' = binding
    BY <1>1 DEF Ask, SessionInv, TypeOK
  <2>0. call \in [Calls -> Call] /\ user \in Bases
    BY DEF SessionInv, TypeOK
  <2> PICK r \in Requests :
         call' = [call EXCEPT ![c].phase = "queued", ![c].base = user, ![c].asked = r]
    BY <1>1 DEF Ask
  <2> DEFINE new == [call[c] EXCEPT !.phase = "queued", !.base = user, !.asked = r]
  <2>c. call' = [call EXCEPT ![c] = new]
    BY <2>0
  <2>m. new \in Call /\ new.phase = "queued" /\ new.base = user
    BY <2>0 DEF Call, Phases
  <2> HIDE DEF new
  <2>n. /\ call' \in [Calls -> Call]
        /\ call'[c] = new
        /\ \A d \in Calls : d # c => call'[d] = call[d]
    BY <2>0, <2>c, <2>m, OneCall
  <2>2. TypeOK' /\ AskedUser'
    <3>1. queue' \in Seq(Calls)
      BY <2>1
    <3>2. TypeOK'
      BY <1>1, <2>n, <3>1 DEF Ask, SessionInv, TypeOK
    <3>3. AskedUser'
      BY <2>0, <2>n, <2>m DEF SessionInv, AskedUser
    <3> QED
      BY <3>2, <3>3
  <2>3. OneAtATime'
    <3>1. ASSUME NEW d \in Calls, call'[d].phase \in {"rooting", "resolving"}
          PROVE  d # c /\ call'[d] = call[d]
      BY <2>n, <2>m, <3>1
    <3>2. ASSUME NEW d \in Calls, MyTurn(d) PROVE MyTurn(d)'
      BY <2>1, <3>2 DEF MyTurn
    <3> QED
      BY <2>1, <3>1, <3>2 DEF OneAtATime, SessionInv, Cached
  <2> QED
    BY <2>1, <2>2, <2>3 DEF SessionInv, LatchedBound
<1>2. ASSUME NEW d \in Dirs, SetMarker(d) PROVE SessionInv'
  BY <1>2, RequestsAssumption
     DEF SetMarker, SessionInv, TypeOK, OneAtATime, AskedUser, LatchedBound, MyTurn, Cached
<1>3. CASE ChangeUser
  BY <1>3 DEF ChangeUser, SessionInv, TypeOK, OneAtATime, AskedUser, LatchedBound, MyTurn, Cached
<1>4. CASE UNCHANGED vars
  BY <1>4 DEF vars, SessionInv, TypeOK, OneAtATime, AskedUser, LatchedBound, MyTurn, Cached
<1> QED
  BY <1>1, <1>2, <1>3, <1>4

LEMMA CallKeeps ==
  ASSUME SessionInv, NEW c \in Calls, CallStep(c)
  PROVE  SessionInv'
<1>1. CASE Enter(c) \/ ChooseRoot(c)
  BY <1>1, EntersKeep
<1>2. CASE call[c].phase = "queued" /\ (RefuseLatched(c) \/ RefuseUnbound(c))
  BY <1>2, RefuseKeeps DEF RefuseLatched, RefuseUnbound, SessionInv, LatchedBound
<1>3. ASSUME call[c].phase \in {"rooting", "resolving"} PROVE MyTurn(c)
  BY <1>3 DEF SessionInv, OneAtATime
<1>4. CASE RefuseRootless(c) \/ RefuseUnresolved(c) \/ RefuseRestored(c)
  BY <1>3, <1>4, RefuseKeeps
     DEF RefuseRootless, RefuseUnresolved, RefuseRestored, SessionInv, LatchedBound
<1>5. CASE LatchMismatch(c)
  <2>1. MyTurn(c) /\ Cached(c) /\ call[c].base \in Bases /\ call[c].phase # "idle"
    BY <1>3, <1>5 DEF LatchMismatch, SessionInv, OneAtATime, AskedUser
  <2>2. binding' = [binding EXCEPT !.mismatch = TRUE] /\ binding.scope # NoScope /\ Refuse(c)
    BY <1>5, <2>1, BasesAssumption DEF LatchMismatch, Cached, NoScope
  <2>3. LatchedBound'
    BY <2>2 DEF LatchedBound, SessionInv, TypeOK
  <2> QED
    BY <2>1, <2>2, <2>3, RefuseKeeps
<1>6. CASE Bind(c) \/ Confirm(c) \/ Move(c)
  <2>1. MyTurn(c) /\ call[c].phase # "idle"
    BY <1>3, <1>6 DEF Bind, Confirm, Move
  <2>2. Resolved(c) \in Scope
    BY <1>6, ResolvedType DEF Bind, Confirm, Move
  <2>3. CASE Bind(c)
    <3>1. binding' = [scope |-> Resolved(c), mismatch |-> FALSE] /\ handed' = <<Resolved(c)>>
      BY <2>3 DEF Bind
    <3>2. LatchedBound'
      BY <3>1 DEF LatchedBound
    <3> QED
      <4>1. binding' \in [scope : Scope \cup {NoScope}, mismatch : BOOLEAN]
        BY <2>2, <3>1
      <4>2. handed' \in Seq(Scope)
        BY <2>2, <3>1
      <4> QED
        BY <2>1, <2>3, <3>2, <4>1, <4>2, LeaveKeeps DEF Bind, Answer
  <2>4. CASE Confirm(c)
    <3>1. binding.scope \in Scope
      BY <2>4, NoScopeIsNone, BasesAssumption
         DEF Confirm, SessionInv, TypeOK, OneAtATime, Cached, AskedUser
    <3>2. binding' = binding /\ handed' \in Seq(Scope)
      BY <2>4, <3>1 DEF Confirm, SessionInv, TypeOK
    <3> QED
      BY <2>1, <2>4, <3>2, LeaveKeeps DEF Confirm, Answer, SessionInv, LatchedBound, TypeOK
  <2>5. CASE Move(c)
    <3>1. binding' = [binding EXCEPT !.scope = Resolved(c)] /\ handed' \in Seq(Scope)
      BY <2>2, <2>5 DEF Move, SessionInv, TypeOK
    <3>2. LatchedBound' /\ binding' \in [scope : Scope \cup {NoScope}, mismatch : BOOLEAN]
      BY <2>2, <3>1, NoScopeIsNone DEF LatchedBound, SessionInv, TypeOK
    <3> QED
      BY <2>1, <2>5, <3>1, <3>2, LeaveKeeps DEF Move, Answer
  <2> QED
    BY <1>6, <2>3, <2>4, <2>5
<1> QED
  BY <1>1, <1>2, <1>4, <1>5, <1>6 DEF CallStep, RefuseLatched, RefuseUnbound

LEMMA SessionStep == SessionInv /\ [Next]_vars => SessionInv'
  BY OutsideKeeps, CallKeeps DEF Next

LEMMA SessionInit == Init => SessionInv
<1> SUFFICES ASSUME Init PROVE SessionInv
  OBVIOUS
<1>1. PICK r \in Requests :
        call = [c \in Calls |-> [phase |-> "idle", base |-> NoBase, asked |-> r, found |-> FALSE,
                                 bound |-> NoScope, root |-> NoDir, projectless |-> FALSE]]
  BY DEF Init
<1> QED
  BY <1>1 DEF Init, SessionInv, TypeOK, OneAtATime, AskedUser, LatchedBound, Unbound, Call, Phases

\* The queue lets one call at a time read and write the binding.
THEOREM ResolutionsExclude == Spec => []SessionInv
  BY SessionInit, SessionStep, PTL DEF Spec

-----------------------------------------------------------------------------
LEMMA StepMapsToStep ==
  ASSUME SessionInv, [Next]_vars
  PROVE  [Session!Next]_(Session!vars)
<1>1. ASSUME NEW c \in Calls, CallStep(c) PROVE [Session!Next]_(Session!vars)
  <2>1. ASSUME call[c].phase \in {"rooting", "resolving"}
        PROVE  /\ call[c].found <=> Cached(c)
               /\ call[c].found => ~binding.mismatch
               /\ call[c].base \in Bases
    BY <2>1 DEF SessionInv, OneAtATime, AskedUser
  <2>r. binding.scope # NoScope \/ ~Cached(c) \/ call[c].base \notin Bases
    BY NoScopeIsNone, BasesAssumption DEF Cached
  <2>2. CASE Bind(c)
    <3>1. /\ binding' = [scope |-> Resolved(c), mismatch |-> FALSE]
          /\ handed' = <<Resolved(c)>>
          /\ Resolved(c) \in Scope
          /\ Resolved(c).base # binding.scope.base
      BY <2>1, <2>2, ResolvedType DEF Bind, Cached
    <3>2. Session!Bind
      BY <3>1 DEF Session!Bind, Session!Scope, Scope
    <3> QED
      BY <3>2 DEF Session!Next
  <2>3. CASE Confirm(c)
    <3>1. Session!Confirm
      BY <2>1, <2>3, <2>r DEF Confirm, Session!Confirm, Session!NoScope, NoScope
    <3> QED
      BY <3>1 DEF Session!Next
  <2>4. CASE Move(c)
    <3>1. Resolved(c) \in Scope /\ ~binding.mismatch
      BY <2>1, <2>4, ResolvedType DEF Move
    <3>2. binding' = [scope |-> Resolved(c), mismatch |-> FALSE]
      BY <2>4, <3>1 DEF Move, SessionInv, TypeOK
    <3>3. CanUpgrade(binding.scope, Resolved(c)) \/ CanBindGeneral(binding.scope, Resolved(c))
      BY <2>4 DEF Move, MayMove
    <3>4. Session!Move
      <4>1. /\ binding'.scope = Resolved(c)
            /\ binding' \in [scope : Scope, mismatch : {FALSE}]
        BY <3>1, <3>2
      <4>2. handed' = Append(handed, binding'.scope)
        BY <2>4, <4>1 DEF Move
      <4>3. /\ CanUpgrade(binding.scope, binding'.scope)
               = Session!CanUpgrade(binding.scope, binding'.scope)
            /\ CanBindGeneral(binding.scope, binding'.scope)
               = Session!CanBindGeneral(binding.scope, binding'.scope)
            /\ Session!Scope = Scope
        BY DEF Scope, Session!Scope, CanUpgrade, CanBindGeneral,
               Session!CanUpgrade, Session!CanBindGeneral
      <4> QED
        BY <3>1, <3>3, <4>1, <4>2, <4>3 DEF Session!Move
    <3> QED
      BY <3>4 DEF Session!Next
  <2>5. CASE LatchMismatch(c)
    <3>1. Session!Latch
      BY <2>1, <2>5, <2>r
         DEF LatchMismatch, Refuse, Session!Latch, Session!NoScope, NoScope
    <3> QED
      BY <3>1 DEF Session!Next
  <2>6. CASE \/ RefuseLatched(c) \/ RefuseUnbound(c) \/ Enter(c) \/ ChooseRoot(c)
             \/ RefuseRootless(c) \/ RefuseUnresolved(c) \/ RefuseRestored(c)
    BY <2>6 DEF RefuseLatched, RefuseUnbound, Enter, ChooseRoot, RefuseRootless,
                RefuseUnresolved, RefuseRestored, Refuse, Session!vars
  <2> QED
    BY <1>1, <2>2, <2>3, <2>4, <2>5, <2>6 DEF CallStep
<1>2. CASE (\E c \in Calls : Ask(c)) \/ (\E d \in Dirs : SetMarker(d)) \/ ChangeUser
           \/ UNCHANGED vars
  BY <1>2 DEF Ask, SetMarker, ChangeUser, vars, Session!vars
<1> QED
  BY <1>1, <1>2 DEF Next

\* For any calls, directories and markers the resolver implements SessionScope.
THEOREM ResolverLinearizes == Spec => Linearizes
<1>1. Init => Session!Init
  BY DEF Init, Session!Init, Unbound, Session!Unbound, NoScope, Session!NoScope
<1>2. SessionInv /\ [Next]_vars => [Session!Next]_(Session!vars)
  BY StepMapsToStep
<1> QED
  BY <1>1, <1>2, ResolutionsExclude, PTL DEF Spec, Linearizes, Session!Spec

-----------------------------------------------------------------------------
(* What SessionScope promises.                                              *)

\* What was handed out is what the binding is, or was allowed to move away from.
PromiseInv ==
  /\ binding \in Session!Binding
  /\ handed \in Seq(Session!Scope)
  /\ binding.scope = Session!NoScope => handed = <<>>
  /\ Session!HandedAgree

LEMMA NoScopeOfPromise == Session!NoScope \notin Session!Scope
  BY BasesAssumption DEF Session!NoScope, Session!Scope

\* Appending the scope that is bound afterwards keeps the earlier answers in agreement
\* if each of them agrees with it.
LEMMA HandOneMore ==
  ASSUME handed \in Seq(Session!Scope), NEW s \in Session!Scope,
         handed' = Append(handed, s), binding'.scope = s,
         \A k \in 1..Len(handed) :
           handed[k] = s \/ Session!CanUpgrade(handed[k], s) \/ Session!CanBindGeneral(handed[k], s)
  PROVE  handed' \in Seq(Session!Scope) /\ Session!HandedAgree'
<1>1. handed' \in Seq(Session!Scope) /\ Len(handed') = Len(handed) + 1
  OBVIOUS
<1>2. ASSUME NEW k \in 1..Len(handed')
      PROVE  \/ handed'[k] = s
             \/ Session!CanUpgrade(handed'[k], s) \/ Session!CanBindGeneral(handed'[k], s)
  <2>1. CASE k = Len(handed) + 1
    BY <2>1
  <2>2. CASE k \in 1..Len(handed)
    BY <2>2
  <2> QED
    BY <1>1, <2>1, <2>2
<1> QED
  BY <1>1, <1>2 DEF Session!HandedAgree, Session!CanUpgrade, Session!CanBindGeneral

LEMMA PromiseStep == PromiseInv /\ [Session!Next]_(Session!vars) => PromiseInv'
<1> SUFFICES ASSUME PromiseInv, [Session!Next]_(Session!vars) PROVE PromiseInv'
  OBVIOUS
<1> USE DEF PromiseInv
<1>1. CASE Session!Bind
  <2>1. binding' \in Session!Binding /\ binding'.scope \in Session!Scope
    BY <1>1 DEF Session!Bind, Session!Binding
  <2>2. handed' = <<binding'.scope>>
    BY <1>1 DEF Session!Bind
  <2>3. Session!HandedAgree'
    BY <2>2 DEF Session!HandedAgree
  <2> QED
    BY <2>1, <2>2, <2>3, NoScopeOfPromise
<1>2. CASE Session!Confirm
  <2>1. binding' = binding /\ binding.scope \in Session!Scope /\ handed' = Append(handed, binding.scope)
    BY <1>2 DEF Session!Confirm, Session!Binding
  <2>2. handed' \in Seq(Session!Scope) /\ Session!HandedAgree'
    BY <2>1, HandOneMore DEF Session!HandedAgree
  <2> QED
    BY <2>1, <2>2, NoScopeOfPromise
<1>3. CASE Session!Move
  <2>1. binding' \in Session!Binding /\ binding'.scope \in Session!Scope
        /\ handed' = Append(handed, binding'.scope)
    BY <1>3 DEF Session!Move, Session!Binding
  <2>2. ASSUME NEW k \in 1..Len(handed)
        PROVE  \/ handed[k] = binding'.scope
               \/ Session!CanUpgrade(handed[k], binding'.scope)
               \/ Session!CanBindGeneral(handed[k], binding'.scope)
    BY <1>3 DEF Session!Move, Session!HandedAgree, Session!CanUpgrade, Session!CanBindGeneral
  <2>3. handed' \in Seq(Session!Scope) /\ Session!HandedAgree'
    BY <2>1, <2>2, HandOneMore
  <2> QED
    BY <2>1, <2>3, NoScopeOfPromise
<1>4. CASE Session!Latch
  BY <1>4 DEF Session!Latch, Session!Binding, Session!HandedAgree, Session!CanUpgrade,
              Session!CanBindGeneral
<1>5. CASE UNCHANGED Session!vars
  BY <1>5 DEF Session!vars, Session!HandedAgree, Session!CanUpgrade, Session!CanBindGeneral
<1> QED
  BY <1>1, <1>2, <1>3, <1>4, <1>5 DEF Session!Next

LEMMA PromiseInit == Session!Init => PromiseInv
  BY DEF Session!Init, PromiseInv, Session!Unbound, Session!Binding, Session!HandedAgree

\* Whatever does as SessionScope says, its answers agree on one workspace.
THEOREM PromiseAgrees == Session!Spec => []Session!HandedAgree
<1>1. PromiseInv => Session!HandedAgree
  BY DEF PromiseInv
<1> QED
  BY <1>1, PromiseInit, PromiseStep, PTL DEF Session!Spec

\* The resolver's answers agree, whatever requests, directories and base users: every
\* scope handed out is the bound one or one that it was allowed to replace.
THEOREM AnswersAgree == Spec => []Session!HandedAgree
  BY ResolverLinearizes, PromiseAgrees, PTL DEF Linearizes

\* After a mismatch no scope is handed out until another base user is bound.
THEOREM MismatchStays == Spec => Session!MismatchFinal
<1>1. [Session!Next]_(Session!vars)
        => [binding.mismatch /\ handed' # handed
              => binding'.scope.base # binding.scope.base]_(Session!vars)
  BY DEF Session!Next, Session!Bind, Session!Confirm, Session!Move, Session!Latch
<1> QED
  BY <1>1, ResolverLinearizes, PTL DEF Linearizes, Session!Spec, Session!MismatchFinal

-----------------------------------------------------------------------------
(* While .git stays as it is.                                               *)

\* What a resolution yields, a resolution of its root yields again.
Genuine(dk, s) ==
  \E d \in Dirs \cup {NoDir, Gone}, p \in BOOLEAN : s = ResolveScope(dk, d, p, s.base)

\* The bound scope is of the disk as it is.
SteadyScope == steady /\ binding.scope # NoScope => Genuine(disk, binding.scope)

\* A call under way works on the binding it found.
WorksOnBinding(c) ==
  call[c].phase \in {"rooting", "resolving"} /\ call[c].found => call[c].bound = binding.scope

\* It would choose its root again.
RootStays(c) ==
  steady /\ call[c].phase = "resolving" =>
    call[c].root = RootOf(c) /\ call[c].projectless = Projectless(c)

SteadyInv == SteadyScope /\ \A c \in Calls : WorksOnBinding(c) /\ RootStays(c)

\* The nearest marked directory is its own nearest.
LEMMA NearestOfNearest ==
  ASSUME NEW dk \in [Dirs -> Marker], NEW d \in Dirs, Marked(dk, d) # {}
  PROVE  LET e == Nearest(dk, d) IN Marked(dk, e) # {} /\ Nearest(dk, e) = e
<1> DEFINE e == Nearest(dk, d)
<1>1. e \in Marked(dk, d) /\ e \in Dirs
  BY NearestMarked
<1> HIDE DEF e
<1>2. e \in Marked(dk, e)
  BY <1>1, DirsAssumption DEF Marked
<1>3. \A f \in Marked(dk, e) : <<e, f>> \in Inside
  BY DEF Marked
<1>4. \A f \in Marked(dk, e) : (\A g \in Marked(dk, e) : <<f, g>> \in Inside) => f = e
  <2>1. \A f \in Marked(dk, e) : f \in Dirs
    BY DEF Marked
  <2> QED
    BY <1>1, <1>2, <1>3, <2>1, DirsAssumption
<1>5. Nearest(dk, e) = e
  BY <1>2, <1>3, <1>4 DEF Nearest
<1> QED
  BY <1>2, <1>5 DEF e
\* What a directory under some .git resolves to.
LEMMA MarkedResolve ==
  ASSUME NEW dk, NEW d \in Dirs, NEW p, NEW b, Marked(dk, d) # {}
  PROVE  ResolveScope(dk, d, p, b) =
           CASE dk[Nearest(dk, d)].kind = "repository" -> GitScope(b, dk[Nearest(dk, d)], Nearest(dk, d))
             [] dk[Nearest(dk, d)].kind = "broken" -> FolderScope(b, Nearest(dk, d), TRUE)
             [] OTHER -> NoScope
<1>1. ResolveScope(dk, d, p, b) = DirScope(dk, d, p, b)
  BY DirsAssumption DEF ResolveScope
<1>2. DirScope(dk, d, p, b) =
        CASE dk[Nearest(dk, d)].kind = "repository" -> GitScope(b, dk[Nearest(dk, d)], Nearest(dk, d))
          [] dk[Nearest(dk, d)].kind = "broken" -> FolderScope(b, Nearest(dk, d), TRUE)
          [] OTHER -> NoScope
  BY Zenon DEF DirScope
<1> QED
  BY <1>1, <1>2, Zenon

\* A folder or General scope is resolved again from its root; Git, and the folder of a
\* broken .git, is found again from every directory it contains, whatever the kind.
LEMMA ResolvesAgain ==
  ASSUME NEW dk \in [Dirs -> Marker], NEW s \in Scope, Genuine(dk, s),
         NEW q \in BOOLEAN, NEW f
  PROVE  /\ f = s.root /\ (s.kind = "git" \/ s.degraded \/ (q <=> s.kind = "general")) =>
              ScopesMatch(s, ResolveScope(dk, f, q, s.base))
         /\ f \in Dirs /\ (s.kind = "git" \/ s.degraded) /\ ContainsWorkspace(dk, s, f) =>
              ScopesMatch(s, ResolveScope(dk, f, q, s.base))
<1> DEFINE b == s.base
<1>1. PICK d \in Dirs \cup {NoDir, Gone}, p \in BOOLEAN : s = ResolveScope(dk, d, p, b)
  BY DEF Genuine
<1>2. s # NoScope
  BY NoScopeIsNone
<1> HIDE DEF b
<1>3. CASE d \in Dirs /\ Marked(dk, d) = {}
  <2>0. \A r \in BOOLEAN : ResolveScope(dk, d, r, b) = IF r THEN GeneralScope(b, d) ELSE FolderScope(b, d, FALSE)
    BY <1>3, DirsAssumption DEF ResolveScope, DirScope
  <2>1. s = IF p THEN GeneralScope(b, d) ELSE FolderScope(b, d, FALSE)
    BY <1>1, <2>0
  <2>2. s.root = d /\ s.kind # "git" /\ ~s.degraded /\ (s.kind = "general" <=> p)
    BY <2>1 DEF GeneralScope, FolderScope
  <2>3. f = s.root /\ (q <=> s.kind = "general") => ResolveScope(dk, f, q, b) = s
    BY <2>0, <2>1, <2>2
  <2> QED
    BY <2>2, <2>3 DEF ScopesMatch, b
<1>4. CASE d \in Dirs /\ Marked(dk, d) # {}
  <2> DEFINE e == Nearest(dk, d)
  <2>1. e \in Dirs /\ Marked(dk, e) # {} /\ Nearest(dk, e) = e
    BY <1>4, NearestMarked, NearestOfNearest
  <2>2. s = CASE dk[e].kind = "repository" -> GitScope(b, dk[e], e)
              [] dk[e].kind = "broken" -> FolderScope(b, e, TRUE)
              [] OTHER -> NoScope
    BY <1>1, <1>4, MarkedResolve
  <2> HIDE DEF e
  <2>3. s.root = e
    BY <1>2, <2>2 DEF GitScope, FolderScope
  <2>4. ResolveScope(dk, e, q, b) =
              CASE dk[e].kind = "repository" -> GitScope(b, dk[e], e)
                [] dk[e].kind = "broken" -> FolderScope(b, e, TRUE)
                [] OTHER -> NoScope
    BY <2>1, MarkedResolve
  <2>5. f = s.root => ResolveScope(dk, f, q, b) = s
    BY <2>2, <2>3, <2>4
  <2>6. ASSUME f \in Dirs, s.kind = "git", ContainsWorkspace(dk, s, f)
        PROVE  ScopesMatch(s, ResolveScope(dk, f, q, b))
    <3>1. Marked(dk, f) # {} /\ dk[Nearest(dk, f)] = Repository(s.id, s.name)
      BY <2>6 DEF ContainsWorkspace
    <3> DEFINE g == Nearest(dk, f)
    <3>2. ResolveScope(dk, f, q, b) =
              CASE dk[g].kind = "repository" -> GitScope(b, dk[g], g)
                [] dk[g].kind = "broken" -> FolderScope(b, g, TRUE)
                [] OTHER -> NoScope
      BY <2>6, <3>1, MarkedResolve
    <3> HIDE DEF g
    <3>3. dk[g].kind = "repository" /\ dk[g].common = s.id /\ dk[g].name = s.name
      BY <3>1 DEF Repository, g
    <3>4. ResolveScope(dk, f, q, b) = GitScope(b, dk[g], g)
      BY <3>2, <3>3
    <3>5. s.degraded = FALSE
      BY <1>2, <2>2, <2>6 DEF GitScope, FolderScope
    <3> DEFINE t == GitScope(b, dk[g], g)
    <3>6. t.base = s.base /\ t.kind = "git" /\ t.id = s.id /\ t.name = s.name /\ t.degraded = FALSE
      BY <3>3 DEF GitScope, b
    <3> HIDE DEF t
    <3>7. ScopesMatch(s, t)
      BY <2>6, <3>5, <3>6 DEF ScopesMatch
    <3> QED
      BY <3>4, <3>7 DEF t
  <2>7. ASSUME f \in Dirs, s.degraded, ContainsWorkspace(dk, s, f)
        PROVE  ScopesMatch(s, ResolveScope(dk, f, q, b))
    <3>1. dk[e].kind = "broken" /\ s = FolderScope(b, e, TRUE)
      BY <1>2, <2>2, <2>7 DEF GitScope
    <3>2. Marked(dk, f) # {} /\ Nearest(dk, f) = e
      BY <2>7, <3>1 DEF ContainsWorkspace, FolderScope
    <3>3. ResolveScope(dk, f, q, b) =
              CASE dk[e].kind = "repository" -> GitScope(b, dk[e], e)
                [] dk[e].kind = "broken" -> FolderScope(b, e, TRUE)
                [] OTHER -> NoScope
      BY <2>7, <3>2, MarkedResolve
    <3> QED
      BY <3>1, <3>3 DEF ScopesMatch
  <2> QED
    BY <2>5, <2>6, <2>7 DEF ScopesMatch, b
<1>5. CASE d \notin Dirs
  <2>1. d = NoDir /\ p /\ s = GeneralScope(b, NoDir)
    BY <1>1, <1>2, <1>5 DEF ResolveScope
  <2>2. s.kind # "git" /\ ~s.degraded /\ s.kind = "general" /\ s.root = NoDir
    BY <2>1 DEF GeneralScope
  <2>3. f = s.root /\ q => ResolveScope(dk, f, q, b) = s
    BY <1>5, <2>1, <2>2 DEF ResolveScope
  <2> QED
    BY <2>2, <2>3 DEF ScopesMatch, b
<1> QED
  BY <1>3, <1>4, <1>5

\* What a step does to its call, and to the binding.
LEMMA CallStepIs ==
  ASSUME SessionInv, NEW c \in Calls, CallStep(c)
  PROVE  /\ Enter(c) \/ ChooseRoot(c) \/ call'[c].phase \in {"ok", "refused"}
         /\ \/ binding'.scope = binding.scope
            \/ binding'.scope = Resolved(c) /\ call[c].phase = "resolving"
         /\ disk' = disk /\ MyTurn(c)
         /\ \A d \in Calls : d # c => call'[d] = call[d]
<1>1. call \in [Calls -> Call] /\ binding \in [scope : Scope \cup {NoScope}, mismatch : BOOLEAN]
  BY DEF SessionInv, TypeOK
<1>2. MyTurn(c)
  BY DEF CallStep, RefuseLatched, RefuseUnbound, Enter, ChooseRoot, RefuseRootless,
     RefuseUnresolved, RefuseRestored, Bind, Confirm, Move, LatchMismatch, SessionInv, OneAtATime
<1>3. /\ Enter(c) \/ ChooseRoot(c) \/ Refuse(c) \/ Answer(c)
      /\ \/ binding' = binding \/ binding' = [binding EXCEPT !.mismatch = TRUE]
         \/ /\ call[c].phase = "resolving"
            /\ \/ binding' = [scope |-> Resolved(c), mismatch |-> FALSE]
               \/ binding' = [binding EXCEPT !.scope = Resolved(c)]
  BY DEF CallStep, RefuseLatched, RefuseUnbound, Enter, ChooseRoot, RefuseRootless,
     RefuseUnresolved, RefuseRestored, Bind, Confirm, Move, LatchMismatch
<1>4. binding'.scope = binding.scope \/ (binding'.scope = Resolved(c) /\ call[c].phase = "resolving")
  BY <1>1, <1>3
<1>5. CASE Refuse(c) \/ Answer(c)
  <2>1. call' = [call EXCEPT ![c].phase = "refused"] \/ call' = [call EXCEPT ![c].phase = "ok"]
    BY <1>5 DEF Refuse, Answer
  <2>2. call'[c].phase \in {"ok", "refused"} /\ \A d \in Calls : d # c => call'[d] = call[d]
    BY <1>1, <2>1 DEF Call
  <2>3. disk' = disk
    BY <1>5 DEF Refuse, Answer
  <2> QED
    BY <1>2, <1>4, <2>2, <2>3
<1>6. CASE Enter(c) \/ ChooseRoot(c)
  <2>1. disk' = disk /\ \A d \in Calls : d # c => call'[d] = call[d]
    BY <1>1, <1>6 DEF Enter, ChooseRoot
  <2> QED
    BY <1>2, <1>4, <1>6, <2>1
<1> QED
  BY <1>3, <1>5, <1>6

LEMMA SteadyCallStep ==
  ASSUME SessionInv, SteadyInv, NEW c \in Calls, CallStep(c), steady' = steady
  PROVE  SteadyInv'
<1>1. /\ disk' = disk /\ MyTurn(c)
      /\ \A d \in Calls : d # c => call'[d] = call[d]
  BY CallStepIs
<1>2. \A d \in Calls : d # c => call'[d].phase \notin {"rooting", "resolving"}
  BY <1>1, Alone
<1>3. \A d \in Calls : d # c => WorksOnBinding(d)' /\ RootStays(d)'
  BY <1>2 DEF WorksOnBinding, RootStays
<1>4. call \in [Calls -> Call] /\ disk \in [Dirs -> Marker]
  BY DEF SessionInv, TypeOK
<1>5. SteadyScope'
  <2>1. CASE binding'.scope = binding.scope
    BY <1>1, <2>1 DEF SteadyInv, SteadyScope
  <2>2. CASE binding'.scope = Resolved(c) /\ call[c].phase = "resolving" /\ Resolved(c) # NoScope
    <3>1. Resolved(c).base = call[c].base
      BY <2>2, ResolvedType
    <3>2. call[c].root \in Dirs \cup {NoDir, Gone} /\ call[c].projectless \in BOOLEAN
      BY <1>4 DEF Call
    <3>3. Genuine(disk, Resolved(c))
      BY <3>1, <3>2 DEF Genuine, Resolved
    <3> QED
      BY <1>1, <2>2, <3>3 DEF SteadyScope
  <2>3. CASE binding'.scope = NoScope
    BY <2>3 DEF SteadyScope
  <2> QED
    BY <2>1, <2>2, <2>3, CallStepIs
<1>6. CASE Enter(c)
  <2>1. /\ call'[c].phase = "rooting" /\ (call'[c].found => call'[c].bound = binding.scope)
        /\ binding' = binding
    BY <1>4, <1>6 DEF Enter, Call
  <2>2. WorksOnBinding(c)' /\ RootStays(c)'
    BY <2>1 DEF WorksOnBinding, RootStays
  <2> QED
    BY <1>3, <1>5, <2>2 DEF SteadyInv
<1>7. CASE ChooseRoot(c)
  <2>1. /\ call'[c] = [call[c] EXCEPT !.phase = "resolving", !.root = RootOf(c),
                                    !.projectless = Projectless(c)]
        /\ binding' = binding /\ call[c].phase = "rooting"
    BY <1>4, <1>7 DEF ChooseRoot
  <2>2. call'[c].asked = call[c].asked /\ call'[c].bound = call[c].bound /\ call'[c].found = call[c].found
        /\ call'[c].root = RootOf(c) /\ call'[c].projectless = Projectless(c)
    BY <1>4, <2>1 DEF Call
  <2>3. RootOf(c)' = RootOf(c) /\ Projectless(c)' = Projectless(c)
    BY <1>1, <2>2 DEF RootOf, Projectless, KeepsRoot, ContainsWorkspace, Marked, Nearest
  <2>4. call'[c].root = RootOf(c)' /\ call'[c].projectless = Projectless(c)'
    BY <2>2, <2>3
  <2>5. RootStays(c)'
    BY <2>4 DEF RootStays
  <2>6. WorksOnBinding(c)'
    BY <2>1, <2>2 DEF SteadyInv, WorksOnBinding
  <2> QED
    BY <1>3, <1>5, <2>5, <2>6 DEF SteadyInv
<1>8. CASE call'[c].phase \in {"ok", "refused"}
  <2>1. WorksOnBinding(c)' /\ RootStays(c)'
    BY <1>8 DEF WorksOnBinding, RootStays
  <2> QED
    BY <1>3, <1>5, <2>1 DEF SteadyInv
<1> QED
  BY <1>6, <1>7, <1>8, CallStepIs

LEMMA SteadyOutside ==
  ASSUME SessionInv, SteadyInv, steady' = steady, steady => disk' = disk,
         (\E c \in Calls : Ask(c)) \/ (\E d \in Dirs : SetMarker(d)) \/ ChangeUser
         \/ UNCHANGED vars
  PROVE  SteadyInv'
<1>1. call \in [Calls -> Call] /\ binding' = binding
  BY DEF SessionInv, TypeOK, Ask, SetMarker, ChangeUser, vars
<1>2. ASSUME NEW c \in Calls PROVE call'[c].phase = "queued" \/ call'[c] = call[c]
  <2>1. ASSUME NEW d \in Calls, Ask(d) PROVE call'[c].phase = "queued" \/ call'[c] = call[c]
    <3>1. PICK r \in Requests :
            call' = [call EXCEPT ![d].phase = "queued", ![d].base = user, ![d].asked = r]
      BY <2>1 DEF Ask
    <3>2. call'[d].phase = "queued"
      BY <1>1, <3>1 DEF Call
    <3>3. d # c => call'[c] = call[c]
      BY <1>1, <3>1
    <3> QED
      BY <3>2, <3>3
  <2>2. CASE (\E d \in Dirs : SetMarker(d)) \/ ChangeUser \/ UNCHANGED vars
    BY <2>2 DEF SetMarker, ChangeUser, vars
  <2> QED
    BY <2>1, <2>2
<1>3. ASSUME NEW c \in Calls PROVE WorksOnBinding(c)' /\ RootStays(c)'
  <2>1. CASE call'[c].phase = "queued"
    BY <2>1 DEF WorksOnBinding, RootStays
  <2>2. CASE call'[c] = call[c]
    <3>1. WorksOnBinding(c)'
      BY <1>1, <2>2 DEF SteadyInv, WorksOnBinding
    <3>2. steady => RootOf(c)' = RootOf(c) /\ Projectless(c)' = Projectless(c)
      BY <2>2 DEF RootOf, Projectless, KeepsRoot, ContainsWorkspace, Marked, Nearest
    <3>3. RootStays(c)'
      <4>1. RootStays(c)
        BY DEF SteadyInv
      <4> QED
        BY <2>2, <3>2, <4>1 DEF RootStays
    <3> QED
      BY <3>1, <3>3
  <2> QED
    BY <1>2, <2>1, <2>2
<1>4. SteadyScope'
  BY <1>1 DEF SteadyInv, SteadyScope
<1> QED
  BY <1>3, <1>4 DEF SteadyInv

LEMMA SteadyStep == SessionInv /\ SteadyInv /\ [SteadyNext]_allVars => SteadyInv'
<1> SUFFICES ASSUME SessionInv, SteadyInv, [SteadyNext]_allVars PROVE SteadyInv'
  OBVIOUS
<1>1. [Next]_vars /\ steady' = steady /\ (steady => disk' = disk)
  BY DEF SteadyNext, allVars, vars
<1> QED
  BY <1>1, SteadyCallStep, SteadyOutside DEF Next

LEMMA SteadyBegins == SteadyInit => SteadyInv
<1> SUFFICES ASSUME SteadyInit PROVE SteadyInv
  OBVIOUS
<1>1. binding.scope = NoScope
  BY DEF SteadyInit, Init, Unbound
<1>2. \A c \in Calls : call[c].phase = "idle"
  BY DEF SteadyInit, Init
<1> QED
  BY <1>1, <1>2 DEF SteadyInv, SteadyScope, WorksOnBinding, RootStays
\* A mismatch is latched by a hook that names another workspace, not by one that runs
\* inside the bound one.
LEMMA InsideIsKept ==
  ASSUME SessionInv, SteadyInv, steady PROVE InsideKeepsScope
<1> SUFFICES ASSUME NEW c \in Calls, LatchMismatch(c),
                    Belongs(call[c].asked.root), ~Reclassifies(call[c].asked.kind)
             PROVE  FALSE
  BY DEF InsideKeepsScope
<1> DEFINE s == binding.scope
<1>1. call[c].phase = "resolving" /\ call[c].found /\ ~ScopesMatch(s, Resolved(c))
  BY DEF LatchMismatch
<1>2. call[c].bound = s /\ call[c].root = RootOf(c) /\ call[c].projectless = Projectless(c)
  BY <1>1 DEF SteadyInv, WorksOnBinding, RootStays
<1>3. Cached(c) /\ call[c].base \in Bases
  BY <1>1 DEF SessionInv, OneAtATime, AskedUser
<1>4. s # NoScope /\ s \in Scope /\ s.base = call[c].base
  BY <1>3, NoScopeIsNone, BasesAssumption DEF Cached, SessionInv, TypeOK
<1>5. disk \in [Dirs -> Marker] /\ Genuine(disk, s)
  BY <1>4 DEF SessionInv, TypeOK, SteadyInv, SteadyScope
<1>6. call[c].projectless \in BOOLEAN
  BY DEF SessionInv, TypeOK, Call
<1>0. call[c].asked.kind \in Kinds /\ s.kind \in {"git", "folder", "general"}
  BY <1>4, RequestsAssumption DEF SessionInv, TypeOK, Call, Scope
<1>7. s.kind = "git" \/ s.degraded \/ (call[c].projectless <=> s.kind = "general")
  BY <1>0, <1>2, <1>6 DEF Projectless, Reclassifies, Kinds
<1>8. Resolved(c) = ResolveScope(disk, call[c].root, call[c].projectless, s.base)
  BY <1>4 DEF Resolved
<1> HIDE DEF s
<1>9. CASE call[c].root = s.root
  <2>1. ScopesMatch(s, ResolveScope(disk, call[c].root, call[c].projectless, s.base))
    BY <1>4, <1>5, <1>6, <1>7, <1>9, ResolvesAgain
  <2> QED
    BY <1>1, <1>8, <2>1
<1>10. CASE call[c].root # s.root
  <2>1. /\ call[c].root = call[c].asked.root /\ call[c].asked.root # NoDir /\ ~KeepsRoot(c)
    BY <1>2, <1>10 DEF RootOf
  <2>2. ContainsWorkspace(disk, s, call[c].root)
    BY <2>1 DEF Belongs, s
  <2>3. s.kind = "git" \/ s.degraded
    BY <1>0, <1>2, <2>1, <2>2 DEF KeepsRoot, Reclassifies, Kinds, s
  <2>4. call[c].root \in Dirs
    BY <2>2 DEF ContainsWorkspace
  <2>5. ScopesMatch(s, ResolveScope(disk, call[c].root, call[c].projectless, s.base))
    BY <1>4, <1>5, <1>6, <2>2, <2>3, <2>4, ResolvesAgain
  <2> QED
    BY <1>1, <1>8, <2>5
<1> QED
  BY <1>9, <1>10

\* While .git stays as it is, a hook from inside the bound workspace, however deep, never
\* costs the session its scope.
THEOREM NestedCallsAreKept == SteadySpec => NestedCallsKeepScope
<1>1. SteadyInit => Init
  BY DEF SteadyInit
<1>2. [SteadyNext]_allVars => [Next]_vars
  BY DEF SteadyNext, allVars, vars
<1>3. SessionInv /\ SteadyInv /\ [SteadyNext]_allVars => SteadyInv'
  BY SteadyStep
<1>4. SessionInv /\ SteadyInv /\ [SteadyNext]_allVars => [steady => InsideKeepsScope]_allVars
  BY InsideIsKept
<1> QED
  BY <1>1, <1>2, <1>3, <1>4, SteadyBegins, SessionInit, SessionStep, PTL
     DEF SteadySpec, NestedCallsKeepScope
=============================================================================
