------------------------------ MODULE OrgsProofs ------------------------------
(***************************************************************************)
(* What Orgs guarantees for any slots, names, slugs, projects and bounds.  *)
(***************************************************************************)
EXTENDS Orgs, TLAPS

-----------------------------------------------------------------------------
(* The inductive invariant behind the properties.                          *)

\* An organisation is made ordinary only where others have been counted.
OrdinaryIsLater ==
    \A a \in Actors : op[a].pc \in {"probe", "insert"} /\ ~op[a].asDefault
                        => orgs # <<>>

\* A wizard creates a default organisation or none, and does nothing else.
WizardCreatesDefault ==
    \A a \in Actors : op[a].kind = "init" =>
        /\ a # Server
        /\ op[a].pc \in {"check", "master", "ensure", "count", "probe", "insert"}
        /\ op[a].pc \in {"count", "probe", "insert"} => op[a].asDefault

OrgsInv == InitializedHasDefault /\ OrdinaryIsLater /\ WizardCreatesDefault

-----------------------------------------------------------------------------
(* 1. Types.                                                               *)

\* The constants' assumption, where its parts are needed.
LEMMA Constant ==
    /\ Server \notin Procs /\ Kinds \subseteq AllKinds
    /\ EnvName \in Names /\ EnvEmail \in Emails
    /\ \A n \in Names : Candidates[n] \in Seq(Slugs) /\ Candidates[n] # <<>>
BY OrgsAssumption

\* The states of a slot without a call and of a bootstrap are well typed.
LEMMA ValuesTyped == Idle \in Calls /\ Boot \in Calls
BY OrgsAssumption DEF Idle, Boot, Calls, Locals, ProjectPcs, NamePcs, AllKinds, None

\* Moving a slot keeps op well typed when its new call is.
LEMMA BecomeTyped ==
    ASSUME NEW a, NEW o \in Calls, op \in [Actors -> Calls], Become(a, o)
    PROVE  op' \in [Actors -> Calls]
BY DEF Become

\* A call that fails or is refused leaves op well typed.
LEMMA StopTyped ==
    ASSUME NEW a, op \in [Actors -> Calls], Stop(a)
    PROVE  op' \in [Actors -> Calls]
BY ValuesTyped DEF Stop, Become

\* The default organisation is one of the organisations, or none.
LEMMA DefaultTyped ==
    ASSUME orgs \in Seq([slug: Slugs, isDefault: BOOLEAN])
    PROVE  DefaultOrg \in Nat
<1>1. OrgIds \subseteq Nat /\ None \in Nat
  BY DEF OrgIds, None
<1>2. CASE HasDefault
  <2>1. (CHOOSE o \in OrgIds : IsDefault(o)) \in OrgIds
    BY <1>2 DEF HasDefault
  <2>2. QED
    BY <1>1, <1>2, <2>1 DEF DefaultOrg
<1>3. QED
  BY <1>1, <1>2 DEF DefaultOrg

\* Only calls of the kinds allowed arrive.
LEMMA Permitted == \A p, k, o : Begin(p, k, o) => k \in AllKinds
BY Constant DEF Begin

\* The locals a call arrives with.
Carries(k, o) ==
    /\ o \in Locals
    /\ k \in {"init", "org"} => o.name \in Names
    /\ k = "init" => o.email \in Emails
    /\ k \in {"create", "cli", "destroy"} => o.project \in Projects

\* A call arrives with the locals of its kind.
LEMMA ArriveForm ==
    ASSUME NEW p \in Procs, Arrive(p)
    PROVE  \E k \in AllKinds, o \in Locals : Carries(k, o) /\ Begin(p, k, o)
<1> USE DEF Carries
<1>1. Idle \in Locals
  BY ValuesTyped DEF Calls
<1>2. CASE \E n \in Names : Begin(p, "org", [Idle EXCEPT !.name = n])
  <2>1. PICK n \in Names : Begin(p, "org", [Idle EXCEPT !.name = n])
    BY <1>2
  <2>2. [Idle EXCEPT !.name = n] \in Locals
        /\ [Idle EXCEPT !.name = n].name = n
    BY <1>1 DEF Locals
  <2>3. QED
    BY <2>1, <2>2, Permitted
<1>3. CASE \E n \in Names, e \in Emails :
             Begin(p, "init", [Idle EXCEPT !.name = n, !.email = e])
  <2>1. PICK n \in Names, e \in Emails :
             Begin(p, "init", [Idle EXCEPT !.name = n, !.email = e])
    BY <1>3
  <2>2. [Idle EXCEPT !.name = n, !.email = e] \in Locals
        /\ [Idle EXCEPT !.name = n, !.email = e].email = e
        /\ [Idle EXCEPT !.name = n, !.email = e].name = n
    BY <1>1 DEF Locals
  <2>3. QED
    BY <2>1, <2>2, Permitted
<1>4. CASE \E x \in Projects, o \in OrgIds \cup {None} :
             Begin(p, "create", [Idle EXCEPT !.project = x, !.org = o])
  <2>1. PICK x \in Projects, o \in OrgIds \cup {None} :
             Begin(p, "create", [Idle EXCEPT !.project = x, !.org = o])
    BY <1>4
  <2>2. o \in Nat
    BY DEF OrgIds, None
  <2>3. [Idle EXCEPT !.project = x, !.org = o] \in Locals
        /\ [Idle EXCEPT !.project = x, !.org = o].project = x
    BY <1>1, <2>2 DEF Locals
  <2>4. QED
    BY <2>1, <2>3, Permitted
<1>5. CASE \E x \in Projects, k \in {"cli", "destroy"} :
             Begin(p, k, [Idle EXCEPT !.project = x])
  <2>1. PICK x \in Projects, k \in {"cli", "destroy"} :
             Begin(p, k, [Idle EXCEPT !.project = x])
    BY <1>5
  <2>2. [Idle EXCEPT !.project = x] \in Locals
        /\ [Idle EXCEPT !.project = x].project = x
    BY <1>1 DEF Locals
  <2>3. QED
    BY <2>1, <2>2, Permitted
<1>6. QED
  BY <1>2, <1>3, <1>4, <1>5 DEF Arrive

\* What a call is when it has arrived.
LEMMA ArriveStep ==
    ASSUME TypeOK, NEW p \in Procs, Arrive(p)
    PROVE  \E c \in Calls :
             /\ Become(p, c) /\ calls' = calls + 1
             /\ UNCHANGED <<orgs, masters, registered, owner, env, ensuring, failures>>
             /\ c.pc \in {"check", "count", "lookup", "lookupAgain", "forget"}
             /\ c.kind = "init" => c.pc = "check"
<1>1. PICK k \in AllKinds, o \in Locals : Carries(k, o) /\ Begin(p, k, o)
  BY ArriveForm
<1>2. FirstPc(k) = IF k = "init" THEN "check" ELSE IF k = "org" THEN "count"
                   ELSE IF k = "create" THEN "lookup"
                   ELSE IF k = "cli" THEN "lookupAgain" ELSE "forget"
  BY DEF FirstPc, AllKinds
<1> DEFINE c == [o EXCEPT !.kind = k, !.pc = FirstPc(k)]
<1>3. c \in Calls
  BY <1>1, <1>2 DEF Calls, Locals, NamePcs, ProjectPcs, AllKinds, Carries
<1>4. c.pc = FirstPc(k) /\ c.kind = k
  BY DEF Locals
<1>5. /\ Become(p, c) /\ calls' = calls + 1
      /\ UNCHANGED <<orgs, masters, registered, owner, env, ensuring, failures>>
  BY <1>1 DEF Begin, projects
<1> HIDE DEF c
<1>6. QED
  BY <1>2, <1>3, <1>4, <1>5 DEF AllKinds

\* An arrival keeps every type.
LEMMA ArriveTyped ==
    ASSUME TypeOK, NEW p \in Procs, Arrive(p)
    PROVE  TypeOK'
<1>1. PICK c \in Calls :
         /\ Become(p, c) /\ calls' = calls + 1
         /\ UNCHANGED <<orgs, masters, registered, owner, env, ensuring, failures>>
  BY ArriveStep
<1>2. op' \in [Actors -> Calls]
  BY <1>1, BecomeTyped DEF TypeOK
<1>3. QED
  BY <1>1, <1>2 DEF TypeOK

\* The steps of initSystem, createOrganization and the bootstrap.
LEMMA SetupTyped ==
    ASSUME TypeOK, NEW a \in Actors, SetupStep(a)
    PROVE  TypeOK'
<1> USE DEF TypeOK, projects, counters
<1>1. op[a] \in Calls /\ op[a] \in Locals
  BY DEF Calls
<1>2. ASSUME NEW pc \in {"master", "ensure", "probe"}, Goto(a, pc),
             op[a].name \in Names,
             pc = "master" => op[a].email \in Emails
      PROVE  op' \in [Actors -> Calls]
  <2>1. [op[a] EXCEPT !.pc = pc] \in Calls
    BY <1>1, <1>2 DEF Calls, Locals, NamePcs, ProjectPcs
  <2>2. QED
    BY <1>2, <2>1, BecomeTyped DEF Goto
<1>3. CASE InitCheck(a)
  <2>1. op[a].email \in Emails /\ op[a].name \in Names
    BY <1>1, <1>3 DEF InitCheck, At, Calls, NamePcs
  <2>2. op' \in [Actors -> Calls]
    BY <1>2, <1>3, <2>1, ValuesTyped, BecomeTyped DEF InitCheck
  <2>3. QED
    BY <1>3, <2>2 DEF InitCheck
<1>4. CASE InitMaster(a)
  <2>1. op[a].email \in Emails /\ op[a].name \in Names
    BY <1>1, <1>4 DEF InitMaster, At, Calls, NamePcs
  <2>2. op' \in [Actors -> Calls]
    BY <1>2, <1>4, <2>1 DEF InitMaster
  <2>3. QED
    BY <1>4, <2>1, <2>2 DEF InitMaster
<1>5. CASE EnsureDefault(a)
  <2>1. [op[a] EXCEPT !.pc = "count", !.asDefault = TRUE] \in Calls
    BY <1>1, <1>5 DEF EnsureDefault, At, Calls, Locals, NamePcs, ProjectPcs
  <2>2. [op[a] EXCEPT !.pc = "adopt", !.org = DefaultOrg] \in Calls
    BY <1>1, DefaultTyped DEF Calls, Locals, NamePcs, ProjectPcs
  <2>3. op' \in [Actors -> Calls]
    BY <1>5, <2>1, <2>2, ValuesTyped, BecomeTyped DEF EnsureDefault
  <2>4. QED
    BY <1>5, <2>3 DEF EnsureDefault
<1>6. CASE Count(a)
  <2>1. ASSUME NEW b \in BOOLEAN
        PROVE  [op[a] EXCEPT !.pc = "probe", !.asDefault = b] \in Calls
    BY <1>1, <1>6 DEF Count, At, Calls, Locals, NamePcs, ProjectPcs
  <2>2. (op[a].asDefault \/ orgs = <<>>) \in BOOLEAN
    OBVIOUS
  <2>3. [op[a] EXCEPT !.pc = "probe", !.asDefault = @ \/ orgs = <<>>] \in Calls
    BY <2>1, <2>2
  <2>4. op' \in [Actors -> Calls]
    BY <1>6, <2>3, BecomeTyped DEF Count
  <2>5. QED
    BY <1>6, <2>4 DEF Count
<1>7. CASE Probe(a)
  <2>1. PICK s \in Slugs : Become(a, [op[a] EXCEPT !.pc = "insert", !.slug = s])
    BY <1>7 DEF Probe
  <2>2. [op[a] EXCEPT !.pc = "insert", !.slug = s] \in Calls
    BY <1>1 DEF Calls, Locals, NamePcs, ProjectPcs
  <2>3. op' \in [Actors -> Calls]
    BY <2>1, <2>2, BecomeTyped
  <2>4. QED
    BY <1>7, <2>3 DEF Probe
<1>8. CASE Insert(a)
  <2>1. op[a].slug \in Slugs /\ op[a].asDefault \in BOOLEAN
    BY <1>1, <1>8 DEF Insert, At, Calls, Locals
  <2>2. orgs' \in Seq([slug: Slugs, isDefault: BOOLEAN])
    <3>1. [slug |-> op[a].slug, isDefault |-> op[a].asDefault]
            \in [slug: Slugs, isDefault: BOOLEAN]
      BY <2>1
    <3>2. QED
      BY <1>8, <3>1 DEF Insert
  <2>3. [op[a] EXCEPT !.pc = "adopt", !.org = Len(orgs) + 1] \in Calls
    <3>1. Len(orgs) + 1 \in Nat
      OBVIOUS
    <3>2. QED
      BY <1>1, <3>1 DEF Calls, Locals, NamePcs, ProjectPcs
  <2>4. op' \in [Actors -> Calls]
    BY <1>8, <2>3, ValuesTyped, BecomeTyped DEF Insert
  <2>5. QED
    BY <1>8, <2>2, <2>4 DEF Insert
<1>9. CASE Conflict(a) \/ NoSlug(a)
  <2>1. op' \in [Actors -> Calls]
    BY <1>9, StopTyped DEF Conflict, NoSlug
  <2>2. QED
    BY <1>9, <2>1 DEF Conflict, NoSlug
<1>10. QED
  BY <1>3, <1>4, <1>5, <1>6, <1>7, <1>8, <1>9 DEF SetupStep

\* The steps of a project's registration and removal.
LEMMA ProjectTyped ==
    ASSUME TypeOK, NEW p \in Procs, ProjectStep(p)
    PROVE  TypeOK'
<1> USE DEF TypeOK, projects, counters
<1>1. op[p] \in Calls /\ op[p] \in Locals
  BY DEF Actors, Calls
<1>2. op[p].project \in Projects /\ op[p].org \in Nat
  BY <1>1 DEF ProjectStep, Lookup, Register, LookupAgain, Save, Forget, At,
     Calls, Locals, NamePcs, ProjectPcs
<1>3. ASSUME NEW pc \in {"register", "lookupAgain", "save"}, NEW o \in Nat
      PROVE  [op[p] EXCEPT !.pc = pc, !.org = o] \in Calls
  BY <1>1, <1>2 DEF Calls, Locals, NamePcs, ProjectPcs
<1>4. ASSUME NEW x \in Projects, NEW o \in Nat, Upsert(x, o)
      PROVE  registered' \in SUBSET Projects /\ owner' \in [Projects -> Nat]
  BY <1>4 DEF Upsert
<1>5. CASE Lookup(p)
  <2> DEFINE w == IF op[p].org = None THEN DefaultOrg ELSE op[p].org
  <2>1. w \in Nat
    BY <1>2, DefaultTyped
  <2>2. op' \in [Actors -> Calls]
    BY <1>3, <1>5, <2>1, BecomeTyped DEF Lookup
  <2>3. QED
    BY <1>5, <2>2 DEF Lookup
<1>6. CASE Register(p)
  <2>1. [op[p] EXCEPT !.pc = "lookupAgain"] \in Calls
    BY <1>1, <1>2 DEF Calls, Locals, NamePcs, ProjectPcs
  <2>2. op' \in [Actors -> Calls]
    BY <1>6, <2>1, BecomeTyped DEF Register, Goto
  <2>3. registered' \in SUBSET Projects /\ owner' \in [Projects -> Nat]
    BY <1>2, <1>4, <1>6 DEF Register
  <2>4. QED
    BY <1>6, <2>2, <2>3 DEF Register
<1>7. CASE LookupAgain(p)
  <2>1. op' \in [Actors -> Calls]
    BY <1>3, <1>7, DefaultTyped, BecomeTyped DEF LookupAgain
  <2>2. QED
    BY <1>7, <2>1 DEF LookupAgain
<1>8. CASE Save(p)
  <2>1. op' \in [Actors -> Calls]
    BY <1>8, ValuesTyped, BecomeTyped DEF Save
  <2>2. registered' \in SUBSET Projects /\ owner' \in [Projects -> Nat]
    BY <1>2, <1>4, <1>8 DEF Save
  <2>3. QED
    BY <1>8, <2>1, <2>2 DEF Save
<1>9. CASE Forget(p)
  <2>1. op' \in [Actors -> Calls]
    BY <1>9, ValuesTyped, BecomeTyped DEF Forget
  <2>2. registered' \in SUBSET Projects /\ owner' \in [Projects -> Nat]
    BY <1>2, <1>9 DEF Forget, None
  <2>3. QED
    BY <1>9, <2>1, <2>2 DEF Forget
<1>10. QED
  BY <1>5, <1>6, <1>7, <1>8, <1>9 DEF ProjectStep

\* Every step keeps the type of every variable.
LEMMA TypeStep == TypeOK /\ [Next]_vars => TypeOK'
<1> SUFFICES ASSUME TypeOK, [Next]_vars PROVE TypeOK'
  OBVIOUS
<1> USE DEF TypeOK, projects, counters
<1>1. ASSUME NEW a \in Actors, Fail(a) PROVE TypeOK'
  <2>1. op' \in [Actors -> Calls]
    BY <1>1, StopTyped DEF Fail
  <2>2. QED
    BY <1>1, <2>1 DEF Fail
<1>2. CASE Adopt
  <2>1. op[Server] \in Locals
    BY DEF Actors, Calls
  <2>2. op[Server].org \in Nat
    BY <2>1 DEF Locals
  <2>3. owner' \in [Projects -> Nat]
    BY <1>2, <2>2 DEF Adopt
  <2>4. op' \in [Actors -> Calls]
    BY <1>2, ValuesTyped, BecomeTyped DEF Adopt
  <2>5. QED
    BY <1>2, <2>3, <2>4 DEF Adopt
<1>3. CASE EnsureMaster
  BY <1>3, Constant DEF EnsureMaster
<1>4. CASE Restart
  <2>1. op' \in [Actors -> Calls]
    BY <1>4, ValuesTyped DEF Restart
  <2>2. /\ failures' = failures + 1 /\ env' \in BOOLEAN /\ ensuring' = FALSE
        /\ UNCHANGED <<orgs, masters, registered, owner, calls>>
    BY <1>4 DEF Restart
  <2>3. failures' \in Nat
    BY <2>2
  <2>4. env' \in BOOLEAN /\ ensuring' \in BOOLEAN
    BY <2>2, Zenon
  <2>5. QED
    BY <2>1, <2>2, <2>3, <2>4
<1>5. CASE Quiet \/ UNCHANGED vars
  BY <1>5 DEF Quiet, vars
<1>6. QED
  BY <1>1, <1>2, <1>3, <1>4, <1>5, ArriveTyped, SetupTyped, ProjectTyped DEF Next

\* Every reachable state is well typed.
THEOREM OrgsTypeOK == Spec => []TypeOK
<1>1. Init => TypeOK
  <2>1. ASSUME Init PROVE TypeOK
    <3>1. op \in [Actors -> Calls]
      BY <2>1, ValuesTyped DEF Init
    <3>2. /\ orgs \in Seq([slug: Slugs, isDefault: BOOLEAN])
          /\ owner \in [Projects -> Nat]
      BY <2>1 DEF Init, None
    <3>3. QED
      BY <2>1, <3>1, <3>2 DEF Init, TypeOK
  <2>2. QED
    BY <2>1
<1>2. QED
  BY <1>1, TypeStep, PTL DEF Spec

-----------------------------------------------------------------------------
(* 2. The first organisation is the default.                               *)

\* Organisations are only ever added: each keeps its place and its default mark.
LEMMA Added ==
    ASSUME TypeOK, NEW o \in [slug: Slugs, isDefault: BOOLEAN],
           orgs' = Append(orgs, o)
    PROVE  /\ HasDefault \/ o.isDefault => HasDefault'
           /\ orgs' # <<>>
<1>1. /\ Len(orgs) \in Nat /\ Len(orgs') = Len(orgs) + 1
      /\ \A i \in 1 .. Len(orgs) : orgs'[i] = orgs[i]
      /\ orgs'[Len(orgs) + 1] = o
  BY DEF TypeOK
<1>2. ASSUME NEW i \in OrgIds, IsDefault(i) PROVE HasDefault'
  BY <1>1, <1>2 DEF OrgIds, IsDefault, HasDefault
<1>3. ASSUME o.isDefault PROVE HasDefault'
  BY <1>1, <1>3 DEF OrgIds, IsDefault, HasDefault
<1>4. orgs' # <<>>
  BY <1>1
<1>5. QED
  BY <1>2, <1>3, <1>4 DEF HasDefault

\* A taken slug, and a default, are some organisation's.
LEMMA Occupied ==
    /\ HasDefault => orgs # <<>>
    /\ Taken # {} => orgs # <<>>
BY DEF HasDefault, Taken, OrgIds

\* Steps that move one slot and leave the organisations alone keep the
\* invariant, if the slot's next step knows what it must.
LEMMA MoveKeeps ==
    ASSUME TypeOK, OrgsInv, UNCHANGED orgs, NEW a, NEW o, Become(a, o),
           o.pc \in {"probe", "insert"} /\ ~o.asDefault => orgs # <<>>,
           o.kind = "init" =>
             /\ a # Server
             /\ o.pc \in {"check", "master", "ensure", "count", "probe", "insert"}
             /\ o.pc \in {"count", "probe", "insert"} => o.asDefault
    PROVE  OrgsInv'
<1>1. \A b \in Actors : op'[b] = op[b] \/ (b = a /\ op'[b] = o)
  BY DEF TypeOK, Become
<1>2. InitializedHasDefault'
  BY DEF OrgsInv, InitializedHasDefault, HasDefault, OrgIds, IsDefault
<1>3. OrdinaryIsLater'
  BY <1>1 DEF OrgsInv, OrdinaryIsLater
<1>4. WizardCreatesDefault'
  BY <1>1 DEF OrgsInv, WizardCreatesDefault
<1>5. QED
  BY <1>2, <1>3, <1>4 DEF OrgsInv

\* A slot that ends its call, or is the bootstrap's, knows nothing.
LEMMA Quiescent ==
    /\ Idle.pc = "idle" /\ Idle.kind = "none"
    /\ Boot.pc = "ensure" /\ Boot.kind = "boot"
BY DEF Idle, Boot

\* Nothing but an insert changes the organisations; each other step moves its
\* slot on with what it has seen.
LEMMA SetupKeeps ==
    ASSUME TypeOK, OrgsInv, NEW a \in Actors, SetupStep(a)
    PROVE  OrgsInv'
<1>1. op[a] \in Locals /\ op \in [Actors -> Calls]
  BY DEF TypeOK, Calls
<1>2. op[a].kind = "init" =>
        /\ a # Server
        /\ op[a].pc \in {"check", "master", "ensure", "count", "probe", "insert"}
        /\ op[a].pc \in {"count", "probe", "insert"} => op[a].asDefault
  BY DEF OrgsInv, WizardCreatesDefault
<1>3. CASE InitCheck(a)
  <2>1. Become(a, Idle) \/ Become(a, [op[a] EXCEPT !.pc = "master"])
    BY <1>3 DEF InitCheck, Goto
  <2>2. UNCHANGED orgs
    BY <1>3 DEF InitCheck
  <2>3. CASE Become(a, Idle)
    BY <2>2, <2>3, Quiescent, MoveKeeps
  <2>4. CASE Become(a, [op[a] EXCEPT !.pc = "master"])
    <3>1. /\ [op[a] EXCEPT !.pc = "master"].pc = "master"
          /\ [op[a] EXCEPT !.pc = "master"].kind = op[a].kind
      BY <1>1 DEF Locals
    <3>2. QED
      BY <1>2, <2>2, <2>4, <3>1, MoveKeeps
  <2>5. QED
    BY <2>1, <2>3, <2>4
<1>4. CASE InitMaster(a)
  <2>1. Become(a, [op[a] EXCEPT !.pc = "ensure"]) /\ UNCHANGED orgs
    BY <1>4 DEF InitMaster, Goto
  <2>2. /\ [op[a] EXCEPT !.pc = "ensure"].pc = "ensure"
        /\ [op[a] EXCEPT !.pc = "ensure"].kind = op[a].kind
    BY <1>1 DEF Locals
  <2>3. QED
    BY <1>2, <2>1, <2>2, MoveKeeps
<1>5. CASE EnsureDefault(a)
  <2> DEFINE c == [op[a] EXCEPT !.pc = "count", !.asDefault = TRUE]
             d == [op[a] EXCEPT !.pc = "adopt", !.org = DefaultOrg]
  <2>1. /\ Become(a, c) \/ (a = Server /\ Become(a, d)) \/ Become(a, Idle)
        /\ UNCHANGED orgs
    BY <1>5 DEF EnsureDefault
  <2>2. c.pc = "count" /\ c.asDefault /\ d.pc = "adopt" /\ d.kind = op[a].kind
    BY <1>1 DEF Locals
  <2>3. c.kind = op[a].kind
    BY <1>1 DEF Locals
  <2> HIDE DEF c, d
  <2>4. CASE Become(a, c)
    BY <1>2, <2>1, <2>2, <2>3, <2>4, MoveKeeps
  <2>5. CASE a = Server /\ Become(a, d)
    BY <1>2, <2>1, <2>2, <2>5, MoveKeeps
  <2>6. CASE Become(a, Idle)
    BY <2>1, <2>6, Quiescent, MoveKeeps
  <2>7. QED
    BY <2>1, <2>4, <2>5, <2>6
<1>6. CASE Count(a)
  <2> DEFINE c == [op[a] EXCEPT !.pc = "probe", !.asDefault = @ \/ orgs = <<>>]
  <2>1. Become(a, c) /\ UNCHANGED orgs /\ op[a].pc = "count"
    BY <1>6 DEF Count, At
  <2>2. c.pc = "probe" /\ c.kind = op[a].kind
        /\ c.asDefault = (op[a].asDefault \/ orgs = <<>>)
    BY <1>1 DEF Locals
  <2> HIDE DEF c
  <2>3. QED
    BY <1>2, <2>1, <2>2, MoveKeeps
<1>7. CASE Probe(a)
  <2>1. PICK s \in Slugs : Become(a, [op[a] EXCEPT !.pc = "insert", !.slug = s])
    BY <1>7 DEF Probe
  <2> DEFINE c == [op[a] EXCEPT !.pc = "insert", !.slug = s]
  <2>2. c.pc = "insert" /\ c.kind = op[a].kind /\ c.asDefault = op[a].asDefault
    BY <1>1 DEF Locals
  <2>3. Become(a, c) /\ UNCHANGED orgs /\ op[a].pc = "probe"
    BY <1>7, <2>1 DEF Probe, At
  <2>4. ~op[a].asDefault => orgs # <<>>
    BY <2>3 DEF OrgsInv, OrdinaryIsLater
  <2> HIDE DEF c
  <2>5. QED
    BY <1>2, <2>2, <2>3, <2>4, MoveKeeps
<1>8. CASE Insert(a)
  <2> DEFINE o == [slug |-> op[a].slug, isDefault |-> op[a].asDefault]
             c == IF a = Server
                  THEN [op[a] EXCEPT !.pc = "adopt", !.org = Len(orgs) + 1]
                  ELSE Idle
  <2>1. op[a].slug \in Slugs /\ op[a].asDefault \in BOOLEAN
    BY <1>8 DEF TypeOK, Calls, Locals, Insert, At
  <2>2. o \in [slug: Slugs, isDefault: BOOLEAN] /\ o.isDefault = op[a].asDefault
    BY <2>1
  <2>3. orgs' = Append(orgs, o) /\ Become(a, c) /\ op[a].pc = "insert"
    BY <1>8 DEF Insert, At
  <2>4. ~op[a].asDefault => orgs # <<>>
    BY <2>3 DEF OrgsInv, OrdinaryIsLater
  <2>5. c.pc \in {"adopt", "idle"} /\ c.kind # "init"
    <3>1. CASE a = Server
      BY <1>1, <1>2, <3>1 DEF Locals
    <3>2. CASE a # Server
      BY <3>2, Quiescent
    <3>3. QED
      BY <3>1, <3>2
  <2> HIDE DEF o, c
  <2>6. HasDefault' /\ orgs' # <<>>
    <3>1. HasDefault \/ o.isDefault
      BY <2>2, <2>4 DEF OrgsInv, InitializedHasDefault
    <3>2. QED
      BY <2>2, <2>3, <3>1, Added
  <2>7. \A b \in Actors : op'[b] = op[b] \/ op'[b] = c
    BY <1>1, <2>3 DEF Become
  <2>8. OrdinaryIsLater'
    BY <2>6 DEF OrdinaryIsLater
  <2>9. WizardCreatesDefault'
    BY <2>5, <2>7 DEF OrgsInv, WizardCreatesDefault
  <2>10. QED
    BY <2>6, <2>8, <2>9 DEF OrgsInv, InitializedHasDefault
<1>9. CASE Conflict(a) \/ NoSlug(a)
  <2>1. UNCHANGED orgs /\ (Become(a, Boot) \/ Become(a, Idle))
    BY <1>9 DEF Conflict, NoSlug, Stop
  <2>2. QED
    BY <2>1, Quiescent, MoveKeeps
<1>10. QED
  BY <1>3, <1>4, <1>5, <1>6, <1>7, <1>8, <1>9 DEF SetupStep

\* The other steps: arrivals, the projects' steps, failures and restarts.
LEMMA OthersKeep ==
    ASSUME TypeOK, OrgsInv,
           \/ \E p \in Procs : Arrive(p) \/ ProjectStep(p)
           \/ \E a \in Actors : Fail(a)
           \/ Adopt \/ EnsureMaster \/ Restart \/ Quiet \/ UNCHANGED vars
    PROVE  OrgsInv'
<1>1. ASSUME NEW p \in Procs, Arrive(p) PROVE OrgsInv'
  <2>1. PICK c \in Calls :
           /\ Become(p, c) /\ UNCHANGED orgs
           /\ c.pc \in {"check", "count", "lookup", "lookupAgain", "forget"}
           /\ c.kind = "init" => c.pc = "check"
    BY <1>1, ArriveStep
  <2>2. p # Server
    BY Constant
  <2>3. QED
    BY <2>1, <2>2, MoveKeeps
<1>2. ASSUME NEW p \in Procs, ProjectStep(p) PROVE OrgsInv'
  <2>1. op[p] \in Locals /\ op[p].pc \in ProjectPcs
    BY <1>2 DEF TypeOK, Calls, Actors, ProjectStep, Lookup, Register,
       LookupAgain, Save, Forget, At, ProjectPcs
  <2>2. op[p].kind # "init"
    BY <2>1 DEF OrgsInv, WizardCreatesDefault, Actors, ProjectPcs
  <2>3. ASSUME NEW pc \in {"register", "lookupAgain", "save"}, NEW o,
               \/ Become(p, [op[p] EXCEPT !.pc = pc, !.org = o])
               \/ Become(p, [op[p] EXCEPT !.pc = pc]),
               UNCHANGED orgs
        PROVE  OrgsInv'
    <3> DEFINE c == [op[p] EXCEPT !.pc = pc, !.org = o]
               d == [op[p] EXCEPT !.pc = pc]
    <3>1. c.pc = pc /\ c.kind = op[p].kind /\ d.pc = pc /\ d.kind = op[p].kind
      BY <2>1 DEF Locals
    <3>2. Become(p, c) \/ Become(p, d)
      BY <2>3
    <3> HIDE DEF c, d
    <3>3. CASE Become(p, c)
      BY <2>2, <2>3, <3>1, <3>3, MoveKeeps
    <3>4. CASE Become(p, d)
      BY <2>2, <2>3, <3>1, <3>4, MoveKeeps
    <3>5. QED
      BY <3>2, <3>3, <3>4
  <2>4. CASE Lookup(p)
    BY <2>3, <2>4 DEF Lookup
  <2>5. CASE Register(p)
    BY <2>3, <2>5 DEF Register, Goto
  <2>6. CASE LookupAgain(p)
    BY <2>3, <2>6 DEF LookupAgain
  <2>7. CASE Save(p) \/ Forget(p)
    BY <2>7, Quiescent, MoveKeeps DEF Save, Forget
  <2>8. QED
    BY <1>2, <2>4, <2>5, <2>6, <2>7 DEF ProjectStep
<1>3. ASSUME NEW a \in Actors, Fail(a) PROVE OrgsInv'
  <2>1. UNCHANGED orgs /\ (Become(a, Boot) \/ Become(a, Idle))
    BY <1>3 DEF Fail, Stop
  <2>2. QED
    BY <2>1, Quiescent, MoveKeeps
<1>4. CASE Adopt
  BY <1>4, Quiescent, MoveKeeps DEF Adopt
<1>5. CASE EnsureMaster \/ Quiet \/ UNCHANGED vars
  <2>1. UNCHANGED <<orgs, op>>
    BY <1>5 DEF EnsureMaster, Quiet, vars
  <2>2. QED
    BY <2>1 DEF OrgsInv, InitializedHasDefault, HasDefault, OrgIds, IsDefault,
       OrdinaryIsLater, WizardCreatesDefault
<1>6. CASE Restart
  <2>1. \A a \in Actors : op'[a] = op[a] \/ op'[a] = Boot \/ op'[a] = Idle
    BY <1>6 DEF Restart
  <2>2. UNCHANGED orgs
    BY <1>6 DEF Restart
  <2>3. InitializedHasDefault'
    BY <2>2 DEF OrgsInv, InitializedHasDefault, HasDefault, OrgIds, IsDefault
  <2>4. OrdinaryIsLater' /\ WizardCreatesDefault'
    BY <2>1, <2>2, Quiescent DEF OrgsInv, OrdinaryIsLater, WizardCreatesDefault
  <2>5. QED
    BY <2>3, <2>4 DEF OrgsInv
<1>7. QED
  BY <1>1, <1>2, <1>3, <1>4, <1>5, <1>6

\* The invariant is inductive.
LEMMA OrgsStep == TypeOK /\ OrgsInv /\ [Next]_vars => OrgsInv'
BY SetupKeeps, OthersKeep DEF Next

\* What the looks before the acts amount to: the first organisation is the
\* default, however calls overlap and fail.
THEOREM OrgsInvariant == Spec => []OrgsInv
<1>1. Init => OrgsInv
  <2>1. ASSUME Init PROVE OrgsInv
    <3>1. orgs = <<>> /\ \A a \in Actors : op[a] = Boot \/ op[a] = Idle
      BY <2>1 DEF Init
    <3>2. QED
      BY <3>1, Quiescent DEF OrgsInv, InitializedHasDefault, OrdinaryIsLater,
         WizardCreatesDefault
  <2>2. QED
    BY <2>1
<1>2. QED
  BY <1>1, OrgsStep, OrgsTypeOK, PTL DEF Spec

\* systemStatus and initSystem agree on what initialised means.
THEOREM InitializedMeansDefault == Spec => []InitializedHasDefault
<1>1. OrgsInv => InitializedHasDefault
  BY DEF OrgsInv
<1>2. QED
  BY <1>1, OrgsInvariant, PTL

-----------------------------------------------------------------------------
(* 3. What a step may never do.                                            *)

\* The ways a wizard's call ends without a step that throws.
LEMMA WizardEnds ==
    ASSUME TypeOK, OrgsInv, NEW p \in Procs, op[p].kind = "init",
           SetupStep(p), op'[p].pc = "idle"
    PROVE  HasDefault'
<1>1. /\ p # Server /\ p \in Actors /\ op[p] \in Locals
      /\ op \in [Actors -> Calls]
  BY Constant DEF TypeOK, Calls, Actors
<1>2. ASSUME NEW o, Become(p, o) PROVE o.pc = "idle"
  BY <1>1, <1>2 DEF Become
<1>3. ASSUME UNCHANGED orgs, HasDefault PROVE HasDefault'
  BY <1>3 DEF HasDefault, OrgIds, IsDefault
<1>4. CASE InitCheck(p)
  <2>1. [op[p] EXCEPT !.pc = "master"].pc = "master"
    BY <1>1 DEF Locals
  <2>2. QED
    BY <1>2, <1>3, <1>4, <2>1 DEF InitCheck, Goto
<1>5. CASE InitMaster(p)
  <2>1. [op[p] EXCEPT !.pc = "ensure"].pc = "ensure"
    BY <1>1 DEF Locals
  <2>2. QED
    BY <1>2, <1>5, <2>1 DEF InitMaster, Goto
<1>6. CASE EnsureDefault(p)
  <2>1. [op[p] EXCEPT !.pc = "count", !.asDefault = TRUE].pc = "count"
    BY <1>1 DEF Locals
  <2>2. QED
    BY <1>1, <1>2, <1>3, <1>6, <2>1 DEF EnsureDefault
<1>7. CASE Count(p)
  <2>1. [op[p] EXCEPT !.pc = "probe", !.asDefault = @ \/ orgs = <<>>].pc = "probe"
    BY <1>1 DEF Locals
  <2>2. QED
    BY <1>2, <1>7, <2>1 DEF Count
<1>8. CASE Probe(p)
  <2>1. \A s : [op[p] EXCEPT !.pc = "insert", !.slug = s].pc = "insert"
    BY <1>1 DEF Locals
  <2>2. QED
    BY <1>2, <1>8, <2>1 DEF Probe
<1>9. CASE Insert(p)
  <2> DEFINE o == [slug |-> op[p].slug, isDefault |-> op[p].asDefault]
  <2>1. op[p].asDefault /\ op[p].slug \in Slugs
    BY <1>1, <1>9 DEF OrgsInv, WizardCreatesDefault, Insert, At, TypeOK, Calls
  <2>2. op[p].asDefault \in BOOLEAN
    BY <1>1 DEF Locals
  <2>3. o \in [slug: Slugs, isDefault: BOOLEAN] /\ o.isDefault
    BY <2>1, <2>2
  <2>4. orgs' = Append(orgs, o)
    BY <1>9 DEF Insert
  <2> HIDE DEF o
  <2>5. QED
    BY <2>3, <2>4, Added
<1>10. CASE Conflict(p)
  <2>1. UNCHANGED orgs /\ (HasDefault \/ Taken # {})
    BY <1>10 DEF Conflict, Fits
  <2>2. QED
    BY <1>3, <2>1, Occupied DEF OrgsInv, InitializedHasDefault
<1>11. CASE NoSlug(p)
  <2> DEFINE n == op[p].name
  <2>1. n \in Names
    BY <1>11 DEF NoSlug, At, TypeOK, Calls, NamePcs, Actors
  <2>2. Candidates[n] \in Seq(Slugs) /\ 1 \in DOMAIN Candidates[n]
        /\ Candidates[n][1] \in Slugs
    <3>1. Candidates[n] \in Seq(Slugs) /\ Candidates[n] # <<>>
      BY <2>1, Constant
    <3> HIDE DEF n
    <3>2. QED
      BY <3>1
  <2>3. Taken # {}
    <3>1. ~FirstFree(n, Candidates[n][1])
      BY <1>11, <2>2 DEF NoSlug
    <3> HIDE DEF n
    <3>2. ASSUME Taken = {} PROVE FALSE
      BY <2>2, <3>1, <3>2 DEF FirstFree
    <3>3. QED
      BY <3>2
  <2>4. UNCHANGED orgs
    BY <1>11 DEF NoSlug
  <2>5. QED
    BY <1>3, <2>3, <2>4, Occupied DEF OrgsInv, InitializedHasDefault
<1>12. QED
  BY <1>4, <1>5, <1>6, <1>7, <1>8, <1>9, <1>10, <1>11 DEF SetupStep

\* A wizard leaves an initialised system unless a step throws.
THEOREM WizardInitializes == Spec => SetupInitializes
<1>1. ASSUME TypeOK, OrgsInv, [Next]_vars, NEW p \in Procs,
             op[p].kind = "init", op'[p].pc = "idle", failures' = failures
      PROVE  HasDefault' \/ UNCHANGED vars
  <2> USE DEF counters
  <2>1. /\ p \in Actors /\ p # Server /\ op \in [Actors -> Calls]
        /\ failures \in Nat
    BY <1>1, Constant DEF Actors, TypeOK
  <2>2. op[p].pc \in {"check", "master", "ensure", "count", "probe", "insert"}
    BY <1>1, <2>1 DEF OrgsInv, WizardCreatesDefault
  <2>3. op'[p] # op[p]
    BY <1>1, <2>2
  <2>4. ASSUME NEW a, NEW o, Become(a, o), a # p PROVE FALSE
    BY <2>1, <2>3, <2>4 DEF Become
  <2>5. ASSUME NEW q \in Procs, Arrive(q) PROVE FALSE
    <3>1. PICK c \in Calls : /\ Become(q, c)
                             /\ c.kind = "init" => c.pc = "check"
                             /\ c.pc \in {"check", "count", "lookup",
                                          "lookupAgain", "forget"}
      BY <1>1, <2>5, ArriveStep
    <3>2. q = p
      BY <2>4, <3>1
    <3>3. op'[p] = c
      BY <2>1, <3>1, <3>2 DEF Become
    <3>4. QED
      BY <1>1, <3>1, <3>3
  <2>6. ASSUME NEW q \in Procs, ProjectStep(q) PROVE FALSE
    <3>1. op[q].pc \in ProjectPcs /\ \E o : Become(q, o)
      BY <2>6 DEF ProjectStep, Lookup, Register, LookupAgain, Save, Forget, At,
         Goto, ProjectPcs
    <3>2. QED
      BY <2>2, <2>4, <3>1 DEF ProjectPcs
  <2>7. ASSUME NEW a \in Actors, SetupStep(a) PROVE HasDefault'
    <3>1. \E o : Become(a, o)
      BY <2>7 DEF SetupStep, InitCheck, InitMaster, EnsureDefault, Count, Probe,
         Insert, Conflict, NoSlug, Goto, Stop
    <3>2. a = p
      BY <2>4, <3>1
    <3>3. QED
      BY <1>1, <2>7, <3>2, WizardEnds
  <2>8. ASSUME NEW a \in Actors, Fail(a) PROVE FALSE
    BY <1>1, <2>1, <2>8 DEF Fail
  <2>9. CASE Restart
    BY <1>1, <2>1, <2>9 DEF Restart
  <2>10. CASE Adopt
    BY <2>1, <2>4, <2>10 DEF Adopt
  <2>11. CASE EnsureMaster \/ Quiet \/ UNCHANGED vars
    BY <2>3, <2>11 DEF EnsureMaster, Quiet, vars
  <2>12. QED
    BY <1>1, <2>5, <2>6, <2>7, <2>8, <2>9, <2>10, <2>11 DEF Next
<1>2. TypeOK /\ OrgsInv /\ [Next]_vars =>
        [\A p \in Procs :
            op[p].kind = "init" /\ op'[p].pc = "idle" /\ failures' = failures
              => HasDefault']_vars
  BY <1>1
<1>3. QED
  BY <1>2, OrgsTypeOK, OrgsInvariant, PTL DEF Spec, SetupInitializes

\* A project stays where it is through every step.
LEMMA OwnerStep ==
    ASSUME TypeOK, [Next]_vars, NEW x \in registered \cap registered',
           owner[x] # None
    PROVE  owner'[x] = owner[x]
<1> USE DEF projects
<1>1. x \in Projects /\ owner \in [Projects -> Nat]
  BY DEF TypeOK
<1>2. ASSUME NEW p \in Procs, ProjectStep(p) PROVE owner'[x] = owner[x]
  BY <1>1, <1>2 DEF ProjectStep, Lookup, Register, LookupAgain, Save, Forget,
     Upsert
<1>3. ASSUME NEW p \in Procs, Arrive(p) PROVE owner'[x] = owner[x]
  BY <1>3, ArriveStep
<1>4. ASSUME NEW a \in Actors, SetupStep(a) \/ Fail(a) PROVE owner'[x] = owner[x]
  BY <1>4 DEF SetupStep, InitCheck, InitMaster, EnsureDefault, Count, Probe,
     Insert, Conflict, NoSlug, Fail
<1>5. CASE Adopt
  BY <1>1, <1>5 DEF Adopt
<1>6. CASE EnsureMaster \/ Restart \/ Quiet \/ UNCHANGED vars
  BY <1>6 DEF EnsureMaster, Restart, Quiet, vars
<1>7. QED
  BY <1>2, <1>3, <1>4, <1>5, <1>6 DEF Next

\* A project stays in its organisation until it is destroyed.
THEOREM ProjectsStay == Spec => OwnerKept
<1>1. TypeOK /\ [Next]_vars =>
        [\A x \in registered \cap registered' :
            owner[x] # None => owner'[x] = owner[x]]_vars
  BY OwnerStep
<1>2. QED
  BY <1>1, OrgsTypeOK, PTL DEF Spec, OwnerKept

=============================================================================
