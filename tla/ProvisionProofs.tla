--------------------------- MODULE ProvisionProofs ---------------------------
(***************************************************************************)
(* What Provision guarantees for any number of slots, calls and outages.   *)
(* Section 1 types every step; section 2 proves the inductive invariant of *)
(* the credentials under serialised calls and what follows from it.        *)
(***************************************************************************)
EXTENDS Provision, TLAPS

-----------------------------------------------------------------------------
(* The inductive invariant behind the properties of serialised calls: what *)
(* the one call in flight knows, at each of its steps, of the state it has *)
(* read and will write.                                                    *)

DetailPcs == {"detRead", "detProbe", "detHeal"}

Mutator(p) == ~At(p, "idle") /\ op[p].kind # "detail"

Solo ==
    /\ \A p, q \in Procs : Mutator(p) /\ Mutator(q) => p = q
    /\ \A p \in Procs : op[p].kind = "detail" <=> op[p].pc \in DetailPcs

RegistryInv ==
    /\ row.status = "absent" => row = NoRow
    /\ row.authUrl # None => row.secret # None
    /\ row.restUrl # None => row.pw # None /\ row.secret # None
    /\ RolePasswordAgrees
    /\ tenant # None => tenant = role /\ tenant = row.pw
    /\ DatabaseHasRole
    /\ AdvertisedSidecarsValid

PortsDrawn ==
    /\ row.authUrl < fresh /\ row.restUrl < fresh
    /\ auth.port < fresh /\ rest.port < fresh

DatabaseKnown(o) ==
    /\ o.pc = "role" => /\ o.pw # None
                        /\ row.pw = IF o.stored THEN o.pw ELSE None
    /\ o.pc \in {"member", "db", "grant", "saveDb"} =>
         o.pw # None /\ role = o.pw /\ row.pw \in {None, o.pw}
    /\ o.pc = "tenant" => o.pw # None /\ role = o.pw /\ row.pw = o.pw

AuthKnown(o) ==
    /\ o.pc = "authSave" => o.secret # None /\ row.secret \in {None, o.secret}
    /\ o.pc \in {"authRm", "authRun", "authHealth", "authUrl"} =>
         /\ o.secret # None
         /\ row.status # "absent" => row.secret = o.secret
    /\ o.pc \in {"authHealth", "authUrl"} =>
         o.port # None /\ auth.port = o.port /\ auth.secret = o.secret

RestKnown(o) ==
    /\ o.pc \in {"restRm", "restRun", "restHealth", "restUrl"} =>
         /\ o.pw # None /\ row.pw = o.pw
         /\ o.secret # None /\ row.secret = o.secret
    /\ o.pc \in {"restHealth", "restUrl"} =>
         /\ o.port # None /\ rest.port = o.port
         /\ rest.pw = o.pw /\ rest.secret = o.secret

DestroyKnown(o) ==
    /\ o.pc \in {"dbGone", "roleGone", "rowGone"} => tenant = None
    /\ o.pc \in {"roleGone", "rowGone"} => ~db
    /\ o.pc = "rowGone" => role = None

CallKnows(o) ==
    DatabaseKnown(o) /\ AuthKnown(o) /\ RestKnown(o) /\ DestroyKnown(o)

CredentialInv ==
    /\ Solo /\ RegistryInv /\ PortsDrawn
    /\ \A p \in Procs : CallKnows(op[p])

\* What a background run has brought up by the step it is at: GoTrue before it
\* turns to PostgREST, and both, where both are wanted, before it waits, also
\* while it provisions GoTrue a second time.
AuthPcs == {"authRead", "authSave", "authRm", "authRun", "authHealth", "authUrl"}
RestPcs == {"restRead", "restRm", "restRun", "restHealth", "restUrl"}
WaitPcs == {"waitAuth", "waitRest", "markLive"}

DatabasePcs == {"register", "dbRead", "role", "member", "db", "grant", "saveDb", "tenant"}

RunKnown(o) ==
    /\ o.pc \in WaitPcs => o.kind = "create"
    /\ o.pc \in DatabasePcs => o.heal = "none"
    /\ o.kind = "create" /\ o.pc \notin {"register", "catch", "idle"} =>
         /\ row.status # "absent" /\ row.restReq = o.rest
         /\ o.pc \in RestPcs \cup WaitPcs => AuthUp
         /\ o.rest /\ (o.pc \in WaitPcs \/ (o.pc \in AuthPcs /\ o.heal # "none")) => RestUp

DeployInv == \A p \in Procs : RunKnown(op[p])

-----------------------------------------------------------------------------
(* 1. Types.                                                               *)

\* The names the actions use belong to their vocabularies; cited instead of
\* the definitions, which would put every name before the prover each time.
LEMMA Names ==
    /\ {"idle", "register", "dbRead", "role", "member", "db", "grant", "saveDb", "tenant",
        "authRead", "authSave", "authRm", "authRun", "authHealth", "authUrl",
        "restRead", "restRm", "restRun", "restHealth", "restUrl",
        "waitAuth", "waitRest", "markLive", "catch",
        "restGone", "restForget", "authGone", "tenantGone", "dbGone",
        "roleGone", "rowGone", "detRead", "detProbe", "detHeal"} \subseteq Pcs
    /\ {"absent", "provisioning", "live", "error"} \subseteq Status
    /\ Kinds \subseteq AllKinds
BY KindsAssumption DEF Pcs, Status

\* The initial and the reset values of the records are well typed.
LEMMA ValuesTyped == Idle \in Calls /\ NoBox \in Boxes /\ NoRow \in Rows
BY DEF Idle, Calls, Pcs, AllKinds, NoBox, Boxes, NoRow, Rows, Status, None

\* Every call starts at a step of the code.
LEMMA FirstPcTyped == \A k \in AllKinds : FirstPc(k) \in Pcs
BY DEF FirstPc, Pcs, AllKinds

\* Moving a slot keeps op well typed when its new call is.
LEMMA BecomeTyped ==
    ASSUME NEW p, NEW o \in Calls, op \in [Procs -> Calls], Become(p, o)
    PROVE  op' \in [Procs -> Calls]
BY DEF Become

\* Moving a slot to another step keeps op well typed.
LEMMA GotoTyped ==
    ASSUME NEW p \in Procs, NEW pc \in Pcs, op \in [Procs -> Calls], Goto(p, pc)
    PROVE  op' \in [Procs -> Calls]
<1>1. [op[p] EXCEPT !.pc = pc] \in Calls
  BY DEF Calls
<1>2. QED
  BY <1>1, ValuesTyped, BecomeTyped DEF Goto

\* The type invariant of the project's life: every variable keeps its type
\* through every step of every call, failure and crash.
LEMMA TypeStep == TypeOK /\ [Next]_vars => TypeOK'
<1> SUFFICES ASSUME TypeOK, [Next]_vars PROVE TypeOK'
  OBVIOUS
<1> USE DEF TypeOK, None
<1>1. ASSUME NEW p \in Procs, Arrive(p) PROVE TypeOK'
  <2>1. PICK k \in Kinds, w \in BOOLEAN : Begin(p, k, w)
    BY <1>1 DEF Arrive
  <2>2. [Idle EXCEPT !.kind = k, !.pc = FirstPc(k), !.rest = w] \in Calls
    BY FirstPcTyped, Names, ValuesTyped DEF Calls
  <2>3. op' \in [Procs -> Calls]
    BY <2>1, <2>2, BecomeTyped DEF Begin
  <2>4. calls' = calls + 1 /\ UNCHANGED <<row, infra, fresh, outages>>
    BY <2>1 DEF Begin
  <2>5. QED
    BY <2>3, <2>4 DEF infra
<1>2. ASSUME NEW p \in Procs, ProvisionStep(p) PROVE TypeOK'
  <2> USE GotoTyped, Names, ValuesTyped DEF infra, counters
  <2>1. CASE Register(p)
    <3>1. op[p].rest \in BOOLEAN
      BY DEF Calls
    <3>2. QED
      BY <2>1, <3>1 DEF Register, Rows
  <2>2. CASE DbRead(p)
    <3> DEFINE w == IF row.pw # None THEN row.pw ELSE fresh
    <3>1. w \in Nat
      BY DEF Rows
    <3>2. [op[p] EXCEPT !.pc = "role", !.stored = (row.pw # None), !.pw = w] \in Calls
      <4>1. ASSUME NEW b \in BOOLEAN, NEW v \in Nat
            PROVE  [op[p] EXCEPT !.pc = "role", !.stored = b, !.pw = v] \in Calls
        BY DEF Calls
      <4>2. (row.pw # None) \in BOOLEAN
        OBVIOUS
      <4> HIDE DEF w
      <4>3. QED
        BY <3>1, <4>1, <4>2
    <3>3. QED
      BY <2>2, <3>2, BecomeTyped DEF DbRead
  <2>3. CASE EnsureRole(p) \/ GrantMembership(p)
    <3>1. op[p].pw \in Nat
      BY DEF Calls
    <3>2. member' \in BOOLEAN
      BY <2>3 DEF EnsureRole, GrantMembership
    <3>3. role' \in Nat
      BY <2>3, <3>1 DEF EnsureRole, GrantMembership
    <3>4. op' \in [Procs -> Calls]
      BY <2>3 DEF EnsureRole, GrantMembership
    <3>5. QED
      BY <2>3, <3>2, <3>3, <3>4 DEF EnsureRole, GrantMembership
  <2>4. CASE EnsureDatabase(p)
    BY <2>4 DEF EnsureDatabase
  <2>5. CASE GrantAndMigrate(p)
    BY <2>5 DEF GrantAndMigrate
  <2>6. CASE SaveDatabase(p)
    <3>1. op[p].pw \in Nat
      BY DEF Calls
    <3>2. row' \in Rows
      BY <2>6, <3>1 DEF SaveDatabase, Rows
    <3>3. QED
      BY <2>6, <3>2 DEF SaveDatabase
  <2>7. CASE RegisterTenant(p)
    BY <2>7 DEF RegisterTenant, Calls
  <2>8. CASE AuthRead(p)
    <3> DEFINE s == IF row.secret # None THEN row.secret ELSE fresh
    <3>1. s \in Nat
      BY DEF Rows
    <3>2. [op[p] EXCEPT !.pc = "authSave", !.secret = s] \in Calls
      BY <3>1 DEF Calls
    <3>3. QED
      BY <2>8, <3>2, BecomeTyped DEF AuthRead
  <2>9. CASE AuthSave(p)
    BY <2>9 DEF AuthSave, Update, Rows, Calls
  <2>10. CASE AuthRm(p)
    BY <2>10 DEF AuthRm
  <2>11. CASE AuthRun(p)
    <3>1. [op[p] EXCEPT !.pc = "authHealth", !.port = fresh] \in Calls
      BY DEF Calls
    <3>2. [port |-> fresh, pw |-> None, secret |-> op[p].secret] \in Boxes
      BY DEF Calls, Boxes
    <3>3. QED
      BY <2>11, <3>1, <3>2, BecomeTyped DEF AuthRun
  <2>12. CASE AuthHealth(p)
    BY <2>12 DEF AuthHealth
  <2>13. CASE AuthUrl(p)
    <3> DEFINE pc == AfterAuth(op[p])
    <3> DEFINE u == IF op[p].heal = "none" THEN op[p].port ELSE op[p].aurl
    <3>1. pc \in Pcs /\ u \in Nat
      BY DEF AfterAuth, Calls
    <3>2. [op[p] EXCEPT !.pc = pc, !.aurl = u] \in Calls
      BY <3>1 DEF Calls
    <3>3. op' \in [Procs -> Calls]
      BY <2>13, <3>2, BecomeTyped DEF AuthUrl
    <3>4. QED
      BY <2>13, <3>3 DEF AuthUrl, Update, Rows, Calls
  <2>14. CASE RestRead(p)
    <3>1. [op[p] EXCEPT !.pc = "restRm", !.pw = row.pw, !.secret = row.secret] \in Calls
      BY DEF Calls, Rows
    <3>2. QED
      BY <2>14, <3>1, BecomeTyped DEF RestRead
  <2>15. CASE RestRm(p)
    BY <2>15 DEF RestRm
  <2>16. CASE RestRun(p)
    <3>1. [op[p] EXCEPT !.pc = "restHealth", !.port = fresh] \in Calls
      BY DEF Calls
    <3>2. [port |-> fresh, pw |-> op[p].pw, secret |-> op[p].secret] \in Boxes
      BY DEF Calls, Boxes
    <3>3. QED
      BY <2>16, <3>1, <3>2, BecomeTyped DEF RestRun
  <2>17. CASE RestHealth(p)
    BY <2>17 DEF RestHealth
  <2>18. CASE RestUrl(p)
    <3> DEFINE pc == AfterRest(op[p])
    <3> DEFINE u == IF op[p].heal = "none" THEN op[p].port ELSE op[p].rurl
    <3>1. pc \in Pcs /\ u \in Nat
      BY DEF AfterRest, Calls
    <3>2. [op[p] EXCEPT !.pc = pc, !.rurl = u] \in Calls
      BY <3>1 DEF Calls
    <3>3. op' \in [Procs -> Calls]
      BY <2>18, <3>2, BecomeTyped DEF RestUrl
    <3>4. QED
      BY <2>18, <3>3 DEF RestUrl, Update, Rows, Calls
  <2>19. CASE WaitAuth(p)
    <3> DEFINE pc == IF op[p].rest THEN "waitRest" ELSE "markLive"
    <3>1. [op[p] EXCEPT !.heal = "none", !.pc = pc] \in Calls
      BY DEF Calls
    <3>2. QED
      BY <2>19, <3>1, BecomeTyped DEF WaitAuth
  <2>20. CASE WaitRest(p)
    BY <2>20 DEF WaitRest
  <2>21. CASE Reprovision(p)
    <3>1. /\ [op[p] EXCEPT !.pc = "authRead", !.heal = "auth"] \in Calls
          /\ [op[p] EXCEPT !.pc = "restRead", !.heal = "rest"] \in Calls
      BY DEF Calls
    <3>2. QED
      BY <2>21, <3>1, BecomeTyped DEF Reprovision
  <2>22. CASE MarkLive(p)
    BY <2>22 DEF MarkLive, Update, Rows
  <2>23. QED
    BY <1>2, <2>1, <2>2, <2>3, <2>4, <2>5, <2>6, <2>7, <2>8, <2>9, <2>10, <2>11,
       <2>12, <2>13, <2>14, <2>15, <2>16, <2>17, <2>18, <2>19, <2>20, <2>21,
       <2>22
    DEF ProvisionStep
<1>3. ASSUME NEW p \in Procs, DestroyStep(p) PROVE TypeOK'
  <2> USE GotoTyped, Names, ValuesTyped DEF infra, counters
  <2>1. CASE RestGone(p) \/ AuthGone(p)
    BY <2>1 DEF RestGone, AuthGone
  <2>2. CASE RestForget(p)
    BY <2>2 DEF RestForget, Rows
  <2>3. CASE TenantGone(p)
    BY <2>3 DEF TenantGone
  <2>4. CASE DbGone(p)
    BY <2>4 DEF DbGone
  <2>5. CASE RoleGone(p)
    BY <2>5 DEF RoleGone
  <2>6. CASE RowGone(p)
    BY <2>6 DEF RowGone
  <2>7. QED
    BY <1>3, <2>1, <2>2, <2>3, <2>4, <2>5, <2>6 DEF DestroyStep
<1>4. ASSUME NEW p \in Procs, DetailStep(p) PROVE TypeOK'
  <2> USE GotoTyped, Names, ValuesTyped DEF infra, counters
  <2>1. CASE DetailRead(p)
    <3> DEFINE o == [op[p] EXCEPT !.pc = "detProbe", !.aurl = row.authUrl,
                         !.rurl = row.restUrl, !.rest = row.restReq,
                         !.live = (row.status = "live")]
    <3>1. o \in Calls
      BY DEF Calls, Rows
    <3>2. QED
      BY <2>1, <3>1, BecomeTyped DEF DetailRead
  <2>2. CASE DetailProbe(p)
    <3>1. Goto(p, "detHeal") \/ Goto(p, "idle")
      BY <2>2 DEF DetailProbe
    <3>2. QED
      BY <2>2, <3>1 DEF DetailProbe
  <2>3. CASE DetailHeal(p)
    BY <2>3 DEF DetailHeal, Update, Rows
  <2>4. QED
    BY <1>4, <2>1, <2>2, <2>3 DEF DetailStep
<1>5. ASSUME NEW p \in Procs, Fail(p) \/ MarkError(p) PROVE TypeOK'
  BY <1>5, GotoTyped, Names DEF Fail, MarkError, infra, counters, Update, Rows
<1>6. CASE Crash
  BY <1>6, ValuesTyped DEF Crash, infra
<1>7. CASE UNCHANGED vars
  BY <1>7 DEF vars
<1>8. QED
  BY <1>1, <1>2, <1>3, <1>4, <1>5, <1>6, <1>7 DEF Next, Step, Quiet

\* Every reachable state is well typed.
THEOREM ProvisionTypeOK == Spec => []TypeOK
<1>1. ASSUME Init PROVE TypeOK
  <2>1. op \in [Procs -> Calls]
    BY <1>1, ValuesTyped DEF Init
  <2>2. row \in Rows /\ auth \in Boxes /\ rest \in Boxes
    BY <1>1, ValuesTyped DEF Init
  <2>3. db \in BOOLEAN /\ member \in BOOLEAN
    BY <1>1 DEF Init
  <2>4. /\ role \in Nat /\ tenant \in Nat
        /\ fresh \in Nat \ {None} /\ calls \in Nat /\ outages \in Nat
    BY <1>1 DEF Init, None
  <2>5. QED
    BY <2>1, <2>2, <2>3, <2>4 DEF TypeOK
<1>2. QED
  BY <1>1, TypeStep, PTL DEF Spec

-----------------------------------------------------------------------------
(* 2. Credentials, when calls that change the project do not overlap.      *)

\* A call that changes the project has the project to itself.
LEMMA Alone ==
    ASSUME TypeOK, Solo, NEW p \in Procs, Mutator(p), NEW q \in Procs, q # p
    PROVE  op[q].pc \in DetailPcs \cup {"idle"}
BY DEF Solo, Mutator, At

\* A polling or an idle slot knows nothing that could become false.
LEMMA PollsKnowNothing ==
    ASSUME NEW o, o.pc \in DetailPcs \cup {"idle"}
    PROVE  CallKnows(o)
BY DEF DetailPcs, CallKnows, DatabaseKnown, AuthKnown, RestKnown, DestroyKnown

\* The frame of a step by the one call that changes the project.
LEMMA SoleMover ==
    ASSUME TypeOK, Solo, NEW p \in Procs, Mutator(p),
           NEW o \in Calls, Become(p, o), o = Idle \/ o.kind = op[p].kind,
           o.pc \notin DetailPcs
    PROVE  /\ op'[p] = o
           /\ Solo'
           /\ \A q \in Procs : q # p => CallKnows(op[q])'
<1>1. op'[p] = o /\ \A q \in Procs : q # p => op'[q] = op[q]
  BY DEF Become, TypeOK
<1>2. Solo'
  <2>1. \A q \in Procs : Mutator(q)' => q = p
    BY <1>1, Alone DEF Mutator, Solo, At, DetailPcs
  <2>2. \A q \in Procs : op'[q].kind = "detail" <=> op'[q].pc \in DetailPcs
    BY <1>1 DEF Solo, Mutator, Idle
  <2>3. QED
    BY <2>1, <2>2 DEF Solo
<1>3. ASSUME NEW q \in Procs, q # p PROVE CallKnows(op[q])'
  <2>1. op'[q].pc \in DetailPcs \cup {"idle"}
    BY <1>1, <1>3, Alone
  <2>2. QED
    BY <2>1 DEF DetailPcs, CallKnows, DatabaseKnown, AuthKnown, RestKnown,
       DestroyKnown
<1>4. QED
  BY <1>1, <1>2, <1>3

\* The steps of startProvision's registration and of provisionDatabase.
LEMMA DatabaseSteps ==
    ASSUME TypeOK, TypeOK', CredentialInv, NEW p \in Procs,
           \/ Register(p) \/ DbRead(p) \/ EnsureRole(p)
           \/ GrantMembership(p) \/ EnsureDatabase(p)
           \/ GrantAndMigrate(p) \/ SaveDatabase(p) \/ RegisterTenant(p)
    PROVE  CredentialInv'
<1>1. Mutator(p) /\ op[p] \in Calls /\ op'[p] \in Calls
  <2>1. op[p].pc \notin DetailPcs \cup {"idle"}
    BY DEF DetailPcs, At, FirstWindow, Register, DbRead, EnsureRole,
       GrantMembership, EnsureDatabase, GrantAndMigrate, SaveDatabase,
       RegisterTenant
  <2>2. QED
    BY <2>1 DEF CredentialInv, Solo, Mutator, At, TypeOK
<1>2. /\ Become(p, op'[p])
      /\ op'[p] = Idle \/ op'[p].kind = op[p].kind
      /\ op'[p].pc \notin DetailPcs
  <2> USE DEF Become, Goto, Calls, TypeOK, Idle, DetailPcs
  <2>1. CASE Register(p)
    BY <1>1, <2>1 DEF Register
  <2>2. CASE DbRead(p)
    BY <1>1, <2>2 DEF DbRead
  <2>3. CASE EnsureRole(p)
    BY <1>1, <2>3 DEF EnsureRole
  <2>4. CASE GrantMembership(p)
    BY <1>1, <2>4 DEF GrantMembership
  <2>5. CASE EnsureDatabase(p)
    BY <1>1, <2>5 DEF EnsureDatabase
  <2>6. CASE GrantAndMigrate(p)
    BY <1>1, <2>6 DEF GrantAndMigrate
  <2>7. CASE SaveDatabase(p)
    BY <1>1, <2>7 DEF SaveDatabase
  <2>8. CASE RegisterTenant(p)
    BY <1>1, <2>8 DEF RegisterTenant
  <2>9. QED
    BY <2>1, <2>2, <2>3, <2>4, <2>5, <2>6, <2>7, <2>8
<1>3. Solo' /\ \A q \in Procs : q # p => CallKnows(op[q])'
  BY <1>1, <1>2, SoleMover DEF CredentialInv
<1>4. CallKnows(op[p]) /\ RegistryInv /\ PortsDrawn
  BY DEF CredentialInv
<1> USE DEF At, Become, Goto, Update, infra, counters, TypeOK, Calls, Rows,
            None, RegistryInv, PortsDrawn, RolePasswordAgrees, CallKnows,
            DatabaseKnown, AuthKnown, RestKnown, DestroyKnown
<1>5. CASE Register(p)
  <2>1. RegistryInv' /\ PortsDrawn'
    BY <1>1, <1>4, <1>5
      
       DEF Register, DatabaseHasRole, AdvertisedSidecarsValid, Boxes, NoRow,
           NoBox
  <2>2. CallKnows(op[p])'
    BY <1>1, <1>4, <1>5 DEF Register, Idle
  <2>3. QED
    BY <1>3, <2>1, <2>2 DEF CredentialInv
<1>6. CASE DbRead(p)
  <2>1. RegistryInv' /\ PortsDrawn'
    BY <1>1, <1>4, <1>6
      
       DEF DbRead, DatabaseHasRole, AdvertisedSidecarsValid, Boxes, NoRow, NoBox
  <2>2. /\ op'[p].pc = "role" /\ op'[p].stored = (row.pw # None)
        /\ op'[p].pw = IF row.pw # None THEN row.pw ELSE fresh
        /\ row' = row /\ fresh # None
    BY <1>1, <1>4, <1>6 DEF DbRead
  <2>3. CallKnows(op[p])'
    BY <2>2
  <2>4. QED
    BY <1>3, <2>1, <2>3 DEF CredentialInv
<1>7. CASE EnsureRole(p)
  <2>1. RegistryInv' /\ PortsDrawn'
    BY <1>1, <1>4, <1>7
      
       DEF EnsureRole, DatabaseHasRole, AdvertisedSidecarsValid, Boxes, NoRow,
           NoBox
  <2>2. CallKnows(op[p])'
    BY <1>1, <1>4, <1>7 DEF EnsureRole, Idle
  <2>3. QED
    BY <1>3, <2>1, <2>2 DEF CredentialInv
<1>8. CASE GrantMembership(p)
  <2>1. RegistryInv' /\ PortsDrawn'
    BY <1>1, <1>4, <1>8
      
       DEF GrantMembership, DatabaseHasRole, AdvertisedSidecarsValid, Boxes,
           NoRow, NoBox
  <2>2. CallKnows(op[p])'
    BY <1>1, <1>4, <1>8 DEF GrantMembership, Idle
  <2>3. QED
    BY <1>3, <2>1, <2>2 DEF CredentialInv
<1>9. CASE EnsureDatabase(p)
  <2>1. RegistryInv' /\ PortsDrawn'
    BY <1>1, <1>4, <1>9
      
       DEF EnsureDatabase, DatabaseHasRole, AdvertisedSidecarsValid, Boxes,
           NoRow, NoBox
  <2>2. CallKnows(op[p])'
    BY <1>1, <1>4, <1>9 DEF EnsureDatabase, Idle
  <2>3. QED
    BY <1>3, <2>1, <2>2 DEF CredentialInv
<1>10. CASE GrantAndMigrate(p)
  <2>1. RegistryInv' /\ PortsDrawn'
    BY <1>1, <1>4, <1>10
      
       DEF GrantAndMigrate, DatabaseHasRole, AdvertisedSidecarsValid, Boxes,
           NoRow, NoBox
  <2>2. CallKnows(op[p])'
    BY <1>1, <1>4, <1>10 DEF GrantAndMigrate, Idle
  <2>3. QED
    BY <1>3, <2>1, <2>2 DEF CredentialInv
<1>11. CASE SaveDatabase(p)
  <2>1. RegistryInv' /\ PortsDrawn'
    BY <1>1, <1>4, <1>11
      
       DEF SaveDatabase, DatabaseHasRole, AdvertisedSidecarsValid, Boxes,
           NoRow, NoBox
  <2>2. CallKnows(op[p])'
    BY <1>1, <1>4, <1>11 DEF SaveDatabase, Idle
  <2>3. QED
    BY <1>3, <2>1, <2>2 DEF CredentialInv
<1>12. CASE RegisterTenant(p)
  <2>1. RegistryInv' /\ PortsDrawn'
    BY <1>1, <1>4, <1>12
      
       DEF RegisterTenant, DatabaseHasRole, AdvertisedSidecarsValid, Boxes,
           NoRow, NoBox
  <2>2. CallKnows(op[p])'
    BY <1>1, <1>4, <1>12 DEF RegisterTenant, Idle
  <2>3. QED
    BY <1>3, <2>1, <2>2 DEF CredentialInv
<1>13. QED
  BY <1>5, <1>6, <1>7, <1>8, <1>9, <1>10, <1>11, <1>12

\* The steps of provisionAuth.
LEMMA AuthSteps ==
    ASSUME TypeOK, TypeOK', CredentialInv, NEW p \in Procs,
           \/ AuthRead(p) \/ AuthSave(p) \/ AuthRm(p) \/ AuthRun(p)
           \/ AuthHealth(p) \/ AuthUrl(p)
    PROVE  CredentialInv'
<1>1. Mutator(p) /\ op[p] \in Calls /\ op'[p] \in Calls
  <2>1. op[p].pc \notin DetailPcs \cup {"idle"}
    BY DEF DetailPcs, At, FirstWindow, AuthRead, AuthSave, AuthRm, AuthRun,
       AuthHealth, AuthUrl
  <2>2. QED
    BY <2>1 DEF CredentialInv, Solo, Mutator, At, TypeOK
<1>2. /\ Become(p, op'[p])
      /\ op'[p] = Idle \/ op'[p].kind = op[p].kind
      /\ op'[p].pc \notin DetailPcs
  <2> USE DEF Become, Goto, Calls, TypeOK, Idle, DetailPcs
  <2>1. CASE AuthRead(p)
    BY <1>1, <2>1 DEF AuthRead
  <2>2. CASE AuthSave(p)
    BY <1>1, <2>2 DEF AuthSave
  <2>3. CASE AuthRm(p)
    BY <1>1, <2>3 DEF AuthRm
  <2>4. CASE AuthRun(p)
    BY <1>1, <2>4 DEF AuthRun
  <2>5. CASE AuthHealth(p)
    BY <1>1, <2>5 DEF AuthHealth
  <2>6. CASE AuthUrl(p)
    BY <1>1, <2>6 DEF AuthUrl, AfterAuth
  <2>7. QED
    BY <2>1, <2>2, <2>3, <2>4, <2>5, <2>6
<1>3. Solo' /\ \A q \in Procs : q # p => CallKnows(op[q])'
  BY <1>1, <1>2, SoleMover DEF CredentialInv
<1>4. CallKnows(op[p]) /\ RegistryInv /\ PortsDrawn
  BY DEF CredentialInv
<1> USE DEF At, Become, Goto, Update, infra, counters, TypeOK, Calls, Rows,
            None, RegistryInv, PortsDrawn, RolePasswordAgrees, CallKnows,
            DatabaseKnown, AuthKnown, RestKnown, DestroyKnown
<1>5. CASE AuthRead(p)
  <2>1. RegistryInv' /\ PortsDrawn'
    BY <1>1, <1>4, <1>5
      
       DEF AuthRead, DatabaseHasRole, AdvertisedSidecarsValid, Boxes, NoRow,
           NoBox
  <2>2. CallKnows(op[p])'
    BY <1>1, <1>4, <1>5 DEF AuthRead, Idle
  <2>3. QED
    BY <1>3, <2>1, <2>2 DEF CredentialInv
<1>6. CASE AuthSave(p)
  <2>1. RegistryInv' /\ PortsDrawn'
    BY <1>1, <1>4, <1>6
      
       DEF AuthSave, DatabaseHasRole, AdvertisedSidecarsValid, Boxes, NoRow,
           NoBox
  <2>2. CallKnows(op[p])'
    BY <1>1, <1>4, <1>6 DEF AuthSave, Idle
  <2>3. QED
    BY <1>3, <2>1, <2>2 DEF CredentialInv
<1>7. CASE AuthRm(p)
  <2>1. RegistryInv' /\ PortsDrawn'
    BY <1>1, <1>4, <1>7
      
       DEF AuthRm, DatabaseHasRole, AdvertisedSidecarsValid, Boxes, NoRow, NoBox
  <2>2. CallKnows(op[p])'
    BY <1>1, <1>4, <1>7 DEF AuthRm, Idle
  <2>3. QED
    BY <1>3, <2>1, <2>2 DEF CredentialInv
<1>8. CASE AuthRun(p)
  <2>1. RegistryInv' /\ PortsDrawn'
    BY <1>1, <1>4, <1>8
      
       DEF AuthRun, DatabaseHasRole, AdvertisedSidecarsValid, Boxes, NoRow,
           NoBox
  <2>2. CallKnows(op[p])'
    BY <1>1, <1>4, <1>8 DEF AuthRun, Idle
  <2>3. QED
    BY <1>3, <2>1, <2>2 DEF CredentialInv
<1>9. CASE AuthHealth(p)
  <2>1. RegistryInv' /\ PortsDrawn'
    BY <1>1, <1>4, <1>9
      
       DEF AuthHealth, DatabaseHasRole, AdvertisedSidecarsValid, Boxes, NoRow,
           NoBox
  <2>2. CallKnows(op[p])'
    BY <1>1, <1>4, <1>9 DEF AuthHealth, Idle
  <2>3. QED
    BY <1>3, <2>1, <2>2 DEF CredentialInv
<1>10. CASE AuthUrl(p)
  <2>1. /\ op[p].port # None /\ auth.port = op[p].port
        /\ auth.secret = op[p].secret /\ op[p].secret # None
        /\ row.status # "absent" => row.secret = op[p].secret
        /\ UNCHANGED <<role, member, db, tenant, auth, rest, fresh>>
        /\ row' = IF row.status = "absent" THEN row
                  ELSE [row EXCEPT !.authUrl = op[p].port]
    BY <1>1, <1>4, <1>10 DEF AuthUrl
  <2>2. /\ row'.status = row.status /\ row'.pw = row.pw
        /\ row'.secret = row.secret /\ row'.restUrl = row.restUrl
        /\ row'.authUrl = IF row.status = "absent" THEN row.authUrl ELSE op[p].port
        /\ row.status = "absent" => row' = row
    BY <2>1
  <2>3. RegistryInv' /\ PortsDrawn'
    BY <1>4, <2>1, <2>2 DEF DatabaseHasRole, AdvertisedSidecarsValid
  <2>4. CallKnows(op[p])'
    BY <1>1, <1>4, <1>10 DEF AuthUrl, Idle, AfterAuth
  <2>5. QED
    BY <1>3, <2>3, <2>4 DEF CredentialInv
<1>11. QED
  BY <1>5, <1>6, <1>7, <1>8, <1>9, <1>10

\* The steps of provisionRest.
LEMMA RestSteps ==
    ASSUME TypeOK, TypeOK', CredentialInv, NEW p \in Procs,
           \/ RestRead(p) \/ RestRm(p) \/ RestRun(p) \/ RestHealth(p)
           \/ RestUrl(p)
    PROVE  CredentialInv'
<1>1. Mutator(p) /\ op[p] \in Calls /\ op'[p] \in Calls
  <2>1. op[p].pc \notin DetailPcs \cup {"idle"}
    BY DEF DetailPcs, At, FirstWindow, RestRead, RestRm, RestRun, RestHealth,
       RestUrl
  <2>2. QED
    BY <2>1 DEF CredentialInv, Solo, Mutator, At, TypeOK
<1>2. /\ Become(p, op'[p])
      /\ op'[p] = Idle \/ op'[p].kind = op[p].kind
      /\ op'[p].pc \notin DetailPcs
  <2> USE DEF Become, Goto, Calls, TypeOK, Idle, DetailPcs
  <2>1. CASE RestRead(p)
    BY <1>1, <2>1 DEF RestRead
  <2>2. CASE RestRm(p)
    BY <1>1, <2>2 DEF RestRm
  <2>3. CASE RestRun(p)
    BY <1>1, <2>3 DEF RestRun
  <2>4. CASE RestHealth(p)
    BY <1>1, <2>4 DEF RestHealth
  <2>5. CASE RestUrl(p)
    BY <1>1, <2>5 DEF RestUrl, AfterRest
  <2>6. QED
    BY <2>1, <2>2, <2>3, <2>4, <2>5
<1>3. Solo' /\ \A q \in Procs : q # p => CallKnows(op[q])'
  BY <1>1, <1>2, SoleMover DEF CredentialInv
<1>4. CallKnows(op[p]) /\ RegistryInv /\ PortsDrawn
  BY DEF CredentialInv
<1> USE DEF At, Become, Goto, Update, infra, counters, TypeOK, Calls, Rows,
            None, RegistryInv, PortsDrawn, RolePasswordAgrees, CallKnows,
            DatabaseKnown, AuthKnown, RestKnown, DestroyKnown
<1>5. CASE RestRead(p)
  <2>1. RegistryInv' /\ PortsDrawn'
    BY <1>1, <1>4, <1>5
      
       DEF RestRead, DatabaseHasRole, AdvertisedSidecarsValid, Boxes, NoRow,
           NoBox
  <2>2. CallKnows(op[p])'
    BY <1>1, <1>4, <1>5 DEF RestRead, Idle
  <2>3. QED
    BY <1>3, <2>1, <2>2 DEF CredentialInv
<1>6. CASE RestRm(p)
  <2>1. RegistryInv' /\ PortsDrawn'
    BY <1>1, <1>4, <1>6
      
       DEF RestRm, DatabaseHasRole, AdvertisedSidecarsValid, Boxes, NoRow, NoBox
  <2>2. CallKnows(op[p])'
    BY <1>1, <1>4, <1>6 DEF RestRm, Idle
  <2>3. QED
    BY <1>3, <2>1, <2>2 DEF CredentialInv
<1>7. CASE RestRun(p)
  <2>1. RegistryInv' /\ PortsDrawn'
    BY <1>1, <1>4, <1>7
      
       DEF RestRun, DatabaseHasRole, AdvertisedSidecarsValid, Boxes, NoRow,
           NoBox
  <2>2. CallKnows(op[p])'
    BY <1>1, <1>4, <1>7 DEF RestRun, Idle
  <2>3. QED
    BY <1>3, <2>1, <2>2 DEF CredentialInv
<1>8. CASE RestHealth(p)
  <2>1. RegistryInv' /\ PortsDrawn'
    BY <1>1, <1>4, <1>8
      
       DEF RestHealth, DatabaseHasRole, AdvertisedSidecarsValid, Boxes, NoRow,
           NoBox
  <2>2. CallKnows(op[p])'
    BY <1>1, <1>4, <1>8 DEF RestHealth, Idle
  <2>3. QED
    BY <1>3, <2>1, <2>2 DEF CredentialInv
<1>9. CASE RestUrl(p)
  <2>1. RegistryInv' /\ PortsDrawn'
    BY <1>1, <1>4, <1>9
      
       DEF RestUrl, DatabaseHasRole, AdvertisedSidecarsValid, Boxes, NoRow,
           NoBox
  <2>2. CallKnows(op[p])'
    BY <1>1, <1>4, <1>9 DEF RestUrl, Idle, AfterRest
  <2>3. QED
    BY <1>3, <2>1, <2>2 DEF CredentialInv
<1>10. QED
  BY <1>5, <1>6, <1>7, <1>8, <1>9

\* The end of the background run.
LEMMA WaitSteps ==
    ASSUME TypeOK, TypeOK', CredentialInv, NEW p \in Procs,
           \/ WaitAuth(p) \/ WaitRest(p) \/ Reprovision(p) \/ MarkLive(p)
    PROVE  CredentialInv'
<1>1. Mutator(p) /\ op[p] \in Calls /\ op'[p] \in Calls
  <2>1. op[p].pc \notin DetailPcs \cup {"idle"}
    BY DEF DetailPcs, At, FirstWindow, WaitAuth, WaitRest, Reprovision,
       MarkLive
  <2>2. QED
    BY <2>1 DEF CredentialInv, Solo, Mutator, At, TypeOK
<1>2. /\ Become(p, op'[p])
      /\ op'[p] = Idle \/ op'[p].kind = op[p].kind
      /\ op'[p].pc \notin DetailPcs
  <2> USE DEF Become, Goto, Calls, TypeOK, Idle, DetailPcs
  <2>1. CASE WaitAuth(p)
    BY <1>1, <2>1 DEF WaitAuth
  <2>2. CASE WaitRest(p)
    BY <1>1, <2>2 DEF WaitRest
  <2>3. CASE Reprovision(p)
    BY <1>1, <2>3 DEF Reprovision, At, FirstWindow
  <2>4. CASE MarkLive(p)
    BY <1>1, <2>4 DEF MarkLive
  <2>5. QED
    BY <2>1, <2>2, <2>3, <2>4
<1>3. Solo' /\ \A q \in Procs : q # p => CallKnows(op[q])'
  BY <1>1, <1>2, SoleMover DEF CredentialInv
<1>4. CallKnows(op[p]) /\ RegistryInv /\ PortsDrawn
  BY DEF CredentialInv
<1> USE DEF At, Become, Goto, Update, infra, counters, TypeOK, Calls, Rows,
            None, RegistryInv, PortsDrawn, RolePasswordAgrees, CallKnows,
            DatabaseKnown, AuthKnown, RestKnown, DestroyKnown
<1>5. CASE WaitAuth(p)
  <2>1. RegistryInv' /\ PortsDrawn'
    BY <1>1, <1>4, <1>5
      
       DEF WaitAuth, DatabaseHasRole, AdvertisedSidecarsValid, Boxes, NoRow,
           NoBox
  <2>2. CallKnows(op[p])'
    BY <1>1, <1>4, <1>5 DEF WaitAuth, Idle
  <2>3. QED
    BY <1>3, <2>1, <2>2 DEF CredentialInv
<1>6. CASE WaitRest(p)
  <2>1. RegistryInv' /\ PortsDrawn'
    BY <1>1, <1>4, <1>6
      
       DEF WaitRest, DatabaseHasRole, AdvertisedSidecarsValid, Boxes, NoRow,
           NoBox
  <2>2. CallKnows(op[p])'
    BY <1>1, <1>4, <1>6 DEF WaitRest, Idle
  <2>3. QED
    BY <1>3, <2>1, <2>2 DEF CredentialInv
<1>7. CASE Reprovision(p)
  <2>1. RegistryInv' /\ PortsDrawn'
    BY <1>1, <1>4, <1>7
      
       DEF Reprovision, DatabaseHasRole, AdvertisedSidecarsValid, Boxes,
           NoRow, NoBox
  <2>2. CallKnows(op[p])'
    BY <1>1, <1>4, <1>7 DEF Reprovision, Idle, FirstWindow
  <2>3. QED
    BY <1>3, <2>1, <2>2 DEF CredentialInv
<1>8. CASE MarkLive(p)
  <2>1. RegistryInv' /\ PortsDrawn'
    BY <1>1, <1>4, <1>8
      
       DEF MarkLive, DatabaseHasRole, AdvertisedSidecarsValid, Boxes, NoRow,
           NoBox
  <2>2. CallKnows(op[p])'
    BY <1>1, <1>4, <1>8 DEF MarkLive, Idle
  <2>3. QED
    BY <1>3, <2>1, <2>2 DEF CredentialInv
<1>9. QED
  BY <1>5, <1>6, <1>7, <1>8

\* The steps of destroyProject, destroyRest and destroyAuth.
LEMMA DestroySteps ==
    ASSUME TypeOK, TypeOK', CredentialInv, NEW p \in Procs,
           \/ RestGone(p) \/ RestForget(p) \/ AuthGone(p) \/ TenantGone(p)
           \/ DbGone(p) \/ RoleGone(p) \/ RowGone(p)
    PROVE  CredentialInv'
<1>1. Mutator(p) /\ op[p] \in Calls /\ op'[p] \in Calls
  <2>1. op[p].pc \notin DetailPcs \cup {"idle"}
    BY DEF DetailPcs, At, FirstWindow, RestGone, RestForget, AuthGone,
       TenantGone, DbGone, RoleGone, RowGone
  <2>2. QED
    BY <2>1 DEF CredentialInv, Solo, Mutator, At, TypeOK
<1>2. /\ Become(p, op'[p])
      /\ op'[p] = Idle \/ op'[p].kind = op[p].kind
      /\ op'[p].pc \notin DetailPcs
  <2> USE DEF Become, Goto, Calls, TypeOK, Idle, DetailPcs
  <2>1. CASE RestGone(p)
    BY <1>1, <2>1 DEF RestGone
  <2>2. CASE RestForget(p)
    BY <1>1, <2>2 DEF RestForget
  <2>3. CASE AuthGone(p)
    BY <1>1, <2>3 DEF AuthGone
  <2>4. CASE TenantGone(p)
    BY <1>1, <2>4 DEF TenantGone
  <2>5. CASE DbGone(p)
    BY <1>1, <2>5 DEF DbGone
  <2>6. CASE RoleGone(p)
    BY <1>1, <2>6 DEF RoleGone
  <2>7. CASE RowGone(p)
    BY <1>1, <2>7 DEF RowGone
  <2>8. QED
    BY <2>1, <2>2, <2>3, <2>4, <2>5, <2>6, <2>7
<1>3. Solo' /\ \A q \in Procs : q # p => CallKnows(op[q])'
  BY <1>1, <1>2, SoleMover DEF CredentialInv
<1>4. CallKnows(op[p]) /\ RegistryInv /\ PortsDrawn
  BY DEF CredentialInv
<1> USE DEF At, Become, Goto, Update, infra, counters, TypeOK, Calls, Rows,
            None, RegistryInv, PortsDrawn, RolePasswordAgrees, CallKnows,
            DatabaseKnown, AuthKnown, RestKnown, DestroyKnown
<1>5. CASE RestGone(p)
  <2>1. RegistryInv' /\ PortsDrawn'
    BY <1>1, <1>4, <1>5
      
       DEF RestGone, DatabaseHasRole, AdvertisedSidecarsValid, Boxes, NoRow,
           NoBox
  <2>2. CallKnows(op[p])'
    BY <1>1, <1>4, <1>5 DEF RestGone, Idle
  <2>3. QED
    BY <1>3, <2>1, <2>2 DEF CredentialInv
<1>6. CASE RestForget(p)
  <2>1. RegistryInv' /\ PortsDrawn'
    BY <1>1, <1>4, <1>6
      
       DEF RestForget, DatabaseHasRole, AdvertisedSidecarsValid, Boxes, NoRow,
           NoBox
  <2>2. CallKnows(op[p])'
    BY <1>1, <1>4, <1>6 DEF RestForget, Idle
  <2>3. QED
    BY <1>3, <2>1, <2>2 DEF CredentialInv
<1>7. CASE AuthGone(p)
  <2>1. RegistryInv' /\ PortsDrawn'
    BY <1>1, <1>4, <1>7
      
       DEF AuthGone, DatabaseHasRole, AdvertisedSidecarsValid, Boxes, NoRow,
           NoBox
  <2>2. CallKnows(op[p])'
    BY <1>1, <1>4, <1>7 DEF AuthGone, Idle
  <2>3. QED
    BY <1>3, <2>1, <2>2 DEF CredentialInv
<1>8. CASE TenantGone(p)
  <2>1. RegistryInv' /\ PortsDrawn'
    BY <1>1, <1>4, <1>8
      
       DEF TenantGone, DatabaseHasRole, AdvertisedSidecarsValid, Boxes, NoRow,
           NoBox
  <2>2. CallKnows(op[p])'
    BY <1>1, <1>4, <1>8 DEF TenantGone, Idle
  <2>3. QED
    BY <1>3, <2>1, <2>2 DEF CredentialInv
<1>9. CASE DbGone(p)
  <2>1. RegistryInv' /\ PortsDrawn'
    BY <1>1, <1>4, <1>9
      
       DEF DbGone, DatabaseHasRole, AdvertisedSidecarsValid, Boxes, NoRow, NoBox
  <2>2. CallKnows(op[p])'
    BY <1>1, <1>4, <1>9 DEF DbGone, Idle
  <2>3. QED
    BY <1>3, <2>1, <2>2 DEF CredentialInv
<1>10. CASE RoleGone(p)
  <2>1. RegistryInv' /\ PortsDrawn'
    BY <1>1, <1>4, <1>10
      
       DEF RoleGone, DatabaseHasRole, AdvertisedSidecarsValid, Boxes, NoRow,
           NoBox
  <2>2. CallKnows(op[p])'
    BY <1>1, <1>4, <1>10 DEF RoleGone, Idle
  <2>3. QED
    BY <1>3, <2>1, <2>2 DEF CredentialInv
<1>11. CASE RowGone(p)
  <2>1. RegistryInv' /\ PortsDrawn'
    BY <1>1, <1>4, <1>11
      
       DEF RowGone, DatabaseHasRole, AdvertisedSidecarsValid, Boxes, NoRow,
           NoBox
  <2>2. CallKnows(op[p])'
    BY <1>1, <1>4, <1>11 DEF RowGone, Idle
  <2>3. QED
    BY <1>3, <2>1, <2>2 DEF CredentialInv
<1>12. QED
  BY <1>5, <1>6, <1>7, <1>8, <1>9, <1>10, <1>11

\* A poll, and its 'live' written over whatever status the row has by then.
LEMMA PollSteps ==
    ASSUME TypeOK, TypeOK', CredentialInv, NEW p \in Procs, ~At(p, "idle"),
           op[p].kind = "detail", DetailStep(p) \/ Fail(p)
    PROVE  CredentialInv'
<1> USE DEF At, infra, counters, TypeOK, None
<1>1. /\ op' = [op EXCEPT ![p] = op'[p]]
      /\ \/ op'[p] = Idle
         \/ op'[p].kind = "detail" /\ op'[p].pc \in DetailPcs
  <2> op[p] \in Calls
    BY DEF TypeOK
  <2> USE DEF Goto, Become, Calls, DetailPcs, Idle
  <2>1. CASE DetailRead(p)
    BY <2>1 DEF DetailRead
  <2>2. CASE DetailProbe(p)
    BY <2>2 DEF DetailProbe
  <2>3. CASE DetailHeal(p)
    BY <2>3 DEF DetailHeal
  <2>4. CASE Fail(p)
    BY <2>4 DEF Fail
  <2>5. QED
    BY <2>1, <2>2, <2>3, <2>4 DEF DetailStep
<1>2. /\ UNCHANGED <<infra, fresh>>
      /\ row' \in {row, [row EXCEPT !.status = "live"]}
      /\ row.status = "absent" => row' = row
  BY DEF DetailStep, DetailRead, DetailProbe, DetailHeal, Fail, Update
<1>3. Solo'
  BY <1>1 DEF CredentialInv, Solo, Mutator, Idle, DetailPcs
<1>4. RegistryInv' /\ PortsDrawn'
  BY <1>2 DEF CredentialInv, RegistryInv, PortsDrawn, RolePasswordAgrees,
     DatabaseHasRole, AdvertisedSidecarsValid, Rows, Boxes
<1>5. ASSUME NEW q \in Procs PROVE CallKnows(op[q])'
  <2>1. CASE q = p
    <3>1. op'[q].pc \in DetailPcs \cup {"idle"}
      BY <1>1, <2>1 DEF Idle
    <3>2. QED
      BY <3>1 DEF DetailPcs, CallKnows, DatabaseKnown, AuthKnown, RestKnown,
         DestroyKnown
  <2>2. CASE q # p
    <3>1. op'[q] = op[q] /\ CallKnows(op[q])
      BY <1>1, <2>2 DEF CredentialInv
    <3>2. QED
      BY <1>2, <3>1 DEF CallKnows, DatabaseKnown, AuthKnown, RestKnown,
         DestroyKnown, Rows, Calls
  <2>3. QED
    BY <2>1, <2>2
<1>6. QED
  BY <1>3, <1>4, <1>5 DEF CredentialInv

\* The failures of a call that changes the project, and the catch.
LEMMA FailSteps ==
    ASSUME TypeOK, TypeOK', CredentialInv, NEW p \in Procs, Mutator(p),
           Fail(p) \/ MarkError(p)
    PROVE  CredentialInv'
<1> USE DEF At, infra, counters, TypeOK, None
<1>1. /\ Become(p, op'[p]) /\ op'[p] \in Calls
      /\ op'[p] = Idle \/ op'[p].kind = op[p].kind
      /\ op'[p].pc \in {"idle", "catch"}
  BY DEF Fail, MarkError, Goto, Become, Calls, Idle
<1>2. /\ UNCHANGED <<infra, fresh>>
      /\ row' \in {row, [row EXCEPT !.status = "error"]}
      /\ row.status = "absent" => row' = row
  BY DEF Fail, MarkError, Update
<1>3. Solo' /\ \A q \in Procs : q # p => CallKnows(op[q])'
  BY <1>1, SoleMover DEF CredentialInv, DetailPcs
<1>4. RegistryInv' /\ PortsDrawn'
  BY <1>2 DEF CredentialInv, RegistryInv, PortsDrawn, RolePasswordAgrees,
     DatabaseHasRole, AdvertisedSidecarsValid, Rows, Boxes
<1>5. CallKnows(op[p])'
  BY <1>1 DEF CallKnows, DatabaseKnown, AuthKnown, RestKnown, DestroyKnown
<1>6. QED
  BY <1>3, <1>4, <1>5 DEF CredentialInv

\* A call arrives: a poll at any time, any other call only when alone.
LEMMA ArriveStep ==
    ASSUME Serialised, TypeOK, TypeOK', CredentialInv, NEW p \in Procs, Arrive(p)
    PROVE  CredentialInv'
<1>1. PICK k \in Kinds, w \in BOOLEAN : Begin(p, k, w)
  BY DEF Arrive
<1>2. /\ op'[p].kind = k /\ op'[p].pc = FirstPc(k) /\ At(p, "idle")
      /\ \A q \in Procs : q # p => op'[q] = op[q]
      /\ UNCHANGED <<row, role, member, db, tenant, auth, rest, fresh>>
  BY <1>1 DEF Begin, Become, Idle, TypeOK, infra
<1>3. Solo'
  <2>1. \A q \in Procs : op'[q].kind = "detail" <=> op'[q].pc \in DetailPcs
    BY <1>2, Names DEF CredentialInv, Solo, FirstPc, DetailPcs, AllKinds
  <2>2. \A q, r \in Procs : Mutator(q)' /\ Mutator(r)' => q = r
    <3>1. CASE k = "detail"
      BY <1>2, <3>1 DEF CredentialInv, Solo, Mutator, At
    <3>2. CASE k # "detail"
      <4>1. \A q \in Procs : ~Mutator(q)
        BY <1>1, <3>2 DEF Begin, Serialised, Mutator, At
      <4>2. QED
        BY <1>2, <4>1 DEF Mutator, At
    <3>3. QED
      BY <3>1, <3>2
  <2>3. QED
    BY <2>1, <2>2 DEF Solo
<1>4. RegistryInv' /\ PortsDrawn'
  BY <1>2 DEF CredentialInv, RegistryInv, PortsDrawn, RolePasswordAgrees,
     DatabaseHasRole, AdvertisedSidecarsValid
<1>5. ASSUME NEW q \in Procs PROVE CallKnows(op[q])'
  <2>1. CASE q = p
    <3>1. FirstPc(k) \in {"register", "dbRead", "authRead", "authGone", "restRead",
                          "restGone", "detRead"}
      BY Names DEF FirstPc, AllKinds
    <3>2. QED
      BY <1>2, <2>1, <3>1 DEF CallKnows, DatabaseKnown, AuthKnown, RestKnown,
         DestroyKnown
  <2>2. CASE q # p
    BY <1>2, <2>2 DEF CredentialInv, CallKnows, DatabaseKnown, AuthKnown,
       RestKnown, DestroyKnown
  <2>3. QED
    BY <2>1, <2>2
<1>6. QED
  BY <1>3, <1>4, <1>5 DEF CredentialInv

\* The process dies with its calls; only the CLI's are left.
LEMMA CrashStep ==
    ASSUME TypeOK, CredentialInv, Crash
    PROVE  CredentialInv'
<1>1. /\ \A q \in Procs : op'[q] = op[q] \/ op'[q] = Idle
      /\ UNCHANGED <<row, role, member, db, tenant, auth, rest, fresh>>
  BY DEF Crash, infra
<1>2. Solo'
  BY <1>1 DEF CredentialInv, Solo, Mutator, At, Idle, DetailPcs
<1>3. RegistryInv' /\ PortsDrawn'
  BY <1>1 DEF CredentialInv, RegistryInv, PortsDrawn, RolePasswordAgrees,
     DatabaseHasRole, AdvertisedSidecarsValid
<1>4. ASSUME NEW q \in Procs PROVE CallKnows(op[q])'
  BY <1>1 DEF CredentialInv, CallKnows, DatabaseKnown, AuthKnown, RestKnown,
     DestroyKnown, Idle
<1>5. QED
  BY <1>2, <1>3, <1>4 DEF CredentialInv

\* The invariant is inductive when calls that change the project are serialised.
LEMMA CredentialStep ==
    Serialised /\ TypeOK /\ CredentialInv /\ [Next]_vars => CredentialInv'
<1> SUFFICES ASSUME Serialised, TypeOK, CredentialInv, [Next]_vars
             PROVE  CredentialInv'
  OBVIOUS
<1>1. TypeOK'
  BY TypeStep
<1>2. ASSUME NEW p \in Procs, Step(p) PROVE CredentialInv'
  <2>1. CASE ProvisionStep(p)
    BY <1>1, <2>1, DatabaseSteps, AuthSteps, RestSteps, WaitSteps DEF
       ProvisionStep
  <2>2. CASE DestroyStep(p)
    BY <1>1, <2>2, DestroySteps DEF DestroyStep
  <2>3. CASE DetailStep(p) \/ Fail(p) \/ MarkError(p)
    <3>1. ~At(p, "idle")
      BY <2>3 DEF DetailStep, DetailRead, DetailProbe, DetailHeal, Fail,
         MarkError, At
    <3>2. CASE op[p].kind = "detail"
      <4>1. ~MarkError(p)
        BY <3>2 DEF CredentialInv, Solo, DetailPcs, MarkError, At
      <4>2. QED
        BY <1>1, <2>3, <3>1, <3>2, <4>1, PollSteps
    <3>3. CASE op[p].kind # "detail"
      <4>1. ~DetailStep(p)
        BY <3>3 DEF CredentialInv, Solo, DetailPcs, DetailStep, DetailRead,
           DetailProbe, DetailHeal, At
      <4>2. QED
        BY <1>1, <2>3, <3>1, <3>3, <4>1, FailSteps DEF Mutator
    <3>4. QED
      BY <3>2, <3>3
  <2>4. QED
    BY <1>2, <2>1, <2>2, <2>3 DEF Step
<1>3. CASE UNCHANGED vars
  BY <1>3 DEF vars, CredentialInv, Solo, Mutator, At, RegistryInv, PortsDrawn,
     RolePasswordAgrees, DatabaseHasRole, AdvertisedSidecarsValid, CallKnows,
     DatabaseKnown, AuthKnown, RestKnown, DestroyKnown
<1>4. QED
  BY <1>1, <1>2, <1>3, ArriveStep, CrashStep DEF Next, Quiet

\* Serialised calls keep the registry, the role, the pooler, the sidecars and
\* what each call in flight has read in agreement, in every reachable state.
THEOREM CredentialInvariant == Serialised => (Spec => []CredentialInv)
<1> SUFFICES ASSUME Serialised PROVE Spec => []CredentialInv
  OBVIOUS
<1>1. ASSUME Init PROVE CredentialInv
  <2>1. \A p \in Procs : op[p] = Idle
    BY <1>1 DEF Init
  <2>2. Solo
    BY <2>1 DEF Solo, Mutator, At, Idle, DetailPcs
  <2>3. RegistryInv /\ PortsDrawn
    BY <1>1 DEF Init, NoRow, NoBox, None, RegistryInv, PortsDrawn,
       RolePasswordAgrees, DatabaseHasRole, AdvertisedSidecarsValid
  <2>4. ASSUME NEW p \in Procs PROVE CallKnows(op[p])
    <3>1. op[p].pc \in DetailPcs \cup {"idle"}
      BY <2>1 DEF Idle
    <3>2. QED
      BY <3>1, PollsKnowNothing
  <2>5. QED
    BY <2>2, <2>3, <2>4 DEF CredentialInv
<1>2. QED
  BY <1>1, CredentialStep, ProvisionTypeOK, PTL DEF Spec

\* A stored password is the role's password: apps that read the registry can
\* log in, however often calls crashed, failed and were re-run.
THEOREM StoredPasswordLogsIn == Serialised => (Spec => []RolePasswordAgrees)
<1>1. CredentialInv => RolePasswordAgrees
  BY DEF CredentialInv, RegistryInv
<1>2. QED
  BY <1>1, CredentialInvariant, PTL

\* The pooler never holds a credential the role does not have.
THEOREM PoolerLogsIn == Serialised => (Spec => []PoolerCredentialValid)
<1>1. CredentialInv => PoolerCredentialValid
  BY DEF CredentialInv, RegistryInv, PoolerCredentialValid
<1>2. QED
  BY <1>1, CredentialInvariant, PTL

\* No project database is ever without its role.
THEOREM DatabaseKeepsRole == Serialised => (Spec => []DatabaseHasRole)
<1>1. CredentialInv => DatabaseHasRole
  BY DEF CredentialInv, RegistryInv
<1>2. QED
  BY <1>1, CredentialInvariant, PTL

\* The containers behind the advertised urls sign and verify with the secret,
\* and log in with the password, that the registry hands out.
THEOREM AdvertisedSidecarsAgree == Serialised => (Spec => []AdvertisedSidecarsValid)
<1>1. CredentialInv => AdvertisedSidecarsValid
  BY DEF CredentialInv, RegistryInv
<1>2. QED
  BY <1>1, CredentialInvariant, PTL

\* The steps that write the registry row.
LEMMA RowWriters ==
    ASSUME [Next]_vars
    PROVE  \/ UNCHANGED row
           \/ \E p \in Procs :
                 \/ SaveDatabase(p) \/ AuthSave(p) \/ RowGone(p)
                 \/ Register(p) \/ AuthUrl(p) \/ RestUrl(p) \/ MarkLive(p)
                 \/ MarkError(p) \/ RestForget(p) \/ DetailHeal(p)
<1>1. ASSUME NEW p \in Procs, ProvisionStep(p)
      PROVE  \/ UNCHANGED row \/ Register(p) \/ SaveDatabase(p) \/ AuthSave(p)
             \/ AuthUrl(p) \/ RestUrl(p) \/ MarkLive(p)
  BY <1>1 DEF ProvisionStep, DbRead, EnsureRole, GrantMembership,
     EnsureDatabase, GrantAndMigrate, RegisterTenant, AuthRead, AuthRm, AuthRun,
     AuthHealth, RestRead, RestRm, RestRun, RestHealth, WaitAuth, WaitRest,
     Reprovision
<1>2. ASSUME NEW p \in Procs, DestroyStep(p)
      PROVE  UNCHANGED row \/ RestForget(p) \/ RowGone(p)
  BY <1>2 DEF DestroyStep, RestGone, AuthGone, TenantGone, DbGone, RoleGone
<1>3. ASSUME NEW p \in Procs, DetailStep(p)
      PROVE  UNCHANGED row \/ DetailHeal(p)
  BY <1>3 DEF DetailStep, DetailRead, DetailProbe
<1>4. ASSUME NEW p \in Procs, Arrive(p) \/ Fail(p)
      PROVE  UNCHANGED row
  BY <1>4 DEF Arrive, Begin, Fail
<1>5. CASE Crash \/ Quiet \/ UNCHANGED vars
  BY <1>5 DEF Crash, Quiet, vars
<1>6. QED
  BY <1>1, <1>2, <1>3, <1>4, <1>5 DEF Next, Step

\* Each step that writes a password or a secret writes back the stored one.
LEMMA CredentialsKept ==
    ASSUME TypeOK, CredentialInv, [Next]_vars, row'.status # "absent"
    PROVE  /\ row.pw # None => row'.pw = row.pw
           /\ row.secret # None => row'.secret = row.secret
<1> USE DEF Update, Rows, TypeOK
<1>1. CASE UNCHANGED row
  BY <1>1
<1>2. ASSUME NEW p \in Procs, SaveDatabase(p)
      PROVE  /\ row.pw # None => row'.pw = row.pw
             /\ row'.secret = row.secret
  BY <1>2 DEF SaveDatabase, CredentialInv, CallKnows, DatabaseKnown, At
<1>3. ASSUME NEW p \in Procs, AuthSave(p)
      PROVE  /\ row'.pw = row.pw
             /\ row.secret # None => row'.secret = row.secret
  BY <1>3 DEF AuthSave, CredentialInv, CallKnows, AuthKnown, At
<1>4. ASSUME NEW p \in Procs, RowGone(p) PROVE FALSE
  BY <1>4 DEF RowGone, NoRow
<1>5. ASSUME NEW p \in Procs,
             \/ Register(p) \/ AuthUrl(p) \/ RestUrl(p) \/ MarkLive(p)
             \/ MarkError(p) \/ RestForget(p) \/ DetailHeal(p)
      PROVE  row'.pw = row.pw /\ row'.secret = row.secret
  BY <1>5 DEF Register, AuthUrl, RestUrl, MarkLive, MarkError, RestForget,
     DetailHeal
<1>6. QED
  BY <1>1, <1>2, <1>3, <1>4, <1>5, RowWriters

\* Re-provisioning never replaces a stored password or JWT secret.
THEOREM CredentialsAreStable == Serialised => (Spec => CredentialsStable)
<1> SUFFICES ASSUME Serialised PROVE Spec => CredentialsStable
  OBVIOUS
<1>1. TypeOK /\ CredentialInv /\ [Next]_vars =>
        [/\ row.pw # None /\ row'.status # "absent" => row'.pw = row.pw
         /\ row.secret # None /\ row'.status # "absent"
              => row'.secret = row.secret]_vars
  BY CredentialsKept
<1>2. QED
  BY <1>1, CredentialInvariant, ProvisionTypeOK, PTL DEF Spec, CredentialsStable

\* Only destroyProject's last step forgets the row, and by then the tenant, the
\* database and the role are gone.
THEOREM RowIsForgottenLast == Serialised => (Spec => ForgottenLast)
<1> SUFFICES ASSUME Serialised PROVE Spec => ForgottenLast
  OBVIOUS
<1>1. ASSUME TypeOK, CredentialInv, [Next]_vars,
             row.status # "absent", row'.status = "absent"
      PROVE  tenant = None /\ ~db /\ role = None
  <2>1. PICK p \in Procs : RowGone(p)
    <3>1. ASSUME NEW p \in Procs,
                 \/ SaveDatabase(p) \/ AuthSave(p) \/ Register(p) \/ AuthUrl(p)
                 \/ RestUrl(p) \/ MarkLive(p) \/ MarkError(p) \/ RestForget(p)
                 \/ DetailHeal(p)
          PROVE  FALSE
      BY <1>1, <3>1 DEF Update, TypeOK, Rows, SaveDatabase, AuthSave, Register,
         AuthUrl, RestUrl, MarkLive, MarkError, RestForget, DetailHeal
    <3>2. QED
      BY <1>1, <3>1, RowWriters
  <2>2. QED
    BY <1>1, <2>1 DEF RowGone, CredentialInv, CallKnows, DestroyKnown, At
<1>2. TypeOK /\ CredentialInv /\ [Next]_vars =>
        [row.status # "absent" /\ row'.status = "absent" =>
           tenant = None /\ ~db /\ role = None]_vars
  BY <1>1
<1>3. QED
  BY <1>2, CredentialInvariant, ProvisionTypeOK, PTL DEF Spec, ForgottenLast

-----------------------------------------------------------------------------
(* 3. What is up when a background run ends, under serialised calls.       *)

\* A slot that polls or rests has no background run.
LEMMA PollsRunNothing ==
    ASSUME NEW o, o.pc \in DetailPcs => o.kind = "detail", o.pc \in DetailPcs \cup {"idle"}
    PROVE  RunKnown(o)
BY DEF RunKnown, DetailPcs, AuthPcs, RestPcs, WaitPcs, DatabasePcs

\* While one call changes the project, the others have no run.
LEMMA OthersRunNothing ==
    ASSUME TypeOK, Solo, Solo', NEW p \in Procs, Mutator(p),
           NEW q \in Procs, q # p, op'[q] = op[q]
    PROVE  RunKnown(op[q])'
<1>1. op'[q].pc \in DetailPcs \cup {"idle"}
  BY Alone
<1>2. op'[q].pc \in DetailPcs => op'[q].kind = "detail"
  BY DEF Solo
<1> QED
  BY <1>1, <1>2 DEF RunKnown, DetailPcs, AuthPcs, RestPcs, WaitPcs, DatabasePcs

\* provisionDatabase and the registration leave the sidecars alone.
LEMMA DatabaseRuns ==
    ASSUME TypeOK, TypeOK', NEW p \in Procs, RunKnown(op[p]),
           \/ Register(p) \/ DbRead(p) \/ EnsureRole(p)
           \/ GrantMembership(p) \/ EnsureDatabase(p)
           \/ GrantAndMigrate(p) \/ SaveDatabase(p) \/ RegisterTenant(p)
    PROVE  RunKnown(op[p])'
<1> op[p] \in Calls /\ row \in Rows
  BY DEF TypeOK
<1> USE DEF At, Become, Goto, TypeOK, Calls, Rows, RunKnown, AuthUp, RestUp,
            AuthPcs, RestPcs, WaitPcs, DatabasePcs, infra, counters
<1>1. CASE Register(p)
  BY <1>1 DEF Register
<1>2. CASE DbRead(p)
  BY <1>2 DEF DbRead
<1>3. CASE EnsureRole(p)
  BY <1>3 DEF EnsureRole
<1>4. CASE GrantMembership(p)
  BY <1>4 DEF GrantMembership
<1>5. CASE EnsureDatabase(p)
  BY <1>5 DEF EnsureDatabase
<1>6. CASE GrantAndMigrate(p)
  BY <1>6 DEF GrantAndMigrate
<1>7. CASE SaveDatabase(p)
  BY <1>7 DEF SaveDatabase
<1>8. CASE RegisterTenant(p)
  BY <1>8 DEF RegisterTenant
<1> QED
  BY <1>1, <1>2, <1>3, <1>4, <1>5, <1>6, <1>7, <1>8

\* provisionAuth ends with the new GoTrue advertised; PostgREST stays up.
LEMMA AuthRuns ==
    ASSUME TypeOK, TypeOK', NEW p \in Procs, RunKnown(op[p]), AuthKnown(op[p]),
           \/ AuthRead(p) \/ AuthSave(p) \/ AuthRm(p) \/ AuthRun(p)
           \/ AuthHealth(p) \/ AuthUrl(p)
    PROVE  RunKnown(op[p])'
<1> op[p] \in Calls /\ row \in Rows
  BY DEF TypeOK
<1> USE DEF At, Become, Goto, TypeOK, Calls, Rows, RunKnown, AuthUp, RestUp,
            AuthPcs, RestPcs, WaitPcs, DatabasePcs, infra, counters, Update
<1>1. CASE AuthRead(p)
  BY <1>1 DEF AuthRead
<1>2. CASE AuthSave(p)
  BY <1>2 DEF AuthSave
<1>3. CASE AuthRm(p)
  BY <1>3 DEF AuthRm
<1>4. CASE AuthRun(p)
  BY <1>4 DEF AuthRun
<1>5. CASE AuthHealth(p)
  BY <1>5 DEF AuthHealth
<1>6. CASE AuthUrl(p)
  BY <1>6 DEF AuthUrl, AfterAuth, AuthKnown, Idle
<1> QED
  BY <1>1, <1>2, <1>3, <1>4, <1>5, <1>6

\* provisionRest ends with the new PostgREST advertised; GoTrue stays up.
LEMMA RestRuns ==
    ASSUME TypeOK, TypeOK', NEW p \in Procs, RunKnown(op[p]), RestKnown(op[p]),
           \/ RestRead(p) \/ RestRm(p) \/ RestRun(p) \/ RestHealth(p) \/ RestUrl(p)
    PROVE  RunKnown(op[p])'
<1> op[p] \in Calls /\ row \in Rows
  BY DEF TypeOK
<1> USE DEF At, Become, Goto, TypeOK, Calls, Rows, RunKnown, AuthUp, RestUp,
            AuthPcs, RestPcs, WaitPcs, DatabasePcs, infra, counters, Update
<1>1. CASE RestRead(p)
  BY <1>1 DEF RestRead
<1>2. CASE RestRm(p)
  BY <1>2 DEF RestRm
<1>3. CASE RestRun(p)
  BY <1>3 DEF RestRun
<1>4. CASE RestHealth(p)
  BY <1>4 DEF RestHealth
<1>5. CASE RestUrl(p)
  BY <1>5 DEF RestUrl, AfterRest, RestKnown, Idle
<1> QED
  BY <1>1, <1>2, <1>3, <1>4, <1>5

\* The waits take nothing down, and go round once at most.
LEMMA WaitRuns ==
    ASSUME TypeOK, TypeOK', NEW p \in Procs, RunKnown(op[p]),
           WaitAuth(p) \/ WaitRest(p) \/ Reprovision(p) \/ MarkLive(p)
    PROVE  RunKnown(op[p])'
<1> op[p] \in Calls /\ row \in Rows
  BY DEF TypeOK
<1> USE DEF At, Become, Goto, TypeOK, Calls, Rows, RunKnown, AuthUp, RestUp,
            AuthPcs, RestPcs, WaitPcs, DatabasePcs, infra, counters, Update
<1>1. CASE WaitAuth(p)
  BY <1>1 DEF WaitAuth
<1>2. CASE WaitRest(p)
  BY <1>2 DEF WaitRest
<1>3. CASE Reprovision(p)
  BY <1>3 DEF Reprovision, FirstWindow
<1>4. CASE MarkLive(p)
  BY <1>4 DEF MarkLive, Idle
<1> QED
  BY <1>1, <1>2, <1>3, <1>4

\* Destroying, switching off and failing end in no run; a run that fails goes
\* to its catch.
LEMMA OtherRuns ==
    ASSUME TypeOK, TypeOK', NEW p \in Procs, RunKnown(op[p]),
           DestroyStep(p) \/ Fail(p) \/ MarkError(p)
    PROVE  RunKnown(op[p])'
<1> op[p] \in Calls /\ row \in Rows
  BY DEF TypeOK
<1> USE DEF At, Become, Goto, TypeOK, Calls, Rows, RunKnown, AuthUp, RestUp,
            AuthPcs, RestPcs, WaitPcs, DatabasePcs, infra, counters, Update, Idle
<1>1. CASE RestGone(p) \/ RestForget(p) \/ AuthGone(p)
  BY <1>1 DEF RestGone, RestForget, AuthGone
<1>2. CASE TenantGone(p) \/ DbGone(p) \/ RoleGone(p) \/ RowGone(p)
  BY <1>2 DEF TenantGone, DbGone, RoleGone, RowGone
<1>3. CASE Fail(p) \/ MarkError(p)
  BY <1>3 DEF Fail, MarkError
<1> QED
  BY <1>1, <1>2, <1>3 DEF DestroyStep

\* What each run knows of the sidecars is inductive beside CredentialInv.
LEMMA DeployStep ==
    Serialised /\ TypeOK /\ CredentialInv /\ DeployInv /\ [Next]_vars => DeployInv'
<1> SUFFICES ASSUME Serialised, TypeOK, CredentialInv, DeployInv, [Next]_vars
             PROVE  DeployInv'
  OBVIOUS
<1>1. TypeOK' /\ Solo' /\ Solo
  BY TypeStep, CredentialStep DEF CredentialInv
<1>2. ASSUME NEW p \in Procs, Step(p) PROVE DeployInv'
  <2>1. \A q \in Procs : q # p => op'[q] = op[q]
    BY <1>2 DEF Step, ProvisionStep, DestroyStep, DetailStep, Become, Goto, TypeOK,
       Register, DbRead, EnsureRole, GrantMembership, EnsureDatabase,
       GrantAndMigrate, SaveDatabase, RegisterTenant, AuthRead, AuthSave, AuthRm,
       AuthRun, AuthHealth, AuthUrl, RestRead, RestRm, RestRun, RestHealth, RestUrl,
       WaitAuth, WaitRest, Reprovision, MarkLive, RestGone, RestForget, AuthGone,
       TenantGone, DbGone, RoleGone, RowGone, DetailRead, DetailProbe, DetailHeal,
       Fail, MarkError
  <2>2. CASE Mutator(p)
    <3>1. ~DetailStep(p)
      BY <2>2, <1>1 DEF Solo, Mutator, DetailPcs, DetailStep, DetailRead, DetailProbe,
         DetailHeal, At
    <3>2. RunKnown(op[p]) /\ AuthKnown(op[p]) /\ RestKnown(op[p])
      BY DEF DeployInv, CredentialInv, CallKnows
    <3>3. RunKnown(op[p])'
      BY <1>1, <1>2, <3>1, <3>2, DatabaseRuns, AuthRuns, RestRuns, WaitRuns, OtherRuns
      DEF Step, ProvisionStep
    <3>4. \A q \in Procs : q # p => RunKnown(op[q])'
      BY <1>1, <2>1, <2>2, OthersRunNothing
    <3> QED
      BY <3>3, <3>4 DEF DeployInv
  <2>3. CASE ~Mutator(p)
    <3>1. DetailStep(p) \/ (Fail(p) /\ op[p].kind = "detail")
      <4>1. ASSUME ProvisionStep(p) PROVE op[p].pc \notin DetailPcs \cup {"idle"}
        BY <4>1 DEF ProvisionStep, DetailPcs, At, Register, DbRead, EnsureRole, GrantMembership, EnsureDatabase,
           GrantAndMigrate, SaveDatabase, RegisterTenant, AuthRead, AuthSave, AuthRm,
           AuthRun, AuthHealth, AuthUrl, RestRead, RestRm, RestRun, RestHealth, RestUrl,
           WaitAuth, WaitRest, Reprovision, FirstWindow, MarkLive
      <4>2. ASSUME DestroyStep(p) PROVE op[p].pc \notin DetailPcs \cup {"idle"}
        BY <4>2 DEF DestroyStep, DetailPcs, At, RestGone, RestForget, AuthGone,
           TenantGone, DbGone, RoleGone, RowGone
      <4>3. ASSUME Fail(p) \/ MarkError(p) PROVE op[p].pc # "idle"
        BY <4>3 DEF Fail, MarkError, At
      <4>4. ~MarkError(p) \/ op[p].pc \notin DetailPcs
        BY DEF MarkError, At, DetailPcs
      <4> QED
        BY <1>1, <1>2, <2>3, <4>1, <4>2, <4>3, <4>4 DEF Solo, Mutator, At, Step
    <3>2. /\ UNCHANGED <<auth, rest>>
          /\ row' \in {row, [row EXCEPT !.status = "live"]}
          /\ row.status = "absent" => row' = row
      BY <3>1 DEF DetailStep, DetailRead, DetailProbe, DetailHeal, Fail, Update, infra
    <3>3. op'[p].pc \in DetailPcs \cup {"idle"}
      <4>1. op[p] \in Calls
        BY DEF TypeOK
      <4> USE DEF Goto, Become, Calls, TypeOK, DetailPcs, Idle, At
      <4>2. CASE DetailRead(p)
        BY <4>1, <4>2 DEF DetailRead
      <4>3. CASE DetailProbe(p)
        BY <4>1, <4>3 DEF DetailProbe
      <4>4. CASE DetailHeal(p)
        BY <4>1, <4>4 DEF DetailHeal
      <4>5. CASE Fail(p) /\ op[p].kind = "detail"
        BY <4>1, <4>5 DEF Fail
      <4> QED
        BY <3>1, <4>2, <4>3, <4>4, <4>5 DEF DetailStep
    <3>4. RunKnown(op[p])'
      BY <1>1, <3>3 DEF Solo, RunKnown, DetailPcs, AuthPcs, RestPcs, WaitPcs, DatabasePcs
    <3>5. ASSUME NEW q \in Procs, q # p PROVE RunKnown(op[q])'
      <4>1. op'[q] = op[q] /\ RunKnown(op[q]) /\ row \in Rows
        BY <2>1, <3>5 DEF DeployInv, TypeOK
      <4> QED
        BY <3>2, <4>1 DEF RunKnown, AuthUp, RestUp, Rows
    <3> QED
      BY <3>4, <3>5 DEF DeployInv
  <2> QED
    BY <2>2, <2>3
<1>3. ASSUME NEW p \in Procs, Arrive(p) PROVE DeployInv'
  <2>1. PICK k \in Kinds, w \in BOOLEAN : Begin(p, k, w)
    BY <1>3 DEF Arrive
  <2>2. /\ op' = [op EXCEPT ![p] = [Idle EXCEPT !.kind = k, !.pc = FirstPc(k), !.rest = w]]
        /\ UNCHANGED <<row, auth, rest>>
    BY <2>1 DEF Begin, Become, infra
  <2>3. RunKnown(op[p])'
    <3>1. op'[p].kind = k /\ op'[p].pc = FirstPc(k) /\ op'[p].heal = "none"
      BY <2>2 DEF TypeOK, Idle
    <3>2. FirstPc(k) \in {"register", "dbRead", "authRead", "authGone", "restRead",
                          "restGone", "detRead"}
      BY Names DEF FirstPc, AllKinds
    <3>3. k = "create" => FirstPc(k) = "register"
      BY DEF FirstPc
    <3> QED
      BY <3>1, <3>2, <3>3 DEF RunKnown, WaitPcs
  <2>4. \A q \in Procs : q # p => op'[q] = op[q]
    BY <2>2 DEF TypeOK
  <2> QED
    BY <2>2, <2>3, <2>4 DEF DeployInv, RunKnown, AuthUp, RestUp
<1>4. CASE Crash
  <2>1. /\ \A q \in Procs : op'[q] = op[q] \/ op'[q] = Idle
        /\ UNCHANGED <<row, auth, rest>>
    BY <1>4 DEF Crash, infra
  <2> QED
    BY <2>1 DEF DeployInv, RunKnown, AuthUp, RestUp, Idle, WaitPcs, DatabasePcs
<1>5. CASE UNCHANGED vars
  BY <1>5 DEF vars, DeployInv, RunKnown, AuthUp, RestUp
<1> QED
  BY <1>2, <1>3, <1>4, <1>5 DEF Next, Quiet

\* Serialised: whenever a background run is about to write 'live', the registry
\* advertises the GoTrue that runs and, where it was asked for, the PostgREST
\* that runs, though the run may have replaced either of them once meanwhile.
THEOREM LiveIsDeployed == Serialised => (Spec => []MarkLiveDeployed)
<1> SUFFICES ASSUME Serialised PROVE Spec => []MarkLiveDeployed
  OBVIOUS
<1>1. Init => DeployInv
  <2> SUFFICES ASSUME Init PROVE DeployInv
    OBVIOUS
  <2>1. \A p \in Procs : op[p] = Idle
    BY DEF Init
  <2>2. Idle.kind = "none" /\ Idle.pc = "idle"
    BY DEF Idle
  <2>3. RunKnown(Idle)
    BY <2>2 DEF RunKnown, WaitPcs, DatabasePcs
  <2> QED
    BY <2>1, <2>3 DEF DeployInv
<1>2. DeployInv => MarkLiveDeployed
  BY DEF DeployInv, MarkLiveDeployed, RunKnown, WaitPcs, Deployed, At
<1> QED
  BY <1>1, <1>2, DeployStep, CredentialInvariant, ProvisionTypeOK, PTL DEF Spec

=============================================================================
