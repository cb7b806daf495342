------------------------------ MODULE Provision ------------------------------
(***************************************************************************)
(* The life of ONE project: the calls of the management API and of the CLI *)
(* that create it, switch its sidecars on and off, poll it and destroy it. *)
(*                                                                         *)
(* A call is an async function; it is modelled at await granularity, so    *)
(* calls in flight interleave between any two database queries or docker   *)
(* commands.  State lives in four places: the registry row (control        *)
(* database), the project's Postgres role and database, the pooler tenant, *)
(* and the two containers (GoTrue = auth, PostgREST = rest).  Sidecars are *)
(* those of the docker provisioner, whose host port changes on every run.  *)
(*                                                                         *)
(* Passwords, secrets and ports are drawn from one counter, `fresh`:       *)
(* crypto.randomBytes and docker's port 0 never repeat a value, and        *)
(* nothing in the code depends on more than equality.                      *)
(***************************************************************************)
EXTENDS Naturals

CONSTANTS
    Procs,        \* slots for calls in flight
    Kinds,        \* the calls callers make
    Overlapping,  \* the calls that may start while another is in flight
    MaxCalls,     \* bound: calls made in a behaviour
    MaxOutages    \* bound: control-plane crashes plus registry writes lost

AllKinds == {"create", "cli", "authOn", "authOff", "restOn", "restOff",
             "destroy", "detail"}

ASSUME KindsAssumption == Kinds \subseteq AllKinds /\ Overlapping \subseteq AllKinds
ASSUME BoundsAssumption == MaxCalls \in Nat /\ MaxOutages \in Nat

VARIABLES
    row,      \* the registry row of the project (control db, table projects)
    role,     \* password of the role <name>_authenticator, None if no role
    member,   \* that role is a member of anon and authenticated
    db,       \* the database db_<name> exists
    tenant,   \* upstream password the pooler holds for the tenant, or None
    auth,     \* the container hauldr-auth-<name>
    rest,     \* the container hauldr-rest-<name>
    op,       \* the call each slot is executing: its pc and its locals
    fresh,    \* next random value
    calls, outages

vars == <<row, role, member, db, tenant, auth, rest, op, fresh, calls, outages>>

None == 0

Status == {"absent", "provisioning", "live", "error"}

NoRow == [status |-> "absent", pw |-> None, secret |-> None,
          authUrl |-> None, restUrl |-> None, restReq |-> FALSE]

\* A container: its host port and what it was started with.
NoBox == [port |-> None, pw |-> None, secret |-> None]

Idle == [kind |-> "none", pc |-> "idle", rest |-> FALSE, stored |-> FALSE,
         live |-> FALSE, pw |-> None, secret |-> None, port |-> None,
         aurl |-> None, rurl |-> None, heal |-> "none"]

Pcs == {"idle", "register",
        "dbRead", "role", "member", "db", "grant", "saveDb", "tenant",
        "authRead", "authSave", "authRm", "authRun", "authHealth", "authUrl",
        "restRead", "restRm", "restRun", "restHealth", "restUrl",
        "waitAuth", "waitRest", "markLive", "catch",
        "restGone", "restForget", "authGone", "tenantGone", "dbGone",
        "roleGone", "rowGone",
        "detRead", "detProbe", "detHeal"}

Rows  == [status: Status, pw: Nat, secret: Nat, authUrl: Nat, restUrl: Nat,
          restReq: BOOLEAN]
Boxes == [port: Nat, pw: Nat, secret: Nat]
Calls == [kind: AllKinds \cup {"none"}, pc: Pcs, rest: BOOLEAN, stored: BOOLEAN,
          live: BOOLEAN, pw: Nat, secret: Nat, port: Nat, aurl: Nat, rurl: Nat,
          heal: {"none", "auth", "rest"}]

TypeOK ==
    /\ row \in Rows
    /\ role \in Nat /\ member \in BOOLEAN /\ db \in BOOLEAN /\ tenant \in Nat
    /\ auth \in Boxes /\ rest \in Boxes
    /\ op \in [Procs -> Calls]
    /\ fresh \in Nat \ {None} /\ calls \in Nat /\ outages \in Nat

Init ==
    /\ row = NoRow /\ role = None /\ member = FALSE /\ db = FALSE /\ tenant = None
    /\ auth = NoBox /\ rest = NoBox
    /\ op = [p \in Procs |-> Idle]
    /\ fresh = 1 /\ calls = 0 /\ outages = 0

-----------------------------------------------------------------------------
(* Helpers.                                                                *)

At(p, pc) == op[p].pc = pc

Become(p, o) == op' = [op EXCEPT ![p] = o]

Goto(p, pc) == Become(p, IF pc = "idle" THEN Idle ELSE [op[p] EXCEPT !.pc = pc])

\* `update projects set ... where name = $1`: no effect without a row.
Update(r) == row' = IF row.status = "absent" THEN row ELSE r

\* A probe of a url succeeds only if the container answering there is the one
\* that was given that port; PostgREST also needs its database, its login and
\* the role it switches to.
AuthAnswers(url) == url # None /\ auth.port = url
RestAnswers(url) == url # None /\ rest.port = url /\ db /\ member /\ rest.pw = role

counters == <<fresh, calls, outages>>
infra    == <<role, member, db, tenant, auth, rest>>

-----------------------------------------------------------------------------
(* A call arrives.  Nothing in the code serialises calls on one project;   *)
(* Overlapping says which ones the environment does let overlap.           *)

FirstPc(k) ==
    CASE k = "create"  -> "register"
      [] k = "cli"     -> "dbRead"
      [] k = "authOn"  -> "authRead"
      [] k = "authOff" -> "authGone"
      [] k = "restOn"  -> "restRead"
      [] k = "restOff" -> "restGone"
      [] k = "destroy" -> "restGone"
      [] k = "detail"  -> "detRead"

Begin(p, k, wantRest) ==
    /\ At(p, "idle") /\ calls < MaxCalls
    /\ wantRest => k = "create"
    /\ \/ k \in Overlapping
       \/ \A q \in Procs : At(q, "idle") \/ op[q].kind \in Overlapping
    /\ Become(p, [Idle EXCEPT !.kind = k, !.pc = FirstPc(k), !.rest = wantRest])
    /\ calls' = calls + 1
    /\ UNCHANGED <<row, infra, fresh, outages>>

-----------------------------------------------------------------------------
(* startProvision: register as 'provisioning'; the rest runs detached.     *)

Register(p) ==
    /\ At(p, "register")
    /\ row' = [row EXCEPT !.status = "provisioning", !.restReq = op[p].rest]
    /\ Goto(p, "dbRead")
    /\ UNCHANGED <<infra, counters>>

(* provisionDatabase: the stored password is read first and written last.  *)

\* Fault: the database is created before, and without, its role.
DbReadSkipsRole(p) ==
    /\ At(p, "dbRead")
    /\ Become(p, [op[p] EXCEPT !.pc = "db", !.stored = row.pw # None,
                               !.pw = IF row.pw # None THEN row.pw ELSE fresh])
    /\ fresh' = fresh + 1
    /\ UNCHANGED <<row, infra, calls, outages>>

DbRead(p) ==
    LET stored == row.pw # None IN
    /\ At(p, "dbRead")
    /\ Become(p, [op[p] EXCEPT !.pc = "role", !.stored = stored,
                               !.pw = IF stored THEN row.pw ELSE fresh])
    /\ fresh' = IF stored THEN fresh ELSE fresh + 1
    /\ UNCHANGED <<row, infra, calls, outages>>

\* Fault: an existing role whose password was never stored is left alone.
EnsureRoleNoReset(p) ==
    /\ At(p, "role")
    /\ role' = IF role = None THEN op[p].pw ELSE role
    /\ member' = (role # None /\ member)
    /\ Goto(p, IF role = None THEN "member" ELSE "db")
    /\ UNCHANGED <<row, db, tenant, auth, rest, counters>>

EnsureRole(p) ==
    /\ At(p, "role")
    /\ role' = IF role = None \/ ~op[p].stored THEN op[p].pw ELSE role
    /\ member' = (role # None /\ member)
    /\ Goto(p, IF role = None THEN "member" ELSE "db")
    /\ UNCHANGED <<row, db, tenant, auth, rest, counters>>

\* Only the call that creates the role grants it anon and authenticated.
GrantMembership(p) ==
    /\ At(p, "member") /\ role # None
    /\ member' = TRUE
    /\ Goto(p, "db")
    /\ UNCHANGED <<row, role, db, tenant, auth, rest, counters>>

EnsureDatabase(p) ==
    /\ At(p, "db")
    /\ db' = TRUE
    /\ Goto(p, "grant")
    /\ UNCHANGED <<row, role, member, tenant, auth, rest, counters>>

GrantAndMigrate(p) ==
    /\ At(p, "grant") /\ db /\ role # None
    /\ Goto(p, "saveDb")
    /\ UNCHANGED <<row, infra, counters>>

\* An insert that does not name `status` takes the column default, 'live'.
SaveDatabase(p) ==
    /\ At(p, "saveDb")
    /\ row' = [row EXCEPT !.pw = op[p].pw,
                          !.status = IF @ = "absent" THEN "live" ELSE @]
    /\ Goto(p, "tenant")
    /\ UNCHANGED <<infra, counters>>

RegisterTenant(p) ==
    /\ At(p, "tenant")
    /\ tenant' = op[p].pw
    /\ Goto(p, "authRead")
    /\ UNCHANGED <<row, role, member, db, auth, rest, counters>>

-----------------------------------------------------------------------------
(* provisionAuth: keep or draw the JWT secret, save it, replace the        *)
(* container, wait for it, save its url.                                   *)

\* Fault: every provisioning draws a new secret.
AuthReadRedraws(p) ==
    /\ At(p, "authRead")
    /\ Become(p, [op[p] EXCEPT !.pc = "authSave", !.secret = fresh])
    /\ fresh' = fresh + 1
    /\ UNCHANGED <<row, infra, calls, outages>>

AuthRead(p) ==
    LET stored == row.secret # None IN
    /\ At(p, "authRead")
    /\ Become(p, [op[p] EXCEPT !.pc = "authSave",
                               !.secret = IF stored THEN row.secret ELSE fresh])
    /\ fresh' = IF stored THEN fresh ELSE fresh + 1
    /\ UNCHANGED <<row, infra, calls, outages>>

\* Fault: the secret is handed to GoTrue but not saved.
AuthSaveForgets(p) ==
    /\ At(p, "authSave") /\ db
    /\ Goto(p, "authRm")
    /\ UNCHANGED <<row, infra, counters>>

AuthSave(p) ==
    /\ At(p, "authSave") /\ db
    /\ Update([row EXCEPT !.secret = op[p].secret])
    /\ Goto(p, "authRm")
    /\ UNCHANGED <<infra, counters>>

\* docker rm -f; its failure is swallowed.
AuthRm(p) ==
    /\ At(p, "authRm")
    /\ auth' \in {NoBox, auth}
    /\ Goto(p, "authRun")
    /\ UNCHANGED <<row, role, member, db, tenant, rest, counters>>

\* docker run --name: refused while a container of that name exists.
AuthRun(p) ==
    /\ At(p, "authRun") /\ auth = NoBox
    /\ auth' = [port |-> fresh, pw |-> None, secret |-> op[p].secret]
    /\ Become(p, [op[p] EXCEPT !.pc = "authHealth", !.port = fresh])
    /\ fresh' = fresh + 1
    /\ UNCHANGED <<row, role, member, db, tenant, rest, calls, outages>>

AuthHealth(p) ==
    /\ At(p, "authHealth") /\ AuthAnswers(op[p].port)
    /\ Goto(p, "authUrl")
    /\ UNCHANGED <<row, infra, counters>>

AfterAuth(o) ==
    CASE o.kind # "create"            -> "idle"
      [] o.kind = "create" /\ o.rest /\ o.heal = "none" -> "restRead"
      [] OTHER                        -> "waitAuth"

\* The url the background run waits on is the one the first run returned.
AuthUrl(p) ==
    LET o == op[p] IN
    /\ At(p, "authUrl")
    /\ Update([row EXCEPT !.authUrl = o.port])
    /\ Become(p, IF AfterAuth(o) = "idle" THEN Idle
                 ELSE [o EXCEPT !.pc = AfterAuth(o),
                                !.aurl = IF o.heal = "none" THEN o.port ELSE @])
    /\ UNCHANGED <<infra, counters>>

-----------------------------------------------------------------------------
(* provisionRest: needs the stored password and secret; replace the        *)
(* container, wait for it, save its url.                                   *)

RestRead(p) ==
    /\ At(p, "restRead") /\ row.pw # None /\ row.secret # None
    /\ Become(p, [op[p] EXCEPT !.pc = "restRm", !.pw = row.pw,
                               !.secret = row.secret])
    /\ UNCHANGED <<row, infra, counters>>

RestRm(p) ==
    /\ At(p, "restRm")
    /\ rest' \in {NoBox, rest}
    /\ Goto(p, "restRun")
    /\ UNCHANGED <<row, role, member, db, tenant, auth, counters>>

RestRun(p) ==
    /\ At(p, "restRun") /\ rest = NoBox
    /\ rest' = [port |-> fresh, pw |-> op[p].pw, secret |-> op[p].secret]
    /\ Become(p, [op[p] EXCEPT !.pc = "restHealth", !.port = fresh])
    /\ fresh' = fresh + 1
    /\ UNCHANGED <<row, role, member, db, tenant, auth, calls, outages>>

RestHealth(p) ==
    /\ At(p, "restHealth") /\ RestAnswers(op[p].port)
    /\ Goto(p, "restUrl")
    /\ UNCHANGED <<row, infra, counters>>

AfterRest(o) ==
    CASE o.kind # "create"                     -> "idle"
      [] o.kind = "create" /\ o.heal = "rest"  -> "waitRest"
      [] OTHER                                 -> "waitAuth"

\* Fault: the url of the new PostgREST is not saved.
RestUrlForgets(p) ==
    LET o == op[p] IN
    /\ At(p, "restUrl")
    /\ Become(p, IF AfterRest(o) = "idle" THEN Idle
                 ELSE [o EXCEPT !.pc = AfterRest(o),
                                !.rurl = IF o.heal = "none" THEN o.port ELSE @])
    /\ UNCHANGED <<row, infra, counters>>

RestUrl(p) ==
    LET o == op[p] IN
    /\ At(p, "restUrl")
    /\ Update([row EXCEPT !.restUrl = o.port])
    /\ Become(p, IF AfterRest(o) = "idle" THEN Idle
                 ELSE [o EXCEPT !.pc = AfterRest(o),
                                !.rurl = IF o.heal = "none" THEN o.port ELSE @])
    /\ UNCHANGED <<infra, counters>>

-----------------------------------------------------------------------------
(* The end of the background run: wait for each sidecar, re-provisioning   *)
(* it once if the first window closes, then mark the project live.         *)

WaitAuth(p) ==
    /\ At(p, "waitAuth") /\ AuthAnswers(op[p].aurl)
    /\ Become(p, [op[p] EXCEPT !.heal = "none",
                      !.pc = IF op[p].rest THEN "waitRest" ELSE "markLive"])
    /\ UNCHANGED <<row, infra, counters>>

WaitRest(p) ==
    /\ At(p, "waitRest") /\ RestAnswers(op[p].rurl)
    /\ Goto(p, "markLive")
    /\ UNCHANGED <<row, infra, counters>>

\* waitStableHealing's first window closes; a probe may fail at any time.
FirstWindow(o) == o.heal = "none" /\ o.pc \in {"waitAuth", "waitRest"}

Reprovision(p) ==
    /\ FirstWindow(op[p])
    /\ Become(p, IF At(p, "waitAuth")
                 THEN [op[p] EXCEPT !.pc = "authRead", !.heal = "auth"]
                 ELSE [op[p] EXCEPT !.pc = "restRead", !.heal = "rest"])
    /\ UNCHANGED <<row, infra, counters>>

MarkLive(p) ==
    /\ At(p, "markLive")
    /\ Update([row EXCEPT !.status = "live"])
    /\ Goto(p, "idle")
    /\ UNCHANGED <<infra, counters>>

-----------------------------------------------------------------------------
(* Failures.  Any awaited step may throw before it takes effect (a failure *)
(* after the effect is one of the next step).  Steps whose errors the code *)
(* swallows cannot throw; they have an alternative without effect instead. *)

Swallows == {"restGone", "restForget", "authGone"}

\* Fault: the background run has no catch.
FailUncaught(p) ==
    /\ op[p].pc \notin Swallows \cup {"idle", "catch"}
    /\ ~FirstWindow(op[p])
    /\ Goto(p, "idle")
    /\ UNCHANGED <<row, infra, counters>>

Fail(p) ==
    /\ op[p].pc \notin Swallows \cup {"idle", "catch"}
    /\ ~FirstWindow(op[p])
    /\ Goto(p, IF op[p].kind = "create" /\ ~At(p, "register") THEN "catch"
               ELSE "idle")
    /\ UNCHANGED <<row, infra, counters>>

MarkError(p) ==
    /\ At(p, "catch")
    /\ \/ Update([row EXCEPT !.status = "error"]) /\ UNCHANGED outages
       \/ outages < MaxOutages /\ outages' = outages + 1 /\ UNCHANGED row
    /\ Goto(p, "idle")
    /\ UNCHANGED <<infra, fresh, calls>>

\* The control-plane process dies: every API call in flight vanishes, the CLI's
\* own process stays.  Nothing resumes a detached run at the next start.
Crash ==
    /\ outages < MaxOutages /\ outages' = outages + 1
    /\ op' = [p \in Procs |-> IF op[p].kind = "cli" THEN op[p] ELSE Idle]
    /\ UNCHANGED <<row, infra, fresh, calls>>

-----------------------------------------------------------------------------
(* destroyRest and destroyAuth alone, or within destroyProject, which goes *)
(* on to the tenant, the database, the role and the row, in that order.    *)

RestGone(p) ==
    /\ At(p, "restGone")
    /\ rest' \in {NoBox, rest}
    /\ Goto(p, "restForget")
    /\ UNCHANGED <<row, role, member, db, tenant, auth, counters>>

RestForget(p) ==
    /\ At(p, "restForget")
    /\ row' \in {row, [row EXCEPT !.restUrl = None]}
    /\ Goto(p, IF op[p].kind = "destroy" THEN "authGone" ELSE "idle")
    /\ UNCHANGED <<infra, counters>>

AuthGone(p) ==
    /\ At(p, "authGone")
    /\ auth' \in {NoBox, auth}
    /\ Goto(p, IF op[p].kind = "destroy" THEN "tenantGone" ELSE "idle")
    /\ UNCHANGED <<row, role, member, db, tenant, rest, counters>>

\* Fault: the pooler is not told.
TenantGoneForgets(p) ==
    /\ At(p, "tenantGone")
    /\ Goto(p, "dbGone")
    /\ UNCHANGED <<row, infra, counters>>

TenantGone(p) ==
    /\ At(p, "tenantGone")
    /\ tenant' = None
    /\ Goto(p, "dbGone")
    /\ UNCHANGED <<row, role, member, db, auth, rest, counters>>

\* Fault: the role is not dropped with the database.
DbGoneKeepsRole(p) ==
    /\ At(p, "dbGone")
    /\ db' = FALSE
    /\ Goto(p, "rowGone")
    /\ UNCHANGED <<row, role, member, tenant, auth, rest, counters>>

DbGone(p) ==
    /\ At(p, "dbGone")
    /\ db' = FALSE
    /\ Goto(p, "roleGone")
    /\ UNCHANGED <<row, role, member, tenant, auth, rest, counters>>

\* A role holding a grant on an existing database cannot be dropped.
RoleGone(p) ==
    /\ At(p, "roleGone") /\ ~db
    /\ role' = None /\ member' = FALSE
    /\ Goto(p, "rowGone")
    /\ UNCHANGED <<row, db, tenant, auth, rest, counters>>

RowGone(p) ==
    /\ At(p, "rowGone")
    /\ row' = NoRow
    /\ Goto(p, "idle")
    /\ UNCHANGED <<infra, counters>>

-----------------------------------------------------------------------------
(* getProjectDetail: the row is read, then the sidecars are probed, then a *)
(* status that is not 'live' is healed by an unconditional update.         *)

DetailRead(p) ==
    /\ At(p, "detRead")
    /\ Become(p, IF row.status = "absent" THEN Idle
                 ELSE [op[p] EXCEPT !.pc = "detProbe", !.aurl = row.authUrl,
                           !.rurl = row.restUrl, !.rest = row.restReq,
                           !.live = row.status = "live"])
    /\ UNCHANGED <<row, infra, counters>>

\* Fault: a poll of a project that is not ready reads and probes again.
DetailProbeWaits(p) ==
    LET o == op[p]
        ready == AuthAnswers(o.aurl) /\ (o.rest => RestAnswers(o.rurl)) IN
    /\ At(p, "detProbe")
    /\ Goto(p, IF o.live THEN "idle" ELSE IF ready THEN "detHeal" ELSE "detRead")
    /\ UNCHANGED <<row, infra, counters>>

DetailProbe(p) ==
    LET o == op[p]
        ready == AuthAnswers(o.aurl) /\ (o.rest => RestAnswers(o.rurl)) IN
    /\ At(p, "detProbe")
    /\ \/ ready /\ ~o.live /\ Goto(p, "detHeal")
       \/ Goto(p, "idle")
    /\ UNCHANGED <<row, infra, counters>>

DetailHeal(p) ==
    /\ At(p, "detHeal")
    /\ Update([row EXCEPT !.status = "live"])
    /\ Goto(p, "idle")
    /\ UNCHANGED <<infra, counters>>

-----------------------------------------------------------------------------
ProvisionStep(p) ==
    \/ Register(p)
    \/ DbRead(p) \/ EnsureRole(p) \/ GrantMembership(p) \/ EnsureDatabase(p)
    \/ GrantAndMigrate(p) \/ SaveDatabase(p) \/ RegisterTenant(p)
    \/ AuthRead(p) \/ AuthSave(p) \/ AuthRm(p) \/ AuthRun(p)
    \/ AuthHealth(p) \/ AuthUrl(p)
    \/ RestRead(p) \/ RestRm(p) \/ RestRun(p) \/ RestHealth(p) \/ RestUrl(p)
    \/ WaitAuth(p) \/ WaitRest(p) \/ Reprovision(p) \/ MarkLive(p)

DestroyStep(p) ==
    \/ RestGone(p) \/ RestForget(p) \/ AuthGone(p) \/ TenantGone(p)
    \/ DbGone(p) \/ RoleGone(p) \/ RowGone(p)

DetailStep(p) == DetailRead(p) \/ DetailProbe(p) \/ DetailHeal(p)

Step(p) == \/ ProvisionStep(p) \/ DestroyStep(p) \/ DetailStep(p)
           \/ Fail(p) \/ MarkError(p)

Arrive(p) == \E k \in Kinds, wantRest \in BOOLEAN : Begin(p, k, wantRest)

\* All calls made and all of them over: the system rests.
Quiet == calls = MaxCalls /\ (\A p \in Procs : At(p, "idle")) /\ UNCHANGED vars

Next == \/ \E p \in Procs : Arrive(p) \/ Step(p)
        \/ Crash
        \/ Quiet

Spec == Init /\ [][Next]_vars

\* The event loop runs every pending continuation, and every wait is bounded
\* by a number of tries: a call in flight that can move does move.
FairSpec == Spec /\ \A p \in Procs : WF_vars(Step(p))

-----------------------------------------------------------------------------
(* Properties.  "Serialised" means Overlapping \subseteq {"detail"}: one   *)
(* call that changes the project at a time, any number of polls.           *)

Serialised == Overlapping \subseteq {"detail"}

\* Serialised: whenever the registry holds a password and the role exists, that
\* password logs in.  No code path repairs a stored password that does not match
\* (the role is only altered while none is stored), through crashes, failures
\* and re-runs at any step of provisionDatabase and destroyProject.
RolePasswordAgrees ==
    row.pw # None /\ role # None => role = row.pw

\* Serialised: the credential the pooler uses upstream is the role's, also while
\* the project is being destroyed, re-created, or left half done.
PoolerCredentialValid == tenant # None => tenant = role

\* Serialised: a database never outlives, nor precedes, the one role that may
\* connect to it: created after the role, dropped before it.
DatabaseHasRole == db => role # None

\* Serialised: a container the registry advertises runs with the credentials the
\* registry hands to apps, so tokens of the advertised GoTrue validate at the
\* advertised PostgREST, which logs in whenever the role exists.
AdvertisedSidecarsValid ==
    /\ row.authUrl # None /\ auth.port = row.authUrl => auth.secret = row.secret
    /\ row.restUrl # None /\ rest.port = row.restUrl =>
         /\ rest.secret = row.secret
         /\ rest.pw = row.pw

\* Serialised: as long as the row lives, a password or JWT secret once stored is
\* never replaced: re-provisioning is idempotent and tokens stay valid.
CredentialsStable ==
    [][/\ row.pw # None /\ row'.status # "absent" => row'.pw = row.pw
       /\ row.secret # None /\ row'.status # "absent" => row'.secret = row.secret]_vars

\* Whatever overlaps: the JWT secret once stored is not replaced while the row
\* lives ("re-provisioning is idempotent and tokens stay valid").
SecretStable ==
    [][row.secret # None /\ row'.status # "absent" => row'.secret = row.secret]_vars

\* The sidecars that a live project needs are the running ones.
AuthUp   == row.authUrl # None /\ auth.port = row.authUrl
RestUp   == row.restUrl # None /\ rest.port = row.restUrl
Deployed == AuthUp /\ (row.restReq => RestUp)

\* Serialised: a background run reaches its final update only when the registry
\* advertises the running GoTrue and, when requested, the running PostgREST.
MarkLiveDeployed == \A p \in Procs : At(p, "markLive") => Deployed

\* 'live' only once the sidecars, PostgREST included when requested, are up:
\* whoever makes the status 'live' does so over running, advertised sidecars.
LiveMeansDeployed ==
    [][row.status # "live" /\ row'.status = "live" => Deployed']_vars

\* Serialised: the row is forgotten last.  When it goes, nothing that carries a
\* credential of the project is left: no tenant, no database, no role.
ForgottenLast ==
    [][row.status # "absent" /\ row'.status = "absent" =>
        tenant = None /\ ~db /\ role = None]_vars

\* After its one re-provisioning, the background run waits again "before giving
\* up": on the container that re-provisioning started.
HealWaitsOnNewSidecar ==
    \A p \in Procs : At(p, "waitAuth") /\ op[p].heal = "auth" =>
        op[p].aurl = row.authUrl

\* A project whose provisioning has stored its password has a role that may act
\* as anon and authenticated, since provisionDatabase is idempotent on the role.
ProvisionedRoleIsMember == row.pw # None /\ role # None => member

\* Every call ends: each wait is bounded, a failed sidecar is re-provisioned at
\* most once, and the catch of the background run always comes to an end.
CallsFinish == \A p \in Procs : ~At(p, "idle") ~> At(p, "idle")

\* Without an outage no project stays 'provisioning': it goes live, errors, or
\* is destroyed.
ProvisioningSettles ==
    (row.status = "provisioning" /\ outages = 0)
        ~> (row.status # "provisioning" \/ outages > 0)

=============================================================================
