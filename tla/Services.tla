------------------------------- MODULE Services -------------------------------
(***************************************************************************)
(* The services layered on a project.  In production an orchestrator       *)
(* (Coolify) runs auth, rest and storage as applications found by name,    *)
(* created and deleted asynchronously, with a DNS record per host in legacy *)
(* mode; on one machine docker runs them as containers, as it runs functions *)
(* everywhere.  The object store (Garage) has a bucket and a key per project, *)
(* the shared Realtime service a tenant.  destroyProject removes them all, and *)
(* a sweep brings the routes of the applications up to date.               *)
(*                                                                         *)
(* A call is a program of steps, one per request it makes; calls on one    *)
(* project follow each other, a sweep overlaps them.  A call may die after *)
(* any request, answered or not, and some of its requests may fail without *)
(* failing the call.  Databases, roles, the pooler and GoTrue's secret     *)
(* under concurrency are the subject of Provision.                         *)
(***************************************************************************)
EXTENDS Naturals, FiniteSets, Sequences, SequencesExt

CONSTANTS
    Projects,    \* project names, as sequences of "_" and other letters
    Offered,     \* services that calls turn on and off
    Uuids,       \* ids of applications at the orchestrator
    Modes,       \* how services are run and routed
    MaxSecret,   \* bound: JWT secrets drawn
    MaxKey,      \* bound: keys minted
    MaxShape,    \* bound: versions of the routing shape
    MaxCalls,    \* bound: calls on services and sweeps
    MaxFaults    \* bound: failures

Routed   == {"auth", "rest", "storage"}
Services == Routed \cup {"realtime", "functions"}

ASSUME ServicesAssumption ==
    /\ \A p \in Projects : p \in Seq(STRING)
    /\ IsFiniteSet(Projects) /\ 0 \notin Uuids
    /\ Offered \subseteq Services /\ Modes \subseteq {"legacy", "namespace", "docker"}
    /\ {MaxSecret, MaxKey, MaxShape, MaxCalls, MaxFaults} \subseteq Nat /\ MaxShape >= 1

VARIABLES
    row,      \* the registry: secret, storage key and advertised services
    app,      \* the applications of the orchestrator
    bucket,   \* aliases of the buckets
    keys, allowed, \* keys of the object store, and the buckets they may use
    tenant,   \* Realtime: the secret of each external id
    box,      \* the secret and key in the environment of each container
    record,   \* DNS records
    mode,     \* applications with a host each or one for all, or containers
    shape,    \* version of the routing shape in force
    caller,   \* the call and the sweep under way
    secrets, minted, calls, faults, \* counts, up to their bounds
    hurt,     \* projects a call on which has failed in any way
    drift,    \* projects whose application a sweep left patched, not deployed
    tearing,  \* projects whose storage destroyProject has begun to remove
    orphans   \* applications that outlived their project, until deployed again

outside == <<app, bucket, keys, allowed, tenant, box, record>>
modes   == <<mode, shape>>
counts  == <<secrets, minted, calls, faults>>
ghosts  == <<hurt, drift, tearing, orphans>>
vars    == <<row, outside, modes, caller, counts, ghosts>>

None  == 0
NoRow == [there |-> FALSE, secret |-> None, key |-> None, url |-> {}]
NoBox == <<>>
NoApp == [of |-> <<>>, listed |-> FALSE, deleting |-> FALSE,
          env |-> <<None, None>>, shape |-> None, run |-> <<>>]
Idle  == [todo |-> <<>>, app |-> None, secret |-> None, key |-> None, done |-> FALSE]

-----------------------------------------------------------------------------
(* Names.                                                                  *)

\* Underscores become hyphens, runs of them one; none at either end.
projectHostLabel(name) ==
    LET squeeze(label, x) == IF x # "_" THEN Append(label, x)
                             ELSE IF label = <<>> \/ Last(label) = "-" THEN label
                             ELSE Append(label, "-")
        label == FoldLeft(squeeze, <<>>, name)
    IN  IF label # <<>> /\ Last(label) = "-" THEN Front(label) ELSE label

Labels == {projectHostLabel(p) : p \in Projects}

\* The host of a service that has one to itself.
HostOf(p, s) == <<projectHostLabel(p), s>>

-----------------------------------------------------------------------------

\* The requests that calls and sweeps make.
StepNames ==
    {"register project", "secret", "read", "bucket", "mint", "allow", "store",
     "dns", "find", "create", "await", "env", "deploy", "container", "save",
     "register", "realtimeDns", "deregister", "remove", "gone", "undns", "clear",
     "removeContainer", "removeKey", "removeBucket", "forget", "look", "patch", "redeploy"}

Secrets == 0 .. MaxSecret
Keys    == 0 .. MaxKey
Shapes  == 1 .. MaxShape

TypeOK ==
    /\ row \in [Projects -> [there: BOOLEAN, secret: Secrets, key: 0 .. minted, url: SUBSET Services]]
    /\ app \in [Uuids -> [of: {<<>>} \cup (Projects \X Routed), listed: BOOLEAN, deleting: BOOLEAN,
                          env: Secrets \X Keys, shape: {None} \cup Shapes,
                          run: {<<>>} \cup ((Secrets \X Keys) \X Shapes)]]
    /\ \A u \in Uuids : app[u].listed => app[u].of # <<>>
    /\ \A u \in Uuids : app[u].of # <<>> => app[u].shape \in Shapes
    /\ bucket \subseteq Labels /\ keys \subseteq 1 .. minted /\ allowed \subseteq (0 .. minted) \X Labels
    /\ tenant \in [Labels -> Secrets]
    /\ box \in [Projects -> [Services -> {NoBox} \cup (Secrets \X Keys)]]
    /\ record \subseteq Labels \X Services
    /\ mode \in Modes /\ shape \in Shapes
    /\ caller \in [{"call", "sweep"} ->
                     [todo: Seq([do: StepNames, p: Projects, s: Services]),
                      app: Uuids \cup {None}, secret: Secrets, key: 0 .. minted, done: BOOLEAN]]
    /\ secrets \in Secrets /\ minted \in Keys /\ calls \in 0 .. MaxCalls /\ faults \in 0 .. MaxFaults
    /\ hurt \subseteq Projects /\ drift \subseteq Projects /\ tearing \subseteq Projects
    /\ orphans \subseteq Uuids

Init ==
    /\ row = [p \in Projects |-> NoRow] /\ app = [u \in Uuids |-> NoApp]
    /\ bucket = {} /\ keys = {} /\ allowed = {}
    /\ tenant = [l \in Labels |-> None] /\ box = [p \in Projects |-> [s \in Services |-> NoBox]]
    /\ record = {} /\ mode \in Modes /\ shape = 1
    /\ caller = [h \in {"call", "sweep"} |-> Idle]
    /\ secrets = 0 /\ minted = 0 /\ calls = 0 /\ faults = 0
    /\ hurt = {} /\ drift = {} /\ tearing = {} /\ orphans = {}

-----------------------------------------------------------------------------
(* Programs.                                                               *)

Steps(p, s, names) == [i \in DOMAIN names |-> [do |-> names[i], p |-> p, s |-> s]]

\* Fault: the deploy precedes the environment it should bake in.
RunsAppEarly == <<"dns", "find", "create", "await", "deploy", "env", "save">>

\* ensureEndpoint, createDockerImageApp, setEnv, deployApp, then the row.
RunsApp == <<"dns", "find", "create", "await", "env", "deploy", "save">>

\* docker rm, docker run and the wait for it, then the row.
RunsContainer == <<"removeContainer", "container", "save">>

Runs == IF mode = "docker" THEN RunsContainer ELSE RunsApp

\* Fault: the key is stored before it may use the bucket.
MintsEarly == <<"bucket", "mint", "store", "allow">>

provisionStorage == <<"bucket", "mint", "allow", "store">>

provisionAuth(p)       == Steps(p, "auth", <<"secret">> \o Runs)
provisionRest(p)       == Steps(p, "rest", <<"read">> \o Runs)
provisionStorageApi(p) == Steps(p, "storage", provisionStorage \o <<"read">> \o Runs)
provisionRealtime(p)   == Steps(p, "realtime", <<"read", "register", "realtimeDns", "save">>)
provisionFunctions(p)  == Steps(p, "functions", <<"read">> \o RunsContainer)

\* Fault: the removal of the application is not waited for.
RemovesAppUnwaited == <<"remove", "undns">>

RemovesApp == <<"remove", "gone", "undns">>

Removes == IF mode = "docker" THEN <<"removeContainer">> ELSE RemovesApp

\* destroyAuth leaves the row as it is.
destroyAuth(p)       == Steps(p, "auth", Removes)
destroyRest(p)       == Steps(p, "rest", Removes \o <<"clear">>)
destroyStorageApi(p) == Steps(p, "storage", Removes \o <<"clear">>)
destroyRealtime(p)   == Steps(p, "realtime", <<"deregister", "undns", "clear">>)
destroyFunctions(p)  == Steps(p, "functions", <<"removeContainer", "clear">>)

\* Fault: the key is left to the bucket's removal.
destroyStorageBucketOnly(p) == Steps(p, "storage", <<"removeBucket">>)

destroyStorage(p) == Steps(p, "storage", <<"removeKey", "removeBucket">>)

destroyProject(p) ==
    destroyRest(p) \o destroyStorageApi(p) \o destroyRealtime(p) \o destroyFunctions(p)
    \o destroyAuth(p) \o destroyStorage(p) \o Steps(p, "auth", <<"forget">>)

\* Its databases, role and row, which Provision takes apart.
provisionProject(p) == Steps(p, "auth", <<"register project">>)

reconcileProject(p) ==
    LET reconciles(s) == Steps(p, s, <<"look", "patch", "redeploy">>)
    IN  reconciles("auth") \o reconciles("rest") \o reconciles("storage")

\* One project after another.
reconcileAll(names) ==
    [k \in 1 .. 9 * Len(names) |->
        reconcileProject(names[((k - 1) \div 9) + 1])[((k - 1) % 9) + 1]]

\* What a request to the API or the CLI may run.
Programs(p) ==
    {destroyProject(p)}
    \cup UNION {CASE s = "auth"      -> {provisionAuth(p), destroyAuth(p)}
                [] s = "rest"      -> {provisionRest(p), destroyRest(p)}
                [] s = "storage"   -> {provisionStorageApi(p), destroyStorageApi(p)}
                [] s = "realtime"  -> {provisionRealtime(p), destroyRealtime(p)}
                [] s = "functions" -> {provisionFunctions(p), destroyFunctions(p)} : s \in Offered}

-----------------------------------------------------------------------------
(* Running a program.                                                      *)

Fault == faults < MaxFaults /\ faults' = faults + 1

Busy(h) == caller[h].todo # <<>>
Now(h)  == Head(caller[h].todo)
Does(h, do) == Busy(h) /\ Now(h).do = do

Resumes(h, locals, todo) ==
    caller' = [caller EXCEPT ![h] = IF todo = <<>> THEN [Idle EXCEPT !.done = TRUE]
                                          ELSE [locals EXCEPT !.todo = todo]]

\* What is left to do after the next n steps.
Skip(h, n) == SubSeq(caller[h].todo, n + 1, Len(caller[h].todo))

Proceeds(h, locals) == Resumes(h, locals, Skip(h, 1))

\* The steps left of the removal of an application, from each of them on.
Removal == [remove |-> 3, gone |-> 2, undns |-> 1]

\* The call ends with an error, here.
Abandon(h) ==
    /\ caller' = [caller EXCEPT ![h] = Idle]
    /\ hurt' = IF h = "call" THEN hurt \cup {Now(h).p} ELSE hurt
    /\ drift' = IF h = "sweep" /\ Now(h).do = "redeploy" THEN drift \cup {Now(h).p} ELSE drift
    /\ UNCHANGED <<row, outside, modes, secrets, minted, calls, tearing, orphans>>

Throws(h) == Abandon(h) /\ UNCHANGED faults

\* A request fails or is not answered, or the process dies.
Dies(h) == Busy(h) /\ Fault /\ Abandon(h)

Begin ==
    /\ ~Busy("call")
    /\ \E p \in Projects :
          \/ Resumes("call", Idle, provisionProject(p)) /\ UNCHANGED calls
          \/ /\ calls < MaxCalls /\ calls' = calls + 1
             /\ \E program \in Programs(p) : Resumes("call", Idle, program)
    /\ UNCHANGED <<row, outside, modes, secrets, minted, faults, ghosts>>

\* The sweep, over the projects of the registry; it is for applications.
BeginSweep ==
    LET there == SetToSeq({p \in Projects : row[p].there}) IN
    /\ mode # "docker" /\ ~Busy("sweep") /\ calls < MaxCalls /\ calls' = calls + 1 /\ there # <<>>
    /\ Resumes("sweep", Idle, reconcileAll(there))
    /\ UNCHANGED <<row, outside, modes, secrets, minted, faults, ghosts>>

\* A control plane with a new routing shape replaces this one.
Upgrade ==
    /\ ~Busy("call") /\ ~Busy("sweep") /\ mode = "namespace" /\ shape < MaxShape
    /\ shape' = shape + 1
    /\ caller' = [h \in {"call", "sweep"} |-> Idle]
    /\ UNCHANGED <<row, outside, mode, counts, ghosts>>

\* There is something to remove only where the row names a key and a bucket.
Torn == LET p == Now("call").p IN IF row[p].key = None THEN tearing ELSE tearing \cup {p}

\* Requests whose failure the code swallows; one in the removal of an
\* application ends that removal.
Soft == DOMAIN Removal \cup {"realtimeDns", "deregister", "removeContainer", "clear",
                     "removeKey", "removeBucket"}

Swallows ==
    LET now == Now("call") IN
    /\ Busy("call") /\ now.do \in Soft /\ Fault
    /\ Resumes("call", caller["call"],
               Skip("call", IF now.do \in DOMAIN Removal THEN Removal[now.do] ELSE 1))
    /\ hurt' = hurt \cup {now.p}
    /\ tearing' = IF now.do \in {"removeKey", "removeBucket"} THEN Torn ELSE tearing
    /\ UNCHANGED <<row, outside, modes, secrets, minted, calls, drift, orphans>>

-----------------------------------------------------------------------------
(* The registry, GoTrue's secret and the object store.                     *)

Call   == caller["call"]
P      == Now("call").p
S      == Now("call").s
Framed == UNCHANGED <<modes, counts, ghosts>>

RegisterProject ==
    /\ Does("call", "register project")
    /\ row' = [row EXCEPT ![P].there = TRUE]
    /\ Proceeds("call", Call)
    /\ Framed /\ UNCHANGED outside

\* Fault: the secret is drawn anew each time.
prepareAuthRedraws ==
    /\ Does("call", "secret")
    /\ \/ ~row[P].there /\ Throws("call")
       \/ /\ row[P].there
          /\ secrets < MaxSecret /\ secrets' = secrets + 1
          /\ row' = [row EXCEPT ![P].secret = secrets']
          /\ Proceeds("call", [Call EXCEPT !.secret = secrets'])
          /\ UNCHANGED <<outside, modes, minted, calls, faults, ghosts>>

\* The database of a project that does not exist cannot be altered.
prepareAuth ==
    /\ Does("call", "secret")
    /\ \/ ~row[P].there /\ Throws("call")
       \/ /\ row[P].there
          /\ \/ row[P].secret # None /\ UNCHANGED <<row, secrets>>
             \/ /\ row[P].secret = None
                /\ secrets < MaxSecret /\ secrets' = secrets + 1
                /\ row' = [row EXCEPT ![P].secret = secrets']
          /\ Proceeds("call", [Call EXCEPT !.secret = row'[P].secret])
          /\ UNCHANGED <<outside, modes, minted, calls, faults, ghosts>>

\* The rest of the services need the secret; functions have no host of their
\* own to be reached at in legacy mode.
ReadSecret ==
    LET ready == row[P].secret # None /\ (S = "functions" => mode # "legacy") IN
    /\ Does("call", "read")
    /\ \/ ~ready /\ Throws("call")
       \/ /\ ready
          /\ Proceeds("call", [Call EXCEPT !.secret = row[P].secret])
          /\ Framed /\ UNCHANGED <<row, outside>>

\* A stored key is used again; a bucket that exists is used again.
CreateBucket ==
    /\ Does("call", "bucket")
    /\ \/ /\ row[P].key # None
          /\ Resumes("call", [Call EXCEPT !.key = row[P].key],
                     Skip("call", Len(provisionStorage)))
          /\ UNCHANGED bucket
       \/ /\ row[P].key = None
          /\ bucket' = bucket \cup {projectHostLabel(P)}
          /\ Proceeds("call", Call)
    /\ Framed /\ UNCHANGED <<row, app, keys, allowed, tenant, box, record>>

MintKey ==
    /\ Does("call", "mint") /\ minted < MaxKey /\ minted' = minted + 1
    /\ keys' = keys \cup {minted'}
    /\ Proceeds("call", [Call EXCEPT !.key = minted'])
    /\ UNCHANGED <<row, app, bucket, allowed, tenant, box, record, modes, secrets, calls, faults, ghosts>>

AllowKey ==
    /\ Does("call", "allow")
    /\ allowed' = allowed \cup {<<Call.key, projectHostLabel(P)>>}
    /\ Proceeds("call", Call)
    /\ Framed /\ UNCHANGED <<row, app, bucket, keys, tenant, box, record>>

StoreKey ==
    /\ Does("call", "store")
    /\ row' = IF row[P].there THEN [row EXCEPT ![P].key = Call.key] ELSE row
    /\ Proceeds("call", Call)
    /\ Framed /\ UNCHANGED outside

Save ==
    /\ Does("call", "save")
    /\ row' = IF row[P].there THEN [row EXCEPT ![P].url = @ \cup {S}] ELSE row
    /\ Proceeds("call", Call)
    /\ Framed /\ UNCHANGED outside

Clear ==
    /\ Does("call", "clear")
    /\ row' = [row EXCEPT ![P].url = @ \ {S}]
    /\ Proceeds("call", Call)
    /\ Framed /\ UNCHANGED outside

\* The key and the bucket the row names; then the databases, in Provision, and
\* the row.
RemoveKey ==
    /\ Does("call", "removeKey")
    /\ keys' = keys \ {row[P].key}
    /\ allowed' = {a \in allowed : a[1] # row[P].key}
    /\ tearing' = Torn
    /\ Proceeds("call", Call)
    /\ UNCHANGED <<row, app, bucket, tenant, box, record, modes, counts, hurt, drift, orphans>>

RemoveBucket ==
    LET label == projectHostLabel(P) IN
    /\ Does("call", "removeBucket")
    /\ \/ row[P].key = None /\ UNCHANGED <<bucket, allowed>>
       \/ /\ row[P].key # None
          /\ bucket' = bucket \ {label}
          /\ allowed' = {a \in allowed : a[2] # label}
    /\ tearing' = Torn
    /\ Proceeds("call", Call)
    /\ UNCHANGED <<row, app, keys, tenant, box, record, modes, counts, hurt, drift, orphans>>

Forget ==
    /\ Does("call", "forget")
    /\ row' = [row EXCEPT ![P] = NoRow] /\ tearing' = tearing \ {P}
    /\ orphans' = orphans \cup {u \in Uuids : \E s \in Routed : app[u].of = <<P, s>>}
    /\ Proceeds("call", Call)
    /\ UNCHANGED <<outside, modes, counts, hurt, drift>>

-----------------------------------------------------------------------------
(* The orchestrator.  A created application is listed after a while, and a *)
(* deleted one goes after a while; until then it is found by its name, but *)
(* takes no request.                                                       *)

Named(p, s)  == {u \in Uuids : app[u].of = <<p, s>>}
Listed(p, s) == {u \in Named(p, s) : app[u].listed}
Takes(u)     == u \in Uuids /\ app[u].listed /\ ~app[u].deleting

Free == {u \in Uuids : app[u].of = <<>> /\ \A h \in DOMAIN caller : caller[h].app # u}

AppListed(u) ==
    /\ app[u].of # <<>> /\ ~app[u].listed
    /\ app' = [app EXCEPT ![u].listed = TRUE]
    /\ Framed /\ UNCHANGED <<row, bucket, keys, allowed, tenant, box, record, caller>>

AppGone(u) ==
    /\ app[u].deleting
    /\ app' = [app EXCEPT ![u] = NoApp] /\ orphans' = orphans \ {u}
    /\ UNCHANGED <<row, bucket, keys, allowed, tenant, box, record, caller, modes, counts,
                   hurt, drift, tearing>>

Sets(u, new) == app' = [app EXCEPT ![u] = new]

AppFrame == Framed /\ UNCHANGED <<row, bucket, keys, allowed, tenant, box, record>>

findAppByName ==
    /\ Does("call", "find")
    /\ \E u \in IF Listed(P, S) = {} THEN {None} ELSE Listed(P, S) :
          Proceeds("call", [Call EXCEPT !.app = u])
    /\ AppFrame /\ UNCHANGED app

\* An application that exists gets the routes of now, and is not waited for.
createDockerImageApp ==
    /\ Does("call", "create")
    /\ \/ /\ Call.app = None
          /\ \E u \in Free : /\ Sets(u, [NoApp EXCEPT !.of = <<P, S>>, !.shape = shape])
                             /\ Proceeds("call", [Call EXCEPT !.app = u])
          /\ AppFrame
       \/ /\ Takes(Call.app)
          /\ Sets(Call.app, [app[Call.app] EXCEPT !.shape = shape])
          /\ Resumes("call", Call, Skip("call", 2))
          /\ AppFrame
       \/ Call.app # None /\ ~Takes(Call.app) /\ Throws("call")

\* A bounded wait: it may go on with an application that is not listed yet.
AwaitListed ==
    /\ Does("call", "await")
    /\ \/ /\ \E u \in Listed(P, S) : Proceeds("call", [Call EXCEPT !.app = u])
          /\ AppFrame /\ UNCHANGED app
       \/ /\ Listed(P, S) = {} /\ Fault /\ hurt' = hurt \cup {P}
          /\ Proceeds("call", Call)
          /\ UNCHANGED <<row, outside, modes, secrets, minted, calls, drift, tearing, orphans>>

setEnv ==
    /\ Does("call", "env")
    /\ \/ /\ Takes(Call.app)
          /\ Sets(Call.app, [app[Call.app] EXCEPT !.env = <<Call.secret, Call.key>>])
          /\ Proceeds("call", Call) /\ AppFrame
       \/ ~Takes(Call.app) /\ Throws("call")

Deployed(a) == [a EXCEPT !.run = <<a.env, a.shape>>]

deployApp ==
    /\ Does("call", "deploy") /\ Takes(Call.app)
    /\ Sets(Call.app, Deployed(app[Call.app])) /\ orphans' = orphans \ {Call.app}
    /\ Proceeds("call", Call)
    /\ UNCHANGED <<row, bucket, keys, allowed, tenant, box, record, modes, counts,
                   hurt, drift, tearing>>

\* DELETE of what is found; of one that is going already it fails, and with it
\* the rest of the removal.
destroyApp ==
    /\ Does("call", "remove")
    /\ \/ /\ Listed(P, S) = {} /\ Resumes("call", Call, Skip("call", 2))
          /\ UNCHANGED app
       \/ \E u \in Listed(P, S) :
             \/ /\ ~app[u].deleting
                /\ Sets(u, [app[u] EXCEPT !.deleting = TRUE, !.run = <<>>])
                /\ Proceeds("call", Call)
             \/ /\ app[u].deleting /\ UNCHANGED app
                /\ Resumes("call", Call, Skip("call", Removal.remove))
    /\ AppFrame

\* A bounded wait, too.
waitAppGone ==
    /\ Does("call", "gone") /\ Proceeds("call", Call)
    /\ \/ Listed(P, S) = {} /\ AppFrame /\ UNCHANGED app
       \/ /\ Listed(P, S) # {} /\ Fault /\ hurt' = hurt \cup {P}
          /\ UNCHANGED <<row, outside, modes, secrets, minted, calls, drift, tearing, orphans>>

-----------------------------------------------------------------------------
(* DNS, the Realtime service and containers.                               *)

ensureHostDns ==
    /\ Does("call", "dns") \/ Does("call", "realtimeDns")
    /\ record' = IF mode = "legacy" THEN record \cup {HostOf(P, S)} ELSE record
    /\ Proceeds("call", Call)
    /\ Framed /\ UNCHANGED <<row, app, bucket, keys, allowed, tenant, box>>

destroyHostDns ==
    /\ Does("call", "undns")
    /\ record' = record \ {HostOf(P, S)}
    /\ Proceeds("call", Call)
    /\ Framed /\ UNCHANGED <<row, app, bucket, keys, allowed, tenant, box>>

\* The tenant of the host's label, registered or replaced.
RegisterTenant ==
    /\ Does("call", "register")
    /\ tenant' = [tenant EXCEPT ![projectHostLabel(P)] = Call.secret]
    /\ Proceeds("call", Call)
    /\ Framed /\ UNCHANGED <<row, app, bucket, keys, allowed, box, record>>

DeregisterTenant ==
    /\ Does("call", "deregister")
    /\ tenant' = [tenant EXCEPT ![projectHostLabel(P)] = None]
    /\ Proceeds("call", Call)
    /\ Framed /\ UNCHANGED <<row, app, bucket, keys, allowed, box, record>>

\* docker run, which fails where the old container still has the name.
RunContainer ==
    /\ Does("call", "container")
    /\ \/ box[P][S] # NoBox /\ Throws("call")
       \/ /\ box[P][S] = NoBox
          /\ box' = [box EXCEPT ![P][S] = <<Call.secret, Call.key>>]
          /\ Proceeds("call", Call)
          /\ Framed /\ UNCHANGED <<row, app, bucket, keys, allowed, tenant, record>>

\* docker rm -f
RemoveContainer ==
    /\ Does("call", "removeContainer")
    /\ box' = [box EXCEPT ![P][S] = NoBox]
    /\ Proceeds("call", Call)
    /\ Framed /\ UNCHANGED <<row, app, bucket, keys, allowed, tenant, record>>

-----------------------------------------------------------------------------
(* The sweep.                                                              *)

Sweep == caller["sweep"]

\* Fault: an application is deployed without its routes being patched.
LookSkipsPatch ==
    LET now == Now("sweep") IN
    /\ Does("sweep", "look")
    /\ \E u \in Listed(now.p, now.s) :
          Resumes("sweep", [Sweep EXCEPT !.app = u], Skip("sweep", 2))
    /\ AppFrame /\ UNCHANGED app

\* The application of a service, if any; one on the routes of now is left
\* alone, and one that is going fails the sweep.
Look ==
    LET now == Now("sweep") IN
    /\ Does("sweep", "look")
    /\ \/ /\ Listed(now.p, now.s) = {} /\ Resumes("sweep", Sweep, Skip("sweep", 3))
          /\ AppFrame /\ UNCHANGED app
       \/ \E u \in Listed(now.p, now.s) :
             \/ app[u].deleting /\ Throws("sweep")
             \/ /\ ~app[u].deleting
                /\ IF app[u].shape = shape
                   THEN Resumes("sweep", Sweep, Skip("sweep", 3))
                   ELSE Proceeds("sweep", [Sweep EXCEPT !.app = u])
                /\ AppFrame /\ UNCHANGED app

updateAppDomains ==
    /\ Does("sweep", "patch")
    /\ \/ /\ Takes(Sweep.app)
          /\ Sets(Sweep.app, [app[Sweep.app] EXCEPT !.shape = shape])
          /\ Proceeds("sweep", Sweep) /\ AppFrame
       \/ ~Takes(Sweep.app) /\ Throws("sweep")

Redeploy ==
    /\ Does("sweep", "redeploy")
    /\ \/ /\ Takes(Sweep.app)
          /\ Sets(Sweep.app, Deployed(app[Sweep.app]))
          /\ Proceeds("sweep", Sweep) /\ AppFrame
       \/ ~Takes(Sweep.app) /\ Throws("sweep")

-----------------------------------------------------------------------------

Next ==
    \/ Begin \/ BeginSweep \/ Upgrade \/ Swallows
    \/ \E h \in {"call", "sweep"} : Dies(h)
    \/ \E u \in Uuids : AppListed(u) \/ AppGone(u)
    \/ RegisterProject \/ prepareAuth \/ ReadSecret
    \/ CreateBucket \/ MintKey \/ AllowKey \/ StoreKey \/ Save \/ Clear
    \/ RemoveKey \/ RemoveBucket \/ Forget
    \/ findAppByName \/ createDockerImageApp \/ AwaitListed \/ setEnv \/ deployApp
    \/ destroyApp \/ waitAppGone \/ ensureHostDns \/ destroyHostDns
    \/ RegisterTenant \/ DeregisterTenant \/ RunContainer \/ RemoveContainer
    \/ Look \/ updateAppDomains \/ Redeploy

Spec == Init /\ [][Next]_vars

-----------------------------------------------------------------------------
(* Properties.                                                             *)

Settled(p) == ~(Busy("call") /\ P = p) /\ p \notin hurt

Credentials(p, s) == <<row[p].secret, IF s = "storage" THEN row[p].key ELSE None>>

\* The container of an advertised service runs with the secret and the key of
\* the row, at any point of any call and whatever failed before.
ContainersAgree ==
    \A p \in Projects : \A s \in row[p].url : box[p][s] \in {NoBox, Credentials(p, s)}

\* An application runs with the secret and the key of the row, if it was given
\* an environment at all, at any point and whatever failed before, unless it
\* outlived an earlier project of the name and has not been deployed since.
ApplicationsAgree ==
    \A u \in Uuids \ orphans : \A p \in Projects, s \in Routed :
        app[u].of = <<p, s>> /\ app[u].run # <<>>
        => app[u].run[1] \in {<<None, None>>, Credentials(p, s)}

\* When no call is under way, and none has failed, an advertised service has
\* one application, deployed, or one container, its tenant and record; what is
\* not advertised has none, but for auth, which is removed without a trace in
\* the row.
ServicesAgree ==
    LET contained == IF mode = "docker" THEN Routed \cup {"functions"} ELSE {"functions"} IN
    \A p \in Projects : row[p].there /\ Settled(p) =>
        /\ \A s \in Routed :
              /\ \/ Cardinality(Named(p, s)) = (IF s \in row[p].url \ contained THEN 1 ELSE 0)
                 \/ s = "auth" /\ Named(p, s) = {}
              /\ \A u \in Named(p, s) :
                    app[u].run # <<>> /\ (mode = "legacy" => HostOf(p, s) \in record)
        /\ \A s \in Services :
              \/ box[p][s] = IF s \in row[p].url \cap contained THEN Credentials(p, s) ELSE NoBox
              \/ s = "auth" /\ box[p][s] = NoBox
        /\ tenant[projectHostLabel(p)] = (IF "realtime" \in row[p].url THEN row[p].secret ELSE None)

\* The key in the row opens the project's bucket, whatever step failed before,
\* until destroyProject removes it.
StoredKeyWorks ==
    \A p \in Projects : row[p].key # None /\ p \notin tearing =>
        /\ row[p].key \in keys /\ projectHostLabel(p) \in bucket
        /\ <<row[p].key, projectHostLabel(p)>> \in allowed

\* After calls that did not fail, a project that is forgotten has left nothing
\* behind: applications, bucket, tenant, containers, records; and when none has
\* failed for any project and none is under way, every key is in a row.
TeardownLeavesNothing ==
    /\ \A p \in Projects : ~row[p].there /\ Settled(p) =>
          /\ \A s \in Routed : Named(p, s) = {}
          /\ projectHostLabel(p) \notin bucket
          /\ tenant[projectHostLabel(p)] = None
          /\ \A s \in Services : box[p][s] = NoBox /\ HostOf(p, s) \notin record
    /\ (\A p \in Projects : Settled(p)) => keys \subseteq {row[p].key : p \in Projects}

\* Once a sweep has come to its end, whatever sweeps and calls overlapped it,
\* what runs is on the routes of now: the sweep skips nothing.  Exempt are
\* projects a failure left patched but not deployed.
SweepHeals ==
    caller["sweep"].done /\ ~Busy("call") =>
    \A u \in Uuids : \A p \in Projects \ (hurt \cup drift), s \in Routed :
        app[u].of = <<p, s>> /\ app[u].run # <<>> => app[u].run[2] = shape

\* Each project has a bucket of its own, and its key opens no other.
OwnBucket ==
    \A p, q \in Projects : p # q /\ row[p].key # None /\ row[q].key # None =>
        \A l \in bucket : ~(<<row[p].key, l>> \in allowed /\ <<row[q].key, l>> \in allowed)

=============================================================================
