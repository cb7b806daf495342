--------------------------------- MODULE Orgs ---------------------------------
(***************************************************************************)
(* Organisations: first-run setup, the organisations operators add, and    *)
(* the organisation each project lands in.                                 *)
(*                                                                         *)
(* Every call looks before it acts: initSystem looks for a default         *)
(* organisation, createOrganization counts and probes for a free slug, a   *)
(* new project looks up the default.  Each look is a query of its own, so  *)
(* calls interleave between the look and the act; what serialises them is  *)
(* two unique indexes, on the slug and on the one default.                 *)
(*                                                                         *)
(* The container runs the bootstrap, then the API.  With a master operator *)
(* in the environment the bootstrap sets the system up by itself;          *)
(* otherwise the first-run wizard does.                                    *)
(***************************************************************************)
EXTENDS Naturals, Sequences

CONSTANTS
    Procs,       \* slots for calls in flight
    Server,      \* the slot of the container's own start-up
    Kinds,       \* the calls callers make
    Names,       \* names given to organisations
    Candidates,  \* for each name, the slugs uniqueSlug tries, in order
    EnvName,     \* the default organisation's name in the environment
    Emails,      \* e-mail addresses given to the wizard
    EnvEmail,    \* the master operator's in the environment
    Projects,
    MaxCalls,    \* bound: calls made
    MaxFailures  \* bound: steps that throw, plus restarts

AllKinds == {"init", "org", "create", "cli", "destroy"}
Slugs    == UNION {{Candidates[n][i] : i \in DOMAIN Candidates[n]} : n \in Names}
Actors   == Procs \cup {Server}

ASSUME OrgsAssumption ==
    /\ Server \notin Procs
    /\ Kinds \subseteq AllKinds
    /\ EnvName \in Names /\ EnvEmail \in Emails
    /\ Candidates \in [Names -> Seq(Slugs) \ {<<>>}]
    /\ "none" \notin Names \cup Slugs \cup Emails \cup Projects
    /\ MaxCalls \in Nat /\ MaxFailures \in Nat

VARIABLES
    orgs,       \* the table organizations, in the order of insertion
    masters,    \* operator accounts in project zero's GoTrue
    registered, \* projects with a registry row
    owner,      \* a project's organization_id: an index of orgs, or None
    env,        \* a master operator is configured in the environment
    ensuring,   \* the API is still to create that operator
    op,         \* the call each slot executes: its pc and its locals
    calls, failures

vars == <<orgs, masters, registered, owner, env, ensuring, op, calls, failures>>

None == 0

OrgIds == 1 .. Len(orgs)

\* The default organisation, or None.
IsDefault(o) == orgs[o].isDefault

HasDefault == \E o \in OrgIds : IsDefault(o)

DefaultOrg == IF HasDefault THEN CHOOSE o \in OrgIds : IsDefault(o) ELSE None

Taken == {orgs[o].slug : o \in OrgIds}

Idle == [kind |-> "none", pc |-> "idle", name |-> "none", email |-> "none",
         asDefault |-> FALSE, slug |-> "none", project |-> "none",
         org |-> None]

Boot == [Idle EXCEPT !.kind = "boot", !.pc = "ensure", !.name = EnvName]

Locals == [kind: AllKinds \cup {"boot", "none"},
           pc: {"idle", "check", "master", "ensure", "count", "probe", "insert",
                "adopt", "lookup", "register", "lookupAgain", "save", "forget"},
           name: Names \cup {"none"}, email: Emails \cup {"none"},
           asDefault: BOOLEAN, slug: Slugs \cup {"none"},
           project: Projects \cup {"none"}, org: Nat]

NamePcs    == {"check", "master", "ensure", "count", "probe"}
ProjectPcs == {"lookup", "register", "lookupAgain", "save", "forget"}

\* A call has the locals that its next step uses.
Calls == {o \in Locals :
            /\ o.pc \in NamePcs => o.name \in Names
            /\ o.pc \in {"check", "master"} => o.email \in Emails
            /\ o.pc = "insert" => o.slug \in Slugs
            /\ o.pc \in ProjectPcs => o.project \in Projects}

TypeOK ==
    /\ orgs \in Seq([slug: Slugs, isDefault: BOOLEAN])
    /\ masters \in SUBSET Emails
    /\ registered \in SUBSET Projects /\ owner \in [Projects -> Nat]
    /\ env \in BOOLEAN /\ ensuring \in BOOLEAN
    /\ op \in [Actors -> Calls]
    /\ calls \in Nat /\ failures \in Nat

\* A first install, or an existing one from before there were organisations,
\* whose projects have none.
Init ==
    /\ orgs = <<>> /\ masters = {}
    /\ registered \in SUBSET Projects /\ owner = [x \in Projects |-> None]
    /\ env \in BOOLEAN /\ ensuring = FALSE
    /\ op = [a \in Actors |-> IF a = Server /\ env THEN Boot ELSE Idle]
    /\ calls = 0 /\ failures = 0

-----------------------------------------------------------------------------
At(a, pc) == op[a].pc = pc

Become(a, o) == op' = [op EXCEPT ![a] = o]

Goto(a, pc) == Become(a, [op[a] EXCEPT !.pc = pc])

projects == <<registered, owner>>
counters == <<env, ensuring, calls, failures>>

Serving == At(Server, "idle")

FirstPc(k) ==
    CASE k = "init"    -> "check"
      [] k = "org"     -> "count"
      [] k = "create"  -> "lookup"
      [] k = "cli"     -> "lookupAgain"
      [] k = "destroy" -> "forget"

\* A call arrives: at the API while it serves, or by the CLI at any time.
Begin(p, k, o) ==
    /\ k \in Kinds /\ At(p, "idle") /\ calls < MaxCalls
    /\ k = "cli" \/ Serving
    /\ Become(p, [o EXCEPT !.kind = k, !.pc = FirstPc(k)])
    /\ calls' = calls + 1
    /\ UNCHANGED <<orgs, masters, projects, env, ensuring, failures>>

-----------------------------------------------------------------------------
(* initSystem: refuse if there is a default organisation; create the       *)
(* master; ensure the default organisation.                                *)

InitCheck(p) ==
    /\ At(p, "check")
    /\ IF HasDefault THEN Become(p, Idle) ELSE Goto(p, "master")
    /\ UNCHANGED <<orgs, masters, projects, counters>>

InitMaster(p) ==
    /\ At(p, "master")
    /\ masters' = masters \cup {op[p].email}
    /\ Goto(p, "ensure")
    /\ UNCHANGED <<orgs, projects, counters>>

\* Fault: the bootstrap does not look for an existing one.
EnsureDefaultBlindly(a) ==
    /\ At(a, "ensure")
    /\ Become(a, IF a = Server \/ ~HasDefault
                 THEN [op[a] EXCEPT !.pc = "count", !.asDefault = TRUE]
                 ELSE Idle)
    /\ UNCHANGED <<orgs, masters, projects, counters>>

\* ensureDefaultOrganization; the bootstrap goes on with the one it finds.
EnsureDefault(a) ==
    /\ At(a, "ensure")
    /\ Become(a, IF ~HasDefault
                 THEN [op[a] EXCEPT !.pc = "count", !.asDefault = TRUE]
                 ELSE IF a = Server
                      THEN [op[a] EXCEPT !.pc = "adopt", !.org = DefaultOrg]
                      ELSE Idle)
    /\ UNCHANGED <<orgs, masters, projects, counters>>

-----------------------------------------------------------------------------
(* createOrganization: is it the first; which slug is free; insert.        *)

\* Fault: only the wizard's organisation is made the default.
CountForgets(a) ==
    /\ At(a, "count")
    /\ Goto(a, "probe")
    /\ UNCHANGED <<orgs, masters, projects, counters>>

Count(a) ==
    /\ At(a, "count")
    /\ Become(a, [op[a] EXCEPT !.pc = "probe", !.asDefault = @ \/ orgs = <<>>])
    /\ UNCHANGED <<orgs, masters, projects, counters>>

\* Slugs are never given back: the queries for the earlier candidates are as
\* good as made with the last one.
FirstFree(n, s) ==
    \E i \in DOMAIN Candidates[n] :
        /\ s = Candidates[n][i] /\ s \notin Taken
        /\ \A j \in 1 .. i - 1 : Candidates[n][j] \in Taken

Probe(a) ==
    /\ At(a, "probe")
    /\ \E s \in Slugs : /\ FirstFree(op[a].name, s)
                        /\ Become(a, [op[a] EXCEPT !.pc = "insert", !.slug = s])
    /\ UNCHANGED <<orgs, masters, projects, counters>>

\* The two unique indexes.
Fits(o) == o.slug \notin Taken /\ (o.asDefault => ~HasDefault)

\* Fault: the index on the default keeps out every second organisation that
\* was counted as the first, and the insert is retried as an ordinary one.
InsertDemotes(a) ==
    /\ At(a, "insert") /\ op[a].slug \notin Taken
    /\ orgs' = Append(orgs, [slug |-> op[a].slug, isDefault |-> FALSE])
    /\ Become(a, IF a = Server
                 THEN [op[a] EXCEPT !.pc = "adopt", !.org = Len(orgs) + 1]
                 ELSE Idle)
    /\ UNCHANGED <<masters, projects, counters>>

Insert(a) ==
    /\ At(a, "insert") /\ Fits(op[a])
    /\ orgs' = Append(orgs, [slug |-> op[a].slug, isDefault |-> op[a].asDefault])
    /\ Become(a, IF a = Server
                 THEN [op[a] EXCEPT !.pc = "adopt", !.org = Len(orgs) + 1]
                 ELSE Idle)
    /\ UNCHANGED <<masters, projects, counters>>

\* A call is answered with the error, a bootstrap exits and is run again.
Stop(a) == Become(a, IF a = Server THEN Boot ELSE Idle)

Conflict(a) ==
    /\ At(a, "insert") /\ ~Fits(op[a])
    /\ Stop(a)
    /\ UNCHANGED <<orgs, masters, projects, counters>>

NoSlug(a) ==
    /\ At(a, "probe") /\ \A s \in Slugs : ~FirstFree(op[a].name, s)
    /\ Stop(a)
    /\ UNCHANGED <<orgs, masters, projects, counters>>

-----------------------------------------------------------------------------
(* The bootstrap adopts orphans, then the API starts, and with it the      *)
(* background creation of the environment's master.                        *)

Adopt ==
    /\ At(Server, "adopt")
    /\ owner' = [x \in Projects |-> IF x \in registered /\ owner[x] = None
                                    THEN op[Server].org ELSE owner[x]]
    /\ ensuring' = TRUE
    /\ Become(Server, Idle)
    /\ UNCHANGED <<orgs, masters, registered, env, calls, failures>>

\* GoTrue answers within sixty tries, or the API gives up.
EnsureMaster ==
    /\ ensuring /\ Serving
    /\ ensuring' = FALSE
    /\ masters' \in {masters, masters \cup {EnvEmail}}
    /\ UNCHANGED <<orgs, projects, env, op, calls, failures>>

-----------------------------------------------------------------------------
(* A project is registered with the organisation asked for, else with the  *)
(* default; provisionDatabase looks the default up again and fills it in   *)
(* only where there is none.                                               *)

Lookup(p) ==
    /\ At(p, "lookup")
    /\ Become(p, [op[p] EXCEPT !.pc = "register",
                      !.org = IF @ = None THEN DefaultOrg ELSE @])
    /\ UNCHANGED <<orgs, masters, projects, counters>>

\* coalesce(projects.organization_id, excluded.organization_id)
Upsert(x, o) ==
    /\ registered' = registered \cup {x}
    /\ owner' = [owner EXCEPT ![x] = IF x \in registered /\ @ # None THEN @ ELSE o]

Register(p) ==
    /\ At(p, "register")
    /\ Upsert(op[p].project, op[p].org)
    /\ Goto(p, "lookupAgain")
    /\ UNCHANGED <<orgs, masters, counters>>

LookupAgain(p) ==
    /\ At(p, "lookupAgain")
    /\ Become(p, [op[p] EXCEPT !.pc = "save", !.org = DefaultOrg])
    /\ UNCHANGED <<orgs, masters, projects, counters>>

\* Fault: the coalesce the other way round.
SaveMoves(p) ==
    /\ At(p, "save")
    /\ registered' = registered \cup {op[p].project}
    /\ owner' = [owner EXCEPT ![op[p].project] =
                    IF op[p].org # None THEN op[p].org ELSE @]
    /\ Become(p, Idle)
    /\ UNCHANGED <<orgs, masters, counters>>

Save(p) ==
    /\ At(p, "save")
    /\ Upsert(op[p].project, op[p].org)
    /\ Become(p, Idle)
    /\ UNCHANGED <<orgs, masters, counters>>

\* destroyProject, as far as the row goes.
Forget(p) ==
    /\ At(p, "forget")
    /\ registered' = registered \ {op[p].project}
    /\ owner' = [owner EXCEPT ![op[p].project] = None]
    /\ Become(p, Idle)
    /\ UNCHANGED <<orgs, masters, counters>>

-----------------------------------------------------------------------------
\* A query or the call to GoTrue throws.
Fail(a) ==
    /\ ~At(a, "idle") /\ failures < MaxFailures
    /\ failures' = failures + 1
    /\ Stop(a)
    /\ UNCHANGED <<orgs, masters, projects, env, ensuring, calls>>

\* The container restarts, perhaps with another environment.  The CLI's own
\* process is not touched.
Restart ==
    /\ failures < MaxFailures /\ failures' = failures + 1
    /\ env' \in BOOLEAN /\ ensuring' = FALSE
    /\ op' = [a \in Actors |->
                 IF a = Server THEN IF env' THEN Boot ELSE Idle
                 ELSE IF op[a].kind = "cli" THEN op[a] ELSE Idle]
    /\ UNCHANGED <<orgs, masters, projects, calls>>

Arrive(p) ==
    \/ \E n \in Names :
          \/ Begin(p, "org", [Idle EXCEPT !.name = n])
          \/ \E e \in Emails :
                Begin(p, "init", [Idle EXCEPT !.name = n, !.email = e])
    \/ \E x \in Projects :
          \/ \E o \in OrgIds \cup {None} :
                Begin(p, "create", [Idle EXCEPT !.project = x, !.org = o])
          \/ \E k \in {"cli", "destroy"} :
                Begin(p, k, [Idle EXCEPT !.project = x])

SetupStep(a) ==
    \/ InitCheck(a) \/ InitMaster(a) \/ EnsureDefault(a)
    \/ Count(a) \/ Probe(a) \/ Insert(a) \/ Conflict(a) \/ NoSlug(a)

\* All calls made and all of them over: the system rests.
Quiet == calls = MaxCalls /\ (\A a \in Actors : At(a, "idle")) /\ UNCHANGED vars

ProjectStep(p) == Lookup(p) \/ Register(p) \/ LookupAgain(p) \/ Save(p) \/ Forget(p)

Next ==
    \/ \E p \in Procs : Arrive(p) \/ ProjectStep(p)
    \/ \E a \in Actors : SetupStep(a) \/ Fail(a)
    \/ Adopt \/ EnsureMaster \/ Restart
    \/ Quiet

Spec == Init /\ [][Next]_vars

\* The bootstrap's queries return, and the container runs it again if it exits.
FairSpec == Spec /\ WF_vars(SetupStep(Server) \/ Adopt)

-----------------------------------------------------------------------------
(* Properties.                                                             *)

\* systemStatus calls the system initialised when there is any organisation,
\* initSystem when there is a default one.  They agree: the first organisation
\* is the default, however calls overlap and fail.
InitializedHasDefault == orgs # <<>> => HasDefault

\* A wizard leaves an initialised system, whether it was refused, its own
\* organisation was inserted, an index kept it out, or no slug was left: unless a
\* step throws, it does not end with a master and no default organisation.
SetupInitializes ==
    [][\A p \in Procs :
          op[p].kind = "init" /\ op'[p].pc = "idle" /\ failures' = failures
            => HasDefault']_vars

\* A project stays in its organisation until it is destroyed: neither
\* re-provisioning nor a bootstrap moves it.
OwnerKept ==
    [][\A x \in registered \cap registered' :
          owner[x] # None => owner'[x] = owner[x]]_vars

\* The container's start-up comes to an end and the API serves: no state that
\* organisations, slugs and interrupted runs can be in makes the bootstrap fail
\* again and again.
StartsServing == ~Serving ~> Serving

\* initSystem "refuses to run once initialized so the endpoint can't be used to
\* mint extra masters": only the environment's master appears afterwards.
NoExtraMasters == [][HasDefault => masters' \subseteq masters \cup {EnvEmail}]_vars

=============================================================================
