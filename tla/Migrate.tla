------------------------------- MODULE Migrate -------------------------------
(***************************************************************************)
(* Migrations of ONE project database.  applyMigrations walks the files of *)
(* a directory (every provisionDatabase runs it, and bootstrap does on the *)
(* control database); migrateProject applies one migration an app sends.   *)
(* Runs overlap: each has its own connection, and what serialises them is  *)
(* Postgres: a transaction per migration, and the primary key of the       *)
(* tracking table, on which a second insert of a name waits for the first. *)
(*                                                                         *)
(* The tracking table, and what an unqualified `create table` makes, lie in *)
(* the first schema of the session's search path.  migrateProject pins it  *)
(* to public.  applyMigrations takes what the database is set to, and      *)
(* prepareAuth sets a project's database to auth, public: one directory    *)
(* can have two homes, and a ledger in each.                               *)
(*                                                                         *)
(* PostgREST keeps a cache of the schema, read when it starts and again on *)
(* every notification of the channel pgrst.                                *)
(***************************************************************************)
EXTENDS Naturals, Sequences

CONSTANTS
    Base,        \* the files of the migrations directory, in lexical order
    App,         \* the names of the migrations an app sends
    Runners,     \* slots for runs in flight
    Prepares,    \* the database is a project's: prepareAuth will run on it
    MaxRuns,     \* bound: runs started
    MaxFailures  \* bound: runs cut short

BaseNames == {Base[i] : i \in DOMAIN Base}
Homes     == {"public", "auth"}
Entries   == {<<"public", m>> : m \in App} \cup (Homes \X BaseNames)

ASSUME BaseAssumption ==
    /\ Base \in Seq(BaseNames)
    /\ \A i, j \in DOMAIN Base : Base[i] = Base[j] => i = j
    /\ App \cap BaseNames = {}
    /\ Base # <<>>
    /\ "none" \notin App \cup BaseNames
    /\ Prepares \in BOOLEAN
ASSUME BoundsAssumption == MaxRuns \in Nat /\ MaxFailures \in Nat

VARIABLES
    ledger,   \* rows of the tracking tables (_hauldr_ and _app_migrations)
    schema,   \* the bodies that took effect, in the order of their commits
    prepared, \* the search path of new sessions starts with auth
    run,      \* each runner: where it is, the migration it is at, and so on
    pending,  \* a notification PostgREST has not acted on
    cache,    \* the migrations PostgREST's schema cache has seen
    acked,    \* names a run has returned without error for
    told,     \* names a caller was told `applied: true` for
    runs, failures

vars == <<ledger, schema, prepared, run, pending, cache, acked, told, runs, failures>>

\* A run of the directory is at its i-th file; a run for an app has i = 0.
Idle == [pc |-> "idle", home |-> "public", name |-> "none", i |-> 0,
         any |-> FALSE]

Runs == [pc: {"idle", "check", "body", "insert", "commit", "notify"},
         home: Homes, name: App \cup BaseNames \cup {"none"},
         i: 0 .. Len(Base), any: BOOLEAN]

TypeOK ==
    /\ ledger \in SUBSET Entries /\ schema \in Seq(Entries)
    /\ prepared \in BOOLEAN
    /\ run \in [Runners -> Runs]
    /\ pending \in BOOLEAN /\ cache \in SUBSET (App \cup BaseNames)
    /\ acked \in SUBSET (App \cup BaseNames) /\ told \in SUBSET App
    /\ runs \in Nat /\ failures \in Nat

Init ==
    /\ ledger = {} /\ schema = <<>> /\ prepared = FALSE
    /\ run = [r \in Runners |-> Idle]
    /\ pending = FALSE /\ cache = {} /\ acked = {} /\ told = {}
    /\ runs = 0 /\ failures = 0

-----------------------------------------------------------------------------
At(r, pc) == run[r].pc = pc

Become(r, s) == run' = [run EXCEPT ![r] = s]

Goto(r, pc) == Become(r, [run[r] EXCEPT !.pc = pc])

ForApp(r) == run[r].i = 0

Entry(r) == <<run[r].home, run[r].name>>

database == <<ledger, schema, prepared>>
rest     == <<pending, cache>>
answers  == <<acked, told>>

\* The directory's next file, or what follows the loop: one notification if
\* this run applied anything.
NextFile(s, any) ==
    IF s.i < Len(Base)
    THEN [s EXCEPT !.pc = "check", !.name = Base[s.i + 1], !.i = s.i + 1,
                   !.any = any]
    ELSE IF any THEN [s EXCEPT !.pc = "notify", !.any = any] ELSE Idle

\* migrateProject is called; its first queries change nothing that matters.
Send(r, m) ==
    /\ At(r, "idle") /\ runs < MaxRuns
    /\ Become(r, [Idle EXCEPT !.pc = "check", !.name = m])
    /\ runs' = runs + 1
    /\ UNCHANGED <<database, rest, answers, failures>>

\* applyMigrations is called: the directory from its first file.
Walk(r) ==
    /\ At(r, "idle") /\ runs < MaxRuns
    /\ Become(r, NextFile([Idle EXCEPT !.home = IF prepared THEN "auth" ELSE @],
                          FALSE))
    /\ runs' = runs + 1
    /\ UNCHANGED <<database, rest, answers, failures>>

\* prepareAuth: `alter database ... set search_path`, and the schema auth.
PrepareAuth ==
    /\ Prepares /\ prepared' = TRUE
    /\ UNCHANGED <<ledger, schema, run, rest, answers, runs, failures>>

\* select 1 from the tracking table: a name already there is skipped.
Skip(r) ==
    /\ At(r, "check") /\ Entry(r) \in ledger
    /\ IF ForApp(r)
       THEN Become(r, Idle) /\ acked' = acked \cup {run[r].name}
       ELSE /\ Become(r, NextFile(run[r], run[r].any))
            /\ acked' = IF run[r].i = Len(Base) /\ ~run[r].any
                        THEN acked \cup BaseNames ELSE acked
    /\ UNCHANGED <<database, rest, told, runs, failures>>

BeginTx(r) ==
    /\ At(r, "check") /\ Entry(r) \notin ledger
    /\ Goto(r, "body")
    /\ UNCHANGED <<database, rest, answers, runs, failures>>

\* The body runs inside the transaction, visible to nobody.
Body(r) ==
    /\ At(r, "body")
    /\ Goto(r, "insert")
    /\ UNCHANGED <<database, rest, answers, runs, failures>>

\* Fault: the tracking table has no primary key.
InsertUnchecked(r) ==
    /\ At(r, "insert")
    /\ Goto(r, "commit")
    /\ UNCHANGED <<database, rest, answers, runs, failures>>

\* The row is inserted: the key makes it wait for an open transaction that has
\* inserted the same name, and fail if that one (or any other) has committed.
Insert(r) ==
    /\ At(r, "insert") /\ Entry(r) \notin ledger
    /\ \A q \in Runners : At(q, "commit") => Entry(q) # Entry(r)
    /\ Goto(r, "commit")
    /\ UNCHANGED <<database, rest, answers, runs, failures>>

Duplicate(r) ==
    /\ At(r, "insert") /\ Entry(r) \in ledger
    /\ Become(r, Idle)
    /\ UNCHANGED <<database, rest, answers, runs, failures>>

\* Fault: the body is committed by itself, the row afterwards.
CommitNoRow(r) ==
    /\ At(r, "commit")
    /\ schema' = Append(schema, Entry(r))
    /\ IF ForApp(r) THEN Goto(r, "notify") ELSE Become(r, NextFile(run[r], TRUE))
    /\ UNCHANGED <<ledger, prepared, rest, answers, runs, failures>>

\* Fault: the caller hears of the migration, PostgREST does not.
CommitUnannounced(r) ==
    /\ At(r, "commit")
    /\ ledger' = ledger \cup {Entry(r)}
    /\ schema' = Append(schema, Entry(r))
    /\ IF ForApp(r)
       THEN /\ Become(r, Idle)
            /\ acked' = acked \cup {run[r].name} /\ told' = told \cup {run[r].name}
       ELSE Become(r, NextFile(run[r], TRUE)) /\ UNCHANGED answers
    /\ UNCHANGED <<prepared, rest, runs, failures>>

Commit(r) ==
    /\ At(r, "commit")
    /\ ledger' = ledger \cup {Entry(r)}
    /\ schema' = Append(schema, Entry(r))
    /\ IF ForApp(r) THEN Goto(r, "notify") ELSE Become(r, NextFile(run[r], TRUE))
    /\ UNCHANGED <<prepared, rest, answers, runs, failures>>

\* notify pgrst, then the answer.
Notify(r) ==
    /\ At(r, "notify")
    /\ pending' = TRUE
    /\ acked' = acked \cup IF ForApp(r) THEN {run[r].name} ELSE BaseNames
    /\ told' = told \cup IF ForApp(r) THEN {run[r].name} ELSE {}
    /\ Become(r, Idle)
    /\ UNCHANGED <<database, cache, runs, failures>>

\* The run is cut short: a query fails, the connection or the process is lost.
\* An open transaction is rolled back; what was committed stays.
CutShort(r) ==
    /\ ~At(r, "idle") /\ failures < MaxFailures
    /\ failures' = failures + 1
    /\ Become(r, Idle)
    /\ UNCHANGED <<database, rest, answers, runs>>

\* PostgREST serves the schema public; it reads it when it starts and on
\* every notification.
Visible == {e[2] : e \in {d \in ledger : d[1] = "public"}}

Reload ==
    /\ pending
    /\ pending' = FALSE /\ cache' = Visible
    /\ UNCHANGED <<database, run, answers, runs, failures>>

RestStarts ==
    /\ pending' = FALSE /\ cache' = Visible
    /\ UNCHANGED <<database, run, answers, runs, failures>>

Step(r) == \/ Skip(r) \/ BeginTx(r) \/ Body(r) \/ Insert(r) \/ Duplicate(r)
           \/ Commit(r) \/ Notify(r)

Next ==
    \/ \E r \in Runners : \/ \E m \in App : Send(r, m)
                          \/ Walk(r) \/ Step(r) \/ CutShort(r)
    \/ PrepareAuth \/ Reload \/ RestStarts

Spec == Init /\ [][Next]_vars

\* Queries return, locks are released by commits, and PostgREST handles what
\* it is notified of.
FairSpec == /\ Spec
            /\ \A r \in Runners : WF_vars(Step(r))
            /\ WF_vars(Reload)

-----------------------------------------------------------------------------
(* Properties.                                                             *)

\* The tracking tables say exactly what took effect, in whatever order runs of
\* the same and of different migrations interleave, fail and are repeated.
LedgerMatchesSchema == ledger = {schema[i] : i \in DOMAIN schema}

\* The ledger's promise, kept in each home: each body takes effect once, the
\* files of the directory in their order.
FileOrder ==
    UNION {{<<<<h, Base[i]>>, <<h, Base[j]>>>> : i \in 1 .. j - 1} :
              h \in Homes, j \in DOMAIN Base}
Promise == INSTANCE MigrationLedger WITH log <- schema, Before <- FileOrder
LedgerImplemented == Promise!LedgerSpec

\* "Already-applied files are skipped": no file of the directory takes effect
\* again because the search path has moved since.
AppliedFilesSkipped ==
    \A f \in BaseNames : ~(Homes \X {f} \subseteq ledger)

\* Of all the calls for one migration, at most one is told it applied it.
AppliedToldOnce ==
    \A r \in Runners : At(r, "notify") /\ ForApp(r) =>
        /\ run[r].name \notin told
        /\ \A q \in Runners \ {r} : At(q, "notify") => run[q].name # run[r].name

\* A migration whose caller was told it is applied becomes queryable through
\* PostgREST without a restart of it.
AppliedBecomesQueryable == \A m \in App : m \in told ~> m \in cache

\* Once runs and notifications have settled, every migration a run returned
\* without error for is in PostgREST's cache ("queryable at once, no restart"),
\* whether that run applied it or found it applied.
AcknowledgedIsQueryable ==
    (\A r \in Runners : At(r, "idle")) /\ ~pending => acked \subseteq cache

=============================================================================
