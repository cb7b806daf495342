---------------------------- MODULE ServicesProofs ----------------------------
(***************************************************************************)
(* Proofs about Services: type correctness, and what a call knows by each  *)
(* of its steps, from which it follows that containers and applications    *)
(* run with the credentials of the row and that the stored key opens the   *)
(* project's bucket, and no other where no two names share a host label.   *)
(*                                                                         *)
(* A call is what is left of its program.  Section 1 shows that every      *)
(* program is in order and that what is left of one stays in order; the    *)
(* rest of the argument looks at the next step and the one after it.       *)
(***************************************************************************)
EXTENDS Services, FiniteSetTheorems, TLAPS

-----------------------------------------------------------------------------
(* The inductive invariant: the order in which the steps of a call come,   *)
(* and what the call knows by its next step.                               *)

\* The steps that give a service its credentials, or advertise it; all the
\* steps that only a call turning a service on has.
Uses  == {"register", "container", "env", "deploy", "save"}
Gives == Uses \cup {"secret", "read", "bucket", "mint", "allow", "store"}

\* What comes right before a step that relies on it.
Follows(x, y) ==
    /\ y.do = "mint" => x.do = "bucket"
    /\ y.do = "allow" => x.do = "mint"
    /\ y.do = "store" => x.do = "allow"
    /\ y.do = "read" /\ y.s = "storage" => x.do = "store"
    /\ y.do = "deploy" => x.do = "env"
    /\ y.do = "save" => \/ x.do = "container" \/ y.s = "realtime"
                        \/ y.s \in Routed /\ mode # "docker"

\* The steps of a call, from any one of them on: they are on one project; a
\* step that relies on the one before it comes right after it; one that may be
\* skipped is skipped with nothing else.
InOrder(t) ==
    \A i \in DOMAIN t :
        /\ \A j \in DOMAIN t : t[j].p = t[i].p
        /\ t[i].do \in {"bucket", "mint"} => \A j \in DOMAIN t : t[j].s = "storage"
        /\ t[i].do \in Uses \cup {"read", "secret", "find", "create", "await"} =>
              \A j \in DOMAIN t : t[j].s = t[i].s
        /\ t[i].do \in {"forget"} \cup DOMAIN Removal => \A j \in DOMAIN t : t[j].do \notin Gives
        /\ t[i].do = "secret" => t[i].s = "auth"
        /\ t[i].do = "bucket" => /\ i + 3 \in DOMAIN t /\ t[i + 1].do = "mint"
                                 /\ t[i + 2].do = "allow" /\ t[i + 3].do = "store"
        /\ t[i].do = "create" =>
              i + 1 \in DOMAIN t /\ t[i + 1].do = "await" /\ t[i].s \in Routed
        /\ t[i].do = "container" => t[i].s = "functions" \/ (t[i].s \in Routed /\ mode = "docker")
        /\ i > 1 => Follows(t[i - 1], t[i])

Ordered == InOrder(Call.todo)

\* The row has what the service needs.
Ready(p, s) == row[p].secret # None /\ (s = "storage" => row[p].key # None)

\* A call uses what the row has: it has read it, or has yet to read it.
Informed ==
    LET t == Call.todo IN
    /\ \A i \in DOMAIN t : t[i].do \in Uses =>
          \/ \E j \in 1 .. i - 1 : t[j].do \in {"read", "secret"}
          \/ Ready(t[i].p, t[i].s) /\ <<Call.secret, Call.key>> = Credentials(t[i].p, t[i].s)
    /\ \A i \in DOMAIN t : t[i].s # "storage" => Call.key = None

\* A key on its way to the row.
KeyUnderWay ==
    LET at(dos) == Busy("call") /\ Now("call").do \in dos
        label   == projectHostLabel(P)
    IN  /\ at({"mint", "allow", "store"}) => row[P].key = None /\ label \in bucket
        /\ at({"allow", "store"}) => /\ Call.key \in keys
                                     /\ \A q \in Projects : row[q].key # Call.key
                                     /\ \A a \in allowed : a[1] = Call.key => a[2] = label
        /\ at({"store"}) => <<Call.key, label>> \in allowed
        /\ at({"read"}) /\ S = "storage" /\ row[P].there =>
              row[P].key # None /\ Call.key = row[P].key

\* A key belongs to one project and opens no bucket but that project's.
KeysOwned ==
    \A p \in Projects : row[p].key # None =>
        /\ \A q \in Projects : q # p => row[q].key # row[p].key
        /\ \A a \in allowed : a[1] = row[p].key => a[2] = projectHostLabel(p)

\* Only a project of the registry has a secret; what is advertised has what it
\* needs; containers are where containers run.
RowsFilled ==
    \A p \in Projects :
        /\ row[p].secret # None => row[p].there
        /\ \A s \in row[p].url : Ready(p, s)
        /\ \A s \in Services : box[p][s] # NoBox =>
              s = "functions" \/ (s \in Routed /\ mode = "docker")

\* An application holds the credentials of the row or none yet.
Given(u) ==
    \A p \in Projects, s \in Routed : app[u].of = <<p, s>> =>
        LET known == {<<None, None>>} \cup (IF Ready(p, s) THEN {Credentials(p, s)} ELSE {})
        IN  app[u].env \in known /\ (app[u].run # <<>> => app[u].run[1] \in known)

\* The call's application is the service's; before the deploy it holds the
\* credentials, and before the row is updated the container does.
Held ==
    Busy("call") =>
        /\ Call.app # None =>
              \A i \in DOMAIN Call.todo :
                  app[Call.app].of \in {<<>>, <<Call.todo[i].p, Call.todo[i].s>>}
        /\ Now("call").do = "deploy" /\ Call.app # None /\ app[Call.app].of # <<>> =>
              app[Call.app].env = <<Call.secret, Call.key>>
        /\ Now("call").do = "save" => box[P][S] \in {NoBox, Credentials(P, S)}

\* No two names have one host label.
LabelsDiffer ==
    \A p, q \in Projects : projectHostLabel(p) = projectHostLabel(q) => p = q

ServicesInv ==
    /\ TypeOK /\ Ordered /\ Informed /\ KeyUnderWay /\ KeysOwned /\ RowsFilled
    /\ (\A u \in Uuids \ orphans : Given(u)) /\ Held
    /\ ContainersAgree /\ (LabelsDiffer => StoredKeyWorks)

StepRecords == [do: StepNames, p: Projects, s: Services]

-----------------------------------------------------------------------------
(* 1. Programs.                                                            *)

\* The steps of a program that turns something off.
Taken == {"remove", "gone", "undns", "clear", "deregister", "removeContainer",
          "removeKey", "removeBucket", "forget", "register project"}

TakesOff(t, p) ==
    t \in Seq(StepRecords) /\ \A i \in DOMAIN t : t[i].p = p /\ t[i].do \in Taken

\* A program from its start: what it uses it has read before.
Starts(t) ==
    /\ t \in Seq(StepRecords) /\ InOrder(t)
    /\ \A i \in DOMAIN t : t[i].do \in Uses => \E j \in 1 .. i - 1 : t[j].do \in {"read", "secret"}
    /\ t # <<>> => /\ t[1].do \notin {"mint", "allow", "store", "deploy", "save"}
                   /\ t[1].do = "read" => t[1].s # "storage"

\* The program made of some names is a sequence of steps, one per name.
LEMMA StepsTyped ==
    ASSUME NEW p \in Projects, NEW s \in Services, NEW names \in Seq(StepNames)
    PROVE  /\ Steps(p, s, names) \in Seq(StepRecords)
           /\ Len(Steps(p, s, names)) = Len(names)
           /\ \A i \in 1 .. Len(names) :
                 Steps(p, s, names)[i] = [do |-> names[i], p |-> p, s |-> s]
<1> DEFINE t == [i \in 1 .. Len(names) |-> [do |-> names[i], p |-> p, s |-> s]]
<1>1. Steps(p, s, names) = t /\ Len(names) \in Nat
    BY DEF Steps
<1>2. \A i \in 1 .. Len(names) : t[i] \in StepRecords
    BY DEF StepRecords
<1>3. t \in Seq(StepRecords) /\ Len(t) = Len(names)
    BY <1>1, <1>2
<1> QED
    BY <1>1, <1>3

\* A program that only takes off may be begun.
LEMMA TakesOffStarts ==
    ASSUME NEW t, NEW p, TakesOff(t, p)
    PROVE  Starts(t)
<1>1. t \in Seq(StepRecords) /\ \A i \in DOMAIN t : t[i].p = p /\ t[i].do \in Taken
    BY DEF TakesOff
<1>2. \A i \in DOMAIN t :
         t[i].do \notin Gives \cup {"find", "create", "await", "container", "bucket"}
    BY <1>1 DEF Taken, Uses, Gives
<1>3. InOrder(t)
    BY <1>1, <1>2 DEF InOrder, Follows, Uses, Gives
<1> QED
    BY <1>1, <1>2, <1>3 DEF Starts, Uses, Gives

\* Two such programs make one.
LEMMA TakesOffBoth ==
    ASSUME NEW t, NEW u, NEW p, TakesOff(t, p), TakesOff(u, p)
    PROVE  TakesOff(t \o u, p)
BY DEF TakesOff

\* Names that take off make such a program.
LEMMA StepsTakeOff ==
    ASSUME NEW p \in Projects, NEW s \in Services, NEW names \in Seq(Taken)
    PROVE  TakesOff(Steps(p, s, names), p)
<1>1. Taken \subseteq StepNames
    BY DEF Taken, StepNames
<1>2. names \in Seq(StepNames) /\ \A i \in 1 .. Len(names) : names[i] \in Taken
    BY <1>1
<1>3. Steps(p, s, names) \in Seq(StepRecords) /\ DOMAIN Steps(p, s, names) = 1 .. Len(names)
    BY <1>2, StepsTyped
<1>4. \A i \in 1 .. Len(names) : Steps(p, s, names)[i] = [do |-> names[i], p |-> p, s |-> s]
    BY <1>2, StepsTyped
<1> QED
    BY <1>2, <1>3, <1>4 DEF TakesOff

\* The removals, and the registration of a project, are such programs.
LEMMA ProgramsTakeOff ==
    ASSUME NEW p \in Projects
    PROVE  /\ TakesOff(destroyAuth(p), p) /\ TakesOff(destroyRest(p), p)
           /\ TakesOff(destroyStorageApi(p), p) /\ TakesOff(destroyRealtime(p), p)
           /\ TakesOff(destroyFunctions(p), p) /\ TakesOff(destroyProject(p), p)
           /\ TakesOff(provisionProject(p), p)
<1>4. Removes \in Seq(Taken) /\ Removes \o <<"clear">> \in Seq(Taken)
    <2>1. CASE mode = "docker"
        BY <2>1 DEF Removes, Taken
    <2>2. CASE mode # "docker"
        BY <2>2 DEF Removes, RemovesApp, Taken
    <2> QED
        BY <2>1, <2>2
<1>1. /\ <<"deregister", "undns", "clear">> \in Seq(Taken)
      /\ <<"removeContainer", "clear">> \in Seq(Taken)
      /\ <<"removeKey", "removeBucket">> \in Seq(Taken)
      /\ <<"forget">> \in Seq(Taken) /\ <<"register project">> \in Seq(Taken)
    BY DEF Taken
<1>2. /\ TakesOff(destroyAuth(p), p) /\ TakesOff(destroyRest(p), p)
      /\ TakesOff(destroyStorageApi(p), p) /\ TakesOff(destroyRealtime(p), p)
      /\ TakesOff(destroyFunctions(p), p) /\ TakesOff(destroyStorage(p), p)
      /\ TakesOff(Steps(p, "auth", <<"forget">>), p) /\ TakesOff(provisionProject(p), p)
    BY <1>1, <1>4, StepsTakeOff
    DEF destroyAuth, destroyRest, destroyStorageApi, destroyRealtime, destroyFunctions,
        destroyStorage, provisionProject, Services, Routed
<1>3. TakesOff(destroyProject(p), p)
    BY <1>2, TakesOffBoth DEF destroyProject
<1> QED
    BY <1>2, <1>3

\* The names of the steps of a program that turns service s on.
TurnsOn(names, s) ==
    /\ names \in Seq(StepNames) /\ names # <<>>
    /\ names[1] \notin {"mint", "allow", "store", "deploy", "save"}
    /\ names[1] = "read" => s # "storage"
    /\ \A i \in 1 .. Len(names) :
          /\ names[i] \notin {"forget", "remove", "gone", "undns"}
          /\ names[i] \in {"bucket", "mint"} => s = "storage"
          /\ names[i] = "secret" => s = "auth"
          /\ names[i] = "bucket" => /\ i + 3 <= Len(names) /\ names[i + 1] = "mint"
                                    /\ names[i + 2] = "allow" /\ names[i + 3] = "store"
          /\ names[i] = "create" => /\ i + 1 <= Len(names) /\ names[i + 1] = "await"
                                    /\ s \in Routed
          /\ names[i] = "container" => s = "functions" \/ (s \in Routed /\ mode = "docker")
          /\ names[i] \in Uses => \E j \in 1 .. i - 1 : names[j] \in {"read", "secret"}
          /\ i > 1 => Follows([do |-> names[i - 1], s |-> s], [do |-> names[i], s |-> s])

\* Names that turn a service on make a program that may be begun.
LEMMA StepsStart ==
    ASSUME NEW p \in Projects, NEW s \in Services, NEW names, TurnsOn(names, s)
    PROVE  Starts(Steps(p, s, names))
<1> DEFINE t == Steps(p, s, names)
<1>1. names \in Seq(StepNames) /\ Len(names) \in Nat \ {0}
    BY DEF TurnsOn
<1> HIDE DEF t
<1>2. t \in Seq(StepRecords) /\ Len(t) = Len(names) /\ DOMAIN t = 1 .. Len(names)
    BY <1>1, StepsTyped DEF t
<1>3. \A i \in 1 .. Len(names) : t[i].do = names[i] /\ t[i].p = p /\ t[i].s = s
    <2> TAKE i \in 1 .. Len(names)
    <2>1. t[i] = [do |-> names[i], p |-> p, s |-> s]
        BY <1>1, StepsTyped DEF t
    <2> QED
        BY <2>1
<1>4. DOMAIN Removal = {"remove", "gone", "undns"}
    BY DEF Removal
<1>5. ASSUME NEW i \in 1 .. Len(names), i > 1 PROVE Follows(t[i - 1], t[i])
    <2>1. i - 1 \in 1 .. Len(names)
        BY <1>1, <1>5
    <2> QED
        BY <1>3, <1>5, <2>1 DEF TurnsOn, Follows
<1>6. \A i \in 1 .. Len(names) :
         /\ i + 1 <= Len(names) => i + 1 \in 1 .. Len(names)
         /\ i + 3 <= Len(names) => {i + 1, i + 2, i + 3} \subseteq 1 .. Len(names)
    BY <1>1
<1>7. InOrder(t)
    <2> SUFFICES ASSUME NEW i \in 1 .. Len(names)
                 PROVE  /\ t[i].do \notin {"forget"} \cup DOMAIN Removal
                        /\ t[i].do \in {"bucket", "mint"} => s = "storage"
                        /\ t[i].do = "secret" => s = "auth"
                        /\ t[i].do = "bucket" =>
                              /\ i + 3 \in DOMAIN t /\ t[i + 1].do = "mint"
                              /\ t[i + 2].do = "allow" /\ t[i + 3].do = "store"
                        /\ t[i].do = "create" =>
                              i + 1 \in DOMAIN t /\ t[i + 1].do = "await" /\ s \in Routed
                        /\ t[i].do = "container" =>
                              s = "functions" \/ (s \in Routed /\ mode = "docker")
        BY <1>2, <1>3, <1>5 DEF InOrder
    <2>1. t[i].do = names[i]
        BY <1>3
    <2>2. CASE names[i] \notin {"bucket", "create"}
        BY <1>4, <2>1, <2>2 DEF TurnsOn
    <2>3. CASE names[i] = "bucket"
        BY <1>2, <1>3, <1>4, <1>6, <2>1, <2>3 DEF TurnsOn
    <2>4. CASE names[i] = "create"
        BY <1>2, <1>3, <1>4, <1>6, <2>1, <2>4 DEF TurnsOn
    <2> QED
        BY <2>2, <2>3, <2>4
<1>8. \A i \in DOMAIN t : t[i].do \in Uses => \E j \in 1 .. i - 1 : t[j].do \in {"read", "secret"}
    <2> SUFFICES ASSUME NEW i \in DOMAIN t, t[i].do \in Uses
                 PROVE  \E j \in 1 .. i - 1 : t[j].do \in {"read", "secret"}
        OBVIOUS
    <2>1. PICK j \in 1 .. i - 1 : names[j] \in {"read", "secret"}
        BY <1>2, <1>3 DEF TurnsOn
    <2>2. j \in 1 .. Len(names)
        BY <1>1, <1>2
    <2> QED
        BY <1>3, <2>1, <2>2
<1> QED
    BY <1>1, <1>2, <1>3, <1>7, <1>8 DEF Starts, TurnsOn, t

\* So may every program that turns a service on.
LEMMA ProgramsStart ==
    ASSUME NEW p \in Projects
    PROVE  /\ Starts(provisionAuth(p)) /\ Starts(provisionRest(p))
           /\ Starts(provisionStorageApi(p)) /\ Starts(provisionRealtime(p))
           /\ Starts(provisionFunctions(p))
<1> USE DEF TurnsOn, Follows, Uses, Routed, StepNames
<1>1. TurnsOn(<<"secret">> \o Runs, "auth") /\ TurnsOn(<<"read">> \o Runs, "rest")
    <2>1. CASE mode = "docker"
        BY <2>1 DEF Runs, RunsContainer
    <2>2. CASE mode # "docker"
        BY <2>2 DEF Runs, RunsApp
    <2> QED
        BY <2>1, <2>2
<1>2. TurnsOn(provisionStorage \o <<"read">> \o Runs, "storage")
    <2>1. CASE mode = "docker"
        BY <2>1 DEF provisionStorage, Runs, RunsContainer
    <2>2. CASE mode # "docker"
        BY <2>2 DEF provisionStorage, Runs, RunsApp
    <2> QED
        BY <2>1, <2>2
<1>3. /\ TurnsOn(<<"read", "register", "realtimeDns", "save">>, "realtime")
      /\ TurnsOn(<<"read">> \o RunsContainer, "functions")
    BY DEF RunsContainer
<1> HIDE DEF TurnsOn
<1> QED
    BY <1>1, <1>2, <1>3, StepsStart
    DEF provisionAuth, provisionRest, provisionStorageApi, provisionRealtime,
        provisionFunctions, Services

-----------------------------------------------------------------------------
(* 2. Types.                                                               *)

Callers == {"call", "sweep"}

Locals(m) == [todo: Seq(StepRecords), app: Uuids \cup {None}, secret: Secrets, key: 0 .. m,
              done: BOOLEAN]

RowTyped == row \in [Projects -> [there: BOOLEAN, secret: Secrets, key: 0 .. minted,
                                  url: SUBSET Services]]

AppTyped ==
    /\ app \in [Uuids -> [of: {<<>>} \cup (Projects \X Routed), listed: BOOLEAN, deleting: BOOLEAN,
                          env: Secrets \X Keys, shape: {None} \cup Shapes,
                          run: {<<>>} \cup ((Secrets \X Keys) \X Shapes)]]
    /\ \A u \in Uuids : app[u].listed => app[u].of # <<>>
    /\ \A u \in Uuids : app[u].of # <<>> => app[u].shape \in Shapes

StoreTyped == bucket \subseteq Labels /\ keys \subseteq 1 .. minted /\ allowed \subseteq (0 .. minted) \X Labels

PlacesTyped ==
    /\ tenant \in [Labels -> Secrets]
    /\ box \in [Projects -> [Services -> {NoBox} \cup (Secrets \X Keys)]]
    /\ record \subseteq Labels \X Services

CallerTyped == caller \in [Callers -> Locals(minted)]

CountsTyped ==
    /\ mode \in Modes /\ shape \in Shapes
    /\ secrets \in Secrets /\ minted \in Keys /\ calls \in 0 .. MaxCalls /\ faults \in 0 .. MaxFaults

GhostsTyped ==
    /\ hurt \subseteq Projects /\ drift \subseteq Projects /\ tearing \subseteq Projects
    /\ orphans \subseteq Uuids

\* The type invariant in parts, now and after a step.
LEMMA Typed ==
    /\ TypeOK <=> /\ RowTyped /\ AppTyped /\ StoreTyped /\ PlacesTyped /\ CallerTyped
                  /\ CountsTyped /\ GhostsTyped
    /\ TypeOK' <=> /\ RowTyped' /\ AppTyped' /\ StoreTyped' /\ PlacesTyped' /\ CallerTyped'
                   /\ CountsTyped' /\ GhostsTyped'
BY DEF TypeOK, RowTyped, AppTyped, StoreTyped, PlacesTyped, CallerTyped, CountsTyped,
       GhostsTyped, Locals, Callers, StepRecords

\* What the assumption on the constants says of the bounds.
LEMMA Bounds ==
    /\ MaxSecret \in Nat /\ MaxKey \in Nat /\ MaxShape \in Nat /\ MaxCalls \in Nat
    /\ MaxFaults \in Nat /\ MaxShape >= 1 /\ None \notin Uuids
BY ServicesAssumption DEF None

\* The initial values of a call and of a row are well typed.
LEMMA ValuesTyped ==
    /\ \A m \in Nat : Idle \in Locals(m)
    /\ \A m \in Nat : NoRow \in [there: BOOLEAN, secret: Secrets, key: 0 .. m, url: SUBSET Services]
    /\ Idle.todo = <<>> /\ Idle.app = None /\ Idle.secret = None /\ Idle.key = None
BY Bounds DEF Idle, Locals, NoRow, Secrets, None, StepRecords

\* What is left of a sequence of steps.
LEMMA Skipped ==
    ASSUME NEW t \in Seq(StepRecords), NEW n \in Nat \ {0}
    PROVE  LET u == SubSeq(t, n + 1, Len(t)) IN
           /\ u \in Seq(StepRecords)
           /\ \A i \in DOMAIN u : i + n \in DOMAIN t /\ u[i] = t[i + n]
           /\ \A i \in Nat \ {0} : i + n \in DOMAIN t => i \in DOMAIN u
OBVIOUS

\* A call that goes on, whatever it has left to do.
LEMMA Resumed ==
    ASSUME NEW h \in Callers, NEW m \in Nat, NEW locals \in Locals(m),
           NEW t \in Seq(StepRecords), caller \in [Callers -> Locals(m)],
           Resumes(h, locals, t)
    PROVE  /\ caller' \in [Callers -> Locals(m)]
           /\ caller'[h].todo = t
           /\ \A g \in Callers : g # h => caller'[g] = caller[g]
           /\ t # <<>> => /\ caller'[h].app = locals.app /\ caller'[h].secret = locals.secret
                          /\ caller'[h].key = locals.key
<1>1. [locals EXCEPT !.todo = t] \in Locals(m) /\ [Idle EXCEPT !.done = TRUE] \in Locals(m)
    BY ValuesTyped DEF Locals
<1>2. [locals EXCEPT !.todo = t].todo = t /\ [Idle EXCEPT !.done = TRUE].todo = <<>>
    BY ValuesTyped DEF Locals
<1>3. /\ [locals EXCEPT !.todo = t].app = locals.app
      /\ [locals EXCEPT !.todo = t].secret = locals.secret
      /\ [locals EXCEPT !.todo = t].key = locals.key
    BY DEF Locals
<1>4. CASE t = <<>>
    BY <1>1, <1>2, <1>4 DEF Resumes
<1>5. CASE t # <<>>
    BY <1>1, <1>2, <1>3, <1>5 DEF Resumes
<1> QED
    BY <1>4, <1>5

\* A caller that skips n steps is well typed and keeps its locals while it goes on.
LEMMA SkipResumes ==
    ASSUME TypeOK, NEW h \in Callers, NEW n \in Nat \ {0}, NEW m \in Nat, m >= minted,
           NEW locals \in Locals(m), Resumes(h, locals, Skip(h, n))
    PROVE  /\ caller' \in [Callers -> Locals(m)]
           /\ caller'[h].todo = Skip(h, n)
           /\ \A g \in Callers : g # h => caller'[g] = caller[g]
           /\ Skip(h, n) # <<>> => /\ caller'[h].app = locals.app
                                   /\ caller'[h].secret = locals.secret
                                   /\ caller'[h].key = locals.key
<1>1. caller \in [Callers -> Locals(m)]
    BY Typed, Bounds DEF CallerTyped, Locals, CountsTyped, Keys
<1>2. caller[h].todo \in Seq(StepRecords)
    BY <1>1 DEF Locals
<1>3. Skip(h, n) \in Seq(StepRecords)
    BY <1>2, Skipped DEF Skip
<1> QED
    BY <1>1, <1>3, Resumed

\* The step a call is at.
LEMMA NextStep ==
    ASSUME TypeOK, NEW h \in Callers, Busy(h)
    PROVE  /\ Now(h) \in StepRecords /\ Now(h) = caller[h].todo[1]
           /\ 1 \in DOMAIN caller[h].todo
           /\ caller[h] \in Locals(minted)
<1>1. caller[h] \in Locals(minted)
    BY Typed DEF CallerTyped
<1>2. caller[h].todo \in Seq(StepRecords) /\ caller[h].todo # <<>>
    BY <1>1 DEF Locals, Busy
<1> QED
    BY <1>1, <1>2 DEF Now

\* What two sequences over one set make together.
LEMMA ConcatTyped ==
    ASSUME NEW R, NEW t \in Seq(R), NEW u \in Seq(R)
    PROVE  t \o u \in Seq(R) /\ Len(t \o u) = Len(t) + Len(u) /\ Len(t) \in Nat
OBVIOUS

\* An element of a sequence over a set is in the set.
LEMMA ElementTyped ==
    ASSUME NEW R, NEW t \in Seq(R), NEW i \in 1 .. Len(t)
    PROVE  t[i] \in R
OBVIOUS

\* The projects of the registry in an order, and the sweep over them.
LEMMA OrderTyped ==
    ASSUME NEW Q \in SUBSET Projects
    PROVE  SetToSeq(Q) \in Seq(Projects)
<1>1. IsFiniteSet(Q) /\ Cardinality(Q) \in Nat
    BY ServicesAssumption, FS_Subset, FS_CardinalityType
<1>2. PICK f \in [1 .. Cardinality(Q) -> Q] : IsInjective(f)
    BY <1>1, FS_CardinalityType DEF ExistsBijection, Bijection, Injection
<1>3. SetToSeq(Q) \in [1 .. Cardinality(Q) -> Q]
    BY <1>2 DEF SetToSeq
<1> QED
    BY <1>1, <1>3

\* A sweep is a sequence of steps, whatever projects it is for.
LEMMA SweepTyped ==
    ASSUME NEW names \in Seq(Projects)
    PROVE  reconcileAll(names) \in Seq(StepRecords)
<1>1. ASSUME NEW p \in Projects
      PROVE  reconcileProject(p) \in Seq(StepRecords) /\ Len(reconcileProject(p)) = 9
    <2>1. <<"look", "patch", "redeploy">> \in Seq(StepNames)
        BY DEF StepNames
    <2>2. \A s \in Routed : /\ Steps(p, s, <<"look", "patch", "redeploy">>) \in Seq(StepRecords)
                            /\ Len(Steps(p, s, <<"look", "patch", "redeploy">>)) = 3
        BY <2>1, StepsTyped DEF Services
    <2> DEFINE t(s) == Steps(p, s, <<"look", "patch", "redeploy">>)
    <2>3. /\ t("auth") \in Seq(StepRecords) /\ Len(t("auth")) = 3
          /\ t("rest") \in Seq(StepRecords) /\ Len(t("rest")) = 3
          /\ t("storage") \in Seq(StepRecords) /\ Len(t("storage")) = 3
        BY <2>2 DEF Routed
    <2>4. reconcileProject(p) = t("auth") \o t("rest") \o t("storage")
        BY DEF reconcileProject
    <2> HIDE DEF t
    <2> DEFINE u == t("auth") \o t("rest")
    <2>5. u \in Seq(StepRecords) /\ Len(u) = Len(t("auth")) + Len(t("rest"))
        BY <2>3, ConcatTyped
    <2> HIDE DEF u
    <2>6. /\ u \o t("storage") \in Seq(StepRecords)
          /\ Len(u \o t("storage")) = Len(u) + Len(t("storage"))
        BY <2>3, <2>5, ConcatTyped
    <2>7. Len(u \o t("storage")) = 9
        <3>1. \A v, w, x, y, z \in Nat :
                 x = 3 /\ y = 3 /\ z = 3 /\ v = x + y /\ w = v + z => w = 9
            OBVIOUS
        <3>2. /\ Len(t("auth")) \in Nat /\ Len(t("rest")) \in Nat /\ Len(t("storage")) \in Nat
              /\ Len(u) \in Nat /\ Len(u \o t("storage")) \in Nat
            BY <2>3, <2>5, <2>6, ConcatTyped
        <3> QED
            BY <2>3, <2>5, <2>6, <3>1, <3>2
    <2> QED
        BY <2>4, <2>6, <2>7 DEF u
<1>2. ASSUME NEW k \in 1 .. 9 * Len(names)
      PROVE  reconcileProject(names[((k - 1) \div 9) + 1])[((k - 1) % 9) + 1] \in StepRecords
    <2>1. Len(names) \in Nat
        OBVIOUS
    <2>2. ((k - 1) \div 9) + 1 \in 1 .. Len(names) /\ ((k - 1) % 9) + 1 \in 1 .. 9
        BY <2>1
    <2>3. names[((k - 1) \div 9) + 1] \in Projects
        BY <2>2
    <2> QED
        <3> DEFINE t == reconcileProject(names[((k - 1) \div 9) + 1])
        <3>1. t \in Seq(StepRecords) /\ Len(t) = 9
            BY <1>1, <2>3
        <3> HIDE DEF t
        <3>2. ((k - 1) % 9) + 1 \in 1 .. Len(t)
            BY <2>2, <3>1
        <3>3. t[((k - 1) % 9) + 1] \in StepRecords
            BY <3>1, <3>2, ElementTyped
        <3> QED
            BY <3>3 DEF t
<1>3. 9 * Len(names) \in Nat
    OBVIOUS
<1> QED
    BY <1>2, <1>3 DEF reconcileAll

\* The end of a call with an error.
LEMMA AbandonTyped ==
    ASSUME TypeOK, NEW h \in Callers, Busy(h), Abandon(h), Fault \/ UNCHANGED faults
    PROVE  TypeOK'
<1>1. CallerTyped'
    BY Typed, ValuesTyped, Bounds DEF Abandon, CallerTyped, CountsTyped, Keys
<1>2. Now(h).p \in Projects
    BY NextStep DEF StepRecords
<1>3. GhostsTyped'
    BY <1>2, Typed DEF Abandon, GhostsTyped
<1>4. CountsTyped'
    BY Typed, Bounds DEF Abandon, modes, CountsTyped, Fault, Keys, Secrets
<1>5. RowTyped' /\ AppTyped' /\ StoreTyped' /\ PlacesTyped'
    BY Typed DEF Abandon, outside, RowTyped, AppTyped, StoreTyped, PlacesTyped
<1> QED
    BY <1>1, <1>3, <1>4, <1>5, Typed

\* Types are kept when a call or a sweep begins, at an upgrade and a swallowed failure.
LEMMA BeginTyped ==
    ASSUME TypeOK, Begin \/ BeginSweep \/ Upgrade \/ Swallows
    PROVE  TypeOK'
<1> USE DEF outside, modes, counts, ghosts
<1>1. CallerTyped'
    <2>1. CASE Begin
        <3>0. PICK p \in Projects : \E t \in {provisionProject(p)} \cup Programs(p) : Resumes("call", Idle, t)
            BY <2>1 DEF Begin
        <3>1. PICK t \in {provisionProject(p)} \cup Programs(p) : Resumes("call", Idle, t)
            BY <3>0
        <3>2. t \in Seq(StepRecords)
            BY <3>1, ProgramsTakeOff, ProgramsStart, ServicesAssumption
            DEF Programs, TakesOff, Starts, Services, Routed
        <3> QED
            BY <2>1, <3>1, <3>2, Typed, ValuesTyped, Bounds, Resumed
            DEF Begin, CallerTyped, Callers, CountsTyped, Keys
    <2>2. CASE BeginSweep
        <3> DEFINE t == reconcileAll(SetToSeq({p \in Projects : row[p].there}))
        <3>1. t \in Seq(StepRecords)
            BY OrderTyped, SweepTyped
        <3>2. Resumes("sweep", Idle, t) /\ minted' = minted
            BY <2>2 DEF BeginSweep
        <3> HIDE DEF t
        <3> QED
            BY <3>1, <3>2, Typed, ValuesTyped, Bounds, Resumed
            DEF CallerTyped, Callers, CountsTyped, Keys
    <2>3. CASE Upgrade
        BY <2>3, Typed, ValuesTyped, Bounds DEF Upgrade, CallerTyped, Callers, CountsTyped, Keys
    <2>4. CASE Swallows
        <3>1. Removal \in [{"remove", "gone", "undns"} -> Nat \ {0}]
            BY DEF Removal
        <3>2. PICK n \in Nat \ {0} : Resumes("call", caller["call"], Skip("call", n)) /\ minted' = minted
            BY <2>4, <3>1 DEF Swallows
        <3> QED
            BY <3>2, Typed, Bounds, SkipResumes DEF CallerTyped, Callers, CountsTyped, Keys
    <2> QED
        BY <2>1, <2>2, <2>3, <2>4
<1>2. CountsTyped'
    BY Typed, Bounds DEF Begin, BeginSweep, Upgrade, Swallows, CountsTyped, Fault, Keys, Secrets, Shapes
<1>3. GhostsTyped'
    <2>1. CASE Swallows
        <3>1. Now("call").p \in Projects
            BY <2>1, NextStep DEF Swallows, StepRecords, Callers
        <3> QED
            BY <2>1, <3>1, Typed DEF Swallows, Torn, GhostsTyped
    <2> QED
        BY <2>1, Typed DEF Begin, BeginSweep, Upgrade, GhostsTyped
<1>4. RowTyped' /\ AppTyped' /\ StoreTyped' /\ PlacesTyped'
    BY Typed DEF Begin, BeginSweep, Upgrade, Swallows, RowTyped, AppTyped, StoreTyped, PlacesTyped
<1> QED
    BY <1>1, <1>2, <1>3, <1>4, Typed

\* The locals of the call and what it is about.
LEMMA CallTyped ==
    ASSUME TypeOK, Busy("call")
    PROVE  /\ Call \in Locals(minted) /\ Call.app \in Uuids \cup {None}
           /\ Call.secret \in Secrets /\ Call.key \in 0 .. minted /\ Call.key \in Keys
           /\ P \in Projects /\ S \in Services /\ projectHostLabel(P) \in Labels
           /\ minted \in Keys /\ minted \in Nat
<1>1. /\ Call \in Locals(minted) /\ Now("call") \in StepRecords
    BY NextStep DEF Call, Callers
<1>2. minted \in Keys /\ minted \in Nat
    BY Typed, Bounds DEF CountsTyped, Keys
<1> QED
    BY <1>1, <1>2, Bounds DEF Locals, StepRecords, P, S, Labels, Keys

\* A caller that skips n steps leaves the callers well typed.
LEMMA ProceedsTyped ==
    ASSUME TypeOK, NEW h \in Callers, NEW n \in Nat \ {0}, NEW locals \in Locals(minted),
           Resumes(h, locals, Skip(h, n)), minted' = minted
    PROVE  CallerTyped'
<1>1. minted \in Nat
    BY Typed, Bounds DEF CountsTyped, Keys
<1> QED
    BY <1>1, SkipResumes DEF CallerTyped

\* Types are kept by requests to the registry and the object store.
LEMMA RegistryTyped ==
    ASSUME TypeOK,
           \/ RegisterProject \/ prepareAuth \/ ReadSecret \/ CreateBucket \/ MintKey \/ AllowKey
           \/ StoreKey \/ Save \/ Clear \/ RemoveKey \/ RemoveBucket \/ Forget
    PROVE  TypeOK'
<1> USE DEF Framed, outside, modes, counts, ghosts
<1>1. Busy("call") /\ "call" \in Callers /\ 1 \in Nat \ {0}
    <2>1. RegisterProject \/ prepareAuth \/ ReadSecret \/ CreateBucket \/ MintKey \/ AllowKey
          => Busy("call")
        BY DEF RegisterProject, prepareAuth, ReadSecret, CreateBucket, MintKey, AllowKey, Does
    <2>2. StoreKey \/ Save \/ Clear \/ RemoveKey \/ RemoveBucket \/ Forget => Busy("call")
        BY DEF StoreKey, Save, Clear, RemoveKey, RemoveBucket, Forget, Does
    <2> QED
        BY <2>1, <2>2 DEF Callers
<1>2. CASE Throws("call")
    BY <1>1, <1>2, AbandonTyped DEF Throws
<1>3. CASE RegisterProject \/ StoreKey \/ Save \/ Clear \/ Forget
    <2>1. CallerTyped'
        BY <1>1, <1>3, CallTyped, ProceedsTyped
        DEF RegisterProject, StoreKey, Save, Clear, Forget, Proceeds
    <2>2. RowTyped'
        <3> DEFINE R == [there: BOOLEAN, secret: Secrets, key: 0 .. minted, url: SUBSET Services]
        <3>1. /\ row \in [Projects -> R] /\ minted' = minted /\ P \in Projects /\ row[P] \in R
              /\ NoRow \in R /\ Call.key \in 0 .. minted /\ S \in Services
            BY <1>1, <1>3, CallTyped, Typed, ValuesTyped
            DEF RegisterProject, StoreKey, Save, Clear, Forget, RowTyped
        <3>2. PICK r \in R : row' \in {row, [row EXCEPT ![P] = r]}
            <4>1. CASE RegisterProject
                BY <3>1, <4>1 DEF RegisterProject
            <4>2. CASE StoreKey
                BY <3>1, <4>2 DEF StoreKey
            <4>3. CASE Save
                BY <3>1, <4>3 DEF Save
            <4>4. CASE Clear
                BY <3>1, <4>4 DEF Clear
            <4>5. CASE Forget
                BY <3>1, <4>5 DEF Forget
            <4> QED
                BY <1>3, <4>1, <4>2, <4>3, <4>4, <4>5
        <3> QED
            BY <3>1, <3>2 DEF RowTyped
    <2>3. AppTyped' /\ StoreTyped' /\ PlacesTyped' /\ CountsTyped'
        BY <1>3, Typed DEF RegisterProject, StoreKey, Save, Clear, Forget,
           AppTyped, StoreTyped, PlacesTyped, CountsTyped
    <2>4. GhostsTyped'
        BY <1>3, Typed DEF RegisterProject, StoreKey, Save, Clear, Forget, GhostsTyped
    <2> QED
        BY <2>1, <2>2, <2>3, <2>4, Typed
<1>4. CASE prepareAuth /\ ~Throws("call")
    <2>1. RowTyped' /\ CountsTyped'
        BY <1>1, <1>4, CallTyped, Typed, Bounds
        DEF prepareAuth, RowTyped, CountsTyped, Secrets, Keys
    <2>2. CallerTyped'
        <3>1. row'[P].secret \in Secrets /\ minted' = minted
            BY <1>1, <1>4, <2>1, CallTyped DEF prepareAuth, RowTyped
        <3>2. [Call EXCEPT !.secret = row'[P].secret] \in Locals(minted)
            BY <1>1, <3>1, CallTyped DEF Locals
        <3> QED
            BY <1>1, <1>4, <3>1, <3>2, ProceedsTyped DEF prepareAuth, Proceeds
    <2>3. AppTyped' /\ StoreTyped' /\ PlacesTyped' /\ GhostsTyped'
        BY <1>4, Typed DEF prepareAuth, AppTyped, StoreTyped, PlacesTyped, GhostsTyped
    <2> QED
        BY <2>1, <2>2, <2>3, Typed
<1>5. CASE ReadSecret /\ ~Throws("call")
    <2>1. CallerTyped'
        <3>1. [Call EXCEPT !.secret = row[P].secret] \in Locals(minted)
            BY <1>1, CallTyped, Typed DEF Locals, RowTyped
        <3> QED
            BY <1>1, <1>5, <3>1, ProceedsTyped DEF ReadSecret, Proceeds
    <2>2. /\ RowTyped' /\ AppTyped' /\ StoreTyped' /\ PlacesTyped' /\ CountsTyped' /\ GhostsTyped'
        BY <1>5, Typed DEF ReadSecret, RowTyped, AppTyped, StoreTyped, PlacesTyped, CountsTyped, GhostsTyped
    <2> QED
        BY <2>1, <2>2, Typed
<1>6. CASE CreateBucket
    <2>1. CallerTyped'
        <3>1. [Call EXCEPT !.key = row[P].key] \in Locals(minted) /\ Call \in Locals(minted)
            BY <1>1, CallTyped, Typed DEF Locals, RowTyped
        <3>2. Len(provisionStorage) \in Nat \ {0} /\ minted' = minted
            BY <1>6 DEF provisionStorage, CreateBucket
        <3> QED
            BY <1>1, <1>6, <3>1, <3>2, ProceedsTyped DEF CreateBucket, Proceeds
    <2>2. StoreTyped'
        BY <1>1, <1>6, CallTyped, Typed DEF CreateBucket, StoreTyped
    <2>3. /\ RowTyped' /\ AppTyped' /\ PlacesTyped' /\ CountsTyped' /\ GhostsTyped'
        BY <1>6, Typed DEF CreateBucket, RowTyped, AppTyped, PlacesTyped, CountsTyped, GhostsTyped
    <2> QED
        BY <2>1, <2>2, <2>3, Typed
<1>7. CASE MintKey
    <2>1. minted' = minted + 1 /\ minted' \in Keys /\ minted' \in Nat
        BY <1>1, <1>7, CallTyped, Bounds DEF MintKey, Keys
    <2>2. CallerTyped'
        <3>1. [Call EXCEPT !.key = minted'] \in Locals(minted')
            BY <1>1, <2>1, CallTyped DEF Locals
        <3> QED
            BY <1>1, <1>7, <2>1, <3>1, CallTyped, SkipResumes DEF MintKey, Proceeds, CallerTyped
    <2>3. RowTyped' /\ StoreTyped'
        BY <1>1, <1>7, <2>1, CallTyped, Typed DEF MintKey, RowTyped, StoreTyped
    <2>4. AppTyped' /\ PlacesTyped' /\ CountsTyped' /\ GhostsTyped'
        BY <1>7, <2>1, Typed DEF MintKey, AppTyped, PlacesTyped, CountsTyped, GhostsTyped
    <2> QED
        BY <2>2, <2>3, <2>4, Typed
<1>8. CASE AllowKey \/ RemoveKey \/ RemoveBucket
    <2>1. CallerTyped'
        BY <1>1, <1>8, CallTyped, ProceedsTyped DEF AllowKey, RemoveKey, RemoveBucket, Proceeds
    <2>2. StoreTyped'
        <3>1. CASE AllowKey
            BY <1>1, <3>1, CallTyped, Typed DEF AllowKey, StoreTyped
        <3>2. CASE RemoveKey
            BY <1>1, <3>2, CallTyped, Typed DEF RemoveKey, StoreTyped
        <3>3. CASE RemoveBucket
            BY <1>1, <3>3, CallTyped, Typed DEF RemoveBucket, StoreTyped
        <3> QED
            BY <1>8, <3>1, <3>2, <3>3
    <2>3. RowTyped' /\ AppTyped' /\ PlacesTyped' /\ CountsTyped'
        BY <1>8, Typed DEF AllowKey, RemoveKey, RemoveBucket, RowTyped, AppTyped, PlacesTyped, CountsTyped
    <2>4. GhostsTyped'
        BY <1>1, <1>8, CallTyped, Typed DEF AllowKey, RemoveKey, RemoveBucket, Torn, P, GhostsTyped
    <2> QED
        BY <2>1, <2>2, <2>3, <2>4, Typed
<1> QED
    BY <1>2, <1>3, <1>4, <1>5, <1>6, <1>7, <1>8

Apps == [of: {<<>>} \cup (Projects \X Routed), listed: BOOLEAN, deleting: BOOLEAN,
         env: Secrets \X Keys, shape: {None} \cup Shapes,
         run: {<<>>} \cup ((Secrets \X Keys) \X Shapes)]

\* An application the model may set to.
Sound(a) == a \in Apps /\ (a.listed => a.of # <<>>) /\ (a.of # <<>> => a.shape \in Shapes)

\* Applications stay well typed when a sound one is set.
LEMMA SetsTyped ==
    ASSUME TypeOK, NEW u \in Uuids, NEW a, Sound(a), Sets(u, a)
    PROVE  AppTyped'
<1>1. app \in [Uuids -> Apps] /\ \A v \in Uuids : Sound(app[v])
    BY Typed DEF AppTyped, Apps, Sound
<1>2. app' \in [Uuids -> Apps] /\ \A v \in Uuids : Sound(app'[v])
    BY <1>1 DEF Sets, Sound
<1> QED
    BY <1>2 DEF AppTyped, Apps, Sound

\* Every application is sound, and so is none.
LEMMA AppsSound ==
    ASSUME TypeOK
    PROVE  /\ \A u \in Uuids : Sound(app[u])
           /\ Sound(NoApp) /\ NoApp.of = <<>> /\ NoApp.run = <<>> /\ NoApp.env = <<None, None>>
           /\ shape \in Shapes
<1>1. None \in Secrets /\ None \in Keys
    BY Bounds DEF None, Secrets, Keys
<1> QED
    BY <1>1, Typed DEF AppTyped, Apps, Sound, NoApp, CountsTyped

\* Applications come and go on their own.
LEMMA ComeAndGoTyped ==
    ASSUME TypeOK, NEW u \in Uuids, AppListed(u) \/ AppGone(u)
    PROVE  TypeOK'
<1> USE DEF Framed, modes, counts, ghosts
<1>1. AppTyped'
    <2>1. CASE AppListed(u)
        <3>1. Sound([app[u] EXCEPT !.listed = TRUE])
            BY <2>1, AppsSound DEF AppListed, Sound, Apps
        <3> QED
            BY <2>1, <3>1, SetsTyped, Typed DEF AppListed, Sets, AppTyped
    <2>2. CASE AppGone(u)
        BY <2>2, AppsSound, SetsTyped DEF AppGone, Sets
    <2> QED
        BY <2>1, <2>2
<1>2. /\ RowTyped' /\ StoreTyped' /\ PlacesTyped' /\ CallerTyped' /\ CountsTyped' /\ GhostsTyped'
    BY Typed DEF AppListed, AppGone, RowTyped, StoreTyped, PlacesTyped, CallerTyped, CountsTyped, GhostsTyped
<1> QED
    BY <1>1, <1>2, Typed

\* Types are kept by the requests of a call to the orchestrator.
LEMMA AppsTyped ==
    ASSUME TypeOK, Ordered,
           \/ findAppByName \/ createDockerImageApp \/ AwaitListed \/ setEnv \/ deployApp
           \/ destroyApp \/ waitAppGone
    PROVE  TypeOK'
<1> USE DEF Framed, outside, modes, counts, ghosts, AppFrame
<1>1. Busy("call") /\ "call" \in Callers
    BY DEF findAppByName, createDockerImageApp, AwaitListed, setEnv, deployApp, destroyApp,
           waitAppGone, Does, Callers
<1>2. CASE Throws("call")
    BY <1>1, <1>2, AbandonTyped DEF Throws
<1> DEFINE others == RowTyped' /\ StoreTyped' /\ PlacesTyped' /\ CountsTyped' /\ GhostsTyped'
<1>3. /\ \A u \in Uuids \cup {None} : [Call EXCEPT !.app = u] \in Locals(minted)
      /\ Call \in Locals(minted)
    BY <1>1, CallTyped DEF Locals
<1>4. Listed(P, S) \subseteq Uuids /\ \A u \in Uuids : Takes(u) => app[u].listed
    BY DEF Listed, Named, Takes
<1>5. CASE findAppByName
    <2>1. CallerTyped'
        BY <1>1, <1>3, <1>4, <1>5, ProceedsTyped DEF findAppByName, Proceeds
    <2>2. AppTyped' /\ others
        BY <1>5, Typed DEF findAppByName, RowTyped, AppTyped, StoreTyped, PlacesTyped, CountsTyped, GhostsTyped
    <2> QED
        BY <2>1, <2>2, Typed
<1>6. CASE createDockerImageApp /\ ~Throws("call")
    <2>1. CallerTyped'
        <3>1. Free \subseteq Uuids /\ minted' = minted
            BY <1>6 DEF Free, createDockerImageApp
        <3>2. \E locals \in Locals(minted), n \in Nat \ {0} : Resumes("call", locals, Skip("call", n))
            <4>1. {1, 2} \subseteq Nat \ {0}
                OBVIOUS
            <4>2. CASE Call.app = None
                <5>1. PICK u \in Free : Resumes("call", [Call EXCEPT !.app = u], Skip("call", 1))
                    BY <1>6, <4>2, Bounds DEF createDockerImageApp, Proceeds, Takes
                <5> QED
                    BY <1>3, <3>1, <4>1, <5>1
            <4>3. CASE Call.app # None
                BY <1>3, <1>6, <4>1, <4>3 DEF createDockerImageApp
            <4> QED
                BY <4>2, <4>3
        <3> QED
            BY <1>1, <3>1, <3>2, ProceedsTyped
    <2>2. AppTyped'
        <3>1. CASE Call.app = None
            <4>1. PICK u \in Free : Sets(u, [NoApp EXCEPT !.of = <<P, S>>, !.shape = shape])
                BY <1>6, <3>1, Bounds DEF createDockerImageApp, Takes
            <4>2. Now("call").do = "create" /\ Now("call") = Call.todo[1] /\ 1 \in DOMAIN Call.todo
                BY <1>1, <1>6, NextStep DEF createDockerImageApp, Does, Call
            <4>3. P \in Projects /\ S \in Routed
                BY <1>1, <4>2, CallTyped DEF Ordered, InOrder, S
            <4>4. Sound([NoApp EXCEPT !.of = <<P, S>>, !.shape = shape])
                BY <4>3, AppsSound DEF Sound, Apps
            <4> QED
                BY <4>1, <4>4, SetsTyped DEF Free
        <3>2. CASE Call.app # None
            <4>1. /\ Takes(Call.app) /\ Call.app \in Uuids
                  /\ Sets(Call.app, [app[Call.app] EXCEPT !.shape = shape])
                BY <1>6, <3>2 DEF createDockerImageApp, Takes
            <4>2. Sound([app[Call.app] EXCEPT !.shape = shape])
                BY <4>1, AppsSound DEF Sound, Apps
            <4> QED
                BY <4>1, <4>2, SetsTyped
        <3> QED
            BY <3>1, <3>2
    <2>3. others
        BY <1>6, Typed DEF createDockerImageApp, RowTyped, StoreTyped, PlacesTyped, CountsTyped, GhostsTyped
    <2> QED
        BY <2>1, <2>2, <2>3, Typed
<1>7. CASE AwaitListed \/ waitAppGone
    <2>1. CallerTyped'
        <3>1. CASE AwaitListed
            <4>1. \E locals \in Locals(minted) : Resumes("call", locals, Skip("call", 1))
                BY <1>3, <1>4, <3>1 DEF AwaitListed, Proceeds
            <4>2. minted' = minted
                BY <3>1 DEF AwaitListed
            <4> QED
                BY <1>1, <4>1, <4>2, ProceedsTyped
        <3>2. CASE waitAppGone
            BY <1>1, <1>3, <3>2, ProceedsTyped DEF waitAppGone, Proceeds
        <3> QED
            BY <1>7, <3>1, <3>2
    <2>2. P \in Projects
        BY <1>1, CallTyped
    <2>3. CountsTyped' /\ GhostsTyped'
        BY <1>7, <2>2, Typed, Bounds DEF AwaitListed, waitAppGone, Fault, CountsTyped, GhostsTyped
    <2>4. RowTyped' /\ AppTyped' /\ StoreTyped' /\ PlacesTyped'
        BY <1>7, Typed DEF AwaitListed, waitAppGone, RowTyped, AppTyped, StoreTyped, PlacesTyped
    <2> QED
        BY <2>1, <2>3, <2>4, Typed
<1>8. CASE setEnv /\ ~Throws("call")
    <2>1. CallerTyped'
        BY <1>1, <1>3, <1>8, ProceedsTyped DEF setEnv, Proceeds
    <2>2. /\ Takes(Call.app) /\ Call.app \in Uuids /\ app[Call.app].listed
          /\ Sets(Call.app, [app[Call.app] EXCEPT !.env = <<Call.secret, Call.key>>])
        BY <1>8 DEF setEnv, Takes
    <2>3. Sound([app[Call.app] EXCEPT !.env = <<Call.secret, Call.key>>])
        BY <1>1, <2>2, AppsSound, CallTyped DEF Sound, Apps
    <2>4. AppTyped'
        BY <2>2, <2>3, SetsTyped
    <2>5. others
        BY <1>8, Typed DEF setEnv, RowTyped, StoreTyped, PlacesTyped, CountsTyped, GhostsTyped
    <2> QED
        BY <2>1, <2>4, <2>5, Typed
<1>9. CASE deployApp
    <2>1. CallerTyped'
        BY <1>1, <1>3, <1>9, ProceedsTyped DEF deployApp, Proceeds
    <2>2. /\ Call.app \in Uuids /\ app[Call.app].listed /\ Sets(Call.app, Deployed(app[Call.app]))
        BY <1>9 DEF deployApp, Takes
    <2>3. Sound(Deployed(app[Call.app]))
        BY <2>2, AppsSound DEF Sound, Apps, Deployed
    <2>4. AppTyped'
        BY <2>2, <2>3, SetsTyped
    <2>5. others
        BY <1>9, Typed DEF deployApp, RowTyped, StoreTyped, PlacesTyped, CountsTyped, GhostsTyped
    <2> QED
        BY <2>1, <2>4, <2>5, Typed
<1>10. CASE destroyApp
    <2>1. CallerTyped'
        <3>1. Removal.remove = 3 /\ minted' = minted
            BY <1>10 DEF Removal, destroyApp
        <3>2. \E n \in Nat \ {0} : Resumes("call", Call, Skip("call", n))
            <4>1. \/ Resumes("call", Call, Skip("call", 2)) \/ Resumes("call", Call, Skip("call", 1))
                  \/ Resumes("call", Call, Skip("call", 3))
                BY <1>10, <3>1 DEF destroyApp, Proceeds
            <4>2. {1, 2, 3} \subseteq Nat \ {0}
                OBVIOUS
            <4> QED
                BY <4>1, <4>2
        <3> QED
            BY <1>1, <1>3, <3>1, <3>2, ProceedsTyped
    <2>2. AppTyped'
        <3>1. CASE app' = app
            BY <3>1, Typed DEF AppTyped
        <3>2. CASE app' # app
            <4>1. PICK u \in Listed(P, S) : Sets(u, [app[u] EXCEPT !.deleting = TRUE, !.run = <<>>])
                BY <1>10, <3>2 DEF destroyApp
            <4>2. Sound([app[u] EXCEPT !.deleting = TRUE, !.run = <<>>])
                BY <1>4, <4>1, AppsSound DEF Sound, Apps
            <4> QED
                BY <1>4, <4>1, <4>2, SetsTyped
        <3> QED
            BY <3>1, <3>2
    <2>3. others
        BY <1>10, Typed DEF destroyApp, RowTyped, StoreTyped, PlacesTyped, CountsTyped, GhostsTyped
    <2> QED
        BY <2>1, <2>2, <2>3, Typed
<1> QED
    BY <1>2, <1>5, <1>6, <1>7, <1>8, <1>9, <1>10

\* Types are kept by requests about records, tenants and containers.
LEMMA PlacesStepTyped ==
    ASSUME TypeOK,
           \/ ensureHostDns \/ destroyHostDns \/ RegisterTenant \/ DeregisterTenant
           \/ RunContainer \/ RemoveContainer
    PROVE  TypeOK'
<1> USE DEF Framed, modes, counts, ghosts
<1>1. Busy("call") /\ "call" \in Callers
    BY DEF ensureHostDns, destroyHostDns, RegisterTenant, DeregisterTenant, RunContainer,
           RemoveContainer, Does, Callers
<1>2. CASE Throws("call")
    BY <1>1, <1>2, AbandonTyped DEF Throws
<1>3. CASE ~Throws("call")
    <2>1. Call \in Locals(minted) /\ None \in Secrets /\ HostOf(P, S) \in Labels \X Services
        BY <1>1, CallTyped, Bounds DEF Locals, None, Secrets, HostOf
    <2>2. CallerTyped'
        <3>1. Resumes("call", Call, Skip("call", 1)) /\ minted' = minted
            BY <1>3 DEF ensureHostDns, destroyHostDns, RegisterTenant, DeregisterTenant,
                RunContainer, RemoveContainer, Proceeds
        <3> QED
            BY <1>1, <2>1, <3>1, ProceedsTyped
    <2>3. PlacesTyped'
        <3>1. CASE ensureHostDns \/ destroyHostDns
            BY <2>1, <3>1, Typed DEF ensureHostDns, destroyHostDns, PlacesTyped
        <3>2. CASE RegisterTenant \/ DeregisterTenant
            BY <1>1, <2>1, <3>2, CallTyped, Typed DEF RegisterTenant, DeregisterTenant, PlacesTyped
        <3>3. CASE RunContainer \/ RemoveContainer
            <4>1. <<Call.secret, Call.key>> \in Secrets \X Keys /\ P \in Projects /\ S \in Services
                BY <1>1, CallTyped
            <4>2. PICK b \in {NoBox} \cup (Secrets \X Keys) : box' = [box EXCEPT ![P][S] = b]
                BY <1>3, <3>3, <4>1 DEF RunContainer, RemoveContainer
            <4>3. /\ box' \in [Projects -> [Services -> {NoBox} \cup (Secrets \X Keys)]]
                  /\ tenant' = tenant /\ record' = record
                BY <1>3, <3>3, <4>1, <4>2, Typed DEF RunContainer, RemoveContainer, PlacesTyped
            <4> QED
                BY <4>3, Typed DEF PlacesTyped
        <3> QED
            BY <3>1, <3>2, <3>3
    <2>4. RowTyped' /\ AppTyped' /\ StoreTyped' /\ CountsTyped' /\ GhostsTyped'
        BY <1>3, Typed DEF ensureHostDns, destroyHostDns, RegisterTenant, DeregisterTenant,
           RunContainer, RemoveContainer, RowTyped, AppTyped, StoreTyped, CountsTyped, GhostsTyped
    <2> QED
        BY <2>2, <2>3, <2>4, Typed
<1> QED
    BY <1>2, <1>3

\* Types are kept by the requests of a sweep.
LEMMA SweepStepTyped ==
    ASSUME TypeOK, Look \/ updateAppDomains \/ Redeploy
    PROVE  TypeOK'
<1> USE DEF Framed, modes, counts, ghosts, AppFrame
<1>1. Busy("sweep") /\ "sweep" \in Callers /\ {1, 3} \subseteq Nat \ {0}
    BY DEF Look, updateAppDomains, Redeploy, Does, Callers
<1>2. CASE Throws("sweep")
    BY <1>1, <1>2, AbandonTyped DEF Throws
<1>3. CASE ~Throws("sweep")
    <2>1. /\ Sweep \in Locals(minted)
          /\ \A u \in Uuids \cup {None} : [Sweep EXCEPT !.app = u] \in Locals(minted)
        BY <1>1, NextStep DEF Sweep, Locals
    <2>2. CallerTyped'
        <3>1. \E locals \in Locals(minted), n \in Nat \ {0} : Resumes("sweep", locals, Skip("sweep", n))
            <4>1. CASE Look
                <5>1. CASE Listed(Now("sweep").p, Now("sweep").s) = {}
                    BY <1>1, <1>3, <2>1, <4>1, <5>1 DEF Look
                <5>2. CASE Listed(Now("sweep").p, Now("sweep").s) # {}
                    <6>1. PICK u \in Listed(Now("sweep").p, Now("sweep").s) :
                             \/ Resumes("sweep", Sweep, Skip("sweep", 3))
                             \/ Resumes("sweep", [Sweep EXCEPT !.app = u], Skip("sweep", 1))
                        BY <1>3, <4>1, <5>2 DEF Look, Proceeds
                    <6> QED
                        BY <1>1, <2>1, <6>1 DEF Listed, Named
                <5> QED
                    BY <5>1, <5>2
            <4>2. CASE updateAppDomains \/ Redeploy
                BY <1>1, <1>3, <2>1, <4>2 DEF updateAppDomains, Redeploy, Proceeds
            <4> QED
                BY <4>1, <4>2
        <3>2. minted' = minted
            BY <1>3 DEF Look, updateAppDomains, Redeploy
        <3> QED
            BY <1>1, <3>1, <3>2, ProceedsTyped
    <2>3. AppTyped'
        <3>1. CASE app' = app
            BY <3>1, Typed DEF AppTyped
        <3>2. CASE app' # app
            <4>1. \/ Sets(Sweep.app, [app[Sweep.app] EXCEPT !.shape = shape])
                  \/ Sets(Sweep.app, Deployed(app[Sweep.app]))
                BY <1>3, <3>2 DEF Look, updateAppDomains, Redeploy
            <4>2. Takes(Sweep.app) /\ Sweep.app \in Uuids /\ app[Sweep.app].listed
                BY <1>3, <3>2 DEF Look, updateAppDomains, Redeploy, Takes
            <4>3. /\ Sound([app[Sweep.app] EXCEPT !.shape = shape])
                  /\ Sound(Deployed(app[Sweep.app]))
                BY <4>2, AppsSound DEF Sound, Apps, Deployed
            <4> QED
                BY <4>1, <4>2, <4>3, SetsTyped
        <3> QED
            BY <3>1, <3>2
    <2>4. RowTyped' /\ StoreTyped' /\ PlacesTyped' /\ CountsTyped' /\ GhostsTyped'
        BY <1>3, Typed DEF Look, updateAppDomains, Redeploy, RowTyped, StoreTyped, PlacesTyped,
           CountsTyped, GhostsTyped
    <2> QED
        BY <2>2, <2>3, <2>4, Typed
<1> QED
    BY <1>2, <1>3

\* Types are kept by every step.
LEMMA TypeStep ==
    ASSUME TypeOK, Ordered, [Next]_vars
    PROVE  TypeOK'
<1>1. CASE UNCHANGED vars
    BY <1>1, Typed DEF vars, outside, modes, counts, ghosts, RowTyped, AppTyped, StoreTyped,
       PlacesTyped, CallerTyped, CountsTyped, GhostsTyped
<1>2. ASSUME NEW h \in {"call", "sweep"}, Dies(h) PROVE TypeOK'
    BY <1>2, AbandonTyped DEF Dies, Callers
<1> QED
    BY <1>1, <1>2, BeginTyped, ComeAndGoTyped, RegistryTyped, AppsTyped, PlacesStepTyped,
       SweepStepTyped DEF Next

-----------------------------------------------------------------------------
(* 3. How a call moves.                                                    *)

\* What is left of steps in order is in order.
LEMMA LeftInOrder ==
    ASSUME NEW t \in Seq(StepRecords), InOrder(t), NEW n \in Nat \ {0}
    PROVE  InOrder(SubSeq(t, n + 1, Len(t)))
<1> DEFINE u == SubSeq(t, n + 1, Len(t))
<1>1. /\ u \in Seq(StepRecords)
      /\ \A i \in DOMAIN u : i \in Nat \ {0} /\ i + n \in DOMAIN t /\ u[i] = t[i + n]
      /\ \A i \in Nat \ {0} : i + n \in DOMAIN t => i \in DOMAIN u
    BY Skipped
<1> HIDE DEF u
<1> SUFFICES ASSUME NEW i \in DOMAIN u
             PROVE  /\ \A j \in DOMAIN u : u[j].p = u[i].p
                    /\ u[i].do \in {"bucket", "mint"} => \A j \in DOMAIN u : u[j].s = "storage"
                    /\ u[i].do \in Uses \cup {"read", "secret", "find", "create", "await"} =>
                          \A j \in DOMAIN u : u[j].s = u[i].s
                    /\ u[i].do \in {"forget"} \cup DOMAIN Removal =>
                          \A j \in DOMAIN u : u[j].do \notin Gives
                    /\ u[i].do = "secret" => u[i].s = "auth"
                    /\ u[i].do = "bucket" => /\ i + 3 \in DOMAIN u /\ u[i + 1].do = "mint"
                                             /\ u[i + 2].do = "allow" /\ u[i + 3].do = "store"
                    /\ u[i].do = "create" =>
                          i + 1 \in DOMAIN u /\ u[i + 1].do = "await" /\ u[i].s \in Routed
                    /\ u[i].do = "container" =>
                          u[i].s = "functions" \/ (u[i].s \in Routed /\ mode = "docker")
                    /\ i > 1 => Follows(u[i - 1], u[i])
    BY DEF InOrder, u
<1>2. i \in Nat \ {0} /\ i + n \in DOMAIN t /\ u[i] = t[i + n]
    BY <1>1
<1>3. u[i].do = "bucket" => /\ i + 3 \in DOMAIN u /\ u[i + 1].do = "mint"
                            /\ u[i + 2].do = "allow" /\ u[i + 3].do = "store"
    <2>1. SUFFICES ASSUME u[i].do = "bucket"
                   PROVE  /\ i + 3 \in DOMAIN u /\ u[i + 1].do = "mint"
                          /\ u[i + 2].do = "allow" /\ u[i + 3].do = "store"
        OBVIOUS
    <2>2. /\ (i + n) + 3 \in DOMAIN t /\ t[(i + n) + 1].do = "mint"
          /\ t[(i + n) + 2].do = "allow" /\ t[(i + n) + 3].do = "store"
        BY <1>2, <2>1 DEF InOrder
    <2>3. /\ (i + 1) + n = (i + n) + 1 /\ (i + 2) + n = (i + n) + 2 /\ (i + 3) + n = (i + n) + 3
          /\ {i + 1, i + 2, i + 3} \subseteq Nat \ {0}
          /\ (i + 1) + n \in DOMAIN t /\ (i + 2) + n \in DOMAIN t
        <3>1. DOMAIN t = 1 .. Len(t) /\ Len(t) \in Nat /\ i + n \in Nat \ {0}
            BY <1>2
        <3>2. \A m \in Nat, k \in Nat \ {0} :
                 k + 3 \in 1 .. m => k + 1 \in 1 .. m /\ k + 2 \in 1 .. m
            OBVIOUS
        <3>3. (i + n) + 1 \in DOMAIN t /\ (i + n) + 2 \in DOMAIN t
            BY <2>2, <3>1, <3>2
        <3>4. /\ (i + 1) + n = (i + n) + 1 /\ (i + 2) + n = (i + n) + 2
              /\ (i + 3) + n = (i + n) + 3 /\ {i + 1, i + 2, i + 3} \subseteq Nat \ {0}
            BY <1>2
        <3> QED
            BY <3>3, <3>4
    <2> QED
        BY <1>1, <2>2, <2>3
<1>4. u[i].do = "create" => i + 1 \in DOMAIN u /\ u[i + 1].do = "await" /\ u[i].s \in Routed
    <2>1. SUFFICES ASSUME u[i].do = "create"
                   PROVE  i + 1 \in DOMAIN u /\ u[i + 1].do = "await" /\ u[i].s \in Routed
        OBVIOUS
    <2>2. (i + n) + 1 \in DOMAIN t /\ t[(i + n) + 1].do = "await" /\ t[i + n].s \in Routed
        BY <1>2, <2>1 DEF InOrder
    <2>3. (i + 1) + n = (i + n) + 1 /\ i + 1 \in Nat \ {0}
        BY <1>2
    <2> QED
        BY <1>1, <1>2, <2>2, <2>3
<1>5. i > 1 => Follows(u[i - 1], u[i])
    <2>1. SUFFICES ASSUME i > 1 PROVE Follows(u[i - 1], u[i])
        OBVIOUS
    <2>2. i - 1 \in Nat \ {0} /\ (i - 1) + n = (i + n) - 1 /\ i + n > 1
        BY <1>2, <2>1
    <2>3. (i + n) - 1 \in DOMAIN t
        <3>1. DOMAIN t = 1 .. Len(t) /\ Len(t) \in Nat
            OBVIOUS
        <3>2. \A m \in Nat : i + n \in 1 .. m => (i + n) - 1 \in 1 .. m
            BY <1>2, <2>2
        <3> QED
            BY <1>2, <3>1, <3>2
    <2>4. u[i - 1] = t[(i + n) - 1] /\ Follows(t[(i + n) - 1], t[i + n])
        BY <1>1, <1>2, <2>2, <2>3 DEF InOrder
    <2> QED
        BY <1>2, <2>4
<1>6. \A j \in DOMAIN u : j + n \in DOMAIN t /\ u[j] = t[j + n]
    BY <1>1
<1> QED
    BY <1>2, <1>3, <1>4, <1>5, <1>6 DEF InOrder

\* The order of the steps of the call, after a step that leaves the mode.
LEMMA OrderAfter ==
    ASSUME mode' = mode, NEW t, InOrder(t), caller'["call"].todo = t
    PROVE  Ordered'
BY DEF Ordered, InOrder, Follows, Call, Uses, Gives

\* The call has made n of its steps, or skipped them.
Progress(n) ==
    /\ Busy("call") /\ n \in Nat \ {0} /\ mode' = mode
    /\ caller'["call"].todo = Skip("call", n)
    /\ \/ n = 1
       \/ n = 2 /\ Now("call").do = "create"
       \/ n = 4 /\ Now("call").do = "bucket"
       \/ Now("call").do \in DOMAIN Removal

\* What is left n steps further on is in order, and what it begins with follows.
LEMMA Progresses ==
    ASSUME TypeOK, Ordered, NEW n, Progress(n)
    PROVE  LET t == Call.todo
               u == caller'["call"].todo
           IN
           /\ Ordered' /\ t \in Seq(StepRecords)
           /\ Now("call") = t[1] /\ 1 \in DOMAIN t
           /\ \A i \in DOMAIN u : i \in Nat \ {0} /\ i + n \in DOMAIN t /\ u[i] = t[i + n]
           /\ u # <<>> => /\ n \in DOMAIN t /\ Now("call")' = t[n + 1] /\ n + 1 \in DOMAIN t
                          /\ Follows(t[n], t[n + 1])
                          /\ P' = P
<1> DEFINE t == Call.todo
           u == caller'["call"].todo
<1>1. /\ t \in Seq(StepRecords) /\ Now("call") = t[1] /\ 1 \in DOMAIN t /\ n \in Nat \ {0}
      /\ u = SubSeq(t, n + 1, Len(t)) /\ InOrder(t) /\ mode' = mode
    BY NextStep, CallTyped DEF Progress, Callers, Call, Skip, Ordered, Locals
<1>2. /\ u \in Seq(StepRecords)
      /\ \A i \in DOMAIN u : i \in Nat \ {0} /\ i + n \in DOMAIN t /\ u[i] = t[i + n]
    BY <1>1, Skipped
<1>3. Ordered'
    BY <1>1, LeftInOrder, OrderAfter
<1>4. ASSUME u # <<>>
      PROVE  /\ n \in DOMAIN t /\ Now("call")' = t[n + 1] /\ n + 1 \in DOMAIN t
             /\ Follows(t[n], t[n + 1])
             /\ P' = P
    <2>1. 1 \in DOMAIN u /\ Now("call")' = u[1]
        BY <1>2, <1>4 DEF Now
    <2>2. n + 1 \in DOMAIN t /\ u[1] = t[n + 1] /\ n \in DOMAIN t /\ n + 1 > 1 /\ (n + 1) - 1 = n
        BY <1>1, <1>2, <2>1
    <2>3. Follows(t[n], t[n + 1]) /\ t[n + 1].p = t[1].p
        <3> HIDE DEF t
        <3>1. \A i, j \in DOMAIN t : t[j].p = t[i].p
            BY <1>1 DEF InOrder
        <3>2. \A i \in DOMAIN t : i > 1 => Follows(t[i - 1], t[i])
            BY <1>1 DEF InOrder
        <3>3. t[n + 1].p = t[1].p
            BY <1>1, <2>2, <3>1
        <3>4. Follows(t[(n + 1) - 1], t[n + 1])
            BY <2>2, <3>2
        <3> QED
            BY <2>2, <3>3, <3>4
    <2> QED
        BY <1>1, <2>1, <2>2, <2>3 DEF P
<1> QED
    BY <1>1, <1>2, <1>3, <1>4

\* The step before the one the call comes to.
LEMMA LastMade ==
    ASSUME TypeOK, Ordered, NEW n, Progress(n), caller'["call"].todo # <<>>
    PROVE  LET t == Call.todo IN
           /\ n = 1 => t[n] = Now("call")
           /\ n = 2 /\ Now("call").do = "create" => t[n].do = "await"
           /\ n = 4 /\ Now("call").do = "bucket" => t[n].do = "store"
           /\ Now("call").do \in DOMAIN Removal => \A i \in DOMAIN t : t[i].do \notin Gives
           /\ \A i \in 1 .. n : t[i].do \notin {"read", "secret"} \/ Now("call").do \in {"read", "secret"}
<1> DEFINE t == Call.todo
<1>1. /\ Now("call") = t[1] /\ 1 \in DOMAIN t /\ t \in Seq(StepRecords) /\ InOrder(t)
      /\ n \in DOMAIN t
    BY Progresses DEF Ordered
<1>2. n = 2 /\ Now("call").do = "create" => t[2].do = "await"
    BY <1>1 DEF InOrder
<1>3. n = 4 /\ Now("call").do = "bucket" => t[2].do = "mint" /\ t[3].do = "allow" /\ t[4].do = "store"
    BY <1>1 DEF InOrder
<1>4. Now("call").do \in DOMAIN Removal => \A i \in DOMAIN t : t[i].do \notin Gives
    BY <1>1 DEF InOrder
<1>5. ASSUME NEW i \in 1 .. n
      PROVE  t[i].do \notin {"read", "secret"} \/ Now("call").do \in {"read", "secret"}
    <2>1. i \in DOMAIN t
        BY <1>1
    <2>2. CASE n = 1
        BY <1>1, <2>2
    <2>3. CASE n = 2 /\ Now("call").do = "create"
        <3>1. i = 1 \/ i = 2
            BY <2>3
        <3> QED
            BY <1>1, <1>2, <2>3, <3>1
    <2>4. CASE n = 4 /\ Now("call").do = "bucket"
        <3>1. i = 1 \/ i = 2 \/ i = 3 \/ i = 4
            BY <2>4
        <3> QED
            BY <1>1, <1>3, <2>4, <3>1
    <2>5. CASE Now("call").do \in DOMAIN Removal
        BY <1>4, <2>1, <2>5 DEF Gives
    <2> QED
        BY <2>2, <2>3, <2>4, <2>5 DEF Progress
<1> QED
    BY <1>1, <1>2, <1>3, <1>4, <1>5

\* A call that skips n steps keeps its locals while it goes on.
LEMMA CallResumes ==
    ASSUME TypeOK, Busy("call"), NEW n \in Nat \ {0}, NEW locals \in Locals(minted),
           Resumes("call", locals, Skip("call", n))
    PROVE  /\ caller'["call"].todo = Skip("call", n)
           /\ Skip("call", n) # <<>> => /\ caller'["call"].app = locals.app
                                        /\ caller'["call"].secret = locals.secret
                                        /\ caller'["call"].key = locals.key
<1>1. minted \in Nat /\ minted >= minted
    BY CallTyped
<1>2. "call" \in Callers
    BY DEF Callers
<1> QED
    BY <1>1, <1>2, SkipResumes

\* The call begins with nothing in hand.
Begins ==
    /\ ~Busy("call") /\ Starts(caller'["call"].todo)
    /\ caller'["call"].todo # <<>> =>
          /\ caller'["call"].app = None /\ caller'["call"].secret = None /\ caller'["call"].key = None

\* The call keeps what it has in hand.
InHand ==
    caller'["call"].todo # <<>> =>
        /\ caller'["call"].secret = Call.secret /\ caller'["call"].key = Call.key

\* An application is what it was or gone; it runs on what it ran on, or on
\* its environment.
Keeps(u) ==
    /\ app'[u].of \in {<<>>, app[u].of}
    /\ app'[u].of # <<>> =>
          /\ app'[u].env = app[u].env
          /\ app'[u].run # <<>> => \/ app'[u].run[1] = app[u].env
                                   \/ app[u].run # <<>> /\ app'[u].run[1] = app[u].run[1]
    /\ u \notin orphans' => u \notin orphans \/ app'[u].of = <<>>

\* The steps that are not requests of the call, and its end with an error.
Quietly ==
    \/ UNCHANGED vars \/ Begin \/ BeginSweep \/ Upgrade \/ Swallows
    \/ (\E h \in Callers : Dies(h)) \/ (Busy("call") /\ Throws("call"))
    \/ (\E u \in Uuids : AppListed(u) \/ AppGone(u))
    \/ Look \/ updateAppDomains \/ Redeploy

\* Steps that are no request of the call leave rows, keys and containers as they are.
LEMMA Quiet ==
    ASSUME TypeOK, Quietly
    PROVE  /\ UNCHANGED <<row, bucket, keys, allowed, box, mode, minted>>
           /\ tearing \subseteq tearing'
           /\ \A u \in Uuids : Keeps(u)
           /\ \/ caller'["call"] = caller["call"] \/ caller'["call"].todo = <<>> \/ Begins
              \/ \E n : /\ Progress(n) /\ InHand /\ Now("call").do \in Soft
                        /\ caller'["call"].todo # <<>> => caller'["call"].app = Call.app
<1> USE DEF outside, modes, counts, ghosts, Framed, AppFrame
<1>1. ASSUME UNCHANGED <<app, orphans>> PROVE \A u \in Uuids : Keeps(u)
    BY <1>1 DEF Keeps
<1>2. CASE UNCHANGED vars
    BY <1>1, <1>2 DEF vars
<1>3. CASE Begin
    <2>0. PICK p \in Projects : \E t \in {provisionProject(p)} \cup Programs(p) : Resumes("call", Idle, t)
        BY <1>3 DEF Begin
    <2>1. PICK t \in {provisionProject(p)} \cup Programs(p) : Resumes("call", Idle, t)
        BY <2>0
    <2>2. Starts(t) /\ t \in Seq(StepRecords)
        <3>1. TakesOff(t, p) \/ Starts(t)
            BY <2>1, ProgramsTakeOff, ProgramsStart, ServicesAssumption DEF Programs, Services, Routed
        <3> QED
            BY <3>1, TakesOffStarts DEF Starts
    <2>3. /\ caller'["call"].todo = t
          /\ t # <<>> => /\ caller'["call"].app = None /\ caller'["call"].secret = None
                         /\ caller'["call"].key = None
        BY <2>1, <2>2, Typed, ValuesTyped, Bounds, Resumed DEF CallerTyped, Callers, CountsTyped, Keys
    <2> QED
        BY <1>1, <1>3, <2>2, <2>3 DEF Begin, Begins
<1>4. CASE BeginSweep
    <2> DEFINE t == reconcileAll(SetToSeq({p \in Projects : row[p].there}))
    <2>1. t \in Seq(StepRecords) /\ Resumes("sweep", Idle, t)
        BY <1>4, OrderTyped, SweepTyped DEF BeginSweep
    <2> HIDE DEF t
    <2>2. caller'["call"] = caller["call"]
        BY <2>1, Typed, ValuesTyped, Bounds, Resumed DEF CallerTyped, Callers, CountsTyped, Keys
    <2> QED
        BY <1>1, <1>4, <2>2 DEF BeginSweep
<1>5. CASE Upgrade
    BY <1>1, <1>5, ValuesTyped DEF Upgrade
<1>6. CASE Swallows
    <2>1. Removal \in [{"remove", "gone", "undns"} -> Nat \ {0}] /\ DOMAIN Removal = {"remove", "gone", "undns"}
        BY DEF Removal
    <2>2. PICK n \in Nat \ {0} : /\ Resumes("call", Call, Skip("call", n))
                                 /\ n = 1 \/ Now("call").do \in DOMAIN Removal
        BY <1>6, <2>1 DEF Swallows, Call
    <2>3. Call \in Locals(minted) /\ Busy("call")
        BY <1>6, CallTyped DEF Swallows
    <2>4. /\ caller'["call"].todo = Skip("call", n)
          /\ Skip("call", n) # <<>> => /\ caller'["call"].app = Call.app
                                       /\ caller'["call"].secret = Call.secret
                                       /\ caller'["call"].key = Call.key
        <3>1. Resumes("call", Call, Skip("call", n))
            BY <2>2
        <3> QED
            BY ONLY TypeOK, <2>3, <3>1, n \in Nat \ {0}, CallResumes
    <2>5. Progress(n) /\ InHand
        BY <1>6, <2>2, <2>4 DEF Progress, Swallows, InHand
    <2>6. tearing \subseteq tearing'
        BY <1>6 DEF Swallows, Torn
    <2> QED
        BY <1>1, <1>6, <2>4, <2>5, <2>6 DEF Swallows
<1>7. CASE \E h \in Callers : Dies(h) \/ (h = "call" /\ Busy("call") /\ Throws("call"))
    <2>1. PICK h \in Callers : Abandon(h)
        BY <1>7 DEF Dies, Throws
    <2>2. caller'["call"] = caller["call"] \/ caller'["call"].todo = <<>>
        BY <2>1, Typed, ValuesTyped DEF Abandon, CallerTyped, Callers
    <2> QED
        BY <1>1, <2>1, <2>2 DEF Abandon
<1>8. ASSUME NEW u \in Uuids, AppListed(u) \/ AppGone(u)
      PROVE  \A v \in Uuids : Keeps(v)
    <2>1. app \in [Uuids -> Apps]
        BY Typed DEF AppTyped, Apps
    <2>2. CASE AppListed(u)
        BY <2>1, <2>2 DEF AppListed, Keeps, Apps
    <2>3. CASE AppGone(u)
        BY <2>1, <2>3, AppsSound DEF AppGone, Keeps
    <2> QED
        BY <1>8, <2>2, <2>3
<1>9. CASE \E u \in Uuids : AppListed(u) \/ AppGone(u)
    BY <1>8, <1>9 DEF AppListed, AppGone
<1>10. CASE Look \/ updateAppDomains \/ Redeploy
    <2>1. CASE Throws("sweep")
        <3>1. caller'["call"] = caller["call"]
            BY <2>1, Typed DEF Throws, Abandon, CallerTyped, Callers
        <3> QED
            BY <1>1, <2>1, <3>1 DEF Throws, Abandon
    <2>2. CASE ~Throws("sweep")
        <3>1. caller'["call"] = caller["call"]
            BY <1>10, <2>2, Typed DEF Look, updateAppDomains, Redeploy, Proceeds, Resumes,
               CallerTyped, Callers
        <3>2. \A u \in Uuids : Keeps(u)
            <4>1. \/ app' = app
                  \/ /\ Sweep.app \in Uuids /\ app[Sweep.app].listed
                     /\ \/ Sets(Sweep.app, [app[Sweep.app] EXCEPT !.shape = shape])
                        \/ Sets(Sweep.app, Deployed(app[Sweep.app]))
                BY <1>10, <2>2 DEF Look, updateAppDomains, Redeploy, Takes
            <4>2. app \in [Uuids -> Apps] /\ orphans' = orphans
                BY <1>10, <2>2, Typed DEF Look, updateAppDomains, Redeploy, AppTyped, Apps
            <4>3. CASE app' = app
                BY <4>2, <4>3 DEF Keeps
            <4>4. CASE Sweep.app \in Uuids /\ Sets(Sweep.app, [app[Sweep.app] EXCEPT !.shape = shape])
                BY <4>2, <4>4 DEF Sets, Keeps, Apps
            <4>5. CASE Sweep.app \in Uuids /\ Sets(Sweep.app, Deployed(app[Sweep.app]))
                <5>1. /\ Deployed(app[Sweep.app]).of = app[Sweep.app].of
                      /\ Deployed(app[Sweep.app]).env = app[Sweep.app].env
                      /\ Deployed(app[Sweep.app]).run[1] = app[Sweep.app].env
                    BY <4>2, <4>5 DEF Deployed, Apps
                <5> QED
                    <6>1. app' = [app EXCEPT ![Sweep.app] = Deployed(app[Sweep.app])]
                        BY <4>5 DEF Sets
                    <6>2. ASSUME NEW u \in Uuids PROVE Keeps(u)
                        <7>1. app'[u] = app[u] \/ (u = Sweep.app /\ app'[u] = Deployed(app[u]))
                            BY <4>2, <4>5, <6>1
                        <7> QED
                            BY ONLY <4>2, <5>1, <7>1, u \in Uuids DEF Keeps
                    <6> QED
                        BY <6>2
            <4> QED
                BY <4>1, <4>3, <4>4, <4>5
        <3> QED
            BY <1>10, <2>2, <3>1, <3>2 DEF Look, updateAppDomains, Redeploy
    <2> QED
        BY <2>1, <2>2
<1> QED
    BY <1>2, <1>3, <1>4, <1>5, <1>6, <1>7, <1>9, <1>10 DEF Quietly, Callers

\* The requests of a call that leave what it has in hand, and the secrets and
\* the keys of the rows.
Plainly ==
    /\ \/ RegisterProject \/ AllowKey \/ Save \/ Clear \/ RemoveKey \/ RemoveBucket
       \/ findAppByName \/ createDockerImageApp \/ AwaitListed \/ setEnv \/ deployApp
       \/ destroyApp \/ waitAppGone \/ ensureHostDns \/ destroyHostDns
       \/ RegisterTenant \/ DeregisterTenant \/ RunContainer \/ RemoveContainer
    /\ ~Throws("call")

RowsKept ==
    \A p \in Projects : /\ row'[p].secret = row[p].secret /\ row'[p].key = row[p].key
                        /\ row[p].there => row'[p].there

\* A plain request leaves the secret and the key of every row, and forgets no project.
LEMMA PlainRows ==
    ASSUME TypeOK, Plainly
    PROVE  RowsKept /\ UNCHANGED <<mode, minted>>
<1> USE DEF Framed, AppFrame, outside, modes, counts
<1>1. CASE row' = row
    BY <1>1 DEF Plainly, RowsKept, RegisterProject, AllowKey, Save, Clear, RemoveKey, RemoveBucket,
       findAppByName, createDockerImageApp, AwaitListed, setEnv, deployApp, destroyApp,
       waitAppGone, ensureHostDns, destroyHostDns, RegisterTenant, DeregisterTenant,
       RunContainer, RemoveContainer
<1>2. CASE RegisterProject \/ Save \/ Clear
    <2>1. P \in Projects
        BY <1>2, CallTyped DEF RegisterProject, Save, Clear, Does
    <2>2. PICK r : /\ row' \in {row, [row EXCEPT ![P] = r]} /\ r.secret = row[P].secret
                   /\ r.key = row[P].key /\ (row[P].there => r.there)
        <3>1. CASE RegisterProject
            BY <2>1, <3>1, Typed DEF RegisterProject, RowTyped
        <3>2. CASE Save
            <4> DEFINE r == [row[P] EXCEPT !.url = @ \cup {S}]
            <4>1. row' \in {row, [row EXCEPT ![P] = r]}
                BY <3>2 DEF Save
            <4>2. r.secret = row[P].secret /\ r.key = row[P].key /\ r.there = row[P].there
                BY <2>1, Typed DEF RowTyped
            <4> QED
                BY <4>1, <4>2
        <3>3. CASE Clear
            <4> DEFINE r == [row[P] EXCEPT !.url = @ \ {S}]
            <4>1. row' \in {row, [row EXCEPT ![P] = r]}
                BY <3>3 DEF Clear
            <4>2. r.secret = row[P].secret /\ r.key = row[P].key /\ r.there = row[P].there
                BY <2>1, Typed DEF RowTyped
            <4> QED
                BY <4>1, <4>2
        <3> QED
            BY <1>2, <3>1, <3>2, <3>3
    <2> QED
        BY <1>2, <2>1, <2>2, Typed DEF RowsKept, RowTyped, RegisterProject, Save, Clear
<1>3. row' # row => RegisterProject \/ Save \/ Clear
    BY DEF Plainly, AllowKey, RemoveKey, RemoveBucket, findAppByName, createDockerImageApp,
       AwaitListed, setEnv, deployApp, destroyApp, waitAppGone, ensureHostDns, destroyHostDns,
       RegisterTenant, DeregisterTenant, RunContainer, RemoveContainer
<1> QED
    BY <1>1, <1>2, <1>3

\* A plain request makes progress, and draws, reads or stores no credential.
LEMMA Plain ==
    ASSUME TypeOK, Plainly
    PROVE  /\ \E n : Progress(n)
           /\ InHand
           /\ Busy("call")
           /\ Now("call").do \notin {"secret", "read", "bucket", "mint", "store", "forget"}
<1> USE DEF Framed, AppFrame, outside, modes, counts
<1>1. Busy("call") /\ Now("call").do \notin {"secret", "read", "bucket", "mint", "store", "forget"}
    <2>1. CASE RegisterProject \/ AllowKey \/ Save \/ Clear \/ RemoveKey \/ RemoveBucket \/ findAppByName
        BY <2>1 DEF RegisterProject, AllowKey, Save, Clear, RemoveKey, RemoveBucket, findAppByName, Does
    <2>2. CASE \/ createDockerImageApp \/ AwaitListed \/ setEnv \/ deployApp \/ destroyApp
               \/ waitAppGone
        BY <2>2 DEF createDockerImageApp, AwaitListed, setEnv, deployApp, destroyApp, waitAppGone, Does
    <2>3. CASE \/ ensureHostDns \/ destroyHostDns \/ RegisterTenant \/ DeregisterTenant
               \/ RunContainer \/ RemoveContainer
        BY <2>3 DEF ensureHostDns, destroyHostDns, RegisterTenant, DeregisterTenant, RunContainer,
           RemoveContainer, Does
    <2> QED
        BY <2>1, <2>2, <2>3 DEF Plainly
<1>2. /\ Call \in Locals(minted)
      /\ \A u \in Uuids \cup {None} :
            /\ [Call EXCEPT !.app = u] \in Locals(minted)
            /\ [Call EXCEPT !.app = u].secret = Call.secret /\ [Call EXCEPT !.app = u].key = Call.key
    BY <1>1, CallTyped DEF Locals
<1>3. Listed(P, S) \subseteq Uuids /\ Free \subseteq Uuids
    BY DEF Listed, Named, Free
<1>5. ASSUME NEW locals \in Locals(minted), locals.secret = Call.secret, locals.key = Call.key,
             Proceeds("call", locals)
      PROVE  \E l \in Locals(minted), n \in Nat \ {0} :
                /\ l.secret = Call.secret /\ l.key = Call.key
                /\ Resumes("call", l, Skip("call", n))
                /\ \/ n = 1
                   \/ n = 2 /\ Now("call").do = "create"
                   \/ Now("call").do \in DOMAIN Removal
    <2>1. 1 \in Nat \ {0} /\ Resumes("call", locals, Skip("call", 1))
        BY <1>5 DEF Proceeds
    <2> QED
        BY <1>5, <2>1
<1>4. \E locals \in Locals(minted), n \in Nat \ {0} :
         /\ locals.secret = Call.secret /\ locals.key = Call.key
         /\ Resumes("call", locals, Skip("call", n))
         /\ \/ n = 1
            \/ n = 2 /\ Now("call").do = "create"
            \/ Now("call").do \in DOMAIN Removal
    <2>1. CASE Proceeds("call", Call)
        BY <1>2, <1>5, <2>1
    <2>2. CASE findAppByName
        <3>1. PICK u \in Uuids \cup {None} : Proceeds("call", [Call EXCEPT !.app = u])
            BY <1>3, <2>2 DEF findAppByName
        <3> QED
            BY <1>2, <3>1, <1>5
    <2>3. CASE AwaitListed
        <3>1. PICK u \in Uuids \cup {None} : Proceeds("call", [Call EXCEPT !.app = u])
            <4>1. Proceeds("call", Call) \/ \E u \in Listed(P, S) : Proceeds("call", [Call EXCEPT !.app = u])
                BY <2>3 DEF AwaitListed
            <4>2. [Call EXCEPT !.app = Call.app] = Call /\ Call.app \in Uuids \cup {None}
                BY <1>2 DEF Locals
            <4> QED
                BY <1>3, <4>1, <4>2
        <3> QED
            BY <1>2, <3>1, <1>5
    <2>4. CASE createDockerImageApp
        <3>1. CASE \E u \in Free : Proceeds("call", [Call EXCEPT !.app = u])
            <4>1. PICK u \in Uuids \cup {None} : Proceeds("call", [Call EXCEPT !.app = u])
                BY <1>3, <3>1
            <4> QED
                BY <1>2, <4>1, <1>5
        <3>2. CASE Resumes("call", Call, Skip("call", 2))
            BY <1>2, <2>4, <3>2 DEF createDockerImageApp, Does
        <3> QED
            BY <2>4, <3>1, <3>2 DEF createDockerImageApp, Plainly
    <2>5. CASE destroyApp
        <3>1. Now("call").do \in DOMAIN Removal /\ Removal.remove = 3
            BY <2>5 DEF destroyApp, Does, Removal
        <3>2. \/ Resumes("call", Call, Skip("call", 1)) \/ Resumes("call", Call, Skip("call", 2))
              \/ Resumes("call", Call, Skip("call", 3))
            BY <2>5, <3>1 DEF destroyApp, Proceeds
        <3> QED
            BY <1>2, <3>1, <3>2
    <2>6. Proceeds("call", Call) \/ findAppByName \/ AwaitListed \/ createDockerImageApp \/ destroyApp
        BY DEF Plainly, RegisterProject, AllowKey, Save, Clear, RemoveKey, RemoveBucket, setEnv,
           deployApp, waitAppGone, ensureHostDns, destroyHostDns, RegisterTenant,
           DeregisterTenant, RunContainer, RemoveContainer
    <2> QED
        BY <2>1, <2>2, <2>3, <2>4, <2>5, <2>6
<1>6. mode' = mode
    BY PlainRows
<1> QED
    BY <1>1, <1>4, <1>6, CallResumes DEF Progress, InHand

\* The call keeps the application it has found.
SameApp == caller'["call"].todo # <<>> => caller'["call"].app = Call.app

\* The requests that change what the call has in hand or what the row holds.
LEMMA Special ==
    ASSUME TypeOK, Busy("call")
    PROVE  /\ prepareAuth /\ ~Throws("call") =>
                 /\ Progress(1) /\ SameApp /\ Now("call").do = "secret"
                 /\ caller'["call"].todo # <<>> => /\ caller'["call"].secret = row'[P].secret
                                                   /\ caller'["call"].key = Call.key
           /\ ReadSecret /\ ~Throws("call") =>
                 /\ Progress(1) /\ SameApp /\ Now("call").do = "read"
                 /\ caller'["call"].todo # <<>> => /\ caller'["call"].secret = row[P].secret
                                                   /\ caller'["call"].key = Call.key
           /\ CreateBucket =>
                 /\ Now("call").do = "bucket"
                 /\ \/ Progress(1) /\ InHand /\ SameApp /\ row[P].key = None
                    \/ /\ Progress(4) /\ SameApp /\ row[P].key # None
                       /\ caller'["call"].todo # <<>> => /\ caller'["call"].secret = Call.secret
                                                         /\ caller'["call"].key = row[P].key
           /\ MintKey =>
                 /\ Progress(1) /\ SameApp /\ Now("call").do = "mint"
                 /\ caller'["call"].todo # <<>> => /\ caller'["call"].secret = Call.secret
                                                   /\ caller'["call"].key = minted'
           /\ StoreKey => Progress(1) /\ InHand /\ SameApp /\ Now("call").do = "store"
           /\ Forget => Progress(1) /\ InHand /\ SameApp /\ Now("call").do = "forget"
<1> USE DEF Framed, modes, outside
<1>1. Call \in Locals(minted) /\ 1 \in Nat \ {0} /\ 4 \in Nat \ {0} /\ Len(provisionStorage) = 4
    BY CallTyped DEF provisionStorage
<1>2. \A k \in 0 .. minted : /\ [Call EXCEPT !.key = k] \in Locals(minted)
                             /\ [Call EXCEPT !.key = k].key = k
                             /\ [Call EXCEPT !.key = k].app = Call.app
                             /\ [Call EXCEPT !.key = k].secret = Call.secret
    BY <1>1 DEF Locals
<1>3. \A x \in Secrets : /\ [Call EXCEPT !.secret = x] \in Locals(minted)
                         /\ [Call EXCEPT !.secret = x].secret = x
                         /\ [Call EXCEPT !.secret = x].app = Call.app
                         /\ [Call EXCEPT !.secret = x].key = Call.key
    BY <1>1 DEF Locals
<1>4. ASSUME prepareAuth, ~Throws("call")
      PROVE  /\ Progress(1) /\ SameApp /\ Now("call").do = "secret"
             /\ caller'["call"].todo # <<>> => /\ caller'["call"].secret = row'[P].secret
                                               /\ caller'["call"].key = Call.key
    <2>1. row'[P].secret \in Secrets
        <3>1. RowTyped'
            BY <1>4, RegistryTyped, Typed
        <3> QED
            BY <3>1, CallTyped DEF RowTyped
    <2>2. Resumes("call", [Call EXCEPT !.secret = row'[P].secret], Skip("call", 1))
        BY <1>4 DEF prepareAuth, Proceeds
    <2>3. mode' = mode /\ Now("call").do = "secret"
        BY <1>4 DEF prepareAuth, Does
    <2> QED
        <3> DEFINE l == [Call EXCEPT !.secret = row'[P].secret]
        <3>5. l \in Locals(minted) /\ l.app = Call.app /\ l.secret = row'[P].secret /\ l.key = Call.key
            BY <1>1, <1>3, <2>1
        <3>6. Resumes("call", l, Skip("call", 1))
            BY <2>2
        <3> HIDE DEF l
        <3>7. /\ caller'["call"].todo = Skip("call", 1)
              /\ Skip("call", 1) # <<>> => /\ caller'["call"].app = l.app
                                           /\ caller'["call"].secret = l.secret
                                           /\ caller'["call"].key = l.key
            BY <1>1, <3>5, <3>6, CallResumes
        <3> QED
            BY <1>1, <3>5, <3>7, <2>3 DEF Progress, SameApp
<1>5. ASSUME ReadSecret, ~Throws("call")
      PROVE  /\ Progress(1) /\ SameApp /\ Now("call").do = "read"
             /\ caller'["call"].todo # <<>> => /\ caller'["call"].secret = row[P].secret
                                               /\ caller'["call"].key = Call.key
    <2>1. row[P].secret \in Secrets
        BY CallTyped, Typed DEF RowTyped
    <2>2. Resumes("call", [Call EXCEPT !.secret = row[P].secret], Skip("call", 1))
        BY <1>5 DEF ReadSecret, Proceeds
    <2> QED
        <3>1. mode' = mode /\ Now("call").do = "read"
            BY <1>5 DEF ReadSecret, Does
        <3> DEFINE l == [Call EXCEPT !.secret = row[P].secret]
        <3>5. l \in Locals(minted) /\ l.app = Call.app /\ l.secret = row[P].secret /\ l.key = Call.key
            BY <1>1, <1>3, <2>1
        <3>6. Resumes("call", l, Skip("call", 1))
            BY <2>2
        <3> HIDE DEF l
        <3>7. /\ caller'["call"].todo = Skip("call", 1)
              /\ Skip("call", 1) # <<>> => /\ caller'["call"].app = l.app
                                           /\ caller'["call"].secret = l.secret
                                           /\ caller'["call"].key = l.key
            BY <1>1, <3>5, <3>6, CallResumes
        <3> QED
            BY <1>1, <3>5, <3>7, <3>1 DEF Progress, SameApp
<1>6. ASSUME CreateBucket
      PROVE  /\ Now("call").do = "bucket"
             /\ \/ Progress(1) /\ InHand /\ SameApp /\ row[P].key = None
                \/ /\ Progress(4) /\ SameApp /\ row[P].key # None
                   /\ caller'["call"].todo # <<>> => /\ caller'["call"].secret = Call.secret
                                                     /\ caller'["call"].key = row[P].key
    <2>1. row[P].key \in 0 .. minted
        BY CallTyped, Typed DEF RowTyped
    <2>2. CASE row[P].key = None
        <3>1. Resumes("call", Call, Skip("call", 1))
            BY <1>6, <2>2 DEF CreateBucket, Proceeds
        <3> QED
            BY <1>1, <1>6, <2>2, <3>1, CallResumes DEF Progress, SameApp, InHand, CreateBucket, Does
    <2>3. CASE row[P].key # None
        <3>1. Resumes("call", [Call EXCEPT !.key = row[P].key], Skip("call", 4))
            BY <1>1, <1>6, <2>3 DEF CreateBucket
        <3>2. mode' = mode /\ Now("call").do = "bucket"
            BY <1>6 DEF CreateBucket, Does
        <3> DEFINE l == [Call EXCEPT !.key = row[P].key]
        <3>5. l \in Locals(minted) /\ l.app = Call.app /\ l.secret = Call.secret /\ l.key = row[P].key
            BY <1>1, <1>2, <2>1
        <3>6. Resumes("call", l, Skip("call", 4))
            BY <3>1
        <3> HIDE DEF l
        <3>7. /\ caller'["call"].todo = Skip("call", 4)
              /\ Skip("call", 4) # <<>> => /\ caller'["call"].app = l.app
                                           /\ caller'["call"].secret = l.secret
                                           /\ caller'["call"].key = l.key
            BY <1>1, <3>5, <3>6, CallResumes
        <3> QED
            BY <1>1, <3>5, <3>7, <2>3, <3>2 DEF Progress, SameApp
    <2> QED
        BY <2>2, <2>3
<1>7. ASSUME MintKey
      PROVE  /\ Progress(1) /\ SameApp /\ Now("call").do = "mint"
             /\ caller'["call"].todo # <<>> => /\ caller'["call"].secret = Call.secret
                                               /\ caller'["call"].key = minted'
    <2>1. minted' = minted + 1 /\ minted' \in Nat /\ minted' >= minted
        BY <1>7, CallTyped DEF MintKey
    <2>2. /\ [Call EXCEPT !.key = minted'] \in Locals(minted')
          /\ [Call EXCEPT !.key = minted'].key = minted'
          /\ [Call EXCEPT !.key = minted'].app = Call.app
          /\ [Call EXCEPT !.key = minted'].secret = Call.secret
        BY <2>1, CallTyped DEF Locals
    <2>3. Resumes("call", [Call EXCEPT !.key = minted'], Skip("call", 1)) /\ "call" \in Callers
        BY <1>7 DEF MintKey, Proceeds, Callers
    <2>4. /\ caller'["call"].todo = Skip("call", 1)
          /\ Skip("call", 1) # <<>> =>
                /\ caller'["call"].app = [Call EXCEPT !.key = minted'].app
                /\ caller'["call"].secret = [Call EXCEPT !.key = minted'].secret
                /\ caller'["call"].key = [Call EXCEPT !.key = minted'].key
        <3> DEFINE l == [Call EXCEPT !.key = minted']
        <3>1. l \in Locals(minted') /\ Resumes("call", l, Skip("call", 1))
            BY <2>2, <2>3
        <3>2. minted' \in Nat /\ minted' >= minted /\ "call" \in Callers
            BY <2>1, <2>3
        <3> HIDE DEF l
        <3>3. /\ caller'["call"].todo = Skip("call", 1)
              /\ Skip("call", 1) # <<>> =>
                    /\ caller'["call"].app = l.app
                    /\ caller'["call"].secret = l.secret /\ caller'["call"].key = l.key
            BY <1>1, <3>1, <3>2, SkipResumes
        <3> QED
            BY <3>3 DEF l
    <2> QED
        BY <1>1, <1>7, <2>2, <2>4 DEF Progress, SameApp, MintKey, Does
<1>8. ASSUME StoreKey \/ Forget
      PROVE  Progress(1) /\ InHand /\ SameApp
    <2>1. Resumes("call", Call, Skip("call", 1)) /\ mode' = mode
        BY <1>8 DEF StoreKey, Forget, Proceeds
    <2> QED
        BY <1>1, <2>1, CallResumes DEF Progress, SameApp, InHand
<1>9. /\ StoreKey => Now("call").do = "store"
      /\ Forget => Now("call").do = "forget"
    BY DEF StoreKey, Forget, Does
<1> QED
    BY <1>4, <1>5, <1>6, <1>7, <1>8, <1>9

\* The kinds of steps.
Specially ==
    \/ (prepareAuth /\ ~Throws("call")) \/ (ReadSecret /\ ~Throws("call"))
    \/ CreateBucket \/ MintKey \/ StoreKey \/ Forget

\* Every step is quiet, or a request of the call, plain or special.
LEMMA Kinds ==
    ASSUME [Next]_vars
    PROVE  Quietly \/ Plainly \/ (Specially /\ Busy("call"))
<1>1. CASE prepareAuth \/ ReadSecret \/ CreateBucket \/ MintKey \/ StoreKey \/ Forget
    BY <1>1 DEF prepareAuth, ReadSecret, CreateBucket, MintKey, StoreKey, Forget, Does,
       Specially, Quietly
<1>2. CASE \/ RegisterProject \/ AllowKey \/ Save \/ Clear \/ RemoveKey \/ RemoveBucket
           \/ findAppByName \/ createDockerImageApp \/ AwaitListed \/ setEnv \/ deployApp
           \/ destroyApp \/ waitAppGone \/ ensureHostDns \/ destroyHostDns
           \/ RegisterTenant \/ DeregisterTenant \/ RunContainer \/ RemoveContainer
    <2>1. CASE Throws("call")
        <3>1. Busy("call")
            <4>1. CASE \/ RegisterProject \/ AllowKey \/ Save \/ Clear \/ RemoveKey
                       \/ RemoveBucket \/ findAppByName
                BY <4>1 DEF RegisterProject, AllowKey, Save, Clear, RemoveKey, RemoveBucket,
                   findAppByName, Does
            <4>2. CASE \/ createDockerImageApp \/ AwaitListed \/ setEnv \/ deployApp \/ destroyApp
                       \/ waitAppGone
                BY <4>2 DEF createDockerImageApp, AwaitListed, setEnv, deployApp, destroyApp,
                   waitAppGone, Does
            <4>3. CASE \/ ensureHostDns \/ destroyHostDns \/ RegisterTenant \/ DeregisterTenant
                       \/ RunContainer \/ RemoveContainer
                BY <4>3 DEF ensureHostDns, destroyHostDns, RegisterTenant, DeregisterTenant,
                   RunContainer, RemoveContainer, Does
            <4> QED
                BY <1>2, <4>1, <4>2, <4>3
        <3> QED
            BY <2>1, <3>1 DEF Quietly
    <2> QED
        BY <1>2, <2>1 DEF Plainly
<1> QED
    BY <1>1, <1>2 DEF Next, Quietly, Callers

\* The order of what is left of a call survives every step.
LEMMA OrderStep ==
    ASSUME TypeOK, Ordered, [Next]_vars
    PROVE  Ordered'
<1>1. CASE Quietly
    <2>1. CASE caller'["call"] = caller["call"]
        BY <1>1, <2>1, Quiet, OrderAfter DEF Ordered, Call
    <2>2. CASE caller'["call"].todo = <<>>
        BY <2>2 DEF Ordered, InOrder, Call
    <2>3. CASE Begins
        BY <1>1, <2>3, Quiet, OrderAfter DEF Begins, Starts
    <2> QED
        BY <1>1, <2>1, <2>2, <2>3, Quiet, Progresses
<1>2. CASE Plainly
    BY <1>2, Plain, Progresses
<1>3. CASE Specially /\ Busy("call")
    BY <1>3, Special, Progresses DEF Specially
<1> QED
    BY <1>1, <1>2, <1>3, Kinds

\* Initially all is well typed and there is nothing to do.
LEMMA InitTyped ==
    ASSUME Init
    PROVE  TypeOK /\ Ordered
<1>1. TypeOK
    <2>1. AppTyped
        <3>1. NoApp \in Apps /\ NoApp.listed = FALSE /\ NoApp.of = <<>>
            BY Bounds DEF NoApp, Apps, None, Secrets, Keys
        <3> QED
            BY <3>1 DEF Init, AppTyped, Apps
    <2>2. RowTyped /\ CallerTyped
        BY ValuesTyped, Bounds DEF Init, RowTyped, CallerTyped, Callers
    <2>3. StoreTyped /\ PlacesTyped /\ GhostsTyped
        BY Bounds DEF Init, StoreTyped, PlacesTyped, GhostsTyped, None, Secrets
    <2>4. CountsTyped
        BY Bounds DEF Init, CountsTyped, Secrets, Keys, Shapes
    <2> QED
        BY <2>1, <2>2, <2>3, <2>4, Typed
<1>2. Ordered
    BY ValuesTyped DEF Init, Ordered, InOrder, Call
<1> QED
    BY <1>1, <1>2

\* The registry, the orchestrator, the object store, the containers and the
\* calls under way keep their types, for any projects and any bounds; the steps
\* left to a call stay in order, whatever it skips.
THEOREM ServicesTypeOK == Spec => [](TypeOK /\ Ordered)
<1>1. (TypeOK /\ Ordered) /\ [Next]_vars => (TypeOK /\ Ordered)'
    BY TypeStep, OrderStep
<1> QED
    BY <1>1, InitTyped, PTL DEF Spec

-----------------------------------------------------------------------------
(* 4. What a call knows.                                                   *)

\* What a service needs, and its credentials, after the step.
ReadyNext(p, s) == row'[p].secret # None /\ (s = "storage" => row'[p].key # None)
CredentialsNext(p, s) == <<row'[p].secret, IF s = "storage" THEN row'[p].key ELSE None>>

Known(p, s) == Ready(p, s) /\ <<Call.secret, Call.key>> = Credentials(p, s)
KnownNext(p, s) ==
    /\ ReadyNext(p, s)
    /\ <<caller'["call"].secret, caller'["call"].key>> = CredentialsNext(p, s)

\* A step that reads nothing keeps a call informed, if it keeps what is known.
LEMMA KeepsInformed ==
    ASSUME TypeOK, Ordered, Informed, NEW n, Progress(n),
           Now("call").do \notin {"read", "secret"},
           caller'["call"].todo # <<>> =>
               \A i \in DOMAIN Call.todo :
                  /\ Call.todo[i].do \in Uses /\ Known(Call.todo[i].p, Call.todo[i].s) =>
                        KnownNext(Call.todo[i].p, Call.todo[i].s)
                  /\ Call.todo[i].s # "storage" /\ Call.key = None => caller'["call"].key = None
    PROVE  Informed'
<1> DEFINE t == Call.todo
           u == caller'["call"].todo
<1>1. CASE u = <<>>
    BY <1>1 DEF Informed, Call
<1>2. CASE u # <<>>
    <2> SUFFICES ASSUME NEW i \in DOMAIN u
                 PROVE  /\ u[i].do \in Uses => \/ \E j \in 1 .. i - 1 : u[j].do \in {"read", "secret"}
                                               \/ KnownNext(u[i].p, u[i].s)
                        /\ u[i].s # "storage" => caller'["call"].key = None
        BY DEF Informed, Call, KnownNext, ReadyNext, CredentialsNext, Ready, Credentials
    <2>1. /\ t \in Seq(StepRecords) /\ n \in Nat \ {0} /\ n \in DOMAIN t
          /\ i \in Nat \ {0} /\ i + n \in DOMAIN t /\ u[i] = t[i + n]
          /\ u = SubSeq(t, n + 1, Len(t))
        BY <1>2, Progresses DEF Progress, Skip, Call
    <2>2. u[i].s # "storage" => caller'["call"].key = None
        BY <1>2, <2>1 DEF Informed
    <2>3. ASSUME u[i].do \in Uses
          PROVE  \/ \E j \in 1 .. i - 1 : u[j].do \in {"read", "secret"}
                 \/ KnownNext(u[i].p, u[i].s)
        <3>1. CASE Known(t[i + n].p, t[i + n].s)
            BY <1>2, <2>1, <2>3, <3>1
        <3>2. CASE \E j \in 1 .. (i + n) - 1 : t[j].do \in {"read", "secret"}
            <4>1. PICK j \in 1 .. (i + n) - 1 : t[j].do \in {"read", "secret"}
                BY <3>2
            <4>2. j \notin 1 .. n
                BY <1>2, <4>1, LastMade
            <4>3. PICK k \in 1 .. i - 1 : k \in Nat \ {0} /\ k + n = j
                <5>1. \A a, b \in Nat : \A c \in 1 .. (a + b) - 1 :
                         c \notin 1 .. b => /\ c - b \in 1 .. a - 1 /\ c - b \in Nat \ {0}
                                            /\ (c - b) + b = c
                    OBVIOUS
                <5> QED
                    BY <2>1, <4>1, <4>2, <5>1
            <4>4. j \in DOMAIN t
                <5>1. DOMAIN t = 1 .. Len(t) /\ Len(t) \in Nat
                    BY <2>1
                <5> QED
                    BY <2>1, <4>1, <5>1
            <4>5. k \in DOMAIN u /\ u[k] = t[j]
                <5> HIDE DEF t, u
                <5>1. k + n \in DOMAIN t
                    BY <4>3, <4>4
                <5>2. k \in DOMAIN u
                    BY <2>1, <4>3, <5>1, Skipped
                <5>3. u[k] = t[k + n]
                    BY <2>1, <5>2, Skipped
                <5> QED
                    BY <4>3, <5>2, <5>3
            <4> QED
                BY <4>1, <4>3, <4>5
        <3> QED
            BY <2>1, <2>3, <3>1, <3>2 DEF Informed, Known
    <2> QED
        BY <2>2, <2>3
<1> QED
    BY <1>1, <1>2

\* What the invariant says of the next step of the call.
LEMMA KnowsNow ==
    ASSUME TypeOK, Ordered, Informed, Busy("call")
    PROVE  /\ Now("call").do \in Uses => Known(P, S)
           /\ S # "storage" => Call.key = None
           /\ \A i \in DOMAIN Call.todo : Call.todo[i].p = P
           /\ Now("call") = Call.todo[1] /\ 1 \in DOMAIN Call.todo
<1>1. Now("call") = Call.todo[1] /\ 1 \in DOMAIN Call.todo
    BY NextStep DEF Call, Callers
<1> QED
    BY <1>1 DEF Informed, Ordered, InOrder, Known, P, S

\* A call stays informed of what the row holds.
LEMMA InformedStep ==
    ASSUME TypeOK, Ordered, Informed, KeyUnderWay, RowsFilled, [Next]_vars
    PROVE  Informed'
<1> DEFINE t == Call.todo
<1>1. CASE Quietly
    <2>1. CASE caller'["call"] = caller["call"]
        BY <1>1, <2>1, Quiet DEF Informed, Call, Ready, Credentials
    <2>2. CASE caller'["call"].todo = <<>>
        BY <2>2 DEF Informed, Call
    <2>3. CASE Begins
        BY <2>3 DEF Begins, Starts, Informed, Call
    <2>4. ASSUME NEW n, Progress(n), InHand, Now("call").do \in Soft
          PROVE  Informed'
        <3>1. Now("call").do \notin {"read", "secret"}
            BY <2>4 DEF Soft, Removal
        <3> QED
            BY <1>1, <2>4, <3>1, Quiet, KeepsInformed
            DEF InHand, Known, KnownNext, Ready, ReadyNext, Credentials, CredentialsNext
    <2> QED
        BY <1>1, <2>1, <2>2, <2>3, <2>4, Quiet
<1>2. CASE Plainly
    <2>1. \A i \in DOMAIN t : t[i].p \in Projects
        BY <1>2, Plain, CallTyped, KnowsNow
    <2>2. PICK n : Progress(n)
        BY <1>2, Plain
    <2>3. InHand /\ Now("call").do \notin {"read", "secret"} /\ RowsKept
        BY <1>2, Plain, PlainRows
    <2> QED
        BY <2>1, <2>2, <2>3, KeepsInformed
        DEF InHand, RowsKept, Known, KnownNext, Ready, ReadyNext, Credentials, CredentialsNext
<1>3. ASSUME Busy("call")
      PROVE  /\ \A i \in DOMAIN t : t[i].p = P /\ P \in Projects
             /\ t[1] = Now("call") /\ 1 \in DOMAIN t
             /\ InOrder(t)
    BY <1>3, KnowsNow, CallTyped DEF Ordered
<1>4. CASE prepareAuth /\ ~Throws("call") /\ Busy("call")
    <2> DEFINE u == caller'["call"].todo
    <2>1. Progress(1) /\ t[1].do = "secret"
        BY <1>3, <1>4, Special
    <2>2. u # <<>> => caller'["call"].secret = row'[P].secret /\ caller'["call"].key = Call.key
        BY <1>4, Special
    <2>3. \A i \in DOMAIN t : t[i].s = "auth"
        BY <1>3, <1>4, <2>1 DEF InOrder
    <2>4. row'[P].secret # None
        <3>1. CASE row[P].secret # None
            BY <1>4, <3>1 DEF prepareAuth, Throws
        <3>2. CASE row[P].secret = None
            <4>1. row' = [row EXCEPT ![P].secret = secrets + 1] /\ secrets \in Nat
                BY <1>4, <3>2, Typed, Bounds DEF prepareAuth, CountsTyped, Secrets
            <4> QED
                BY <1>3, <1>4, <4>1, Typed DEF None, RowTyped
        <3> QED
            BY <3>1, <3>2
    <2>5. Call.key = None
        BY <1>3, <1>4, <2>3, KnowsNow DEF S
    <2>6. \A i \in DOMAIN u : u[i].p = P /\ u[i].s = "auth"
        BY <1>3, <1>4, <2>1, <2>3, Progresses
    <2> QED
        <3> SUFFICES ASSUME NEW i \in DOMAIN u
                     PROVE  KnownNext(u[i].p, u[i].s) /\ caller'["call"].key = None
            BY DEF Informed, Call, KnownNext, ReadyNext, CredentialsNext, Ready, Credentials
        <3> QED
            BY <2>2, <2>4, <2>5, <2>6 DEF KnownNext, ReadyNext, CredentialsNext
<1>5. CASE ReadSecret /\ ~Throws("call") /\ Busy("call")
    <2> DEFINE u == caller'["call"].todo
    <2>1. Progress(1) /\ t[1].do = "read" /\ row' = row
        BY <1>3, <1>5, Special DEF ReadSecret
    <2>2. u # <<>> => caller'["call"].secret = row[P].secret /\ caller'["call"].key = Call.key
        BY <1>5, Special
    <2>3. \A i \in DOMAIN t : t[i].s = S
        BY <1>3, <1>5, <2>1 DEF InOrder, S
    <2>4. row[P].secret # None /\ row[P].there
        BY <1>3, <1>5 DEF ReadSecret, RowsFilled
    <2>5. /\ S # "storage" => Call.key = None
          /\ S = "storage" => row[P].key # None /\ Call.key = row[P].key
        BY <1>3, <1>5, <2>1, <2>4, KnowsNow DEF KeyUnderWay
    <2>6. \A i \in DOMAIN u : u[i].p = P /\ u[i].s = S
        BY <1>3, <1>5, <2>1, <2>3, Progresses
    <2> QED
        <3> SUFFICES ASSUME NEW i \in DOMAIN u
                     PROVE  /\ KnownNext(u[i].p, u[i].s)
                            /\ u[i].s # "storage" => caller'["call"].key = None
            BY DEF Informed, Call, KnownNext, ReadyNext, CredentialsNext, Ready, Credentials
        <3> QED
            BY <2>1, <2>2, <2>4, <2>5, <2>6 DEF KnownNext, ReadyNext, CredentialsNext
<1>6. CASE CreateBucket /\ Busy("call")
    <2>1. t[1].do = "bucket" /\ row' = row /\ \A i \in DOMAIN t : t[i].s = "storage"
        BY <1>3, <1>6, Special DEF CreateBucket, InOrder
    <2>2. CASE Progress(1) /\ InHand
        <3>1. caller'["call"].todo # <<>> =>
                 /\ caller'["call"].key = Call.key
                 /\ \A p, s : Known(p, s) => KnownNext(p, s)
            BY <2>1, <2>2
            DEF InHand, Known, KnownNext, Ready, ReadyNext, Credentials, CredentialsNext
        <3>2. Now("call").do \notin {"read", "secret"}
            BY <1>3, <1>6, <2>1
        <3> QED
            BY <2>2, <3>1, <3>2, KeepsInformed
    <2>3. CASE /\ Progress(4)
               /\ caller'["call"].todo # <<>> => /\ caller'["call"].secret = Call.secret
                                                 /\ caller'["call"].key = row[P].key
        BY <1>3, <1>6, <2>1, <2>3, KeepsInformed
        DEF Known, KnownNext, Ready, ReadyNext, Credentials, CredentialsNext
    <2> QED
        BY <1>6, <2>2, <2>3, Special
<1>7. CASE MintKey /\ Busy("call")
    <2>1. Progress(1) /\ t[1].do = "mint" /\ \A i \in DOMAIN t : t[i].s = "storage"
        BY <1>3, <1>7, Special DEF InOrder
    <2>2. row[P].key = None
        BY <1>3, <1>7, <2>1 DEF KeyUnderWay
    <2>3. \A i \in DOMAIN t : ~Known(t[i].p, t[i].s)
        BY <1>3, <1>7, <2>1, <2>2 DEF Known, Ready
    <2> QED
        BY <1>3, <1>7, <2>1, <2>3, KeepsInformed
<1>8. CASE StoreKey /\ Busy("call")
    <2>1. Progress(1) /\ t[1].do = "store" /\ InHand
        BY <1>3, <1>8, Special
    <2>2. row[P].key = None
        BY <1>3, <1>8, <2>1 DEF KeyUnderWay
    <2>3. row'[P].secret = row[P].secret
        BY <1>3, <1>8, Typed DEF StoreKey, RowTyped
    <2>4. \A i \in DOMAIN t : Known(t[i].p, t[i].s) => t[i].s # "storage"
        BY <1>3, <1>8, <2>2 DEF Known, Ready
    <2> QED
        BY <1>3, <1>8, <2>1, <2>3, <2>4, KeepsInformed
        DEF InHand, Known, KnownNext, Ready, ReadyNext, Credentials, CredentialsNext
<1>9. CASE Forget /\ Busy("call")
    <2>1. Progress(1) /\ t[1].do = "forget" /\ InHand
        BY <1>3, <1>9, Special
    <2>2. \A i \in DOMAIN t : t[i].do \notin Uses
        BY <1>3, <1>9, <2>1 DEF InOrder, Gives
    <2> QED
        BY <1>3, <1>9, <2>1, <2>2, KeepsInformed DEF InHand
<1> QED
    BY <1>1, <1>2, <1>4, <1>5, <1>6, <1>7, <1>8, <1>9, Kinds DEF Specially

\* Only the steps of provisionStorage come to one of them, or to the read after.
LEMMA NoKeyNext ==
    ASSUME TypeOK, Ordered, NEW n, Progress(n), caller'["call"].todo # <<>>,
           Now("call").do \notin {"bucket", "mint", "allow", "store"}
    PROVE  /\ Now("call")'.do \notin {"mint", "allow", "store"}
           /\ Now("call")'.do = "read" => Now("call")'.s # "storage"
<1> DEFINE t == Call.todo
<1>1. /\ Now("call")' = t[n + 1] /\ Follows(t[n], t[n + 1]) /\ n + 1 \in DOMAIN t
    BY Progresses
<1>2. CASE Now("call").do \in DOMAIN Removal
    <2>1. t[n + 1].do \notin Gives
        BY <1>1, <1>2, LastMade
    <2> QED
        BY <1>1, <2>1 DEF Gives
<1>3. CASE Now("call").do \notin DOMAIN Removal
    <2>1. t[n].do \notin {"bucket", "mint", "allow", "store"}
        BY <1>3, LastMade DEF Progress
    <2> QED
        BY <1>1, <2>1 DEF Follows
<1> QED
    BY <1>2, <1>3

\* The key a call is about to store stays what its steps have made it.
LEMMA KeyUnderWayStep ==
    ASSUME TypeOK, Ordered, Informed, KeyUnderWay, RowsFilled, [Next]_vars
    PROVE  KeyUnderWay'
<1> DEFINE t == Call.todo
           next == Now("call")'
           label == projectHostLabel(P)
<1>1. CASE caller'["call"].todo = <<>>
    BY <1>1 DEF KeyUnderWay, Busy
<1>2. ASSUME caller'["call"].todo # <<>>,
             next.do \notin {"mint", "allow", "store"}, next.do = "read" => next.s # "storage"
      PROVE  KeyUnderWay'
    BY <1>2 DEF KeyUnderWay, S
<1>3. ASSUME NEW n, Progress(n), Now("call").do \notin {"bucket", "mint", "allow", "store"}
      PROVE  KeyUnderWay'
    BY <1>1, <1>2, <1>3, NoKeyNext
<1>4. CASE Quietly
    <2>1. CASE caller'["call"] = caller["call"]
        BY <1>4, <2>1, Quiet DEF KeyUnderWay, Busy, Now, P, S, Call
    <2>2. CASE Begins /\ caller'["call"].todo # <<>>
        <3>1. next = caller'["call"].todo[1]
            BY <2>2 DEF Begins, Starts, Now
        <3>2. next.do \notin {"mint", "allow", "store"} /\ (next.do = "read" => next.s # "storage")
            BY <2>2, <3>1 DEF Begins, Starts
        <3> QED
            BY <1>2, <2>2, <3>2
    <2>3. ASSUME NEW n, Progress(n), Now("call").do \in Soft
          PROVE  KeyUnderWay'
        BY <1>3, <2>3 DEF Soft, Removal
    <2> QED
        BY <1>1, <1>4, <2>1, <2>2, <2>3, Quiet
<1>5. CASE Plainly /\ ~AllowKey
    <2>1. Now("call").do # "allow"
        <3>1. CASE RegisterProject \/ Save \/ Clear \/ RemoveKey \/ RemoveBucket \/ findAppByName
            BY <3>1 DEF RegisterProject, Save, Clear, RemoveKey, RemoveBucket, findAppByName, Does
        <3>2. CASE \/ createDockerImageApp \/ AwaitListed \/ setEnv \/ deployApp \/ destroyApp
                   \/ waitAppGone
            BY <3>2 DEF createDockerImageApp, AwaitListed, setEnv, deployApp, destroyApp, waitAppGone, Does
        <3>3. CASE \/ ensureHostDns \/ destroyHostDns \/ RegisterTenant \/ DeregisterTenant
                   \/ RunContainer \/ RemoveContainer
            BY <3>3 DEF ensureHostDns, destroyHostDns, RegisterTenant, DeregisterTenant,
               RunContainer, RemoveContainer, Does
        <3> QED
            BY <1>5, <3>1, <3>2, <3>3 DEF Plainly
    <2> QED
        BY <1>3, <1>5, <2>1, Plain
<1>6. ASSUME Busy("call"), Progress(1), caller'["call"].todo # <<>>
      PROVE  Follows(Now("call"), next) /\ P' = P
    BY <1>6, Progresses, LastMade
<1>7. CASE AllowKey /\ Plainly
    <2>1. /\ Busy("call") /\ Now("call").do = "allow" /\ Progress(1) /\ InHand
        <3>1. Resumes("call", Call, Skip("call", 1)) /\ mode' = mode /\ Busy("call")
              /\ Now("call").do = "allow" /\ 1 \in Nat \ {0}
            BY <1>7 DEF AllowKey, Proceeds, Does, Framed, modes
        <3> QED
            BY <3>1, CallTyped, CallResumes DEF Progress, InHand
    <2>2. /\ row[P].key = None /\ label \in bucket /\ Call.key \in keys
          /\ \A q \in Projects : row[q].key # Call.key
          /\ \A a \in allowed : a[1] = Call.key => a[2] = label
        BY <2>1 DEF KeyUnderWay
    <2>3. /\ allowed' = allowed \cup {<<Call.key, label>>} /\ UNCHANGED <<row, bucket, keys>>
        BY <1>7 DEF AllowKey
    <2>4. CASE caller'["call"].todo # <<>>
        <3>1. Follows(Now("call"), next) /\ P' = P /\ caller'["call"].key = Call.key
            BY <1>6, <2>1, <2>4 DEF InHand
        <3>2. next.do \notin {"mint", "allow"} /\ (next.do = "read" => next.s # "storage")
            BY <2>1, <3>1 DEF Follows
        <3>3. \A a \in allowed' : a[1] = Call.key => a[2] = label
            BY <2>2, <2>3
        <3>4. <<Call.key, label>> \in allowed' /\ \A q \in Projects : row'[q].key # Call.key
            BY <2>2, <2>3
        <3> QED
            BY <2>2, <2>3, <3>1, <3>2, <3>3, <3>4 DEF KeyUnderWay, S, Call
    <2> QED
        BY <1>1, <2>4
<1>8. CASE prepareAuth /\ ~Throws("call") /\ Busy("call")
    BY <1>3, <1>8, Special
<1>9. CASE ReadSecret /\ ~Throws("call") /\ Busy("call")
    BY <1>3, <1>9, Special
<1>10. CASE Forget /\ Busy("call")
    BY <1>3, <1>10, Special
<1>11. CASE CreateBucket /\ Busy("call")
    <2>1. Now("call").do = "bucket" /\ row' = row /\ allowed' = allowed /\ keys' = keys
        BY <1>11, Special DEF CreateBucket
    <2>2. CASE Progress(1) /\ row[P].key = None /\ caller'["call"].todo # <<>>
        <3>1. Follows(Now("call"), next) /\ P' = P
            BY <1>6, <1>11, <2>2
        <3>2. next.do \notin {"allow", "store"} /\ (next.do = "read" => next.s # "storage")
            BY <2>1, <3>1 DEF Follows
        <3>3. label \in bucket'
            BY <1>11, <2>2 DEF CreateBucket
        <3> QED
            BY <2>1, <2>2, <3>1, <3>2, <3>3 DEF KeyUnderWay, S
    <2>3. CASE /\ Progress(4) /\ row[P].key # None /\ caller'["call"].todo # <<>>
               /\ caller'["call"].key = row[P].key
        <3>1. Follows(t[4], next) /\ P' = P /\ t[4].do = "store"
            BY <2>1, <2>3, Progresses, LastMade
        <3>2. next.do \notin {"mint", "allow", "store"}
            BY <3>1 DEF Follows
        <3> QED
            BY <2>1, <2>3, <3>1, <3>2 DEF KeyUnderWay, Call
    <2> QED
        BY <1>1, <1>11, <2>2, <2>3, Special
<1>12. CASE MintKey /\ Busy("call") /\ caller'["call"].todo # <<>>
    <2>1. /\ Now("call").do = "mint" /\ Progress(1) /\ caller'["call"].key = minted'
        BY <1>12, Special
    <2>2. /\ row[P].key = None /\ label \in bucket
        BY <1>12, <2>1 DEF KeyUnderWay
    <2>3. /\ minted' = minted + 1 /\ keys' = keys \cup {minted'} /\ UNCHANGED <<row, bucket, allowed>>
          /\ minted \in Nat
        BY <1>12, CallTyped DEF MintKey
    <2>4. \A q \in Projects : row'[q].key # minted'
        BY <2>3, Typed DEF RowTyped
    <2>5. \A a \in allowed' : a[1] # minted'
        BY <2>3, Typed DEF StoreTyped
    <2>6. Follows(Now("call"), next) /\ P' = P
        BY <1>6, <1>12, <2>1
    <2>7. next.do \notin {"mint", "store"} /\ (next.do = "read" => next.s # "storage")
        BY <2>1, <2>6 DEF Follows
    <2> QED
        BY <2>1, <2>2, <2>3, <2>4, <2>5, <2>6, <2>7 DEF KeyUnderWay, S, Call
<1>13. CASE StoreKey /\ Busy("call") /\ caller'["call"].todo # <<>>
    <2>1. /\ Now("call").do = "store" /\ Progress(1) /\ caller'["call"].key = Call.key
        BY <1>13, Special DEF InHand
    <2>2. Call.key \in keys /\ Call.key # None
        BY <1>13, <2>1, Typed DEF KeyUnderWay, StoreTyped, None
    <2>3. row'[P].there => row'[P].key = Call.key
        BY <1>13, CallTyped, Typed DEF StoreKey, RowTyped
    <2>4. Follows(Now("call"), next) /\ P' = P
        BY <1>6, <1>13, <2>1
    <2>5. next.do \notin {"mint", "allow", "store"}
        BY <2>1, <2>4 DEF Follows
    <2> QED
        BY <2>1, <2>2, <2>3, <2>4, <2>5 DEF KeyUnderWay, Call
<1> QED
    BY <1>1, <1>4, <1>5, <1>7, <1>8, <1>9, <1>10, <1>11, <1>12, <1>13, Kinds DEF Specially

-----------------------------------------------------------------------------
(* 5. The rows, the containers and the keys.                               *)

\* Nothing is advertised or run that was not.
Lessens ==
    /\ \A p \in Projects : row'[p].url \subseteq row[p].url
    /\ \A p \in Projects, s \in Services : box'[p][s] \in {NoBox, box[p][s]}

\* Rows and containers agree still where nothing more is advertised or run.
LEMMA LessensKeeps ==
    ASSUME TypeOK, RowsFilled, ContainersAgree, RowsKept, Lessens, mode' = mode
    PROVE  RowsFilled' /\ ContainersAgree'
<1>1. \A p \in Projects : row[p].url \subseteq Services
    BY Typed DEF RowTyped
<1>2. RowsFilled'
    BY <1>1 DEF RowsFilled, RowsKept, Lessens, Ready
<1>3. ContainersAgree'
    BY <1>1 DEF ContainersAgree, RowsKept, Lessens, Credentials
<1> QED
    BY <1>2, <1>3

\* Of the plain requests only the save and the run add to what is advertised and run.
LEMMA PlainLessens ==
    ASSUME TypeOK, Plainly, ~Save, ~RunContainer
    PROVE  Lessens
<1> USE DEF Framed, AppFrame, outside, Lessens
<1>1. CASE RegisterProject \/ Clear
    <2>1. P \in Projects
        BY <1>1, CallTyped DEF RegisterProject, Clear, Does
    <2>2. CASE RegisterProject
        BY <2>1, <2>2, Typed DEF RegisterProject, RowTyped
    <2>3. CASE Clear
        BY <2>1, <2>3, Typed DEF Clear, RowTyped
    <2> QED
        BY <1>1, <2>2, <2>3
<1>2. CASE RemoveContainer
    BY <1>2, Typed DEF RemoveContainer, PlacesTyped
<1>3. CASE \/ AllowKey \/ RemoveKey \/ RemoveBucket \/ findAppByName \/ createDockerImageApp
           \/ AwaitListed \/ setEnv \/ deployApp \/ destroyApp \/ waitAppGone
    BY <1>3 DEF Plainly, AllowKey, RemoveKey, RemoveBucket, findAppByName, createDockerImageApp,
       AwaitListed, setEnv, deployApp, destroyApp, waitAppGone
<1>4. CASE ensureHostDns \/ destroyHostDns \/ RegisterTenant \/ DeregisterTenant
    BY <1>4 DEF ensureHostDns, destroyHostDns, RegisterTenant, DeregisterTenant
<1> QED
    BY <1>1, <1>2, <1>3, <1>4 DEF Plainly

\* Rows stay filled and containers in agreement with them.
LEMMA RowsStep ==
    ASSUME TypeOK, Ordered, Informed, KeyUnderWay, RowsFilled, Held, ContainersAgree, [Next]_vars
    PROVE  RowsFilled' /\ ContainersAgree'
<1>1. CASE Quietly
    <2>1. RowsKept /\ Lessens /\ mode' = mode
        BY <1>1, Quiet DEF RowsKept, Lessens
    <2> QED
        BY <2>1, LessensKeeps DEF RowsKept
<1>2. CASE Plainly /\ ~Save /\ ~RunContainer
    BY <1>2, PlainRows, PlainLessens, LessensKeeps DEF RowsKept
<1>3. ASSUME Busy("call")
      PROVE  P \in Projects /\ S \in Services
    BY <1>3, CallTyped
<1>4. CASE Save
    <2>1. Busy("call") /\ Now("call").do = "save" /\ UNCHANGED <<box, mode>>
        BY <1>4 DEF Save, Does, outside, Framed, modes
    <2>2. Ready(P, S) /\ box[P][S] \in {NoBox, Credentials(P, S)}
        BY <2>1, KnowsNow DEF Uses, Known, Held
    <2>3. \A p \in Projects : /\ row'[p].secret = row[p].secret /\ row'[p].key = row[p].key
                              /\ row'[p].there = row[p].there
                              /\ row'[p].url \subseteq row[p].url \cup (IF p = P THEN {S} ELSE {})
        BY <1>3, <1>4, <2>1, Typed DEF Save, RowTyped
    <2>4. \A p \in Projects : row[p].url \subseteq Services
        BY Typed DEF RowTyped
    <2>5. RowsFilled'
        BY <2>1, <2>2, <2>3, <2>4 DEF RowsFilled, Ready
    <2>6. ContainersAgree'
        BY <2>1, <2>2, <2>3, <2>4 DEF ContainersAgree, Credentials
    <2> QED
        BY <2>5, <2>6
<1>5. CASE RunContainer /\ Plainly
    <2>1. /\ Busy("call") /\ Now("call").do = "container" /\ row' = row /\ mode' = mode
          /\ box' = [box EXCEPT ![P][S] = <<Call.secret, Call.key>>]
        BY <1>5 DEF RunContainer, Does, Framed, modes, Plainly
    <2>2. Ready(P, S) /\ <<Call.secret, Call.key>> = Credentials(P, S)
        BY <2>1, KnowsNow DEF Uses, Known
    <2>3. S = "functions" \/ (S \in Routed /\ mode = "docker")
        BY <2>1, KnowsNow DEF Ordered, InOrder, S
    <2>4. \A p \in Projects, s \in Services :
             \/ box'[p][s] = box[p][s]
             \/ p = P /\ s = S /\ box'[p][s] = Credentials(P, S)
        BY <1>3, <2>1, <2>2, Typed DEF PlacesTyped
    <2>5. \A p \in Projects : row[p].url \subseteq Services
        BY Typed DEF RowTyped
    <2>6. RowsFilled'
        BY <2>1, <2>3, <2>4, <2>5 DEF RowsFilled, Ready
    <2>7. ContainersAgree'
        BY <2>1, <2>4, <2>5 DEF ContainersAgree, Credentials
    <2> QED
        BY <2>6, <2>7
<1>6. CASE (ReadSecret /\ ~Throws("call")) \/ CreateBucket \/ MintKey
    <2>1. UNCHANGED <<row, box, mode>>
        BY <1>6 DEF ReadSecret, CreateBucket, MintKey, outside, Framed, modes
    <2>2. RowsKept /\ Lessens
        BY <2>1 DEF RowsKept, Lessens
    <2> QED
        BY <2>1, <2>2, LessensKeeps
<1>7. CASE prepareAuth /\ ~Throws("call") /\ Busy("call")
    <2>1. UNCHANGED <<box, mode>> /\ row[P].there
        BY <1>7 DEF prepareAuth, outside, modes
    <2>2. CASE row' = row
        <3>1. RowsKept /\ Lessens
            BY <2>1, <2>2 DEF RowsKept, Lessens
        <3> QED
            BY <2>1, <2>2, <3>1, LessensKeeps
    <2>3. CASE row' # row
        <3>1. row[P].secret = None /\ row' = [row EXCEPT ![P].secret = secrets']
            BY <1>7, <2>3 DEF prepareAuth
        <3>2. row[P].url = {}
            BY <1>3, <1>7, <3>1, Typed DEF RowsFilled, Ready, RowTyped
        <3>3. \A p \in Projects : /\ row'[p].url = row[p].url /\ row'[p].key = row[p].key
                                  /\ row'[p].there = row[p].there
                                  /\ p # P => row'[p].secret = row[p].secret
            BY <1>3, <1>7, <3>1, Typed DEF RowTyped
        <3>4. RowsFilled'
            BY <1>3, <1>7, <2>1, <3>2, <3>3 DEF RowsFilled, Ready
        <3>5. ContainersAgree'
            BY <2>1, <3>2, <3>3 DEF ContainersAgree, Credentials
        <3> QED
            BY <3>4, <3>5
    <2> QED
        BY <2>2, <2>3
<1>8. CASE StoreKey /\ Busy("call")
    <2>1. Now("call").do = "store" /\ UNCHANGED <<box, mode>>
        BY <1>8, Special DEF StoreKey, outside, Framed, modes
    <2>2. row[P].key = None /\ Call.key \in keys /\ Call.key # None
        BY <1>8, <2>1, Typed DEF KeyUnderWay, StoreTyped, None
    <2>3. "storage" \notin row[P].url
        BY <1>3, <1>8, <2>2 DEF RowsFilled, Ready
    <2>4. \A p \in Projects : /\ row'[p].url = row[p].url /\ row'[p].secret = row[p].secret
                              /\ row'[p].there = row[p].there
                              /\ p # P => row'[p].key = row[p].key
        BY <1>3, <1>8, Typed DEF StoreKey, RowTyped
    <2>5. RowsFilled'
        BY <1>3, <1>8, <2>1, <2>3, <2>4 DEF RowsFilled, Ready
    <2>6. ContainersAgree'
        BY <2>1, <2>3, <2>4 DEF ContainersAgree, Credentials
    <2> QED
        BY <2>5, <2>6
<1>9. CASE Forget /\ Busy("call")
    <2>1. /\ UNCHANGED <<box, mode>> /\ row' = [row EXCEPT ![P] = NoRow]
        BY <1>9 DEF Forget, outside, modes
    <2>2. \A p \in Projects : row'[p] = row[p] \/ row'[p] = NoRow
        BY <1>3, <1>9, <2>1, Typed DEF RowTyped
    <2>3. NoRow.url = {} /\ NoRow.secret = None
        BY DEF NoRow
    <2> QED
        BY <2>1, <2>2, <2>3 DEF RowsFilled, ContainersAgree, Ready, Credentials
<1> QED
    BY <1>1, <1>2, <1>4, <1>5, <1>6, <1>7, <1>8, <1>9, Kinds DEF Specially, Plainly

\* The rows' keys and what they open are as they were, or less.
KeysKept ==
    /\ \A p \in Projects : row'[p].key = row[p].key
    /\ allowed' \subseteq allowed

\* Only three requests change the key of a row or open a bucket to a key.
LEMMA KeysKeep ==
    ASSUME TypeOK, [Next]_vars, ~AllowKey, ~StoreKey, ~Forget
    PROVE  KeysKept
<1>1. CASE Quietly
    BY <1>1, Quiet DEF KeysKept
<1>2. CASE Plainly
    <2>1. RowsKept
        BY <1>2, PlainRows
    <2>2. allowed' \subseteq allowed
        <3>1. CASE RegisterProject \/ Save \/ Clear \/ RemoveKey \/ RemoveBucket \/ findAppByName
            BY <3>1 DEF RegisterProject, Save, Clear, RemoveKey, RemoveBucket, findAppByName,
               outside, AppFrame
        <3>2. CASE \/ createDockerImageApp \/ AwaitListed \/ setEnv \/ deployApp \/ destroyApp
                   \/ waitAppGone
            BY <1>2, <3>2 DEF Plainly, createDockerImageApp, AwaitListed, setEnv, deployApp,
               destroyApp, waitAppGone, outside, AppFrame
        <3>3. CASE \/ ensureHostDns \/ destroyHostDns \/ RegisterTenant \/ DeregisterTenant
                   \/ RunContainer \/ RemoveContainer
            BY <1>2, <3>3 DEF Plainly, ensureHostDns, destroyHostDns, RegisterTenant,
               DeregisterTenant, RunContainer, RemoveContainer
        <3> QED
            BY <1>2, <3>1, <3>2, <3>3 DEF Plainly
    <2> QED
        BY <2>1, <2>2 DEF RowsKept, KeysKept
<1>3. CASE Specially /\ Busy("call")
    <2>1. allowed' \subseteq allowed
        BY <1>3 DEF Specially, prepareAuth, ReadSecret, CreateBucket, MintKey, outside
    <2>2. CASE row' = row
        BY <2>1, <2>2 DEF KeysKept
    <2>3. CASE row' = [row EXCEPT ![P].secret = secrets']
        <3>1. P \in Projects
            BY <1>3, CallTyped
        <3> QED
            BY <2>1, <2>3, <3>1, Typed DEF KeysKept, RowTyped
    <2> QED
        BY <1>3, <2>2, <2>3 DEF Specially, prepareAuth, ReadSecret, CreateBucket, MintKey, outside
<1> QED
    BY <1>1, <1>2, <1>3, Kinds

\* Keys stay their project's own.
LEMMA KeysOwnedStep ==
    ASSUME TypeOK, KeyUnderWay, KeysOwned, [Next]_vars
    PROVE  KeysOwned'
<1>1. CASE ~AllowKey /\ ~StoreKey /\ ~Forget
    BY <1>1, KeysKeep DEF KeysKept, KeysOwned
<1>2. CASE AllowKey
    <2>1. Busy("call") /\ Now("call").do = "allow" /\ row' = row
        BY <1>2 DEF AllowKey, Does
    <2>2. \A q \in Projects : row[q].key # Call.key
        BY <2>1 DEF KeyUnderWay
    <2>3. \A a \in allowed' : a \in allowed \/ a[1] = Call.key
        BY <1>2 DEF AllowKey
    <2> QED
        BY <2>1, <2>2, <2>3 DEF KeysOwned
<1>3. CASE StoreKey
    <2>1. Busy("call") /\ Now("call").do = "store" /\ allowed' = allowed
        BY <1>3 DEF StoreKey, Does, outside
    <2>2. /\ \A q \in Projects : row[q].key # Call.key
          /\ \A a \in allowed : a[1] = Call.key => a[2] = projectHostLabel(P)
        BY <2>1 DEF KeyUnderWay
    <2>3. P \in Projects
        BY <2>1, CallTyped
    <2>4. \A p \in Projects : \/ row'[p].key = row[p].key
                              \/ p = P /\ row'[p].key = Call.key
        BY <1>3, <2>3, Typed DEF StoreKey, RowTyped
    <2> QED
        BY <2>1, <2>2, <2>3, <2>4 DEF KeysOwned
<1>4. CASE Forget
    <2>1. Busy("call") /\ allowed' = allowed /\ row' = [row EXCEPT ![P] = NoRow]
        BY <1>4 DEF Forget, Does, outside
    <2>2. P \in Projects /\ NoRow.key = None
        BY <2>1, CallTyped DEF NoRow
    <2>3. \A p \in Projects : row'[p].key = row[p].key \/ row'[p].key = None
        BY <2>1, <2>2, Typed DEF RowTyped
    <2> QED
        BY <2>1, <2>3 DEF KeysOwned
<1> QED
    BY <1>1, <1>2, <1>3, <1>4

\* The stored key goes on opening the project's bucket.
LEMMA StoredKeyStep ==
    ASSUME TypeOK, Ordered, Informed, KeyUnderWay, KeysOwned, LabelsDiffer, StoredKeyWorks, [Next]_vars
    PROVE  StoredKeyWorks'
<1> USE DEF StoredKeyWorks
<1>1. CASE /\ KeysKept /\ keys \subseteq keys' /\ bucket \subseteq bucket'
           /\ allowed \subseteq allowed' /\ tearing \subseteq tearing'
    BY <1>1 DEF KeysKept
<1>2. CASE Quietly
    <2>1. KeysKept
        BY <1>2, Quiet DEF KeysKept
    <2> QED
        BY <1>1, <1>2, <2>1, Quiet
<1>3. ASSUME Busy("call")
      PROVE  P \in Projects
    BY <1>3, CallTyped
<1>4. CASE AllowKey
    <2>1. UNCHANGED <<row, keys, bucket, tearing>> /\ allowed \subseteq allowed'
        BY <1>4 DEF AllowKey, Framed, ghosts
    <2> QED
        BY <2>1
<1>5. CASE RemoveKey
    <2>1. /\ Busy("call") /\ row' = row /\ bucket' = bucket /\ tearing' = Torn
          /\ keys' = keys \ {row[P].key} /\ allowed' = {a \in allowed : a[1] # row[P].key}
        BY <1>5 DEF RemoveKey, Does
    <2>2. tearing \subseteq tearing' /\ (row[P].key # None => P \in tearing')
        BY <2>1 DEF Torn, P
    <2> SUFFICES ASSUME NEW p \in Projects, row'[p].key # None, p \notin tearing'
                 PROVE  /\ row'[p].key \in keys' /\ projectHostLabel(p) \in bucket'
                        /\ <<row'[p].key, projectHostLabel(p)>> \in allowed'
        OBVIOUS
    <2>3. row[p].key # row[P].key
        <3>1. CASE row[P].key = None
            BY <2>1, <3>1
        <3>2. CASE row[P].key # None
            BY <1>3, <2>1, <2>2, <3>2 DEF KeysOwned
        <3> QED
            BY <3>1, <3>2
    <2> QED
        BY <2>1, <2>2, <2>3
<1>6. CASE RemoveBucket
    <2>1. /\ Busy("call") /\ row' = row /\ keys' = keys /\ tearing' = Torn
          /\ \/ bucket' = bucket /\ allowed' = allowed
             \/ /\ row[P].key # None /\ bucket' = bucket \ {projectHostLabel(P)}
                /\ allowed' = {a \in allowed : a[2] # projectHostLabel(P)}
        BY <1>6 DEF RemoveBucket, Does
    <2>2. tearing \subseteq tearing' /\ (row[P].key # None => P \in tearing')
        BY <2>1 DEF Torn, P
    <2> SUFFICES ASSUME NEW p \in Projects, row'[p].key # None, p \notin tearing'
                 PROVE  /\ row'[p].key \in keys' /\ projectHostLabel(p) \in bucket'
                        /\ <<row'[p].key, projectHostLabel(p)>> \in allowed'
        OBVIOUS
    <2>3. row[P].key # None => projectHostLabel(p) # projectHostLabel(P)
        BY <1>3, <2>1, <2>2 DEF LabelsDiffer
    <2> QED
        BY <2>1, <2>2, <2>3
<1>7. CASE Plainly /\ ~AllowKey /\ ~RemoveKey /\ ~RemoveBucket
    <2>1. RowsKept
        BY <1>7, PlainRows
    <2>2. UNCHANGED <<keys, bucket, allowed, tearing>>
        <3>1. CASE RegisterProject \/ Save \/ Clear \/ findAppByName \/ AwaitListed
            BY <3>1 DEF RegisterProject, Save, Clear, findAppByName, AwaitListed, outside,
               Framed, AppFrame, ghosts
        <3>2. CASE createDockerImageApp \/ setEnv \/ deployApp \/ destroyApp \/ waitAppGone
            BY <1>7, <3>2 DEF Plainly, createDockerImageApp, setEnv, deployApp, destroyApp,
               waitAppGone, outside, Framed, AppFrame, ghosts
        <3>3. CASE \/ ensureHostDns \/ destroyHostDns \/ RegisterTenant \/ DeregisterTenant
                   \/ RunContainer \/ RemoveContainer
            BY <1>7, <3>3 DEF Plainly, ensureHostDns, destroyHostDns, RegisterTenant,
               DeregisterTenant, RunContainer, RemoveContainer, Framed, ghosts
        <3> QED
            BY <1>7, <3>1, <3>2, <3>3 DEF Plainly
    <2> QED
        BY <2>1, <2>2 DEF RowsKept
<1>8. CASE (ReadSecret \/ prepareAuth) /\ ~Throws("call") /\ Busy("call")
    <2>1. KeysKept
        BY <1>8, KeysKeep DEF Next, AllowKey, StoreKey, Forget, ReadSecret, prepareAuth, Does
    <2>2. UNCHANGED <<keys, bucket, allowed, tearing>>
        BY <1>8 DEF ReadSecret, prepareAuth, outside, Framed, ghosts
    <2> QED
        BY <1>1, <2>1, <2>2
<1>9. CASE CreateBucket \/ MintKey
    <2>1. row' = row /\ keys \subseteq keys' /\ bucket \subseteq bucket' /\ UNCHANGED <<allowed, tearing>>
        BY <1>9 DEF CreateBucket, MintKey, Framed, ghosts
    <2> QED
        BY <2>1
<1>10. CASE StoreKey
    <2>1. Busy("call") /\ Now("call").do = "store" /\ UNCHANGED <<keys, bucket, allowed, tearing>>
        BY <1>10 DEF StoreKey, Does, outside, Framed, ghosts
    <2>2. /\ Call.key \in keys /\ projectHostLabel(P) \in bucket
          /\ <<Call.key, projectHostLabel(P)>> \in allowed
        BY <2>1 DEF KeyUnderWay
    <2>3. \A p \in Projects : \/ row'[p].key = row[p].key
                              \/ p = P /\ row'[p].key = Call.key
        BY <1>3, <1>10, <2>1, Typed DEF StoreKey, RowTyped
    <2> QED
        BY <2>1, <2>2, <2>3
<1>11. CASE Forget
    <2>1. /\ Busy("call") /\ UNCHANGED <<keys, bucket, allowed>> /\ tearing' = tearing \ {P}
          /\ row' = [row EXCEPT ![P] = NoRow]
        BY <1>11 DEF Forget, Does, outside
    <2>2. \A p \in Projects : IF p = P THEN row'[p].key = None ELSE row'[p].key = row[p].key
        BY <1>3, <2>1, Typed DEF RowTyped, NoRow
    <2> QED
        BY <2>1, <2>2
<1> QED
    BY <1>2, <1>4, <1>5, <1>6, <1>7, <1>8, <1>9, <1>10, <1>11, Kinds DEF Specially

-----------------------------------------------------------------------------
(* 6. Applications.                                                        *)

\* The step after an environment is set, or a container run.
LEMMA HeldNext ==
    ASSUME TypeOK, Ordered, RowsFilled, NEW n, Progress(n), caller'["call"].todo # <<>>
    PROVE  /\ P' = P /\ S' \in Services
           /\ Now("call")'.do = "deploy" => Now("call").do = "env"
           /\ Now("call")'.do = "save" /\ Now("call").do # "container" => box[P][S'] = NoBox
<1> DEFINE t == Call.todo
           next == Now("call")'
<1>1. /\ next = t[n + 1] /\ Follows(t[n], t[n + 1]) /\ n + 1 \in DOMAIN t /\ P' = P
      /\ t \in Seq(StepRecords)
    BY Progresses
<1>2. S' = next.s /\ S' \in Services
    <2>1. t[n + 1] \in StepRecords
        BY <1>1, ElementTyped
    <2> QED
        BY <1>1, <2>1 DEF S, StepRecords
<1>3. CASE Now("call").do \in DOMAIN Removal
    <2>1. t[n + 1].do \notin Gives
        BY <1>1, <1>3, LastMade
    <2> QED
        BY <1>1, <1>2, <2>1 DEF Gives, Uses
<1>4. CASE Now("call").do \notin DOMAIN Removal
    <2>1. t[n].do \in {Now("call").do, "await", "store"}
        BY <1>4, LastMade DEF Progress
    <2>2. next.do = "deploy" => Now("call").do = "env"
        BY <1>1, <2>1 DEF Follows
    <2>3. ASSUME next.do = "save", Now("call").do # "container"
          PROVE  box[P][S'] = NoBox
        <3>1. S' = "realtime" \/ (S' \in Routed /\ mode # "docker")
            BY <1>1, <1>2, <2>1, <2>3 DEF Follows
        <3>2. ~(S' = "functions" \/ (S' \in Routed /\ mode = "docker"))
            BY <3>1 DEF Routed
        <3>3. P \in Projects
            BY CallTyped DEF Progress
        <3> QED
            BY <1>2, <3>2, <3>3 DEF RowsFilled
    <2> QED
        BY <1>1, <1>2, <2>2, <2>3
<1> QED
    BY <1>3, <1>4

\* The application of the call is the service's.
AppHeld ==
    Call.app # None =>
        \A i \in DOMAIN Call.todo :
            app[Call.app].of \in {<<>>, <<Call.todo[i].p, Call.todo[i].s>>}

\* A step that neither sets an environment nor runs a container.
LEMMA KeepsHeld ==
    ASSUME TypeOK, Ordered, RowsFilled, NEW n, Progress(n),
           Now("call").do \notin {"env", "container"},
           \A p \in Projects, s \in Services : box'[p][s] \in {NoBox, box[p][s]},
           caller'["call"].todo # <<>> => AppHeld'
    PROVE  Held'
<1>1. CASE caller'["call"].todo = <<>>
    BY <1>1 DEF Held, Busy
<1>2. CASE caller'["call"].todo # <<>>
    <2>1. /\ P' = P /\ S' \in Services /\ Now("call")'.do # "deploy"
          /\ Now("call")'.do = "save" => box[P][S'] = NoBox
        BY <1>2, HeldNext
    <2>2. P \in Projects
        BY CallTyped DEF Progress
    <2>3. Now("call")'.do = "save" => box'[P'][S'] = NoBox
        BY <2>1, <2>2
    <2> QED
        BY <1>2, <2>1, <2>3 DEF Held, AppHeld
<1> QED
    BY <1>1, <1>2

\* The application in hand stays the service's where applications only go away.
LEMMA AppKept ==
    ASSUME TypeOK, Ordered, Held, NEW n, Progress(n), SameApp,
           \A u \in Uuids : app'[u].of \in {<<>>, app[u].of}, caller'["call"].todo # <<>>
    PROVE  AppHeld'
<1> DEFINE t == Call.todo
           u == caller'["call"].todo
<1>1. \A i \in DOMAIN u : i + n \in DOMAIN t /\ u[i] = t[i + n]
    BY Progresses
<1>2. Call.app \in Uuids \cup {None} /\ Busy("call")
    BY CallTyped DEF Progress
<1>3. caller'["call"].app = Call.app
    BY DEF SameApp
<1> QED
    BY <1>1, <1>2, <1>3 DEF AppHeld, Held, Call

\* Which plain requests change the application in hand, its environment or its service.
LEMMA PlainApps ==
    ASSUME TypeOK, Ordered, Plainly
    PROVE  /\ ~findAppByName /\ ~createDockerImageApp /\ ~AwaitListed => SameApp
           /\ ~createDockerImageApp => \A u \in Uuids : app'[u].of = app[u].of
           /\ ~createDockerImageApp /\ ~setEnv => \A u \in Uuids : app'[u].env = app[u].env
           /\ ~createDockerImageApp /\ ~setEnv /\ ~deployApp => \A u \in Uuids : Keeps(u)
           /\ ~deployApp => orphans' = orphans
<1> USE DEF Framed, AppFrame, outside, ghosts
<1>1. ASSUME ~findAppByName, ~createDockerImageApp, ~AwaitListed
      PROVE  SameApp
    <2>1. Busy("call") /\ Call \in Locals(minted) /\ {1, 2, 3} \subseteq Nat \ {0} /\ Removal.remove = 3
        BY Plain, CallTyped DEF Removal
    <2>2. \E n \in Nat \ {0} : Resumes("call", Call, Skip("call", n))
        <3>1. CASE destroyApp
            <4>1. \/ Resumes("call", Call, Skip("call", 1)) \/ Resumes("call", Call, Skip("call", 2))
                  \/ Resumes("call", Call, Skip("call", 3))
                BY <2>1, <3>1 DEF destroyApp, Proceeds
            <4> QED
                BY <2>1, <4>1
        <3>2. CASE ~destroyApp
            <4>1. Proceeds("call", Call)
                BY <1>1, <3>2 DEF Plainly, RegisterProject, AllowKey, Save, Clear, RemoveKey,
                   RemoveBucket, setEnv, deployApp, waitAppGone, ensureHostDns, destroyHostDns,
                   RegisterTenant, DeregisterTenant, RunContainer, RemoveContainer
            <4> QED
                BY <2>1, <4>1 DEF Proceeds
        <3> QED
            BY <3>1, <3>2
    <2> QED
        BY <2>1, <2>2, CallResumes DEF SameApp
<1>2. app \in [Uuids -> Apps]
    BY Typed DEF AppTyped, Apps
<1>3. ~deployApp => orphans' = orphans
    BY DEF Plainly, RegisterProject, AllowKey, Save, Clear, RemoveKey, RemoveBucket, findAppByName,
       createDockerImageApp, AwaitListed, setEnv, destroyApp, waitAppGone, ensureHostDns,
       destroyHostDns, RegisterTenant, DeregisterTenant, RunContainer, RemoveContainer
<1>4. CASE setEnv
    <2>1. /\ Call.app \in Uuids
          /\ app' = [app EXCEPT ![Call.app] = [app[Call.app] EXCEPT !.env = <<Call.secret, Call.key>>]]
        BY <1>4 DEF Plainly, setEnv, Takes, Sets
    <2>2. \A u \in Uuids : app'[u].of = app[u].of
        BY <1>2, <2>1 DEF Apps
    <2>3. ~createDockerImageApp /\ ~findAppByName /\ ~AwaitListed
        BY <1>4 DEF setEnv, createDockerImageApp, findAppByName, AwaitListed, Does
    <2> QED
        BY <1>1, <1>3, <1>4, <2>2, <2>3
<1>5. CASE deployApp
    <2>1. /\ Call.app \in Uuids
          /\ app' = [app EXCEPT ![Call.app] = Deployed(app[Call.app])]
        BY <1>5 DEF deployApp, Takes, Sets
    <2>2. \A u \in Uuids : app'[u].of = app[u].of /\ app'[u].env = app[u].env
        BY <1>2, <2>1 DEF Apps, Deployed
    <2>3. ~createDockerImageApp /\ ~findAppByName /\ ~AwaitListed
        BY <1>5 DEF deployApp, createDockerImageApp, findAppByName, AwaitListed, Does
    <2> QED
        BY <1>1, <1>3, <1>5, <2>2, <2>3
<1>6. CASE destroyApp
    <2>1. \/ app' = app
          \/ \E u \in Uuids : app' = [app EXCEPT ![u] = [app[u] EXCEPT !.deleting = TRUE, !.run = <<>>]]
        BY <1>6 DEF destroyApp, Sets, Listed, Named
    <2>2. \A u \in Uuids : /\ app'[u].of = app[u].of /\ app'[u].env = app[u].env
                           /\ app'[u].run # <<>> => app'[u].run = app[u].run
        <3>1. CASE app' = app
            BY <3>1
        <3>2. ASSUME NEW v \in Uuids,
                     app' = [app EXCEPT ![v] = [app[v] EXCEPT !.deleting = TRUE, !.run = <<>>]]
              PROVE  \A u \in Uuids : /\ app'[u].of = app[u].of /\ app'[u].env = app[u].env
                                      /\ app'[u].run # <<>> => app'[u].run = app[u].run
            BY <1>2, <3>2 DEF Apps
        <3> QED
            BY <2>1, <3>1, <3>2
    <2>3. ~createDockerImageApp /\ ~findAppByName /\ ~AwaitListed /\ ~deployApp
        BY <1>6 DEF destroyApp, createDockerImageApp, findAppByName, AwaitListed, deployApp, Does
    <2>4. \A u \in Uuids : Keeps(u)
        BY <1>3, <2>2, <2>3 DEF Keeps
    <2> QED
        BY <1>1, <1>3, <2>2, <2>3, <2>4
<1>7. CASE ~createDockerImageApp /\ ~setEnv /\ ~deployApp /\ ~destroyApp
    <2>1. app' = app
        BY <1>7 DEF Plainly, RegisterProject, AllowKey, Save, Clear, RemoveKey, RemoveBucket,
           findAppByName, AwaitListed, waitAppGone, ensureHostDns, destroyHostDns,
           RegisterTenant, DeregisterTenant, RunContainer, RemoveContainer
    <2>2. \A u \in Uuids : Keeps(u)
        BY <1>3, <1>7, <2>1 DEF Keeps
    <2> QED
        BY <1>1, <1>3, <2>1, <2>2
<1> QED
    BY <1>3, <1>4, <1>5, <1>6, <1>7

\* The special requests leave applications and containers as they are.
LEMMA SpecialApps ==
    ASSUME TypeOK, Specially, Busy("call")
    PROVE  /\ \E n : Progress(n)
           /\ SameApp /\ app' = app /\ box' = box
           /\ Now("call").do \notin {"env", "container"}
<1>1. SameApp /\ (\E n : Progress(n)) /\ Now("call").do \notin {"env", "container"}
    BY Special DEF Specially
<1>2. app' = app /\ box' = box
    BY DEF Specially, prepareAuth, ReadSecret, CreateBucket, MintKey, StoreKey, Forget, outside
<1> QED
    BY <1>1, <1>2

\* What a call knows of the application in hand stays true.
LEMMA HeldStep ==
    ASSUME TypeOK, Ordered, Informed, RowsFilled, Held, [Next]_vars
    PROVE  Held'
<1> DEFINE t == Call.todo
           u == caller'["call"].todo
<1>1. CASE u = <<>>
    BY <1>1 DEF Held, Busy
<1>2. CASE Quietly
    <2>1. /\ UNCHANGED <<row, box>>
          /\ \A v \in Uuids : /\ app'[v].of \in {<<>>, app[v].of}
                              /\ app'[v].of # <<>> => app'[v].env = app[v].env
        BY <1>2, Quiet DEF Keeps
    <2>2. CASE caller'["call"] = caller["call"]
        <3>1. Busy("call") => Call.app \in Uuids \cup {None}
            BY CallTyped
        <3> QED
            BY <2>1, <2>2, <3>1 DEF Held, Busy, Now, P, S, Call, Credentials
    <2>3. CASE Begins /\ u # <<>>
        <3>1. Now("call")' = u[1]
            BY <2>3 DEF Begins, Starts, Now
        <3> QED
            BY <2>3, <3>1 DEF Begins, Starts, Held, Call
    <2>4. ASSUME NEW n, Progress(n), Now("call").do \in Soft,
                 u # <<>> => caller'["call"].app = Call.app
          PROVE  Held'
        <3>1. Now("call").do \notin {"env", "container"}
            BY <2>4 DEF Soft, Removal
        <3>2. u # <<>> => AppHeld'
            BY <2>1, <2>4, AppKept DEF SameApp
        <3> QED
            BY <2>1, <2>4, <3>1, <3>2, KeepsHeld
    <2> QED
        BY <1>1, <1>2, <2>2, <2>3, <2>4, Quiet
<1>3. CASE Specially /\ Busy("call")
    <2>1. PICK n : Progress(n)
        BY <1>3, SpecialApps
    <2>2. u # <<>> => AppHeld'
        BY <1>3, <2>1, SpecialApps, AppKept
    <2> QED
        BY <1>3, <2>1, <2>2, SpecialApps, KeepsHeld
<1>4. ASSUME Busy("call")
      PROVE  /\ \A i \in DOMAIN t : t[i].p = P
             /\ t[1] = Now("call") /\ 1 \in DOMAIN t /\ InOrder(t)
             /\ P \in Projects /\ S \in Services /\ Call \in Locals(minted)
    BY <1>4, KnowsNow, CallTyped DEF Ordered
<1>5. CASE findAppByName \/ AwaitListed \/ createDockerImageApp
    <2>1. Busy("call") /\ Now("call").do \in {"find", "create", "await"}
        BY <1>5 DEF findAppByName, AwaitListed, createDockerImageApp, Does
    <2>2. CASE Throws("call")
        BY <1>2, <2>1, <2>2 DEF Quietly
    <2>3. CASE ~Throws("call") /\ u # <<>>
        <3>1. Plainly
            BY <1>5, <2>3 DEF Plainly
        <3>2. PICK n : Progress(n)
            BY <3>1, Plain
        <3>3. \A i \in DOMAIN u : u[i].p = P /\ u[i].s = S
            <4>1. \A i \in DOMAIN t : t[i].s = S
                BY <1>4, <2>1 DEF InOrder, S
            <4> QED
                BY <1>4, <2>1, <3>2, <4>1, Progresses
        <3>4. \/ SameApp /\ \A v \in Uuids : app'[v].of = app[v].of
              \/ caller'["call"].app = None
              \/ caller'["call"].app \in Uuids /\ app'[caller'["call"].app].of = <<P, S>>
            <4>1. app \in [Uuids -> Apps]
                BY Typed DEF AppTyped, Apps
            <4>2. 1 \in Nat \ {0} /\ 2 \in Nat \ {0}
                OBVIOUS
            <4>3. \A v \in Uuids \cup {None} : /\ [Call EXCEPT !.app = v] \in Locals(minted)
                                               /\ [Call EXCEPT !.app = v].app = v
                BY <1>4, <2>1 DEF Locals
            <4>4. ASSUME NEW v \in Uuids \cup {None}, Proceeds("call", [Call EXCEPT !.app = v])
                  PROVE  caller'["call"].app = v
                <5> DEFINE l == [Call EXCEPT !.app = v]
                <5>1. l \in Locals(minted) /\ l.app = v
                    BY <4>3
                <5>2. Resumes("call", l, Skip("call", 1))
                    BY <4>4 DEF Proceeds
                <5> HIDE DEF l
                <5> QED
                    BY <2>1, <2>3, <4>2, <5>1, <5>2, CallResumes
            <4>5. ASSUME NEW m \in Nat \ {0}, Resumes("call", Call, Skip("call", m))
                  PROVE  SameApp
                BY <1>4, <2>1, <4>5, CallResumes DEF SameApp
            <4>6. \A v \in Listed(P, S) : v \in Uuids /\ app[v].of = <<P, S>>
                BY DEF Listed, Named
            <4>7. CASE findAppByName
                BY <4>4, <4>6, <4>7 DEF findAppByName
            <4>8. CASE AwaitListed
                <5>1. CASE Proceeds("call", Call)
                    BY <4>2, <4>5, <4>8, <5>1 DEF AwaitListed, Proceeds, outside
                <5>2. CASE ~Proceeds("call", Call)
                    BY <4>4, <4>6, <4>8, <5>2 DEF AwaitListed
                <5> QED
                    BY <5>1, <5>2
            <4>9. CASE createDockerImageApp
                <5>1. CASE Call.app = None
                    <6>1. PICK v \in Free : /\ Sets(v, [NoApp EXCEPT !.of = <<P, S>>, !.shape = shape])
                                            /\ Proceeds("call", [Call EXCEPT !.app = v])
                        BY <2>3, <4>9, <5>1, Bounds DEF createDockerImageApp, Takes
                    <6>2. v \in Uuids /\ app'[v].of = <<P, S>>
                        BY <4>1, <6>1 DEF Free, Sets, NoApp
                    <6> QED
                        BY <4>4, <6>1, <6>2
                <5>2. CASE Call.app # None
                    <6>1. /\ Takes(Call.app) /\ Resumes("call", Call, Skip("call", 2))
                          /\ Sets(Call.app, [app[Call.app] EXCEPT !.shape = shape])
                        BY <2>3, <4>9, <5>2 DEF createDockerImageApp
                    <6>2. \A v \in Uuids : app'[v].of = app[v].of
                        BY <4>1, <6>1 DEF Sets, Apps, Takes
                    <6> QED
                        BY <4>2, <4>5, <6>1, <6>2
                <5> QED
                    BY <5>1, <5>2
            <4> QED
                BY <1>5, <4>7, <4>8, <4>9
        <3>5. AppHeld'
            <4>1. CASE SameApp /\ \A v \in Uuids : app'[v].of = app[v].of
                BY <2>3, <3>2, <4>1, AppKept
            <4>2. CASE caller'["call"].app = None
                BY <4>2 DEF AppHeld, Call
            <4>3. CASE caller'["call"].app \in Uuids /\ app'[caller'["call"].app].of = <<P, S>>
                BY <3>3, <4>3 DEF AppHeld, Call
            <4> QED
                BY <3>4, <4>1, <4>2, <4>3
        <3>6. box' = box
            BY <1>5, <2>3 DEF findAppByName, AwaitListed, createDockerImageApp, AppFrame, outside
        <3> QED
            BY <2>1, <3>2, <3>5, <3>6, KeepsHeld
    <2> QED
        BY <1>1, <2>2, <2>3
<1>6. CASE Plainly /\ ~findAppByName /\ ~AwaitListed /\ ~createDockerImageApp
    <2>1. PICK n : Progress(n)
        BY <1>6, Plain
    <2>2. SameApp /\ \A v \in Uuids : app'[v].of = app[v].of
        BY <1>6, PlainApps
    <2>3. u # <<>> => AppHeld'
        BY <2>1, <2>2, AppKept
    <2>4. CASE setEnv
        <3>1. Busy("call") /\ Now("call").do = "env" /\ box' = box /\ Takes(Call.app)
              /\ Sets(Call.app, [app[Call.app] EXCEPT !.env = <<Call.secret, Call.key>>])
            BY <1>6, <2>4 DEF setEnv, Plainly, Does, AppFrame
        <3>2. app'[Call.app].env = <<Call.secret, Call.key>>
            BY <3>1, Typed DEF Sets, Takes, AppTyped
        <3>3. CASE u # <<>>
            <4>1. /\ P' = P /\ S' \in Services
                  /\ Now("call")'.do = "save" => box[P][S'] = NoBox
                BY <2>1, <3>1, <3>3, HeldNext
            <4>2. /\ caller'["call"].app = Call.app
                  /\ caller'["call"].secret = Call.secret /\ caller'["call"].key = Call.key
                BY <1>6, <2>2, <3>3, Plain DEF SameApp, InHand
            <4> QED
                BY <2>3, <3>1, <3>2, <3>3, <4>1, <4>2 DEF Held, AppHeld, Call
        <3> QED
            BY <1>1, <3>3
    <2>5. CASE RunContainer
        <3>1. /\ Busy("call") /\ Now("call").do = "container" /\ row' = row
              /\ box' = [box EXCEPT ![P][S] = <<Call.secret, Call.key>>]
            BY <1>6, <2>5 DEF RunContainer, Plainly, Does
        <3>2. <<Call.secret, Call.key>> = Credentials(P, S)
            BY <3>1, KnowsNow DEF Uses, Known
        <3>3. box'[P][S] = Credentials(P, S)
            BY <1>4, <3>1, <3>2, Typed DEF PlacesTyped
        <3>4. CASE u # <<>>
            <4>1. P' = P /\ Now("call")'.do # "deploy"
                BY <2>1, <3>1, <3>4, HeldNext
            <4>2. S' = S
                <5>1. Now("call")' = t[n + 1] /\ n + 1 \in DOMAIN t
                    BY <2>1, <3>4, Progresses
                <5>2. \A i \in DOMAIN t : t[i].s = S
                    BY <1>4, <3>1 DEF InOrder, Uses, S
                <5> QED
                    BY <5>1, <5>2 DEF S
            <4>3. Credentials(P, S) = <<row'[P].secret, IF S = "storage" THEN row'[P].key ELSE None>>
                BY <3>1 DEF Credentials
            <4> QED
                BY <2>3, <3>3, <3>4, <4>1, <4>2, <4>3 DEF Held, AppHeld, Credentials
        <3> QED
            BY <1>1, <3>4
    <2>6. CASE ~setEnv /\ ~RunContainer
        <3>1. Now("call").do \notin {"env", "container"}
            <4>1. CASE RegisterProject \/ AllowKey \/ Save \/ Clear \/ RemoveKey \/ RemoveBucket
                BY <4>1 DEF RegisterProject, AllowKey, Save, Clear, RemoveKey, RemoveBucket, Does
            <4>2. CASE deployApp \/ destroyApp \/ waitAppGone
                BY <4>2 DEF deployApp, destroyApp, waitAppGone, Does
            <4>3. CASE \/ ensureHostDns \/ destroyHostDns \/ RegisterTenant \/ DeregisterTenant
                       \/ RemoveContainer
                BY <4>3 DEF ensureHostDns, destroyHostDns, RegisterTenant, DeregisterTenant,
                   RemoveContainer, Does
            <4> QED
                BY <1>6, <2>6, <4>1, <4>2, <4>3 DEF Plainly
        <3>2. \A p \in Projects, s \in Services : box'[p][s] \in {NoBox, box[p][s]}
            <4>1. CASE Save
                BY <4>1 DEF Save, outside
            <4>2. CASE ~Save
                BY <1>6, <2>6, <4>2, PlainLessens DEF Lessens
            <4> QED
                BY <4>1, <4>2
        <3> QED
            BY <2>1, <2>3, <3>1, <3>2, KeepsHeld
    <2> QED
        BY <2>4, <2>5, <2>6
<1> QED
    BY <1>2, <1>3, <1>5, <1>6, Kinds

\* What a project's services have is kept, or comes to be had.
Grows ==
    \A p \in Projects, s \in Services :
        Ready(p, s) => ReadyNext(p, s) /\ CredentialsNext(p, s) = Credentials(p, s)

\* What an application of a service may hold after the step.
GivenNext(u) ==
    \A p \in Projects, s \in Routed : app'[u].of = <<p, s>> =>
        LET known == {<<None, None>>}
                     \cup (IF ReadyNext(p, s) THEN {CredentialsNext(p, s)} ELSE {})
        IN  app'[u].env \in known /\ (app'[u].run # <<>> => app'[u].run[1] \in known)

\* An application that is kept has what it was given still.
LEMMA GivenKept ==
    ASSUME NEW u \in Uuids, Given(u) \/ app'[u].of = <<>>, Keeps(u), Grows
    PROVE  GivenNext(u)
<1> SUFFICES ASSUME NEW p \in Projects, NEW s \in Routed, app'[u].of = <<p, s>>
             PROVE  LET known == {<<None, None>>}
                                 \cup (IF ReadyNext(p, s) THEN {CredentialsNext(p, s)} ELSE {})
                    IN  app'[u].env \in known /\ (app'[u].run # <<>> => app'[u].run[1] \in known)
    BY DEF GivenNext
<1>1. app'[u].of # <<>>
    OBVIOUS
<1>2. /\ app[u].of = <<p, s>> /\ app'[u].env = app[u].env
      /\ app'[u].run # <<>> => \/ app'[u].run[1] = app[u].env
                               \/ app[u].run # <<>> /\ app'[u].run[1] = app[u].run[1]
    BY <1>1 DEF Keeps
<1>3. LET known == {<<None, None>>} \cup (IF Ready(p, s) THEN {Credentials(p, s)} ELSE {})
      IN  app[u].env \in known /\ (app[u].run # <<>> => app[u].run[1] \in known)
    BY <1>1, <1>2 DEF Given
<1>4. Ready(p, s) => ReadyNext(p, s) /\ CredentialsNext(p, s) = Credentials(p, s)
    BY DEF Grows, Services
<1> QED
    BY <1>2, <1>3, <1>4

\* Where rows are kept, they hold what they held.
LEMMA RowsGrow ==
    ASSUME RowsKept
    PROVE  Grows
BY DEF RowsKept, Grows, Ready, ReadyNext, Credentials, CredentialsNext

\* What applications were given stays true over every step.
LEMMA GivenStep ==
    ASSUME TypeOK, Ordered, Informed, KeyUnderWay, Held, \A u \in Uuids \ orphans : Given(u),
           [Next]_vars
    PROVE  \A u \in Uuids \ orphans' : GivenNext(u)
<1> SUFFICES ASSUME NEW u \in Uuids, u \notin orphans'
             PROVE  GivenNext(u)
    OBVIOUS
<1>1. app \in [Uuids -> Apps]
    BY Typed DEF AppTyped, Apps
<1>2. CASE Quietly
    <2>1. Keeps(u) /\ row' = row
        BY <1>2, Quiet
    <2>2. RowsKept /\ (u \notin orphans \/ app'[u].of = <<>>)
        BY <2>1 DEF Keeps, RowsKept
    <2> QED
        BY <2>1, <2>2, RowsGrow, GivenKept
<1>3. CASE Specially /\ Busy("call") /\ ~Forget
    <2>1. app' = app /\ orphans' = orphans
        BY <1>3 DEF Specially, prepareAuth, ReadSecret, CreateBucket, MintKey, StoreKey, outside,
           Framed, ghosts
    <2>2. Grows
        <3>1. P \in Projects
            BY <1>3, CallTyped
        <3>2. CASE row' = row
            BY <3>2 DEF Grows, Ready, ReadyNext, Credentials, CredentialsNext
        <3>3. CASE StoreKey
            <4>1. row[P].key = None
                BY <1>3, <3>3, Special DEF KeyUnderWay
            <4>2. \A p \in Projects : /\ row'[p].secret = row[p].secret
                                      /\ p # P => row'[p].key = row[p].key
                BY <3>1, <3>3, Typed DEF StoreKey, RowTyped
            <4> QED
                BY <4>1, <4>2 DEF Grows, Ready, ReadyNext, Credentials, CredentialsNext
        <3>4. CASE row[P].secret = None /\ row' = [row EXCEPT ![P].secret = secrets']
            <4>1. \A p \in Projects : /\ row'[p].key = row[p].key
                                      /\ p # P => row'[p].secret = row[p].secret
                BY <3>1, <3>4, Typed DEF RowTyped
            <4> QED
                BY <3>4, <4>1 DEF Grows, Ready, ReadyNext, Credentials, CredentialsNext
        <3> QED
            BY <1>3, <3>2, <3>3, <3>4 DEF Specially, prepareAuth, ReadSecret, CreateBucket, MintKey
    <2>3. Keeps(u)
        BY <2>1 DEF Keeps
    <2> QED
        BY <2>1, <2>2, <2>3, GivenKept
<1>4. CASE Forget /\ Busy("call")
    <2>1. /\ row' = [row EXCEPT ![P] = NoRow] /\ app' = app
          /\ orphans' = orphans \cup {v \in Uuids : \E s \in Routed : app[v].of = <<P, s>>}
        BY <1>4 DEF Forget, outside
    <2>2. \A p \in Projects : p # P => row'[p] = row[p]
        BY <1>4, <2>1, CallTyped, Typed DEF RowTyped
    <2>3. Given(u) /\ \A s \in Routed : app[u].of # <<P, s>>
        BY <2>1
    <2>4. ASSUME NEW p \in Projects, NEW s \in Routed, app'[u].of = <<p, s>>
          PROVE  p # P /\ ReadyNext(p, s) = Ready(p, s) /\ CredentialsNext(p, s) = Credentials(p, s)
        BY <2>1, <2>2, <2>3, <2>4 DEF ReadyNext, Ready, CredentialsNext, Credentials
    <2> QED
        BY <2>1, <2>3, <2>4 DEF Given, GivenNext
<1>5. CASE Plainly /\ ~createDockerImageApp /\ ~setEnv /\ ~deployApp
    <2>1. Keeps(u) /\ RowsKept /\ u \notin orphans
        BY <1>5, PlainApps, PlainRows
    <2> QED
        BY <2>1, RowsGrow, GivenKept
<1>6. CASE Plainly /\ createDockerImageApp
    <2>1. row' = row /\ orphans' = orphans /\ Busy("call")
        BY <1>6 DEF Plainly, createDockerImageApp, AppFrame, Framed, ghosts, Does
    <2>2. RowsKept
        BY <2>1 DEF RowsKept
    <2>3. CASE Keeps(u)
        BY <2>1, <2>2, <2>3, RowsGrow, GivenKept
    <2>4. CASE Call.app = None
        <3>1. PICK v \in Free : Sets(v, [NoApp EXCEPT !.of = <<P, S>>, !.shape = shape])
            BY <1>6, <2>4, Bounds DEF Plainly, createDockerImageApp, Takes
        <3>2. CASE u = v
            <4>1. app'[u].env = <<None, None>> /\ app'[u].run = <<>>
                BY <1>1, <3>1, <3>2 DEF Sets, NoApp
            <4> QED
                BY <4>1 DEF GivenNext
        <3>3. CASE u # v
            BY <1>1, <2>1, <2>3, <3>1, <3>3 DEF Sets, Keeps
        <3> QED
            BY <3>2, <3>3
    <2>5. CASE Call.app # None
        <3>1. Takes(Call.app) /\ Sets(Call.app, [app[Call.app] EXCEPT !.shape = shape])
            BY <1>6, <2>5 DEF Plainly, createDockerImageApp
        <3>2. Keeps(u)
            BY <1>1, <2>1, <3>1 DEF Sets, Keeps, Apps, Takes
        <3> QED
            BY <2>3, <3>2
    <2> QED
        BY <2>4, <2>5
<1>7. ASSUME Busy("call"), Now("call").do \in {"env", "deploy"}, Takes(Call.app)
      PROVE  /\ Known(P, S) /\ P \in Projects /\ S \in Services /\ Call.app \in Uuids
             /\ app[Call.app].of = <<P, S>>
    <2>1. Known(P, S) /\ Now("call") = Call.todo[1] /\ 1 \in DOMAIN Call.todo
        BY <1>7, KnowsNow DEF Uses
    <2>2. Call.app \in Uuids /\ Call.app # None /\ app[Call.app].of # <<>>
        BY <1>7, Typed, Bounds DEF Takes, AppTyped
    <2>3. app[Call.app].of = <<P, S>>
        BY <1>7, <2>1, <2>2 DEF Held, P, S
    <2> QED
        BY <1>7, <2>1, <2>2, <2>3, CallTyped
<1>8. CASE Plainly /\ setEnv
    <2>1. /\ Busy("call") /\ Now("call").do = "env" /\ Takes(Call.app) /\ row' = row
          /\ orphans' = orphans
          /\ Sets(Call.app, [app[Call.app] EXCEPT !.env = <<Call.secret, Call.key>>])
        BY <1>8 DEF Plainly, setEnv, Does, AppFrame, Framed, ghosts
    <2>2. RowsKept
        BY <2>1 DEF RowsKept
    <2>3. CASE u # Call.app
        <3>1. Keeps(u)
            BY <1>1, <2>1, <2>3 DEF Sets, Keeps
        <3> QED
            BY <2>1, <2>2, <3>1, RowsGrow, GivenKept
    <2>4. CASE u = Call.app
        <3>1. /\ app'[u].env = Credentials(P, S) /\ app'[u].run = app[u].run
              /\ app'[u].of = <<P, S>> /\ app[u].of = <<P, S>> /\ Ready(P, S)
            BY <1>1, <1>7, <2>1, <2>4 DEF Sets, Apps, Known
        <3>2. Given(u) /\ ReadyNext(P, S) /\ CredentialsNext(P, S) = Credentials(P, S)
            BY <2>1, <3>1 DEF ReadyNext, Ready, CredentialsNext, Credentials
        <3> SUFFICES ASSUME NEW p \in Projects, NEW s \in Routed, app'[u].of = <<p, s>>
                     PROVE  LET known == {<<None, None>>}
                                         \cup (IF ReadyNext(p, s) THEN {CredentialsNext(p, s)} ELSE {})
                            IN  app'[u].env \in known /\ (app'[u].run # <<>> => app'[u].run[1] \in known)
            BY DEF GivenNext
        <3>3. p = P /\ s = S
            BY <3>1
        <3> QED
            BY <3>1, <3>2, <3>3 DEF Given
    <2> QED
        BY <2>3, <2>4
<1>9. CASE deployApp
    <2>1. /\ Busy("call") /\ Now("call").do = "deploy" /\ Takes(Call.app) /\ row' = row
          /\ orphans' = orphans \ {Call.app}
          /\ Sets(Call.app, Deployed(app[Call.app]))
        BY <1>9 DEF deployApp, Does
    <2>2. RowsKept
        BY <2>1 DEF RowsKept
    <2>3. CASE u # Call.app
        <3>1. Keeps(u) /\ u \notin orphans
            BY <1>1, <2>1, <2>3 DEF Sets, Keeps
        <3> QED
            BY <2>2, <3>1, RowsGrow, GivenKept
    <2>4. CASE u = Call.app
        <3>1. app[u].of = <<P, S>> /\ Known(P, S) /\ u # None
            BY <1>7, <2>1, <2>4, Bounds
        <3>2. app[u].env = <<Call.secret, Call.key>>
            BY <2>1, <2>4, <3>1 DEF Held
        <3>3. /\ app'[u].env = Credentials(P, S) /\ app'[u].run[1] = Credentials(P, S)
              /\ app'[u].of = <<P, S>>
            BY <1>1, <2>1, <2>4, <3>1, <3>2 DEF Sets, Apps, Known, Deployed
        <3>4. ReadyNext(P, S) /\ CredentialsNext(P, S) = Credentials(P, S)
            BY <2>1, <3>1 DEF Known, ReadyNext, Ready, CredentialsNext, Credentials
        <3> SUFFICES ASSUME NEW p \in Projects, NEW s \in Routed, app'[u].of = <<p, s>>
                     PROVE  LET known == {<<None, None>>}
                                         \cup (IF ReadyNext(p, s) THEN {CredentialsNext(p, s)} ELSE {})
                            IN  app'[u].env \in known /\ (app'[u].run # <<>> => app'[u].run[1] \in known)
            BY DEF GivenNext
        <3>5. p = P /\ s = S
            BY <3>3
        <3> QED
            BY <3>3, <3>4, <3>5
    <2> QED
        BY <2>3, <2>4
<1> QED
    BY <1>2, <1>3, <1>4, <1>5, <1>6, <1>8, <1>9, Kinds

-----------------------------------------------------------------------------
(* 7. The theorems.                                                        *)

\* The invariant holds initially.
LEMMA InitServices ==
    ASSUME Init
    PROVE  ServicesInv
<1>1. /\ Call.todo = <<>> /\ ~Busy("call") /\ orphans = {}
      /\ \A p \in Projects : row[p] = NoRow
      /\ \A p \in Projects, s \in Services : box[p][s] = NoBox
      /\ \A u \in Uuids : app[u] = NoApp
    BY ValuesTyped DEF Init, Call, Busy
<1>2. NoRow.key = None /\ NoRow.secret = None /\ NoRow.url = {} /\ NoApp.of = <<>>
    BY DEF NoRow, NoApp
<1>3. Informed /\ KeyUnderWay /\ Held
    BY <1>1 DEF Informed, KeyUnderWay, Held
<1>4. KeysOwned /\ RowsFilled /\ ContainersAgree /\ StoredKeyWorks
    BY <1>1, <1>2 DEF KeysOwned, RowsFilled, ContainersAgree, StoredKeyWorks
<1>5. \A u \in Uuids : Given(u)
    BY <1>1, <1>2 DEF Given
<1> QED
    BY <1>3, <1>4, <1>5, InitTyped DEF ServicesInv

\* The invariant is kept by every step.
LEMMA ServicesStep ==
    ASSUME ServicesInv, [Next]_vars
    PROVE  ServicesInv'
<1> USE DEF ServicesInv
<1>1. TypeOK' /\ Ordered'
    BY TypeStep, OrderStep
<1>2. Informed' /\ KeyUnderWay' /\ Held' /\ KeysOwned'
    BY InformedStep, KeyUnderWayStep, HeldStep, KeysOwnedStep
<1>3. RowsFilled' /\ ContainersAgree'
    BY RowsStep
<1>4. (LabelsDiffer => StoredKeyWorks)'
    BY StoredKeyStep DEF LabelsDiffer
<1>5. \A u \in Uuids \ orphans' : Given(u)'
    BY GivenStep DEF GivenNext, Given, ReadyNext, Ready, CredentialsNext, Credentials
<1> QED
    BY <1>1, <1>2, <1>3, <1>4, <1>5

\* By each of its steps a call has read what it uses, and its application or
\* container holds it.
THEOREM ServicesInvariant == Spec => []ServicesInv
<1> QED
    BY InitServices, ServicesStep, PTL DEF Spec

\* A container of an advertised service runs with the secret and the key of the
\* row, whatever died or failed before.
THEOREM ContainersHold == Spec => []ContainersAgree
<1>1. ServicesInv => ContainersAgree
    BY DEF ServicesInv
<1> QED
    BY <1>1, ServicesInvariant, PTL

\* So does every application that was given an environment, unless it outlived
\* an earlier project of the name and has not been deployed since.
THEOREM ApplicationsHold == Spec => []ApplicationsAgree
<1>1. ServicesInv => ApplicationsAgree
    BY DEF ServicesInv, ApplicationsAgree, Given
<1> QED
    BY <1>1, ServicesInvariant, PTL

\* Where no two names share a host label, the key in a row opens the project's
\* bucket until destroyProject removes it, whatever step died or failed.
THEOREM StoredKeyHolds ==
    ASSUME LabelsDiffer
    PROVE  Spec => []StoredKeyWorks
<1>1. ServicesInv => StoredKeyWorks
    BY DEF ServicesInv
<1> QED
    BY <1>1, ServicesInvariant, PTL

\* And it opens no other project's bucket.
THEOREM OwnBucketHolds ==
    ASSUME LabelsDiffer
    PROVE  Spec => []OwnBucket
<1>1. ServicesInv => OwnBucket
    BY DEF ServicesInv, OwnBucket, KeysOwned, LabelsDiffer
<1> QED
    BY <1>1, ServicesInvariant, PTL

=============================================================================
