---------------------------- MODULE SettledProofs ----------------------------
(***************************************************************************)
(* Proofs about what the calls and the sweeps of Services come to where no  *)
(* call has failed: a service has one application at most, which runs on    *)
(* its routes, and a sweep that has ended has skipped none; what a row      *)
(* advertises is there, what it does not is not, and a project that is      *)
(* forgotten has left nothing behind.                                       *)
(*                                                                         *)
(* Sections 1 and 2 show that programs set out in their course and that     *)
(* what is left of one stays in it.  Section 3 states the invariant for one *)
(* service; section 4 keeps it over the requests of a call, section 5 over  *)
(* the other steps; section 6 has the theorems about sweeps.                *)
(*                                                                         *)
(* Sections 7 to 13 relate each place to what is left of the call.  Section *)
(* 7 shows in which turn the steps of every program come, section 8 states  *)
(* the invariant, section 9 what one step leaves of the turns.  Section 10  *)
(* keeps each part of the invariant over a step with given effects, section *)
(* 11 shows that the requests have these effects, section 12 puts both      *)
(* together for the project of the call, for the others and for the steps   *)
(* that are no request; section 13 has the theorems.                        *)
(***************************************************************************)
EXTENDS ServicesProofs

-----------------------------------------------------------------------------
(* The invariant of SweepHeals: how many applications a name has, and on    *)
(* which routes they are.                                                   *)

\* From an application's creation to its deploy, and from its removal to the
\* wait for it, one step follows the other; the row is forgotten last.
InCourse(t) ==
    \A i \in DOMAIN t :
        /\ t[i].do = "create" => /\ i + 2 \in DOMAIN t /\ t[i + 2].do = "env" /\ mode # "docker"
                                 /\ i > 1 => t[i - 1].do = "find"
        /\ t[i].do = "env" => i + 1 \in DOMAIN t /\ t[i + 1].do = "deploy"
        /\ t[i].do = "remove" =>
              i + 1 \in DOMAIN t /\ t[i + 1] = [do |-> "gone", p |-> t[i].p, s |-> t[i].s]
        /\ t[i].do = "forget" => i = Len(t) /\ t[i].s = "auth"

\* The steps of a sweep come in threes.
InThrees(t) ==
    \A i \in DOMAIN t :
        /\ t[i].do = "look" =>
              /\ i + 2 \in DOMAIN t
              /\ t[i + 1] = [do |-> "patch", p |-> t[i].p, s |-> t[i].s]
              /\ t[i + 2] = [do |-> "redeploy", p |-> t[i].p, s |-> t[i].s]
        /\ t[i].do = "patch" =>
              i + 1 \in DOMAIN t /\ t[i + 1] = [do |-> "redeploy", p |-> t[i].p, s |-> t[i].s]
        /\ i > 1 => /\ t[i].do = "patch" => t[i - 1].do = "look"
                    /\ t[i].do = "redeploy" => t[i - 1].do = "patch"

Has(t, do, p, s) == \E i \in DOMAIN t : t[i] = [do |-> do, p |-> p, s |-> s]

\* What the call is about to do.
Awaits(u)     == Does("call", "await") /\ Call.app = u
Goes(p, s)    == Does("call", "gone") /\ P = p /\ S = s
Creates(p, s) == Does("call", "create") /\ Call.app = None /\ P = p /\ S = s
Deploys(u)    == (Does("call", "env") \/ Does("call", "deploy")) /\ Call.app = u

\* A service has one application at most, which is not listed, or going, only
\* while a call waits for that.  A call creates one where there is none, and a
\* project that is not there has none: all are removed before it is forgotten.
Sole(p, s) ==
    /\ \A u, v \in Named(p, s) : u = v
    /\ \A u \in Named(p, s) : /\ app[u].listed \/ (Awaits(u) /\ app[u].shape = shape)
                              /\ app[u].deleting => Goes(p, s)
    /\ Creates(p, s) \/ ~row[p].there \/ mode = "docker" => Named(p, s) = {}
    /\ Has(Call.todo, "forget", p, "auth") =>
          Named(p, s) = {} \/ Has(Call.todo, "remove", p, s) \/ Goes(p, s)

\* What the sweep has in hand is an application of the service, if it is there.
SweepHolds ==
    /\ Does("sweep", "patch") \/ Does("sweep", "redeploy") =>
          /\ Sweep.app \in Uuids
          /\ app[Sweep.app].of \in {<<>>, <<Now("sweep").p, Now("sweep").s>>}
    /\ Sweep.done => ~Busy("sweep")

\* An application runs on its routes, or is about to be deployed.
OnItsRoutes(u) ==
    app[u].run # <<>> =>
        app[u].run[2] = app[u].shape \/ Deploys(u) \/ (Does("sweep", "redeploy") /\ Sweep.app = u)

\* While a sweep goes on and after it, an application's routes are those of
\* now, or the sweep has yet to come to it.
Visited(p, s, u) ==
    Busy("sweep") \/ Sweep.done =>
        \/ app[u].shape = shape \/ Has(Sweep.todo, "look", p, s)
        \/ Does("sweep", "patch") /\ Sweep.app = u

SweepInv ==
    /\ ServicesInv /\ InCourse(Call.todo) /\ InThrees(Sweep.todo) /\ SweepHolds
    /\ \A p \in Projects \ hurt, s \in Routed : Sole(p, s)
    /\ \A p \in Projects \ (hurt \cup drift), s \in Routed : \A u \in Named(p, s) :
          OnItsRoutes(u) /\ Visited(p, s, u)

-----------------------------------------------------------------------------
(* 1. Programs in their course.                                            *)

\* The names of the steps of a program in its course, but for the last of them.
NamesInCourse(names) ==
    /\ names \in Seq(StepNames)
    /\ \A i \in 1 .. Len(names) :
          /\ names[i] = "create" => /\ i + 2 <= Len(names) /\ names[i + 2] = "env"
                                    /\ mode # "docker" /\ i > 1 /\ names[i - 1] = "find"
          /\ names[i] = "env" => i + 1 <= Len(names) /\ names[i + 1] = "deploy"
          /\ names[i] = "remove" => i + 1 <= Len(names) /\ names[i + 1] = "gone"
          /\ names[i] # "forget"

\* A program in its course, from its start.
SetsOut(t) ==
    t \in Seq(StepRecords) /\ InCourse(t) /\ (t # <<>> => t[1].do # "create")

\* Names in their course make a program that sets out in its course.
LEMMA StepsSetOut ==
    ASSUME NEW p \in Projects, NEW s \in Services, NEW names, NamesInCourse(names)
    PROVE  /\ SetsOut(Steps(p, s, names))
           /\ \A q : ~Has(Steps(p, s, names), "forget", q, "auth")
<1> DEFINE t == Steps(p, s, names)
<1>1. names \in Seq(StepNames) /\ Len(names) \in Nat
    BY DEF NamesInCourse
<1> HIDE DEF t
<1>2. t \in Seq(StepRecords) /\ Len(t) = Len(names) /\ DOMAIN t = 1 .. Len(names)
    BY <1>1, StepsTyped DEF t
<1>3. \A i \in 1 .. Len(names) : t[i] = [do |-> names[i], p |-> p, s |-> s]
    BY <1>1, StepsTyped DEF t
<1>4. \A i \in 1 .. Len(names) : t[i].do = names[i] /\ t[i].p = p /\ t[i].s = s
    <2> TAKE i \in 1 .. Len(names)
    <2>1. t[i] = [do |-> names[i], p |-> p, s |-> s]
        BY <1>3
    <2> QED
        BY <2>1
<1>5. \A i \in 1 .. Len(names) :
         /\ i + 1 <= Len(names) => i + 1 \in 1 .. Len(names)
         /\ i + 2 <= Len(names) => i + 2 \in 1 .. Len(names)
         /\ i > 1 => i - 1 \in 1 .. Len(names)
    BY <1>1
<1>6. InCourse(t)
    <2> SUFFICES ASSUME NEW i \in 1 .. Len(names)
                 PROVE  /\ t[i].do = "create" => /\ i + 2 \in DOMAIN t /\ t[i + 2].do = "env"
                                                 /\ mode # "docker"
                                                 /\ i > 1 => t[i - 1].do = "find"
                        /\ t[i].do = "env" => i + 1 \in DOMAIN t /\ t[i + 1].do = "deploy"
                        /\ t[i].do = "remove" =>
                              /\ i + 1 \in DOMAIN t
                              /\ t[i + 1] = [do |-> "gone", p |-> t[i].p, s |-> t[i].s]
                        /\ t[i].do # "forget"
        BY <1>2 DEF InCourse
    <2>1. t[i].do = names[i] /\ t[i].p = p /\ t[i].s = s
        BY <1>4
    <2>2. CASE names[i] = "create"
        BY <1>2, <1>4, <1>5, <2>1, <2>2 DEF NamesInCourse
    <2>3. CASE names[i] = "env"
        BY <1>2, <1>4, <1>5, <2>1, <2>3 DEF NamesInCourse
    <2>4. CASE names[i] = "remove"
        BY <1>2, <1>3, <1>5, <2>1, <2>4 DEF NamesInCourse
    <2>5. CASE names[i] \notin {"create", "env", "remove"}
        BY <2>1, <2>5 DEF NamesInCourse
    <2> QED
        BY <2>2, <2>3, <2>4, <2>5
<1>7. \A i \in DOMAIN t : t[i].do # "forget"
    BY <1>2, <1>4 DEF NamesInCourse
<1>8. t # <<>> => t[1].do # "create"
    <2>1. t # <<>> => 1 \in 1 .. Len(names)
        BY <1>1, <1>2
    <2> QED
        BY <1>4, <2>1 DEF NamesInCourse
<1> QED
    BY <1>2, <1>6, <1>7, <1>8 DEF SetsOut, Has, t

\* A program that turns things off, and removes the applications of the
\* services in A.
Drops(t, p, A) ==
    /\ t \in Seq(StepRecords)
    /\ \A i \in DOMAIN t :
          /\ t[i].do \in Taken \ {"forget"}
          /\ t[i].do = "remove" =>
                i + 1 \in DOMAIN t /\ t[i + 1] = [do |-> "gone", p |-> t[i].p, s |-> t[i].s]
    /\ \A s \in A : Has(t, "remove", p, s)

\* The elements of two sequences put together.
LEMMA Joined ==
    ASSUME NEW R, NEW t \in Seq(R), NEW u \in Seq(R)
    PROVE  /\ t \o u \in Seq(R) /\ Len(t \o u) = Len(t) + Len(u) /\ Len(t) \in Nat /\ Len(u) \in Nat
           /\ \A i \in 1 .. Len(t) : (t \o u)[i] = t[i]
           /\ \A i \in 1 .. Len(u) : (t \o u)[Len(t) + i] = u[i]
OBVIOUS

\* Two programs that drop services, one after the other, drop those of both.
LEMMA DropsBoth ==
    ASSUME NEW t, NEW u, NEW p, NEW A, NEW B, Drops(t, p, A), Drops(u, p, B)
    PROVE  Drops(t \o u, p, A \cup B)
<1> DEFINE w == t \o u
<1>1. /\ w \in Seq(StepRecords) /\ Len(w) = Len(t) + Len(u) /\ Len(t) \in Nat /\ Len(u) \in Nat
      /\ \A i \in 1 .. Len(t) : w[i] = t[i]
      /\ \A i \in 1 .. Len(u) : w[Len(t) + i] = u[i]
    BY Joined DEF Drops
<1>2. t \in Seq(StepRecords) /\ u \in Seq(StepRecords)
    BY DEF Drops
<1> HIDE DEF w
<1>3. DOMAIN w = 1 .. Len(w) /\ DOMAIN t = 1 .. Len(t) /\ DOMAIN u = 1 .. Len(u)
    BY <1>1, <1>2
<1>4. /\ \A i \in DOMAIN t : i \in DOMAIN w /\ w[i] = t[i]
      /\ \A i \in DOMAIN u : Len(t) + i \in DOMAIN w /\ w[Len(t) + i] = u[i]
      /\ \A i \in DOMAIN w : i \in DOMAIN t \/ \E j \in DOMAIN u : i = Len(t) + j
    <2>1. ASSUME NEW i \in DOMAIN w PROVE i \in DOMAIN t \/ i - Len(t) \in DOMAIN u
        BY <1>1, <1>3
    <2>2. \A i \in DOMAIN w : i = Len(t) + (i - Len(t))
        BY <1>1, <1>3
    <2>3. /\ \A i \in DOMAIN t : i \in DOMAIN w
          /\ \A i \in DOMAIN u : Len(t) + i \in DOMAIN w
        BY <1>1, <1>3
    <2> QED
        BY <1>1, <1>3, <2>1, <2>2, <2>3
<1>5. ASSUME NEW i \in DOMAIN w
      PROVE  /\ w[i].do \in Taken \ {"forget"}
             /\ w[i].do = "remove" =>
                   i + 1 \in DOMAIN w /\ w[i + 1] = [do |-> "gone", p |-> w[i].p, s |-> w[i].s]
    <2>1. CASE i \in DOMAIN t
        BY <1>4, <2>1 DEF Drops
    <2>2. CASE \E j \in DOMAIN u : i = Len(t) + j
        <3>1. PICK j \in DOMAIN u : i = Len(t) + j
            BY <2>2
        <3>2. w[i] = u[j] /\ i + 1 = Len(t) + (j + 1)
            BY <1>1, <1>3, <1>4, <3>1
        <3> QED
            BY <1>4, <3>2 DEF Drops
    <2> QED
        BY <1>4, <2>1, <2>2
<1>6. \A s \in A \cup B : Has(w, "remove", p, s)
    BY <1>4 DEF Drops, Has
<1> QED
    BY <1>1, <1>5, <1>6 DEF Drops, w

NamesDrop(names) ==
    /\ names \in Seq(Taken \ {"forget"})
    /\ \A i \in 1 .. Len(names) :
          names[i] = "remove" => i + 1 <= Len(names) /\ names[i + 1] = "gone"

\* The names of a removal make a program that drops the service.
LEMMA StepsDrop ==
    ASSUME NEW p \in Projects, NEW s \in Services, NEW names, NamesDrop(names)
    PROVE  /\ Drops(Steps(p, s, names), p, {})
           /\ (\E i \in 1 .. Len(names) : names[i] = "remove") => Drops(Steps(p, s, names), p, {s})
<1> DEFINE t == Steps(p, s, names)
<1>1. Taken \ {"forget"} \subseteq StepNames
    BY DEF Taken, StepNames
<1>2. /\ names \in Seq(StepNames) /\ Len(names) \in Nat
      /\ \A i \in 1 .. Len(names) : names[i] \in Taken \ {"forget"}
    BY <1>1 DEF NamesDrop
<1>3. t \in Seq(StepRecords) /\ Len(t) = Len(names) /\ DOMAIN t = 1 .. Len(names)
    BY <1>2, StepsTyped
<1>4. \A i \in 1 .. Len(names) : t[i] = [do |-> names[i], p |-> p, s |-> s]
    BY <1>2, StepsTyped
<1> HIDE DEF t
<1>5. \A i \in 1 .. Len(names) : t[i].do = names[i] /\ t[i].p = p /\ t[i].s = s
    <2> TAKE i \in 1 .. Len(names)
    <2>1. t[i] = [do |-> names[i], p |-> p, s |-> s]
        BY <1>4
    <2> QED
        BY <2>1
<1>6. Drops(t, p, {})
    <2>1. \A i \in 1 .. Len(names) : i + 1 <= Len(names) => i + 1 \in 1 .. Len(names)
        BY <1>2
    <2> QED
        BY <1>2, <1>3, <1>4, <1>5, <2>1 DEF Drops, NamesDrop
<1>7. (\E i \in 1 .. Len(names) : names[i] = "remove") => Has(t, "remove", p, s)
    BY <1>3, <1>4 DEF Has
<1> QED
    BY <1>6, <1>7 DEF Drops, t

\* Every program but the teardown sets out in its course, and forgets nothing.
LEMMA ProgramsSetOut ==
    ASSUME NEW p \in Projects
    PROVE  \A t \in {provisionAuth(p), provisionRest(p), provisionStorageApi(p),
                     provisionRealtime(p), provisionFunctions(p), provisionProject(p),
                     destroyAuth(p), destroyRest(p), destroyStorageApi(p),
                     destroyRealtime(p), destroyFunctions(p)} :
              SetsOut(t) /\ \A q : ~Has(t, "forget", q, "auth")
<1> USE DEF NamesInCourse, StepNames
<1>1. NamesInCourse(<<"secret">> \o Runs) /\ NamesInCourse(<<"read">> \o Runs)
    <2>1. CASE mode = "docker"
        BY <2>1 DEF Runs, RunsContainer
    <2>2. CASE mode # "docker"
        BY <2>2 DEF Runs, RunsApp
    <2> QED
        BY <2>1, <2>2
<1>2. NamesInCourse(provisionStorage \o <<"read">> \o Runs)
    <2>1. CASE mode = "docker"
        BY <2>1 DEF provisionStorage, Runs, RunsContainer
    <2>2. CASE mode # "docker"
        BY <2>2 DEF provisionStorage, Runs, RunsApp
    <2> QED
        BY <2>1, <2>2
<1>3. NamesInCourse(Removes) /\ NamesInCourse(Removes \o <<"clear">>)
    <2>1. CASE mode = "docker"
        BY <2>1 DEF Removes
    <2>2. CASE mode # "docker"
        BY <2>2 DEF Removes, RemovesApp
    <2> QED
        BY <2>1, <2>2
<1>4. NamesInCourse(<<"read">> \o RunsContainer)
    BY DEF RunsContainer
<1>5. NamesInCourse(<<"read", "register", "realtimeDns", "save">>)
    OBVIOUS
<1>6. NamesInCourse(<<"deregister", "undns", "clear">>)
    OBVIOUS
<1>7. NamesInCourse(<<"removeContainer", "clear">>)
    OBVIOUS
<1>8. NamesInCourse(<<"register project">>)
    <2> DEFINE n == <<"register project">>
    <2>1. n \in Seq(StepNames) /\ Len(n) = 1 /\ n[1] = "register project" /\ 1 .. Len(n) = {1}
        OBVIOUS
    <2> HIDE DEF n
    <2>2. NamesInCourse(n)
        BY <2>1
    <2> QED
        BY <2>2 DEF n
<1> HIDE DEF NamesInCourse, StepNames
<1> QED
    BY <1>1, <1>2, <1>3, <1>4, <1>5, <1>6, <1>7, <1>8, StepsSetOut
    DEF provisionAuth, provisionRest, provisionStorageApi, provisionRealtime, provisionFunctions,
        provisionProject, destroyAuth, destroyRest, destroyStorageApi, destroyRealtime,
        destroyFunctions, Services, Routed

\* A program that drops services may forget the project at its end.
LEMMA ForgotLast ==
    ASSUME NEW t, NEW p, NEW A, Drops(t, p, A), NEW last \in Seq(StepRecords),
           Len(last) = 1, last[1] = [do |-> "forget", p |-> p, s |-> "auth"]
    PROVE  /\ SetsOut(t \o last)
           /\ \A s \in A : Has(t \o last, "remove", p, s)
<1> DEFINE w == t \o last
<1>1. /\ w \in Seq(StepRecords) /\ Len(w) = Len(t) + 1 /\ Len(t) \in Nat
      /\ \A i \in 1 .. Len(t) : w[i] = t[i]
      /\ w[Len(t) + 1] = last[1]
    <2>1. t \in Seq(StepRecords)
        BY DEF Drops
    <2>2. /\ w \in Seq(StepRecords) /\ Len(w) = Len(t) + Len(last) /\ Len(t) \in Nat /\ Len(last) \in Nat
          /\ \A i \in 1 .. Len(t) : w[i] = t[i]
          /\ \A i \in 1 .. Len(last) : w[Len(t) + i] = last[i]
        BY ONLY <2>1, last \in Seq(StepRecords), Joined
    <2>3. 1 \in 1 .. Len(last)
        OBVIOUS
    <2> QED
        BY <2>2, <2>3
<1> HIDE DEF w
<1>2. /\ DOMAIN t = 1 .. Len(t) /\ DOMAIN w = 1 .. Len(t) + 1
      /\ \A i \in DOMAIN w : i \in DOMAIN t \/ (i = Len(t) + 1 /\ i = Len(w))
      /\ \A i \in DOMAIN t : i \in DOMAIN w
    <2>1. DOMAIN t = 1 .. Len(t) /\ DOMAIN w = 1 .. Len(w)
        BY <1>1 DEF Drops
    <2> QED
        BY <1>1, <2>1
<1>3. ASSUME NEW i \in DOMAIN w
      PROVE  /\ w[i].do \notin {"create", "env"}
             /\ w[i].do = "remove" =>
                   i + 1 \in DOMAIN w /\ w[i + 1] = [do |-> "gone", p |-> w[i].p, s |-> w[i].s]
             /\ w[i].do = "forget" => i = Len(w) /\ w[i].s = "auth"
    <2>1. CASE i \in DOMAIN t
        <3>1. w[i] = t[i] /\ t[i].do \in Taken \ {"forget"}
            BY <1>1, <1>2, <2>1 DEF Drops
        <3>2. t[i].do = "remove" =>
                 /\ i + 1 \in DOMAIN w /\ w[i + 1] = t[i + 1]
                 /\ t[i + 1] = [do |-> "gone", p |-> t[i].p, s |-> t[i].s]
            BY <1>1, <1>2, <2>1 DEF Drops
        <3> QED
            BY <3>1, <3>2 DEF Taken
    <2>2. CASE i = Len(t) + 1 /\ i = Len(w)
        BY <1>1, <2>2
    <2> QED
        BY <1>2, <2>1, <2>2
<1>4. SetsOut(w)
    <2>1. InCourse(w)
        BY <1>3 DEF InCourse
    <2>2. w # <<>> => 1 \in DOMAIN w
        BY <1>1, <1>2
    <2> QED
        BY <1>1, <1>3, <2>1, <2>2 DEF SetsOut
<1>5. \A s \in A : Has(w, "remove", p, s)
    BY <1>1, <1>2 DEF Has, Drops
<1> QED
    BY <1>4, <1>5 DEF w

\* The teardown sets out in its course, and removes all there may be.
LEMMA DestroySetsOut ==
    ASSUME NEW p \in Projects
    PROVE  /\ SetsOut(destroyProject(p))
           /\ mode # "docker" => \A s \in Routed : Has(destroyProject(p), "remove", p, s)
<1> DEFINE A == IF mode = "docker" THEN {} ELSE {"rest"}
           B == IF mode = "docker" THEN {} ELSE {"storage"}
           C == IF mode = "docker" THEN {} ELSE {"auth"}
           last == Steps(p, "auth", <<"forget">>)
<1> USE DEF NamesDrop, Taken
<1>1. /\ NamesDrop(Removes)
      /\ mode # "docker" => \E i \in 1 .. Len(Removes) : Removes[i] = "remove"
    <2>1. CASE mode = "docker"
        BY <2>1 DEF Removes
    <2>2. CASE mode # "docker"
        <3>1. Removes[1] = "remove" /\ 1 \in 1 .. Len(Removes) /\ NamesDrop(Removes)
            BY <2>2 DEF Removes, RemovesApp
        <3> QED
            BY <3>1
    <2> QED
        BY <2>1, <2>2
<1>2. /\ NamesDrop(Removes \o <<"clear">>)
      /\ mode # "docker" =>
            \E i \in 1 .. Len(Removes \o <<"clear">>) : (Removes \o <<"clear">>)[i] = "remove"
    <2>1. CASE mode = "docker"
        BY <2>1 DEF Removes
    <2>2. CASE mode # "docker"
        <3> DEFINE n == Removes \o <<"clear">>
        <3>1. n[1] = "remove" /\ 1 \in 1 .. Len(n)
            BY <2>2 DEF Removes, RemovesApp
        <3>2. NamesDrop(n)
            BY <2>2 DEF Removes, RemovesApp
        <3> HIDE DEF n
        <3>3. \E i \in 1 .. Len(n) : n[i] = "remove"
            BY <3>1
        <3> QED
            BY <3>2, <3>3 DEF n
    <2> QED
        BY <2>1, <2>2
<1>6. /\ NamesDrop(<<"deregister", "undns", "clear">>) /\ NamesDrop(<<"removeContainer", "clear">>)
      /\ NamesDrop(<<"removeKey", "removeBucket">>)
    OBVIOUS
<1> HIDE DEF NamesDrop, Taken
<1>3. Drops(destroyRest(p), p, A) /\ Drops(destroyStorageApi(p), p, B) /\ Drops(destroyAuth(p), p, C)
    <2> DEFINE n == Removes \o <<"clear">>
    <2> HIDE DEF n
    <2>1. \A s \in Services :
             /\ Drops(Steps(p, s, n), p, {})
             /\ mode # "docker" => Drops(Steps(p, s, n), p, {s})
             /\ Drops(Steps(p, s, Removes), p, {})
             /\ mode # "docker" => Drops(Steps(p, s, Removes), p, {s})
        BY <1>1, <1>2, StepsDrop DEF n
    <2> QED
        BY <2>1 DEF n, destroyRest, destroyStorageApi, destroyAuth, Services, Routed
<1>4. Drops(destroyRealtime(p), p, {}) /\ Drops(destroyFunctions(p), p, {}) /\ Drops(destroyStorage(p), p, {})
    <2>1. /\ "realtime" \in Services /\ "functions" \in Services /\ "storage" \in Services
        BY DEF Services, Routed
    <2> QED
        BY <1>6, <2>1, StepsDrop DEF destroyRealtime, destroyFunctions, destroyStorage
<1> DEFINE t == destroyRest(p) \o destroyStorageApi(p) \o destroyRealtime(p) \o destroyFunctions(p)
                \o destroyAuth(p) \o destroyStorage(p)
<1>5. Drops(t, p, ((((A \cup B) \cup {}) \cup {}) \cup C) \cup {})
    <2> HIDE DEF A, B, C
    <2> QED
        BY <1>3, <1>4, DropsBoth, Zenon
<1>7. last \in Seq(StepRecords) /\ Len(last) = 1 /\ last[1] = [do |-> "forget", p |-> p, s |-> "auth"]
    <2> DEFINE n == <<"forget">>
    <2>1. n \in Seq(StepNames) /\ Len(n) = 1 /\ n[1] = "forget" /\ "auth" \in Services
        BY DEF StepNames, Services, Routed
    <2> HIDE DEF n
    <2>2. /\ Steps(p, "auth", n) \in Seq(StepRecords) /\ Len(Steps(p, "auth", n)) = 1
          /\ Steps(p, "auth", n)[1] = [do |-> n[1], p |-> p, s |-> "auth"]
        <3>1. 1 \in 1 .. Len(n)
            BY <2>1
        <3> QED
            BY <2>1, <3>1, StepsTyped
    <2> QED
        BY <2>1, <2>2 DEF n
<1> HIDE DEF t, last
<1>8. SetsOut(t \o last) /\ \A s \in A \cup B \cup C : Has(t \o last, "remove", p, s)
    <2>1. Drops(t, p, A \cup B \cup C)
        <3>1. ((((A \cup B) \cup {}) \cup {}) \cup C) \cup {} = A \cup B \cup C
            OBVIOUS
        <3> QED
            BY <1>5, <3>1
    <2> HIDE DEF A, B, C
    <2> QED
        BY <1>7, <2>1, ForgotLast, Zenon
<1>9. mode # "docker" => Routed \subseteq A \cup B \cup C
    BY DEF Routed
<1>10. destroyProject(p) = t \o last
    BY DEF destroyProject, t, last
<1> QED
    <2> HIDE DEF A, B, C
    <2> QED
        BY <1>8, <1>9, <1>10

\* What a call begins with.
LEMMA BeginsInCourse ==
    ASSUME NEW p \in Projects, NEW t \in {provisionProject(p)} \cup Programs(p)
    PROVE  /\ SetsOut(t)
           /\ mode # "docker" => \A q \in Projects, s \in Routed :
                 Has(t, "forget", q, "auth") => q = p /\ Has(t, "remove", p, s)
<1>1. CASE t = destroyProject(p)
    <2>1. \A q \in Projects : Has(t, "forget", q, "auth") => q = p
        BY <1>1, ProgramsTakeOff DEF TakesOff, Has
    <2> QED
        BY <1>1, <2>1, DestroySetsOut
<1>2. CASE t # destroyProject(p)
    <2>1. t \in {provisionAuth(p), provisionRest(p), provisionStorageApi(p),
                 provisionRealtime(p), provisionFunctions(p), provisionProject(p),
                 destroyAuth(p), destroyRest(p), destroyStorageApi(p),
                 destroyRealtime(p), destroyFunctions(p)}
        BY <1>2, ServicesAssumption DEF Programs, Services, Routed
    <2> QED
        BY <2>1, ProgramsSetOut
<1> QED
    BY <1>1, <1>2

\* The sweep, step by step.
Reconciles(t, p) ==
    /\ t[1] = [do |-> "look", p |-> p, s |-> "auth"]
    /\ t[2] = [do |-> "patch", p |-> p, s |-> "auth"]
    /\ t[3] = [do |-> "redeploy", p |-> p, s |-> "auth"]
    /\ t[4] = [do |-> "look", p |-> p, s |-> "rest"]
    /\ t[5] = [do |-> "patch", p |-> p, s |-> "rest"]
    /\ t[6] = [do |-> "redeploy", p |-> p, s |-> "rest"]
    /\ t[7] = [do |-> "look", p |-> p, s |-> "storage"]
    /\ t[8] = [do |-> "patch", p |-> p, s |-> "storage"]
    /\ t[9] = [do |-> "redeploy", p |-> p, s |-> "storage"]

\* The elements of three sequences of three put together.
LEMMA ThreeByThree ==
    ASSUME NEW a \in Seq(StepRecords), NEW b \in Seq(StepRecords), NEW c \in Seq(StepRecords),
           Len(a) = 3, Len(b) = 3, Len(c) = 3
    PROVE  LET t == a \o b \o c IN
           /\ t[1] = a[1] /\ t[2] = a[2] /\ t[3] = a[3]
           /\ t[4] = b[1] /\ t[5] = b[2] /\ t[6] = b[3]
           /\ t[7] = c[1] /\ t[8] = c[2] /\ t[9] = c[3]
<1> DEFINE d == a \o b
           e == d \o c
<1>1. /\ d \in Seq(StepRecords) /\ Len(d) = Len(a) + Len(b)
      /\ \A i \in 1 .. Len(a) : d[i] = a[i]
      /\ \A i \in 1 .. Len(b) : d[Len(a) + i] = b[i]
    BY ONLY a \in Seq(StepRecords), b \in Seq(StepRecords), Joined
<1> HIDE DEF d
<1>2. /\ \A i \in 1 .. Len(d) : e[i] = d[i]
      /\ \A i \in 1 .. Len(c) : e[Len(d) + i] = c[i]
    BY ONLY <1>1, c \in Seq(StepRecords), Joined
<1> HIDE DEF e
<1>3. d[1] = a[1] /\ d[2] = a[2] /\ d[3] = a[3] /\ Len(d) = 6
    BY <1>1
<1>4. d[3 + 1] = b[1] /\ d[3 + 2] = b[2] /\ d[3 + 3] = b[3]
    BY <1>1
<1>5. e[6 + 1] = c[1] /\ e[6 + 2] = c[2] /\ e[6 + 3] = c[3]
    BY <1>2, <1>3
<1>6. e[1] = d[1] /\ e[2] = d[2] /\ e[3] = d[3] /\ e[4] = d[4] /\ e[5] = d[5] /\ e[6] = d[6]
    BY <1>2, <1>3
<1> QED
    <2>1. d[4] = b[1] /\ d[5] = b[2] /\ d[6] = b[3]
        BY <1>4
    <2>2. e[7] = c[1] /\ e[8] = c[2] /\ e[9] = c[3]
        BY <1>5
    <2>3. a \o b \o c = e
        BY DEF d, e
    <2> QED
        BY <1>3, <1>6, <2>1, <2>2, <2>3

\* The sweep of a project comes in threes, one per service.
LEMMA ProjectSwept ==
    ASSUME NEW p \in Projects
    PROVE  Reconciles(reconcileProject(p), p)
<1> DEFINE n == <<"look", "patch", "redeploy">>
           R(s) == Steps(p, s, n)
<1>1. n \in Seq(StepNames) /\ Len(n) = 3 /\ n[1] = "look" /\ n[2] = "patch" /\ n[3] = "redeploy"
    BY DEF StepNames
<1> HIDE DEF n
<1>2. \A s \in Routed : /\ R(s) \in Seq(StepRecords) /\ Len(R(s)) = 3
                        /\ R(s)[1] = [do |-> "look", p |-> p, s |-> s]
                        /\ R(s)[2] = [do |-> "patch", p |-> p, s |-> s]
                        /\ R(s)[3] = [do |-> "redeploy", p |-> p, s |-> s]
    <2> TAKE s \in Routed
    <2>1. s \in Services /\ 1 \in 1 .. Len(n) /\ 2 \in 1 .. Len(n) /\ 3 \in 1 .. Len(n)
        BY <1>1 DEF Services
    <2> QED
        BY <1>1, <2>1, StepsTyped
<1>3. reconcileProject(p) = R("auth") \o R("rest") \o R("storage")
    BY DEF reconcileProject, n
<1> HIDE DEF R
<1>4. "auth" \in Routed /\ "rest" \in Routed /\ "storage" \in Routed
    BY DEF Routed
<1>5. /\ R("auth") \in Seq(StepRecords) /\ Len(R("auth")) = 3
      /\ R("rest") \in Seq(StepRecords) /\ Len(R("rest")) = 3
      /\ R("storage") \in Seq(StepRecords) /\ Len(R("storage")) = 3
    BY <1>2, <1>4
<1> DEFINE t == R("auth") \o R("rest") \o R("storage")
<1>6. /\ t[1] = R("auth")[1] /\ t[2] = R("auth")[2] /\ t[3] = R("auth")[3]
      /\ t[4] = R("rest")[1] /\ t[5] = R("rest")[2] /\ t[6] = R("rest")[3]
      /\ t[7] = R("storage")[1] /\ t[8] = R("storage")[2] /\ t[9] = R("storage")[3]
    BY ONLY <1>5, ThreeByThree, ZenonT(60) DEF t
<1> HIDE DEF t
<1>7. Reconciles(t, p)
    BY <1>2, <1>4, <1>6 DEF Reconciles
<1> QED
    BY <1>3, <1>7 DEF t

\* Where each step of a sweep is.
LEMMA SweepSteps ==
    ASSUME NEW names \in Seq(Projects)
    PROVE  LET t == reconcileAll(names) IN
           /\ t \in Seq(StepRecords) /\ Len(t) = 9 * Len(names)
           /\ \A j \in 0 .. Len(names) - 1, r \in 1 .. 9 :
                 9 * j + r \in 1 .. Len(t) /\ t[9 * j + r] = reconcileProject(names[j + 1])[r]
           /\ \A i \in 1 .. Len(t) : \E j \in 0 .. Len(names) - 1, r \in 1 .. 9 : i = 9 * j + r
<1> DEFINE t == reconcileAll(names)
           n == Len(names)
<1>1. n \in Nat /\ 9 * n \in Nat
    OBVIOUS
<1>2. t \in Seq(StepRecords) /\ Len(t) = 9 * n
    <2>1. t = [k \in 1 .. 9 * n |-> reconcileProject(names[((k - 1) \div 9) + 1])[((k - 1) % 9) + 1]]
        BY DEF reconcileAll
    <2>2. t \in Seq(StepRecords)
        BY SweepTyped
    <2>3. DOMAIN t = 1 .. 9 * n
        BY <2>1
    <2> HIDE DEF t, n
    <2> QED
        BY <1>1, <2>2, <2>3
<1>3. \A k \in 1 .. 9 * n : t[k] = reconcileProject(names[((k - 1) \div 9) + 1])[((k - 1) % 9) + 1]
    BY DEF reconcileAll
<1> HIDE DEF t, n
<1>4. \A j \in 0 .. n - 1, r \in 1 .. 9 :
         9 * j + r \in 1 .. 9 * n /\ ((9 * j + r) - 1) \div 9 = j /\ ((9 * j + r) - 1) % 9 = r - 1
    BY <1>1
<1>5. ASSUME NEW j \in 0 .. n - 1, NEW r \in 1 .. 9
      PROVE  9 * j + r \in 1 .. 9 * n /\ t[9 * j + r] = reconcileProject(names[j + 1])[r]
    <2>1. 9 * j + r \in 1 .. 9 * n /\ ((9 * j + r) - 1) \div 9 = j /\ (((9 * j + r) - 1) % 9) + 1 = r
        BY <1>1, <1>4
    <2> QED
        BY <1>3, <2>1
<1>6. ASSUME NEW i \in 1 .. 9 * n
      PROVE  \E j \in 0 .. n - 1, r \in 1 .. 9 : i = 9 * j + r
    <2>1. /\ (i - 1) \div 9 \in 0 .. n - 1 /\ ((i - 1) % 9) + 1 \in 1 .. 9
          /\ i = 9 * ((i - 1) \div 9) + (((i - 1) % 9) + 1)
        BY <1>1
    <2> QED
        BY <2>1
<1> QED
    BY <1>2, <1>5, <1>6 DEF t, n

\* So does the sweep of many, which looks for every service of each.
LEMMA SweepInThrees ==
    ASSUME NEW names \in Seq(Projects)
    PROVE  LET t == reconcileAll(names) IN
           /\ t \in Seq(StepRecords) /\ InThrees(t)
           /\ t # <<>> => t[1].do = "look"
           /\ \A j \in 1 .. Len(names), s \in Routed : Has(t, "look", names[j], s)
<1> DEFINE t == reconcileAll(names)
           n == Len(names)
           At(j) == reconcileProject(names[j + 1])
<1>0. n \in Nat
    OBVIOUS
<1>1. /\ t \in Seq(StepRecords) /\ Len(t) = 9 * n
      /\ \A j \in 0 .. n - 1, r \in 1 .. 9 : 9 * j + r \in 1 .. Len(t) /\ t[9 * j + r] = At(j)[r]
      /\ \A i \in 1 .. Len(t) : \E j \in 0 .. n - 1, r \in 1 .. 9 : i = 9 * j + r
    BY SweepSteps, Zenon
<1>2. \A j \in 0 .. n - 1 :
         Reconciles(At(j), names[j + 1])
    <2> TAKE j \in 0 .. n - 1
    <2>1. j + 1 \in 1 .. n
        <3> HIDE DEF n
        <3> QED
            BY <1>0
    <2>2. names[j + 1] \in Projects
        BY <2>1
    <2> QED
        BY <2>2, ProjectSwept
<1> HIDE DEF t, n, At
<1>3. DOMAIN t = 1 .. Len(t)
    BY <1>0, <1>1
<1>4. ASSUME NEW i \in DOMAIN t
      PROVE  /\ t[i].do = "look" =>
                   /\ i + 2 \in DOMAIN t
                   /\ t[i + 1] = [do |-> "patch", p |-> t[i].p, s |-> t[i].s]
                   /\ t[i + 2] = [do |-> "redeploy", p |-> t[i].p, s |-> t[i].s]
             /\ t[i].do = "patch" =>
                   i + 1 \in DOMAIN t /\ t[i + 1] = [do |-> "redeploy", p |-> t[i].p, s |-> t[i].s]
             /\ i > 1 => /\ t[i].do = "patch" => t[i - 1].do = "look"
                         /\ t[i].do = "redeploy" => t[i - 1].do = "patch"
    <2>1. PICK j \in 0 .. n - 1, r \in 1 .. 9 : i = 9 * j + r
        BY <1>0, <1>1, <1>3
    <2>2. /\ \A x \in 1 .. 9 : 9 * j + x \in DOMAIN t /\ t[9 * j + x] = At(j)[x]
          /\ i + 1 = 9 * j + (r + 1) /\ i + 2 = 9 * j + (r + 2) /\ i - 1 = 9 * j + (r - 1)
          /\ r \in 1 .. 8 => r + 1 \in 1 .. 9
          /\ r \in 1 .. 7 => r + 2 \in 1 .. 9
          /\ r \in 2 .. 9 => r - 1 \in 1 .. 9
        BY <1>0, <1>1, <1>3, <2>1
    <2>3. /\ r \in 1 .. 8 => i + 1 \in DOMAIN t /\ t[i + 1] = At(j)[r + 1]
          /\ r \in 1 .. 7 => i + 2 \in DOMAIN t /\ t[i + 2] = At(j)[r + 2]
          /\ r \in 2 .. 9 => t[i - 1] = At(j)[r - 1]
          /\ t[i] = At(j)[r]
        BY <2>1, <2>2
    <2>4. Reconciles(At(j), names[j + 1])
        BY <1>2
    <2> HIDE DEF At
    <2> DEFINE a == At(j)
               q == names[j + 1]
    <2>5. /\ t[i] = a[r] /\ r \in 1 .. 9
          /\ r \in 1 .. 8 => i + 1 \in DOMAIN t /\ t[i + 1] = a[r + 1]
          /\ r \in 1 .. 7 => i + 2 \in DOMAIN t /\ t[i + 2] = a[r + 2]
          /\ r \in 2 .. 9 => t[i - 1] = a[r - 1]
          /\ Reconciles(a, q)
        BY <2>3, <2>4
    <2> HIDE DEF a, q
    <2>6. CASE r \in {1, 4, 7}
        <3>1. PICK s \in Routed : /\ a[r] = [do |-> "look", p |-> q, s |-> s]
                                  /\ a[r + 1] = [do |-> "patch", p |-> q, s |-> s]
                                  /\ a[r + 2] = [do |-> "redeploy", p |-> q, s |-> s]
            BY <2>5, <2>6 DEF Reconciles, Routed
        <3>2. t[i].do = "look" /\ t[i].p = q /\ t[i].s = s
            BY <2>5, <3>1
        <3>3. r \in 1 .. 8 /\ r \in 1 .. 7
            BY <2>6
        <3> QED
            BY <2>5, <3>1, <3>2, <3>3
    <2>7. CASE r \in {2, 5, 8}
        <3>1. PICK s \in Routed : /\ a[r - 1] = [do |-> "look", p |-> q, s |-> s]
                                  /\ a[r] = [do |-> "patch", p |-> q, s |-> s]
                                  /\ a[r + 1] = [do |-> "redeploy", p |-> q, s |-> s]
            BY <2>5, <2>7 DEF Reconciles, Routed
        <3>2. t[i].do = "patch" /\ t[i].p = q /\ t[i].s = s
            BY <2>5, <3>1
        <3>3. r \in 1 .. 8 /\ r \in 2 .. 9
            BY <2>7
        <3> QED
            BY <2>5, <3>1, <3>2, <3>3
    <2>8. CASE r \in {3, 6, 9}
        <3>1. a[r - 1].do = "patch" /\ a[r].do = "redeploy"
            BY <2>5, <2>8 DEF Reconciles
        <3>2. r \in 2 .. 9
            BY <2>8
        <3> QED
            BY <2>5, <3>1, <3>2
    <2> QED
        BY <2>1, <2>6, <2>7, <2>8
<1>5. InThrees(t)
    BY <1>4 DEF InThrees
<1>6. t # <<>> => t[1].do = "look"
    <2>1. SUFFICES ASSUME t # <<>> PROVE t[1].do = "look"
        OBVIOUS
    <2>2. 0 \in 0 .. n - 1 /\ 1 \in 1 .. 9 /\ 9 * 0 + 1 = 1
        BY <1>0, <1>1, <2>1
    <2>3. t[9 * 0 + 1] = At(0)[1]
        BY <1>0, <1>1, <2>2
    <2>4. At(0)[1].do = "look"
        <3>1. Reconciles(At(0), names[0 + 1])
            BY <1>2, <2>2
        <3> QED
            BY <3>1 DEF Reconciles
    <2> QED
        BY <2>2, <2>3, <2>4
<1>7. ASSUME NEW j \in 1 .. n, NEW s \in Routed
      PROVE  Has(t, "look", names[j], s)
    <2>1. j - 1 \in 0 .. n - 1 /\ (j - 1) + 1 = j /\ 1 \in 1 .. 9 /\ 4 \in 1 .. 9 /\ 7 \in 1 .. 9
        BY <1>0, <1>1
    <2>2. PICK r \in {1, 4, 7} : At(j - 1)[r] = [do |-> "look", p |-> names[j], s |-> s]
        <3>1. Reconciles(At(j - 1), names[j])
            BY <1>2, <2>1
        <3> QED
            BY <3>1 DEF Reconciles, Routed
    <2>3. 9 * (j - 1) + r \in DOMAIN t /\ t[9 * (j - 1) + r] = At(j - 1)[r]
        BY <1>0, <1>1, <1>3, <2>1, <2>2
    <2> QED
        BY <2>2, <2>3 DEF Has
<1> QED
    BY <1>0, <1>1, <1>5, <1>6, <1>7 DEF t, n

\* Every project of the registry is in the order.
LEMMA OrderCovers ==
    ASSUME NEW Q \in SUBSET Projects, NEW q \in Q
    PROVE  \E j \in 1 .. Len(SetToSeq(Q)) : SetToSeq(Q)[j] = q
<1>1. IsFiniteSet(Q) /\ Cardinality(Q) \in Nat
    BY ServicesAssumption, FS_Subset, FS_CardinalityType
<1>2. PICK f \in [1 .. Cardinality(Q) -> Q] : IsInjective(f)
    BY <1>1, FS_CardinalityType DEF ExistsBijection, Bijection, Injection
<1>3. SetToSeq(Q) \in [1 .. Cardinality(Q) -> Q] /\ IsInjective(SetToSeq(Q))
    BY <1>2 DEF SetToSeq
<1>4. SetToSeq(Q) \in Surjection(1 .. Cardinality(Q), Q)
    <2>1. SetToSeq(Q) \in Injection(1 .. Cardinality(Q), Q)
        BY <1>3 DEF Injection
    <2>2. Cardinality(1 .. Cardinality(Q)) = Cardinality(Q)
        BY <1>1, FS_Interval
    <2> QED
        BY <1>1, <2>1, <2>2, FS_Injection
<1>5. Len(SetToSeq(Q)) = Cardinality(Q)
    BY <1>1, <1>3
<1>6. \E j \in 1 .. Cardinality(Q) : SetToSeq(Q)[j] = q
    BY <1>4 DEF Surjection
<1> QED
    BY <1>5, <1>6

-----------------------------------------------------------------------------
(* 2. What is left of a call and of a sweep.                               *)

\* What is left of a program in its course is in its course.
LEMMA LeftInCourse ==
    ASSUME NEW t \in Seq(StepRecords), InCourse(t), NEW n \in Nat \ {0}
    PROVE  InCourse(SubSeq(t, n + 1, Len(t)))
<1> DEFINE u == SubSeq(t, n + 1, Len(t))
<1>1. /\ u \in Seq(StepRecords)
      /\ \A i \in DOMAIN u : i \in Nat \ {0} /\ i + n \in DOMAIN t /\ u[i] = t[i + n]
      /\ \A i \in Nat \ {0} : i + n \in DOMAIN t => i \in DOMAIN u
    BY Skipped
<1>2. \A i \in DOMAIN u : i + n = Len(t) => i = Len(u)
    OBVIOUS
<1> HIDE DEF u
<1>3. ASSUME NEW i \in DOMAIN u
      PROVE  /\ i + 1 \in Nat \ {0} /\ i + 2 \in Nat \ {0} /\ i + n \in DOMAIN t /\ u[i] = t[i + n]
             /\ (i + 1) + n = (i + n) + 1 /\ (i + 2) + n = (i + n) + 2
             /\ i > 1 => i - 1 \in DOMAIN u /\ (i - 1) + n = (i + n) - 1 /\ i + n > 1
    <2>1. i \in Nat \ {0} /\ i + n \in DOMAIN t /\ u[i] = t[i + n]
        BY <1>1
    <2>2. i > 1 => i - 1 \in DOMAIN u
        BY <1>1, <2>1
    <2>3. /\ i + 1 \in Nat \ {0} /\ i + 2 \in Nat \ {0}
          /\ (i + 1) + n = (i + n) + 1 /\ (i + 2) + n = (i + n) + 2
          /\ (i - 1) + n = (i + n) - 1 /\ (i > 1 => i + n > 1)
        BY <2>1
    <2> QED
        BY <2>1, <2>2, <2>3
<1>4. ASSUME NEW i \in DOMAIN u
      PROVE  /\ u[i].do = "create" => /\ i + 2 \in DOMAIN u /\ u[i + 2].do = "env"
                                      /\ mode # "docker"
                                      /\ i > 1 => u[i - 1].do = "find"
             /\ u[i].do = "env" => i + 1 \in DOMAIN u /\ u[i + 1].do = "deploy"
             /\ u[i].do = "remove" =>
                   i + 1 \in DOMAIN u /\ u[i + 1] = [do |-> "gone", p |-> u[i].p, s |-> u[i].s]
             /\ u[i].do = "forget" => i = Len(u) /\ u[i].s = "auth"
    <2> DEFINE k == i + n
    <2>1. /\ k \in DOMAIN t /\ u[i] = t[k]
          /\ k + 1 \in DOMAIN t => i + 1 \in DOMAIN u /\ u[i + 1] = t[k + 1]
          /\ k + 2 \in DOMAIN t => i + 2 \in DOMAIN u /\ u[i + 2] = t[k + 2]
          /\ i > 1 => u[i - 1] = t[k - 1] /\ k > 1
        <3>1. k + 1 \in DOMAIN t => i + 1 \in DOMAIN u
            BY <1>1, <1>3
        <3>2. k + 2 \in DOMAIN t => i + 2 \in DOMAIN u
            BY <1>1, <1>3
        <3> QED
            BY <1>1, <1>3, <3>1, <3>2
    <2>2. k = Len(t) => i = Len(u)
        BY <1>2
    <2> HIDE DEF k
    <2> QED
        BY <2>1, <2>2 DEF InCourse
<1> QED
    BY <1>4 DEF InCourse, u

\* What is left of a sweep comes in threes.
LEMMA LeftInThrees ==
    ASSUME NEW t \in Seq(StepRecords), InThrees(t), NEW n \in Nat \ {0}
    PROVE  InThrees(SubSeq(t, n + 1, Len(t)))
<1> DEFINE u == SubSeq(t, n + 1, Len(t))
<1>1. /\ u \in Seq(StepRecords)
      /\ \A i \in DOMAIN u : i \in Nat \ {0} /\ i + n \in DOMAIN t /\ u[i] = t[i + n]
      /\ \A i \in Nat \ {0} : i + n \in DOMAIN t => i \in DOMAIN u
    BY Skipped
<1> HIDE DEF u
<1>2. ASSUME NEW i \in DOMAIN u
      PROVE  /\ i + 1 \in Nat \ {0} /\ i + 2 \in Nat \ {0} /\ i + n \in DOMAIN t /\ u[i] = t[i + n]
             /\ (i + 1) + n = (i + n) + 1 /\ (i + 2) + n = (i + n) + 2
             /\ (i + n) + 2 \in DOMAIN t => (i + n) + 1 \in DOMAIN t
             /\ i > 1 => i - 1 \in DOMAIN u /\ (i - 1) + n = (i + n) - 1 /\ i + n > 1
    <2>1. i \in Nat \ {0} /\ i + n \in DOMAIN t /\ u[i] = t[i + n]
        BY <1>1
    <2>2. i > 1 => i - 1 \in DOMAIN u
        BY <1>1, <2>1
    <2>3. (i + n) + 2 \in DOMAIN t => (i + n) + 1 \in DOMAIN t
        BY <2>1
    <2> QED
        BY <2>1, <2>2, <2>3
<1>3. ASSUME NEW i \in DOMAIN u
      PROVE  /\ u[i].do = "look" =>
                   /\ i + 2 \in DOMAIN u
                   /\ u[i + 1] = [do |-> "patch", p |-> u[i].p, s |-> u[i].s]
                   /\ u[i + 2] = [do |-> "redeploy", p |-> u[i].p, s |-> u[i].s]
             /\ u[i].do = "patch" =>
                   i + 1 \in DOMAIN u /\ u[i + 1] = [do |-> "redeploy", p |-> u[i].p, s |-> u[i].s]
             /\ i > 1 => /\ u[i].do = "patch" => u[i - 1].do = "look"
                         /\ u[i].do = "redeploy" => u[i - 1].do = "patch"
    <2> DEFINE k == i + n
    <2>1. /\ k \in DOMAIN t /\ u[i] = t[k]
          /\ k + 1 \in DOMAIN t => i + 1 \in DOMAIN u /\ u[i + 1] = t[k + 1]
          /\ k + 2 \in DOMAIN t => /\ i + 2 \in DOMAIN u /\ u[i + 2] = t[k + 2]
                                   /\ u[i + 1] = t[k + 1]
          /\ i > 1 => u[i - 1] = t[k - 1] /\ k > 1
        <3>1. k + 1 \in DOMAIN t => i + 1 \in DOMAIN u
            BY <1>1, <1>2
        <3>2. k + 2 \in DOMAIN t => i + 2 \in DOMAIN u /\ k + 1 \in DOMAIN t
            BY <1>1, <1>2
        <3>3. \A j \in DOMAIN u : u[j] = t[j + n]
            BY <1>1
        <3>4. i + n = k /\ (i + 1) + n = k + 1 /\ (i + 2) + n = k + 2
            BY <1>2
        <3>5. i > 1 => u[i - 1] = t[k - 1] /\ k > 1
            BY <1>2, <3>3
        <3> HIDE DEF k
        <3>6. k \in DOMAIN t /\ u[i] = t[k]
            BY <1>2, <3>4
        <3> QED
            BY <3>1, <3>2, <3>3, <3>4, <3>5, <3>6
    <2> HIDE DEF k
    <2> QED
        BY <2>1 DEF InThrees
<1> QED
    BY <1>3 DEF InThrees, u

\* The next step of a call whose locals are c.
DoesIn(c, do) == c.todo # <<>> /\ Head(c.todo).do = do

\* What comes after the step a call makes, or steps it skips.
LEMMA Advance ==
    ASSUME TypeOK, Ordered, InCourse(Call.todo), NEW n, Progress(n)
    PROVE  LET now == Now("call")
               c   == caller'["call"]
           IN
           /\ InCourse(Call.todo)'
           /\ Call.todo \in Seq(StepRecords) /\ c.todo \in Seq(StepRecords)
           /\ c.todo # <<>> => Head(c.todo).p = P /\ (now.do = "find" => Head(c.todo).s = S)
           /\ DoesIn(c, "create") => now.do = "find" /\ n = 1
           /\ now.do = "create" => /\ mode # "docker"
                                   /\ n = 1 => DoesIn(c, "await")
                                   /\ n = 2 => DoesIn(c, "env")
           /\ now.do = "env" /\ n = 1 => DoesIn(c, "deploy")
           /\ now.do = "remove" /\ n = 1 =>
                 c.todo # <<>> /\ Head(c.todo) = [do |-> "gone", p |-> P, s |-> S]
           /\ now.do = "forget" => c.todo = <<>>
<1> DEFINE t == Call.todo
           u == caller'["call"].todo
           now == Now("call")
<1>1. /\ t \in Seq(StepRecords) /\ now = t[1] /\ 1 \in DOMAIN t /\ n \in Nat \ {0}
      /\ u = SubSeq(t, n + 1, Len(t)) /\ InOrder(t) /\ mode' = mode /\ InCourse(t)
    BY NextStep, CallTyped DEF Progress, Callers, Call, Skip, Ordered, Locals
<1>2. /\ u \in Seq(StepRecords)
      /\ \A i \in DOMAIN u : i \in Nat \ {0} /\ i + n \in DOMAIN t /\ u[i] = t[i + n]
      /\ \A i \in Nat \ {0} : i + n \in DOMAIN t => i \in DOMAIN u
    BY <1>1, Skipped
<1>3. u # <<>> => /\ n \in DOMAIN t /\ n + 1 \in DOMAIN t /\ Head(u) = t[n + 1]
                  /\ Follows(t[n], t[n + 1])
    BY Progresses DEF Now
<1>4. n + 1 \in DOMAIN t => u # <<>> /\ Head(u) = t[n + 1]
    <2>1. n + 1 \in DOMAIN t => 1 \in DOMAIN u
        BY <1>1, <1>2
    <2> QED
        BY <1>2, <1>3, <2>1
<1>5. InCourse(Call.todo)'
    <2>1. InCourse(u)
        BY <1>1, LeftInCourse
    <2> HIDE DEF u
    <2>2. mode' = mode /\ u = Call.todo'
        BY <1>1 DEF u, Call
    <2> QED
        BY <2>1, <2>2 DEF InCourse
<1> HIDE DEF t, u, now
<1>6. /\ \A i, j \in DOMAIN t : t[j].p = t[i].p
      /\ now.do = "find" => \A j \in DOMAIN t : t[j].s = t[1].s
      /\ now.do = "bucket" => t[2].do = "mint" /\ t[3].do = "allow" /\ t[4].do = "store"
      /\ now.do = "create" => t[2].do = "await" /\ 2 \in DOMAIN t
      /\ now.do \in DOMAIN Removal => \A j \in DOMAIN t : t[j].do \notin Gives
    BY <1>1 DEF InOrder
<1>7. u # <<>> => Head(u).p = t[1].p /\ (now.do = "find" => Head(u).s = t[1].s)
    BY <1>1, <1>3, <1>6
<1>8. /\ now.do = "create" => 3 \in DOMAIN t /\ t[3].do = "env" /\ mode # "docker"
      /\ now.do = "env" => 2 \in DOMAIN t /\ t[2].do = "deploy"
      /\ now.do = "remove" => 2 \in DOMAIN t /\ t[2] = [do |-> "gone", p |-> t[1].p, s |-> t[1].s]
      /\ now.do = "forget" => Len(t) = 1
    <2>1. /\ now.do = "create" => 1 + 2 \in DOMAIN t /\ t[1 + 2].do = "env" /\ mode # "docker"
          /\ now.do = "env" => 1 + 1 \in DOMAIN t /\ t[1 + 1].do = "deploy"
          /\ now.do = "remove" =>
                1 + 1 \in DOMAIN t /\ t[1 + 1] = [do |-> "gone", p |-> t[1].p, s |-> t[1].s]
          /\ now.do = "forget" => 1 = Len(t)
        BY ONLY <1>1 DEF InCourse
    <2>2. 1 + 1 = 2 /\ 1 + 2 = 3
        OBVIOUS
    <2> QED
        BY <2>1, <2>2
<1>9. ASSUME u # <<>>, Head(u).do = "create"
      PROVE  now.do = "find" /\ n = 1
    <2>1. n + 1 \in DOMAIN t /\ t[n + 1].do = "create" /\ n + 1 > 1 /\ (n + 1) - 1 = n
        BY <1>1, <1>3, <1>9
    <2>2. t[n].do = "find"
        <3>1. t[(n + 1) - 1].do = "find"
            BY ONLY <1>1, <2>1 DEF InCourse
        <3> QED
            BY <2>1, <3>1
    <2>3. now.do \notin DOMAIN Removal
        <3>1. (n + 1) + 2 \in DOMAIN t /\ t[(n + 1) + 2].do = "env"
            BY <1>1, <2>1 DEF InCourse
        <3> QED
            BY <1>6, <3>1 DEF Gives, Uses
    <2>4. n = 1 \/ (n = 2 /\ now.do = "create") \/ (n = 4 /\ now.do = "bucket")
        BY <2>3 DEF Progress, now
    <2> QED
        BY <1>1, <1>6, <2>2, <2>4
<1>10. now.do = "create" => /\ n = 1 => u # <<>> /\ Head(u).do = "await"
                            /\ n = 2 => u # <<>> /\ Head(u).do = "env"
    BY <1>4, <1>6, <1>8
<1>11. /\ now.do = "env" /\ n = 1 => u # <<>> /\ Head(u).do = "deploy"
       /\ now.do = "remove" /\ n = 1 =>
             u # <<>> /\ Head(u) = [do |-> "gone", p |-> t[1].p, s |-> t[1].s]
    BY <1>4, <1>8
<1>12. now.do = "forget" => u = <<>>
    <2>1. DOMAIN t = 1 .. Len(t)
        BY <1>1
    <2>2. Len(t) = 1 => n + 1 \notin DOMAIN t
        BY <1>1, <2>1
    <2> QED
        BY <1>3, <1>8, <2>2
<1>13. P = t[1].p /\ S = t[1].s
    BY <1>1 DEF P, S, now
<1> QED
    BY <1>1, <1>2, <1>5, <1>7, <1>8, <1>9, <1>10, <1>11, <1>12, <1>13 DEF DoesIn, t, u, now

\* What is left of what was left, where the call removes before it forgets.
LEMMA StillLeft ==
    ASSUME TypeOK, Ordered, InCourse(Call.todo), NEW n, Progress(n), NEW p, NEW s
    PROVE  LET now == Now("call")
               c   == caller'["call"]
           IN
           /\ \A do : Has(c.todo, do, p, s) => Has(Call.todo, do, p, s)
           /\ Has(Call.todo, "forget", p, "auth") => P = p
           /\ (n = 1 \/ (n = 2 /\ now.do = "remove")) /\ Has(Call.todo, "remove", p, s) =>
                 Has(c.todo, "remove", p, s) \/ now = [do |-> "remove", p |-> p, s |-> s]
           /\ Has(Call.todo, "forget", p, "auth") => now.do \notin {"create", "bucket"}
<1> DEFINE t == Call.todo
           u == caller'["call"].todo
           now == Now("call")
<1>1. /\ t \in Seq(StepRecords) /\ now = t[1] /\ 1 \in DOMAIN t /\ n \in Nat \ {0}
      /\ u = SubSeq(t, n + 1, Len(t)) /\ InOrder(t) /\ InCourse(t)
    BY NextStep, CallTyped DEF Progress, Callers, Call, Skip, Ordered, Locals
<1>2. /\ u \in Seq(StepRecords)
      /\ \A i \in DOMAIN u : i \in Nat \ {0} /\ i + n \in DOMAIN t /\ u[i] = t[i + n]
      /\ \A i \in Nat \ {0} : i + n \in DOMAIN t => i \in DOMAIN u
    BY <1>1, Skipped
<1> HIDE DEF t, u, now
<1>3. ASSUME NEW do, Has(u, do, p, s) PROVE Has(t, do, p, s)
    BY <1>2, <1>3 DEF Has
<1>4. ASSUME Has(t, "forget", p, "auth")
      PROVE  t[1].p = p /\ now.do \notin {"create", "bucket"}
    <2>1. PICK i \in DOMAIN t : t[i] = [do |-> "forget", p |-> p, s |-> "auth"]
        BY <1>4 DEF Has
    <2>2. t[i].do = "forget" /\ t[i].p = p
        BY <2>1
    <2>3. t[1].p = p /\ \A j \in DOMAIN t : t[j].do \notin Gives
        BY <1>1, <2>2 DEF InOrder
    <2>4. now.do = "create" => 1 + 2 \in DOMAIN t /\ t[1 + 2].do = "env"
        BY ONLY <1>1 DEF InCourse
    <2> QED
        BY <1>1, <2>3, <2>4 DEF Gives, Uses
<1>5. ASSUME n = 1 \/ (n = 2 /\ now.do = "remove"), Has(t, "remove", p, s)
      PROVE  Has(u, "remove", p, s) \/ now = [do |-> "remove", p |-> p, s |-> s]
    <2>1. PICK i \in DOMAIN t : t[i] = [do |-> "remove", p |-> p, s |-> s]
        BY <1>5 DEF Has
    <2>2. i \in Nat \ {0}
        BY <1>1
    <2>3. now.do = "remove" => t[2].do = "gone"
        <3>1. now.do = "remove" => t[1 + 1] = [do |-> "gone", p |-> t[1].p, s |-> t[1].s]
            BY ONLY <1>1 DEF InCourse
        <3> QED
            BY <3>1
    <2>4. CASE i <= n
        <3>1. i = 1 \/ (i = 2 /\ now.do = "remove")
            BY <1>5, <2>2, <2>4
        <3>2. t[i].do = "remove"
            BY <2>1
        <3> QED
            BY <1>1, <2>1, <2>3, <3>1, <3>2
    <2>5. CASE i > n
        <3>1. i - n \in Nat \ {0} /\ (i - n) + n = i
            BY <1>1, <2>2, <2>5
        <3>2. i - n \in DOMAIN u /\ u[i - n] = t[i]
            BY <1>2, <3>1
        <3> QED
            BY <2>1, <3>2 DEF Has
    <2> QED
        BY <1>1, <2>2, <2>4, <2>5
<1>6. P = t[1].p
    BY <1>1 DEF P, now
<1> QED
    BY <1>3, <1>4, <1>5, <1>6 DEF t, u, now

-----------------------------------------------------------------------------
(* 3. The invariant of one service, in terms of the applications a, the     *)
(* locals c of the call and w of the sweep, the routing shape sh, the row r *)
(* of the project, the mode m, and the projects h hurt and d adrift.        *)

NamedIn(a, p, s)   == {u \in Uuids : a[u].of = <<p, s>>}
AwaitsIn(c, u)     == DoesIn(c, "await") /\ c.app = u
GoesIn(c, p, s)    == DoesIn(c, "gone") /\ Head(c.todo).p = p /\ Head(c.todo).s = s
CreatesIn(c, p, s) == DoesIn(c, "create") /\ c.app = None /\ Head(c.todo).p = p /\ Head(c.todo).s = s
DeploysIn(c, u)    == (DoesIn(c, "env") \/ DoesIn(c, "deploy")) /\ c.app = u

\* What is left to forget of the project has its removal before it.
RemovesIn(a, c, p, s) ==
    Has(c.todo, "forget", p, "auth") =>
        NamedIn(a, p, s) = {} \/ Has(c.todo, "remove", p, s) \/ GoesIn(c, p, s)

SoleIn(a, c, sh, r, m, p, s) ==
    /\ \A u, v \in NamedIn(a, p, s) : u = v
    /\ \A u \in NamedIn(a, p, s) : /\ a[u].listed \/ (AwaitsIn(c, u) /\ a[u].shape = sh)
                                   /\ a[u].deleting => GoesIn(c, p, s)
    /\ CreatesIn(c, p, s) \/ ~r.there \/ m = "docker" => NamedIn(a, p, s) = {}
    /\ RemovesIn(a, c, p, s)

RoutesIn(a, c, w, u) ==
    a[u].run # <<>> =>
        a[u].run[2] = a[u].shape \/ DeploysIn(c, u) \/ (DoesIn(w, "redeploy") /\ w.app = u)

VisitedIn(a, w, sh, p, s, u) ==
    w.todo # <<>> \/ w.done =>
        a[u].shape = sh \/ Has(w.todo, "look", p, s) \/ (DoesIn(w, "patch") /\ w.app = u)

FineIn(a, c, w, sh, r, m, h, d, p, s) ==
    p \notin h =>
        /\ SoleIn(a, c, sh, r, m, p, s)
        /\ p \notin d => \A u \in NamedIn(a, p, s) : RoutesIn(a, c, w, u) /\ VisitedIn(a, w, sh, p, s, u)

Fine(p, s) ==
    FineIn(app, caller["call"], caller["sweep"], shape, row[p], mode, hurt, drift, p, s)

FineNext(p, s) ==
    FineIn(app', caller'["call"], caller'["sweep"], shape', row'[p], mode', hurt', drift', p, s)

Courses == ServicesInv /\ InCourse(Call.todo) /\ InThrees(Sweep.todo) /\ SweepHolds

\* The invariant, service by service, now and after a step.
LEMMA InvariantFine ==
    /\ SweepInv <=> Courses /\ \A p \in Projects, s \in Routed : Fine(p, s)
    /\ SweepInv' <=> Courses' /\ \A p \in Projects, s \in Routed : FineNext(p, s)
<1>1. ASSUME NEW p \in Projects, NEW s \in Routed
      PROVE  /\ Fine(p, s) <=> /\ p \notin hurt => Sole(p, s)
                               /\ p \notin hurt \cup drift =>
                                     \A u \in Named(p, s) : OnItsRoutes(u) /\ Visited(p, s, u)
             /\ FineNext(p, s) <=> /\ p \notin hurt' => Sole(p, s)'
                                   /\ p \notin (hurt \cup drift)' =>
                                         \A u \in Named(p, s)' : OnItsRoutes(u)' /\ Visited(p, s, u)'
    BY DEF Fine, FineNext, FineIn, SoleIn, RemovesIn, RoutesIn, VisitedIn, NamedIn, AwaitsIn, GoesIn,
       CreatesIn, DeploysIn, DoesIn, Sole, OnItsRoutes, Visited, Named, Awaits, Goes, Creates,
       Deploys, Does, Busy, Now, Call, Sweep, P, S
<1> QED
    BY <1>1 DEF SweepInv, Courses

\* Where there is no application, all is fine.
LEMMA NoneFine ==
    ASSUME NEW a, NEW c, NEW w, NEW sh, NEW r, NEW m, NEW h, NEW d, NEW p, NEW s,
           p \notin h => NamedIn(a, p, s) = {}
    PROVE  FineIn(a, c, w, sh, r, m, h, d, p, s)
BY DEF FineIn, SoleIn, RemovesIn

\* The applications of other services do not matter.
LEMMA SameApps ==
    ASSUME NEW a, NEW b, NEW c, NEW w, NEW sh, NEW r, NEW m, NEW h, NEW d, NEW p, NEW s,
           NamedIn(b, p, s) = NamedIn(a, p, s), \A u \in NamedIn(a, p, s) : b[u] = a[u],
           FineIn(a, c, w, sh, r, m, h, d, p, s)
    PROVE  FineIn(b, c, w, sh, r, m, h, d, p, s)
BY DEF FineIn, SoleIn, RemovesIn, RoutesIn, VisitedIn

\* A step of the call that leaves the applications.
LEMMA CallMoves ==
    ASSUME NEW a, NEW c, NEW x, NEW w, NEW sh, NEW r, NEW q, NEW m, NEW h, NEW k, NEW d, NEW e,
           NEW p, NEW s,
           FineIn(a, c, w, sh, r, m, h, d, p, s), h \subseteq k, d \subseteq e,
           p \notin k =>
              /\ \A u \in NamedIn(a, p, s) :
                    /\ AwaitsIn(c, u) => AwaitsIn(x, u) \/ a[u].listed
                    /\ DeploysIn(c, u) => DeploysIn(x, u) \/ a[u].run = <<>> \/ a[u].run[2] = a[u].shape
              /\ GoesIn(c, p, s) => GoesIn(x, p, s) \/ NamedIn(a, p, s) = {}
              /\ CreatesIn(x, p, s) \/ ~q.there => CreatesIn(c, p, s) \/ ~r.there \/ NamedIn(a, p, s) = {}
              /\ RemovesIn(a, x, p, s)
    PROVE  FineIn(a, x, w, sh, q, m, k, e, p, s)
BY DEF FineIn, SoleIn, RoutesIn

-----------------------------------------------------------------------------
(* 4. The requests of a call.                                              *)

Requests == Plainly \/ (Specially /\ Busy("call"))

\* The application the call has in hand is the service's.
LEMMA OwnApp ==
    ASSUME TypeOK, Held, Busy("call"), NEW u \in Uuids, Call.app = u,
           NEW p \in Projects, NEW s \in Routed, app[u].of = <<p, s>>
    PROVE  p = P /\ s = S
<1>1. 1 \in DOMAIN Call.todo /\ Now("call") = Call.todo[1] /\ u # None
    BY NextStep, Bounds DEF Callers, Call
<1>2. <<p, s>> \in {<<>>, <<Call.todo[1].p, Call.todo[1].s>>}
    BY <1>1 DEF Held
<1> QED
    BY <1>1, <1>2 DEF P, S

\* What a request leaves alone.
LEMMA RequestFrame ==
    ASSUME TypeOK, Held, Requests
    PROVE  /\ Busy("call") /\ P \in Projects /\ S \in Services /\ \E n : Progress(n)
           /\ caller'["sweep"] = caller["sweep"] /\ UNCHANGED <<mode, shape, drift>>
           /\ hurt \subseteq hurt'
           /\ \A q \in Projects : q # P => row'[q] = row[q]
           /\ ~Forget => (row[P].there => row'[P].there)
           /\ \A u \in Uuids : \/ app'[u] = app[u]
                               \/ app'[u].of = <<P, S>> /\ app[u].of \in {<<>>, <<P, S>>}
<1> USE DEF Framed, AppFrame, outside, modes, counts, ghosts
<1>1. Busy("call") /\ \E n : Progress(n)
    BY Plain, SpecialApps DEF Requests
<1>2. P \in Projects /\ S \in Services /\ caller \in [Callers -> Locals(minted)]
    BY <1>1, CallTyped, Typed DEF CallerTyped
<1>3. caller'["sweep"] = caller["sweep"]
    <2>1. \E locals, t : Resumes("call", locals, t)
        <3>1. CASE CreateBucket \/ destroyApp \/ waitAppGone \/ AwaitListed \/ findAppByName
            BY <3>1 DEF CreateBucket, destroyApp, waitAppGone, AwaitListed, findAppByName, Proceeds
        <3>5. CASE createDockerImageApp
            <4>1. ~Throws("call")
                BY <3>5 DEF Requests, Plainly, Specially, createDockerImageApp, prepareAuth,
                   ReadSecret, CreateBucket, MintKey, StoreKey, Forget, Does
            <4> QED
                BY <3>5, <4>1 DEF createDockerImageApp, Proceeds
        <3>2. CASE \E locals : Proceeds("call", locals)
            BY <3>2 DEF Proceeds
        <3>3. CASE ~(\/ createDockerImageApp \/ CreateBucket \/ destroyApp \/ waitAppGone \/ AwaitListed
                     \/ findAppByName)
            <4>1. \/ Proceeds("call", Call) \/ (\E x : Proceeds("call", [Call EXCEPT !.secret = x]))
                  \/ (\E x : Proceeds("call", [Call EXCEPT !.key = x]))
                BY <3>3 DEF Requests, Plainly, Specially, RegisterProject, AllowKey, Save, Clear,
                   RemoveKey, RemoveBucket, setEnv, deployApp, ensureHostDns, destroyHostDns,
                   RegisterTenant, DeregisterTenant, RunContainer, RemoveContainer, prepareAuth,
                   ReadSecret, MintKey, StoreKey, Forget
            <4> QED
                BY <3>2, <4>1
        <3> QED
            BY <3>1, <3>3, <3>5
    <2> QED
        BY <1>2, <2>1 DEF Resumes, Callers
<1>4. UNCHANGED <<shape, drift>> /\ hurt \subseteq hurt'
    BY DEF Requests, Plainly, Specially, RegisterProject, AllowKey, Save, Clear, RemoveKey,
       RemoveBucket, findAppByName, createDockerImageApp, AwaitListed, setEnv, deployApp, destroyApp,
       waitAppGone, ensureHostDns, destroyHostDns, RegisterTenant, DeregisterTenant, RunContainer,
       RemoveContainer, prepareAuth, ReadSecret, CreateBucket, MintKey, StoreKey, Forget
<1>5. mode' = mode
    BY <1>1 DEF Progress
<1>6. /\ \A q \in Projects : q # P => row'[q] = row[q]
      /\ ~Forget => (row[P].there => row'[P].there)
    <2>1. \/ row' = row \/ \E r : row' = [row EXCEPT ![P] = r]
        BY DEF Requests, Plainly, Specially, RegisterProject, AllowKey, Save, Clear, RemoveKey,
           RemoveBucket, findAppByName, createDockerImageApp, AwaitListed, setEnv, deployApp,
           destroyApp, waitAppGone, ensureHostDns, destroyHostDns, RegisterTenant,
           DeregisterTenant, RunContainer, RemoveContainer, prepareAuth, ReadSecret, CreateBucket,
           MintKey, StoreKey, Forget
    <2>2. row \in [Projects -> [there: BOOLEAN, secret: Secrets, key: 0 .. minted, url: SUBSET Services]]
        BY Typed DEF RowTyped
    <2>3. ~Forget => (row[P].there => row'[P].there)
        <3>1. CASE Plainly
            BY <1>2, <3>1, PlainRows DEF RowsKept
        <3>2. CASE prepareAuth
            BY <1>2, <2>2, <3>2 DEF prepareAuth, Throws, Abandon
        <3>3. CASE StoreKey
            BY <1>2, <2>2, <3>3 DEF StoreKey
        <3>4. CASE ReadSecret \/ CreateBucket \/ MintKey
            BY <3>4 DEF ReadSecret, CreateBucket, MintKey, Throws, Abandon
        <3> QED
            BY <3>1, <3>2, <3>3, <3>4 DEF Requests, Specially
    <2> QED
        BY <2>1, <2>2, <2>3
<1>7. ASSUME NEW u \in Uuids
      PROVE  app'[u] = app[u] \/ (app'[u].of = <<P, S>> /\ app[u].of \in {<<>>, <<P, S>>})
    <2>1. app \in [Uuids -> Apps] /\ \A v \in Uuids : Sound(app[v])
        BY Typed DEF AppTyped, Apps, Sound
    <2>2. CASE createDockerImageApp
        <3>1. CASE Call.app = None
            <4>1. PICK v \in Free : Sets(v, [NoApp EXCEPT !.of = <<P, S>>, !.shape = shape])
                BY <2>2, <3>1, Bounds DEF createDockerImageApp, Takes
            <4>2. [NoApp EXCEPT !.of = <<P, S>>, !.shape = shape].of = <<P, S>>
                BY DEF NoApp
            <4>3. v \in Uuids /\ app[v].of = <<>>
                BY DEF Free
            <4> QED
                BY <2>1, <4>1, <4>2, <4>3 DEF Sets
        <3>2. CASE Takes(Call.app) /\ Sets(Call.app, [app[Call.app] EXCEPT !.shape = shape])
            <4>1. app'[Call.app].of = app[Call.app].of /\ Call.app \in Uuids
                BY <2>1, <3>2 DEF Sets, Takes, Apps
            <4>2. app[Call.app].of = <<P, S>>
                <5>1. app[Call.app].of \in Projects \X Routed
                    BY <2>1, <3>2 DEF Takes, Sound, Apps
                <5>2. PICK p \in Projects, s \in Routed : app[Call.app].of = <<p, s>>
                    BY <5>1
                <5> QED
                    BY <1>1, <4>1, <5>2, OwnApp
            <4> QED
                BY <2>1, <3>2, <4>1, <4>2 DEF Sets
        <3> QED
            BY <2>2, <3>1, <3>2 DEF createDockerImageApp, Requests, Plainly, Specially, prepareAuth,
               ReadSecret, CreateBucket, MintKey, StoreKey, Forget, Does
    <2>3. CASE setEnv \/ deployApp
        <3>1. Takes(Call.app) /\ \E a : Sets(Call.app, a) /\ a.of = app[Call.app].of
            <4>1. CASE setEnv
                <5>1. ~Throws("call")
                    BY <4>1 DEF Requests, Plainly, Specially, setEnv, prepareAuth,
                       ReadSecret, CreateBucket, MintKey, StoreKey, Forget, Does
                <5>2. Takes(Call.app) /\ Sets(Call.app, [app[Call.app] EXCEPT !.env = <<Call.secret, Call.key>>])
                    BY <4>1, <5>1 DEF setEnv
                <5> QED
                    BY <2>1, <5>2 DEF Takes, Apps
            <4>2. CASE deployApp
                BY <2>1, <4>2 DEF deployApp, Deployed, Takes, Apps
            <4> QED
                BY <2>3, <4>1, <4>2
        <3>2. app[Call.app].of \in Projects \X Routed
            BY <2>1, <3>1 DEF Takes, Sound, Apps
        <3>3. PICK p \in Projects, s \in Routed : app[Call.app].of = <<p, s>>
            BY <3>2
        <3>4. app[Call.app].of = <<P, S>> /\ Call.app \in Uuids
            BY <1>1, <3>1, <3>3, OwnApp DEF Takes
        <3> QED
            BY <2>1, <3>1, <3>4 DEF Sets
    <2>4. CASE destroyApp
        <3>1. \/ app' = app
              \/ \E v \in Listed(P, S) : Sets(v, [app[v] EXCEPT !.deleting = TRUE, !.run = <<>>])
            BY <2>4 DEF destroyApp
        <3> QED
            BY <2>1, <3>1 DEF Sets, Listed, Named, Apps
    <2>5. CASE ~createDockerImageApp /\ ~setEnv /\ ~deployApp /\ ~destroyApp
        <3>1. app' = app
            BY <2>5 DEF Requests, Plainly, Specially, RegisterProject, AllowKey, Save, Clear, RemoveKey,
               RemoveBucket, findAppByName, AwaitListed, waitAppGone, ensureHostDns, destroyHostDns,
               RegisterTenant, DeregisterTenant, RunContainer, RemoveContainer, prepareAuth,
               ReadSecret, CreateBucket, MintKey, StoreKey, Forget
        <3> QED
            BY <3>1
    <2> QED
        BY <2>2, <2>3, <2>4, <2>5
<1> QED
    BY <1>1, <1>2, <1>3, <1>4, <1>5, <1>6, <1>7

\* A call forgets where nothing is left to remove.
LEMMA ForgetAlone ==
    ASSUME TypeOK, Ordered, InCourse(Call.todo), Busy("call"), Now("call").do = "forget"
    PROVE  /\ Has(Call.todo, "forget", P, "auth") /\ S = "auth"
           /\ \A p, s : ~Has(Call.todo, "remove", p, s)
<1> DEFINE t == Call.todo
<1>1. /\ t \in Seq(StepRecords) /\ Now("call") = t[1] /\ 1 \in DOMAIN t /\ Now("call") \in StepRecords
      /\ InCourse(t)
    BY NextStep, CallTyped DEF Callers, Call, Locals
<1> HIDE DEF t
<1>2. t[1].do = "forget" /\ Len(t) = 1 /\ t[1].s = "auth"
    <2>1. \A i \in DOMAIN t : t[i].do = "forget" => i = Len(t) /\ t[i].s = "auth"
        BY <1>1 DEF InCourse
    <2>2. t[1].do = "forget"
        BY <1>1
    <2> QED
        BY <1>1, <2>1, <2>2
<1>3. \A i \in DOMAIN t : i = 1
    BY <1>1, <1>2
<1>4. t[1] = [do |-> "forget", p |-> t[1].p, s |-> "auth"]
    BY <1>1, <1>2 DEF StepRecords
<1> QED
    BY <1>1, <1>2, <1>3, <1>4 DEF Has, P, S, t

\* The calls on a project that is not hurt skip no more than they should.
Straight(n) ==
    /\ Progress(n)
    /\ n = 1 \/ (n = 2 /\ Now("call").do \in {"create", "remove"}) \/ (n = 4 /\ Now("call").do = "bucket")

\* A request of a call that did not fail goes on to the next step, or where the code skips.
LEMMA RequestStraight ==
    ASSUME TypeOK, Requests, P \notin hurt', \A s \in Routed : Fine(P, s)
    PROVE  /\ \E n : Straight(n)
           /\ ~createDockerImageApp /\ ~destroyApp /\ ~CreateBucket => Straight(1)
<1>1. Busy("call") /\ \E n : Progress(n)
    BY Plain, SpecialApps DEF Requests
<1>2. Call \in Locals(minted) /\ mode' = mode
    BY <1>1, CallTyped DEF Progress
<1>3. CASE destroyApp
    <2>1. \/ Resumes("call", Call, Skip("call", 1)) \/ Resumes("call", Call, Skip("call", 2))
          \/ \E u \in Listed(P, S) : app[u].deleting
        BY <1>3 DEF destroyApp, Proceeds
    <2>2. ~ \E u \in Listed(P, S) : app[u].deleting
        <3> SUFFICES ASSUME NEW u \in Listed(P, S), app[u].deleting PROVE FALSE
            OBVIOUS
        <3>1. u \in Uuids /\ app[u].of = <<P, S>> /\ app[u].listed
            BY DEF Listed, Named
        <3>2. S \in Routed
            BY <3>1, Typed DEF AppTyped
        <3>3. P \notin hurt
            BY <1>3 DEF destroyApp, AppFrame, Framed, ghosts
        <3>4. GoesIn(Call, P, S)
            BY <3>1, <3>2, <3>3 DEF Fine, FineIn, SoleIn, NamedIn, Call
        <3> QED
            BY <1>3, <3>4 DEF GoesIn, DoesIn, destroyApp, Does, Now, Call
    <2>3. Now("call").do = "remove"
        BY <1>3 DEF destroyApp, Does
    <2>4. caller'["call"].todo = Skip("call", 1) \/ caller'["call"].todo = Skip("call", 2)
        BY <1>1, <1>2, <2>1, <2>2, CallResumes
    <2>5. "remove" \in DOMAIN Removal
        BY DEF Removal
    <2> QED
        BY <1>1, <1>2, <1>3, <2>3, <2>4, <2>5 DEF Straight, Progress
<1>4. CASE createDockerImageApp
    <2>1. Now("call").do = "create" /\ "create" \notin DOMAIN Removal
        BY <1>4 DEF createDockerImageApp, Does, Removal
    <2> QED
        BY <1>1, <1>4, <2>1 DEF Straight, Progress
<1>5. CASE CreateBucket
    <2>1. Now("call").do = "bucket" /\ "bucket" \notin DOMAIN Removal
        BY <1>5 DEF CreateBucket, Does, Removal
    <2> QED
        BY <1>1, <1>5, <2>1 DEF Straight, Progress
<1>6. CASE ~destroyApp /\ ~createDockerImageApp /\ ~CreateBucket
    <2>1. CASE Now("call").do \notin DOMAIN Removal \cup {"create", "bucket"}
        BY <1>1, <2>1 DEF Straight, Progress
    <2>2. CASE Now("call").do \in DOMAIN Removal \cup {"create", "bucket"}
        <3>1. waitAppGone \/ destroyHostDns
            BY <1>6, <2>2 DEF Requests, Plainly, Specially, RegisterProject, AllowKey, Save, Clear,
               RemoveKey, RemoveBucket, findAppByName, AwaitListed, setEnv, deployApp,
               ensureHostDns, RegisterTenant, DeregisterTenant, RunContainer, RemoveContainer,
               prepareAuth, ReadSecret, MintKey, StoreKey, Forget, Does, Removal
        <3>2. Resumes("call", Call, Skip("call", 1))
            BY <3>1 DEF waitAppGone, destroyHostDns, Proceeds
        <3>3. caller'["call"].todo = Skip("call", 1)
            BY <1>1, <1>2, <3>2, CallResumes
        <3> QED
            BY <1>1, <1>2, <3>3 DEF Straight, Progress
    <2> QED
        BY <2>1, <2>2
<1> QED
    BY <1>3, <1>4, <1>5, <1>6

\* What a call does on its project, going on or ending, leaves the others.
LEMMA OtherProjects ==
    ASSUME Courses, Busy("call"), caller'["call"].todo = <<>> \/ \E n : Progress(n),
           NEW p \in Projects, NEW s \in Routed, p # P, Fine(p, s),
           NEW h, hurt \subseteq h, NEW d, drift \subseteq d
    PROVE  FineIn(app, caller'["call"], caller["sweep"], shape, row[p], mode, h, d, p, s)
<1> DEFINE c == caller["call"]
           x == caller'["call"]
<1>1. Call = c /\ P = Head(c.todo).p
    BY DEF Call, P, Now
<1>2. \A u \in NamedIn(app, p, s) : ~AwaitsIn(c, u) /\ ~DeploysIn(c, u)
    <2> SUFFICES ASSUME NEW u \in NamedIn(app, p, s), c.app = u PROVE FALSE
        BY DEF AwaitsIn, DeploysIn
    <2>1. u \in Uuids /\ app[u].of = <<p, s>>
        BY DEF NamedIn
    <2> QED
        BY <1>1, <2>1, OwnApp DEF Courses, ServicesInv
<1>3. ~GoesIn(c, p, s)
    BY <1>1 DEF GoesIn
<1>4. ~CreatesIn(x, p, s) /\ ~Has(x.todo, "forget", p, "auth")
    <2>1. CASE x.todo = <<>>
        BY <2>1 DEF CreatesIn, DoesIn, Has
    <2>2. ASSUME NEW n, Progress(n)
          PROVE  ~CreatesIn(x, p, s) /\ ~Has(x.todo, "forget", p, "auth")
        BY <2>2, Advance, StillLeft DEF CreatesIn, DoesIn, Courses, ServicesInv
    <2> QED
        BY <2>1, <2>2
<1> QED
    BY <1>2, <1>3, <1>4, CallMoves DEF Fine, RemovesIn

\* A request on one service leaves the others as they are.
LEMMA Elsewhere ==
    ASSUME Courses, Requests, \A p \in Projects, s \in Routed : Fine(p, s),
           NEW p \in Projects, NEW s \in Routed, <<p, s>> # <<P, S>>
    PROVE  FineNext(p, s)
<1> DEFINE c == caller["call"]
           x == caller'["call"]
           w == caller["sweep"]
<1>1. /\ Busy("call") /\ P \in Projects /\ caller'["sweep"] = w /\ UNCHANGED <<mode, shape, drift>>
      /\ hurt \subseteq hurt'
      /\ p # P => row'[p] = row[p]
      /\ ~Forget => (row[P].there => row'[P].there)
      /\ \A u \in Uuids : app'[u] = app[u] \/ (app'[u].of = <<P, S>> /\ app[u].of \in {<<>>, <<P, S>>})
    BY RequestFrame DEF Courses, ServicesInv
<1>2. NamedIn(app', p, s) = NamedIn(app, p, s) /\ \A u \in NamedIn(app, p, s) : app'[u] = app[u]
    BY <1>1 DEF NamedIn
<1>3. SUFFICES ASSUME p \notin hurt'
               PROVE  FineIn(app, x, w, shape, row'[p], mode, hurt', drift, p, s)
    <2>1. p \in hurt' => FineNext(p, s)
        BY DEF FineNext, FineIn
    <2>2. ASSUME FineIn(app, x, w, shape, row'[p], mode, hurt', drift, p, s)
          PROVE  FineIn(app', x, w, shape, row'[p], mode, hurt', drift, p, s)
        BY <1>2, <2>2, SameApps
    <2> QED
        BY <1>1, <1>3, <2>1, <2>2 DEF FineNext
<1>4. p \notin hurt /\ SoleIn(app, c, shape, row[p], mode, p, s)
    BY <1>1, <1>3 DEF Fine, FineIn
<1>5. Call = c /\ P = Head(c.todo).p /\ S = Head(c.todo).s /\ Now("call") = Head(c.todo)
    BY DEF Call, P, S, Now
<1>6. \A u \in NamedIn(app, p, s) : ~AwaitsIn(c, u) /\ ~DeploysIn(c, u)
    <2> SUFFICES ASSUME NEW u \in NamedIn(app, p, s), c.app = u PROVE FALSE
        BY DEF AwaitsIn, DeploysIn
    <2>1. u \in Uuids /\ app[u].of = <<p, s>>
        BY DEF NamedIn
    <2> QED
        BY <1>1, <1>5, <2>1, OwnApp DEF Courses, ServicesInv
<1>7. ~GoesIn(c, p, s)
    BY <1>5 DEF GoesIn
<1>8. CASE p # P
    <2>1. \E n : Progress(n)
        BY RequestFrame DEF Courses, ServicesInv
    <2> QED
        BY <1>1, <1>8, <2>1, OtherProjects
<1>9. CASE p = P
    <2>1. PICK n : Straight(n)
        BY <1>3, <1>9, RequestStraight DEF Courses, ServicesInv
    <2>2. s # S /\ Progress(n)
        BY <1>9, <2>1 DEF Straight
    <2>3. ~CreatesIn(x, p, s)
        BY <1>5, <2>2, Advance DEF CreatesIn, DoesIn, Courses, ServicesInv
    <2>4. RemovesIn(app, x, p, s)
        <3> SUFFICES ASSUME Has(x.todo, "forget", p, "auth")
                     PROVE  NamedIn(app, p, s) = {} \/ Has(x.todo, "remove", p, s)
            BY DEF RemovesIn
        <3>1. Has(c.todo, "forget", p, "auth") /\ Now("call").do \notin {"create", "bucket"}
            BY <1>5, <2>2, StillLeft DEF Courses, ServicesInv
        <3>2. NamedIn(app, p, s) = {} \/ Has(c.todo, "remove", p, s)
            BY <1>4, <1>7, <3>1 DEF SoleIn, RemovesIn
        <3>3. n = 1 \/ (n = 2 /\ Now("call").do = "remove")
            BY <2>1, <3>1 DEF Straight
        <3>4. Now("call") # [do |-> "remove", p |-> p, s |-> s]
            BY <1>5, <2>2
        <3> QED
            BY <1>5, <2>2, <3>2, <3>3, <3>4, StillLeft DEF Courses, ServicesInv
    <2>5. ~row'[p].there => ~row[p].there \/ NamedIn(app, p, s) = {}
        <3>1. CASE Forget
            <4>1. Now("call").do = "forget"
                BY <3>1 DEF Forget, Does
            <4>2. Has(c.todo, "forget", p, "auth") /\ ~Has(c.todo, "remove", p, s)
                BY <1>1, <1>5, <1>9, <4>1, ForgetAlone DEF Courses, ServicesInv
            <4> QED
                BY <1>4, <1>7, <4>2 DEF SoleIn, RemovesIn
        <3> QED
            BY <1>1, <1>9, <3>1
    <2>6. Fine(p, s)
        OBVIOUS
    <2> QED
        BY <1>1, <1>6, <1>7, <2>3, <2>4, <2>5, <2>6, CallMoves DEF Fine
<1> QED
    BY <1>8, <1>9

\* What a request finds, and leaves, of its own service.
LEMMA HereStays ==
    ASSUME Courses, Requests, S \in Routed, \A s \in Routed : Fine(P, s), P \notin hurt',
           app' = app,
           Now("call").do \notin {"create", "await", "env", "deploy", "remove", "gone", "forget"},
           Now("call").do = "find" => findAppByName
    PROVE  FineNext(P, S)
<1> DEFINE c == caller["call"]
           x == caller'["call"]
           w == caller["sweep"]
<1>1. /\ Busy("call") /\ P \in Projects /\ caller'["sweep"] = w /\ UNCHANGED <<mode, shape, drift>>
      /\ hurt \subseteq hurt'
      /\ ~Forget => (row[P].there => row'[P].there)
    BY RequestFrame DEF Courses, ServicesInv
<1>2. ~Forget
    BY DEF Forget, Does
<1>3. P \notin hurt /\ SoleIn(app, c, shape, row[P], mode, P, S) /\ Fine(P, S)
    BY <1>1 DEF Fine, FineIn
<1>4. Call = c /\ P = Head(c.todo).p /\ S = Head(c.todo).s /\ Now("call") = Head(c.todo)
    BY DEF Call, P, S, Now
<1>5. PICK n : Straight(n)
    BY RequestStraight DEF Courses, ServicesInv
<1>6. /\ ~GoesIn(c, P, S)
      /\ \A u : ~AwaitsIn(c, u) /\ ~DeploysIn(c, u)
    BY <1>4 DEF GoesIn, AwaitsIn, DeploysIn, DoesIn
<1>7. RemovesIn(app, x, P, S)
    <2> SUFFICES ASSUME Has(x.todo, "forget", P, "auth")
                 PROVE  NamedIn(app, P, S) = {} \/ Has(x.todo, "remove", P, S)
        BY DEF RemovesIn
    <2>1. Progress(n)
        BY <1>5 DEF Straight
    <2>2. Has(c.todo, "forget", P, "auth") /\ Now("call").do \notin {"create", "bucket"}
        BY <1>4, <2>1, StillLeft DEF Courses, ServicesInv
    <2>3. NamedIn(app, P, S) = {} \/ Has(c.todo, "remove", P, S)
        BY <1>3, <1>6, <2>2 DEF SoleIn, RemovesIn
    <2>4. n = 1 /\ Now("call") # [do |-> "remove", p |-> P, s |-> S]
        BY <1>5, <2>2 DEF Straight
    <2> QED
        BY <1>4, <2>1, <2>3, <2>4, StillLeft DEF Courses, ServicesInv
<1>8. CreatesIn(x, P, S) => NamedIn(app, P, S) = {}
    <2> SUFFICES ASSUME CreatesIn(x, P, S) PROVE NamedIn(app, P, S) = {}
        OBVIOUS
    <2>1. findAppByName
        BY <1>5, Advance DEF CreatesIn, Straight, Courses, ServicesInv
    <2>2. PICK u \in IF Listed(P, S) = {} THEN {None} ELSE Listed(P, S) :
             Proceeds("call", [Call EXCEPT !.app = u])
        BY <2>1 DEF findAppByName
    <2>3. u \in Uuids \cup {None} /\ (u = None => Listed(P, S) = {})
        BY <2>2, Bounds DEF Listed, Named
    <2>4. x.app = u
        <3> DEFINE l == [Call EXCEPT !.app = u]
        <3>1. l \in Locals(minted) /\ l.app = u
            BY <1>1, <2>3, CallTyped DEF Locals, Courses, ServicesInv
        <3>2. Resumes("call", l, Skip("call", 1)) /\ 1 \in Nat \ {0}
            BY <2>2 DEF Proceeds
        <3> HIDE DEF l
        <3>3. x.todo = Skip("call", 1) /\ (Skip("call", 1) # <<>> => x.app = l.app)
            BY <1>1, <3>1, <3>2, CallResumes DEF Courses, ServicesInv
        <3> QED
            BY <3>1, <3>3 DEF CreatesIn, DoesIn
    <2>5. Listed(P, S) = {}
        BY <2>3, <2>4 DEF CreatesIn
    <2> QED
        BY <1>3, <1>6, <2>5 DEF SoleIn, NamedIn, Listed, Named
<1>9. FineIn(app, x, w, shape, row'[P], mode, hurt', drift, P, S)
    BY <1>1, <1>2, <1>3, <1>6, <1>7, <1>8, CallMoves DEF Fine
<1> QED
    BY <1>1, <1>9 DEF FineNext

\* An application is created where there is none.
LEMMA HereCreates ==
    ASSUME Courses, Requests, createDockerImageApp, S \in Routed, \A s \in Routed : Fine(P, s),
           P \notin hurt'
    PROVE  FineNext(P, S)
<1> DEFINE c == caller["call"]
           x == caller'["call"]
           w == caller["sweep"]
<1>1. /\ Busy("call") /\ P \in Projects /\ caller'["sweep"] = w /\ UNCHANGED <<mode, shape, drift>>
      /\ hurt \subseteq hurt' /\ row' = row /\ Now("call").do = "create"
    BY RequestFrame DEF Courses, ServicesInv, createDockerImageApp, AppFrame, Throws, Abandon, Does
<1>2. P \notin hurt /\ SoleIn(app, c, shape, row[P], mode, P, S) /\ Fine(P, S)
    BY <1>1 DEF Fine, FineIn
<1>3. Call = c /\ P = Head(c.todo).p /\ S = Head(c.todo).s /\ Now("call") = Head(c.todo)
    BY DEF Call, P, S, Now
<1>4. app \in [Uuids -> Apps] /\ Call \in Locals(minted) /\ TypeOK
    BY <1>1, Typed, CallTyped DEF AppTyped, Apps, Courses, ServicesInv
<1>5. PICK n : Progress(n)
    BY RequestFrame DEF Courses, ServicesInv
<1>6. /\ ~Has(x.todo, "forget", P, "auth") /\ mode # "docker"
      /\ n = 1 => DoesIn(x, "await")
      /\ n = 2 => DoesIn(x, "env")
      /\ ~DoesIn(x, "create")
    BY <1>1, <1>3, <1>5, Advance, StillLeft DEF Courses, ServicesInv
<1>7. ~CreatesIn(x, P, S) /\ RemovesIn(app', x, P, S)
    BY <1>6 DEF CreatesIn, RemovesIn
<1>8. ~Throws("call")
    BY <1>1 DEF Requests, Plainly, Specially, prepareAuth, ReadSecret, CreateBucket, MintKey, StoreKey,
       Forget, Does
<1>9. CASE Call.app = None
    <2>1. NamedIn(app, P, S) = {}
        BY <1>1, <1>2, <1>3, <1>9 DEF SoleIn, CreatesIn, DoesIn, Busy
    <2>2. PICK v \in Free : /\ Sets(v, [NoApp EXCEPT !.of = <<P, S>>, !.shape = shape])
                            /\ Proceeds("call", [Call EXCEPT !.app = v])
        BY <1>8, <1>9, Bounds DEF createDockerImageApp, Takes
    <2> DEFINE b == [NoApp EXCEPT !.of = <<P, S>>, !.shape = shape]
               l == [Call EXCEPT !.app = v]
    <2>3. b.of = <<P, S>> /\ b.listed = FALSE /\ b.deleting = FALSE /\ b.shape = shape /\ b.run = <<>>
        BY DEF NoApp
    <2>4. v \in Uuids /\ l \in Locals(minted) /\ l.app = v
        BY <1>4 DEF Free, Locals
    <2>5. app'[v] = b /\ \A u \in Uuids : u # v => app'[u] = app[u]
        BY <1>4, <2>2, <2>4 DEF Sets
    <2>6. Resumes("call", l, Skip("call", 1)) /\ 1 \in Nat \ {0}
        BY <2>2 DEF Proceeds
    <2> HIDE DEF b, l
    <2>7. x.todo = Skip("call", 1) /\ (Skip("call", 1) # <<>> => x.app = v)
        BY <1>1, <1>4, <2>4, <2>6, CallResumes
    <2>8. DoesIn(x, "await") /\ x.app = v
        <3>1. Progress(1)
            BY <1>5, <2>7 DEF Progress
        <3>2. DoesIn(x, "await")
            BY <1>1, <3>1, Advance DEF Courses, ServicesInv
        <3> QED
            BY <2>7, <3>2 DEF DoesIn
    <2>9. NamedIn(app', P, S) = {v}
        BY <2>1, <2>3, <2>4, <2>5 DEF NamedIn
    <2>10. row[P].there
        <3> DEFINE t == Call.todo
        <3>1. /\ t \in Seq(StepRecords) /\ Now("call") = t[1] /\ 1 \in DOMAIN t
              /\ InCourse(t) /\ InOrder(t)
            BY <1>1, <1>4, NextStep DEF Callers, Call, Locals, Courses, ServicesInv, Ordered
        <3>2. /\ \A i \in DOMAIN t : t[i].do \in Uses =>
                    \/ \E j \in 1 .. i - 1 : t[j].do \in {"read", "secret"}
                    \/ Ready(t[i].p, t[i].s)
            BY DEF Courses, ServicesInv, Informed
        <3> HIDE DEF t
        <3>3. 3 \in DOMAIN t /\ t[3].do = "env" /\ t[3].p = t[1].p
            <4>1. \A i \in DOMAIN t : t[i].do = "create" => i + 2 \in DOMAIN t /\ t[i + 2].do = "env"
                BY <3>1 DEF InCourse
            <4>2. \A i, j \in DOMAIN t : t[j].p = t[i].p
                BY <3>1 DEF InOrder
            <4>3. t[1].do = "create"
                BY <1>1, <3>1
            <4>4. 1 + 2 \in DOMAIN t /\ t[1 + 2].do = "env"
                BY <3>1, <4>1, <4>3
            <4>5. 3 \in DOMAIN t /\ t[3].do = "env"
                BY <4>4
            <4> QED
                BY <3>1, <4>2, <4>5
        <3>4. t[2].do = "await" /\ t[1].do = "create"
            <4>1. t[1].do = "create"
                BY <1>1, <3>1
            <4>2. \A i \in DOMAIN t : t[i].do = "create" => i + 1 \in DOMAIN t /\ t[i + 1].do = "await"
                BY <3>1 DEF InOrder
            <4>3. t[1 + 1].do = "await"
                BY <3>1, <4>1, <4>2
            <4> QED
                BY <4>1, <4>3
        <3>5. Ready(t[3].p, t[3].s)
            <4>1. \A j \in 1 .. 3 - 1 : j = 1 \/ j = 2
                OBVIOUS
            <4>2. t[3].do \in Uses
                BY <3>3 DEF Uses
            <4> QED
                BY <3>2, <3>3, <3>4, <4>1, <4>2
        <3>6. t[1].p = P
            BY <3>1 DEF P
        <3> QED
            BY <1>1, <3>3, <3>5, <3>6 DEF Ready, RowsFilled, Courses, ServicesInv
    <2>11. SoleIn(app', x, shape, row[P], mode, P, S)
        BY <1>6, <1>7, <2>3, <2>5, <2>8, <2>9, <2>10 DEF SoleIn, AwaitsIn
    <2>12. \A u \in NamedIn(app', P, S) : RoutesIn(app', x, w, u) /\ VisitedIn(app', w, shape, P, S, u)
        BY <2>3, <2>5, <2>9 DEF RoutesIn, VisitedIn
    <2> QED
        BY <1>1, <2>11, <2>12 DEF FineNext, FineIn
<1>10. CASE Call.app # None
    <2>1. /\ Takes(Call.app) /\ Resumes("call", Call, Skip("call", 2))
          /\ Sets(Call.app, [app[Call.app] EXCEPT !.shape = shape])
        BY <1>8, <1>10 DEF createDockerImageApp
    <2> DEFINE v == Call.app
    <2>2. v \in Uuids /\ app[v].listed /\ ~app[v].deleting
        BY <2>1 DEF Takes
    <2>3. /\ app'[v].of = app[v].of /\ app'[v].shape = shape /\ app'[v].listed = app[v].listed
          /\ app'[v].deleting = app[v].deleting /\ app'[v].run = app[v].run
          /\ \A u \in Uuids : u # v => app'[u] = app[u]
        BY <1>4, <2>1, <2>2 DEF Sets, Apps
    <2> HIDE DEF v
    <2>4. x.todo = Skip("call", 2) /\ (Skip("call", 2) # <<>> => x.app = v)
        BY <1>1, <1>4, <2>1, CallResumes DEF v
    <2>5. DoesIn(x, "env") /\ x.app = v
        <3>1. Progress(2)
            BY <1>1, <1>5, <2>4 DEF Progress
        <3>2. DoesIn(x, "env")
            BY <1>1, <3>1, Advance DEF Courses, ServicesInv
        <3> QED
            BY <2>4, <3>2 DEF DoesIn
    <2>6. NamedIn(app', P, S) = NamedIn(app, P, S)
        BY <2>2, <2>3 DEF NamedIn
    <2>7. \A u \in NamedIn(app, P, S) : u = v
        <3>1. app[v].of \in Projects \X Routed
            BY <1>4, <2>2, Typed DEF AppTyped
        <3>2. PICK p \in Projects, s \in Routed : app[v].of = <<p, s>>
            BY <3>1
        <3>3. v \in NamedIn(app, P, S)
            BY <1>1, <1>4, <2>2, <3>2, OwnApp DEF NamedIn, v, Courses, ServicesInv
        <3> QED
            BY <1>2, <3>3 DEF SoleIn
    <2>8. SoleIn(app', x, shape, row[P], mode, P, S)
        BY <1>2, <1>7, <2>2, <2>3, <2>6, <2>7 DEF SoleIn
    <2>9. \A u \in NamedIn(app', P, S) : RoutesIn(app', x, w, u) /\ VisitedIn(app', w, shape, P, S, u)
        BY <2>3, <2>5, <2>6, <2>7 DEF RoutesIn, VisitedIn, DeploysIn
    <2> QED
        BY <1>1, <2>8, <2>9 DEF FineNext, FineIn
<1> QED
    BY <1>9, <1>10

\* An application that is given its environment is deployed next.
LEMMA HereDeploys ==
    ASSUME Courses, Requests, setEnv \/ deployApp, S \in Routed, \A s \in Routed : Fine(P, s),
           P \notin hurt'
    PROVE  FineNext(P, S)
<1> DEFINE c == caller["call"]
           x == caller'["call"]
           w == caller["sweep"]
           v == Call.app
<1>1. /\ Busy("call") /\ P \in Projects /\ caller'["sweep"] = w /\ UNCHANGED <<mode, shape, drift>>
      /\ hurt \subseteq hurt' /\ row' = row
      /\ Now("call").do \in {"env", "deploy"} /\ (setEnv => Now("call").do = "env")
    BY RequestFrame DEF Courses, ServicesInv, setEnv, deployApp, AppFrame, Throws, Abandon, Does
<1>2. P \notin hurt /\ SoleIn(app, c, shape, row[P], mode, P, S) /\ Fine(P, S)
    BY <1>1 DEF Fine, FineIn
<1>3. Call = c /\ P = Head(c.todo).p /\ S = Head(c.todo).s /\ Now("call") = Head(c.todo)
    BY DEF Call, P, S, Now
<1>4. app \in [Uuids -> Apps] /\ Call \in Locals(minted) /\ TypeOK
    BY <1>1, Typed, CallTyped DEF AppTyped, Apps, Courses, ServicesInv
<1>5. Plainly /\ ~Throws("call")
    BY <1>1 DEF Requests, Plainly, Specially, prepareAuth, ReadSecret, CreateBucket, MintKey, StoreKey,
       Forget, Does
<1>6. Takes(v) /\ \/ Sets(v, [app[v] EXCEPT !.env = <<Call.secret, Call.key>>]) /\ setEnv
                  \/ Sets(v, Deployed(app[v])) /\ deployApp
    BY <1>5 DEF setEnv, deployApp
<1>7. v \in Uuids /\ app[v].listed /\ ~app[v].deleting
    BY <1>6 DEF Takes
<1>8. /\ app'[v].of = app[v].of /\ app'[v].shape = app[v].shape /\ app'[v].listed = app[v].listed
      /\ app'[v].deleting = app[v].deleting
      /\ deployApp => app'[v].run[2] = app[v].shape
      /\ \A u \in Uuids : u # v => app'[u] = app[u]
    <2>1. ~(setEnv /\ deployApp)
        BY DEF setEnv, deployApp, Does
    <2> HIDE DEF v
    <2>2. CASE Sets(v, [app[v] EXCEPT !.env = <<Call.secret, Call.key>>]) /\ setEnv
        BY <1>4, <1>7, <2>1, <2>2 DEF Sets, Apps
    <2>3. CASE Sets(v, Deployed(app[v])) /\ deployApp
        BY <1>4, <1>7, <2>3 DEF Sets, Apps, Deployed
    <2> QED
        BY <1>6, <2>2, <2>3
<1>9. Progress(1)
    BY <1>1, RequestStraight DEF Straight, setEnv, deployApp, createDockerImageApp, destroyApp,
       CreateBucket, Does, Courses, ServicesInv
<1>10. /\ ~DoesIn(x, "create")
       /\ setEnv => DoesIn(x, "deploy") /\ x.app = v
    <2>1. ~DoesIn(x, "create") /\ (setEnv => DoesIn(x, "deploy"))
        BY <1>1, <1>9, Advance DEF Courses, ServicesInv
    <2>2. SameApp
        BY <1>1, <1>5, PlainApps DEF Courses, ServicesInv, findAppByName, createDockerImageApp,
           AwaitListed, Does
    <2> QED
        BY <2>1, <2>2 DEF SameApp, DoesIn
<1>11. RemovesIn(app', x, P, S)
    <2> SUFFICES ASSUME Has(x.todo, "forget", P, "auth") PROVE Has(x.todo, "remove", P, S)
        BY DEF RemovesIn
    <2>1. Has(c.todo, "forget", P, "auth")
        BY <1>3, <1>9, StillLeft DEF Courses, ServicesInv
    <2>2. \A i \in DOMAIN Call.todo : Call.todo[i].do = "forget" => i = Len(Call.todo)
        BY DEF Courses, InCourse
    <2>3. PICK i \in DOMAIN Call.todo : Call.todo[i].do = "forget"
        BY <1>3, <2>1 DEF Has
    <2>4. \A j \in DOMAIN Call.todo : Call.todo[j].do \notin Gives
        BY <2>3 DEF Courses, ServicesInv, Ordered, InOrder
    <2>5. 1 \in DOMAIN Call.todo /\ Now("call") = Call.todo[1]
        BY <1>1, <1>4, NextStep DEF Callers, Call
    <2> QED
        BY <1>1, <2>4, <2>5 DEF Gives, Uses
<1> HIDE DEF v
<1>12. NamedIn(app', P, S) = NamedIn(app, P, S)
    BY <1>7, <1>8 DEF NamedIn
<1>13. \A u \in NamedIn(app, P, S) : u = v
    <2>1. app[v].of \in Projects \X Routed
        BY <1>4, <1>7, Typed DEF AppTyped
    <2>2. PICK p \in Projects, s \in Routed : app[v].of = <<p, s>>
        BY <2>1
    <2>3. v \in NamedIn(app, P, S)
        BY <1>1, <1>4, <1>7, <2>2, OwnApp DEF NamedIn, v, Courses, ServicesInv
    <2> QED
        BY <1>2, <2>3 DEF SoleIn
<1>14. SoleIn(app', x, shape, row[P], mode, P, S)
    BY <1>2, <1>7, <1>8, <1>10, <1>11, <1>12, <1>13 DEF SoleIn, CreatesIn
<1>15. ASSUME P \notin drift, NEW u \in NamedIn(app', P, S)
       PROVE  RoutesIn(app', x, w, u) /\ VisitedIn(app', w, shape, P, S, u)
    <2>1. u = v /\ u \in NamedIn(app, P, S)
        BY <1>12, <1>13
    <2>2. VisitedIn(app, w, shape, P, S, v)
        BY <1>1, <1>2, <1>15, <2>1 DEF Fine, FineIn
    <2>3. VisitedIn(app', w, shape, P, S, v)
        BY <1>8, <2>2 DEF VisitedIn
    <2>4. RoutesIn(app', x, w, v)
        <3>1. CASE setEnv
            BY <1>10, <3>1 DEF RoutesIn, DeploysIn
        <3>2. CASE deployApp
            BY <1>8, <3>2 DEF RoutesIn
        <3> QED
            BY <3>1, <3>2
    <2> QED
        BY <2>1, <2>3, <2>4
<1> QED
    BY <1>1, <1>14, <1>15 DEF FineNext, FineIn

\* An application that is removed is waited for, and then it is gone.
LEMMA HereRemoves ==
    ASSUME Courses, Requests, AwaitListed \/ destroyApp \/ waitAppGone \/ Forget, S \in Routed,
           \A s \in Routed : Fine(P, s), P \notin hurt'
    PROVE  FineNext(P, S)
<1> DEFINE c == caller["call"]
           x == caller'["call"]
           w == caller["sweep"]
<1>1. /\ Busy("call") /\ P \in Projects /\ caller'["sweep"] = w /\ UNCHANGED <<mode, shape, drift>>
      /\ hurt \subseteq hurt' /\ hurt' = hurt /\ (~Forget => row' = row)
      /\ Now("call").do \in {"await", "remove", "gone", "forget"}
    BY RequestFrame DEF Courses, ServicesInv, AwaitListed, destroyApp, waitAppGone, Forget, AppFrame,
       Framed, ghosts, Does
<1>2. P \notin hurt /\ SoleIn(app, c, shape, row[P], mode, P, S) /\ Fine(P, S)
    BY <1>1 DEF Fine, FineIn
<1>3. Call = c /\ P = Head(c.todo).p /\ S = Head(c.todo).s /\ Now("call") = Head(c.todo)
    BY DEF Call, P, S, Now
<1>4. app \in [Uuids -> Apps] /\ Call \in Locals(minted) /\ TypeOK
    BY <1>1, Typed, CallTyped DEF AppTyped, Apps, Courses, ServicesInv
<1>5. ASSUME Now("call").do # "await", Listed(P, S) = {}
      PROVE  NamedIn(app, P, S) = {}
    BY <1>2, <1>3, <1>5 DEF SoleIn, NamedIn, Listed, Named, AwaitsIn, DoesIn
<1>6. ASSUME app' = app, NamedIn(app, P, S) = {}
      PROVE  FineNext(P, S)
    BY <1>6, NoneFine DEF FineNext
<1>7. CASE Forget
    <2>1. Now("call").do = "forget" /\ app' = app
        BY <1>7 DEF Forget, Does, outside
    <2>2. Has(c.todo, "forget", P, "auth") /\ ~Has(c.todo, "remove", P, S)
        BY <1>1, <1>3, <2>1, ForgetAlone DEF Courses, ServicesInv
    <2>3. NamedIn(app, P, S) = {}
        BY <1>2, <1>3, <2>1, <2>2 DEF SoleIn, RemovesIn, GoesIn, DoesIn
    <2> QED
        BY <1>6, <2>1, <2>3
<1>8. CASE waitAppGone
    <2>1. Listed(P, S) = {} /\ app' = app /\ Now("call").do = "gone"
        BY <1>8 DEF waitAppGone, Does
    <2> QED
        BY <1>5, <1>6, <2>1
<1>9. CASE AwaitListed
    <2>1. PICK u \in Listed(P, S) : Proceeds("call", [Call EXCEPT !.app = u])
        BY <1>9 DEF AwaitListed
    <2>2. Progress(1) /\ app' = app /\ ~Forget /\ Now("call").do = "await"
        BY <1>9, RequestStraight DEF Straight, AwaitListed, createDockerImageApp, destroyApp,
           CreateBucket, Forget, Does, Courses, ServicesInv
    <2>3. ~DoesIn(x, "create")
        BY <2>2, Advance DEF Courses, ServicesInv
    <2>4. RemovesIn(app, x, P, S)
        <3>1. Now("call") # [do |-> "remove", p |-> P, s |-> S]
            BY <2>2
        <3>2. ~GoesIn(c, P, S)
            BY <1>3, <2>2 DEF GoesIn, DoesIn
        <3> QED
            BY <1>2, <1>3, <2>2, <3>1, <3>2, StillLeft DEF Courses, ServicesInv, SoleIn, RemovesIn
    <2>5. \A v \in NamedIn(app, P, S) : app[v].listed
        BY <1>2 DEF SoleIn, Listed, Named, NamedIn
    <2>6. FineIn(app, x, w, shape, row[P], mode, hurt', drift, P, S)
        BY <1>1, <1>2, <1>3, <2>2, <2>3, <2>4, <2>5, CallMoves
        DEF Fine, GoesIn, DeploysIn, CreatesIn, DoesIn
    <2> QED
        BY <1>1, <2>2, <2>6 DEF FineNext
<1>10. CASE destroyApp
    <2>1. Now("call").do = "remove" /\ ~Forget
        BY <1>10 DEF destroyApp, Forget, Does
    <2>2. CASE app' = app /\ Listed(P, S) = {}
        BY <1>5, <1>6, <2>1, <2>2
    <2>3. ASSUME NEW u \in Listed(P, S), app[u].deleting
          PROVE  FALSE
        <3>1. GoesIn(c, P, S)
            BY <1>2, <2>3 DEF SoleIn, NamedIn, Listed, Named
        <3> QED
            BY <1>3, <2>1, <3>1 DEF GoesIn, DoesIn
    <2>4. ASSUME NEW u \in Listed(P, S), Proceeds("call", Call),
                 Sets(u, [app[u] EXCEPT !.deleting = TRUE, !.run = <<>>])
          PROVE  FineNext(P, S)
        <3>1. u \in Uuids /\ app[u].listed /\ u \in NamedIn(app, P, S)
            BY DEF Listed, Named, NamedIn
        <3>2. /\ app'[u].of = app[u].of /\ app'[u].shape = app[u].shape
              /\ app'[u].listed = app[u].listed /\ app'[u].run = <<>>
              /\ \A v \in Uuids : v # u => app'[v] = app[v]
            BY <1>4, <2>4, <3>1 DEF Sets, Apps
        <3>3. Resumes("call", Call, Skip("call", 1)) /\ 1 \in Nat \ {0}
            BY <2>4 DEF Proceeds
        <3>4. x.todo = Skip("call", 1)
            BY <1>1, <1>4, <3>3, CallResumes
        <3>5. Progress(1)
            BY <1>1, <3>4 DEF Progress
        <3>6. x.todo # <<>> /\ Head(x.todo) = [do |-> "gone", p |-> P, s |-> S]
            BY <2>1, <3>5, Advance DEF Courses, ServicesInv
        <3>7. GoesIn(x, P, S) /\ ~CreatesIn(x, P, S)
            BY <3>6 DEF GoesIn, DoesIn, CreatesIn
        <3>8. NamedIn(app', P, S) = NamedIn(app, P, S) /\ \A v \in NamedIn(app, P, S) : v = u
            BY <1>2, <3>1, <3>2 DEF NamedIn, SoleIn
        <3>9. SoleIn(app', x, shape, row[P], mode, P, S)
            BY <1>2, <3>1, <3>2, <3>7, <3>8 DEF SoleIn, RemovesIn
        <3>10. ASSUME P \notin drift
               PROVE  RoutesIn(app', x, w, u) /\ VisitedIn(app', w, shape, P, S, u)
            <4>1. VisitedIn(app, w, shape, P, S, u)
                BY <1>1, <1>2, <3>1, <3>10 DEF Fine, FineIn
            <4> QED
                BY <3>2, <4>1 DEF RoutesIn, VisitedIn
        <3> QED
            BY <1>1, <2>1, <3>8, <3>9, <3>10 DEF FineNext, FineIn
    <2> QED
        BY <1>10, <2>2, <2>3, <2>4 DEF destroyApp
<1> QED
    BY <1>7, <1>8, <1>9, <1>10

\* A request keeps what is fine.
LEMMA RequestFine ==
    ASSUME Courses, Requests, \A p \in Projects, s \in Routed : Fine(p, s)
    PROVE  \A p \in Projects, s \in Routed : FineNext(p, s)
<1> SUFFICES ASSUME NEW p \in Projects, NEW s \in Routed PROVE FineNext(p, s)
    OBVIOUS
<1>1. CASE <<p, s>> # <<P, S>>
    BY <1>1, Elsewhere
<1>2. CASE p \in hurt'
    BY <1>2 DEF FineNext, FineIn
<1>3. CASE <<p, s>> = <<P, S>> /\ p \notin hurt'
    <2>1. p = P /\ s = S /\ S \in Routed /\ P \notin hurt' /\ P \in Projects
        BY <1>3
    <2>2. CASE createDockerImageApp \/ setEnv \/ deployApp
        BY <2>1, <2>2, HereCreates, HereDeploys
    <2>3. CASE AwaitListed \/ destroyApp \/ waitAppGone \/ Forget
        BY <2>1, <2>3, HereRemoves
    <2>4. CASE /\ ~createDockerImageApp /\ ~setEnv /\ ~deployApp
               /\ ~AwaitListed /\ ~destroyApp /\ ~waitAppGone /\ ~Forget
        <3>1. app' = app
            BY <2>4 DEF Requests, Plainly, Specially, RegisterProject, AllowKey, Save, Clear, RemoveKey,
               RemoveBucket, findAppByName, ensureHostDns, destroyHostDns, RegisterTenant,
               DeregisterTenant, RunContainer, RemoveContainer, prepareAuth, ReadSecret,
               CreateBucket, MintKey, StoreKey, Framed, AppFrame, outside
        <3>2. Now("call").do \notin {"create", "await", "env", "deploy", "remove", "gone", "forget"}
            BY <2>4 DEF Requests, Plainly, Specially, RegisterProject, AllowKey, Save, Clear, RemoveKey,
               RemoveBucket, findAppByName, ensureHostDns, destroyHostDns, RegisterTenant,
               DeregisterTenant, RunContainer, RemoveContainer, prepareAuth, ReadSecret,
               CreateBucket, MintKey, StoreKey, Does
        <3>3. Now("call").do = "find" => findAppByName
            BY <2>4 DEF Requests, Plainly, Specially, RegisterProject, AllowKey, Save, Clear, RemoveKey,
               RemoveBucket, ensureHostDns, destroyHostDns, RegisterTenant,
               DeregisterTenant, RunContainer, RemoveContainer, prepareAuth, ReadSecret,
               CreateBucket, MintKey, StoreKey, Does
        <3> QED
            BY <2>1, <3>1, <3>2, <3>3, HereStays
    <2> QED
        BY <2>2, <2>3, <2>4
<1> QED
    BY <1>1, <1>2, <1>3

-----------------------------------------------------------------------------
(* 5. The other steps.                                                     *)

\* What comes after the step a sweep makes, or the three it skips.
LEMMA SweepAdvance ==
    ASSUME TypeOK, InThrees(Sweep.todo), Busy("sweep"), NEW n \in {1, 3},
           n = 3 => Now("sweep").do = "look", caller'["sweep"].todo = Skip("sweep", n)
    PROVE  LET now == Now("sweep")
               x   == caller'["sweep"]
           IN
           /\ InThrees(x.todo)
           /\ now.do = "look" /\ n = 1 =>
                 x.todo # <<>> /\ Head(x.todo) = [do |-> "patch", p |-> now.p, s |-> now.s]
           /\ now.do = "patch" =>
                 x.todo # <<>> /\ Head(x.todo) = [do |-> "redeploy", p |-> now.p, s |-> now.s]
           /\ n = 3 \/ now.do = "redeploy" => ~DoesIn(x, "patch") /\ ~DoesIn(x, "redeploy")
           /\ \A p, s : Has(Sweep.todo, "look", p, s) =>
                 Has(x.todo, "look", p, s) \/ now = [do |-> "look", p |-> p, s |-> s]
<1> DEFINE t == Sweep.todo
           u == caller'["sweep"].todo
           now == Now("sweep")
<1>1. /\ t \in Seq(StepRecords) /\ now = t[1] /\ 1 \in DOMAIN t /\ n \in Nat \ {0}
      /\ u = SubSeq(t, n + 1, Len(t)) /\ InThrees(t) /\ (n = 3 => t[1].do = "look")
    <2>1. /\ caller["sweep"] \in Locals(minted) /\ now = caller["sweep"].todo[1]
          /\ 1 \in DOMAIN caller["sweep"].todo
        BY NextStep DEF Callers
    <2>2. n \in Nat \ {0} /\ u = SubSeq(caller["sweep"].todo, n + 1, Len(caller["sweep"].todo))
        BY DEF Skip
    <2> QED
        BY <2>1, <2>2 DEF Sweep, Locals
<1>2. /\ u \in Seq(StepRecords)
      /\ \A i \in DOMAIN u : i \in Nat \ {0} /\ i + n \in DOMAIN t /\ u[i] = t[i + n]
      /\ \A i \in Nat \ {0} : i + n \in DOMAIN t => i \in DOMAIN u
    <2> HIDE DEF t, u, now
    <2> QED
        BY ONLY <1>1, Skipped
<1>3. InThrees(u)
    BY <1>1, LeftInThrees
<1>4. \A i : i \in DOMAIN u => u # <<>>
    OBVIOUS
<1>5. u # <<>> => 1 \in DOMAIN u /\ Head(u) = u[1]
    BY <1>2
<1> HIDE DEF t, u, now
<1>6. /\ n + 1 \in DOMAIN t => u # <<>> /\ Head(u) = t[n + 1]
      /\ u # <<>> => n + 1 \in DOMAIN t /\ Head(u) = t[n + 1]
    <2>1. n + 1 \in DOMAIN t => 1 \in DOMAIN u
        BY <1>1, <1>2
    <2>2. 1 \in DOMAIN u => 1 + n \in DOMAIN t /\ u[1] = t[1 + n] /\ 1 + n = n + 1
        BY <1>1, <1>2
    <2> QED
        BY <1>4, <1>5, <2>1, <2>2
<1>7. /\ \A i \in DOMAIN t : t[i].do = "look" =>
            /\ i + 2 \in DOMAIN t
            /\ t[i + 1] = [do |-> "patch", p |-> t[i].p, s |-> t[i].s]
            /\ t[i + 2] = [do |-> "redeploy", p |-> t[i].p, s |-> t[i].s]
      /\ \A i \in DOMAIN t : t[i].do = "patch" =>
            i + 1 \in DOMAIN t /\ t[i + 1] = [do |-> "redeploy", p |-> t[i].p, s |-> t[i].s]
      /\ \A i \in DOMAIN t : i > 1 => /\ t[i].do = "patch" => t[i - 1].do = "look"
                                      /\ t[i].do = "redeploy" => t[i - 1].do = "patch"
    BY <1>1 DEF InThrees
<1>8. t[1].do = "look" => /\ 2 \in DOMAIN t /\ 3 \in DOMAIN t
                          /\ t[2] = [do |-> "patch", p |-> t[1].p, s |-> t[1].s]
                          /\ t[3] = [do |-> "redeploy", p |-> t[1].p, s |-> t[1].s]
    <2> DEFINE k == 1
    <2>1. k + 1 = 2 /\ k + 2 = 3 /\ k \in DOMAIN t /\ (3 \in DOMAIN t => 2 \in DOMAIN t)
        BY <1>1
    <2> HIDE DEF k
    <2>2. t[k].do = "look" => /\ k + 2 \in DOMAIN t
                              /\ t[k + 1] = [do |-> "patch", p |-> t[k].p, s |-> t[k].s]
                              /\ t[k + 2] = [do |-> "redeploy", p |-> t[k].p, s |-> t[k].s]
        BY <1>7, <2>1
    <2> QED
        BY <2>1, <2>2 DEF k
<1>9. t[1].do = "patch" => 2 \in DOMAIN t /\ t[2] = [do |-> "redeploy", p |-> t[1].p, s |-> t[1].s]
    <2> DEFINE k == 1
    <2>1. k + 1 = 2 /\ k \in DOMAIN t
        BY <1>1
    <2> HIDE DEF k
    <2>2. t[k].do = "patch" =>
             k + 1 \in DOMAIN t /\ t[k + 1] = [do |-> "redeploy", p |-> t[k].p, s |-> t[k].s]
        BY <1>7, <2>1
    <2> QED
        BY <2>1, <2>2 DEF k
<1>10. ASSUME n = 3 \/ t[1].do = "redeploy", u # <<>>
       PROVE  Head(u).do \notin {"patch", "redeploy"}
    <2>1. t[n].do = "redeploy"
        BY <1>1, <1>8, <1>10
    <2>2. n + 1 \in DOMAIN t /\ n + 1 > 1 /\ (n + 1) - 1 = n /\ Head(u) = t[n + 1]
        BY <1>1, <1>6, <1>10
    <2>3. /\ t[n + 1].do = "patch" => t[(n + 1) - 1].do = "look"
          /\ t[n + 1].do = "redeploy" => t[(n + 1) - 1].do = "patch"
        BY ONLY <1>7, <2>2
    <2> QED
        BY <2>1, <2>2, <2>3
<1>11. ASSUME NEW p, NEW s, Has(t, "look", p, s)
       PROVE  Has(u, "look", p, s) \/ now = [do |-> "look", p |-> p, s |-> s]
    <2>1. PICK i \in DOMAIN t : t[i] = [do |-> "look", p |-> p, s |-> s]
        BY <1>11 DEF Has
    <2>2. i \in Nat \ {0} /\ t[i].do = "look"
        BY <1>1, <2>1
    <2>3. CASE i <= n
        <3>1. i = 1 \/ (n = 3 /\ (i = 2 \/ i = 3))
            BY <2>2, <2>3
        <3> QED
            BY <1>1, <1>8, <2>1, <2>2, <3>1
    <2>4. CASE i > n
        <3>1. i - n \in Nat \ {0} /\ (i - n) + n = i
            BY <1>1, <2>2, <2>4
        <3>2. i - n \in DOMAIN u /\ u[i - n] = t[i]
            BY <1>2, <2>1, <3>1
        <3> QED
            BY <2>1, <3>2 DEF Has
    <2> QED
        BY <1>1, <2>2, <2>3, <2>4
<1> QED
    BY <1>1, <1>3, <1>6, <1>8, <1>9, <1>10, <1>11 DEF DoesIn, t, u, now

\* A sweep that goes on by one step, or by a service, keeps what it has in hand.
LEMMA SweepResumes ==
    ASSUME TypeOK, Busy("sweep"), ~Sweep.done, NEW n \in {1, 3}, NEW locals \in Locals(minted),
           ~locals.done, Resumes("sweep", locals, Skip("sweep", n))
    PROVE  LET x == caller'["sweep"] IN
           /\ x.todo = Skip("sweep", n) /\ caller'["call"] = caller["call"]
           /\ x.todo # <<>> => x.app = locals.app /\ ~x.done
<1>1. /\ "sweep" \in Callers /\ "call" \in Callers /\ "call" # "sweep" /\ n \in Nat \ {0}
      /\ minted \in Nat /\ minted >= minted /\ caller \in [Callers -> Locals(minted)]
    BY Typed, Bounds DEF Callers, CountsTyped, Keys, CallerTyped
<1>2. /\ caller'["sweep"].todo = Skip("sweep", n) /\ caller'["call"] = caller["call"]
      /\ Skip("sweep", n) # <<>> => caller'["sweep"].app = locals.app
    BY <1>1, SkipResumes
<1>3. ASSUME Skip("sweep", n) # <<>> PROVE caller'["sweep"].done = locals.done
    BY <1>1, <1>3 DEF Resumes, Locals
<1> QED
    BY <1>2, <1>3

\* A step of the sweep that leaves the applications.
LEMMA SweepMoves ==
    ASSUME NEW a, NEW c, NEW w, NEW x, NEW sh, NEW r, NEW m, NEW h, NEW d, NEW e, NEW p, NEW s,
           FineIn(a, c, w, sh, r, m, h, d, p, s), d \subseteq e,
           p \notin h /\ p \notin e =>
              \A u \in NamedIn(a, p, s) : RoutesIn(a, c, x, u) /\ VisitedIn(a, x, sh, p, s, u)
    PROVE  FineIn(a, c, x, sh, r, m, h, e, p, s)
BY DEF FineIn

\* What the sweep looks at is on the routes of now, or it has it in hand.
LEMMA LookFine ==
    ASSUME Courses, Look, ~Throws("sweep"), \A p \in Projects, s \in Routed : Fine(p, s)
    PROVE  /\ \A p \in Projects, s \in Routed : FineNext(p, s)
           /\ InThrees(Sweep.todo)' /\ SweepHolds' /\ caller'["call"] = caller["call"]
<1> DEFINE now == Now("sweep")
           c == caller["call"]
           w == caller["sweep"]
           x == caller'["sweep"]
<1>1. /\ Does("sweep", "look") /\ Busy("sweep") /\ now.do = "look" /\ ~Sweep.done /\ TypeOK
      /\ Sweep \in Locals(minted) /\ Sweep = w
    BY NextStep DEF Look, Does, Courses, ServicesInv, SweepHolds, Sweep, Callers
<1>2. app' = app /\ UNCHANGED <<row, shape, mode, hurt, drift>>
    BY DEF Look, AppFrame, Framed, modes, ghosts
<1>3. /\ ~DoesIn(w, "redeploy") /\ ~DoesIn(w, "patch") /\ ~w.done
    BY <1>1 DEF DoesIn, Now
<1>4. \A p \in Projects, s \in Routed : p \notin hurt =>
         /\ \A u, v \in NamedIn(app, p, s) : u = v
         /\ \A u \in NamedIn(app, p, s) : app[u].listed \/ app[u].shape = shape
    BY DEF Fine, FineIn, SoleIn
<1>5. ASSUME NEW n \in {1, 3}, NEW l \in Locals(minted), ~l.done, Resumes("sweep", l, Skip("sweep", n)),
             n = 1 => /\ l.app \in Listed(now.p, now.s),
             n = 3 => \A u \in Listed(now.p, now.s) :
                         \E v \in Listed(now.p, now.s) : app[v].shape = shape
      PROVE  /\ \A p \in Projects, s \in Routed : FineNext(p, s)
             /\ InThrees(Sweep.todo)' /\ SweepHolds' /\ caller'["call"] = caller["call"]
    <2>1. /\ x.todo = Skip("sweep", n) /\ caller'["call"] = caller["call"]
          /\ x.todo # <<>> => x.app = l.app /\ ~x.done
        BY <1>1, <1>5, SweepResumes
    <2>2. /\ InThrees(x.todo)
          /\ n = 1 => x.todo # <<>> /\ Head(x.todo) = [do |-> "patch", p |-> now.p, s |-> now.s]
          /\ n = 3 => ~DoesIn(x, "patch") /\ ~DoesIn(x, "redeploy")
          /\ \A p, s : Has(w.todo, "look", p, s) =>
                Has(x.todo, "look", p, s) \/ now = [do |-> "look", p |-> p, s |-> s]
        BY <1>1, <2>1, SweepAdvance DEF Courses
    <2>3. InThrees(Sweep.todo)'
        BY <2>2 DEF InThrees, Sweep
    <2>4. n = 1 => /\ DoesIn(x, "patch") /\ ~DoesIn(x, "redeploy") /\ x.app = l.app /\ Head(x.todo).p = now.p
                   /\ Head(x.todo).s = now.s
        BY <2>1, <2>2 DEF DoesIn
    <2>5. SweepHolds'
        <3>1. n = 1 => l.app \in Uuids /\ app[l.app].of = <<now.p, now.s>>
            BY <1>5 DEF Listed, Named
        <3>2. x.done => x.todo = <<>>
            BY <2>1
        <3>3. /\ Does("sweep", "patch")' = DoesIn(x, "patch") /\ Does("sweep", "redeploy")' = DoesIn(x, "redeploy")
              /\ Busy("sweep")' = (x.todo # <<>>) /\ Sweep' = x /\ Now("sweep")' = Head(x.todo)
            BY DEF Does, DoesIn, Busy, Sweep, Now
        <3>4. n = 3 => SweepHolds'
            BY <2>2, <3>2, <3>3 DEF SweepHolds
        <3>5. n = 1 => SweepHolds'
            BY <1>2, <2>4, <3>1, <3>2, <3>3 DEF SweepHolds
        <3> QED
            BY <3>4, <3>5
    <2>6. ASSUME NEW p \in Projects, NEW s \in Routed PROVE FineNext(p, s)
        <3>1. ASSUME p \notin hurt, p \notin drift, NEW u \in NamedIn(app, p, s)
              PROVE  RoutesIn(app, c, x, u) /\ VisitedIn(app, x, shape, p, s, u)
            <4>1. RoutesIn(app, c, w, u) /\ VisitedIn(app, w, shape, p, s, u)
                BY <3>1 DEF Fine, FineIn
            <4>2. RoutesIn(app, c, x, u)
                BY <1>3, <4>1 DEF RoutesIn
            <4>3. app[u].shape = shape \/ Has(w.todo, "look", p, s)
                BY <1>1, <1>3, <4>1 DEF VisitedIn, Busy
            <4>4. CASE app[u].shape = shape \/ Has(x.todo, "look", p, s)
                BY <4>2, <4>4 DEF VisitedIn
            <4>5. CASE now = [do |-> "look", p |-> p, s |-> s] /\ app[u].shape # shape
                <5>1. p = now.p /\ s = now.s
                    BY <4>5
                <5>2. u \in Listed(now.p, now.s) /\ \A v \in Listed(now.p, now.s) : v = u
                    BY <1>4, <3>1, <4>5, <5>1 DEF NamedIn, Listed, Named
                <5>3. n = 1 /\ l.app = u
                    BY <1>5, <4>5, <5>2
                <5> QED
                    BY <2>4, <4>2, <5>3 DEF VisitedIn
            <4> QED
                BY <2>2, <4>3, <4>4, <4>5
        <3>2. FineIn(app, c, x, shape, row[p], mode, hurt, drift, p, s)
            BY <3>1, SweepMoves DEF Fine
        <3> QED
            BY <1>2, <2>1, <3>2 DEF FineNext
    <2> QED
        BY <2>1, <2>3, <2>5, <2>6
<1>6. CASE Listed(now.p, now.s) = {} /\ Resumes("sweep", Sweep, Skip("sweep", 3))
    BY <1>1, <1>5, <1>6
<1>7. ASSUME NEW u \in Listed(now.p, now.s), app[u].shape = shape, Resumes("sweep", Sweep, Skip("sweep", 3))
      PROVE  /\ \A p \in Projects, s \in Routed : FineNext(p, s)
             /\ InThrees(Sweep.todo)' /\ SweepHolds' /\ caller'["call"] = caller["call"]
    BY <1>1, <1>5, <1>7
<1>8. ASSUME NEW u \in Listed(now.p, now.s), Proceeds("sweep", [Sweep EXCEPT !.app = u])
      PROVE  /\ \A p \in Projects, s \in Routed : FineNext(p, s)
             /\ InThrees(Sweep.todo)' /\ SweepHolds' /\ caller'["call"] = caller["call"]
    <2> DEFINE l == [Sweep EXCEPT !.app = u]
    <2>1. l \in Locals(minted) /\ l.app = u /\ l.done = Sweep.done
        BY <1>1 DEF Locals, Listed, Named
    <2>2. Resumes("sweep", l, Skip("sweep", 1))
        BY <1>8 DEF Proceeds
    <2> HIDE DEF l
    <2> QED
        BY <1>1, <1>5, <2>1, <2>2
<1> QED
    BY <1>6, <1>7, <1>8 DEF Look

\* The application the sweep has in hand gets the routes of now, and runs on
\* them.
LEMMA PatchFine ==
    ASSUME Courses, updateAppDomains \/ Redeploy, ~Throws("sweep"),
           \A p \in Projects, s \in Routed : Fine(p, s)
    PROVE  /\ \A p \in Projects, s \in Routed : FineNext(p, s)
           /\ InThrees(Sweep.todo)' /\ SweepHolds' /\ caller'["call"] = caller["call"]
<1> DEFINE now == Now("sweep")
           c == caller["call"]
           w == caller["sweep"]
           x == caller'["sweep"]
           v == Sweep.app
<1>1. /\ Busy("sweep") /\ ~Sweep.done /\ TypeOK /\ Sweep \in Locals(minted) /\ Sweep = w
      /\ updateAppDomains => now.do = "patch"
      /\ Redeploy => now.do = "redeploy"
    BY NextStep DEF updateAppDomains, Redeploy, Does, Courses, ServicesInv, SweepHolds, Sweep, Callers
<1>2. UNCHANGED <<row, shape, mode, hurt, drift>>
    BY DEF updateAppDomains, Redeploy, AppFrame, Framed, modes, ghosts
<1>3. /\ Takes(v) /\ Resumes("sweep", Sweep, Skip("sweep", 1))
      /\ updateAppDomains => Sets(v, [app[v] EXCEPT !.shape = shape])
      /\ Redeploy => Sets(v, Deployed(app[v]))
    BY DEF updateAppDomains, Redeploy, Proceeds
<1>4. app \in [Uuids -> Apps]
    BY <1>1, Typed DEF AppTyped, Apps
<1>5. /\ v \in Uuids /\ app[v].listed /\ app[v].of # <<>> /\ app[v].of \in {<<>>, <<now.p, now.s>>}
    BY <1>1, <1>3, Typed DEF Takes, AppTyped, Courses, SweepHolds, Does
<1>6. /\ app'[v].of = app[v].of /\ app'[v].listed = app[v].listed
      /\ app'[v].deleting = app[v].deleting
      /\ updateAppDomains => app'[v].shape = shape
      /\ Redeploy => app'[v].shape = app[v].shape /\ app'[v].run[2] = app[v].shape
      /\ \A u \in Uuids : u # v => app'[u] = app[u]
    <2> HIDE DEF v
    <2>1. v \in Uuids /\ (updateAppDomains => ~Redeploy)
        BY <1>1, <1>5
    <2>2. CASE updateAppDomains
        <3>1. Sets(v, [app[v] EXCEPT !.shape = shape])
            BY <1>3, <2>2
        <3> QED
            BY ONLY <1>4, <2>1, <2>2, <3>1 DEF Sets, Apps
    <2>3. CASE Redeploy
        <3>1. Sets(v, Deployed(app[v]))
            BY <1>3, <2>3
        <3> QED
            BY ONLY <1>4, <2>1, <2>3, <3>1 DEF Sets, Apps, Deployed
    <2> QED
        BY <2>2, <2>3
<1>7. /\ x.todo = Skip("sweep", 1) /\ caller'["call"] = c
      /\ x.todo # <<>> => x.app = v /\ ~x.done
    BY <1>1, <1>3, SweepResumes
<1>8. /\ InThrees(x.todo)
      /\ updateAppDomains =>
            x.todo # <<>> /\ Head(x.todo) = [do |-> "redeploy", p |-> now.p, s |-> now.s]
      /\ Redeploy => ~DoesIn(x, "patch") /\ ~DoesIn(x, "redeploy")
      /\ \A p, s : Has(w.todo, "look", p, s) =>
            Has(x.todo, "look", p, s) \/ now = [do |-> "look", p |-> p, s |-> s]
    BY <1>1, <1>7, SweepAdvance DEF Courses
<1>9. InThrees(Sweep.todo)'
    BY <1>8 DEF InThrees, Sweep
<1>10. updateAppDomains => /\ DoesIn(x, "redeploy") /\ ~DoesIn(x, "patch") /\ x.app = v
                           /\ Head(x.todo).p = now.p /\ Head(x.todo).s = now.s
    BY <1>7, <1>8 DEF DoesIn
<1> HIDE DEF v
<1>11. SweepHolds'
    <2>1. /\ Does("sweep", "patch")' = DoesIn(x, "patch") /\ Does("sweep", "redeploy")' = DoesIn(x, "redeploy")
          /\ Busy("sweep")' = (x.todo # <<>>) /\ Sweep' = x /\ Now("sweep")' = Head(x.todo)
        BY DEF Does, DoesIn, Busy, Sweep, Now
    <2>2. x.done => x.todo = <<>>
        BY <1>7
    <2>3. CASE updateAppDomains
        BY <1>5, <1>6, <1>10, <2>1, <2>2, <2>3 DEF SweepHolds
    <2>4. CASE Redeploy
        BY <1>8, <2>1, <2>2, <2>4 DEF SweepHolds
    <2> QED
        BY <2>3, <2>4
<1>12. ASSUME NEW p \in Projects, NEW s \in Routed PROVE FineNext(p, s)
    <2>1. NamedIn(app', p, s) = NamedIn(app, p, s)
        BY <1>5, <1>6 DEF NamedIn
    <2>2. ASSUME p \notin hurt
          PROVE  SoleIn(app', c, shape, row[p], mode, p, s)
        <3>1. SoleIn(app, c, shape, row[p], mode, p, s)
            BY <2>2 DEF Fine, FineIn
        <3>2. \A u \in Uuids : /\ app'[u].listed = app[u].listed /\ app'[u].deleting = app[u].deleting
                               /\ app[u].listed \/ app'[u].shape = app[u].shape
            BY <1>5, <1>6
        <3>3. NamedIn(app, p, s) \subseteq Uuids
            BY DEF NamedIn
        <3> QED
            BY <2>1, <3>1, <3>2, <3>3 DEF SoleIn, RemovesIn
    <2>3. ASSUME p \notin hurt, p \notin drift, NEW u \in NamedIn(app', p, s)
          PROVE  RoutesIn(app', c, x, u) /\ VisitedIn(app', x, shape, p, s, u)
        <3>1. RoutesIn(app, c, w, u) /\ VisitedIn(app, w, shape, p, s, u) /\ u \in Uuids
            BY <2>1, <2>3 DEF Fine, FineIn, NamedIn
        <3>2. RoutesIn(app', c, x, u)
            <4>1. CASE u = v /\ updateAppDomains
                BY <1>10, <4>1 DEF RoutesIn
            <4>2. CASE u = v /\ Redeploy
                BY <1>6, <4>2 DEF RoutesIn
            <4>3. CASE u # v
                BY <1>1, <1>6, <3>1, <4>3 DEF RoutesIn, v
            <4> QED
                BY <4>1, <4>2, <4>3
        <3>3. VisitedIn(app', x, shape, p, s, u)
            <4>1. app[u].shape = shape \/ Has(w.todo, "look", p, s) \/ (DoesIn(w, "patch") /\ w.app = u)
                BY <1>1, <3>1 DEF VisitedIn, Busy
            <4>2. Has(w.todo, "look", p, s) => Has(x.todo, "look", p, s)
                BY <1>1, <1>8
            <4>3. CASE u = v /\ updateAppDomains
                BY <1>6, <4>3 DEF VisitedIn
            <4>4. CASE u # v
                BY <1>1, <1>6, <3>1, <4>1, <4>2, <4>4 DEF VisitedIn, v
            <4>5. CASE Redeploy /\ u = v
                <5>1. ~DoesIn(w, "patch")
                    BY <1>1, <4>5 DEF DoesIn, Now
                <5> QED
                    BY <1>6, <4>1, <4>2, <4>5, <5>1 DEF VisitedIn
            <4> QED
                BY <4>3, <4>4, <4>5
        <3> QED
            BY <3>2, <3>3
    <2> QED
        BY <1>2, <1>7, <2>2, <2>3 DEF FineNext, FineIn
<1> QED
    BY <1>7, <1>9, <1>11, <1>12

\* A call begins with nothing to wait for and no application to create.
LEMMA BeginFine ==
    ASSUME Courses, Begin, \A p \in Projects, s \in Routed : Fine(p, s)
    PROVE  /\ \A p \in Projects, s \in Routed : FineNext(p, s)
           /\ InCourse(Call.todo)' /\ caller'["sweep"] = caller["sweep"]
<1> DEFINE c == caller["call"]
           x == caller'["call"]
           w == caller["sweep"]
<1>1. PICK q \in Projects : \E t \in {provisionProject(q)} \cup Programs(q) : Resumes("call", Idle, t)
    BY DEF Begin
<1>2. PICK t \in {provisionProject(q)} \cup Programs(q) : Resumes("call", Idle, t)
    BY <1>1
<1>3. SetsOut(t) /\ (mode # "docker" => \A p \in Projects, s \in Routed :
                        Has(t, "forget", p, "auth") => Has(t, "remove", p, s))
    BY BeginsInCourse
<1>4. x.todo = t /\ caller'["sweep"] = w
    BY <1>2, <1>3, Typed, ValuesTyped, Bounds, Resumed
    DEF CallerTyped, Callers, CountsTyped, Keys, SetsOut, Courses, ServicesInv
<1>5. UNCHANGED <<row, app, mode, shape, hurt, drift>> /\ c.todo = <<>>
    BY DEF Begin, outside, modes, ghosts, Busy
<1>6. InCourse(Call.todo)'
    BY <1>3, <1>4, <1>5 DEF SetsOut, InCourse, Call
<1>7. ASSUME NEW p \in Projects, NEW s \in Routed PROVE FineNext(p, s)
    <2>1. ~DoesIn(x, "create")
        <3>1. t # <<>> => Head(t) = t[1]
            BY <1>3 DEF SetsOut
        <3> QED
            BY <1>3, <1>4, <3>1 DEF DoesIn, SetsOut
    <2>2. ASSUME p \notin hurt PROVE RemovesIn(app, x, p, s)
        <3>1. mode = "docker" => NamedIn(app, p, s) = {}
            BY <2>2 DEF Fine, FineIn, SoleIn
        <3> QED
            BY <1>3, <1>4, <3>1 DEF RemovesIn
    <2>3. FineIn(app, x, w, shape, row[p], mode, hurt, drift, p, s)
        BY <1>5, <2>1, <2>2, CallMoves DEF Fine, CreatesIn, AwaitsIn, DeploysIn, GoesIn, DoesIn
    <2> QED
        BY <1>4, <1>5, <2>3 DEF FineNext
<1> QED
    BY <1>4, <1>6, <1>7

\* A sweep begins with every project of the registry yet to come.
LEMMA BeginSweepFine ==
    ASSUME Courses, BeginSweep, \A p \in Projects, s \in Routed : Fine(p, s)
    PROVE  /\ \A p \in Projects, s \in Routed : FineNext(p, s)
           /\ InThrees(Sweep.todo)' /\ SweepHolds' /\ caller'["call"] = caller["call"]
<1> DEFINE c == caller["call"]
           w == caller["sweep"]
           x == caller'["sweep"]
           Q == {p \in Projects : row[p].there}
           names == SetToSeq(Q)
           t == reconcileAll(names)
<1>1. Resumes("sweep", Idle, t) /\ UNCHANGED <<row, app, mode, shape, hurt, drift>> /\ w.todo = <<>>
    BY DEF BeginSweep, outside, modes, ghosts, Busy
<1>2. names \in Seq(Projects) /\ Q \subseteq Projects
    BY OrderTyped
<1> HIDE DEF names
<1>3. /\ t \in Seq(StepRecords) /\ InThrees(t)
      /\ t # <<>> => t[1].do = "look"
      /\ \A j \in 1 .. Len(names), s \in Routed : Has(t, "look", names[j], s)
    BY <1>2, SweepInThrees, Zenon
<1>4. \A p \in Q : \E j \in 1 .. Len(names) : names[j] = p
    BY <1>2, OrderCovers DEF names
<1> HIDE DEF t
<1>5. x.todo = t /\ caller'["call"] = c
    BY <1>1, <1>3, Typed, ValuesTyped, Bounds, Resumed
    DEF CallerTyped, Callers, CountsTyped, Keys, Courses, ServicesInv
<1>6. x.done => t = <<>>
    <2>1. caller \in [Callers -> Locals(minted)] /\ "sweep" \in Callers
        BY Typed DEF CallerTyped, Callers, Courses, ServicesInv
    <2>2. t # <<>> => x = [Idle EXCEPT !.todo = t]
        BY <1>1, <2>1 DEF Resumes
    <2> QED
        BY <2>2 DEF Idle
<1>7. InThrees(Sweep.todo)'
    BY <1>3, <1>5 DEF InThrees, Sweep
<1>8. ~DoesIn(x, "patch") /\ ~DoesIn(x, "redeploy")
    <2>1. t # <<>> => Head(t) = t[1]
        BY <1>3
    <2> QED
        BY <1>3, <1>5, <2>1 DEF DoesIn
<1>9. SweepHolds'
    <2>1. /\ Does("sweep", "patch")' = DoesIn(x, "patch") /\ Does("sweep", "redeploy")' = DoesIn(x, "redeploy")
          /\ Busy("sweep")' = (x.todo # <<>>) /\ Sweep' = x
        BY DEF Does, DoesIn, Busy, Sweep, Now
    <2> QED
        BY <1>5, <1>6, <1>8, <2>1 DEF SweepHolds
<1>10. ASSUME NEW p \in Projects, NEW s \in Routed PROVE FineNext(p, s)
    <2>1. ASSUME p \notin hurt, p \notin drift, NEW u \in NamedIn(app, p, s)
          PROVE  RoutesIn(app, c, x, u) /\ VisitedIn(app, x, shape, p, s, u)
        <3>1. RoutesIn(app, c, w, u) /\ row[p].there
            BY <2>1 DEF Fine, FineIn, SoleIn
        <3>2. RoutesIn(app, c, x, u)
            BY <1>1, <3>1 DEF RoutesIn, DoesIn
        <3>3. Has(t, "look", p, s)
            BY <1>3, <1>4, <3>1
        <3> QED
            BY <1>5, <3>2, <3>3 DEF VisitedIn
    <2>2. FineIn(app, c, x, shape, row[p], mode, hurt, drift, p, s)
        BY <2>1, SweepMoves DEF Fine
    <2> QED
        BY <1>1, <1>5, <2>2 DEF FineNext
<1> QED
    BY <1>5, <1>7, <1>9, <1>10

\* New routes come when no call is under way.
LEMMA UpgradeFine ==
    ASSUME Courses, Upgrade, \A p \in Projects, s \in Routed : Fine(p, s)
    PROVE  /\ \A p \in Projects, s \in Routed : FineNext(p, s)
           /\ InCourse(Call.todo)' /\ InThrees(Sweep.todo)' /\ SweepHolds'
<1> DEFINE c == caller["call"]
           w == caller["sweep"]
<1>1. /\ caller'["call"] = Idle /\ caller'["sweep"] = Idle /\ c.todo = <<>> /\ w.todo = <<>>
      /\ UNCHANGED <<row, app, mode, hurt, drift>>
      /\ Idle.todo = <<>> /\ ~Idle.done
    BY DEF Upgrade, Busy, Idle, outside, ghosts
<1>2. InCourse(Call.todo)' /\ InThrees(Sweep.todo)' /\ SweepHolds'
    BY <1>1 DEF InCourse, InThrees, SweepHolds, Call, Sweep, Does, Busy
<1>3. ASSUME NEW p \in Projects, NEW s \in Routed PROVE FineNext(p, s)
    <2>1. FineIn(app, c, w, shape, row[p], mode, hurt, drift, p, s)
        BY DEF Fine
    <2>2. \A u : ~AwaitsIn(c, u) /\ ~DeploysIn(c, u) /\ ~DoesIn(w, "redeploy")
        BY <1>1 DEF AwaitsIn, DeploysIn, DoesIn
    <2>3. ~GoesIn(c, p, s) /\ ~CreatesIn(Idle, p, s) /\ ~Has(Idle.todo, "forget", p, "auth")
        BY <1>1 DEF GoesIn, CreatesIn, DoesIn, Has
    <2>4. FineIn(app, Idle, Idle, shape', row[p], mode, hurt, drift, p, s)
        BY <1>1, <2>1, <2>2, <2>3 DEF FineIn, SoleIn, RemovesIn, RoutesIn, VisitedIn
    <2> QED
        BY <1>1, <2>4 DEF FineNext
<1> QED
    BY <1>2, <1>3

\* An application that is listed, or gone, at last.
LEMMA ComeAndGoFine ==
    ASSUME Courses, NEW u \in Uuids, AppListed(u) \/ AppGone(u),
           \A p \in Projects, s \in Routed : Fine(p, s)
    PROVE  /\ \A p \in Projects, s \in Routed : FineNext(p, s)
           /\ caller' = caller /\ mode' = mode /\ \A v \in Uuids : app'[v].of \in {<<>>, app[v].of}
<1>1. /\ UNCHANGED <<row, caller, mode, shape, hurt, drift>>
    BY DEF AppListed, AppGone, Framed, modes, ghosts
<1>2. app \in [Uuids -> Apps]
    BY Typed DEF AppTyped, Apps, Courses, ServicesInv
<1>3. /\ \A v \in Uuids : v # u => app'[v] = app[v]
      /\ \/ /\ app'[u].of = app[u].of /\ app'[u].listed /\ app'[u].deleting = app[u].deleting
            /\ app'[u].shape = app[u].shape /\ app'[u].run = app[u].run
         \/ app'[u].of = <<>>
    <2>1. CASE AppListed(u)
        BY <1>2, <2>1 DEF AppListed, Apps
    <2>2. CASE AppGone(u)
        <3>1. NoApp.of = <<>>
            BY DEF NoApp
        <3> QED
            BY <1>2, <2>2, <3>1 DEF AppGone
    <2> QED
        BY <2>1, <2>2
<1>4. ASSUME NEW p \in Projects, NEW s \in Routed PROVE FineNext(p, s)
    <2>1. /\ NamedIn(app', p, s) \subseteq NamedIn(app, p, s)
          /\ \A v \in NamedIn(app', p, s) :
                /\ app[v].listed => app'[v].listed
                /\ app'[v].deleting = app[v].deleting /\ app'[v].shape = app[v].shape
                /\ app'[v].run = app[v].run
        <3>1. <<p, s>> # <<>>
            OBVIOUS
        <3> QED
            BY <1>3, <3>1 DEF NamedIn
    <2>2. FineIn(app', caller["call"], caller["sweep"], shape, row[p], mode, hurt, drift, p, s)
        BY <2>1 DEF Fine, FineIn, SoleIn, RemovesIn, RoutesIn, VisitedIn
    <2> QED
        BY <1>1, <2>2 DEF FineNext
<1> QED
    BY <1>1, <1>3, <1>4

\* A call that fails leaves all but its own project as it was.
LEMMA CallFails ==
    ASSUME Courses, Swallows \/ (Busy("call") /\ Abandon("call")),
           \A p \in Projects, s \in Routed : Fine(p, s)
    PROVE  /\ \A p \in Projects, s \in Routed : FineNext(p, s)
           /\ InCourse(Call.todo)' /\ caller'["sweep"] = caller["sweep"] /\ app' = app
<1> DEFINE x == caller'["call"]
<1>1. /\ Busy("call") /\ UNCHANGED <<row, app, mode, shape, drift>> /\ hurt' = hurt \cup {P}
    <2>1. CASE Swallows
        BY <2>1 DEF Swallows, modes, outside, P
    <2>2. CASE Busy("call") /\ Abandon("call")
        <3>1. drift' = drift
            BY <2>2 DEF Abandon
        <3> QED
            BY <2>2, <3>1 DEF Abandon, modes, outside, P
    <2> QED
        BY <2>1, <2>2
<1>2. /\ x.todo = <<>> \/ \E n : Progress(n)
      /\ caller'["sweep"] = caller["sweep"]
    <2>1. caller \in [Callers -> Locals(minted)] /\ TypeOK
        BY Typed DEF CallerTyped, Courses, ServicesInv
    <2>2. CASE Swallows
        <3>1. Busy("call") /\ \E l, t : Resumes("call", l, t)
            BY <2>2 DEF Swallows
        <3>2. caller'["sweep"] = caller["sweep"]
            BY <2>1, <3>1 DEF Resumes, Callers
        <3>3. \/ caller'["call"] = caller["call"] \/ x.todo = <<>> \/ Begins \/ \E n : Progress(n)
            BY <2>1, <2>2, Quiet DEF Quietly
        <3>4. caller'["call"] # caller["call"] \/ \E n : Progress(n)
            <4> SUFFICES ASSUME caller'["call"] = caller["call"] PROVE FALSE
                OBVIOUS
            <4>1. PICK n \in Nat \ {0} : Resumes("call", caller["call"], Skip("call", n))
                <5>1. Removal \in [{"remove", "gone", "undns"} -> Nat \ {0}]
                      /\ DOMAIN Removal = {"remove", "gone", "undns"}
                    BY DEF Removal
                <5> QED
                    BY <2>2, <5>1 DEF Swallows
            <4>2. x.todo = Skip("call", n)
                BY <2>1, <3>1, <4>1, CallResumes, CallTyped DEF Call
            <4>3. Call.todo \in Seq(StepRecords) /\ Call.todo # <<>>
                BY <2>1, <3>1, CallTyped DEF Busy, Call, Locals
            <4> DEFINE t == Call.todo
            <4>4. SubSeq(t, n + 1, Len(t)) = t
                BY <4>2 DEF Skip, Call
            <4> HIDE DEF t
            <4>5. t \in Seq(StepRecords) /\ t # <<>>
                BY <4>3 DEF t
            <4>6. Len(SubSeq(t, n + 1, Len(t))) # Len(t)
                BY <4>5
            <4> QED
                BY <4>4, <4>6
        <3> QED
            BY <3>1, <3>2, <3>3, <3>4 DEF Begins
    <2>3. CASE Abandon("call")
        <3>1. caller' = [caller EXCEPT !["call"] = Idle] /\ Idle.todo = <<>>
            BY <2>3, ValuesTyped DEF Abandon
        <3> QED
            BY <2>1, <3>1 DEF Callers
    <2> QED
        BY <2>2, <2>3
<1>3. InCourse(Call.todo)'
    <2>1. CASE x.todo = <<>>
        BY <2>1 DEF InCourse, Call
    <2>2. CASE \E n : Progress(n)
        BY <2>2, Advance DEF Courses, ServicesInv
    <2> QED
        BY <1>2, <2>1, <2>2
<1>4. ASSUME NEW p \in Projects, NEW s \in Routed PROVE FineNext(p, s)
    <2>1. CASE p = P
        BY <1>1, <2>1 DEF FineNext, FineIn
    <2>2. CASE p # P
        <3>1. FineIn(app, x, caller["sweep"], shape, row[p], mode, hurt', drift', p, s)
            BY <1>1, <1>2, <2>2, OtherProjects
        <3> QED
            BY <1>1, <1>2, <3>1 DEF FineNext
    <2> QED
        BY <2>1, <2>2
<1> QED
    BY <1>1, <1>2, <1>3, <1>4

\* A sweep that fails has left one project adrift at most.
LEMMA SweepFails ==
    ASSUME Courses, Busy("sweep"), Abandon("sweep"), \A p \in Projects, s \in Routed : Fine(p, s)
    PROVE  /\ \A p \in Projects, s \in Routed : FineNext(p, s)
           /\ InThrees(Sweep.todo)' /\ SweepHolds' /\ caller'["call"] = caller["call"]
<1> DEFINE c == caller["call"]
           w == caller["sweep"]
           now == Now("sweep")
<1>1. /\ UNCHANGED <<row, app, mode, shape, hurt>>
      /\ drift \subseteq drift' /\ (now.do = "redeploy" => now.p \in drift')
    BY DEF Abandon, modes, outside
<1>2. caller'["sweep"] = Idle /\ caller'["call"] = c /\ Idle.todo = <<>> /\ ~Idle.done
    <2>1. caller \in [Callers -> Locals(minted)]
        BY Typed DEF CallerTyped, Courses, ServicesInv
    <2> QED
        BY <2>1 DEF Abandon, Callers, Idle
<1>3. InThrees(Sweep.todo)' /\ SweepHolds'
    BY <1>2 DEF InThrees, SweepHolds, Sweep, Does, Busy
<1>4. ASSUME NEW p \in Projects, NEW s \in Routed PROVE FineNext(p, s)
    <2>1. ASSUME p \notin hurt, p \notin drift', NEW u \in NamedIn(app, p, s)
          PROVE  RoutesIn(app, c, Idle, u) /\ VisitedIn(app, Idle, shape, p, s, u)
        <3>1. RoutesIn(app, c, w, u)
            BY <1>1, <2>1 DEF Fine, FineIn
        <3>2. ~(DoesIn(w, "redeploy") /\ w.app = u)
            <4> SUFFICES ASSUME DoesIn(w, "redeploy"), w.app = u PROVE FALSE
                OBVIOUS
            <4>1. Does("sweep", "redeploy") /\ now.do = "redeploy" /\ Sweep.app = u
                BY DEF Does, DoesIn, Busy, Now, Sweep
            <4>2. app[u].of = <<p, s>> /\ app[u].of \in {<<>>, <<now.p, now.s>>}
                BY <4>1 DEF NamedIn, Courses, SweepHolds
            <4>3. p = now.p
                BY <4>2
            <4> QED
                BY <1>1, <2>1, <4>1, <4>3
        <3> QED
            BY <1>2, <3>1, <3>2 DEF RoutesIn, VisitedIn
    <2>2. FineIn(app, c, Idle, shape, row[p], mode, hurt, drift', p, s)
        BY <1>1, <2>1, SweepMoves DEF Fine
    <2> QED
        BY <1>1, <1>2, <2>2 DEF FineNext
<1> QED
    BY <1>2, <1>3, <1>4

\* What the sweep has in hand no call takes from it.
LEMMA HoldsKept ==
    ASSUME SweepHolds, InThrees(Sweep.todo), caller'["sweep"] = caller["sweep"],
           \A u \in Uuids : Sweep.app = u => app'[u].of \in {<<>>, app[u].of}
    PROVE  InThrees(Sweep.todo)' /\ SweepHolds'
<1>1. /\ Sweep' = Sweep /\ Now("sweep")' = Now("sweep") /\ Busy("sweep")' = Busy("sweep")
      /\ \A do : Does("sweep", do)' = Does("sweep", do)
    BY DEF Sweep, Now, Busy, Does
<1> QED
    BY <1>1 DEF InThrees, SweepHolds

-----------------------------------------------------------------------------
(* 6. The theorems.                                                        *)

\* The requests of a call keep its course and leave the sweep as it was.
LEMMA RequestCourses ==
    ASSUME Courses, Requests
    PROVE  InCourse(Call.todo)' /\ InThrees(Sweep.todo)' /\ SweepHolds'
<1>1. InCourse(Call.todo)'
    <2>1. PICK n : Progress(n)
        BY RequestFrame DEF Courses, ServicesInv
    <2> QED
        BY <2>1, Advance DEF Courses, ServicesInv
<1>2. ASSUME NEW u \in Uuids, Sweep.app = u
      PROVE  app'[u].of \in {<<>>, app[u].of}
    <2>1. CASE Plainly /\ ~createDockerImageApp
        BY <2>1, PlainApps DEF Courses, ServicesInv
    <2>2. CASE Specially /\ Busy("call")
        BY <2>2, SpecialApps DEF Courses, ServicesInv
    <2>3. CASE Plainly /\ createDockerImageApp
        <3>1. app \in [Uuids -> Apps] /\ TypeOK
            BY Typed DEF AppTyped, Apps, Courses, ServicesInv
        <3>2. u \notin Free
            <4>1. "sweep" \in DOMAIN caller /\ caller["sweep"].app = u
                BY <1>2, <3>1, Typed DEF CallerTyped, Callers, Sweep
            <4> QED
                BY <4>1 DEF Free
        <3>3. CASE Call.app = None
            <4>1. PICK v \in Free : Sets(v, [NoApp EXCEPT !.of = <<P, S>>, !.shape = shape])
                BY <2>3, <3>3, Bounds DEF createDockerImageApp, Takes, Plainly
            <4> QED
                BY <3>1, <3>2, <4>1 DEF Sets
        <3>4. CASE Takes(Call.app) /\ Sets(Call.app, [app[Call.app] EXCEPT !.shape = shape])
            BY <3>1, <3>4 DEF Sets, Takes, Apps
        <3> QED
            BY <2>3, <3>3, <3>4 DEF createDockerImageApp, Plainly
    <2> QED
        BY <2>1, <2>2, <2>3 DEF Requests
<1>3. caller'["sweep"] = caller["sweep"]
    BY RequestFrame DEF Courses, ServicesInv
<1> QED
    BY <1>1, <1>2, <1>3, HoldsKept DEF Courses

\* The invariant is kept by every step.
LEMMA SweepInvStep ==
    ASSUME SweepInv, [Next]_vars
    PROVE  SweepInv'
<1>1. Courses /\ \A p \in Projects, s \in Routed : Fine(p, s)
    BY InvariantFine
<1>2. ServicesInv'
    BY <1>1, ServicesStep DEF Courses
<1> SUFFICES /\ \A p \in Projects, s \in Routed : FineNext(p, s)
             /\ InCourse(Call.todo)' /\ InThrees(Sweep.todo)' /\ SweepHolds'
    BY <1>2, InvariantFine DEF Courses
<1>3. CASE Requests
    BY <1>1, <1>3, RequestFine, RequestCourses
<1>4. ASSUME \A u \in Uuids : app'[u].of \in {<<>>, app[u].of}, caller'["sweep"] = caller["sweep"]
      PROVE  InThrees(Sweep.todo)' /\ SweepHolds'
    BY <1>1, <1>4, HoldsKept DEF Courses
<1>5. ASSUME caller'["call"] = caller["call"], mode' = mode
      PROVE  InCourse(Call.todo)'
    BY <1>1, <1>5 DEF Courses, InCourse, Call
<1>6. CASE UNCHANGED vars
    <2>1. UNCHANGED <<row, app, caller, shape, mode, hurt, drift>>
        BY <1>6 DEF vars, outside, modes, ghosts
    <2>2. \A p \in Projects, s \in Routed : FineNext(p, s)
        BY <1>1, <2>1 DEF Fine, FineNext
    <2> QED
        BY <1>4, <1>5, <2>1, <2>2
<1>7. CASE Begin
    <2>1. app' = app
        BY <1>7 DEF Begin, outside
    <2> QED
        BY <1>1, <1>4, <1>7, <2>1, BeginFine
<1>8. CASE BeginSweep
    <2>1. mode' = mode
        BY <1>8 DEF BeginSweep, modes
    <2> QED
        BY <1>1, <1>5, <1>8, <2>1, BeginSweepFine
<1>9. CASE Upgrade
    BY <1>1, <1>9, UpgradeFine
<1>10. CASE Swallows \/ (Busy("call") /\ Abandon("call"))
    BY <1>1, <1>4, <1>10, CallFails
<1>11. CASE Busy("sweep") /\ Abandon("sweep")
    <2>1. mode' = mode
        BY <1>11 DEF Abandon, modes
    <2> QED
        BY <1>1, <1>5, <1>11, <2>1, SweepFails
<1>12. CASE \E u \in Uuids : AppListed(u) \/ AppGone(u)
    BY <1>1, <1>4, <1>5, <1>12, ComeAndGoFine
<1>13. CASE Look /\ ~Throws("sweep")
    <2>1. mode' = mode
        BY <1>13 DEF Look, AppFrame, Framed, modes
    <2> QED
        BY <1>1, <1>5, <1>13, <2>1, LookFine
<1>14. CASE (updateAppDomains \/ Redeploy) /\ ~Throws("sweep")
    <2>1. mode' = mode
        BY <1>14 DEF updateAppDomains, Redeploy, AppFrame, Framed, modes
    <2> QED
        BY <1>1, <1>5, <1>14, <2>1, PatchFine
<1>15. CASE Quietly
    <2>1. \A h \in Callers : Dies(h) => Busy(h) /\ Abandon(h)
        BY DEF Dies
    <2>2. Look \/ updateAppDomains \/ Redeploy => Busy("sweep")
        BY DEF Look, updateAppDomains, Redeploy, Does
    <2>3. \A h \in Callers : Throws(h) => Abandon(h)
        BY DEF Throws
    <2> QED
        BY <1>6, <1>7, <1>8, <1>9, <1>10, <1>11, <1>12, <1>13, <1>14, <1>15, <2>1, <2>2, <2>3
        DEF Quietly, Callers
<1> QED
    BY <1>3, <1>15, Kinds DEF Requests

\* The invariant holds initially.
LEMMA InitSwept ==
    ASSUME Init
    PROVE  SweepInv
<1>1. Call.todo = <<>> /\ ~Busy("call") /\ Sweep.todo = <<>> /\ ~Busy("sweep") /\ ~Sweep.done
    BY ValuesTyped DEF Init, Call, Sweep, Busy, Idle
<1>2. \A p \in Projects, s \in Routed : Named(p, s) = {}
    BY DEF Init, Named, NoApp
<1>3. InCourse(Call.todo) /\ InThrees(Sweep.todo) /\ SweepHolds
    BY <1>1 DEF InCourse, InThrees, SweepHolds, Does
<1> QED
    BY <1>1, <1>2, <1>3, InitServices DEF SweepInv, Sole, Has

\* Where no call has failed, a service has one application at most, which a call
\* waits for until it is listed and until it is gone; unless a sweep has left it
\* adrift, it is on the routes of now or a sweep under way has yet to come to it.
THEOREM SweepInvariant == Spec => []SweepInv
<1> QED
    BY InitSwept, SweepInvStep, PTL DEF Spec

\* A sweep that has come to its end has skipped nothing, whatever calls, deletions
\* and other sweeps overlapped it: what runs is on the routes of now, but for the
\* projects a failure left patched and not deployed.
THEOREM SweepsHeal == Spec => []SweepHeals
<1>1. SweepInv => SweepHeals
    <2> SUFFICES ASSUME SweepInv, caller["sweep"].done, ~Busy("call"), NEW u \in Uuids,
                        NEW p \in Projects \ (hurt \cup drift), NEW s \in Routed,
                        app[u].of = <<p, s>>, app[u].run # <<>>
                 PROVE  app[u].run[2] = shape
        BY DEF SweepHeals
    <2>1. ~Busy("sweep") /\ Sweep.done
        BY DEF SweepInv, SweepHolds, Sweep
    <2>2. OnItsRoutes(u) /\ Visited(p, s, u)
        BY DEF SweepInv, Named
    <2>3. app[u].run[2] = app[u].shape
        BY <2>1, <2>2 DEF OnItsRoutes, Deploys, Does
    <2>4. app[u].shape = shape
        BY <2>1, <2>2 DEF Visited, Has, Does, Busy, Sweep
    <2> QED
        BY <2>3, <2>4
<1> QED
    BY <1>1, SweepInvariant, PTL

-----------------------------------------------------------------------------
(* 7. The turns the steps of a program take.                               *)

\* The step that does something for a service of a project.
Step(p, s, do) == [do |-> do, p |-> p, s |-> s]

\* The steps of a program that turns a service on, and those of one that turns
\* it off; a container is removed by both.
On  == {"secret", "read", "bucket", "mint", "allow", "store", "dns", "find", "create", "await",
        "env", "deploy", "container", "register", "realtimeDns", "save"}
Off == {"remove", "gone", "undns", "deregister", "clear", "removeKey", "removeBucket", "forget",
        "register project"}

\* Step a is the next.
Heads(t, a) == 1 \in DOMAIN t /\ t[1] = a

\* Step a is k steps after step i.
Later(t, i, k, a) == i + k \in DOMAIN t /\ t[i + k] = a

\* The steps of a call, from any one of them on: what turns a service on ends
\* with the row, and what comes with a step is not far.
InTurn(t) ==
    \A i \in DOMAIN t :
        LET do == t[i].do  s == t[i].s
            later(k, next) == Later(t, i, k, Step(t[i].p, s, next))
        IN
        /\ do \in On => /\ t[Len(t)] = Step(t[i].p, s, "save")
                        /\ \A j \in DOMAIN t : t[j].do \notin Off
        /\ do = "dns" => s \in Routed /\ later(2, "create")
        /\ do \in {"register", "deregister", "realtimeDns"} => s = "realtime"
        /\ do = "mint" => later(1, "allow")
        /\ do = "allow" => later(1, "store")
        /\ do = "store" => s = "storage" /\ later(1, "read")
        /\ do = "gone" => later(1, "undns") /\ (s # "auth" => later(2, "clear"))
        /\ do = "deregister" => later(2, "clear")
        /\ do = "removeContainer" =>
              \/ later(1, "container")
              \/ /\ \A j \in DOMAIN t : t[j].do # "save"
                 /\ s = "auth" \/ later(1, "clear")

\* There is no a without a b before it.
Precedes(t, b, a) == \A i \in DOMAIN t : t[i] = a => \E j \in 1 .. i - 1 : t[j] = b

\* The services that run in containers.
Boxed(s) == s = "functions" \/ (s \in Routed /\ mode = "docker")

\* What is there is there before the row says so, and gone before it does not.
Prepared(t, p) ==
    /\ \A s \in Services : Boxed(s) =>
          /\ Precedes(t, Step(p, s, "container"), Step(p, s, "save"))
          /\ Precedes(t, Step(p, s, "removeContainer"), Step(p, s, "clear"))
          /\ s = "auth" => Precedes(t, Step(p, s, "removeContainer"), Step(p, s, "forget"))
    /\ \A s \in Services \ {"auth"} : Precedes(t, Step(p, s, "clear"), Step(p, "auth", "forget"))
    /\ Precedes(t, Step(p, "realtime", "register"), Step(p, "realtime", "save"))
    /\ Precedes(t, Step(p, "realtime", "deregister"), Step(p, "realtime", "clear"))
    /\ Precedes(t, Step(p, "realtime", "undns"), Step(p, "realtime", "clear"))
    /\ mode # "docker" => \A s \in Routed :
          /\ Precedes(t, Step(p, s, "dns"), Step(p, s, "create"))
          /\ Precedes(t, Step(p, s, "create"), Step(p, s, "save"))
          /\ Precedes(t, Step(p, s, "remove"), Step(p, s, "clear"))
          /\ Precedes(t, Step(p, s, "remove"), Step(p, s, "undns"))
    /\ Precedes(t, Step(p, "storage", "removeBucket"), Step(p, "auth", "forget"))
    /\ Precedes(t, Step(p, "storage", "removeKey"), Step(p, "auth", "forget"))

\* The names of the steps of a program, which take turns.
NamesInTurn(names, s) ==
    /\ names \in Seq(StepNames)
    /\ \A i \in 1 .. Len(names) :
        LET do == names[i]
            later(k, next) == i + k <= Len(names) /\ names[i + k] = next
        IN
        /\ do \in On => /\ names[Len(names)] = "save"
                        /\ \A j \in 1 .. Len(names) : names[j] \notin Off
        /\ do = "dns" => s \in Routed /\ later(2, "create")
        /\ do \in {"register", "deregister", "realtimeDns"} => s = "realtime"
        /\ do = "mint" => later(1, "allow")
        /\ do = "allow" => later(1, "store")
        /\ do = "store" => s = "storage" /\ later(1, "read")
        /\ do = "gone" => later(1, "undns") /\ (s # "auth" => later(2, "clear"))
        /\ do = "deregister" => later(2, "clear")
        /\ do = "removeContainer" =>
              \/ later(1, "container")
              \/ /\ \A j \in 1 .. Len(names) : names[j] # "save"
                 /\ s = "auth" \/ later(1, "clear")

NamePrecedes(names, b, a) ==
    \A i \in 1 .. Len(names) : names[i] = a => \E j \in 1 .. i - 1 : names[j] = b

\* Names with each b before an a, for a service.
NamesPrepared(names, s) ==
    /\ \A i \in 1 .. Len(names) : names[i] # "forget"
    /\ Boxed(s) => /\ NamePrecedes(names, "container", "save")
                   /\ NamePrecedes(names, "removeContainer", "clear")
    /\ s = "realtime" => /\ NamePrecedes(names, "register", "save")
                         /\ NamePrecedes(names, "deregister", "clear")
                         /\ NamePrecedes(names, "undns", "clear")
    /\ s \in Routed /\ mode # "docker" =>
          /\ NamePrecedes(names, "dns", "create") /\ NamePrecedes(names, "create", "save")
          /\ NamePrecedes(names, "remove", "clear") /\ NamePrecedes(names, "remove", "undns")

\* A step of a program made of names.
LEMMA StepAt ==
    ASSUME NEW p \in Projects, NEW s \in Services, NEW names \in Seq(StepNames)
    PROVE  LET t == Steps(p, s, names) IN
           /\ t \in Seq(StepRecords) /\ Len(t) = Len(names) /\ DOMAIN t = 1 .. Len(names)
           /\ Len(names) \in Nat
           /\ \A i \in 1 .. Len(names) :
                 t[i] = Step(p, s, names[i]) /\ t[i].do = names[i] /\ t[i].p = p /\ t[i].s = s
<1> DEFINE t == Steps(p, s, names)
<1>1. /\ t \in Seq(StepRecords) /\ Len(t) = Len(names)
      /\ \A i \in 1 .. Len(names) : t[i] = [do |-> names[i], p |-> p, s |-> s]
    BY StepsTyped
<1>2. DOMAIN t = 1 .. Len(names) /\ Len(names) \in Nat
    BY <1>1
<1> HIDE DEF t
<1>3. ASSUME NEW i \in 1 .. Len(names)
      PROVE  t[i] = Step(p, s, names[i]) /\ t[i].do = names[i] /\ t[i].p = p /\ t[i].s = s
    <2>1. t[i] = [do |-> names[i], p |-> p, s |-> s]
        BY <1>1
    <2> QED
        BY <2>1 DEF Step
<1> QED
    BY <1>1, <1>2, <1>3 DEF t

\* Steps are the same where what they do is.
LEMMA SameStep ==
    ASSUME NEW p, NEW q, NEW s, NEW z, NEW do, NEW na
    PROVE  (Step(p, s, do) = Step(q, z, na)) <=> (p = q /\ s = z /\ do = na)
<1>1. /\ Step(p, s, do).p = p /\ Step(p, s, do).s = s /\ Step(p, s, do).do = do
      /\ Step(q, z, na).p = q /\ Step(q, z, na).s = z /\ Step(q, z, na).do = na
    BY DEF Step
<1> QED
    BY <1>1

\* Names that take turns, each prepared, make a program of which that is true.
LEMMA StepsTurn ==
    ASSUME NEW p \in Projects, NEW s \in Services, NEW names,
           NamesInTurn(names, s), NamesPrepared(names, s)
    PROVE  InTurn(Steps(p, s, names)) /\ Prepared(Steps(p, s, names), p)
<1> DEFINE t == Steps(p, s, names)
<1>1. /\ t \in Seq(StepRecords) /\ Len(t) = Len(names) /\ DOMAIN t = 1 .. Len(names)
      /\ Len(names) \in Nat
      /\ \A i \in 1 .. Len(names) :
            t[i] = Step(p, s, names[i]) /\ t[i].do = names[i] /\ t[i].p = p /\ t[i].s = s
    BY StepAt DEF NamesInTurn
<1> HIDE DEF t
<1>2. \A i \in 1 .. Len(names) :
         /\ i + 1 <= Len(names) => i + 1 \in 1 .. Len(names)
         /\ i + 2 <= Len(names) => i + 2 \in 1 .. Len(names)
         /\ Len(names) \in 1 .. Len(names)
    BY <1>1
<1>3. InTurn(t)
    <2> SUFFICES ASSUME NEW i \in 1 .. Len(names)
                 PROVE  LET do == names[i]
                            later(k, next) == Later(t, i, k, Step(p, s, next))
                        IN
                        /\ do \in On => /\ t[Len(t)] = Step(p, s, "save")
                                        /\ \A j \in DOMAIN t : t[j].do \notin Off
                        /\ do = "dns" => s \in Routed /\ later(2, "create")
                        /\ do \in {"register", "deregister", "realtimeDns"} => s = "realtime"
                        /\ do = "mint" => later(1, "allow")
                        /\ do = "allow" => later(1, "store")
                        /\ do = "store" => s = "storage" /\ later(1, "read")
                        /\ do = "gone" => later(1, "undns") /\ (s # "auth" => later(2, "clear"))
                        /\ do = "deregister" => later(2, "clear")
                        /\ do = "removeContainer" =>
                              \/ later(1, "container")
                              \/ /\ \A j \in DOMAIN t : t[j].do # "save"
                                 /\ s = "auth" \/ later(1, "clear")
        BY <1>1 DEF InTurn
    <2>1. /\ \A next : i + 1 <= Len(names) /\ names[i + 1] = next => Later(t, i, 1, Step(p, s, next))
          /\ \A next : i + 2 <= Len(names) /\ names[i + 2] = next => Later(t, i, 2, Step(p, s, next))
        BY <1>1, <1>2 DEF Later
    <2>2. names[Len(names)] = "save" => t[Len(t)] = Step(p, s, "save")
        BY <1>1, <1>2
    <2>3. /\ (\A j \in 1 .. Len(names) : names[j] \notin Off) => \A j \in DOMAIN t : t[j].do \notin Off
          /\ (\A j \in 1 .. Len(names) : names[j] # "save") => \A j \in DOMAIN t : t[j].do # "save"
        BY <1>1
    <2> QED
        BY <2>1, <2>2, <2>3 DEF NamesInTurn
<1>4. ASSUME NEW z, NEW b, NEW a, z = s => NamePrecedes(names, b, a)
      PROVE  Precedes(t, Step(p, z, b), Step(p, z, a))
    <2> SUFFICES ASSUME NEW i \in 1 .. Len(names), t[i] = Step(p, z, a)
                 PROVE  \E j \in 1 .. i - 1 : t[j] = Step(p, z, b)
        BY <1>1 DEF Precedes
    <2>1. z = s /\ names[i] = a
        BY <1>1, SameStep
    <2>2. PICK j \in 1 .. i - 1 : names[j] = b
        BY <1>4, <2>1 DEF NamePrecedes
    <2>3. j \in 1 .. Len(names)
        BY <1>1, <2>2
    <2> QED
        BY <1>1, <2>1, <2>2, <2>3
<1>5. ASSUME NEW b, NEW z PROVE Precedes(t, b, Step(p, z, "forget"))
    <2>1. \A i \in DOMAIN t : t[i] # Step(p, z, "forget")
        BY <1>1, SameStep DEF NamesPrepared
    <2> QED
        BY <2>1 DEF Precedes
<1>6. Prepared(t, p)
    BY <1>4, <1>5 DEF Prepared, NamesPrepared
<1> QED
    BY <1>3, <1>6 DEF t

TakesTurns(names, s) == NamesInTurn(names, s) /\ NamesPrepared(names, s)

\* What turns a service on ends with the row, and turns nothing off.
TurnsItOn(names, s) ==
    /\ TakesTurns(names, s) /\ names # <<>> /\ names[Len(names)] = "save"
    /\ \A i \in 1 .. Len(names) : names[i] \notin Off

\* What may come before: the secret, the bucket and its key.
Prelude(names, s) ==
    /\ names \in Seq({"secret", "read", "bucket", "mint", "allow", "store"})
    /\ \A i \in 1 .. Len(names) :
          /\ names[i] = "mint" => i + 1 <= Len(names) /\ names[i + 1] = "allow"
          /\ names[i] = "allow" => i + 1 <= Len(names) /\ names[i + 1] = "store"
          /\ names[i] = "store" => s = "storage" /\ i + 1 <= Len(names) /\ names[i + 1] = "read"

\* A program that turns a service on takes turns from its prelude on.
LEMMA WithPrelude ==
    ASSUME NEW s, NEW names, Prelude(names, s), NEW rest, TurnsItOn(rest, s)
    PROVE  TakesTurns(names \o rest, s)
<1> DEFINE w == names \o rest
           k == Len(names)
           m == Len(rest)
           Pre == {"secret", "read", "bucket", "mint", "allow", "store"}
<1>1. names \in Seq(StepNames) /\ rest \in Seq(StepNames) /\ k \in Nat /\ m \in Nat /\ m >= 1
    <2>1. Pre \subseteq StepNames
        BY DEF StepNames
    <2>2. names \in Seq(Pre)
        BY DEF Prelude
    <2> HIDE DEF Pre
    <2>3. names \in Seq(StepNames)
        BY <2>1, <2>2
    <2>4. rest \in Seq(StepNames) /\ rest # <<>>
        BY DEF TurnsItOn, TakesTurns, NamesInTurn
    <2> QED
        BY <2>3, <2>4
<1>2. /\ w \in Seq(StepNames) /\ Len(w) = k + m
      /\ \A i \in 1 .. k : w[i] = names[i]
      /\ \A i \in 1 .. m : w[k + i] = rest[i]
    BY <1>1, Joined
<1>3. \A i \in 1 .. k : names[i] \in Pre
    BY DEF Prelude
<1>4. Prelude(names, s) /\ w[Len(w)] = "save"
    BY <1>1, <1>2 DEF TurnsItOn
<1> HIDE DEF w, k, m
<1>5. \A i \in 1 .. Len(w) : i \in 1 .. k \/ (i - k \in 1 .. m /\ k + (i - k) = i)
    BY <1>1, <1>2
<1>6. \A i \in 1 .. Len(w) : w[i] \notin Off
    <2>1. \A i \in 1 .. k : w[i] \notin Off
        BY <1>2, <1>3 DEF Off
    <2>2. \A i \in 1 .. m : w[k + i] \notin Off
        BY <1>2 DEF TurnsItOn, m
    <2> QED
        BY <1>5, <2>1, <2>2
<1>7. ASSUME NEW i \in 1 .. k, NEW next, i + 1 <= k, names[i + 1] = next
      PROVE  i + 1 <= Len(w) /\ w[i + 1] = next
    BY <1>1, <1>2, <1>7
<1>8. ASSUME NEW j \in 1 .. m, NEW d \in {1, 2}, NEW next, j + d <= m, rest[j + d] = next
      PROVE  (k + j) + d <= Len(w) /\ w[(k + j) + d] = next
    <2>1. (k + j) + d = k + (j + d) /\ j + d \in 1 .. m
        BY <1>1, <1>8
    <2> QED
        BY <1>1, <1>2, <1>8, <2>1
<1>9. NamesInTurn(w, s)
    <2> SUFFICES ASSUME NEW i \in 1 .. Len(w)
                 PROVE  LET do == w[i]
                            later(d, next) == i + d <= Len(w) /\ w[i + d] = next
                        IN
                        /\ do = "dns" => s \in Routed /\ later(2, "create")
                        /\ do \in {"register", "deregister", "realtimeDns"} => s = "realtime"
                        /\ do = "mint" => later(1, "allow")
                        /\ do = "allow" => later(1, "store")
                        /\ do = "store" => s = "storage" /\ later(1, "read")
                        /\ do \notin {"gone", "deregister"}
                        /\ do = "removeContainer" => later(1, "container")
        BY <1>2, <1>4, <1>6 DEF NamesInTurn
    <2>1. CASE i \in 1 .. k
        BY <1>2, <1>3, <1>4, <1>7, <2>1 DEF Prelude, k
    <2>2. CASE i - k \in 1 .. m /\ k + (i - k) = i
        <3> DEFINE j == i - k
        <3>1. j \in 1 .. m /\ k + j = i /\ w[i] = rest[j]
            BY <1>2, <2>2
        <3> HIDE DEF j
        <3>2. w[i] \notin {"gone", "deregister"}
            BY <1>6 DEF Off
        <3>3. NamesInTurn(rest, s)
            BY DEF TurnsItOn, TakesTurns
        <3>4. rest[j] = "removeContainer" => j + 1 <= m /\ rest[j + 1] = "container"
            <4>1. \E i_1 \in 1 .. m : rest[i_1] = "save"
                BY <1>1 DEF TurnsItOn, m
            <4>2. \A i_1 \in 1 .. m : rest[i_1] # "clear"
                BY DEF TurnsItOn, Off, m
            <4> QED
                BY <3>1, <3>3, <4>1, <4>2 DEF NamesInTurn, m
        <3> QED
            BY <1>8, <3>1, <3>2, <3>3, <3>4 DEF NamesInTurn, m
    <2> QED
        BY <1>5, <2>1, <2>2
<1>10. ASSUME NEW b, NEW a \in {"save", "create", "clear", "undns"}, NamePrecedes(rest, b, a)
       PROVE  NamePrecedes(w, b, a)
    <2> SUFFICES ASSUME NEW i \in 1 .. Len(w), w[i] = a
                 PROVE  \E j \in 1 .. i - 1 : w[j] = b
        BY DEF NamePrecedes
    <2>1. i \notin 1 .. k
        BY <1>2, <1>3
    <2>2. i - k \in 1 .. m /\ rest[i - k] = a
        BY <1>2, <1>5, <2>1
    <2>3. PICK j \in 1 .. (i - k) - 1 : rest[j] = b
        BY <1>10, <2>2 DEF NamePrecedes, m
    <2>4. j \in 1 .. m /\ k + j \in 1 .. i - 1
        BY <1>1, <1>2, <2>2, <2>3
    <2> QED
        BY <1>2, <2>3, <2>4
<1>11. NamesPrepared(w, s)
    <2>1. \A i \in 1 .. Len(w) : w[i] # "forget"
        BY <1>6 DEF Off
    <2> QED
        BY <1>10, <2>1 DEF NamesPrepared, TurnsItOn, TakesTurns
<1> QED
    BY <1>9, <1>11 DEF TakesTurns, w

\* The steps that run a service turn it on.
LEMMA RunsTurnOn ==
    /\ TurnsItOn(RunsContainer, "functions")
    /\ \A s \in Routed : TurnsItOn(Runs, s)
    /\ TurnsItOn(<<"register", "realtimeDns", "save">>, "realtime")
<1>1. ASSUME NEW s, s = "functions" \/ (s \in Routed /\ mode = "docker")
      PROVE  TurnsItOn(RunsContainer, s)
    <2> DEFINE n == RunsContainer
    <2>1. n \in Seq(StepNames) /\ Len(n) = 3 /\ n[1] = "removeContainer" /\ n[2] = "container" /\ n[3] = "save"
        BY DEF RunsContainer, StepNames
    <2> HIDE DEF n
    <2>2. 1 .. Len(n) = {1, 2, 3} /\ n # <<>>
        BY <2>1
    <2>3. \A i \in 1 .. Len(n) : n[i] \notin Off /\ n[i] \notin {"forget", "clear"}
        BY <2>1, <2>2 DEF Off
    <2>4. NamesInTurn(n, s)
        <3>1. \A i \in 1 .. Len(n) : n[i] = "removeContainer" => i + 1 <= Len(n) /\ n[i + 1] = "container"
            BY <2>1, <2>2
        <3> QED
            BY <2>1, <2>2, <2>3, <3>1 DEF NamesInTurn
    <2>5. NamePrecedes(n, "container", "save")
        <3>1. 2 \in 1 .. 3 - 1
            OBVIOUS
        <3> QED
            BY <2>1, <2>2, <3>1 DEF NamePrecedes
    <2>6. NamePrecedes(n, "removeContainer", "clear")
        BY <2>3 DEF NamePrecedes
    <2>7. s # "realtime" /\ ~(s \in Routed /\ mode # "docker")
        BY <1>1 DEF Routed
    <2> QED
        BY <2>1, <2>2, <2>3, <2>4, <2>5, <2>6, <2>7 DEF TurnsItOn, TakesTurns, NamesPrepared, n
<1>2. ASSUME NEW s \in Routed, mode # "docker"
      PROVE  TurnsItOn(RunsApp, s)
    <2> DEFINE n == RunsApp
    <2>1. /\ n \in Seq(StepNames) /\ Len(n) = 7 /\ n[1] = "dns" /\ n[2] = "find" /\ n[3] = "create"
          /\ n[4] = "await" /\ n[5] = "env" /\ n[6] = "deploy" /\ n[7] = "save"
        BY DEF RunsApp, StepNames
    <2> HIDE DEF n
    <2>2. 1 .. Len(n) = {1, 2, 3, 4, 5, 6, 7} /\ n # <<>>
        BY <2>1
    <2>3. \A i \in 1 .. Len(n) : n[i] \notin Off /\ n[i] \notin {"forget", "clear", "undns"}
        BY <2>1, <2>2 DEF Off
    <2>4. \A i \in 1 .. Len(n) :
             /\ n[i] = "dns" => i = 1
             /\ n[i] = "create" => i = 3
             /\ n[i] = "save" => i = 7
             /\ n[i] \in {"dns", "find", "create", "await", "env", "deploy", "save"}
        BY <2>1, <2>2
    <2>5. NamesInTurn(n, s)
        <3>1. \A i \in 1 .. Len(n) : n[i] = "dns" => i + 2 <= Len(n) /\ n[i + 2] = "create"
            BY <2>1, <2>4
        <3> QED
            BY <2>1, <2>3, <2>4, <3>1 DEF NamesInTurn
    <2>6. NamePrecedes(n, "dns", "create") /\ NamePrecedes(n, "create", "save")
        <3>1. 1 \in 1 .. 3 - 1 /\ 3 \in 1 .. 7 - 1
            OBVIOUS
        <3> QED
            BY <2>1, <2>4, <3>1 DEF NamePrecedes
    <2>7. NamePrecedes(n, "remove", "clear") /\ NamePrecedes(n, "remove", "undns")
        BY <2>3 DEF NamePrecedes
    <2>8. s # "realtime" /\ ~Boxed(s)
        BY <1>2 DEF Routed, Boxed
    <2> QED
        BY <2>1, <2>2, <2>3, <2>5, <2>6, <2>7, <2>8 DEF TurnsItOn, TakesTurns, NamesPrepared, n
<1>3. TurnsItOn(<<"register", "realtimeDns", "save">>, "realtime")
    <2> DEFINE n == <<"register", "realtimeDns", "save">>
    <2>1. n \in Seq(StepNames) /\ Len(n) = 3 /\ n[1] = "register" /\ n[2] = "realtimeDns" /\ n[3] = "save"
        BY DEF StepNames
    <2> HIDE DEF n
    <2>2. 1 .. Len(n) = {1, 2, 3} /\ n # <<>>
        BY <2>1
    <2>3. \A i \in 1 .. Len(n) : n[i] \notin Off /\ n[i] \notin {"forget", "clear", "removeContainer"}
        BY <2>1, <2>2 DEF Off
    <2>4. NamesInTurn(n, "realtime")
        BY <2>1, <2>2, <2>3 DEF NamesInTurn
    <2>5. NamePrecedes(n, "register", "save")
        <3>1. 1 \in 1 .. 3 - 1
            OBVIOUS
        <3> QED
            BY <2>1, <2>2, <3>1 DEF NamePrecedes
    <2>6. NamePrecedes(n, "deregister", "clear") /\ NamePrecedes(n, "undns", "clear")
        BY <2>3 DEF NamePrecedes
    <2>7. ~Boxed("realtime") /\ "realtime" \notin Routed
        BY DEF Routed, Boxed
    <2> QED
        BY <2>1, <2>2, <2>3, <2>4, <2>5, <2>6, <2>7 DEF TurnsItOn, TakesTurns, NamesPrepared, n
<1> QED
    BY <1>1, <1>2, <1>3 DEF Runs

\* The programs that turn a service on take turns.
LEMMA OnTakesTurns ==
    /\ TakesTurns(<<"secret">> \o Runs, "auth") /\ TakesTurns(<<"read">> \o Runs, "rest")
    /\ TakesTurns((provisionStorage \o <<"read">>) \o Runs, "storage")
    /\ TakesTurns(<<"read">> \o <<"register", "realtimeDns", "save">>, "realtime")
    /\ TakesTurns(<<"read">> \o RunsContainer, "functions")
<1>1. \A s : Prelude(<<"secret">>, s)
    <2> DEFINE n == <<"secret">>
    <2>1. n \in Seq({"secret", "read", "bucket", "mint", "allow", "store"}) /\ Len(n) = 1 /\ n[1] = "secret"
        OBVIOUS
    <2> HIDE DEF n
    <2> QED
        BY <2>1 DEF Prelude, n
<1>2. \A s : Prelude(<<"read">>, s)
    <2> DEFINE n == <<"read">>
    <2>1. n \in Seq({"secret", "read", "bucket", "mint", "allow", "store"}) /\ Len(n) = 1 /\ n[1] = "read"
        OBVIOUS
    <2> HIDE DEF n
    <2> QED
        BY <2>1 DEF Prelude, n
<1>3. Prelude(provisionStorage \o <<"read">>, "storage")
    <2> DEFINE n == provisionStorage \o <<"read">>
    <2>1. /\ n \in Seq({"secret", "read", "bucket", "mint", "allow", "store"}) /\ Len(n) = 5
          /\ n[1] = "bucket" /\ n[2] = "mint" /\ n[3] = "allow" /\ n[4] = "store" /\ n[5] = "read"
        BY DEF provisionStorage
    <2> HIDE DEF n
    <2>2. 1 .. Len(n) = {1, 2, 3, 4, 5}
        BY <2>1
    <2> QED
        BY <2>1, <2>2 DEF Prelude, n
<1> QED
    <2>1. "auth" \in Routed /\ "rest" \in Routed /\ "storage" \in Routed
        BY DEF Routed
    <2> QED
        BY <1>1, <1>2, <1>3, <2>1, RunsTurnOn, WithPrelude

\* The steps that turn a service off take turns.
LEMMA OffTakesTurns ==
    /\ \A s \in Routed : TakesTurns(Removes \o <<"clear">>, s)
    /\ TakesTurns(Removes, "auth")
    /\ TakesTurns(<<"deregister", "undns", "clear">>, "realtime")
    /\ TakesTurns(<<"removeContainer", "clear">>, "functions")
    /\ TakesTurns(<<"removeKey", "removeBucket">>, "storage")
    /\ TakesTurns(<<"register project">>, "auth")
<1>1. ASSUME NEW s, s = "functions" \/ (s \in Routed /\ mode = "docker"), NEW n,
             n \in Seq(StepNames), Len(n) = 2, n[1] = "removeContainer", n[2] = "clear"
      PROVE  TakesTurns(n, s)
    <2>1. n \in Seq(StepNames) /\ Len(n) = 2 /\ n[1] = "removeContainer" /\ n[2] = "clear"
        BY <1>1
    <2>2. 1 .. Len(n) = {1, 2}
        BY <2>1
    <2>3. \A i \in 1 .. Len(n) : n[i] \notin On /\ n[i] \notin {"forget", "save"}
        BY <2>1, <2>2 DEF On
    <2>4. NamesInTurn(n, s)
        BY <2>1, <2>2, <2>3 DEF NamesInTurn
    <2>5. NamePrecedes(n, "removeContainer", "clear")
        <3>1. 1 \in 1 .. 2 - 1
            OBVIOUS
        <3> QED
            BY <2>1, <2>2, <3>1 DEF NamePrecedes
    <2>6. NamePrecedes(n, "container", "save")
        BY <2>3 DEF NamePrecedes
    <2>7. s # "realtime" /\ ~(s \in Routed /\ mode # "docker")
        BY <1>1 DEF Routed
    <2> QED
        BY <2>1, <2>3, <2>4, <2>5, <2>6, <2>7 DEF TakesTurns, NamesPrepared
<1>2. ASSUME NEW s \in Routed, mode # "docker"
      PROVE  TakesTurns(RemovesApp \o <<"clear">>, s)
    <2> DEFINE n == RemovesApp \o <<"clear">>
    <2>1. /\ n \in Seq(StepNames) /\ Len(n) = 4 /\ n[1] = "remove" /\ n[2] = "gone"
          /\ n[3] = "undns" /\ n[4] = "clear"
        BY DEF StepNames, RemovesApp
    <2> HIDE DEF n
    <2>2. 1 .. Len(n) = {1, 2, 3, 4}
        BY <2>1
    <2>3. \A i \in 1 .. Len(n) : n[i] \notin On /\ n[i] \notin {"forget", "save", "create"}
        BY <2>1, <2>2 DEF On
    <2>4. NamesInTurn(n, s)
        BY <2>1, <2>2, <2>3 DEF NamesInTurn
    <2>5. NamePrecedes(n, "remove", "clear") /\ NamePrecedes(n, "remove", "undns")
        <3>1. 1 \in 1 .. 4 - 1 /\ 1 \in 1 .. 3 - 1
            OBVIOUS
        <3> QED
            BY <2>1, <2>2, <3>1 DEF NamePrecedes
    <2>6. NamePrecedes(n, "dns", "create") /\ NamePrecedes(n, "create", "save")
        BY <2>3 DEF NamePrecedes
    <2>7. s # "realtime" /\ ~Boxed(s)
        BY <1>2 DEF Routed, Boxed
    <2> QED
        BY <2>1, <2>3, <2>4, <2>5, <2>6, <2>7 DEF TakesTurns, NamesPrepared, n
<1>3. ASSUME mode # "docker" PROVE TakesTurns(RemovesApp, "auth")
    <2> DEFINE n == RemovesApp
    <2>1. n \in Seq(StepNames) /\ Len(n) = 3 /\ n[1] = "remove" /\ n[2] = "gone" /\ n[3] = "undns"
        BY DEF StepNames, RemovesApp
    <2> HIDE DEF n
    <2>2. 1 .. Len(n) = {1, 2, 3}
        BY <2>1
    <2>3. \A i \in 1 .. Len(n) : n[i] \notin On /\ n[i] \notin {"forget", "save", "create", "clear"}
        BY <2>1, <2>2 DEF On
    <2>4. NamesInTurn(n, "auth")
        BY <2>1, <2>2, <2>3 DEF NamesInTurn
    <2>5. NamePrecedes(n, "remove", "undns")
        <3>1. 1 \in 1 .. 3 - 1
            OBVIOUS
        <3> QED
            BY <2>1, <2>2, <3>1 DEF NamePrecedes
    <2>6. /\ NamePrecedes(n, "dns", "create") /\ NamePrecedes(n, "create", "save")
          /\ NamePrecedes(n, "remove", "clear")
        BY <2>3 DEF NamePrecedes
    <2>7. ~Boxed("auth")
        BY <1>3 DEF Boxed
    <2> QED
        BY <2>1, <2>3, <2>4, <2>5, <2>6, <2>7 DEF TakesTurns, NamesPrepared, n
<1>4. ASSUME mode = "docker" PROVE TakesTurns(<<"removeContainer">>, "auth")
    <2> DEFINE n == <<"removeContainer">>
    <2>1. n \in Seq(StepNames) /\ Len(n) = 1 /\ n[1] = "removeContainer"
        BY DEF StepNames
    <2> HIDE DEF n
    <2>2. 1 .. Len(n) = {1}
        BY <2>1
    <2>3. \A i \in 1 .. Len(n) : n[i] \notin On /\ n[i] \notin {"forget", "save", "clear"}
        BY <2>1, <2>2 DEF On
    <2>4. NamesInTurn(n, "auth")
        BY <2>1, <2>2, <2>3 DEF NamesInTurn
    <2>5. NamePrecedes(n, "container", "save") /\ NamePrecedes(n, "removeContainer", "clear")
        BY <2>3 DEF NamePrecedes
    <2> QED
        BY <1>4, <2>1, <2>3, <2>4, <2>5 DEF TakesTurns, NamesPrepared, n
<1>5. TakesTurns(<<"deregister", "undns", "clear">>, "realtime")
    <2> DEFINE n == <<"deregister", "undns", "clear">>
    <2>1. n \in Seq(StepNames) /\ Len(n) = 3 /\ n[1] = "deregister" /\ n[2] = "undns" /\ n[3] = "clear"
        BY DEF StepNames
    <2> HIDE DEF n
    <2>2. 1 .. Len(n) = {1, 2, 3}
        BY <2>1
    <2>3. \A i \in 1 .. Len(n) : n[i] \notin On /\ n[i] \notin {"forget", "save"}
        BY <2>1, <2>2 DEF On
    <2>4. NamesInTurn(n, "realtime")
        BY <2>1, <2>2, <2>3 DEF NamesInTurn
    <2>5. NamePrecedes(n, "deregister", "clear") /\ NamePrecedes(n, "undns", "clear")
        <3>1. 1 \in 1 .. 3 - 1 /\ 2 \in 1 .. 3 - 1
            OBVIOUS
        <3> QED
            BY <2>1, <2>2, <3>1 DEF NamePrecedes
    <2>6. NamePrecedes(n, "register", "save")
        BY <2>3 DEF NamePrecedes
    <2>7. ~Boxed("realtime") /\ "realtime" \notin Routed
        BY DEF Routed, Boxed
    <2> QED
        BY <2>1, <2>3, <2>4, <2>5, <2>6, <2>7 DEF TakesTurns, NamesPrepared, n
<1>6. ASSUME NEW n, NEW s \in {"auth", "storage"}, n \in Seq(StepNames),
             \A i \in 1 .. Len(n) : n[i] \in {"removeKey", "removeBucket", "register project"}
      PROVE  TakesTurns(n, s)
    <2>1. \A i \in 1 .. Len(n) : n[i] \notin On /\ n[i] \notin {"forget", "save", "create", "clear", "undns"}
        BY <1>6 DEF On
    <2>2. NamesInTurn(n, s)
        BY <1>6, <2>1 DEF NamesInTurn
    <2>3. \A b : \A a \in {"save", "create", "clear", "undns"} : NamePrecedes(n, b, a)
        BY <2>1 DEF NamePrecedes
    <2> QED
        BY <2>1, <2>2, <2>3 DEF TakesTurns, NamesPrepared
<1>7. TakesTurns(<<"removeKey", "removeBucket">>, "storage")
    <2> DEFINE n == <<"removeKey", "removeBucket">>
    <2>1. n \in Seq(StepNames) /\ Len(n) = 2 /\ n[1] = "removeKey" /\ n[2] = "removeBucket"
        BY DEF StepNames
    <2> HIDE DEF n
    <2>2. 1 .. Len(n) = {1, 2}
        BY <2>1
    <2>3. \A i \in 1 .. Len(n) : n[i] \in {"removeKey", "removeBucket", "register project"}
        BY <2>1, <2>2
    <2>4. TakesTurns(n, "storage")
        BY <1>6, <2>1, <2>3
    <2> QED
        BY <2>4 DEF n
<1>8. TakesTurns(<<"register project">>, "auth")
    <2> DEFINE n == <<"register project">>
    <2>1. n \in Seq(StepNames) /\ n[1] = "register project"
        BY DEF StepNames
    <2>2. Len(n) = 1
        OBVIOUS
    <2> HIDE DEF n
    <2>3. \A i \in 1 .. Len(n) : i = 1
        BY <2>2
    <2>4. \A i \in 1 .. Len(n) : n[i] \in {"removeKey", "removeBucket", "register project"}
        BY ONLY <2>1, <2>3
    <2>5. TakesTurns(n, "auth")
        BY <1>6, <2>1, <2>4
    <2> QED
        BY <2>5 DEF n
<1>9. TakesTurns(<<"removeContainer", "clear">>, "functions")
    <2> DEFINE n == <<"removeContainer", "clear">>
    <2>1. n \in Seq(StepNames) /\ Len(n) = 2 /\ n[1] = "removeContainer" /\ n[2] = "clear"
        BY DEF StepNames
    <2> HIDE DEF n
    <2>2. TakesTurns(n, "functions")
        BY <1>1, <2>1
    <2> QED
        BY <2>2 DEF n
<1>10. CASE mode = "docker"
    <2> DEFINE n == Removes \o <<"clear">>
    <2>1. n \in Seq(StepNames) /\ Len(n) = 2 /\ n[1] = "removeContainer" /\ n[2] = "clear"
        BY <1>10 DEF Removes, StepNames
    <2>2. Removes = <<"removeContainer">>
        BY <1>10 DEF Removes
    <2> HIDE DEF n
    <2>3. \A s \in Routed : TakesTurns(n, s)
        BY <1>1, <1>10, <2>1
    <2> QED
        BY <1>4, <1>5, <1>7, <1>8, <1>9, <1>10, <2>2, <2>3 DEF n
<1>11. CASE mode # "docker"
    <2>1. Removes = RemovesApp
        BY <1>11 DEF Removes
    <2>2. \A s \in Routed : TakesTurns(Removes \o <<"clear">>, s)
        BY <1>2, <1>11, <2>1, Zenon
    <2> QED
        BY <1>3, <1>5, <1>7, <1>8, <1>9, <1>11, <2>1, <2>2
<1> QED
    BY <1>10, <1>11

\* A program that turns things off in turn, with the steps A among its own.
Undoes(t, p, A) ==
    /\ t \in Seq(StepRecords) /\ InTurn(t) /\ Prepared(t, p)
    /\ \A i \in DOMAIN t : t[i].do \notin On \cup {"forget"}
    /\ \A a \in A : \E i \in DOMAIN t : t[i] = a

\* Names that take turns and turn nothing on make such a program.
LEMMA StepsUndo ==
    ASSUME NEW p \in Projects, NEW s \in Services, NEW names, TakesTurns(names, s),
           \A i \in 1 .. Len(names) : names[i] \notin On
    PROVE  Undoes(Steps(p, s, names), p, {Step(p, s, names[i]) : i \in 1 .. Len(names)})
<1> DEFINE t == Steps(p, s, names)
<1>1. /\ t \in Seq(StepRecords) /\ DOMAIN t = 1 .. Len(names)
      /\ \A i \in 1 .. Len(names) : t[i] = Step(p, s, names[i]) /\ t[i].do = names[i]
    BY StepAt DEF TakesTurns, NamesInTurn
<1>2. InTurn(t) /\ Prepared(t, p)
    BY StepsTurn DEF TakesTurns
<1>3. \A i \in 1 .. Len(names) : names[i] # "forget"
    BY DEF TakesTurns, NamesPrepared
<1> HIDE DEF t
<1>4. \A i \in DOMAIN t : t[i].do \notin On \cup {"forget"}
    BY <1>1, <1>3
<1> QED
    BY <1>1, <1>2, <1>4 DEF Undoes, t

\* What precedes in each of two programs precedes in both.
LEMMA PrecedesBoth ==
    ASSUME NEW t \in Seq(StepRecords), NEW u \in Seq(StepRecords), NEW b, NEW a,
           Precedes(t, b, a), Precedes(u, b, a) \/ \E i \in DOMAIN t : t[i] = b
    PROVE  Precedes(t \o u, b, a)
<1> DEFINE w == t \o u
           k == Len(t)
           m == Len(u)
<1>1. /\ Len(w) = k + m /\ DOMAIN w = 1 .. k + m /\ DOMAIN t = 1 .. k /\ DOMAIN u = 1 .. m
      /\ \A i \in 1 .. k : w[i] = t[i]
      /\ \A i \in 1 .. m : w[k + i] = u[i]
      /\ k \in Nat /\ m \in Nat
    BY Joined
<1> HIDE DEF w, k, m
<1> SUFFICES ASSUME NEW i \in DOMAIN w, w[i] = a
             PROVE  \E j \in 1 .. i - 1 : w[j] = b
    BY DEF Precedes, w
<1>2. CASE i \in 1 .. k
    <2>1. PICK j \in 1 .. i - 1 : t[j] = b
        BY <1>1, <1>2 DEF Precedes
    <2>2. j \in 1 .. k
        BY <1>1, <1>2
    <2> QED
        BY <1>1, <2>1, <2>2
<1>3. CASE i \notin 1 .. k
    <2>1. i - k \in 1 .. m /\ k + (i - k) = i
        BY <1>1, <1>3
    <2>2. CASE Precedes(u, b, a)
        <3>1. u[i - k] = a
            BY <1>1, <2>1
        <3>2. PICK j \in 1 .. (i - k) - 1 : u[j] = b
            BY <1>1, <2>1, <2>2, <3>1 DEF Precedes
        <3>3. j \in 1 .. m /\ k + j \in 1 .. i - 1
            BY <1>1, <2>1, <3>2
        <3> QED
            BY <1>1, <3>2, <3>3
    <2>3. CASE \E j \in DOMAIN t : t[j] = b
        <3>1. PICK j \in DOMAIN t : t[j] = b
            BY <2>3
        <3>2. j \in 1 .. k /\ j \in 1 .. i - 1
            BY <1>1, <1>3, <3>1
        <3> QED
            BY <1>1, <3>1, <3>2
    <2> QED
        BY <2>2, <2>3
<1> QED
    BY <1>2, <1>3

\* Two programs in turn that turn nothing on, one after the other.
LEMMA InTurnBoth ==
    ASSUME NEW t \in Seq(StepRecords), NEW u \in Seq(StepRecords), InTurn(t), InTurn(u),
           \A i \in DOMAIN t : t[i].do \notin On, \A i \in DOMAIN u : u[i].do \notin On
    PROVE  /\ InTurn(t \o u) /\ t \o u \in Seq(StepRecords)
           /\ \A i \in DOMAIN t : \E j \in DOMAIN (t \o u) : (t \o u)[j] = t[i]
           /\ \A i \in DOMAIN u : \E j \in DOMAIN (t \o u) : (t \o u)[j] = u[i]
           /\ \A j \in DOMAIN (t \o u) : \/ \E i \in DOMAIN t : (t \o u)[j] = t[i]
                                         \/ \E i \in DOMAIN u : (t \o u)[j] = u[i]
<1> DEFINE w == t \o u
<1>1. /\ w \in Seq(StepRecords) /\ Len(w) = Len(t) + Len(u) /\ Len(t) \in Nat /\ Len(u) \in Nat
      /\ \A i \in 1 .. Len(t) : w[i] = t[i]
      /\ \A i \in 1 .. Len(u) : w[Len(t) + i] = u[i]
    BY Joined
<1> HIDE DEF w
<1>2. DOMAIN w = 1 .. Len(w) /\ DOMAIN t = 1 .. Len(t) /\ DOMAIN u = 1 .. Len(u)
    BY <1>1
<1>3. /\ \A i \in DOMAIN t : i \in DOMAIN w /\ w[i] = t[i]
      /\ \A i \in DOMAIN u : Len(t) + i \in DOMAIN w /\ w[Len(t) + i] = u[i]
      /\ \A i \in DOMAIN w : i \in DOMAIN t \/ \E j \in DOMAIN u : i = Len(t) + j
    <2>1. ASSUME NEW i \in DOMAIN w PROVE i \in DOMAIN t \/ i - Len(t) \in DOMAIN u
        BY <1>1, <1>2
    <2>2. \A i \in DOMAIN w : i = Len(t) + (i - Len(t))
        BY <1>1, <1>2
    <2>3. /\ \A i \in DOMAIN t : i \in DOMAIN w
          /\ \A i \in DOMAIN u : Len(t) + i \in DOMAIN w
        BY <1>1, <1>2
    <2> QED
        BY <1>1, <1>2, <2>1, <2>2, <2>3
<1>4. \A i \in DOMAIN w : w[i].do \notin On
    BY <1>3
<1>5. /\ \A i \in DOMAIN t, k \in {1, 2} : \A a : Later(t, i, k, a) => Later(w, i, k, a)
      /\ \A i \in DOMAIN u, k \in {1, 2} : \A a : Later(u, i, k, a) => Later(w, Len(t) + i, k, a)
    <2>1. \A i \in DOMAIN u, k \in {1, 2} : (Len(t) + i) + k = Len(t) + (i + k)
        BY <1>1, <1>2
    <2> QED
        BY <1>3, <2>1 DEF Later
<1>6. ASSUME NEW x \in Seq(StepRecords), InTurn(x), NEW i \in DOMAIN x, x[i].do \notin On,
             NEW j \in DOMAIN w, w[j] = x[i],
             \A k \in {1, 2} : \A a : Later(x, i, k, a) => Later(w, j, k, a),
             \A h \in DOMAIN x : x[h].do \notin On
      PROVE  LET do == w[j].do  s == w[j].s
                 later(k, next) == Later(w, j, k, Step(w[j].p, s, next))
             IN
             /\ do \in On => /\ w[Len(w)] = Step(w[j].p, s, "save")
                             /\ \A h \in DOMAIN w : w[h].do \notin Off
             /\ do = "dns" => s \in Routed /\ later(2, "create")
             /\ do \in {"register", "deregister", "realtimeDns"} => s = "realtime"
             /\ do = "mint" => later(1, "allow")
             /\ do = "allow" => later(1, "store")
             /\ do = "store" => s = "storage" /\ later(1, "read")
             /\ do = "gone" => later(1, "undns") /\ (s # "auth" => later(2, "clear"))
             /\ do = "deregister" => later(2, "clear")
             /\ do = "removeContainer" =>
                   \/ later(1, "container")
                   \/ /\ \A h \in DOMAIN w : w[h].do # "save"
                      /\ s = "auth" \/ later(1, "clear")
    <2>1. \A h \in DOMAIN w : w[h].do # "save"
        BY <1>4 DEF On
    <2> QED
        BY <1>6, <2>1 DEF InTurn
<1>7. InTurn(w)
    <2> SUFFICES ASSUME NEW j \in DOMAIN w
                 PROVE  \E x \in Seq(StepRecords) : \E i \in DOMAIN x :
                           /\ InTurn(x) /\ x[i].do \notin On /\ w[j] = x[i]
                           /\ \A k \in {1, 2} : \A a : Later(x, i, k, a) => Later(w, j, k, a)
                           /\ \A h \in DOMAIN x : x[h].do \notin On
        BY <1>6 DEF InTurn
    <2>2. CASE j \in DOMAIN t
        BY <1>3, <1>5, <2>2
    <2>3. CASE \E i \in DOMAIN u : j = Len(t) + i
        <3>1. PICK i \in DOMAIN u : j = Len(t) + i
            BY <2>3
        <3> QED
            BY <1>3, <1>5, <3>1
    <2> QED
        BY <1>3, <2>2, <2>3
<1> QED
    BY <1>1, <1>3, <1>7 DEF w

\* Two programs that turn things off, one after the other.
LEMMA UndoesBoth ==
    ASSUME NEW t, NEW u, NEW p, NEW A, NEW B, Undoes(t, p, A), Undoes(u, p, B)
    PROVE  Undoes(t \o u, p, A \cup B)
<1> DEFINE w == t \o u
<1>1. /\ t \in Seq(StepRecords) /\ u \in Seq(StepRecords) /\ InTurn(t) /\ InTurn(u)
      /\ \A i \in DOMAIN t : t[i].do \notin On
      /\ \A i \in DOMAIN u : u[i].do \notin On
    BY DEF Undoes
<1>2. /\ InTurn(w) /\ w \in Seq(StepRecords)
      /\ \A i \in DOMAIN t : \E j \in DOMAIN w : w[j] = t[i]
      /\ \A i \in DOMAIN u : \E j \in DOMAIN w : w[j] = u[i]
      /\ \A j \in DOMAIN w : \/ \E i \in DOMAIN t : w[j] = t[i]
                             \/ \E i \in DOMAIN u : w[j] = u[i]
    BY <1>1, InTurnBoth
<1>3. \A b, a : Precedes(t, b, a) /\ Precedes(u, b, a) => Precedes(w, b, a)
    BY <1>1, PrecedesBoth
<1> HIDE DEF w
<1>4. Prepared(w, p)
    BY <1>3 DEF Prepared, Undoes
<1>5. \A j \in DOMAIN w : w[j].do \notin On \cup {"forget"}
    BY <1>2 DEF Undoes
<1>6. \A a \in A \cup B : \E i \in DOMAIN w : w[i] = a
    BY <1>2 DEF Undoes
<1> QED
    BY <1>2, <1>4, <1>5, <1>6 DEF Undoes, w

\* A program that has turned everything off may forget the project.
LEMMA ForgetsInTurn ==
    ASSUME NEW p \in Projects, NEW t, NEW A, Undoes(t, p, A),
           \A s \in Services \ {"auth"} : Step(p, s, "clear") \in A,
           Boxed("auth") => Step(p, "auth", "removeContainer") \in A,
           Step(p, "storage", "removeKey") \in A, Step(p, "storage", "removeBucket") \in A,
           NEW last \in Seq(StepRecords), Len(last) = 1, last[1] = Step(p, "auth", "forget")
    PROVE  InTurn(t \o last) /\ Prepared(t \o last, p)
<1> DEFINE w == t \o last
<1>1. /\ t \in Seq(StepRecords) /\ InTurn(t) /\ Prepared(t, p)
      /\ \A i \in DOMAIN t : t[i].do \notin On
      /\ \A a \in A : \E i \in DOMAIN t : t[i] = a
    BY DEF Undoes
<1>2. DOMAIN last = {1} /\ last[1].do = "forget"
    BY DEF Step
<1>3. InTurn(w)
    <2>1. InTurn(last)
        BY <1>2 DEF InTurn, On
    <2>2. \A i \in DOMAIN last : last[i].do \notin On
        BY <1>2 DEF On
    <2> QED
        BY <1>1, <2>1, <2>2, InTurnBoth
<1>4. \A s, b, do : do # "forget" => Precedes(last, b, Step(p, s, do))
    BY <1>2, SameStep DEF Precedes
<1>5. ASSUME NEW b, NEW a, Precedes(t, b, a), Precedes(last, b, a) \/ b \in A
      PROVE  Precedes(w, b, a)
    BY <1>1, <1>5, PrecedesBoth
<1> HIDE DEF w
<1>6. \A b, s, do : Precedes(t, b, Step(p, s, do)) /\ (do # "forget" \/ b \in A) => Precedes(w, b, Step(p, s, do))
    BY <1>4, <1>5
<1>7. Prepared(w, p)
    <2>1. Prepared(t, p)
        BY <1>1
    <2> QED
        BY <1>6, <2>1 DEF Prepared
<1> QED
    BY <1>3, <1>7 DEF w

\* The teardown takes turns, and forgets the project when all is off.
LEMMA DestroyInTurn ==
    ASSUME NEW p \in Projects
    PROVE  InTurn(destroyProject(p)) /\ Prepared(destroyProject(p), p)
<1> DEFINE on(names) == \A i \in 1 .. Len(names) : names[i] \notin On
           clear(s) == Step(p, s, "clear")
           gone == IF mode = "docker" THEN {Step(p, "auth", "removeContainer")} ELSE {}
           last == Steps(p, "auth", <<"forget">>)
<1> USE DEF On
<1>1. on(Removes) /\ (mode = "docker" => Removes[1] = "removeContainer" /\ 1 \in 1 .. Len(Removes))
    <2>1. CASE mode = "docker"
        BY <2>1 DEF Removes
    <2>2. CASE mode # "docker"
        BY <2>2 DEF Removes, RemovesApp
    <2> QED
        BY <2>1, <2>2
<1>2. /\ on(Removes \o <<"clear">>)
      /\ \E i \in 1 .. Len(Removes \o <<"clear">>) : (Removes \o <<"clear">>)[i] = "clear"
    <2> DEFINE n == Removes \o <<"clear">>
    <2>1. CASE mode = "docker"
        <3>1. on(n) /\ n[2] = "clear" /\ 2 \in 1 .. Len(n)
            BY <2>1 DEF Removes
        <3> HIDE DEF n
        <3> QED
            BY <3>1 DEF n
    <2>2. CASE mode # "docker"
        <3>1. on(n) /\ n[4] = "clear" /\ 4 \in 1 .. Len(n)
            BY <2>2 DEF Removes, RemovesApp
        <3> HIDE DEF n
        <3> QED
            BY <3>1 DEF n
    <2> QED
        BY <2>1, <2>2
<1>3. /\ on(<<"deregister", "undns", "clear">>) /\ on(<<"removeContainer", "clear">>)
      /\ on(<<"removeKey", "removeBucket">>)
    OBVIOUS
<1> HIDE DEF On
<1>4. ASSUME NEW s \in Services, NEW names, TakesTurns(names, s), on(names),
             NEW A, \A a \in A : \E i \in 1 .. Len(names) : a = Step(p, s, names[i])
      PROVE  Undoes(Steps(p, s, names), p, A)
    BY <1>4, StepsUndo DEF Undoes
<1>5. /\ Undoes(destroyRest(p), p, {clear("rest")}) /\ Undoes(destroyStorageApi(p), p, {clear("storage")})
      /\ Undoes(destroyAuth(p), p, gone)
    <2> DEFINE n == Removes \o <<"clear">>
    <2> HIDE DEF n
    <2>1. \A s \in Routed : Undoes(Steps(p, s, n), p, {clear(s)})
        BY <1>2, <1>4, OffTakesTurns DEF n, Services
    <2>2. Undoes(Steps(p, "auth", Removes), p, gone)
        BY <1>1, <1>4, OffTakesTurns DEF Services, Routed
    <2> QED
        BY <2>1, <2>2 DEF n, destroyRest, destroyStorageApi, destroyAuth, Routed
<1>6. /\ Undoes(destroyRealtime(p), p, {clear("realtime")})
      /\ Undoes(destroyFunctions(p), p, {clear("functions")})
      /\ Undoes(destroyStorage(p), p, {Step(p, "storage", "removeKey"), Step(p, "storage", "removeBucket")})
    <2> DEFINE n == <<"deregister", "undns", "clear">>
               m == <<"removeContainer", "clear">>
               k == <<"removeKey", "removeBucket">>
    <2>1. /\ n[3] = "clear" /\ 3 \in 1 .. Len(n) /\ m[2] = "clear" /\ 2 \in 1 .. Len(m)
          /\ k[1] = "removeKey" /\ k[2] = "removeBucket" /\ {1, 2} \subseteq 1 .. Len(k)
        OBVIOUS
    <2>2. TakesTurns(n, "realtime") /\ TakesTurns(m, "functions") /\ TakesTurns(k, "storage")
        BY OffTakesTurns
    <2>3. on(n) /\ on(m) /\ on(k)
        BY <1>3
    <2>4. {"realtime", "functions", "storage"} \subseteq Services
        BY DEF Services, Routed
    <2> HIDE DEF n, m, k
    <2>5. /\ Undoes(Steps(p, "realtime", n), p, {clear("realtime")})
          /\ Undoes(Steps(p, "functions", m), p, {clear("functions")})
          /\ Undoes(Steps(p, "storage", k), p, {Step(p, "storage", "removeKey"), Step(p, "storage", "removeBucket")})
        BY <1>4, <2>1, <2>2, <2>3, <2>4
    <2> QED
        BY <2>5 DEF n, m, k, destroyRealtime, destroyFunctions, destroyStorage
<1> DEFINE t == destroyRest(p) \o destroyStorageApi(p) \o destroyRealtime(p) \o destroyFunctions(p)
                \o destroyAuth(p) \o destroyStorage(p)
           A == {clear("rest")} \cup {clear("storage")} \cup {clear("realtime")} \cup {clear("functions")}
                \cup gone \cup {Step(p, "storage", "removeKey"), Step(p, "storage", "removeBucket")}
<1>7. Undoes(t, p, A)
    <2> HIDE DEF gone, clear
    <2> QED
        BY <1>5, <1>6, UndoesBoth, Zenon
<1>8. last \in Seq(StepRecords) /\ Len(last) = 1 /\ last[1] = Step(p, "auth", "forget")
    <2> DEFINE n == <<"forget">>
    <2>1. n \in Seq(StepNames) /\ Len(n) = 1 /\ n[1] = "forget" /\ "auth" \in Services /\ 1 \in 1 .. Len(n)
        BY DEF StepNames, Services, Routed
    <2> HIDE DEF n
    <2>2. /\ Steps(p, "auth", n) \in Seq(StepRecords) /\ Len(Steps(p, "auth", n)) = 1
          /\ Steps(p, "auth", n)[1] = Step(p, "auth", n[1])
        BY <2>1, StepAt
    <2> QED
        BY <2>1, <2>2 DEF n
<1>9. /\ \A s \in Services \ {"auth"} : clear(s) \in A
      /\ Boxed("auth") => Step(p, "auth", "removeContainer") \in A
      /\ Step(p, "storage", "removeKey") \in A /\ Step(p, "storage", "removeBucket") \in A
    BY DEF Services, Routed, Boxed
<1> HIDE DEF t, A, last
<1>10. InTurn(t \o last) /\ Prepared(t \o last, p)
    BY <1>7, <1>8, <1>9, ForgetsInTurn
<1> QED
    BY <1>10 DEF destroyProject, t, last

\* What a call begins with takes turns.
LEMMA BeginsInTurn ==
    ASSUME NEW p \in Projects, NEW t \in {provisionProject(p)} \cup Programs(p)
    PROVE  InTurn(t) /\ Prepared(t, p)
<1>1. CASE t = destroyProject(p)
    BY <1>1, DestroyInTurn
<1>2. CASE t # destroyProject(p)
    <2>1. t \in {provisionAuth(p), provisionRest(p), provisionStorageApi(p),
                 provisionRealtime(p), provisionFunctions(p), provisionProject(p),
                 destroyAuth(p), destroyRest(p), destroyStorageApi(p),
                 destroyRealtime(p), destroyFunctions(p)}
        BY <1>2, ServicesAssumption DEF Programs, Services, Routed
    <2>2. ASSUME NEW s \in Services, NEW names, TakesTurns(names, s)
          PROVE  InTurn(Steps(p, s, names)) /\ Prepared(Steps(p, s, names), p)
        BY <2>2, StepsTurn DEF TakesTurns
    <2>3. Services = {"auth", "rest", "storage", "realtime", "functions"} /\ Routed = {"auth", "rest", "storage"}
        BY DEF Services, Routed
    <2>4. <<"read">> \o <<"register", "realtimeDns", "save">> = <<"read", "register", "realtimeDns", "save">>
        <3> DEFINE n == <<"read">> \o <<"register", "realtimeDns", "save">>
                   m == <<"read", "register", "realtimeDns", "save">>
        <3>1. /\ n \in Seq(StepNames) /\ Len(n) = 4
              /\ n[1] = "read" /\ n[2] = "register" /\ n[3] = "realtimeDns" /\ n[4] = "save"
              /\ m \in Seq(StepNames) /\ Len(m) = 4
              /\ m[1] = "read" /\ m[2] = "register" /\ m[3] = "realtimeDns" /\ m[4] = "save"
            BY DEF StepNames
        <3> HIDE DEF n, m
        <3>2. \A i \in 1 .. 4 : n[i] = m[i]
            BY <3>1
        <3>3. n = m
            BY ONLY <3>1, <3>2
        <3> QED
            BY <3>3 DEF n, m
    <2> QED
        BY <2>1, <2>2, <2>3, <2>4, OnTakesTurns, OffTakesTurns
        DEF provisionAuth, provisionRest, provisionStorageApi, provisionRealtime, provisionFunctions,
            provisionProject, destroyAuth, destroyRest, destroyStorageApi, destroyRealtime,
            destroyFunctions
<1> QED
    BY <1>1, <1>2

-----------------------------------------------------------------------------
(* 8. The invariant.                                                       *)

\* What is left of the call, for its project.
Left(p) == IF Busy("call") /\ P = p THEN Call.todo ELSE <<>>

\* Row r of project p, with steps t left: what is not there is empty, and when the
\* row is forgotten nothing is advertised.
RowIn(r, t, p) ==
    /\ ~r.there => r = NoRow
    /\ \A s \in Services \ {"auth"} :
          s \notin r.url \/ Precedes(t, Step(p, s, "clear"), Step(p, "auth", "forget"))

\* Container b of service s.
BoxIn(b, r, t, p, s) ==
    /\ b # NoBox => s \in r.url \/ Has(t, "save", p, s)
    /\ s \in r.url => b # NoBox \/ Has(t, "container", p, s) \/ Has(t, "clear", p, s) \/ s = "auth"
    /\ b # NoBox \/ Precedes(t, Step(p, s, "container"), Step(p, s, "save"))
    /\ b = NoBox \/ Precedes(t, Step(p, s, "removeContainer"), Step(p, s, "clear"))
    /\ s = "auth" => b = NoBox \/ Precedes(t, Step(p, s, "removeContainer"), Step(p, s, "forget"))

\* The secret x of the tenant.
TenantIn(x, r, t, p) ==
    /\ x # None => "realtime" \in r.url \/ Has(t, "save", p, "realtime")
    /\ "realtime" \in r.url => x = r.secret \/ Has(t, "clear", p, "realtime")
    /\ x = r.secret \/ Precedes(t, Step(p, "realtime", "register"), Step(p, "realtime", "save"))
    /\ x = None \/ Precedes(t, Step(p, "realtime", "deregister"), Step(p, "realtime", "clear"))

\* The record of an application's host, in records d, with applications a.
RecordIn(d, a, t, p, s) ==
    LET known == HostOf(p, s) \in d
        some  == NamedIn(a, p, s) # {}
    IN  /\ known => some \/ Has(t, "undns", p, s) \/ Has(t, "create", p, s)
        /\ mode = "legacy" => /\ some => known
                              /\ known \/ Precedes(t, Step(p, s, "dns"), Step(p, s, "create"))

\* The record of Realtime's host.
SocketIn(d, r, t, p) ==
    LET known == HostOf(p, "realtime") \in d IN
    /\ known => "realtime" \in r.url \/ Has(t, "save", p, "realtime")
    /\ ~known \/ Precedes(t, Step(p, "realtime", "undns"), Step(p, "realtime", "clear"))

\* The applications of service s, of applications a.
AppIn(a, r, t, p, s) ==
    LET some == NamedIn(a, p, s) # {} IN
    /\ some => s \in r.url \/ Has(t, "save", p, s)
    /\ s \in r.url => some \/ Has(t, "clear", p, s) \/ s = "auth"
    /\ some \/ Precedes(t, Step(p, s, "create"), Step(p, s, "save"))
    /\ some => \/ Heads(t, Step(p, s, "gone"))
               \/ /\ Precedes(t, Step(p, s, "remove"), Step(p, s, "clear"))
                  /\ Precedes(t, Step(p, s, "remove"), Step(p, s, "undns"))
    /\ \A u \in NamedIn(a, p, s) : a[u].run # <<>> \/ Has(t, "deploy", p, s) \/ a[u].deleting

\* The bucket, of buckets l, and the key of the row, of keys k.
StoreIn(l, k, r, t, p) ==
    LET known == projectHostLabel(p) \in l
        held  == r.key \in k
    IN
    /\ known => \/ r.key # None \/ Has(t, "store", p, "storage")
                \/ ~r.there /\ Has(t, "read", p, "storage")
    /\ ~known \/ Precedes(t, Step(p, "storage", "removeBucket"), Step(p, "auth", "forget"))
    /\ ~held \/ Precedes(t, Step(p, "storage", "removeKey"), Step(p, "auth", "forget"))

\* Project p, whose row is r, with t left to do, the secret x of its tenant, buckets
\* l, keys k, containers b, records d and applications a.
TurnIn(r, t, x, l, k, b, d, a, p) ==
    /\ RowIn(r, t, p) /\ TenantIn(x, r, t, p) /\ StoreIn(l, k, r, t, p)
    /\ \A s \in Services : Boxed(s) => BoxIn(b[s], r, t, p, s)
    /\ SocketIn(d, r, t, p) /\ HostOf(p, "functions") \notin d
    /\ \A s \in Routed : RecordIn(d, a, t, p, s) /\ (mode # "docker" => AppIn(a, r, t, p, s))

\* Project p, now and after the step.
Turn(p) ==
    TurnIn(row[p], Left(p), tenant[projectHostLabel(p)], bucket, keys, box[p], record, app, p)

TurnNext(p) ==
    TurnIn(row'[p], Left(p)', tenant'[projectHostLabel(p)], bucket', keys', box'[p], record', app', p)

\* Where no call has failed, a key of the store is in a row, or on its way there,
\* or the row has been forgotten since.
KeysTurn ==
    hurt = {} => \A k \in keys :
        \/ \E q \in Projects : row[q].key = k
        \/ Call.key = k /\ (Does("call", "allow") \/ Does("call", "store")
                            \/ (Does("call", "read") /\ S = "storage" /\ ~row[P].there))

\* What is left of the call is in turn, every key is accounted for, and so is every
\* project that no failure has touched.
TurnInv == InTurn(Call.todo) /\ KeysTurn /\ \A p \in Projects \ hurt : Turn(p)


-----------------------------------------------------------------------------
(* 9. What is left of a call, in turn.                                     *)

\* What is left of steps in turn is in turn.
LEMMA LeftInTurn ==
    ASSUME NEW t \in Seq(StepRecords), InTurn(t), NEW n \in Nat \ {0}
    PROVE  InTurn(SubSeq(t, n + 1, Len(t)))
<1> DEFINE u == SubSeq(t, n + 1, Len(t))
<1>1. /\ u \in Seq(StepRecords)
      /\ \A i \in DOMAIN u : i \in Nat \ {0} /\ i + n \in DOMAIN t /\ u[i] = t[i + n]
      /\ \A i \in Nat \ {0} : i + n \in DOMAIN t => i \in DOMAIN u
    BY Skipped
<1>2. \A i \in DOMAIN u : Len(u) \in DOMAIN u /\ Len(u) + n = Len(t)
    OBVIOUS
<1> HIDE DEF u
<1>3. ASSUME NEW i \in DOMAIN u, NEW k \in {1, 2}, NEW a, Later(t, i + n, k, a)
      PROVE  Later(u, i, k, a)
    <2>1. i + k \in Nat \ {0} /\ (i + k) + n = (i + n) + k
        BY <1>1
    <2> QED
        BY <1>1, <1>3, <2>1 DEF Later
<1>4. \A i \in DOMAIN u : u[Len(u)] = t[Len(t)]
    BY <1>1, <1>2
<1>5. /\ \A off : (\A j \in DOMAIN t : t[j].do \notin off) => \A j \in DOMAIN u : u[j].do \notin off
      /\ (\A j \in DOMAIN t : t[j].do # "save") => \A j \in DOMAIN u : u[j].do # "save"
    BY <1>1
<1> SUFFICES ASSUME NEW i \in DOMAIN u
             PROVE  LET do == u[i].do  s == u[i].s
                        later(k, next) == Later(u, i, k, Step(u[i].p, s, next))
                    IN
                    /\ do \in On => /\ u[Len(u)] = Step(u[i].p, s, "save")
                                    /\ \A j \in DOMAIN u : u[j].do \notin Off
                    /\ do = "dns" => s \in Routed /\ later(2, "create")
                    /\ do \in {"register", "deregister", "realtimeDns"} => s = "realtime"
                    /\ do = "mint" => later(1, "allow")
                    /\ do = "allow" => later(1, "store")
                    /\ do = "store" => s = "storage" /\ later(1, "read")
                    /\ do = "gone" => later(1, "undns") /\ (s # "auth" => later(2, "clear"))
                    /\ do = "deregister" => later(2, "clear")
                    /\ do = "removeContainer" =>
                          \/ later(1, "container")
                          \/ /\ \A j \in DOMAIN u : u[j].do # "save"
                             /\ s = "auth" \/ later(1, "clear")
    BY DEF InTurn, u
<1>6. i + n \in DOMAIN t /\ u[i] = t[i + n]
    BY <1>1
<1> QED
    BY <1>3, <1>4, <1>5, <1>6 DEF InTurn

\* The steps that may be skipped.
Skips == {"await", "gone", "mint", "allow", "store"}

\* From the steps t to the steps u: what precedes does so still, if it is not
\* the step that was made.
Moves(t, u) ==
    /\ \A do, p, s : Has(u, do, p, s) => Has(t, do, p, s)
    /\ \A do, p, s : Has(t, do, p, s) /\ do \notin Skips =>
                        Has(u, do, p, s) \/ Heads(t, Step(p, s, do))
    /\ \A do, p, s, a : Precedes(t, Step(p, s, do), a) /\ do \notin Skips =>
                           Precedes(u, Step(p, s, do), a) \/ Heads(t, Step(p, s, do))

\* A call that goes straight on skips no more than that.
LEMMA StraightOn ==
    ASSUME TypeOK, Ordered, InCourse(Call.todo), NEW n, Straight(n)
    PROVE  LET t == Call.todo  u == caller'["call"].todo IN
           /\ Moves(t, u) /\ Heads(t, Step(P, S, Now("call").do))
           /\ t \in Seq(StepRecords) /\ n \in Nat \ {0} /\ u = SubSeq(t, n + 1, Len(t))
           /\ n = 1 => \A do, p, s : Has(t, do, p, s) =>
                          Has(u, do, p, s) \/ Heads(t, Step(p, s, do))
<1> DEFINE t == Call.todo
           u == caller'["call"].todo
           now == Now("call")
<1>1. /\ t \in Seq(StepRecords) /\ now = t[1] /\ 1 \in DOMAIN t /\ n \in Nat \ {0}
      /\ u = SubSeq(t, n + 1, Len(t)) /\ InOrder(t) /\ InCourse(t) /\ now \in StepRecords
    BY NextStep, CallTyped DEF Straight, Progress, Callers, Call, Skip, Ordered, Locals
<1>2. /\ u \in Seq(StepRecords)
      /\ \A i \in DOMAIN u : i \in Nat \ {0} /\ i + n \in DOMAIN t /\ u[i] = t[i + n]
      /\ \A i \in Nat \ {0} : i + n \in DOMAIN t => i \in DOMAIN u
    BY <1>1, Skipped
<1>3. n = 1 \/ (n = 2 /\ now.do \in {"create", "remove"}) \/ (n = 4 /\ now.do = "bucket")
    BY DEF Straight
<1>4. P = now.p /\ S = now.s
    BY DEF P, S
<1> HIDE DEF t, u, now
<1>5. Heads(t, Step(P, S, now.do))
    <2>1. now = [do |-> now.do, p |-> now.p, s |-> now.s]
        BY <1>1 DEF StepRecords
    <2> QED
        BY <1>1, <1>4, <2>1 DEF Heads, Step
<1>6. \A i \in DOMAIN t : i = 1 \/ i > n \/ t[i].do \in Skips
    <2>1. /\ now.do = "bucket" => /\ t[1 + 1].do = "mint" /\ t[1 + 2].do = "allow"
                                  /\ t[1 + 3].do = "store"
          /\ now.do = "create" => t[1 + 1].do = "await"
        BY ONLY <1>1 DEF InOrder
    <2>2. now.do = "remove" => t[1 + 1] = [do |-> "gone", p |-> t[1].p, s |-> t[1].s]
        BY ONLY <1>1 DEF InCourse
    <2>3. \A i \in DOMAIN t : i \in Nat \ {0}
        BY <1>1
    <2>4. 1 + 1 = 2 /\ 1 + 2 = 3 /\ 1 + 3 = 4
        OBVIOUS
    <2>5. now.do = "remove" => t[2].do = "gone"
        BY <2>2, <2>4
    <2>6. /\ n = 2 => t[2].do \in Skips
          /\ n = 4 => t[2].do \in Skips /\ t[3].do \in Skips /\ t[4].do \in Skips
        BY <1>3, <2>1, <2>4, <2>5 DEF Skips
    <2> QED
        BY <1>3, <2>3, <2>6
<1>7. ASSUME NEW i \in DOMAIN t, i > n
      PROVE  i - n \in DOMAIN u /\ u[i - n] = t[i] /\ i - n \in Nat
    <2>1. i - n \in Nat \ {0} /\ (i - n) + n = i
        BY <1>1, <1>7
    <2> QED
        BY <1>2, <2>1
<1>8. \A p, s, do : Step(p, s, do).do = do
    BY DEF Step
<1>9. \A do, p, s : Has(u, do, p, s) => Has(t, do, p, s)
    BY <1>2 DEF Has
<1>10. ASSUME NEW do, NEW p, NEW s, Has(t, do, p, s), do \notin Skips \/ n = 1
       PROVE  Has(u, do, p, s) \/ Heads(t, Step(p, s, do))
    <2>1. PICK i \in DOMAIN t : t[i] = Step(p, s, do)
        BY <1>10 DEF Has, Step
    <2>2. i = 1 \/ i > n
        <3>1. i \in Nat \ {0}
            BY <1>1
        <3> QED
            BY <1>6, <1>8, <1>10, <2>1, <3>1
    <2> QED
        BY <1>7, <2>1, <2>2 DEF Has, Heads, Step
<1>11. ASSUME NEW do, NEW p, NEW s, NEW a, Precedes(t, Step(p, s, do), a), do \notin Skips
       PROVE  Precedes(u, Step(p, s, do), a) \/ Heads(t, Step(p, s, do))
    <2> SUFFICES ASSUME NEW i \in DOMAIN u, u[i] = a, ~Heads(t, Step(p, s, do))
                 PROVE  \E j \in 1 .. i - 1 : u[j] = Step(p, s, do)
        BY DEF Precedes
    <2>1. i \in Nat \ {0} /\ i + n \in DOMAIN t /\ t[i + n] = a
        BY <1>2
    <2>2. PICK j \in 1 .. (i + n) - 1 : t[j] = Step(p, s, do)
        BY <1>11, <2>1 DEF Precedes
    <2>3. j \in DOMAIN t
        BY <1>1, <2>1
    <2>4. j > n
        BY <1>6, <1>8, <1>11, <2>2, <2>3 DEF Heads
    <2>5. u[j - n] = t[j] /\ j - n \in 1 .. i - 1
        BY <1>1, <1>7, <2>1, <2>3, <2>4
    <2> QED
        BY <2>2, <2>5
<1>12. Moves(t, u)
    BY <1>9, <1>10, <1>11 DEF Moves
<1> QED
    BY <1>1, <1>5, <1>10, <1>12 DEF t, u, now

\* From t to u by a step that does something for service z of p: what was ahead is
\* still, what was to come before it has come, and what it needs comes next.
Onward(t, u, p, z, do) ==
    /\ Moves(t, u)
    /\ \A s, next : Heads(t, Step(p, s, next)) <=> s = z /\ next = do
    /\ \A b : ~Precedes(t, b, Step(p, z, do))
    /\ \A s, b, next : (do \in On /\ next \in Off) \/ (do \in Off /\ next \in On) =>
                          ~Has(t, next, p, s) /\ Precedes(u, b, Step(p, s, next))
    /\ do \in On \ {"save"} => Has(u, "save", p, z)
    /\ do = "dns" => z \in Routed /\ Has(u, "create", p, z)
    /\ do = "create" => Has(u, "deploy", p, z)
    /\ do \in {"register", "deregister", "realtimeDns"} => z = "realtime"
    /\ do = "store" => z = "storage" /\ Has(u, "read", p, z)
    /\ do = "gone" => Has(u, "undns", p, z) /\ (z # "auth" => Has(u, "clear", p, z))
    /\ do = "deregister" => Has(u, "clear", p, z)
    /\ do = "removeContainer" =>
          \/ Has(u, "container", p, z) /\ Precedes(u, Step(p, z, "container"), Step(p, z, "save"))
          \/ /\ \A s, b : Precedes(u, b, Step(p, s, "save"))
             /\ z = "auth" \/ Has(u, "clear", p, z)
    /\ do = "secret" => z = "auth" /\ \A s, b, next : s # z =>
                           ~Has(t, next, p, s) /\ Precedes(u, b, Step(p, s, next))
    /\ do = "forget" => z = "auth"
    /\ do # "bucket" /\ Has(t, "store", p, "storage") =>
          Has(u, "store", p, "storage") \/ (do = "store" /\ z = "storage")

\* What comes later is ahead.
LEMMA LaterHas ==
    ASSUME NEW t, NEW i, NEW k, NEW do, NEW p, NEW s, Later(t, i, k, Step(p, s, do))
    PROVE  Has(t, do, p, s)
BY DEF Later, Has, Step

\* What is not ahead is preceded by anything.
LEMMA NoneToPrecede ==
    ASSUME NEW t, NEW do, NEW p, NEW s, ~Has(t, do, p, s)
    PROVE  \A b : Precedes(t, b, Step(p, s, do))
BY DEF Precedes, Has, Step

\* The next step of a call, and how its steps stand to each other.
LEMMA HeadSteps ==
    ASSUME TypeOK, Ordered, InCourse(Call.todo), InTurn(Call.todo), Busy("call")
    PROVE  LET t == Call.todo  do == Now("call").do IN
           /\ \A s, next : Heads(t, Step(P, s, next)) <=> s = S /\ next = do
           /\ \A b : ~Precedes(t, b, Step(P, S, do))
           /\ \A s, next : (do \in On /\ next \in Off) \/ (do \in Off /\ next \in On) =>
                              ~Has(t, next, P, s)
           /\ do \in On => Has(t, "save", P, S)
           /\ do = "create" => Has(t, "deploy", P, S)
           /\ do = "bucket" => S = "storage" /\ Has(t, "store", P, S)
           /\ do = "secret" => S = "auth" /\ \A s, next : s # S => ~Has(t, next, P, s)
           /\ do = "forget" => S = "auth"
<1> DEFINE t == Call.todo
           now == Now("call")
<1>1. /\ t \in Seq(StepRecords) /\ now = t[1] /\ 1 \in DOMAIN t /\ InOrder(t) /\ InCourse(t) /\ InTurn(t)
      /\ now \in StepRecords /\ P = now.p /\ S = now.s
    BY NextStep, CallTyped DEF Callers, Call, Ordered, Locals, P, S
<1>2. now = Step(P, S, now.do)
    BY <1>1 DEF StepRecords, Step
<1> HIDE DEF t, now
<1>3. \A s, next : Heads(t, Step(P, s, next)) <=> s = S /\ next = now.do
    BY <1>1, <1>2, SameStep DEF Heads
<1>4. \A b : ~Precedes(t, b, Step(P, S, now.do))
    <2> SUFFICES ASSUME NEW b, Precedes(t, b, Step(P, S, now.do)) PROVE FALSE
        OBVIOUS
    <2>1. PICK j \in 1 .. 1 - 1 : t[j] = b
        BY <1>1, <1>2 DEF Precedes
    <2> QED
        BY <2>1
<1>5. /\ now.do \in On => /\ t[Len(t)] = Step(P, S, "save")
                          /\ \A j \in DOMAIN t : t[j].do \notin Off
      /\ \A i \in DOMAIN t : t[i].do \in On => \A j \in DOMAIN t : t[j].do \notin Off
    BY ONLY <1>1 DEF InTurn
<1>6. ASSUME NEW s, NEW next, (now.do \in On /\ next \in Off) \/ (now.do \in Off /\ next \in On)
      PROVE  ~Has(t, next, P, s)
    <2> SUFFICES ASSUME NEW i \in DOMAIN t, t[i] = Step(P, s, next) PROVE FALSE
        BY DEF Has, Step
    <2>1. t[i].do = next
        BY DEF Step
    <2> QED
        BY <1>1, <1>5, <1>6, <2>1
<1>7. Len(t) \in DOMAIN t
    BY <1>1
<1>8. now.do \in On => Has(t, "save", P, S)
    BY <1>5, <1>7 DEF Has, Step
<1>9. /\ \A i, j \in DOMAIN t : t[j].p = t[i].p
      /\ now.do \in {"create", "secret"} => \A j \in DOMAIN t : t[j].s = t[1].s
      /\ now.do = "bucket" => /\ 1 + 3 \in DOMAIN t /\ t[1 + 3].do = "store"
                              /\ \A j \in DOMAIN t : t[j].s = "storage"
      /\ now.do = "secret" => now.s = "auth"
      /\ now.do = "create" => now.s \in Routed
    BY ONLY <1>1 DEF InOrder, Uses
<1>10. \A i \in DOMAIN t : t[i] = Step(t[i].p, t[i].s, t[i].do)
    <2>1. \A i \in DOMAIN t : t[i] \in StepRecords
        BY <1>1
    <2> QED
        BY <2>1 DEF StepRecords, Step
<1>11. now.do = "create" => Has(t, "deploy", P, S)
    <2>1. /\ now.do = "create" => 1 + 2 \in DOMAIN t /\ t[1 + 2].do = "env"
          /\ \A i \in DOMAIN t : t[i].do = "env" => i + 1 \in DOMAIN t /\ t[i + 1].do = "deploy"
        BY ONLY <1>1 DEF InCourse
    <2>2. now.do = "create" => \E i \in DOMAIN t : t[i].do = "deploy"
        BY <2>1
    <2> QED
        BY <1>1, <1>9, <1>10, <2>2 DEF Has, Step
<1>12. now.do = "bucket" => S = "storage" /\ Has(t, "store", P, S)
    BY <1>1, <1>9, <1>10 DEF Has, Step
<1>13. now.do = "secret" => S = "auth" /\ \A s, next : s # S => ~Has(t, next, P, s)
    <2>1. \A s, next : Step(P, s, next).s = s
        BY DEF Step
    <2> QED
        BY <1>1, <1>9, <2>1 DEF Has, Step
<1>14. now.do = "forget" => S = "auth"
    BY ONLY <1>1 DEF InCourse
<1> QED
    BY <1>3, <1>4, <1>6, <1>8, <1>11, <1>12, <1>13, <1>14 DEF t, now

\* A call that goes straight on goes onward.
LEMMA GoesOnward ==
    ASSUME TypeOK, Ordered, InCourse(Call.todo), InTurn(Call.todo), Busy("call"), NEW n, Straight(n)
    PROVE  LET t == Call.todo  u == caller'["call"].todo  do == Now("call").do IN
           /\ Onward(t, u, P, S, do)
           /\ n = 1 => /\ \A next, s : Has(t, next, P, s) => Has(u, next, P, s) \/ Heads(t, Step(P, s, next))
                       /\ do = "bucket" => Has(u, "store", P, "storage")
                       /\ do = "remove" => Heads(u, Step(P, S, "gone"))
                       /\ do = "mint" => Heads(u, Step(P, S, "allow"))
                       /\ do = "allow" => Heads(u, Step(P, S, "store"))
                       /\ do = "store" => Heads(u, Step(P, S, "read"))
           /\ do \notin {"create", "remove", "bucket"} => n = 1
           /\ do \in {"bucket", "mint", "allow", "store"} => S = "storage"
           /\ InTurn(u)
<1> DEFINE t == Call.todo
           u == caller'["call"].todo
           do == Now("call").do
<1>1. /\ Moves(t, u) /\ Heads(t, Step(P, S, do))
      /\ t \in Seq(StepRecords) /\ n \in Nat \ {0} /\ u = SubSeq(t, n + 1, Len(t))
      /\ n = 1 => \A next, p, s : Has(t, next, p, s) =>
                     Has(u, next, p, s) \/ Heads(t, Step(p, s, next))
    BY StraightOn
<1>2. /\ \A s, next : Heads(t, Step(P, s, next)) <=> s = S /\ next = do
      /\ \A b : ~Precedes(t, b, Step(P, S, do))
      /\ \A s, next : (do \in On /\ next \in Off) \/ (do \in Off /\ next \in On) => ~Has(t, next, P, s)
      /\ do \in On => Has(t, "save", P, S)
      /\ do = "create" => Has(t, "deploy", P, S)
      /\ do = "bucket" => S = "storage" /\ Has(t, "store", P, S)
      /\ do = "secret" => S = "auth" /\ \A s, next : s # S => ~Has(t, next, P, s)
      /\ do = "forget" => S = "auth"
    BY HeadSteps
<1>3. n = 1 \/ (n = 2 /\ do \in {"create", "remove"}) \/ (n = 4 /\ do = "bucket")
    BY DEF Straight
<1>4. /\ u \in Seq(StepRecords)
      /\ \A i \in DOMAIN u : i \in Nat \ {0} /\ i + n \in DOMAIN t /\ u[i] = t[i + n]
      /\ \A i \in Nat \ {0} : i + n \in DOMAIN t => i \in DOMAIN u
    BY <1>1, Skipped
<1>5. InOrder(t) /\ InCourse(t) /\ InTurn(t)
    BY DEF Ordered
<1>6. InTurn(u)
    BY <1>1, <1>5, LeftInTurn
<1> HIDE DEF t, u, do
<1>7. 1 \in DOMAIN t /\ t[1] = Step(P, S, do) /\ t[1].do = do /\ t[1].p = P /\ t[1].s = S
    BY <1>1 DEF Heads, Step
<1>8. LET later(k, next) == Later(t, 1, k, Step(P, S, next)) IN
      /\ do = "dns" => S \in Routed /\ later(2, "create")
      /\ do \in {"register", "deregister", "realtimeDns"} => S = "realtime"
      /\ do = "mint" => later(1, "allow")
      /\ do = "allow" => later(1, "store")
      /\ do = "store" => S = "storage" /\ later(1, "read")
      /\ do = "gone" => later(1, "undns") /\ (S # "auth" => later(2, "clear"))
      /\ do = "deregister" => later(2, "clear")
      /\ do = "removeContainer" =>
            \/ later(1, "container")
            \/ (\A j \in DOMAIN t : t[j].do # "save") /\ (S = "auth" \/ later(1, "clear"))
    BY <1>5, <1>7 DEF InTurn
<1>9. ASSUME NEW k \in {1, 2}, NEW next, Later(t, 1, k, Step(P, S, next)), n = 1
      PROVE  Later(u, 0, k, Step(P, S, next)) /\ Has(u, next, P, S)
    <2>1. k \in Nat \ {0} /\ k + 1 \in DOMAIN t /\ t[k + 1] = Step(P, S, next) /\ 0 + k = k
        BY <1>9 DEF Later
    <2>2. k \in DOMAIN u /\ u[k] = Step(P, S, next)
        BY <1>4, <1>9, <2>1
    <2> QED
        BY <2>1, <2>2 DEF Later, Has, Step
<1>10. ASSUME NEW b, NEW s, NEW next, ~Has(t, next, P, s)
       PROVE  Precedes(u, b, Step(P, s, next))
    BY <1>1, <1>10, NoneToPrecede DEF Moves
<1>11. ASSUME do = "removeContainer", Later(u, 0, 1, Step(P, S, "container"))
       PROVE  Precedes(u, Step(P, S, "container"), Step(P, S, "save"))
    <2> SUFFICES ASSUME NEW i \in DOMAIN u, u[i] = Step(P, S, "save")
                 PROVE  \E j \in 1 .. i - 1 : u[j] = Step(P, S, "container")
        BY DEF Precedes
    <2>1. u[1] = Step(P, S, "container") /\ i \in Nat \ {0}
        BY <1>4, <1>11 DEF Later
    <2>2. i # 1
        BY <2>1, SameStep
    <2>3. 1 \in 1 .. i - 1
        BY <2>1, <2>2
    <2> QED
        BY <2>1, <2>3
<1>12. ASSUME do # "bucket", Has(t, "store", P, "storage")
       PROVE  Has(u, "store", P, "storage") \/ (do = "store" /\ S = "storage")
    <2>1. CASE n = 1
        BY <1>1, <1>2, <1>12, <2>1
    <2>2. CASE n = 2 /\ do = "remove"
        BY <1>2, <1>12, <2>2 DEF On, Off
    <2>3. CASE n = 2 /\ do = "create"
        <3>1. PICK i \in DOMAIN t : t[i] = Step(P, "storage", "store")
            BY <1>12 DEF Has, Step
        <3>2. t[1 + 1].do = "await"
            BY ONLY <1>5, <1>7, <2>3 DEF InOrder
        <3>3. t[i].do = "store" /\ i \in Nat \ {0}
            BY <1>1, <3>1 DEF Step
        <3>4. i # 1 /\ i # 2
            BY <1>7, <2>3, <3>2, <3>3
        <3>5. i - 2 \in Nat \ {0} /\ (i - 2) + 2 = i
            BY <3>3, <3>4
        <3>6. i - 2 \in DOMAIN u /\ u[i - 2] = t[i]
            BY <1>4, <2>3, <3>5
        <3> QED
            BY <3>1, <3>6 DEF Has, Step
    <2> QED
        BY <1>3, <1>12, <2>1, <2>2, <2>3
<1>13. do \in On \ {"save"} => Has(u, "save", P, S)
    BY <1>1, <1>2 DEF Moves, Skips
<1>14. do = "create" => Has(u, "deploy", P, S)
    BY <1>1, <1>2 DEF Moves, Skips
<1>15. do \notin {"create", "remove", "bucket"} => n = 1
    BY <1>3
<1>16. do = "removeContainer" =>
          \/ Has(u, "container", P, S) /\ Precedes(u, Step(P, S, "container"), Step(P, S, "save"))
          \/ /\ \A s, b : Precedes(u, b, Step(P, s, "save"))
             /\ S = "auth" \/ Has(u, "clear", P, S)
    <2> SUFFICES ASSUME do = "removeContainer"
                 PROVE  \/ Has(u, "container", P, S) /\ Precedes(u, Step(P, S, "container"), Step(P, S, "save"))
                        \/ /\ \A s, b : Precedes(u, b, Step(P, s, "save"))
                           /\ S = "auth" \/ Has(u, "clear", P, S)
        OBVIOUS
    <2>1. CASE Later(t, 1, 1, Step(P, S, "container"))
        BY <1>9, <1>11, <1>15, <2>1
    <2>2. CASE (\A j \in DOMAIN t : t[j].do # "save") /\ (S = "auth" \/ Later(t, 1, 1, Step(P, S, "clear")))
        <3>1. \A s : ~Has(t, "save", P, s)
            BY <2>2 DEF Has
        <3> QED
            BY <1>9, <1>10, <1>15, <2>2, <3>1
    <2> QED
        BY <1>8, <2>1, <2>2
<1>17. /\ do = "dns" => Has(u, "create", P, S)
       /\ do = "store" => Has(u, "read", P, S)
       /\ do = "gone" => Has(u, "undns", P, S) /\ (S # "auth" => Has(u, "clear", P, S))
       /\ do = "deregister" => Has(u, "clear", P, S)
    BY <1>8, <1>9, <1>15
<1>18. Onward(t, u, P, S, do)
    BY <1>1, <1>2, <1>8, <1>10, <1>12, <1>13, <1>14, <1>16, <1>17 DEF Onward
<1>19. \A a : Later(u, 0, 1, a) => Heads(u, a)
    <2>1. 0 + 1 = 1
        OBVIOUS
    <2> QED
        BY <2>1 DEF Later, Heads
<1>20. do = "remove" => Later(t, 1, 1, Step(P, S, "gone"))
    <2>1. do = "remove" => 1 + 1 \in DOMAIN t /\ t[1 + 1] = [do |-> "gone", p |-> t[1].p, s |-> t[1].s]
        BY ONLY <1>5, <1>7 DEF InCourse
    <2> QED
        BY <1>7, <2>1 DEF Later, Step
<1>21. n = 1 => /\ do = "remove" => Heads(u, Step(P, S, "gone"))
                /\ do = "mint" => Heads(u, Step(P, S, "allow"))
                /\ do = "allow" => Heads(u, Step(P, S, "store"))
                /\ do = "store" => Heads(u, Step(P, S, "read"))
    BY <1>8, <1>9, <1>19, <1>20
<1>22. n = 1 /\ do = "bucket" => Has(u, "store", P, "storage")
    BY <1>1, <1>2
<1>23. do \in {"bucket", "mint", "allow", "store"} => S = "storage"
    <2>1. do \in {"bucket", "mint"} => \A j \in DOMAIN t : t[j].s = "storage"
        BY ONLY <1>5, <1>7 DEF InOrder
    <2>2. \A i \in DOMAIN t : t[i].do = "store" => t[i].s = "storage"
        BY ONLY <1>5 DEF InTurn
    <2>3. \A j \in DOMAIN t : t[j] = Step(P, S, "store") => S = "storage"
        BY <2>2 DEF Step
    <2>4. do = "allow" => S = "storage"
        BY <1>8, <2>3 DEF Later
    <2> QED
        BY <1>7, <1>8, <2>1, <2>4
<1> QED
    BY <1>1, <1>6, <1>15, <1>18, <1>21, <1>22, <1>23 DEF t, u, do

-----------------------------------------------------------------------------
(* 10. What a step of the call on a project leaves of it.                  *)

\* Which steps turn a service on, and which off.
LEMMA Sides ==
    /\ {"secret", "read", "bucket", "mint", "allow", "store", "dns", "create", "deploy", "container",
        "register", "realtimeDns", "save"} \subseteq On
    /\ {"remove", "gone", "undns", "deregister", "clear", "removeKey", "removeBucket", "forget"} \subseteq Off
    /\ \A do \in {"save", "clear", "forget", "container", "removeContainer", "register", "deregister",
                  "create", "dns", "undns", "remove", "deploy", "removeKey", "removeBucket", "read"} :
          do \notin Skips
BY DEF On, Off, Skips

\* The row of the project, which a step makes q of r.
RowGoes(r, q, z, do) ==
    /\ do = "forget" => q = NoRow
    /\ do = "save" => r.there /\ q.url = r.url \cup {z}
    /\ do = "clear" => q.url = r.url \ {z}
    /\ do \notin {"forget", "save", "clear"} => q.url = r.url
    /\ do # "forget" => (r.there => q.there) /\ (r = NoRow => q.there \/ q = NoRow)
    /\ do \notin Off => q.there = r.there
    /\ do # "forget" => q.secret = r.secret \/ (do = "secret" /\ r.url = {})
    /\ do # "forget" => q.key = r.key \/ (do = "store" /\ q.key # None)
    /\ do = "store" /\ r.there => q.key # None
    /\ do = "read" => r.there

\* What is registered is forgotten only with nothing advertised.
LEMMA RowMoves ==
    ASSUME NEW t, NEW u, NEW p, NEW z, NEW do, Onward(t, u, p, z, do),
           NEW r, NEW q, RowGoes(r, q, z, do), RowIn(r, t, p)
    PROVE  RowIn(q, u, p)
<1>1. ~q.there => q = NoRow
    BY DEF RowGoes, RowIn
<1>2. ASSUME NEW s \in Services \ {"auth"}
      PROVE  s \notin q.url \/ Precedes(u, Step(p, s, "clear"), Step(p, "auth", "forget"))
    <2>1. CASE do = "forget"
        BY <2>1 DEF RowGoes, NoRow
    <2>2. CASE do = "save"
        BY <2>2, Sides DEF Onward
    <2>3. CASE do = "clear"
        <3>1. q.url = r.url \ {z} /\ (Heads(t, Step(p, s, "clear")) => s = z)
            BY <2>3 DEF RowGoes, Onward
        <3>2. s \notin r.url \/ Precedes(t, Step(p, s, "clear"), Step(p, "auth", "forget"))
            BY DEF RowIn
        <3> QED
            BY <3>1, <3>2, Sides DEF Onward, Moves
    <2>4. CASE do \notin {"forget", "save", "clear"}
        <3>1. q.url = r.url /\ ~Heads(t, Step(p, s, "clear"))
            BY <2>4 DEF RowGoes, Onward
        <3>2. s \notin r.url \/ Precedes(t, Step(p, s, "clear"), Step(p, "auth", "forget"))
            BY DEF RowIn
        <3> QED
            BY <3>1, <3>2, Sides DEF Onward, Moves
    <2> QED
        BY <2>1, <2>2, <2>3, <2>4
<1> QED
    BY <1>1, <1>2 DEF RowIn

\* What is ahead, and what precedes what, of the steps for a service that are not
\* the one that is made.
LEMMA Ahead ==
    ASSUME NEW t, NEW u, NEW p, NEW z, NEW do, Onward(t, u, p, z, do)
    PROVE  /\ \A s, next : Has(u, next, p, s) => Has(t, next, p, s)
           /\ \A s, next : Has(t, next, p, s) /\ next \notin Skips => Has(u, next, p, s) \/ (s = z /\ next = do)
           /\ \A s, next, a : Precedes(t, Step(p, s, next), a) /\ next \notin Skips =>
                                 Precedes(u, Step(p, s, next), a) \/ (s = z /\ next = do)
BY DEF Onward, Moves

\* A container is removed before the row ceases to advertise it, and runs before
\* it does.
LEMMA BoxMoves ==
    ASSUME NEW t, NEW u, NEW p, NEW z, NEW do, Onward(t, u, p, z, do),
           NEW r, NEW q, RowGoes(r, q, z, do), RowIn(r, t, p),
           NEW s \in Services, NEW b, NEW d, BoxIn(b, r, t, p, s),
           \/ s = z /\ do = "container" /\ d # NoBox
           \/ s = z /\ do = "removeContainer" /\ d = NoBox
           \/ (s # z \/ do \notin {"container", "removeContainer"}) /\ d = b
    PROVE  BoxIn(d, q, u, p, s)
<1>1. /\ b # NoBox => s \in r.url \/ Has(t, "save", p, s)
      /\ s \in r.url => b # NoBox \/ Has(t, "container", p, s) \/ Has(t, "clear", p, s) \/ s = "auth"
      /\ b # NoBox \/ Precedes(t, Step(p, s, "container"), Step(p, s, "save"))
      /\ b = NoBox \/ Precedes(t, Step(p, s, "removeContainer"), Step(p, s, "clear"))
      /\ s = "auth" => b = NoBox \/ Precedes(t, Step(p, s, "removeContainer"), Step(p, s, "forget"))
    BY DEF BoxIn
<1>2. /\ \A next : Has(t, next, p, s) /\ next \notin Skips => Has(u, next, p, s) \/ (s = z /\ next = do)
      /\ \A next, a : Precedes(t, Step(p, s, next), a) /\ next \notin Skips =>
                         Precedes(u, Step(p, s, next), a) \/ (s = z /\ next = do)
    BY Ahead
<1>3. /\ do = "save" => q.url = r.url \cup {z}
      /\ do = "clear" => q.url = r.url \ {z}
      /\ do = "forget" => q.url = {}
      /\ do \notin {"forget", "save", "clear"} => q.url = r.url
    BY DEF RowGoes, NoRow
<1>4. /\ \A c : ~Precedes(t, c, Step(p, z, do))
      /\ \A c, next : (do \in On /\ next \in Off) \/ (do \in Off /\ next \in On) =>
                         ~Has(t, next, p, s) /\ Precedes(u, c, Step(p, s, next))
    BY DEF Onward
<1>5. CASE s = z /\ do = "container"
    <2>1. d # NoBox /\ Has(u, "save", p, s) /\ q.url = r.url
        BY <1>3, <1>5, Sides DEF Onward
    <2> QED
        BY <1>4, <1>5, <2>1, Sides DEF BoxIn
<1>6. CASE s = z /\ do = "removeContainer"
    <2>1. /\ d = NoBox /\ q.url = r.url
          /\ Precedes(u, Step(p, s, "container"), Step(p, s, "save"))
          /\ Has(u, "container", p, s) \/ Has(u, "clear", p, s) \/ s = "auth"
        BY <1>3, <1>6 DEF Onward
    <2> QED
        BY <2>1 DEF BoxIn
<1>7. CASE s = z /\ do = "save"
    BY <1>1, <1>2, <1>3, <1>4, <1>7, Sides DEF BoxIn
<1>8. CASE s = z /\ do = "clear"
    BY <1>1, <1>2, <1>3, <1>4, <1>8, Sides DEF BoxIn
<1>9. CASE do = "forget"
    <2>1. z = "auth" /\ d = b
        BY <1>9 DEF Onward
    <2>2. ~Has(t, "save", p, s) /\ \A c : Precedes(u, c, Step(p, s, "save"))
        BY <1>4, <1>9, Sides
    <2>3. s # "auth" => s \notin r.url
        BY <1>4, <1>9, <2>1 DEF RowIn
    <2>4. b = NoBox
        BY <1>1, <1>4, <1>9, <2>1, <2>2, <2>3
    <2> QED
        BY <1>3, <1>9, <2>1, <2>2, <2>4 DEF BoxIn
<1>10. CASE do # "forget" /\ (s # z \/ do \notin {"container", "removeContainer", "save", "clear"})
    <2>1. d = b /\ (s \in q.url <=> s \in r.url)
        BY <1>3, <1>10
    <2>2. /\ \A next \in {"save", "container", "clear"} : Has(t, next, p, s) => Has(u, next, p, s)
          /\ \A next \in {"container", "removeContainer"} :
                \A a : Precedes(t, Step(p, s, next), a) => Precedes(u, Step(p, s, next), a)
        BY <1>2, <1>10, Sides
    <2> QED
        BY <1>1, <2>1, <2>2 DEF BoxIn
<1> QED
    BY <1>5, <1>6, <1>7, <1>8, <1>9, <1>10

\* The tenant is registered with the secret of the row before the row advertises
\* it, and gone before the row does not.
LEMMA TenantMoves ==
    ASSUME NEW t, NEW u, NEW p, NEW z, NEW do, Onward(t, u, p, z, do),
           NEW r, NEW q, RowGoes(r, q, z, do), RowIn(r, t, p),
           NEW x, NEW y, TenantIn(x, r, t, p),
           do = "register" => y = r.secret,
           do = "deregister" => y = None,
           do \notin {"register", "deregister"} => y = x
    PROVE  TenantIn(y, q, u, p)
<1> DEFINE s == "realtime"
<1>1. /\ x # None => s \in r.url \/ Has(t, "save", p, s)
      /\ s \in r.url => x = r.secret \/ Has(t, "clear", p, s)
      /\ x = r.secret \/ Precedes(t, Step(p, s, "register"), Step(p, s, "save"))
      /\ x = None \/ Precedes(t, Step(p, s, "deregister"), Step(p, s, "clear"))
    BY DEF TenantIn
<1>2. /\ \A next : Has(t, next, p, s) /\ next \notin Skips => Has(u, next, p, s) \/ (s = z /\ next = do)
      /\ \A next, a : Precedes(t, Step(p, s, next), a) /\ next \notin Skips =>
                         Precedes(u, Step(p, s, next), a) \/ (s = z /\ next = do)
    BY Ahead
<1>3. /\ do = "save" => q.url = r.url \cup {z}
      /\ do = "clear" => q.url = r.url \ {z}
      /\ do = "forget" => q.url = {} /\ q.secret = None
      /\ do \notin {"forget", "save", "clear"} => q.url = r.url
      /\ do \notin {"forget", "secret"} => q.secret = r.secret
    BY DEF RowGoes, NoRow
<1>4. /\ \A c : ~Precedes(t, c, Step(p, z, do))
      /\ \A c, next : (do \in On /\ next \in Off) \/ (do \in Off /\ next \in On) =>
                         ~Has(t, next, p, s) /\ Precedes(u, c, Step(p, s, next))
      /\ do \in {"register", "deregister"} => z = s
    BY DEF Onward
<1>5. CASE do = "register"
    <2>1. y = q.secret /\ Has(u, "save", p, s)
        BY <1>3, <1>4, <1>5, Sides DEF Onward
    <2> QED
        BY <1>4, <1>5, <2>1, Sides DEF TenantIn
<1>6. CASE do = "deregister"
    <2>1. y = None /\ Has(u, "clear", p, s)
        BY <1>4, <1>6 DEF Onward
    <2> QED
        BY <1>4, <1>6, <2>1, Sides DEF TenantIn
<1>7. CASE do = "save" /\ z = s
    <2>1. y = q.secret /\ s \in q.url
        BY <1>1, <1>3, <1>4, <1>7
    <2> QED
        BY <1>4, <1>7, <2>1, Sides DEF TenantIn
<1>8. CASE do = "clear" /\ z = s
    <2>1. y = None /\ s \notin q.url
        BY <1>1, <1>3, <1>4, <1>8
    <2> QED
        BY <1>4, <1>8, <2>1, Sides DEF TenantIn
<1>9. CASE do = "forget"
    <2>1. s \notin r.url
        <3>1. Precedes(t, Step(p, s, "clear"), Step(p, "auth", "forget")) => s \notin r.url
            BY <1>4, <1>9 DEF Onward
        <3> QED
            BY <3>1 DEF RowIn, Services
    <2>2. y = None /\ s \notin q.url
        BY <1>1, <1>3, <1>4, <1>9, <2>1, Sides
    <2> QED
        BY <1>3, <1>9, <2>2 DEF TenantIn
<1>10. CASE do = "secret" /\ r.url = {}
    <2>1. \A next, c : ~Has(t, next, p, s) /\ Precedes(u, c, Step(p, s, next))
        BY <1>10 DEF Onward
    <2>2. y = None /\ q.url = {}
        BY <1>1, <1>3, <1>10, <2>1
    <2> QED
        BY <2>1, <2>2 DEF TenantIn
<1>11. CASE /\ do \notin {"register", "deregister", "forget"} /\ (do \in {"save", "clear"} => z # s)
            /\ q.secret = r.secret
    <2>1. y = x /\ (s \in q.url <=> s \in r.url)
        BY <1>3, <1>11
    <2>2. /\ \A next \in {"save", "clear"} : Has(t, next, p, s) => Has(u, next, p, s)
          /\ \A next \in {"register", "deregister"} :
                \A a : Precedes(t, Step(p, s, next), a) => Precedes(u, Step(p, s, next), a)
        BY <1>2, <1>11, Sides
    <2> QED
        BY <1>1, <1>11, <2>1, <2>2 DEF TenantIn
<1>12. do # "forget" => q.secret = r.secret \/ (do = "secret" /\ r.url = {})
    BY DEF RowGoes
<1> QED
    BY <1>5, <1>6, <1>7, <1>8, <1>9, <1>10, <1>11, <1>12

\* The record of an application's host is there before the application, and is
\* taken back after it.
LEMMA RecordMoves ==
    ASSUME NEW t, NEW u, NEW p, NEW z, NEW do, Onward(t, u, p, z, do),
           NEW s \in Routed, NEW d, NEW e, NEW a, NEW c, RecordIn(d, a, t, p, s),
           s = z /\ do = "dns" => HostOf(p, s) \in e \/ mode # "legacy",
           s = z /\ do = "undns" => HostOf(p, s) \notin e /\ (mode = "legacy" => NamedIn(c, p, s) = {}),
           s # z \/ do \notin {"dns", "undns"} => (HostOf(p, s) \in e <=> HostOf(p, s) \in d),
           s = z /\ do = "create" => NamedIn(c, p, s) # {},
           s # z \/ do # "create" => (NamedIn(c, p, s) = {} <=> NamedIn(a, p, s) = {})
    PROVE  RecordIn(e, c, u, p, s)
<1> DEFINE known == HostOf(p, s) \in d
           knows == HostOf(p, s) \in e
           some  == NamedIn(a, p, s) # {}
           any   == NamedIn(c, p, s) # {}
<1>1. /\ known => some \/ Has(t, "undns", p, s) \/ Has(t, "create", p, s)
      /\ mode = "legacy" => /\ some => known
                            /\ known \/ Precedes(t, Step(p, s, "dns"), Step(p, s, "create"))
    BY DEF RecordIn
<1>2. /\ \A next : Has(t, next, p, s) /\ next \notin Skips => Has(u, next, p, s) \/ (s = z /\ next = do)
      /\ \A next, x : Precedes(t, Step(p, s, next), x) /\ next \notin Skips =>
                         Precedes(u, Step(p, s, next), x) \/ (s = z /\ next = do)
    BY Ahead
<1>3. CASE s = z /\ do = "dns"
    <2>1. Has(u, "create", p, s) /\ (mode = "legacy" => knows)
        BY <1>3 DEF Onward
    <2> QED
        BY <2>1 DEF RecordIn
<1>4. CASE s = z /\ do = "undns"
    <2>1. Precedes(u, Step(p, s, "dns"), Step(p, s, "create"))
        BY <1>4, Sides DEF Onward
    <2> QED
        BY <1>4, <2>1 DEF RecordIn
<1>5. CASE s = z /\ do = "create"
    <2>1. mode = "legacy" => known
        BY <1>1, <1>5 DEF Onward
    <2> QED
        BY <1>5, <2>1 DEF RecordIn
<1>6. CASE s # z \/ do \notin {"dns", "undns", "create"}
    <2>1. /\ \A next \in {"undns", "create"} : Has(t, next, p, s) => Has(u, next, p, s)
          /\ \A x : Precedes(t, Step(p, s, "dns"), x) => Precedes(u, Step(p, s, "dns"), x)
        BY <1>2, <1>6, Sides
    <2> QED
        BY <1>1, <1>6, <2>1 DEF RecordIn
<1> QED
    BY <1>3, <1>4, <1>5, <1>6

\* The record of Realtime's host is taken back before the row does not advertise it.
LEMMA SocketMoves ==
    ASSUME NEW t, NEW u, NEW p, NEW z, NEW do, Onward(t, u, p, z, do),
           NEW r, NEW q, RowGoes(r, q, z, do), RowIn(r, t, p),
           NEW d, NEW e, SocketIn(d, r, t, p),
           z = "realtime" /\ do = "undns" => HostOf(p, "realtime") \notin e,
           do # "realtimeDns" /\ (z # "realtime" \/ do \notin {"dns", "undns"}) =>
              (HostOf(p, "realtime") \in e <=> HostOf(p, "realtime") \in d)
    PROVE  SocketIn(e, q, u, p)
<1> DEFINE s == "realtime"
           known == HostOf(p, s) \in d
           knows == HostOf(p, s) \in e
<1>1. /\ known => s \in r.url \/ Has(t, "save", p, s)
      /\ ~known \/ Precedes(t, Step(p, s, "undns"), Step(p, s, "clear"))
    BY DEF SocketIn
<1>2. /\ \A next : Has(t, next, p, s) /\ next \notin Skips => Has(u, next, p, s) \/ (s = z /\ next = do)
      /\ \A next, x : Precedes(t, Step(p, s, next), x) /\ next \notin Skips =>
                         Precedes(u, Step(p, s, next), x) \/ (s = z /\ next = do)
    BY Ahead
<1>3. /\ do = "save" => q.url = r.url \cup {z}
      /\ do = "clear" => q.url = r.url \ {z}
      /\ do = "forget" => q.url = {} /\ q.secret = None
      /\ do \notin {"forget", "save", "clear"} => q.url = r.url
    BY DEF RowGoes, NoRow
<1>4. /\ \A c : ~Precedes(t, c, Step(p, z, do))
      /\ \A c, next : (do \in On /\ next \in Off) \/ (do \in Off /\ next \in On) =>
                         ~Has(t, next, p, s) /\ Precedes(u, c, Step(p, s, next))
      /\ do = "realtimeDns" => z = s
      /\ do = "dns" => z # s
    BY DEF Onward, Routed
<1>5. CASE do = "realtimeDns"
    <2>1. Has(u, "save", p, s)
        BY <1>4, <1>5, Sides DEF Onward
    <2> QED
        BY <1>4, <1>5, <2>1, Sides DEF SocketIn
<1>6. CASE do = "undns" /\ z = s
    BY <1>6 DEF SocketIn
<1>7. CASE do = "save" /\ z = s
    BY <1>3, <1>4, <1>7, Sides DEF SocketIn
<1>8. CASE do = "clear" /\ z = s
    BY <1>1, <1>4, <1>8 DEF SocketIn
<1>9. CASE do = "forget"
    <2>1. s \notin r.url
        <3>1. Precedes(t, Step(p, s, "clear"), Step(p, "auth", "forget")) => s \notin r.url
            BY <1>4, <1>9 DEF Onward
        <3> QED
            BY <3>1 DEF RowIn, Services
    <2>2. ~known
        BY <1>1, <1>4, <1>9, <2>1, Sides
    <2> QED
        BY <1>9, <2>2 DEF SocketIn
<1>10. CASE /\ do \notin {"realtimeDns", "forget"} /\ (do \in {"save", "clear", "undns"} => z # s)
    <2>1. (knows <=> known) /\ (s \in q.url <=> s \in r.url)
        BY <1>3, <1>4, <1>10
    <2>2. /\ Has(t, "save", p, s) => Has(u, "save", p, s)
          /\ \A a : Precedes(t, Step(p, s, "undns"), a) => Precedes(u, Step(p, s, "undns"), a)
        BY <1>2, <1>10, Sides
    <2> QED
        BY <1>1, <2>1, <2>2 DEF SocketIn
<1> QED
    BY <1>5, <1>6, <1>7, <1>8, <1>9, <1>10

\* An application is removed before the row ceases to advertise it, and created
\* before it does.
LEMMA AppMoves ==
    ASSUME NEW t, NEW u, NEW p, NEW z, NEW do, Onward(t, u, p, z, do),
           NEW r, NEW q, RowGoes(r, q, z, do),
           NEW s \in Routed, NEW a, NEW c, AppIn(a, r, t, p, s),
           \/ s = z /\ do = "create" /\ NamedIn(c, p, s) # {}
           \/ /\ s = z /\ do = "deploy" /\ (NamedIn(a, p, s) = {} <=> NamedIn(c, p, s) = {})
              /\ \A v \in NamedIn(c, p, s) : c[v].run # <<>>
           \/ s = z /\ do \in {"remove", "gone"} /\ NamedIn(a, p, s) = {} /\ NamedIn(c, p, s) = {}
           \/ /\ s = z /\ do = "remove" /\ Heads(u, Step(p, s, "gone"))
              /\ NamedIn(a, p, s) # {} /\ NamedIn(c, p, s) # {}
              /\ \A v \in NamedIn(c, p, s) : c[v].deleting
           \/ do = "forget" /\ NamedIn(a, p, s) = {} /\ NamedIn(c, p, s) = {}
           \/ /\ s # z \/ do \notin {"create", "deploy", "remove", "gone", "forget"}
              /\ do # "forget"
              /\ NamedIn(c, p, s) = NamedIn(a, p, s)
              /\ \A v \in NamedIn(a, p, s) : /\ a[v].run # <<>> => c[v].run # <<>>
                                             /\ a[v].deleting => c[v].deleting
    PROVE  AppIn(c, q, u, p, s)
<1> DEFINE some == NamedIn(a, p, s) # {}
           any  == NamedIn(c, p, s) # {}
<1>1. /\ some => s \in r.url \/ Has(t, "save", p, s)
      /\ s \in r.url => some \/ Has(t, "clear", p, s) \/ s = "auth"
      /\ some \/ Precedes(t, Step(p, s, "create"), Step(p, s, "save"))
      /\ some => \/ Heads(t, Step(p, s, "gone"))
                 \/ /\ Precedes(t, Step(p, s, "remove"), Step(p, s, "clear"))
                    /\ Precedes(t, Step(p, s, "remove"), Step(p, s, "undns"))
      /\ \A v \in NamedIn(a, p, s) : a[v].run # <<>> \/ Has(t, "deploy", p, s) \/ a[v].deleting
    BY DEF AppIn
<1>2. /\ \A next : Has(t, next, p, s) /\ next \notin Skips => Has(u, next, p, s) \/ (s = z /\ next = do)
      /\ \A next, x : Precedes(t, Step(p, s, next), x) /\ next \notin Skips =>
                         Precedes(u, Step(p, s, next), x) \/ (s = z /\ next = do)
    BY Ahead
<1>3. /\ do = "save" => q.url = r.url \cup {z}
      /\ do = "clear" => q.url = r.url \ {z}
      /\ do = "forget" => q.url = {}
      /\ do \notin {"forget", "save", "clear"} => q.url = r.url
    BY DEF RowGoes, NoRow
<1>4. /\ \A x : ~Precedes(t, x, Step(p, z, do))
      /\ \A x, next : (do \in On /\ next \in Off) \/ (do \in Off /\ next \in On) =>
                         ~Has(t, next, p, s) /\ Precedes(u, x, Step(p, s, next))
      /\ Heads(t, Step(p, s, "gone")) <=> s = z /\ do = "gone"
    BY DEF Onward
<1>5. CASE s = z /\ do = "create" /\ any
    <2>1. Has(u, "save", p, s) /\ Has(u, "deploy", p, s)
        BY <1>5, Sides DEF Onward
    <2> QED
        BY <1>4, <1>5, <2>1, Sides DEF AppIn
<1>6. CASE s = z /\ do = "deploy" /\ (some <=> any) /\ \A v \in NamedIn(c, p, s) : c[v].run # <<>>
    <2>1. Has(u, "save", p, s) /\ q.url = r.url /\ ~Has(t, "clear", p, s)
        BY <1>3, <1>4, <1>6, Sides DEF Onward
    <2>2. \A x : Precedes(t, Step(p, s, "create"), x) => Precedes(u, Step(p, s, "create"), x)
        BY <1>2, <1>6, Sides
    <2> QED
        BY <1>1, <1>4, <1>6, <2>1, <2>2, Sides DEF AppIn
<1>7. CASE s = z /\ do \in {"remove", "gone"} /\ ~some /\ ~any
    <2>1. Has(t, "clear", p, s) => Has(u, "clear", p, s)
        BY <1>2, <1>7, Sides
    <2>2. do \in Off /\ q.url = r.url
        BY <1>3, <1>7, Sides
    <2> QED
        BY <1>1, <1>4, <1>7, <2>1, <2>2, Sides DEF AppIn
<1>8. CASE /\ s = z /\ do = "remove" /\ Heads(u, Step(p, s, "gone")) /\ some /\ any
           /\ \A v \in NamedIn(c, p, s) : c[v].deleting
    <2>1. Has(t, "clear", p, s) => Has(u, "clear", p, s)
        BY <1>2, <1>8, Sides
    <2>2. q.url = r.url /\ ~Has(t, "save", p, s) /\ \A x : Precedes(u, x, Step(p, s, "save"))
        BY <1>3, <1>4, <1>8, Sides
    <2> QED
        BY <1>1, <1>8, <2>1, <2>2 DEF AppIn
<1>9. CASE do = "forget" /\ ~any
    BY <1>3, <1>4, <1>9, Sides DEF AppIn
<1>10. ASSUME /\ s # z \/ do \notin {"create", "deploy", "remove", "gone", "forget"}
              /\ do # "forget"
              /\ NamedIn(c, p, s) = NamedIn(a, p, s)
              /\ \A v \in NamedIn(a, p, s) : /\ a[v].run # <<>> => c[v].run # <<>>
                                             /\ a[v].deleting => c[v].deleting
       PROVE  AppIn(c, q, u, p, s)
    <2>1. /\ some <=> any
          /\ Has(t, "deploy", p, s) => Has(u, "deploy", p, s)
          /\ \A x : Precedes(t, Step(p, s, "create"), x) => Precedes(u, Step(p, s, "create"), x)
          /\ \A x : Precedes(t, Step(p, s, "remove"), x) => Precedes(u, Step(p, s, "remove"), x)
          /\ ~Heads(t, Step(p, s, "gone"))
        BY <1>2, <1>4, <1>10, Sides
    <2>2. \A v \in NamedIn(c, p, s) : c[v].run # <<>> \/ Has(u, "deploy", p, s) \/ c[v].deleting
        BY <1>1, <1>10, <2>1
    <2>3. CASE s = z /\ do = "save"
        BY <1>1, <1>3, <1>4, <2>1, <2>2, <2>3, Sides DEF AppIn
    <2>4. CASE s = z /\ do = "clear"
        BY <1>1, <1>3, <1>4, <2>1, <2>2, <2>4, Sides DEF AppIn
    <2>5. CASE s # z \/ do \notin {"save", "clear"}
        <3>1. /\ Has(t, "save", p, s) => Has(u, "save", p, s)
              /\ Has(t, "clear", p, s) => Has(u, "clear", p, s)
              /\ s \in q.url <=> s \in r.url
            BY <1>2, <1>3, <1>10, <2>5, Sides
        <3> QED
            BY <1>1, <2>1, <2>2, <3>1 DEF AppIn
    <2> QED
        BY <2>3, <2>4, <2>5
<1> QED
    BY <1>5, <1>6, <1>7, <1>8, <1>9, <1>10

\* The bucket is there for a key in the row or on its way there; both are removed
\* before the row is forgotten.
LEMMA StoreMoves ==
    ASSUME NEW t, NEW u, NEW p, NEW z, NEW do, Onward(t, u, p, z, do),
           NEW r, NEW q, RowGoes(r, q, z, do),
           NEW l, NEW m, NEW k, NEW g, StoreIn(l, k, r, t, p),
           LET known == projectHostLabel(p) \in l  knows == projectHostLabel(p) \in m IN
           /\ do = "bucket" => ((knows <=> known) /\ r.key # None) \/ Has(u, "store", p, "storage")
           /\ do = "removeBucket" => (r.key # None => ~knows) /\ (r.key = None => (knows <=> known))
           /\ do \notin {"bucket", "removeBucket"} => (knows <=> known),
           do \in {"removeKey", "forget"} => q.key \notin g,
           do \notin On => (q.key \in g => r.key \in k)
    PROVE  StoreIn(m, g, q, u, p)
<1> DEFINE s == "storage"
           known == projectHostLabel(p) \in l
           knows == projectHostLabel(p) \in m
           held  == r.key \in k
           holds == q.key \in g
           last == Step(p, "auth", "forget")
<1>1. /\ known => r.key # None \/ Has(t, "store", p, s) \/ (~r.there /\ Has(t, "read", p, s))
      /\ ~known \/ Precedes(t, Step(p, s, "removeBucket"), last)
      /\ ~held \/ Precedes(t, Step(p, s, "removeKey"), last)
    BY DEF StoreIn
<1>2. /\ \A next : Has(t, next, p, s) /\ next \notin Skips => Has(u, next, p, s) \/ (s = z /\ next = do)
      /\ \A next, x : Precedes(t, Step(p, s, next), x) /\ next \notin Skips =>
                         Precedes(u, Step(p, s, next), x) \/ (s = z /\ next = do)
    BY Ahead
<1>3. /\ do \notin Off => q.there = r.there
      /\ do # "forget" => q.key = r.key \/ (do = "store" /\ q.key # None)
      /\ do = "store" /\ r.there => q.key # None
      /\ do = "read" => r.there
    BY DEF RowGoes
<1>4. /\ \A x : ~Precedes(t, x, Step(p, z, do))
      /\ \A x, y, next : (do \in On /\ next \in Off) \/ (do \in Off /\ next \in On) =>
                         ~Has(t, next, p, y) /\ Precedes(u, x, Step(p, y, next))
      /\ do # "bucket" /\ Has(t, "store", p, s) => Has(u, "store", p, s) \/ (do = "store" /\ z = s)
      /\ do = "store" => Has(u, "read", p, s)
      /\ do = "forget" => z = "auth"
    BY DEF Onward
<1>5. CASE do \in On
    <2>1. Precedes(u, Step(p, s, "removeBucket"), last) /\ Precedes(u, Step(p, s, "removeKey"), last)
        BY <1>4, <1>5, Sides
    <2>2. q.there = r.there /\ do # "forget" /\ do # "removeBucket"
        BY <1>3, <1>5 DEF On, Off
    <2>3. Has(t, "read", p, s) => Has(u, "read", p, s) \/ r.there
        BY <1>2, <1>3, Sides
    <2>4. knows => q.key # None \/ Has(u, "store", p, s) \/ (~q.there /\ Has(u, "read", p, s))
        BY <1>1, <1>3, <1>4, <2>2, <2>3
    <2> QED
        BY <2>1, <2>4 DEF StoreIn
<1>6. CASE do \notin On /\ do # "forget"
    <2>1. q.key = r.key /\ do # "bucket"
        BY <1>3, <1>6, Sides
    <2>2. knows => known
        BY <1>1, <2>1
    <2>3. /\ knows => do # "removeBucket"
          /\ holds => do # "removeKey" /\ held
        <3>1. do = "removeBucket" /\ r.key = None => ~known
            BY <1>1, <1>4, Sides
        <3> QED
            BY <1>6, <3>1
    <2>4. /\ ~knows \/ Precedes(u, Step(p, s, "removeBucket"), last)
          /\ ~holds \/ Precedes(u, Step(p, s, "removeKey"), last)
        BY <1>1, <1>2, <2>2, <2>3, Sides
    <2>5. knows => q.key # None \/ Has(u, "store", p, s) \/ (~q.there /\ Has(u, "read", p, s))
        <3>1. CASE do \in Off
            BY <1>1, <1>4, <2>1, <2>2, <3>1, Sides
        <3>2. CASE do \notin Off
            <4>1. do # "store" /\ do # "read"
                BY <1>6, Sides
            <4>2. Has(t, "read", p, s) => Has(u, "read", p, s)
                BY <1>2, <4>1, Sides
            <4> QED
                BY <1>1, <1>3, <1>4, <2>1, <2>2, <3>2, <4>1, <4>2
        <3> QED
            BY <3>1, <3>2
    <2> QED
        BY <2>4, <2>5 DEF StoreIn
<1>7. CASE do = "forget"
    <2>1. ~known
        BY <1>1, <1>4, <1>7
    <2> QED
        BY <1>7, <2>1 DEF StoreIn
<1> QED
    BY <1>5, <1>6, <1>7

-----------------------------------------------------------------------------
(* 11. What each request changes.                                          *)

\* The requests that leave the rows as they are.
LEMMA RowsStand ==
    ASSUME Requests, ~RegisterProject, ~prepareAuth, ~StoreKey, ~Save, ~Clear, ~Forget
    PROVE  /\ row' = row
           /\ Now("call").do \notin {"secret", "store", "save", "clear", "forget", "register project"}
           /\ Now("call").do = "read" => row[P].secret # None
BY DEF Requests, Plainly, Specially, AllowKey, RemoveKey,
   RemoveBucket, findAppByName, createDockerImageApp, AwaitListed, setEnv, deployApp,
   destroyApp, waitAppGone, ensureHostDns, destroyHostDns, RegisterTenant,
   DeregisterTenant, RunContainer, RemoveContainer, ReadSecret, CreateBucket,
   MintKey, outside, Does, Framed, AppFrame

\* What a request makes of the row of its project.
LEMMA RowGone ==
    ASSUME TypeOK, Ordered, Informed, KeyUnderWay, RowsFilled, Requests
    PROVE  RowGoes(row[P], row'[P], S, Now("call").do)
<1> DEFINE r == row[P]
           do == Now("call").do
<1>1. Busy("call")
    BY Plain, SpecialApps DEF Requests
<1>2. /\ P \in Projects /\ S \in Services
      /\ row \in [Projects -> [there: BOOLEAN, secret: Secrets, key: 0 .. minted, url: SUBSET Services]]
    BY <1>1, CallTyped, Typed DEF RowTyped
<1>3. r \in [there: BOOLEAN, secret: Secrets, key: 0 .. minted, url: SUBSET Services]
    BY <1>2
<1>4. /\ r.secret # None => r.there
      /\ r.url # {} => r.secret # None
      /\ r = NoRow => ~r.there /\ r.secret = None
    BY <1>2 DEF RowsFilled, Ready, NoRow
<1>5. CASE RegisterProject
    <2>1. row'[P] = [r EXCEPT !.there = TRUE] /\ do = "register project"
        BY <1>2, <1>5 DEF RegisterProject, Does
    <2>2. row'[P].there /\ row'[P].url = r.url /\ row'[P].secret = r.secret /\ row'[P].key = r.key
        BY <1>3, <2>1
    <2>3. do \in Off /\ do \notin {"forget", "save", "clear", "store", "read"}
        BY <2>1 DEF Off
    <2> QED
        BY <2>2, <2>3 DEF RowGoes
<1>6. CASE prepareAuth
    <2>1. do = "secret" /\ r.there /\ \/ row' = row
                                      \/ r.secret = None /\ \E x : row' = [row EXCEPT ![P].secret = x]
        <3>1. ~Throws("call")
            BY <1>6 DEF Requests, Plainly, Specially, RegisterProject, AllowKey, Save, Clear, RemoveKey,
               RemoveBucket, findAppByName, createDockerImageApp, AwaitListed, setEnv, deployApp,
               destroyApp, waitAppGone, ensureHostDns, destroyHostDns, RegisterTenant,
               DeregisterTenant, RunContainer, RemoveContainer, prepareAuth, ReadSecret, CreateBucket,
               MintKey, StoreKey, Forget, Does
        <3> QED
            BY <1>6, <3>1 DEF prepareAuth, Does
    <2>2. /\ row'[P].there = r.there /\ row'[P].url = r.url /\ row'[P].key = r.key
          /\ row'[P].secret = r.secret \/ r.url = {}
        <3>1. CASE row' = row
            BY <3>1
        <3>2. ASSUME NEW x, row' = [row EXCEPT ![P].secret = x], r.secret = None
              PROVE  /\ row'[P].there = r.there /\ row'[P].url = r.url /\ row'[P].key = r.key
                     /\ r.url = {}
            <4>1. row'[P] = [r EXCEPT !.secret = x]
                BY <1>2, <3>2
            <4> QED
                BY <1>3, <1>4, <3>2, <4>1
        <3> QED
            BY <2>1, <3>1, <3>2
    <2> QED
        BY <1>4, <2>1, <2>2 DEF RowGoes
<1>7. CASE StoreKey
    <2>1. do = "store" /\ row'[P] = IF r.there THEN [r EXCEPT !.key = Call.key] ELSE r
        BY <1>2, <1>7 DEF StoreKey, Does
    <2>2. Call.key # None
        <3>1. Call.key \in keys /\ keys \subseteq 1 .. minted
            BY <1>1, <2>1, Typed DEF KeyUnderWay, StoreTyped
        <3> QED
            BY <3>1 DEF None
    <2>3. /\ row'[P].there = r.there /\ row'[P].url = r.url /\ row'[P].secret = r.secret
          /\ row'[P].key = r.key \/ row'[P].key # None
          /\ r.there => row'[P].key # None
          /\ r = NoRow => row'[P] = NoRow
        BY <1>3, <1>4, <2>1, <2>2
    <2> QED
        BY <2>1, <2>3 DEF RowGoes
<1>8. CASE Save
    <2>1. do = "save" /\ r.there
        <3>1. do = "save"
            BY <1>8 DEF Save, Does
        <3>2. Known(P, S)
            BY <1>1, <3>1, KnowsNow DEF Uses
        <3> QED
            BY <1>4, <3>1, <3>2 DEF Known, Ready
    <2>2. row'[P] = [r EXCEPT !.url = @ \cup {S}]
        BY <1>2, <1>8, <2>1 DEF Save
    <2>3. /\ row'[P].there = r.there /\ row'[P].url = r.url \cup {S}
          /\ row'[P].secret = r.secret /\ row'[P].key = r.key
        BY <1>3, <2>2
    <2> QED
        BY <1>4, <2>1, <2>3 DEF RowGoes
<1>9. CASE Clear
    <2>1. do = "clear" /\ row'[P] = [r EXCEPT !.url = @ \ {S}]
        BY <1>2, <1>9 DEF Clear, Does
    <2>2. /\ row'[P].there = r.there /\ row'[P].url = r.url \ {S}
          /\ row'[P].secret = r.secret /\ row'[P].key = r.key
        BY <1>3, <2>1
    <2>3. r = NoRow => row'[P] = NoRow
        <3> SUFFICES ASSUME r = NoRow PROVE row'[P] = NoRow
            OBVIOUS
        <3>1. NoRow.url = {} /\ NoRow.url \ {S} = {}
            BY DEF NoRow
        <3>2. row'[P] = [NoRow EXCEPT !.url = {}]
            BY <2>1, <3>1
        <3> QED
            BY <3>2 DEF NoRow
    <2> QED
        BY <2>1, <2>2, <2>3 DEF RowGoes
<1>10. CASE Forget
    <2>1. do = "forget" /\ row'[P] = NoRow
        BY <1>2, <1>10 DEF Forget, Does
    <2>2. do \in Off
        BY <2>1, Sides
    <2> QED
        BY <2>1, <2>2 DEF RowGoes, NoRow
<1>11. CASE ~(RegisterProject \/ prepareAuth \/ StoreKey \/ Save \/ Clear \/ Forget)
    <2>1. /\ row' = row /\ do \notin {"secret", "store", "save", "clear", "forget", "register project"}
          /\ do = "read" => r.secret # None
        BY <1>11, RowsStand
    <2> QED
        BY <1>4, <2>1 DEF RowGoes
<1> QED
    BY <1>5, <1>6, <1>7, <1>8, <1>9, <1>10, <1>11

\* The requests that leave containers, tenants, records, buckets and keys as they are.
LEMMA PlacesStand ==
    ASSUME Requests
    PROVE  LET do == Now("call").do IN
           /\ RunContainer \/ RemoveContainer \/
                 (box' = box /\ do \notin {"container", "removeContainer"})
           /\ RegisterTenant \/ DeregisterTenant \/
                 (tenant' = tenant /\ do \notin {"register", "deregister"})
           /\ ensureHostDns \/ destroyHostDns \/
                 (record' = record /\ do \notin {"dns", "realtimeDns", "undns"})
           /\ CreateBucket \/ RemoveBucket \/ (bucket' = bucket /\ do \notin {"bucket", "removeBucket"})
           /\ MintKey \/ RemoveKey \/ (keys' = keys /\ do \notin {"mint", "removeKey"})
           /\ ~Throws("call") \/ CreateBucket \/ MintKey \/ StoreKey \/ Forget
<1> USE DEF Requests, Plainly, Specially, RegisterProject, AllowKey, Save, Clear, RemoveKey,
       RemoveBucket, findAppByName, createDockerImageApp, AwaitListed, setEnv, deployApp, destroyApp,
       waitAppGone, ensureHostDns, destroyHostDns, RegisterTenant, DeregisterTenant, RunContainer,
       RemoveContainer, prepareAuth, ReadSecret, CreateBucket, MintKey, StoreKey, Forget,
       outside, Framed, AppFrame, Does
<1>1. RunContainer \/ RemoveContainer \/ (box' = box /\ Now("call").do \notin {"container", "removeContainer"})
    OBVIOUS
<1>2. RegisterTenant \/ DeregisterTenant \/
          (tenant' = tenant /\ Now("call").do \notin {"register", "deregister"})
    OBVIOUS
<1>3. ensureHostDns \/ destroyHostDns \/
          (record' = record /\ Now("call").do \notin {"dns", "realtimeDns", "undns"})
    OBVIOUS
<1>4. CreateBucket \/ RemoveBucket \/ (bucket' = bucket /\ Now("call").do \notin {"bucket", "removeBucket"})
    OBVIOUS
<1>5. MintKey \/ RemoveKey \/ (keys' = keys /\ Now("call").do \notin {"mint", "removeKey"})
    OBVIOUS
<1>6. ~Throws("call") \/ CreateBucket \/ MintKey \/ StoreKey \/ Forget
    OBVIOUS
<1> QED
    BY <1>1, <1>2, <1>3, <1>4, <1>5, <1>6

\* What a request makes of containers.
LEMMA BoxesGo ==
    ASSUME TypeOK, Requests, NEW p \in Projects, NEW s \in Services
    PROVE  LET do == Now("call").do IN
           /\ p # P => box'[p][s] = box[p][s]
           /\ \/ s = S /\ do = "container" /\ box'[P][s] # NoBox
              \/ s = S /\ do = "removeContainer" /\ box'[P][s] = NoBox
              \/ (s # S \/ do \notin {"container", "removeContainer"}) /\ box'[P][s] = box[P][s]
<1>1. Busy("call")
    BY Plain, SpecialApps DEF Requests
<1>2. P \in Projects /\ S \in Services /\ box \in [Projects -> [Services -> {NoBox} \cup (Secrets \X Keys)]]
    BY <1>1, CallTyped, Typed DEF PlacesTyped
<1>3. CASE RunContainer
    <2>1. Now("call").do = "container" /\ ~Throws("call")
        BY <1>3, PlacesStand DEF RunContainer, CreateBucket, MintKey, StoreKey, Forget, Does
    <2>2. box' = [box EXCEPT ![P][S] = <<Call.secret, Call.key>>] /\ <<Call.secret, Call.key>> # NoBox
        BY <1>3, <2>1 DEF RunContainer, NoBox
    <2> QED
        BY <1>2, <2>1, <2>2
<1>4. CASE RemoveContainer
    <2>1. Now("call").do = "removeContainer" /\ box' = [box EXCEPT ![P][S] = NoBox]
        BY <1>4 DEF RemoveContainer, Does
    <2> QED
        BY <1>2, <2>1
<1> QED
    BY <1>3, <1>4, PlacesStand

\* What a request makes of tenants.
LEMMA TenantsGo ==
    ASSUME TypeOK, Ordered, Informed, Requests, LabelsDiffer, NEW p \in Projects
    PROVE  LET do == Now("call").do  l == projectHostLabel(p) IN
           /\ p # P => tenant'[l] = tenant[l]
           /\ p = P => /\ do = "register" => tenant'[l] = row[P].secret
                       /\ do = "deregister" => tenant'[l] = None
                       /\ do \notin {"register", "deregister"} => tenant'[l] = tenant[l]
<1> DEFINE l == projectHostLabel(p)
           k == projectHostLabel(P)
<1>1. Busy("call")
    BY Plain, SpecialApps DEF Requests
<1>2. P \in Projects /\ l \in Labels /\ k \in Labels /\ tenant \in [Labels -> Secrets]
    BY <1>1, CallTyped, Typed DEF PlacesTyped, Labels
<1>3. p # P => l # k
    BY <1>2 DEF LabelsDiffer
<1>4. p = P => l = k
    OBVIOUS
<1>5. CASE RegisterTenant
    <2>1. Now("call").do = "register" /\ tenant' = [tenant EXCEPT ![k] = Call.secret]
        BY <1>5 DEF RegisterTenant, Does
    <2>2. Call.secret = row[P].secret
        BY <1>1, <2>1, KnowsNow DEF Uses, Known, Credentials
    <2> HIDE DEF l, k
    <2> QED
        BY <1>2, <1>3, <1>4, <2>1, <2>2 DEF l
<1>6. CASE DeregisterTenant
    <2>1. Now("call").do = "deregister" /\ tenant' = [tenant EXCEPT ![k] = None]
        BY <1>6 DEF DeregisterTenant, Does
    <2> HIDE DEF l, k
    <2> QED
        BY <1>2, <1>3, <1>4, <2>1 DEF l
<1> QED
    BY <1>5, <1>6, PlacesStand

\* What a request makes of DNS records.
LEMMA RecordsGo ==
    ASSUME TypeOK, Requests, LabelsDiffer, NEW p \in Projects, NEW s
    PROVE  LET do == Now("call").do  h == HostOf(p, s) IN
           /\ p # P \/ s # S \/ do \notin {"dns", "realtimeDns", "undns"} => (h \in record' <=> h \in record)
           /\ p = P /\ s = S /\ do = "undns" => h \notin record'
           /\ p = P /\ s = S /\ do \in {"dns", "realtimeDns"} => h \in record' \/ mode # "legacy"
<1>1. Busy("call")
    BY Plain, SpecialApps DEF Requests
<1>2. P \in Projects
    BY <1>1, CallTyped
<1>3. HostOf(p, s) = HostOf(P, S) <=> p = P /\ s = S
    BY <1>2 DEF HostOf, LabelsDiffer
<1>4. CASE ensureHostDns
    <2>1. /\ Now("call").do \in {"dns", "realtimeDns"}
          /\ record' = IF mode = "legacy" THEN record \cup {HostOf(P, S)} ELSE record
        BY <1>4 DEF ensureHostDns, Does
    <2> QED
        BY <1>3, <2>1
<1>5. CASE destroyHostDns
    <2>1. Now("call").do = "undns" /\ record' = record \ {HostOf(P, S)}
        BY <1>5 DEF destroyHostDns, Does
    <2> QED
        BY <1>3, <2>1
<1> QED
    BY <1>4, <1>5, PlacesStand

\* What a request makes of buckets and keys.
LEMMA StoresGo ==
    ASSUME TypeOK, Requests, LabelsDiffer, NEW p \in Projects
    PROVE  LET do == Now("call").do  l == projectHostLabel(p)  r == row[P] IN
           /\ p # P \/ do \notin {"bucket", "removeBucket"} => (l \in bucket' <=> l \in bucket)
           /\ do = "bucket" /\ bucket' # bucket => r.key = None
           /\ do = "bucket" /\ r.key = None => Straight(1)
           /\ p = P /\ do = "removeBucket" =>
                 (r.key # None => l \notin bucket') /\ (r.key = None => bucket' = bucket)
           /\ do = "removeKey" => keys' = keys \ {r.key} /\ row' = row
           /\ do = "mint" => keys' = keys \cup {minted + 1} /\ row' = row
           /\ do \notin {"mint", "removeKey"} => keys' = keys
           /\ keys \subseteq 1 .. minted /\ None \notin keys'
<1> DEFINE l == projectHostLabel(p)
           k == projectHostLabel(P)
<1>1. Busy("call")
    BY Plain, SpecialApps DEF Requests
<1>2. P \in Projects /\ keys \subseteq 1 .. minted /\ minted \in Nat
    BY <1>1, CallTyped, Typed DEF StoreTyped
<1>3. l = k <=> p = P
    BY <1>2 DEF LabelsDiffer
<1>4. CASE CreateBucket
    <2>1. /\ Now("call").do = "bucket" /\ keys' = keys
          /\ \/ row[P].key # None /\ bucket' = bucket
             \/ row[P].key = None /\ bucket' = bucket \cup {k} /\ Resumes("call", Call, Skip("call", 1))
        BY <1>4 DEF CreateBucket, Does, Proceeds
    <2>2. row[P].key = None => Straight(1)
        <3>1. Call \in Locals(minted)
            BY <1>1, CallTyped
        <3>2. row[P].key = None => caller'["call"].todo = Skip("call", 1)
            BY <1>1, <2>1, <3>1, CallResumes
        <3>3. mode' = mode
            BY <1>4 DEF CreateBucket, Framed, modes
        <3> QED
            BY <1>1, <3>2, <3>3 DEF Straight, Progress
    <2> QED
        BY <1>2, <1>3, <2>1, <2>2 DEF None
<1>5. CASE RemoveBucket
    <2>1. /\ Now("call").do = "removeBucket" /\ keys' = keys
          /\ \/ row[P].key = None /\ bucket' = bucket
             \/ row[P].key # None /\ bucket' = bucket \ {k}
        BY <1>5 DEF RemoveBucket, Does
    <2> QED
        BY <1>2, <1>3, <2>1 DEF None
<1>6. CASE MintKey
    <2>1. Now("call").do = "mint" /\ keys' = keys \cup {minted + 1} /\ bucket' = bucket /\ row' = row
        BY <1>6 DEF MintKey, Does
    <2> QED
        BY <1>2, <1>3, <2>1 DEF None
<1>7. CASE RemoveKey
    <2>1. Now("call").do = "removeKey" /\ keys' = keys \ {row[P].key} /\ bucket' = bucket /\ row' = row
        BY <1>7 DEF RemoveKey, Does
    <2> QED
        BY <1>2, <1>3, <2>1 DEF None
<1>8. CASE ~CreateBucket /\ ~RemoveBucket /\ ~MintKey /\ ~RemoveKey
    <2>1. /\ keys' = keys /\ bucket' = bucket
          /\ Now("call").do \notin {"bucket", "removeBucket", "mint", "removeKey"}
        BY <1>8, PlacesStand
    <2> QED
        BY <1>2, <2>1 DEF None
<1> QED
    BY <1>4, <1>5, <1>6, <1>7, <1>8

\* The requests that leave the applications as they are.
LEMMA AppsStand ==
    ASSUME Requests
    PROVE  \/ createDockerImageApp \/ setEnv \/ deployApp \/ destroyApp \/ waitAppGone
           \/ app' = app /\ Now("call").do \notin {"create", "env", "deploy", "remove", "gone"}
BY DEF Requests, Plainly, Specially, RegisterProject, AllowKey, Save, Clear, RemoveKey,
   RemoveBucket, findAppByName, AwaitListed, ensureHostDns, destroyHostDns, RegisterTenant,
   DeregisterTenant, RunContainer, RemoveContainer, prepareAuth, ReadSecret, CreateBucket, MintKey,
   StoreKey, Forget, outside, Framed, AppFrame, Does

\* What a request makes of the applications of its project, if that is not hurt.
LEMMA AppsGo ==
    ASSUME Courses, InTurn(Call.todo), Requests, \A p \in Projects, s \in Routed : Fine(p, s), P \notin hurt',
           NEW s \in Routed
    PROVE  LET z == S  do == Now("call").do  u == caller'["call"].todo  a == app  c == app' IN
           \/ s = z /\ do = "create" /\ NamedIn(c, P, s) # {}
           \/ /\ s = z /\ do = "deploy" /\ (NamedIn(a, P, s) = {} <=> NamedIn(c, P, s) = {})
              /\ \A v \in NamedIn(c, P, s) : c[v].run # <<>>
           \/ s = z /\ do \in {"remove", "gone"} /\ NamedIn(a, P, s) = {} /\ NamedIn(c, P, s) = {}
           \/ /\ s = z /\ do = "remove" /\ Heads(u, Step(P, s, "gone"))
              /\ NamedIn(a, P, s) # {} /\ NamedIn(c, P, s) # {}
              /\ \A v \in NamedIn(c, P, s) : c[v].deleting
           \/ do = "forget" /\ NamedIn(a, P, s) = {} /\ NamedIn(c, P, s) = {}
           \/ /\ s # z \/ do \notin {"create", "deploy", "remove", "gone", "forget"}
              /\ do # "forget"
              /\ NamedIn(c, P, s) = NamedIn(a, P, s)
              /\ \A v \in NamedIn(a, P, s) : /\ a[v].run # <<>> => c[v].run # <<>>
                                             /\ a[v].deleting => c[v].deleting
<1> DEFINE do == Now("call").do
           N  == NamedIn(app, P, s)
<1>1. /\ Busy("call") /\ P \in Projects /\ S \in Services /\ hurt \subseteq hurt'
      /\ \A v \in Uuids : app'[v] = app[v] \/ (app'[v].of = <<P, S>> /\ app[v].of \in {<<>>, <<P, S>>})
    BY RequestFrame DEF Courses, ServicesInv
<1>2. TypeOK /\ Ordered /\ Held /\ InCourse(Call.todo)
    BY DEF Courses, ServicesInv
<1>3. app \in [Uuids -> Apps] /\ \A v \in Uuids : Sound(app[v])
    BY <1>2, Typed DEF AppTyped, Apps, Sound
<1>4. SoleIn(app, Call, shape, row[P], mode, P, s)
    <2>1. Fine(P, s) /\ P \notin hurt
        BY <1>1
    <2> QED
        BY <2>1 DEF Fine, FineIn, Call
<1>5. Head(Call.todo) = Now("call")
    BY DEF Now, Call
<1>6. \A v \in N : /\ do # "await" => app[v].listed
                   /\ app[v].deleting => do = "gone"
    BY <1>4, <1>5 DEF SoleIn, AwaitsIn, GoesIn, DoesIn
<1>7. s # S => NamedIn(app', P, s) = N /\ \A v \in N : app'[v] = app[v]
    BY <1>1 DEF NamedIn
<1>8. CASE do = "forget"
    <2>1. Has(Call.todo, "forget", P, "auth") /\ ~Has(Call.todo, "remove", P, s)
        BY <1>1, <1>2, <1>8, ForgetAlone
    <2>2. N = {}
        BY <1>4, <1>5, <1>8, <2>1 DEF SoleIn, RemovesIn, GoesIn, DoesIn
    <2>3. app' = app
        BY <1>8, AppsStand DEF createDockerImageApp, setEnv, deployApp, destroyApp, waitAppGone, Does
    <2> QED
        BY <1>8, <2>2, <2>3
<1>9. CASE do # "forget" /\ s # S
    BY <1>7, <1>9
<1>10. CASE do # "forget" /\ s = S
    <2>1. ASSUME NEW v, Takes(v), Call.app = v
          PROVE  v \in N
        <3>1. v \in Uuids /\ app[v].listed /\ app[v].of \in Projects \X Routed
            BY <1>3, <2>1 DEF Takes, Sound, Apps
        <3>2. PICK p \in Projects, y \in Routed : app[v].of = <<p, y>>
            BY <3>1
        <3>3. p = P /\ y = S
            BY <1>1, <1>2, <2>1, <3>1, <3>2, OwnApp
        <3> QED
            BY <1>10, <3>1, <3>2, <3>3 DEF NamedIn
    <2>2. ~Throws("call") \/ ~(createDockerImageApp \/ setEnv)
        BY PlacesStand DEF createDockerImageApp, setEnv, CreateBucket, MintKey, StoreKey, Forget, Does
    <2>3. CASE createDockerImageApp
        <3>1. do = "create"
            BY <2>3 DEF createDockerImageApp, Does
        <3>2. CASE Call.app = None
            <4>1. PICK v \in Free : Sets(v, [NoApp EXCEPT !.of = <<P, S>>, !.shape = shape])
                BY <2>3, <3>2, Bounds DEF createDockerImageApp, Takes
            <4>2. v \in Uuids /\ app'[v].of = <<P, S>>
                BY <1>3, <4>1 DEF Free, Sets, NoApp
            <4> QED
                BY <1>10, <3>1, <4>2 DEF NamedIn
        <3>3. CASE Takes(Call.app) /\ Sets(Call.app, [app[Call.app] EXCEPT !.shape = shape])
            <4>1. Call.app \in N
                BY <2>1, <3>3
            <4>2. Call.app \in Uuids /\ app'[Call.app].of = <<P, s>>
                BY <1>3, <3>3, <4>1 DEF Sets, NamedIn, Apps
            <4> QED
                BY <1>10, <3>1, <4>2 DEF NamedIn
        <3> QED
            BY <2>2, <2>3, <3>2, <3>3 DEF createDockerImageApp
    <2>4. CASE setEnv
        <3>1. /\ do = "env" /\ Takes(Call.app)
              /\ Sets(Call.app, [app[Call.app] EXCEPT !.env = <<Call.secret, Call.key>>])
            BY <2>2, <2>4 DEF setEnv, Does
        <3>2. \A v \in Uuids : /\ app'[v].of = app[v].of /\ app'[v].run = app[v].run
                               /\ app'[v].deleting = app[v].deleting
            BY <1>3, <3>1 DEF Sets, Takes, Apps
        <3> QED
            BY <3>1, <3>2 DEF NamedIn
    <2>5. CASE deployApp
        <3>1. do = "deploy" /\ Takes(Call.app) /\ Sets(Call.app, Deployed(app[Call.app]))
            BY <2>5 DEF deployApp, Does
        <3>2. Call.app \in N /\ Call.app \in Uuids
            BY <2>1, <3>1 DEF NamedIn
        <3>3. /\ \A v \in Uuids : app'[v].of = app[v].of
              /\ app'[Call.app].run # <<>>
            BY <1>3, <3>1, <3>2 DEF Sets, Deployed, Apps
        <3>4. NamedIn(app', P, s) = N
            BY <3>3 DEF NamedIn
        <3>5. \A v \in N : v = Call.app
            BY <1>4, <3>2 DEF SoleIn
        <3> QED
            BY <1>10, <3>1, <3>3, <3>4, <3>5
    <2>6. CASE destroyApp
        <3>1. do = "remove"
            BY <2>6 DEF destroyApp, Does
        <3>2. N \subseteq Listed(P, S)
            BY <1>6, <1>10, <3>1 DEF Listed, Named, NamedIn
        <3>3. CASE Listed(P, S) = {}
            <4>1. app' = app
                BY <2>6, <3>3 DEF destroyApp
            <4> QED
                BY <1>10, <3>1, <3>2, <3>3, <4>1
        <3>4. CASE Listed(P, S) # {}
            <4>1. \A v \in Listed(P, S) : v \in N /\ ~app[v].deleting
                BY <1>6, <1>10, <3>1 DEF Listed, Named, NamedIn
            <4>2. PICK v \in Listed(P, S) : /\ Sets(v, [app[v] EXCEPT !.deleting = TRUE, !.run = <<>>])
                                            /\ Proceeds("call", Call)
                BY <2>6, <3>4, <4>1 DEF destroyApp
            <4>3. v \in N /\ v \in Uuids
                BY <4>1, <4>2 DEF NamedIn
            <4>4. (\A x \in Uuids : app'[x].of = app[x].of) /\ app'[v].deleting
                BY <1>3, <4>2, <4>3 DEF Sets, Apps
            <4>5. NamedIn(app', P, s) = N /\ \A x \in N : x = v
                BY <1>4, <4>3, <4>4 DEF NamedIn, SoleIn
            <4>6. Straight(1)
                <5>1. Call \in Locals(minted) /\ Resumes("call", Call, Skip("call", 1))
                    BY <1>1, <1>2, <4>2, CallTyped DEF Proceeds
                <5>2. caller'["call"].todo = Skip("call", 1)
                    BY <1>1, <1>2, <5>1, CallResumes
                <5>3. mode' = mode
                    BY <2>6 DEF destroyApp, AppFrame, Framed, modes
                <5> QED
                    BY <1>1, <5>2, <5>3 DEF Straight, Progress
            <4>7. Heads(caller'["call"].todo, Step(P, S, "gone"))
                BY <1>1, <1>2, <3>1, <4>6, GoesOnward
            <4> QED
                BY <1>10, <3>1, <4>3, <4>4, <4>5, <4>7
        <3> QED
            BY <3>3, <3>4
    <2>7. CASE waitAppGone
        <3>1. do = "gone" /\ Listed(P, S) = {} /\ app' = app
            BY <1>1, <2>7 DEF waitAppGone, Does, outside
        <3>2. N = {}
            BY <1>6, <1>10, <3>1 DEF Listed, Named, NamedIn
        <3> QED
            BY <1>10, <3>1, <3>2
    <2>8. CASE app' = app /\ do \notin {"create", "env", "deploy", "remove", "gone"}
        BY <1>10, <2>8
    <2> QED
        BY <2>3, <2>4, <2>5, <2>6, <2>7, <2>8, AppsStand
<1> QED
    BY <1>8, <1>9, <1>10

-----------------------------------------------------------------------------
(* 12. The invariant is kept.                                              *)

\* Nothing is ahead where nothing is left.
LEMMA NothingAhead ==
    \A do, p, s, a : /\ ~Has(<<>>, do, p, s) /\ ~Heads(<<>>, a) /\ Precedes(<<>>, a, Step(p, s, do))
BY DEF Has, Heads, Precedes

\* A call begins with each step before the one that relies on it.
LEMMA TurnBegins ==
    ASSUME NEW p, NEW r, NEW x, NEW l, NEW k, NEW b, NEW d, NEW a, NEW t,
           TurnIn(r, <<>>, x, l, k, b, d, a, p), Prepared(t, p)
    PROVE  TurnIn(r, t, x, l, k, b, d, a, p)
<1>1. RowIn(r, t, p)
    BY DEF TurnIn, RowIn, Prepared
<1>2. TenantIn(x, r, t, p)
    BY NothingAhead DEF TurnIn, TenantIn, Prepared
<1>3. StoreIn(l, k, r, t, p)
    BY NothingAhead DEF TurnIn, StoreIn, Prepared
<1>4. ASSUME NEW s \in Services, Boxed(s)
      PROVE  BoxIn(b[s], r, t, p, s)
    <2>1. BoxIn(b[s], r, <<>>, p, s)
        BY <1>4 DEF TurnIn
    <2>2. /\ Precedes(t, Step(p, s, "container"), Step(p, s, "save"))
          /\ Precedes(t, Step(p, s, "removeContainer"), Step(p, s, "clear"))
          /\ s = "auth" => Precedes(t, Step(p, s, "removeContainer"), Step(p, s, "forget"))
        BY <1>4 DEF Prepared
    <2> QED
        BY <2>1, <2>2, NothingAhead DEF BoxIn
<1>5. SocketIn(d, r, t, p) /\ HostOf(p, "functions") \notin d
    BY NothingAhead DEF TurnIn, SocketIn, Prepared
<1>6. ASSUME NEW s \in Routed
      PROVE  /\ RecordIn(d, a, t, p, s)
             /\ mode # "docker" => AppIn(a, r, t, p, s)
    <2>1. /\ RecordIn(d, a, <<>>, p, s)
          /\ mode # "docker" => AppIn(a, r, <<>>, p, s)
        BY DEF TurnIn
    <2>2. mode # "docker" =>
             /\ Precedes(t, Step(p, s, "dns"), Step(p, s, "create"))
             /\ Precedes(t, Step(p, s, "create"), Step(p, s, "save"))
             /\ Precedes(t, Step(p, s, "remove"), Step(p, s, "clear"))
             /\ Precedes(t, Step(p, s, "remove"), Step(p, s, "undns"))
        BY DEF Prepared
    <2>3. RecordIn(d, a, t, p, s)
        BY <2>1, <2>2, NothingAhead DEF RecordIn
    <2>4. mode # "docker" => AppIn(a, r, t, p, s)
        BY <2>1, <2>2, NothingAhead DEF AppIn
    <2> QED
        BY <2>3, <2>4
<1> QED
    BY <1>1, <1>2, <1>3, <1>4, <1>5, <1>6 DEF TurnIn

\* What is done elsewhere; an application goes while a call waits for it.
LEMMA TurnStands ==
    ASSUME NEW p, NEW r, NEW x, NEW l, NEW m, NEW k, NEW g, NEW b, NEW c, NEW d, NEW e, NEW a, NEW f, NEW t,
           TurnIn(r, t, x, l, k, b, d, a, p),
           r.key \in g => r.key \in k, projectHostLabel(p) \in m <=> projectHostLabel(p) \in l,
           \A s \in Services : c[s] = b[s],
           \A s \in Services : HostOf(p, s) \in e <=> HostOf(p, s) \in d,
           \A s \in Routed :
              /\ NamedIn(f, p, s) \subseteq NamedIn(a, p, s)
              /\ \A v \in NamedIn(f, p, s) : /\ a[v].run # <<>> => f[v].run # <<>>
                                             /\ a[v].deleting => f[v].deleting
              /\ NamedIn(a, p, s) # {} /\ NamedIn(f, p, s) = {} =>
                    /\ Has(t, "undns", p, s) /\ (s # "auth" => Has(t, "clear", p, s))
                    /\ \A y : Precedes(t, y, Step(p, s, "save"))
    PROVE  TurnIn(r, t, x, m, g, c, e, f, p)
<1>1. /\ RowIn(r, t, p) /\ TenantIn(x, r, t, p)
      /\ \A s \in Services : Boxed(s) => BoxIn(c[s], r, t, p, s)
    BY DEF TurnIn
<1>2. StoreIn(m, g, r, t, p)
    BY DEF TurnIn, StoreIn
<1>3. SocketIn(e, r, t, p) /\ HostOf(p, "functions") \notin e
    BY DEF TurnIn, SocketIn, Services
<1>4. ASSUME NEW s \in Routed
      PROVE  /\ RecordIn(e, f, t, p, s)
             /\ mode # "docker" => AppIn(f, r, t, p, s)
    <2>1. /\ RecordIn(d, a, t, p, s)
          /\ mode # "docker" => AppIn(a, r, t, p, s)
          /\ HostOf(p, s) \in e <=> HostOf(p, s) \in d
        BY DEF TurnIn, Services
    <2>2. RecordIn(e, f, t, p, s)
        BY <2>1 DEF RecordIn
    <2>3. ASSUME AppIn(a, r, t, p, s)
          PROVE  AppIn(f, r, t, p, s)
        <3>1. NamedIn(f, p, s) # {} => NamedIn(a, p, s) # {}
            OBVIOUS
        <3>2. \A v \in NamedIn(f, p, s) : f[v].run # <<>> \/ Has(t, "deploy", p, s) \/ f[v].deleting
            BY <2>3 DEF AppIn
        <3> QED
            BY <2>3, <3>1, <3>2 DEF AppIn
    <2> QED
        BY <2>1, <2>2, <2>3
<1> QED
    BY <1>1, <1>2, <1>3, <1>4 DEF TurnIn

\* A request on a project leaves it in turn.
LEMMA HereTurns ==
    ASSUME SweepInv, TurnInv, LabelsDiffer, Requests, P \notin hurt'
    PROVE  TurnNext(P)
<1> DEFINE t == Call.todo
           u == caller'["call"].todo
           do == Now("call").do
           r == row[P]
           q == row'[P]
           l == projectHostLabel(P)
<1>1. /\ Courses /\ \A p \in Projects, s \in Routed : Fine(p, s)
      /\ TypeOK /\ Ordered /\ Informed /\ KeyUnderWay /\ RowsFilled /\ Held /\ InCourse(t) /\ InTurn(t)
    BY InvariantFine DEF Courses, ServicesInv, TurnInv
<1>2. /\ Busy("call") /\ P \in Projects /\ S \in Services /\ hurt \subseteq hurt' /\ mode' = mode
    BY <1>1, RequestFrame
<1>3. PICK n : Straight(n)
    BY <1>1, <1>2, RequestStraight
<1>4. Left(P)' = u
    <2>1. u # <<>> => P' = P
        BY <1>1, <1>3, Progresses DEF Straight
    <2> QED
        BY <2>1 DEF Left, Busy, Call
<1>5. /\ Onward(t, u, P, S, do)
      /\ n = 1 => (do = "bucket" => Has(u, "store", P, "storage"))
    BY <1>1, <1>2, <1>3, GoesOnward
<1>6. RowGoes(r, q, S, do)
    BY <1>1, RowGone
<1>7. TurnIn(r, t, tenant[l], bucket, keys, box[P], record, app, P)
    <2>1. Turn(P) /\ Left(P) = t
        BY <1>2 DEF TurnInv, Left
    <2> QED
        BY <2>1 DEF Turn
<1> HIDE DEF t, u, do, r, q, l
<1>8. RowIn(r, t, P) /\ RowIn(q, u, P)
    BY <1>5, <1>6, <1>7, RowMoves DEF TurnIn
<1>9. TenantIn(tenant'[l], q, u, P)
    <2>1. /\ do = "register" => tenant'[l] = r.secret
          /\ do = "deregister" => tenant'[l] = None
          /\ do \notin {"register", "deregister"} => tenant'[l] = tenant[l]
        BY <1>1, <1>2, TenantsGo DEF do, r, l
    <2> QED
        BY <1>5, <1>6, <1>7, <1>8, <2>1, TenantMoves DEF TurnIn
<1>10. StoreIn(bucket', keys', q, u, P)
    <2>1. /\ do \notin {"bucket", "removeBucket"} => (l \in bucket' <=> l \in bucket)
          /\ do = "bucket" /\ bucket' # bucket => r.key = None
          /\ do = "bucket" /\ r.key = None => Straight(1)
          /\ do = "removeBucket" => (r.key # None => l \notin bucket') /\ (r.key = None => bucket' = bucket)
          /\ do = "removeKey" => keys' = keys \ {r.key} /\ row' = row
          /\ do \notin {"mint", "removeKey"} => keys' = keys
          /\ None \notin keys'
        BY <1>1, <1>2, StoresGo DEF do, r, l
    <2>2. do = "bucket" /\ r.key = None => Has(u, "store", P, "storage")
        BY <1>1, <1>2, <2>1, GoesOnward DEF t, u, do
    <2>3. do = "bucket" => ((l \in bucket' <=> l \in bucket) /\ r.key # None) \/ Has(u, "store", P, "storage")
        BY <2>1, <2>2
    <2>4. do \in {"removeKey", "forget"} => q.key \notin keys'
        <3>1. do = "forget" => q.key = None
            BY <1>6 DEF RowGoes, NoRow
        <3>2. do = "removeKey" => q = r
            BY <2>1 DEF q, r
        <3> QED
            BY <2>1, <3>1, <3>2
    <2>5. do \notin On => (q.key \in keys' => r.key \in keys)
        <3>1. do \notin On => do # "mint" /\ do # "store"
            BY Sides
        <3>2. do # "forget" /\ do \notin On => q.key = r.key
            BY <1>6, <3>1 DEF RowGoes
        <3> QED
            BY <2>1, <2>4, <3>1, <3>2
    <2>6. /\ do = "removeBucket" => (r.key # None => l \notin bucket')
                                    /\ (r.key = None => (l \in bucket' <=> l \in bucket))
        BY <2>1
    <2>7. StoreIn(bucket, keys, r, t, P)
        BY <1>7 DEF TurnIn
    <2>8. /\ do \in {"removeKey", "forget"} => ~(q.key \in keys')
          /\ do = "removeBucket" => (r.key # None => ~(l \in bucket'))
                                    /\ (r.key = None => (l \in bucket' <=> l \in bucket))
        BY <2>4, <2>6
    <2> QED
        BY <1>5, <1>6, <2>1, <2>3, <2>5, <2>7, <2>8, StoreMoves DEF l
<1>11. ASSUME NEW s \in Services, Boxed(s)
       PROVE  BoxIn(box'[P][s], q, u, P, s)
    <2>1. \/ s = S /\ do = "container" /\ box'[P][s] # NoBox
          \/ s = S /\ do = "removeContainer" /\ box'[P][s] = NoBox
          \/ (s # S \/ do \notin {"container", "removeContainer"}) /\ box'[P][s] = box[P][s]
        BY <1>1, <1>2, BoxesGo DEF do
    <2>2. BoxIn(box[P][s], r, t, P, s)
        BY <1>7, <1>11 DEF TurnIn
    <2> QED
        BY <1>5, <1>6, <1>8, <2>1, <2>2, BoxMoves
<1>12. \A s : LET h == HostOf(P, s) IN
              /\ s # S \/ do \notin {"dns", "realtimeDns", "undns"} => (h \in record' <=> h \in record)
              /\ s = S /\ do = "undns" => h \notin record'
              /\ s = S /\ do \in {"dns", "realtimeDns"} => h \in record' \/ mode # "legacy"
    BY <1>1, <1>2, RecordsGo DEF do
<1>13. /\ do = "dns" => S \in Routed
       /\ do = "realtimeDns" => S = "realtime"
    BY <1>5 DEF Onward
<1>14. /\ SocketIn(record', q, u, P)
       /\ HostOf(P, "functions") \notin record'
    <2>1. /\ S = "realtime" /\ do = "undns" => ~(HostOf(P, "realtime") \in record')
          /\ do # "realtimeDns" /\ (S # "realtime" \/ do \notin {"dns", "undns"}) =>
                (HostOf(P, "realtime") \in record' <=> HostOf(P, "realtime") \in record)
        BY <1>12, <1>13
    <2>2. SocketIn(record, r, t, P) /\ HostOf(P, "functions") \notin record
        BY <1>7 DEF TurnIn
    <2>3. SocketIn(record', q, u, P)
        BY <1>5, <1>6, <1>8, <2>1, <2>2, SocketMoves
    <2>4. HostOf(P, "functions") \notin record'
        <3>1. "functions" \notin Routed
            BY DEF Routed
        <3> QED
            BY <1>12, <1>13, <2>2, <3>1
    <2> QED
        BY <2>3, <2>4
<1>15. ASSUME NEW s \in Routed
       PROVE  /\ RecordIn(record', app', u, P, s)
              /\ mode # "docker" => AppIn(app', q, u, P, s)
    <2>1. \/ s = S /\ do = "create" /\ NamedIn(app', P, s) # {}
          \/ /\ s = S /\ do = "deploy" /\ (NamedIn(app, P, s) = {} <=> NamedIn(app', P, s) = {})
             /\ \A v \in NamedIn(app', P, s) : app'[v].run # <<>>
          \/ s = S /\ do \in {"remove", "gone"} /\ NamedIn(app, P, s) = {} /\ NamedIn(app', P, s) = {}
          \/ /\ s = S /\ do = "remove" /\ Heads(u, Step(P, s, "gone"))
             /\ NamedIn(app, P, s) # {} /\ NamedIn(app', P, s) # {}
             /\ \A v \in NamedIn(app', P, s) : app'[v].deleting
          \/ do = "forget" /\ NamedIn(app, P, s) = {} /\ NamedIn(app', P, s) = {}
          \/ /\ s # S \/ do \notin {"create", "deploy", "remove", "gone", "forget"}
             /\ do # "forget"
             /\ NamedIn(app', P, s) = NamedIn(app, P, s)
             /\ \A v \in NamedIn(app, P, s) : /\ app[v].run # <<>> => app'[v].run # <<>>
                                              /\ app[v].deleting => app'[v].deleting
        BY <1>1, AppsGo DEF do, u, t
    <2>2. /\ RecordIn(record, app, t, P, s)
          /\ mode # "docker" => AppIn(app, r, t, P, s)
        BY <1>7 DEF TurnIn
    <2>3. mode # "docker" => AppIn(app', q, u, P, s)
        BY <1>5, <1>6, <2>1, <2>2, AppMoves
    <2>4. RecordIn(record', app', u, P, s)
        <3>1. /\ s = S /\ do = "create" => NamedIn(app', P, s) # {}
              /\ s # S \/ do # "create" =>
                    (NamedIn(app', P, s) = {} <=> NamedIn(app, P, s) = {})
            BY <2>1
        <3>2. /\ s = S /\ do = "dns" => HostOf(P, s) \in record' \/ mode # "legacy"
              /\ s # S \/ do \notin {"dns", "undns"} => (HostOf(P, s) \in record' <=> HostOf(P, s) \in record)
            <4>1. "realtime" \notin Routed
                BY DEF Routed
            <4> QED
                BY <1>12, <1>13, <4>1
        <3>3. s = S /\ do = "undns" => /\ HostOf(P, s) \notin record'
                                       /\ mode = "legacy" => NamedIn(app', P, s) = {}
            <4>1. s = S /\ do = "undns" => ~Heads(t, Step(P, s, "gone")) /\ ~Precedes(t, Step(P, s, "remove"), Step(P, s, "undns"))
                BY <1>5 DEF Onward
            <4>2. s = S /\ do = "undns" /\ mode = "legacy" => NamedIn(app, P, s) = {}
                BY <2>2, <4>1 DEF AppIn
            <4> QED
                BY <1>12, <2>1, <4>2
        <3> QED
            BY <1>5, <2>2, <3>1, <3>2, <3>3, RecordMoves
    <2> QED
        BY <2>3, <2>4
<1>16. TurnIn(q, u, tenant'[l], bucket', keys', box'[P], record', app', P)
    BY <1>8, <1>9, <1>10, <1>11, <1>14, <1>15 DEF TurnIn
<1> QED
    BY <1>4, <1>16 DEF TurnNext, u, q, l

\* A request leaves the other projects in turn.
LEMMA AwayTurns ==
    ASSUME SweepInv, TurnInv, LabelsDiffer, Requests, NEW p \in Projects \ hurt', p # P
    PROVE  TurnNext(p)
<1> DEFINE r == row[p]
           l == projectHostLabel(p)
<1>1. Courses /\ TypeOK /\ Ordered /\ Informed /\ Held
    BY InvariantFine DEF Courses, ServicesInv
<1>2. Busy("call") /\ hurt \subseteq hurt' /\ p \in Projects /\ row'[p] = r
    BY <1>1, RequestFrame
<1>3. Left(p) = <<>> /\ Left(p)' = <<>>
    <2>1. PICK n : Progress(n)
        BY <1>1, RequestFrame
    <2>2. caller'["call"].todo # <<>> => P' = P
        BY <1>1, <2>1, Progresses
    <2> QED
        BY <2>2 DEF Left, Busy
<1>4. TurnIn(r, <<>>, tenant[l], bucket, keys, box[p], record, app, p)
    <2>1. Turn(p)
        BY <1>2 DEF TurnInv
    <2> QED
        BY <1>3, <2>1 DEF Turn
<1>5. r.key \in keys' => r.key \in keys
    <2>1. r.key \in 0 .. minted /\ minted \in Nat
        <3>1. row \in [Projects -> [there: BOOLEAN, secret: Secrets, key: 0 .. minted, url: SUBSET Services]]
            BY <1>1 DEF TypeOK
        <3> QED
            BY <1>1, <1>2, <3>1, CallTyped
    <2>2. keys' \subseteq keys \cup {minted + 1}
        BY <1>1, <1>2, StoresGo
    <2> QED
        BY <2>1, <2>2
<1>6. /\ l \in bucket' <=> l \in bucket
      /\ tenant'[l] = tenant[l]
      /\ \A s \in Services : box'[p][s] = box[p][s]
      /\ \A s : HostOf(p, s) \in record' <=> HostOf(p, s) \in record
    BY <1>1, <1>2, StoresGo, TenantsGo, BoxesGo, RecordsGo
<1>7. ASSUME NEW s \in Routed
      PROVE  /\ NamedIn(app', p, s) = NamedIn(app, p, s)
             /\ \A v \in NamedIn(app', p, s) : app'[v] = app[v]
    BY <1>1, <1>2, RequestFrame DEF NamedIn
<1> HIDE DEF r, l
<1>8. TurnIn(r, <<>>, tenant[l], bucket', keys', box'[p], record', app', p)
    BY <1>4, <1>5, <1>6, <1>7, TurnStands DEF l
<1> QED
    BY <1>2, <1>3, <1>6, <1>8 DEF TurnNext, r, l

\* The steps of a program are on its project.
LEMMA ProgramsStay ==
    ASSUME NEW p \in Projects, NEW t \in {provisionProject(p)} \cup Programs(p), NEW i \in DOMAIN t
    PROVE  t[i].p = p
<1>1. CASE t \in {provisionAuth(p), provisionRest(p), provisionStorageApi(p), provisionRealtime(p),
                  provisionFunctions(p)}
    BY <1>1 DEF provisionAuth, provisionRest, provisionStorageApi, provisionRealtime, provisionFunctions, Steps
<1>2. CASE t \notin {provisionAuth(p), provisionRest(p), provisionStorageApi(p), provisionRealtime(p),
                     provisionFunctions(p)}
    <2>1. t \in {provisionProject(p), destroyProject(p), destroyAuth(p), destroyRest(p),
                 destroyStorageApi(p), destroyRealtime(p), destroyFunctions(p)}
        BY <1>2, ServicesAssumption DEF Programs, Services, Routed
    <2> QED
        BY <2>1, ProgramsTakeOff DEF TakesOff
<1> QED
    BY <1>1, <1>2

\* What is not a request of a call leaves all but the applications as it is.
LEMMA QuietStands ==
    ASSUME TypeOK, Quietly
    PROVE  /\ UNCHANGED <<row, bucket, keys, box, tenant, record, mode>> /\ hurt \subseteq hurt'
           /\ \/ app' = app /\ orphans' = orphans
              \/ updateAppDomains \/ Redeploy \/ \E u \in Uuids : AppListed(u) \/ AppGone(u)
<1>1. UNCHANGED <<row, bucket, keys, box, mode>>
    BY Quiet
<1> USE DEF outside, modes, counts, ghosts, Framed, AppFrame
<1>2. CASE UNCHANGED vars \/ Begin \/ BeginSweep \/ Upgrade \/ Swallows
    BY <1>1, <1>2 DEF vars, Begin, BeginSweep, Upgrade, Swallows
<1>3. ASSUME NEW h, Abandon(h) PROVE UNCHANGED <<tenant, record, app, orphans>> /\ hurt \subseteq hurt'
    BY <1>3 DEF Abandon
<1>4. CASE (\E h \in Callers : Dies(h)) \/ Throws("call")
    BY <1>1, <1>3, <1>4 DEF Dies, Throws
<1>5. CASE \E u \in Uuids : AppListed(u) \/ AppGone(u)
    <2>1. UNCHANGED <<tenant, record, hurt>>
        BY <1>5 DEF AppListed, AppGone
    <2> QED
        BY <1>1, <1>5, <2>1
<1>6. CASE Look \/ updateAppDomains \/ Redeploy
    <2>1. CASE Throws("sweep")
        BY <1>1, <1>3, <2>1 DEF Throws
    <2>2. CASE ~Throws("sweep")
        <3>1. UNCHANGED <<tenant, record, hurt>> /\ (Look => UNCHANGED <<app, orphans>>)
            BY <1>6, <2>2 DEF Look, updateAppDomains, Redeploy
        <3> QED
            BY <1>1, <1>6, <3>1
    <2> QED
        BY <2>1, <2>2
<1> QED
    BY <1>2, <1>4, <1>5, <1>6 DEF Quietly

\* Nor does it take a step of a call on another project, unless it begins one.
LEMMA QuietLeft ==
    ASSUME TypeOK, Ordered, Quietly, ~Begin, NEW p \in Projects \ hurt'
    PROVE  Left(p)' = Left(p) /\ (caller'["call"].todo = Call.todo \/ caller'["call"].todo = <<>> \/ \E n : Progress(n))
<1>0. caller \in [Callers -> Locals(minted)]
    BY Typed DEF CallerTyped
<1>1. ASSUME caller'["call"] = caller["call"]
      PROVE  Left(p)' = Left(p)
    BY <1>1 DEF Left, Busy, P, Now, Call
<1>2. CASE Upgrade
    <2>1. ~Busy("call") /\ caller'["call"].todo = <<>>
        BY <1>2, ValuesTyped DEF Upgrade
    <2> QED
        BY <2>1 DEF Left, Busy
<1>3. ASSUME Busy("call"), Abandon("call")
      PROVE  Left(p)' = Left(p) /\ caller'["call"].todo = <<>>
    <2>1. P \in hurt' /\ caller'["call"].todo = <<>>
        BY <1>0, <1>3, ValuesTyped DEF Abandon, P, Callers
    <2> QED
        BY <2>1 DEF Left, Busy
<1>4. CASE Swallows
    <2>1. Busy("call") /\ P \in hurt'
        BY <1>4 DEF Swallows, P
    <2>2. \/ caller'["call"] = caller["call"] \/ caller'["call"].todo = <<>> \/ \E n : Progress(n)
        BY <1>4, <2>1, Quiet DEF Quietly, Begins
    <2>3. caller'["call"].todo # <<>> /\ caller'["call"] # caller["call"] => P' = P
        BY <2>2, Progresses
    <2> QED
        BY <1>1, <2>1, <2>2, <2>3 DEF Left, Busy, Call
<1>5. ASSUME Abandon("sweep")
      PROVE  caller'["call"] = caller["call"]
    BY <1>0, <1>5 DEF Abandon, Callers
<1>6. CASE \/ UNCHANGED vars \/ BeginSweep \/ \E u \in Uuids : AppListed(u) \/ AppGone(u)
           \/ (Look /\ ~Throws("sweep")) \/ (updateAppDomains /\ ~Throws("sweep")) \/ (Redeploy /\ ~Throws("sweep"))
    <2>1. caller'["call"] = caller["call"]
        BY <1>0, <1>6 DEF vars, BeginSweep, AppListed, AppGone, Look, updateAppDomains, Redeploy, Resumes,
           Proceeds, Callers
    <2> QED
        BY <1>1, <2>1 DEF Call
<1> QED
    BY <1>1, <1>2, <1>3, <1>4, <1>5, <1>6 DEF Quietly, Dies, Throws, Callers, Call, Busy, Upgrade

\* An application that goes while no request is made is waited for.
LEMMA AppsQuiet ==
    ASSUME Courses, InTurn(Call.todo), \A p \in Projects, s \in Routed : Fine(p, s), Quietly,
           NEW p \in Projects \ hurt, NEW s \in Routed
    PROVE  /\ NamedIn(app', p, s) \subseteq NamedIn(app, p, s)
           /\ \A v \in NamedIn(app', p, s) : /\ app[v].run # <<>> => app'[v].run # <<>>
                                             /\ app[v].deleting => app'[v].deleting
           /\ NamedIn(app, p, s) # {} /\ NamedIn(app', p, s) = {} =>
                 /\ Has(Left(p), "undns", p, s) /\ (s # "auth" => Has(Left(p), "clear", p, s))
                 /\ \A y : Precedes(Left(p), y, Step(p, s, "save"))
<1> DEFINE N == NamedIn(app, p, s)
           t == Call.todo
<1>1. TypeOK /\ Ordered /\ InCourse(t) /\ app \in [Uuids -> Apps]
    BY Typed DEF AppTyped, Apps, Courses, ServicesInv
<1>2. <<p, s>> # <<>> /\ NoApp.of = <<>>
    BY DEF NoApp
<1>3. ASSUME NEW u \in N, app[u].deleting
      PROVE  /\ Has(Left(p), "undns", p, s) /\ (s # "auth" => Has(Left(p), "clear", p, s))
             /\ \A y : Precedes(Left(p), y, Step(p, s, "save"))
    <2>1. GoesIn(caller["call"], p, s)
        BY <1>3 DEF Fine, FineIn, SoleIn
    <2>2. Busy("call") /\ P = p /\ S = s /\ Now("call").do = "gone"
        BY <2>1 DEF GoesIn, DoesIn, Busy, P, S, Now
    <2>3. Left(p) = t
        BY <2>2 DEF Left
    <2>4. 1 \in DOMAIN t /\ t[1] = Now("call")
        BY <1>1, <2>2, NextStep DEF Callers, Call
    <2>5. t[1].do = "gone" /\ t[1].p = p /\ t[1].s = s
        BY <2>2, <2>4 DEF P, S
    <2>6. Later(t, 1, 1, Step(p, s, "undns")) /\ (s # "auth" => Later(t, 1, 2, Step(p, s, "clear")))
        BY <2>4, <2>5 DEF InTurn
    <2>7. ~Has(t, "save", p, s)
        BY <1>1, <2>2, HeadSteps DEF On, Off
    <2> QED
        BY <2>3, <2>6, <2>7, LaterHas, NoneToPrecede
<1>4. CASE app' = app
    BY <1>4
<1>5. ASSUME NEW u \in Uuids, app' = [app EXCEPT ![u] = app'[u]], app'[u].of = app[u].of,
             app[u].run # <<>> => app'[u].run # <<>>, app[u].deleting => app'[u].deleting
      PROVE  /\ NamedIn(app', p, s) = N
             /\ \A v \in N : /\ app[v].run # <<>> => app'[v].run # <<>>
                             /\ app[v].deleting => app'[v].deleting
    BY <1>1, <1>5 DEF NamedIn
<1>6. ASSUME NEW u \in Uuids, AppListed(u)
      PROVE  NamedIn(app', p, s) = N /\ \A v \in N : app'[v].run = app[v].run /\ app'[v].deleting = app[v].deleting
    BY <1>1, <1>6 DEF AppListed, NamedIn, Apps
<1>7. ASSUME NEW u \in Uuids, AppGone(u)
      PROVE  /\ app[u].deleting /\ NamedIn(app', p, s) = N \ {u}
             /\ \A v \in N \ {u} : app'[v] = app[v]
    BY <1>1, <1>2, <1>7 DEF AppGone, NamedIn, Apps
<1>8. CASE (updateAppDomains \/ Redeploy) /\ app' # app
    <2>1. /\ Takes(Sweep.app) /\ Sweep.app \in Uuids
          /\ \/ Sets(Sweep.app, [app[Sweep.app] EXCEPT !.shape = shape]) \/ Sets(Sweep.app, Deployed(app[Sweep.app]))
        BY <1>8 DEF updateAppDomains, Redeploy, Throws, Abandon, outside, Takes
    <2>2. NamedIn(app', p, s) = N /\ \A v \in N : /\ app[v].run # <<>> => app'[v].run # <<>>
                                                  /\ app'[v].deleting = app[v].deleting
        BY <1>1, <2>1 DEF Sets, Deployed, NamedIn, Apps
    <2> QED
        BY <2>2
<1>9. \/ app' = app \/ updateAppDomains \/ Redeploy \/ \E u \in Uuids : AppListed(u) \/ AppGone(u)
    BY <1>1, QuietStands
<1>10. ASSUME NEW u \in Uuids, AppGone(u), N # {}, NamedIn(app', p, s) = {}
       PROVE  u \in N /\ app[u].deleting
    BY <1>7, <1>10
<1>11. CASE \E u \in Uuids : AppListed(u)
    BY <1>6, <1>11
<1>12. CASE \E u \in Uuids : AppGone(u)
    BY <1>3, <1>7, <1>10, <1>12
<1> QED
    BY <1>4, <1>8, <1>9, <1>11, <1>12

\* What is not a request leaves the projects in turn.
LEMMA QuietTurns ==
    ASSUME SweepInv, TurnInv, Quietly, NEW p \in Projects \ hurt'
    PROVE  TurnNext(p)
<1> DEFINE r == row[p]
           l == projectHostLabel(p)
<1>1. Courses /\ (\A q \in Projects, s \in Routed : Fine(q, s)) /\ TypeOK /\ Ordered /\ InTurn(Call.todo)
    BY InvariantFine DEF Courses, ServicesInv, TurnInv
<1>2. UNCHANGED <<row, bucket, keys, box, tenant, record, mode>> /\ p \in Projects \ hurt
    BY <1>1, QuietStands
<1>3. TurnIn(r, Left(p), tenant[l], bucket, keys, box[p], record, app, p)
    BY <1>2 DEF TurnInv, Turn
<1> HIDE DEF r, l
<1>4. TurnIn(r, Left(p), tenant[l], bucket, keys, box[p], record, app', p)
    <2>1. \A s \in Routed :
              /\ NamedIn(app', p, s) \subseteq NamedIn(app, p, s)
              /\ \A v \in NamedIn(app', p, s) : /\ app[v].run # <<>> => app'[v].run # <<>>
                                                /\ app[v].deleting => app'[v].deleting
              /\ NamedIn(app, p, s) # {} /\ NamedIn(app', p, s) = {} =>
                    /\ Has(Left(p), "undns", p, s) /\ (s # "auth" => Has(Left(p), "clear", p, s))
                    /\ \A y : Precedes(Left(p), y, Step(p, s, "save"))
        BY <1>1, <1>2, AppsQuiet
    <2> QED
        BY <1>3, <2>1, TurnStands
<1>5. TurnIn(r, Left(p)', tenant[l], bucket, keys, box[p], record, app', p)
    <2>1. CASE ~Begin
        BY <1>1, <1>4, <2>1, QuietLeft
    <2>2. CASE Begin
        <3>1. PICK q \in Projects : \E t \in {provisionProject(q)} \cup Programs(q) : Resumes("call", Idle, t)
            BY <2>2 DEF Begin
        <3>2. PICK t \in {provisionProject(q)} \cup Programs(q) : Resumes("call", Idle, t)
            BY <3>1
        <3>3. SetsOut(t) /\ Prepared(t, q)
            BY BeginsInCourse, BeginsInTurn
        <3>4. caller'["call"].todo = t
            BY <1>1, <3>2, <3>3, Typed, ValuesTyped, Bounds, Resumed
            DEF CallerTyped, Callers, CountsTyped, Keys, SetsOut
        <3>5. Left(p) = <<>>
            BY <2>2 DEF Begin, Left
        <3>6. t # <<>> => P' = q
            <4>1. t # <<>> => 1 \in DOMAIN t /\ Head(t) = t[1]
                BY <3>3 DEF SetsOut
            <4> QED
                BY <3>4, <4>1, ProgramsStay DEF P, Now
        <3>7. Left(p)' = IF p = q THEN t ELSE <<>>
            BY <3>4, <3>6 DEF Left, Busy, Call
        <3> QED
            BY <1>4, <3>3, <3>5, <3>7, TurnBegins
    <2> QED
        BY <2>1, <2>2
<1> QED
    BY <1>2, <1>5 DEF TurnNext, r, l

\* What is not a request leaves the call to do what it had to, or hurts its project.
LEMMA QuietCall ==
    ASSUME TypeOK, Quietly
    PROVE  \/ caller'["call"] = caller["call"]
           \/ ~Busy("call") /\ (Begin \/ caller'["call"].todo = <<>>)
           \/ Busy("call") /\ P \in hurt'
<1>0. caller \in [Callers -> Locals(minted)]
    BY Typed DEF CallerTyped
<1>1. CASE Upgrade
    BY <1>1, ValuesTyped DEF Upgrade
<1>2. CASE (Busy("call") /\ Abandon("call")) \/ Swallows
    <2>1. Busy("call")
        BY <1>2 DEF Swallows
    <2>2. P \in hurt'
        BY <1>2 DEF Swallows, Abandon, P
    <2> QED
        BY <2>1, <2>2
<1>3. CASE Abandon("sweep")
    BY <1>0, <1>3 DEF Abandon, Callers
<1>4. CASE \/ UNCHANGED vars \/ BeginSweep \/ \E u \in Uuids : AppListed(u) \/ AppGone(u)
           \/ (Look /\ ~Throws("sweep")) \/ (updateAppDomains /\ ~Throws("sweep")) \/ (Redeploy /\ ~Throws("sweep"))
    BY <1>0, <1>4 DEF vars, BeginSweep, AppListed, AppGone, Look, updateAppDomains, Redeploy, Resumes,
       Proceeds, Callers
<1>5. CASE Begin
    BY <1>5 DEF Begin
<1> QED
    BY <1>1, <1>2, <1>3, <1>4, <1>5 DEF Quietly, Dies, Throws, Callers

\* The request that a step of the store's program is.
LEMMA StoreRequests ==
    ASSUME TypeOK, Requests
    PROVE  LET do == Now("call").do IN
           /\ do = "mint" => MintKey
           /\ do = "allow" => AllowKey
           /\ do = "store" => StoreKey
BY DEF Requests, Plainly, Specially, RegisterProject, AllowKey, Save, Clear, RemoveKey,
   RemoveBucket, findAppByName, createDockerImageApp, AwaitListed, setEnv, deployApp, destroyApp,
   waitAppGone, ensureHostDns, destroyHostDns, RegisterTenant, DeregisterTenant, RunContainer,
   RemoveContainer, prepareAuth, ReadSecret, CreateBucket, MintKey, StoreKey, Forget, Does

\* A key comes from the store to its row.
LEMMA KeyComes ==
    ASSUME SweepInv, TypeOK, InTurn(Call.todo), Requests, P \notin hurt'
    PROVE  LET do == Now("call").do IN
           /\ do = "mint" => /\ row' = row /\ keys' = keys \cup {minted + 1}
                             /\ Does("call", "allow")' /\ (Call.key)' = minted + 1
           /\ do = "allow" => row' = row /\ keys' = keys /\ Does("call", "store")' /\ (Call.key)' = Call.key
           /\ do = "store" => /\ row' = IF row[P].there THEN [row EXCEPT ![P].key = Call.key] ELSE row
                              /\ keys' = keys /\ Does("call", "read")' /\ (Call.key)' = Call.key
                              /\ P' = P /\ S' = "storage"
<1> DEFINE t == Call.todo
           u == caller'["call"].todo
           do == Now("call").do
<1>1. /\ Courses /\ (\A p \in Projects, s \in Routed : Fine(p, s)) /\ Ordered /\ InCourse(t)
    BY InvariantFine DEF Courses, ServicesInv
<1>2. Busy("call") /\ P \in Projects /\ S \in Services /\ Held
    BY <1>1, RequestFrame DEF Courses, ServicesInv
<1>3. PICK n : Straight(n)
    BY <1>1, <1>2, RequestStraight
<1>4. /\ do \in {"mint", "allow", "store"} => n = 1 /\ S = "storage"
      /\ do = "mint" /\ n = 1 => Heads(u, Step(P, S, "allow"))
      /\ do = "allow" /\ n = 1 => Heads(u, Step(P, S, "store"))
      /\ do = "store" /\ n = 1 => Heads(u, Step(P, S, "read"))
    BY <1>1, <1>2, <1>3, GoesOnward
<1>5. ASSUME NEW a, Heads(u, a)
      PROVE  Busy("call")' /\ Now("call")' = a /\ P' = a.p /\ S' = a.s
    <2>1. u # <<>> /\ u[1] = a /\ 1 \in DOMAIN u
        BY <1>5 DEF Heads
    <2>2. Now("call")' = t[n + 1] /\ u[1] = t[n + 1]
        <3>1. Progress(n)
            BY <1>3 DEF Straight
        <3>2. n \in Nat \ {0}
            BY <3>1 DEF Progress
        <3> QED
            BY <1>1, <2>1, <3>1, <3>2, Progresses
    <2> QED
        BY <2>1, <2>2 DEF Busy, P, S
<1>6. /\ do = "mint" => MintKey
      /\ do = "allow" => AllowKey
      /\ do = "store" => StoreKey
    BY StoreRequests
<1>7. ASSUME NEW c \in Locals(minted), Proceeds("call", c), u # <<>>
      PROVE  (Call.key)' = c.key
    BY <1>2, <1>7, CallResumes DEF Proceeds, Call
<1>8. Call \in Locals(minted) /\ minted \in Nat
    BY <1>2, CallTyped
<1>9. CASE do = "mint"
    <2>1. /\ Heads(u, Step(P, S, "allow")) /\ u # <<>>
        BY <1>4, <1>9 DEF Heads
    <2>2. Does("call", "allow")'
        BY <1>5, <2>1 DEF Does, Step
    <2>3. row' = row /\ keys' = keys \cup {minted + 1} /\ minted' = minted + 1
          /\ Proceeds("call", [Call EXCEPT !.key = minted']) /\ minted < MaxKey
        BY <1>6, <1>9 DEF MintKey
    <2>4. (Call.key)' = minted + 1
        <3>1. caller' = [caller EXCEPT !["call"] = [[Call EXCEPT !.key = minted'] EXCEPT !.todo = Skip("call", 1)]]
            <4>1. u = Skip("call", 1)
                BY <1>3, <1>4, <1>9 DEF Straight, Progress
            <4> QED
                BY <2>1, <2>3, <4>1 DEF Proceeds, Resumes
        <3>2. caller \in [Callers -> Locals(minted)] /\ "call" \in Callers
            BY Typed DEF CallerTyped, Callers
        <3> QED
            BY <1>8, <2>3, <3>1, <3>2 DEF Call, Locals
    <2> QED
        BY <1>9, <2>2, <2>3, <2>4
<1>10. CASE do = "allow"
    <2>1. /\ Heads(u, Step(P, S, "store")) /\ u # <<>>
        BY <1>4, <1>10 DEF Heads
    <2>2. Does("call", "store")'
        BY <1>5, <2>1 DEF Does, Step
    <2>3. row' = row /\ keys' = keys /\ Proceeds("call", Call)
        BY <1>6, <1>10 DEF AllowKey
    <2> QED
        BY <1>7, <1>8, <1>10, <2>1, <2>2, <2>3
<1>11. CASE do = "store"
    <2>1. /\ Heads(u, Step(P, S, "read")) /\ u # <<>> /\ S = "storage"
        BY <1>4, <1>11 DEF Heads
    <2>2. Does("call", "read")' /\ P' = P /\ S' = "storage"
        BY <1>5, <2>1 DEF Does, Step
    <2>3. /\ row' = IF row[P].there THEN [row EXCEPT ![P].key = Call.key] ELSE row
          /\ keys' = keys /\ Proceeds("call", Call)
        BY <1>6, <1>11 DEF StoreKey, outside
    <2> QED
        BY <1>7, <1>8, <1>11, <2>1, <2>2, <2>3
<1> QED
    BY <1>9, <1>10, <1>11

\* What is left of the call stays in turn.
LEMMA LeftStep ==
    ASSUME SweepInv, [Next]_vars, InTurn(Call.todo)
    PROVE  InTurn(Call.todo)'
<1> DEFINE u == caller'["call"].todo
<1>1. /\ Courses /\ (\A p \in Projects, s \in Routed : Fine(p, s))
      /\ TypeOK /\ Ordered /\ Held /\ InCourse(Call.todo) /\ InTurn(<<>>)
    BY InvariantFine DEF Courses, ServicesInv, InTurn
<1> SUFFICES InTurn(u)
    BY DEF InTurn, Call
<1>5. ASSUME NEW n, Progress(n) PROVE InTurn(u)
    <2>1. Call.todo \in Seq(StepRecords) /\ n \in Nat \ {0} /\ u = SubSeq(Call.todo, n + 1, Len(Call.todo))
        BY <1>1, <1>5, CallTyped DEF Progress, Skip, Call, Locals
    <2> QED
        BY <2>1, LeftInTurn
<1>2. CASE Requests
    <2>1. PICK n : Progress(n)
        BY <1>1, <1>2, RequestFrame
    <2> QED
        BY <2>1, <1>5
<1>3. CASE Quietly /\ Begin
    <2>1. PICK q \in Projects : \E t \in {provisionProject(q)} \cup Programs(q) : Resumes("call", Idle, t)
        BY <1>3 DEF Begin
    <2>2. PICK t \in {provisionProject(q)} \cup Programs(q) : Resumes("call", Idle, t)
        BY <2>1
    <2>3. SetsOut(t) /\ InTurn(t)
        BY BeginsInCourse, BeginsInTurn
    <2>4. u = t
        BY <1>1, <2>2, <2>3, Typed, ValuesTyped, Bounds, Resumed
        DEF CallerTyped, Callers, CountsTyped, Keys, SetsOut
    <2> QED
        BY <2>3, <2>4
<1>4. CASE Quietly /\ ~Begin
    <2>1. u = Call.todo \/ u = <<>> \/ \E n : Progress(n)
        BY <1>1, <1>4, Quiet, QuietCall DEF Call, Begins
    <2> QED
        BY <1>1, <1>5, <2>1
<1> QED
    BY <1>2, <1>3, <1>4, Kinds DEF Requests

\* A key of the store stays in a row, or on its way there, while no call fails.
LEMMA KeysStep ==
    ASSUME SweepInv, TurnInv, Requests, LabelsDiffer, hurt' = {}
    PROVE  KeysTurn'
<1> DEFINE do == Now("call").do
           way(k) == Call.key = k /\ (Does("call", "allow") \/ Does("call", "store")
                        \/ (Does("call", "read") /\ S = "storage" /\ ~row[P].there))
<1>1. /\ Courses /\ (\A p \in Projects, s \in Routed : Fine(p, s)) /\ InTurn(Call.todo)
      /\ TypeOK /\ Ordered /\ Informed /\ KeyUnderWay /\ RowsFilled /\ Held
    BY InvariantFine DEF Courses, ServicesInv, TurnInv
<1>2. /\ Busy("call") /\ P \in Projects /\ S \in Services /\ hurt = {} /\ P \notin hurt'
      /\ \A q \in Projects : q # P => row'[q] = row[q]
    BY <1>1, RequestFrame
<1>3. \A k \in keys : (\E q \in Projects : row[q].key = k) \/ way(k)
    BY <1>2 DEF TurnInv, KeysTurn
<1>4. RowGoes(row[P], row'[P], S, do)
    BY <1>1, RowGone
<1>5. /\ do = "mint" => /\ row' = row /\ keys' = keys \cup {minted + 1}
                        /\ Does("call", "allow")' /\ (Call.key)' = minted + 1
      /\ do = "allow" => row' = row /\ keys' = keys /\ Does("call", "store")' /\ (Call.key)' = Call.key
      /\ do = "store" => /\ row' = IF row[P].there THEN [row EXCEPT ![P].key = Call.key] ELSE row
                         /\ keys' = keys /\ Does("call", "read")' /\ (Call.key)' = Call.key
                         /\ P' = P /\ S' = "storage"
    BY <1>1, <1>2, KeyComes
<1>6. /\ do = "removeKey" => keys' = keys \ {row[P].key} /\ row' = row
      /\ do \notin {"mint", "removeKey"} => keys' = keys
      /\ None \notin keys'
    BY <1>1, <1>2, StoresGo
<1>7. \A k : way(k) => Call.key = k /\ (do \in {"allow", "store"} \/ (do = "read" /\ ~row[P].there))
    BY DEF Does
<1>8. row \in [Projects -> [there: BOOLEAN, secret: Secrets, key: 0 .. minted, url: SUBSET Services]]
    BY <1>1 DEF TypeOK
<1> HIDE DEF do, way
<1>9. SUFFICES ASSUME NEW k \in keys'
               PROVE  \/ \E q \in Projects : row'[q].key = k
                      \/ (Call.key)' = k /\ (Does("call", "allow")' \/ Does("call", "store")'
                            \/ (Does("call", "read")' /\ S' = "storage" /\ ~row'[P'].there))
    BY DEF KeysTurn
<1>10. CASE do = "mint"
    BY <1>3, <1>5, <1>7, <1>9, <1>10
<1>11. CASE do = "allow"
    BY <1>3, <1>5, <1>7, <1>9, <1>11
<1>12. CASE do = "store"
    <2>1. k \in keys /\ k # None
        BY <1>5, <1>6, <1>9, <1>12
    <2>2. row[P].key = None
        <3>1. KeyUnderWay /\ Busy("call") /\ Now("call").do \in {"mint", "allow", "store"}
            BY <1>1, <1>2, <1>12 DEF do
        <3> QED
            BY ONLY <3>1 DEF KeyUnderWay
    <2>3. CASE \E q \in Projects : row[q].key = k
        BY <1>2, <2>1, <2>2, <2>3
    <2>4. CASE way(k)
        <3>1. Call.key = k
            BY <1>7, <2>4
        <3>2. row[P].there => row'[P].key = k
            BY <1>2, <1>5, <1>8, <1>12, <3>1
        <3>3. ~row[P].there => row' = row
            BY <1>5, <1>12
        <3> QED
            BY <1>2, <1>5, <1>12, <3>1, <3>2, <3>3
    <2> QED
        BY <1>3, <2>1, <2>3, <2>4
<1>13. CASE do \notin {"mint", "allow", "store"}
    <2>1. k \in keys /\ ~way(k)
        BY <1>4, <1>6, <1>7, <1>9, <1>13 DEF RowGoes
    <2>2. PICK q \in Projects : row[q].key = k
        BY <1>3, <2>1
    <2>3. do = "forget" => row[P].key \notin keys
        <3> SUFFICES ASSUME do = "forget", row[P].key \in keys PROVE FALSE
            OBVIOUS
        <3>1. StoreIn(bucket, keys, row[P], Call.todo, P)
            BY <1>2 DEF TurnInv, Turn, TurnIn, Left
        <3>2. S = "auth" /\ ~Precedes(Call.todo, Step(P, "storage", "removeKey"), Step(P, S, do))
            BY <1>1, <1>2, HeadSteps DEF do, Courses
        <3> QED
            BY <3>1, <3>2 DEF StoreIn
    <2>4. CASE q = P
        <3>1. do # "forget"
            BY <2>1, <2>2, <2>3, <2>4
        <3> QED
            BY <1>4, <1>13, <2>2, <2>4, <3>1 DEF RowGoes
    <2> QED
        BY <1>2, <2>2, <2>4
<1> QED
    BY <1>10, <1>11, <1>12, <1>13

\* And while there is no request.
LEMMA KeysQuiet ==
    ASSUME TypeOK, KeysTurn, Quietly
    PROVE  KeysTurn'
<1>1. UNCHANGED <<row, keys>> /\ hurt \subseteq hurt'
    BY QuietStands
<1>2. SUFFICES ASSUME hurt' = {}, NEW k \in keys
               PROVE  \/ \E q \in Projects : row[q].key = k
                      \/ (Call.key)' = k /\ (Does("call", "allow")' \/ Does("call", "store")'
                            \/ (Does("call", "read")' /\ S' = "storage" /\ ~row[P'].there))
    BY <1>1 DEF KeysTurn
<1>3. \/ \E q \in Projects : row[q].key = k
      \/ Call.key = k /\ (Does("call", "allow") \/ Does("call", "store")
                            \/ (Does("call", "read") /\ S = "storage" /\ ~row[P].there))
    BY <1>1, <1>2 DEF KeysTurn
<1>4. CASE caller'["call"] = caller["call"]
    BY <1>3, <1>4 DEF Call, Does, Busy, Now, P, S
<1>5. CASE ~Busy("call")
    BY <1>3, <1>5 DEF Does
<1> QED
    BY <1>2, <1>4, <1>5, QuietCall

-----------------------------------------------------------------------------
(* 13. The theorems.                                                       *)

\* The invariant in the next state.
LEMMA TurnPrimed ==
    ASSUME mode' = mode, NEW p, TurnNext(p)
    PROVE  Turn(p)'
BY DEF Turn, TurnNext, TurnIn, RowIn, BoxIn, TenantIn, RecordIn, SocketIn, AppIn, StoreIn, Boxed, NamedIn,
   Precedes, Has, Heads, HostOf, Step

\* The invariant is kept by every step.
LEMMA TurnInvStep ==
    ASSUME SweepInv, TurnInv, LabelsDiffer, [Next]_vars
    PROVE  TurnInv'
<1>1. TypeOK /\ Ordered /\ Held /\ KeysTurn /\ InTurn(Call.todo)
    BY DEF SweepInv, ServicesInv, TurnInv
<1>2. InTurn(Call.todo)'
    BY <1>1, LeftStep
<1>3. CASE Quietly
    <2>1. mode' = mode
        BY <1>1, <1>3, QuietStands
    <2>2. KeysTurn'
        BY <1>1, <1>3, KeysQuiet
    <2>3. \A p \in Projects \ hurt' : Turn(p)'
        BY <1>3, <2>1, QuietTurns, TurnPrimed
    <2> QED
        BY <1>2, <2>2, <2>3 DEF TurnInv
<1>4. CASE Requests
    <2>1. mode' = mode
        BY <1>1, <1>4, RequestFrame
    <2>2. KeysTurn'
        <3>1. CASE hurt' = {}
            BY <1>4, <3>1, KeysStep
        <3>2. CASE hurt' # {}
            BY <3>2 DEF KeysTurn
        <3> QED
            BY <3>1, <3>2
    <2>3. ASSUME NEW p \in Projects \ hurt' PROVE TurnNext(p)
        <3>1. CASE p = P
            BY <1>4, <3>1, HereTurns
        <3>2. CASE p # P
            BY <1>4, <3>2, AwayTurns
        <3> QED
            BY <3>1, <3>2
    <2>4. \A p \in Projects \ hurt' : Turn(p)'
        BY <2>1, <2>3, TurnPrimed
    <2> QED
        BY <1>2, <2>2, <2>4 DEF TurnInv
<1> QED
    BY <1>3, <1>4, Kinds DEF Requests

\* The invariant holds initially.
LEMMA InitTurns ==
    ASSUME Init
    PROVE  TurnInv
<1>1. Call.todo = <<>> /\ ~Busy("call")
    BY ValuesTyped DEF Init, Call, Busy
<1>2. InTurn(Call.todo) /\ KeysTurn
    BY <1>1 DEF Init, InTurn, KeysTurn
<1>3. ASSUME NEW p \in Projects PROVE Turn(p)
    <2>1. /\ Left(p) = <<>> /\ row[p] = NoRow /\ record = {} /\ bucket = {} /\ keys = {}
          /\ tenant[projectHostLabel(p)] = None /\ \A s \in Services : box[p][s] = NoBox
          /\ \A s : NamedIn(app, p, s) = {}
        BY <1>1 DEF Init, Left, Labels, NamedIn, NoApp
    <2>2. NoRow.url = {} /\ NoRow.secret = None
        BY DEF NoRow
    <2> QED
        BY <2>1, <2>2, NothingAhead
        DEF Turn, TurnIn, RowIn, BoxIn, TenantIn, RecordIn, SocketIn, AppIn, StoreIn
<1> QED
    BY <1>2, <1>3 DEF TurnInv

\* Where no two names share a host label, what a service of a project has that no
\* failure has touched is there before the row says so and gone before it does not,
\* by the steps the call has left; so is the key, and the bucket with the row.
THEOREM TurnInvariant ==
    ASSUME LabelsDiffer
    PROVE  Spec => [](SweepInv /\ TurnInv)
<1>1. Init => SweepInv /\ TurnInv
    BY InitSwept, InitTurns
<1>2. SweepInv /\ TurnInv /\ [Next]_vars => (SweepInv /\ TurnInv)'
    BY SweepInvStep, TurnInvStep
<1> QED
    BY <1>1, <1>2, PTL DEF Spec

\* What holds of a project whose calls are over, none of which failed.
LEMMA SettledTurn ==
    ASSUME SweepInv, TurnInv, NEW p \in Projects, Settled(p)
    PROVE  /\ TurnIn(row[p], <<>>, tenant[projectHostLabel(p)], bucket, keys, box[p], record, app, p)
           /\ \A s \in Routed : /\ NamedIn(app, p, s) = Named(p, s) /\ Sole(p, s) /\ ~Creates(p, s)
                                /\ \A u \in Named(p, s) : ~app[u].deleting
           /\ \A s \in Services : ~Boxed(s) => box[p][s] = NoBox
<1>1. p \notin hurt /\ ~(Busy("call") /\ P = p) /\ Left(p) = <<>>
    BY DEF Settled, Left
<1>2. Turn(p) /\ \A s \in Routed : Sole(p, s)
    BY <1>1 DEF TurnInv, SweepInv
<1>3. \A s \in Routed : ~Goes(p, s) /\ ~Creates(p, s)
    BY <1>1 DEF Goes, Creates, Does
<1>4. \A s \in Services : ~Boxed(s) => box[p][s] = NoBox
    BY DEF SweepInv, ServicesInv, RowsFilled, Boxed
<1> QED
    BY <1>1, <1>2, <1>3, <1>4 DEF Turn, Sole, NamedIn, Named

\* Where no two names share a host label: when no call is under way for a project of
\* the registry and none has failed for it, what the row advertises is there, once,
\* with its tenant and record, and what it does not advertise is not.
THEOREM ServicesHold ==
    ASSUME LabelsDiffer
    PROVE  Spec => []ServicesAgree
<1>1. SweepInv /\ TurnInv => ServicesAgree
    <2> SUFFICES ASSUME SweepInv, TurnInv, NEW p \in Projects, row[p].there, Settled(p)
                 PROVE  LET contained == IF mode = "docker" THEN Routed \cup {"functions"} ELSE {"functions"} IN
                        /\ \A s \in Routed :
                              /\ \/ Cardinality(Named(p, s)) = (IF s \in row[p].url \ contained THEN 1 ELSE 0)
                                 \/ s = "auth" /\ Named(p, s) = {}
                              /\ \A u \in Named(p, s) :
                                    app[u].run # <<>> /\ (mode = "legacy" => HostOf(p, s) \in record)
                        /\ \A s \in Services :
                              \/ box[p][s] = IF s \in row[p].url \cap contained THEN Credentials(p, s) ELSE NoBox
                              \/ s = "auth" /\ box[p][s] = NoBox
                        /\ tenant[projectHostLabel(p)] = (IF "realtime" \in row[p].url THEN row[p].secret ELSE None)
        BY DEF ServicesAgree
    <2> DEFINE r == row[p]
               contained == IF mode = "docker" THEN Routed \cup {"functions"} ELSE {"functions"}
    <2>1. /\ TurnIn(r, <<>>, tenant[projectHostLabel(p)], bucket, keys, box[p], record, app, p)
          /\ \A s \in Routed : /\ NamedIn(app, p, s) = Named(p, s) /\ Sole(p, s) /\ ~Creates(p, s)
                               /\ \A u \in Named(p, s) : ~app[u].deleting
          /\ \A s \in Services : ~Boxed(s) => box[p][s] = NoBox
        BY SettledTurn
    <2> HIDE DEF r
    <2>2. \A s \in Services : s \in contained <=> Boxed(s)
        BY DEF Boxed
    <2> HIDE DEF contained
    <2>3. ASSUME NEW s \in Routed
          PROVE  /\ \/ Cardinality(Named(p, s)) = (IF s \in r.url \ contained THEN 1 ELSE 0)
                    \/ s = "auth" /\ Named(p, s) = {}
                 /\ \A u \in Named(p, s) : app[u].run # <<>> /\ (mode = "legacy" => HostOf(p, s) \in record)
        <3>1. s \in Services /\ s # "functions" /\ (s \in contained <=> mode = "docker")
            BY <2>2 DEF Routed, Services, Boxed
        <3>2. CASE mode = "docker"
            <4>1. Named(p, s) = {}
                BY <2>1, <3>2 DEF Sole
            <4> QED
                BY <3>1, <3>2, <4>1, FS_EmptySet
        <3>3. CASE mode # "docker"
            <4>1. /\ Named(p, s) # {} => s \in r.url
                  /\ s \in r.url => Named(p, s) # {} \/ s = "auth"
                  /\ \A u \in Named(p, s) : app[u].run # <<>>
                BY <2>1, <3>3, NothingAhead DEF TurnIn, AppIn
            <4>2. mode = "legacy" /\ Named(p, s) # {} => HostOf(p, s) \in record
                BY <2>1 DEF TurnIn, RecordIn
            <4>3. ASSUME NEW u \in Named(p, s) PROVE Cardinality(Named(p, s)) = 1
                <5>1. Named(p, s) = {u}
                    BY <2>1, <4>3 DEF Sole
                <5> QED
                    BY <5>1, FS_Singleton
            <4>4. Named(p, s) = {} => Cardinality(Named(p, s)) = 0
                BY FS_EmptySet
            <4> QED
                BY <3>1, <3>3, <4>1, <4>2, <4>3, <4>4
        <3> QED
            BY <3>2, <3>3
    <2>4. ASSUME NEW s \in Services
          PROVE  \/ box[p][s] = IF s \in r.url \cap contained THEN Credentials(p, s) ELSE NoBox
                 \/ s = "auth" /\ box[p][s] = NoBox
        <3>1. CASE Boxed(s)
            <4>1. /\ box[p][s] # NoBox => s \in r.url
                  /\ s \in r.url => box[p][s] # NoBox \/ s = "auth"
                BY <2>1, <3>1, NothingAhead DEF TurnIn, BoxIn
            <4>2. s \in r.url => box[p][s] \in {NoBox, Credentials(p, s)}
                BY DEF SweepInv, ServicesInv, ContainersAgree, r
            <4> QED
                BY <2>2, <3>1, <4>1, <4>2
        <3> QED
            BY <2>1, <2>2, <3>1
    <2>5. tenant[projectHostLabel(p)] = (IF "realtime" \in r.url THEN r.secret ELSE None)
        BY <2>1, NothingAhead DEF TurnIn, TenantIn
    <2> QED
        BY <2>3, <2>4, <2>5 DEF r, contained
<1> QED
    BY <1>1, TurnInvariant, PTL

\* Where no two names share a host label: a project that is forgotten, none of whose
\* calls failed, has left no application, bucket, tenant, container or record behind;
\* and where no call has failed at all, every key is in a row.
THEOREM TeardownHolds ==
    ASSUME LabelsDiffer
    PROVE  Spec => []TeardownLeavesNothing
<1>1. SweepInv /\ TurnInv => TeardownLeavesNothing
    <2> SUFFICES ASSUME SweepInv, TurnInv
                 PROVE  TeardownLeavesNothing
        OBVIOUS
    <2>1. ASSUME NEW p \in Projects, ~row[p].there, Settled(p)
          PROVE  /\ \A s \in Routed : Named(p, s) = {}
                 /\ projectHostLabel(p) \notin bucket
                 /\ tenant[projectHostLabel(p)] = None
                 /\ \A s \in Services : box[p][s] = NoBox /\ HostOf(p, s) \notin record
        <3>1. /\ TurnIn(row[p], <<>>, tenant[projectHostLabel(p)], bucket, keys, box[p], record, app, p)
              /\ \A s \in Routed : NamedIn(app, p, s) = Named(p, s) /\ Sole(p, s) /\ ~Creates(p, s)
              /\ \A s \in Services : ~Boxed(s) => box[p][s] = NoBox
            BY <2>1, SettledTurn
        <3>2. row[p].url = {} /\ row[p].key = None
            BY <2>1, <3>1 DEF TurnIn, RowIn, NoRow
        <3>3. \A s \in Routed : Named(p, s) = {}
            BY <2>1, <3>1 DEF Sole
        <3>4. projectHostLabel(p) \notin bucket
            BY <3>1, <3>2, NothingAhead DEF TurnIn, StoreIn
        <3>5. tenant[projectHostLabel(p)] = None
            BY <3>1, <3>2, NothingAhead DEF TurnIn, TenantIn
        <3>6. ASSUME NEW s \in Services, Boxed(s) PROVE box[p][s] = NoBox
            BY <3>1, <3>2, <3>6, NothingAhead DEF TurnIn, BoxIn
        <3>7. \A s \in Routed : HostOf(p, s) \notin record
            BY <3>1, <3>3, NothingAhead DEF TurnIn, RecordIn
        <3>8. HostOf(p, "realtime") \notin record /\ HostOf(p, "functions") \notin record
            BY <3>1, <3>2, NothingAhead DEF TurnIn, SocketIn
        <3> QED
            BY <3>1, <3>3, <3>4, <3>5, <3>6, <3>7, <3>8 DEF Services
    <2>2. ASSUME \A p \in Projects : Settled(p)
          PROVE  keys \subseteq {row[p].key : p \in Projects}
        <3>1. TypeOK
            BY DEF SweepInv, ServicesInv
        <3>2. hurt = {} /\ ~Busy("call")
            BY <2>2, <3>1, CallTyped DEF Settled, TypeOK
        <3> QED
            BY <3>2 DEF TurnInv, KeysTurn, Does
    <2> QED
        BY <2>1, <2>2 DEF TeardownLeavesNothing
<1> QED
    BY <1>1, TurnInvariant, PTL

=============================================================================
