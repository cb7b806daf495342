---------------------------- MODULE MigrateProofs ----------------------------
(***************************************************************************)
(* Runs of migrations keep the ledger's promise, for any directory, any    *)
(* app migrations and any number of concurrent, failing, repeated runs.    *)
(***************************************************************************)
EXTENDS Migrate, TLAPS

-----------------------------------------------------------------------------
(* The inductive invariant behind the properties.                          *)

\* A run for an app is at that migration in public; a run of the directory at
\* its i-th file, every earlier file being recorded where it looks.
RunsInOrder ==
    \A r \in Runners : ~At(r, "idle") =>
        \/ ForApp(r) /\ run[r].home = "public" /\ run[r].name \in App
        \/ /\ ~ForApp(r) /\ run[r].name = Base[run[r].i]
           /\ \A j \in 1 .. run[r].i - 1 : <<run[r].home, Base[j]>> \in ledger

\* The transaction that has inserted a name is alone, and the first.
SoleInserter ==
    \A r \in Runners : At(r, "commit") =>
        /\ Entry(r) \notin ledger
        /\ \A q \in Runners \ {r} : At(q, "commit") => Entry(q) # Entry(r)

\* What is told, or about to be, is recorded.
ToldRecorded ==
    /\ \A m \in told : <<"public", m>> \in ledger
    /\ \A r \in Runners : At(r, "notify") /\ ForApp(r) => Entry(r) \in ledger

MigrateInv ==
    LedgerMatchesSchema /\ RunsInOrder /\ SoleInserter /\ ToldRecorded
        /\ AppliedToldOnce

-----------------------------------------------------------------------------
(* 1. Lemmas.                                                              *)

\* The elements of a sequence after one is appended.
LEMMA AppendRange ==
    ASSUME NEW S, NEW s \in Seq(S), NEW e \in S
    PROVE  /\ Append(s, e) \in Seq(S)
           /\ {Append(s, e)[i] : i \in DOMAIN Append(s, e)}
                = {s[i] : i \in DOMAIN s} \cup {e}
<1>1. /\ DOMAIN Append(s, e) = 1 .. Len(s) + 1 /\ DOMAIN s = 1 .. Len(s)
      /\ \A i \in 1 .. Len(s) : Append(s, e)[i] = s[i]
      /\ Append(s, e)[Len(s) + 1] = e
      /\ Len(s) \in Nat
  OBVIOUS
<1>2. QED
  BY <1>1

\* The directory is a non-empty sequence, indexed from 1.
LEMMA BaseIndex == DOMAIN Base = 1 .. Len(Base) /\ Len(Base) \in Nat \ {0}
BY BaseAssumption

\* Arithmetic of the loop over the files: the earlier files of the next one.
LEMMA Upto ==
    ASSUME NEW k \in 1 .. Len(Base)
    PROVE  /\ \A j \in 1 .. k : j = k \/ j \in 1 .. k - 1
           /\ k # 0 /\ k + 1 # 0 /\ (k + 1) - 1 = k
           /\ k < Len(Base) => k + 1 \in 1 .. Len(Base)
<1>1. k \in Nat \ {0}
  BY BaseIndex
<1>2. QED
  BY <1>1, BaseIndex

\* The state of a slot without a run is well typed.
LEMMA IdleTyped == Idle \in Runs
BY BaseIndex DEF Idle, Runs, Homes

\* A run moves on to a file of the directory, to the notification, or ends.
LEMMA NextFileTyped ==
    ASSUME NEW s \in Runs, NEW any \in BOOLEAN
    PROVE  /\ NextFile(s, any) \in Runs
           /\ \/ NextFile(s, any).pc = "idle"
              \/ /\ NextFile(s, any).pc = "check" /\ s.i < Len(Base)
                 /\ NextFile(s, any).i = s.i + 1
                 /\ NextFile(s, any).name = Base[s.i + 1]
                 /\ NextFile(s, any).home = s.home
              \/ /\ NextFile(s, any).pc = "notify" /\ s.i = Len(Base)
                 /\ NextFile(s, any).i = s.i /\ NextFile(s, any).name = s.name
                 /\ NextFile(s, any).home = s.home
<1>1. s.i \in 0 .. Len(Base)
  BY DEF Runs
<1>2. CASE s.i < Len(Base)
  <2>1. s.i + 1 \in 0 .. Len(Base) /\ Base[s.i + 1] \in App \cup BaseNames
    BY <1>1, <1>2, BaseIndex DEF BaseNames
  <2>2. [s EXCEPT !.pc = "check", !.name = Base[s.i + 1], !.i = s.i + 1,
                  !.any = any] \in Runs
    BY <2>1 DEF Runs
  <2>3. NextFile(s, any) = [s EXCEPT !.pc = "check", !.name = Base[s.i + 1],
                                     !.i = s.i + 1, !.any = any]
    BY <1>2 DEF NextFile
  <2>4. /\ NextFile(s, any).pc = "check" /\ NextFile(s, any).i = s.i + 1
        /\ NextFile(s, any).name = Base[s.i + 1]
        /\ NextFile(s, any).home = s.home
    BY <2>3 DEF Runs
  <2>5. QED
    BY <1>2, <2>2, <2>3, <2>4
<1>3. CASE ~(s.i < Len(Base)) /\ any
  <2>1. [s EXCEPT !.pc = "notify", !.any = any] \in Runs
    BY DEF Runs
  <2>2. QED
    BY <1>1, <1>3, <2>1, BaseIndex DEF NextFile, Runs
<1>4. CASE ~(s.i < Len(Base)) /\ ~any
  BY <1>4, IdleTyped DEF NextFile, Idle
<1>5. QED
  BY <1>2, <1>3, <1>4

\* Whatever a run that is not idle is at is an entry of a ledger.
LEMMA EntryTyped ==
    ASSUME TypeOK, RunsInOrder, NEW r \in Runners, ~At(r, "idle")
    PROVE  Entry(r) \in Entries
<1>1. run[r].home \in Homes /\ run[r].i \in 0 .. Len(Base)
  BY DEF TypeOK, Runs
<1>2. CASE ForApp(r)
  BY <1>2 DEF RunsInOrder, Entry, Entries
<1>3. CASE ~ForApp(r)
  <2>1. run[r].name = Base[run[r].i]
    BY <1>3 DEF RunsInOrder
  <2>2. run[r].i \in DOMAIN Base
    BY <1>1, <1>3, BaseIndex DEF ForApp
  <2>3. QED
    BY <1>1, <2>1, <2>2 DEF Entry, Entries, BaseNames
<1>4. QED
  BY <1>2, <1>3

-----------------------------------------------------------------------------
(* 2. The inductive invariant.                                             *)

Inv == TypeOK /\ MigrateInv

\* Names of the app are none of the directory's.
LEMMA NotBoth == \A i \in 1 .. Len(Base) : Base[i] \in BaseNames \ App
<1> TAKE i \in 1 .. Len(Base)
<1>1. Base[i] \in BaseNames
  BY BaseIndex DEF BaseNames
<1>2. QED
  BY <1>1, BaseAssumption

\* A run of the directory is never at a name of the app.
LEMMA OtherFiles ==
    ASSUME TypeOK, RunsInOrder, NEW r \in Runners, ~At(r, "idle"), ~ForApp(r)
    PROVE  run[r].name \notin App
<1>1. run[r].i \in 1 .. Len(Base)
  BY BaseIndex DEF TypeOK, Runs, ForApp
<1>2. QED
  BY <1>1, NotBoth DEF RunsInOrder

\* A step that moves one run, and neither records nor tells anything.
LEMMA MoveKeeps ==
    ASSUME Inv, NEW r \in Runners, NEW s \in Runs, Become(r, s),
           UNCHANGED <<ledger, schema, told>>, prepared' \in BOOLEAN,
           pending' \in BOOLEAN, acked' \in SUBSET (App \cup BaseNames),
           cache' \in SUBSET (App \cup BaseNames), runs' \in Nat,
           failures' \in Nat,
           \/ s.pc = "idle"
           \/ /\ s.pc \in {"check", "body", "insert", "notify"}
              /\ \/ /\ s.i = 0 /\ s.home = "public" /\ s.name \in App
                    /\ s.pc # "notify"
                 \/ /\ s.i # 0 /\ s.name = Base[s.i]
                    /\ \A j \in 1 .. s.i - 1 : <<s.home, Base[j]>> \in ledger
    PROVE  Inv'
<1> USE DEF Inv, MigrateInv, Become
<1>1. TypeOK'
  BY DEF TypeOK
<1>2. \A q \in Runners : run'[q] = IF q = r THEN s ELSE run[q]
  BY DEF TypeOK
<1>3. LedgerMatchesSchema'
  BY DEF LedgerMatchesSchema
<1>4. RunsInOrder'
  BY <1>2 DEF RunsInOrder, At, ForApp
<1>5. SoleInserter'
  BY <1>2 DEF SoleInserter, At, Entry
<1>6. ToldRecorded'
  BY <1>2 DEF ToldRecorded, At, ForApp, Entry
<1>7. AppliedToldOnce'
  <2>1. s.pc = "notify" => s.name \notin App
    BY NotBoth, BaseIndex DEF Runs
  <2>2. \A q \in Runners : At(q, "notify") /\ ForApp(q) => run[q].name \in App
    BY DEF RunsInOrder, At
  <2>3. QED
    BY <1>2, <2>1, <2>2 DEF AppliedToldOnce, At, ForApp
<1>8. QED
  BY <1>1, <1>3, <1>4, <1>5, <1>6, <1>7

\* The steps that only move a run.
LEMMA MovingSteps ==
    ASSUME Inv, NEW r \in Runners,
           \/ \E m \in App : Send(r, m)
           \/ Walk(r) \/ Skip(r) \/ BeginTx(r) \/ Body(r) \/ Duplicate(r)
           \/ CutShort(r)
    PROVE  Inv'
<1> USE DEF database, rest, answers, Inv
<1>1. /\ run[r] \in Runs /\ pending \in BOOLEAN /\ prepared \in BOOLEAN
      /\ cache \in SUBSET (App \cup BaseNames)
      /\ acked \in SUBSET (App \cup BaseNames)
      /\ runs \in Nat /\ failures \in Nat
  BY DEF TypeOK
<1>2. Idle.pc = "idle" /\ Idle \in Runs
  BY IdleTyped DEF Idle
<1>3. ASSUME NEW m \in App, Send(r, m) PROVE Inv'
  <2>1. [Idle EXCEPT !.pc = "check", !.name = m] \in Runs
    BY <1>2 DEF Runs
  <2>2. QED
    <3> DEFINE n == [Idle EXCEPT !.pc = "check", !.name = m]
    <3>1. n.pc = "check" /\ n.i = 0 /\ n.home = "public" /\ n.name = m
      BY DEF Idle
    <3>2. Become(r, n) /\ runs' = runs + 1
          /\ UNCHANGED <<database, rest, answers, failures>>
      BY <1>3 DEF Send
    <3>3. n \in Runs
      BY <2>1
    <3> HIDE DEF n
    <3>4. QED
      BY <1>1, <3>1, <3>2, <3>3, MoveKeeps
<1>4. CASE Walk(r)
  <2> DEFINE w == [Idle EXCEPT !.home = IF prepared THEN "auth" ELSE @]
  <2> DEFINE n == NextFile(w, FALSE)
  <2>1. w \in Runs /\ w.i = 0
    BY <1>1, <1>2 DEF Runs, Idle, Homes
  <2> HIDE DEF w
  <2>2. /\ n \in Runs
        /\ \/ n.pc = "idle"
           \/ n.pc = "check" /\ n.i = 1 /\ n.name = Base[1]
    <3>1. 0 < Len(Base) /\ 0 # Len(Base) /\ 0 + 1 = 1
      BY BaseIndex
    <3>2. /\ n \in Runs
          /\ \/ n.pc = "idle"
             \/ n.pc = "check" /\ n.i = w.i + 1 /\ n.name = Base[w.i + 1]
             \/ w.i = Len(Base)
      BY <2>1, NextFileTyped
    <3> HIDE DEF n
    <3>3. QED
      BY <2>1, <3>1, <3>2
  <2>3. Become(r, n) /\ runs' = runs + 1
        /\ UNCHANGED <<database, rest, answers, failures>>
    BY <1>4 DEF Walk, w
  <2> HIDE DEF n
  <2>4. QED
    BY <1>1, <2>2, <2>3, MoveKeeps
<1>5. CASE Skip(r) /\ ForApp(r)
  <2>1. acked' \in SUBSET (App \cup BaseNames)
    BY <1>1, <1>5 DEF Skip, RunsInOrder, At, MigrateInv, ForApp
  <2>2. QED
    BY <1>1, <1>2, <1>5, <2>1, MoveKeeps DEF Skip
<1>6. CASE Skip(r) /\ ~ForApp(r)
  <2> DEFINE n == NextFile(run[r], run[r].any)
  <2>1. /\ run[r].i \in 1 .. Len(Base) /\ run[r].any \in BOOLEAN
        /\ run[r].name = Base[run[r].i] /\ Entry(r) \in ledger
        /\ \A j \in 1 .. run[r].i - 1 : <<run[r].home, Base[j]>> \in ledger
    BY <1>1, <1>6, BaseIndex DEF Skip, RunsInOrder, At, MigrateInv, ForApp, Runs
  <2>2. \A j \in 1 .. run[r].i : <<run[r].home, Base[j]>> \in ledger
    <3>1. <<run[r].home, Base[run[r].i]>> \in ledger
      BY <2>1 DEF Entry
    <3>2. \A j \in 1 .. run[r].i : j = run[r].i \/ j \in 1 .. run[r].i - 1
      BY <2>1, Upto
    <3>3. QED
      BY <2>1, <3>1, <3>2
  <2>3. /\ n \in Runs
        /\ \/ n.pc = "idle"
           \/ /\ n.pc = "check" /\ n.i = run[r].i + 1 /\ n.name = Base[n.i]
              /\ n.home = run[r].home
           \/ /\ n.pc = "notify" /\ n.i = run[r].i /\ n.name = Base[n.i]
              /\ n.home = run[r].home
    <3>1. /\ n \in Runs
          /\ \/ n.pc = "idle"
             \/ /\ n.pc = "check" /\ n.i = run[r].i + 1
                /\ n.name = Base[run[r].i + 1] /\ n.home = run[r].home
             \/ /\ n.pc = "notify" /\ n.i = run[r].i /\ n.name = run[r].name
                /\ n.home = run[r].home
      BY <1>1, <2>1, NextFileTyped
    <3> HIDE DEF n
    <3>2. QED
      BY <2>1, <3>1
  <2>4. /\ Become(r, n) /\ acked' \in SUBSET (App \cup BaseNames)
        /\ UNCHANGED <<database, rest, told, runs, failures>>
    BY <1>1, <1>6 DEF Skip
  <2> HIDE DEF n
  <2>5. \/ n.pc = "idle"
        \/ /\ n.pc \in {"check", "notify"} /\ n.i # 0 /\ n.name = Base[n.i]
           /\ \A j \in 1 .. n.i - 1 : <<n.home, Base[j]>> \in ledger
    <3>1. run[r].i + 1 # 0 /\ (run[r].i + 1) - 1 = run[r].i /\ run[r].i # 0
      BY <2>1, Upto
    <3>2. QED
      BY <2>1, <2>2, <2>3, <3>1
  <2>6. QED
    BY <1>1, <2>3, <2>4, <2>5, MoveKeeps
<1>7. CASE BeginTx(r) \/ Body(r)
  <2> DEFINE pc == IF At(r, "check") THEN "body" ELSE "insert"
  <2> DEFINE n == [run[r] EXCEPT !.pc = pc]
  <2>1. n \in Runs /\ n.pc \in {"body", "insert"}
    BY <1>1 DEF Runs
  <2>2. n.i = run[r].i /\ n.name = run[r].name /\ n.home = run[r].home
    BY <1>1 DEF Runs
  <2>3. ~At(r, "idle") /\ Become(r, n)
    BY <1>7 DEF BeginTx, Body, Goto, At
  <2>4. UNCHANGED <<database, rest, answers, runs, failures>>
    BY <1>7 DEF BeginTx, Body
  <2> HIDE DEF n
  <2>5. \/ n.i = 0 /\ n.home = "public" /\ n.name \in App
        \/ /\ n.i # 0 /\ n.name = Base[n.i]
           /\ \A j \in 1 .. n.i - 1 : <<n.home, Base[j]>> \in ledger
    BY <2>2, <2>3 DEF MigrateInv, RunsInOrder, ForApp
  <2>6. QED
    BY <1>1, <2>1, <2>3, <2>4, <2>5, MoveKeeps
<1>8. CASE Duplicate(r) \/ CutShort(r)
  BY <1>1, <1>2, <1>8, MoveKeeps DEF Duplicate, CutShort
<1>9. QED
  BY <1>3, <1>4, <1>5, <1>6, <1>7, <1>8

\* The insert makes the run the only one to have inserted its entry.
LEMMA InsertStep ==
    ASSUME Inv, NEW r \in Runners, Insert(r)
    PROVE  Inv'
<1> USE DEF Inv, MigrateInv, database, rest, answers
<1>1. /\ run' = [run EXCEPT ![r] = [run[r] EXCEPT !.pc = "commit"]]
      /\ run[r] \in Runs /\ ~At(r, "idle") /\ Entry(r) \notin ledger
      /\ \A q \in Runners : At(q, "commit") => Entry(q) # Entry(r)
      /\ UNCHANGED <<ledger, schema, prepared, pending, cache, acked, told,
                     runs, failures>>
  BY DEF Insert, Goto, Become, At, TypeOK
<1>2. /\ run'[r].pc = "commit" /\ run'[r].home = run[r].home
      /\ run'[r].name = run[r].name /\ run'[r].i = run[r].i
      /\ \A q \in Runners : q # r => run'[q] = run[q]
  BY <1>1 DEF TypeOK, Runs
<1>3. TypeOK'
  <2>1. [run[r] EXCEPT !.pc = "commit"] \in Runs
    BY <1>1 DEF Runs
  <2>2. QED
    BY <1>1, <2>1 DEF TypeOK
<1>4. LedgerMatchesSchema'
  BY <1>1 DEF LedgerMatchesSchema
<1>5. RunsInOrder'
  BY <1>1, <1>2 DEF RunsInOrder, At, ForApp
<1>6. SoleInserter'
  BY <1>1, <1>2 DEF SoleInserter, At, Entry
<1>7. ToldRecorded' /\ AppliedToldOnce'
  BY <1>1, <1>2 DEF ToldRecorded, AppliedToldOnce, At, ForApp, Entry
<1>8. QED
  BY <1>3, <1>4, <1>5, <1>6, <1>7

\* The commit records the entry and makes its body take effect, together.
LEMMA CommitStep ==
    ASSUME Inv, NEW r \in Runners, Commit(r)
    PROVE  Inv'
<1> USE DEF Inv, MigrateInv, rest, answers
<1> DEFINE n == IF ForApp(r) THEN [run[r] EXCEPT !.pc = "notify"]
                ELSE NextFile(run[r], TRUE)
<1>1. /\ run' = [run EXCEPT ![r] = n] /\ run[r] \in Runs
      /\ ~At(r, "idle") /\ At(r, "commit")
      /\ ledger' = ledger \cup {Entry(r)}
      /\ schema' = Append(schema, Entry(r))
      /\ UNCHANGED <<prepared, pending, cache, acked, told, runs, failures>>
  BY DEF Commit, Goto, Become, At, TypeOK
<1>2. Entry(r) \in Entries
  BY <1>1, EntryTyped
<1>3. /\ n \in Runs
      /\ \/ n.pc = "idle"
         \/ /\ n.pc = "notify" /\ n.i = 0 /\ run[r].i = 0
            /\ n.home = "public" /\ n.name = run[r].name /\ n.name \in App
            /\ run[r].home = "public"
         \/ /\ n.pc \in {"check", "notify"} /\ n.i # 0 /\ n.name = Base[n.i]
            /\ \A j \in 1 .. n.i - 1 :
                 <<n.home, Base[j]>> \in ledger \cup {Entry(r)}
            /\ n.name \notin App
  <2>1. CASE ForApp(r)
    BY <1>1, <2>1 DEF Runs, ForApp, RunsInOrder
  <2>2. CASE ~ForApp(r)
    <3>1. /\ run[r].i \in 1 .. Len(Base) /\ run[r].name = Base[run[r].i]
          /\ \A j \in 1 .. run[r].i - 1 : <<run[r].home, Base[j]>> \in ledger
      BY <1>1, <2>2, BaseIndex DEF RunsInOrder, ForApp, Runs
    <3>2. \A j \in 1 .. run[r].i :
             <<run[r].home, Base[j]>> \in ledger \cup {Entry(r)}
      BY <3>1, Upto DEF Entry
    <3>3. /\ n \in Runs
          /\ \/ n.pc = "idle"
             \/ /\ n.pc = "check" /\ n.i = run[r].i + 1 /\ n.name = Base[n.i]
                /\ n.home = run[r].home /\ run[r].i < Len(Base)
             \/ /\ n.pc = "notify" /\ n.i = run[r].i /\ n.name = Base[n.i]
                /\ n.home = run[r].home
      <4>1. n = NextFile(run[r], TRUE)
        BY <2>2
      <4> HIDE DEF n
      <4>2. /\ n \in Runs
            /\ \/ n.pc = "idle"
               \/ /\ n.pc = "check" /\ run[r].i < Len(Base)
                  /\ n.i = run[r].i + 1 /\ n.name = Base[run[r].i + 1]
                  /\ n.home = run[r].home
               \/ /\ n.pc = "notify" /\ n.i = run[r].i /\ n.name = run[r].name
                  /\ n.home = run[r].home
        BY <1>1, <4>1, NextFileTyped
      <4>3. QED
        BY <3>1, <4>2
    <3> HIDE DEF n
    <3>4. n.pc # "idle" => n.i \in 1 .. Len(Base)
      BY <3>1, <3>3, Upto
    <3>5. n.pc # "idle" => n.name \notin App
      BY <3>3, <3>4, NotBoth
    <3>6. QED
      <4>1. CASE n.pc = "check"
        <5>1. n.i # 0 /\ n.i - 1 = run[r].i
          BY <3>1, <3>3, <4>1, Upto
        <5>2. n.name = Base[n.i] /\ n.home = run[r].home /\ n \in Runs
          BY <3>3, <4>1
        <5>3. QED
          BY <3>2, <3>5, <4>1, <5>1, <5>2
      <4>2. CASE n.pc = "notify"
        BY <3>1, <3>3, <3>5, <4>2, Upto
      <4>3. QED
        BY <3>3, <4>1, <4>2
  <2>3. QED
    BY <2>1, <2>2
<1> HIDE DEF n
<1>4. \A q \in Runners : run'[q] = IF q = r THEN n ELSE run[q]
  BY <1>1 DEF TypeOK
<1>5. TypeOK' /\ LedgerMatchesSchema'
  BY <1>1, <1>2, <1>3, AppendRange DEF TypeOK, LedgerMatchesSchema
<1>6. RunsInOrder'
  BY <1>1, <1>3, <1>4 DEF RunsInOrder, At, ForApp
<1>7. SoleInserter'
  BY <1>1, <1>3, <1>4 DEF SoleInserter, At, Entry
<1>8. ToldRecorded'
  BY <1>1, <1>3, <1>4 DEF ToldRecorded, At, ForApp, Entry
<1>9. AppliedToldOnce'
  <2>1. n.pc = "notify" /\ n.i = 0 => n.name \notin told
    BY <1>1, <1>3 DEF SoleInserter, ToldRecorded, Entry
  <2>2. \A q \in Runners : At(q, "notify") /\ ForApp(q) =>
           run[q].name \in App /\ <<"public", run[q].name>> \in ledger
    BY DEF RunsInOrder, ToldRecorded, At, Entry, ForApp
  <2>3. QED
    <3>1. ASSUME NEW q \in Runners, At(q, "notify"), n.pc = "notify",
                 n.i = 0 \/ ForApp(q)
          PROVE  run[q].name # n.name
      <4>1. CASE ~ForApp(q)
        BY <1>3, <3>1, <4>1, OtherFiles DEF At, ForApp
      <4>2. CASE ForApp(q) /\ n.i = 0
        <5>1. n.name = run[r].name /\ run[r].home = "public"
          BY <1>3, <3>1, <4>2
        <5>2. <<"public", n.name>> \notin ledger
          BY <1>1, <5>1 DEF SoleInserter, Entry
        <5>3. QED
          BY <2>2, <3>1, <4>2, <5>2
      <4>3. CASE ForApp(q) /\ n.i # 0
        BY <1>3, <2>2, <3>1, <4>3
      <4>4. QED
        BY <4>1, <4>2, <4>3
    <3>2. QED
      BY <1>1, <1>4, <2>1, <3>1 DEF AppliedToldOnce, At, ForApp
<1>10. QED
  BY <1>5, <1>6, <1>7, <1>8, <1>9

\* The answer tells of a migration that is recorded, and told to nobody else.
LEMMA NotifyStep ==
    ASSUME Inv, NEW r \in Runners, Notify(r)
    PROVE  Inv'
<1> USE DEF Inv, MigrateInv, database
<1>1. /\ run' = [run EXCEPT ![r] = Idle] /\ At(r, "notify") /\ ~At(r, "idle")
      /\ told' = told \cup IF ForApp(r) THEN {run[r].name} ELSE {}
      /\ acked' = acked \cup IF ForApp(r) THEN {run[r].name} ELSE BaseNames
      /\ pending' = TRUE
      /\ UNCHANGED <<ledger, schema, prepared, cache, runs, failures>>
  BY DEF Notify, Become, At
<1>2. ForApp(r) => run[r].name \in App /\ <<"public", run[r].name>> \in ledger
  BY <1>1 DEF RunsInOrder, ToldRecorded, ForApp, Entry
<1>3. \A q \in Runners : run'[q] = IF q = r THEN Idle ELSE run[q]
  BY <1>1 DEF TypeOK
<1>4. Idle.pc = "idle" /\ Idle \in Runs
  BY IdleTyped DEF Idle
<1>5. TypeOK'
  BY <1>1, <1>2, <1>4 DEF TypeOK
<1>6. LedgerMatchesSchema' /\ RunsInOrder' /\ SoleInserter'
  BY <1>1, <1>3, <1>4
     DEF LedgerMatchesSchema, RunsInOrder, SoleInserter, At, ForApp, Entry
<1>7. ToldRecorded'
  BY <1>1, <1>2, <1>3, <1>4 DEF ToldRecorded, At, ForApp, Entry
<1>8. AppliedToldOnce'
  BY <1>1, <1>3, <1>4 DEF AppliedToldOnce, At, ForApp
<1>9. QED
  BY <1>5, <1>6, <1>7, <1>8

\* The invariant is inductive: every step of every run, of prepareAuth and of
\* PostgREST keeps it.
LEMMA InvStep == Inv /\ [Next]_vars => Inv'
<1> SUFFICES ASSUME Inv, [Next]_vars PROVE Inv'
  OBVIOUS
<1>1. ASSUME NEW r \in Runners,
             (\E m \in App : Send(r, m)) \/ Walk(r) \/ Step(r) \/ CutShort(r)
      PROVE  Inv'
  BY <1>1, MovingSteps, InsertStep, CommitStep, NotifyStep DEF Step
<1>2. CASE PrepareAuth \/ Reload \/ RestStarts \/ UNCHANGED vars
  <2>1. UNCHANGED <<ledger, schema, run, acked, told, runs, failures>>
    BY <1>2 DEF PrepareAuth, Reload, RestStarts, vars, database, answers
  <2>2. /\ prepared' \in BOOLEAN /\ pending' \in BOOLEAN
        /\ cache' \in SUBSET (App \cup BaseNames)
    <3>1. \A e \in Entries : e[2] \in App \cup BaseNames
      BY DEF Entries
    <3>2. Visible \in SUBSET (App \cup BaseNames)
      BY <3>1 DEF Visible, Inv, TypeOK
    <3>3. QED
      BY <1>2, <3>2 DEF PrepareAuth, Reload, RestStarts, vars, database, rest,
         Inv, TypeOK
  <2>3. TypeOK'
    BY <2>1, <2>2 DEF Inv, TypeOK
  <2>4. MigrateInv'
    BY <2>1 DEF Inv, MigrateInv, LedgerMatchesSchema, RunsInOrder, SoleInserter,
       ToldRecorded, AppliedToldOnce, At, ForApp, Entry
  <2>5. QED
    BY <2>3, <2>4 DEF Inv
<1>3. QED
  BY <1>1, <1>2 DEF Next

\* Every reachable state satisfies the inductive invariant.
THEOREM MigrateInvariant == Spec => [](TypeOK /\ MigrateInv)
<1>1. Init => Inv
  <2> SUFFICES ASSUME Init PROVE Inv
    OBVIOUS
  <2>1. \A r \in Runners : run[r] = Idle
    BY DEF Init
  <2>2. TypeOK
    <3>1. schema \in Seq(Entries) /\ ledger \in SUBSET Entries
      BY DEF Init
    <3>2. run \in [Runners -> Runs]
      BY IdleTyped DEF Init
    <3>3. QED
      BY <3>1, <3>2 DEF Init, TypeOK
  <2>3. LedgerMatchesSchema
    BY DEF Init, LedgerMatchesSchema
  <2>4. RunsInOrder /\ SoleInserter /\ ToldRecorded /\ AppliedToldOnce
    <3>1. \A r \in Runners : At(r, "idle")
      BY <2>1 DEF At, Idle
    <3>2. told = {}
      BY DEF Init
    <3>3. QED
      BY <3>1, <3>2 DEF RunsInOrder, SoleInserter, ToldRecorded,
         AppliedToldOnce, At
  <2>5. QED
    BY <2>2, <2>3, <2>4 DEF Inv, MigrateInv
<1>2. QED
  BY <1>1, InvStep, PTL DEF Spec, Inv

\* The tracking tables record exactly the bodies that took effect.
THEOREM LedgerIsExact == Spec => []LedgerMatchesSchema
<1>1. MigrateInv => LedgerMatchesSchema
  BY DEF MigrateInv
<1>2. QED
  BY <1>1, MigrateInvariant, PTL

\* Of all the calls for one migration, at most one is told it applied it.
THEOREM ToldOnce == Spec => []AppliedToldOnce
<1>1. MigrateInv => AppliedToldOnce
  BY DEF MigrateInv
<1>2. QED
  BY <1>1, MigrateInvariant, PTL

-----------------------------------------------------------------------------
(* 3. Refinement: a commit appends to the ledger, any other step stutters. *)

\* A commit is a step of the abstract ledger: the body has not taken effect
\* before, and every earlier file of its directory has.
LEMMA CommitApplies ==
    ASSUME Inv, NEW r \in Runners, Commit(r)
    PROVE  Promise!Apply(Entry(r)) /\ Entry(r) \in Entries
<1> USE DEF Inv, MigrateInv
<1>1. /\ At(r, "commit") /\ ~At(r, "idle") /\ schema' = Append(schema, Entry(r))
      /\ run[r] \in Runs
  BY DEF Commit, At, TypeOK
<1>2. Entry(r) \in Entries /\ Entry(r) \notin ledger
  BY <1>1, EntryTyped DEF SoleInserter
<1>3. Promise!Applied = ledger
  BY DEF LedgerMatchesSchema, Promise!Applied
<1>4. ASSUME NEW d \in Entries, <<d, Entry(r)>> \in FileOrder PROVE d \in ledger
  <2>1. PICK h \in Homes, j \in DOMAIN Base :
           \E i \in 1 .. j - 1 : d = <<h, Base[i]>> /\ Entry(r) = <<h, Base[j]>>
    BY <1>4 DEF FileOrder
  <2>2. ~ForApp(r)
    BY <1>1, <2>1, NotBoth, BaseIndex DEF RunsInOrder, Entry
  <2>3. run[r].i = j /\ run[r].home = h
    <3>1. run[r].i \in DOMAIN Base
      BY <1>1, <2>2, BaseIndex DEF Runs, ForApp
    <3>2. Base[run[r].i] = Base[j] /\ run[r].home = h
      BY <1>1, <2>1, <2>2 DEF RunsInOrder, Entry
    <3>3. QED
      BY <3>1, <3>2, BaseAssumption
  <2>4. QED
    BY <1>1, <2>1, <2>2, <2>3 DEF RunsInOrder
<1>5. QED
  BY <1>1, <1>2, <1>3, <1>4 DEF Promise!Apply

\* Concurrent, failing and repeated runs implement the ledger's promise: each
\* body takes effect once, the files of a directory in their order.
THEOREM MigrateImplementsLedger == Spec => LedgerImplemented
<1>1. Init => Promise!LedgerInit
  BY DEF Init, Promise!LedgerInit
<1>2. Inv /\ [Next]_vars => [Promise!LedgerNext]_schema
  <2> SUFFICES ASSUME Inv, [Next]_vars, schema' # schema
               PROVE  Promise!LedgerNext
    OBVIOUS
  <2>1. PICK r \in Runners : Commit(r)
    BY DEF Next, vars, Send, Walk, Step, Skip, BeginTx, Body, Insert, Duplicate,
       Notify, CutShort, PrepareAuth, Reload, RestStarts, database
  <2>2. QED
    BY <2>1, CommitApplies DEF Promise!LedgerNext
<1>3. QED
  BY <1>1, <1>2, MigrateInvariant, PTL
     DEF Spec, Inv, LedgerImplemented, Promise!LedgerSpec

=============================================================================
