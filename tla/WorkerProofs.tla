----------------------------- MODULE WorkerProofs -----------------------------
(***************************************************************************)
(* Theorems about Worker, for any number of handlers, callbacks,           *)
(* executions and repositories, any retry limit and any number of faults.  *)
(* Section 1 types every step; section 2 proves the invariant of what was  *)
(* checked before it was acted on, and what follows from it.               *)
(***************************************************************************)
EXTENDS Worker, TLAPS

-----------------------------------------------------------------------------
(* The inductive invariant: what was checked before a row is inserted, or  *)
(* a permission set, still holds then, unless two attempts at one job ran  *)
(* at once or the check could not be made.                                 *)

OneAttempt ==
    overlapped \/ \A g, h \in Handlers :
        handler[g].job = handler[h].job /\ handler[g].job # None => g = h

InsertChecked ==
    \A h \in Handlers : At(h, "usage", "insert") =>
        /\ found(handler[h].cur)
        /\ rows[handler[h].cur] = <<>> \/ handler[h].cur \in blind \/ overlapped

GrantChecked ==
    \A h \in Handlers : At(h, "access", "grant") =>
        rank[handler[h].cur] <= Target \/ handler[h].cur \in unseen

\* An execution without usage has no row.
OnlyUsage == \A e \in Execs : rows[e] # <<>> => found(e)

WorkerInv ==
    /\ TypeOK /\ OneAttempt /\ InsertChecked /\ GrantChecked
    /\ RecordedOnce /\ OnlyUsage /\ AcceptedKept

-----------------------------------------------------------------------------
(* 1. Types.                                                               *)

JobRecords == [state: States, tries: 0 .. RetryLimit]

HandlerRecords == [job: Jobs \cup {None}, pc: PCs, todo: SUBSET (Execs \cup Repos),
                   cur: Execs \cup Repos \cup {None}, lost: BOOLEAN]

QueueTyped ==
    /\ handler \in [Handlers -> HandlerRecords]
    /\ \A h \in Handlers : InPlace(handler[h])
    /\ job \in [Jobs -> JobRecords]
    /\ asked \in [Callbacks -> {"none", "accepted", "refused"}]
    /\ configured \in Configs /\ boss \in {"none", "ready", "broken"}
    /\ overlapped \in BOOLEAN

EffectsTyped ==
    /\ delivered \in [Callbacks -> Nat]
    /\ DOMAIN rows = Execs /\ \A e \in Execs : rows[e] \in Seq({extractUsage(e)})
    /\ rank \in [Repos -> Ranks] /\ invited \in SUBSET Repos
    /\ blind \in SUBSET Execs /\ unseen \in SUBSET Repos

\* The type invariant in parts, now and after a step.
LEMMA Typed ==
    /\ TypeOK <=> QueueTyped /\ EffectsTyped /\ faults \in 0 .. MaxFaults
    /\ TypeOK' <=> QueueTyped' /\ EffectsTyped' /\ faults' \in 0 .. MaxFaults
BY DEF TypeOK, QueueTyped, EffectsTyped, JobRecords, HandlerRecords

\* The three kinds of jobs, and no job, are told apart.
LEMMA KindsOfJobs ==
    /\ Jobs = {"usage", "access"} \cup Callbacks
    /\ None \notin Jobs /\ "usage" \notin Callbacks /\ "access" \notin Callbacks
BY WorkerAssumption DEF Jobs, None

\* An idle handler is where it may be.
LEMMA IdleTyped == Idle \in HandlerRecords /\ InPlace(Idle)
BY KindsOfJobs DEF Idle, HandlerRecords, InPlace, PCs, None

\* A failed attempt is tried again or given up within the limit.
LEMMA AgainTyped ==
    ASSUME TypeOK, NEW j \in Jobs
    PROVE  Again(j) \in JobRecords /\ Again(j).state \in {"retry", "failed"}
<1>1. job[j] \in JobRecords /\ RetryLimit \in Nat
    BY WorkerAssumption DEF TypeOK, JobRecords
<1> QED
    BY <1>1 DEF Again, JobRecords, States

\* A handler that goes on keeps its type when its new place is one.
LEMMA GotoTyped ==
    ASSUME TypeOK, NEW h \in Handlers, NEW pc \in PCs, NEW todo \in SUBSET (Execs \cup Repos),
           NEW cur \in Execs \cup Repos \cup {None}, Goto(h, pc, todo, cur),
           InPlace([handler[h] EXCEPT !.pc = pc, !.todo = todo, !.cur = cur])
    PROVE  QueueTyped'
<1> DEFINE w == [handler[h] EXCEPT !.pc = pc, !.todo = todo, !.cur = cur]
<1>1. handler \in [Handlers -> HandlerRecords] /\ \A g \in Handlers : InPlace(handler[g])
    BY DEF TypeOK, HandlerRecords
<1>2. handler' = [handler EXCEPT ![h] = w]
    BY <1>1 DEF Goto, HandlerRecords
<1>3. w \in HandlerRecords
    BY <1>1 DEF HandlerRecords
<1> HIDE DEF w
<1>4. handler' \in [Handlers -> HandlerRecords] /\ \A g \in Handlers : InPlace(handler'[g])
    BY <1>1, <1>2, <1>3 DEF w
<1> QED
    BY <1>4 DEF Goto, TypeOK, JobRecords, QueueTyped

\* A handler that ends keeps every type when its job's new state is one.
LEMMA EndsTyped ==
    ASSUME TypeOK, NEW h \in Handlers, NEW to, handler[h].job # None => to \in JobRecords,
           Ends(h, to)
    PROVE  QueueTyped'
<1>1. handler \in [Handlers -> HandlerRecords] /\ \A g \in Handlers : InPlace(handler[g])
    BY DEF TypeOK, HandlerRecords
<1>2. handler' \in [Handlers -> HandlerRecords] /\ \A g \in Handlers : InPlace(handler'[g])
    BY <1>1, IdleTyped DEF Ends
<1>3. job' \in [Jobs -> JobRecords]
    <2>1. job \in [Jobs -> JobRecords] /\ handler[h].job \in Jobs \cup {None}
        BY <1>1 DEF TypeOK, JobRecords, HandlerRecords
    <2> QED
        BY <2>1, KindsOfJobs DEF Ends
<1> QED
    BY <1>2, <1>3 DEF Ends, TypeOK, QueueTyped

\* A handler that throws leaves the queue well typed.
LEMMA ThrowsTyped ==
    ASSUME TypeOK, NEW h \in Handlers, Throws(h)
    PROVE  QueueTyped'
<1>1. handler[h].job # None => Again(handler[h].job) \in JobRecords
    BY AgainTyped DEF TypeOK
<1> QED
    BY <1>1, EndsTyped DEF Throws

\* So does one that completes.
LEMMA CompletesTyped ==
    ASSUME TypeOK, NEW h \in Handlers, Completes(h)
    PROVE  QueueTyped'
<1>1. handler[h].job # None => [job[handler[h].job] EXCEPT !.state = "completed"] \in JobRecords
    BY DEF TypeOK, JobRecords, States
<1> QED
    BY <1>1, EndsTyped DEF Completes

\* A fault is counted up to its bound.
LEMMA FaultTyped == ASSUME TypeOK, Fault \/ UNCHANGED faults PROVE faults' \in 0 .. MaxFaults
BY WorkerAssumption DEF TypeOK, Fault

\* The control plane's and pg-boss's own steps.
LEMMA QueueStepsTyped ==
    ASSUME TypeOK,
           \/ \E c \in Callbacks : enqueueAppCallback(c)
           \/ ApiRestart \/ Crash
           \/ \E j \in Jobs : Cron(j) \/ Expire(j) \/ ExpireDead(j)
           \/ \E h \in Handlers, j \in Jobs : Work(h, j)
           \/ \E r \in Repos : Admin(r)
    PROVE  TypeOK'
<1>1. Created \in JobRecords
    BY WorkerAssumption DEF Created, JobRecords, States
<1>2. QueueTyped /\ EffectsTyped /\ faults' \in 0 .. MaxFaults
    BY FaultTyped, Typed DEF enqueueAppCallback, ApiRestart, Crash, Cron, Expire, ExpireDead, Work,
       Admin
<1> USE DEF QueueTyped, EffectsTyped, targets, ghosts
<1>3. ASSUME NEW c \in Callbacks, enqueueAppCallback(c) PROVE TypeOK'
    <2>1. c \in Jobs
        BY KindsOfJobs
    <2>2. job' \in [Jobs -> JobRecords]
        BY <1>1, <1>2, <1>3, <2>1 DEF enqueueAppCallback
    <2>3. /\ asked' \in [Callbacks -> {"none", "accepted", "refused"}]
          /\ boss' \in {"none", "ready", "broken"}
        BY <1>2, <1>3 DEF enqueueAppCallback
    <2> QED
        BY <1>2, <1>3, <2>2, <2>3, Typed DEF enqueueAppCallback
<1>4. CASE ApiRestart
    BY <1>2, <1>4, Typed DEF ApiRestart
<1>5. CASE Crash
    BY <1>2, <1>5, Typed, IdleTyped DEF Crash
<1>6. ASSUME NEW j \in Jobs, Cron(j) PROVE TypeOK'
    BY <1>1, <1>2, <1>6, Typed DEF Cron
<1>7. ASSUME NEW j \in Jobs, Expire(j) PROVE TypeOK'
    <2>1. job' \in [Jobs -> JobRecords]
        BY <1>2, <1>7, AgainTyped DEF Expire
    <2>2. ASSUME NEW h \in Handlers
          PROVE  handler'[h] \in HandlerRecords /\ InPlace(handler'[h])
        <3>1. handler'[h] = handler[h]
              \/ (handler[h].job \in Jobs /\ handler'[h] = [handler[h] EXCEPT !.lost = TRUE])
            BY <1>7 DEF Expire
        <3>2. handler[h] \in HandlerRecords /\ InPlace(handler[h])
            BY <1>2
        <3> QED
            BY <3>1, <3>2, KindsOfJobs DEF HandlerRecords, InPlace
    <2>3. handler' \in [Handlers -> HandlerRecords]
        BY <1>7, <2>2 DEF Expire
    <2> QED
        BY <1>2, <1>7, <2>1, <2>2, <2>3, Typed DEF Expire
<1>8. ASSUME NEW j \in Jobs, ExpireDead(j) PROVE TypeOK'
    BY <1>2, <1>8, Typed, AgainTyped DEF ExpireDead
<1>9. ASSUME NEW h \in Handlers, NEW j \in Jobs, Work(h, j) PROVE TypeOK'
    <2> DEFINE w == [Idle EXCEPT !.job = j, !.pc = IF j \in Callbacks THEN "post" ELSE "list"]
    <2>1. w \in HandlerRecords /\ InPlace(w)
        BY KindsOfJobs DEF Idle, HandlerRecords, InPlace, PCs, None
    <2>2. handler' = [handler EXCEPT ![h] = w] /\ job' = [job EXCEPT ![j].state = "active"]
        BY <1>9 DEF Work
    <2> HIDE DEF w
    <2>3. handler' \in [Handlers -> HandlerRecords] /\ \A g \in Handlers : InPlace(handler'[g])
        BY <1>2, <2>1, <2>2
    <2>4. job' \in [Jobs -> JobRecords]
        BY <1>2, <2>2 DEF JobRecords, States
    <2> QED
        BY <1>2, <1>9, <2>3, <2>4, Typed DEF Work
<1>10. ASSUME NEW r \in Repos, Admin(r) PROVE TypeOK'
    BY <1>2, <1>10, Typed DEF Admin, Ranks
<1> QED
    BY <1>3, <1>4, <1>5, <1>6, <1>7, <1>8, <1>9, <1>10

\* What a handler does: the queue by the lemmas above, its effects by each step.
LEMMA HandlerStepsTyped ==
    ASSUME TypeOK, NEW h \in Handlers, Step(h)
    PROVE  TypeOK'
<1> DEFINE w == handler[h]
<1>1. QueueTyped /\ EffectsTyped
    BY Typed
<1>2. w \in HandlerRecords /\ InPlace(w)
    BY <1>1 DEF QueueTyped
<1>3. {"list", "executions", "next", "insert", "grant", "post"} \subseteq PCs
    BY DEF PCs
<1> USE DEF targets
<1>4. CASE Post(h)
    <2>1. PICK c \in Callbacks :
             /\ Completes(h) \/ Throws(h)
             /\ delivered' \in {delivered, [delivered EXCEPT ![c] = @ + 1]}
             /\ UNCHANGED <<rows, rank, invited, blind, unseen>>
             /\ Fault \/ UNCHANGED faults
        BY <1>4 DEF Post
    <2>2. EffectsTyped'
        BY <1>1, <2>1 DEF EffectsTyped
    <2> QED
        BY <2>1, <2>2, CompletesTyped, ThrowsTyped, FaultTyped, Typed
<1>5. CASE kelvinCustomerId(h)
    <2>1. CASE Goto(h, "executions", {}, None)
        <3>1. InPlace([w EXCEPT !.pc = "executions", !.todo = {}, !.cur = None])
            BY <1>2, <1>5, KindsOfJobs DEF kelvinCustomerId, At, InPlace, HandlerRecords
        <3> QED
            BY <1>1, <1>3, <1>5, <2>1, <3>1, GotoTyped, FaultTyped, Typed
            DEF kelvinCustomerId, Asks, EffectsTyped
    <2>2. CASE Throws(h)
        BY <1>1, <1>5, <2>2, ThrowsTyped, FaultTyped, Typed
        DEF kelvinCustomerId, Asks, EffectsTyped
    <2> QED
        BY <1>5, <2>1, <2>2 DEF kelvinCustomerId, Asks
<1>6. CASE UsageList(h)
    <2>1. CASE Goto(h, "next", Execs, None)
        <3>1. InPlace([w EXCEPT !.pc = "next", !.todo = Execs, !.cur = None])
            BY <1>2, <1>6, KindsOfJobs DEF UsageList, At, InPlace, HandlerRecords
        <3> QED
            BY <1>1, <1>3, <1>6, <2>1, <3>1, GotoTyped, FaultTyped, Typed
            DEF UsageList, Asks, EffectsTyped
    <2>2. CASE Throws(h)
        BY <1>1, <1>6, <2>2, ThrowsTyped, FaultTyped, Typed
        DEF UsageList, Asks, EffectsTyped
    <2> QED
        BY <1>6, <2>1, <2>2 DEF UsageList, Asks
<1>7. CASE UsageNext(h)
    <2>1. w.job = "usage" /\ w.todo \subseteq Execs
        BY <1>2, <1>7 DEF UsageNext, At, InPlace
    <2>2. PICK e \in w.todo :
             /\ \/ Goto(h, "insert", w.todo \ {e}, e) \/ Goto(h, "next", w.todo \ {e}, e)
                \/ Throws(h)
             /\ blind' \in {blind, blind \cup {e}}
             /\ Fault \/ UNCHANGED faults
        BY <1>7 DEF UsageNext
    <2>3. EffectsTyped'
        BY <1>1, <1>7, <2>1, <2>2 DEF UsageNext, EffectsTyped
    <2>4. /\ InPlace([w EXCEPT !.pc = "insert", !.todo = w.todo \ {e}, !.cur = e])
          /\ InPlace([w EXCEPT !.pc = "next", !.todo = w.todo \ {e}, !.cur = e])
        BY <1>2, <2>1, <2>2, KindsOfJobs DEF InPlace, HandlerRecords
    <2>5. w.todo \ {e} \in SUBSET (Execs \cup Repos) /\ e \in Execs \cup Repos \cup {None}
        BY <2>1, <2>2
    <2>6. QueueTyped'
        BY <1>3, <2>2, <2>4, <2>5, GotoTyped, ThrowsTyped
    <2> QED
        BY <2>2, <2>3, <2>6, FaultTyped, Typed
<1>8. CASE insertUsage(h)
    <2> DEFINE e == w.cur
    <2>1. w.job = "usage" /\ w.todo \subseteq Execs /\ e \in Execs
        BY <1>2, <1>8 DEF insertUsage, At, InPlace
    <2>2. EffectsTyped'
        <3>1. rows' = rows \/ rows' = [rows EXCEPT ![e] = Append(@, extractUsage(e))]
            BY <1>8 DEF insertUsage
        <3>2. Append(rows[e], extractUsage(e)) \in Seq({extractUsage(e)})
            BY <1>1, <2>1 DEF EffectsTyped
        <3>3. DOMAIN rows' = Execs /\ \A x \in Execs : rows'[x] \in Seq({extractUsage(x)})
            BY <1>1, <2>1, <3>1, <3>2 DEF EffectsTyped
        <3> QED
            BY <1>1, <1>8, <3>3 DEF insertUsage, EffectsTyped
    <2>3. InPlace([w EXCEPT !.pc = "next", !.todo = w.todo, !.cur = None])
        BY <1>2, <2>1, KindsOfJobs DEF InPlace, HandlerRecords
    <2>4. w.todo \in SUBSET (Execs \cup Repos)
        BY <2>1
    <2>5. QueueTyped' /\ faults' \in 0 .. MaxFaults
        BY <1>3, <1>8, <2>3, <2>4, GotoTyped, ThrowsTyped, FaultTyped DEF insertUsage
    <2> QED
        BY <2>2, <2>5, Typed
<1>9. CASE listOrgRepos(h)
    <2>1. CASE Goto(h, "next", Repos, None)
        <3>1. InPlace([w EXCEPT !.pc = "next", !.todo = Repos, !.cur = None])
            BY <1>2, <1>9, KindsOfJobs DEF listOrgRepos, At, InPlace, HandlerRecords
        <3> QED
            BY <1>1, <1>3, <1>9, <2>1, <3>1, GotoTyped, FaultTyped, Typed
            DEF listOrgRepos, Asks, EffectsTyped
    <2>2. CASE Throws(h)
        BY <1>1, <1>9, <2>2, ThrowsTyped, FaultTyped, Typed
        DEF listOrgRepos, Asks, EffectsTyped
    <2> QED
        BY <1>9, <2>1, <2>2 DEF listOrgRepos, Asks
<1>10. CASE currentRank(h)
    <2>1. w.job = "access" /\ w.todo \subseteq Repos
        BY <1>2, <1>10 DEF currentRank, At, InPlace
    <2>2. PICK r \in w.todo :
             /\ Goto(h, "grant", w.todo \ {r}, r) \/ Goto(h, "next", w.todo \ {r}, r)
             /\ unseen' \in {unseen, unseen \cup {r}}
             /\ Fault \/ UNCHANGED faults
        BY <1>10 DEF currentRank
    <2>3. EffectsTyped'
        BY <1>1, <1>10, <2>1, <2>2 DEF currentRank, EffectsTyped
    <2>4. /\ InPlace([w EXCEPT !.pc = "grant", !.todo = w.todo \ {r}, !.cur = r])
          /\ InPlace([w EXCEPT !.pc = "next", !.todo = w.todo \ {r}, !.cur = r])
        BY <1>2, <2>1, <2>2, KindsOfJobs DEF InPlace, HandlerRecords
    <2>5. w.todo \ {r} \in SUBSET (Execs \cup Repos) /\ r \in Execs \cup Repos \cup {None}
        BY <2>1, <2>2
    <2>6. QueueTyped'
        BY <1>3, <2>2, <2>4, <2>5, GotoTyped
    <2> QED
        BY <2>2, <2>3, <2>6, FaultTyped, Typed
<1>11. CASE grant(h)
    <2>1. w.job = "access" /\ w.todo \subseteq Repos /\ w.cur \in Repos
        BY <1>2, <1>11 DEF grant, At, InPlace
    <2>2. EffectsTyped'
        BY <1>1, <1>11, <2>1 DEF grant, EffectsTyped, Ranks, Target
    <2>3. InPlace([w EXCEPT !.pc = "next", !.todo = w.todo, !.cur = None])
        BY <1>2, <2>1, KindsOfJobs DEF InPlace, HandlerRecords
    <2>4. w.todo \in SUBSET (Execs \cup Repos)
        BY <2>1
    <2>5. QueueTyped' /\ faults' \in 0 .. MaxFaults
        BY <1>3, <1>11, <2>3, <2>4, GotoTyped, FaultTyped DEF grant
    <2> QED
        BY <2>2, <2>5, Typed
<1>12. CASE Done(h)
    BY <1>1, <1>12, CompletesTyped, FaultTyped, Typed DEF Done, EffectsTyped
<1> QED
    BY <1>4, <1>5, <1>6, <1>7, <1>8, <1>9, <1>10, <1>11, <1>12 DEF Step

\* Types are kept by every step.
LEMMA TypeStep == TypeOK /\ [Next]_vars => TypeOK'
<1> SUFFICES ASSUME TypeOK, [Next]_vars PROVE TypeOK'
    OBVIOUS
<1>1. CASE UNCHANGED vars
    BY <1>1 DEF vars, targets, ghosts, TypeOK
<1>2. CASE Next
    BY <1>2, QueueStepsTyped, HandlerStepsTyped DEF Next
<1> QED
    BY <1>1, <1>2

\* Every reachable state is well typed: a handler holds executions or
\* repositories by the job it has, and every row of an execution is its count.
THEOREM WorkerTypeOK == Spec => []TypeOK
<1>1. ASSUME Init PROVE TypeOK
    <2>1. RetryLimit \in Nat /\ MaxFaults \in Nat
        BY WorkerAssumption
    <2>2. QueueTyped
        <3>1. [state |-> "none", tries |-> 0] \in JobRecords
            BY <2>1 DEF JobRecords, States
        <3>2. /\ job = [j \in Jobs |-> [state |-> "none", tries |-> 0]]
              /\ handler = [h \in Handlers |-> Idle]
            BY <1>1 DEF Init
        <3>3. job \in [Jobs -> JobRecords] /\ handler \in [Handlers -> HandlerRecords]
            BY <3>1, <3>2, IdleTyped
        <3>4. \A h \in Handlers : InPlace(handler[h])
            BY <3>2, IdleTyped
        <3>5. /\ asked \in [Callbacks -> {"none", "accepted", "refused"}]
              /\ configured \in Configs /\ boss \in {"none", "ready", "broken"}
              /\ overlapped \in BOOLEAN
            BY <1>1 DEF Init
        <3> QED
            BY <3>3, <3>4, <3>5 DEF QueueTyped
    <2>3. EffectsTyped
        BY <1>1 DEF Init, EffectsTyped, Ranks
    <2> QED
        BY <1>1, <2>1, <2>2, <2>3, Typed DEF Init
<1> QED
    BY <1>1, TypeStep, PTL DEF Spec

-----------------------------------------------------------------------------
(* 2. What was checked before it is acted on.                              *)

Checked == InsertChecked /\ GrantChecked

\* A handler that goes on, and one that ends, leaves the others as they are.
LEMMA OnlyOneMoves ==
    ASSUME TypeOK, NEW h \in Handlers, Step(h)
    PROVE  /\ \A g \in Handlers : g # h => handler'[g] = handler[g]
           /\ handler'[h] = Idle \/ handler'[h].job = handler[h].job
           /\ overlapped' = overlapped
           /\ blind \subseteq blind' /\ unseen \subseteq unseen'
<1>1. /\ Completes(h) \/ Throws(h) \/ \E pc, todo, cur : Goto(h, pc, todo, cur)
      /\ blind \subseteq blind' /\ unseen \subseteq unseen'
    <2>1. CASE Post(h) \/ Done(h)
        BY <2>1 DEF Post, Done
    <2>2. CASE kelvinCustomerId(h) \/ UsageList(h) \/ listOrgRepos(h)
        BY <2>2 DEF kelvinCustomerId, UsageList, listOrgRepos, Asks
    <2>3. CASE UsageNext(h)
        BY <2>3 DEF UsageNext
    <2>4. CASE insertUsage(h)
        BY <2>4 DEF insertUsage
    <2>5. CASE currentRank(h)
        BY <2>5 DEF currentRank
    <2>6. CASE grant(h)
        BY <2>6 DEF grant
    <2> QED
        BY <2>1, <2>2, <2>3, <2>4, <2>5, <2>6 DEF Step
<1>2. handler \in [Handlers -> HandlerRecords]
    BY DEF TypeOK, HandlerRecords
<1>3. CASE Completes(h) \/ Throws(h)
    BY <1>1, <1>2, <1>3 DEF Completes, Throws, Ends
<1>4. ASSUME NEW pc, NEW todo, NEW cur, Goto(h, pc, todo, cur)
      PROVE  /\ \A g \in Handlers : g # h => handler'[g] = handler[g]
             /\ handler'[h].job = handler[h].job /\ overlapped' = overlapped
    BY <1>2, <1>4 DEF Goto, HandlerRecords
<1> QED
    BY <1>1, <1>3, <1>4

\* While jobs are not handed out, no two attempts come to run at once.
LEMMA OneAttemptKept ==
    ASSUME OneAttempt, overlapped' = overlapped,
           \A g \in Handlers : handler'[g].job \in {handler[g].job, None}
    PROVE  OneAttempt'
BY DEF OneAttempt

\* A check holds on where no row, no rank and no handler at it changes.
LEMMA CheckedKept ==
    ASSUME Checked, rows' = rows, rank' = rank, blind \subseteq blind', unseen \subseteq unseen',
           overlapped => overlapped',
           \A g \in Handlers :
              \/ handler'[g].pc \notin {"insert", "grant"}
              \/ /\ handler'[g].pc = handler[g].pc /\ handler'[g].cur = handler[g].cur
                 /\ handler'[g].job = handler[g].job
    PROVE  Checked'
BY DEF Checked, InsertChecked, GrantChecked, At, found

\* The end of an attempt keeps what is known of the callbacks.
LEMMA EndsKept ==
    ASSUME TypeOK, AcceptedKept, NEW h \in Handlers, NEW to, Ends(h, to),
           \A c \in Callbacks : delivered[c] > 0 => delivered'[c] > 0,
           handler[h].job \in Callbacks =>
               /\ to.state # "none"
               /\ to.state = "completed" => delivered'[handler[h].job] > 0
    PROVE  AcceptedKept'
<1>1. job \in [Jobs -> JobRecords] /\ Callbacks \subseteq Jobs
    BY KindsOfJobs DEF TypeOK, JobRecords
<1> QED
    BY <1>1 DEF Ends, AcceptedKept

\* A handler that throws loses no callback that was accepted.
LEMMA ThrowsKept ==
    ASSUME TypeOK, AcceptedKept, NEW h \in Handlers, Throws(h),
           \A c \in Callbacks : delivered[c] > 0 => delivered'[c] > 0
    PROVE  AcceptedKept'
<1>1. handler[h].job \in Callbacks => Again(handler[h].job).state \in {"retry", "failed"}
    BY AgainTyped, KindsOfJobs
<1> QED
    BY <1>1, EndsKept DEF Throws

\* A callback is taken for done once its request was answered with success.
LEMMA AcceptedHandled ==
    ASSUME TypeOK, AcceptedKept, NEW h \in Handlers, Step(h)
    PROVE  AcceptedKept'
<1>1. /\ job \in [Jobs -> JobRecords] /\ InPlace(handler[h])
      /\ delivered \in [Callbacks -> Nat]
    BY DEF TypeOK, JobRecords
<1>2. CASE Post(h)
    <2>1. PICK c \in Callbacks :
             /\ At(h, c, "post")
             /\ \/ Throws(h) /\ delivered' \in {delivered, [delivered EXCEPT ![c] = @ + 1]}
                \/ Completes(h) /\ delivered' = [delivered EXCEPT ![c] = @ + 1]
        BY <1>2 DEF Post
    <2>2. \A d \in Callbacks : delivered[d] > 0 => delivered'[d] > 0
        BY <1>1, <2>1
    <2>3. CASE Throws(h)
        BY <2>2, <2>3, ThrowsKept
    <2>4. CASE Completes(h) /\ delivered' = [delivered EXCEPT ![c] = @ + 1]
        <3>1. handler[h].job = c /\ delivered'[c] > 0
            BY <1>1, <2>1, <2>4 DEF At
        <3>2. job[c] \in JobRecords
            BY <1>1, KindsOfJobs
        <3>3. [job[c] EXCEPT !.state = "completed"].state # "none"
            BY <3>2 DEF JobRecords
        <3> QED
            BY <2>2, <2>4, <3>1, <3>3, EndsKept DEF Completes
    <2> QED
        BY <2>1, <2>3, <2>4
<1>3. CASE Done(h)
    <2>1. handler[h].job \notin Callbacks
        BY <1>1, <1>3 DEF Done, InPlace
    <2> QED
        BY <1>3, <2>1, EndsKept DEF Done, Completes, targets
<1>4. CASE ~Post(h) /\ ~Done(h)
    <2>1. delivered' = delivered
        BY <1>4 DEF Step, kelvinCustomerId, UsageList, UsageNext, insertUsage, listOrgRepos,
           currentRank, grant, targets
    <2>2. Throws(h) \/ (job' = job /\ asked' = asked)
        BY <1>4 DEF Step, kelvinCustomerId, UsageList, UsageNext, insertUsage, listOrgRepos,
           currentRank, grant, Asks, Goto
    <2> QED
        BY <2>1, <2>2, ThrowsKept DEF AcceptedKept
<1> QED
    BY <1>2, <1>3, <1>4

\* What an execution's handler has checked is untouched by the other handlers,
\* as long as no other handler has the same job.
LEMMA CheckedHandled ==
    ASSUME TypeOK, TypeOK', OneAttempt, Checked, NEW h \in Handlers, Step(h)
    PROVE  Checked'
<1>1. /\ \A g \in Handlers : g # h => handler'[g] = handler[g]
      /\ overlapped' = overlapped /\ blind \subseteq blind' /\ unseen \subseteq unseen'
    BY OnlyOneMoves
<1>2. /\ handler \in [Handlers -> HandlerRecords] /\ \A g \in Handlers : InPlace(handler[g])
      /\ DOMAIN rows = Execs /\ rank \in [Repos -> Ranks]
    BY DEF TypeOK, HandlerRecords
<1>3. Idle.pc = "idle"
    BY DEF Idle
<1>4. CASE UsageNext(h)
    <2>1. PICK e \in handler[h].todo :
             /\ \/ Goto(h, "insert", handler[h].todo \ {e}, e) /\ found(e)
                   /\ (rows[e] = <<>> \/ e \in blind')
                \/ Goto(h, "next", handler[h].todo \ {e}, e)
                \/ Throws(h)
             /\ rows' = rows /\ rank' = rank
        BY <1>4 DEF UsageNext, alreadyRecorded, targets
    <2>2. CASE Goto(h, "insert", handler[h].todo \ {e}, e) /\ found(e)
               /\ (rows[e] = <<>> \/ e \in blind')
        <3>1. handler'[h].pc = "insert" /\ handler'[h].cur = e
            BY <1>2, <2>2 DEF Goto, HandlerRecords
        <3> QED
            BY <1>1, <2>1, <2>2, <3>1 DEF Checked, InsertChecked, GrantChecked, At, found
    <2>3. CASE Goto(h, "next", handler[h].todo \ {e}, e) \/ Throws(h)
        <3>1. handler'[h].pc \in {"next", "idle"}
            BY <1>2, <1>3, <2>3 DEF Goto, Throws, Ends, HandlerRecords
        <3> QED
            BY <1>1, <2>1, <3>1, CheckedKept
    <2> QED
        BY <2>1, <2>2, <2>3
<1>5. CASE insertUsage(h)
    <2>1. handler'[h].pc \in {"next", "idle"}
        BY <1>2, <1>3, <1>5 DEF insertUsage, Goto, Throws, Ends, HandlerRecords
    <2>2. /\ rank' = rank /\ handler[h].job = "usage"
          /\ rows' \in {rows, [rows EXCEPT ![handler[h].cur] = Append(@, extractUsage(handler[h].cur))]}
        BY <1>5 DEF insertUsage, At
    <2>3. ASSUME NEW g \in Handlers, At(g, "usage", "insert")'
          PROVE  /\ found(handler'[g].cur)
                 /\ rows'[handler'[g].cur] = <<>> \/ handler'[g].cur \in blind' \/ overlapped'
        <3>1. g # h
            BY <2>1, <2>3 DEF At
        <3>2. handler'[g] = handler[g] /\ handler[g].job = "usage"
            BY <1>1, <2>3, <3>1 DEF At
        <3>3. overlapped
            BY <2>2, <3>1, <3>2 DEF OneAttempt, None
        <3>4. found(handler[g].cur)
            BY <2>3, <3>2 DEF Checked, InsertChecked, At
        <3> QED
            BY <1>1, <3>2, <3>3, <3>4 DEF found
    <2>4. GrantChecked'
        BY <1>1, <2>1, <2>2 DEF Checked, GrantChecked, At
    <2> QED
        BY <2>3, <2>4 DEF Checked, InsertChecked
<1>6. CASE currentRank(h)
    <2>1. PICK r \in handler[h].todo :
             /\ \/ Goto(h, "grant", handler[h].todo \ {r}, r) /\ (rank[r] < Target \/ r \in unseen')
                \/ Goto(h, "next", handler[h].todo \ {r}, r)
             /\ rows' = rows /\ rank' = rank
        BY <1>6 DEF currentRank, targets
    <2>2. CASE Goto(h, "grant", handler[h].todo \ {r}, r) /\ (rank[r] < Target \/ r \in unseen')
        <3>1. handler'[h].pc = "grant" /\ handler'[h].cur = r
            BY <1>2, <2>2 DEF Goto, HandlerRecords
        <3>2. r \in Repos /\ rank[r] \in Ranks
            BY <1>2, <1>6, <2>1 DEF currentRank, At, InPlace
        <3> QED
            BY <1>1, <2>1, <2>2, <3>1, <3>2
            DEF Checked, InsertChecked, GrantChecked, At, found, Target, Ranks
    <2>3. CASE Goto(h, "next", handler[h].todo \ {r}, r)
        <3>1. handler'[h].pc = "next"
            BY <1>2, <2>3 DEF Goto, HandlerRecords
        <3> QED
            BY <1>1, <2>1, <3>1, CheckedKept
    <2> QED
        BY <2>1, <2>2, <2>3
<1>7. CASE grant(h)
    <2>1. handler'[h].pc = "next" /\ rows' = rows
        BY <1>2, <1>7 DEF grant, Goto, HandlerRecords
    <2>2. rank' \in {rank, [rank EXCEPT ![handler[h].cur] = Target]}
        BY <1>7 DEF grant
    <2>3. \A r \in Repos : rank'[r] <= Target \/ rank'[r] = rank[r]
        BY <1>2, <2>2 DEF Target, Ranks
    <2>4. GrantChecked'
        BY <1>1, <1>2, <2>1, <2>3 DEF Checked, GrantChecked, At, InPlace
    <2> QED
        BY <1>1, <2>1, <2>4 DEF Checked, InsertChecked, At, found
<1>8. CASE Post(h) \/ kelvinCustomerId(h) \/ UsageList(h) \/ listOrgRepos(h) \/ Done(h)
    <2>1. rows' = rows /\ rank' = rank
        BY <1>8 DEF Post, kelvinCustomerId, UsageList, listOrgRepos, Done, targets
    <2>2. handler'[h].pc \in {"idle", "executions", "next"}
        BY <1>2, <1>3, <1>8 DEF Post, kelvinCustomerId, UsageList, listOrgRepos, Done, Asks, Goto,
           Completes, Throws, Ends, HandlerRecords
    <2> QED
        BY <1>1, <2>1, <2>2, CheckedKept
<1> QED
    BY <1>4, <1>5, <1>6, <1>7, <1>8 DEF Step

\* A row is added by its execution's handler, after the check.
LEMMA RowsHandled ==
    ASSUME TypeOK, InsertChecked, RecordedOnce, OnlyUsage, NEW h \in Handlers, Step(h)
    PROVE  RecordedOnce' /\ OnlyUsage'
<1>1. overlapped' = overlapped /\ blind \subseteq blind'
    BY OnlyOneMoves
<1>2. CASE rows' = rows
    BY <1>1, <1>2 DEF RecordedOnce, OnlyUsage, found
<1>3. CASE insertUsage(h) /\ rows' # rows
    <2> DEFINE e == handler[h].cur
    <2>1. e \in Execs /\ At(h, "usage", "insert")
        BY <1>3 DEF insertUsage, At, TypeOK, InPlace
    <2>2. rows' = [rows EXCEPT ![e] = Append(@, extractUsage(e))]
        BY <1>3 DEF insertUsage
    <2>3. found(e) /\ (rows[e] = <<>> \/ e \in blind \/ overlapped)
        BY <2>1 DEF InsertChecked
    <2>4. rows[e] = <<>> => ~(Len(rows'[e]) > 1)
        BY <2>1, <2>2 DEF TypeOK
    <2>5. \A x \in Execs : x # e => rows'[x] = rows[x]
        BY <2>2 DEF TypeOK
    <2> HIDE DEF e
    <2>6. RecordedOnce'
        <3>1. Len(rows'[e]) > 1 => e \in blind \/ overlapped
            BY <2>3, <2>4
        <3> QED
            BY <1>1, <2>1, <2>5, <3>1 DEF RecordedOnce
    <2>7. OnlyUsage'
        BY <2>1, <2>3, <2>5 DEF OnlyUsage, found
    <2> QED
        BY <2>6, <2>7
<1>4. insertUsage(h) \/ rows' = rows
    BY DEF Step, Post, kelvinCustomerId, UsageList, UsageNext, listOrgRepos, currentRank,
       grant, Done, targets
<1> QED
    BY <1>2, <1>3, <1>4

\* The control plane's and pg-boss's own steps leave the checks alone; an
\* administrator's change between a read and a grant is remembered.
LEMMA QueueStepsKeep ==
    ASSUME TypeOK, TypeOK', WorkerInv,
           \/ \E c \in Callbacks : enqueueAppCallback(c)
           \/ ApiRestart \/ Crash
           \/ \E j \in Jobs : Cron(j) \/ Expire(j) \/ ExpireDead(j)
           \/ \E h \in Handlers, j \in Jobs : Work(h, j)
           \/ \E r \in Repos : Admin(r)
    PROVE  WorkerInv'
<1> USE DEF targets, ghosts
<1>1. /\ Checked /\ OneAttempt /\ AcceptedKept /\ RecordedOnce /\ OnlyUsage
      /\ handler \in [Handlers -> HandlerRecords] /\ rank \in [Repos -> Ranks]
      /\ job \in [Jobs -> JobRecords] /\ job' \in [Jobs -> JobRecords] /\ Callbacks \subseteq Jobs
      /\ Idle.pc = "idle" /\ Idle.job = None
    BY KindsOfJobs DEF WorkerInv, Checked, TypeOK, HandlerRecords, JobRecords, Idle
<1>2. ASSUME rows' = rows, blind' = blind, overlapped => overlapped'
      PROVE  RecordedOnce' /\ OnlyUsage'
    BY <1>1, <1>2 DEF RecordedOnce, OnlyUsage, found
<1>3. ASSUME asked' = asked, delivered' = delivered,
             \A j \in Jobs : job'[j] = job[j] \/ job'[j].state \notin {"none", "completed"}
      PROVE  AcceptedKept'
    BY <1>1, <1>3 DEF AcceptedKept
<1>4. ASSUME NEW c \in Callbacks, enqueueAppCallback(c) PROVE WorkerInv'
    <2>1. AcceptedKept'
        <3>1. \A d \in Callbacks : d # c => job'[d] = job[d] /\ asked'[d] = asked[d]
            BY <1>1, <1>4 DEF enqueueAppCallback, TypeOK
        <3>2. \/ job'[c] = job[c] /\ asked'[c] = "refused"
              \/ job'[c] = job[c] /\ asked'[c] = asked[c]
              \/ job'[c] = (IF Over(c) THEN Created ELSE job[c])
            BY <1>1, <1>4 DEF enqueueAppCallback, TypeOK
        <3>3. Created.state = "created"
            BY DEF Created
        <3>4. delivered' = delivered /\ job[c] \in JobRecords
            BY <1>1, <1>4 DEF enqueueAppCallback
        <3> QED
            BY <1>1, <3>1, <3>2, <3>3, <3>4 DEF AcceptedKept, Over, JobRecords
    <2>2. UNCHANGED <<handler, delivered, rows, rank, invited, blind, unseen, overlapped>>
        BY <1>4 DEF enqueueAppCallback
    <2>3. Checked' /\ OneAttempt'
        BY <1>1, <2>2, CheckedKept DEF OneAttempt
    <2> QED
        BY <1>2, <2>1, <2>2, <2>3 DEF WorkerInv, Checked
<1>5. CASE ApiRestart
    <2>1. Checked' /\ OneAttempt' /\ AcceptedKept'
        BY <1>1, <1>3, <1>5, CheckedKept DEF ApiRestart, OneAttempt
    <2> QED
        BY <1>2, <1>5, <2>1 DEF ApiRestart, WorkerInv, Checked
<1>6. CASE Crash
    <2>1. \A h \in Handlers : handler'[h] = Idle
        BY <1>6 DEF Crash
    <2>2. Checked' /\ OneAttempt' /\ AcceptedKept'
        BY <1>1, <1>3, <1>6, <2>1, CheckedKept, OneAttemptKept DEF Crash
    <2> QED
        BY <1>2, <1>6, <2>2 DEF Crash, WorkerInv, Checked
<1>7. ASSUME NEW j \in Jobs, Cron(j) \/ Expire(j) \/ ExpireDead(j) PROVE WorkerInv'
    <2>1. /\ UNCHANGED <<asked, delivered, rows, rank, blind, unseen, overlapped>>
          /\ job' \in {[job EXCEPT ![j] = Created], [job EXCEPT ![j] = Again(j)]}
        BY <1>7 DEF Cron, Expire, ExpireDead
    <2>2. ASSUME NEW h \in Handlers
          PROVE  /\ handler'[h].pc = handler[h].pc /\ handler'[h].cur = handler[h].cur
                 /\ handler'[h].job = handler[h].job
        <3>1. handler[h] \in HandlerRecords
            BY <1>1
        <3>2. handler'[h] \in {handler[h], [handler[h] EXCEPT !.lost = TRUE]}
            BY <1>7 DEF Cron, Expire, ExpireDead
        <3> QED
            BY <3>1, <3>2 DEF HandlerRecords
    <2>3. Created.state = "created" /\ Again(j).state \in {"retry", "failed"}
        BY AgainTyped DEF Created
    <2>4. \A i \in Jobs : job'[i] = job[i] \/ job'[i].state \notin {"none", "completed"}
        BY <1>1, <2>1, <2>3
    <2>5. Checked' /\ OneAttempt' /\ AcceptedKept'
        BY <1>1, <1>3, <2>1, <2>2, <2>4, CheckedKept, OneAttemptKept
    <2> QED
        BY <1>2, <2>1, <2>5 DEF WorkerInv, Checked
<1>8. ASSUME NEW h \in Handlers, NEW j \in Jobs, Work(h, j) PROVE WorkerInv'
    <2>1. /\ UNCHANGED <<asked, delivered, rows, rank, blind, unseen>>
          /\ job' = [job EXCEPT ![j].state = "active"]
          /\ overlapped => overlapped'
          /\ (\E g \in Handlers : handler[g].job = j) => overlapped'
        BY <1>8 DEF Work
    <2>2. \A g \in Handlers : g # h => handler'[g] = handler[g]
        BY <1>1, <1>8 DEF Work
    <2>3. handler'[h].job = j /\ handler'[h].pc \in {"post", "list"}
        BY <1>1, <1>8 DEF Work, Idle
    <2>4. \A i \in Jobs : job'[i] = job[i] \/ job'[i].state \notin {"none", "completed"}
        BY <1>1, <2>1 DEF JobRecords
    <2>5. OneAttempt'
        BY <1>1, <2>1, <2>3, <2>2 DEF OneAttempt
    <2>6. Checked' /\ AcceptedKept'
        BY <1>1, <1>3, <2>1, <2>3, <2>4, <2>2, CheckedKept
    <2> QED
        BY <1>2, <2>1, <2>5, <2>6 DEF WorkerInv, Checked
<1>9. ASSUME NEW r \in Repos, Admin(r) PROVE WorkerInv'
    <2>1. /\ UNCHANGED <<asked, job, handler, delivered, rows, blind, overlapped>>
          /\ unseen \subseteq unseen'
          /\ (\E h \in Handlers : At(h, "access", "grant") /\ handler[h].cur = r) => r \in unseen'
          /\ \A q \in Repos : q # r => rank'[q] = rank[q]
        BY <1>1, <1>9 DEF Admin
    <2>2. InsertChecked' /\ OneAttempt' /\ AcceptedKept'
        BY <1>1, <1>3, <2>1 DEF Checked, InsertChecked, OneAttempt, At, found
    <2>3. GrantChecked'
        BY <1>1, <2>1 DEF Checked, GrantChecked, At, TypeOK, InPlace
    <2> QED
        BY <1>2, <2>1, <2>2, <2>3 DEF WorkerInv
<1> QED
    BY <1>4, <1>5, <1>6, <1>7, <1>8, <1>9

\* The invariant is kept by every step.
LEMMA WorkerStep == WorkerInv /\ [Next]_vars => WorkerInv'
<1> SUFFICES ASSUME WorkerInv, [Next]_vars PROVE WorkerInv'
    OBVIOUS
<1>1. TypeOK /\ TypeOK' /\ OneAttempt /\ Checked /\ RecordedOnce /\ OnlyUsage /\ AcceptedKept
    BY TypeStep DEF WorkerInv, Checked
<1>2. ASSUME NEW h \in Handlers, Step(h) PROVE WorkerInv'
    <2>1. OneAttempt'
        <3>1. \A g \in Handlers : handler'[g].job \in {handler[g].job, None}
            BY <1>1, <1>2, OnlyOneMoves DEF Idle
        <3> QED
            BY <1>1, <1>2, <3>1, OnlyOneMoves, OneAttemptKept
    <2> QED
        BY <1>1, <1>2, <2>1, CheckedHandled, RowsHandled, AcceptedHandled DEF WorkerInv, Checked
<1>3. CASE UNCHANGED vars
    BY <1>1, <1>3 DEF vars, targets, ghosts, WorkerInv, Checked, OneAttempt, InsertChecked,
       GrantChecked, RecordedOnce, OnlyUsage, AcceptedKept, At, found
<1> QED
    BY <1>1, <1>2, <1>3, QueueStepsKeep DEF Next

\* The invariant holds in every reachable state: what was checked before a row
\* is inserted or a permission set still holds when it is.
THEOREM WorkerInvariant == Spec => []WorkerInv
<1>1. ASSUME Init, TypeOK PROVE WorkerInv
    <2>1. /\ \A h \in Handlers : handler[h].job = None /\ handler[h].pc = "idle"
          /\ \A e \in Execs : rows[e] = <<>>
          /\ \A c \in Callbacks : asked[c] = "none" /\ job[c].state = "none"
        BY <1>1, KindsOfJobs DEF Init, Idle
    <2> QED
        BY <1>1, <2>1
        DEF WorkerInv, OneAttempt, InsertChecked, GrantChecked, RecordedOnce, OnlyUsage,
            AcceptedKept, At
<1> QED
    BY <1>1, WorkerStep, WorkerTypeOK, PTL DEF Spec

\* An execution's usage is recorded at most once, however often the job was
\* retried, expired or cut short, unless its check could not be read or two
\* attempts ran at once.
THEOREM UsageOnce == Spec => []RecordedOnce
<1>1. WorkerInv => RecordedOnce
    BY DEF WorkerInv
<1> QED
    BY <1>1, WorkerInvariant, PTL

\* An accepted callback is never lost before it is worked on, and is not taken
\* for done unless the app's endpoint answered with success.
THEOREM CallbacksKept == Spec => []AcceptedKept
<1>1. WorkerInv => AcceptedKept
    BY DEF WorkerInv
<1> QED
    BY <1>1, WorkerInvariant, PTL

\* The bot's permission on a repository is lowered by an administrator alone,
\* unless its rank could not be read or changed between the read and the grant.
THEOREM NeverLowered == Spec => LoweredOnlyUnseen
<1>1. ASSUME WorkerInv, [Next]_vars
      PROVE  [\A r \in Repos : rank'[r] < rank[r] => r \in unseen \/ Admin(r)]_vars
    <2>1. rank \in [Repos -> Ranks] /\ rank' \in [Repos -> Ranks]
        BY <1>1, WorkerStep DEF WorkerInv, TypeOK
    <2>2. ASSUME NEW h \in Handlers, grant(h), NEW r \in Repos, rank'[r] < rank[r]
          PROVE  r \in unseen
        <3>1. handler[h].cur = r /\ rank'[r] = Target /\ At(h, "access", "grant")
            BY <2>1, <2>2 DEF grant, Ranks
        <3> QED
            BY <1>1, <2>1, <2>2, <3>1 DEF WorkerInv, GrantChecked, Target, Ranks
    <2>3. ASSUME NEW q \in Repos, Admin(q), NEW r \in Repos, rank'[r] < rank[r]
          PROVE  Admin(r)
        <3>1. q = r
            BY <2>1, <2>3 DEF Admin, Ranks
        <3> QED
            BY <2>3, <3>1
    <2>4. \/ \E h \in Handlers : grant(h)
          \/ \E r \in Repos : Admin(r)
          \/ rank' = rank
        BY <1>1
        DEF Next, Step, enqueueAppCallback, ApiRestart, Crash, Cron, Expire, ExpireDead, Work,
            Post, kelvinCustomerId, UsageList, UsageNext, insertUsage, listOrgRepos, currentRank,
            Done, targets, vars
    <2>5. CASE rank' = rank
        BY <2>1, <2>5 DEF Ranks
    <2> QED
        BY <2>2, <2>3, <2>4, <2>5
<1> QED
    BY <1>1, WorkerInvariant, PTL DEF Spec, LoweredOnlyUnseen

=============================================================================
