-------------------------------- MODULE Worker --------------------------------
(***************************************************************************)
(* Durable jobs.  The control plane enqueues callbacks of the apps; the    *)
(* fleet's worker runs them, and two reconcilers on a schedule: one copies *)
(* token usage into rows, one keeps the review bot's access to the         *)
(* repositories.  pg-boss (external) keeps the jobs: it hands a job out at *)
(* least once, retries a failed one up to a limit, and takes a job for     *)
(* failed when its handler is silent for too long, which does not stop the *)
(* handler.  The worker may crash at any point and starts again.           *)
(***************************************************************************)
EXTENDS Naturals, FiniteSets, Sequences, SequencesExt

CONSTANTS
    Handlers,    \* handlers that run at the same time
    Callbacks,   \* callbacks the apps enqueue, one job each
    Execs,       \* executions listed by the platform
    Usage,       \* the token fields of each execution's events, in order
    Repos,       \* active repositories in scope
    Locked,      \* those the token may not administer
    Configs,     \* what a worker may have the settings for
    RetryLimit,  \* retries of a failed job
    MaxFaults    \* bound: failures and outside changes in a behaviour

Jobs == {"usage", "access"} \cup Callbacks

Fields == {"prompt", "completion", "total"}

ASSUME WorkerAssumption ==
    /\ Locked \subseteq Repos
    /\ {"usage", "access", "none"} \cap Callbacks = {}
    /\ Usage \in [Execs -> Seq(Fields \X Nat)]
    /\ Configs \subseteq SUBSET {"usage", "access", "callback"}
    /\ RetryLimit \in Nat /\ MaxFaults \in Nat

-----------------------------------------------------------------------------
(* Token fields.                                                           *)

\* Fault: a total is added to what was counted before it.
CountTwice(acc, field) == acc + field[2]

\* A total counts only as long as nothing else has been counted.
Count(acc, field) ==
    IF field[1] = "total" /\ acc # 0 THEN acc ELSE acc + field[2]

found(e) == Usage[e] # <<>>

extractUsage(e) == FoldLeft(Count, 0, Usage[e])

-----------------------------------------------------------------------------

VARIABLES
    configured, \* the reconcilers, and callbacks, that have their settings
    boss,       \* the control plane's memoised handle on pg-boss
    asked,      \* what the caller of an enqueue was last told
    job,        \* pg-boss: the state and the retries of each job
    handler,    \* the handlers and their locals
    delivered,  \* requests each callback's endpoint has answered with success
    rows,       \* the totals of the usage rows of each execution
    rank,       \* the bot's permission on each repository
    invited,    \* repositories it was invited to
    faults,     \* failures and outside changes so far
    blind,      \* executions inserted after a check that could not be read
    unseen,     \* repositories granted without their current rank
    overlapped  \* a job was handed out while an earlier handler of it ran

targets == <<delivered, rows, rank, invited>>
ghosts  == <<blind, unseen, overlapped>>
vars    == <<configured, boss, asked, job, handler, targets, faults, ghosts>>

None   == "none"
Target == 3          \* push; maintain is 4, read 1
Ranks  == 0 .. 5

States == {"none", "created", "active", "retry", "completed", "failed"}
PCs    == {"idle", "list", "executions", "next", "insert", "grant", "post"}

Idle == [job |-> None, pc |-> "idle", todo |-> {}, cur |-> None, lost |-> FALSE]

\* Where a handler may be, and what its locals are, by the job it has.
InPlace(w) ==
    /\ w.job \in Callbacks => w.pc = "post"
    /\ w.job = "usage" => /\ w.pc \in {"list", "executions", "next", "insert"}
                          /\ w.todo \subseteq Execs
                          /\ w.pc = "insert" => w.cur \in Execs
    /\ w.job = "access" => /\ w.pc \in {"list", "next", "grant"}
                           /\ w.todo \subseteq Repos
                           /\ w.pc = "grant" => w.cur \in Repos
    /\ w.job = None => w = Idle

TypeOK ==
    /\ configured \in Configs /\ boss \in {"none", "ready", "broken"}
    /\ asked \in [Callbacks -> {"none", "accepted", "refused"}]
    /\ job \in [Jobs -> [state: States, tries: 0 .. RetryLimit]]
    /\ handler \in [Handlers -> [job: Jobs \cup {None}, pc: PCs,
                                 todo: SUBSET (Execs \cup Repos),
                                 cur: Execs \cup Repos \cup {None}, lost: BOOLEAN]]
    /\ \A h \in Handlers : InPlace(handler[h])
    /\ delivered \in [Callbacks -> Nat]
    /\ DOMAIN rows = Execs /\ \A e \in Execs : rows[e] \in Seq({extractUsage(e)})
    /\ rank \in [Repos -> Ranks] /\ invited \in SUBSET Repos
    /\ faults \in 0 .. MaxFaults
    /\ blind \in SUBSET Execs /\ unseen \in SUBSET Repos
    /\ overlapped \in BOOLEAN

Init ==
    /\ configured \in Configs
    /\ boss = "none" /\ asked = [c \in Callbacks |-> "none"]
    /\ job = [j \in Jobs |-> [state |-> "none", tries |-> 0]]
    /\ handler = [h \in Handlers |-> Idle]
    /\ delivered = [c \in Callbacks |-> 0] /\ rows = [e \in Execs |-> <<>>]
    /\ rank = [r \in Repos |-> 0] /\ invited = {} /\ faults = 0
    /\ blind = {} /\ unseen = {} /\ overlapped = FALSE

Fault == faults < MaxFaults /\ faults' = faults + 1

-----------------------------------------------------------------------------
(* The queue.                                                              *)

Created == [state |-> "created", tries |-> 0]

Over(j) == job[j].state \in {"none", "completed", "failed"}

\* Fault: the start of pg-boss is not waited for.
enqueueUnawaited(c) ==
    /\ asked[c] # "accepted"
    /\ asked' = [asked EXCEPT ![c] = "accepted"]
    /\ \/ boss' = "ready" /\ UNCHANGED faults /\ job' = [job EXCEPT ![c] = Created]
       \/ boss' = "broken" /\ Fault /\ UNCHANGED job
    /\ UNCHANGED <<configured, handler, targets, ghosts>>

\* The control plane sends a callback.  The first send starts pg-boss; a start
\* that fails is remembered until the process is started again.  The job may
\* have been stored although the answer was lost; a job that is still queued
\* or active is not sent again.
enqueueAppCallback(c) ==
    /\ asked[c] # "accepted"
    /\ \/ /\ boss = "broken" /\ asked' = [asked EXCEPT ![c] = "refused"]
          /\ asked # asked' /\ UNCHANGED <<configured, boss, job, faults>>
       \/ /\ boss = "none" /\ boss' = "broken" /\ Fault
          /\ asked' = [asked EXCEPT ![c] = "refused"] /\ UNCHANGED job
       \/ /\ boss # "broken" /\ boss' = "ready" /\ UNCHANGED faults
          /\ asked' = [asked EXCEPT ![c] = "accepted"]
          /\ job' = [job EXCEPT ![c] = IF Over(c) THEN Created ELSE @]
       \/ /\ boss # "broken" /\ boss' = "ready" /\ Fault
          /\ asked' = [asked EXCEPT ![c] = "refused"]
          /\ \/ UNCHANGED job
             \/ job' = [job EXCEPT ![c] = IF Over(c) THEN Created ELSE @]
    /\ UNCHANGED <<configured, handler, targets, ghosts>>

ApiRestart ==
    /\ boss # "none" /\ boss' = "none" /\ Fault
    /\ UNCHANGED <<configured, asked, job, handler, targets, ghosts>>

\* pg-boss's cron creates the job again, one at a time.  A reconciler without
\* its settings runs too, but ends at once.
Cron(j) ==
    /\ j \in configured /\ Over(j)
    /\ job' = [job EXCEPT ![j] = Created]
    /\ UNCHANGED <<configured, boss, asked, handler, targets, faults, ghosts>>

\* boss.work hands a job to its handler.
Work(h, j) ==
    /\ handler[h] = Idle /\ job[j].state \in {"created", "retry"}
    /\ job' = [job EXCEPT ![j].state = "active"]
    /\ handler' = [handler EXCEPT ![h] =
                     [Idle EXCEPT !.job = j, !.pc = IF j \in Callbacks THEN "post" ELSE "list"]]
    /\ overlapped' = (overlapped \/ \E g \in Handlers : handler[g].job = j)
    /\ UNCHANGED <<configured, boss, asked, targets, faults, blind, unseen>>

Again(j) == IF job[j].tries < RetryLimit
            THEN [state |-> "retry", tries |-> job[j].tries + 1]
            ELSE [job[j] EXCEPT !.state = "failed"]

\* The handler ends; pg-boss hears of it unless it has given the attempt up.
Ends(h, to) ==
    /\ handler' = [handler EXCEPT ![h] = Idle]
    /\ job' = IF handler[h].lost THEN job
              ELSE [job EXCEPT ![handler[h].job] = to]
    /\ UNCHANGED <<configured, boss, asked, overlapped>>

Completes(h) == Ends(h, [job[handler[h].job] EXCEPT !.state = "completed"])

\* The handler throws, which the entrypoint passes on.
Throws(h) == Ends(h, Again(handler[h].job))

\* The attempt is given up, its handler goes on.
Expire(j) ==
    /\ job[j].state = "active" /\ Fault
    /\ job' = [job EXCEPT ![j] = Again(j)]
    /\ handler' = [h \in Handlers |-> IF handler[h].job = j
                                      THEN [handler[h] EXCEPT !.lost = TRUE]
                                      ELSE handler[h]]
    /\ UNCHANGED <<configured, boss, asked, targets, ghosts>>

\* The worker dies and starts again; its jobs stay active until they expire.
Crash ==
    /\ \E h \in Handlers : handler[h] # Idle
    /\ Fault /\ handler' = [h \in Handlers |-> Idle]
    /\ UNCHANGED <<configured, boss, asked, job, targets, ghosts>>

\* What no handler works on any more expires in the end.
ExpireDead(j) ==
    /\ job[j].state = "active"
    /\ ~\E h \in Handlers : handler[h].job = j /\ ~handler[h].lost
    /\ job' = [job EXCEPT ![j] = Again(j)]
    /\ UNCHANGED <<configured, boss, asked, handler, targets, faults, ghosts>>

Goto(h, pc, todo, cur) ==
    /\ handler' = [handler EXCEPT ![h].pc = pc, ![h].todo = todo, ![h].cur = cur]
    /\ UNCHANGED <<configured, boss, asked, job, overlapped>>

At(h, j, pc) == handler[h].job = j /\ handler[h].pc = pc

-----------------------------------------------------------------------------
(* app-callback.                                                           *)

\* Fault: the answer's status is not looked at.
PostIgnoresStatus(h) ==
    \E c \in Callbacks :
        /\ At(h, c, "post")
        /\ \/ /\ "callback" \in configured
              /\ delivered' = [delivered EXCEPT ![c] = @ + 1]
              /\ Completes(h) /\ UNCHANGED faults
           \/ "callback" \in configured /\ Fault /\ Completes(h) /\ UNCHANGED delivered
           \/ "callback" \notin configured /\ Throws(h) /\ UNCHANGED <<delivered, faults>>
        /\ UNCHANGED <<rows, rank, invited, blind, unseen>>

\* Without a secret, or for a host that is not allowlisted, it throws.  A request may
\* be answered with an error, or succeed with its answer lost.
Post(h) ==
    \E c \in Callbacks :
        /\ At(h, c, "post")
        /\ \/ /\ "callback" \in configured
              /\ delivered' = [delivered EXCEPT ![c] = @ + 1]
              /\ \/ Completes(h) /\ UNCHANGED faults
                 \/ Throws(h) /\ Fault
           \/ "callback" \in configured /\ Fault /\ Throws(h) /\ UNCHANGED delivered
           \/ "callback" \notin configured /\ Throws(h) /\ UNCHANGED <<delivered, faults>>
        /\ UNCHANGED <<rows, rank, invited, blind, unseen>>

-----------------------------------------------------------------------------
(* kapso-pull-usage.                                                       *)

\* A request without which the run cannot go on: answered, or it throws.
Asks(h, goesOn) == (goesOn /\ UNCHANGED faults) \/ (Throws(h) /\ Fault)

kelvinCustomerId(h) ==
    /\ At(h, "usage", "list") /\ Asks(h, Goto(h, "executions", {}, None))
    /\ UNCHANGED <<targets, blind, unseen>>

UsageList(h) ==
    /\ At(h, "usage", "executions") /\ Asks(h, Goto(h, "next", Execs, None))
    /\ UNCHANGED <<targets, blind, unseen>>

alreadyRecorded(e) == rows[e] # <<>>

\* Fault: the check finds the row of any execution.
UsageNextAnyRow(h) ==
    /\ At(h, "usage", "next")
    /\ \E e \in handler[h].todo :
          /\ Goto(h, IF found(e) /\ \A f \in Execs : rows[f] = <<>> THEN "insert" ELSE "next",
                  handler[h].todo \ {e}, e)
          /\ UNCHANGED <<faults, blind>>
    /\ UNCHANGED <<targets, unseen>>

\* Fault: no check before the insert.
UsageNextUnchecked(h) ==
    /\ At(h, "usage", "next")
    /\ \E e \in handler[h].todo :
          /\ Goto(h, IF found(e) THEN "insert" ELSE "next", handler[h].todo \ {e}, e)
          /\ UNCHANGED <<faults, blind>>
    /\ UNCHANGED <<targets, unseen>>

\* Events read and looked up.  Unreadable events end the run; a check that
\* cannot be read falls through to the insert.
UsageNext(h) ==
    /\ At(h, "usage", "next")
    /\ \E e \in handler[h].todo :
          \/ /\ Goto(h, IF found(e) /\ ~alreadyRecorded(e) THEN "insert" ELSE "next",
                     handler[h].todo \ {e}, e)
             /\ UNCHANGED <<faults, blind>>
          \/ /\ found(e) /\ Fault /\ blind' = blind \cup {e}
             /\ Goto(h, "insert", handler[h].todo \ {e}, e)
          \/ Throws(h) /\ Fault /\ UNCHANGED blind
    /\ UNCHANGED <<targets, unseen>>

\* One row for the execution; the insert may fail, or succeed with its answer
\* lost, and either ends the run.
insertUsage(h) ==
    LET e == handler[h].cur IN
    /\ At(h, "usage", "insert")
    /\ \/ /\ rows' = [rows EXCEPT ![e] = Append(@, extractUsage(e))]
          /\ \/ Goto(h, "next", handler[h].todo, None) /\ UNCHANGED faults
             \/ Throws(h) /\ Fault
       \/ Throws(h) /\ Fault /\ UNCHANGED rows
    /\ UNCHANGED <<delivered, rank, invited, blind, unseen>>

-----------------------------------------------------------------------------
(* brokk-access-reconcile.                                                 *)

listOrgRepos(h) ==
    /\ At(h, "access", "list") /\ Asks(h, Goto(h, "next", Repos, None))
    /\ UNCHANGED <<targets, blind, unseen>>

\* Fault: the current permission is not compared.
currentRankIgnored(h) ==
    /\ At(h, "access", "next")
    /\ \E r \in handler[h].todo : Goto(h, "grant", handler[h].todo \ {r}, r)
    /\ UNCHANGED <<targets, faults, blind, unseen>>

\* A rank that cannot be read counts as too low; a request that throws skips
\* the repository until the next run.
currentRank(h) ==
    /\ At(h, "access", "next")
    /\ \E r \in handler[h].todo :
          \/ /\ Goto(h, IF rank[r] < Target THEN "grant" ELSE "next",
                     handler[h].todo \ {r}, r)
             /\ UNCHANGED <<faults, unseen>>
          \/ /\ Fault /\ unseen' = unseen \cup {r}
             /\ Goto(h, "grant", handler[h].todo \ {r}, r)
          \/ Fault /\ Goto(h, "next", handler[h].todo \ {r}, r) /\ UNCHANGED unseen
    /\ UNCHANGED <<targets, blind>>

\* Fault: a repository that cannot be administered fails the whole run.
grantThrows(h) ==
    LET r == handler[h].cur IN
    /\ At(h, "access", "grant")
    /\ IF r \in Locked
       THEN Throws(h) /\ UNCHANGED rank
       ELSE Goto(h, "next", handler[h].todo, None) /\ rank' = [rank EXCEPT ![r] = Target]
    /\ UNCHANGED <<delivered, rows, invited, faults, blind, unseen>>

\* The permission is set, whatever it was; someone from outside is invited.
\* Errors are swallowed.
grant(h) ==
    LET r == handler[h].cur IN
    /\ At(h, "access", "grant")
    /\ Goto(h, "next", handler[h].todo, None)
    /\ \/ /\ r \notin Locked
          /\ \/ rank' = [rank EXCEPT ![r] = Target] /\ UNCHANGED invited
             \/ rank[r] = 0 /\ invited' = invited \cup {r} /\ UNCHANGED rank
          /\ UNCHANGED faults
       \/ r \in Locked /\ UNCHANGED <<rank, invited, faults>>
       \/ Fault /\ UNCHANGED <<rank, invited>>
    /\ UNCHANGED <<delivered, rows, blind, unseen>>

\* An administrator changes the bot's permission, perhaps after it was read.
Admin(r) ==
    /\ Fault /\ \E n \in {1, 5} : rank' = [rank EXCEPT ![r] = n]
    /\ unseen' = IF \E h \in Handlers : At(h, "access", "grant") /\ handler[h].cur = r
                 THEN unseen \cup {r} ELSE unseen
    /\ UNCHANGED <<configured, boss, asked, job, handler, delivered, rows, invited, blind, overlapped>>

\* The loop of either reconciler ends.
Done(h) ==
    /\ handler[h].pc = "next" /\ handler[h].todo = {}
    /\ Completes(h)
    /\ UNCHANGED <<targets, faults, blind, unseen>>

-----------------------------------------------------------------------------

Step(h) ==
    \/ Post(h) \/ kelvinCustomerId(h) \/ UsageList(h) \/ UsageNext(h) \/ insertUsage(h)
    \/ listOrgRepos(h) \/ currentRank(h) \/ grant(h) \/ Done(h)

Next ==
    \/ \E c \in Callbacks : enqueueAppCallback(c)
    \/ ApiRestart \/ Crash
    \/ \E j \in Jobs : Cron(j) \/ Expire(j) \/ ExpireDead(j)
    \/ \E h \in Handlers : Step(h) \/ \E j \in Jobs : Work(h, j)
    \/ \E r \in Repos : Admin(r)

Spec == Init /\ [][Next]_vars

\* The cron fires, each queue's worker takes its jobs and runs them on.
FairSpec ==
    /\ Spec
    /\ \A h \in Handlers : WF_vars(Step(h))
    /\ \A j \in Jobs : /\ WF_vars(Cron(j)) /\ WF_vars(ExpireDead(j))
                       /\ SF_vars(\E h \in Handlers : Work(h, j))

-----------------------------------------------------------------------------
(* Properties.                                                             *)

\* An execution is recorded at most once, through retries, lost answers and
\* crashes, unless its check could not be read or two attempts ran at once.
RecordedOnce == \A e \in Execs : Len(rows[e]) > 1 => e \in blind \/ overlapped

\* What the fields add up to, or the total where there is nothing else: input
\* and output are not counted again by a total that follows them.
Reported(e) ==
    LET of(f) == FoldLeft(LAMBDA n, x : IF x[1] = f THEN n + x[2] ELSE n, 0, Usage[e])
    IN  IF of("prompt") + of("completion") > 0
        THEN of("prompt") + of("completion") ELSE of("total")

\* Every execution with usage is recorded in the end, whatever failed before,
\* with what its fields add up to.
UsageRecorded ==
    \A e \in Execs :
        "usage" \in configured /\ found(e) => <>(rows[e] # <<>> /\ rows[e][1] = Reported(e))

\* The bot's permission is lowered only by an administrator, or where the rank
\* could not be read or changed after it was.
LoweredOnlyUnseen ==
    [][\A r \in Repos : rank'[r] < rank[r] => r \in unseen \/ Admin(r)]_vars

\* One repository that cannot be administered does not keep the bot from the
\* others, nor does any failure for good.
ReposCovered == 
    "access" \in configured =>
        \A r \in Repos \ Locked : <>[](rank[r] >= Target \/ r \in invited)

\* An accepted callback is in pg-boss, and one that is taken for done has been
\* delivered, through lost answers, crashes and attempts that were given up.
AcceptedKept ==
    \A c \in Callbacks :
        /\ asked[c] = "accepted" => job[c].state # "none"
        /\ job[c].state = "completed" => delivered[c] > 0

\* A callback whose enqueue was accepted comes to an end: it is taken for done
\* and the app's endpoint took it, or its retries are used up.
AcceptedSettles ==
    \A c \in Callbacks :
        (asked[c] = "accepted") ~>
            (job[c].state = "failed" \/ (job[c].state = "completed" /\ delivered[c] > 0))

=============================================================================
