------------------------------ MODULE RlsSession ------------------------------
(***************************************************************************)
(* The database client of the SDK.  A call of tx takes a connection from a *)
(* pool, opens a transaction, sets the role and the user's claims for that *)
(* transaction only, runs the application's function and commits, or rolls *)
(* back, and gives the connection back.  Calls of different users overlap  *)
(* and share the connections.                                              *)
(*                                                                         *)
(* Statements may fail, and connections be cut, at any point; the answer   *)
(* of a commit may be lost.  The function may catch the failure of its     *)
(* statements; it does not end the transaction nor change role or claims,  *)
(* and does not use the connection once it has returned.                   *)
(***************************************************************************)
EXTENDS Naturals

CONSTANTS
    Calls,     \* calls of tx, each made once
    Users,     \* users whose tokens they are made with
    UserOf,    \* the user of each call
    Conns,     \* places in the pool
    None,      \* no call, no user
    MaxStmts,  \* bound: statements of a function
    MaxFaults  \* bound: failures

ASSUME UserOfAssumption == UserOf \in [Calls -> Users]
ASSUME NoneAssumption   == None \notin Users /\ None \notin Conns
ASSUME BoundAssumption  == MaxStmts \in Nat /\ MaxFaults \in Nat

VARIABLES
    pc,         \* where each call is
    conn,       \* the connection it holds
    session,    \* each connection's session at the server
    cut,        \* connections that are broken
    alive,      \* the application's process runs
    stmts,      \* statements each function has made
    ran,        \* statements that were executed: by which call, as what
    committed,  \* calls whose transaction was committed
    caught,     \* calls whose function went on after a failed statement
    unanswered, \* calls that lost the answer to their commit
    faults

vars == <<pc, conn, session, cut, alive, stmts, ran, committed, caught, unanswered, faults>>
logs == <<ran, committed, caught, unanswered>>

Before == {"begin", "role", "claims", "fn", "commit", "rollback"}
PCs    == Before \cup {"new", "resolved", "thrown", "lost"}

Roles  == {"login", "authenticated"}
Acting == [role: Roles, claims: Users \cup {None}]
Login  == [role |-> "login", claims |-> None]
As(u)  == [role |-> "authenticated", claims |-> u]

\* A session acts as its own settings say, or the transaction's.
Sessions == [tx: {"none", "open", "aborted"}, own: Acting, local: Acting]
Fresh    == [tx |-> "none", own |-> Login, local |-> Login]

TypeOK ==
    /\ pc \in [Calls -> PCs] /\ conn \in [Calls -> Conns \cup {None}]
    /\ session \in [Conns -> Sessions] /\ cut \in SUBSET Conns /\ alive \in BOOLEAN
    /\ stmts \in [Calls -> 0 .. MaxStmts] /\ ran \in SUBSET (Calls \X Acting)
    /\ committed \in SUBSET Calls /\ caught \in SUBSET Calls /\ unanswered \in SUBSET Calls
    /\ faults \in 0 .. MaxFaults

Init ==
    /\ pc = [t \in Calls |-> "new"] /\ conn = [t \in Calls |-> None]
    /\ session = [c \in Conns |-> Fresh] /\ cut = {} /\ alive = TRUE
    /\ stmts = [t \in Calls |-> 0]
    /\ ran = {} /\ committed = {} /\ caught = {} /\ unanswered = {} /\ faults = 0

Fault == faults < MaxFaults /\ faults' = faults + 1

Idle(c) == \A t \in Calls : conn[t] # c

-----------------------------------------------------------------------------
(* The server's side of a connection.                                      *)

Acts(s) == IF s.tx = "none" THEN s.own ELSE s.local

Begun(s) == [s EXCEPT !.tx = "open", !.local = s.own]
Ended(s) == [s EXCEPT !.tx = "none", !.local = s.own]
Failed(s) == IF s.tx = "none" THEN s ELSE [s EXCEPT !.tx = "aborted"]

\* Fault: the role is set for the session.
RoleSetForGood(s) == [s EXCEPT !.own.role = "authenticated", !.local.role = "authenticated"]

\* set local role: only within a transaction does it have an effect.
RoleSet(s) == IF s.tx = "open" THEN [s EXCEPT !.local.role = "authenticated"] ELSE s

\* set_config(..., true)
ClaimsSet(s, u) == IF s.tx = "open" THEN [s EXCEPT !.local.claims = u] ELSE s

-----------------------------------------------------------------------------
(* tx.                                                                     *)

\* pool.connect: a connection nobody holds.  It may fail, before the try.
Connect(t) ==
    /\ alive /\ pc[t] = "new"
    /\ \/ /\ \E c \in Conns : /\ Idle(c)
                              /\ conn' = [conn EXCEPT ![t] = c]
          /\ pc' = [pc EXCEPT ![t] = "begin"]
          /\ UNCHANGED faults
       \/ /\ Fault /\ pc' = [pc EXCEPT ![t] = "thrown"]
          /\ UNCHANGED conn
    /\ UNCHANGED <<session, cut, alive, stmts, logs>>

\* The next query of tx leaves the session as s, fails, or finds the connection
\* cut.
Query(t, at, next, s) ==
    LET c == conn[t] IN
    /\ alive /\ pc[t] = at
    /\ \/ /\ c \notin cut /\ session[c].tx # "aborted"
          /\ session' = [session EXCEPT ![c] = s]
          /\ pc' = [pc EXCEPT ![t] = next]
          /\ UNCHANGED <<cut, faults>>
       \/ /\ c \notin cut /\ Fault
          /\ session' = [session EXCEPT ![c] = Failed(session[c])]
          /\ pc' = [pc EXCEPT ![t] = "rollback"]
          /\ UNCHANGED cut
       \/ /\ c \in cut
          /\ pc' = [pc EXCEPT ![t] = "rollback"]
          /\ UNCHANGED <<session, cut, faults>>
    /\ UNCHANGED <<conn, alive, stmts, logs>>

\* Fault: the transaction is not begun.
BeginForgotten(t) == Query(t, "begin", "role", session[conn[t]])

Begin(t)     == Query(t, "begin", "role", Begun(session[conn[t]]))
SetRole(t)   == Query(t, "role", "claims", RoleSet(session[conn[t]]))
SetClaims(t) == Query(t, "claims", "fn", ClaimsSet(session[conn[t]], UserOf[t]))

\* The function's statement runs, or fails and so does the transaction; the
\* function throws, or catches the failure and goes on.
Statement(t) ==
    LET c == conn[t] IN
    /\ alive /\ pc[t] = "fn" /\ stmts[t] < MaxStmts
    /\ stmts' = [stmts EXCEPT ![t] = @ + 1]
    /\ \/ /\ c \notin cut /\ session[c].tx # "aborted"
          /\ ran' = ran \cup {<<t, Acts(session[c])>>}
          /\ UNCHANGED <<pc, session, caught, faults>>
       \/ /\ \/ Fault
             \/ (c \in cut \/ session[c].tx = "aborted") /\ UNCHANGED faults
          /\ session' = IF c \in cut THEN session
                        ELSE [session EXCEPT ![c] = Failed(session[c])]
          /\ \/ pc' = [pc EXCEPT ![t] = "rollback"] /\ UNCHANGED caught
             \/ caught' = caught \cup {t} /\ UNCHANGED pc
          /\ UNCHANGED ran
    /\ UNCHANGED <<conn, cut, alive, committed, unanswered>>

FnEnds(t) ==
    /\ alive /\ pc[t] = "fn"
    /\ \E next \in {"commit", "rollback"} : pc' = [pc EXCEPT ![t] = next]
    /\ UNCHANGED <<conn, session, cut, alive, stmts, logs, faults>>

\* c.release, with the session left as s: a broken connection leaves the pool,
\* which makes a new one in its place when it is asked to.
Release(t, s) ==
    /\ conn' = [conn EXCEPT ![t] = None]
    /\ session' = [session EXCEPT ![conn[t]] = IF conn[t] \in cut THEN Fresh ELSE s]
    /\ cut' = cut \ {conn[t]}

\* Fault: a commit is not waited for.
CommitUnwaited(t) ==
    /\ alive /\ pc[t] = "commit"
    /\ pc' = [pc EXCEPT ![t] = "resolved"]
    /\ committed' = IF conn[t] \notin cut /\ session[conn[t]].tx = "open"
                    THEN committed \cup {t} ELSE committed
    /\ Release(t, Ended(session[conn[t]]))
    /\ UNCHANGED <<alive, stmts, ran, caught, unanswered, faults>>

\* commit of a failed transaction rolls it back and reports no error; one that
\* fails itself, or whose answer is lost, goes on to the rollback.
Commit(t) ==
    LET c == conn[t] IN
    /\ alive /\ pc[t] = "commit"
    /\ \/ /\ c \notin cut
          /\ committed' = IF session[c].tx = "open" THEN committed \cup {t} ELSE committed
          /\ pc' = [pc EXCEPT ![t] = "resolved"]
          /\ Release(t, Ended(session[c]))
          /\ UNCHANGED <<unanswered, faults>>
       \/ /\ c \notin cut /\ Fault
          /\ session' = [session EXCEPT ![c] = Ended(session[c])]
          /\ pc' = [pc EXCEPT ![t] = "rollback"]
          /\ UNCHANGED <<conn, cut, committed, unanswered>>
       \/ /\ c \notin cut /\ Fault /\ session[c].tx = "open"
          /\ committed' = committed \cup {t} /\ unanswered' = unanswered \cup {t}
          /\ session' = [session EXCEPT ![c] = Fresh] /\ cut' = cut \cup {c}
          /\ pc' = [pc EXCEPT ![t] = "rollback"]
          /\ UNCHANGED conn
       \/ /\ c \in cut
          /\ pc' = [pc EXCEPT ![t] = "rollback"]
          /\ UNCHANGED <<conn, session, cut, committed, unanswered, faults>>
    /\ UNCHANGED <<alive, stmts, ran, caught>>

\* Fault: an error goes to the caller without a rollback.
RollbackSkipped(t) ==
    /\ alive /\ pc[t] = "rollback"
    /\ pc' = [pc EXCEPT ![t] = "thrown"]
    /\ Release(t, session[conn[t]])
    /\ UNCHANGED <<alive, stmts, logs, faults>>

\* Fault: the connection is released by the way that succeeds only.
RollbackKeeps(t) ==
    /\ alive /\ pc[t] = "rollback"
    /\ pc' = [pc EXCEPT ![t] = "thrown"]
    /\ session' = [session EXCEPT ![conn[t]] = Ended(session[conn[t]])]
    /\ UNCHANGED <<conn, cut, alive, stmts, logs, faults>>

\* Its own failure, which the connection does not survive, is ignored.
Rollback(t) ==
    /\ alive /\ pc[t] = "rollback"
    /\ pc' = [pc EXCEPT ![t] = "thrown"]
    /\ Release(t, Ended(session[conn[t]]))
    /\ UNCHANGED <<alive, stmts, logs, faults>>

-----------------------------------------------------------------------------

\* A connection is cut, and its session ends.  Nobody listens to the error it
\* emits, which ends the process unless the application catches it.
Cut(c) ==
    /\ alive /\ Fault /\ c \notin cut
    /\ session' = [session EXCEPT ![c] = Fresh]
    /\ \/ /\ alive' = FALSE
          /\ pc' = [t \in Calls |-> IF pc[t] \in {"resolved", "thrown"} THEN pc[t] ELSE "lost"]
          /\ UNCHANGED cut
       \/ /\ cut' = IF Idle(c) THEN cut ELSE cut \cup {c}
          /\ UNCHANGED <<alive, pc>>
    /\ UNCHANGED <<conn, stmts, logs>>

Step(t) ==
    \/ Connect(t) \/ Begin(t) \/ SetRole(t) \/ SetClaims(t) \/ Statement(t)
    \/ FnEnds(t) \/ Commit(t) \/ Rollback(t)

Next == (\E t \in Calls : Step(t)) \/ (\E c \in Conns : Cut(c))

Spec == Init /\ [][Next]_vars

\* Queries are answered, functions end, and the pool serves those who wait.
FairSpec ==
    /\ Spec
    /\ \A t \in Calls :
          /\ SF_vars(Connect(t))
          /\ WF_vars(Begin(t) \/ SetRole(t) \/ SetClaims(t) \/ FnEnds(t) \/ Commit(t) \/ Rollback(t))

-----------------------------------------------------------------------------
(* Properties.                                                             *)

\* No statement of a function runs but as the authenticated role with the
\* claims of the user the call was made for, whoever shared the connection
\* before and whatever failed there.
OwnClaims == \A x \in ran : x[2] = As(UserOf[x[1]])

\* A connection in the pool has no transaction open and no one's role or claims.
CleanWhenPooled == \A c \in Conns : Idle(c) => session[c] = Fresh

\* What a call reports is what happened: a call that resolves has committed,
\* unless its function hid a failed statement; one that throws has not, unless
\* the answer to its commit was lost.
ToldTheTruth ==
    \A t \in Calls :
        /\ pc[t] = "resolved" => t \in committed \/ t \in caught
        /\ pc[t] \in {"thrown", "rollback"} => t \notin committed \/ t \in unanswered

\* No connection is lost to the pool: every call comes to its end, with fewer
\* connections than calls, whatever fails.
CallsEnd == \A t \in Calls : <>(pc[t] \in {"resolved", "thrown", "lost"})

=============================================================================
