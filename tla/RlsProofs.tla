------------------------------ MODULE RlsProofs -------------------------------
(***************************************************************************)
(* Theorems about RlsSession, for any calls, users, connections and bounds. *)
(***************************************************************************)
EXTENDS RlsSession, TLAPS

-----------------------------------------------------------------------------
(* The inductive invariant.                                                *)

\* A call has a connection while it is between connect and release.
Holding ==
    \A t \in Calls :
        /\ pc[t] \in Before => conn[t] \in Conns
        /\ pc[t] \in {"new", "resolved", "thrown"} => conn[t] = None

\* No connection serves two calls.
Exclusive == \A t, u \in Calls : t # u /\ conn[t] # None => conn[t] # conn[u]

\* What a call has made of the session s it holds.
Prepared(t, s) ==
    /\ s.own = Login
    /\ pc[t] = "begin" => s = Fresh
    /\ pc[t] = "role" => s.tx = "open" /\ s.local = Login
    /\ pc[t] = "claims" => s.tx = "open" /\ s.local = [role |-> "authenticated", claims |-> None]
    /\ pc[t] \in {"fn", "commit"} => /\ s.tx = "open" => s.local = As(UserOf[t])
                                     /\ s.tx = "aborted" => t \in caught
                                     /\ s.tx # "none"

Scope(t) == pc[t] \in Before /\ conn[t] \notin cut => Prepared(t, session[conn[t]])
Scoped == \A t \in Calls : Scope(t)

\* A committed call resolves, unless it lost the answer.
CommitsSeen == \A t \in committed : pc[t] \in {"resolved", "lost"} \/ t \in unanswered

\* A resolved call committed, unless its function hid a failure.
ResolvedSeen == \A t \in Calls : pc[t] = "resolved" => t \in committed \/ t \in caught

RlsInv ==
    /\ TypeOK /\ Holding /\ Exclusive /\ CleanWhenPooled /\ Scoped
    /\ OwnClaims /\ CommitsSeen /\ ResolvedSeen

-----------------------------------------------------------------------------
(* Sessions.                                                               *)

\* What statements make of a session is a session.
LEMMA SessionTypes ==
    ASSUME NEW s \in Sessions, NEW u \in Users
    PROVE  /\ Begun(s) \in Sessions /\ Ended(s) \in Sessions /\ Failed(s) \in Sessions
           /\ RoleSet(s) \in Sessions /\ ClaimsSet(s, u) \in Sessions
           /\ Fresh \in Sessions /\ Acts(s) \in Acting
BY DEF Sessions, Acting, Roles, Begun, Ended, Failed, RoleSet, ClaimsSet, Fresh, Login, Acts

\* Whatever happened in the transaction, its end leaves a session that has no
\* settings of its own as it was.
LEMMA EndsFresh ==
    ASSUME NEW s \in Sessions, s.own = Login
    PROVE  Ended(s) = Fresh
<1>1. Ended(s).tx = "none" /\ Ended(s).own = Login /\ Ended(s).local = Login
    BY DEF Sessions, Ended
<1>2. Ended(s) \in Sessions
    BY DEF Sessions, Ended
<1>3. Ended(s) = [tx |-> Ended(s).tx, own |-> Ended(s).own, local |-> Ended(s).local]
    BY <1>2 DEF Sessions
<1> QED
    BY <1>1, <1>3 DEF Fresh

\* No statement of a transaction changes what the session has of its own.
LEMMA KeepsOwn ==
    ASSUME NEW s \in Sessions, NEW u \in Users, s.own = Login
    PROVE  /\ Begun(s).own = Login /\ Begun(s).tx = "open" /\ Begun(s).local = Login
           /\ Failed(s).own = Login /\ Failed(s).tx # "open"
           /\ s.tx # "none" => Failed(s).tx = "aborted"
           /\ s.tx = "open" /\ s.local = Login
              => /\ RoleSet(s).own = Login /\ RoleSet(s).tx = "open"
                 /\ RoleSet(s).local = [role |-> "authenticated", claims |-> None]
           /\ s.tx = "open" /\ s.local = [role |-> "authenticated", claims |-> None]
              => /\ ClaimsSet(s, u).own = Login /\ ClaimsSet(s, u).tx = "open"
                 /\ ClaimsSet(s, u).local = As(u)
BY DEF Sessions, Acting, Roles, Begun, Failed, RoleSet, ClaimsSet, Login, As

-----------------------------------------------------------------------------
(* What a step of one call leaves alone.                                   *)

\* A step of t changes the session of its own connection only, and nothing
\* else that Scope of another call depends on.
StepOf(t, s) ==
    /\ session' = [session EXCEPT ![conn[t]] = s]
    /\ \A u \in Calls \ {t} : pc'[u] = pc[u] /\ conn'[u] = conn[u]
    /\ cut \ {conn[t]} \subseteq cut' /\ caught \subseteq caught'

\* A call's step does nothing to the session another call holds.
LEMMA OthersKeepScope ==
    ASSUME RlsInv, NEW t \in Calls, pc[t] \in Before, NEW s, StepOf(t, s),
           NEW u \in Calls \ {t}
    PROVE  Scope(u)'
<1> SUFFICES ASSUME pc[u] \in Before, conn[u] \notin cut'
             PROVE  Prepared(u, session[conn[u]])'
    BY DEF Scope, StepOf
<1>1. conn[u] \in Conns /\ conn[t] \in Conns /\ conn[u] # conn[t]
    BY NoneAssumption DEF RlsInv, Holding, Exclusive
<1>2. conn[u] \notin cut /\ session'[conn[u]] = session[conn[u]]
    BY <1>1 DEF StepOf, RlsInv, TypeOK
<1>3. Prepared(u, session[conn[u]])
    BY <1>2 DEF RlsInv, Scoped, Scope
<1> QED
    BY <1>2, <1>3 DEF Prepared, StepOf

\* A step that gives no connection back leaves those in the pool alone.
LEMMA PoolKept ==
    ASSUME RlsInv, NEW t \in Calls, pc[t] \in Before, NEW s,
           session' = [session EXCEPT ![conn[t]] = s], conn' = conn
    PROVE  CleanWhenPooled'
BY DEF RlsInv, CleanWhenPooled, Idle, TypeOK

-----------------------------------------------------------------------------
(* The steps.                                                              *)

\* What the query that leads to next must leave behind.
Reached(next, s, t) ==
    /\ s \in Sessions /\ s.own = Login /\ s.tx = "open"
    /\ next = "role" => s.local = Login
    /\ next = "claims" => s.local = [role |-> "authenticated", claims |-> None]
    /\ next = "fn" => s.local = As(UserOf[t])

\* The invariant is kept by a query, which comes to its next step or fails.
LEMMA QueryStep ==
    ASSUME RlsInv, NEW t \in Calls, NEW at \in Before, NEW next \in {"role", "claims", "fn"},
           NEW s, Query(t, at, next, s),
           conn[t] \notin cut /\ session[conn[t]].tx # "aborted" => Reached(next, s, t)
    PROVE  RlsInv'
<1> DEFINE c == conn[t]
<1>1. /\ pc[t] = at /\ c \in Conns /\ session[c] \in Sessions /\ c # None
      /\ c \notin cut => session[c].own = Login
    BY NoneAssumption DEF Query, RlsInv, TypeOK, Holding, Scoped, Scope, Prepared
<1>2. UNCHANGED <<conn, stmts, ran, committed, caught, unanswered>>
    BY DEF Query, logs
<1>3. CASE /\ c \notin cut /\ session[c].tx # "aborted"
           /\ session' = [session EXCEPT ![c] = s]
           /\ pc' = [pc EXCEPT ![t] = next]
           /\ UNCHANGED <<cut, faults>>
  <2>1. Reached(next, s, t)
    BY <1>3
  <2>2. TypeOK'
    BY <1>1, <1>2, <1>3, <2>1 DEF RlsInv, TypeOK, Query, Reached, PCs, Before
  <2>3. Holding' /\ Exclusive' /\ CommitsSeen' /\ ResolvedSeen' /\ OwnClaims'
    BY <1>1, <1>2, <1>3
    DEF RlsInv, TypeOK, Holding, Exclusive, CommitsSeen, ResolvedSeen, OwnClaims, Before
  <2>4. CleanWhenPooled'
    BY <1>1, <1>2, <1>3, PoolKept
  <2>5. ASSUME NEW u \in Calls \ {t} PROVE Scope(u)'
    <3>1. StepOf(t, s)
      BY <1>2, <1>3 DEF StepOf, RlsInv, TypeOK
    <3> QED
      BY <3>1, <1>1, OthersKeepScope
  <2>6. Scope(t)'
    <3>1. pc'[t] = next /\ session'[conn'[t]] = s
      BY <1>1, <1>2, <1>3 DEF RlsInv, TypeOK
    <3> QED
      BY <2>1, <3>1 DEF Scope, Prepared, Reached
  <2> QED
    BY <2>2, <2>3, <2>4, <2>5, <2>6 DEF RlsInv, Scoped
<1>4. CASE /\ c \notin cut /\ Fault
           /\ session' = [session EXCEPT ![c] = Failed(session[c])]
           /\ pc' = [pc EXCEPT ![t] = "rollback"]
           /\ UNCHANGED cut
  <2>1. Failed(session[c]) \in Sessions /\ Failed(session[c]).own = Login
    BY <1>1, <1>4, SessionTypes, KeepsOwn, UserOfAssumption
  <2>2. TypeOK'
    BY <1>1, <1>2, <1>4, <2>1, BoundAssumption
    DEF RlsInv, TypeOK, Query, PCs, Before, Fault
  <2>3. Holding' /\ Exclusive' /\ CommitsSeen' /\ ResolvedSeen' /\ OwnClaims'
    BY <1>1, <1>2, <1>4
    DEF RlsInv, TypeOK, Holding, Exclusive, CommitsSeen, ResolvedSeen, OwnClaims, Before
  <2>4. CleanWhenPooled'
    BY <1>1, <1>2, <1>4, PoolKept
  <2>5. ASSUME NEW u \in Calls \ {t} PROVE Scope(u)'
    <3>1. StepOf(t, Failed(session[c]))
      BY <1>2, <1>4 DEF StepOf, RlsInv, TypeOK
    <3> QED
      BY <3>1, <1>1, OthersKeepScope
  <2>6. Scope(t)'
    <3>1. pc'[t] = "rollback" /\ session'[conn'[t]] = Failed(session[c])
      BY <1>1, <1>2, <1>4 DEF RlsInv, TypeOK
    <3> QED
      BY <2>1, <3>1 DEF Scope, Prepared
  <2> QED
    BY <2>2, <2>3, <2>4, <2>5, <2>6 DEF RlsInv, Scoped
<1>5. CASE /\ c \in cut
           /\ pc' = [pc EXCEPT ![t] = "rollback"]
           /\ UNCHANGED <<session, cut, faults>>
  <2>1. TypeOK'
    BY <1>1, <1>2, <1>5 DEF RlsInv, TypeOK, Query, PCs, Before
  <2>2. Holding' /\ Exclusive' /\ CommitsSeen' /\ ResolvedSeen' /\ OwnClaims'
    BY <1>1, <1>2, <1>5
    DEF RlsInv, TypeOK, Holding, Exclusive, CommitsSeen, ResolvedSeen, OwnClaims, Before
  <2>3. CleanWhenPooled'
    BY <1>2, <1>5 DEF RlsInv, CleanWhenPooled, Idle
  <2>4. ASSUME NEW u \in Calls PROVE Scope(u)'
    <3>1. CASE u = t
      BY <1>2, <1>5, <3>1 DEF Scope
    <3>2. CASE u # t
      <4>1. pc'[u] = pc[u]
        BY <1>5, <3>2 DEF RlsInv, TypeOK
      <4> QED
        BY <4>1, <1>2, <1>5 DEF RlsInv, Scoped, Scope, Prepared
    <3> QED
      BY <3>1, <3>2
  <2> QED
    BY <2>1, <2>2, <2>3, <2>4 DEF RlsInv, Scoped
<1> QED
    BY <1>3, <1>4, <1>5 DEF Query

\* The invariant is kept by the three queries that set the scope up.
LEMMA SetupSteps ==
    ASSUME RlsInv, NEW t \in Calls, Begin(t) \/ SetRole(t) \/ SetClaims(t)
    PROVE  RlsInv'
<1> DEFINE c == conn[t]
<1>1. pc[t] \in {"begin", "role", "claims"}
    BY DEF Begin, SetRole, SetClaims, Query
<1>2. c \in Conns /\ session[c] \in Sessions /\ UserOf[t] \in Users
    BY <1>1, UserOfAssumption DEF RlsInv, TypeOK, Holding, Before
<1>3. c \notin cut => Prepared(t, session[c])
    BY <1>1 DEF RlsInv, Scoped, Scope, Before
<1>4. CASE Begin(t)
  <2>1. pc[t] = "begin" /\ Query(t, "begin", "role", Begun(session[c]))
    BY <1>4 DEF Begin, Query
  <2>2. c \notin cut => Reached("role", Begun(session[c]), t)
    BY <1>2, <1>3, SessionTypes, KeepsOwn DEF Prepared, Reached
  <2> QED
    BY <2>1, <2>2, QueryStep DEF Before
<1>5. CASE SetRole(t)
  <2>1. pc[t] = "role" /\ Query(t, "role", "claims", RoleSet(session[c]))
    BY <1>5 DEF SetRole, Query
  <2>2. c \notin cut => Reached("claims", RoleSet(session[c]), t)
    BY <1>2, <1>3, <2>1, SessionTypes, KeepsOwn DEF Prepared, Reached
  <2> QED
    BY <2>1, <2>2, QueryStep DEF Before
<1>6. CASE SetClaims(t)
  <2>1. pc[t] = "claims" /\ Query(t, "claims", "fn", ClaimsSet(session[c], UserOf[t]))
    BY <1>6 DEF SetClaims, Query
  <2>2. c \notin cut => Reached("fn", ClaimsSet(session[c], UserOf[t]), t)
    BY <1>2, <1>3, <2>1, SessionTypes, KeepsOwn DEF Prepared, Reached
  <2> QED
    BY <2>1, <2>2, QueryStep DEF Before
<1> QED
    BY <1>4, <1>5, <1>6

\* The invariant is kept where a call takes a connection from the pool.
LEMMA ConnectStep ==
    ASSUME RlsInv, NEW t \in Calls, Connect(t)
    PROVE  RlsInv'
<1>1. pc[t] = "new" /\ UNCHANGED <<session, cut, alive, stmts, ran, committed, caught, unanswered>>
    BY DEF Connect, logs
<1>2. CASE /\ \E c \in Conns : Idle(c) /\ conn' = [conn EXCEPT ![t] = c]
           /\ pc' = [pc EXCEPT ![t] = "begin"]
           /\ UNCHANGED faults
  <2>1. PICK c \in Conns : Idle(c) /\ conn' = [conn EXCEPT ![t] = c]
    BY <1>2
  <2>2. session[c] = Fresh
    BY <2>1 DEF RlsInv, CleanWhenPooled
  <2>3. TypeOK' /\ Holding' /\ Exclusive'
    BY <1>1, <1>2, <2>1, NoneAssumption
    DEF RlsInv, TypeOK, Holding, Exclusive, Idle, PCs, Before
  <2>4. CommitsSeen' /\ ResolvedSeen' /\ OwnClaims'
    BY <1>1, <1>2 DEF RlsInv, TypeOK, CommitsSeen, ResolvedSeen, OwnClaims
  <2>5. CleanWhenPooled'
    <3> SUFFICES ASSUME NEW d \in Conns, Idle(d)' PROVE session'[d] = Fresh
      BY DEF CleanWhenPooled
    <3>1. conn[t] = None /\ conn'[t] = c
      BY <1>1, <2>1 DEF RlsInv, TypeOK, Holding
    <3>2. Idle(d)
      BY <2>1, <3>1, NoneAssumption DEF Idle, RlsInv, TypeOK
    <3> QED
      BY <1>1, <3>2 DEF RlsInv, CleanWhenPooled
  <2>6. ASSUME NEW u \in Calls PROVE Scope(u)'
    <3>1. CASE u = t
      <4>1. pc'[t] = "begin" /\ session'[conn'[t]] = Fresh
        BY <1>1, <1>2, <2>1, <2>2 DEF RlsInv, TypeOK
      <4> QED
        BY <3>1, <4>1 DEF Scope, Prepared, Fresh
    <3>2. CASE u # t
      <4>1. pc'[u] = pc[u] /\ conn'[u] = conn[u]
        BY <1>2, <2>1, <3>2 DEF RlsInv, TypeOK
      <4> QED
        BY <4>1, <1>1 DEF RlsInv, Scoped, Scope, Prepared
    <3> QED
      BY <3>1, <3>2
  <2> QED
    BY <2>3, <2>4, <2>5, <2>6 DEF RlsInv, Scoped
<1>3. CASE /\ Fault /\ pc' = [pc EXCEPT ![t] = "thrown"]
           /\ UNCHANGED conn
  <2>1. TypeOK' /\ Holding' /\ Exclusive'
    BY <1>1, <1>3, BoundAssumption DEF RlsInv, TypeOK, Holding, Exclusive, PCs, Before, Fault
  <2>2. CommitsSeen' /\ ResolvedSeen' /\ OwnClaims' /\ CleanWhenPooled'
    BY <1>1, <1>3 DEF RlsInv, TypeOK, CommitsSeen, ResolvedSeen, OwnClaims, CleanWhenPooled, Idle
  <2>3. ASSUME NEW u \in Calls PROVE Scope(u)'
    <3>1. pc'[u] \in Before => pc'[u] = pc[u]
      BY <1>3 DEF RlsInv, TypeOK, Before
    <3> QED
      BY <3>1, <1>1, <1>3 DEF RlsInv, Scoped, Scope, Prepared
  <2> QED
    BY <2>1, <2>2, <2>3 DEF RlsInv, Scoped
<1> QED
    BY <1>2, <1>3 DEF Connect

\* The invariant is kept by a statement of the function.
LEMMA StatementStep ==
    ASSUME RlsInv, NEW t \in Calls, Statement(t)
    PROVE  RlsInv'
<1> DEFINE c == conn[t]
<1>1. /\ pc[t] = "fn" /\ pc[t] \in Before /\ c \in Conns /\ session[c] \in Sessions
      /\ stmts' = [stmts EXCEPT ![t] = @ + 1] /\ stmts[t] < MaxStmts
      /\ UNCHANGED <<conn, cut, alive, committed, unanswered>>
      /\ c \notin cut => Prepared(t, session[c])
    BY DEF Statement, RlsInv, TypeOK, Holding, Scoped, Scope, Before
<1>2. stmts' \in [Calls -> 0 .. MaxStmts]
    BY <1>1, BoundAssumption DEF RlsInv, TypeOK
<1>3. CASE /\ c \notin cut /\ session[c].tx # "aborted"
           /\ ran' = ran \cup {<<t, Acts(session[c])>>}
           /\ UNCHANGED <<pc, session, caught, faults>>
  <2>1. Acts(session[c]) = As(UserOf[t])
    <3>1. session[c].tx = "open"
      BY <1>1, <1>3 DEF Prepared, Sessions
    <3> QED
      BY <1>1, <1>3, <3>1 DEF Prepared, Acts
  <2>2. Acts(session[c]) \in Acting
    BY <1>1, <2>1, UserOfAssumption DEF As, Acting, Roles
  <2>3. TypeOK' /\ OwnClaims'
    BY <1>1, <1>2, <1>3, <2>1, <2>2 DEF RlsInv, TypeOK, OwnClaims
  <2>4. /\ Holding' /\ Exclusive' /\ CommitsSeen' /\ ResolvedSeen' /\ CleanWhenPooled'
        /\ Scoped'
    BY <1>1, <1>3
    DEF RlsInv, Holding, Exclusive, CommitsSeen, ResolvedSeen, CleanWhenPooled, Idle, Scoped,
        Scope, Prepared
  <2> QED
    BY <2>3, <2>4 DEF RlsInv
<1>4. CASE /\ Fault \/ ((c \in cut \/ session[c].tx = "aborted") /\ UNCHANGED faults)
           /\ session' = IF c \in cut THEN session
                         ELSE [session EXCEPT ![c] = Failed(session[c])]
           /\ \/ pc' = [pc EXCEPT ![t] = "rollback"] /\ UNCHANGED caught
              \/ caught' = caught \cup {t} /\ UNCHANGED pc
           /\ UNCHANGED ran
  <2> DEFINE s == IF c \in cut THEN session[c] ELSE Failed(session[c])
  <2>1. Failed(session[c]) \in Sessions /\ s \in Sessions
    BY <1>1 DEF Sessions, Failed
  <2>2. session' = [session EXCEPT ![c] = s]
    BY <1>1, <1>4 DEF RlsInv, TypeOK
  <2>3. faults' \in 0 .. MaxFaults
    BY <1>4, BoundAssumption DEF Fault, RlsInv, TypeOK
  <2>4. TypeOK'
    BY <1>1, <1>2, <1>4, <2>1, <2>2, <2>3 DEF RlsInv, TypeOK, PCs, Before
  <2>5. Holding' /\ Exclusive' /\ CommitsSeen' /\ ResolvedSeen' /\ OwnClaims'
    BY <1>1, <1>4
    DEF RlsInv, TypeOK, Holding, Exclusive, CommitsSeen, ResolvedSeen, OwnClaims, Before
  <2>6. CleanWhenPooled'
    BY <1>1, <2>2, PoolKept
  <2>7. ASSUME NEW u \in Calls \ {t} PROVE Scope(u)'
    <3>1. StepOf(t, s)
      BY <1>1, <1>4, <2>2 DEF StepOf, RlsInv, TypeOK
    <3> HIDE DEF s
    <3> QED
      BY <3>1, <1>1, OthersKeepScope
  <2>8. Scope(t)'
    <3> SUFFICES ASSUME c \notin cut PROVE Prepared(t, session[conn[t]])'
      BY <1>1 DEF Scope
    <3>1. session'[conn'[t]] = Failed(session[c])
      BY <1>1, <1>4 DEF RlsInv, TypeOK
    <3>2. /\ Failed(session[c]).own = Login
          /\ Failed(session[c]).tx = "aborted"
      BY <1>1, KeepsOwn, UserOfAssumption DEF Prepared
    <3>3. pc'[t] = "rollback" \/ (pc'[t] = "fn" /\ t \in caught')
      BY <1>1, <1>4 DEF RlsInv, TypeOK
    <3> QED
      BY <3>1, <3>2, <3>3, <1>1 DEF Prepared
  <2> QED
    BY <2>4, <2>5, <2>6, <2>7, <2>8 DEF RlsInv, Scoped
<1> QED
    BY <1>3, <1>4 DEF Statement

\* The invariant is kept where the function ends.
LEMMA FnEndsStep ==
    ASSUME RlsInv, NEW t \in Calls, FnEnds(t)
    PROVE  RlsInv'
<1>1. /\ pc[t] = "fn" /\ \E next \in {"commit", "rollback"} : pc' = [pc EXCEPT ![t] = next]
      /\ UNCHANGED <<conn, session, cut, alive, stmts, ran, committed, caught, unanswered, faults>>
    BY DEF FnEnds, logs
<1>2. TypeOK' /\ Holding' /\ Exclusive'
    BY <1>1 DEF RlsInv, TypeOK, Holding, Exclusive, PCs, Before
<1>3. CommitsSeen' /\ ResolvedSeen' /\ OwnClaims' /\ CleanWhenPooled'
    BY <1>1 DEF RlsInv, TypeOK, CommitsSeen, ResolvedSeen, OwnClaims, CleanWhenPooled, Idle
<1>4. ASSUME NEW u \in Calls PROVE Scope(u)'
    <2>1. \/ pc'[u] = pc[u]
          \/ pc[u] = "fn" /\ pc'[u] \in {"commit", "rollback"}
        BY <1>1 DEF RlsInv, TypeOK
    <2> QED
        BY <2>1, <1>1 DEF RlsInv, Scoped, Scope, Prepared, Before
<1> QED
    BY <1>2, <1>3, <1>4 DEF RlsInv, Scoped

\* The way back of a connection: what is given back is fresh, for whatever
\* reason the call ends.
LEMMA ReleaseStep ==
    ASSUME RlsInv, NEW t \in Calls, pc[t] \in {"commit", "rollback"},
           Release(t, Ended(session[conn[t]])),
           NEW end \in {"resolved", "thrown"}, pc' = [pc EXCEPT ![t] = end],
           UNCHANGED <<ran, caught>>
    PROVE  /\ Holding' /\ Exclusive' /\ CleanWhenPooled' /\ Scoped' /\ OwnClaims'
           /\ conn' \in [Calls -> Conns \cup {None}] /\ session' \in [Conns -> Sessions]
           /\ cut' \in SUBSET Conns /\ pc' \in [Calls -> PCs]
<1> DEFINE c == conn[t]
           s == IF c \in cut THEN Fresh ELSE Ended(session[c])
<1>1. /\ c \in Conns /\ c # None /\ session[c] \in Sessions /\ pc[t] \in Before
      /\ c \notin cut => session[c].own = Login
    BY NoneAssumption DEF RlsInv, TypeOK, Holding, Scoped, Scope, Prepared, Before
<1>2. s = Fresh
    BY <1>1, EndsFresh
<1>3. /\ conn' = [conn EXCEPT ![t] = None] /\ cut' = cut \ {c}
      /\ session' = [session EXCEPT ![c] = s]
    BY DEF Release
<1> HIDE DEF s
<1>4. Fresh \in Sessions
    BY DEF Fresh, Sessions, Acting, Login, Roles
<1>5. /\ conn' \in [Calls -> Conns \cup {None}] /\ session' \in [Conns -> Sessions]
      /\ cut' \in SUBSET Conns /\ pc' \in [Calls -> PCs]
    BY <1>2, <1>3, <1>4 DEF RlsInv, TypeOK, PCs
<1>6. Holding' /\ Exclusive'
    BY <1>3 DEF RlsInv, TypeOK, Holding, Exclusive, Before
<1>7. CleanWhenPooled'
    <2> SUFFICES ASSUME NEW d \in Conns, Idle(d)' PROVE session'[d] = Fresh
        BY DEF CleanWhenPooled
    <2>1. CASE d = c
        BY <2>1, <1>2, <1>3 DEF RlsInv, TypeOK
    <2>2. CASE d # c
        <3>1. Idle(d)
            BY <2>2, <1>3 DEF Idle, RlsInv, TypeOK
        <3> QED
            BY <2>2, <3>1, <1>3 DEF RlsInv, TypeOK, CleanWhenPooled
    <2> QED
        BY <2>1, <2>2
<1>8. ASSUME NEW u \in Calls PROVE Scope(u)'
    <2>1. CASE u = t
        BY <2>1 DEF Scope, Before, RlsInv, TypeOK
    <2>2. CASE u # t
        <3>1. StepOf(t, s)
            BY <1>3 DEF StepOf, RlsInv, TypeOK
        <3> QED
            BY <2>2, <3>1, <1>1, OthersKeepScope
    <2> QED
        BY <2>1, <2>2
<1>9. OwnClaims'
    BY DEF RlsInv, OwnClaims
<1> QED
    BY <1>5, <1>6, <1>7, <1>8, <1>9 DEF Scoped

\* The invariant is kept by a rollback.
LEMMA RollbackStep ==
    ASSUME RlsInv, NEW t \in Calls, Rollback(t)
    PROVE  RlsInv'
<1>1. /\ pc[t] = "rollback" /\ pc' = [pc EXCEPT ![t] = "thrown"]
      /\ Release(t, Ended(session[conn[t]]))
      /\ UNCHANGED <<alive, stmts, ran, committed, caught, unanswered, faults>>
    BY DEF Rollback, logs
<1>2. /\ Holding' /\ Exclusive' /\ CleanWhenPooled' /\ Scoped' /\ OwnClaims' /\ TypeOK'
    BY <1>1, ReleaseStep DEF RlsInv, TypeOK
<1>3. CommitsSeen' /\ ResolvedSeen'
    BY <1>1 DEF RlsInv, TypeOK, CommitsSeen, ResolvedSeen
<1> QED
    BY <1>2, <1>3 DEF RlsInv

\* The invariant is kept by a commit.
LEMMA CommitStep ==
    ASSUME RlsInv, NEW t \in Calls, Commit(t)
    PROVE  RlsInv'
<1> DEFINE c == conn[t]
<1>1. /\ pc[t] = "commit" /\ pc[t] \in Before /\ c \in Conns /\ session[c] \in Sessions
      /\ UNCHANGED <<alive, stmts, ran, caught>>
      /\ c \notin cut => Prepared(t, session[c])
    BY DEF Commit, RlsInv, TypeOK, Holding, Scoped, Scope, Before
<1>2. CASE /\ c \notin cut
           /\ committed' = IF session[c].tx = "open" THEN committed \cup {t} ELSE committed
           /\ pc' = [pc EXCEPT ![t] = "resolved"]
           /\ Release(t, Ended(session[c]))
           /\ UNCHANGED <<unanswered, faults>>
  <2>1. /\ Holding' /\ Exclusive' /\ CleanWhenPooled' /\ Scoped' /\ OwnClaims' /\ TypeOK'
    BY <1>1, <1>2, ReleaseStep DEF RlsInv, TypeOK
  <2>2. session[c].tx = "open" \/ t \in caught
    BY <1>1, <1>2 DEF Prepared, Sessions
  <2>3. CommitsSeen' /\ ResolvedSeen'
    BY <1>1, <1>2, <2>2 DEF RlsInv, TypeOK, CommitsSeen, ResolvedSeen
  <2> QED
    BY <2>1, <2>3 DEF RlsInv
<1>3. CASE /\ c \notin cut /\ Fault
           /\ session' = [session EXCEPT ![c] = Ended(session[c])]
           /\ pc' = [pc EXCEPT ![t] = "rollback"]
           /\ UNCHANGED <<conn, cut, committed, unanswered>>
  <2>1. Ended(session[c]) = Fresh /\ Fresh \in Sessions
    BY <1>1, <1>3, EndsFresh DEF Prepared, Fresh, Sessions, Acting, Login, Roles
  <2>2. TypeOK'
    BY <1>1, <1>3, <2>1, BoundAssumption DEF RlsInv, TypeOK, PCs, Before, Fault
  <2>3. Holding' /\ Exclusive' /\ CommitsSeen' /\ ResolvedSeen' /\ OwnClaims'
    BY <1>1, <1>3
    DEF RlsInv, TypeOK, Holding, Exclusive, CommitsSeen, ResolvedSeen, OwnClaims, Before
  <2>4. CleanWhenPooled'
    BY <1>1, <1>3, PoolKept
  <2>5. ASSUME NEW u \in Calls \ {t} PROVE Scope(u)'
    <3>1. StepOf(t, Ended(session[c]))
      BY <1>1, <1>3 DEF StepOf, RlsInv, TypeOK
    <3> QED
      BY <3>1, <1>1, OthersKeepScope
  <2>6. Scope(t)'
    <3>1. pc'[t] = "rollback" /\ session'[conn'[t]] = Fresh
      BY <1>1, <1>3, <2>1 DEF RlsInv, TypeOK
    <3> QED
      BY <3>1 DEF Scope, Prepared, Fresh
  <2> QED
    BY <2>2, <2>3, <2>4, <2>5, <2>6 DEF RlsInv, Scoped
<1>4. CASE /\ c \notin cut /\ Fault /\ session[c].tx = "open"
           /\ committed' = committed \cup {t} /\ unanswered' = unanswered \cup {t}
           /\ session' = [session EXCEPT ![c] = Fresh] /\ cut' = cut \cup {c}
           /\ pc' = [pc EXCEPT ![t] = "rollback"]
           /\ UNCHANGED conn
  <2>1. Fresh \in Sessions
    BY DEF Fresh, Sessions, Acting, Login, Roles
  <2>2. TypeOK'
    BY <1>1, <1>4, <2>1, BoundAssumption DEF RlsInv, TypeOK, PCs, Before, Fault
  <2>3. Holding' /\ Exclusive' /\ CommitsSeen' /\ ResolvedSeen' /\ OwnClaims'
    BY <1>1, <1>4
    DEF RlsInv, TypeOK, Holding, Exclusive, CommitsSeen, ResolvedSeen, OwnClaims, Before
  <2>4. CleanWhenPooled'
    BY <1>1, <1>4, PoolKept
  <2>5. ASSUME NEW u \in Calls \ {t} PROVE Scope(u)'
    <3>1. StepOf(t, Fresh)
      BY <1>1, <1>4 DEF StepOf, RlsInv, TypeOK
    <3> QED
      BY <3>1, <1>1, OthersKeepScope
  <2>6. Scope(t)'
    BY <1>4 DEF Scope
  <2> QED
    BY <2>2, <2>3, <2>4, <2>5, <2>6 DEF RlsInv, Scoped
<1>5. CASE /\ c \in cut
           /\ pc' = [pc EXCEPT ![t] = "rollback"]
           /\ UNCHANGED <<conn, session, cut, committed, unanswered, faults>>
  <2>1. TypeOK'
    BY <1>1, <1>5 DEF RlsInv, TypeOK, PCs, Before
  <2>2. Holding' /\ Exclusive' /\ CommitsSeen' /\ ResolvedSeen' /\ OwnClaims'
    BY <1>1, <1>5
    DEF RlsInv, TypeOK, Holding, Exclusive, CommitsSeen, ResolvedSeen, OwnClaims, Before
  <2>3. CleanWhenPooled'
    BY <1>5 DEF RlsInv, CleanWhenPooled, Idle
  <2>4. ASSUME NEW u \in Calls PROVE Scope(u)'
    <3>1. u = t \/ pc'[u] = pc[u]
      BY <1>5 DEF RlsInv, TypeOK
    <3> QED
      BY <3>1, <1>1, <1>5 DEF RlsInv, Scoped, Scope, Prepared
  <2> QED
    BY <2>1, <2>2, <2>3, <2>4 DEF RlsInv, Scoped
<1> QED
    BY <1>2, <1>3, <1>4, <1>5 DEF Commit

\* The invariant is kept where a connection is cut.
LEMMA CutStep ==
    ASSUME RlsInv, NEW c \in Conns, Cut(c)
    PROVE  RlsInv'
<1>1. /\ session' = [session EXCEPT ![c] = Fresh] /\ Fault
      /\ UNCHANGED <<conn, stmts, ran, committed, caught, unanswered>>
    BY DEF Cut, logs
<1>2. Fresh \in Sessions
    BY DEF Fresh, Sessions, Acting, Login, Roles
<1>3. CleanWhenPooled'
    BY <1>1 DEF RlsInv, TypeOK, CleanWhenPooled, Idle
<1>4. CASE /\ alive' = FALSE /\ UNCHANGED cut
           /\ pc' = [t \in Calls |-> IF pc[t] \in {"resolved", "thrown"} THEN pc[t] ELSE "lost"]
  <2>1. \A t \in Calls : pc[t] \in PCs /\ (pc'[t] = pc[t] \/ pc'[t] = "lost")
    BY <1>4 DEF RlsInv, TypeOK
  <2>2. pc' \in [Calls -> PCs]
    BY <1>4, <2>1 DEF PCs
  <2>3. TypeOK'
    <3>1. alive' \in BOOLEAN
      BY <1>4
    <3>2. session' \in [Conns -> Sessions] /\ faults' \in 0 .. MaxFaults
      BY <1>1, <1>2, BoundAssumption DEF RlsInv, TypeOK, Fault
    <3>3. cut' = cut
      BY <1>4
    <3> QED
      BY <1>1, <2>2, <3>1, <3>2, <3>3 DEF RlsInv, TypeOK
  <2>4. Holding' /\ Exclusive'
    BY <1>1, <2>1 DEF RlsInv, Holding, Exclusive, Before
  <2>5. CommitsSeen' /\ ResolvedSeen' /\ OwnClaims'
    BY <1>1, <1>4 DEF RlsInv, TypeOK, CommitsSeen, ResolvedSeen, OwnClaims
  <2>6. Scoped'
    BY <1>4 DEF Scoped, Scope, Before
  <2> QED
    BY <1>3, <2>3, <2>4, <2>5, <2>6 DEF RlsInv
<1>5. CASE /\ cut' = IF Idle(c) THEN cut ELSE cut \cup {c}
           /\ UNCHANGED <<alive, pc>>
  <2>1. TypeOK' /\ Holding' /\ Exclusive'
    BY <1>1, <1>2, <1>5, BoundAssumption
    DEF RlsInv, TypeOK, Holding, Exclusive, Fault
  <2>2. CommitsSeen' /\ ResolvedSeen' /\ OwnClaims'
    BY <1>1, <1>5 DEF RlsInv, CommitsSeen, ResolvedSeen, OwnClaims
  <2>3. ASSUME NEW t \in Calls, pc[t] \in Before, conn[t] \notin cut'
        PROVE  conn[t] # c /\ conn[t] \notin cut /\ session'[conn[t]] = session[conn[t]]
    BY <1>1, <1>5, <2>3 DEF Idle, RlsInv, TypeOK, Holding
  <2>4. Scoped'
    BY <1>1, <1>5, <2>3 DEF RlsInv, Scoped, Scope, Prepared
  <2> QED
    BY <1>3, <2>1, <2>2, <2>4 DEF RlsInv
<1> QED
    BY <1>4, <1>5 DEF Cut

-----------------------------------------------------------------------------
(* The theorems.                                                           *)

\* The inductive invariant, for overlapping calls of any number of users.
THEOREM RlsInvariant == Spec => []RlsInv
<1>1. Init => RlsInv
    <2> SUFFICES ASSUME Init PROVE RlsInv
        OBVIOUS
    <2>1. TypeOK
        BY BoundAssumption
        DEF Init, TypeOK, PCs, Before, Sessions, Acting, Roles, Fresh, Login
    <2>2. Holding /\ Exclusive /\ CleanWhenPooled /\ Scoped
        BY DEF Init, Holding, Exclusive, CleanWhenPooled, Scoped, Scope, Before
    <2>3. OwnClaims /\ CommitsSeen /\ ResolvedSeen
        BY DEF Init, OwnClaims, CommitsSeen, ResolvedSeen
    <2> QED
        BY <2>1, <2>2, <2>3 DEF RlsInv
<1>2. RlsInv /\ [Next]_vars => RlsInv'
    <2> SUFFICES ASSUME RlsInv, [Next]_vars PROVE RlsInv'
        OBVIOUS
    <2>1. ASSUME NEW t \in Calls, Step(t) PROVE RlsInv'
        BY <2>1, ConnectStep, SetupSteps, StatementStep, FnEndsStep, CommitStep, RollbackStep
        DEF Step
    <2>2. ASSUME NEW c \in Conns, Cut(c) PROVE RlsInv'
        BY <2>2, CutStep
    <2>3. CASE UNCHANGED vars
        BY <2>3
        DEF vars, logs, RlsInv, TypeOK, Holding, Exclusive, CleanWhenPooled, Idle, Scoped, Scope,
            Prepared, OwnClaims, CommitsSeen, ResolvedSeen
    <2> QED
        BY <2>1, <2>2, <2>3 DEF Next
<1> QED
    BY <1>1, <1>2, PTL DEF Spec

\* Every reachable state is well typed.
THEOREM RlsTypeOK == Spec => []TypeOK
<1>1. RlsInv => TypeOK
    BY DEF RlsInv
<1> QED
    BY <1>1, RlsInvariant, PTL

\* No statement runs with another user's claims, or with none.
THEOREM StatementsRunAsTheirUser == Spec => []OwnClaims
<1>1. RlsInv => OwnClaims
    BY DEF RlsInv
<1> QED
    BY <1>1, RlsInvariant, PTL

\* A connection in the pool carries nothing of the calls it served.
THEOREM PooledConnectionsAreClean == Spec => []CleanWhenPooled
<1>1. RlsInv => CleanWhenPooled
    BY DEF RlsInv
<1> QED
    BY <1>1, RlsInvariant, PTL

\* A call's outcome is that of its transaction, but for a hidden failure or a
\* lost answer.
THEOREM OutcomesAreTrue == Spec => []ToldTheTruth
<1>1. RlsInv => ToldTheTruth
    BY DEF RlsInv, CommitsSeen, ResolvedSeen, ToldTheTruth
<1> QED
    BY <1>1, RlsInvariant, PTL

=============================================================================
