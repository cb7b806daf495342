----------------------------- MODULE MCRlsSession -----------------------------
(* Three calls of two users over two connections.                             *)
EXTENDS RlsSession, TLC

CONSTANTS t1, t2, t3, alice, bob, p1, p2, none

ThreeCalls == {t1, t2, t3}
TwoUsers   == {alice, bob}
ByCall     == t1 :> alice @@ t2 :> bob @@ t3 :> alice
TwoConns   == {p1, p2}

=============================================================================
