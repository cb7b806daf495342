-------------------------------- MODULE MCLive --------------------------------
(* One application opens two channels that share the refresh loop, another    *)
(* follows presence on one.                                                   *)
EXTENDS Live

CONSTANTS c1, c2, k1, k2

TwoChans == {c1, c2}
TwoKeys  == {k1, k2}
TwoApps  == {[opens |-> {c1, c2}, private |-> {c1}, follows |-> {}, tokens |-> 3],
             [opens |-> {c1}, private |-> {c1}, follows |-> {c1}, tokens |-> 1]}

=============================================================================
