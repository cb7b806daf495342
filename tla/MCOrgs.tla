-------------------------------- MODULE MCOrgs --------------------------------
(* Orgs with two names whose slugs meet: the second candidate of "acme" is the *)
(* first of "acme 2".                                                          *)
EXTENDS Orgs

CONSTANTS p1, p2, s, acme, acme2, dash1, dash2, dash3, ada, bob, x1

TwoSlots   == {p1, p2}
TwoNames   == {acme, acme2}
TwoEmails  == {ada, bob}
OneProject == {x1}
Tries      == [n \in TwoNames |-> IF n = acme THEN <<dash1, dash2>>
                                  ELSE <<dash2, dash3>>]

=============================================================================
