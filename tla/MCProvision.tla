----------------------------- MODULE MCProvision -----------------------------
(* Provision on two slots.  The slots are interchangeable, but the runs     *)
(* check temporal properties, so no symmetry is declared.                   *)
EXTENDS Provision

CONSTANTS p1, p2

Slots == {p1, p2}

=============================================================================
