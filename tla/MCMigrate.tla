------------------------------ MODULE MCMigrate ------------------------------
(* Migrate with a directory of two files and one app migration.     *)
EXTENDS Migrate

CONSTANTS r1, r2, m1, f1, f2

TwoRunners == {r1, r2}
TwoFiles   == <<f1, f2>>
OneApp     == {m1}

=============================================================================
