--------------------------- MODULE MigrationLedger ---------------------------
(***************************************************************************)
(* What a ledger of migrations promises, whoever runs them, however often: *)
(* the body of each takes effect at most once, and those that are ordered  *)
(* take effect in that order.                                              *)
(***************************************************************************)
EXTENDS Naturals, Sequences

CONSTANTS
    Entries,  \* the migrations
    Before    \* pairs of them, the first of which takes effect before the second

VARIABLE log  \* the bodies that took effect, in the order of their commits

Applied == {log[i] : i \in DOMAIN log}

Apply(e) ==
    /\ e \notin Applied
    /\ \A d \in Entries : <<d, e>> \in Before => d \in Applied
    /\ log' = Append(log, e)

LedgerInit == log = <<>>

LedgerNext == \E e \in Entries : Apply(e)

LedgerSpec == LedgerInit /\ [][LedgerNext]_log

=============================================================================
