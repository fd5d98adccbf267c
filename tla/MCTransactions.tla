--------------------------- MODULE MCTransactions ---------------------------
(* Transactions for TLC: a few changes, interchangeable, and the fault sets. *)
EXTENDS Transactions, TLC

CONSTANTS w1, w2, w3

MCWrites == {w1, w2, w3}
MCSymmetry == Permutations(MCWrites)

NoFaults == {}
FailedStatement == {"failedStatement"}
PartialRollback == {"partialRollback"}

=============================================================================
