----------------------------- MODULE MCSession -----------------------------
(* One whole session for TLC, with every fault: two changes, one query of two *)
(* rows, two cursor ids, and answers that can carry only the first.           *)
EXTENDS Session, TLC

CONSTANTS w1, w2, r1, r2

MCWrites == {w1, w2}
AllFaults == {"failedStatement", "swallowedError", "partialRollback"}
MCRows == {r1, r2}
MCResults == {<<r1, r2>>}
MCBatchSizes == {0, 1}
MCSymmetry == Permutations(MCWrites)

=============================================================================
