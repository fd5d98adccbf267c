---------------------------- MODULE MCRefCursors ----------------------------
(* RefCursors for TLC: two queries that share no row, one of them longer     *)
(* than every batch, and the empty result.                                   *)
EXTENDS RefCursors

CONSTANTS a1, a2, a3, b1

MCRows == {a1, a2, a3, b1}
MCResults == {<<a1, a2, a3>>, <<b1>>, <<>>}
MCBatchSizes == {0, 1, 2}

=============================================================================
