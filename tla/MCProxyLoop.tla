---------------------------- MODULE MCProxyLoop ----------------------------
(* Three clients writing two rows: a writer, one it waits for, a bystander. *)
EXTENDS ProxyLoop

CONSTANTS c1, c2, c3, r1, r2

MCClients == {c1, c2, c3}
MCRows == {r1, r2}

=============================================================================
