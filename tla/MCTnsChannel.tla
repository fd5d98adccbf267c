---------------------------- MODULE MCTnsChannel ----------------------------
(* TnsChannel for TLC: a CONNECT and three packets more, headers of two units. *)
EXTENDS TnsChannel

MCPackets ==
    {[kind |-> k, size |-> 1, more |-> FALSE] : k \in {"data", "reset"}}
      \cup {[kind |-> k, size |-> 0, more |-> FALSE] : k \in {"connect", "break", "control"}}
      \cup {[kind |-> "data", size |-> 2, more |-> m] : m \in BOOLEAN}

=============================================================================
