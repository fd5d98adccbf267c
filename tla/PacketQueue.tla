---------------------------- MODULE PacketQueue ----------------------------
(***************************************************************************)
(* What handle_client (server.py) takes its connection for: a queue of     *)
(* whole packets, handled one at a time in the order they were sent, each  *)
(* answered before the next is looked at, until the connection ends.       *)
(*                                                                         *)
(* This is the abstract specification module TnsChannel implements.        *)
(***************************************************************************)
EXTENDS Naturals, Sequences

CONSTANTS
    Packets,             \* what clients send: [kind, size, more]
    MaxChunks            \* DATA packets an answer needs at most

VARIABLES
    sent,                \* the packets the client sent
    handled,             \* those handle_client has taken up
    written,             \* what it wrote: [what, of, last], of being a place in sent
    owes,                \* an ORA-01013 follows the marker that was just written
    open                 \* the connection has not ended

vars == <<sent, handled, written, owes, open>>

Init ==
    /\ sent = <<>> /\ handled = <<>> /\ written = <<>>
    /\ owes = FALSE /\ open = TRUE

Item(what, n, last) == [what |-> what, of |-> n, last |-> last]

\* An answer is cut into chunks; only its own text tells the client where it ends.
Chunks(n, k) == [i \in 1 .. k |-> Item("data", n, i = k)]

\* What packet n may be answered with while the connection is served.
Replies(n) ==
    CASE n = 1 -> {<<Item("accept", n, TRUE)>>}
      [] n > 1 /\ sent[n].kind = "data" -> {Chunks(n, k) : k \in 1 .. MaxChunks}
      [] n > 1 /\ sent[n].kind \in {"break", "reset"} -> {<<Item("marker", n, TRUE)>>}
      [] OTHER -> {<<>>}

Send ==
    /\ \E p \in Packets : sent' = Append(sent, p)
    /\ UNCHANGED <<handled, written, owes, open>>

Handle ==
    LET n == Len(handled) + 1
    IN /\ open /\ ~owes
       /\ n <= Len(sent)
       /\ n = 1 => sent[n].kind = "connect"
       /\ handled' = Append(handled, sent[n])
       /\ \E r \in Replies(n) : written' = written \o r
       /\ owes' = (n > 1 /\ sent[n].kind = "reset")
       /\ UNCHANGED <<sent, open>>

Owed ==
    /\ open /\ owes
    /\ written' = Append(written, Item("cancelled", Len(handled), TRUE))
    /\ owes' = FALSE
    /\ UNCHANGED <<sent, handled, open>>

\* At any time: the client left, or said goodbye, or its packet made no sense.
End ==
    /\ open /\ open' = FALSE
    /\ owes' = FALSE
    /\ UNCHANGED <<sent, handled, written>>

Next == Send \/ Handle \/ Owed \/ End

Spec == Init /\ [][Next]_vars

=============================================================================
