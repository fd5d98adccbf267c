----------------------------- MODULE TnsChannel -----------------------------
(***************************************************************************)
(* The packets of one connection: read_packet (tns.py) and _SocketReader   *)
(* over a TCP stream that arrives in pieces of any size and may end        *)
(* anywhere, and the loop of handle_client (server.py) that takes them up. *)
(*                                                                         *)
(* A packet is HeaderSize units and then its payload; <<n, i>> is unit i   *)
(* of the n-th packet the client sent.  The first two payload units of a   *)
(* DATA packet are its data flags.  A TTC message the client finds too     *)
(* long for one DATA packet goes on in the next one (more).                *)
(***************************************************************************)
EXTENDS Naturals, Sequences, FiniteSets

CONSTANTS
    Packets,             \* what clients send: [kind, size, more]
    HeaderSize,          \* 8 bytes in the program
    MaxPackets,          \* bound: packets a client sends
    MaxChunks,           \* bound: DATA packets of an answer
    HighWater            \* packets the writer takes before drain() waits

Kinds == {"connect", "data", "break", "reset", "control", "other"}

ASSUME PacketsAssumption == Packets \subseteq [kind : Kinds, size : Nat, more : BOOLEAN]
ASSUME SizesAssumption ==
    HeaderSize \in Nat \ {0} /\ MaxPackets \in Nat /\ MaxChunks \in Nat \ {0} /\ HighWater \in Nat

VARIABLES
    sent,                \* the packets the client has sent
    cut,                 \* its end of the stream: "open", "eof", "reset"
    taken,               \* how much of written the client has read
    wire,                \* units on their way
    buf,                 \* _SocketReader._buf
    header,              \* the header read_packet has read, or <<>>
    phase,               \* "handshake", "serving", "ended"
    waiting,             \* in drain(), and what comes then: "loop", "cancel", "end"; or "no"
    handled,             \* the units of the packets that were taken up
    written              \* what was written, as in PacketQueue

vars == <<sent, cut, taken, wire, buf, header, phase, waiting, handled, written>>
client == <<sent, cut, taken>>

Init ==
    /\ sent = <<>> /\ cut = "open" /\ taken = 0
    /\ wire = <<>> /\ buf = <<>> /\ header = <<>>
    /\ phase = "handshake" /\ waiting = "no"
    /\ handled = <<>> /\ written = <<>>

Units(n, size) == [i \in 1 .. HeaderSize + size |-> <<n, i>>]
Item(what, n, last) == [what |-> what, of |-> n, last |-> last]
Chunks(n, k) == [i \in 1 .. k |-> Item("data", n, i = k)]

-----------------------------------------------------------------------------
(* The client and the network                                              *)

\* A message that goes on in another packet does so at once.  What is sent to a
\* connection that has ended is left out.
Send(p) ==
    /\ cut = "open" /\ phase # "ended" /\ Len(sent) < MaxPackets
    /\ p.more => p.kind = "data" /\ Len(sent) + 1 < MaxPackets
    /\ sent # <<>> /\ sent[Len(sent)].more => p.kind = "data"
    /\ sent' = Append(sent, p)
    /\ wire' = wire \o Units(Len(sent) + 1, p.size)
    /\ UNCHANGED <<cut, taken, buf, header, phase, waiting, handled, written>>

Take ==
    /\ cut # "reset" /\ phase # "ended" /\ taken < Len(written)
    /\ taken' = taken + 1
    /\ UNCHANGED <<sent, cut, wire, buf, header, phase, waiting, handled, written>>

\* The client is gone, perhaps in the middle of a packet; or its connection breaks, and
\* the bridge may or may not read what is on its way.
Leave ==
    /\ cut = "open" /\ phase # "ended"
    /\ \/ cut' = "eof" /\ \E k \in 0 .. Len(wire) : wire' = SubSeq(wire, 1, k)
       \/ cut' = "reset" /\ UNCHANGED wire
    /\ UNCHANGED <<sent, taken, buf, header, phase, waiting, handled, written>>

-----------------------------------------------------------------------------
(* _SocketReader.read_exact.  BufferedMore, FrontTakesAll, RestForgotten,  *)
(* StreamEndsBetweenPackets and IgnoreAnswers are plausible mistakes in    *)
(* the definition behind them.                                             *)

\* `while len(self._buf) <= n'.
BufferedMore(n) == Len(buf) > n
Buffered(n) == Len(buf) >= n

\* A read takes all that has arrived.
FrontTakesAll(n) == buf
Front(n) == SubSeq(buf, 1, n)

\* `self._buf = b""' after a read.
RestForgotten(n) == <<>>
Rest(n) == SubSeq(buf, n + 1, Len(buf))

\* The packet a header announces, and how much of it read_packet is waiting for.
Which == header[1][1]
Announced == sent[Which]
Needed == IF header = <<>> THEN HeaderSize ELSE Announced.size

Reading == phase # "ended" /\ waiting = "no"

\* reader.read(65536) has got some of what is on its way.
Receive ==
    /\ Reading /\ ~Buffered(Needed)
    /\ \E k \in 1 .. Len(wire) :
         /\ buf' = buf \o SubSeq(wire, 1, k)
         /\ wire' = SubSeq(wire, k + 1, Len(wire))
    /\ UNCHANGED <<client, header, phase, waiting, handled, written>>

ReadHeader ==
    /\ Reading /\ header = <<>> /\ Buffered(HeaderSize)
    /\ header' = Front(HeaderSize) /\ buf' = Rest(HeaderSize)
    /\ UNCHANGED <<client, wire, phase, waiting, handled, written>>

\* Only between packets does None count as the end.
StreamEndsBetweenPackets ==
    /\ Reading /\ ~Buffered(Needed) /\ header = <<>>
    /\ cut = "reset" \/ (cut = "eof" /\ wire = <<>>)
    /\ phase' = "ended"
    /\ UNCHANGED <<client, wire, buf, header, waiting, handled, written>>

\* read_exact answers None, for a payload as well: handle_client stumbles over it.
StreamEnds ==
    /\ Reading /\ ~Buffered(Needed)
    /\ cut = "reset" \/ (cut = "eof" /\ wire = <<>>)
    /\ phase' = "ended"
    /\ UNCHANGED <<client, wire, buf, header, waiting, handled, written>>

-----------------------------------------------------------------------------
(* The loop of handle_client                                               *)

\* The packet is complete and is taken up.
TakeUp ==
    /\ Reading /\ header # <<>> /\ Buffered(Needed)
    /\ handled' = Append(handled, header \o Front(Needed))
    /\ buf' = Rest(Needed) /\ header' = <<>>
    /\ UNCHANGED <<client, wire>>

Write(items, then) == written' = written \o items /\ waiting' = then /\ UNCHANGED phase

GiveUp == phase' = "ended" /\ UNCHANGED <<waiting, written>>

\* The first packet has to be a CONNECT.
Connect ==
    /\ phase = "handshake"
    /\ header # <<>> /\ Announced.kind = "connect"
    /\ TakeUp
    /\ Write(<<Item("accept", Which, TRUE)>>, "loop")

\* _chunks of what handle_ttc answers; a session that is over ends after its answer.
Respond ==
    /\ phase = "serving"
    /\ header # <<>> /\ Announced.kind = "data" /\ Announced.size # 1
    /\ TakeUp
    /\ \E k \in 1 .. MaxChunks, then \in {"loop", "end"} : Write(Chunks(Which, k), then)

\* A RESET marker for every marker, and for a RESET an ORA-01013 behind it.
Marker ==
    /\ phase = "serving"
    /\ header # <<>> /\ Announced.kind \in {"break", "reset"}
    /\ TakeUp
    /\ Write(<<Item("marker", Which, TRUE)>>, IF Announced.kind = "reset" THEN "cancel" ELSE "loop")

\* A status message for what is not known, too.
IgnoreAnswers ==
    /\ phase = "serving"
    /\ header # <<>> /\ Announced.kind \in {"connect", "control", "other"}
    /\ TakeUp
    /\ Write(Chunks(Which, 1), "loop")

\* CONTROL packets and all others.
Ignore ==
    /\ phase = "serving"
    /\ header # <<>> /\ Announced.kind \in {"connect", "control", "other"}
    /\ TakeUp
    /\ UNCHANGED <<phase, waiting, written>>

\* The first packet is no CONNECT, half of the data flags are missing, or handle_ttc raises.
Refuse ==
    /\ Reading /\ header # <<>> /\ Buffered(Needed)
    /\ phase = "serving" => Announced.kind = "data"
    /\ phase = "handshake" => Announced.kind # "connect"
    /\ GiveUp
    /\ UNCHANGED <<client, wire, buf, header, handled>>

\* drain() returns; after the first packet the loop is entered, after a RESET the
\* ORA-01013 is written.
Drained ==
    /\ phase # "ended" /\ Len(written) - taken <= HighWater
    /\ \/ waiting = "loop" /\ phase' = "serving" /\ waiting' = "no" /\ UNCHANGED written
       \/ waiting = "end" /\ phase' = "ended" /\ waiting' = "no" /\ UNCHANGED written
       \/ /\ waiting = "cancel"
          /\ Write(<<Item("cancelled", Len(handled), TRUE)>>, "loop")
    /\ UNCHANGED <<client, wire, buf, header, handled>>

\* drain() finds that the client is gone.
WriteFails ==
    /\ phase # "ended" /\ waiting # "no" /\ cut # "open"
    /\ phase' = "ended" /\ waiting' = "no"
    /\ UNCHANGED <<client, wire, buf, header, handled, written>>

-----------------------------------------------------------------------------
Bridge ==
    \/ Receive \/ ReadHeader \/ StreamEnds
    \/ Connect \/ Respond \/ Marker \/ Ignore \/ Refuse
    \/ Drained \/ WriteFails

Next == (\E p \in Packets : Send(p)) \/ Take \/ Leave \/ Bridge

\* handle_client is a task of the event loop; a client reads what it is sent.
Spec == Init /\ [][Next]_vars /\ WF_vars(Bridge) /\ WF_vars(Take)

-----------------------------------------------------------------------------
Sent == DOMAIN sent
UnitsSent == UNION {{<<n, i>> : i \in 1 .. HeaderSize + sent[n].size} : n \in Sent}

TypeOK ==
    /\ sent \in Seq(Packets) /\ Len(sent) <= MaxPackets
    /\ cut \in {"open", "eof", "reset"}
    /\ taken \in 0 .. Len(written)
    /\ wire \in Seq(UnitsSent) /\ buf \in Seq(UnitsSent)
    /\ header = <<>> \/ header \in [1 .. HeaderSize -> UnitsSent]
    /\ phase \in {"handshake", "serving", "ended"}
    /\ waiting \in {"no", "loop", "cancel", "end"} /\ (phase = "ended" => waiting = "no")
    /\ handled \in Seq(Seq(UnitsSent))
    /\ written \in Seq([what : {"accept", "data", "marker", "cancelled"}, of : Sent, last : BOOLEAN])

\* The message packet n belongs to, counting from 1.
Message(n) == 1 + Cardinality({m \in 1 .. n - 1 : sent[m].kind = "data" /\ ~sent[m].more})

\* The answers a client can tell apart, each by its last packet, among the first k packets
\* written.
IsAnswer(w) == w.what \in {"data", "cancelled"} /\ w.last
Answers(k) == {j \in 1 .. k : IsAnswer(written[j])}

\* However the stream is cut into pieces and whatever else comes in between, the k-th
\* answer is that of the k-th message; only a message of more than one packet, each of
\* which is answered (server.py:99), or the ORA-01013 for a RESET (server.py:82-91)
\* puts client and bridge out of step, and from there on only.
OnlyKnownShifts ==
    \A k \in Answers(Len(written)) :
      LET n == written[k].of
      IN  (\A i \in 1 .. n : ~sent[i].more /\ sent[i].kind # "reset") =>
            Message(n) = Cardinality(Answers(k))

\* What a packet that was taken up was: one that was sent, or units of several.
Garbled == [kind |-> "garbled", size |-> 0, more |-> FALSE]
Queue == INSTANCE PacketQueue WITH
    handled <- [n \in DOMAIN handled |->
                  IF handled[n] = Units(n, sent[n].size) THEN sent[n] ELSE Garbled],
    owes    <- waiting = "cancel",
    open    <- phase # "ended"

\* The packets are taken up whole, in order and once each, and answered one by one,
\* wherever the stream was cut and whenever it ended (read_exact, read_packet): to the
\* loop the connection is a queue of packets.
PacketsInOrder == Queue!Spec

\* A packet that was sent whole is taken up in the end, unless the connection ends first.
EveryPacketIsTakenUp ==
    \A n \in 1 .. MaxPackets : Len(sent) >= n ~> Len(handled) >= n \/ phase = "ended"

\* When the client has left, in the middle of a packet or of an answer, the bridge ends
\* the session as well.
LeaverIsNoticed == cut # "open" ~> phase = "ended"

=============================================================================
