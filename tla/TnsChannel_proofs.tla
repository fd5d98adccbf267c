------------------------- MODULE TnsChannel_proofs -------------------------
(***************************************************************************)
(* For packets of any size: TnsChannel implements PacketQueue.  Whatever   *)
(* pieces the stream arrives in, what is buffered and on its way goes on   *)
(* where the last packet that was taken up ended.                          *)
(***************************************************************************)
EXTENDS TnsChannel, SequenceTheorems, FiniteSetTheorems, WellFoundedInduction, TLAPS

-----------------------------------------------------------------------------
(* Sequences cut in two                                                    *)

\* What lies on either side of a cut.
LEMMA Cut == ASSUME NEW S, NEW s \in Seq(S), NEW k \in 0 .. Len(s)
             PROVE  /\ SubSeq(s, 1, k) \in Seq(S) /\ Len(SubSeq(s, 1, k)) = k
                    /\ \A i \in 1 .. k : SubSeq(s, 1, k)[i] = s[i]
                    /\ SubSeq(s, k + 1, Len(s)) \in Seq(S)
                    /\ Len(SubSeq(s, k + 1, Len(s))) = Len(s) - k
                    /\ \A i \in 1 .. Len(s) - k : SubSeq(s, k + 1, Len(s))[i] = s[k + i]
                    /\ SubSeq(s, 1, k) \o SubSeq(s, k + 1, Len(s)) = s
<1>1. Len(s) \in Nat /\ \A i \in 1 .. Len(s) : s[i] \in S
  BY LenProperties, ElementOfSeq
<1>2. /\ SubSeq(s, 1, k) \in Seq(S)
      /\ Len(SubSeq(s, 1, k)) = IF 1 <= k THEN k - 1 + 1 ELSE 0
      /\ \A i \in 1 .. k - 1 + 1 : SubSeq(s, 1, k)[i] = s[1 + i - 1]
  <2>1. \A i \in 1 .. k : s[i] \in S
    BY <1>1
  <2> QED
    BY <2>1, SubSeqProperties
<1>3. /\ SubSeq(s, k + 1, Len(s)) \in Seq(S)
      /\ Len(SubSeq(s, k + 1, Len(s))) = IF k + 1 <= Len(s) THEN Len(s) - (k + 1) + 1 ELSE 0
      /\ \A i \in 1 .. Len(s) - (k + 1) + 1 : SubSeq(s, k + 1, Len(s))[i] = s[k + 1 + i - 1]
  <2>1. \A i \in k + 1 .. Len(s) : s[i] \in S
    BY <1>1
  <2>2. k + 1 \in Int /\ Len(s) \in Int
    BY <1>1
  <2> QED
    BY <2>1, <2>2, SubSeqProperties
<1>4. SubSeq(s, 1, k) \o SubSeq(s, k + 1, Len(s)) = SubSeq(s, 1, Len(s))
  <2>1. 1 \in 1 .. Len(s) + 1 /\ k \in 1 - 1 .. Len(s) /\ Len(s) \in k .. Len(s)
    BY <1>1
  <2> QED
    BY <2>1, ConcatAdjacentSubSeq
<1>5. /\ Len(SubSeq(s, 1, k)) = k
      /\ \A i \in 1 .. k : SubSeq(s, 1, k)[i] = s[i]
  <2>1. \A i \in 1 .. k : i \in 1 .. k - 1 + 1 /\ 1 + i - 1 = i
    BY <1>1
  <2>2. k \in Nat
    BY <1>1
  <2> QED
    BY <1>2, <2>1, <2>2
<1>6. /\ Len(SubSeq(s, k + 1, Len(s))) = Len(s) - k
      /\ \A i \in 1 .. Len(s) - k : SubSeq(s, k + 1, Len(s))[i] = s[k + i]
  <2>1. \A i \in 1 .. Len(s) - k : i \in 1 .. Len(s) - (k + 1) + 1 /\ k + 1 + i - 1 = k + i
    BY <1>1
  <2> QED
    BY <1>1, <1>3, <2>1
<1> QED
  BY <1>2, <1>3, <1>4, <1>5, <1>6, SubSeqFull

\* Writing one item is appending it.
LEMMA OneMore == ASSUME NEW S, NEW s \in Seq(S), NEW x \in S
                 PROVE  s \o <<x>> \in Seq(S) /\ Len(s \o <<x>>) = Len(s) + 1
                        /\ s \o <<x>> = Append(s, x)
BY AppendIsConcat, AppendProperties

\* What the reader takes over goes from one side to the other.
LEMMA Moved == ASSUME NEW S, NEW b \in Seq(S), NEW w \in Seq(S), NEW k \in 0 .. Len(w)
               PROVE  (b \o SubSeq(w, 1, k)) \o SubSeq(w, k + 1, Len(w)) = b \o w
<1> DEFINE x == SubSeq(w, 1, k)
           y == SubSeq(w, k + 1, Len(w))
<1>1. x \in Seq(S) /\ y \in Seq(S)
  BY Cut
<1>2. x \o y = w
  BY Cut
<1> HIDE DEF x, y
<1>3. (b \o x) \o y = b \o (x \o y)
  BY <1>1, ConcatAssociative
<1>4. (b \o x) \o y = b \o w
  BY <1>2, <1>3, Zenon
<1> QED
  BY <1>4 DEF x, y

\* What is taken from the front of one side is taken from the front of both.
LEMMA Taken == ASSUME NEW S, NEW b \in Seq(S), NEW w \in Seq(S), NEW k \in 0 .. Len(b)
               PROVE  /\ Len(b \o w) \in Nat /\ k \in 0 .. Len(b \o w)
                      /\ SubSeq(b \o w, 1, k) = SubSeq(b, 1, k)
                      /\ SubSeq(b \o w, k + 1, Len(b \o w)) = SubSeq(b, k + 1, Len(b)) \o w
<1> DEFINE front == SubSeq(b, 1, k)
           back  == SubSeq(b, k + 1, Len(b))
           rest  == back \o w
<1>0. front \in Seq(S) /\ back \in Seq(S)
  BY Cut
<1>1. front \in Seq(S) /\ back \in Seq(S) /\ Len(front) = k /\ front \o back = b
  BY Cut
<1>2. front \o rest = b \o w /\ rest \in Seq(S)
  <2> HIDE DEF front, back
  <2>1. (front \o back) \o w = front \o (back \o w)
    BY <1>0, ConcatAssociative
  <2>2. back \o w \in Seq(S)
    BY <1>0, ConcatProperties
  <2> QED
    BY <1>1, <2>1, <2>2, Zenon
<1> HIDE DEF front, rest
<1>3. b \o w \in Seq(S) /\ Len(b \o w) = k + Len(rest) /\ Len(rest) \in Nat /\ k \in Nat
  BY <1>1, <1>2, ConcatProperties, LenProperties
<1>4. /\ SubSeq(b \o w, 1, k) \in Seq(S) /\ Len(SubSeq(b \o w, 1, k)) = k
      /\ \A i \in 1 .. k : SubSeq(b \o w, 1, k)[i] = (b \o w)[i]
      /\ SubSeq(b \o w, k + 1, Len(b \o w)) \in Seq(S)
      /\ Len(SubSeq(b \o w, k + 1, Len(b \o w))) = Len(rest)
      /\ \A i \in 1 .. Len(rest) : SubSeq(b \o w, k + 1, Len(b \o w))[i] = (b \o w)[k + i]
  <2>1. k \in 0 .. Len(b \o w) /\ Len(b \o w) - k = Len(rest)
    BY <1>3
  <2> QED
    BY <1>3, <2>1, Cut
<1>5. /\ \A i \in 1 .. k : (b \o w)[i] = front[i]
      /\ \A i \in 1 .. Len(rest) : (b \o w)[k + i] = rest[i]
  <2>1. \A i \in 1 .. k + Len(rest) : (b \o w)[i] = IF i <= k THEN front[i] ELSE rest[i - k]
    <3>1. \A i \in 1 .. Len(front) + Len(rest) :
            (front \o rest)[i] = IF i <= Len(front) THEN front[i] ELSE rest[i - Len(front)]
      BY <1>0, <1>2, ConcatProperties, Zenon
    <3> QED
      BY <1>1, <1>2, <3>1, Zenon
  <2>2. \A i \in 1 .. k : i \in 1 .. k + Len(rest) /\ i <= k
    BY <1>3
  <2>3. \A i \in 1 .. Len(rest) : k + i \in 1 .. k + Len(rest) /\ ~(k + i <= k) /\ (k + i) - k = i
    BY <1>3
  <2> QED
    BY <2>1, <2>2, <2>3, Zenon
<1>6. SubSeq(b \o w, 1, k) = front
  BY <1>1, <1>4, <1>5, SeqEqual
<1>7. SubSeq(b \o w, k + 1, Len(b \o w)) = rest
  BY <1>2, <1>4, <1>5, SeqEqual
<1>8. Len(b \o w) \in Nat /\ k \in 0 .. Len(b \o w)
  BY <1>3
<1> QED
  BY <1>6, <1>7, <1>8, Zenon DEF front, rest
-----------------------------------------------------------------------------
(* Units in order                                                          *)

\* The unit behind u in the client's stream.
Succ(u) == IF u[2] < HeaderSize + sent[u[1]].size THEN <<u[1], u[2] + 1>> ELSE <<u[1] + 1, 1>>

InOrder(s) == \A k \in 1 .. Len(s) - 1 : s[k + 1] = Succ(s[k])

\* The packets the client has sent, and what they are.
LEMMA PacketFacts == ASSUME sent \in Seq(Packets)
                     PROVE  /\ Len(sent) \in Nat /\ Sent = 1 .. Len(sent)
                            /\ HeaderSize \in Nat /\ HeaderSize > 0
                            /\ \A n \in Sent : /\ sent[n] \in Packets /\ sent[n].size \in Nat
                                               /\ sent[n].kind \in Kinds
BY SizesAssumption, PacketsAssumption, LenProperties, ElementOfSeq DEF Sent

\* A unit is part of some packet that was sent.
LEMMA UnitsAre == ASSUME sent \in Seq(Packets), NEW u
                  PROVE  u \in UnitsSent <=>
                           \E n \in Sent : \E i \in 1 .. HeaderSize + sent[n].size : u = <<n, i>>
BY DEF UnitsSent

\* A packet's units from the one after the i-th on, if they begin there.
LEMMA OnePacket == ASSUME sent \in Seq(Packets), NEW s \in Seq(UnitsSent), InOrder(s),
                          NEW n \in Sent, NEW i \in Nat, NEW m \in 1 .. Len(s),
                          i + m <= HeaderSize + sent[n].size, s[1] = <<n, i + 1>>
                   PROVE  /\ \A k \in 1 .. m : s[k] = <<n, i + k>>
                          /\ m < Len(s) => s[m + 1] = Succ(<<n, i + m>>)
<1>0. m \in Nat /\ Len(s) \in Nat /\ HeaderSize + sent[n].size \in Nat
  BY PacketFacts, LenProperties
<1> DEFINE W == {k \in 1 .. m : s[k] # <<n, i + k>>}
<1>1. W = {}
  <2> SUFFICES ASSUME W # {} PROVE FALSE
    OBVIOUS
  <2>1. PICK k \in W : \A j \in W : ~(<<j, k>> \in OpToRel(<, Nat))
    <3>1. W \subseteq Nat
      OBVIOUS
    <3> HIDE DEF W
    <3> QED BY <3>1, NatLessThanWellFounded, WFMin, Zenon
  <2>2. k \in 1 .. m /\ k # 1 /\ s[k] # <<n, i + k>>
    BY <1>0
  <2>3. k - 1 \notin W
    <3>1. OpToRel(<, Nat) = {p \in Nat \X Nat : p[1] < p[2]}
      BY Zenon DEF OpToRel
    <3>2. /\ <<k - 1, k>> \in Nat \X Nat /\ <<k - 1, k>>[1] < <<k - 1, k>>[2]
      BY <1>0, <2>2
    <3>3. <<k - 1, k>> \in OpToRel(<, Nat)
      BY <3>1, <3>2, Zenon
    <3> HIDE DEF W
    <3> QED BY <2>1, <3>3, Zenon
  <2>4. s[k - 1] = <<n, i + (k - 1)>>
    BY <1>0, <2>2, <2>3
  <2>5. s[k] = Succ(<<n, i + (k - 1)>>)
    <3>1. k - 1 \in 1 .. Len(s) - 1 /\ (k - 1) + 1 = k
      BY <1>0, <2>2
    <3> QED
      BY <2>4, <3>1 DEF InOrder
  <2>6. Succ(<<n, i + (k - 1)>>) = <<n, i + k>>
    BY <1>0, <2>2 DEF Succ
  <2> QED
    BY <2>2, <2>5, <2>6
<1>2. \A k \in 1 .. m : s[k] = <<n, i + k>>
  BY <1>1
<1>3. m < Len(s) => s[m + 1] = Succ(s[m])
  BY <1>0 DEF InOrder
<1>4. s[m] = <<n, i + m>>
  <2>1. m \in 1 .. m
    BY <1>0
  <2> QED
    BY <1>2, <2>1, Zenon
<1> QED
  BY <1>2, <1>3, <1>4, Zenon

\* What is in order stays so when it is cut.
LEMMA RestInOrder == ASSUME NEW S, NEW s \in Seq(S), InOrder(s), NEW k \in 0 .. Len(s)
                     PROVE  InOrder(SubSeq(s, 1, k)) /\ InOrder(SubSeq(s, k + 1, Len(s)))
<1> DEFINE f == SubSeq(s, 1, k)
           r == SubSeq(s, k + 1, Len(s))
<1>1. /\ Len(f) = k /\ \A i \in 1 .. k : f[i] = s[i]
      /\ Len(r) = Len(s) - k /\ \A i \in 1 .. Len(s) - k : r[i] = s[k + i]
  BY Cut
<1>2. Len(s) \in Nat /\ k \in Nat
  BY LenProperties
<1> HIDE DEF f, r
<1>3. InOrder(f)
  BY <1>1, <1>2 DEF InOrder
<1>4. InOrder(r)
  <2> SUFFICES ASSUME NEW i \in 1 .. Len(r) - 1
               PROVE  r[i + 1] = Succ(r[i])
    BY DEF InOrder
  <2>1. r[i + 1] = s[(k + i) + 1] /\ r[i] = s[k + i] /\ k + i \in 1 .. Len(s) - 1
    BY <1>1, <1>2
  <2> QED
    BY <2>1 DEF InOrder
<1> QED
  BY <1>3, <1>4 DEF f, r

\* The units of one packet, one by one.
LEMMA UnitsSeq == ASSUME NEW n, NEW size \in Nat, NEW S,
                         \A i \in 1 .. HeaderSize + size : <<n, i>> \in S
                  PROVE  /\ Units(n, size) \in Seq(S)
                         /\ Len(Units(n, size)) = HeaderSize + size
                         /\ \A i \in 1 .. HeaderSize + size : Units(n, size)[i] = <<n, i>>
BY SizesAssumption DEF Units

-----------------------------------------------------------------------------
(* The invariant                                                           *)

\* What is buffered and what is on its way.
Stream == buf \o wire

\* Where the bridge is in what the client sent.
Place == IF header = <<>> THEN <<Len(handled) + 1, 1>> ELSE Succ(<<Len(handled) + 1, HeaderSize>>)

\* The stream goes on at that place and, while it is open, up to what was sent last.
StreamInv ==
    /\ InOrder(Stream)
    /\ Len(Stream) > 0 => Stream[1] = Place
    /\ cut = "open" => IF Len(Stream) = 0 THEN Place = <<Len(sent) + 1, 1>>
                       ELSE Succ(Stream[Len(Stream)]) = <<Len(sent) + 1, 1>>

\* The packets taken up are those sent; a header is that of the next one.
PacketInv ==
    /\ Len(handled) <= Len(sent)
    /\ \A n \in 1 .. Len(handled) : handled[n] = Units(n, sent[n].size)
    /\ header # <<>> => /\ Len(handled) < Len(sent)
                        /\ header = [i \in 1 .. HeaderSize |-> <<Len(handled) + 1, i>>]

\* The loop is entered after the first packet.
LoopInv ==
    /\ phase = "handshake" => \/ waiting = "no" /\ Len(handled) = 0
                              \/ waiting = "loop" /\ Len(handled) = 1
    /\ phase = "serving" => Len(handled) > 0

Inv == TypeOK /\ StreamInv /\ PacketInv /\ LoopInv

Written == [what : {"accept", "data", "marker", "cancelled"}, of : Sent, last : BOOLEAN]

\* Lengths are natural numbers; the stream is as long as its two parts.
LEMMA Lengths == ASSUME TypeOK
                 PROVE  /\ Len(sent) \in Nat /\ Len(handled) \in Nat /\ Len(written) \in Nat
                        /\ Len(buf) \in Nat /\ Len(wire) \in Nat
                        /\ DOMAIN handled = 1 .. Len(handled)
                        /\ Stream \in Seq(UnitsSent) /\ Len(Stream) \in Nat
                        /\ Len(Stream) = Len(buf) + Len(wire)
BY LenProperties, ConcatProperties DEF TypeOK, Stream

\* While nothing is sent there are no other units.
LEMMA SameUnits == ASSUME UNCHANGED sent
                   PROVE  /\ Sent' = Sent /\ UnitsSent' = UnitsSent /\ Written' = Written
                          /\ (TypeOK' <=>
                                /\ sent \in Seq(Packets) /\ Len(sent) <= MaxPackets
                                /\ cut' \in {"open", "eof", "reset"}
                                /\ taken' \in 0 .. Len(written')
                                /\ wire' \in Seq(UnitsSent) /\ buf' \in Seq(UnitsSent)
                                /\ header' = <<>> \/ header' \in [1 .. HeaderSize -> UnitsSent]
                                /\ phase' \in {"handshake", "serving", "ended"}
                                /\ waiting' \in {"no", "loop", "cancel", "end"}
                                /\ (phase' = "ended" => waiting' = "no")
                                /\ handled' \in Seq(Seq(UnitsSent))
                                /\ written' \in Seq(Written))
<1>1. Sent' = Sent /\ UnitsSent' = UnitsSent /\ Written' = Written
  BY DEF Sent, UnitsSent, Written
<1>2. TypeOK' <=> /\ sent' \in Seq(Packets) /\ Len(sent') <= MaxPackets
                  /\ cut' \in {"open", "eof", "reset"}
                  /\ taken' \in 0 .. Len(written')
                  /\ wire' \in Seq(UnitsSent') /\ buf' \in Seq(UnitsSent')
                  /\ header' = <<>> \/ header' \in [1 .. HeaderSize -> UnitsSent']
                  /\ phase' \in {"handshake", "serving", "ended"}
                  /\ waiting' \in {"no", "loop", "cancel", "end"}
                  /\ (phase' = "ended" => waiting' = "no")
                  /\ handled' \in Seq(Seq(UnitsSent'))
                  /\ written' \in Seq(Written')
  BY Zenon DEF TypeOK, Written
<1> QED
  BY <1>1, <1>2, Zenon

\* A fresh connection has an empty stream at its first packet.
LEMMA InitInv == Init => Inv
<1> SUFFICES ASSUME Init PROVE Inv
  OBVIOUS
<1>1. /\ \A S : <<>> \in Seq(S)
      /\ Len(<<>>) = 0
  BY EmptySeq
<1>2. TypeOK
  BY <1>1, SizesAssumption DEF Init, TypeOK
<1>3. Stream = <<>>
  BY <1>1, ConcatEmptySeq DEF Init, Stream
<1> QED
  BY <1>1, <1>2, <1>3 DEF Init, Inv, StreamInv, PacketInv, LoopInv, Place, InOrder

-----------------------------------------------------------------------------
(* Steps that leave the stream and the packets alone                       *)

\* Without a change to the stream or the packets, only types and the loop matter.
LEMMA QuietInv == ASSUME Inv, UNCHANGED <<sent, wire, buf, header, handled>>,
                         cut' = cut \/ (cut = "open" /\ cut' # "open"), TypeOK', LoopInv'
                  PROVE  Inv'
<1>1. StreamInv'
  BY DEF Inv, StreamInv, Stream, Place, InOrder, Succ
<1>2. PacketInv'
  BY DEF Inv, PacketInv, Units
<1> QED
  BY <1>1, <1>2 DEF Inv

\* Reading an answer, ending, and doing nothing.
LEMMA QuietStep == ASSUME Inv, Take \/ StreamEnds \/ Refuse \/ WriteFails \/ UNCHANGED vars
                   PROVE  Inv'
<1>1. UNCHANGED <<sent, cut, wire, buf, header, handled, written>>
  BY DEF Take, StreamEnds, Refuse, GiveUp, WriteFails, vars, client
<1>2. taken' \in 0 .. Len(written)
  BY <1>1, Lengths DEF Take, StreamEnds, Refuse, WriteFails, vars, client, Inv, TypeOK
<1>3. /\ phase' \in {"handshake", "serving", "ended"} /\ waiting' \in {"no", "loop", "cancel", "end"}
      /\ (phase' = "ended" => waiting' = "no")
  BY DEF Take, StreamEnds, Refuse, GiveUp, WriteFails, vars, Reading, Inv, TypeOK
<1>4. TypeOK'
  BY <1>1, <1>2, <1>3, SameUnits, Zenon DEF Inv, TypeOK, Written
<1>5. LoopInv'
  BY <1>1 DEF Take, StreamEnds, Refuse, GiveUp, WriteFails, vars, Inv, LoopInv
<1> QED
  BY <1>1, <1>4, <1>5, QuietInv

\* drain() returns.
LEMMA DrainedStep == ASSUME Inv, Drained
                     PROVE  Inv'
<1>1. UNCHANGED <<sent, cut, taken, wire, buf, header, handled>>
  BY DEF Drained, client
<1>2. waiting = "cancel" => Len(handled) \in Sent
  BY PacketFacts, Lengths DEF Drained, Inv, TypeOK, LoopInv, PacketInv
<1>3. written' \in Seq(Written) /\ Len(written') >= Len(written)
  <2>1. CASE UNCHANGED written
    BY <2>1, Lengths DEF Inv, TypeOK, Written
  <2>2. CASE waiting = "cancel" /\ written' = written \o <<Item("cancelled", Len(handled), TRUE)>>
    <3>1. Item("cancelled", Len(handled), TRUE) \in Written
      BY <1>2, <2>2 DEF Item, Written
    <3>2. written \in Seq(Written)
      BY DEF Inv, TypeOK, Written
    <3> QED
      <4> DEFINE it == Item("cancelled", Len(handled), TRUE)
      <4>1. it \in Written /\ written' = written \o <<it>>
        BY <2>2, <3>1
      <4> HIDE DEF it
      <4>2. written' \in Seq(Written) /\ Len(written') = Len(written) + 1
        BY <3>2, <4>1, OneMore
      <4> QED
        BY <4>2, Lengths DEF Inv
  <2> QED
    BY <2>1, <2>2 DEF Drained, Write
<1>4. taken' \in 0 .. Len(written')
  BY <1>1, <1>3, Lengths, LenProperties DEF Inv, TypeOK
<1>5. /\ phase' \in {"handshake", "serving", "ended"} /\ waiting' \in {"no", "loop", "cancel", "end"}
      /\ (phase' = "ended" => waiting' = "no")
  BY DEF Drained, Write, Inv, TypeOK
<1>6. TypeOK'
  BY <1>1, <1>3, <1>4, <1>5, SameUnits, Zenon DEF Inv, TypeOK, Written
<1>7. LoopInv'
  <2>1. \/ waiting = "loop" /\ phase' = "serving" /\ waiting' = "no"
        \/ waiting = "end" /\ phase' = "ended" /\ waiting' = "no"
        \/ waiting = "cancel" /\ phase' = phase /\ waiting' = "loop"
    BY DEF Drained, Write
  <2>2. phase \in {"handshake", "serving"} /\ Len(handled) \in Nat /\ Len(handled') = Len(handled)
    BY <1>1, Lengths DEF Drained, Inv, TypeOK
  <2> QED
    BY <2>1, <2>2 DEF Inv, LoopInv
<1> QED
  BY <1>1, <1>6, <1>7, QuietInv

-----------------------------------------------------------------------------
(* Steps of the stream                                                     *)

\* Units that arrive stay in the stream.
LEMMA ReceiveStep == ASSUME Inv, Receive
                     PROVE  Inv'
<1>1. PICK k \in 1 .. Len(wire) : /\ buf' = buf \o SubSeq(wire, 1, k)
                                  /\ wire' = SubSeq(wire, k + 1, Len(wire))
  BY DEF Receive
<1>2. UNCHANGED <<sent, cut, taken, header, phase, waiting, handled, written>>
  BY DEF Receive, client
<1>3. wire \in Seq(UnitsSent) /\ buf \in Seq(UnitsSent) /\ k \in 0 .. Len(wire)
  BY Lengths DEF Inv, TypeOK
<1>4. Stream' = Stream
  BY <1>1, <1>3, Moved DEF Stream
<1>5. SubSeq(wire, 1, k) \in Seq(UnitsSent) /\ SubSeq(wire, k + 1, Len(wire)) \in Seq(UnitsSent)
  BY <1>3, Cut
<1>6. wire' \in Seq(UnitsSent) /\ buf' \in Seq(UnitsSent)
  BY <1>1, <1>3, <1>5, ConcatProperties
<1>7. TypeOK'
  BY <1>2, <1>6, SameUnits, Zenon DEF Inv, TypeOK, Written
<1>8. StreamInv'
  BY <1>2, <1>4 DEF Inv, StreamInv, Place, InOrder, Succ
<1>9. PacketInv' /\ LoopInv'
  BY <1>2 DEF Inv, PacketInv, LoopInv, Units
<1> QED
  BY <1>7, <1>8, <1>9 DEF Inv

\* What the client cuts off was the end of the stream.
LEMMA LeaveStep == ASSUME Inv, Leave
                   PROVE  Inv'
<1>1. UNCHANGED <<sent, taken, buf, header, phase, waiting, handled, written>>
      /\ cut' \in {"eof", "reset"}
  BY DEF Leave
<1>2. CASE UNCHANGED wire
  <2>1. TypeOK' /\ LoopInv'
    BY <1>1, <1>2, SameUnits, Zenon DEF Inv, TypeOK, LoopInv, Written
  <2> QED
    BY <1>1, <1>2, <2>1, QuietInv DEF Leave
<1>3. ASSUME NEW k \in 0 .. Len(wire), wire' = SubSeq(wire, 1, k)
      PROVE  Inv'
  <2> DEFINE gone == SubSeq(wire, k + 1, Len(wire))
  <2>1. wire \in Seq(UnitsSent) /\ buf \in Seq(UnitsSent)
    BY DEF Inv, TypeOK
  <2>2. wire' \in Seq(UnitsSent) /\ gone \in Seq(UnitsSent)
    BY <1>3, <2>1, Cut
  <2>3. Stream' \o gone = Stream /\ Stream' \in Seq(UnitsSent)
    BY <1>1, <1>3, <2>1, <2>2, Moved, ConcatProperties DEF Stream
  <2> HIDE DEF gone
  <2>4. /\ Len(Stream') \in Nat /\ Len(Stream') <= Len(Stream)
        /\ \A i \in 1 .. Len(Stream') : Stream'[i] = Stream[i]
    <3>1. /\ Len(Stream) = Len(Stream') + Len(gone)
          /\ \A i \in 1 .. Len(Stream') + Len(gone) :
               Stream[i] = IF i <= Len(Stream') THEN Stream'[i] ELSE gone[i - Len(Stream')]
      BY <2>2, <2>3, ConcatProperties
    <3>2. Len(Stream') \in Nat /\ Len(gone) \in Nat
      BY <2>2, <2>3, LenProperties
    <3> QED
      BY <3>1, <3>2
  <2>5. TypeOK'
    BY <1>1, <2>2, SameUnits, Zenon DEF Inv, TypeOK, Written
  <2>6. StreamInv'
    <3>1. Len(Stream) \in Nat
      BY Lengths DEF Inv
    <3>2. InOrder(Stream)'
      BY <1>1, <2>4, <3>1 DEF Inv, StreamInv, InOrder, Succ
    <3>3. Len(Stream') > 0 => Stream'[1] = Place'
      BY <1>1, <2>4, <3>1 DEF Inv, StreamInv, Place, Succ
    <3> QED
      BY <1>1, <3>2, <3>3 DEF StreamInv
  <2>7. PacketInv' /\ LoopInv'
    BY <1>1 DEF Inv, PacketInv, LoopInv, Units
  <2> QED
    BY <2>5, <2>6, <2>7 DEF Inv
<1> QED
  BY <1>2, <1>3 DEF Leave

\* The next m units are those of packet n behind its i-th.
LEMMA Consumed == ASSUME TypeOK, StreamInv, NEW m \in 0 .. Len(buf), NEW n \in Sent, NEW i \in Nat,
                         i + m <= HeaderSize + sent[n].size, m > 0 => Place = <<n, i + 1>>,
                         buf' = SubSeq(buf, m + 1, Len(buf)), UNCHANGED <<sent, cut, wire>>,
                         Place' = IF m > 0 THEN Succ(<<n, i + m>>) ELSE Place
                  PROVE  /\ StreamInv' /\ buf' \in Seq(UnitsSent)
                         /\ SubSeq(buf, 1, m) \in Seq(UnitsSent) /\ Len(SubSeq(buf, 1, m)) = m
                         /\ \A k \in 1 .. m : SubSeq(buf, 1, m)[k] = <<n, i + k>>
<1>1. /\ wire \in Seq(UnitsSent) /\ buf \in Seq(UnitsSent) /\ sent \in Seq(Packets)
      /\ Stream \in Seq(UnitsSent) /\ Len(Stream) \in Nat /\ m \in Nat
  BY Lengths DEF TypeOK
<1>2. /\ SubSeq(buf, 1, m) \in Seq(UnitsSent) /\ Len(SubSeq(buf, 1, m)) = m
      /\ \A k \in 1 .. m : SubSeq(buf, 1, m)[k] = buf[k]
      /\ buf' \in Seq(UnitsSent)
  BY <1>1, Cut
<1>3. /\ m \in 0 .. Len(Stream)
      /\ SubSeq(Stream, 1, m) = SubSeq(buf, 1, m)
      /\ Stream' = SubSeq(Stream, m + 1, Len(Stream))
  BY <1>1, Taken DEF Stream
<1>4. /\ Len(Stream') = Len(Stream) - m
      /\ \A k \in 1 .. Len(Stream) - m : Stream'[k] = Stream[m + k]
      /\ \A k \in 1 .. m : SubSeq(Stream, 1, m)[k] = Stream[k]
  BY <1>1, <1>3, Cut
<1>5. m > 0 => /\ \A k \in 1 .. m : Stream[k] = <<n, i + k>>
               /\ m < Len(Stream) => Stream[m + 1] = Succ(<<n, i + m>>)
  <2> SUFFICES ASSUME m > 0
               PROVE  /\ \A k \in 1 .. m : Stream[k] = <<n, i + k>>
                      /\ m < Len(Stream) => Stream[m + 1] = Succ(<<n, i + m>>)
    OBVIOUS
  <2>1. m \in 1 .. Len(Stream) /\ InOrder(Stream) /\ Stream[1] = <<n, i + 1>>
    <3>1. m \in 1 .. Len(Stream) /\ Len(Stream) > 0
      BY <1>1, <1>3
    <3>2. Place = <<n, i + 1>>
      OBVIOUS
    <3> QED
      BY <3>1, <3>2 DEF StreamInv
  <2> QED
    BY <1>1, <2>1, OnePacket
<1>6. InOrder(Stream)'
  <2>1. InOrder(SubSeq(Stream, m + 1, Len(Stream)))
    BY <1>1, <1>3, RestInOrder DEF StreamInv
  <2> QED
    BY <1>3, <2>1 DEF InOrder, Succ
<1>7. Len(Stream') > 0 => Stream'[1] = Place'
  BY <1>1, <1>3, <1>4, <1>5 DEF StreamInv
<1>8. cut' = "open" => IF Len(Stream') = 0 THEN Place' = <<Len(sent) + 1, 1>>
                       ELSE Succ(Stream'[Len(Stream')]) = <<Len(sent) + 1, 1>>
  <2> SUFFICES ASSUME cut = "open"
               PROVE  IF Len(Stream') = 0 THEN Place' = <<Len(sent) + 1, 1>>
                      ELSE Succ(Stream'[Len(Stream')]) = <<Len(sent) + 1, 1>>
    OBVIOUS
  <2>1. CASE Len(Stream') # 0
    <3>1. Stream'[Len(Stream')] = Stream[Len(Stream)] /\ Len(Stream) # 0
      <4>1. /\ Len(Stream') \in 1 .. Len(Stream) - m /\ m + Len(Stream') = Len(Stream)
            /\ Len(Stream) # 0
        BY <1>1, <1>3, <1>4, <2>1
      <4> QED
        BY <1>4, <4>1, Zenon
    <3> QED
      BY <2>1, <3>1 DEF StreamInv
  <2>2. CASE Len(Stream') = 0 /\ m > 0
    <3>1. Stream[Len(Stream)] = <<n, i + m>> /\ Len(Stream) # 0
      BY <1>1, <1>4, <1>5, <2>2
    <3> QED
      BY <2>2, <3>1 DEF StreamInv
  <2>3. CASE Len(Stream') = 0 /\ m = 0
    BY <1>1, <1>4, <2>3 DEF StreamInv
  <2> QED
    <3>1. m > 0 \/ m = 0
      BY <1>1
    <3> QED
      BY <2>1, <2>2, <2>3, <3>1, Zenon
<1>9. StreamInv'
  BY <1>6, <1>7, <1>8 DEF StreamInv, Succ
<1>10. ASSUME NEW k \in 1 .. m
       PROVE  SubSeq(buf, 1, m)[k] = <<n, i + k>>
  <2>1. m > 0
    BY <1>1
  <2>2. SubSeq(buf, 1, m)[k] = Stream[k]
    BY <1>3, <1>4, Zenon
  <2> QED
    BY <1>5, <2>1, <2>2, Zenon
<1> QED
  BY <1>2, <1>9, <1>10, Zenon

\* The header is that of the packet behind the last one taken up.
LEMMA ReadHeaderStep == ASSUME Inv, ReadHeader
                        PROVE  Inv'
<1> DEFINE n == Len(handled) + 1
<1>1. /\ header = <<>> /\ Len(buf) >= HeaderSize
      /\ header' = SubSeq(buf, 1, HeaderSize) /\ buf' = SubSeq(buf, HeaderSize + 1, Len(buf))
      /\ UNCHANGED <<sent, cut, taken, wire, phase, waiting, handled, written>>
  BY DEF ReadHeader, Buffered, Front, Rest, client
<1>2. /\ sent \in Seq(Packets) /\ Stream \in Seq(UnitsSent) /\ Len(Stream) > 0
      /\ HeaderSize \in 0 .. Len(buf) /\ HeaderSize > 0
      /\ Len(handled) \in Nat /\ Len(sent) \in Nat /\ TypeOK /\ StreamInv /\ PacketInv
  BY <1>1, Lengths, SizesAssumption DEF Inv, TypeOK
<1>3. Place = <<n, 1>> /\ Stream[1] = Place /\ Stream[1] \in UnitsSent
  BY <1>1, <1>2, ElementOfSeq DEF StreamInv, Place
<1>4. n \in Sent
  BY <1>2, <1>3, UnitsAre
<1>5. sent[n].size \in Nat
  BY <1>2, <1>4, PacketFacts
<1>6. header' # <<>>
  <2>1. Len(header') = HeaderSize
    BY <1>1, <1>2, Cut DEF TypeOK
  <2> QED
    BY <1>2, <2>1, EmptySeq
<1>7. /\ StreamInv' /\ buf' \in Seq(UnitsSent)
      /\ header' \in Seq(UnitsSent) /\ Len(header') = HeaderSize
      /\ \A k \in 1 .. HeaderSize : header'[k] = <<n, 0 + k>>
  <2>1. /\ HeaderSize \in 0 .. Len(buf) /\ HeaderSize > 0 /\ 0 \in Nat
        /\ 0 + HeaderSize <= HeaderSize + sent[n].size
        /\ Place = <<n, 0 + 1>>
    BY <1>2, <1>3, <1>5
  <2>2. Place' = Succ(<<n, 0 + HeaderSize>>)
    BY <1>1, <1>2, <1>6 DEF Place, Succ
  <2> QED
    BY <1>1, <1>2, <1>4, <2>1, <2>2, Consumed
<1>8. header' = [k \in 1 .. HeaderSize |-> <<n, k>>]
  <2>1. header' \in [1 .. HeaderSize -> UnitsSent]
    BY <1>7, LenProperties
  <2>2. \A k \in 1 .. HeaderSize : header'[k] = <<n, k>>
    BY <1>2, <1>7
  <2> QED
    BY <2>1, <2>2
<1>9. TypeOK'
  <2>1. header' \in [1 .. HeaderSize -> UnitsSent]
    BY <1>7, LenProperties
  <2> QED
    BY <1>1, <1>7, <2>1, SameUnits, Zenon DEF Inv, TypeOK, Written
<1>10. PacketInv'
  BY <1>1, <1>2, <1>4, <1>8, PacketFacts DEF PacketInv, Units
<1>11. LoopInv'
  BY <1>1 DEF Inv, LoopInv
<1> QED
  BY <1>7, <1>9, <1>10, <1>11 DEF Inv

\* The packet whose header was read is the next one, and it is taken up whole.
LEMMA TakenUp == ASSUME Inv, TakeUp
                 PROVE  /\ Which = Len(handled) + 1 /\ Which \in Sent
                        /\ Len(handled') = Len(handled) + 1
                        /\ handled' = Append(handled, Units(Which, sent[Which].size))
                        /\ handled' \in Seq(Seq(UnitsSent)) /\ buf' \in Seq(UnitsSent)
                        /\ header' = <<>> /\ StreamInv' /\ PacketInv'
                        /\ UNCHANGED <<sent, cut, taken, wire>>
<1> DEFINE n == Len(handled) + 1
           size == sent[n].size
<1>1. /\ header # <<>> /\ Len(buf) >= Needed
      /\ handled' = Append(handled, header \o SubSeq(buf, 1, Needed))
      /\ buf' = SubSeq(buf, Needed + 1, Len(buf)) /\ header' = <<>>
      /\ UNCHANGED <<sent, cut, taken, wire>>
  BY DEF TakeUp, Buffered, Front, Rest, client
<1>2. /\ sent \in Seq(Packets) /\ handled \in Seq(Seq(UnitsSent)) /\ Len(buf) \in Nat
      /\ Len(handled) \in Nat /\ Len(sent) \in Nat /\ TypeOK /\ StreamInv
      /\ HeaderSize \in Nat /\ HeaderSize > 0
  BY Lengths, SizesAssumption DEF Inv, TypeOK
<1>3. header = [k \in 1 .. HeaderSize |-> <<n, k>>] /\ Len(handled) < Len(sent)
  BY <1>1 DEF Inv, PacketInv
<1>4. n \in Sent
  BY <1>2, <1>3, PacketFacts
<1>5. Which = n
  BY <1>2, <1>3 DEF Which
<1>6. Needed = size /\ size \in Nat /\ size \in 0 .. Len(buf)
  BY <1>1, <1>2, <1>4, <1>5, PacketFacts DEF Needed, Announced
<1>7. /\ StreamInv' /\ buf' \in Seq(UnitsSent)
      /\ SubSeq(buf, 1, size) \in Seq(UnitsSent) /\ Len(SubSeq(buf, 1, size)) = size
      /\ \A k \in 1 .. size : SubSeq(buf, 1, size)[k] = <<n, HeaderSize + k>>
  <2>1. Len(handled') = n
    BY <1>1, <1>2
  <2>2. Place = Succ(<<n, HeaderSize>>)
    BY <1>1 DEF Place
  <2>3. size > 0 => Place = <<n, HeaderSize + 1>>
    BY <1>2, <1>6, <2>2 DEF Succ
  <2>4. Place' = IF size > 0 THEN Succ(<<n, HeaderSize + size>>) ELSE Place
    <3>1. Place' = <<n + 1, 1>>
      BY <1>1, <2>1 DEF Place
    <3>2. Succ(<<n, HeaderSize + size>>) = <<n + 1, 1>>
      BY <1>2, <1>6 DEF Succ
    <3>3. size = 0 => Place = <<n + 1, 1>>
      BY <1>2, <1>6, <2>2 DEF Succ
    <3>4. size > 0 \/ size = 0
      BY <1>6
    <3> QED
      BY <3>1, <3>2, <3>3, <3>4, Zenon
  <2>5. HeaderSize + size <= HeaderSize + sent[n].size
    BY <1>2, <1>6
  <2>6. buf' = SubSeq(buf, size + 1, Len(buf))
    BY <1>1, <1>6
  <2> QED
    BY <1>1, <1>2, <1>4, <1>6, <2>3, <2>4, <2>5, <2>6, Consumed
<1>8. header \o SubSeq(buf, 1, Needed) = Units(n, size)
  <2> DEFINE rest == SubSeq(buf, 1, size)
  <2>1. \A k \in 1 .. HeaderSize + size : <<n, k>> \in UnitsSent
    BY <1>2, <1>4, UnitsAre
  <2>2. header \in Seq(UnitsSent) /\ Len(header) = HeaderSize
    <3>1. \A k \in 1 .. HeaderSize : <<n, k>> \in UnitsSent
      BY <1>2, <1>6, <2>1
    <3> QED
      BY <1>2, <1>3, <3>1
  <2>3. rest \in Seq(UnitsSent) /\ Len(rest) = size
        /\ \A k \in 1 .. size : rest[k] = <<n, HeaderSize + k>>
    BY <1>7
  <2>4. Units(n, size) \in Seq(UnitsSent) /\ Len(Units(n, size)) = HeaderSize + size
        /\ \A k \in 1 .. HeaderSize + size : Units(n, size)[k] = <<n, k>>
    BY <1>6, <2>1, UnitsSeq
  <2> HIDE DEF rest
  <2>5. /\ header \o rest \in Seq(UnitsSent) /\ Len(header \o rest) = HeaderSize + size
        /\ \A k \in 1 .. HeaderSize + size :
             (header \o rest)[k] = IF k <= HeaderSize THEN header[k] ELSE rest[k - HeaderSize]
    <3>1. /\ header \o rest \in Seq(UnitsSent) /\ Len(header \o rest) = Len(header) + Len(rest)
          /\ \A k \in 1 .. Len(header) + Len(rest) :
               (header \o rest)[k] = IF k <= Len(header) THEN header[k] ELSE rest[k - Len(header)]
      BY <2>2, <2>3, ConcatProperties, Zenon
    <3> QED
      BY <2>2, <2>3, <3>1, Zenon
  <2>6. \A k \in 1 .. HeaderSize + size : (header \o rest)[k] = <<n, k>>
    <3> SUFFICES ASSUME NEW k \in 1 .. HeaderSize + size
                 PROVE  (header \o rest)[k] = <<n, k>>
      OBVIOUS
    <3>1. CASE k <= HeaderSize
      BY <1>2, <1>3, <1>6, <2>5, <3>1
    <3>2. CASE ~(k <= HeaderSize)
      <4>1. k - HeaderSize \in 1 .. size /\ HeaderSize + (k - HeaderSize) = k
        BY <1>2, <1>6, <3>2
      <4>2. (header \o rest)[k] = rest[k - HeaderSize]
        BY <2>5, <3>2, Zenon
      <4>3. rest[k - HeaderSize] = <<n, HeaderSize + (k - HeaderSize)>>
        BY <2>3, <4>1, Zenon
      <4> QED
        BY <4>1, <4>2, <4>3, Zenon
    <3> QED
      BY <3>1, <3>2
  <2>7. header \o rest = Units(n, size)
    <3> DEFINE joined == header \o rest
               units == Units(n, size)
    <3>1. /\ joined \in Seq(UnitsSent) /\ units \in Seq(UnitsSent) /\ Len(joined) = Len(units)
          /\ \A k \in 1 .. Len(joined) : joined[k] = units[k]
      BY <2>4, <2>5, <2>6, Zenon
    <3> HIDE DEF joined, units
    <3>2. joined = units
      BY <3>1, SeqEqual
    <3> QED
      BY <3>2 DEF joined, units
  <2> QED
    BY <1>6, <2>7 DEF rest
<1>9. Units(n, size) \in Seq(UnitsSent)
  BY <1>2, <1>4, <1>6, UnitsAre, UnitsSeq
<1>10. /\ handled' = Append(handled, Units(n, size)) /\ handled' \in Seq(Seq(UnitsSent))
       /\ Len(handled') = n /\ handled'[n] = Units(n, size)
       /\ \A k \in 1 .. Len(handled) : handled'[k] = handled[k]
  <2> DEFINE u == Units(n, size)
  <2>1. handled' = Append(handled, u) /\ u \in Seq(UnitsSent)
    BY <1>1, <1>8, <1>9, Zenon
  <2> HIDE DEF u
  <2>2. /\ handled' \in Seq(Seq(UnitsSent)) /\ Len(handled') = n /\ handled'[n] = u
        /\ \A k \in 1 .. Len(handled) : handled'[k] = handled[k]
    BY <1>2, <2>1, AppendProperties
  <2> QED
    BY <2>1, <2>2 DEF u
<1>11. PacketInv'
  <2>1. /\ Len(handled') <= Len(sent') /\ sent' = sent
        /\ \A k \in 1 .. Len(handled') : k \in 1 .. Len(handled) \/ k = n
    BY <1>1, <1>2, <1>3, <1>10
  <2>2. \A k \in 1 .. Len(handled') : handled'[k] = Units(k, sent[k].size)
    BY <1>10, <2>1 DEF Inv, PacketInv
  <2> QED
    BY <1>1, <2>1, <2>2 DEF PacketInv, Units
<1> QED
  BY <1>1, <1>4, <1>5, <1>7, <1>10, <1>11

\* What may be written as an answer.
LEMMA ItemsAre == ASSUME NEW n \in Sent
                  PROVE  /\ \A k \in 1 .. MaxChunks : Chunks(n, k) \in Seq(Written)
                         /\ \A what \in {"accept", "marker"} :
                              /\ <<Item(what, n, TRUE)>> \in Seq(Written)
                              /\ Item(what, n, TRUE) \in Written
<1>1. \A what \in {"accept", "data", "marker"}, last \in BOOLEAN : Item(what, n, last) \in Written
  BY DEF Item, Written
<1>2. ASSUME NEW k \in 1 .. MaxChunks
      PROVE  Chunks(n, k) \in Seq(Written)
  <2>1. k \in Nat
    BY SizesAssumption
  <2>2. \A i \in 1 .. k : Item("data", n, i = k) \in Written
    BY <1>1
  <2> QED
    BY <2>1, <2>2 DEF Chunks
<1>3. ASSUME NEW what \in {"accept", "marker"}
      PROVE  <<Item(what, n, TRUE)>> \in Seq(Written)
  <2> DEFINE it == Item(what, n, TRUE)
  <2>1. it \in Written
    BY <1>1
  <2> HIDE DEF it
  <2>2. <<it>> \in Seq(Written)
    BY <2>1
  <2> QED
    BY <2>2 DEF it
<1> QED
  BY <1>1, <1>2, <1>3

\* A packet is taken up, and answered or ignored.
LEMMA HandlingStep == ASSUME Inv, Connect \/ Respond \/ Marker \/ Ignore
                      PROVE  Inv'
<1>1. TakeUp /\ Reading
  BY DEF Connect, Respond, Marker, Ignore, TakeUp
<1>2. /\ Which = Len(handled) + 1 /\ Which \in Sent
      /\ Len(handled') = Len(handled) + 1
      /\ handled' \in Seq(Seq(UnitsSent)) /\ buf' \in Seq(UnitsSent)
      /\ header' = <<>> /\ StreamInv' /\ PacketInv'
      /\ UNCHANGED <<sent, cut, taken, wire>>
  BY <1>1, TakenUp
<1>3. written' \in Seq(Written) /\ Len(written') >= Len(written)
  <2>1. written \in Seq(Written) /\ Len(written) \in Nat
    BY Lengths DEF Inv, TypeOK, Written
  <2>2. written' = written \/ \E items \in Seq(Written) : written' = written \o items
    BY <1>2, ItemsAre DEF Connect, Respond, Marker, Ignore, Write
  <2>3. ASSUME NEW items \in Seq(Written), written' = written \o items
        PROVE  written' \in Seq(Written) /\ Len(written') >= Len(written)
    BY <2>1, <2>3, ConcatProperties, LenProperties
  <2>4. written' = written => written' \in Seq(Written) /\ Len(written') >= Len(written)
    BY <2>1
  <2> QED
    BY <2>2, <2>3, <2>4, Zenon
<1>4. phase' = phase /\ waiting' \in {"no", "loop", "cancel", "end"}
      /\ (phase = "handshake" => waiting' = "loop")
  BY <1>1 DEF Connect, Respond, Marker, Ignore, Write, Reading
<1>5. taken' \in 0 .. Len(written')
  BY <1>2, <1>3, Lengths, LenProperties DEF Inv, TypeOK
<1>6. TypeOK'
  BY <1>1, <1>2, <1>3, <1>4, <1>5, SameUnits, Zenon DEF Inv, TypeOK, Reading, Written
<1>7. LoopInv'
  <2>1. Len(handled) \in Nat
    BY Lengths DEF Inv
  <2> QED
    BY <1>1, <1>2, <1>4, <2>1 DEF Inv, LoopInv, Reading
<1> QED
  BY <1>2, <1>6, <1>7 DEF Inv

\* A new packet's units go behind all others.
LEMMA SendStep == ASSUME Inv, NEW p \in Packets, Send(p)
                  PROVE  Inv'
<1> DEFINE n == Len(sent) + 1
           units == Units(n, p.size)
           s == Stream
<1>1. /\ sent' = Append(sent, p) /\ wire' = wire \o units /\ cut = "open" /\ n <= MaxPackets
      /\ UNCHANGED <<cut, taken, buf, header, phase, waiting, handled, written>>
  BY SizesAssumption, Lengths DEF Send, Inv
<1>2. /\ sent \in Seq(Packets) /\ wire \in Seq(UnitsSent) /\ buf \in Seq(UnitsSent)
      /\ Len(sent) \in Nat /\ s \in Seq(UnitsSent) /\ Len(s) \in Nat /\ Len(handled) \in Nat
      /\ HeaderSize \in Nat /\ HeaderSize > 0 /\ p.size \in Nat
      /\ StreamInv /\ PacketInv /\ LoopInv /\ TypeOK
  BY Lengths, SizesAssumption, PacketsAssumption DEF Inv, TypeOK
<1>3. /\ sent' \in Seq(Packets) /\ Len(sent') = n /\ sent'[n] = p /\ n \in Nat
      /\ \A m \in Sent : sent'[m] = sent[m] /\ m \in Sent' /\ m # n
      /\ n \in Sent' /\ Sent' = Sent \cup {n}
  BY <1>1, <1>2, AppendProperties, LenProperties DEF Sent
<1>4. UnitsSent \subseteq UnitsSent' /\ \A i \in 1 .. HeaderSize + p.size : <<n, i>> \in UnitsSent'
  BY <1>3 DEF UnitsSent
<1>5. /\ units \in Seq(UnitsSent') /\ Len(units) = HeaderSize + p.size
      /\ \A i \in 1 .. HeaderSize + p.size : units[i] = <<n, i>>
  BY <1>2, <1>4, UnitsSeq
<1>6. /\ wire \in Seq(UnitsSent') /\ buf \in Seq(UnitsSent') /\ s \in Seq(UnitsSent')
      /\ \A q \in Seq(Seq(UnitsSent)) : q \in Seq(Seq(UnitsSent'))
  <2>1. \A q \in Seq(UnitsSent) : q \in Seq(UnitsSent')
    BY <1>4, SeqMonotonic
  <2>2. Seq(UnitsSent) \subseteq Seq(UnitsSent')
    BY <2>1
  <2>3. \A q \in Seq(Seq(UnitsSent)) : q \in Seq(Seq(UnitsSent'))
    BY <2>2, SeqMonotonic
  <2> QED
    BY <1>2, <2>1, <2>3
<1>7. wire' \in Seq(UnitsSent')
  BY <1>1, <1>5, <1>6, ConcatProperties
<1>8. /\ Stream' \in Seq(UnitsSent') /\ Len(Stream') = Len(s) + (HeaderSize + p.size)
      /\ \A k \in 1 .. Len(s) + (HeaderSize + p.size) :
           Stream'[k] = IF k <= Len(s) THEN s[k] ELSE <<n, k - Len(s)>>
  <2>1. Stream' = s \o units
    <3> HIDE DEF units
    <3> DEFINE U == UnitsSent'
    <3>0. buf \in Seq(U) /\ wire \in Seq(U) /\ units \in Seq(U)
      BY <1>5, <1>6, Zenon
    <3> HIDE DEF U
    <3>1. (buf \o wire) \o units = buf \o (wire \o units)
      BY <3>0, ConcatAssociative
    <3> QED
      BY <1>1, <3>1 DEF Stream
  <2> HIDE DEF units, s
  <2>2. /\ s \o units \in Seq(UnitsSent') /\ Len(s \o units) = Len(s) + Len(units)
        /\ \A k \in 1 .. Len(s) + Len(units) :
             (s \o units)[k] = IF k <= Len(s) THEN s[k] ELSE units[k - Len(s)]
    BY <1>5, <1>6, ConcatProperties, Zenon
  <2>3. ASSUME NEW k \in 1 .. Len(s) + (HeaderSize + p.size), ~(k <= Len(s))
        PROVE  units[k - Len(s)] = <<n, k - Len(s)>>
    <3>1. k - Len(s) \in 1 .. HeaderSize + p.size
      BY <1>2, <2>3
    <3> QED
      BY <1>5, <3>1, Zenon
  <2> QED
    BY <1>5, <2>1, <2>2, <2>3, Zenon
<1> DEFINE t == Stream'
           h == HeaderSize + p.size
           after(u) == IF u[2] < HeaderSize + sent'[u[1]].size THEN <<u[1], u[2] + 1>>
                       ELSE <<u[1] + 1, 1>>
<1>9. \A u \in UnitsSent : after(u) = Succ(u)
  <2>1. \A u \in UnitsSent : u[1] \in Sent
    BY <1>2, UnitsAre
  <2> QED
    BY <1>3, <2>1 DEF Succ
<1>10. \A i \in 1 .. h : after(<<n, i>>) = IF i < h THEN <<n, i + 1>> ELSE <<n + 1, 1>>
  BY <1>3
<1>11. Place' = Place
  <2>1. header # <<>> => <<Len(handled) + 1, HeaderSize>> \in UnitsSent
    <3> SUFFICES ASSUME header # <<>>
                 PROVE  <<Len(handled) + 1, HeaderSize>> \in UnitsSent
      OBVIOUS
    <3>1. Len(handled) + 1 \in Sent
      BY <1>2, PacketFacts DEF PacketInv
    <3>2. HeaderSize \in 1 .. HeaderSize + sent[Len(handled) + 1].size
      BY <1>2, <3>1, PacketFacts
    <3> QED
      BY <1>2, <3>1, <3>2, UnitsAre
  <2> QED
    BY <1>1, <1>9, <2>1 DEF Place, Succ
<1>12. /\ InOrder(s) /\ (Len(s) > 0 => s[1] = Place)
       /\ IF Len(s) = 0 THEN Place = <<n, 1>> ELSE Succ(s[Len(s)]) = <<n, 1>>
       /\ Len(s) \in Nat /\ \A k \in 1 .. Len(s) : s[k] \in UnitsSent
  BY <1>1, <1>2, ElementOfSeq DEF StreamInv
<1>13. /\ h \in Nat /\ h > 0 /\ Len(t) = Len(s) + h
       /\ \A k \in 1 .. Len(s) + h : t[k] = IF k <= Len(s) THEN s[k] ELSE <<n, k - Len(s)>>
  BY <1>2, <1>8
<1>14. InOrder(Stream)' /\ after(t[Len(t)]) = <<n + 1, 1>> /\ t[1] = Place
  <2> HIDE DEF s, t, h, n, after
  <2>1. \A k \in 1 .. Len(s) : t[k] = s[k] /\ after(t[k]) = Succ(s[k])
    BY <1>9, <1>12, <1>13
  <2>2. \A k \in Len(s) + 1 .. Len(t) : /\ k - Len(s) \in 1 .. h /\ t[k] = <<n, k - Len(s)>>
                                        /\ after(t[k]) = after(<<n, k - Len(s)>>)
    BY <1>12, <1>13
  <2>3. ASSUME NEW k \in 1 .. Len(t) - 1
        PROVE  t[k + 1] = after(t[k])
    <3>1. CASE k < Len(s)
      <4>1. k \in 1 .. Len(s) - 1 /\ k \in 1 .. Len(s) /\ k + 1 \in 1 .. Len(s)
        BY <1>12, <1>13, <3>1
      <4> QED
        BY <1>12, <2>1, <4>1 DEF InOrder
    <3>2. CASE k = Len(s)
      <4>1. k \in 1 .. Len(s) /\ k + 1 \in Len(s) + 1 .. Len(t) /\ (k + 1) - Len(s) = 1
            /\ Len(s) # 0
        BY <1>12, <1>13, <3>2
      <4> QED
        BY <1>12, <2>1, <2>2, <3>2, <4>1
    <3>3. CASE k > Len(s)
      <4>1. /\ k \in Len(s) + 1 .. Len(t) /\ k + 1 \in Len(s) + 1 .. Len(t)
            /\ k - Len(s) < h /\ (k + 1) - Len(s) = (k - Len(s)) + 1
        BY <1>12, <1>13, <3>3
      <4> QED
        BY <1>10, <2>2, <4>1
    <3> QED
      BY <1>12, <1>13, <3>1, <3>2, <3>3
  <2>4. InOrder(Stream)'
    BY <2>3 DEF InOrder, Succ, t, after
  <2>5. after(t[Len(t)]) = <<n + 1, 1>>
    <3>1. Len(t) \in Len(s) + 1 .. Len(t) /\ Len(t) - Len(s) = h /\ h \in 1 .. h /\ ~(h < h)
      BY <1>12, <1>13
    <3> QED
      BY <1>10, <2>2, <3>1
  <2>6. t[1] = Place
    <3>1. CASE Len(s) = 0
      <4>1. 1 \in Len(s) + 1 .. Len(t) /\ 1 - Len(s) = 1
        BY <1>13, <3>1
      <4> QED
        BY <1>12, <2>2, <3>1, <4>1
    <3>2. CASE Len(s) # 0
      <4>1. 1 \in 1 .. Len(s) /\ Len(s) > 0
        BY <1>12, <3>2
      <4> QED
        BY <1>12, <2>1, <4>1
    <3> QED
      BY <3>1, <3>2
  <2> QED
    BY <2>4, <2>5, <2>6
<1>15. StreamInv'
  <2>1. Len(t) # 0
    BY <1>12, <1>13
  <2> QED
    BY <1>3, <1>11, <1>14, <2>1 DEF StreamInv, Succ
<1>16. PacketInv' /\ LoopInv'
  <2>1. PacketInv'
    BY <1>1, <1>2, <1>3 DEF PacketInv, Units, Sent
  <2> QED
    BY <1>1, <1>2, <2>1 DEF LoopInv
<1>17. TypeOK'
  <2>1. written \in Seq(Written')
    <3>1. written \in Seq(Written) /\ Written \subseteq Written'
      BY <1>2, <1>3 DEF TypeOK, Written
    <3> QED
      BY <3>1, SeqMonotonic
  <2>2. header = <<>> \/ header \in [1 .. HeaderSize -> UnitsSent']
    BY <1>2, <1>4 DEF TypeOK
  <2> QED
    BY <1>1, <1>2, <1>3, <1>6, <1>7, <2>1, <2>2 DEF TypeOK, Written
<1> QED
  BY <1>15, <1>16, <1>17 DEF Inv

\* The invariant the refinement rests on.
THEOREM InvHolds == Spec => []Inv
<1>1. Inv /\ [Next]_vars => Inv'
  BY SendStep, LeaveStep, ReceiveStep, ReadHeaderStep, QuietStep, DrainedStep, HandlingStep
     DEF Next, Bridge
<1> QED
  BY InitInv, <1>1, PTL DEF Spec

\* The channel's state keeps its types, for packets and headers of any size: all that is
\* buffered, on its way or taken up are units of packets the client sent.
THEOREM TypeCorrect == Spec => []TypeOK
<1>1. Inv => TypeOK
  BY DEF Inv
<1> QED
  BY <1>1, InvHolds, PTL

-----------------------------------------------------------------------------
(* The queue the loop sees                                                 *)

\* The packets that were taken up, as the refinement mapping has them.
TakenPackets == [n \in DOMAIN handled |->
                   IF handled[n] = Units(n, sent[n].size) THEN sent[n] ELSE Garbled]

\* They are the first packets that were sent.
LEMMA TakenPacketsAre == ASSUME Inv
                         PROVE  /\ TakenPackets = [n \in 1 .. Len(handled) |-> sent[n]]
                                /\ TakenPackets \in Seq(Packets)
                                /\ Len(TakenPackets) = Len(handled)
<1>1. TakenPackets = [n \in 1 .. Len(handled) |-> sent[n]]
  BY Lengths DEF Inv, PacketInv, TakenPackets
<1>2. \A n \in 1 .. Len(handled) : sent[n] \in Packets
  BY PacketFacts, Lengths DEF Inv, TypeOK, PacketInv
<1>3. Len(handled) \in Nat
  BY Lengths DEF Inv
<1> QED
  BY <1>1, <1>2, <1>3

\* A fresh connection is an empty queue.
LEMMA QueueInit == Init => Queue!Init
<1> SUFFICES ASSUME Init PROVE Queue!Init
  OBVIOUS
<1>1. Inv
  BY InitInv
<1>2. TakenPackets \in Seq(Packets) /\ Len(TakenPackets) = 0
  BY <1>1, TakenPacketsAre, EmptySeq DEF Init
<1>3. TakenPackets = <<>>
  BY <1>2, EmptySeq
<1> QED
  BY <1>3 DEF Init, Queue!Init, TakenPackets

\* Each step is one of the queue, or none.
LEMMA QueueStep == ASSUME Inv, Inv', [Next]_vars
                   PROVE  [Queue!Next]_(Queue!vars)
<1>1. /\ TakenPackets = [n \in 1 .. Len(handled) |-> sent[n]]
      /\ TakenPackets \in Seq(Packets)
      /\ Len(TakenPackets) = Len(handled) /\ Len(handled) \in Nat /\ Len(sent) \in Nat
  BY TakenPacketsAre, Lengths DEF Inv
<1>2. TakenPackets' = [n \in 1 .. Len(handled') |-> sent'[n]]
  <2>1. DOMAIN handled' = 1 .. Len(handled')
    BY LenProperties DEF Inv, TypeOK
  <2> QED
    BY <2>1 DEF Inv, PacketInv, TakenPackets, Units
<1>3. ASSUME UNCHANGED <<sent, handled>> PROVE TakenPackets' = TakenPackets
  BY <1>3 DEF TakenPackets, Units, Garbled
<1>4. ASSUME UNCHANGED <<sent, handled, written>>, (phase' = "ended") = (phase = "ended"),
             (waiting' = "cancel") = (waiting = "cancel")
      PROVE  UNCHANGED Queue!vars
  BY <1>3, <1>4 DEF Queue!vars, TakenPackets
<1>5. ASSUME UNCHANGED <<sent, handled, written>>, phase # "ended", phase' = "ended",
             waiting' # "cancel"
      PROVE  Queue!End
  BY <1>3, <1>5 DEF Queue!End, TakenPackets
<1>6. ASSUME NEW p \in Packets, Send(p)
      PROVE  Queue!Send
  <2>1. sent' = Append(sent, p) /\ UNCHANGED <<handled, written, phase, waiting>>
    BY <1>6 DEF Send
  <2>2. \A n \in 1 .. Len(handled) : sent'[n] = sent[n]
    BY <1>1, <2>1 DEF Inv, TypeOK, PacketInv
  <2>3. TakenPackets' = TakenPackets
    BY <1>1, <1>2, <2>1, <2>2
  <2> QED
    BY <1>6, <2>1, <2>3 DEF Queue!Send, TakenPackets
<1>7. CASE Leave \/ Take \/ Receive \/ ReadHeader \/ UNCHANGED vars
  BY <1>4, <1>7 DEF Leave, Take, Receive, ReadHeader, vars, client
<1>8. CASE StreamEnds \/ Refuse \/ WriteFails
  <2>1. /\ UNCHANGED <<sent, handled, written>> /\ phase # "ended" /\ phase' = "ended"
        /\ waiting' # "cancel"
    BY <1>8 DEF StreamEnds, Refuse, GiveUp, WriteFails, Reading, client
  <2> QED
    BY <1>5, <2>1 DEF Queue!Next
<1>9. CASE Drained
  <2>1. UNCHANGED <<sent, handled>> /\ phase # "ended"
    BY <1>9 DEF Drained, client
  <2>2. CASE waiting = "loop"
    BY <1>4, <1>9, <2>1, <2>2 DEF Drained
  <2>3. CASE waiting = "end"
    BY <1>5, <1>9, <2>1, <2>3 DEF Drained, Queue!Next
  <2>4. CASE waiting = "cancel"
    <3> DEFINE it == Item("cancelled", Len(handled), TRUE)
    <3>1. /\ written' = written \o <<it>> /\ waiting' = "loop" /\ phase' = phase
          /\ it = Queue!Item("cancelled", Len(TakenPackets), TRUE)
      BY <1>1, <1>9, <2>4 DEF Drained, Write, Item, Queue!Item
    <3>2. it \in Written /\ written \in Seq(Written)
      <4>1. Len(handled) \in Sent
        BY <1>1, <2>1, <2>4, PacketFacts DEF Inv, TypeOK, LoopInv, PacketInv
      <4> QED
        BY <4>1 DEF Inv, TypeOK, Written, Item
    <3> HIDE DEF it
    <3>3. written' = Append(written, it)
      BY <3>1, <3>2, OneMore
    <3>4. Queue!Owed
      BY <1>3, <2>1, <2>4, <3>1, <3>3 DEF Queue!Owed, TakenPackets
    <3> QED
      BY <3>4 DEF Queue!Next
  <2> QED
    BY <1>9, <2>2, <2>3, <2>4 DEF Drained
<1>10. CASE Connect \/ Respond \/ Marker \/ Ignore
  <2> DEFINE n == Len(handled) + 1
  <2>1. TakeUp /\ Reading
    BY <1>10 DEF Connect, Respond, Marker, Ignore, TakeUp
  <2>2. /\ Which = n /\ n \in Sent /\ UNCHANGED sent /\ Len(handled') = n
    BY <2>1, TakenUp
  <2>3. TakenPackets' = Append(TakenPackets, sent[n])
    BY <1>1, <1>2, <2>2
  <2>4. /\ phase # "ended" /\ phase' = phase /\ waiting # "cancel"
        /\ (phase = "serving" => n > 1) /\ (phase = "handshake" => n = 1)
        /\ phase \in {"handshake", "serving"}
    BY <1>1, <1>10, <2>1
       DEF Reading, Connect, Respond, Marker, Ignore, Write, Inv, TypeOK, LoopInv
  <2>5. written \in Seq(Written)
    BY DEF Inv, TypeOK, Written
  <2>6. n = 1 => sent[n].kind = "connect"
    BY <1>10, <2>2, <2>4 DEF Connect, Respond, Marker, Ignore, Announced
  <2>7. (waiting' = "cancel") = (n > 1 /\ sent[n].kind = "reset")
    BY <1>1, <1>10, <2>1, <2>2, <2>4
       DEF Connect, Respond, Marker, Ignore, Write, Announced, Reading
  <2>8. \E r \in Queue!Replies(n) : written' = written \o r
    <3>1. CASE Connect
      <4>1. n = 1 /\ written' = written \o <<Item("accept", n, TRUE)>>
        BY <2>2, <2>4, <3>1 DEF Connect, Write
      <4>2. Queue!Replies(n) = {<<Queue!Item("accept", n, TRUE)>>}
        <5> HIDE DEF n
        <5>1. n = 1 /\ ~(n > 1)
          BY <4>1
        <5> QED
          BY <5>1 DEF Queue!Replies
      <4> QED
        BY <4>1, <4>2 DEF Queue!Item, Item
    <3>2. CASE Respond
      <4>1. /\ n > 1 /\ n # 1 /\ sent[n].kind = "data"
            /\ \E k \in 1 .. MaxChunks : written' = written \o Chunks(n, k)
        BY <2>2, <2>4, <3>2 DEF Respond, Write, Announced
      <4> QED
        BY <4>1 DEF Queue!Replies, Queue!Chunks, Chunks, Queue!Item, Item
    <3>3. CASE Marker
      <4>1. /\ n > 1 /\ n # 1 /\ sent[n].kind \in {"break", "reset"} /\ sent[n].kind # "data"
            /\ written' = written \o <<Item("marker", n, TRUE)>>
        BY <2>2, <2>4, <3>3 DEF Marker, Write, Announced
      <4> QED
        BY <4>1 DEF Queue!Replies, Queue!Item, Item
    <3>4. CASE Ignore
      <4>1. n # 1 /\ sent[n].kind \notin {"data", "break", "reset"} /\ written' = written
        BY <2>2, <2>4, <3>4 DEF Ignore, Announced
      <4>2. written' = written \o <<>>
        BY <2>5, <4>1, ConcatEmptySeq
      <4> QED
        BY <4>1, <4>2 DEF Queue!Replies
    <3> QED
      BY <1>10, <3>1, <3>2, <3>3, <3>4
  <2>9. Queue!Handle
    <3> DEFINE l == Len(TakenPackets) + 1
    <3>1. l = n /\ n <= Len(sent)
      BY <1>1, <2>2, PacketFacts DEF Inv, TypeOK
    <3>2. /\ phase # "ended" /\ ~(waiting = "cancel") /\ l <= Len(sent)
          /\ (l = 1 => sent[l].kind = "connect")
          /\ TakenPackets' = Append(TakenPackets, sent[l])
          /\ \E r \in Queue!Replies(l) : written' = written \o r
          /\ (waiting' = "cancel") = (l > 1 /\ sent[l].kind = "reset")
          /\ UNCHANGED <<sent, phase>>
      BY <2>2, <2>3, <2>4, <2>6, <2>7, <2>8, <3>1, Zenon
    <3> QED
      BY <3>2, Zenon DEF Queue!Handle, TakenPackets
  <2> QED
    BY <2>9 DEF Queue!Next
<1> QED
  BY <1>6, <1>7, <1>8, <1>9, <1>10 DEF Next, Bridge, Queue!Next

\* read_packet and the loop of handle_client implement a queue of packets: whatever the
\* pieces the stream arrives in and wherever it ends, packets are taken up whole, once, in
\* order, and answered one by one.
THEOREM ImplementsPacketQueue == Spec => PacketsInOrder
  BY QueueInit, QueueStep, InvHolds, PTL DEF Spec, PacketsInOrder, Queue!Spec
-----------------------------------------------------------------------------
(* Answers and messages in step                                            *)

\* The first n packets are messages of one packet each and markers that cancel nothing.
Plain(n) == \A i \in 1 .. n : ~sent[i].more /\ sent[i].kind # "reset"

\* Those of the first n packets that complete a message.
Completes(n) == {m \in 1 .. n : sent[m].kind = "data" /\ ~sent[m].more}

\* Nothing is written for a packet that was not taken up; as long as packets are plain
\* there are as many answers as messages, and the one OnlyKnownShifts speaks of is the last.
ShiftInv ==
    /\ \A k \in 1 .. Len(written) : written[k].of \in 1 .. Len(handled)
    /\ waiting = "cancel" => Len(handled) > 0 /\ sent[Len(handled)].kind = "reset"
    /\ Plain(Len(handled)) =>
         Cardinality(Answers(Len(written))) = Cardinality(Completes(Len(handled)))
    /\ OnlyKnownShifts

\* Both sets are finite, and have one more element where an answer or a message ends.
LEMMA AnswersGrow == ASSUME NEW k \in Nat
                     PROVE  /\ IsFiniteSet(Answers(k)) /\ Cardinality(Answers(k)) \in Nat
                            /\ Answers(k + 1) = IF IsAnswer(written[k + 1])
                                                THEN Answers(k) \cup {k + 1} ELSE Answers(k)
                            /\ Cardinality(Answers(k) \cup {k + 1}) = Cardinality(Answers(k)) + 1
<1>1. IsFiniteSet(Answers(k)) /\ Cardinality(Answers(k)) \in Nat
  <2>1. IsFiniteSet(1 .. k) /\ Answers(k) \subseteq 1 .. k
    BY FS_Interval DEF Answers
  <2> QED
    BY <2>1, FS_Subset, FS_CardinalityType
<1>2. k + 1 \notin Answers(k)
  BY DEF Answers
<1>3. Cardinality(Answers(k) \cup {k + 1}) = Cardinality(Answers(k)) + 1
  BY <1>1, <1>2, FS_AddElement
<1>4. 1 .. k + 1 = (1 .. k) \cup {k + 1}
  OBVIOUS
<1> QED
  BY <1>1, <1>3, <1>4 DEF Answers

LEMMA MessagesGrow == ASSUME NEW n \in Nat \ {0}
                      PROVE  /\ IsFiniteSet(Completes(n)) /\ Cardinality(Completes(n)) \in Nat
                             /\ Message(n) = 1 + Cardinality(Completes(n - 1))
                             /\ Cardinality(Completes(n)) =
                                  IF sent[n].kind = "data" /\ ~sent[n].more
                                  THEN Message(n) ELSE Cardinality(Completes(n - 1))
<1>1. \A i \in Nat : IsFiniteSet(Completes(i)) /\ Cardinality(Completes(i)) \in Nat
  <2> TAKE i \in Nat
  <2>1. IsFiniteSet(1 .. i) /\ Completes(i) \subseteq 1 .. i
    BY FS_Interval DEF Completes
  <2> QED
    BY <2>1, FS_Subset, FS_CardinalityType
<1>2. n - 1 \in Nat /\ 1 .. n = (1 .. n - 1) \cup {n} /\ n \notin Completes(n - 1)
  BY DEF Completes
<1>3. Completes(n) = IF sent[n].kind = "data" /\ ~sent[n].more
                     THEN Completes(n - 1) \cup {n} ELSE Completes(n - 1)
  BY <1>2 DEF Completes
<1>4. Cardinality(Completes(n - 1) \cup {n}) = Cardinality(Completes(n - 1)) + 1
  BY <1>1, <1>2, FS_AddElement
<1>5. Message(n) = 1 + Cardinality(Completes(n - 1))
  BY DEF Message, Completes
<1> QED
  BY <1>1, <1>2, <1>3, <1>4, <1>5

\* What was written stays as it is when more is written.
LEMMA Kept == ASSUME TypeOK, NEW items \in Seq(Written), written' = written \o items
              PROVE  /\ Len(written) \in Nat /\ Len(items) \in Nat
                     /\ Len(written') = Len(written) + Len(items)
                     /\ \A k \in 1 .. Len(written) : written'[k] = written[k]
                     /\ \A k \in 1 .. Len(items) : written'[Len(written) + k] = items[k]
                     /\ \A k \in 0 .. Len(written) : Answers(k)' = Answers(k)
<1>1. written \in Seq(Written) /\ Len(written) \in Nat /\ Len(items) \in Nat
  BY LenProperties DEF TypeOK, Written
<1>2. /\ Len(written') = Len(written) + Len(items)
      /\ \A k \in 1 .. Len(written) + Len(items) :
           written'[k] = IF k <= Len(written) THEN written[k] ELSE items[k - Len(written)]
  BY <1>1, ConcatProperties, Zenon
<1>3. \A k \in 1 .. Len(written) : written'[k] = written[k]
  BY <1>1, <1>2
<1>4. ASSUME NEW k \in 1 .. Len(items)
      PROVE  written'[Len(written) + k] = items[k]
  <2>1. /\ Len(written) + k \in 1 .. Len(written) + Len(items)
        /\ ~(Len(written) + k <= Len(written)) /\ (Len(written) + k) - Len(written) = k
    BY <1>1
  <2> QED
    BY <1>2, <2>1, Zenon
<1>5. \A k \in 0 .. Len(written) : Answers(k)' = Answers(k)
  BY <1>1, <1>3 DEF Answers, IsAnswer
<1> QED
  BY <1>1, <1>2, <1>3, <1>4, <1>5

\* A fresh connection has written nothing.
LEMMA InitShift == Init => ShiftInv
<1> SUFFICES ASSUME Init PROVE ShiftInv
  OBVIOUS
<1>1. Len(written) = 0 /\ Len(handled) = 0 /\ waiting = "no" /\ 1 .. 0 = {}
  BY EmptySeq DEF Init
<1>2. Answers(Len(written)) = {} /\ Completes(Len(handled)) = {}
  BY <1>1 DEF Answers, Completes
<1>3. OnlyKnownShifts
  BY <1>2, Zenon DEF OnlyKnownShifts
<1>4. \A k \in 1 .. Len(written) : written[k].of \in 1 .. Len(handled)
  BY <1>1
<1> QED
  BY <1>1, <1>2, <1>3, <1>4 DEF ShiftInv

\* Steps in which nothing is taken up or written.
LEMMA ShiftQuiet == ASSUME Inv, ShiftInv, UNCHANGED <<handled, written>>,
                           waiting' # "cancel" \/ waiting' = waiting,
                           \A n \in Sent : sent'[n] = sent[n]
                    PROVE  ShiftInv'
<1>1. Len(handled) \in Nat /\ \A n \in 1 .. Len(handled) : sent'[n] = sent[n]
  <2>1. sent \in Seq(Packets) /\ TypeOK /\ Len(handled) <= Len(sent)
    BY DEF Inv, TypeOK, PacketInv
  <2>2. Len(handled) \in Nat /\ Len(sent) \in Nat /\ Sent = 1 .. Len(sent)
    BY <2>1, Lengths, PacketFacts
  <2> QED
    BY <2>1, <2>2
<1>2. ASSUME NEW n \in 0 .. Len(handled)
      PROVE  Plain(n)' = Plain(n) /\ Completes(n)' = Completes(n) /\ Message(n)' = Message(n)
  <2>1. \A i \in 1 .. n : sent'[i] = sent[i]
    BY <1>1
  <2>2. \A i \in 1 .. n - 1 : sent'[i] = sent[i]
    BY <1>1
  <2>3. Plain(n)' <=> Plain(n)
    BY <2>1 DEF Plain
  <2>4. Completes(n)' = Completes(n)
    BY <2>1 DEF Completes
  <2>5. {m \in 1 .. n - 1 : sent'[m].kind = "data" /\ ~sent'[m].more}
          = {m \in 1 .. n - 1 : sent[m].kind = "data" /\ ~sent[m].more}
    BY <2>2
  <2> QED
    BY <2>3, <2>4, <2>5, Zenon DEF Message, Plain
<1>3. Answers(Len(written))' = Answers(Len(written)) /\ \A k \in Nat : Answers(k)' = Answers(k)
  BY DEF Answers, IsAnswer
<1>4. OnlyKnownShifts'
  <2> SUFFICES ASSUME NEW k \in Answers(Len(written)), Plain(written[k].of)'
               PROVE  Message(written[k].of)' = Cardinality(Answers(k)')
    BY <1>3 DEF OnlyKnownShifts, Plain
  <2>1. k \in 1 .. Len(written) /\ written[k].of \in 1 .. Len(handled) /\ k \in Nat
    BY Lengths DEF Answers, ShiftInv, Inv
  <2>2. written[k].of \in 0 .. Len(handled)
    BY <1>1, <2>1
  <2>3. Plain(written[k].of) /\ Message(written[k].of)' = Message(written[k].of)
    BY <1>2, <2>2
  <2>4. Message(written[k].of) = Cardinality(Answers(k))
    BY <2>3 DEF ShiftInv, OnlyKnownShifts, Plain
  <2> QED
    BY <1>3, <2>1, <2>3, <2>4
<1>5. Len(handled) \in 0 .. Len(handled)
  BY <1>1
<1>6. waiting' = "cancel" => Len(handled) > 0 /\ sent'[Len(handled)].kind = "reset"
  BY <1>1 DEF ShiftInv
<1>7. Plain(Len(handled))' =>
        Cardinality(Answers(Len(written)))' = Cardinality(Completes(Len(handled)))'
  BY <1>2, <1>3, <1>5 DEF ShiftInv
<1> QED
  BY <1>4, <1>6, <1>7 DEF ShiftInv

\* What may be written for packet n: for a DATA packet one answer, which ends with the last
\* of items, for others none.
Replies(n, items) ==
    /\ items \in Seq(Written)
    /\ \A k \in 1 .. Len(items) :
         items[k].of = n /\ (IsAnswer(items[k]) <=> sent[n].kind = "data" /\ k = Len(items))
    /\ sent[n].kind = "data" => Len(items) > 0

LEMMA ChunksReply == ASSUME NEW n \in Sent, sent[n].kind = "data", NEW k \in 1 .. MaxChunks
                     PROVE  Replies(n, Chunks(n, k))
<1>1. k \in Nat /\ k > 0 /\ Chunks(n, k) \in Seq(Written)
  <2>1. MaxChunks \in Nat /\ Chunks(n, k) \in Seq(Written)
    BY ItemsAre, SizesAssumption
  <2> QED
    BY <2>1
<1>2. \A i \in 1 .. k : Chunks(n, k)[i] = Item("data", n, i = k)
  BY DEF Chunks
<1>3. Len(Chunks(n, k)) = k
  BY <1>1 DEF Chunks
<1>4. ASSUME NEW i \in 1 .. k
      PROVE  Item("data", n, i = k).of = n /\ (IsAnswer(Item("data", n, i = k)) <=> i = k)
  BY DEF Item, IsAnswer
<1> DEFINE items == Chunks(n, k)
<1>5. /\ items \in Seq(Written) /\ Len(items) = k
      /\ \A i \in 1 .. k : items[i].of = n /\ (IsAnswer(items[i]) <=> i = k)
  BY <1>1, <1>2, <1>3, <1>4, Zenon
<1> HIDE DEF items
<1>6. Replies(n, items)
  BY <1>1, <1>5 DEF Replies
<1> QED
  BY <1>6 DEF items

LEMMA ItemReplies == ASSUME NEW n \in Sent, sent[n].kind # "data", NEW what \in {"accept", "marker"}
                     PROVE  Replies(n, <<Item(what, n, TRUE)>>)
<1> DEFINE it == Item(what, n, TRUE)
<1>1. it \in Written /\ it.of = n /\ ~IsAnswer(it)
  BY ItemsAre DEF Item, IsAnswer
<1> HIDE DEF it
<1>2. <<it>> \in Seq(Written) /\ Len(<<it>>) = 1 /\ \A k \in 1 .. 1 : <<it>>[k] = it
  BY <1>1
<1>3. \A k \in 1 .. 1 : <<it>>[k].of = n /\ ~IsAnswer(<<it>>[k])
  BY <1>1, <1>2
<1> DEFINE items == <<it>>
<1> HIDE DEF items
<1>4. /\ items \in Seq(Written) /\ Len(items) = 1
      /\ \A k \in 1 .. 1 : items[k].of = n /\ ~IsAnswer(items[k])
  BY <1>2, <1>3 DEF items
<1>5. Replies(n, items)
  BY <1>4 DEF Replies
<1> QED
  BY <1>5 DEF items, it

\* A packet is taken up and replied to.
LEMMA Replied == ASSUME Inv, Connect \/ Respond \/ Marker \/ Ignore
                 PROVE  \E items : Replies(Len(handled) + 1, items) /\ written' = written \o items
<1> DEFINE n == Len(handled) + 1
<1>1. Which = n /\ n \in Sent
  BY TakenUp DEF Connect, Respond, Marker, Ignore
<1>2. CASE Respond
  <2>1. PICK k \in 1 .. MaxChunks : written' = written \o Chunks(n, k)
    BY <1>1, <1>2 DEF Respond, Write
  <2>2. Replies(n, Chunks(n, k))
    BY <1>1, <1>2, ChunksReply DEF Respond, Announced
  <2> QED
    BY <2>1, <2>2, Zenon
<1>3. ASSUME NEW what \in {"accept", "marker"}, sent[n].kind # "data",
             written' = written \o <<Item(what, n, TRUE)>>
      PROVE  \E items : Replies(n, items) /\ written' = written \o items
  BY <1>1, <1>3, ItemReplies, Zenon
<1>4. CASE Connect
  BY <1>1, <1>3, <1>4 DEF Connect, Write, Announced
<1>5. CASE Marker
  BY <1>1, <1>3, <1>5 DEF Marker, Write, Announced
<1>6. CASE Ignore
  <2>1. <<>> \in Seq(Written) /\ Len(<<>>) = 0 /\ 1 .. 0 = {}
    BY EmptySeq
  <2>2. Replies(n, <<>>)
    BY <1>1, <1>6, <2>1 DEF Replies, Ignore, Announced
  <2>3. written' = written \o <<>>
    BY <1>6, ConcatEmptySeq DEF Ignore, Inv, TypeOK
  <2> QED
    BY <2>2, <2>3, Zenon
<1> QED
  BY <1>2, <1>4, <1>5, <1>6

\* Then there is an answer more if there is a message more; while the packets are plain that
\* is the answer of this message.
LEMMA ShiftHandling == ASSUME Inv, ShiftInv, Connect \/ Respond \/ Marker \/ Ignore
                       PROVE  ShiftInv'
<1>0. /\ Len(handled) \in Nat /\ Len(written) \in Nat
      /\ Len(handled) + 1 \in Nat \ {0} /\ (Len(handled) + 1) - 1 = Len(handled)
  BY Lengths DEF Inv
<1> PICK len \in Nat : len = Len(written)
  BY <1>0
<1> PICK n \in Nat \ {0} : n = Len(handled) + 1
  BY <1>0
<1> DEFINE data == sent[n].kind = "data"
<1>1. n \in Sent /\ Len(handled') = n /\ UNCHANGED sent
  BY TakenUp DEF Connect, Respond, Marker, Ignore
<1>2. n \in Nat \ {0} /\ n - 1 = Len(handled) /\ len \in Nat
  BY <1>0
<1>3. PICK items : Replies(n, items) /\ written' = written \o items
  BY Replied
<1>4. /\ items \in Seq(Written) /\ Len(items) \in Nat
      /\ Len(written') = len + Len(items)
      /\ \A k \in 1 .. len : written'[k] = written[k]
      /\ \A k \in 1 .. Len(items) : written'[len + k] = items[k]
      /\ \A k \in 0 .. len : Answers(k)' = Answers(k)
  BY <1>3, Kept DEF Replies, Inv
<1>5. \A k \in 1 .. len + Len(items) : k > len => k - len \in 1 .. Len(items) /\ k = len + (k - len)
  BY <1>2, <1>4
<1>6. ASSUME NEW k \in 1 .. len + Len(items), k > len
      PROVE  written'[k].of = n /\ (IsAnswer(written'[k]) <=> data /\ k = len + Len(items))
  <2> DEFINE i == k - len
  <2>1. i \in 1 .. Len(items) /\ k = len + i
    BY <1>5, <1>6
  <2>2. written'[k] = items[i]
    BY <1>4, <2>1
  <2>3. items[i].of = n /\ (IsAnswer(items[i]) <=> data /\ i = Len(items))
    BY <1>3, <2>1 DEF Replies
  <2>4. i = Len(items) <=> k = len + Len(items)
    BY <1>2, <1>4
  <2> QED
    BY <2>2, <2>3, <2>4, Zenon
<1> PICK total \in Nat : total = len + Len(items)
  BY <1>4
<1> DEFINE before == Cardinality(Answers(len))
<1>7. IsFiniteSet(Answers(len)) /\ before \in Nat /\ len <= total
  <2>1. IsFiniteSet(Answers(len)) /\ before \in Nat
    BY AnswersGrow
  <2> QED
    BY <1>4, <2>1
<1>8. Answers(total)' = IF data THEN Answers(len) \cup {total} ELSE Answers(len)
  <2>1. ASSUME NEW k \in 1 .. total
        PROVE  IsAnswer(written'[k]) <=> k \in Answers(len) \/ (data /\ k = total)
    <3>1. CASE k > len
      <4>1. k \notin Answers(len)
        BY <1>2, <3>1 DEF Answers
      <4> QED
        BY <1>6, <3>1, <4>1
    <3>2. CASE k <= len
      <4>1. k \in 1 .. len /\ written'[k] = written[k]
        BY <1>2, <1>4, <3>2
      <4>2. k = total => Len(items) = 0
        BY <1>2, <1>4, <3>2
      <4>3. ~(data /\ k = total)
        BY <1>3, <4>2 DEF Replies
      <4> QED
        BY <4>1, <4>3 DEF Answers
    <3> QED
      BY <1>2, <3>1, <3>2
  <2>2. data => total \in 1 .. total
    BY <1>2, <1>3, <1>4 DEF Replies
  <2>3. Answers(len) \subseteq 1 .. total
    <3>1. 1 .. len \subseteq 1 .. total
      BY <1>2, <1>7
    <3> QED
      BY <3>1 DEF Answers
  <2>4. Answers(total)' = {j \in 1 .. total : IsAnswer(written'[j])}
    BY DEF Answers, IsAnswer
  <2> HIDE DEF data
  <2>5. Answers(total)' = {j \in 1 .. total : j \in Answers(len) \/ (data /\ j = total)}
    BY <2>1, <2>4
  <2> QED
    BY <2>2, <2>3, <2>5
<1>9. Cardinality(Answers(total)') = IF data THEN before + 1 ELSE before
  <2>1. data => total \notin Answers(len)
    BY <1>2, <1>3, <1>4 DEF Replies, Answers
  <2> QED
    BY <1>7, <1>8, <2>1, FS_AddElement
<1>10. /\ Message(n) = 1 + Cardinality(Completes(n - 1))
       /\ Cardinality(Completes(n)) = IF data /\ ~sent[n].more
                                      THEN Message(n) ELSE Cardinality(Completes(n - 1))
       /\ Cardinality(Completes(n - 1)) \in Nat
  <2>1. n - 1 = 0 \/ n - 1 \in Nat \ {0}
    BY <1>2
  <2>2. Cardinality(Completes(n - 1)) \in Nat
    <3>1. CASE n - 1 = 0
      <4>1. Completes(0) = {}
        BY DEF Completes
      <4> QED
        BY <3>1, <4>1, FS_EmptySet
    <3>2. CASE n - 1 \in Nat \ {0}
      BY <3>2, MessagesGrow
    <3> QED
      BY <2>1, <3>1, <3>2
  <2> QED
    BY <1>2, <2>2, MessagesGrow
<1>11. ASSUME Plain(n)
       PROVE  before = Cardinality(Completes(n - 1)) /\ ~sent[n].more
  <2>1. Plain(n - 1) /\ n \in 1 .. n
    BY <1>2, <1>11 DEF Plain
  <2> QED
    BY <1>2, <1>11, <2>1 DEF ShiftInv, Plain
<1>12. /\ Completes(n)' = Completes(n)
       /\ \A i : Message(i)' = Message(i)
       /\ \A i : Plain(i)' <=> Plain(i)
  BY <1>1 DEF Plain, Completes, Message
<1>13. ASSUME NEW k \in 1 .. total
       PROVE  written'[k].of \in 1 .. n
  <2>1. CASE k <= len
    <3>1. k \in 1 .. len
      BY <1>2, <2>1
    <3> QED
      BY <1>2, <1>4, <3>1 DEF ShiftInv
  <2>2. CASE k > len
    BY <1>2, <1>6, <2>2
  <2> QED
    BY <1>2, <2>1, <2>2
<1>14. waiting' = "cancel" => n > 0 /\ sent'[n].kind = "reset"
  <2>1. Which = n
    BY TakenUp DEF Connect, Respond, Marker, Ignore
  <2>2. waiting # "cancel" /\ n > 0
    BY <1>2 DEF Connect, Respond, Marker, Ignore, TakeUp, Reading
  <2> QED
    BY <1>1, <2>1, <2>2 DEF Connect, Respond, Marker, Ignore, Write, Announced
<1>15. OnlyKnownShifts'
  <2> SUFFICES ASSUME NEW k \in Answers(total)', NEW m, m = written'[k].of, Plain(m)'
               PROVE  Message(m)' = Cardinality(Answers(k)')
    BY <1>4 DEF OnlyKnownShifts, Plain
  <2>0. Plain(m) /\ Message(m)' = Message(m)
    BY <1>12
  <2>1. CASE k \in Answers(len)
    <3>1. k \in 1 .. len /\ k \in 0 .. len
      BY <2>1 DEF Answers
    <3>2. written[k].of = m /\ Answers(k)' = Answers(k)
      BY <1>4, <3>1
    <3>3. Message(m) = Cardinality(Answers(k))
      BY <2>0, <2>1, <3>2 DEF ShiftInv, OnlyKnownShifts, Plain
    <3> QED
      BY <2>0, <3>2, <3>3
  <2>2. CASE k \notin Answers(len)
    <3>1. data /\ k = total
      BY <1>8, <2>2
    <3>2. m = n
      <4>1. total \in 1 .. len + Len(items) /\ total > len
        BY <1>2, <1>3, <1>4, <3>1 DEF Replies
      <4> QED
        BY <1>6, <3>1, <4>1
    <3>3. Cardinality(Answers(total)') = 1 + Cardinality(Completes(n - 1))
      BY <1>9, <1>10, <1>11, <2>0, <3>1, <3>2
    <3>4. Message(n) = 1 + Cardinality(Completes(n - 1))
      BY <1>10
    <3> QED
      BY <2>0, <3>1, <3>2, <3>3, <3>4
  <2> QED
    BY <2>1, <2>2
<1>16. Plain(n)' => Cardinality(Answers(total)') = Cardinality(Completes(n)')
  <2> HIDE DEF before, data
  <2> SUFFICES ASSUME Plain(n) PROVE Cardinality(Answers(total)') = Cardinality(Completes(n))
    BY <1>12
  <2> QED
    BY <1>7, <1>9, <1>10, <1>11
<1>17. Len(written') = total
  BY <1>4
<1> QED
  BY <1>1, <1>13, <1>14, <1>15, <1>16, <1>17 DEF ShiftInv

\* An ORA-01013 more, but for a RESET.
LEMMA ShiftCancelled == ASSUME Inv, ShiftInv, Drained, waiting = "cancel"
                        PROVE  ShiftInv'
<1>1. /\ Len(handled) \in Nat /\ Len(written) \in Nat /\ Len(handled) > 0
      /\ sent[Len(handled)].kind = "reset"
      /\ \A k \in 1 .. Len(written) : written[k].of \in 1 .. Len(handled)
      /\ UNCHANGED <<sent, handled>> /\ waiting' = "loop"
      /\ written' = written \o <<Item("cancelled", Len(handled), TRUE)>>
  BY Lengths DEF Inv, ShiftInv, Drained, Write, client
<1> PICK n \in Nat : n = Len(handled)
  BY <1>1
<1> PICK len \in Nat : len = Len(written)
  BY <1>1
<1> DEFINE it == Item("cancelled", n, TRUE)
<1>2. it \in Written /\ it.of = n /\ written' = written \o <<it>> /\ n \in Sent
  <2>1. sent \in Seq(Packets) /\ n <= Len(sent) /\ n > 0
    BY <1>1 DEF Inv, TypeOK, PacketInv
  <2>2. n \in Sent
    <3>1. Sent = 1 .. Len(sent) /\ Len(sent) \in Nat
      BY <2>1, PacketFacts
    <3> QED
      BY <2>1, <3>1
  <2> QED
    BY <1>1, <2>2 DEF Item, Written
<1> HIDE DEF it
<1>3. <<it>> \in Seq(Written) /\ Len(<<it>>) = 1 /\ <<it>>[1] = it
  BY <1>2
<1>4. /\ Len(written') = len + 1 /\ written'[len + 1] = it
      /\ \A k \in 1 .. len : written'[k] = written[k]
      /\ \A k \in 0 .. len : Answers(k)' = Answers(k)
  <2> DEFINE items == <<it>>
  <2>1. items \in Seq(Written) /\ Len(items) = 1 /\ items[1] = it /\ written' = written \o items
    BY <1>2, <1>3
  <2> HIDE DEF items
  <2>2. /\ Len(written') = len + Len(items)
        /\ \A k \in 1 .. len : written'[k] = written[k]
        /\ \A k \in 1 .. Len(items) : written'[len + k] = items[k]
        /\ \A k \in 0 .. len : Answers(k)' = Answers(k)
    BY <2>1, Kept DEF Inv
  <2> QED
    BY <2>1, <2>2
<1>5. ~Plain(n) /\ ~Plain(n)'
  BY <1>1 DEF Plain
<1>6. ASSUME NEW k \in 1 .. len + 1
      PROVE  written'[k].of \in 1 .. n
  <2>1. CASE k \in 1 .. len
    BY <1>1, <1>4, <2>1
  <2>2. CASE k = len + 1
    <3>1. written'[k].of = n
      BY <1>2, <1>4, <2>2
    <3>2. n > 0
      BY <1>1
    <3> QED
      BY <3>1, <3>2
  <2> QED
    BY <2>1, <2>2
<1>7. OnlyKnownShifts'
  <2> SUFFICES ASSUME NEW k \in Answers(len + 1)', NEW m, m = written'[k].of, Plain(m)'
               PROVE  Message(m)' = Cardinality(Answers(k)')
    BY <1>4 DEF OnlyKnownShifts, Plain
  <2>1. k \in 1 .. len + 1 /\ k # len + 1
    BY <1>2, <1>4, <1>5 DEF Answers
  <2>2. k \in 1 .. len /\ k \in 0 .. len /\ IsAnswer(written'[k])
    BY <2>1 DEF Answers, IsAnswer
  <2>3. written'[k] = written[k] /\ Answers(k)' = Answers(k) /\ k \in Answers(len)
    BY <1>4, <2>2 DEF Answers
  <2>4. Plain(m) /\ Message(m)' = Message(m)
    BY <1>1 DEF Plain, Message
  <2>5. Message(m) = Cardinality(Answers(k))
    BY <2>3, <2>4 DEF ShiftInv, OnlyKnownShifts, Plain
  <2> QED
    BY <2>3, <2>4, <2>5
<1> QED
  BY <1>1, <1>4, <1>5, <1>6, <1>7 DEF ShiftInv

\* The client's next packet does not change those before.
LEMMA ShiftSend == ASSUME Inv, ShiftInv, NEW p \in Packets, Send(p)
                   PROVE  ShiftInv'
<1>1. sent \in Seq(Packets) /\ sent' = Append(sent, p) /\ UNCHANGED <<handled, written, waiting>>
  BY DEF Inv, TypeOK, Send
<1>2. \A n \in Sent : sent'[n] = sent[n]
  BY <1>1, PacketFacts, AppendProperties
<1> QED
  BY <1>1, <1>2, ShiftQuiet

\* However the stream is cut into pieces and whatever comes in between, as long as no message
\* takes more than one packet and no RESET comes the k-th answer is that of the k-th message.
THEOREM AnswersKeepStep == Spec => []OnlyKnownShifts
<1>1. Inv /\ ShiftInv /\ [Next]_vars => ShiftInv'
  <2> SUFFICES ASSUME Inv, ShiftInv, [Next]_vars PROVE ShiftInv'
    OBVIOUS
  <2>1. CASE \E p \in Packets : Send(p)
    BY <2>1, ShiftSend
  <2>2. CASE Connect \/ Respond \/ Marker \/ Ignore
    BY <2>2, ShiftHandling
  <2>3. CASE Drained
    <3>1. CASE waiting # "cancel"
      <4>1. UNCHANGED <<sent, handled, written>> /\ waiting' = "no"
        BY <2>3, <3>1 DEF Drained, client
      <4> QED
        BY <4>1, ShiftQuiet
    <3> QED
      BY <2>3, <3>1, ShiftCancelled
  <2>4. CASE Take \/ Leave \/ Receive \/ ReadHeader \/ StreamEnds \/ Refuse \/ WriteFails
             \/ UNCHANGED vars
    <3>1. UNCHANGED <<sent, handled, written>> /\ (waiting' = "no" \/ waiting' = waiting)
      BY <2>4 DEF Take, Leave, Receive, ReadHeader, StreamEnds, Refuse, GiveUp, WriteFails, vars,
                  client
    <3> QED
      BY <3>1, ShiftQuiet
  <2> QED
    BY <2>1, <2>2, <2>3, <2>4 DEF Next, Bridge
<1>2. ShiftInv => OnlyKnownShifts
  BY DEF ShiftInv
<1> QED
  BY InitShift, <1>1, <1>2, InvHolds, PTL DEF Spec
=============================================================================
