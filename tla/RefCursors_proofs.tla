------------------------- MODULE RefCursors_proofs -------------------------
(***************************************************************************)
(* RowsAccounted, EofMeansAll and ClosedStaysClosed for every set of       *)
(* results, every batch size and every bound.  RowsAccounted needs the     *)
(* positions to stay inside the buffered rows (PosInRange); EofMeansAll    *)
(* needs that nothing is left behind an ORA-01403 (NothingAfterEof).       *)
(***************************************************************************)
EXTENDS RefCursors, SequenceTheorems, TLAPS

PosInRange == \A id \in DOMAIN cursors : cursors[id].pos <= Len(cursors[id].rows)

NothingAfterEof ==
    \A id \in DOMAIN view \cap DOMAIN cursors :
      view[id].eof => cursors[id].pos = Len(cursors[id].rows)

Inv == TypeOK /\ PosInRange /\ RowsAccounted /\ NothingAfterEof /\ EofMeansAll

-----------------------------------------------------------------------------
(* Sequences                                                               *)

\* A batch of at most n rows taken after the first p, and what is left behind it.
LEMMA BatchSplits ==
    ASSUME NEW s \in Seq(Rows), NEW p \in Nat, p <= Len(s), NEW n \in Nat,
           NEW b, b = SubSeq(s, p + 1, Smaller(p + n, Len(s)))
    PROVE  /\ b \in Seq(Rows)
           /\ p + Len(b) = Smaller(p + n, Len(s))
           /\ b \o SubSeq(s, p + Len(b) + 1, Len(s)) = SubSeq(s, p + 1, Len(s))
<1> DEFINE k == Smaller(p + n, Len(s))
<1>1. k \in p .. Len(s)
  BY DEF Smaller
<1>2. \A i \in p + 1 .. k : s[i] \in Rows
  BY <1>1
<1>3. b \in Seq(Rows) /\ Len(b) = IF p + 1 <= k THEN k - (p + 1) + 1 ELSE 0
  BY <1>1, <1>2, SubSeqProperties
<1>4. p + Len(b) = k
  BY <1>1, <1>3
<1>5. SubSeq(s, p + 1, k) \o SubSeq(s, k + 1, Len(s)) = SubSeq(s, p + 1, Len(s))
  <2>1. p + 1 \in 1 .. Len(s) + 1 /\ Len(s) \in k .. Len(s) /\ k \in (p + 1) - 1 .. Len(s)
    BY <1>1
  <2> HIDE DEF k
  <2> QED
    BY <2>1, ConcatAdjacentSubSeq
<1> QED
  BY <1>3, <1>4, <1>5

\* Any part of a sequence of rows is one, and a part from its start to its end is it.
LEMMA PartOfRows ==
    ASSUME NEW s \in Seq(Rows), NEW m \in Nat \ {0}, NEW n \in Nat, n <= Len(s)
    PROVE  SubSeq(s, m, n) \in Seq(Rows)
<1>1. \A i \in m .. n : s[i] \in Rows
  OBVIOUS
<1> QED
  BY <1>1, SubSeqProperties

LEMMA WholeIsItself ==
    ASSUME NEW s \in Seq(Rows)
    PROVE  SubSeq(s, 1, Len(s)) = s
  BY SubSeqFull

LEMMA NothingLeft ==
    ASSUME NEW s \in Seq(Rows), NEW t \in Seq(Rows)
    PROVE  t \o SubSeq(s, Len(s) + 1, Len(s)) = t
<1>1. SubSeq(s, Len(s) + 1, Len(s)) = <<>>
  BY SubSeqEmpty
<1> QED
  BY <1>1, ConcatEmptySeq

-----------------------------------------------------------------------------
(* One lemma per kind of step                                              *)

LEMMA InitInv == Init => Inv
  BY DEF Init, Inv, TypeOK, PosInRange, RowsAccounted, NothingAfterEof, EofMeansAll,
         Entry, View

LEMMA OtherCallInv ==
    ASSUME Inv, NEW closing, OtherCall(closing)
    PROVE  Inv'
  BY DEF OtherCall, Kept, Inv, TypeOK, PosInRange, RowsAccounted, NothingAfterEof,
         EofMeansAll

\* Opening entries under new ids leaves every cursor the client knew as it was.
LEMMA OpenedInv ==
    ASSUME Inv, NEW origin \in {"query", "block"}, NEW results \in Seq(Seq(Rows)),
           NEW closing,
           cursors' = Opened(origin, results, closing),
           nextRefId' = nextRefId + Len(results),
           NEW last, results # <<>>, last = nextRefId + Len(results) - 1,
           NEW result \in Seq(Rows), NEW got \in Seq(Rows),
           got \o results[Len(results)] = result,
           view' = Told(last, result, got) \/ UNCHANGED view
    PROVE  Inv'
<1> DEFINE new == nextRefId .. nextRefId + Len(results) - 1
<1>1. /\ nextRefId \in Nat \ {0}
      /\ DOMAIN cursors \subseteq 1 .. nextRefId - 1
      /\ DOMAIN view \subseteq 1 .. nextRefId - 1
      /\ cursors \in [DOMAIN cursors -> Entry]
      /\ view \in [DOMAIN view -> View]
  BY DEF Inv, TypeOK
<1>2. Len(results) \in Nat \ {0} /\ last \in new /\ nextRefId' \in Nat \ {0}
  BY <1>1
<1>3. /\ DOMAIN cursors' = (DOMAIN cursors \ closing) \cup new
      /\ cursors' = [id \in DOMAIN cursors' |-> cursors'[id]]
  BY DEF Opened
<1>4. \A id \in DOMAIN cursors' : id \notin new => id \in DOMAIN cursors /\ cursors'[id] = cursors[id]
  BY <1>3 DEF Opened
<1>5. \A id \in new : /\ id - nextRefId + 1 \in 1 .. Len(results)
                      /\ cursors'[id] = [origin |-> origin,
                                         rows |-> results[id - nextRefId + 1], pos |-> 0]
  BY <1>1, <1>3 DEF Opened
<1>6. \A id \in new : cursors'[id] \in Entry /\ cursors'[id].pos <= Len(cursors'[id].rows)
  <2> SUFFICES ASSUME NEW id \in new
               PROVE  cursors'[id] \in Entry /\ cursors'[id].pos <= Len(cursors'[id].rows)
    OBVIOUS
  <2>1. \A j \in 1 .. Len(results) : results[j] \in Seq(Rows) /\ 0 <= Len(results[j])
    OBVIOUS
  <2>2. PICK j \in 1 .. Len(results) :
             cursors'[id] = [origin |-> origin, rows |-> results[j], pos |-> 0]
    BY <1>5
  <2> QED
    BY <2>1, <2>2 DEF Entry
<1>7. /\ view' = [id \in DOMAIN view' |-> view'[id]]
      /\ DOMAIN view \subseteq DOMAIN view'
      /\ DOMAIN view' \subseteq DOMAIN view \cup {last}
      /\ \A id \in DOMAIN view : view'[id] = view[id]
      /\ \A id \in DOMAIN view' \ DOMAIN view :
           view'[id] = [result |-> result, got |-> got, eof |-> FALSE, torn |-> FALSE]
  <2>1. CASE view' = view
    BY <2>1, <1>1
  <2>2. CASE view' = Told(last, result, got)
    <3> HIDE DEF new
    <3>1. last \notin DOMAIN view
      BY <1>1, <1>2 DEF new
    <3>2. DOMAIN view' = DOMAIN view \cup {last}
      BY <2>2 DEF Told
    <3>3. view' = [id \in DOMAIN view' |-> view'[id]]
      BY <2>2 DEF Told
    <3>4. \A id \in DOMAIN view : view'[id] = view[id]
      BY <2>2, <3>1 DEF Told
    <3>5. view'[last] = [result |-> result, got |-> got, eof |-> FALSE, torn |-> FALSE]
      BY <2>2 DEF Told
    <3> QED
      BY <3>2, <3>3, <3>4, <3>5
  <2> QED
    BY <2>1, <2>2
<1>8. TypeOK'
  <2>1. DOMAIN cursors' \subseteq 1 .. nextRefId' - 1 /\ DOMAIN view' \subseteq 1 .. nextRefId' - 1
    <3>1. new \cup 1 .. nextRefId - 1 \subseteq 1 .. nextRefId' - 1
      BY <1>1, <1>2
    <3> HIDE DEF new
    <3> QED
      BY <3>1, <1>1, <1>2, <1>3, <1>7
  <2>2. cursors' \in [DOMAIN cursors' -> Entry]
    BY <1>1, <1>3, <1>4, <1>6
  <2>3. view' \in [DOMAIN view' -> View]
    <3>1. [result |-> result, got |-> got, eof |-> FALSE, torn |-> FALSE] \in View
      BY DEF View
    <3>2. \A id \in DOMAIN view' : view'[id] \in View
      BY <3>1, <1>1, <1>7
    <3> QED
      BY <3>2, <1>7
  <2> QED
    BY <1>2, <2>1, <2>2, <2>3 DEF TypeOK
<1>9. PosInRange'
  BY <1>4, <1>6 DEF Inv, PosInRange
<1>10. \A id \in DOMAIN view : id \notin new
  BY <1>1
<1>11. cursors'[last] = [origin |-> origin, rows |-> results[Len(results)], pos |-> 0]
  <2>1. last - nextRefId + 1 = Len(results)
    BY <1>1, <1>2
  <2> QED
    BY <2>1, <1>2, <1>5
<1>12. RowsAccounted'
  <2> SUFFICES ASSUME NEW id \in DOMAIN view' \cap DOMAIN cursors', ~view'[id].torn
               PROVE  view'[id].got
                        \o SubSeq(cursors'[id].rows, cursors'[id].pos + 1, Len(cursors'[id].rows))
                      = view'[id].result
    BY DEF RowsAccounted
  <2>1. CASE id \in DOMAIN view
    BY <2>1, <1>4, <1>7, <1>10 DEF Inv, RowsAccounted
  <2>2. CASE id \notin DOMAIN view
    <3>1. id = last
      BY <2>2, <1>7
    <3>2. results[Len(results)] \in Seq(Rows)
      BY <1>2
    <3>3. SubSeq(results[Len(results)], 0 + 1, Len(results[Len(results)])) = results[Len(results)]
      BY <3>2, WholeIsItself
    <3>4. view'[id].got = got /\ view'[id].result = result
      BY <2>2, <1>7
    <3>5. cursors'[id].rows = results[Len(results)] /\ cursors'[id].pos = 0
      BY <3>1, <1>11
    <3> QED
      BY <3>3, <3>4, <3>5
  <2> QED
    BY <2>1, <2>2
<1>13. NothingAfterEof'
  BY <1>4, <1>7, <1>10 DEF Inv, NothingAfterEof
<1>14. EofMeansAll'
  BY <1>7 DEF Inv, EofMeansAll
<1> QED
  BY <1>8, <1>9, <1>12, <1>13, <1>14 DEF Inv

\* A partial query: what is delivered and the tail that is kept are the result.
LEMMA ExecuteQueryInv ==
    ASSUME Inv, NEW result \in Results, NEW n \in BatchSizes,
           NEW closing, NEW answered \in BOOLEAN,
           ExecuteQuery(result, n, closing, answered)
    PROVE  Inv'
<1> DEFINE rest == SubSeq(result, n + 1, Len(result))
           got == SubSeq(result, 1, n)
<1>1. result \in Seq(Rows) /\ n \in Nat /\ 0 < n /\ n < Len(result) /\ Len(result) \in Nat
  BY ResultsAssumption, BatchSizesAssumption DEF ExecuteQuery
<1>2. rest \in Seq(Rows) /\ got \in Seq(Rows)
  <2>1. \A s \in Seq(Rows) : \A m \in Nat \ {0}, k \in Nat :
          k <= Len(s) => SubSeq(s, m, k) \in Seq(Rows)
    BY PartOfRows
  <2> QED
    BY <1>1, <2>1
<1>3. got \o rest = result
  <2>1. got \o rest = SubSeq(result, 1, Len(result))
    <3>1. 1 \in 1 .. Len(result) + 1 /\ n \in 1 - 1 .. Len(result) /\ Len(result) \in n .. Len(result)
      BY <1>1
    <3> QED
      BY <1>1, <3>1, ConcatAdjacentSubSeq
  <2> QED
    BY <1>1, <2>1, WholeIsItself
<1>4. <<rest>> \in Seq(Seq(Rows)) /\ Len(<<rest>>) = 1 /\ <<rest>>[1] = rest /\ <<rest>> # <<>>
  BY <1>2
<1>5. nextRefId \in Nat \ {0}
  BY DEF Inv, TypeOK
<1>6. /\ cursors' = Opened("query", <<rest>>, closing)
      /\ nextRefId' = nextRefId + 1
      /\ view' = Told(nextRefId, result, got) \/ UNCHANGED view
  BY DEF ExecuteQuery
<1> HIDE DEF rest, got
<1>7. /\ nextRefId' = nextRefId + Len(<<rest>>)
      /\ nextRefId = nextRefId + Len(<<rest>>) - 1
      /\ got \o <<rest>>[Len(<<rest>>)] = result
  BY <1>3, <1>4, <1>5, <1>6
<1> QED
  BY <1>1, <1>2, <1>4, <1>6, <1>7, OpenedInv

\* A block: the client starts with nothing of the last cursor's result.
LEMMA ExecuteBlockInv ==
    ASSUME Inv, NEW results \in BlockResults, NEW closing, NEW answered \in BOOLEAN,
           ExecuteBlock(results, closing, answered)
    PROVE  Inv'
<1> PICK k \in 1 .. MaxBinds : results \in [1 .. k -> Results]
  BY DEF BlockResults
<1>1. results \in Seq(Seq(Rows)) /\ Len(results) = k /\ k \in Nat \ {0}
  BY ResultsAssumption, BoundsAssumption
<1>2. results # <<>> /\ results[k] \in Seq(Rows)
  BY <1>1
<1>3. <<>> \in Seq(Rows) /\ <<>> \o results[k] = results[k]
  BY <1>2, ConcatEmptySeq
<1>4. nextRefId \in Nat \ {0}
  BY DEF Inv, TypeOK
<1>5. /\ cursors' = Opened("block", results, closing)
      /\ nextRefId' = nextRefId + k
      /\ \/ view' = Told(nextRefId + k - 1, results[k], <<>>)
         \/ UNCHANGED view
  BY <1>1, <1>4 DEF ExecuteBlock
<1> QED
  BY <1>1, <1>2, <1>3, <1>5, OpenedInv

\* FETCH and execute-without-text: the batch moves from the entry to the client, or
\* is lost and the cursor torn; the other cursors are not touched.
LEMMA DeliverInv ==
    ASSUME Inv, NEW id, NEW n \in Nat, NEW closing, NEW answered \in BOOLEAN,
           Deliver(id, n, closing, answered)
    PROVE  Inv'
<1> DEFINE e == cursors[id]
           batch == Batch(id, n)
           pos == e.pos + Len(batch)
           done == pos >= Len(e.rows)
<1>1. /\ id \in DOMAIN view /\ id \in DOMAIN cursors /\ id \notin closing
      /\ cursors' = [Kept(closing) EXCEPT ![id].pos = pos]
      /\ \/ view' = [view EXCEPT ![id].got = @ \o batch, ![id].eof = @ \/ done]
         \/ view' = [view EXCEPT ![id].torn = TRUE]
      /\ nextRefId' = nextRefId
  BY DEF Deliver
<1>2. /\ nextRefId \in Nat \ {0}
      /\ DOMAIN cursors \subseteq 1 .. nextRefId - 1
      /\ DOMAIN view \subseteq 1 .. nextRefId - 1
      /\ cursors \in [DOMAIN cursors -> Entry]
      /\ view \in [DOMAIN view -> View]
  BY DEF Inv, TypeOK
<1>3. e \in Entry /\ e.rows \in Seq(Rows) /\ e.pos \in Nat /\ e.pos <= Len(e.rows)
  BY <1>1, <1>2 DEF Inv, PosInRange, Entry
<1>4. batch = SubSeq(e.rows, e.pos + 1, Smaller(e.pos + n, Len(e.rows)))
  BY DEF Batch
<1>5. /\ batch \in Seq(Rows)
      /\ pos = Smaller(e.pos + n, Len(e.rows))
      /\ batch \o SubSeq(e.rows, pos + 1, Len(e.rows)) = SubSeq(e.rows, e.pos + 1, Len(e.rows))
  <2> HIDE DEF batch, e
  <2>1. \A s \in Seq(Rows) : \A p \in Nat : p <= Len(s) =>
          LET b == SubSeq(s, p + 1, Smaller(p + n, Len(s)))
          IN /\ b \in Seq(Rows)
             /\ p + Len(b) = Smaller(p + n, Len(s))
             /\ b \o SubSeq(s, p + Len(b) + 1, Len(s)) = SubSeq(s, p + 1, Len(s))
    BY BatchSplits
  <2> QED
    BY <1>3, <1>4, <2>1
<1>6. pos \in Nat /\ pos <= Len(e.rows)
  <2>1. Len(e.rows) \in Nat
    BY <1>3
  <2>2. pos = Smaller(e.pos + n, Len(e.rows))
    BY <1>5
  <2>3. e.pos \in Nat /\ e.pos <= Len(e.rows)
    BY <1>3
  <2> HIDE DEF e, batch, pos
  <2> QED
    BY <2>1, <2>2, <2>3 DEF Smaller
<1>7. /\ DOMAIN cursors' = DOMAIN cursors \ closing
      /\ cursors' = [i \in DOMAIN cursors' |-> cursors'[i]]
      /\ cursors'[id] = [e EXCEPT !.pos = pos]
      /\ \A i \in DOMAIN cursors' : i # id => cursors'[i] = cursors[i]
  BY <1>1 DEF Kept
<1>8. cursors'[id] \in Entry /\ cursors'[id].rows = e.rows /\ cursors'[id].pos = pos
  BY <1>3, <1>6, <1>7 DEF Entry
<1>9. /\ DOMAIN view' = DOMAIN view
      /\ view' = [i \in DOMAIN view' |-> view'[i]]
      /\ \A i \in DOMAIN view : i # id => view'[i] = view[i]
  BY <1>1, <1>2
<1>10. view[id] \in View
  BY <1>1, <1>2
<1>11. /\ view'[id] \in View
       /\ view'[id].result = view[id].result
       /\ ~view'[id].torn =>
            /\ ~view[id].torn
            /\ view'[id].got = view[id].got \o batch
       /\ view'[id].eof => view[id].eof \/ done
  <2>1. CASE view' = [view EXCEPT ![id].got = @ \o batch, ![id].eof = @ \/ done]
    <3>1. view'[id] = [view[id] EXCEPT !.got = @ \o batch, !.eof = @ \/ done]
      BY <1>1, <1>2, <2>1
    <3>2. view[id].got \o batch \in Seq(Rows)
      BY <1>5, <1>10, ConcatProperties DEF View
    <3> HIDE DEF batch, done
    <3> QED
      BY <3>1, <3>2, <1>10 DEF View
  <2>2. CASE view' = [view EXCEPT ![id].torn = TRUE]
    <3>1. view'[id] = [view[id] EXCEPT !.torn = TRUE]
      BY <1>1, <1>2, <2>2
    <3> QED
      BY <3>1, <1>10 DEF View
  <2> QED
    BY <1>1, <2>1, <2>2
<1>12. view[id].eof => e.pos = Len(e.rows)
  BY <1>1 DEF Inv, NothingAfterEof
<1> HIDE DEF e, batch, pos
<1>13. view'[id].eof => pos = Len(e.rows)
  <2>1. Len(e.rows) \in Nat
    BY <1>3
  <2>2. CASE view[id].eof
    BY <2>1, <2>2, <1>3, <1>5, <1>6, <1>12 DEF Smaller
  <2>3. CASE done
    BY <2>1, <2>3, <1>6
  <2> QED
    BY <1>11, <2>2, <2>3
<1>14. ~view'[id].torn =>
         view'[id].got \o SubSeq(e.rows, pos + 1, Len(e.rows)) = view'[id].result
  <2> SUFFICES ASSUME ~view'[id].torn
               PROVE  view'[id].got \o SubSeq(e.rows, pos + 1, Len(e.rows)) = view'[id].result
    OBVIOUS
  <2>1. view[id].got \o SubSeq(e.rows, e.pos + 1, Len(e.rows)) = view[id].result
    BY <1>1, <1>11 DEF Inv, RowsAccounted, e
  <2>2. view[id].got \in Seq(Rows) /\ SubSeq(e.rows, pos + 1, Len(e.rows)) \in Seq(Rows)
    <3>1. pos + 1 \in Nat \ {0} /\ Len(e.rows) \in Nat
      BY <1>3, <1>6
    <3>2. SubSeq(e.rows, pos + 1, Len(e.rows)) \in Seq(Rows)
      BY <1>3, <3>1, PartOfRows
    <3> QED
      BY <1>10, <3>2 DEF View
  <2>3. (view[id].got \o batch) \o SubSeq(e.rows, pos + 1, Len(e.rows))
          = view[id].got \o (batch \o SubSeq(e.rows, pos + 1, Len(e.rows)))
    <3> DEFINE tail == SubSeq(e.rows, pos + 1, Len(e.rows))
               got == view[id].got
    <3>1. got \in Seq(Rows) /\ batch \in Seq(Rows) /\ tail \in Seq(Rows)
      BY <2>2, <1>5
    <3> HIDE DEF tail, got
    <3>2. (got \o batch) \o tail = got \o (batch \o tail)
      BY <3>1, ConcatAssociative
    <3> QED
      BY <3>2 DEF tail, got
  <2> QED
    BY <2>1, <2>3, <1>5, <1>11
<1>15. TypeOK'
  <2>1. cursors' \in [DOMAIN cursors' -> Entry]
    BY <1>2, <1>7, <1>8
  <2>2. view' \in [DOMAIN view' -> View]
    BY <1>2, <1>9, <1>11
  <2> QED
    BY <1>1, <1>2, <1>7, <1>9, <2>1, <2>2 DEF TypeOK
<1>16. PosInRange'
  BY <1>6, <1>7, <1>8 DEF Inv, PosInRange
<1>17. RowsAccounted'
  BY <1>7, <1>8, <1>9, <1>14 DEF Inv, RowsAccounted
<1>18. NothingAfterEof'
  BY <1>7, <1>8, <1>9, <1>13 DEF Inv, NothingAfterEof
<1>19. EofMeansAll'
  <2>1. view'[id].eof /\ ~view'[id].torn => view'[id].got = view'[id].result
    <3> SUFFICES ASSUME view'[id].eof, ~view'[id].torn
                 PROVE  view'[id].got = view'[id].result
      OBVIOUS
    <3>1. view'[id].got \in Seq(Rows)
      BY <1>11 DEF View
    <3>2. view'[id].got \o SubSeq(e.rows, Len(e.rows) + 1, Len(e.rows)) = view'[id].got
      BY <1>3, <3>1, NothingLeft
    <3> QED
      BY <3>2, <1>13, <1>14
  <2> QED
    BY <2>1, <1>9 DEF Inv, EofMeansAll
<1> QED
  BY <1>15, <1>16, <1>17, <1>18, <1>19 DEF Inv

-----------------------------------------------------------------------------
LEMMA StepInv == Inv /\ [Next]_vars => Inv'
<1> SUFFICES ASSUME Inv, [Next]_vars
             PROVE  Inv'
  OBVIOUS
<1>1. CASE UNCHANGED vars
  BY <1>1 DEF vars, Inv, TypeOK, PosInRange, RowsAccounted, NothingAfterEof, EofMeansAll
<1>2. ASSUME NEW closing, OtherCall(closing)
      PROVE  Inv'
  BY <1>2, OtherCallInv
<1>3. ASSUME NEW closing, NEW answered \in BOOLEAN, NEW result \in Results, NEW n \in BatchSizes,
             ExecuteQuery(result, n, closing, answered)
      PROVE  Inv'
  BY <1>3, ExecuteQueryInv
<1>4. ASSUME NEW closing, NEW answered \in BOOLEAN, NEW results \in BlockResults,
             ExecuteBlock(results, closing, answered)
      PROVE  Inv'
  BY <1>4, ExecuteBlockInv
<1>5. ASSUME NEW closing, NEW answered \in BOOLEAN, NEW id, NEW n \in BatchSizes,
             Fetch(id, n, closing, answered)
      PROVE  Inv'
  <2>1. n \in Nat
    BY BatchSizesAssumption
  <2> QED
    BY <1>5, <2>1, DeliverInv DEF Fetch
<1>6. ASSUME NEW closing, NEW answered \in BOOLEAN, NEW id, NEW n \in BatchSizes,
             Serve(id, n, closing, answered)
      PROVE  Inv'
  <2>1. cursors[id].rows \in Seq(Rows)
    BY <1>6 DEF Serve, Inv, TypeOK, Entry
  <2>2. n \in Nat /\ Len(cursors[id].rows) \in Nat
    BY <2>1, BatchSizesAssumption
  <2> DEFINE m == IF n = 0 THEN Len(cursors[id].rows) ELSE n
  <2>3. m \in Nat
    BY <2>2
  <2>4. Deliver(id, m, closing, answered)
    BY <1>6 DEF Serve
  <2> HIDE DEF m
  <2> QED
    BY <2>3, <2>4, DeliverInv
<1> QED
  BY <1>1, <1>2, <1>3, <1>4, <1>5, <1>6 DEF Next

\* The invariant the other theorems are read off from.
THEOREM Invariance == Spec => []Inv
  BY InitInv, StepInv, PTL DEF Spec

\* The variables keep their types.
THEOREM TypeCorrect == Spec => []TypeOK
<1>1. Inv => TypeOK
  BY DEF Inv
<1> QED
  BY <1>1, Invariance, PTL

\* Delivered and buffered rows always make up the result, in order.
THEOREM NoRowLostOrRepeated == Spec => []RowsAccounted
<1>1. Inv => RowsAccounted
  BY DEF Inv
<1> QED
  BY <1>1, Invariance, PTL

\* ORA-01403 tells the truth.
THEOREM EofIsTrue == Spec => []EofMeansAll
<1>1. Inv => EofMeansAll
  BY DEF Inv
<1> QED
  BY <1>1, Invariance, PTL

\* A closed cursor's id never comes back.
THEOREM IdsAreNotReused == Spec => ClosedStaysClosed
<1> DEFINE Stays == \A id \in DOMAIN view :
                      id \notin DOMAIN cursors => id \notin DOMAIN cursors'
<1>1. Inv /\ [Next]_vars => [Stays]_vars
  <2> SUFFICES ASSUME Inv, Next
               PROVE  Stays
    OBVIOUS
  <2>1. nextRefId \in Nat \ {0} /\ DOMAIN view \subseteq 1 .. nextRefId - 1
    BY DEF Inv, TypeOK
  <2> SUFFICES ASSUME NEW id \in DOMAIN view, id \in DOMAIN cursors'
               PROVE  id \in DOMAIN cursors
    OBVIOUS
  <2>2. ASSUME NEW closing, OtherCall(closing)
        PROVE  id \in DOMAIN cursors
    BY <2>2 DEF OtherCall, Kept
  <2>3. ASSUME NEW origin, NEW results, NEW closing,
               cursors' = Opened(origin, results, closing)
        PROVE  id \in DOMAIN cursors
    BY <2>1, <2>3 DEF Opened
  <2>4. ASSUME NEW i, NEW n, NEW closing, NEW answered, Deliver(i, n, closing, answered)
        PROVE  id \in DOMAIN cursors
    BY <2>4 DEF Deliver, Kept
  <2> QED
    BY <2>2, <2>3, <2>4 DEF Next, ExecuteQuery, ExecuteBlock, Fetch, Serve
<1> QED
  BY <1>1, Invariance, PTL DEF Spec, ClosedStaysClosed

=============================================================================
