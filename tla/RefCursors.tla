----------------------------- MODULE RefCursors -----------------------------
(***************************************************************************)
(* The result sets a session buffers for its client: Session.ref_cursors   *)
(* and next_ref_id (ttc.py).  A query whose rows exceed the prefetch count *)
(* leaves its tail here under a new cursor id, a PL/SQL block leaves one   *)
(* entry per statement with a CURSOR bind; FETCH and execute-without-text  *)
(* move an entry's pos; only the CLOSE_CURSORS piggyback, which travels in *)
(* front of any other call, removes one.                                   *)
(*                                                                         *)
(* Every action is one message: the cursors its piggyback closes first,    *)
(* then the call.  view is the client's side, from the answers alone.      *)
(* answered tells whether the call's answer could be built and sent.        *)
(***************************************************************************)
EXTENDS Integers, Sequences

CONSTANTS
    Rows,                \* the rows query results are made of
    Results,             \* the results queries can return
    BatchSizes,          \* row counts a client asks for (num_iters, array_size)
    MaxBinds,            \* bound: CURSOR binds of one block
    MaxId,               \* bound: cursors opened in a session
    IdLimit              \* largest id a ub2 can carry: 65535 in the program

ASSUME ResultsAssumption == Results \subseteq Seq(Rows)
ASSUME BatchSizesAssumption == BatchSizes \subseteq Nat
ASSUME BoundsAssumption == MaxBinds \in Nat /\ MaxId \in Nat /\ IdLimit \in Nat

VARIABLES
    cursors,             \* ref_cursors: id -> [origin, rows, pos]
    nextRefId,           \* next_ref_id
    view                 \* id the client was told of -> [result, got, eof, torn]

vars == <<cursors, nextRefId, view>>

Init ==
    /\ cursors = [id \in {} |-> {}]
    /\ nextRefId = 1
    /\ view = [id \in {} |-> {}]

Smaller(m, n) == IF m <= n THEN m ELSE n

\* CLOSE_CURSORS of the ids in closing; ids that are not open are ignored.
Kept(closing) == [id \in DOMAIN cursors \ closing |-> cursors[id]]

\* Further entries, one per result, under consecutive new ids.
Opened(origin, results, closing) ==
    LET new == nextRefId .. nextRefId + Len(results) - 1
    IN [id \in (DOMAIN cursors \ closing) \cup new |->
          IF id \in new
          THEN [origin |-> origin, rows |-> results[id - nextRefId + 1], pos |-> 0]
          ELSE cursors[id]]

\* The client learns of a cursor for a result of which it already has got.
Told(id, result, got) ==
    [i \in DOMAIN view \cup {id} |->
       IF i = id
       THEN [result |-> result, got |-> got, eof |-> FALSE, torn |-> FALSE]
       ELSE view[i]]

\* The rows an answer of at most n rows takes from an entry.
Batch(id, n) ==
    LET e == cursors[id]
    IN SubSeq(e.rows, e.pos + 1, Smaller(e.pos + n, Len(e.rows)))

-----------------------------------------------------------------------------
(* Plausible mistakes in the operations below, one per property.           *)

\* The batch is moved past before anyone looks whether it was the last.
DeliverNeverDone(id, n, closing, answered) ==
    /\ id \in DOMAIN view
    /\ id \in DOMAIN cursors \ closing
    /\ LET batch == Batch(id, n)
       IN /\ ~answered => batch # <<>>
          /\ cursors' = [Kept(closing) EXCEPT ![id].pos = @ + Len(batch)]
          /\ view' = IF answered
                     THEN [view EXCEPT ![id].got = @ \o batch,
                                       ![id].eof = @ \/ cursors[id].pos > Len(cursors[id].rows)]
                     ELSE [view EXCEPT ![id].torn = TRUE]
    /\ UNCHANGED nextRefId

\* The end is looked for after pos was moved, and pos moved once more.
DeliverEndsEarly(id, n, closing, answered) ==
    /\ id \in DOMAIN view
    /\ id \in DOMAIN cursors \ closing
    /\ LET batch == Batch(id, n)
       IN /\ ~answered => batch # <<>>
          /\ cursors' = [Kept(closing) EXCEPT ![id].pos = @ + Len(batch)]
          /\ view' = IF answered
                     THEN [view EXCEPT ![id].got = @ \o batch,
                                       ![id].eof = @ \/ cursors[id].pos + 2 * Len(batch)
                                                      >= Len(cursors[id].rows)]
                     ELSE [view EXCEPT ![id].torn = TRUE]
    /\ UNCHANGED nextRefId

\* The tail keeps the last row that was delivered.
QueryKeepsRow(result, n, closing, answered) ==
    /\ n > 0 /\ n < Len(result)
    /\ nextRefId <= MaxId
    /\ cursors' = Opened("query", <<SubSeq(result, n, Len(result))>>, closing)
    /\ nextRefId' = nextRefId + 1
    /\ answered => nextRefId <= IdLimit
    /\ view' = IF answered THEN Told(nextRefId, result, SubSeq(result, 1, n)) ELSE view

\* The id is not counted up.
QueryKeepsId(result, n, closing, answered) ==
    /\ n > 0 /\ n < Len(result)
    /\ nextRefId <= MaxId
    /\ cursors' = Opened("query", <<SubSeq(result, n + 1, Len(result))>>, closing)
    /\ answered => nextRefId <= IdLimit
    /\ view' = IF answered THEN Told(nextRefId, result, SubSeq(result, 1, n)) ELSE view
    /\ UNCHANGED nextRefId

\* One id per block, not one per statement with a CURSOR bind.
BlockCountsOnce(results, closing, answered) ==
    LET last == nextRefId + Len(results) - 1
    IN /\ results # <<>>
       /\ last <= MaxId
       /\ cursors' = Opened("block", results, closing)
       /\ nextRefId' = nextRefId + 1
       /\ answered => last <= IdLimit
       /\ view' = IF answered THEN Told(last, results[Len(results)], <<>>) ELSE view

\* The ids start over when no cursor is left.
CloseRestartsIds(closing) ==
    /\ cursors' = Kept(closing)
    /\ nextRefId' = IF DOMAIN cursors \subseteq closing THEN 1 ELSE nextRefId
    /\ UNCHANGED view

-----------------------------------------------------------------------------
(* Calls                                                                   *)

\* Any call that opens and moves no cursor: among them a query answered whole, a
\* FETCH of an unknown id (ORA-01007) and a message that is only a piggyback.
OtherCall(closing) ==
    /\ cursors' = Kept(closing)
    /\ UNCHANGED <<nextRefId, view>>

\* _execute_sql with more than n > 0 rows: n are delivered, the tail is kept.  The
\* answer carries the new id if it fits; otherwise (or if a row cannot be encoded)
\* it is ORA-03113 and the client never learns of the entry.
ExecuteQuery(result, n, closing, answered) ==
    /\ n > 0 /\ n < Len(result)
    /\ nextRefId <= MaxId
    /\ cursors' = Opened("query", <<SubSeq(result, n + 1, Len(result))>>, closing)
    /\ nextRefId' = nextRefId + 1
    /\ answered => nextRefId <= IdLimit
    /\ view' = IF answered THEN Told(nextRefId, result, SubSeq(result, 1, n)) ELSE view

\* _execute_plsql: one entry per statement with a CURSOR bind.  Every CURSOR bind of
\* the answer carries the last id.  When a later statement of the block fails, or
\* the id does not fit, the client is told of none.
ExecuteBlock(results, closing, answered) ==
    LET last == nextRefId + Len(results) - 1
    IN /\ results # <<>>
       /\ last <= MaxId
       /\ cursors' = Opened("block", results, closing)
       /\ nextRefId' = last + 1
       /\ answered => last <= IdLimit
       /\ view' = IF answered THEN Told(last, results[Len(results)], <<>>) ELSE view

\* The handler moves pos, then encodes the batch: an encoding failure is ORA-03113
\* with the rows gone (torn), success delivers them, with ORA-01403 after the last.
Deliver(id, n, closing, answered) ==
    /\ id \in DOMAIN view
    /\ id \in DOMAIN cursors \ closing
    /\ LET batch == Batch(id, n)
           pos == cursors[id].pos + Len(batch)
           done == pos >= Len(cursors[id].rows)
       IN /\ ~answered => batch # <<>>
          /\ cursors' = [Kept(closing) EXCEPT ![id].pos = pos]
          /\ view' = IF answered
                     THEN [view EXCEPT ![id].got = @ \o batch, ![id].eof = @ \/ done]
                     ELSE [view EXCEPT ![id].torn = TRUE]
    /\ UNCHANGED nextRefId

\* _fetch: exactly array_size rows, none if it is 0.
Fetch(id, n, closing, answered) == Deliver(id, n, closing, answered)

\* _serve_cursor_rows: `num_iters or len(rows)'.
Serve(id, n, closing, answered) ==
    /\ id \in DOMAIN cursors
    /\ Deliver(id, IF n = 0 THEN Len(cursors[id].rows) ELSE n, closing, answered)

\* The results a block with CURSOR binds can open.
BlockResults == UNION {[1 .. k -> Results] : k \in 1 .. MaxBinds}

Next ==
    \E closing \in SUBSET DOMAIN view :
      \/ OtherCall(closing)
      \/ \E answered \in BOOLEAN :
           \/ \E result \in Results, n \in BatchSizes :
                ExecuteQuery(result, n, closing, answered)
           \/ \E results \in BlockResults : ExecuteBlock(results, closing, answered)
           \/ \E id \in DOMAIN view, n \in BatchSizes :
                Fetch(id, n, closing, answered) \/ Serve(id, n, closing, answered)

Spec == Init /\ [][Next]_vars

\* A client that goes on fetching what it has neither closed nor read to the end.
Keen(id) == \E n \in BatchSizes \ {0}, answered \in BOOLEAN : Fetch(id, n, {}, answered)
FairSpec == Spec /\ \A id \in 1 .. MaxId : WF_vars(Keen(id))

-----------------------------------------------------------------------------
Entry == [origin : {"query", "block"}, rows : Seq(Rows), pos : Nat]
View == [result : Seq(Rows), got : Seq(Rows), eof : BOOLEAN, torn : BOOLEAN]

TypeOK ==
    /\ nextRefId \in Nat \ {0}
    /\ DOMAIN cursors \subseteq 1 .. nextRefId - 1
    /\ DOMAIN view \subseteq 1 .. nextRefId - 1
    /\ cursors \in [DOMAIN cursors -> Entry]
    /\ view \in [DOMAIN view -> View]

\* What the client has got from a cursor and what the entry still holds make up the
\* query's result, in order, whichever mix of FETCH and execute-without-text (with
\* 0, few or too many rows) read it and whatever was opened and closed in between.
RowsAccounted ==
    \A id \in DOMAIN view \cap DOMAIN cursors :
      ~view[id].torn =>
        view[id].got \o SubSeq(cursors[id].rows, cursors[id].pos + 1, Len(cursors[id].rows))
          = view[id].result

\* ORA-01403 is only sent once the client has every row, and none twice, unless an
\* ORA-03113 tore a batch out of the stream (_fetch moves pos before encoding).
EofMeansAll ==
    \A id \in DOMAIN view : view[id].eof /\ ~view[id].torn => view[id].got = view[id].result

\* The id of a closed cursor is never given to another: a client that still uses it
\* reads ORA-01007 and not a stranger's rows (next_ref_id, _skip_piggyback).
ClosedStaysClosed ==
    [][\A id \in DOMAIN view : id \notin DOMAIN cursors => id \notin DOMAIN cursors']_vars

\* A client that keeps fetching reads every cursor it was told of to its end, unless
\* it closes it first or an ORA-03113 tore it.
Reading(id) ==
    /\ id \in DOMAIN view \cap DOMAIN cursors
    /\ ~view[id].eof /\ ~view[id].torn
EveryResultEnds == \A id \in 1 .. MaxId : Reading(id) ~> ~Reading(id)

=============================================================================
