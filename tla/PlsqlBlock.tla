----------------------------- MODULE PlsqlBlock -----------------------------
(***************************************************************************)
(* One anonymous PL/SQL block, from its parse (PlsqlBlock, translate.py)   *)
(* to its answer (Session._execute_plsql, ttc.py).  The bridge takes the   *)
(* block apart and runs its statements one by one with PgSession.run, in   *)
(* an order of its own; to the client, and to module Session, it is one    *)
(* call.                                                                   *)
(*                                                                         *)
(* A statement is known by its place in the body.  Every run makes one     *)
(* change, named by the statement's place: n+1 is the SELECT of a body of  *)
(* n statements, n+2 that of its handler; 0 is earlier work.               *)
(***************************************************************************)
EXTENDS Integers, Sequences

CONSTANTS
    Blocks,              \* the blocks a client may send
    MaxBody              \* bound: statements of a body

\* "open": a call whose text has a CURSOR bind; "raise": raise_application_error with
\* a literal message; "unsupported": DECLARE, IF, FOR, SELECT, ...
Kinds == {"call", "open", "assign", "raise", "unsupported"}
Clauses == {"none", "others", "named"}                 \* EXCEPTION, and what it names

ASSUME BlocksAssumption ==
    Blocks \subseteq [body : Seq(Kinds), clause : Clauses, handler : Seq(Kinds)]
ASSUME MaxBodyAssumption == MaxBody \in Nat /\ \A b \in Blocks : Len(b.body) <= MaxBody

VARIABLES
    block,               \* the block
    earlier,             \* work of the transaction before it
    stage,               \* where _execute_plsql is; "broken" with psycopg's
                         \* OperationalError on its way up
    pc,                  \* the next statement to look at
    caught,              \* in or after the except branch of WHEN OTHERS
    pg,                  \* "open", "dead" when nobody knows yet, "lost"
    work,                \* changes in PostgreSQL's transaction
    made,                \* changes this block's runs have made
    undone,              \* changes rolled back by PgSession.run
    ran,                 \* the runs, in order
    opened,              \* the statements whose results were buffered, in order
    shown,               \* the one the CURSOR binds will show (ref_id), or 0
    reply                \* the answer, or "none"

vars == <<block, earlier, stage, pc, caught, pg, work, made, undone, ran, opened, shown, reply>>

Body == DOMAIN block.body
Of(kind) == {i \in Body : block.body[i] = kind}
Select == Len(block.body) + 1
Handler == Len(block.body) + 2

Init ==
    /\ block \in Blocks
    /\ earlier \in {{}, {0}} /\ work = earlier
    /\ stage = "parse" /\ pc = 1 /\ caught = FALSE
    /\ pg = "open"
    /\ made = {} /\ undone = {} /\ ran = <<>> /\ opened = <<>> /\ shown = 0
    /\ reply = "none"

-----------------------------------------------------------------------------
(* PlsqlBlock                                                              *)

Has(part, kind) == \E i \in DOMAIN part : part[i] = kind

\* _parse: no DECLARE section, a body, nothing it does not know, WHEN OTHERS only.
Supported ==
    /\ block.body # <<>> /\ ~Has(block.body, "unsupported")
    /\ block.clause = "none" \/ (block.clause = "others" /\ ~Has(block.handler, "unsupported"))

\* The first statement of a kind not looked at yet.
Waiting(kind) == {i \in Of(kind) : i >= pc}
First(kind) == CHOOSE i \in Waiting(kind) : \A j \in Waiting(kind) : i <= j

-----------------------------------------------------------------------------
(* PgSession.run and the ways out of _execute_plsql                        *)

Answer(r) == stage' = "answered" /\ reply' = r

RunOk(i) ==
    /\ pg = "open"
    /\ ran' = Append(ran, i)
    /\ work' = work \cup {i} /\ made' = made \cup {i}
    /\ UNCHANGED <<pg, undone>>

\* A failed run rolls back its own statement (a mistake, as those below are).
RunFailsAlone(i) ==
    /\ pg = "open"
    /\ ran' = Append(ran, i)
    /\ UNCHANGED <<pg, work, made, undone>>

\* A psycopg.Error: the whole transaction is rolled back.
RunFails(i) ==
    /\ pg = "open"
    /\ ran' = Append(ran, i)
    /\ work' = {} /\ undone' = undone \cup work
    /\ UNCHANGED <<pg, made>>

\* The connection is dead, so that the rollback raises, too; what the block made is gone.
RunBreaks(i) ==
    /\ pg = "dead" /\ pg' = "lost"
    /\ ran' = Append(ran, i)
    /\ work' = {} /\ undone' = undone \cup work /\ made' = {}
    /\ stage' = "broken" /\ caught' = FALSE
    /\ UNCHANGED <<pc, opened, shown, reply>>

\* The handler goes on behind the statement that failed.
CatchAndGoOn ==
    \/ /\ block.clause = "others"
       /\ stage' = "calls" /\ caught' = TRUE
       /\ UNCHANGED reply
    \/ /\ block.clause # "others"
       /\ Answer("error")
       /\ UNCHANGED caught

\* `except OrabridgeError', around the calls and the assignments only.
Catch ==
    \/ /\ block.clause = "others"
       /\ stage' = "handler" /\ caught' = TRUE
       /\ UNCHANGED reply
    \/ /\ block.clause # "others"
       /\ Answer("error")
       /\ UNCHANGED caught

\* A TranslationError is no OrabridgeError: ORA-03113, and nothing is rolled back.
NotTranslated ==
    /\ Answer("gone")
    /\ UNCHANGED <<pc, caught, pg, work, made, undone, ran, opened, shown>>

-----------------------------------------------------------------------------
(* Plausible mistakes in the operations below, one per property.           *)

\* The statements that opened a cursor are not left out of the calls.
CallAlsoOpens ==
    /\ stage = "calls"
    /\ Waiting("call") \cup Waiting("open") # {}
    /\ LET i == IF Waiting("call") = {} THEN First("open") ELSE First("call")
       IN  \/ RunOk(i) /\ pc' = i + 1 /\ UNCHANGED <<stage, caught, opened, shown, reply>>
           \/ RunFails(i) /\ Catch /\ UNCHANGED <<pc, opened, shown>>
           \/ RunBreaks(i)
    /\ UNCHANGED <<block, earlier>>

\* The assignments are selected before the calls that are left.
AssignEarly ==
    /\ stage = "calls" /\ pc > 1
    /\ Of("assign") # {} /\ ~\E k \in DOMAIN ran : ran[k] = Select
    /\ \/ RunOk(Select) /\ UNCHANGED <<stage, caught, pc, opened, shown, reply>>
       \/ RunFails(Select) /\ Catch /\ UNCHANGED <<pc, opened, shown>>
       \/ RunBreaks(Select)
    /\ UNCHANGED <<block, earlier>>

\* The binds keep showing the first cursor.
OpenKeepsFirst ==
    /\ stage = "cursors" /\ Waiting("open") # {}
    /\ LET i == First("open")
       IN  \/ /\ RunOk(i)
              /\ opened' = Append(opened, i) /\ pc' = i + 1
              /\ shown' = IF shown = 0 THEN i ELSE shown
              /\ UNCHANGED <<stage, caught, reply>>
           \/ RunFails(i) /\ Answer("error") /\ UNCHANGED <<pc, caught, opened, shown>>
           \/ RunBreaks(i)
           \/ NotTranslated
    /\ UNCHANGED <<block, earlier>>

-----------------------------------------------------------------------------
(* _execute_plsql                                                          *)

\* ORA-06550 for what is not supported; a raise_application_error anywhere in the body
\* ends the block before anything ran.
Parse ==
    /\ stage = "parse"
    /\ IF Supported /\ Of("raise") = {} THEN stage' = "cursors" /\ UNCHANGED reply
       ELSE Answer("error")
    /\ UNCHANGED <<block, earlier, pc, caught, pg, work, made, undone, ran, opened, shown>>

\* The statements with a CURSOR bind come first, outside of the try.
OpenCursor ==
    /\ stage = "cursors" /\ Waiting("open") # {}
    /\ LET i == First("open")
       IN  \/ /\ RunOk(i)
              /\ opened' = Append(opened, i) /\ shown' = i /\ pc' = i + 1
              /\ UNCHANGED <<stage, caught, reply>>
           \/ RunFails(i) /\ Answer("error") /\ UNCHANGED <<pc, caught, opened, shown>>
           \/ RunBreaks(i)
           \/ NotTranslated
    /\ UNCHANGED <<block, earlier>>

\* block.translate(): all statements and all assignments at once.
Translate ==
    /\ stage = "cursors" /\ Waiting("open") = {}
    /\ \/ /\ stage' = "calls" /\ pc' = 1
          /\ UNCHANGED <<caught, pg, work, made, undone, ran, opened, shown, reply>>
       \/ NotTranslated
    /\ UNCHANGED <<block, earlier>>

\* _run_body: the calls that opened no cursor ...
Call ==
    /\ stage = "calls" /\ Waiting("call") # {}
    /\ LET i == First("call")
       IN  \/ RunOk(i) /\ pc' = i + 1 /\ UNCHANGED <<stage, caught, opened, shown, reply>>
           \/ RunFails(i) /\ Catch /\ UNCHANGED <<pc, opened, shown>>
           \/ RunBreaks(i)
    /\ UNCHANGED <<block, earlier>>

\* ... then all assignments in one SELECT, if there are any.
Assign ==
    /\ stage = "calls" /\ Waiting("call") = {}
    /\ IF Of("assign") # {}
       THEN \/ RunOk(Select) /\ stage' = "answer"
               /\ UNCHANGED <<pc, caught, opened, shown, reply>>
            \/ RunFails(Select) /\ Catch /\ UNCHANGED <<pc, opened, shown>>
            \/ RunBreaks(Select)
       ELSE stage' = "answer"
            /\ UNCHANGED <<pc, caught, pg, work, made, undone, ran, opened, shown, reply>>
    /\ UNCHANGED <<block, earlier>>

\* The handler's assignments in one SELECT; its other statements are never looked at.
Handle ==
    /\ stage = "handler"
    /\ IF Has(block.handler, "assign")
       THEN \/ RunOk(Handler) /\ stage' = "answer"
               /\ UNCHANGED <<pc, caught, opened, shown, reply>>
            \/ RunFails(Handler) /\ Answer("error") /\ caught' = FALSE
               /\ UNCHANGED <<pc, opened, shown>>
            \/ RunBreaks(Handler)
            \/ NotTranslated
       ELSE stage' = "answer"
            /\ UNCHANGED <<pc, caught, pg, work, made, undone, ran, opened, shown, reply>>
    /\ UNCHANGED <<block, earlier>>

\* The answer is built; a value or a cursor in it may be one that cannot be encoded.
BuildAnswer ==
    /\ stage = "answer"
    /\ \/ Answer("ok")
       \/ made # {} /\ Answer("gone")
    /\ UNCHANGED <<block, earlier, pc, caught, pg, work, made, undone, ran, opened, shown>>

\* _dispatch turns what is no OrabridgeError into ORA-03113.
Break ==
    /\ stage = "broken"
    /\ Answer("gone")
    /\ UNCHANGED <<block, earlier, pc, caught, pg, work, made, undone, ran, opened, shown>>

\* The answer is on its way, and a loss of the backend is the next call's business.
Send ==
    /\ stage = "answered"
    /\ stage' = "sent"
    /\ pg' = IF pg = "dead" THEN "lost" ELSE pg
    /\ UNCHANGED <<block, earlier, pc, caught, work, made, undone, ran, opened, shown, reply>>

BackendDies ==
    /\ pg = "open" /\ stage # "sent"
    /\ pg' = "dead"
    /\ UNCHANGED <<block, earlier, stage, pc, caught, work, made, undone, ran, opened, shown,
                   reply>>

Next ==
    \/ Parse \/ OpenCursor \/ Translate \/ Call \/ Assign \/ Handle
    \/ BuildAnswer \/ Break \/ Send \/ BackendDies

Spec == Init /\ [][Next]_vars

-----------------------------------------------------------------------------
Stages == {"parse", "cursors", "calls", "handler", "answer", "answered", "sent", "broken"}
Over == stage \in {"answered", "sent"}
Lost == pg = "lost"
Changes == 0 .. Handler

TypeOK ==
    /\ block \in Blocks
    /\ earlier \subseteq {0}
    /\ stage \in Stages
    /\ pc \in 1 .. Select
    /\ caught \in BOOLEAN
    /\ caught => stage \in {"handler", "answer", "answered", "sent"}
    /\ pg \in {"open", "dead", "lost"}
    /\ work \subseteq Changes /\ made \subseteq Changes /\ undone \subseteq Changes
    /\ work \cap undone = {}
    /\ ran \in Seq(1 .. Handler)
    /\ opened \in Seq(Of("open")) /\ shown \in Of("open") \cup {0}
    /\ reply \in {"none", "ok", "error", "gone"} /\ (reply # "none" <=> Over)

Ran(i) == \E k \in DOMAIN ran : ran[k] = i

\* What is left of the block in the transaction, and what a block does as a whole.
Own == work \ earlier
Whole == Of("call") \cup Of("open") \cup (IF Of("assign") = {} THEN {} ELSE {Select})
OfHandler == IF Has(block.handler, "assign") THEN {Handler} ELSE {}

\* What a block leaves in PostgreSQL's transaction, where a later COMMIT finds it
\* (_execute_plsql, PgSession.run): "ok" stands for all of it behind the earlier work, or
\* for the handler alone; an error for nothing of it.  ORA-03113 leaves all or nothing, too,
\* but for one case: when the rest cannot be translated (ttc.py:573) after CURSOR calls
\* ran (ttc.py:565), those stay, and nothing else ran.  A block whose statement found the
\* backend dead is answered ORA-03113 and has left nothing.
OnlyKnownRemnants ==
    /\ Over /\ pg = "open" =>
         /\ reply # "error" /\ ~caught => earlier \subseteq work
         /\ reply = "ok" => Own = IF caught THEN OfHandler ELSE Whole
         /\ reply = "error" => Own = {}
         /\ reply = "gone" /\ caught => Own \subseteq OfHandler
         /\ reply = "gone" /\ ~caught =>
              \/ Own = Whole
              \/ Own \subseteq Of("open") /\ \A k \in DOMAIN ran : ran[k] \in Of("open")
    /\ stage = "answered" /\ Lost => reply = "gone" /\ work = {}

\* No statement is run twice, however a block ends: neither one that opened a cursor
\* again as a call (cursor_call_idx), nor one that failed; and once the handler is
\* reached nothing of the body is.
RunsOnce ==
    /\ \A k, l \in DOMAIN ran : ran[k] = ran[l] => k = l
    /\ \A k \in DOMAIN ran : ran[k] = Handler => k = Len(ran)

\* Two statements only run out of the block's order when the later one opens a cursor
\* and the earlier one does not, or the later one is a call and the earlier one an
\* assignment (ttc.py:556-589); the SELECT is all assignments at once.
OnlyKnownReorderings ==
    \A i, j \in Body :
      LET Reached(s) == IF block.body[s] = "assign" THEN Ran(Select) ELSE Ran(s)
      IN  i < j /\ Reached(j) /\ ~Reached(i) =>
            \/ block.body[j] = "open" /\ block.body[i] # "open"
            \/ block.body[j] = "call" /\ block.body[i] = "assign"

\* "raise_application_error(-20001, ..); EXCEPTION WHEN OTHERS THEN :out := SQLCODE"
\* answers -20001 (testcases.py:350-352): an error of the body reaches its handler.
HandlerCatches ==
    Over /\ reply = "error" /\ Supported /\ Has(block.handler, "assign") => Ran(Handler)

-----------------------------------------------------------------------------
(* The block as one call of the session.  A backend that died is lost to   *)
(* the session when somebody notices.                                      *)

Backend == IF Lost THEN "lost" ELSE "open"
InTransaction == IF Lost THEN {} ELSE IF Over THEN work ELSE earlier
Acknowledged == CASE reply = "ok" -> earlier \cup made
                  [] reply = "gone" -> {}
                  [] OTHER -> earlier
InDoubt == IF reply = "gone" THEN earlier \cup made ELSE {}
Undone == IF caught THEN undone ELSE undone \cap earlier
Voided == IF Over /\ reply # "gone" THEN Undone ELSE {}
Discarded == (IF Over \/ Lost THEN Undone ELSE {}) \cup (IF Lost THEN work ELSE {})

NoCursors == [id \in {} |-> {}]
Entry(i) == [origin |-> "block", rows |-> <<i>>, pos |-> 0]
Seen(i) == [result |-> <<i>>, got |-> <<>>, eof |-> FALSE, torn |-> FALSE]
Buffered == IF Over THEN [id \in DOMAIN opened |-> Entry(opened[id])] ELSE NoCursors
NextRefId == IF Over THEN Len(opened) + 1 ELSE 1
Shown == IF reply = "ok" /\ opened # <<>> THEN [id \in {Len(opened)} |-> Seen(shown)]
         ELSE NoCursors

S == INSTANCE Session WITH
    Writes     <- 0 .. MaxBody + 2,
    Faults     <- {"failedStatement", "swallowedError"},
    Rows       <- 1 .. MaxBody,
    Results    <- {<<i>> : i \in 1 .. MaxBody},
    BatchSizes <- {},
    MaxBinds   <- MaxBody,
    MaxId      <- MaxBody,
    IdLimit    <- MaxBody,
    phase      <- "serving",
    keyed      <- TRUE,
    pg         <- Backend,
    tx         <- InTransaction,
    durable    <- {},
    acked      <- Acknowledged,
    saved      <- {},
    promised   <- {},
    doubted    <- InDoubt,
    voided     <- Voided,
    discarded  <- Discarded,
    cursors    <- Buffered,
    nextRefId  <- NextRefId,
    view       <- Shown

\* However its statements succeed, fail, reach the handler or lose the backend halfway,
\* a block is one call of the session to its client: a step of Session's ExecuteBlock,
\* whose CURSOR binds show the result that was opened last.
BlockIsOneCall == [][S!vars' # S!vars => S!ExecuteBlock({}) \/ S!BackendLost]_vars

=============================================================================
