------------------------------ MODULE Session ------------------------------
(***************************************************************************)
(* One client connection: the loop of ProxyServer.handle_client (server.py)*)
(* around Session.handle_ttc (ttc.py), which drives the transaction        *)
(* (Transactions) and the buffered results (RefCursors) of its session.    *)
(*                                                                         *)
(* An action is one packet.  closing are the cursors a CLOSE_CURSORS       *)
(* piggyback in front of the call closes; they are closed whatever becomes *)
(* of the call.                                                            *)
(***************************************************************************)
EXTENDS Integers, Sequences

CONSTANTS
    Writes, Faults,                                          \* of Transactions
    Rows, Results, BatchSizes, MaxBinds, MaxId, IdLimit      \* of RefCursors

ASSUME SessionConstants ==
    /\ Faults \subseteq {"failedStatement", "swallowedError", "partialRollback"}
    /\ Results \subseteq Seq(Rows)
    /\ BatchSizes \subseteq Nat
    /\ MaxBinds \in Nat /\ MaxId \in Nat /\ IdLimit \in Nat

VARIABLES
    phase,               \* "handshake", "serving" or "ended": where handle_client is
    keyed,               \* AuthState has a session key to offer (encrypted_a_hex)
    pg, tx, durable, reply, acked, saved, promised, doubted, voided, discarded,
    cursors, nextRefId, view

T == INSTANCE Transactions
C == INSTANCE RefCursors

tVars == <<pg, tx, durable, reply, acked, saved, promised, doubted, voided, discarded>>
cVars == <<cursors, nextRefId, view>>
vars == <<phase, keyed, tVars, cVars>>

Init ==
    /\ phase = "handshake"
    /\ keyed = FALSE
    /\ T!Init
    /\ C!Init

-----------------------------------------------------------------------------
(* Plausible mistakes in the operations below, one per property.           *)

\* The loop goes on after a logoff or a failed login.
AnswerAndGoOn == phase' = "serving"

\* handle_client returns without its finally clause.
EndWithoutClose ==
    /\ phase = "serving"
    /\ phase' = "ended"
    /\ UNCHANGED <<keyed, tVars>>

\* The connection is left as a context manager would leave it, that is committed.
EndCommits ==
    /\ phase = "serving"
    /\ phase' = "ended"
    /\ pg' = IF pg = "absent" THEN pg ELSE "closed"
    /\ durable' = durable \cup tx
    /\ tx' = {}
    /\ reply' = "none"
    /\ acked' = {} /\ saved' = {}
    /\ UNCHANGED <<keyed, promised, doubted, voided, discarded>>

\* Phase two does not ask whether phase one took place.
LoginUnkeyed(closing) ==
    /\ T!Rejected \/ T!ConnectOk \/ T!ConnectFails
    /\ C!OtherCall(closing)
    /\ UNCHANGED keyed
    /\ phase' = IF pg' = "closed" THEN "ended" ELSE "serving"

\* A new login starts with no cursors and counts their ids from 1 again.
LoginForgetsCursors(closing) ==
    /\ \/ T!Rejected
       \/ keyed /\ (T!ConnectOk \/ T!ConnectFails)
    /\ cursors' = [id \in {} |-> {}]
    /\ nextRefId' = 1
    /\ UNCHANGED <<view, keyed>>
    /\ phase' = IF pg' = "closed" THEN "ended" ELSE "serving"

-----------------------------------------------------------------------------
(* The connection                                                          *)

\* The first packet has to be a CONNECT; anything else ends the connection.
FirstPacket ==
    /\ phase = "handshake"
    /\ phase' \in {"serving", "ended"}
    /\ UNCHANGED <<keyed, tVars, cVars>>

\* After the answer: `if session.pg is not None and session.pg.conn is None: break'.
Answer == phase' = IF pg' = "closed" THEN "ended" ELSE "serving"

\* The finally clause: the PostgreSQL connection goes with the client's.
End ==
    /\ phase = "serving"
    /\ phase' = "ended"
    /\ T!HangUp
    /\ UNCHANGED keyed

\* The client's stream ends, or writing the answer finds it reset.
Disconnect == End /\ UNCHANGED cVars

\* handle_ttc skips piggybacks and reads the header outside its try: an unknown
\* piggyback code, or a message cut short, ends the session without an answer.
Malformed(closing) ==
    /\ End
    /\ C!OtherCall(closing)

BackendLost ==
    /\ phase = "serving"
    /\ T!BackendLost
    /\ UNCHANGED <<phase, keyed, cVars>>

-----------------------------------------------------------------------------
(* Login                                                                   *)

\* A user and a configured password give the session a key; without, ORA-01017.
AuthPhaseOne(closing) ==
    /\ \/ T!Answered /\ keyed' = TRUE
       \/ T!Rejected /\ ~keyed /\ UNCHANGED keyed
    /\ C!OtherCall(closing)
    /\ Answer

\* Without a key, or with the wrong password, ORA-01017; else a new PgSession.
AuthPhaseTwo(closing) ==
    /\ \/ T!Rejected
       \/ keyed /\ (T!ConnectOk \/ T!ConnectFails)
    /\ C!OtherCall(closing)
    /\ UNCHANGED keyed
    /\ Answer

\* The session is still usable after a LOGOFF only if it never logged in, or if the
\* rollback in front of the close raised on a connection known to be dead.
Logoff(closing) ==
    /\ \/ T!Logoff
       \/ pg = "lost" /\ T!Unanswered({})
    /\ C!OtherCall(closing)
    /\ UNCHANGED keyed
    /\ Answer

-----------------------------------------------------------------------------
(* Calls                                                                   *)

\* _execute_sql and _execute_returning when no rows are left to fetch.
ExecuteStatement(closing) ==
    /\ \/ \E ws \in SUBSET Writes : T!StatementOk(ws) \/ T!Unanswered(ws)
       \/ T!StatementFails
       \/ T!LossNoticed
    /\ C!OtherCall(closing)
    /\ UNCHANGED keyed
    /\ Answer

\* _execute_sql when rows are left: the query may have made changes (a function).
ExecuteQuery(closing) ==
    /\ \E ws \in SUBSET Writes, answered \in BOOLEAN,
          result \in Results, n \in BatchSizes :
         /\ IF answered THEN T!StatementOk(ws) ELSE pg = "open" /\ T!Unanswered(ws)
         /\ C!ExecuteQuery(result, n, closing, answered)
    /\ UNCHANGED keyed
    /\ Answer

\* _execute_plsql.  The statements with a CURSOR bind run first; a block that fails
\* after them, or whose answer fails, leaves their results buffered, also when it was
\* the backend that failed.
ExecuteBlock(closing) ==
    /\ \/ /\ \/ T!Rejected
             \/ T!StatementFails
             \/ T!LossNoticed
             \/ \E ws \in SUBSET Writes : T!StatementOk(ws) \/ T!Unanswered(ws)
             \/ \E cs, hw \in SUBSET Writes, answered \in BOOLEAN :
                  T!BlockHandled(cs, hw, answered)
          /\ C!OtherCall(closing)
       \/ \E results \in C!BlockResults :
            \/ /\ C!ExecuteBlock(results, closing, TRUE)
               /\ \/ \E ws \in SUBSET Writes : T!StatementOk(ws)
                  \/ \E cs, hw \in SUBSET Writes : T!BlockHandled(cs, hw, TRUE)
            \/ /\ C!ExecuteBlock(results, closing, FALSE)
               /\ pg \in {"open", "lost"}
               /\ \/ T!StatementFails
                  \/ \E ws \in SUBSET Writes : T!Unanswered(ws)
                  \/ \E cs, hw \in SUBSET Writes : T!BlockHandled(cs, hw, FALSE)
    /\ UNCHANGED keyed
    /\ Answer

\* COMMIT, ROLLBACK and SAVEPOINT, as calls or as SQL text: on a connection known to be
\* dead all but SAVEPOINT raise, and before the login COMMIT and ROLLBACK as text do.
ExecuteTransaction(closing) ==
    /\ \/ T!CommitOk \/ T!CommitRefused \/ T!CommitLost
       \/ T!RollbackOk \/ T!SavepointOk \/ T!RollbackToOk
       \/ pg \in {"absent", "lost"} /\ T!Unanswered({})
    /\ C!OtherCall(closing)
    /\ UNCHANGED keyed
    /\ Answer

\* _fetch and _serve_cursor_rows touch no connection: they go on after it is lost.
FetchRows(closing) ==
    /\ \E answered \in BOOLEAN, id \in DOMAIN view, n \in BatchSizes :
         /\ IF answered THEN T!Answered ELSE T!Unanswered({})
         /\ C!Fetch(id, n, closing, answered) \/ C!Serve(id, n, closing, answered)
    /\ UNCHANGED keyed
    /\ Answer

\* Answered from the session's own state: PROTOCOL, DATA_TYPES, ping, a message that
\* is only a piggyback; or refused: an unknown function, REEXECUTE, an unknown cursor.
OtherRequest(closing) ==
    /\ T!Answered \/ T!Rejected
    /\ C!OtherCall(closing)
    /\ UNCHANGED keyed
    /\ Answer

HandleTtc(closing) ==
    \/ AuthPhaseOne(closing) \/ AuthPhaseTwo(closing) \/ Logoff(closing)
    \/ ExecuteStatement(closing) \/ ExecuteQuery(closing) \/ ExecuteBlock(closing)
    \/ ExecuteTransaction(closing) \/ FetchRows(closing) \/ OtherRequest(closing)
    \/ Malformed(closing)

Next ==
    \/ FirstPacket
    \/ phase = "serving" /\ \E closing \in SUBSET DOMAIN view : HandleTtc(closing)
    \/ Disconnect
    \/ BackendLost

Spec == Init /\ [][Next]_vars

-----------------------------------------------------------------------------
TypeOK ==
    /\ phase \in {"handshake", "serving", "ended"}
    /\ keyed \in BOOLEAN
    /\ T!TypeOK
    /\ C!TypeOK

\* However the session ended (logoff, failed login, broken message, lost client), its
\* PostgreSQL connection is closed and holds no transaction, locks included.
EndedReleasesBackend == phase = "ended" => pg \in {"absent", "closed"} /\ tx = {}

\* No call reaches a PgSession whose conn is None, where COMMIT would be answered "ok"
\* without doing anything (pg.py:133-135): the loop ends first (server.py:108).
ClosedIsNotServed == phase = "serving" => pg # "closed"

\* There is a PostgreSQL connection, or a transaction, or a buffered result, only in a
\* session that went through both login phases.
LoginComesFirst == pg # "absent" \/ tx # {} \/ DOMAIN cursors # {} => keyed

\* Of the parts, with every fault and every way to end in between (ttc.py, server.py):
\* nothing rolled back is ever committed, and nothing committed ever rolled back.
NoResurrection == T!NoResurrection

\* Promised work is missing only where the bridge rolled back a whole transaction.
OnlyKnownLosses == T!OnlyKnownLosses

\* Nothing becomes durable but what a COMMIT answered "ok" covered or an ORA-03113 left
\* open: not by a broken message or a lost client (server.py:110-121), nor a second login.
NoSurprise == T!NoSurprise

\* A client's rows and the buffered ones make up its results, whatever becomes of the
\* connection behind them: they outlive lost backends and further logins.
RowsAccounted == C!RowsAccounted

=============================================================================
