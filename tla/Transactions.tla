---------------------------- MODULE Transactions ----------------------------
(***************************************************************************)
(* The transaction of one bridge session: PgSession (pg.py) as the TTC     *)
(* handlers of ttc.Session drive it.  A handler is synchronous code run by *)
(* one asyncio task, so each action is one whole handler together with the *)
(* answer it sends; the only steps not taken by a handler are the loss of  *)
(* the PostgreSQL backend and the client's disappearance.                  *)
(*                                                                         *)
(* The first three variables are the program's and PostgreSQL's.  The      *)
(* others are the application's ledger, kept from the answers alone, which *)
(* is what the properties compare with the database.                       *)
(***************************************************************************)

CONSTANTS
    Writes,              \* the changes the application's statements can make
    Faults               \* mishaps that may strike work in progress

(***************************************************************************)
(* Three things the code does to a transaction with work in it that Oracle *)
(* does not.  With Faults = {} they only ever meet an empty transaction.   *)
(***************************************************************************)
FaultKinds == {"failedStatement", "swallowedError", "partialRollback"}

ASSUME FaultsAssumption == Faults \subseteq FaultKinds

VARIABLES
    pg,                  \* Session.pg: "absent" (None), "closed" (its conn is None),
                         \* "open"; or conn is set and its backend dead: "stale" if
                         \* psycopg has not noticed and thinks it idle, else "lost"
    tx,                  \* changes in PostgreSQL's open transaction
    durable,             \* changes PostgreSQL has committed
    reply,               \* the last answer, as its call makes the client read it;
                         \* "none" if there was none; "gone" is ORA-03113
    acked,               \* changes acknowledged and, to the client, pending
    saved,               \* what the last SAVEPOINT is to protect
    promised,            \* changes covered by a COMMIT answered "ok"
    doubted,             \* changes whose fate an ORA-03113 left open
    voided,              \* acknowledged changes the bridge threw away
    discarded            \* changes PostgreSQL rolled back

Replies == {"none", "ok", "error", "gone", "connected", "refused", "bye",
            "committed", "rolledBack", "marked", "undone"}

vars == <<pg, tx, durable, reply, acked, saved, promised, doubted, voided, discarded>>

Init ==
    /\ pg = "absent"
    /\ reply = "none"
    /\ tx = {} /\ durable = {} /\ discarded = {}
    /\ acked = {} /\ saved = {} /\ promised = {} /\ doubted = {} /\ voided = {}

\* A statement makes changes nobody made before.
Fresh == Writes \ (tx \cup durable \cup discarded)

\* PostgreSQL rolls the whole transaction back.
Discard ==
    /\ tx' = {}
    /\ discarded' = discarded \cup tx

\* The client reads ORA-03113 for a call that may have made ws.
Doubt(ws) ==
    /\ reply' = "gone"
    /\ acked' = {}
    /\ doubted' = doubted \cup acked \cup ws

-----------------------------------------------------------------------------
(* Plausible mistakes in the operations below, one per property.           *)

\* The client's end of the connection is closed, PostgreSQL's is not.
HangUpKeepsTransaction ==
    /\ pg' = IF pg = "absent" THEN pg ELSE "closed"
    /\ reply' = "none"
    /\ acked' = {} /\ saved' = {}
    /\ UNCHANGED <<tx, durable, promised, doubted, voided, discarded>>

\* A second login goes on with the connection there is.
LoginKeepsConnection ==
    /\ pg # "closed"
    /\ pg' = "open"
    /\ reply' = "connected"
    /\ acked' = {} /\ saved' = {}
    /\ UNCHANGED <<tx, durable, promised, doubted, voided, discarded>>

\* Every error handler rolls back, "to be safe".
RejectedRollsBack ==
    /\ pg # "closed"
    /\ reply' = "error"
    /\ Discard
    /\ UNCHANGED <<pg, durable, acked, saved, promised, doubted, voided>>

\* An error of COMMIT is logged and not sent.
CommitErrorIgnored ==
    /\ pg = "open"
    /\ Discard
    /\ reply' = "committed"
    /\ promised' = promised \cup acked
    /\ acked' = {} /\ saved' = {}
    /\ UNCHANGED <<pg, durable, doubted, voided>>

\* A lost COMMIT is tried again on a new connection, where there is nothing to commit.
CommitRetried ==
    /\ pg = "open"
    /\ \/ durable' = durable \cup tx /\ tx' = {} /\ UNCHANGED discarded
       \/ Discard /\ UNCHANGED durable
    /\ reply' = "committed"
    /\ promised' = promised \cup acked
    /\ acked' = {} /\ saved' = {}
    /\ UNCHANGED <<pg, doubted, voided>>

\* A lost COMMIT makes the bridge run its statements again, whether it took effect or not.
CommitReplayed ==
    /\ pg = "open"
    /\ durable' \in {durable, durable \cup tx}
    /\ reply' = "error"
    /\ UNCHANGED <<pg, tx, acked, saved, promised, doubted, voided, discarded>>

\* ROLLBACK is acknowledged and not passed on, as SAVEPOINT is.
RollbackNotPassedOn ==
    /\ pg \in {"absent", "open"}
    /\ reply' = "rolledBack"
    /\ acked' = {} /\ saved' = {}
    /\ UNCHANGED <<pg, tx, durable, promised, doubted, voided, discarded>>

-----------------------------------------------------------------------------
(* Opening and closing the PostgreSQL session                              *)

\* _auth_phase_two: a new PgSession replaces Session.pg.  The connection it had,
\* if any, is dropped unclosed, and PostgreSQL rolls its transaction back.
ConnectOk ==
    /\ pg # "closed"
    /\ pg' = "open"
    /\ Discard
    /\ reply' = "connected"
    /\ acked' = {} /\ saved' = {}
    /\ UNCHANGED <<durable, promised, doubted, voided>>

ConnectFails ==
    /\ pg # "closed"
    /\ pg' = "closed"
    /\ Discard
    /\ reply' = "refused"
    /\ acked' = {} /\ saved' = {}
    /\ UNCHANGED <<durable, promised, doubted, voided>>

\* FUNC_LOGOFF rolls back, then closes.
Logoff ==
    /\ pg \in {"absent", "open", "stale"}
    /\ pg' = IF pg = "absent" THEN pg ELSE "closed"
    /\ Discard
    /\ reply' = "bye"
    /\ acked' = {} /\ saved' = {}
    /\ UNCHANGED <<durable, promised, doubted, voided>>

\* handle_client's finally, after the client left or a message could not be handled:
\* no answer, and the connection is closed with whatever it holds.
HangUp ==
    /\ pg' = IF pg = "absent" THEN pg ELSE "closed"
    /\ Discard
    /\ reply' = "none"
    /\ acked' = {} /\ saved' = {}
    /\ UNCHANGED <<durable, promised, doubted, voided>>

\* The backend dies under an open connection; nobody is told.  With tx = {} a
\* transaction may be open all the same: one that has only read.
BackendLost ==
    /\ pg = "open"
    /\ pg' = "lost" \/ (tx = {} /\ pg' = "stale")
    /\ Discard
    /\ UNCHANGED <<durable, reply, acked, saved, promised, doubted, voided>>

\* A statement finds the idle connection dead; so does run()'s rollback after it.
LossNoticed ==
    /\ pg = "stale"
    /\ pg' = "lost"
    /\ Doubt({})
    /\ UNCHANGED <<tx, durable, saved, promised, voided, discarded>>

-----------------------------------------------------------------------------
(* Statements                                                              *)

\* Every PgSession.run of the handler succeeds, making the changes ws.
StatementOk(ws) ==
    /\ pg = "open"
    /\ ws \subseteq Fresh
    /\ tx' = tx \cup ws
    /\ reply' = "ok"
    /\ acked' = acked \cup ws
    /\ UNCHANGED <<pg, durable, saved, promised, doubted, voided, discarded>>

\* PgSession.run gets a psycopg.Error and rolls back the connection, that is
\* every statement since the last COMMIT; the client reads one statement's error.
StatementFails ==
    /\ pg = "open"
    /\ tx \cup acked = {} \/ "failedStatement" \in Faults
    /\ Discard
    /\ reply' = "error"
    /\ voided' = voided \cup acked
    /\ UNCHANGED <<pg, durable, acked, saved, promised, doubted>>

\* A block with WHEN OTHERS: its calls made cs, then one failed and run() rolled
\* everything back.  The handler's SELECT made hw and the block is answered "ok",
\* unless the handler cannot be translated or the answer encoded.
BlockHandled(cs, hw, answered) ==
    /\ pg = "open"
    /\ cs \cup hw \subseteq Fresh /\ cs \cap hw = {}
    /\ tx \cup acked \cup cs = {} \/ "swallowedError" \in Faults
    /\ tx' = hw
    /\ discarded' = discarded \cup tx \cup cs
    /\ \/ /\ answered
          /\ reply' = "ok"
          /\ acked' = acked \cup cs \cup hw
          /\ voided' = voided \cup acked \cup cs
          /\ UNCHANGED doubted
       \/ /\ ~answered
          /\ Doubt(cs \cup hw)
          /\ UNCHANGED voided
    /\ UNCHANGED <<pg, durable, saved, promised>>

\* A call that concerns no transaction: a ping, a FETCH of buffered rows.
Answered ==
    /\ pg # "closed"
    /\ reply' = "ok"
    /\ UNCHANGED <<pg, tx, durable, acked, saved, promised, doubted, voided, discarded>>

\* An OrabridgeError raised before anything reached PostgreSQL.
Rejected ==
    /\ pg # "closed"
    /\ reply' = "error"
    /\ UNCHANGED <<pg, tx, durable, acked, saved, promised, doubted, voided, discarded>>

\* Any other exception, before the statement ran (ws = {}: the translation failed)
\* or after it (the answer could not be encoded): ORA-03113, the transaction stays.
Unanswered(ws) ==
    /\ pg # "closed"
    /\ ws # {} => pg = "open"
    /\ ws \subseteq Fresh
    /\ tx' = tx \cup ws
    /\ Doubt(ws)
    /\ UNCHANGED <<pg, durable, saved, promised, voided, discarded>>

-----------------------------------------------------------------------------
(* COMMIT, ROLLBACK and SAVEPOINT                                          *)

\* COMMIT and ROLLBACK calls test `if self.pg': before the login they succeed, too.
\* On a connection psycopg thinks idle it sends nothing, and they succeed unheard.
CommitOk ==
    /\ pg \in {"absent", "open", "stale"}
    /\ durable' = durable \cup tx
    /\ tx' = {}
    /\ reply' = "committed"
    /\ promised' = promised \cup acked
    /\ acked' = {} /\ saved' = {}
    /\ UNCHANGED <<pg, doubted, voided, discarded>>

\* PostgreSQL refuses the COMMIT (a deferred constraint) and rolls back; the
\* psycopg.Error is not translated here, so the client reads ORA-03113.
CommitRefused ==
    /\ pg = "open"
    /\ Discard
    /\ Doubt({})
    /\ saved' = {}
    /\ UNCHANGED <<pg, durable, promised, voided>>

\* The backend dies during the COMMIT, before or after it took effect.
CommitLost ==
    /\ pg = "open"
    /\ pg' = "lost"
    /\ \/ durable' = durable \cup tx /\ tx' = {} /\ UNCHANGED discarded
       \/ Discard /\ UNCHANGED durable
    /\ Doubt({})
    /\ saved' = {}
    /\ UNCHANGED <<promised, voided>>

RollbackOk ==
    /\ pg \in {"absent", "open", "stale"}
    /\ Discard
    /\ reply' = "rolledBack"
    /\ acked' = {} /\ saved' = {}
    /\ UNCHANGED <<pg, durable, promised, doubted, voided>>

\* SAVEPOINT is acknowledged and nothing is sent to PostgreSQL.
SavepointOk ==
    /\ pg # "closed"
    /\ reply' = "marked"
    /\ saved' = acked \cup tx
    /\ UNCHANGED <<pg, tx, durable, acked, promised, doubted, voided, discarded>>

\* `startswith("ROLLBACK")': ROLLBACK TO sp rolls the whole transaction back.
RollbackToOk ==
    /\ pg \in {"open", "stale"}
    /\ (tx \cup acked) \cap saved = {} \/ "partialRollback" \in Faults
    /\ Discard
    /\ reply' = "undone"
    /\ acked' = acked \cap saved
    /\ voided' = voided \cup (acked \cap saved)
    /\ UNCHANGED <<pg, durable, saved, promised, doubted>>

-----------------------------------------------------------------------------
Next ==
    \/ ConnectOk \/ ConnectFails \/ Logoff \/ HangUp \/ BackendLost \/ LossNoticed
    \/ \E ws \in SUBSET Writes : StatementOk(ws) \/ Unanswered(ws)
    \/ StatementFails \/ Answered \/ Rejected
    \/ \E cs, hw \in SUBSET Writes, answered \in BOOLEAN : BlockHandled(cs, hw, answered)
    \/ CommitOk \/ CommitRefused \/ CommitLost
    \/ RollbackOk \/ SavepointOk \/ RollbackToOk

Spec == Init /\ [][Next]_vars

-----------------------------------------------------------------------------
TypeOK ==
    /\ pg \in {"absent", "closed", "open", "stale", "lost"}
    /\ reply \in Replies
    /\ tx \subseteq Writes /\ durable \subseteq Writes /\ discarded \subseteq Writes
    /\ acked \subseteq Writes /\ saved \subseteq Writes
    /\ promised \subseteq Writes /\ doubted \subseteq Writes /\ voided \subseteq Writes
    /\ tx # {} => pg = "open"

\* A change that was rolled back is never committed, one that was committed is never
\* rolled back and none is made twice: whatever mix of failing statements, savepoints,
\* lost backends and COMMITs, and new logins a session sees (pg.run, _dispatch,
\* _execute_transaction).
NoResurrection ==
    /\ tx \cap durable = {}
    /\ tx \cap discarded = {}
    /\ durable \cap discarded = {}

\* What a COMMIT was answered "ok" for and is not in the database is exactly of the
\* kind the bridge itself threw away: by rolling back the whole transaction for one
\* failed statement (pg.py:122) or for ROLLBACK TO (ttc.py:433).  No other path
\* (lost backend, new login, ORA-03113, refused commit) loses promised work.
OnlyKnownLosses == promised \ durable \subseteq voided

\* Nothing gets committed that the client was told had failed: every durable change
\* was acknowledged and committed, or is one an ORA-03113 left in doubt.
NoSurprise == durable \subseteq promised \cup doubted

\* "The transaction stays open until COMMIT/ROLLBACK arrives" (pg.py:3-4): what was
\* acknowledged and not undone is in the transaction, as the test "Partial SAVEPOINT"
\* (testcases.py:261-269) wants it of the row inserted before the savepoint.  Nothing is
\* pending on a dead connection on which the next COMMIT would be answered "ok".
PendingWorkIsThere == pg \in {"open", "stale"} => acked \subseteq tx

\* The same after the COMMIT: work whose COMMIT was answered "ok" is in the database.
CommittedWorkIsDurable == promised \subseteq durable

\* The bridge's transaction, seen as the one Oracle promises.
Oracle == INSTANCE OracleTransaction WITH
    alive   <- pg = "open",
    pending <- tx,
    mark    <- saved \cap tx,
    store   <- durable,
    reply   <- reply

\* Every behaviour of the bridge is one an Oracle server could have shown.
OracleSemantics == Oracle!Spec

=============================================================================
