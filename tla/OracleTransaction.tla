------------------------- MODULE OracleTransaction -------------------------
(***************************************************************************)
(* What an application that talks to Oracle is promised about its          *)
(* transaction, and so what the bridge has to keep ("the transaction stays *)
(* open until COMMIT/ROLLBACK arrives", pg.py; "without noticing the       *)
(* difference", README.md).  Nothing here is about PostgreSQL:             *)
(*   - a call answered with success has had its whole effect;              *)
(*   - a call answered "error" has had none, and the work done before it   *)
(*     is still there;                                                     *)
(*   - after "gone" (ORA-03113) the application has to expect anything;    *)
(*   - ROLLBACK TO a savepoint keeps the work done before the savepoint.   *)
(***************************************************************************)

CONSTANT Writes          \* the changes the application's statements can make

VARIABLES
    alive,               \* there is a database session behind the application
    pending,             \* changes of the transaction in progress
    mark,                \* those of them made before the savepoint
    store,               \* committed changes
    reply                \* the last answer the application received, as its call
                         \* makes it read it: "ok" for work, "committed" for COMMIT...

vars == <<alive, pending, mark, store, reply>>

Init ==
    /\ alive = FALSE
    /\ pending = {}
    /\ mark = {}
    /\ store = {}
    /\ reply = "none"

\* A database session starts (or a new one replaces it): the old transaction is over.
Connect ==
    /\ alive' = TRUE
    /\ pending' = {}
    /\ mark' = {}
    /\ reply' = "connected"
    /\ UNCHANGED store

Refuse ==
    /\ alive' = FALSE
    /\ pending' = {}
    /\ mark' = {}
    /\ reply' = "refused"
    /\ UNCHANGED store

Succeed(ws) ==
    /\ alive
    /\ ws \cap (pending \cup store) = {}
    /\ pending' = pending \cup ws
    /\ reply' = "ok"
    /\ UNCHANGED <<alive, mark, store>>

\* A call that concerns no transaction.
Call ==
    /\ reply' = "ok"
    /\ UNCHANGED <<alive, pending, mark, store>>

Fail ==
    /\ reply' = "error"
    /\ UNCHANGED <<alive, pending, mark, store>>

Commit ==
    /\ store' = store \cup pending
    /\ pending' = {}
    /\ mark' = {}
    /\ reply' = "committed"
    /\ UNCHANGED alive

Rollback ==
    /\ pending' = {}
    /\ mark' = {}
    /\ reply' = "rolledBack"
    /\ UNCHANGED <<alive, store>>

Savepoint ==
    /\ mark' = pending
    /\ reply' = "marked"
    /\ UNCHANGED <<alive, pending, store>>

RollbackTo ==
    /\ pending' = mark
    /\ reply' = "undone"
    /\ UNCHANGED <<alive, mark, store>>

\* ORA-03113 to a statement that made ws: all that is still certain is that
\* nothing else was committed and nothing committed was lost.
Break(ws) ==
    /\ ws \cap (pending \cup store) = {}
    /\ store' \in {store, store \cup pending}
    /\ pending' \in {{}, pending, pending \cup ws}
    /\ store' \cap pending' = {}
    /\ mark' \in {{}, mark}
    /\ mark' \subseteq pending'
    /\ alive' \in {alive, FALSE}
    /\ reply' = "gone"

\* The application logs off or disappears, or the database session dies.
End ==
    /\ alive' = FALSE
    /\ pending' = {}
    /\ mark' = {}
    /\ reply' \in {reply, "bye", "none"}
    /\ UNCHANGED store

Next ==
    \/ Connect
    \/ Refuse
    \/ \E ws \in SUBSET Writes : Succeed(ws) \/ Break(ws)
    \/ Call
    \/ Fail
    \/ Commit
    \/ Rollback
    \/ Savepoint
    \/ RollbackTo
    \/ End

Spec == Init /\ [][Next]_vars

=============================================================================
