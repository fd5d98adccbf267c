----------------------------- MODULE ProxyLoop -----------------------------
(***************************************************************************)
(* Many clients on one event loop.  handle_client (server.py) is a task    *)
(* per client on a single asyncio loop, and handle_ttc calls psycopg       *)
(* synchronously: while one client's statement waits for a row lock in     *)
(* PostgreSQL, no other client's packet is read.  The row locks are        *)
(* PostgreSQL's: taken by a write, kept until the transaction ends.        *)
(***************************************************************************)
EXTENDS Naturals, Sequences

CONSTANTS
    Clients,
    Rows,                \* rows the clients write
    NoClient,            \* nobody
    IdleTimeout          \* PostgreSQL ends transactions that are left idle
                         \* (idle_in_transaction_session_timeout; off by default)

ASSUME NoClientAssumption == NoClient \notin Clients
ASSUME RowsAssumption == Rows \cap {"none", "end", "leave"} = {}
ASSUME IdleTimeoutAssumption == IdleTimeout \in BOOLEAN

VARIABLES
    request,             \* what each client waits for: a row to write, "end" (COMMIT
                         \* or ROLLBACK), "leave" (its stream ended), or "none"
    ready,               \* clients whose packet the loop is to handle, in order
    running,             \* the client whose handler occupies the loop
    owner,               \* the client whose transaction has written each row
    state                \* of each client's session: "up", "killed" (its backend
                         \* was terminated) or "left"

vars == <<request, ready, running, owner, state>>

Init ==
    /\ request = [c \in Clients |-> "none"]
    /\ ready = <<>>
    /\ running = NoClient
    /\ owner = [r \in Rows |-> NoClient]
    /\ state = [c \in Clients |-> "up"]

-----------------------------------------------------------------------------
(* Plausible mistakes in the operations below, one per property.           *)

\* The packet that came last is handled first.
ResumeLast ==
    /\ running = NoClient
    /\ ready # <<>>
    /\ running' = ready[Len(ready)]
    /\ ready' = SubSeq(ready, 1, Len(ready) - 1)
    /\ UNCHANGED <<request, owner, state>>

\* read_exact returns the packet and leaves it in the buffer.
ResumeKeepsPacket ==
    /\ running = NoClient
    /\ ready # <<>>
    /\ running' = Head(ready)
    /\ UNCHANGED <<request, ready, owner, state>>

\* Released rows are marked with what "no request" is marked with.
EndTransactionToNone(c) ==
    /\ running = c
    /\ state[c] = "up"
    /\ request[c] = "end"
    /\ owner' = [r \in Rows |-> IF owner[r] = c THEN "none" ELSE owner[r]]
    /\ request' = [request EXCEPT ![c] = "none"]
    /\ running' = NoClient
    /\ UNCHANGED <<ready, state>>

\* handle_client returns without its finally clause.
LeaveWithoutClose(c) ==
    /\ running = c
    /\ request[c] = "leave"
    /\ state' = [state EXCEPT ![c] = "left"]
    /\ request' = [request EXCEPT ![c] = "none"]
    /\ running' = NoClient
    /\ UNCHANGED <<ready, owner>>

-----------------------------------------------------------------------------
(* The clients, the loop and PostgreSQL                                    *)

\* The locks once c holds none.
Released(c) == [r \in Rows |-> IF owner[r] = c THEN NoClient ELSE owner[r]]

\* The client has its answer and the loop is free for the next packet.
Done(c) ==
    /\ request' = [request EXCEPT ![c] = "none"]
    /\ running' = NoClient

-----------------------------------------------------------------------------
\* A client sends its next packet, or its stream ends.
Send(c, what) ==
    /\ request[c] = "none"
    /\ state[c] # "left"
    /\ request' = [request EXCEPT ![c] = what]
    /\ ready' = Append(ready, c)
    /\ UNCHANGED <<running, owner, state>>

\* The loop resumes the task whose packet came first.
Resume ==
    /\ running = NoClient
    /\ ready # <<>>
    /\ running' = Head(ready)
    /\ ready' = Tail(ready)
    /\ UNCHANGED <<request, owner, state>>

\* PgSession.run of a write returns: at once, or when the row has become free.
Write(c) ==
    /\ running = c
    /\ state[c] = "up"
    /\ request[c] \in Rows
    /\ owner[request[c]] \in {NoClient, c}
    /\ owner' = [owner EXCEPT ![request[c]] = c]
    /\ Done(c)
    /\ UNCHANGED <<ready, state>>

EndTransaction(c) ==
    /\ running = c
    /\ state[c] = "up"
    /\ request[c] = "end"
    /\ owner' = Released(c)
    /\ Done(c)
    /\ UNCHANGED <<ready, state>>

\* On a session whose backend was terminated every call is answered ORA-03113.
CallOnKilled(c) ==
    /\ running = c
    /\ state[c] = "killed"
    /\ request[c] # "leave"
    /\ Done(c)
    /\ UNCHANGED <<ready, owner, state>>

\* handle_client returns: its finally closes the PostgreSQL connection.
Leave(c) ==
    /\ running = c
    /\ request[c] = "leave"
    /\ owner' = Released(c)
    /\ state' = [state EXCEPT ![c] = "left"]
    /\ Done(c)
    /\ UNCHANGED ready

\* PostgreSQL terminates a backend that holds locks and executes nothing.
KillIdle(c) ==
    /\ IdleTimeout
    /\ running # c
    /\ \E r \in Rows : owner[r] = c
    /\ owner' = Released(c)
    /\ state' = [state EXCEPT ![c] = "killed"]
    /\ UNCHANGED <<request, ready, running>>

Handle(c) == Write(c) \/ EndTransaction(c) \/ CallOnKilled(c) \/ Leave(c)

Next ==
    \/ \E c \in Clients : \E what \in Rows \cup {"end", "leave"} : Send(c, what)
    \/ Resume
    \/ \E c \in Clients : Handle(c) \/ KillIdle(c)

Spec == Init /\ [][Next]_vars

\* The loop runs what is ready, PostgreSQL returns when it can, and its timeout
\* strikes; nothing obliges a client to send anything.
Fairness ==
    /\ WF_vars(Resume)
    /\ \A c \in Clients : WF_vars(Handle(c)) /\ WF_vars(KillIdle(c))

FairSpec == Spec /\ Fairness

-----------------------------------------------------------------------------
TypeOK ==
    /\ request \in [Clients -> Rows \cup {"none", "end", "leave"}]
    /\ ready \in Seq(Clients)
    /\ running \in Clients \cup {NoClient}
    /\ owner \in [Rows -> Clients \cup {NoClient}]
    /\ state \in [Clients -> {"up", "killed", "left"}]

\* Locks belong to live sessions: whoever left or was terminated holds no row, so no
\* one can ever wait for a client that is not there any more.
LocksAreLive == \A r \in Rows : owner[r] # NoClient => state[owner[r]] = "up"

\* Each packet is handled once: a client is queued at most once, only with a packet
\* that has no answer yet, and not while its handler has the loop (read_exact).
OnePacketEach ==
    /\ \A i \in 1 .. Len(ready) : request[ready[i]] # "none" /\ ready[i] # running
    /\ \A i, j \in 1 .. Len(ready) : ready[i] = ready[j] => i = j
    /\ running # NoClient => request[running] # "none"

\* The loop waits in PostgreSQL for a row another client has written.
Stalled ==
    /\ running # NoClient
    /\ request[running] \in Rows
    /\ state[running] = "up"
    /\ owner[request[running]] \notin {NoClient, running}

\* Without an idle timeout in PostgreSQL a stalled loop stays stalled, whatever any
\* client sends: the packet that would release the row is never read (server.py:99).
StallsAreForever == [][Stalled => Stalled']_vars

\* Every packet is handled in the end, a write to a locked row included.  It takes the
\* idle timeout: a request waits for a lock, and everybody else for that request.
EveryRequestIsAnswered ==
    \A c \in Clients : (request[c] # "none") ~> (request[c] = "none")

\* README.md:5-7: the application uses the driver "without noticing the difference".
\* With Oracle a COMMIT or ROLLBACK waits for no other client's lock.
HolderIsServed ==
    \A c \in Clients : (request[c] = "end") ~> (request[c] # "end")

=============================================================================
