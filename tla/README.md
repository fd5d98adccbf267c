# OracleBridge in TLA+

OracleBridge (`oraclebridge/`) presents itself to applications as an Oracle
database, speaks TNS and TTC with the Oracle driver, and runs the translated SQL
in PostgreSQL. This directory holds TLA+ specifications of what it does, TLC
configurations that check them, and TLAPS proofs about them. Line numbers refer
to the files of `src/oraclebridge/` (`ttc.py:479`), or say otherwise.

## The system

| Part | State | Operations | What makes it correct |
|---|---|---|---|
| `server.py` `ProxyServer` | a task per client on one asyncio loop | accept, read a packet, hand it to the session, send the answer, clean up | every way out closes the PostgreSQL connection; every packet is handled; one client does not stop another |
| `tns.py`, `_SocketReader` | bytes read beyond the last packet | read and build packets, CONNECT/ACCEPT, markers | messages are those that were sent |
| `ttc.py` `Session` | `pg`, `auth`, `ref_cursors`, `next_ref_id` | login, EXECUTE, FETCH, COMMIT, ROLLBACK, LOGOFF, piggybacks | no work without a login; each error has an answer |
| result buffers (`ref_cursors`) | id -> rows, position | opened by queries and blocks, read by FETCH and execute without text, closed by CLOSE_CURSORS | every row once, in order; the end only at the end; ids are not reused |
| `pg.py` `PgSession` | `conn`, and through it a transaction | connect, run, commit, rollback, close | Oracle's transaction semantics |
| `auth.py` `AuthState` | the server's half of the session key | the two phases of O5LOGON | phase two needs phase one |
| `translate.py` | `PlsqlBlock`: the parts of a block | SQL rewriting, splitting blocks | order of execution; meaning of SQL |
| `types.py`, `buffer.py` | a position in a buffer | encodings of values and messages | decode(encode(x)) = x |
| `errors.py` | none | SQLSTATE to ORA numbers | |

How they interact. `handle_client` reads one packet at a time and calls
`Session.handle_ttc`, plain synchronous code that calls `PgSession`, which calls
psycopg. Within one client nothing runs concurrently: a handler is one step as far
as that client and its session are concerned. What can happen between two
handlers, or end one early, is the death of the PostgreSQL backend and the loss of
the client. Between clients there is concurrency of two kinds: their transactions
hold locks in PostgreSQL, and their handlers take turns on the loop, which a
handler waiting for a lock does not give up.

What is hard here, and hardly reached by the smoke tests, which run one client and
one statement after the other:

* partial failure: a statement, an answer, a COMMIT or a piggyback that fails after
  something else was done (`pg.py:122`, `ttc.py:590`, `ttc.py:668`, `ttc.py:96`);
* a lost backend or client at any point (`pg.py:133`, `server.py:114`);
* sequences of legal calls nobody tried: two logins, COMMIT after a failed login,
  FETCH after CLOSE_CURSORS, ROLLBACK TO (`ttc.py:259`, `server.py:108`,
  `ttc.py:433`);
* boundaries: row counts, batch size 0, ids beyond 65535 (`ttc.py:475`, `638`, `692`),
  digits and exponents of numbers, lengths of byte strings (`types.py:106`, `buffer.py:212`);
* order: what a block's statements run in, and what is answered when requests span
  packets or markers come in between (`ttc.py:556`, `server.py:99`, `server.py:79`);
* all clients waiting for one (`server.py:99`).

`PROJECT.json` lists these hazards with the properties that cover them, and those
nothing covers yet.

## The modules

    OracleTransaction    what an Oracle application may expect
          ^ implements
    Transactions         PgSession under the TTC handlers    <-+
                                                               +-- Session
    RefCursors           ref_cursors, next_ref_id            <-+      ^ implements
                                                                   (one call of it)
                                                                   PlsqlBlock
    PacketQueue          what the loop takes a connection for
          ^ implements
    TnsChannel           read_packet over a TCP stream, and the loop of handle_client

    OracleValues         types.py, as functions
          ^ extends
    TtcMessage           buffer.py: one message from its writer to its reader

    ProxyLoop            many sessions on one loop, and PostgreSQL's row locks

`M_proofs` holds the theorems about `M`, `MCM` the small instance of `M` for TLC.
`PROJECT.json` ("map") names the lines behind each definition.

**OracleTransaction** is an abstract specification. Its state is whether there is a
database session, the pending and the committed changes, the savepoint, and the
last answer as the call it answers makes the application read it: "ok" for work,
"committed", "rolledBack", "undone" (ROLLBACK TO), "error" (a failed call),
"gone" (ORA-03113). An answer "committed" has committed what was pending, an
"error" has changed nothing, after "gone" pending work may be there, lost or
committed but nothing else may have changed.

**Transactions** is one session's `PgSession`. Changes are members of a set
`Writes`; a statement makes a set of fresh ones. `pg` says what `Session.pg` is
(`absent`, `open`, `closed` when its `conn` is None; when the backend behind `conn` is
dead, `lost`, or `stale` as long as psycopg has not noticed and takes the connection for
idle), `tx` and `durable` are PostgreSQL's. On a `stale` connection psycopg's `commit()` and
`rollback()` return at once, so that COMMIT, ROLLBACK and LOGOFF are answered "ok"
(`CommitOk`, `RollbackOk`, `Logoff`); a statement finds out (`LossNoticed`). An action is a
whole handler
and its answer: for example `StatementFails` is `PgSession.run` with its rollback
and the ORA error, `CommitRefused` is a COMMIT whose psycopg error nobody translates,
`BlockHandled` is a PL/SQL block whose WHEN OTHERS swallows an error. The other
variables are the application's own account (`acked`, `saved`, `promised`,
`doubted`) and what was thrown away (`voided`, `discarded`); they record answers and
effects and restrict nothing.

The bridge does three things to pending work that Oracle does not, and the constant
`Faults` says which of them may happen to a transaction with work in it:
`failedStatement` (`pg.py:122`), `swallowedError` (`ttc.py:590`) and `partialRollback`
(`ttc.py:433`). With `Faults = {}` a statement only fails, an error is only swallowed
and ROLLBACK TO only sent when no work is lost by it. So `transactions` and the theorems
with `Faults = {}` say nothing of these three: they show that there is no fourth. The code
has all three; `Session` is checked with all three, and two of the failing runs, each with
one of them, show what it does.

**RefCursors** is `ref_cursors` and `next_ref_id`. An action is one message: the
cursors its piggyback closes, then the call. `answered` says whether the answer could
be encoded; if not the client reads ORA-03113, after `pos` was moved or an entry was
made it never hears of. `view` is the client's side: what it got, whether it was told
of the end, and whether an ORA-03113 tore rows out of the stream.

**Session** composes the two with the loop of `handle_client`: `phase` and `keyed`
(phase one of the login took place) are its own variables, and each
action joins one action of `Transactions` with one of `RefCursors`, so that every behaviour
of a session is by construction one of each; what is checked is which of these a session's
handlers, its ways to end and its logins join, and what holds of the whole. `Answer` is the
loop's check after each answer, `End` its finally clause, `Malformed` a message that
`handle_ttc` cannot read before its `try`.

**PlsqlBlock** takes apart what `Session` has as one action: an anonymous block, from
its parse to its answer. A block is its statements' kinds, what its EXCEPTION clause
names and the kinds of its handler's statements. An action is one statement: `Parse`
refuses what `translate.py` does not know and raises a `raise_application_error`,
`OpenCursor` runs the calls with CURSOR binds, `Call` the others, `Assign` all
assignments in one SELECT, `Handle` the handler's. Each run can succeed, fail (which
rolls back the transaction) or find that the backend died, which it may do between any two.
A change is named by the place of the statement that made it, 0 is the work before the
block. A `_bind_args` that fails is a `NotTranslated`: both leave the block with an
ORA-03113 and run nothing. `S` is the instance of `Session` the block is one call of;
`MaxBody` bounds the length of a body, and `S`'s own bounds are taken from it, large enough
for every block of `Blocks`.

**PacketQueue** is the abstract connection: the client sends packets, the loop handles
the next one and writes its replies, a RESET owes an ORA-01013, and it ends.
**TnsChannel** is how that comes about: units of packets on their way (`wire`), in
`_SocketReader._buf` (`buf`) and in the header `read_packet` has read (`header`).
`Receive` gets a piece of any size, `ReadHeader` and `TakeUp` are the two halves of
`read_packet`, `Connect`, `Respond`, `Marker`, `Ignore` and `Refuse` the branches of the
loop, `Drained` and `WriteFails` the two ways out of `drain()`. `Leave` ends the stream
anywhere, in the middle of a header or a payload too, or breaks it. A packet's unit
carries its own place, so that a reader that loses its place is seen to.

**OracleValues** has the encoders and decoders of `types.py` as functions from numbers,
points in time and intervals to byte strings and back, with Python's integer division
and its decimal context. `ClientNumber` is the driver's decoder of NUMBER. An interval's
seconds go through a float (`int(td.total_seconds())`, `types.py:265`): `RoundsUp` says when
the nearest one is the next whole second, which from 2^34 seconds (`FloatSeconds`) on
happens to fractions close to one.
**TtcMessage** sends them, integers and byte strings through `TTCWriter` and `TTCReader`:
a message of several fields is written, arrives whole or cut short, and is read or
skipped field by field. The reader has nothing but the bytes and its position, so one
field read wrongly spoils those behind it. Numbers that `encode_number` refuses are integers
here: `_write_column_value` sends those as `str(value)`, whose layout with a fraction is
formatting. An interval is a `timedelta`, whose days lie within 999999999 of zero.

**ProxyLoop** leaves the protocol aside. Clients send writes of rows, COMMITs, or go
away; the loop resumes them in the order in which their packets came (`Resume`), and
the handler keeps the loop until PostgreSQL answers. `Write` is enabled only when the
row is free or the client's own: a handler that waits for a lock is a state in which
it is not.

Each module has a section of plausible mistakes ("the COMMIT is retried on a new
connection", "ids start over"): each stands in for the operation it is a mistake in,
and some property must notice. `PROJECT.json` ("mutants") pairs them.

## The runs

| Run | Question | Answer | Bounds | Distinct states |
|---|---|---|---|---|
| `transactions` | With no fault striking pending work, is the bridge an Oracle server? | yes | 3 changes | 1 533 |
| `ref_cursors` | Are results delivered whole, in order, to their end? | yes | results of 3, 1 and 0 rows, batches of 0 to 2, blocks of up to 2 CURSOR binds, 3 ids of which 2 fit an answer | 24 641 |
| `session` | With every fault and every way to end, is work only lost in known ways, nothing committed by surprise, no row lost, and the end clean? | yes | 2 changes, one result of 2 rows, 2 ids of which 1 fits | 111 948 |
| `block` | Is a block one call, in an order that is known, and is it known what it leaves? | yes | bodies of up to 3 statements, handlers of up to 2 | 24 450 |
| `channel` | Is a stream in pieces a queue of packets to the loop, and does it get on? | yes | 4 packets, headers of 2 units, payloads of 0 to 2, answers of up to 2 chunks, 1 unread packet before `drain()` waits | 727 167 |
| `messages` | Does what is written arrive, read whole, cut or skipped over? | yes | 2 fields; 4 digits for 40, 3 for 28, 2^17 seconds for 2^34, chunks of 2 bytes | 1 218 891 |
| `proxy_loop` | With an idle timeout in PostgreSQL, is every packet handled? | yes | 3 clients, 2 rows | 59 670 |
| `failed_statement` | Does a COMMIT answered with success make acknowledged work durable? | no | 3 changes | |
| `rollback_to` | Does ROLLBACK TO keep the work before the savepoint? | no | 3 changes | |
| `intervals` | Does every INTERVAL of an answer arrive? | no | 6 intervals of whole seconds | |
| `handler` | Does an error of a block reach its WHEN OTHERS? | no | as `block` | |
| `loop_stall` | Is the COMMIT of a lock's holder handled? | no | as `proxy_loop` | |

Why the bounds are enough. With two changes one can be committed, lost or in doubt
while the other is pending; a third is made after a rollback of one and a commit of
the other. Changes are interchangeable, so the first and third run use symmetry;
neither checks liveness. Three rows with batches of 0, 1 and 2 give the first, a
middle and the last batch, full and partial. `IdLimit` stands for 65535: what matters
is that an id can be beyond it. `MaxId` ends the opening of cursors, not their use.
Three clients are a holder, one that waits for it and a bystander; two rows make
cycles of waiting possible.

Three statements hold every pair of kinds in both orders with a third before, between or
behind them, and three cursors in one block. Four packets are the CONNECT and three of
the loop: a message of two packets and one behind it, or a marker between two requests;
a header of two units can be cut in the middle, and payloads of 0, 1 and 2 units are those without data
flags, with half of them, and with both. Two fields are one that may be read wrongly and
one that would show it; integers stand at the widths' edges, strings at the short length,
at a chunk and one beyond, first bytes are 0, 254 and 255, which mean something else as
lengths; digits are odd and even in number, exponents odd, even, and the largest and
smallest `encode_number` takes; intervals lie on both sides of zero and around the length
where a float is no longer exact. `MaxDigits`, `Precision`, `ShortMax`, `ChunkSize` and
`FloatSeconds` are constants of the code (40, 28, 252, 32767, 2^34); the run gives them
small values, and the theorems hold for all even `MaxDigits`, all `Precision` and
`FloatSeconds`, a `ShortMax` up to 252 and chunks shorter than 2^31 bytes.

Deadlock checking is off where a session may have ended, a
block been answered, a message been read or all clients left; it is on for `ref_cursors`, where the client can always send more.

Some properties in words. `OnlyKnownLosses`: whatever was promised by a COMMIT and is
not in the database was thrown away by one of the three rollbacks above; lost
backends, refused COMMITs, second logins and ORA-03113 lose nothing that was promised.
`NoSurprise`: nothing becomes durable that the client was told had failed.
`RowsAccounted`: rows delivered followed by rows still buffered are the query's result,
at any time. `EndedReleasesBackend`: an ended connection leaves no PostgreSQL
connection and no transaction, whichever way it ended. `OnePacketEach`: a client's packet
waits in the loop's queue or is being handled, never both, and never twice.
`OnlyKnownRemnants`: a block answered "ok" leaves all its changes behind the earlier ones,
or, if its handler ran, the handler's alone; one answered with an error leaves none of its
own; one answered ORA-03113 leaves all or none, or the changes of its CURSOR calls if the
rest could not be translated (`ttc.py:573`), and none if a statement found the backend dead.
That earlier work is lost with a failed or caught statement is allowed here, and the subject
of `failed_statement`. `TimesArrive`: a TIMESTAMP arrives to the microsecond, and so does an
INTERVAL that is not negative and is shorter than 2^34 seconds or has a fraction below
.992188; beyond, `types.py:265` may add a second.
`OnlyKnownReorderings`: statements run out of the block's order only where one opens a
cursor or one is an assignment, as `ttc.py:556-589` has it. `BlockIsOneCall`: seen from
the session a block is a single step of `ExecuteBlock`, the loss of the backend in its
middle included. `PacketsInOrder`: to the loop, the stream is a `PacketQueue`.
`OnlyKnownShifts`: the k-th answer is that of the k-th message until a message spans
packets or a RESET is sent; from there on client and bridge may be out of step.
`CutsAreNoticed`: a message that was cut ends in TnsBufError and not in a value made of
bytes that are not there. `OnlyKnownNumbersChange`: a NUMBER arrives unchanged but for
the three cases `types.py` gives away (more than 40 digits as a column, more than 28
as a bind, binds below 1E-128).

### What the failing runs show

* `failed_statement` (`pg.py:122`): INSERT answered ok, a second statement fails,
  COMMIT answered ok, and the INSERT is gone, because `run` rolls back the
  connection and not the statement. `pg.py:3-4` promises a transaction that stays open
  until COMMIT or ROLLBACK.
* `rollback_to` (`ttc.py:433`): ROLLBACK TO starts with ROLLBACK. The test `dml.007`
  (`src/test/scripts/testcases.py:261-269`) expects otherwise. The repository's README
  lists it as a known gap but attributes it to the CLOSE_CURSORS piggyback; the model
  needs no piggyback for it.
* `intervals` (`types.py:271`): the fields of a negative timedelta are divided out of its
  signed seconds, so that they add up to it, and then all negated. The sign is lost: minus
  one day arrives as plus one day, minus one second as plus one second. `types.py:3-5` calls
  encoders and decoders mirrors of the driver's.
* `handler` (`ttc.py:542`): a `raise_application_error` is raised before the block runs and
  outside the `try` whose `except` is the WHEN OTHERS. The test `pls.006`
  (`src/test/scripts/testcases.py:350-352`) expects the handler's answer.
* `loop_stall` (`server.py:99`, `pg.py:110`): one write that waits for a row lock stops
  the bridge, the COMMIT that would release the lock included.

Two more disagreements of code and comments were met that no run is about, as they
need no interplay to show: the comment at `ttc.py:346-347`, which justifies refusing a
reexecute, is no longer true since long queries get ids (`ttc.py:479`), and an unknown
piggyback is an `OrabridgeError` like any other (`ttc.py:836`, `errors.py:61`) but raised
outside the `try` that answers them (`ttc.py:96`). `Session` models both as the code has them.

## Fairness

`RefCursors!FairSpec`: for each cursor, a client that can go on fetching does (weak
fairness of `Keen`, a FETCH of at least one row). This is an assumption on the client,
whose driver fetches until ORA-01403; without it nobody reads the rows.
`EveryResultEnds` then says that the bridge leads such a client to the end.

`ProxyLoop!FairSpec`: the loop runs a task that is ready (asyncio), PostgreSQL answers a
call it can answer, and, where there is an idle timeout, it strikes. No client has to
send anything. `IdleTimeout` is `idle_in_transaction_session_timeout`, which PostgreSQL
leaves off; `proxy_loop` shows that every packet is handled with it, `loop_stall` what
happens without it.

`TnsChannel!Spec`: `handle_client` is a task of the loop and goes on when it can (weak
fairness of `Bridge`), and a client reads what it is sent (of `Take`), without which
`drain()` would wait forever. That holds for one connection with a loop of its own, and
for many as long as none stalls the loop as in `loop_stall`. Clients need not send nor leave.
`EveryPacketIsTakenUp` and `LeaverIsNoticed` rest on it.

`Transactions`, `Session`, `PlsqlBlock` and `TtcMessage` are safety specifications: a client
may stop at any time.

## The proofs

All theorems hold for every value of the constants, under the assumptions named in the
modules: `Faults` is a subset of the three kinds, results are sequences of rows, batch
sizes and bounds are natural numbers, `FloatSeconds` is positive, blocks and packets are records of their kinds,
headers are not empty, a NUMBER's digits are even in number, a byte string's short length is
at most 252 and its chunks are not empty and shorter than 2^31, `NoClient` is no client and
rows are not request names. `MaxBody` is at least the length of every body of `Blocks`: of a
finite set of blocks there is one.

* `Transactions_proofs`. None of the properties is inductive. `Inv` adds where the
  application's account comes from (`Provenance`: every change in it is one PostgreSQL
  has seen, so that a fresh change is new to it), and what ties it to the open
  transaction (`Ledger`: an open transaction holds only acknowledged or doubtful
  changes, and all acknowledged ones but those thrown away; `Idle`: nothing is
  acknowledged before a login). `NothingResurrected`, `LossesAreKnown` and `NoSurprises`
  follow for every `Faults`. With `Faults = {}` nothing is ever thrown away, which gives
  `PendingWorkIsKept`, `CommitsAreDurable` and, step by step under the refinement mapping,
  `ImplementsOracle`.
* `RefCursors_proofs`. The properties with `TypeOK` are inductive once it is known how a
  batch splits the buffered rows (`BatchSplits`). `NoRowLostOrRepeated` and `EofIsTrue`
  hold for all results, batch sizes and ids.
* `Session_proofs`. Every step of a session is a step of `Transactions` and one of
  `RefCursors`, or leaves them alone. That is how the module is built and no result (the
  lemmas `SessionTransactions` and `SessionCursors`), but it carries the theorems about the
  parts over to whole connections: `SessionResurrectsNothing`, `SessionLossesAreKnown`,
  `SessionSurprisesNobody` and `SessionAccountsForRows`. `EndIsClean`,
  `NoServiceAfterClose` and `LoginPrecedesWork` come from one invariant of the session's
  own, `Bounds`; `TypeCorrect` needs the parts' types too.
* `PlsqlBlock_proofs`. `Inv` is `TypeOK`, `RunsOnce`, `Progress` (what has run at each
  stage: the CURSOR calls in front of `pc`, all of them, those and the calls in front of
  `pc`, ...), `Ordered` and `Outcome` (what `work` and `made` are, given what ran). That
  `First(kind)` is the least statement left, whatever the length of the body, comes from
  the well-foundedness of the numbers. `NothingRunsTwice`, `RemnantsAreKnown` and
  `ReorderingsAreKnown` follow for every set of blocks. `BlocksAreOneCall` needs `CallInv`
  too: while a block runs, what was rolled back and what is in the transaction are the
  earlier work and the block's own, its cursors are those of different statements, and the
  binds will show the last one opened. Each action is then a stutter of the session or, where
  it ends the block, a `StatementOk`, `StatementFails`, `Unanswered` or `BlockHandled` of
  `Transactions` joined to an `ExecuteBlock` or `OtherCall` of `RefCursors`, with
  the buffers of all cursors opened in one step.
* `TnsChannel_proofs`. `Inv` is `TypeOK`, `StreamInv` (the units that are buffered or on
  their way continue, without a gap, the place the reader has come to, up to the end of
  what was sent or to the cut), `PacketInv` (what was taken up are whole packets, in
  order) and `LoopInv`. From it `ImplementsPacketQueue`, step by step: a piece that arrives
  and a header that is read are stutters, a packet taken up is a `Handle`, and it is one
  packet because its first units, were it not, would have a least one out of place.
  `AnswersKeepStep` adds `ShiftInv`, which counts: as long as packets are plain there are as
  many complete answers as complete messages among the packets taken up, so the next answer
  has the next message's number. The counts are cardinalities of sets of places, which grow
  by one where an answer or a message ends.
* `OracleValues_proofs`. The encoders with the decoders: `ClientReadsNumbers`,
  `BridgeReadsNumbers`, `TinyNumbersAreZero`, `TimestampsSurvive` and `IntervalsSurvive` say which
  values arrive, `NumbersFit` that a NUMBER fits the buffer announced for it. An interval
  that is not negative comes back with the seconds the float has (`IntervalReturns`), which
  are its own where no float rounds up (`Exact`). They are about
  functions and need no invariant.
* `TtcMessage_proofs` takes them to messages. Two lemmas carry it: `VarintReads` (an integer
  that `Varint` writes is put together again by `ReadVarint` and passed by `SkipVarint`) and
  `ChunksRead` (the same of `Chunks` and `ReadChunks`, whatever the chunk size and whatever
  follows), and `FieldReads` joins them: a field is read as what it is `Delivered` as and the
  reader stops at its end, or it runs out of bytes. `Varint`, `Chunks` and `ReadChunks` are
  recursive functions. That such a function exists and what it computes is shown through
  least counterexamples: a set of natural numbers that has one has a least one, which the
  library states as the well-foundedness of `<` (`Least`, `Complete`, `Recursion`). The
  inductive invariant `MessageInv` says that there are places `ends` at which the fields
  follow each other without gap or overlap up to the message's end (`Laid`), that the reader
  stands at the one after the fields it has read, within what it was given, and that each
  value it read is what its field is delivered as. `MessageTypes`, `FieldsAreRead`,
  `CutsAreSeen`, `NumbersArrive` and `TimesAreRead` follow.
* `ProxyLoop_proofs`. `PacketsAreHandledOnce`, `LocksHaveLiveOwners` and `TypeCorrect` need
  each other (a handler that runs twice could write for a session that has left) and
  are proved as one invariant. Without an idle timeout a stall lasts forever
  (`StallsPersist`), whatever the clients send.

Only model-checked:

* liveness (`EveryResultEnds`, `EveryRequestIsAnswered`, `EveryPacketIsTakenUp`,
  `LeaverIsNoticed` and the failing `HolderIsServed`): the prover has no rules for
  `ENABLED`, on which fairness rests.

Every invariant and every action property the passing runs check is a theorem; so are the
refinements of `OracleTransaction`, `PacketQueue` and, by `PlsqlBlock`, of `Session`.

## Not modelled, and why

Left out are data transformations that keep no state: the cryptography of O5LOGON
(`auth.py`), the rewriting of SQL text (`translate.py:85-225`, sqlglot), column metadata
(`pg.py`), the layout of each message (`ttc.py`; its fields are those of `TtcMessage`),
the texts of errors, the command line and the start script. The tests are no part of the
system. Of the hazards, four have no property: that nothing bounds the number of buffered
results (`ttc.py:275`) and that a SELECT's binds are not read (`ttc.py:408`) are single
conditions, and a property would restate them; a batch skipped by an encoding failure
(`ttc.py:668`) and the entry of an id that fits no answer (`ttc.py:692`) are what the code
does, modelled and excepted from `RowsAccounted` and `EofMeansAll`. In the same way
`OnlyKnownShifts` excepts, and does not judge, messages that span packets and RESETs.

What could be added: a loop of whole `Session`s refining `ProxyLoop`, and `TnsChannel` with
`Session` behind it in place of an answer of any kind.

Abstractions to know when reading the models: in `Session` a handler is atomic, so a
backend that dies in its middle, COMMIT aside, dies before or after it; `PlsqlBlock`
shows for the one handler with several statements that this makes no difference. A client
uses only cursor ids it was told of. CLOSE_CURSORS is taken up with the call it precedes. Encoding failures
may strike any answer that carries values. A connection psycopg drops unclosed
(`ttc.py:259`) loses its transaction at once. A connection is `stale` only with nothing
pending: psycopg takes it for idle before the first statement and after each COMMIT or
rollback. In `TnsChannel` an answer is a number of
chunks, and what a client sends to an ended connection is left out.
