--------------------------- MODULE Session_proofs ---------------------------
(***************************************************************************)
(* What is proved of Transactions and RefCursors alone carries over to the *)
(* session, whose actions are made of theirs; the facts about its beginning*)
(* and end, which no component sees, come from an invariant of their own.  *)
(***************************************************************************)
EXTENDS Session, TLAPS

TP == INSTANCE Transactions_proofs
CP == INSTANCE RefCursors_proofs

-----------------------------------------------------------------------------
LEMMA TransactionStep == [Next]_vars => [T!Next]_(T!vars)
<1> SUFFICES ASSUME [Next]_vars
             PROVE  [T!Next]_(T!vars)
  OBVIOUS
<1>1. CASE UNCHANGED vars \/ FirstPacket
  BY <1>1 DEF vars, tVars, T!vars, FirstPacket
<1>2. CASE Disconnect
  BY <1>2 DEF Disconnect, End, T!Next
<1>3. CASE BackendLost
  BY <1>3 DEF BackendLost, T!Next
<1>4. ASSUME NEW closing, HandleTtc(closing)
      PROVE  T!Next
  <2>1. CASE AuthPhaseOne(closing)
    BY <2>1 DEF AuthPhaseOne, T!Next
  <2>2. CASE AuthPhaseTwo(closing)
    BY <2>2 DEF AuthPhaseTwo, T!Next
  <2>3. CASE Logoff(closing)
    BY <2>3 DEF Logoff, T!Next
  <2>4. CASE ExecuteStatement(closing)
    BY <2>4 DEF ExecuteStatement, T!Next
  <2>5. CASE ExecuteQuery(closing)
    BY <2>5 DEF ExecuteQuery, T!Next
  <2>6. CASE ExecuteBlock(closing)
    BY <2>6 DEF ExecuteBlock, T!Next
  <2>7. CASE ExecuteTransaction(closing)
    <3>1. {} \in SUBSET Writes
      OBVIOUS
    <3> QED
      BY <2>7, <3>1 DEF ExecuteTransaction, T!Next
  <2>8. CASE FetchRows(closing)
    <3>1. {} \in SUBSET Writes
      OBVIOUS
    <3> QED
      BY <2>8, <3>1 DEF FetchRows, T!Next
  <2>9. CASE OtherRequest(closing)
    BY <2>9 DEF OtherRequest, T!Next
  <2>10. CASE Malformed(closing)
    BY <2>10 DEF Malformed, End, T!Next
  <2> QED
    BY <1>4, <2>1, <2>2, <2>3, <2>4, <2>5, <2>6, <2>7, <2>8, <2>9, <2>10 DEF HandleTtc
<1> QED
  BY <1>1, <1>2, <1>3, <1>4 DEF Next

LEMMA CursorStep == [Next]_vars => [C!Next]_(C!vars)
<1> SUFFICES ASSUME [Next]_vars
             PROVE  [C!Next]_(C!vars)
  OBVIOUS
<1>1. CASE UNCHANGED vars \/ FirstPacket \/ Disconnect \/ BackendLost
  BY <1>1 DEF vars, cVars, C!vars, FirstPacket, Disconnect, BackendLost
<1>2. ASSUME NEW closing \in SUBSET DOMAIN view, HandleTtc(closing)
      PROVE  C!Next
  <2>1. CASE C!OtherCall(closing)
    BY <2>1 DEF C!Next
  <2>2. CASE ExecuteQuery(closing)
    BY <2>2 DEF ExecuteQuery, C!Next
  <2>3. CASE ExecuteBlock(closing)
    <3>1. ASSUME NEW results \in C!BlockResults, NEW answered \in BOOLEAN,
                 C!ExecuteBlock(results, closing, answered)
          PROVE  C!Next
      BY <3>1 DEF C!Next
    <3> QED
      BY <2>1, <2>3, <3>1 DEF ExecuteBlock
  <2>4. CASE FetchRows(closing)
    BY <2>4 DEF FetchRows, C!Next
  <2> QED
    BY <1>2, <2>1, <2>2, <2>3, <2>4
       DEF HandleTtc, AuthPhaseOne, AuthPhaseTwo, Logoff, ExecuteStatement,
           ExecuteTransaction, OtherRequest, Malformed
<1> QED
  BY <1>1, <1>2 DEF Next

\* The session's transaction is one of Transactions: each of its actions was made of one.
LEMMA SessionTransactions == Spec => T!Spec
<1>1. Init => T!Init
  BY DEF Init
<1> QED
  BY <1>1, TransactionStep, PTL DEF Spec, T!Spec

\* Its buffered results are those of RefCursors, likewise.
LEMMA SessionCursors == Spec => C!Spec
<1>1. Init => C!Init
  BY DEF Init
<1> QED
  BY <1>1, CursorStep, PTL DEF Spec, C!Spec

-----------------------------------------------------------------------------
(* What follows for the session from the theorems about its components     *)

\* The components as their proof modules see them.
LEMMA SameTransactions == T!Spec => TP!Spec
<1>1. T!Init => TP!Init
  BY DEF T!Init, TP!Init
<1>2. [T!Next]_(T!vars) => [TP!Next]_(TP!vars)
  BY DEF T!Next, TP!Next, T!vars, TP!vars, T!Fresh, TP!Fresh, T!Discard, TP!Discard,
         T!Doubt, TP!Doubt, T!ConnectOk, TP!ConnectOk, T!ConnectFails, TP!ConnectFails,
         T!Logoff, TP!Logoff, T!HangUp, TP!HangUp, T!BackendLost, TP!BackendLost,
         T!LossNoticed, TP!LossNoticed,
         T!StatementOk, TP!StatementOk, T!StatementFails, TP!StatementFails,
         T!BlockHandled, TP!BlockHandled, T!Answered, TP!Answered, T!Rejected,
         TP!Rejected, T!Unanswered, TP!Unanswered, T!CommitOk, TP!CommitOk,
         T!CommitRefused, TP!CommitRefused, T!CommitLost, TP!CommitLost, T!RollbackOk,
         TP!RollbackOk, T!SavepointOk, TP!SavepointOk, T!RollbackToOk, TP!RollbackToOk
<1> QED
  BY <1>1, <1>2, PTL DEF T!Spec, TP!Spec

\* No rolled-back change is ever committed in a session, no committed one lost.
THEOREM SessionResurrectsNothing == Spec => []NoResurrection
<1>1. TP!NoResurrection => NoResurrection
  BY DEF TP!NoResurrection, NoResurrection, T!NoResurrection
<1>2. TP!FaultsAssumption
  BY SessionConstants DEF TP!FaultsAssumption, TP!FaultKinds
<1> QED
  BY <1>1, <1>2, SameTransactions, SessionTransactions, TP!NothingResurrected, PTL

\* In a session, too, promised work is lost only through the bridge's own rollbacks.
THEOREM SessionLossesAreKnown == Spec => []OnlyKnownLosses
<1>1. TP!OnlyKnownLosses => OnlyKnownLosses
  BY DEF TP!OnlyKnownLosses, OnlyKnownLosses, T!OnlyKnownLosses
<1>2. TP!FaultsAssumption
  BY SessionConstants DEF TP!FaultsAssumption, TP!FaultKinds
<1> QED
  BY <1>1, <1>2, SameTransactions, SessionTransactions, TP!LossesAreKnown, PTL

\* Nor does anything become durable that no COMMIT and no ORA-03113 accounts for.
THEOREM SessionSurprisesNobody == Spec => []NoSurprise
<1>1. TP!NoSurprise => NoSurprise
  BY DEF TP!NoSurprise, NoSurprise, T!NoSurprise
<1>2. TP!FaultsAssumption
  BY SessionConstants DEF TP!FaultsAssumption, TP!FaultKinds
<1> QED
  BY <1>1, <1>2, SameTransactions, SessionTransactions, TP!NoSurprises, PTL

LEMMA SameCursors == C!Spec => CP!Spec
<1>1. C!Init => CP!Init
  BY DEF C!Init, CP!Init
<1>2. [C!Next]_(C!vars) => [CP!Next]_(CP!vars)
  BY DEF C!Next, CP!Next, C!vars, CP!vars, C!Smaller, CP!Smaller, C!Kept, CP!Kept,
         C!Opened, CP!Opened, C!Told, CP!Told, C!Batch, CP!Batch, C!OtherCall,
         CP!OtherCall, C!ExecuteQuery, CP!ExecuteQuery, C!ExecuteBlock, CP!ExecuteBlock,
         C!Deliver, CP!Deliver, C!Fetch, CP!Fetch, C!Serve, CP!Serve, C!BlockResults,
         CP!BlockResults
<1> QED
  BY <1>1, <1>2, PTL DEF C!Spec, CP!Spec

\* In a session, too, delivered and buffered rows make up each query's result.
THEOREM SessionAccountsForRows == Spec => []RowsAccounted
<1>1. CP!RowsAccounted => RowsAccounted
  BY DEF CP!RowsAccounted, RowsAccounted, C!RowsAccounted
<1>2. CP!ResultsAssumption /\ CP!BatchSizesAssumption /\ CP!BoundsAssumption
  BY SessionConstants
     DEF CP!ResultsAssumption, CP!BatchSizesAssumption, CP!BoundsAssumption
<1> QED
  BY <1>1, <1>2, SameCursors, SessionCursors, CP!NoRowLostOrRepeated, PTL

-----------------------------------------------------------------------------
(* The beginning and the end of a session                                  *)

\* Nothing is open before the first packet; without a live backend no transaction is.
Bounds ==
    /\ phase \in {"handshake", "serving", "ended"}
    /\ phase = "handshake" => pg = "absent" /\ tx = {} /\ DOMAIN cursors = {}
    /\ pg # "open" => tx = {}
    /\ EndedReleasesBackend
    /\ ClosedIsNotServed
    /\ LoginComesFirst

LEMMA InitBounds == Init => Bounds
  BY DEF Init, T!Init, C!Init, Bounds, EndedReleasesBackend, ClosedIsNotServed,
         LoginComesFirst

\* A call that closes cursors opens none.
LEMMA OtherCallOpensNone ==
    ASSUME NEW closing, C!OtherCall(closing)
    PROVE  DOMAIN cursors' \subseteq DOMAIN cursors
  BY DEF C!OtherCall, C!Kept

LEMMA HandlerBounds ==
    ASSUME Bounds, phase = "serving", NEW closing, HandleTtc(closing)
    PROVE  Bounds'
<1> USE DEF Bounds, EndedReleasesBackend, ClosedIsNotServed, LoginComesFirst, Answer,
            T!Discard, T!Doubt
<1>1. CASE AuthPhaseOne(closing)
  BY <1>1, OtherCallOpensNone DEF AuthPhaseOne, T!Answered, T!Rejected
<1>2. CASE AuthPhaseTwo(closing)
  BY <1>2, OtherCallOpensNone DEF AuthPhaseTwo, T!Rejected, T!ConnectOk, T!ConnectFails
<1>3. CASE Logoff(closing)
  BY <1>3, OtherCallOpensNone DEF Logoff, T!Logoff, T!Unanswered
<1>4. CASE ExecuteStatement(closing)
  BY <1>4, OtherCallOpensNone
     DEF ExecuteStatement, T!StatementOk, T!Unanswered, T!StatementFails, T!LossNoticed
<1>5. CASE ExecuteQuery(closing)
  BY <1>5 DEF ExecuteQuery, T!StatementOk, T!Unanswered
<1>6. CASE ExecuteBlock(closing)
  <2>1. ASSUME C!OtherCall(closing), T!Rejected \/ T!LossNoticed
        PROVE  Bounds'
    BY <1>6, <2>1, OtherCallOpensNone DEF ExecuteBlock, T!Rejected, T!LossNoticed
  <2>2. ASSUME NEW ws, T!StatementOk(ws) \/ T!Unanswered(ws), DOMAIN cursors' \subseteq DOMAIN cursors
        PROVE  Bounds'
    BY <1>6, <2>2 DEF ExecuteBlock, T!StatementOk, T!Unanswered
  <2>3. ASSUME pg \in {"open", "lost"},
               \/ T!StatementFails
               \/ \E ws \in SUBSET Writes : T!StatementOk(ws) \/ T!Unanswered(ws)
               \/ \E cs, hw \in SUBSET Writes, answered \in BOOLEAN : T!BlockHandled(cs, hw, answered)
        PROVE  Bounds'
    BY <1>6, <2>3
       DEF ExecuteBlock, T!StatementFails, T!StatementOk, T!Unanswered, T!BlockHandled
  <2>4. (\E ws \in SUBSET Writes : T!StatementOk(ws)) => pg = "open"
    BY DEF T!StatementOk
  <2>5. (\E cs, hw \in SUBSET Writes, answered \in BOOLEAN : T!BlockHandled(cs, hw, answered)) => pg = "open"
    BY DEF T!BlockHandled
  <2>6. T!StatementFails => pg = "open"
    BY DEF T!StatementFails
  <2> QED
    BY <1>6, <2>1, <2>2, <2>3, <2>4, <2>5, <2>6, OtherCallOpensNone DEF ExecuteBlock
<1>7. CASE ExecuteTransaction(closing)
  BY <1>7, OtherCallOpensNone
     DEF ExecuteTransaction, T!CommitOk, T!CommitRefused, T!CommitLost, T!RollbackOk,
         T!SavepointOk, T!RollbackToOk, T!Unanswered, T!Answered
<1>8. CASE FetchRows(closing)
  <2>1. DOMAIN cursors' \subseteq DOMAIN cursors
    <3>1. ASSUME NEW id, NEW n, NEW answered, C!Deliver(id, n, closing, answered)
          PROVE  DOMAIN cursors' \subseteq DOMAIN cursors
      BY <3>1 DEF C!Deliver, C!Kept
    <3> QED
      BY <1>8, <3>1 DEF FetchRows, C!Fetch, C!Serve
  <2> QED
    BY <1>8, <2>1 DEF FetchRows, T!Answered, T!Unanswered
<1>9. CASE OtherRequest(closing)
  BY <1>9, OtherCallOpensNone DEF OtherRequest, T!Answered, T!Rejected
<1>10. CASE Malformed(closing)
  BY <1>10, OtherCallOpensNone DEF Malformed, End, T!HangUp
<1> QED
  BY <1>1, <1>2, <1>3, <1>4, <1>5, <1>6, <1>7, <1>8, <1>9, <1>10 DEF HandleTtc

LEMMA StepBounds == Bounds /\ [Next]_vars => Bounds'
<1> SUFFICES ASSUME Bounds, [Next]_vars
             PROVE  Bounds'
  OBVIOUS
<1> USE DEF Bounds, EndedReleasesBackend, ClosedIsNotServed, LoginComesFirst
<1>1. CASE UNCHANGED vars
  BY <1>1 DEF vars, tVars, cVars
<1>2. CASE FirstPacket
  BY <1>2 DEF FirstPacket, tVars, cVars
<1>3. CASE Disconnect
  BY <1>3 DEF Disconnect, End, T!HangUp, T!Discard, cVars
<1>4. CASE BackendLost
  BY <1>4 DEF BackendLost, T!BackendLost, T!Discard, cVars
<1> HIDE DEF Bounds
<1> QED
  BY <1>1, <1>2, <1>3, <1>4, HandlerBounds DEF Next

THEOREM BoundsHold == Spec => []Bounds
  BY InitBounds, StepBounds, PTL DEF Spec

\* Every way a session can end leaves its PostgreSQL connection closed and empty.
THEOREM EndIsClean == Spec => []EndedReleasesBackend
<1>1. Bounds => EndedReleasesBackend
  BY DEF Bounds
<1> QED
  BY <1>1, BoundsHold, PTL

\* No call is served on a connection that was closed.
THEOREM NoServiceAfterClose == Spec => []ClosedIsNotServed
<1>1. Bounds => ClosedIsNotServed
  BY DEF Bounds
<1> QED
  BY <1>1, BoundsHold, PTL

\* Connections, transactions and buffered results come after both login phases.
THEOREM LoginPrecedesWork == Spec => []LoginComesFirst
<1>1. Bounds => LoginComesFirst
  BY DEF Bounds
<1> QED
  BY <1>1, BoundsHold, PTL

\* Whether phase one of the login took place is all that `keyed` says.
LEMMA KeyedIsBoolean == Spec => [](keyed \in BOOLEAN)
<1> DEFINE Keyed == keyed \in BOOLEAN
<1>1. Init => Keyed
  BY DEF Init
<1>2. ASSUME Keyed, [Next]_vars
      PROVE  Keyed'
  <2>1. ASSUME NEW closing, HandleTtc(closing)
        PROVE  Keyed'
    BY <1>2, <2>1 DEF HandleTtc, AuthPhaseOne, AuthPhaseTwo, Logoff, ExecuteStatement,
                      ExecuteQuery, ExecuteBlock, ExecuteTransaction, FetchRows,
                      OtherRequest, Malformed, End
  <2> QED
    BY <1>2, <2>1 DEF Next, vars, FirstPacket, Disconnect, End, BackendLost
<1> QED
  BY <1>1, <1>2, PTL DEF Spec

\* A session keeps the types of its own variables and of its components'.
THEOREM TypeCorrect == Spec => []TypeOK
<1>1. keyed \in BOOLEAN /\ Bounds /\ TP!TypeOK /\ CP!TypeOK => TypeOK
  BY DEF TypeOK, Bounds, TP!TypeOK, T!TypeOK, TP!Replies, T!Replies, CP!TypeOK, C!TypeOK,
         CP!Entry, C!Entry, CP!View, C!View
<1>2. Spec => []TP!TypeOK
  <2>1. TP!FaultsAssumption
    BY SessionConstants DEF TP!FaultsAssumption, TP!FaultKinds
  <2> QED
    BY <2>1, SameTransactions, SessionTransactions, TP!TypeCorrect, PTL
<1>3. Spec => []CP!TypeOK
  <2>1. CP!ResultsAssumption /\ CP!BatchSizesAssumption /\ CP!BoundsAssumption
    BY SessionConstants
       DEF CP!ResultsAssumption, CP!BatchSizesAssumption, CP!BoundsAssumption
  <2> QED
    BY <2>1, SameCursors, SessionCursors, CP!TypeCorrect, PTL
<1> QED
  BY <1>1, <1>2, <1>3, KeyedIsBoolean, BoundsHold, PTL

=============================================================================
