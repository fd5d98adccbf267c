------------------------ MODULE Transactions_proofs ------------------------
(***************************************************************************)
(* What holds of Transactions for every set of changes and every set of    *)
(* faults.  One inductive invariant carries all of it: Inv adds to the     *)
(* properties the facts that tie the application's ledger to PostgreSQL's  *)
(* transaction (Ledger, Provenance, Idle).                                 *)
(***************************************************************************)
EXTENDS Transactions, TLAPS

\* Every change the ledger mentions is one PostgreSQL has seen, so a fresh change
\* is new to the ledger too.
Seen == tx \cup durable \cup discarded
Provenance ==
    acked \cup saved \cup promised \cup doubted \cup voided \subseteq Seen

\* An open transaction holds nothing but acknowledged or doubtful changes, and all
\* acknowledged ones but those the bridge threw away; so does an idle one that is dead.
Ledger ==
    /\ tx \subseteq acked \cup doubted
    /\ pg \in {"open", "stale"} => acked \ tx \subseteq voided

\* Before the login there is nothing to commit.
Idle == pg = "absent" => acked = {}

Inv ==
    /\ TypeOK
    /\ NoResurrection
    /\ OnlyKnownLosses
    /\ NoSurprise
    /\ Provenance
    /\ Ledger
    /\ Idle

-----------------------------------------------------------------------------
LEMMA InitInv == Init => Inv
  BY DEF Init, Inv, TypeOK, Replies, NoResurrection, OnlyKnownLosses, NoSurprise,
         Provenance, Seen, Ledger, Idle

LEMMA SessionStepInv ==
    ASSUME Inv, ConnectOk \/ ConnectFails \/ Logoff \/ HangUp \/ BackendLost \/ LossNoticed
    PROVE  Inv'
<1> USE DEF Inv, TypeOK, Replies, NoResurrection, OnlyKnownLosses, NoSurprise,
            Provenance, Seen, Ledger, Idle, Discard
<1>1. CASE ConnectOk
  BY <1>1 DEF ConnectOk
<1>2. CASE ConnectFails
  BY <1>2 DEF ConnectFails
<1>3. CASE Logoff
  BY <1>3 DEF Logoff
<1>4. CASE HangUp
  BY <1>4 DEF HangUp
<1>5. CASE BackendLost
  BY <1>5 DEF BackendLost
<1>6. CASE LossNoticed
  BY <1>6 DEF LossNoticed, Doubt
<1> QED
  BY <1>1, <1>2, <1>3, <1>4, <1>5, <1>6

LEMMA StatementStepInv ==
    ASSUME Inv, NEW ws \in SUBSET Writes,
           StatementOk(ws) \/ Unanswered(ws) \/ StatementFails \/ Answered \/ Rejected
    PROVE  Inv'
<1> USE DEF Inv, TypeOK, Replies, NoResurrection, OnlyKnownLosses, NoSurprise,
            Provenance, Seen, Ledger, Idle, Discard, Doubt, Fresh
<1>1. CASE StatementOk(ws)
  BY <1>1 DEF StatementOk
<1>2. CASE Unanswered(ws)
  BY <1>2 DEF Unanswered
<1>3. CASE StatementFails
  BY <1>3 DEF StatementFails
<1>4. CASE Answered \/ Rejected
  BY <1>4 DEF Answered, Rejected
<1> QED
  BY <1>1, <1>2, <1>3, <1>4

LEMMA BlockStepInv ==
    ASSUME Inv, NEW cs \in SUBSET Writes, NEW hw \in SUBSET Writes,
           NEW answered \in BOOLEAN, BlockHandled(cs, hw, answered)
    PROVE  Inv'
  BY DEF Inv, TypeOK, Replies, NoResurrection, OnlyKnownLosses, NoSurprise,
         Provenance, Seen, Ledger, Idle, Fresh, Doubt, BlockHandled

LEMMA EndOfWorkStepInv ==
    ASSUME Inv,
           CommitOk \/ CommitRefused \/ CommitLost
             \/ RollbackOk \/ SavepointOk \/ RollbackToOk
    PROVE  Inv'
<1> USE DEF Inv, TypeOK, Replies, NoResurrection, OnlyKnownLosses, NoSurprise,
            Provenance, Seen, Ledger, Idle, Discard, Doubt
<1>1. CASE CommitOk
  BY <1>1 DEF CommitOk
<1>2. CASE CommitRefused
  BY <1>2 DEF CommitRefused
<1>3. CASE CommitLost
  BY <1>3 DEF CommitLost
<1>4. CASE RollbackOk
  BY <1>4 DEF RollbackOk
<1>5. CASE SavepointOk
  BY <1>5 DEF SavepointOk
<1>6. CASE RollbackToOk
  BY <1>6 DEF RollbackToOk
<1> QED
  BY <1>1, <1>2, <1>3, <1>4, <1>5, <1>6

LEMMA StepInv == Inv /\ [Next]_vars => Inv'
<1> SUFFICES ASSUME Inv, [Next]_vars
             PROVE  Inv'
  OBVIOUS
<1>1. CASE UNCHANGED vars
  BY <1>1 DEF vars, Inv, TypeOK, Replies, NoResurrection, OnlyKnownLosses, NoSurprise,
              Provenance, Seen, Ledger, Idle
<1>2. CASE Next
  BY <1>2, SessionStepInv, StatementStepInv, BlockStepInv, EndOfWorkStepInv
     DEF Next
<1> QED
  BY <1>1, <1>2

\* The invariant everything else is read off from.
THEOREM Invariance == Spec => []Inv
  BY InitInv, StepInv, PTL DEF Spec

-----------------------------------------------------------------------------
\* The variables keep their types, for any Writes and Faults.
THEOREM TypeCorrect == Spec => []TypeOK
<1>1. Inv => TypeOK
  BY DEF Inv
<1> QED
  BY <1>1, Invariance, PTL

\* No rolled-back change is ever committed, no committed one rolled back.
THEOREM NothingResurrected == Spec => []NoResurrection
<1>1. Inv => NoResurrection
  BY DEF Inv
<1> QED
  BY <1>1, Invariance, PTL

\* Promised work goes missing only through the bridge's own whole-transaction
\* rollbacks, whichever faults occur.
THEOREM LossesAreKnown == Spec => []OnlyKnownLosses
<1>1. Inv => OnlyKnownLosses
  BY DEF Inv
<1> QED
  BY <1>1, Invariance, PTL

\* Nothing is committed that the client was told had failed.
THEOREM NoSurprises == Spec => []NoSurprise
<1>1. Inv => NoSurprise
  BY DEF Inv
<1> QED
  BY <1>1, Invariance, PTL

-----------------------------------------------------------------------------
(* Without the three faults the bridge keeps Oracle's promises.            *)

NothingVoided == voided = {}

LEMMA StepNothingVoided ==
    ASSUME Faults = {}, NothingVoided, [Next]_vars
    PROVE  NothingVoided'
<1> USE DEF NothingVoided
<1>1. CASE UNCHANGED vars
  BY <1>1 DEF vars
<1>2. CASE ConnectOk \/ ConnectFails \/ Logoff \/ HangUp \/ BackendLost \/ LossNoticed
  BY <1>2 DEF ConnectOk, ConnectFails, Logoff, HangUp, BackendLost, LossNoticed
<1>3. ASSUME NEW ws \in SUBSET Writes, StatementOk(ws) \/ Unanswered(ws)
      PROVE  NothingVoided'
  BY <1>3 DEF StatementOk, Unanswered
<1>4. CASE StatementFails \/ Answered \/ Rejected
  BY <1>4 DEF StatementFails, Answered, Rejected
<1>5. ASSUME NEW cs \in SUBSET Writes, NEW hw \in SUBSET Writes,
             NEW answered \in BOOLEAN, BlockHandled(cs, hw, answered)
      PROVE  NothingVoided'
  BY <1>5 DEF BlockHandled
<1>6. CASE CommitOk \/ CommitRefused \/ CommitLost
  BY <1>6 DEF CommitOk, CommitRefused, CommitLost
<1>7. CASE RollbackOk \/ SavepointOk
  BY <1>7 DEF RollbackOk, SavepointOk
<1>8. CASE RollbackToOk
  BY <1>8 DEF RollbackToOk
<1> QED
  BY <1>1, <1>2, <1>3, <1>4, <1>5, <1>6, <1>7, <1>8 DEF Next

\* Where no statement fails on top of work, no error is swallowed and no ROLLBACK TO
\* has work to keep, everything whose COMMIT was answered "ok" is in the database.
THEOREM CommitsAreDurable ==
    ASSUME Faults = {}
    PROVE  Spec => []CommittedWorkIsDurable
<1>1. Init => NothingVoided
  BY DEF Init, NothingVoided
<1>2. NothingVoided /\ [Next]_vars => NothingVoided'
  BY StepNothingVoided
<1>3. Inv /\ NothingVoided => CommittedWorkIsDurable
  BY DEF Inv, OnlyKnownLosses, NothingVoided, CommittedWorkIsDurable
<1> QED
  BY <1>1, <1>2, <1>3, Invariance, PTL DEF Spec

\* In the same case a transaction holds all the work its client still counts on.
THEOREM PendingWorkIsKept ==
    ASSUME Faults = {}
    PROVE  Spec => []PendingWorkIsThere
<1>1. Init => NothingVoided
  BY DEF Init, NothingVoided
<1>2. NothingVoided /\ [Next]_vars => NothingVoided'
  BY StepNothingVoided
<1>3. Inv /\ NothingVoided => PendingWorkIsThere
  BY DEF Inv, Ledger, NothingVoided, PendingWorkIsThere
<1> QED
  BY <1>1, <1>2, <1>3, Invariance, PTL DEF Spec

-----------------------------------------------------------------------------
(* Without the three faults the bridge is an Oracle server, step by step.  *)

LEMMA SessionStepSimulates ==
    ASSUME Inv, ConnectOk \/ ConnectFails \/ Logoff \/ HangUp \/ BackendLost \/ LossNoticed
    PROVE  Oracle!Connect \/ Oracle!Refuse \/ Oracle!End \/ Oracle!Break({})
<1> USE DEF Inv, Discard
<1>1. CASE ConnectOk
  BY <1>1 DEF ConnectOk, Oracle!Connect
<1>2. CASE ConnectFails
  BY <1>2 DEF ConnectFails, Oracle!Refuse
<1>3. CASE Logoff
  BY <1>3 DEF Logoff, Oracle!End
<1>4. CASE HangUp
  BY <1>4 DEF HangUp, Oracle!End
<1>5. CASE BackendLost
  BY <1>5 DEF BackendLost, Oracle!End
<1>6. CASE LossNoticed
  BY <1>6 DEF LossNoticed, Doubt, TypeOK, Oracle!Break
<1> QED
  BY <1>1, <1>2, <1>3, <1>4, <1>5, <1>6

LEMMA StatementStepSimulates ==
    ASSUME Faults = {}, Inv, NEW ws \in SUBSET Writes,
           StatementOk(ws) \/ Unanswered(ws) \/ StatementFails \/ Answered \/ Rejected
    PROVE  Oracle!Succeed(ws) \/ Oracle!Break(ws) \/ Oracle!Call \/ Oracle!Fail
<1>1. ws \subseteq Fresh => ws \cap (tx \cup durable \cup saved) = {}
  BY DEF Fresh, Inv, NoResurrection, Provenance, Seen
<1>2. CASE StatementOk(ws)
  BY <1>1, <1>2 DEF StatementOk, Oracle!Succeed
<1>3. CASE Unanswered(ws)
  <2>1. ws \cap (tx \cup durable \cup saved) = {}
    BY <1>1, <1>3 DEF Unanswered
  <2>2. saved' \cap tx' = saved \cap tx
    BY <1>3, <2>1 DEF Unanswered
  <2>3. durable' \cap tx' = {}
    BY <1>3, <2>1 DEF Unanswered, Inv, NoResurrection
  <2> QED
    BY <1>3, <2>1, <2>2, <2>3 DEF Unanswered, Doubt, Oracle!Break
<1>4. CASE StatementFails
  BY <1>4 DEF StatementFails, Discard, Oracle!Fail
<1>5. CASE Answered
  BY <1>5 DEF Answered, Oracle!Call
<1>6. CASE Rejected
  BY <1>6 DEF Rejected, Oracle!Fail
<1> QED
  BY <1>2, <1>3, <1>4, <1>5, <1>6

LEMMA BlockStepSimulates ==
    ASSUME Faults = {}, Inv, NEW cs \in SUBSET Writes, NEW hw \in SUBSET Writes,
           NEW answered \in BOOLEAN, BlockHandled(cs, hw, answered)
    PROVE  Oracle!Succeed(hw) \/ Oracle!Break(hw)
<1>1. hw \cap (tx \cup durable \cup saved) = {}
  BY DEF BlockHandled, Fresh, Inv, Provenance, Seen
<1> QED
  BY <1>1 DEF BlockHandled, Doubt, Inv, NoResurrection, Oracle!Succeed, Oracle!Break

LEMMA EndOfWorkStepSimulates ==
    ASSUME Faults = {}, Inv,
           CommitOk \/ CommitRefused \/ CommitLost
             \/ RollbackOk \/ SavepointOk \/ RollbackToOk
    PROVE  \/ Oracle!Commit \/ Oracle!Rollback \/ Oracle!Savepoint
           \/ Oracle!RollbackTo \/ Oracle!Break({})
<1> USE DEF Inv, Discard, Doubt, Idle
<1>1. CASE CommitOk
  BY <1>1 DEF CommitOk, Oracle!Commit
<1>2. CASE CommitRefused
  BY <1>2 DEF CommitRefused, Oracle!Break
<1>3. CASE CommitLost
  BY <1>3 DEF CommitLost, Oracle!Break
<1>4. CASE RollbackOk
  BY <1>4 DEF RollbackOk, Oracle!Rollback
<1>5. CASE SavepointOk
  BY <1>5 DEF SavepointOk, Oracle!Savepoint
<1>6. CASE RollbackToOk
  BY <1>6 DEF RollbackToOk, Oracle!RollbackTo
<1> QED
  BY <1>1, <1>2, <1>3, <1>4, <1>5, <1>6

LEMMA StepSimulates ==
    ASSUME Faults = {}, Inv, [Next]_vars
    PROVE  [Oracle!Next]_(Oracle!vars)
<1>1. CASE UNCHANGED vars
  BY <1>1 DEF vars, Oracle!vars
<1>2. CASE ConnectOk \/ ConnectFails \/ Logoff \/ HangUp \/ BackendLost \/ LossNoticed
  BY <1>2, SessionStepSimulates DEF Oracle!Next
<1>3. ASSUME NEW ws \in SUBSET Writes, StatementOk(ws) \/ Unanswered(ws)
      PROVE  Oracle!Next
  BY <1>3, StatementStepSimulates DEF Oracle!Next
<1>4. CASE StatementFails \/ Answered \/ Rejected
  BY <1>4, StatementStepSimulates DEF Oracle!Next
<1>5. ASSUME NEW cs \in SUBSET Writes, NEW hw \in SUBSET Writes,
             NEW answered \in BOOLEAN, BlockHandled(cs, hw, answered)
      PROVE  Oracle!Next
  BY <1>5, BlockStepSimulates DEF Oracle!Next
<1>6. CASE CommitOk \/ CommitRefused \/ CommitLost \/ RollbackOk
             \/ SavepointOk \/ RollbackToOk
  BY <1>6, EndOfWorkStepSimulates DEF Oracle!Next
<1> QED
  BY <1>1, <1>2, <1>3, <1>4, <1>5, <1>6 DEF Next

\* The bridge implements OracleTransaction as long as no statement fails on top of
\* work, no error is swallowed and no ROLLBACK TO has work to keep.
THEOREM ImplementsOracle ==
    ASSUME Faults = {}
    PROVE  Spec => OracleSemantics
<1>1. Init => Oracle!Init
  BY DEF Init, Oracle!Init
<1>2. Inv /\ [Next]_vars => [Oracle!Next]_(Oracle!vars)
  BY StepSimulates
<1> QED
  BY <1>1, <1>2, Invariance, PTL DEF Spec, OracleSemantics, Oracle!Spec

=============================================================================
