-------------------------- MODULE ProxyLoop_proofs --------------------------
(***************************************************************************)
(* Safety of the shared event loop, for any number of clients and rows:    *)
(* each packet is handled once, locks belong to live sessions, and without *)
(* an idle timeout a stall is final.  The latter is why                    *)
(* EveryRequestIsAnswered needs IdleTimeout.                               *)
(***************************************************************************)
EXTENDS ProxyLoop, SequenceTheorems, TLAPS

Inv == TypeOK /\ LocksAreLive /\ OnePacketEach

LEMMA InitInv == Init => Inv
<1> SUFFICES ASSUME Init
             PROVE  Inv
  OBVIOUS
<1>1. <<>> \in Seq(Clients) /\ Len(<<>>) = 0
  OBVIOUS
<1>2. TypeOK
  BY <1>1 DEF Init, TypeOK
<1>3. LocksAreLive
  BY DEF Init, LocksAreLive
<1>4. OnePacketEach
  BY <1>1 DEF Init, OnePacketEach
<1> QED
  BY <1>2, <1>3, <1>4 DEF Inv

\* The rows of a client are free once it is done with them; nobody else's are touched.
LEMMA ReleasedOwners ==
    ASSUME TypeOK, NEW c \in Clients
    PROVE  /\ Released(c) \in [Rows -> Clients \cup {NoClient}]
           /\ \A r \in Rows : Released(c)[r] # NoClient =>
                Released(c)[r] = owner[r] /\ owner[r] # c
  BY DEF TypeOK, Released

\* A packet is queued.
LEMMA SendInv ==
    ASSUME Inv, NEW c \in Clients, NEW what \in Rows \cup {"end", "leave"}, Send(c, what)
    PROVE  Inv'
<1> USE DEF Inv, TypeOK, Send
<1>1. what # "none"
  BY RowsAssumption
<1>2. /\ ready' \in Seq(Clients)
      /\ Len(ready') = Len(ready) + 1
      /\ \A i \in 1 .. Len(ready) : ready'[i] = ready[i] /\ ready[i] \in Clients
      /\ ready'[Len(ready) + 1] = c
  BY AppendProperties
<1>3. TypeOK' /\ LocksAreLive'
  BY <1>2 DEF LocksAreLive
<1>4. \A i \in 1 .. Len(ready) : ready[i] # c
  BY DEF OnePacketEach
<1>5. c # running
  BY NoClientAssumption DEF OnePacketEach
<1>6. OnePacketEach'
  <2>1. \A i \in 1 .. Len(ready') : i = Len(ready) + 1 \/ i \in 1 .. Len(ready)
    BY <1>2, LenProperties
  <2> QED
    BY <1>1, <1>2, <1>4, <1>5, <2>1 DEF OnePacketEach
<1> QED
  BY <1>3, <1>6

\* The first packet of the queue is taken.
LEMMA ResumeInv ==
    ASSUME Inv, Resume
    PROVE  Inv'
<1> USE DEF Inv, TypeOK, Resume
<1>1. /\ running' = ready[1] /\ ready[1] \in Clients
      /\ ready' \in Seq(Clients)
      /\ Len(ready') = Len(ready) - 1
      /\ \A i \in 1 .. Len(ready') : ready'[i] = ready[i + 1]
  BY HeadTailProperties, LenProperties
<1>2. TypeOK' /\ LocksAreLive'
  BY <1>1 DEF LocksAreLive
<1>3. Len(ready) \in Nat /\ Len(ready) # 0
  BY LenProperties, EmptySeq
<1>4. OnePacketEach'
  BY <1>1, <1>3 DEF OnePacketEach
<1> QED
  BY <1>2, <1>4

\* Whoever is done was not in the queue.
LEMMA DoneOnePacketEach ==
    ASSUME Inv, NEW c \in Clients, running = c, Done(c), UNCHANGED ready
    PROVE  OnePacketEach'
<1>1. \A i \in 1 .. Len(ready) : ready[i] \in Clients
  BY DEF Inv, TypeOK
<1> QED
  BY <1>1, NoClientAssumption DEF Inv, TypeOK, OnePacketEach, Done

\* A handler returns.
LEMMA HandleInv ==
    ASSUME Inv, NEW c \in Clients, Handle(c)
    PROVE  Inv'
<1>1. OnePacketEach'
  BY DoneOnePacketEach DEF Handle, Write, EndTransaction, CallOnKilled, Leave
<1>2. TypeOK' /\ LocksAreLive'
  <2> USE NoClientAssumption DEF Inv, TypeOK, LocksAreLive, Done
  <2>1. CASE Write(c)
    BY <2>1 DEF Write
  <2>2. CASE EndTransaction(c)
    BY <2>2, ReleasedOwners DEF EndTransaction
  <2>3. CASE CallOnKilled(c)
    BY <2>3 DEF CallOnKilled
  <2>4. CASE Leave(c)
    BY <2>4, ReleasedOwners DEF Leave
  <2> QED
    BY <2>1, <2>2, <2>3, <2>4 DEF Handle
<1> QED
  BY <1>1, <1>2 DEF Inv

\* PostgreSQL terminates an idle transaction.
LEMMA KillIdleInv ==
    ASSUME Inv, NEW c \in Clients, KillIdle(c)
    PROVE  Inv'
  BY ReleasedOwners, NoClientAssumption
     DEF Inv, TypeOK, LocksAreLive, OnePacketEach, KillIdle

LEMMA StepInv == Inv /\ [Next]_vars => Inv'
<1> SUFFICES ASSUME Inv, [Next]_vars
             PROVE  Inv'
  OBVIOUS
<1>1. CASE UNCHANGED vars
  BY <1>1 DEF vars, Inv, TypeOK, LocksAreLive, OnePacketEach
<1>2. CASE Next
  BY <1>2, SendInv, ResumeInv, HandleInv, KillIdleInv DEF Next
<1> QED
  BY <1>1, <1>2

\* The invariant the other theorems are read off from.
THEOREM Invariance == Spec => []Inv
  BY InitInv, StepInv, PTL DEF Spec

\* No row stays locked by a client that left or whose backend was terminated.
THEOREM LocksHaveLiveOwners == Spec => []LocksAreLive
<1>1. Inv => LocksAreLive
  BY DEF Inv
<1> QED
  BY <1>1, Invariance, PTL

\* Every packet is handled once.
THEOREM PacketsAreHandledOnce == Spec => []OnePacketEach
<1>1. Inv => OnePacketEach
  BY DEF Inv
<1> QED
  BY <1>1, Invariance, PTL

\* The variables keep their types.
THEOREM TypeCorrect == Spec => []TypeOK
<1>1. Inv => TypeOK
  BY DEF Inv
<1> QED
  BY <1>1, Invariance, PTL

-----------------------------------------------------------------------------
LEMMA StallPersists ==
    ASSUME IdleTimeout = FALSE, TypeOK, Stalled, Next
    PROVE  Stalled'
<1> USE NoClientAssumption, RowsAssumption DEF Stalled
<1>1. request[running] \notin {"none", "end", "leave"}
  OBVIOUS
<1>2. ASSUME NEW c \in Clients, NEW what \in Rows \cup {"end", "leave"}, Send(c, what)
      PROVE  Stalled'
  <2>1. c # running
    BY <1>1, <1>2 DEF Send
  <2> QED
    BY <1>2, <2>1 DEF Send, TypeOK
<1>3. ~Resume
  BY DEF Resume
<1>4. ASSUME NEW c \in Clients
      PROVE  ~Handle(c)
  BY <1>1 DEF Handle, Write, EndTransaction, CallOnKilled, Leave
<1>5. ASSUME NEW c \in Clients
      PROVE  ~KillIdle(c)
  BY DEF KillIdle
<1> QED
  BY <1>2, <1>3, <1>4, <1>5 DEF Next

\* Nothing any client does ends a stall: only PostgreSQL's idle timeout can.
THEOREM StallsPersist ==
    ASSUME IdleTimeout = FALSE
    PROVE  Spec => StallsAreForever
<1>1. Inv /\ [Next]_vars => [Stalled => Stalled']_vars
  BY StallPersists DEF Inv
<1> QED
  BY <1>1, Invariance, PTL DEF Spec, StallsAreForever

=============================================================================
