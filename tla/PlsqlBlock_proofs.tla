------------------------- MODULE PlsqlBlock_proofs -------------------------
(***************************************************************************)
(* For every block: what it leaves in the transaction, that no statement   *)
(* of it runs twice, and which of its statements run out of order.         *)
(***************************************************************************)
EXTENDS PlsqlBlock, SequenceTheorems, WellFoundedInduction, TLAPS

Runs == {ran[k] : k \in DOMAIN ran}

-----------------------------------------------------------------------------
(* Bodies and their statements                                             *)

\* A block's statements and their places.
LEMMA BodyFacts == ASSUME block \in Blocks
                   PROVE  /\ Len(block.body) \in Nat /\ Body = 1 .. Len(block.body)
                          /\ Select \in Nat /\ Handler = Select + 1
                          /\ \A i \in Body : i < Select /\ block.body[i] \in Kinds
<1>1. block.body \in Seq(Kinds)
  BY BlocksAssumption
<1> QED
  BY <1>1 DEF Body, Select, Handler

\* First(kind) is what its name says.
LEMMA FirstIsFirst == ASSUME block \in Blocks, NEW kind, Waiting(kind) # {}
                      PROVE  /\ First(kind) \in Of(kind) /\ First(kind) >= pc
                             /\ First(kind) \in Body /\ block.body[First(kind)] = kind
                             /\ \A j \in Of(kind) : j >= pc => First(kind) <= j
<1> DEFINE W == Waiting(kind)
<1>1. W \subseteq Nat /\ W # {}
  BY BodyFacts DEF Waiting, Of
<1>2. \E i \in W : \A j \in W : ~(<<j, i>> \in OpToRel(<, Nat))
  <2> HIDE DEF W
  <2> QED BY <1>1, NatLessThanWellFounded, WFMin, Zenon
<1>3. \E i \in W : \A j \in W : i <= j
  <2>1. OpToRel(<, Nat) = {p \in Nat \X Nat : p[1] < p[2]}
    BY Zenon DEF OpToRel
  <2>2. PICK i \in W : \A j \in W : <<j, i>> \notin {p \in Nat \X Nat : p[1] < p[2]}
    BY <1>2, <2>1, Zenon
  <2>3. \A j \in W : ~(j < i)
    <3> HIDE DEF W
    <3> SUFFICES ASSUME NEW j \in W, j < i
                 PROVE  FALSE
      OBVIOUS
    <3>1. <<j, i>> \in Nat \X Nat /\ <<j, i>>[1] = j /\ <<j, i>>[2] = i
      BY <1>1, SMT
    <3> QED BY <2>2, <3>1, Zenon
  <2> HIDE DEF W
  <2> QED
    BY <1>1, <2>3, SMT
<1>4. First(kind) \in W /\ \A j \in W : First(kind) <= j
  BY <1>3 DEF First
<1> QED
  BY <1>4, BodyFacts DEF Waiting, Of

-----------------------------------------------------------------------------
(* The runs in order                                                       *)

\* A run nobody has tried before goes behind those that were.
LEMMA OneMoreRun == ASSUME ran \in Seq(1 .. Handler), block \in Blocks, RunsOnce,
                           NEW i \in 1 .. Handler, i \notin Runs, Handler \notin Runs,
                           ran' = Append(ran, i), UNCHANGED block
                    PROVE  /\ ran' \in Seq(1 .. Handler)' /\ RunsOnce'
                           /\ Runs' = Runs \cup {i} /\ ran' # <<>>
<1>1. /\ Len(ran) \in Nat /\ DOMAIN ran = 1 .. Len(ran)
      /\ DOMAIN ran' = 1 .. Len(ran) + 1 /\ Len(ran') = Len(ran) + 1
      /\ ran'[Len(ran) + 1] = i
      /\ \A k \in 1 .. Len(ran) : ran'[k] = ran[k]
  BY DEF Handler
<1>2. Runs' = Runs \cup {i}
  BY <1>1 DEF Runs
<1>3. RunsOnce'
  BY <1>1 DEF Runs, RunsOnce, Handler
<1>4. ran' \in Seq(1 .. Handler)'
  BY DEF Handler
<1> QED
  BY <1>1, <1>2, <1>3, <1>4

-----------------------------------------------------------------------------
(* The invariant                                                           *)

Opens == Of("open")
Calls == Of("call")
Assigns == Of("assign")

\* Every statement is of a kind that is run somewhere.
Fit == Body = Opens \cup Calls \cup Assigns

\* Nothing has failed so far.
Clean == stage \in {"parse", "cursors", "calls"} \/ (stage = "answer" /\ ~caught)

\* What has been run where _execute_plsql is now.
Progress ==
    /\ stage = "parse" => Runs = {} /\ ran = <<>> /\ pc = 1
    /\ stage = "cursors" =>
         /\ Runs \subseteq Opens /\ \A i \in Runs : i < pc
         /\ \A i \in Opens : i < pc => i \in Runs
    /\ stage = "calls" =>
         /\ Opens \subseteq Runs /\ Runs \subseteq Opens \cup Calls
         /\ \A i \in Calls : i < pc <=> i \in Runs
    /\ stage = "handler" => caught /\ work = {} /\ Handler \notin Runs /\ Handler \notin undone
                            /\ Runs # {}
    /\ stage = "answer" => IF caught THEN work = OfHandler ELSE Runs = Whole
    /\ stage = "broken" => pg = "lost" /\ work = {}
    /\ pg = "lost" => stage \in {"broken", "answered", "sent"}
    /\ Clean => work = earlier \cup made /\ undone = {} /\ made = Runs

\* The cursors in their order, then the calls in theirs, then the assignments.
Ordered ==
    /\ \A i \in Opens, j \in Opens \cap Runs : i < j => i \in Runs
    /\ \A i \in Calls, j \in Calls \cap Runs : i < j => i \in Runs
    /\ Runs \cap (Calls \cup {Select}) # {} => Opens \subseteq Runs
    /\ Select \in Runs => Calls \subseteq Runs
    /\ stage \in {"cursors", "calls"} \/ Runs # {} => Fit

\* What a block has run and what it left, once it is answered.
Outcome ==
    /\ Over /\ pg # "lost" =>
         /\ reply # "error" /\ ~caught => work = earlier \cup Runs
         /\ reply = "ok" /\ ~caught => Runs = Whole
         /\ reply = "gone" /\ ~caught => Runs = Whole \/ Runs \subseteq Opens
         /\ reply = "ok" /\ caught => work = OfHandler
         /\ reply = "gone" /\ caught => work \subseteq OfHandler
         /\ reply = "error" => work \subseteq earlier
    /\ stage = "answered" /\ pg = "lost" => reply = "gone" /\ work = {}

Inv == TypeOK /\ RunsOnce /\ Progress /\ Ordered /\ Outcome

\* A block that has not been parsed has done nothing.
LEMMA InitInv == Init => Inv
<1> SUFFICES ASSUME Init PROVE Inv
  OBVIOUS
<1>1. block \in Blocks
  BY DEF Init
<1>2. Runs = {}
  BY DEF Init, Runs
<1>3. TypeOK
  <2>1. pc \in 1 .. Select /\ earlier \subseteq Changes
    BY <1>1, BodyFacts, SMT DEF Init, Changes, Select
  <2>2. <<>> \in Seq(1 .. Handler) /\ <<>> \in Seq(Of("open"))
    BY EmptySeq
  <2> QED
    BY <1>1, <2>1, <2>2, Zenon DEF Init, TypeOK, Stages, Over
<1>4. RunsOnce
  BY DEF Init, RunsOnce
<1> QED
  BY <1>1, <1>2, <1>3, <1>4 DEF Init, Inv, Progress, Ordered, Outcome, Over, Clean

-----------------------------------------------------------------------------
(* What all steps have in common                                           *)

\* A block does not change while it runs.
LEMMA SameBlock == ASSUME UNCHANGED block
                   PROVE  /\ Body' = Body /\ Select' = Select /\ Handler' = Handler
                          /\ Opens' = Opens /\ Calls' = Calls /\ Assigns' = Assigns
                          /\ Changes' = Changes /\ (Fit)' = Fit
                          /\ Whole' = Whole /\ OfHandler' = OfHandler
BY DEF Body, Select, Handler, Opens, Calls, Assigns, Of, Changes, Fit, Whole, Has, OfHandler

\* Nor does what ran, when nothing runs.
LEMMA SameRuns == ASSUME UNCHANGED <<block, ran>>, RunsOnce
                  PROVE  Runs' = Runs /\ RunsOnce'
BY DEF Runs, RunsOnce, Handler

\* The places of the statements of each kind.
LEMMA Places == ASSUME block \in Blocks
                PROVE  /\ Select \in Nat /\ Handler = Select + 1 /\ Body = 1 .. Select - 1
                       /\ Opens \subseteq Body /\ Calls \subseteq Body /\ Assigns \subseteq Body
                       /\ Opens \cap Calls = {} /\ Opens \cap Assigns = {}
                       /\ Calls \cap Assigns = {}
                       /\ Changes = 0 .. Handler
BY BodyFacts DEF Select, Opens, Calls, Assigns, Of, Changes

-----------------------------------------------------------------------------
(* The three outcomes of PgSession.run                                     *)

\* A run of a statement that has not been run.
Fresh(i) == i \in 1 .. Handler /\ i \notin Runs /\ Handler \notin Runs

\* Where all that ran succeeded, one more has.
LEMMA RunsOk == ASSUME Inv, Clean, NEW i, Fresh(i), RunOk(i), UNCHANGED <<block, earlier>>
                PROVE  /\ Runs' = Runs \cup {i} /\ RunsOnce' /\ ran' \in Seq(1 .. Handler)
                       /\ ran' # <<>> /\ work' = earlier \cup made' /\ made' = Runs'
                       /\ undone' = {} /\ work' \subseteq Changes /\ made' \subseteq Changes
                       /\ pg' = "open"
<1>1. Runs' = Runs \cup {i} /\ RunsOnce' /\ ran' \in Seq(1 .. Handler) /\ ran' # <<>>
  BY OneMoreRun, SameBlock DEF Inv, TypeOK, Fresh, RunOk
<1>2. i \in Changes
  BY Places DEF Inv, TypeOK, Fresh
<1> QED
  BY <1>1, <1>2 DEF Inv, TypeOK, Progress, RunOk

\* A run that fails rolls back everything.
LEMMA RunsFail == ASSUME Inv, NEW i, Fresh(i), RunFails(i), UNCHANGED <<block, earlier>>
                  PROVE  /\ Runs' = Runs \cup {i} /\ RunsOnce' /\ ran' \in Seq(1 .. Handler)
                         /\ ran' # <<>> /\ work' = {} /\ undone' = undone \cup work
                         /\ undone' \subseteq Changes /\ UNCHANGED <<pg, made>> /\ pg = "open"
<1>1. Runs' = Runs \cup {i} /\ RunsOnce' /\ ran' \in Seq(1 .. Handler) /\ ran' # <<>>
  BY OneMoreRun, SameBlock DEF Inv, TypeOK, Fresh, RunFails
<1> QED
  BY <1>1 DEF Inv, TypeOK, RunFails

\* What breaks keeps the order, too, if the run that did came in order.
LEMMA RunsBreak == ASSUME Inv, ~Over, NEW i, Fresh(i), RunBreaks(i),
                          UNCHANGED <<block, earlier>>,
                          Runs' = Runs \cup {i} => Ordered'
                   PROVE  Inv'
<1>1. Runs' = Runs \cup {i} /\ RunsOnce' /\ ran' \in Seq(1 .. Handler) /\ ran' # <<>>
  BY OneMoreRun, SameBlock DEF Inv, TypeOK, Fresh, RunBreaks
<1>2. TypeOK'
  <2>1. Of("open")' = Of("open") /\ Select' = Select
    BY SameBlock DEF Opens
  <2>2. reply' = "none" /\ ~Over'
    BY DEF Inv, TypeOK, Progress, RunBreaks, Over
  <2> QED
    BY <1>1, <2>1, <2>2, SameBlock DEF Inv, TypeOK, RunBreaks, Stages
<1>3. Progress'
  BY DEF Progress, Clean, RunBreaks
<1>4. Outcome'
  BY DEF Outcome, Over, RunBreaks
<1> QED
  BY <1>1, <1>2, <1>3, <1>4 DEF Inv

-----------------------------------------------------------------------------
(* Steps                                                                   *)

\* Those that run nothing.
LEMMA QuietStep == ASSUME Inv, Parse \/ Translate \/ BuildAnswer \/ Break \/ Send \/ BackendDies
                                 \/ UNCHANGED vars
                   PROVE  Inv'
<1>1. UNCHANGED <<block, earlier, work, made, undone, ran, caught, opened, shown>>
  BY DEF Parse, Translate, BuildAnswer, Break, Send, BackendDies, NotTranslated, vars
<1>2. Runs' = Runs /\ RunsOnce'
  BY <1>1, SameRuns DEF Inv
<1>3. ran # <<>> => Runs # {}
  <2>1. ran # <<>> => 1 \in DOMAIN ran
    BY EmptySeq, LenProperties DEF Inv, TypeOK
  <2> QED
    BY <2>1 DEF Runs
<1>4. TypeOK'
  <2>1. pc' \in 1 .. Select
    BY Places DEF Inv, TypeOK, Parse, Translate, BuildAnswer, Break, Send, BackendDies,
                  NotTranslated, vars
  <2>2. Of("open")' = Of("open") /\ Select' = Select
    BY <1>1, SameBlock DEF Opens
  <2>3. /\ stage' \in Stages /\ pg' \in {"open", "dead", "lost"}
        /\ (caught' => stage' \in {"handler", "answer", "answered", "sent"})
        /\ reply' \in {"none", "ok", "error", "gone"} /\ (reply' # "none" <=> Over')
    BY <1>1 DEF Inv, TypeOK, Parse, Translate, BuildAnswer, Break, Send, BackendDies,
                NotTranslated, Answer, Stages, Over, vars
  <2> QED
    BY <1>1, <2>1, <2>2, <2>3, SameBlock DEF Inv, TypeOK
<1>5. CASE Parse
  <2>1. stage' = "cursors" => Fit
    BY <1>5, BodyFacts
       DEF Parse, Answer, Supported, Has, Fit, Body, Opens, Calls, Assigns, Of, Kinds, Inv, TypeOK
  <2>2. Progress' /\ Ordered'
    BY <1>1, <1>2, <1>5, <2>1, SameBlock, Places
       DEF Parse, Answer, Inv, TypeOK, Progress, Ordered, Clean
  <2>3. Outcome'
    BY <1>1, <1>2, <1>5, SameBlock
       DEF Parse, Answer, Inv, TypeOK, Progress, Outcome, Over, Clean
  <2> QED
    BY <1>2, <1>4, <2>2, <2>3 DEF Inv
<1>6. CASE Translate
  <2>1. stage' = "calls" => Opens \subseteq Runs /\ Fit /\ Runs \subseteq Opens
    BY <1>6, Places DEF Translate, Inv, TypeOK, Progress, Ordered, Waiting, Opens
  <2>2. Progress' /\ Ordered'
    BY <1>1, <1>2, <1>6, <2>1, SameBlock, Places
       DEF Translate, NotTranslated, Answer, Inv, TypeOK, Progress, Ordered, Clean
  <2>3. Outcome'
    BY <1>1, <1>2, <1>6, SameBlock
       DEF Translate, NotTranslated, Answer, Inv, TypeOK, Progress, Outcome, Over, Clean
  <2> QED
    BY <1>2, <1>4, <2>2, <2>3 DEF Inv
<1>7. CASE BuildAnswer
  <2>1. Progress' /\ Ordered'
    BY <1>1, <1>2, <1>7, SameBlock
       DEF BuildAnswer, Answer, Inv, TypeOK, Progress, Ordered, Clean
  <2>2. Outcome'
    BY <1>1, <1>2, <1>7, SameBlock
       DEF BuildAnswer, Answer, Inv, TypeOK, Progress, Outcome, Over, Clean
  <2> QED
    BY <1>2, <1>4, <2>1, <2>2 DEF Inv
<1>8. CASE Break \/ Send \/ BackendDies \/ UNCHANGED vars
  <2>1. Progress' /\ Ordered'
    BY <1>1, <1>2, <1>8, SameBlock
       DEF Break, Send, BackendDies, vars, Answer, Inv, TypeOK, Progress, Ordered, Clean
  <2>2. Outcome'
    BY <1>1, <1>2, <1>8, SameBlock
       DEF Break, Send, BackendDies, vars, Answer, Inv, TypeOK, Progress, Outcome, Over
  <2> QED
    BY <1>2, <1>4, <2>1, <2>2 DEF Inv
<1> QED
  BY <1>5, <1>6, <1>7, <1>8


\* A call or the SELECT has failed, in order: the block ends, or its handler starts.
LEMMA CaughtInv == ASSUME Inv, stage = "calls", NEW i, Fresh(i), i # Handler, RunFails(i),
                          Catch, UNCHANGED <<block, earlier, pc, opened, shown>>,
                          Runs' = Runs \cup {i} => Ordered'
                   PROVE  Inv'
<1>1. /\ Runs' = Runs \cup {i} /\ RunsOnce' /\ ran' \in Seq(1 .. Handler)
      /\ ran' # <<>> /\ work' = {} /\ undone' = work /\ undone' \subseteq Changes
      /\ UNCHANGED <<pg, made>> /\ pg = "open"
  BY RunsFail DEF Inv, Progress, Clean
<1>2. Of("open")' = Of("open")
  BY SameBlock DEF Opens
<1>3. reply = "none" /\ caught = FALSE
  BY DEF Inv, TypeOK, Over
<1>4. TypeOK'
  <2>1. /\ stage' \in Stages /\ caught' \in BOOLEAN
        /\ (caught' => stage' \in {"handler", "answer", "answered", "sent"})
        /\ reply' \in {"none", "ok", "error", "gone"} /\ (reply' # "none" <=> Over')
    BY <1>3 DEF Catch, Answer, Stages, Over
  <2> QED
    BY <1>1, <1>2, <2>1, SameBlock DEF Inv, TypeOK
<1>5. Progress'
  <2>1. Handler \notin Runs' /\ Handler \notin undone' /\ Runs' # {}
    BY <1>1, Places DEF Fresh, Inv, TypeOK, Progress, Clean
  <2> QED
    BY <1>1, <2>1, SameBlock DEF Catch, Answer, Progress, Clean
<1>6. Outcome'
  BY <1>1, <1>3 DEF Catch, Answer, Outcome, Over
<1> QED
  BY <1>1, <1>4, <1>5, <1>6 DEF Inv

\* A CURSOR call runs, fails, breaks, or is not translated.
LEMMA OpenCursorStep == ASSUME Inv, OpenCursor
                        PROVE  Inv'
<1> DEFINE i == First("open")
<1>1. /\ i \in Opens /\ i >= pc /\ i \in Body /\ block \in Blocks
      /\ \A j \in Opens : j >= pc => i <= j
  BY FirstIsFirst DEF OpenCursor, Inv, TypeOK, Opens
<1>2. UNCHANGED <<block, earlier>> /\ stage = "cursors" /\ ~Over /\ Clean /\ Fit
      /\ reply = "none" /\ caught = FALSE
  BY DEF OpenCursor, Over, Clean, Inv, TypeOK, Ordered
<1>3. Fresh(i)
  BY <1>1, <1>2, Places DEF Fresh, Inv, TypeOK, Progress
<1>4. CASE NotTranslated
  <2>1. Runs' = Runs /\ RunsOnce'
    BY <1>2, <1>4, SameRuns DEF Inv, NotTranslated
  <2>2. Of("open")' = Of("open")
    BY <1>2, SameBlock DEF Opens
  <2>3. TypeOK'
    BY <1>2, <1>4, <2>2, SameBlock DEF NotTranslated, Answer, Inv, TypeOK, Stages, Over
  <2> QED
    BY <1>2, <1>4, <2>1, <2>3, SameBlock
       DEF NotTranslated, Answer, Inv, Progress, Ordered, Outcome, Clean
<1>5. Runs' = Runs \cup {i} => Ordered'
  <2>1. \A j \in Opens : j < i => j \in Runs
    BY <1>1, <1>2, Places DEF Inv, TypeOK, Progress
  <2>2. Runs \subseteq Opens
    BY <1>2 DEF Inv, Progress
  <2> HIDE DEF i
  <2> QED
    BY <1>1, <1>2, <2>1, <2>2, SameBlock, Places DEF Inv, Ordered
<1>6. CASE RunBreaks(i)
  BY <1>2, <1>3, <1>5, <1>6, RunsBreak
<1>7. ASSUME RunOk(i), opened' = Append(opened, i), shown' = i, pc' = i + 1,
             UNCHANGED <<stage, caught, reply>>
      PROVE  Inv'
  <2>1. /\ Runs' = Runs \cup {i} /\ RunsOnce' /\ ran' \in Seq(1 .. Handler)
        /\ ran' # <<>> /\ work' = earlier \cup made' /\ made' = Runs'
        /\ undone' = {} /\ work' \subseteq Changes /\ made' \subseteq Changes
        /\ pg' = "open"
    BY <1>2, <1>3, <1>7, RunsOk
  <2>2. Of("open")' = Of("open") /\ Of("open") = Opens
    BY <1>2, SameBlock DEF Opens
  <2>3. opened' \in Seq(Of("open")) /\ pc' \in 1 .. Select
    BY <1>1, <1>7, <2>2, Places DEF Inv, TypeOK
  <2>4. TypeOK'
    BY <1>1, <1>2, <1>7, <2>1, <2>2, <2>3, SameBlock DEF Inv, TypeOK, Over
  <2>5. Progress'
    <3> HIDE DEF i
    <3>1. i \in Nat /\ pc \in Nat /\ i >= pc /\ Opens \subseteq Nat /\ pc' = i + 1
      BY <1>1, <1>7, Places DEF Inv, TypeOK
    <3>2. /\ Runs \subseteq Opens
          /\ \A j \in Opens : j < pc <=> j \in Runs
      BY <1>2 DEF Inv, Progress
    <3>3. \A j \in Opens : j < pc' <=> j < pc \/ j = i
      BY <1>1, <3>1
    <3>4. /\ \A j \in Runs' : j < pc'
          /\ \A j \in Opens : j < pc' => j \in Runs'
          /\ Runs' \subseteq Opens
      BY <1>1, <2>1, <3>2, <3>3
    <3> QED
      BY <1>2, <1>7, <2>1, <3>4, SameBlock DEF Progress, Clean
  <2> QED
    BY <1>2, <1>5, <1>7, <2>1, <2>4, <2>5 DEF Inv, Outcome, Over
<1>8. ASSUME RunFails(i), Answer("error"), UNCHANGED <<pc, caught, opened, shown>>
      PROVE  Inv'
  <2>1. /\ Runs' = Runs \cup {i} /\ RunsOnce' /\ ran' \in Seq(1 .. Handler)
        /\ ran' # <<>> /\ work' = {} /\ undone' \subseteq Changes
        /\ UNCHANGED <<pg, made>> /\ pg = "open"
    BY <1>2, <1>3, <1>8, RunsFail
  <2>2. Of("open")' = Of("open")
    BY <1>2, SameBlock DEF Opens
  <2>3. TypeOK'
    BY <1>2, <1>8, <2>1, <2>2, SameBlock DEF Answer, Inv, TypeOK, Over, Stages
  <2> QED
    BY <1>2, <1>5, <1>8, <2>1, <2>3 DEF Answer, Inv, Progress, Outcome, Over, Clean
<1> QED
  BY <1>4, <1>6, <1>7, <1>8 DEF OpenCursor

\* A call runs, fails or breaks.
LEMMA CallStep == ASSUME Inv, Call
                  PROVE  Inv'
<1> DEFINE i == First("call")
<1>1. /\ i \in Calls /\ i >= pc /\ i \in Body /\ block \in Blocks
      /\ \A j \in Calls : j >= pc => i <= j
  BY FirstIsFirst DEF Call, Inv, TypeOK, Calls
<1>2. UNCHANGED <<block, earlier>> /\ stage = "calls" /\ ~Over /\ Clean /\ Fit
      /\ reply = "none" /\ caught = FALSE
  BY DEF Call, Over, Clean, Inv, TypeOK, Ordered
<1>3. Fresh(i)
  BY <1>1, <1>2, Places DEF Fresh, Inv, TypeOK, Progress
<1>4. Of("open")' = Of("open")
  BY <1>2, SameBlock DEF Opens
<1>5. Runs' = Runs \cup {i} => Ordered'
  BY <1>1, <1>2, SameBlock, Places DEF Inv, TypeOK, Progress, Ordered
<1>6. CASE RunBreaks(i)
  BY <1>2, <1>3, <1>5, <1>6, RunsBreak
<1>7. ASSUME RunOk(i), pc' = i + 1, UNCHANGED <<stage, caught, opened, shown, reply>>
      PROVE  Inv'
  <2>1. /\ Runs' = Runs \cup {i} /\ RunsOnce' /\ ran' \in Seq(1 .. Handler)
        /\ ran' # <<>> /\ work' = earlier \cup made' /\ made' = Runs'
        /\ undone' = {} /\ work' \subseteq Changes /\ made' \subseteq Changes
        /\ pg' = "open"
    BY <1>2, <1>3, <1>7, RunsOk
  <2>2. pc' \in 1 .. Select
    BY <1>1, <1>7, Places DEF Inv, TypeOK
  <2>3. TypeOK'
    BY <1>2, <1>4, <1>7, <2>1, <2>2, SameBlock DEF Inv, TypeOK, Over
  <2>4. Progress'
    <3> HIDE DEF i
    <3>1. i \in Nat /\ pc \in Nat /\ i >= pc /\ Calls \subseteq Nat /\ pc' = i + 1
      BY <1>1, <1>7, Places DEF Inv, TypeOK
    <3>2. /\ Opens \subseteq Runs /\ Runs \subseteq Opens \cup Calls
          /\ \A j \in Calls : j < pc <=> j \in Runs
      BY <1>2 DEF Inv, Progress
    <3>3. \A j \in Calls : j < pc' <=> j < pc \/ j = i
      BY <1>1, <3>1
    <3>4. /\ \A j \in Calls : j < pc' <=> j \in Runs'
          /\ Opens \subseteq Runs' /\ Runs' \subseteq Opens \cup Calls
      BY <1>1, <2>1, <3>2, <3>3
    <3> QED
      BY <1>2, <1>7, <2>1, <3>4, SameBlock DEF Progress, Clean
  <2> QED
    BY <1>2, <1>5, <1>7, <2>1, <2>3, <2>4 DEF Inv, Outcome, Over
<1>8. ASSUME RunFails(i), Catch, UNCHANGED <<pc, opened, shown>>
      PROVE  Inv'
  BY <1>1, <1>2, <1>3, <1>5, <1>8, Places, CaughtInv
<1> QED
  BY <1>6, <1>7, <1>8 DEF Call

\* The assignments have succeeded, or there were none.
LEMMA AnswerInv == ASSUME Inv, stage = "calls", Waiting("call") = {},
                          UNCHANGED <<block, earlier, pc, caught, opened, shown, reply>>,
                          stage' = "answer", Ordered', RunsOnce', ran' \in Seq(1 .. Handler),
                          work' = earlier \cup made', made' = Runs', undone' = {},
                          made' \subseteq Changes, pg' # "lost", pg' \in {"open", "dead"},
                          Runs' = Runs \cup (IF Assigns = {} THEN {} ELSE {Select})
                   PROVE  Inv'
<1>1. caught = FALSE /\ reply = "none"
  BY DEF Inv, TypeOK, Over
<1>2. Runs' = Whole
  <2>1. \A j \in Calls : j < pc
    BY Places DEF Inv, TypeOK, Waiting, Calls
  <2>2. Runs = Opens \cup Calls
    BY <2>1 DEF Inv, Progress
  <2> QED
    BY <2>2 DEF Whole, Opens, Calls, Assigns
<1>3. Of("open")' = Of("open")
  BY SameBlock DEF Opens
<1>4. TypeOK'
  <2>1. 0 \in Changes
    BY Places DEF Inv, TypeOK
  <2> QED
    BY <1>1, <1>3, <2>1, SameBlock DEF Inv, TypeOK, Stages, Over
<1>5. Progress'
  BY <1>1, <1>2, SameBlock DEF Progress, Clean
<1>6. Outcome'
  BY <1>1 DEF Outcome, Over
<1> QED
  BY <1>4, <1>5, <1>6 DEF Inv

\* The SELECT of the assignments runs, fails or breaks, or there is none.
LEMMA AssignStep == ASSUME Inv, Assign
                    PROVE  Inv'
<1>1. UNCHANGED <<block, earlier>> /\ stage = "calls" /\ ~Over /\ Clean /\ Fit
      /\ reply = "none" /\ caught = FALSE /\ block \in Blocks /\ Waiting("call") = {}
  BY DEF Assign, Over, Clean, Inv, TypeOK, Ordered
<1>2. Fresh(Select) /\ Select # Handler /\ Select \notin Runs
  <2>1. Runs \subseteq 1 .. Select - 1
    BY <1>1, Places DEF Inv, Progress
  <2>2. /\ Select \in 1 .. Handler /\ Select # Handler
        /\ Select \notin 1 .. Select - 1 /\ Handler \notin 1 .. Select - 1
    BY <1>1, BodyFacts DEF Select
  <2> QED
    BY <2>1, <2>2 DEF Fresh
<1>3. Runs' = Runs \cup {Select} => Ordered'
  <2>1. Opens \cup Calls \subseteq Runs
    <3>1. \A j \in Calls : j < pc
      BY <1>1, Places DEF Inv, TypeOK, Waiting, Calls
    <3> QED
      BY <1>1, <3>1 DEF Inv, Progress
  <2> QED
    BY <1>1, <2>1, SameBlock DEF Ordered
<1>4. CASE RunBreaks(Select)
  BY <1>1, <1>2, <1>3, <1>4, RunsBreak
<1>5. ASSUME Assigns # {}, RunOk(Select), stage' = "answer",
             UNCHANGED <<pc, caught, opened, shown, reply>>
      PROVE  Inv'
  <2>1. /\ Runs' = Runs \cup {Select} /\ RunsOnce' /\ ran' \in Seq(1 .. Handler)
        /\ work' = earlier \cup made' /\ made' = Runs' /\ undone' = {}
        /\ made' \subseteq Changes /\ pg' = "open"
    BY <1>1, <1>2, <1>5, RunsOk
  <2> QED
    BY <1>1, <1>3, <1>5, <2>1, AnswerInv
<1>6. ASSUME RunFails(Select), Catch, UNCHANGED <<pc, opened, shown>>
      PROVE  Inv'
  BY <1>1, <1>2, <1>3, <1>6, CaughtInv
<1>7. ASSUME Assigns = {}, stage' = "answer",
             UNCHANGED <<pc, caught, pg, work, made, undone, ran, opened, shown, reply>>
      PROVE  Inv'
  <2>1. Runs' = Runs /\ RunsOnce'
    BY <1>1, <1>7, SameRuns DEF Inv
  <2>2. Ordered'
    BY <1>1, <2>1, SameBlock DEF Inv, Ordered
  <2>3. /\ work' = earlier \cup made' /\ made' = Runs' /\ undone' = {}
        /\ made' \subseteq Changes /\ pg' \in {"open", "dead"} /\ pg' # "lost"
    BY <1>1, <1>7, <2>1 DEF Inv, TypeOK, Progress
  <2>4. ran' \in Seq(1 .. Handler)
    BY <1>7 DEF Inv, TypeOK
  <2> QED
    BY <1>1, <1>2, <1>7, <2>1, <2>2, <2>3, <2>4, AnswerInv
<1> QED
  BY <1>4, <1>5, <1>6, <1>7 DEF Assign, Assigns

\* The handler's SELECT runs, fails or breaks, or there is none.
LEMMA HandleStep == ASSUME Inv, Handle
                    PROVE  Inv'
<1>1. /\ UNCHANGED <<block, earlier>> /\ stage = "handler" /\ ~Over /\ reply = "none"
      /\ caught = TRUE /\ work = {} /\ Handler \notin undone /\ Runs # {} /\ pg # "lost"
      /\ block \in Blocks
  BY DEF Handle, Over, Inv, TypeOK, Progress
<1>2. Fresh(Handler) /\ Handler \in Changes
  BY <1>1, Places DEF Fresh, Inv, Progress
<1>3. Of("open")' = Of("open")
  BY <1>1, SameBlock DEF Opens
<1>4. Runs' = Runs \cup {Handler} => Ordered'
  BY <1>1, SameBlock, Places DEF Inv, Ordered
<1>5. CASE RunBreaks(Handler)
  BY <1>1, <1>2, <1>4, <1>5, RunsBreak
<1>6. ASSUME Has(block.handler, "assign"), RunOk(Handler), stage' = "answer",
             UNCHANGED <<pc, caught, opened, shown, reply>>
      PROVE  Inv'
  <2>1. /\ Runs' = Runs \cup {Handler} /\ RunsOnce' /\ ran' \in Seq(1 .. Handler)
    BY <1>1, <1>2, <1>6, OneMoreRun, SameBlock DEF Inv, TypeOK, Fresh, RunOk
  <2>2. TypeOK'
    BY <1>1, <1>2, <1>3, <1>6, <2>1, SameBlock DEF RunOk, Inv, TypeOK, Stages, Over
  <2> QED
    BY <1>1, <1>4, <1>6, <2>1, <2>2, SameBlock
       DEF RunOk, Inv, Progress, Outcome, Over, Clean, OfHandler
<1>7. ASSUME RunFails(Handler), Answer("error"), caught' = FALSE, UNCHANGED <<pc, opened, shown>>
      PROVE  Inv'
  <2>1. /\ Runs' = Runs \cup {Handler} /\ RunsOnce' /\ ran' \in Seq(1 .. Handler)
        /\ ran' # <<>> /\ work' = {} /\ undone' \subseteq Changes
        /\ UNCHANGED <<pg, made>> /\ pg = "open"
    BY <1>1, <1>2, <1>7, RunsFail
  <2>2. TypeOK'
    BY <1>1, <1>3, <1>7, <2>1, SameBlock DEF Answer, Inv, TypeOK, Stages, Over
  <2> QED
    BY <1>1, <1>4, <1>7, <2>1, <2>2 DEF Answer, Inv, Progress, Outcome, Over, Clean
<1>8. ASSUME NotTranslated \/ (~Has(block.handler, "assign") /\ stage' = "answer"
               /\ UNCHANGED <<pc, caught, pg, work, made, undone, ran, opened, shown, reply>>)
      PROVE  Inv'
  <2>1. Runs' = Runs /\ RunsOnce'
    BY <1>1, <1>8, SameRuns DEF Inv, NotTranslated
  <2>2. TypeOK'
    BY <1>1, <1>3, <1>8, SameBlock DEF NotTranslated, Answer, Inv, TypeOK, Stages, Over
  <2>3. Ordered'
    BY <1>1, <2>1, SameBlock DEF Inv, Ordered
  <2> QED
    BY <1>1, <1>8, <2>1, <2>2, <2>3, SameBlock
       DEF NotTranslated, Answer, Inv, Progress, Outcome, Over, Clean, OfHandler
<1> QED
  BY <1>5, <1>6, <1>7, <1>8 DEF Handle

-----------------------------------------------------------------------------
(* What holds of every block                                               *)

\* The invariant the properties follow from.
THEOREM InvHolds == Spec => []Inv
<1>1. Inv /\ [Next]_vars => Inv'
  BY QuietStep, OpenCursorStep, CallStep, AssignStep, HandleStep DEF Next
<1> QED
  BY InitInv, <1>1, PTL DEF Spec

\* The block's state keeps its types: in particular no change is both in the transaction
\* and rolled back, and only a block that is over has an answer.
THEOREM TypeCorrect == Spec => []TypeOK
<1>1. Inv => TypeOK
  BY DEF Inv
<1> QED
  BY <1>1, InvHolds, PTL

\* _execute_plsql runs no statement twice, and nothing of the body once the handler's
\* SELECT has run.
THEOREM NothingRunsTwice == Spec => []RunsOnce
<1>1. Inv => RunsOnce
  BY DEF Inv
<1> QED
  BY <1>1, InvHolds, PTL

\* Whatever a block is answered, ORA-03113 included, what it leaves in the transaction is
\* all of its changes, its handler's alone or none; or its CURSOR calls alone, when the
\* rest could not be translated (_execute_plsql, PgSession.run).
THEOREM RemnantsAreKnown == Spec => []OnlyKnownRemnants
<1>1. Inv => OnlyKnownRemnants
  <2> SUFFICES ASSUME Inv PROVE OnlyKnownRemnants
    OBVIOUS
  <2>1. Runs \cap earlier = {} /\ Handler \notin earlier
    BY Places DEF Inv, TypeOK, Runs
  <2>2. \A k \in DOMAIN ran : ran[k] \in Runs
    BY DEF Inv, TypeOK, Runs
  <2>3. OfHandler \subseteq {Handler} /\ Opens = Of("open")
    BY DEF OfHandler, Opens
  <2>4. ASSUME Over, pg = "open"
        PROVE  /\ reply # "error" /\ ~caught => earlier \subseteq work
               /\ reply = "ok" => Own = IF caught THEN OfHandler ELSE Whole
               /\ reply = "error" => Own = {}
               /\ reply = "gone" /\ caught => Own \subseteq OfHandler
               /\ reply = "gone" /\ ~caught =>
                    \/ Own = Whole
                    \/ Own \subseteq Of("open") /\ \A k \in DOMAIN ran : ran[k] \in Of("open")
    BY <2>1, <2>2, <2>3, <2>4 DEF Inv, Outcome, Own
  <2> QED
    BY <2>4 DEF Inv, Outcome, OnlyKnownRemnants, Lost
<1> QED
  BY <1>1, InvHolds, PTL

\* In every block, CURSOR calls before the rest and calls before assignments is all that
\* the bridge changes about the order of the statements.
THEOREM ReorderingsAreKnown == Spec => []OnlyKnownReorderings
<1>1. Inv => OnlyKnownReorderings
  <2> SUFFICES ASSUME Inv, NEW i \in Body, NEW j \in Body, i < j,
                      IF block.body[j] = "assign" THEN Ran(Select) ELSE Ran(j),
                      ~(IF block.body[i] = "assign" THEN Ran(Select) ELSE Ran(i))
               PROVE  \/ block.body[j] = "open" /\ block.body[i] # "open"
                      \/ block.body[j] = "call" /\ block.body[i] = "assign"
    BY DEF OnlyKnownReorderings
  <2>1. \A s : Ran(s) <=> s \in Runs
    BY DEF Ran, Runs
  <2>2. Runs # {} /\ Fit
    BY <2>1 DEF Inv, Ordered
  <2>3. i \in Opens \cup Calls \cup Assigns /\ j \in Opens \cup Calls \cup Assigns
    BY <2>2 DEF Fit
  <2>4. \A s \in Body : /\ s \in Opens <=> block.body[s] = "open"
                        /\ s \in Calls <=> block.body[s] = "call"
                        /\ s \in Assigns <=> block.body[s] = "assign"
    BY DEF Opens, Calls, Assigns, Of
  <2> QED
    BY <2>1, <2>3, <2>4 DEF Inv, Ordered
<1> QED
  BY <1>1, InvHolds, PTL

-----------------------------------------------------------------------------
(* The block as one call of the session                                    *)

\* While a block runs, what was rolled back and what is in the transaction make up the
\* earlier work and the block's; its cursors are those of different statements, and the
\* binds will show the last one.
CallInv ==
    /\ made \subseteq 1 .. Handler
    /\ ~Over /\ stage # "broken" => undone \cup work = earlier \cup made
    /\ stage = "broken" => made = {} /\ work = {} /\ caught = FALSE
    /\ ~Over /\ ~caught /\ stage # "broken" => undone = {}
    /\ stage \in {"parse", "cursors"} => Len(opened) < pc
    /\ Len(opened) <= Len(block.body)
    /\ opened # <<>> => shown = opened[Len(opened)]

\* A block that has not been parsed has opened nothing.
LEMMA InitCall == Init => CallInv
<1> SUFFICES ASSUME Init PROVE CallInv
  OBVIOUS
<1>1. Len(opened) = 0 /\ Len(block.body) \in Nat
  BY BodyFacts, EmptySeq DEF Init
<1> QED
  BY <1>1 DEF Init, CallInv, Over

\* Steps of a block keep its account.
LEMMA CallInvStep == ASSUME Inv, Inv', CallInv, [Next]_vars
                     PROVE  CallInv'
<1>1. /\ block \in Blocks /\ Handler \in Nat /\ Select \in Nat /\ Handler = Select + 1
      /\ Len(block.body) \in Nat /\ UNCHANGED <<block, earlier>> /\ Handler' = Handler
      /\ Len(opened) \in Nat /\ caught \in BOOLEAN /\ pc \in Nat
  <2>1. block \in Blocks /\ opened \in Seq(Of("open")) /\ pc \in 1 .. Select
    BY DEF Inv, TypeOK
  <2>2. UNCHANGED <<block, earlier>>
    BY DEF Next, vars, Parse, OpenCursor, Translate, Call, Assign, Handle, BuildAnswer, Break,
           Send, BackendDies
  <2>3. Select \in Nat
    BY <2>1, BodyFacts
  <2> QED
    BY <2>1, <2>2, <2>3, BodyFacts, SameBlock, LenProperties DEF Inv, TypeOK
<1>2. ASSUME NEW i \in 1 .. Handler, RunOk(i), ~Over, stage # "broken"
      PROVE  made' \subseteq 1 .. Handler /\ undone' \cup work' = earlier \cup made'
             /\ undone' = undone
  BY <1>2 DEF RunOk, CallInv
<1>3. ASSUME NEW i, RunFails(i), ~Over, stage # "broken"
      PROVE  made' \subseteq 1 .. Handler /\ undone' \cup work' = earlier \cup made'
  BY <1>3 DEF RunFails, CallInv
<1>4. ASSUME NEW i, RunBreaks(i)
      PROVE  CallInv'
  BY <1>1, <1>4 DEF RunBreaks, CallInv, Over
<1>5. CASE OpenCursor
  <2> DEFINE i == First("open")
  <2>1. /\ i \in Opens /\ i >= pc /\ i \in Body /\ i \in 1 .. Handler /\ i <= Len(block.body)
    BY <1>1, <1>5, FirstIsFirst, BodyFacts DEF OpenCursor, Opens
  <2>2. stage = "cursors" /\ ~Over /\ caught = FALSE
    BY <1>5 DEF OpenCursor, Over, Inv, TypeOK
  <2> HIDE DEF i
  <2>3. CASE RunOk(i) /\ opened' = Append(opened, i) /\ shown' = i /\ pc' = i + 1
             /\ UNCHANGED <<stage, caught, reply>>
    <3>1. Len(opened') = Len(opened) + 1 /\ opened'[Len(opened) + 1] = i
      BY <2>3 DEF Inv, TypeOK
    <3>2. Len(opened) < pc /\ Len(opened) + 1 <= i
      BY <1>1, <2>1, <2>2 DEF CallInv
    <3>3. Len(opened') < pc' /\ Len(opened') <= Len(block.body) /\ shown' = opened'[Len(opened')]
      BY <1>1, <2>1, <2>3, <3>1, <3>2 DEF Body
    <3> QED
      BY <1>1, <1>2, <2>1, <2>2, <2>3, <3>3 DEF CallInv, Over
  <2>4. CASE RunFails(i) /\ Answer("error") /\ UNCHANGED <<pc, caught, opened, shown>>
    BY <1>1, <1>3, <2>2, <2>4 DEF CallInv, Answer, Over
  <2>5. CASE NotTranslated
    BY <1>1, <2>5 DEF CallInv, NotTranslated, Answer, Over
  <2> QED
    BY <1>4, <1>5, <2>3, <2>4, <2>5 DEF OpenCursor, i
<1>6. ASSUME NEW i \in 1 .. Handler, stage = "calls",
             \/ RunOk(i) /\ UNCHANGED <<caught, opened, shown>> /\ stage' \in {"calls", "answer"}
             \/ RunFails(i) /\ Catch /\ UNCHANGED <<pc, opened, shown>>
      PROVE  CallInv'
  <2>1. ~Over /\ caught = FALSE
    BY <1>6 DEF Over, Inv, TypeOK
  <2> QED
    BY <1>1, <1>2, <1>3, <1>6, <2>1 DEF CallInv, Catch, Answer, Over
<1>7. CASE Call
  <2>1. First("call") \in 1 .. Handler
    BY <1>1, <1>7, FirstIsFirst, BodyFacts DEF Call
  <2> QED
    BY <1>4, <1>6, <1>7, <2>1 DEF Call
<1>8. CASE Assign
  <2>1. Select \in 1 .. Handler
    BY <1>1, BodyFacts DEF Select
  <2>2. CASE Of("assign") # {}
    BY <1>4, <1>6, <1>8, <2>1, <2>2 DEF Assign
  <2>3. CASE Of("assign") = {}
    BY <1>1, <1>8, <2>3 DEF Assign, CallInv, Over
  <2> QED
    BY <2>2, <2>3
<1>9. CASE Handle
  <2>1. Handler \in 1 .. Handler /\ stage = "handler" /\ ~Over /\ caught = TRUE
    BY <1>1, <1>9 DEF Handle, Over, Inv, TypeOK, Progress
  <2>2. CASE RunOk(Handler) /\ stage' = "answer" /\ UNCHANGED <<caught, opened, shown>>
    BY <1>1, <1>2, <2>1, <2>2 DEF CallInv, Over
  <2>3. CASE RunFails(Handler) /\ Answer("error") /\ UNCHANGED <<opened, shown>>
    BY <1>1, <1>3, <2>1, <2>3 DEF CallInv, Answer, Over
  <2>4. CASE NotTranslated
    BY <1>1, <2>4 DEF CallInv, NotTranslated, Answer, Over
  <2>5. CASE stage' = "answer" /\ UNCHANGED <<caught, work, made, undone, opened, shown>>
    BY <1>1, <2>1, <2>5 DEF CallInv, Over
  <2> QED
    BY <1>4, <1>9, <2>2, <2>3, <2>4, <2>5 DEF Handle
<1>10. CASE Parse \/ Translate \/ BuildAnswer \/ Break \/ Send \/ BackendDies \/ UNCHANGED vars
  <2>1. UNCHANGED <<caught, work, made, undone, opened, shown>>
    BY <1>10 DEF Parse, Translate, NotTranslated, BuildAnswer, Break, Send, BackendDies, vars
  <2>2. /\ ~Over' /\ stage' # "broken" => ~Over /\ stage # "broken"
        /\ stage' = "broken" => stage = "broken"
        /\ stage' \in {"parse", "cursors"} => stage \in {"parse", "cursors"} /\ pc' = pc
    BY <1>10 DEF Parse, Translate, NotTranslated, BuildAnswer, Break, Send, BackendDies, vars,
                 Answer, Over
  <2> QED
    BY <1>1, <2>1, <2>2 DEF CallInv
<1> QED
  BY <1>5, <1>7, <1>8, <1>9, <1>10 DEF Next

\* The results a block has opened, as Session counts them.
Buffers == [k \in 1 .. Len(opened) |-> <<opened[k]>>]

\* The block is over, with the answer r, and is shown to the client by what it has opened.
LEMMA CursorsTold == ASSUME Inv, CallInv, ~Over, Over',
                            UNCHANGED <<block, opened, shown>>
                     PROVE  /\ opened = <<>> => S!C!OtherCall({})
                            /\ opened # <<>> => /\ Buffers \in S!C!BlockResults
                                                /\ S!C!ExecuteBlock(Buffers, {}, reply' = "ok")
<1> PICK n \in Nat : n = Len(opened) /\ n <= MaxBody
  <2>1. block \in Blocks /\ opened \in Seq(Of("open")) /\ Len(opened) <= Len(block.body)
    BY DEF Inv, TypeOK, CallInv
  <2>2. Len(block.body) <= MaxBody /\ MaxBody \in Nat /\ Len(block.body) \in Nat
    BY <2>1, BodyFacts, MaxBodyAssumption
  <2> QED
    BY <2>1, <2>2, LenProperties
<1>1. /\ MaxBody \in Nat /\ DOMAIN opened = 1 .. n /\ \A k \in 1 .. n : opened[k] \in 1 .. MaxBody
  <2>1. opened \in Seq(Of("open")) /\ block \in Blocks
    BY DEF Inv, TypeOK
  <2>2. Of("open") \subseteq 1 .. MaxBody
    <3>1. Len(block.body) <= MaxBody /\ MaxBody \in Nat /\ Len(block.body) \in Nat
          /\ Body = 1 .. Len(block.body)
      BY <2>1, BodyFacts, MaxBodyAssumption
    <3> QED
      BY <3>1 DEF Of
  <2> QED
    BY <2>1, <2>2, MaxBodyAssumption
<1>2. Buffered = NoCursors /\ NextRefId = 1 /\ Shown = NoCursors /\ NextRefId' = n + 1
  <2>1. reply = "none"
    BY DEF Inv, TypeOK
  <2> QED
    BY <2>1 DEF Buffered, NextRefId, Shown
<1>3. Buffered' = [id \in 1 .. n |-> Entry(opened[id])]
  BY <1>1 DEF Buffered
<1>4. DOMAIN NoCursors = {}
  BY DEF NoCursors
<1>5. CASE opened = <<>>
  <2>1. 1 .. n = {} /\ n = 0
    BY <1>1, <1>5, EmptySeq
  <2>2. Buffered' = NoCursors /\ Shown' = NoCursors /\ NextRefId' = 1
    BY <1>2, <1>3, <1>5, <2>1 DEF NoCursors, Shown
  <2>3. S!C!Kept({}) = NoCursors
    BY <1>2, <1>4 DEF S!C!Kept, NoCursors
  <2> QED
    BY <1>2, <1>5, <2>2, <2>3 DEF S!C!OtherCall
<1>6. CASE opened # <<>>
  <2>1. n > 0 /\ Len(Buffers) = n /\ \A k \in 1 .. n : Buffers[k] = <<opened[k]>>
    BY <1>6, EmptySeq DEF Buffers, Inv, TypeOK
  <2>2. Buffers \in S!C!BlockResults
    <3>1. Buffers \in [1 .. n -> {<<i>> : i \in 1 .. MaxBody}] /\ n \in 1 .. MaxBody
      BY <1>1, <2>1 DEF Buffers
    <3> QED
      BY <3>1 DEF S!C!BlockResults
  <2>3. S!C!Opened("block", Buffers, {}) = [id \in 1 .. n |-> Entry(opened[id])]
    <3>1. \A id \in 1 .. n : [origin |-> "block", rows |-> Buffers[id - 1 + 1], pos |-> 0]
                               = Entry(opened[id])
      BY <2>1 DEF Entry
    <3>2. NextRefId .. NextRefId + Len(Buffers) - 1 = 1 .. n
         /\ (DOMAIN Buffered \ {}) \cup (1 .. n) = 1 .. n
      BY <1>2, <1>4, <2>1
    <3> QED
      BY <1>2, <3>1, <3>2 DEF S!C!Opened
  <2>4. reply' = "ok" => S!C!Told(n, Buffers[n], <<>>) = Shown'
    <3>1. Buffers[n] = <<shown>>
      BY <1>6, <2>1 DEF CallInv
    <3>2. (DOMAIN Shown) \cup {n} = {n}
      BY <1>2, <1>4
    <3>3. S!C!Told(n, <<shown>>, <<>>) = [i \in {n} |-> Seen(shown)]
      BY <3>2 DEF S!C!Told, Seen
    <3> QED
      BY <1>6, <3>1, <3>3 DEF Shown
  <2>5. reply' # "ok" => Shown' = Shown
    BY <1>2 DEF Shown
  <2>6. NextRefId + Len(Buffers) - 1 = n
    BY <1>2, <2>1
  <2> QED
    BY <1>2, <1>3, <1>6, <2>1, <2>2, <2>3, <2>4, <2>5, <2>6 DEF S!C!ExecuteBlock
<1> QED
  BY <1>5, <1>6

\* The changes blocks can make.
Writes == 0 .. MaxBody + 2

LEMMA WritesAre == ASSUME block \in Blocks
                   PROVE  Changes \subseteq Writes /\ Handler \in Nat
<1>1. /\ Len(block.body) \in Nat /\ Len(block.body) <= MaxBody /\ MaxBody \in Nat
      /\ Handler = Len(block.body) + 2
  BY BodyFacts, MaxBodyAssumption DEF Handler
<1> QED
  BY <1>1 DEF Changes, Writes

\* The block ends, with that outcome to the session's transaction.
LEMMA Ends == ASSUME Inv, CallInv, ~Over, Over', UNCHANGED <<block, opened, shown>>,
                     \/ opened = <<>> /\ S!T!Rejected
                     \/ /\ reply' # "ok"
                        /\ \/ S!T!StatementFails
                           \/ \E ws \in SUBSET Writes : S!T!Unanswered(ws)
                           \/ \E cs, hw \in SUBSET Writes : S!T!BlockHandled(cs, hw, FALSE)
                     \/ /\ reply' = "ok"
                        /\ \/ \E ws \in SUBSET Writes : S!T!StatementOk(ws)
                           \/ \E cs, hw \in SUBSET Writes : S!T!BlockHandled(cs, hw, TRUE)
              PROVE  S!ExecuteBlock({})
<1>1. Backend \in {"open", "lost"} /\ Backend' \in {"open", "lost"}
  BY DEF Backend
<1>2. S!Answer
  BY <1>1 DEF S!Answer
<1>3. CASE opened = <<>>
  <2>1. S!C!OtherCall({})
    BY <1>3, CursorsTold
  <2> QED
    BY <1>2, <2>1 DEF S!ExecuteBlock, Writes
<1>4. CASE opened # <<>> /\ reply' = "ok"
  <2>1. Buffers \in S!C!BlockResults /\ S!C!ExecuteBlock(Buffers, {}, TRUE)
    BY <1>4, CursorsTold
  <2> QED
    BY <1>2, <1>4, <2>1 DEF S!ExecuteBlock, Writes
<1>5. CASE opened # <<>> /\ reply' # "ok"
  <2>1. Buffers \in S!C!BlockResults /\ S!C!ExecuteBlock(Buffers, {}, FALSE)
    BY <1>5, CursorsTold
  <2> QED
    BY <1>1, <1>2, <1>5, <2>1 DEF S!ExecuteBlock, Writes
<1> QED
  BY <1>3, <1>4, <1>5

\* What the session sees of a block that runs.
LEMMA Running == ASSUME Inv, ~Over, stage # "broken"
                 PROVE  /\ pg # "lost" /\ Backend = "open" /\ InTransaction = earlier
                        /\ Acknowledged = earlier /\ InDoubt = {} /\ Voided = {}
                        /\ Discarded = {} /\ Buffered = NoCursors /\ NextRefId = 1
                        /\ Shown = NoCursors
<1>1. pg # "lost" /\ reply = "none"
  BY DEF Inv, TypeOK, Progress, Over
<1> QED
  BY <1>1 DEF Lost, Backend, InTransaction, Acknowledged, InDoubt, Voided, Discarded, Buffered,
              NextRefId, Shown

\* What it sees of one that is over, as long as the backend is not known to be lost.
LEMMA Answered == ASSUME Over', pg' # "lost"
                  PROVE  /\ Backend' = "open" /\ InTransaction' = work'
                         /\ Acknowledged' = CASE reply' = "ok" -> earlier' \cup made'
                                              [] reply' = "gone" -> {}
                                              [] OTHER -> earlier'
                         /\ InDoubt' = IF reply' = "gone" THEN earlier' \cup made' ELSE {}
                         /\ Voided' = IF reply' # "gone" THEN Undone' ELSE {}
                         /\ Discarded' = Undone'
BY DEF Lost, Backend, InTransaction, Acknowledged, InDoubt, Voided, Discarded

\* The block is refused before it ran.
LEMMA ParseRefines == ASSUME Inv, CallInv, Parse, Over'
                      PROVE  S!ExecuteBlock({})
<1>1. /\ ~Over /\ stage = "parse" /\ reply' = "error" /\ pg' = pg
      /\ UNCHANGED <<block, earlier, caught, work, made, undone, opened, shown>>
  BY DEF Parse, Answer, Over
<1>2. /\ work = earlier \cup made /\ undone = {} /\ made = {} /\ caught = FALSE /\ opened = <<>>
  <2>1. Len(opened) \in Nat /\ Len(opened) < 1
    BY <1>1, LenProperties DEF Inv, TypeOK, Progress, CallInv
  <2>2. opened = <<>>
    BY <2>1, EmptySeq, LenProperties DEF Inv, TypeOK
  <2> QED
    BY <1>1, <2>2 DEF Inv, TypeOK, Progress, Clean
<1>3. S!T!Rejected
  BY <1>1, <1>2, Running, Answered DEF S!T!Rejected, Undone
<1> QED
  BY <1>1, <1>2, <1>3, Ends

\* A run has failed and the client reads its error.
LEMMA FailureRefines ==
    ASSUME Inv, CallInv, NEW i, ~Over, stage # "broken", RunFails(i), caught' = FALSE,
           Answer("error"), UNCHANGED <<block, earlier, opened, shown>>
    PROVE  S!ExecuteBlock({})
<1>1. /\ Over' /\ pg' # "lost" /\ reply' = "error" /\ work' = {} /\ undone' = undone \cup work
      /\ undone \cup work = earlier \cup made /\ made' = made
  BY DEF Answer, Over, RunFails, CallInv
<1>2. Undone' = earlier
  BY <1>1 DEF Undone
<1>3. S!T!StatementFails
  BY <1>1, <1>2, Running, Answered DEF S!T!StatementFails, S!T!Discard
<1> QED
  BY <1>1, <1>3, Ends

\* The answer of a block whose statements have succeeded, or an ORA-03113 instead.
LEMMA SuccessRefines ==
    ASSUME Inv, CallInv, ~Over, stage # "broken", caught = FALSE,
           \/ Answer("ok") \/ Answer("gone"),
           UNCHANGED <<block, earlier, caught, pg, work, made, undone, opened, shown>>
    PROVE  S!ExecuteBlock({})
<1>1. /\ Over' /\ reply' \in {"ok", "gone"} /\ undone = {} /\ work = earlier \cup made
  BY DEF Answer, Over, CallInv
<1>2. Undone' = {} /\ pg' # "lost"
  BY <1>1, Running DEF Undone
<1>3. made \subseteq Writes /\ made \cap earlier = {}
  BY WritesAre DEF Inv, TypeOK, CallInv
<1>4. CASE reply' = "ok"
  <2>1. S!T!StatementOk(made)
    BY <1>1, <1>2, <1>3, <1>4, Running, Answered DEF S!T!StatementOk, S!T!Fresh, Writes
  <2> QED
    BY <1>1, <1>3, <1>4, <2>1, Ends
<1>5. CASE reply' = "gone"
  <2>1. S!T!Unanswered(made)
    BY <1>1, <1>2, <1>3, <1>5, Running, Answered DEF S!T!Unanswered, S!T!Fresh, S!T!Doubt, Writes
  <2> QED
    BY <1>1, <1>3, <1>5, <2>1, Ends
<1> QED
  BY <1>1, <1>4, <1>5

\* The same once the handler was reached: what the body made has been rolled back.
LEMMA HandledRefines ==
    ASSUME Inv, CallInv, ~Over, stage # "broken", caught = TRUE,
           \/ Answer("ok") \/ Answer("gone"),
           UNCHANGED <<block, earlier, caught, pg, work, made, undone, opened, shown>>
    PROVE  S!ExecuteBlock({})
<1> DEFINE cs == undone \ earlier
<1>1. /\ Over' /\ reply' \in {"ok", "gone"} /\ undone \cup work = earlier \cup made
  BY DEF Answer, Over, CallInv
<1>2. Undone' = undone /\ pg' # "lost"
  BY <1>1, Running DEF Undone
<1>3. work \subseteq {Handler} /\ 0 # Handler
  BY WritesAre, BodyFacts DEF Inv, TypeOK, Progress, Over, Stages, OfHandler
<1>4. /\ cs \in SUBSET Writes /\ work \in SUBSET Writes /\ cs \cap work = {}
      /\ earlier \subseteq undone /\ work \cap earlier = {}
  BY <1>1, <1>3, WritesAre DEF Inv, TypeOK
<1>5. S!T!BlockHandled(cs, work, reply' = "ok")
  <2>1. cs \cup work \subseteq Writes \ earlier
    BY <1>4
  <2> QED
    BY <1>1, <1>2, <1>4, <2>1, Running, Answered DEF S!T!BlockHandled, S!T!Fresh, S!T!Doubt, Writes
<1> QED
  BY <1>1, <1>4, <1>5, Ends

\* A run finds the backend lost, or the next call will: to the session the same.
LEMMA LossRefines == ASSUME Inv, CallInv,
                            \/ \E i : RunBreaks(i) /\ ~Over /\ stage # "broken"
                                      /\ UNCHANGED <<block, earlier>>
                            \/ Send /\ pg = "dead"
                     PROVE  S!BackendLost
<1>1. Backend = "open" /\ Backend' = "lost" /\ InTransaction' = {}
  BY DEF RunBreaks, Send, Backend, InTransaction, Lost
<1>2. CASE Send /\ pg = "dead"
  <2>1. /\ Over /\ Over' /\ pg # "lost" /\ pg' = "lost"
        /\ UNCHANGED <<earlier, caught, work, made, undone, opened, shown, reply>>
    BY <1>2 DEF Send, Over
  <2>2. Discarded' = Discarded \cup InTransaction
    BY <2>1 DEF Discarded, InTransaction, Undone, Lost
  <2>3. UNCHANGED <<Acknowledged, InDoubt, Voided, Buffered, NextRefId, Shown>>
    BY <2>1 DEF Acknowledged, InDoubt, Voided, Undone, Buffered, NextRefId, Shown
  <2> QED
    BY <1>1, <2>1, <2>2, <2>3 DEF S!BackendLost, S!T!BackendLost, S!T!Discard, S!cVars
<1>3. ASSUME NEW i, RunBreaks(i), ~Over, stage # "broken", UNCHANGED <<block, earlier>>
      PROVE  S!BackendLost
  <2>1. /\ ~Over' /\ pg' = "lost" /\ caught' = FALSE /\ work' = {} /\ undone' = undone \cup work
        /\ undone \cup work = earlier \cup made /\ UNCHANGED <<opened, shown, reply>>
    BY <1>3 DEF RunBreaks, Over, CallInv
  <2>2. Discarded' = earlier
    BY <1>3, <2>1 DEF Discarded, Undone, Lost
  <2>3. reply' = "none"
    BY <1>3, <2>1 DEF Inv, TypeOK
  <2>4. /\ Acknowledged' = earlier /\ InDoubt' = {} /\ Voided' = {}
        /\ Buffered' = NoCursors /\ NextRefId' = 1 /\ Shown' = NoCursors
    BY <1>3, <2>1, <2>3 DEF Acknowledged, InDoubt, Voided, Buffered, NextRefId, Shown
  <2> QED
    BY <1>1, <1>3, <2>1, <2>2, <2>4, Running
    DEF S!BackendLost, S!T!BackendLost, S!T!Discard, S!cVars
<1> QED
  BY <1>2, <1>3

\* A backend that was lost on the way: ORA-03113, and all is gone.
LEMMA BreakRefines == ASSUME Inv, CallInv, Break
                      PROVE  S!ExecuteBlock({})
<1>1. /\ ~Over /\ Over' /\ pg = "lost" /\ reply = "none" /\ reply' = "gone"
      /\ made = {} /\ work = {} /\ caught = FALSE
      /\ UNCHANGED <<block, earlier, caught, pg, work, made, undone, opened, shown>>
  BY DEF Break, Answer, Over, Inv, TypeOK, Progress, CallInv
<1>2. /\ Backend = "lost" /\ InTransaction = {} /\ Acknowledged = earlier /\ InDoubt = {}
      /\ Voided = {} /\ Discarded = Undone
      /\ Backend' = "lost" /\ InTransaction' = {} /\ Acknowledged' = {} /\ InDoubt' = earlier
      /\ Voided' = {} /\ Discarded' = Undone
  BY <1>1 DEF Lost, Backend, InTransaction, Acknowledged, InDoubt, Voided, Discarded, Undone
<1>3. S!T!Unanswered({})
  BY <1>1, <1>2 DEF S!T!Unanswered, S!T!Doubt
<1> QED
  BY <1>1, <1>3, Ends

\* The other steps the session does not see.
LEMMA Unseen == ASSUME Inv, ~Over, ~Over', pg # "lost", pg' # "lost", UNCHANGED <<earlier, reply>>
                PROVE  S!vars' = S!vars
<1>1. reply = "none" /\ reply' = "none"
  BY DEF Inv, TypeOK
<1> QED
  BY <1>1 DEF S!vars, S!tVars, S!cVars, Lost, Backend, InTransaction, Acknowledged, InDoubt, Voided,
              Discarded, Buffered, NextRefId, Shown

\* The outcomes of a run, to the session: nothing yet, a failure, a lost backend.
LEMMA RunRefines ==
    ASSUME Inv, CallInv, NEW i, ~Over, stage # "broken", UNCHANGED <<block, earlier>>,
           \/ RunOk(i) /\ ~Over' /\ UNCHANGED reply
           \/ RunFails(i) /\ ~Over' /\ UNCHANGED reply
           \/ RunFails(i) /\ Answer("error") /\ caught' = FALSE
              /\ UNCHANGED <<opened, shown>>
           \/ RunBreaks(i)
    PROVE  S!vars' # S!vars => S!ExecuteBlock({}) \/ S!BackendLost
<1>1. CASE (RunOk(i) \/ RunFails(i)) /\ ~Over' /\ UNCHANGED reply
  <2>1. pg # "lost" /\ pg' # "lost"
    BY <1>1 DEF RunOk, RunFails
  <2> QED
    BY <1>1, <2>1, Unseen
<1>2. CASE RunFails(i) /\ Answer("error") /\ caught' = FALSE /\ UNCHANGED <<opened, shown>>
  BY <1>2, FailureRefines
<1>3. CASE RunBreaks(i)
  BY <1>3, LossRefines
<1> QED
  BY <1>1, <1>2, <1>3

\* Every step of a block, to the session.
LEMMA StepRefines == ASSUME Inv, CallInv, [Next]_vars
                     PROVE  S!vars' # S!vars => S!ExecuteBlock({}) \/ S!BackendLost
<1>1. ~Over /\ stage # "broken" => pg # "lost" /\ reply = "none"
  BY DEF Inv, TypeOK, Progress, Over
<1>2. CASE Parse
  <2>1. CASE Over'
    BY <1>2, <2>1, ParseRefines
  <2>2. CASE ~Over'
    BY <1>1, <1>2, <2>2, Unseen DEF Parse, Answer, Over
  <2> QED
    BY <2>1, <2>2
<1>3. CASE OpenCursor
  <2>1. stage = "cursors" /\ ~Over /\ caught = FALSE /\ UNCHANGED <<block, earlier>>
    BY <1>3 DEF OpenCursor, Over, Inv, TypeOK
  <2>2. CASE NotTranslated
    BY <2>1, <2>2, SuccessRefines DEF NotTranslated
  <2>3. CASE ~NotTranslated
    BY <1>3, <2>1, <2>3, RunRefines DEF OpenCursor, Over
  <2> QED
    BY <2>2, <2>3
<1>4. CASE Translate
  <2>1. stage = "cursors" /\ ~Over /\ caught = FALSE /\ UNCHANGED <<block, earlier>>
    BY <1>4 DEF Translate, Over, Inv, TypeOK
  <2>2. CASE NotTranslated
    BY <2>1, <2>2, SuccessRefines DEF NotTranslated
  <2>3. CASE ~NotTranslated
    BY <1>1, <1>4, <2>1, <2>3, Unseen DEF Translate, Over
  <2> QED
    BY <2>2, <2>3
<1>5. ASSUME NEW i, stage = "calls", UNCHANGED <<block, earlier>>,
             \/ RunOk(i) /\ stage' \in {"calls", "answer"} /\ UNCHANGED reply
             \/ RunFails(i) /\ Catch /\ UNCHANGED <<opened, shown>>
             \/ RunBreaks(i)
      PROVE  S!vars' # S!vars => S!ExecuteBlock({}) \/ S!BackendLost
  <2>1. ~Over /\ caught = FALSE
    BY <1>5 DEF Over, Inv, TypeOK
  <2> QED
    BY <1>5, <2>1, RunRefines DEF Catch, Over
<1>6. CASE Call
  BY <1>5, <1>6 DEF Call
<1>7. CASE Assign
  <2>1. CASE Of("assign") # {}
    BY <1>5, <1>7, <2>1 DEF Assign
  <2>2. CASE Of("assign") = {}
    BY <1>1, <1>7, <2>2, Unseen DEF Assign, Over
  <2> QED
    BY <2>1, <2>2
<1>8. CASE Handle
  <2>1. stage = "handler" /\ ~Over /\ caught = TRUE /\ UNCHANGED <<block, earlier>>
    BY <1>8 DEF Handle, Over, Inv, Progress
  <2>2. CASE NotTranslated
    BY <2>1, <2>2, HandledRefines DEF NotTranslated
  <2>3. CASE ~NotTranslated /\ Has(block.handler, "assign")
    BY <1>8, <2>1, <2>3, RunRefines DEF Handle, Over
  <2>4. CASE ~Has(block.handler, "assign")
    BY <1>1, <1>8, <2>1, <2>4, Unseen DEF Handle, Over
  <2> QED
    BY <2>2, <2>3, <2>4
<1>9. CASE BuildAnswer
  <2>1. /\ ~Over /\ stage # "broken" /\ caught \in BOOLEAN /\ (Answer("ok") \/ Answer("gone"))
        /\ UNCHANGED <<block, earlier, caught, pg, work, made, undone, opened, shown>>
    BY <1>9 DEF BuildAnswer, Over, Inv, TypeOK
  <2> QED
    BY <2>1, SuccessRefines, HandledRefines
<1>10. CASE Break
  BY <1>10, BreakRefines
<1>11. CASE Send /\ pg = "dead"
  BY <1>11, LossRefines
<1>12. CASE (Send /\ pg # "dead") \/ BackendDies \/ UNCHANGED vars
  <2>1. /\ Over' = Over /\ Lost' = Lost
        /\ UNCHANGED <<earlier, caught, work, made, undone, opened, shown, reply>>
    BY <1>12 DEF Send, BackendDies, vars, Over, Lost
  <2> QED
    BY <2>1 DEF S!vars, S!tVars, S!cVars, Backend, InTransaction, Acknowledged, InDoubt, Undone,
                Voided, Discarded, Buffered, NextRefId, Shown
<1> QED
  BY <1>2, <1>3, <1>4, <1>6, <1>7, <1>8, <1>9, <1>10, <1>11, <1>12 DEF Next

\* Whatever becomes of its statements, its handler and the backend, to the session every
\* block is one call, a step of ExecuteBlock whose CURSOR binds show what was opened last.
THEOREM BlocksAreOneCall == Spec => BlockIsOneCall
<1>1. Inv /\ Inv' /\ CallInv /\ [Next]_vars => CallInv'
  BY CallInvStep
<1>2. Inv /\ CallInv /\ [Next]_vars =>
        [S!vars' # S!vars => S!ExecuteBlock({}) \/ S!BackendLost]_vars
  BY StepRefines
<1> QED
  BY InvHolds, InitCall, <1>1, <1>2, PTL DEF Spec, BlockIsOneCall
=============================================================================
