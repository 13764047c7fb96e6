------------------------ MODULE ReasoningLoop_proofs ------------------------
(***************************************************************************)
(* ReasoningLoop for any number of runs, run_ids, limits and batch sizes:  *)
(* type correctness and the exact step limit, then what the runs read from *)
(* and leave in their memory, and what they execute.                       *)
(*                                                                         *)
(* StepLimit is not inductive: that MaxStepsExceeded comes after exactly   *)
(* max_steps answers depends on the AgentState counting the answers while  *)
(* the run is anywhere in the loop, and on a run in the loop not having    *)
(* returned.  Counting says so.  Each of the later properties is inductive *)
(* together with it; for what is executed, ExecutionsCounted adds the call *)
(* that is under way.  EveryCallObserved speaks of the moment at which a   *)
(* batch is over: Observed says in the middle of one that what has been    *)
(* observed and what is pending are together what was asked for.           *)
(***************************************************************************)
EXTENDS ReasoningLoop, FiniteSetTheorems, TLAPS

\* The AgentState of a run at each of its awaits, and what the run has returned.
CountingOf(r) ==
    /\ pc[r] \in {"idle", "loading"} => state[r] = A!Idle /\ asked[r] = 0
    /\ pc[r] \in {"thinking", "saving"} => state[r] = A!Reasoning(asked[r])
    /\ pc[r] \in {"acting", "executing"} => state[r] = A!CallingTool(asked[r])
    /\ pc[r] \in {"thinking", "acting", "executing", "saving"} =>
          asked[r] > 0
    /\ pc[r] = "executing" => pending[r] # <<>>
    /\ pc[r] # "returned" => output[r].kind = "none"
    /\ asked[r] <= limit[r]
    /\ output[r].kind # "ConfigurationError"
    /\ output[r].kind = "MaxStepsExceeded" => asked[r] = limit[r]
    /\ output[r].kind = "Ok" => output[r].steps = asked[r] /\ asked[r] > 0

Counting == \A r \in Runs : CountingOf(r)

IInv == TypeOK /\ Counting

-----------------------------------------------------------------------------
(* The AgentState along the loop *)

LEMMA FirstState ==
    /\ A!Idle \in A!States /\ A!Idle.step = 0
    /\ A!Start(A!Idle) = A!Reasoning(1)
  BY DEF A!Start, A!Idle, A!States

LEMMA LoopStates ==
    ASSUME NEW k \in Nat
    PROVE  /\ A!Reasoning(k) \in A!States /\ A!CallingTool(k) \in A!States
           /\ A!Reasoning(k).step = k /\ A!CallingTool(k).step = k
           /\ A!Reasoning(k) # A!Invalid /\ A!CallingTool(k) # A!Invalid
           /\ A!CallTool(A!Reasoning(k)) = A!CallingTool(k)
           /\ A!ContinueReasoning(A!ToolDone(A!CallingTool(k))) = A!Reasoning(k + 1)
  BY DEF A!Reasoning, A!CallingTool, A!Observing, A!States, A!Active, A!Invalid,
         A!CallTool, A!ContinueReasoning, A!ToolDone

LEMMA StepIsNat == ASSUME NEW s \in A!States PROVE s.step \in Nat
  BY DEF A!States, A!Idle, A!Finished, A!Failed

\* A batch is a sequence of call kinds.
LEMMA BatchesAreSequences ==
    ASSUME NEW r \in Runs, NEW calls \in Batches(r)
    PROVE  calls \in Seq(CallKinds)
  BY MaxBatchAssumption DEF Batches

-----------------------------------------------------------------------------
(* Initially no run has begun *)

LEMMA InitEstablishes == Init => IInv
<1> SUFFICES ASSUME Init PROVE IInv
  OBVIOUS
<1>1. \A r \in Runs : limit[r] \in Nat
  BY LimitsAssumption DEF Init
<1>2. TypeOK
  <2>1. state \in [Runs -> A!States] /\ \A r \in Runs : state[r].step <= limit[r] + 1
    BY <1>1, FirstState DEF Init
  <2>2. output \in [Runs -> Outputs]
    BY DEF Init, Output, Outputs
  <2> QED
    BY <2>1, <2>2 DEF Init, TypeOK, PCs
<1>3. ASSUME NEW r \in Runs PROVE CountingOf(r)
  BY <1>1 DEF Init, CountingOf, Output
<1> QED
  BY <1>2, <1>3 DEF IInv, Counting

-----------------------------------------------------------------------------
(* One lemma for each group of actions *)

\* A step of r disturbs no other run.
LEMMA OthersKeepCounting ==
    ASSUME TypeOK, NEW r \in Runs, NEW q \in Runs, q # r, CountingOf(q),
           pc'[q] = pc[q], state'[q] = state[q], asked'[q] = asked[q],
           limit' = limit, pending'[q] = pending[q], output'[q] = output[q]
    PROVE  CountingOf(q)'
  BY DEF CountingOf

\* A run that gives up, with an error that the step limit does not speak of.
LEMMA GivingUp ==
    ASSUME IInv, NEW r \in Runs, NEW kind \in Errors \ {"ConfigurationError", "MaxStepsExceeded"},
           Return(r, kind, 0),
           UNCHANGED <<id, limit, state, history, pending, records, store,
                       asked, requested, executed>>,
           messages' \in [Runs -> Seq(Messages)]
    PROVE  IInv'
<1>1. TypeOK'
  <2>1. output' \in [Runs -> Outputs] /\ pc' \in [Runs -> PCs]
    BY DEF IInv, TypeOK, Return, Goto, Output, Outputs, Errors, PCs
  <2> QED
    BY <2>1 DEF IInv, TypeOK
<1>2. ASSUME NEW q \in Runs PROVE CountingOf(q)'
  <2>1. CASE q # r
    BY <2>1, OthersKeepCounting DEF IInv, TypeOK, Counting, Return, Goto
  <2>2. CASE q = r
    BY <2>2 DEF IInv, TypeOK, Counting, CountingOf, Return, Goto, Output, Errors
  <2> QED
    BY <2>1, <2>2
<1> QED
  BY <1>1, <1>2 DEF IInv, Counting

\* A run that reaches the top of the loop, the provider having been asked as often as
\* the AgentState says.
LEMMA AtLoopTop ==
    ASSUME IInv, NEW r \in Runs, pc[r] # "returned",
           LoopTop(r, A!Reasoning(asked[r] + 1)),
           UNCHANGED <<id, limit, pending, records, store, requested, executed>>,
           history' \in [Runs -> Nat], messages' \in [Runs -> Seq(Messages)]
    PROVE  IInv'
<1> DEFINE k == asked[r] + 1
<1>1. /\ asked[r] \in Nat /\ k \in Nat /\ limit[r] \in Nat /\ asked[r] <= limit[r]
      /\ output[r].kind = "none"
  <2>1. asked[r] \in Nat /\ limit[r] \in Nat
    BY LimitsAssumption DEF IInv, TypeOK
  <2>2. asked[r] <= limit[r] /\ output[r].kind = "none"
    BY DEF IInv, Counting, CountingOf
  <2> QED
    BY <2>1, <2>2
<1>2. /\ A!Reasoning(k) \in A!States /\ A!Reasoning(k).step = k
      /\ A!Reasoning(k) # A!Invalid
  BY <1>1, LoopStates
<1> HIDE DEF k
<1>3. /\ state' = [state EXCEPT ![r] = A!Reasoning(k)]
      /\ \/ /\ k <= limit[r]
            /\ Goto(r, "thinking")
            /\ asked' = [asked EXCEPT ![r] = k]
            /\ UNCHANGED output
         \/ k > limit[r] /\ Return(r, "MaxStepsExceeded", 0) /\ UNCHANGED asked
  BY <1>1, <1>2 DEF LoopTop, WithinLimit, k
<1>4. TypeOK'
  <2>1. pc' \in [Runs -> PCs]
    BY <1>3 DEF IInv, TypeOK, Return, Goto, PCs
  <2>2. output' \in [Runs -> Outputs]
    <3>1. Output("MaxStepsExceeded", 0) \in Outputs
      BY DEF Output, Outputs, Errors
    <3> QED
      BY <1>3, <3>1 DEF IInv, TypeOK, Return
  <2>3. state' \in [Runs -> A!States] /\ asked' \in [Runs -> Nat]
    BY <1>1, <1>2, <1>3 DEF IInv, TypeOK
  <2>4. ASSUME NEW q \in Runs PROVE state'[q].step <= limit'[q] + 1
    <3>1. CASE q = r
      BY <1>1, <1>2, <1>3, <3>1 DEF IInv, TypeOK, k
    <3>2. CASE q # r
      BY <1>3, <3>2 DEF IInv, TypeOK
    <3> QED
      BY <3>1, <3>2
  <2> QED
    BY <2>1, <2>2, <2>3, <2>4 DEF IInv, TypeOK
<1>5. ASSUME NEW q \in Runs PROVE CountingOf(q)'
  <2>1. CASE q # r
    BY <1>3, <2>1, OthersKeepCounting DEF IInv, TypeOK, Counting, Return, Goto
  <2>2. CASE q = r
    BY <1>1, <1>2, <1>3, <2>2
       DEF IInv, TypeOK, Counting, CountingOf, Return, Goto, Output, k
  <2> QED
    BY <2>1, <2>2
<1> QED
  BY <1>4, <1>5 DEF IInv, Counting

\* Hear adds at most one message.
LEMMA HearKeepsType ==
    ASSUME IInv, NEW r \in Runs, NEW text \in BOOLEAN, Hear(r, text), pc[r] = "thinking"
    PROVE  messages' \in [Runs -> Seq(Messages)]
<1>1. state[r].step \in Nat
  BY StepIsNat DEF IInv, TypeOK
<1>2. Message("assistant", r, state[r].step) \in Messages
  BY <1>1 DEF Message, Messages
<1> QED
  BY <1>2 DEF IInv, TypeOK, Hear

-----------------------------------------------------------------------------
(* One lemma for each action *)

LEMMA BeginKeeps == ASSUME IInv, NEW r \in Runs, Begin(r) PROVE IInv'
<1>1. TypeOK'
  BY DEF IInv, TypeOK, Begin, Goto, PCs
<1>2. ASSUME NEW q \in Runs PROVE CountingOf(q)'
  <2>1. CASE q # r
    BY <2>1, OthersKeepCounting DEF IInv, TypeOK, Counting, Begin, Goto
  <2>2. CASE q = r
    BY <2>2 DEF IInv, TypeOK, Counting, CountingOf, Begin, Goto
  <2> QED
    BY <2>1, <2>2
<1> QED
  BY <1>1, <1>2 DEF IInv, Counting

LEMMA LoadKeeps == ASSUME IInv, NEW r \in Runs, Load(r) PROVE IInv'
<1>1. state[r] = A!Idle /\ asked[r] = 0
  BY DEF IInv, Counting, CountingOf, Load
<1>2. LoopTop(r, A!Reasoning(asked[r] + 1))
  BY <1>1, FirstState DEF Load
<1>3. history' \in [Runs -> Nat] /\ messages' \in [Runs -> Seq(Messages)]
  <2>1. store[id[r]] \in Seq(Messages) /\ Message("user", r, 0) \in Messages
    BY DEF IInv, TypeOK, Message, Messages
  <2> QED
    BY <2>1 DEF IInv, TypeOK, Load
<1> QED
  BY <1>2, <1>3, AtLoopTop DEF Load

LEMMA LoadFailsKeeps == ASSUME IInv, NEW r \in Runs, LoadFails(r) PROVE IInv'
  BY GivingUp DEF LoadFails, IInv, TypeOK, Errors

LEMMA ProviderFailsKeeps == ASSUME IInv, NEW r \in Runs, ProviderFails(r) PROVE IInv'
  BY GivingUp DEF ProviderFails, IInv, TypeOK, Errors

LEMMA SaveFailsKeeps == ASSUME IInv, NEW r \in Runs, SaveFails(r) PROVE IInv'
  BY GivingUp DEF SaveFails, IInv, TypeOK, Errors

LEMMA CancelKeeps == ASSUME IInv, NEW r \in Runs, Cancel(r) PROVE IInv'
  BY GivingUp DEF Cancel, IInv, TypeOK, Errors

LEMMA OutOfTokensKeeps ==
    ASSUME IInv, NEW r \in Runs, NEW text \in BOOLEAN, OutOfTokens(r, text)
    PROVE  IInv'
  BY GivingUp, HearKeepsType DEF OutOfTokens, Errors

LEMMA FinalAnswerKeeps ==
    ASSUME IInv, NEW r \in Runs, NEW text \in BOOLEAN, FinalAnswer(r, text)
    PROVE  IInv'
<1>1. TypeOK'
  BY HearKeepsType DEF IInv, TypeOK, FinalAnswer, Goto, PCs
<1>2. ASSUME NEW q \in Runs PROVE CountingOf(q)'
  <2>1. CASE q # r
    BY <2>1, OthersKeepCounting DEF IInv, TypeOK, Counting, FinalAnswer, Goto
  <2>2. CASE q = r
    BY <2>2 DEF IInv, TypeOK, Counting, CountingOf, FinalAnswer, Goto
  <2> QED
    BY <2>1, <2>2
<1> QED
  BY <1>1, <1>2 DEF IInv, Counting

\* The response to the provider call asks for tools: the AgentState lets it.
LEMMA ToolUseKeeps ==
    ASSUME IInv, NEW r \in Runs, NEW text \in BOOLEAN, NEW calls \in Batches(r),
           ToolUse(r, text, calls)
    PROVE  IInv'
<1>1. pc[r] = "thinking" /\ state[r] = A!Reasoning(asked[r]) /\ asked[r] \in Nat
  BY DEF IInv, TypeOK, Counting, CountingOf, ToolUse
<1>2. /\ A!CallTool(state[r]) = A!CallingTool(asked[r])
      /\ A!CallingTool(asked[r]) # A!Invalid
      /\ A!CallingTool(asked[r]) \in A!States
      /\ A!CallingTool(asked[r]).step = state[r].step
  BY <1>1, LoopStates
<1>3. /\ state' = [state EXCEPT ![r] = A!CallingTool(asked[r])]
      /\ pending' = [pending EXCEPT ![r] = calls]
      /\ requested' = [requested EXCEPT ![r] = @ + Len(calls)]
      /\ pc' = [pc EXCEPT ![r] = "acting"]
      /\ UNCHANGED output
  BY <1>2 DEF ToolUse, Goto
<1>4. TypeOK'
  <2>1. calls \in Seq(CallKinds) /\ Len(calls) \in Nat
    BY BatchesAreSequences
  <2>2. /\ pending' \in [Runs -> Seq(CallKinds)] /\ requested' \in [Runs -> Nat]
        /\ pc' \in [Runs -> PCs] /\ state' \in [Runs -> A!States]
    BY <1>2, <1>3, <2>1 DEF IInv, TypeOK, PCs
  <2>3. \A q \in Runs : state'[q].step = state[q].step
    BY <1>2, <1>3 DEF IInv, TypeOK
  <2>4. messages' \in [Runs -> Seq(Messages)]
    BY HearKeepsType, <1>1 DEF ToolUse
  <2> QED
    BY <1>3, <2>2, <2>3, <2>4 DEF IInv, TypeOK, ToolUse
<1>5. ASSUME NEW q \in Runs PROVE CountingOf(q)'
  <2>1. CASE q # r
    <3>1. /\ pc'[q] = pc[q] /\ state'[q] = state[q] /\ asked' = asked
          /\ limit' = limit /\ pending'[q] = pending[q] /\ output' = output
      BY <1>3, <2>1 DEF IInv, TypeOK, ToolUse
    <3> QED
      BY <2>1, <3>1, OthersKeepCounting DEF IInv, Counting
  <2>2. CASE q = r
    <3>1. /\ pc'[q] = "acting" /\ state'[q] = A!CallingTool(asked[q])
          /\ asked' = asked /\ limit' = limit /\ output' = output
      BY <1>3, <2>2 DEF IInv, TypeOK, ToolUse
    <3> QED
      BY <1>1, <2>2, <3>1 DEF IInv, Counting, CountingOf
  <2> QED
    BY <2>1, <2>2
<1> QED
  BY <1>4, <1>5 DEF IInv, Counting

LEMMA ObserveKeepsType ==
    ASSUME IInv, NEW r \in Runs, pending[r] # <<>>, NEW ok \in BOOLEAN,
           Observe(r, Head(pending[r]), ok)
    PROVE  /\ records' \in [Runs -> Seq(Records)]
           /\ messages' \in [Runs -> Seq(Messages)]
           /\ pending' \in [Runs -> Seq(CallKinds)]
<1>1. pending[r] \in Seq(CallKinds) /\ records[r] \in Seq(Records)
  BY DEF IInv, TypeOK
<1>2. /\ Head(pending[r]) \in CallKinds /\ Tail(pending[r]) \in Seq(CallKinds)
      /\ Len(records[r]) + 1 \in Nat
  BY <1>1
<1>3. state[r].step \in Nat
  BY StepIsNat DEF IInv, TypeOK
<1>4. Record(Head(pending[r]), ok, state[r].step) \in Records
  BY <1>2, <1>3 DEF Record, Records
<1>5. Message("tool", r, Len(records[r]) + 1) \in Messages
  BY <1>2 DEF Message, Messages
<1> QED
  BY <1>2, <1>4, <1>5 DEF IInv, TypeOK, Observe

LEMMA RejectCallKeeps == ASSUME IInv, NEW r \in Runs, RejectCall(r) PROVE IInv'
<1>1. TypeOK'
  BY ObserveKeepsType DEF IInv, TypeOK, RejectCall
<1>2. ASSUME NEW q \in Runs PROVE CountingOf(q)'
  <2>1. CASE q # r
    BY <2>1, OthersKeepCounting DEF IInv, TypeOK, Counting, RejectCall, Observe
  <2>2. CASE q = r
    BY <2>2 DEF IInv, Counting, CountingOf, RejectCall
  <2> QED
    BY <2>1, <2>2
<1> QED
  BY <1>1, <1>2 DEF IInv, Counting

LEMMA ExecuteCallKeeps == ASSUME IInv, NEW r \in Runs, ExecuteCall(r) PROVE IInv'
<1>1. TypeOK'
  BY DEF IInv, TypeOK, ExecuteCall, Goto, PCs
<1>2. ASSUME NEW q \in Runs PROVE CountingOf(q)'
  BY DEF IInv, TypeOK, Counting, CountingOf, ExecuteCall, Goto
<1> QED
  BY <1>1, <1>2 DEF IInv, Counting

LEMMA ToolReturnsKeeps ==
    ASSUME IInv, NEW r \in Runs, NEW ok \in BOOLEAN, ToolReturns(r, ok)
    PROVE  IInv'
<1>1. pending[r] # <<>>
  BY DEF IInv, Counting, CountingOf, ToolReturns
<1>2. TypeOK'
  <2>1. pc' \in [Runs -> PCs]
    BY DEF IInv, TypeOK, ToolReturns, Goto, PCs
  <2> QED
    BY <1>1, <2>1, ObserveKeepsType DEF IInv, TypeOK, ToolReturns
<1>3. ASSUME NEW q \in Runs PROVE CountingOf(q)'
  <2>1. CASE q # r
    BY <2>1, OthersKeepCounting DEF IInv, TypeOK, Counting, ToolReturns, Goto, Observe
  <2>2. CASE q = r
    BY <2>2 DEF IInv, TypeOK, Counting, CountingOf, ToolReturns, Goto
  <2> QED
    BY <2>1, <2>2
<1> QED
  BY <1>2, <1>3 DEF IInv, Counting

LEMMA BatchDoneKeeps == ASSUME IInv, NEW r \in Runs, BatchDone(r) PROVE IInv'
<1>1. state[r] = A!CallingTool(asked[r]) /\ asked[r] \in Nat /\ pc[r] # "returned"
  BY DEF IInv, TypeOK, Counting, CountingOf, BatchDone
<1>2. LoopTop(r, A!Reasoning(asked[r] + 1))
  BY <1>1, LoopStates DEF BatchDone
<1> QED
  BY <1>1, <1>2, AtLoopTop DEF BatchDone, IInv, TypeOK

LEMMA SaveKeeps == ASSUME IInv, NEW r \in Runs, Save(r) PROVE IInv'
<1>1. /\ state[r] = A!Reasoning(asked[r]) /\ asked[r] \in Nat /\ asked[r] > 0
      /\ pc[r] = "saving"
  BY DEF IInv, TypeOK, Counting, CountingOf, Save
<1>2. state[r].step = asked[r]
  BY <1>1, LoopStates
<1>3. TypeOK'
  <2>1. store' \in [Ids -> Seq(Messages)]
    <3>1. Message("assistant", r, state[r].step) \in Messages
      BY <1>1, <1>2 DEF Message, Messages
    <3> QED
      BY <3>1 DEF IInv, TypeOK, Save, Stored
  <2>2. output' \in [Runs -> Outputs]
    BY <1>1, <1>2 DEF IInv, TypeOK, Save, Return, Output, Outputs
  <2>3. pc' \in [Runs -> PCs]
    BY DEF IInv, TypeOK, Save, Return, Goto, PCs
  <2> QED
    BY <2>1, <2>2, <2>3 DEF IInv, TypeOK, Save
<1>4. ASSUME NEW q \in Runs PROVE CountingOf(q)'
  <2>1. CASE q # r
    BY <2>1, OthersKeepCounting DEF IInv, TypeOK, Counting, Save, Return, Goto
  <2>2. CASE q = r
    BY <1>1, <1>2, <2>2 DEF IInv, TypeOK, Counting, CountingOf, Save, Return, Goto, Output
  <2> QED
    BY <2>1, <2>2
<1> QED
  BY <1>3, <1>4 DEF IInv, Counting

-----------------------------------------------------------------------------
(* The theorems *)

LEMMA NextKeeps == IInv /\ [Next]_vars => IInv'
<1> SUFFICES ASSUME IInv, [Next]_vars PROVE IInv'
  OBVIOUS
<1>1. ASSUME NEW r \in Runs, Begin(r) PROVE IInv'
  BY <1>1, BeginKeeps
<1>2. ASSUME NEW r \in Runs, Cancel(r) PROVE IInv'
  BY <1>2, CancelKeeps
<1>3. ASSUME NEW r \in Runs, Step(r) PROVE IInv'
  <2>1. CASE Load(r) \/ LoadFails(r) \/ ProviderFails(r)
    BY <2>1, LoadKeeps, LoadFailsKeeps, ProviderFailsKeeps
  <2>2. ASSUME NEW text \in BOOLEAN, FinalAnswer(r, text) \/ OutOfTokens(r, text)
        PROVE  IInv'
    BY <2>2, FinalAnswerKeeps, OutOfTokensKeeps
  <2>3. ASSUME NEW text \in BOOLEAN, NEW calls \in Batches(r), ToolUse(r, text, calls)
        PROVE  IInv'
    BY <2>3, ToolUseKeeps
  <2>4. CASE RejectCall(r) \/ ExecuteCall(r)
    BY <2>4, RejectCallKeeps, ExecuteCallKeeps
  <2>5. ASSUME NEW ok \in BOOLEAN, ToolReturns(r, ok) PROVE IInv'
    BY <2>5, ToolReturnsKeeps
  <2>6. CASE BatchDone(r) \/ Save(r) \/ SaveFails(r)
    BY <2>6, BatchDoneKeeps, SaveKeeps, SaveFailsKeeps
  <2> QED
    BY <1>3, <2>1, <2>2, <2>3, <2>4, <2>5, <2>6 DEF Step
<1>4. CASE UNCHANGED vars
  BY <1>4 DEF IInv, TypeOK, Counting, CountingOf, vars
<1> QED
  BY <1>1, <1>2, <1>3, <1>4 DEF Next

\* The invariant of the loop holds in every state of every system of runs.
THEOREM InductiveInvariant == Spec => []IInv
  BY InitEstablishes, NextKeeps, PTL DEF Spec

\* Every variable of the loop keeps its type, and no AgentState counts further than one
\* step beyond the limit (loop_.rs:75-79).
THEOREM TypeCorrect == Spec => []TypeOK
<1>1. IInv => TypeOK
  BY DEF IInv
<1> QED
  BY <1>1, InductiveInvariant, PTL

\* The step limit is exact for every max_steps (loop_.rs:74-104).
THEOREM StepLimitHolds == Spec => []StepLimit
<1>1. IInv => StepLimit
  BY DEF IInv, Counting, CountingOf, StepLimit
<1> QED
  BY <1>1, InductiveInvariant, PTL

-----------------------------------------------------------------------------
(* Memory and executions *)

ExecutionsCountedOf(r) ==
    /\ \A k \in 1 .. Len(records[r]) : records[r][k].ok => k \in Executions(r)
    /\ pc[r] \in {"idle", "loading", "thinking", "saving"} => pending[r] = <<>>
    /\ UnderWay(r) => Head(pending[r]) = "valid"
    /\ executed[r] = Cardinality(Executions(r)) + (IF UnderWay(r) THEN 1 ELSE 0)

ExecutionsCounted == \A r \in Runs : ExecutionsCountedOf(r)

Done(i) == {r \in Runs : id[r] = i /\ output[r].kind = "Ok"}

AnswersOf(i) ==
    /\ IsFiniteSet(Done(i))
    /\ {store[i][k].run : k \in 1 .. Len(store[i])} = Done(i)
    /\ Len(store[i]) = Cardinality(Done(i))

AnswersStored == \A i \in Ids : AnswersOf(i)

-----------------------------------------------------------------------------
(* The context is a prefix of what is stored *)

\* What a step may do to stored histories and to contexts.
Extended(new, old) == new = old \/ \E m \in Messages : new = Append(old, m)

LEMMA HearExtends ==
    ASSUME IInv, NEW r \in Runs, NEW text \in BOOLEAN, Hear(r, text)
    PROVE  \A q \in Runs : Extended(messages'[q], messages[q])
<1>1. Message("assistant", r, state[r].step) \in Messages
  BY StepIsNat DEF IInv, TypeOK, Message, Messages
<1> QED
  BY <1>1 DEF Hear, Extended, IInv, TypeOK

LEMMA ObserveExtends ==
    ASSUME IInv, NEW r \in Runs, NEW kind, NEW ok, Observe(r, kind, ok)
    PROVE  \A q \in Runs : Extended(messages'[q], messages[q])
<1>1. Message("tool", r, Len(records[r]) + 1) \in Messages
  BY DEF IInv, TypeOK, Message, Messages
<1> QED
  BY <1>1 DEF Observe, Extended, IInv, TypeOK

LEMMA StepExtends ==
    ASSUME IInv, [Next]_vars
    PROVE  /\ id' = id
           /\ \A i \in Ids : Extended(store'[i], store[i])
           /\ \A q \in Runs :
                 \/ /\ history'[q] = history[q]
                    /\ Extended(messages'[q], messages[q])
                 \/ /\ pc[q] = "loading" /\ history'[q] = Len(store[id[q]])
                    /\ \E m \in Messages : messages'[q] = Append(store[id[q]], m)
<1> DEFINE Goal ==
        /\ id' = id
        /\ \A i \in Ids : Extended(store'[i], store[i])
        /\ \A q \in Runs :
              \/ /\ history'[q] = history[q]
                 /\ Extended(messages'[q], messages[q])
              \/ /\ pc[q] = "loading" /\ history'[q] = Len(store[id[q]])
                 /\ \E m \in Messages : messages'[q] = Append(store[id[q]], m)
<1>1. ASSUME UNCHANGED <<id, store, history, messages>> PROVE Goal
  BY <1>1 DEF Extended
<1>2. ASSUME UNCHANGED <<id, store, history>>,
             \A q \in Runs : Extended(messages'[q], messages[q])
      PROVE  Goal
  BY <1>2 DEF Extended
<1>3. ASSUME NEW r \in Runs, Load(r) PROVE Goal
  <2>1. Message("user", r, 0) \in Messages
    BY DEF Message, Messages
  <2>2. /\ UNCHANGED <<id, store>> /\ pc[r] = "loading"
        /\ history' = [history EXCEPT ![r] = Len(store[id[r]])]
        /\ messages' = [messages EXCEPT ![r] =
                            Append(store[id[r]], Message("user", r, 0))]
    BY <1>3 DEF Load
  <2>3. ASSUME NEW q \in Runs
        PROVE  \/ /\ history'[q] = history[q] /\ messages'[q] = messages[q]
               \/ /\ pc[q] = "loading" /\ history'[q] = Len(store[id[q]])
                  /\ messages'[q] = Append(store[id[q]], Message("user", r, 0))
    BY <2>2 DEF IInv, TypeOK
  <2> QED
    BY <2>1, <2>2, <2>3 DEF Extended
<1>4. ASSUME NEW r \in Runs, Save(r) PROVE Goal
  <2>1. Message("assistant", r, state[r].step) \in Messages
    BY StepIsNat DEF IInv, TypeOK, Message, Messages
  <2>2. /\ UNCHANGED <<id, history, messages>>
        /\ store' = [store EXCEPT ![id[r]] =
                        Append(store[id[r]], Message("assistant", r, state[r].step))]
    BY <1>4 DEF Save, Stored
  <2>3. \A i \in Ids : Extended(store'[i], store[i])
    BY <2>1, <2>2 DEF Extended, IInv, TypeOK
  <2> QED
    BY <2>2, <2>3 DEF Extended
<1>5. ASSUME NEW r \in Runs, Begin(r) \/ Cancel(r) \/ LoadFails(r) \/ ProviderFails(r)
                             \/ ExecuteCall(r) \/ BatchDone(r) \/ SaveFails(r)
      PROVE  Goal
  BY <1>1, <1>5 DEF Begin, Cancel, LoadFails, ProviderFails, ExecuteCall, BatchDone,
     SaveFails
<1>6. ASSUME NEW r \in Runs, NEW text \in BOOLEAN, FinalAnswer(r, text) \/ OutOfTokens(r, text)
      PROVE  Goal
  BY <1>2, <1>6, HearExtends DEF FinalAnswer, OutOfTokens
<1>7. ASSUME NEW r \in Runs, NEW text \in BOOLEAN, NEW calls \in Batches(r),
             ToolUse(r, text, calls)
      PROVE  Goal
  BY <1>2, <1>7, HearExtends DEF ToolUse
<1>8. ASSUME NEW r \in Runs, RejectCall(r) PROVE Goal
  BY <1>2, <1>8, ObserveExtends DEF RejectCall
<1>9. ASSUME NEW r \in Runs, NEW ok \in BOOLEAN, ToolReturns(r, ok) PROVE Goal
  BY <1>2, <1>9, ObserveExtends DEF ToolReturns
<1>10. ASSUME UNCHANGED vars PROVE Goal
  BY <1>1, <1>10 DEF vars
<1> HIDE DEF Goal
<1>11. ASSUME NEW r \in Runs, Step(r) PROVE Goal
  <2>1. CASE Load(r) \/ Save(r) \/ RejectCall(r)
    BY <1>3, <1>4, <1>8, <2>1
  <2>2. CASE LoadFails(r) \/ ProviderFails(r) \/ ExecuteCall(r) \/ BatchDone(r)
             \/ SaveFails(r)
    BY <1>5, <2>2
  <2>3. ASSUME NEW text \in BOOLEAN,
               FinalAnswer(r, text) \/ OutOfTokens(r, text)
               \/ \E calls \in Batches(r) : ToolUse(r, text, calls)
        PROVE  Goal
    BY <1>6, <1>7, <2>3
  <2> QED
    BY <1>9, <1>11, <2>1, <2>2, <2>3 DEF Step
<1>12. ASSUME Next PROVE Goal
  <2>1. PICK r \in Runs : Begin(r) \/ Step(r) \/ Cancel(r)
    BY <1>12 DEF Next
  <2>2. CASE Begin(r) \/ Cancel(r)
    BY <1>5, <2>2
  <2>3. CASE Step(r)
    BY <1>11, <2>3
  <2> QED
    BY <2>1, <2>2, <2>3
<1>13. Goal
  BY <1>10, <1>12
<1> QED
  BY <1>13 DEF Goal

LEMMA ExtendedKeepsPrefix ==
    ASSUME NEW old \in Seq(Messages), NEW new, Extended(new, old)
    PROVE  /\ new \in Seq(Messages) /\ Len(old) \in Nat /\ Len(new) \in Nat
           /\ Len(old) <= Len(new)
           /\ \A k \in 1 .. Len(old) : new[k] = old[k]
  BY DEF Extended

LEMMA PrefixKept ==
    ASSUME IInv, ContextIsPrefix, [Next]_vars PROVE ContextIsPrefix'
<1> SUFFICES ASSUME NEW q \in Runs
             PROVE  /\ history'[q] <= Len(store'[id'[q]])
                    /\ history'[q] <= Len(messages'[q])
                    /\ \A k \in 1 .. history'[q] : messages'[q][k] = store'[id'[q]][k]
  BY DEF ContextIsPrefix
<1> DEFINE old == store[id[q]]
<1> DEFINE new == store'[id[q]]
<1> DEFINE before == messages[q]
<1> DEFINE after == messages'[q]
<1> DEFINE n == history[q]
<1>1. id'[q] = id[q] /\ id[q] \in Ids /\ old \in Seq(Messages) /\ before \in Seq(Messages)
      /\ n \in Nat
  BY StepExtends DEF IInv, TypeOK
<1>2. Extended(new, old)
  BY <1>1, StepExtends
<1>3. /\ Len(old) \in Nat /\ Len(new) \in Nat /\ Len(old) <= Len(new)
      /\ \A k \in 1 .. Len(old) : new[k] = old[k]
  <2> HIDE DEF old, new
  <2> QED
    BY <1>1, <1>2, ExtendedKeepsPrefix
<1>4. CASE history'[q] = n /\ Extended(after, before)
  <2>1. /\ n <= Len(old) /\ n <= Len(before)
        /\ \A k \in 1 .. n : before[k] = old[k]
    BY DEF ContextIsPrefix
  <2>2. /\ Len(before) \in Nat /\ Len(after) \in Nat /\ Len(before) <= Len(after)
        /\ \A k \in 1 .. Len(before) : after[k] = before[k]
    <3> HIDE DEF before, after
    <3> QED
      BY <1>1, <1>4, ExtendedKeepsPrefix
  <2> HIDE DEF old, new, before, after, n
  <2>3. n <= Len(new) /\ n <= Len(after) /\ \A k \in 1 .. n : after[k] = new[k]
    BY <1>1, <1>3, <2>1, <2>2
  <2> QED
    BY <1>1, <1>4, <2>3 DEF new, after
<1>5. CASE history'[q] = Len(old) /\ \E m \in Messages : after = Append(old, m)
  <2>1. Extended(after, old)
    BY <1>5 DEF Extended
  <2>2. Len(after) \in Nat /\ Len(old) <= Len(after)
        /\ \A k \in 1 .. Len(old) : after[k] = old[k]
    <3> HIDE DEF old, after
    <3> QED
      BY <1>1, <2>1, ExtendedKeepsPrefix
  <2> HIDE DEF old, new, after
  <2>3. Len(old) <= Len(new) /\ \A k \in 1 .. Len(old) : after[k] = new[k]
    BY <1>3, <2>2
  <2> QED
    BY <1>1, <1>5, <2>2, <2>3 DEF new, after
<1> QED
  BY <1>4, <1>5, StepExtends

\* For any interleaving of any number of runs: the history a run loaded stays the beginning
\* of what is stored for its run_id (loop_.rs:57-69, 98-101, memory.rs:44).
THEOREM ContextStaysPrefix == Spec => []ContextIsPrefix
<1>1. Init => ContextIsPrefix
  BY DEF Init, ContextIsPrefix
<1> QED
  BY <1>1, PrefixKept, InductiveInvariant, PTL DEF Spec

-----------------------------------------------------------------------------
(* One answer in memory for each run that returned Ok *)

\* A step that neither stores an answer nor returns Ok.
LEMMA SameAnswers ==
    ASSUME IInv, AnswersStored, UNCHANGED <<id, store>>,
           \A q \in Runs : output'[q].kind = "Ok" <=> output[q].kind = "Ok"
    PROVE  AnswersStored'
<1> SUFFICES ASSUME NEW i \in Ids PROVE AnswersOf(i)'
  BY DEF AnswersStored
<1>1. Done(i)' = Done(i)
  BY DEF Done
<1> QED
  BY <1>1 DEF AnswersStored, AnswersOf

\* A run that is still in the loop returns something else than Ok.
LEMMA OtherReturn ==
    ASSUME IInv, NEW r \in Runs, NEW kind \in Errors, pc[r] # "returned", Return(r, kind, 0)
    PROVE  \A q \in Runs : output'[q].kind = "Ok" <=> output[q].kind = "Ok"
<1>1. output[r].kind = "none"
  BY DEF IInv, Counting, CountingOf
<1> QED
  BY <1>1 DEF IInv, TypeOK, Return, Output, Errors

LEMMA LoopTopReturns ==
    ASSUME IInv, NEW r \in Runs, NEW s, pc[r] # "returned", LoopTop(r, s)
    PROVE  \A q \in Runs : output'[q].kind = "Ok" <=> output[q].kind = "Ok"
<1>1. UNCHANGED output \/ \E kind \in Errors : Return(r, kind, 0)
  BY DEF LoopTop, Errors
<1> QED
  BY <1>1, OtherReturn

LEMMA SaveAnswers ==
    ASSUME IInv, AnswersStored, NEW r \in Runs, Save(r) PROVE AnswersStored'
<1> DEFINE m == Message("assistant", r, state[r].step)
<1>1. /\ UNCHANGED id /\ id[r] \in Ids /\ output[r].kind = "none"
      /\ store' = [store EXCEPT ![id[r]] = Append(store[id[r]], m)]
      /\ output' = [output EXCEPT ![r] = Output("Ok", state[r].step)]
      /\ m.run = r
  BY DEF IInv, TypeOK, Counting, CountingOf, Save, Stored, Return, Message
<1> HIDE DEF m
<1> SUFFICES ASSUME NEW i \in Ids PROVE AnswersOf(i)'
  BY DEF AnswersStored
<1>2. /\ AnswersOf(i) /\ store[i] \in Seq(Messages)
      /\ store'[i] = IF i = id[r] THEN Append(store[i], m) ELSE store[i]
  BY <1>1 DEF AnswersStored, IInv, TypeOK
<1>3. \A q \in Runs : output'[q].kind = "Ok" <=> q = r \/ output[q].kind = "Ok"
  BY <1>1 DEF IInv, TypeOK, Output
<1>4. CASE i # id[r]
  <2>1. Done(i)' = Done(i)
    BY <1>1, <1>3, <1>4 DEF Done
  <2> QED
    BY <1>2, <1>4, <2>1 DEF AnswersOf
<1>5. CASE i = id[r]
  <2>1. Done(i)' = Done(i) \cup {r} /\ r \notin Done(i)
    BY <1>1, <1>3, <1>5 DEF Done
  <2>2. IsFiniteSet(Done(i)') /\ Cardinality(Done(i)') = Cardinality(Done(i)) + 1
    BY <1>2, <2>1, FS_AddElement DEF AnswersOf
  <2>3. /\ store'[i] = Append(store[i], m) /\ Len(store'[i]) = Len(store[i]) + 1
        /\ \A k \in 1 .. Len(store[i]) : store'[i][k] = store[i][k]
        /\ store'[i][Len(store[i]) + 1] = m /\ Len(store[i]) \in Nat
    BY <1>2, <1>5
  <2>4. \A k \in 1 .. Len(store[i]) + 1 : k \in 1 .. Len(store[i]) \/ k = Len(store[i]) + 1
    BY <2>3
  <2>5. {store'[i][k].run : k \in 1 .. Len(store'[i])}
        = {store[i][k].run : k \in 1 .. Len(store[i])} \cup {r}
    <3>1. ASSUME NEW k \in 1 .. Len(store[i])
          PROVE  k \in 1 .. Len(store'[i]) /\ store'[i][k].run = store[i][k].run
      BY <2>3, <3>1
    <3>2. Len(store[i]) + 1 \in 1 .. Len(store'[i]) /\ store'[i][Len(store[i]) + 1].run = r
      BY <1>1, <2>3
    <3> QED
      BY <2>3, <2>4, <3>1, <3>2
  <2> QED
    BY <1>2, <2>1, <2>2, <2>3, <2>5 DEF AnswersOf
<1> QED
  BY <1>4, <1>5

LEMMA AnswersKept == IInv /\ AnswersStored /\ [Next]_vars => AnswersStored'
<1> SUFFICES ASSUME IInv, AnswersStored, [Next]_vars PROVE AnswersStored'
  OBVIOUS
<1> DEFINE Same == \A q \in Runs : output'[q].kind = "Ok" <=> output[q].kind = "Ok"
<1>1. CASE UNCHANGED vars
  BY <1>1, SameAnswers DEF vars
<1>2. ASSUME NEW r \in Runs, Begin(r) \/ ExecuteCall(r) \/ RejectCall(r) PROVE AnswersStored'
  BY <1>2, SameAnswers DEF Begin, ExecuteCall, RejectCall
<1>3. ASSUME NEW r \in Runs, Cancel(r) \/ LoadFails(r) \/ ProviderFails(r) \/ SaveFails(r)
      PROVE  AnswersStored'
  <2>1. Same
    BY <1>3, OtherReturn DEF Cancel, LoadFails, ProviderFails, SaveFails, Errors
  <2> QED
    BY <1>3, <2>1, SameAnswers DEF Cancel, LoadFails, ProviderFails, SaveFails
<1>4. ASSUME NEW r \in Runs, Load(r) \/ BatchDone(r) PROVE AnswersStored'
  <2>1. Same
    BY <1>4, LoopTopReturns DEF Load, BatchDone
  <2> QED
    BY <1>4, <2>1, SameAnswers DEF Load, BatchDone
<1>5. ASSUME NEW r \in Runs, NEW text \in BOOLEAN, FinalAnswer(r, text) \/ OutOfTokens(r, text)
      PROVE  AnswersStored'
  <2>1. Same
    BY <1>5, OtherReturn DEF FinalAnswer, OutOfTokens, Errors
  <2> QED
    BY <1>5, <2>1, SameAnswers DEF FinalAnswer, OutOfTokens
<1>6. ASSUME NEW r \in Runs, NEW text \in BOOLEAN, NEW calls \in Batches(r),
             ToolUse(r, text, calls)
      PROVE  AnswersStored'
  <2>1. Same
    BY <1>6, OtherReturn DEF ToolUse, Errors
  <2> QED
    BY <1>6, <2>1, SameAnswers DEF ToolUse
<1>7. ASSUME NEW r \in Runs, NEW ok \in BOOLEAN, ToolReturns(r, ok) PROVE AnswersStored'
  BY <1>7, SameAnswers DEF ToolReturns
<1>8. ASSUME NEW r \in Runs, Step(r) PROVE AnswersStored'
  <2>1. CASE Load(r) \/ LoadFails(r) \/ ProviderFails(r) \/ RejectCall(r) \/ ExecuteCall(r)
             \/ BatchDone(r) \/ Save(r) \/ SaveFails(r)
    BY <1>2, <1>3, <1>4, <2>1, SaveAnswers
  <2>2. ASSUME NEW text \in BOOLEAN,
               FinalAnswer(r, text) \/ OutOfTokens(r, text)
               \/ \E calls \in Batches(r) : ToolUse(r, text, calls)
        PROVE  AnswersStored'
    BY <1>5, <1>6, <2>2
  <2> QED
    BY <1>7, <1>8, <2>1, <2>2 DEF Step
<1> QED
  BY <1>1, <1>2, <1>3, <1>8 DEF Next

LEMMA InitAnswers == Init => AnswersStored
<1> SUFFICES ASSUME Init, NEW i \in Ids PROVE AnswersOf(i)
  BY DEF AnswersStored
<1>1. Done(i) = {} /\ store[i] = <<>>
  BY DEF Init, Done, Output
<1> QED
  BY <1>1, FS_EmptySet DEF AnswersOf

\* However many runs of one run_id interleave, its memory holds the answer of each that
\* returned Ok, once, and nothing of the others (loop_.rs:98-101).
THEOREM OneAnswerOfEachRun == Spec => []OneAnswerPerRun
<1>1. AnswersStored => OneAnswerPerRun
  BY DEF AnswersStored, AnswersOf, Done, OneAnswerPerRun
<1> QED
  BY <1>1, InitAnswers, AnswersKept, InductiveInvariant, PTL DEF Spec

-----------------------------------------------------------------------------
(* Only valid calls are executed, and every execution is on record *)

LEMMA ExecutionsFinite ==
    ASSUME TypeOK, NEW r \in Runs
    PROVE  /\ IsFiniteSet(Executions(r)) /\ Cardinality(Executions(r)) \in Nat
           /\ records[r] \in Seq(Records) /\ Len(records[r]) \in Nat
<1>1. records[r] \in Seq(Records) /\ Len(records[r]) \in Nat /\ 1 \in Int /\ Len(records[r]) \in Int
  BY DEF TypeOK
<1>2. Executions(r) \in SUBSET (1 .. Len(records[r])) /\ IsFiniteSet(1 .. Len(records[r]))
  BY <1>1, FS_Interval DEF Executions
<1>3. IsFiniteSet(Executions(r))
  BY <1>2, FS_Subset
<1> QED
  BY <1>1, <1>3, FS_CardinalityType

\* A run whose records and executions stay, and that neither begins nor ends a call.
LEMMA SameExecutions ==
    ASSUME ExecutionsCounted, NEW q \in Runs,
           records'[q] = records[q], executed'[q] = executed[q],
           UnderWay(q)' <=> UnderWay(q), UnderWay(q) => pending'[q] = pending[q],
           pc'[q] \in {"idle", "loading", "thinking", "saving"} => pending'[q] = <<>>
    PROVE  ExecutionsCountedOf(q)'
<1>1. ExecutionsCountedOf(q) /\ Executions(q)' = Executions(q)
  BY DEF ExecutionsCounted, Executions
<1> QED
  BY <1>1 DEF ExecutionsCountedOf

LEMMA OthersExecutions ==
    ASSUME ExecutionsCounted, NEW q \in Runs,
           records'[q] = records[q], executed'[q] = executed[q],
           pc'[q] = pc[q], pending'[q] = pending[q], output'[q] = output[q]
    PROVE  ExecutionsCountedOf(q)'
<1>1. UnderWay(q)' <=> UnderWay(q)
  BY DEF UnderWay
<1>2. pc'[q] \in {"idle", "loading", "thinking", "saving"} => pending'[q] = <<>>
  BY DEF ExecutionsCounted, ExecutionsCountedOf
<1> QED
  BY <1>1, <1>2, SameExecutions

\* The step of one run that moves on without a call or ends.
LEMMA MovingOn ==
    ASSUME IInv, ExecutionsCounted, NEW r \in Runs, UNCHANGED <<records, executed>>,
           \A q \in Runs : q # r =>
               pc'[q] = pc[q] /\ pending'[q] = pending[q] /\ output'[q] = output[q],
           pc'[r] \in {"idle", "loading", "thinking", "saving"} => pending'[r] = <<>>,
           \/ /\ pc[r] \notin {"executing", "returned"} /\ pc'[r] # "executing"
              /\ output'[r].kind # "Cancelled"
           \/ Cancel(r)
    PROVE  ExecutionsCounted'
<1>1. UnderWay(r)' <=> UnderWay(r)
  <2>1. CASE /\ pc[r] \notin {"executing", "returned"} /\ pc'[r] # "executing"
             /\ output'[r].kind # "Cancelled"
    BY <2>1 DEF UnderWay, IInv, Counting, CountingOf
  <2>2. CASE Cancel(r)
    <3>1. /\ pc'[r] = "returned" /\ output'[r].kind = "Cancelled" /\ pending'[r] = pending[r]
          /\ pc[r] \in {"loading", "thinking", "executing", "saving"}
      BY <2>2 DEF Cancel, Return, Goto, Output, IInv, TypeOK
    <3>2. /\ pc[r] = "executing" => pending[r] # <<>>
          /\ pc[r] # "executing" => pending[r] = <<>>
          /\ output[r].kind = "none"
      BY <3>1 DEF ExecutionsCounted, ExecutionsCountedOf, IInv, Counting, CountingOf
    <3> QED
      BY <3>1, <3>2 DEF UnderWay
  <2> QED
    BY <2>1, <2>2
<1>2. UnderWay(r) => pending'[r] = pending[r]
  BY DEF UnderWay, Cancel, IInv, Counting, CountingOf
<1>3. ASSUME NEW q \in Runs PROVE ExecutionsCountedOf(q)'
  <2>1. CASE q = r
    BY <1>1, <1>2, <2>1, SameExecutions
  <2>2. CASE q # r
    BY <2>2, OthersExecutions
  <2> QED
    BY <2>1, <2>2
<1> QED
  BY <1>3 DEF ExecutionsCounted

\* A call that is over is an execution if its tool ran.
LEMMA ObserveExecutions ==
    ASSUME IInv, NEW r \in Runs, NEW kind, NEW ok, Observe(r, kind, ok)
    PROVE  /\ Executions(r)' = IF kind = "valid"
                               THEN Executions(r) \cup {Len(records[r]) + 1}
                               ELSE Executions(r)
           /\ Len(records[r]) + 1 \notin Executions(r)
           /\ \A k \in 1 .. Len(records'[r]) :
                 \/ k \in 1 .. Len(records[r]) /\ records'[r][k] = records[r][k]
                 \/ k = Len(records[r]) + 1 /\ records'[r][k].ok = ok
           /\ \A q \in Runs : q # r => records'[q] = records[q] /\ pending'[q] = pending[q]
<1> DEFINE n == Len(records[r])
<1> DEFINE rec == Record(kind, ok, state[r].step)
<1>1. n \in Nat /\ records[r] \in Seq(Records)
  BY ExecutionsFinite DEF IInv
<1>2. /\ records'[r] = Append(records[r], rec) /\ rec.kind = kind /\ rec.ok = ok
      /\ \A q \in Runs : q # r => records'[q] = records[q] /\ pending'[q] = pending[q]
  BY DEF Observe, Record, IInv, TypeOK
<1> HIDE DEF rec
<1>3. /\ Len(records'[r]) = n + 1
      /\ \A k \in 1 .. n : records'[r][k] = records[r][k]
      /\ records'[r][n + 1] = rec
  BY <1>1, <1>2
<1>4. /\ \A k \in 1 .. n + 1 : k \in 1 .. n \/ k = n + 1
      /\ \A k \in 1 .. n : k \in 1 .. n + 1
      /\ n + 1 \in 1 .. n + 1 /\ n + 1 \notin 1 .. n
  BY <1>1
<1> HIDE DEF n
<1>5. /\ Executions(r)' = {k \in 1 .. n + 1 : records'[r][k].kind = "valid"}
      /\ Executions(r) = {k \in 1 .. n : records[r][k].kind = "valid"}
  BY <1>3 DEF Executions, n
<1>6. Executions(r)' = IF kind = "valid" THEN Executions(r) \cup {n + 1} ELSE Executions(r)
  BY <1>2, <1>3, <1>4, <1>5
<1>7. n + 1 \notin Executions(r)
  BY <1>4, <1>5
<1>8. \A k \in 1 .. Len(records'[r]) :
         \/ k \in 1 .. n /\ records'[r][k] = records[r][k]
         \/ k = n + 1 /\ records'[r][k].ok = ok
  BY <1>2, <1>3, <1>4
<1> QED
  BY <1>2, <1>6, <1>7, <1>8 DEF n

LEMMA RejectCallCounted ==
    ASSUME IInv, ExecutionsCounted, NEW r \in Runs, RejectCall(r)
    PROVE  ExecutionsCounted'
<1>1. /\ Head(pending[r]) # "valid" /\ pc[r] = "acting"
      /\ Observe(r, Head(pending[r]), FALSE) /\ UNCHANGED <<pc, executed>>
      /\ UNCHANGED output
  BY DEF RejectCall, Rejects
<1>2. ExecutionsCountedOf(r)'
  <2>0. ~ UnderWay(r) /\ ~ UnderWay(r)'
    BY <1>1 DEF UnderWay, IInv, Counting, CountingOf
  <2>1. Executions(r)' = Executions(r)
    BY <1>1, ObserveExecutions
  <2>2. \A k \in 1 .. Len(records'[r]) :
           \/ k \in 1 .. Len(records[r]) /\ records'[r][k] = records[r][k]
           \/ records'[r][k].ok = FALSE
    BY <1>1, ObserveExecutions
  <2> QED
    BY <1>1, <2>0, <2>1, <2>2 DEF ExecutionsCounted, ExecutionsCountedOf
<1>3. ASSUME NEW q \in Runs, q # r PROVE ExecutionsCountedOf(q)'
  BY <1>1, <1>3, ObserveExecutions, OthersExecutions
<1> QED
  BY <1>2, <1>3 DEF ExecutionsCounted

LEMMA ToolReturnsCounted ==
    ASSUME IInv, ExecutionsCounted, NEW r \in Runs, NEW ok \in BOOLEAN, ToolReturns(r, ok)
    PROVE  ExecutionsCounted'
<1>1. /\ pc[r] = "executing" /\ pc' = [pc EXCEPT ![r] = "acting"]
      /\ Observe(r, Head(pending[r]), ok) /\ UNCHANGED <<executed, output>>
  BY DEF ToolReturns, Goto
<1>2. /\ Head(pending[r]) = "valid"
      /\ executed[r] = Cardinality(Executions(r)) + 1
      /\ \A k \in 1 .. Len(records[r]) : records[r][k].ok => k \in Executions(r)
  BY <1>1 DEF ExecutionsCounted, ExecutionsCountedOf, UnderWay
<1>3. /\ pc'[r] = "acting" /\ \A q \in Runs : q # r => pc'[q] = pc[q]
  BY <1>1 DEF IInv, TypeOK
<1>4. ExecutionsCountedOf(r)'
  <2>1. /\ Executions(r)' = Executions(r) \cup {Len(records[r]) + 1}
        /\ Len(records[r]) + 1 \notin Executions(r)
    BY <1>1, <1>2, ObserveExecutions
  <2>2. Cardinality(Executions(r)') = Cardinality(Executions(r)) + 1
    BY <2>1, ExecutionsFinite, FS_AddElement DEF IInv
  <2>3. \A k \in 1 .. Len(records'[r]) : records'[r][k].ok => k \in Executions(r)'
    <3>1. \A k \in 1 .. Len(records'[r]) :
             \/ k \in 1 .. Len(records[r]) /\ records'[r][k] = records[r][k]
             \/ k = Len(records[r]) + 1
      BY <1>1, ObserveExecutions
    <3> QED
      BY <1>2, <2>1, <3>1
  <2>4. ~ UnderWay(r)'
    BY <1>1, <1>3 DEF UnderWay, IInv, Counting, CountingOf
  <2>5. Cardinality(Executions(r)) \in Nat
    BY ExecutionsFinite DEF IInv
  <2> QED
    BY <1>1, <1>2, <1>3, <2>2, <2>3, <2>4, <2>5 DEF ExecutionsCountedOf
<1>5. ASSUME NEW q \in Runs, q # r PROVE ExecutionsCountedOf(q)'
  BY <1>1, <1>3, <1>5, ObserveExecutions, OthersExecutions
<1> QED
  BY <1>4, <1>5 DEF ExecutionsCounted

LEMMA ExecuteCallCounted ==
    ASSUME IInv, ExecutionsCounted, NEW r \in Runs, ExecuteCall(r)
    PROVE  ExecutionsCounted'
<1>1. /\ pc[r] = "acting" /\ pc' = [pc EXCEPT ![r] = "executing"]
      /\ Head(pending[r]) \in CallKinds /\ Head(pending[r]) = "valid"
      /\ executed' = [executed EXCEPT ![r] = executed[r] + 1]
      /\ UNCHANGED <<records, pending, output>>
  BY DEF ExecuteCall, Goto, Rejects, IInv, TypeOK, CallKinds
<1>2. /\ pc'[r] = "executing" /\ executed'[r] = executed[r] + 1
      /\ \A q \in Runs : q # r => pc'[q] = pc[q] /\ executed'[q] = executed[q]
  BY <1>1 DEF IInv, TypeOK
<1>3. ExecutionsCountedOf(r)'
  <2>1. Executions(r)' = Executions(r)
    BY <1>1 DEF Executions
  <2>2. ~ UnderWay(r) /\ UnderWay(r)'
    BY <1>1, <1>2 DEF UnderWay, IInv, Counting, CountingOf
  <2>3. Cardinality(Executions(r)) \in Nat
    BY ExecutionsFinite DEF IInv
  <2> QED
    BY <1>1, <1>2, <2>1, <2>2, <2>3 DEF ExecutionsCounted, ExecutionsCountedOf
<1>4. ASSUME NEW q \in Runs, q # r PROVE ExecutionsCountedOf(q)'
  BY <1>1, <1>2, <1>4, OthersExecutions
<1> QED
  BY <1>3, <1>4 DEF ExecutionsCounted

LEMMA MovingOnCounted ==
    ASSUME IInv, ExecutionsCounted, NEW r \in Runs,
           \/ Begin(r) \/ Cancel(r) \/ Load(r) \/ LoadFails(r) \/ ProviderFails(r)
           \/ BatchDone(r) \/ Save(r) \/ SaveFails(r)
           \/ \E text \in BOOLEAN : FinalAnswer(r, text) \/ OutOfTokens(r, text)
    PROVE  ExecutionsCounted'
<1>1. UNCHANGED <<records, executed, pending>>
  BY DEF Begin, Cancel, Load, LoadFails, ProviderFails, BatchDone, Save, SaveFails,
     FinalAnswer, OutOfTokens
<1>2. /\ \E to \in PCs \ {"executing"} :
            /\ Goto(r, to)
            /\ \/ to \in {"loading", "thinking"} /\ pending[r] = <<>> /\ UNCHANGED output
               \/ to = "saving" /\ pc[r] = "thinking" /\ UNCHANGED output
               \/ \E kind \in Errors \cup {"Ok"}, k \in Nat :
                     /\ to = "returned"
                     /\ output' = [output EXCEPT ![r] = Output(kind, k)]
                     /\ kind # "Cancelled" \/ Cancel(r)
      /\ pc[r] \notin {"executing", "returned"} \/ Cancel(r)
  <2>1. pc[r] \in {"idle", "loading"} => pending[r] = <<>>
    BY DEF ExecutionsCounted, ExecutionsCountedOf
  <2>2. CASE Begin(r) \/ Cancel(r) \/ LoadFails(r) \/ ProviderFails(r) \/ SaveFails(r)
    BY <2>1, <2>2 DEF Begin, Cancel, LoadFails, ProviderFails, SaveFails, Return, PCs, Errors
  <2>3. CASE Save(r)
    <3>1. /\ pc[r] = "saving" /\ Goto(r, "returned")
          /\ output' = [output EXCEPT ![r] = Output("Ok", state[r].step)]
      BY <2>3 DEF Save, Return
    <3>2. state[r].step \in Nat /\ "Ok" # "Cancelled" /\ "returned" \in PCs \ {"executing"}
      BY StepIsNat DEF IInv, TypeOK, PCs
    <3> QED
      BY <3>1, <3>2
  <2>4. CASE Load(r) \/ BatchDone(r)
    BY <2>1, <2>4 DEF Load, BatchDone, LoopTop, Return, PCs, Errors
  <2>5. CASE \E text \in BOOLEAN : FinalAnswer(r, text) \/ OutOfTokens(r, text)
    BY <2>5 DEF FinalAnswer, OutOfTokens, Return, PCs, Errors
  <2> QED
    BY <2>2, <2>3, <2>4, <2>5
<1>3. /\ pc'[r] # "executing"
      /\ \A q \in Runs : q # r => pc'[q] = pc[q] /\ output'[q] = output[q]
      /\ Cancel(r) \/ output'[r].kind # "Cancelled"
      /\ pc'[r] \in {"idle", "loading", "thinking", "saving"} => pending[r] = <<>>
  <2>1. /\ pc[r] # "returned" => output[r].kind = "none"
        /\ pc[r] = "thinking" => pending[r] = <<>>
    BY DEF ExecutionsCounted, ExecutionsCountedOf, IInv, Counting, CountingOf
  <2> QED
    BY <1>2, <2>1 DEF Goto, Output, IInv, TypeOK, PCs
<1> QED
  BY <1>1, <1>2, <1>3, MovingOn

LEMMA ToolUseCounted ==
    ASSUME IInv, ExecutionsCounted, NEW r \in Runs, NEW text \in BOOLEAN,
           NEW calls \in Batches(r), ToolUse(r, text, calls)
    PROVE  ExecutionsCounted'
<1>1. /\ UNCHANGED <<records, executed>> /\ pc[r] = "thinking"
      /\ \E to \in {"acting", "returned"} : Goto(r, to)
      /\ pending' = pending \/ pending' = [pending EXCEPT ![r] = calls]
      /\ \/ UNCHANGED output
         \/ output' = [output EXCEPT ![r] = Output("ConfigurationError", 0)]
  BY DEF ToolUse, Return
<1>2. /\ pc'[r] \in {"acting", "returned"}
      /\ \A q \in Runs : q # r =>
            pc'[q] = pc[q] /\ pending'[q] = pending[q] /\ output'[q] = output[q]
  BY <1>1 DEF Goto, IInv, TypeOK
<1>3. output'[r].kind # "Cancelled"
  <2>1. output[r].kind = "none" /\ output \in [Runs -> Outputs]
    BY <1>1 DEF IInv, TypeOK, Counting, CountingOf
  <2> QED
    BY <1>1, <2>1 DEF Output
<1> QED
  BY <1>1, <1>2, <1>3, MovingOn

LEMMA ExecutionsKept == IInv /\ ExecutionsCounted /\ [Next]_vars => ExecutionsCounted'
<1> SUFFICES ASSUME IInv, ExecutionsCounted, [Next]_vars PROVE ExecutionsCounted'
  OBVIOUS
<1>1. CASE UNCHANGED vars
  BY <1>1 DEF vars, ExecutionsCounted, ExecutionsCountedOf, Executions, UnderWay
<1>2. ASSUME NEW r \in Runs, Step(r) PROVE ExecutionsCounted'
  <2>1. CASE Load(r) \/ LoadFails(r) \/ ProviderFails(r) \/ BatchDone(r) \/ Save(r)
             \/ SaveFails(r)
    BY <2>1, MovingOnCounted
  <2>2. CASE RejectCall(r) \/ ExecuteCall(r)
    BY <2>2, RejectCallCounted, ExecuteCallCounted
  <2>3. ASSUME NEW text \in BOOLEAN,
               FinalAnswer(r, text) \/ OutOfTokens(r, text)
               \/ \E calls \in Batches(r) : ToolUse(r, text, calls)
        PROVE  ExecutionsCounted'
    BY <2>3, MovingOnCounted, ToolUseCounted
  <2>4. ASSUME NEW ok \in BOOLEAN, ToolReturns(r, ok) PROVE ExecutionsCounted'
    BY <2>4, ToolReturnsCounted
  <2> QED
    BY <1>2, <2>1, <2>2, <2>3, <2>4 DEF Step
<1>3. ASSUME NEW r \in Runs, Begin(r) \/ Cancel(r) PROVE ExecutionsCounted'
  BY <1>3, MovingOnCounted
<1> QED
  BY <1>1, <1>2, <1>3 DEF Next

LEMMA InitCounted == Init => ExecutionsCounted
<1> SUFFICES ASSUME Init, NEW r \in Runs PROVE ExecutionsCountedOf(r)
  BY DEF ExecutionsCounted
<1>1. /\ records[r] = <<>> /\ executed[r] = 0 /\ pc[r] = "idle"
      /\ pending[r] = <<>> /\ 1 .. Len(records[r]) = {} /\ Executions(r) = {}
  BY DEF Init, Executions
<1> QED
  BY <1>1, FS_EmptySet DEF ExecutionsCountedOf, UnderWay

\* Whatever the provider asks for: a tool is executed only on a valid call, and the audit
\* trail misses no execution but the one a run was dropped in (loop_.rs:117-166).
THEOREM OnlyValidCallsExecuted == Spec => []OnlyValidExecuted
<1>1. ExecutionsCounted => OnlyValidExecuted
  BY DEF ExecutionsCounted, ExecutionsCountedOf, OnlyValidExecuted
<1> QED
  BY <1>1, InitCounted, ExecutionsKept, InductiveInvariant, PTL DEF Spec

-----------------------------------------------------------------------------
(* Every call is observed *)

ConversationOf(r) ==
    /\ {messages[r][i] : i \in ToolMessages(r)} =
          {Message("tool", r, k) : k \in 1 .. Len(records[r])}
    /\ \A i, j \in ToolMessages(r) : i < j => messages[r][i].nr < messages[r][j].nr

\* Before its first call a run has no records.
ObservedOf(r) ==
    /\ requested[r] = Len(records[r]) + Len(pending[r])
    /\ pc[r] \in {"idle", "loading", "thinking", "saving"} => pending[r] = <<>>
    /\ pc[r] \in {"idle", "loading"} => records[r] = <<>>
    /\ ConversationOf(r)

Observed == \A r \in Runs : ObservedOf(r)

\* The tool messages of s that come after its first h.
ToolsOf(s, h) == {i \in h + 1 .. Len(s) : s[i].role = "tool"}

LEMMA ToolsAppend ==
    ASSUME NEW s \in Seq(Messages), NEW m \in Messages, NEW h \in Nat, h <= Len(s)
    PROVE  /\ ToolsOf(Append(s, m), h) = IF m.role = "tool" THEN ToolsOf(s, h) \cup {Len(s) + 1}
                                         ELSE ToolsOf(s, h)
           /\ \A i \in ToolsOf(s, h) : Append(s, m)[i] = s[i] /\ i < Len(s) + 1
           /\ Append(s, m)[Len(s) + 1] = m
<1> DEFINE n == Len(s)
<1> DEFINE t == Append(s, m)
<1>1. n \in Nat /\ Len(t) = n + 1 /\ t[n + 1] = m /\ \A i \in 1 .. n : t[i] = s[i]
  OBVIOUS
<1> HIDE DEF n, t
<1>2. /\ \A i \in h + 1 .. n + 1 : i \in h + 1 .. n \/ i = n + 1
      /\ \A i \in h + 1 .. n : i \in 1 .. n /\ i \in h + 1 .. n + 1 /\ i < n + 1
      /\ n + 1 \in h + 1 .. n + 1
  BY <1>1 DEF n
<1>3. ToolsOf(t, h) = {i \in h + 1 .. n + 1 : t[i].role = "tool"}
  BY <1>1 DEF ToolsOf
<1>4. ToolsOf(s, h) = {i \in h + 1 .. n : s[i].role = "tool"}
  BY DEF ToolsOf, n
<1>5. ToolsOf(t, h) = IF m.role = "tool" THEN ToolsOf(s, h) \cup {n + 1} ELSE ToolsOf(s, h)
  BY <1>1, <1>2, <1>3, <1>4
<1> QED
  BY <1>1, <1>2, <1>4, <1>5 DEF n, t

LEMMA OthersObserved ==
    ASSUME Observed, NEW q \in Runs,
           pc'[q] = pc[q], requested'[q] = requested[q], records'[q] = records[q],
           pending'[q] = pending[q], messages'[q] = messages[q], history'[q] = history[q]
    PROVE  ObservedOf(q)'
<1>1. ObservedOf(q) /\ ToolMessages(q)' = ToolMessages(q)
  BY DEF Observed, ToolMessages
<1>2. ConversationOf(q)'
  BY <1>1 DEF ObservedOf, ConversationOf
<1> QED
  BY <1>1, <1>2 DEF ObservedOf

\* What a run hears that is not a tool's answer does not disturb its observations.
LEMMA SameConversation ==
    ASSUME IInv, ContextIsPrefix, NEW r \in Runs, ConversationOf(r),
           records'[r] = records[r], history'[r] = history[r],
           \/ messages'[r] = messages[r]
           \/ \E m \in Messages : m.role # "tool" /\ messages'[r] = Append(messages[r], m)
    PROVE  ConversationOf(r)'
<1>1. CASE messages'[r] = messages[r]
  BY <1>1 DEF ConversationOf, ToolMessages
<1>2. ASSUME NEW m \in Messages, m.role # "tool", messages'[r] = Append(messages[r], m)
      PROVE  ConversationOf(r)'
  <2>1. messages[r] \in Seq(Messages) /\ history[r] \in Nat /\ history[r] <= Len(messages[r])
    BY DEF IInv, TypeOK, ContextIsPrefix
  <2>2. ToolMessages(r)' = ToolMessages(r)
    BY <1>2, <2>1, ToolsAppend DEF ToolMessages, ToolsOf
  <2>3. \A i \in ToolMessages(r) : messages'[r][i] = messages[r][i]
    BY <1>2, <2>1, ToolsAppend DEF ToolMessages, ToolsOf
  <2>4. {messages'[r][i] : i \in ToolMessages(r)} = {messages[r][i] : i \in ToolMessages(r)}
    BY <2>3
  <2> QED
    BY <2>2, <2>3, <2>4 DEF ConversationOf
<1> QED
  BY <1>1, <1>2

\* The step of one run that is not a call's end.
LEMMA MovingOnObserved ==
    ASSUME IInv, ContextIsPrefix, Observed, NEW r \in Runs, UNCHANGED <<records, history>>,
           \A q \in Runs : q # r =>
               /\ pc'[q] = pc[q] /\ pending'[q] = pending[q]
               /\ requested'[q] = requested[q] /\ messages'[q] = messages[q],
           \/ messages'[r] = messages[r]
           \/ \E m \in Messages : m.role # "tool" /\ messages'[r] = Append(messages[r], m),
           requested'[r] = Len(records[r]) + Len(pending'[r]),
           pc'[r] \in {"idle", "loading", "thinking", "saving"} => pending'[r] = <<>>,
           pc'[r] \in {"idle", "loading"} => records[r] = <<>>
    PROVE  Observed'
<1>1. ObservedOf(r)'
  BY SameConversation DEF Observed, ObservedOf
<1>2. ASSUME NEW q \in Runs, q # r PROVE ObservedOf(q)'
  BY <1>2, OthersObserved
<1> QED
  BY <1>1, <1>2 DEF Observed

LEMMA QuietObserved ==
    ASSUME IInv, ContextIsPrefix, Observed, NEW r \in Runs,
           \/ Begin(r) \/ Cancel(r) \/ LoadFails(r) \/ ProviderFails(r) \/ ExecuteCall(r)
           \/ BatchDone(r) \/ Save(r) \/ SaveFails(r)
    PROVE  Observed'
<1>1. UNCHANGED <<records, history, pending, requested, messages>>
  BY DEF Begin, Cancel, LoadFails, ProviderFails, ExecuteCall, BatchDone, Save, SaveFails
<1>2. \/ pc[r] = "idle" /\ Goto(r, "loading")
      \/ \E to \in {"executing", "returned"} : Goto(r, to)
      \/ pending[r] = <<>> /\ \E to \in {"thinking", "returned"} : Goto(r, to)
  BY DEF Begin, Cancel, LoadFails, ProviderFails, ExecuteCall, BatchDone, Save, SaveFails,
     LoopTop, Return
<1>3. ObservedOf(r)
  BY DEF Observed
<1>4. /\ \A q \in Runs : q # r => pc'[q] = pc[q]
      /\ pc'[r] \in {"idle", "loading", "thinking", "saving"} => pending[r] = <<>>
      /\ pc'[r] \in {"idle", "loading"} => records[r] = <<>>
  BY <1>2, <1>3 DEF Goto, IInv, TypeOK, ObservedOf
<1> QED
  BY <1>1, <1>3, <1>4, MovingOnObserved DEF ObservedOf

\* The provider's text joins the conversation.
LEMMA HearSays ==
    ASSUME IInv, NEW r \in Runs, NEW text \in BOOLEAN, Hear(r, text)
    PROVE  /\ \A q \in Runs : q # r => messages'[q] = messages[q]
           /\ \/ messages'[r] = messages[r]
              \/ \E m \in Messages : m.role # "tool" /\ messages'[r] = Append(messages[r], m)
<1>1. /\ Message("assistant", r, state[r].step) \in Messages
      /\ Message("assistant", r, state[r].step).role # "tool"
  BY StepIsNat DEF IInv, TypeOK, Message, Messages
<1> QED
  BY <1>1 DEF Hear, IInv, TypeOK

LEMMA HearingObserved ==
    ASSUME IInv, ContextIsPrefix, Observed, NEW r \in Runs, NEW text \in BOOLEAN,
           FinalAnswer(r, text) \/ OutOfTokens(r, text)
    PROVE  Observed'
<1>1. /\ UNCHANGED <<records, history, pending, requested>> /\ Hear(r, text)
      /\ \E to \in {"saving", "returned"} : Goto(r, to)
      /\ pc[r] = "thinking" /\ ObservedOf(r)
  BY DEF FinalAnswer, OutOfTokens, Return, Observed
<1>2. /\ \A q \in Runs : q # r => pc'[q] = pc[q]
      /\ pc'[r] \in {"saving", "returned"} /\ pending[r] = <<>>
  BY <1>1 DEF Goto, IInv, TypeOK, ObservedOf
<1> QED
  BY <1>1, <1>2, HearSays, MovingOnObserved DEF ObservedOf

LEMMA ToolUseObserved ==
    ASSUME IInv, ContextIsPrefix, Observed, NEW r \in Runs, NEW text \in BOOLEAN,
           NEW calls \in Batches(r), ToolUse(r, text, calls)
    PROVE  Observed'
<1>1. /\ UNCHANGED <<records, history>> /\ Hear(r, text) /\ pc[r] = "thinking" /\ ObservedOf(r)
      /\ \/ UNCHANGED <<pending, requested>> /\ Goto(r, "returned")
         \/ /\ Goto(r, "acting") /\ pending' = [pending EXCEPT ![r] = calls]
            /\ requested' = [requested EXCEPT ![r] = requested[r] + Len(calls)]
  BY DEF ToolUse, Return, Observed
<1>2. pending[r] = <<>> /\ requested[r] = Len(records[r]) /\ Len(records[r]) \in Nat
  BY <1>1, ExecutionsFinite DEF ObservedOf, IInv, TypeOK
<1>3. /\ \A q \in Runs : q # r =>
            pc'[q] = pc[q] /\ pending'[q] = pending[q] /\ requested'[q] = requested[q]
      /\ pc'[r] \in {"acting", "returned"}
  BY <1>1 DEF Goto, IInv, TypeOK
<1>4. requested'[r] = Len(records[r]) + Len(pending'[r])
  BY <1>1, <1>2 DEF IInv, TypeOK, ObservedOf
<1> QED
  BY <1>1, <1>3, <1>4, HearSays, MovingOnObserved

LEMMA LoadObserved ==
    ASSUME IInv, ContextIsPrefix, Observed, NEW r \in Runs, Load(r) PROVE Observed'
<1>1. /\ UNCHANGED <<records, pending, requested>> /\ pc[r] = "loading" /\ ObservedOf(r)
      /\ \E to \in {"thinking", "returned"} : Goto(r, to)
  BY DEF Load, LoopTop, Return, Observed
<1>2. /\ \A q \in Runs : q # r => pc'[q] = pc[q] /\ history'[q] = history[q]
                                 /\ messages'[q] = messages[q]
      /\ pc'[r] \in {"thinking", "returned"}
      /\ history'[r] = Len(store[id[r]])
      /\ messages'[r] = Append(store[id[r]], Message("user", r, 0))
  BY <1>1 DEF Load, Goto, IInv, TypeOK
<1>3. records[r] = <<>> /\ pending[r] = <<>>
  BY <1>1 DEF ObservedOf
<1>4. ToolMessages(r)' = {}
  <2> DEFINE s == store[id[r]]
  <2> DEFINE m == Message("user", r, 0)
  <2>1. s \in Seq(Messages) /\ m \in Messages /\ m.role # "tool"
    BY DEF IInv, TypeOK, Message, Messages
  <2> HIDE DEF s, m
  <2>2. Len(s) \in Nat
    BY <2>1
  <2>3. ToolsOf(Append(s, m), Len(s)) = ToolsOf(s, Len(s)) /\ ToolsOf(s, Len(s)) = {}
    BY <2>1, <2>2, ToolsAppend DEF ToolsOf
  <2> QED
    BY <1>2, <2>3 DEF ToolMessages, ToolsOf, s, m
<1>5. ObservedOf(r)'
  BY <1>1, <1>2, <1>3, <1>4 DEF ObservedOf, ConversationOf
<1>6. ASSUME NEW q \in Runs, q # r PROVE ObservedOf(q)'
  BY <1>1, <1>2, <1>6, OthersObserved
<1> QED
  BY <1>5, <1>6 DEF Observed

\* The end of a call is one more record and one more observation, the last of both.
LEMMA ObserveObserved ==
    ASSUME IInv, ContextIsPrefix, Observed, NEW r \in Runs, pending[r] # <<>>,
           NEW ok \in BOOLEAN, Observe(r, Head(pending[r]), ok),
           UNCHANGED <<history, requested>>,
           \A q \in Runs : q # r => pc'[q] = pc[q], pc'[r] = "acting"
    PROVE  Observed'
<1> DEFINE n == Len(records[r])
<1> DEFINE s == messages[r]
<1> DEFINE h == history[r]
<1> DEFINE m == Message("tool", r, n + 1)
<1>1. /\ n \in Nat /\ s \in Seq(Messages) /\ h \in Nat /\ h <= Len(s)
      /\ pending[r] \in Seq(CallKinds) /\ ObservedOf(r)
  BY ExecutionsFinite DEF IInv, TypeOK, ContextIsPrefix, Observed
<1>2. m \in Messages /\ m.role = "tool" /\ m.nr = n + 1
  BY <1>1 DEF Message, Messages
<1>3. /\ messages'[r] = Append(s, m) /\ Len(records'[r]) = n + 1
      /\ pending'[r] = Tail(pending[r])
      /\ \A q \in Runs : q # r => records'[q] = records[q] /\ messages'[q] = messages[q]
                                 /\ pending'[q] = pending[q]
  BY ExecutionsFinite DEF Observe, IInv, TypeOK
<1>4. Len(pending[r]) = 1 + Len(pending'[r]) /\ Len(pending'[r]) \in Nat
  BY <1>1, <1>3
<1>5. requested'[r] = Len(records'[r]) + Len(pending'[r])
  <2>1. requested'[r] = n + Len(pending[r])
    BY <1>1 DEF ObservedOf
  <2>2. Len(records'[r]) = n + 1 /\ n \in Nat
    BY <1>1, <1>3
  <2>3. \A a, b \in Nat : a + (1 + b) = (a + 1) + b
    OBVIOUS
  <2> HIDE DEF n
  <2> QED
    BY <1>4, <2>1, <2>2, <2>3, Zenon
<1>6. /\ ToolMessages(r) = ToolsOf(s, h) /\ ToolMessages(r)' = ToolsOf(messages'[r], h)
  BY DEF ToolMessages, ToolsOf
<1> HIDE DEF s, h, m
<1>7. /\ ToolMessages(r)' = ToolMessages(r) \cup {Len(s) + 1}
      /\ \A i \in ToolMessages(r) : messages'[r][i] = s[i] /\ i < Len(s) + 1
      /\ messages'[r][Len(s) + 1] = m
  <2>1. /\ ToolsOf(Append(s, m), h) = ToolsOf(s, h) \cup {Len(s) + 1}
        /\ \A i \in ToolsOf(s, h) : Append(s, m)[i] = s[i] /\ i < Len(s) + 1
        /\ Append(s, m)[Len(s) + 1] = m
    BY <1>1, <1>2, ToolsAppend
  <2> QED
    BY <1>3, <1>6, <2>1
<1>8. /\ {s[i] : i \in ToolMessages(r)} = {Message("tool", r, k) : k \in 1 .. n}
      /\ \A i, j \in ToolMessages(r) : i < j => s[i].nr < s[j].nr
  BY <1>1 DEF ObservedOf, ConversationOf, s
<1> HIDE DEF n
<1>9. {messages'[r][i] : i \in ToolMessages(r)'} = {Message("tool", r, k) : k \in 1 .. n + 1}
  <2>1. {messages'[r][i] : i \in ToolMessages(r)'} = {s[i] : i \in ToolMessages(r)} \cup {m}
    BY <1>7
  <2>2. \A k : k \in 1 .. n + 1 <=> k \in 1 .. n \/ k = n + 1
    BY <1>1
  <2>3. {Message("tool", r, k) : k \in 1 .. n + 1} =
          {Message("tool", r, k) : k \in 1 .. n} \cup {m}
    BY <2>2 DEF m
  <2> QED
    BY <1>8, <2>1, <2>3
<1>10. \A i \in ToolMessages(r) : s[i].nr \in 1 .. n
  <2>1. ASSUME NEW i \in ToolMessages(r) PROVE s[i].nr \in 1 .. n
    <3>1. PICK k \in 1 .. n : s[i] = Message("tool", r, k)
      BY <1>8
    <3> QED
      BY <3>1 DEF Message
  <2> QED
    BY <2>1
<1>11. ASSUME NEW i \in ToolMessages(r)', NEW j \in ToolMessages(r)', i < j
       PROVE  messages'[r][i].nr < messages'[r][j].nr
  <2>0. Len(s) \in Nat /\ ToolMessages(r) \subseteq Int
    BY <1>1, <1>6 DEF ToolsOf
  <2>1. i \in ToolMessages(r)
    BY <1>7, <1>11, <2>0
  <2>2. CASE j \in ToolMessages(r)
    BY <1>7, <1>8, <1>11, <2>1, <2>2
  <2>3. CASE j = Len(s) + 1
    <3>1. s[i].nr \in 1 .. n /\ messages'[r][i] = s[i] /\ messages'[r][j].nr = n + 1
      BY <1>2, <1>7, <1>10, <2>1, <2>3
    <3> QED
      BY <1>1, <3>1
  <2> QED
    BY <1>7, <2>2, <2>3
<1>12. ObservedOf(r)'
  BY <1>3, <1>5, <1>9, <1>11 DEF ObservedOf, ConversationOf
<1>13. ASSUME NEW q \in Runs, q # r PROVE ObservedOf(q)'
  BY <1>3, <1>13, OthersObserved
<1> QED
  BY <1>12, <1>13 DEF Observed

LEMMA ObservedKept == IInv /\ ContextIsPrefix /\ Observed /\ [Next]_vars => Observed'
<1> SUFFICES ASSUME IInv, ContextIsPrefix, Observed, [Next]_vars PROVE Observed'
  OBVIOUS
<1>1. CASE UNCHANGED vars
  BY <1>1, OthersObserved DEF vars, Observed
<1>2. ASSUME NEW r \in Runs, Step(r) PROVE Observed'
  <2>1. CASE LoadFails(r) \/ ProviderFails(r) \/ ExecuteCall(r) \/ BatchDone(r) \/ Save(r)
             \/ SaveFails(r)
    BY <2>1, QuietObserved
  <2>2. CASE RejectCall(r)
    BY <2>2, ObserveObserved DEF RejectCall
  <2>3. ASSUME NEW text \in BOOLEAN,
               FinalAnswer(r, text) \/ OutOfTokens(r, text)
               \/ \E calls \in Batches(r) : ToolUse(r, text, calls)
        PROVE  Observed'
    BY <2>3, HearingObserved, ToolUseObserved
  <2>4. ASSUME NEW ok \in BOOLEAN, ToolReturns(r, ok) PROVE Observed'
    <3>1. pc'[r] = "acting" /\ \A q \in Runs : q # r => pc'[q] = pc[q]
      BY <2>4 DEF ToolReturns, Goto, IInv, TypeOK
    <3>2. pending[r] # <<>>
      BY <2>4 DEF ToolReturns, IInv, Counting, CountingOf
    <3> QED
      BY <2>4, <3>1, <3>2, ObserveObserved DEF ToolReturns
  <2>5. CASE Load(r)
    BY <2>5, LoadObserved
  <2> QED
    BY <1>2, <2>1, <2>2, <2>3, <2>4, <2>5 DEF Step
<1>3. ASSUME NEW r \in Runs, Begin(r) \/ Cancel(r) PROVE Observed'
  BY <1>3, QuietObserved
<1> QED
  BY <1>1, <1>2, <1>3 DEF Next

LEMMA InitObserved == Init => Observed
<1> SUFFICES ASSUME Init, NEW r \in Runs PROVE ObservedOf(r)
  BY DEF Observed
<1>1. /\ records[r] = <<>> /\ pending[r] = <<>> /\ messages[r] = <<>> /\ requested[r] = 0
      /\ history[r] = 0
  BY DEF Init
<1>2. ToolMessages(r) = {} /\ 1 .. Len(records[r]) = {}
  BY <1>1 DEF ToolMessages
<1> QED
  BY <1>1, <1>2 DEF ObservedOf, ConversationOf

\* Whenever the provider is asked again, each call it requested has one observation and
\* one record, in the order of the requests, whatever became of the calls
\* (loop_.rs:117-130).
THEOREM EveryCallIsObserved == Spec => []EveryCallObserved
<1>1. Observed => EveryCallObserved
  BY DEF Observed, ObservedOf, ConversationOf, EveryCallObserved
<1> QED
  BY <1>1, InitObserved, ObservedKept, InductiveInvariant, ContextStaysPrefix, PTL DEF Spec

-----------------------------------------------------------------------------
(* For the modules that build on the loop *)

LInv == IInv /\ ContextIsPrefix /\ AnswersStored /\ ExecutionsCounted /\ Observed

LEMMA LoopBegins == Init => LInv
<1>1. Init => ContextIsPrefix
  BY DEF Init, ContextIsPrefix
<1> QED
  BY <1>1, InitEstablishes, InitAnswers, InitCounted, InitObserved DEF LInv

LEMMA LoopKeeps == LInv /\ [Next]_vars => LInv'
  BY NextKeeps, PrefixKept, AnswersKept, ExecutionsKept, ObservedKept DEF LInv

\* A step of r is not seen by another run.
LEMMA OthersUntouched ==
    ASSUME IInv, NEW r \in Runs, NEW q \in Runs, q # r, Begin(r) \/ Step(r) \/ Cancel(r)
    PROVE  /\ pc'[q] = pc[q] /\ records'[q] = records[q] /\ pending'[q] = pending[q]
           /\ output'[q] = output[q] /\ messages'[q] = messages[q] /\ asked'[q] = asked[q]
<1> DEFINE Goal ==
        /\ pc'[q] = pc[q] /\ records'[q] = records[q] /\ pending'[q] = pending[q]
        /\ output'[q] = output[q] /\ messages'[q] = messages[q] /\ asked'[q] = asked[q]
<1>1. CASE Begin(r) \/ Cancel(r) \/ LoadFails(r) \/ ProviderFails(r) \/ ExecuteCall(r)
           \/ Save(r) \/ SaveFails(r)
  BY <1>1 DEF Begin, Cancel, LoadFails, ProviderFails, ExecuteCall, Save, SaveFails, Return,
              Goto, IInv, TypeOK
<1>2. CASE Load(r) \/ BatchDone(r)
  BY <1>2 DEF Load, BatchDone, LoopTop, Return, Goto, IInv, TypeOK
<1>3. ASSUME NEW text \in BOOLEAN, FinalAnswer(r, text) \/ OutOfTokens(r, text) PROVE Goal
  BY <1>3 DEF FinalAnswer, OutOfTokens, Hear, Return, Goto, IInv, TypeOK
<1>4. ASSUME NEW text \in BOOLEAN, NEW calls \in Batches(r), ToolUse(r, text, calls) PROVE Goal
  BY <1>4 DEF ToolUse, Hear, Return, Goto, IInv, TypeOK
<1>5. CASE RejectCall(r)
  BY <1>5 DEF RejectCall, Observe, IInv, TypeOK
<1>6. ASSUME NEW ok \in BOOLEAN, ToolReturns(r, ok) PROVE Goal
  BY <1>6 DEF ToolReturns, Observe, Goto, IInv, TypeOK
<1> HIDE DEF Goal
<1>7. Goal
  <2>1. CASE Begin(r) \/ Cancel(r)
    BY <1>1, <2>1 DEF Goal
  <2>2. CASE Step(r)
    BY <1>1, <1>2, <1>3, <1>4, <1>5, <1>6, <2>2 DEF Step, Goal
  <2> QED
    BY <2>1, <2>2
<1> QED
  BY <1>7 DEF Goal

=============================================================================
