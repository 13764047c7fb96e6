---------------------------- MODULE Roos_proofs ----------------------------
(***************************************************************************)
(* A process of the system, for any runs, tools, providers and answers of  *)
(* the service, any requests and any file.  First: whatever the process is *)
(* started as, its agent runs are runs of ReasoningLoop, so that all that  *)
(* is proved of the loop holds of them.  On the loop's invariants rest     *)
(* what AgentRun adds, wire to record to effect, and what the exit status  *)
(* of a command says.  Then: its server, if it has one, is a TriggerServer *)
(* (Serving).  Its configuration's errors point into the file, since what  *)
(* is left to be read is always the end of that file (Reading), and what   *)
(* was written and what is left mean together what the whole file means    *)
(* (Expanding).                                                            *)
(***************************************************************************)
EXTENDS Roos, ReasoningLoop_proofs, Serve_proofs, SequenceTheorems

WireCalls == [tool : STRING, args : STRING]
WireMessages == Messages \cup {SystemMessage}

ErrorKinds ==
    {"NetworkError", "Unauthorized", "RateLimited", "ServerError", "InvalidResponse"}

AgentTypes ==
    /\ provider \in DOMAIN Apis \cup {"none"}
    /\ tools \subseteq DOMAIN ToolOutcomes
    /\ request \in [Runs -> Seq(WireMessages)]
    /\ calls \in [Runs -> Seq(WireCalls)]
    /\ effects \in [Runs -> Seq(Nat)]
    /\ tokens \in [Runs -> [input : Nat, output : Nat, total : Nat]]
    /\ billed \in [Runs -> [sum : Nat, exact : BOOLEAN]]
    /\ failure \in [Runs -> ErrorKinds \cup {"none"}]
    /\ panicked \in [Runs -> BOOLEAN]

\* Before the provider is chosen no run has begun.
NotSetUp ==
    provider = "none" => \A r \in Runs : pc[r] = "idle" /\ calls[r] = <<>> /\ request[r] = <<>>

Setting == AgentTypes /\ NotSetUp

\* What the process does about a run, and what it does before there are any.
AgentMove(r) ==
    \/ AgentStep(r)
    \/ provider # "none" /\ Begin(r) /\ UNCHANGED <<setupVars, wireVars>>
    \/ Drop(r)

Setup ==
    /\ provider = "none" /\ provider' \in DOMAIN Apis
    /\ tools' \subseteq DOMAIN ToolOutcomes
    /\ UNCHANGED <<vars, wireVars>>

-----------------------------------------------------------------------------
(* Answers *)

LEMMA KnownApis == \A p \in DOMAIN Apis : Apis[p] \in {"compat", "anthropic", "cohere"}
  BY DEF Apis

LEMMA AnswerShape ==
    ASSUME NEW a \in WireAnswers
    PROVE  /\ a.choices \in BOOLEAN /\ a.input \in Nat /\ a.output \in Nat
           /\ a.calls \in Seq(WireCalls) /\ Len(a.calls) \in Nat
           /\ DOMAIN a.calls = 1 .. Len(a.calls)
           /\ \A r \in Runs : Len(a.calls) <= MaxBatch[r]
  BY WireAnswersAssumption DEF WireCalls

Executable(call) == call.tool \in tools /\ call.args = "fits"

\* An answer that asks for tools: each of its calls keeps its kind on the way through the
\* provider, whatever the provider makes of arguments that do not parse.
LEMMA ResponseCalls ==
    ASSUME NEW p \in DOMAIN Apis, NEW a \in WireAnswers, Speaks(p, a),
           Response(p, a).stop = "ToolUse"
    PROVE  /\ DOMAIN Response(p, a).calls = DOMAIN a.calls
           /\ \A k \in DOMAIN a.calls :
                 /\ Kind(Response(p, a).calls[k]) \in CallKinds
                 /\ Kind(Response(p, a).calls[k]) = "valid" <=> Executable(a.calls[k])
<1>1. a.calls \in Seq(WireCalls) /\ DOMAIN a.calls = 1 .. Len(a.calls)
  BY AnswerShape
<1>2. CASE Apis[p] = "compat"
  <2>1. Response(p, a) = CompatResponse(a)
    BY <1>2 DEF Response
  <2>2. Response(p, a).calls =
           [k \in DOMAIN a.calls |-> [a.calls[k] EXCEPT !.args = Input(a.calls[k].args)]]
    BY <2>1 DEF CompatResponse, CompletionResponse
  <2>3. ASSUME NEW k \in DOMAIN a.calls
        PROVE  /\ Response(p, a).calls[k].tool = a.calls[k].tool
               /\ Response(p, a).calls[k].args = Input(a.calls[k].args)
    <3>1. a.calls[k] \in WireCalls
      BY <1>1, <2>3
    <3> QED
      BY <2>2, <3>1 DEF WireCalls
  <2> QED
    BY <2>2, <2>3 DEF Kind, Fits, Input, Executable, CallKinds
<1>3. CASE Apis[p] # "compat"
  <2>1. Response(p, a).calls = a.calls
    BY <1>3, KnownApis DEF Response, AnthropicResponse, CohereResponse, CompletionResponse
  <2> QED
    BY <2>1 DEF Kind, Fits, Executable, CallKinds
<1> QED
  BY <1>2, <1>3

-----------------------------------------------------------------------------
(* The runs of a process are runs of the loop *)

Kinds(p, a) == [k \in DOMAIN Response(p, a).calls |-> Kind(Response(p, a).calls[k])]

LEMMA KindsAreABatch ==
    ASSUME NEW r \in Runs, NEW p \in DOMAIN Apis, NEW a \in WireAnswers, Speaks(p, a),
           Response(p, a).stop = "ToolUse"
    PROVE  Kinds(p, a) \in Batches(r)
<1>1. Kinds(p, a) \in [1 .. Len(a.calls) -> CallKinds]
  BY ResponseCalls, AnswerShape DEF Kinds
<1>2. Len(a.calls) \in 0 .. MaxBatch[r]
  BY AnswerShape, MaxBatchAssumption
<1> QED
  BY <1>1, <1>2 DEF Batches

LEMMA AnswerSteps ==
    ASSUME provider \in DOMAIN Apis, NEW r \in Runs, NEW a \in WireAnswers, Answer(r, a)
    PROVE  Step(r)
<1> DEFINE x == Response(provider, a)
<1>1. x.text \in BOOLEAN
  <2>1. CASE Apis[provider] = "compat"
    BY <2>1 DEF Response, CompatResponse, CompletionResponse
  <2>2. CASE Apis[provider] # "compat"
    BY <2>2, KnownApis DEF Response, AnthropicResponse, CohereResponse, CompletionResponse
  <2> QED
    BY <2>1, <2>2
<1>2. x.stop = "ToolUse" => Kinds(provider, a) \in Batches(r)
  BY KindsAreABatch DEF Answer
<1>3. \/ FinalAnswer(r, x.text) \/ OutOfTokens(r, x.text)
      \/ x.stop = "ToolUse" /\ ToolUse(r, x.text, Kinds(provider, a))
  BY DEF Answer, Kinds
<1> HIDE DEF x
<1> QED
  BY <1>1, <1>2, <1>3 DEF Step

\* A tool that runs is one of the registered ones, and its outcome is one of its own.
LEMMA OutcomesAreBoolean ==
    ASSUME NEW t \in DOMAIN ToolOutcomes, NEW o \in ToolOutcomes[t]
    PROVE  o.ok \in BOOLEAN /\ o.effect \in BOOLEAN
<1>1. ToolOutcomes[t] \in {Looks, WriteFile, ExecuteShell, HttpPost}
  BY DEF ToolOutcomes, ReadFile, ListDirectory, HttpGet, SearchWeb
<1>2. \A effect, ok \in BOOLEAN :
         Outcome(effect, ok).ok \in BOOLEAN /\ Outcome(effect, ok).effect \in BOOLEAN
  BY DEF Outcome
<1>3. /\ \A x \in Looks : \E effect, ok \in BOOLEAN : x = Outcome(effect, ok)
      /\ \A x \in WriteFile : \E effect, ok \in BOOLEAN : x = Outcome(effect, ok)
      /\ \A x \in ExecuteShell : \E effect, ok \in BOOLEAN : x = Outcome(effect, ok)
      /\ \A x \in HttpPost : \E effect, ok \in BOOLEAN : x = Outcome(effect, ok)
  BY Zenon DEF Looks, WriteFile, ExecuteShell, HttpPost
<1>4. \E effect, ok \in BOOLEAN : o = Outcome(effect, ok)
  BY <1>1, <1>3
<1> QED
  BY <1>2, <1>4

LEMMA AgentMovesLoop ==
    ASSUME Setting, NEW r \in Runs, AgentMove(r),
           pc[r] = "executing" => ToolOf(r) \in DOMAIN ToolOutcomes
    PROVE  Begin(r) \/ Step(r) \/ Cancel(r) \/ UNCHANGED vars
<1>1. CASE LoopStep(r)
  BY <1>1 DEF LoopStep, Step
<1>2. ASSUME NEW a \in WireAnswers, Answer(r, a) PROVE Step(r)
  <2>1. provider \in DOMAIN Apis
    BY <1>2 DEF Answer, FinalAnswer, OutOfTokens, ToolUse, Setting, NotSetUp, AgentTypes
  <2> QED
    BY <1>2, <2>1, AnswerSteps
<1>3. ASSUME NEW a \in WireAnswers, AnswerPanics(r, a) PROVE Cancel(r)
  BY <1>3 DEF AnswerPanics
<1>4. ASSUME NEW s \in Failures, AnswerFails(r, s) PROVE Step(r)
  BY <1>4 DEF AnswerFails, Step
<1>5. CASE PostArrives(r)
  BY <1>5 DEF PostArrives
<1>6. CASE ToolEnds(r)
  <2>1. PICK o \in ToolOutcomes[ToolOf(r)] : ToolReturns(r, o.ok)
    BY <1>6 DEF ToolEnds
  <2>2. o.ok \in BOOLEAN
    BY <1>6, <2>1, OutcomesAreBoolean DEF ToolEnds
  <2> QED
    BY <2>1, <2>2 DEF Step
<1>7. CASE Drop(r)
  BY <1>7 DEF Drop
<1> QED
  BY <1>1, <1>2, <1>3, <1>4, <1>5, <1>6, <1>7 DEF AgentMove, AgentStep, OwnStep, ServiceAnswers

LEMMA ProcessMoves ==
    ASSUME AgentTypes, RoosNext
    PROVE  (\E r \in Runs : AgentMove(r)) \/ Setup \/ UNCHANGED agentVars
<1>1. CASE RunSetup
  <2>1. CASE config \in RunKnows
    <3>1. RunKnows \subseteq DOMAIN Apis
      BY DEF RunKnows, Apis
    <3> QED
      BY <1>1, <2>1, <3>1 DEF RunSetup, Setup, AgentTypes
  <2>2. CASE config \notin RunKnows
    BY <1>1, <2>2 DEF RunSetup, agentVars, setupVars
  <2> QED
    BY <2>1, <2>2
<1>2. CASE AgentSetup
  BY <1>2, AgentProvidersAssumption, AgentToolsAssumption DEF AgentSetup, Setup
<1>3. ASSUME NEW r \in Runs, AgentMoves(r) \/ AgentAnswered(r) \/ AgentDropped(r) PROVE AgentMove(r)
  BY <1>3 DEF AgentMoves, AgentAnswered, AgentDropped, AgentMove, AgentStep, OwnStep, ServiceAnswers
<1>4. CASE NewStep \/ ConfigStep \/ ConfigRefused \/ ListStep \/ ServeOpens \/ Serves
           \/ ServerSetup \/ ServerGoes \/ \E r \in Runs : RunEnds(r)
  <2>1. UNCHANGED agentVars
    BY <1>4 DEF NewStep, ConfigStep, ConfigRefused, ListStep, ServeOpens, Serves, ServerSetup,
       ServerGoes, RunEnds
  <2> QED
    BY <2>1
<1> QED
  BY <1>1, <1>2, <1>3, <1>4 DEF RoosNext, CommandStep

-----------------------------------------------------------------------------
(* Types *)

LEMMA Remainder ==
    ASSUME NEW n \in Nat
    PROVE  n % U32 \in Nat /\ n % U32 <= n /\ (n < U32 => n % U32 = n)
  BY U32Assumption

\* What an answer costs: never more than what was charged, and just that if its count is
\* there and fits.
LEMMA UsageOf ==
    ASSUME NEW p \in DOMAIN Apis, NEW a \in WireAnswers, Speaks(p, a)
    PROVE  /\ Response(p, a).usage.input \in Nat /\ Response(p, a).usage.output \in Nat
           /\ Response(p, a).usage.total \in Nat
           /\ Response(p, a).usage.total <= a.input + a.output
           /\ a.choices /\ ~ Overflows(a) =>
                 /\ Response(p, a).usage.total = a.input + a.output
                 /\ Response(p, a).usage.input = a.input
                 /\ Response(p, a).usage.output = a.output
<1>1. a.input \in Nat /\ a.output \in Nat /\ a.choices \in BOOLEAN
  BY AnswerShape
<1>2. /\ Response(p, a).usage = IF a.choices THEN Usage(a.input, a.output) ELSE Usage(0, 0)
  <2>1. CASE Apis[p] = "compat"
    BY <2>1 DEF Response, CompatResponse, CompletionResponse
  <2>2. CASE Apis[p] # "compat"
    BY <2>2, KnownApis DEF Speaks, Response, AnthropicResponse, CohereResponse,
                           CompletionResponse
  <2> QED
    BY <2>1, <2>2
<1>3. CASE a.choices
  <2>1. a.input + a.output \in Nat
    BY <1>1
  <2> QED
    BY <1>1, <1>2, <1>3, <2>1, Remainder, U32Assumption DEF Usage, Overflows
<1>4. CASE ~ a.choices
  <2>1. 0 + 0 = 0 /\ 0 % U32 = 0
    BY Remainder
  <2> QED
    BY <1>1, <1>2, <1>4, <2>1 DEF Usage
<1> QED
  BY <1>1, <1>3, <1>4

LEMMA RequestType ==
    ASSUME NEW p \in DOMAIN Apis, NEW s, NEW m \in Seq(Messages)
    PROVE  Request(p, s, m) \in Seq(WireMessages)
<1>1. m \in Seq(WireMessages)
  BY DEF WireMessages
<1>2. <<SystemMessage>> \o m \in Seq(WireMessages)
  BY <1>1 DEF WireMessages
<1> QED
  BY <1>1, <1>2, KnownApis DEF Request, CohereRequest, CompatRequest, AnthropicRequest

LEMMA ProviderChosen ==
    ASSUME Setting, NEW r \in Runs, pc[r] # "idle" PROVE provider \in DOMAIN Apis
  BY DEF Setting, AgentTypes, NotSetUp

LEMMA ErrorIsOne == ASSUME NEW s PROVE ErrorOf(s) \in ErrorKinds
  BY Zenon DEF ErrorOf, ErrorKinds

LEMMA AgentMoveTypes ==
    ASSUME IInv, IInv', Setting, NEW r \in Runs, AgentMove(r) PROVE AgentTypes'
<1> USE DEF Setting
<1>1. CASE LoopStep(r)
  <2>1. provider \in DOMAIN Apis
    BY <1>1, ProviderChosen DEF LoopStep, Load, RejectCall, ExecuteCall, BatchDone, Save
  <2>2. request' \in [Runs -> Seq(WireMessages)]
    BY <1>1, <2>1, RequestType DEF LoopStep, Asks, AgentTypes, IInv, TypeOK
  <2> QED
    BY <1>1, <2>2 DEF LoopStep, setupVars, AgentTypes
<1>2. ASSUME NEW a \in WireAnswers, Answer(r, a) PROVE AgentTypes'
  <2>1. provider \in DOMAIN Apis /\ Speaks(provider, a)
    BY <1>2, ProviderChosen DEF Answer, FinalAnswer, OutOfTokens, ToolUse
  <2>2. calls' \in [Runs -> Seq(WireCalls)]
    <3>1. calls[r] \o a.calls \in Seq(WireCalls)
      BY AnswerShape DEF AgentTypes
    <3> QED
      BY <1>2, <3>1 DEF Answer, AgentTypes
  <2>3. tokens' \in [Runs -> [input : Nat, output : Nat, total : Nat]]
    <3> DEFINE u == Response(provider, a).usage
    <3>1. u.input \in Nat /\ u.output \in Nat /\ u.total \in Nat
      BY <2>1, UsageOf
    <3>2. tokens[r] \in [input : Nat, output : Nat, total : Nat]
      BY DEF AgentTypes
    <3>3. tokens' = [tokens EXCEPT ![r] = [input |-> tokens[r].input + u.input,
                                          output |-> tokens[r].output + u.output,
                                          total |-> tokens[r].total + u.total]]
      BY <1>2 DEF Answer, Counted
    <3> HIDE DEF u
    <3>4. /\ tokens[r].input + u.input \in Nat /\ tokens[r].output + u.output \in Nat
          /\ tokens[r].total + u.total \in Nat
      BY <3>1, <3>2
    <3> QED
      BY <3>3, <3>4 DEF AgentTypes
  <2>4. billed' \in [Runs -> [sum : Nat, exact : BOOLEAN]]
    BY <1>2, AnswerShape DEF Answer, Charge, AgentTypes
  <2> QED
    BY <1>2, <2>2, <2>3, <2>4 DEF Answer, setupVars, AgentTypes
<1>3. ASSUME NEW a \in WireAnswers, AnswerPanics(r, a) PROVE AgentTypes'
  <2>1. billed' \in [Runs -> [sum : Nat, exact : BOOLEAN]]
    BY <1>3, AnswerShape DEF AnswerPanics, Charge, AgentTypes
  <2> QED
    BY <1>3, <2>1 DEF AnswerPanics, setupVars, AgentTypes
<1>4. ASSUME NEW s \in Failures, AnswerFails(r, s) PROVE AgentTypes'
  <2>1. failure' \in [Runs -> ErrorKinds \cup {"none"}]
    BY <1>4, ErrorIsOne DEF AnswerFails, AgentTypes
  <2> QED
    BY <1>4, <2>1 DEF AnswerFails, setupVars, AgentTypes
<1>5. CASE PostArrives(r) \/ ToolEnds(r)
  <2>1. CallNr(r) \in Nat
    BY ExecutionsFinite DEF CallNr, IInv
  <2>2. effects' \in [Runs -> Seq(Nat)]
    <3>1. Append(effects[r], CallNr(r)) \in Seq(Nat)
      BY <2>1 DEF AgentTypes
    <3>2. UNCHANGED effects \/ Act(r)
      BY <1>5 DEF PostArrives, ToolEnds
    <3> QED
      BY <3>1, <3>2 DEF Act, AgentTypes
  <2> QED
    BY <1>5, <2>2 DEF PostArrives, ToolEnds, setupVars, AgentTypes
<1>6. CASE UNCHANGED <<setupVars, wireVars>>
  BY <1>6 DEF setupVars, wireVars, AgentTypes
<1> QED
  BY <1>1, <1>2, <1>3, <1>4, <1>5, <1>6 DEF AgentMove, AgentStep, OwnStep, ServiceAnswers, Drop

LEMMA SetupTypes == ASSUME Setting, Setup PROVE AgentTypes'
  BY DEF Setting, Setup, AgentTypes, wireVars

-----------------------------------------------------------------------------
(* From the wire to the record *)

\* The calls of all answers are those on record and then those still pending, and their
\* kinds are what the wire made them.
CalledOf(r) ==
    /\ Len(calls[r]) = Len(records[r]) + Len(pending[r])
    /\ \A k \in DOMAIN records[r] :
          records[r][k].kind = "valid" <=> Executable(calls[r][k])
    /\ \A k \in DOMAIN pending[r] :
          pending[r][k] = "valid" <=> Executable(calls[r][Len(records[r]) + k])

Called == \A r \in Runs : CalledOf(r)

\* The call a run executes came over the wire for a registered tool.
LEMMA ExecutesACall ==
    ASSUME LInv, Setting, Called, NEW r \in Runs, pc[r] = "executing"
    PROVE  /\ CallNr(r) \in DOMAIN calls[r] /\ CallNr(r) \in Nat
           /\ Executable(calls[r][CallNr(r)])
           /\ ToolOf(r) \in tools /\ ToolOf(r) \in DOMAIN ToolOutcomes
<1>1. /\ pending[r] \in Seq(CallKinds) /\ pending[r] # <<>> /\ Head(pending[r]) = "valid"
      /\ calls[r] \in Seq(WireCalls) /\ CalledOf(r)
  BY DEF LInv, IInv, TypeOK, Counting, CountingOf, ExecutionsCounted, ExecutionsCountedOf,
         UnderWay, Setting, AgentTypes, Called
<1>2. Len(records[r]) \in Nat /\ Len(pending[r]) \in Nat /\ Len(pending[r]) > 0
  BY <1>1, ExecutionsFinite DEF LInv, IInv
<1>3. 1 \in DOMAIN pending[r] /\ pending[r][1] = "valid"
  BY <1>1, <1>2
<1>4. Executable(calls[r][Len(records[r]) + 1])
  BY <1>1, <1>3 DEF CalledOf
<1>5. Len(records[r]) + 1 \in 1 .. Len(calls[r])
  <2>1. \A a, b \in Nat : b > 0 => a + 1 \in 1 .. (a + b)
    OBVIOUS
  <2> QED
    BY <1>1, <1>2, <2>1 DEF CalledOf
<1> QED
  BY <1>1, <1>2, <1>4, <1>5 DEF CallNr, ToolOf, Executable, Setting, AgentTypes

LEMMA MovesAreLoopMoves ==
    ASSUME LInv, Setting, Called, NEW r \in Runs, AgentMove(r)
    PROVE  Begin(r) \/ Step(r) \/ Cancel(r) \/ UNCHANGED vars
  BY AgentMovesLoop, ExecutesACall

\* A move of r is not seen by another run.
LEMMA OthersApart ==
    ASSUME LInv, Setting, Called, NEW r \in Runs, AgentMove(r), NEW q \in Runs, q # r
    PROVE  /\ UNCHANGED setupVars
           /\ pc'[q] = pc[q] /\ records'[q] = records[q] /\ pending'[q] = pending[q]
           /\ output'[q] = output[q] /\ messages'[q] = messages[q]
           /\ request'[q] = request[q] /\ calls'[q] = calls[q] /\ effects'[q] = effects[q]
           /\ tokens'[q] = tokens[q] /\ billed'[q] = billed[q] /\ failure'[q] = failure[q]
           /\ panicked'[q] = panicked[q]
<1>1. /\ pc'[q] = pc[q] /\ records'[q] = records[q] /\ pending'[q] = pending[q]
      /\ output'[q] = output[q] /\ messages'[q] = messages[q]
  BY MovesAreLoopMoves, OthersUntouched DEF LInv, vars
<1>2. CASE LoopStep(r)
  BY <1>1, <1>2 DEF LoopStep, Asks, Setting, AgentTypes
<1>3. ASSUME NEW a \in WireAnswers, Answer(r, a)
      PROVE  /\ UNCHANGED <<setupVars, request, effects, failure, panicked>>
             /\ calls'[q] = calls[q] /\ tokens'[q] = tokens[q] /\ billed'[q] = billed[q]
  <2>1. calls'[q] = calls[q] /\ billed'[q] = billed[q]
    BY <1>3 DEF Answer, Charge, Setting, AgentTypes
  <2>2. tokens'[q] = tokens[q]
    BY <1>3 DEF Answer, Setting, AgentTypes
  <2> QED
    BY <1>3, <2>1, <2>2 DEF Answer
<1>4. ASSUME NEW a \in WireAnswers, AnswerPanics(r, a)
      PROVE  /\ UNCHANGED <<setupVars, request, calls, effects, tokens, failure>>
             /\ billed'[q] = billed[q] /\ panicked'[q] = panicked[q]
  BY <1>4 DEF AnswerPanics, Charge, Setting, AgentTypes
<1>5. ASSUME NEW s \in Failures, AnswerFails(r, s)
      PROVE  /\ UNCHANGED <<setupVars, request, calls, effects, tokens, billed, panicked>>
             /\ failure'[q] = failure[q]
  BY <1>5 DEF AnswerFails, Setting, AgentTypes
<1>6. CASE PostArrives(r) \/ ToolEnds(r)
  <2>1. UNCHANGED effects \/ Act(r)
    BY <1>6 DEF PostArrives, ToolEnds
  <2>2. effects'[q] = effects[q]
    BY <2>1 DEF Act, Setting, AgentTypes
  <2>3. UNCHANGED <<setupVars, request, calls, tokens, billed, failure, panicked>>
    BY <1>6 DEF PostArrives, ToolEnds
  <2> QED
    BY <1>1, <2>2, <2>3
<1>7. CASE UNCHANGED <<setupVars, wireVars>>
  BY <1>1, <1>7 DEF wireVars
<1> QED
  BY <1>1, <1>2, <1>3, <1>4, <1>5, <1>6, <1>7 DEF AgentMove, AgentStep, OwnStep,
     ServiceAnswers, Drop

LEMMA MovesAfterSetup ==
    ASSUME Setting, NEW r \in Runs, AgentMove(r)
    PROVE  UNCHANGED setupVars /\ provider \in DOMAIN Apis
<1>1. CASE LoopStep(r)
  BY <1>1, ProviderChosen DEF LoopStep, Load, RejectCall, ExecuteCall, BatchDone, Save
<1>2. ASSUME NEW a \in WireAnswers, Answer(r, a) \/ AnswerPanics(r, a)
      PROVE  UNCHANGED setupVars /\ pc[r] # "idle"
  BY <1>2 DEF Answer, AnswerPanics, FinalAnswer, OutOfTokens, ToolUse
<1>3. ASSUME NEW s \in Failures, AnswerFails(r, s)
      PROVE  UNCHANGED setupVars /\ pc[r] # "idle"
  BY <1>3 DEF AnswerFails, ProviderFails
<1>4. CASE PostArrives(r) \/ ToolEnds(r) \/ Drop(r)
  BY <1>4, ProviderChosen DEF PostArrives, ToolEnds, Drop, SentOnce, Cancel
<1>5. CASE provider # "none" /\ Begin(r) /\ UNCHANGED <<setupVars, wireVars>>
  BY <1>5 DEF Setting, AgentTypes
<1> QED
  BY <1>1, <1>2, <1>3, <1>4, <1>5, ProviderChosen DEF AgentMove, AgentStep, OwnStep,
     ServiceAnswers

\* If the answer asks for tools the AgentState lets it.
LEMMA WantsTools ==
    ASSUME LInv, NEW r \in Runs, NEW said, NEW batch, ToolUse(r, said, batch)
    PROVE  /\ pending' = [pending EXCEPT ![r] = batch] /\ pc'[r] = "acting"
           /\ UNCHANGED <<output, records>>
<1>1. pc[r] = "thinking" /\ state[r] = A!Reasoning(asked[r]) /\ asked[r] \in Nat
  BY DEF ToolUse, LInv, IInv, TypeOK, Counting, CountingOf
<1>2. A!CallTool(state[r]) # A!Invalid
  BY <1>1, LoopStates
<1> QED
  BY <1>2 DEF ToolUse, Goto, LInv, IInv, TypeOK

LEMMA SameCalled ==
    ASSUME NEW r \in Runs, CalledOf(r), records'[r] = records[r], pending'[r] = pending[r],
           calls'[r] = calls[r], tools' = tools
    PROVE  CalledOf(r)'
  BY DEF CalledOf, Executable

\* The call at the head of the pending ones goes on record.
LEMMA ObserveCalled ==
    ASSUME LInv, NEW r \in Runs, CalledOf(r), pending[r] # <<>>, NEW ok \in BOOLEAN,
           Observe(r, Head(pending[r]), ok), calls'[r] = calls[r], tools' = tools
    PROVE  CalledOf(r)'
<1> DEFINE n == Len(records[r])
<1> DEFINE p == pending[r]
<1> DEFINE rec == Record(Head(p), ok, state[r].step)
<1>1. /\ p \in Seq(CallKinds) /\ p # <<>> /\ records[r] \in Seq(Records)
      /\ records'[r] = Append(records[r], rec) /\ pending'[r] = Tail(p)
      /\ rec.kind = p[1] /\ n \in Nat
  BY ExecutionsFinite DEF LInv, IInv, TypeOK, Observe, Record
<1>2. Len(p) \in Nat /\ Len(p) > 0 /\ Len(Tail(p)) = Len(p) - 1
  BY <1>1
<1>3. Len(records'[r]) = n + 1 /\ DOMAIN records'[r] = 1 .. n + 1
  BY <1>1
<1>4. CalledOf(r) /\ Len(calls[r]) = n + Len(p)
  BY DEF CalledOf
<1>5. Len(calls'[r]) = Len(records'[r]) + Len(pending'[r])
  <2>1. \A a, b \in Nat : a + b = a + 1 + (b - 1)
    OBVIOUS
  <2> QED
    BY <1>1, <1>2, <1>3, <1>4, <2>1
<1>6. ASSUME NEW k \in DOMAIN records'[r]
      PROVE  records'[r][k].kind = "valid" <=> Executable(calls[r][k])
  <2>1. CASE k = n + 1
    <3>1. records'[r][k] = rec
      BY <1>1, <2>1
    <3>2. 1 \in DOMAIN p
      BY <1>1, <1>2
    <3>3. p[1] = "valid" <=> Executable(calls[r][n + 1])
      BY <1>4, <3>2 DEF CalledOf
    <3> QED
      BY <1>1, <2>1, <3>1, <3>3
  <2>2. CASE k # n + 1
    <3>1. k \in DOMAIN records[r] /\ records'[r][k] = records[r][k]
      BY <1>1, <1>3, <1>6, <2>2
    <3> QED
      BY <1>4, <3>1 DEF CalledOf
  <2> QED
    BY <2>1, <2>2
<1>7. ASSUME NEW k \in DOMAIN pending'[r]
      PROVE  pending'[r][k] = "valid" <=> Executable(calls[r][Len(records'[r]) + k])
  <2>1. k + 1 \in DOMAIN p /\ Tail(p)[k] = p[k + 1] /\ k \in Nat
    BY <1>1, <1>2, <1>7
  <2>2. n + (k + 1) = n + 1 + k
    <3>1. \A x, y \in Nat : x + (y + 1) = x + 1 + y
      OBVIOUS
    <3> QED
      BY <1>1, <2>1, <3>1
  <2>3. p[k + 1] = "valid" <=> Executable(calls[r][n + (k + 1)])
    BY <1>4, <2>1 DEF CalledOf
  <2> QED
    BY <1>1, <1>3, <2>1, <2>2, <2>3
<1> QED
  BY <1>5, <1>6, <1>7 DEF CalledOf, Executable

\* A batch arrives when no call is pending.
LEMMA BatchCalled ==
    ASSUME LInv, Setting, NEW r \in Runs, CalledOf(r), pending[r] = <<>>,
           provider \in DOMAIN Apis, NEW a \in WireAnswers, Speaks(provider, a),
           Response(provider, a).stop = "ToolUse",
           pending'[r] = Kinds(provider, a), calls'[r] = calls[r] \o a.calls,
           records'[r] = records[r], tools' = tools
    PROVE  CalledOf(r)'
<1> DEFINE n == Len(records[r])
<1> DEFINE c == calls[r]
<1>1. /\ n \in Nat /\ Len(c) = n /\ c \in Seq(WireCalls)
      /\ a.calls \in Seq(WireCalls) /\ Len(a.calls) \in Nat
      /\ DOMAIN a.calls = 1 .. Len(a.calls)
  BY AnswerShape, ExecutionsFinite DEF CalledOf, LInv, IInv, Setting, AgentTypes
<1>2. /\ DOMAIN Kinds(provider, a) = DOMAIN a.calls
      /\ \A k \in DOMAIN a.calls :
            Kinds(provider, a)[k] = "valid" <=> Executable(a.calls[k])
  BY ResponseCalls DEF Kinds
<1>3. pending'[r] \in Seq(CallKinds) /\ Len(pending'[r]) = Len(a.calls)
  <2>1. pending'[r] \in [1 .. Len(a.calls) -> CallKinds]
    BY <1>1, ResponseCalls DEF Kinds
  <2> QED
    BY <1>1, <2>1
<1> DEFINE d == calls'[r]
<1>4. /\ Len(d) = n + Len(a.calls)
      /\ \A k \in 1 .. n : d[k] = c[k]
      /\ \A k \in 1 .. Len(a.calls) : d[n + k] = a.calls[k]
  <2> DEFINE b == a.calls
  <2>1. d = c \o b /\ Len(c) = n /\ c \in Seq(WireCalls) /\ b \in Seq(WireCalls)
    BY <1>1
  <2> HIDE DEF d, c, n, b
  <2>2. /\ Len(c \o b) = Len(c) + Len(b)
        /\ \A k \in 1 .. Len(c) : (c \o b)[k] = c[k]
        /\ \A k \in 1 .. Len(b) : (c \o b)[Len(c) + k] = b[k]
    BY <2>1
  <2>3. /\ Len(d) = n + Len(b)
        /\ \A k \in 1 .. n : d[k] = c[k]
        /\ \A k \in 1 .. Len(b) : d[n + k] = b[k]
    BY <2>1, <2>2
  <2> QED
    BY <2>3 DEF b
<1>5. \A k \in DOMAIN records[r] : k \in 1 .. n
  BY ExecutionsFinite DEF LInv, IInv
<1>6. ASSUME NEW k \in DOMAIN records'[r]
      PROVE  records'[r][k].kind = "valid" <=> Executable(d[k])
  <2>1. k \in DOMAIN records[r] /\ d[k] = c[k]
    BY <1>4, <1>5, <1>6
  <2> QED
    BY <2>1 DEF CalledOf
<1>7. ASSUME NEW k \in DOMAIN pending'[r]
      PROVE  pending'[r][k] = "valid" <=> Executable(d[n + k])
  <2>1. k \in DOMAIN a.calls /\ d[n + k] = a.calls[k]
    BY <1>1, <1>2, <1>4, <1>7
  <2> QED
    BY <1>2, <2>1
<1>8. Len(d) = n + Len(pending'[r])
  BY <1>3, <1>4
<1> HIDE DEF d
<1> QED
  BY <1>6, <1>7, <1>8 DEF CalledOf, Executable, d

LEMMA MoveCalled ==
    ASSUME LInv, Setting, Called, NEW r \in Runs, AgentMove(r) PROVE Called'
<1>1. CalledOf(r) /\ UNCHANGED setupVars /\ provider \in DOMAIN Apis
  BY MovesAfterSetup DEF Called
<1>2. tools' = tools
  BY <1>1 DEF setupVars
<1>3. CalledOf(r)'
  <2>1. CASE LoopStep(r)
    <3>1. calls' = calls
      BY <2>1 DEF LoopStep
    <3>2. CASE RejectCall(r)
      BY <1>1, <1>2, <3>1, <3>2, ObserveCalled DEF RejectCall
    <3>3. CASE Load(r) \/ ExecuteCall(r) \/ BatchDone(r) \/ Save(r)
      BY <1>1, <1>2, <3>1, <3>3, SameCalled DEF Load, ExecuteCall, BatchDone, Save
    <3> QED
      BY <2>1, <3>2, <3>3 DEF LoopStep
  <2>2. ASSUME NEW a \in WireAnswers, Answer(r, a) PROVE CalledOf(r)'
    <3>1. CASE \E said : FinalAnswer(r, said) \/ OutOfTokens(r, said)
      <4>1. UNCHANGED <<records, pending>> /\ pc[r] = "thinking"
            /\ \E to \in {"saving", "returned"} : Goto(r, to)
        BY <3>1 DEF FinalAnswer, OutOfTokens, Return
      <4>2. pc'[r] \in {"saving", "returned"}
        BY <4>1 DEF Goto, LInv, IInv, TypeOK
      <4>3. calls' = calls
        <5>1. ASSUME NEW said, NEW batch, ToolUse(r, said, batch) PROVE FALSE
          BY <4>2, <5>1, WantsTools
        <5> QED
          BY <2>2, <5>1 DEF Answer
      <4> QED
        BY <1>1, <1>2, <4>1, <4>3, SameCalled
    <3>2. CASE \A said : ~ (FinalAnswer(r, said) \/ OutOfTokens(r, said))
      <4>1. /\ Response(provider, a).stop = "ToolUse" /\ Speaks(provider, a)
            /\ ToolUse(r, Response(provider, a).text, Kinds(provider, a))
            /\ calls' = [calls EXCEPT ![r] = calls[r] \o a.calls]
        BY <2>2, <3>2 DEF Answer, Kinds
      <4>2. pending' = [pending EXCEPT ![r] = Kinds(provider, a)] /\ records' = records
            /\ pending[r] = <<>>
        BY <4>1, WantsTools DEF LInv, Observed, ObservedOf, ToolUse
      <4>3. pending'[r] = Kinds(provider, a) /\ calls'[r] = calls[r] \o a.calls
        BY <4>1, <4>2 DEF LInv, IInv, TypeOK, Setting, AgentTypes
      <4> QED
        BY <1>1, <1>2, <4>1, <4>2, <4>3, BatchCalled
    <3> QED
      BY <3>1, <3>2
  <2>3. ASSUME NEW a \in WireAnswers, AnswerPanics(r, a) PROVE CalledOf(r)'
    BY <1>1, <1>2, <2>3, SameCalled DEF AnswerPanics, Cancel
  <2>4. ASSUME NEW s \in Failures, AnswerFails(r, s) PROVE CalledOf(r)'
    BY <1>1, <1>2, <2>4, SameCalled DEF AnswerFails, ProviderFails
  <2>5. CASE PostArrives(r)
    BY <1>1, <1>2, <2>5, SameCalled DEF PostArrives, vars
  <2>6. CASE ToolEnds(r)
    <3>1. pc[r] = "executing" /\ calls' = calls /\ pending[r] # <<>>
      BY <2>6 DEF ToolEnds, LInv, IInv, Counting, CountingOf
    <3>2. ToolOf(r) \in DOMAIN ToolOutcomes
      BY <3>1, ExecutesACall
    <3>3. PICK o \in ToolOutcomes[ToolOf(r)] : ToolReturns(r, o.ok)
      BY <2>6 DEF ToolEnds
    <3>4. o.ok \in BOOLEAN
      BY <3>2, <3>3, OutcomesAreBoolean
    <3> QED
      BY <1>1, <1>2, <3>1, <3>3, <3>4, ObserveCalled DEF ToolReturns
  <2>7. CASE UNCHANGED wireVars /\ (Begin(r) \/ Cancel(r))
    BY <1>1, <1>2, <2>7, SameCalled DEF wireVars, Begin, Cancel
  <2> QED
    BY <2>1, <2>2, <2>3, <2>4, <2>5, <2>6, <2>7 DEF AgentMove, AgentStep, OwnStep,
       ServiceAnswers, Drop
<1>4. ASSUME NEW q \in Runs, q # r PROVE CalledOf(q)'
  BY <1>2, <1>4, OthersApart, SameCalled DEF Called
<1> QED
  BY <1>3, <1>4 DEF Called

LEMMA SetupCalled == ASSUME LInv, Setting, Called, Setup PROVE Called'
<1> SUFFICES ASSUME NEW r \in Runs PROVE CalledOf(r)'
  BY DEF Called
<1>1. UNCHANGED <<records, pending, calls>> /\ calls[r] = <<>> /\ CalledOf(r)
  BY DEF Setup, vars, wireVars, Setting, NotSetUp, Called
<1>2. Len(records[r]) \in Nat /\ Len(pending[r]) \in Nat /\ pending[r] \in Seq(CallKinds)
  BY ExecutionsFinite DEF LInv, IInv, TypeOK
<1>3. Len(records[r]) = 0 /\ Len(pending[r]) = 0
  <2>1. Len(records[r]) + Len(pending[r]) = 0
    BY <1>1 DEF CalledOf
  <2>2. \A a, b \in Nat : a + b = 0 => a = 0 /\ b = 0
    OBVIOUS
  <2> QED
    BY <1>2, <2>1, <2>2
<1>4. DOMAIN records[r] = {} /\ DOMAIN pending[r] = {}
  BY <1>2, <1>3, ExecutionsFinite DEF LInv, IInv
<1> QED
  BY <1>1, <1>4 DEF CalledOf

-----------------------------------------------------------------------------
(* The invariant of a process, and that its runs are runs of the loop *)

RoosInv == LInv /\ Setting /\ Called

LEMMA RoosBegins == RoosInit => RoosInv
<1> SUFFICES ASSUME RoosInit PROVE RoosInv
  OBVIOUS
<1>1. LInv
  BY LoopBegins DEF RoosInit, AgentInit
<1>2. Setting
  <2>1. AgentTypes
    <3>1. Usage(0, 0) \in [input : Nat, output : Nat, total : Nat]
      BY Remainder DEF Usage
    <3>2. tokens \in [Runs -> [input : Nat, output : Nat, total : Nat]]
      BY <3>1 DEF RoosInit, AgentInit
    <3> QED
      BY <3>2 DEF RoosInit, AgentInit, AgentTypes
  <2>2. NotSetUp
    BY DEF RoosInit, AgentInit, Init, NotSetUp
  <2> QED
    BY <2>1, <2>2 DEF Setting
<1>3. Called
  BY DEF RoosInit, AgentInit, Init, Called, CalledOf
<1> QED
  BY <1>1, <1>2, <1>3 DEF RoosInv

LEMMA RoosStepsTheLoop == ASSUME RoosInv, [RoosNext]_roosVars PROVE [Next]_vars
<1>1. CASE UNCHANGED roosVars
  BY <1>1 DEF roosVars, agentVars
<1>2. ASSUME NEW r \in Runs, AgentMove(r) PROVE [Next]_vars
  BY <1>2, MovesAreLoopMoves DEF RoosInv, Next
<1>3. CASE RoosNext
  BY <1>2, <1>3, ProcessMoves DEF RoosInv, Setting, Setup, agentVars
<1> QED
  BY <1>1, <1>3

LEMMA RoosKeeps == RoosInv /\ [RoosNext]_roosVars => RoosInv'
<1> SUFFICES ASSUME RoosInv, [RoosNext]_roosVars PROVE RoosInv'
  OBVIOUS
<1>1. LInv'
  BY RoosStepsTheLoop, LoopKeeps DEF RoosInv
<1>2. CASE UNCHANGED agentVars
  <2>1. UNCHANGED <<provider, tools, wireVars, pc, records, pending>>
    BY <1>2 DEF agentVars, vars, setupVars
  <2>2. Setting'
    BY <2>1 DEF RoosInv, wireVars, Setting, AgentTypes, NotSetUp
  <2>3. Called'
    BY <2>1, SameCalled DEF RoosInv, wireVars, Called
  <2> QED
    BY <1>1, <2>2, <2>3 DEF RoosInv
<1>3. ASSUME NEW r \in Runs, AgentMove(r) PROVE Setting' /\ Called'
  <2>1. AgentTypes'
    BY <1>1, <1>3, AgentMoveTypes DEF RoosInv, LInv
  <2>2. NotSetUp'
    BY <1>3, MovesAfterSetup DEF RoosInv, setupVars, NotSetUp, Apis
  <2> QED
    BY <1>3, <2>1, <2>2, MoveCalled DEF RoosInv, Setting
<1>4. CASE Setup
  <2>1. NotSetUp'
    BY <1>4 DEF Setup, NotSetUp, Apis
  <2> QED
    BY <1>1, <1>4, <2>1, SetupTypes, SetupCalled DEF RoosInv, Setting
<1>5. CASE RoosNext
  BY <1>1, <1>2, <1>3, <1>4, <1>5, ProcessMoves DEF RoosInv, Setting
<1> QED
  BY <1>2, <1>5 DEF roosVars

THEOREM ProcessInvariant == RoosSpec => []RoosInv
  BY RoosBegins, RoosKeeps, PTL DEF RoosSpec

\* Whatever the process is started as, and whatever comes over the wire, its runs are runs
\* of ReasoningLoop: every theorem about the loop holds of them.
THEOREM RunsAreReasoningLoops == RoosSpec => Spec
<1>1. RoosInit => Init
  BY DEF RoosInit, AgentInit
<1> QED
  BY <1>1, RoosStepsTheLoop, ProcessInvariant, PTL DEF RoosSpec, Spec

\* Every tool call that came over the wire is answered in its turn, and executed exactly
\* if it names a registered tool and fits its schema (openai.rs:227-240, loop_.rs:117-158).
THEOREM EveryWireCallAnswered == RoosSpec => []WireCallsAnswered
<1>1. RoosInv => WireCallsAnswered
  BY DEF RoosInv, Called, CalledOf, Executable, WireCallsAnswered
<1> QED
  BY <1>1, ProcessInvariant, PTL

-----------------------------------------------------------------------------
(* Tokens *)

\* A count that is exact has had no answer that could make it panic.
TokensOf(r) ==
    /\ tokens[r].total <= billed[r].sum
    /\ billed[r].exact =>
          /\ tokens[r].total = billed[r].sum
          /\ tokens[r].total = tokens[r].input + tokens[r].output

TokensCounted == \A r \in Runs : TokensOf(r)

LEMMA SameTokens ==
    ASSUME NEW r \in Runs, TokensOf(r), tokens'[r] = tokens[r], billed'[r] = billed[r]
    PROVE  TokensOf(r)'
  BY DEF TokensOf

LEMMA AnswerTokens ==
    ASSUME Setting, NEW r \in Runs, TokensOf(r), provider \in DOMAIN Apis,
           NEW a \in WireAnswers, Answer(r, a)
    PROVE  TokensOf(r)'
<1> DEFINE u == Response(provider, a).usage
<1> DEFINE t == tokens[r]
<1> DEFINE b == billed[r]
<1>1. /\ u.input \in Nat /\ u.output \in Nat /\ u.total \in Nat
      /\ u.total <= a.input + a.output
      /\ a.choices /\ ~ Overflows(a) =>
            u.total = a.input + a.output /\ u.input = a.input /\ u.output = a.output
  BY UsageOf DEF Answer
<1>2. /\ t.input \in Nat /\ t.output \in Nat /\ t.total \in Nat
      /\ b.sum \in Nat /\ b.exact \in BOOLEAN /\ a.input \in Nat /\ a.output \in Nat
  BY AnswerShape DEF Setting, AgentTypes
<1>3. /\ t.total <= b.sum
      /\ b.exact => t.total = b.sum /\ t.total = t.input + t.output
  BY DEF TokensOf
<1>4. /\ tokens'[r].input = t.input + u.input /\ tokens'[r].output = t.output + u.output
      /\ tokens'[r].total = t.total + u.total
  <2>1. tokens' = [tokens EXCEPT ![r] = [input |-> tokens[r].input + u.input,
                                        output |-> tokens[r].output + u.output,
                                        total |-> tokens[r].total + u.total]]
    BY DEF Answer, Counted
  <2> HIDE DEF u
  <2> QED
    BY <2>1 DEF Setting, AgentTypes
<1>5. /\ billed'[r].sum = b.sum + a.input + a.output
      /\ billed'[r].exact <=> b.exact /\ a.choices /\ ~ Overflows(a)
  BY DEF Answer, Charge, Setting, AgentTypes
<1> HIDE DEF u, t, b
<1>6. tokens'[r].total <= billed'[r].sum
  <2>1. \A x, y, v, i, o \in Nat : x <= y /\ v <= i + o => x + v <= y + i + o
    OBVIOUS
  <2> QED
    BY <1>1, <1>2, <1>3, <1>4, <1>5, <2>1
<1>7. ASSUME billed'[r].exact
      PROVE  /\ tokens'[r].total = billed'[r].sum
             /\ tokens'[r].total = tokens'[r].input + tokens'[r].output
  <2>1. /\ t.total = b.sum /\ t.total = t.input + t.output
        /\ u.total = a.input + a.output /\ u.input = a.input /\ u.output = a.output
    BY <1>1, <1>3, <1>5, <1>7
  <2>2. \A i, o, x, y \in Nat : (i + o) + (x + y) = (i + x) + (o + y)
    OBVIOUS
  <2>3. \A x, i, o \in Nat : x + (i + o) = x + i + o
    OBVIOUS
  <2> QED
    BY <1>2, <1>4, <1>5, <2>1, <2>2, <2>3
<1> QED
  BY <1>6, <1>7 DEF TokensOf

\* An answer that makes the process panic is charged, but is not reported.
LEMMA PanicTokens ==
    ASSUME Setting, NEW r \in Runs, TokensOf(r), NEW a \in WireAnswers, AnswerPanics(r, a)
    PROVE  TokensOf(r)'
<1>1. /\ tokens' = tokens /\ ~ billed'[r].exact
      /\ billed'[r].sum = billed[r].sum + a.input + a.output
  BY DEF AnswerPanics, Charge, Setting, AgentTypes
<1>2. /\ a.input \in Nat /\ a.output \in Nat /\ billed[r].sum \in Nat
      /\ tokens[r].total \in Nat
  BY AnswerShape DEF Setting, AgentTypes
<1>3. \A x, y, i, o \in Nat : x <= y => x <= y + i + o
  OBVIOUS
<1> QED
  BY <1>1, <1>2, <1>3 DEF TokensOf

LEMMA TokensKept == RoosInv /\ TokensCounted /\ [RoosNext]_roosVars => TokensCounted'
<1> SUFFICES ASSUME RoosInv, TokensCounted, [RoosNext]_roosVars PROVE TokensCounted'
  OBVIOUS
<1>1. CASE UNCHANGED <<tokens, billed>>
  BY <1>1, SameTokens DEF TokensCounted
<1>2. ASSUME NEW r \in Runs, AgentMove(r) PROVE TokensCounted'
  <2>1. TokensOf(r) /\ provider \in DOMAIN Apis
    BY <1>2, MovesAfterSetup DEF TokensCounted, RoosInv
  <2>2. TokensOf(r)'
    <3>1. CASE \E a \in WireAnswers : Answer(r, a) \/ AnswerPanics(r, a)
      BY <2>1, <3>1, AnswerTokens, PanicTokens DEF RoosInv
    <3>2. CASE UNCHANGED <<tokens, billed>>
      BY <2>1, <3>2, SameTokens
    <3>3. ~ (\E a \in WireAnswers : Answer(r, a) \/ AnswerPanics(r, a))
          => UNCHANGED <<tokens, billed>>
      BY <1>2 DEF AgentMove, AgentStep, OwnStep, ServiceAnswers, LoopStep, AnswerFails,
         PostArrives, ToolEnds, Drop, wireVars
    <3> QED
      BY <3>1, <3>2, <3>3
  <2>3. ASSUME NEW q \in Runs, q # r PROVE TokensOf(q)'
    BY <1>2, <2>3, OthersApart, SameTokens DEF RoosInv, TokensCounted
  <2> QED
    BY <2>2, <2>3 DEF TokensCounted
<1>3. CASE RoosNext
  BY <1>1, <1>2, <1>3, ProcessMoves DEF RoosInv, Setting, Setup, agentVars, wireVars
<1> QED
  BY <1>1, <1>3 DEF roosVars, agentVars, wireVars

\* However often a run asks, the tokens it reports are those its provider charged; only an
\* answer without choices, or one whose sum leaves u32, may make them less
\* (openai.rs:203-218, loop_.rs:88).
THEOREM TokensAreAccounted == RoosSpec => []TokensAccounted
<1>1. RoosInit => TokensCounted
  <2>1. 0 % U32 = 0
    BY Remainder
  <2> QED
    BY <2>1 DEF RoosInit, AgentInit, TokensCounted, TokensOf, Usage
<1>2. TokensCounted => TokensAccounted
  BY DEF TokensCounted, TokensOf, TokensAccounted
<1> QED
  BY <1>1, <1>2, TokensKept, ProcessInvariant, PTL DEF RoosSpec

-----------------------------------------------------------------------------
(* The conversation the provider sees *)

Starts(s, t) == Len(s) <= Len(t) /\ \A k \in 1 .. Len(s) : s[k] = t[k]

LEMMA StartsIsPrefix ==
    ASSUME NEW S, NEW s \in Seq(S), NEW t \in Seq(S), Starts(s, t) PROVE IsPrefix(s, t)
<1>1. Len(s) \in Nat /\ Len(t) \in Nat /\ Len(s) <= Len(t)
  BY DEF Starts
<1>2. SubSeq(s, 1, Len(s)) \in Seq(S) /\ SubSeq(t, 1, Len(s)) \in Seq(S)
  BY <1>1
<1>3. SubSeq(s, 1, Len(s)) = SubSeq(t, 1, Len(s))
  BY <1>1, <1>2 DEF Starts
<1> QED
  BY <1>1, <1>3 DEF IsPrefix

LEMMA StartsTransitive ==
    ASSUME NEW S, NEW s \in Seq(S), NEW t \in Seq(S), NEW u \in Seq(S),
           Starts(s, t), Starts(t, u)
    PROVE  Starts(s, u)
  BY DEF Starts

\* Whatever a provider puts around it, a longer conversation makes a longer request.
LEMMA RequestGrows ==
    ASSUME NEW p \in DOMAIN Apis, NEW old \in Seq(Messages), NEW new, Extended(new, old),
           NEW sys
    PROVE  Starts(Request(p, sys, old), Request(p, sys, new))
<1>1. new \in Seq(Messages) /\ Starts(old, new)
  BY ExtendedKeepsPrefix DEF Starts
<1>2. CASE Request(p, sys, old) = old /\ Request(p, sys, new) = new
  BY <1>1, <1>2
<1>3. CASE /\ Request(p, sys, old) = <<SystemMessage>> \o old
           /\ Request(p, sys, new) = <<SystemMessage>> \o new
  <2> DEFINE h == SystemMessage
  <2>1. \A m \in Seq(WireMessages) :
           /\ Len(<<h>> \o m) = Len(m) + 1
           /\ \A k \in 1 .. Len(m) + 1 : (<<h>> \o m)[k] = IF k = 1 THEN h ELSE m[k - 1]
    <3> TAKE m \in Seq(WireMessages)
    <3>1. h \in WireMessages
      BY DEF WireMessages
    <3> HIDE DEF h
    <3> QED
      BY <3>1
  <2>2. old \in Seq(WireMessages) /\ new \in Seq(WireMessages)
    BY <1>1 DEF WireMessages
  <2>3. Len(old) \in Nat /\ Len(new) \in Nat
    BY <1>1
  <2> HIDE DEF h
  <2>4. Starts(<<h>> \o old, <<h>> \o new)
    <3> DEFINE x == <<h>> \o old
    <3> DEFINE y == <<h>> \o new
    <3>1. Len(x) = Len(old) + 1 /\ Len(y) = Len(new) + 1 /\ Len(old) <= Len(new)
      BY <1>1, <2>1, <2>2 DEF Starts
    <3>2. ASSUME NEW k \in 1 .. Len(old) + 1 PROVE x[k] = y[k]
      <4>1. /\ x[k] = IF k = 1 THEN h ELSE old[k - 1]
            /\ y[k] = IF k = 1 THEN h ELSE new[k - 1]
        BY <2>1, <2>2, <2>3, <3>1
      <4>2. k # 1 => k - 1 \in 1 .. Len(old)
        BY <2>3
      <4> QED
        BY <1>1, <4>1, <4>2 DEF Starts
    <3> HIDE DEF x, y
    <3>3. Starts(x, y)
      BY <2>3, <3>1, <3>2 DEF Starts
    <3> QED
      BY <3>3 DEF x, y
  <2> QED
    BY <1>3, <2>4 DEF h
<1> QED
  BY <1>2, <1>3, KnownApis DEF Request, CohereRequest, CompatRequest, AnthropicRequest

\* The last request of a run is the beginning of what it would send now.
RequestsOf(r) ==
    /\ pc[r] \in {"idle", "loading"} => request[r] = <<>>
    /\ request[r] # <<>> => Starts(request[r], Request(provider, system, messages[r]))

Requests == \A r \in Runs : RequestsOf(r)

LEMMA SameRequests ==
    ASSUME NEW r \in Runs, RequestsOf(r), pc'[r] = pc[r], request'[r] = request[r],
           messages'[r] = messages[r], UNCHANGED setupVars
    PROVE  RequestsOf(r)'
<1>1. Request(provider, system, messages[r])' = Request(provider, system, messages[r])
  BY DEF setupVars, Request, CohereRequest, CompatRequest, AnthropicRequest
<1> QED
  BY <1>1 DEF RequestsOf

\* A run that is under way does not start over.
LEMMA StepsOn ==
    ASSUME IInv, NEW r \in Runs, Step(r) \/ Cancel(r)
    PROVE  pc'[r] \notin {"idle", "loading"}
<1>1. CASE LoadFails(r) \/ ProviderFails(r) \/ ExecuteCall(r) \/ Save(r) \/ SaveFails(r)
           \/ Cancel(r)
  BY <1>1 DEF LoadFails, ProviderFails, ExecuteCall, Save, SaveFails, Cancel, Return, Goto,
              IInv, TypeOK
<1>2. CASE Load(r) \/ BatchDone(r)
  BY <1>2 DEF Load, BatchDone, LoopTop, Return, Goto, IInv, TypeOK
<1>3. ASSUME NEW said \in BOOLEAN,
             \/ FinalAnswer(r, said) \/ OutOfTokens(r, said)
             \/ \E batch \in Batches(r) : ToolUse(r, said, batch)
      PROVE  pc'[r] \notin {"idle", "loading"}
  BY <1>3 DEF FinalAnswer, OutOfTokens, ToolUse, Return, Goto, IInv, TypeOK
<1>4. CASE RejectCall(r)
  BY <1>4 DEF RejectCall
<1>5. ASSUME NEW ok \in BOOLEAN, ToolReturns(r, ok) PROVE pc'[r] \notin {"idle", "loading"}
  BY <1>5 DEF ToolReturns, Goto, IInv, TypeOK
<1> QED
  BY <1>1, <1>2, <1>3, <1>4, <1>5 DEF Step

\* A request, once it is made, stays or gives way to one that goes on from it.
LEMMA MoveRequests ==
    ASSUME RoosInv, Requests, NEW r \in Runs, AgentMove(r)
    PROVE  RequestsOf(r)' /\ (request[r] # <<>> => IsPrefix(request[r], request'[r]))
<1> DEFINE Wire(m) == Request(provider, system, m)
<1>1. /\ provider \in DOMAIN Apis /\ UNCHANGED setupVars /\ RequestsOf(r)
      /\ messages[r] \in Seq(Messages) /\ request[r] \in Seq(WireMessages)
      /\ messages'[r] \in Seq(Messages)
  <2>1. TypeOK'
    BY RoosStepsTheLoop, LoopKeeps, MovesAreLoopMoves DEF RoosInv, LInv, IInv, Next
  <2> QED
    BY <2>1, MovesAfterSetup
       DEF RoosInv, LInv, IInv, TypeOK, Setting, AgentTypes, Requests
<1>2. /\ Wire(messages[r]) \in Seq(WireMessages) /\ Wire(messages'[r]) \in Seq(WireMessages)
  BY <1>1, RequestType
<1>3. pc[r] # "loading" => Starts(Wire(messages[r]), Wire(messages'[r]))
  <2>1. Extended(messages'[r], messages[r]) \/ pc[r] = "loading"
    BY MovesAreLoopMoves, StepExtends DEF RoosInv, LInv, Next
  <2> QED
    BY <1>1, <2>1, RequestGrows
<1>4. /\ pc[r] = "loading" => request[r] = <<>>
      /\ request[r] # <<>> => Starts(request[r], Wire(messages[r]))
  BY <1>1 DEF RequestsOf
<1>5. request[r] # <<>> => Starts(request[r], Wire(messages'[r]))
  BY <1>1, <1>2, <1>3, <1>4, StartsTransitive
<1>6. \/ request'[r] = request[r]
      \/ request'[r] = Wire(messages'[r])
  <2>1. CASE LoopStep(r)
    BY <2>1 DEF LoopStep, Asks, RoosInv, Setting, AgentTypes
  <2>2. CASE ~ LoopStep(r)
    BY <2>2 DEF AgentMove, AgentStep, OwnStep, ServiceAnswers, Answer, AnswerPanics,
       AnswerFails, PostArrives, ToolEnds, Drop, wireVars
  <2> QED
    BY <2>1, <2>2
<1>7. pc'[r] \in {"idle", "loading"} => request'[r] = <<>>
  <2>1. CASE LoopStep(r)
    BY <2>1 DEF LoopStep, Load, RejectCall, ExecuteCall, BatchDone, Save, LoopTop, Return, Goto,
                RoosInv, LInv, IInv, TypeOK
  <2>2. CASE ~ LoopStep(r)
    <3>1. request' = request
      BY <2>2 DEF AgentMove, AgentStep, OwnStep, ServiceAnswers, Answer, AnswerPanics,
         AnswerFails, PostArrives, ToolEnds, Drop, wireVars
    <3>2. CASE Step(r) \/ Cancel(r)
      BY <3>2, StepsOn DEF RoosInv, LInv
    <3>3. CASE Begin(r) \/ UNCHANGED vars
      BY <1>1, <3>1, <3>3 DEF Begin, vars, RequestsOf
    <3> QED
      BY <3>2, <3>3, MovesAreLoopMoves DEF RoosInv
  <2> QED
    BY <2>1, <2>2
<1>8. Wire(messages[r])' = Wire(messages'[r])
  BY <1>1 DEF setupVars, Request, CohereRequest, CompatRequest, AnthropicRequest
<1> HIDE DEF Wire
<1>9. request'[r] # <<>> => Starts(request'[r], Wire(messages'[r]))
  BY <1>2, <1>5, <1>6 DEF Starts
<1>10. request[r] # <<>> => IsPrefix(request[r], request'[r])
  <2>1. Starts(request[r], request[r])
    BY <1>1 DEF Starts
  <2> QED
    BY <1>1, <1>2, <1>5, <1>6, <2>1, StartsIsPrefix
<1> QED
  BY <1>7, <1>8, <1>9, <1>10 DEF RequestsOf, Wire

RequestsGrow == \A r \in Runs : request[r] # <<>> => IsPrefix(request[r], request'[r])

LEMMA RequestsKept ==
    RoosInv /\ Requests /\ [RoosNext]_roosVars => Requests' /\ [RequestsGrow]_request
<1> SUFFICES ASSUME RoosInv, Requests, [RoosNext]_roosVars
             PROVE  Requests' /\ [RequestsGrow]_request
  OBVIOUS
<1>1. CASE UNCHANGED agentVars
  BY <1>1, SameRequests DEF Requests, agentVars, vars, wireVars
<1>2. ASSUME NEW r \in Runs, AgentMove(r) PROVE Requests' /\ RequestsGrow
  <2>1. RequestsOf(r)' /\ (request[r] # <<>> => IsPrefix(request[r], request'[r]))
    BY <1>2, MoveRequests
  <2>2. ASSUME NEW q \in Runs, q # r
        PROVE  RequestsOf(q)' /\ (request[q] # <<>> => IsPrefix(request[q], request'[q]))
    <3>1. RequestsOf(q)' /\ request'[q] = request[q]
      BY <1>2, <2>2, OthersApart, SameRequests DEF RoosInv, Requests
    <3>2. request[q] \in Seq(WireMessages) /\ Starts(request[q], request[q])
      BY DEF RoosInv, Setting, AgentTypes, Starts
    <3> QED
      BY <3>1, <3>2, StartsIsPrefix
  <2> QED
    BY <2>1, <2>2 DEF Requests, RequestsGrow
<1>3. CASE Setup
  BY <1>3 DEF Setup, RoosInv, Setting, NotSetUp, wireVars, vars, Requests, RequestsOf
<1>4. CASE RoosNext
  BY <1>1, <1>2, <1>3, <1>4, ProcessMoves DEF RoosInv, Setting
<1> QED
  BY <1>1, <1>4 DEF roosVars

\* Each request of a run goes on from the one before it, for every provider, however the
\* runs that share a memory interleave (loop_.rs:84, cohere.rs:120-132).
THEOREM ContextOnlyGrows == RoosSpec => ContextGrows
<1>1. RoosInit => Requests
  BY DEF RoosInit, AgentInit, Requests, RequestsOf
<1> QED
  BY <1>1, RequestsKept, ProcessInvariant, PTL DEF RoosSpec, ContextGrows, RequestsGrow

-----------------------------------------------------------------------------
(* From the record to the world *)

Increasing(e) == \A i, j \in DOMAIN e : i < j => e[i] < e[j]

ActingTools == {"write_file", "execute_shell", "http_post"}

\* The run is at a call of http_post, or was when it was dropped.
Posts(r) == (pc[r] = "executing" \/ output[r].kind = "Cancelled") /\ ToolOf(r) = "http_post"

EffectsOf(r) ==
    /\ Increasing(effects[r])
    /\ \A i \in DOMAIN effects[r] :
          \/ /\ effects[r][i] \in DOMAIN records[r]
             /\ records[r][effects[r][i]].kind = "valid"
          \/ effects[r][i] = CallNr(r) /\ Posts(r)
    /\ \A k \in DOMAIN records[r] :
          records[r][k].ok /\ calls[r][k].tool \in ActingTools => k \in ToSet(effects[r])

Effects == \A r \in Runs : EffectsOf(r)

LEMMA Appending ==
    ASSUME NEW e \in Seq(Nat), NEW n \in Nat, \A i \in DOMAIN e : e[i] < n, Increasing(e)
    PROVE  /\ Increasing(Append(e, n)) /\ ToSet(Append(e, n)) = ToSet(e) \cup {n}
           /\ \A i \in DOMAIN Append(e, n) :
                 (i \in DOMAIN e /\ Append(e, n)[i] = e[i]) \/ Append(e, n)[i] = n
<1> DEFINE f == Append(e, n)
<1>1. /\ Len(e) \in Nat /\ DOMAIN e = 1 .. Len(e) /\ DOMAIN f = 1 .. Len(e) + 1
      /\ f[Len(e) + 1] = n /\ \A i \in 1 .. Len(e) : f[i] = e[i]
  OBVIOUS
<1> HIDE DEF f
<1>2. \A i \in DOMAIN f :
         \/ i \in DOMAIN e /\ f[i] = e[i]
         \/ i = Len(e) + 1 /\ f[i] = n
  BY <1>1
<1>3. ASSUME NEW i \in DOMAIN f, NEW j \in DOMAIN f, i < j PROVE f[i] < f[j]
  <2>1. i \in DOMAIN e /\ f[i] = e[i]
    BY <1>1, <1>2, <1>3
  <2> QED
    BY <1>2, <1>3, <2>1 DEF Increasing
<1>4. ToSet(f) = ToSet(e) \cup {n}
  BY <1>1, <1>2 DEF ToSet
<1>5. Increasing(f)
  BY <1>3 DEF Increasing
<1> QED
  BY <1>2, <1>4, <1>5 DEF f

\* Nothing is recorded and nothing acts.
LEMMA SameEffects ==
    ASSUME NEW r \in Runs, EffectsOf(r), records'[r] = records[r], effects'[r] = effects[r],
           \A k \in DOMAIN records[r] : calls'[r][k] = calls[r][k],
           Posts(r) => Posts(r)'
    PROVE  EffectsOf(r)'
  BY DEF EffectsOf, CallNr

\* A call goes on record, and may act in the same step.
LEMMA RecordedEffects ==
    ASSUME RoosInv, NEW r \in Runs, EffectsOf(r), NEW rec \in Records,
           records'[r] = Append(records[r], rec), calls'[r] = calls[r],
           Posts(r) => rec.kind = "valid",
           \/ effects'[r] = effects[r]
           \/ /\ effects'[r] = Append(effects[r], CallNr(r))
              /\ ~ Posts(r) /\ rec.kind = "valid",
           rec.ok /\ ToolOf(r) \in ActingTools => CallNr(r) \in ToSet(effects'[r])
    PROVE  EffectsOf(r)'
<1> DEFINE n == Len(records[r])
<1> DEFINE e == effects[r]
<1> DEFINE f == effects'[r]
<1> DEFINE s == records[r]
<1> DEFINE t == records'[r]
<1>1. /\ n \in Nat /\ s \in Seq(Records) /\ e \in Seq(Nat) /\ t = Append(s, rec)
      /\ CallNr(r) = n + 1
  BY ExecutionsFinite DEF RoosInv, LInv, IInv, Setting, AgentTypes, CallNr
<1>2. /\ DOMAIN s = 1 .. n /\ DOMAIN t = 1 .. n + 1
      /\ t[n + 1] = rec /\ \A k \in 1 .. n : t[k] = s[k]
  BY <1>1
<1>3. /\ Increasing(e)
      /\ \A i \in DOMAIN e :
            \/ e[i] \in 1 .. n /\ s[e[i]].kind = "valid"
            \/ e[i] = n + 1 /\ Posts(r)
      /\ \A k \in 1 .. n :
            s[k].ok /\ calls[r][k].tool \in ActingTools => k \in ToSet(e)
  BY <1>1, <1>2 DEF EffectsOf
<1> HIDE DEF n, s, t
<1>4. \/ f = e
      \/ f = Append(e, n + 1) /\ ~ Posts(r) /\ rec.kind = "valid"
  BY <1>1
<1> HIDE DEF e, f
<1>5. ~ Posts(r) => \A i \in DOMAIN e : e[i] < n + 1
  BY <1>1, <1>3
<1>6. /\ Increasing(f) /\ ToSet(e) \subseteq ToSet(f)
      /\ \A i \in DOMAIN f :
            \/ i \in DOMAIN e /\ f[i] = e[i]
            \/ f[i] = n + 1 /\ rec.kind = "valid"
  <2>1. CASE f = e
    BY <1>3, <2>1
  <2>2. CASE f = Append(e, n + 1) /\ ~ Posts(r) /\ rec.kind = "valid"
    <3>1. n + 1 \in Nat /\ e \in Seq(Nat) /\ Increasing(e)
      BY <1>1, <1>3
    <3>2. /\ Increasing(Append(e, n + 1))
          /\ ToSet(Append(e, n + 1)) = ToSet(e) \cup {n + 1}
          /\ \A i \in DOMAIN Append(e, n + 1) :
                (i \in DOMAIN e /\ Append(e, n + 1)[i] = e[i]) \/ Append(e, n + 1)[i] = n + 1
      BY <1>5, <2>2, <3>1, Appending
    <3> QED
      BY <2>2, <3>2
  <2> QED
    BY <1>4, <2>1, <2>2
<1>7. \A i \in DOMAIN f : f[i] \in DOMAIN t /\ t[f[i]].kind = "valid"
  BY <1>1, <1>2, <1>3, <1>6
<1>8. ASSUME NEW k \in DOMAIN t, t[k].ok, calls[r][k].tool \in ActingTools
      PROVE  k \in ToSet(f)
  <2>1. CASE k = n + 1
    BY <1>1, <1>2, <1>8, <2>1 DEF ToolOf, f
  <2>2. CASE k \in 1 .. n
    BY <1>2, <1>3, <1>6, <1>8, <2>2
  <2> QED
    BY <1>1, <1>2, <2>1, <2>2
<1> QED
  BY <1>6, <1>7, <1>8 DEF EffectsOf, f, t

LEMMA ActsWhenOk ==
    ASSUME NEW t \in ActingTools, NEW o \in ToolOutcomes[t], o.ok
    PROVE  o.effect
<1>1. ToolOutcomes[t] \in {WriteFile, ExecuteShell, HttpPost}
  BY DEF ActingTools, ToolOutcomes
<1>2. \A effect, ok :
         Outcome(effect, ok).effect = effect /\ Outcome(effect, ok).ok = ok
  BY DEF Outcome
<1>3. /\ Outcome(TRUE, TRUE).effect /\ ~ Outcome(FALSE, FALSE).ok
      /\ ~ Outcome(TRUE, FALSE).ok
  BY <1>2
<1>4. o \in {Outcome(TRUE, TRUE), Outcome(FALSE, FALSE), Outcome(TRUE, FALSE)}
  BY <1>1 DEF WriteFile, ExecuteShell, HttpPost
<1> QED
  BY <1>3, <1>4

LEMMA PostsOnlyExecuting ==
    ASSUME RoosInv, NEW r \in Runs, pc[r] \notin {"executing", "returned"}
    PROVE  ~ Posts(r)
  BY DEF RoosInv, LInv, IInv, Counting, CountingOf, Posts

\* The request of an http_post arrives, and the call has no record yet.
LEMMA PostEffects ==
    ASSUME RoosInv, NEW r \in Runs, EffectsOf(r), PostArrives(r)
    PROVE  EffectsOf(r)'
<1> DEFINE n == Len(records[r])
<1> DEFINE e == effects[r]
<1> DEFINE f == effects'[r]
<1>1. /\ n \in Nat /\ DOMAIN records[r] = 1 .. n /\ e \in Seq(Nat) /\ CallNr(r) = n + 1
  BY ExecutionsFinite DEF RoosInv, LInv, IInv, Setting, AgentTypes, CallNr
<1>2. /\ f = Append(e, n + 1) /\ records' = records /\ calls' = calls
      /\ pc[r] = "executing" /\ pc' = pc /\ ToolOf(r) = "http_post"
  BY <1>1 DEF PostArrives, Act, SentOnce, vars, RoosInv, Setting, AgentTypes
<1>3. /\ Increasing(e)
      /\ \A i \in DOMAIN e :
            \/ e[i] \in 1 .. n /\ records[r][e[i]].kind = "valid"
            \/ e[i] = n + 1 /\ Posts(r)
      /\ \A k \in 1 .. n :
            records[r][k].ok /\ calls[r][k].tool \in ActingTools => k \in ToSet(e)
  BY <1>1 DEF EffectsOf
<1>4. e # <<>> => e[Len(e)] # n + 1
  BY <1>1 DEF PostArrives, SentOnce, Acted, Last
<1> HIDE DEF n, e, f
<1>5. ASSUME NEW i \in DOMAIN e PROVE e[i] < n + 1
  <2>1. Len(e) \in Nat /\ DOMAIN e = 1 .. Len(e) /\ e # <<>> /\ Len(e) \in DOMAIN e
    BY <1>1, <1>5
  <2>2. \A j \in DOMAIN e : e[j] \in Nat /\ e[j] <= n + 1
    BY <1>1, <1>3
  <2>3. e[i] # n + 1
    <3>1. CASE i = Len(e)
      BY <1>4, <2>1, <3>1
    <3>2. CASE i < Len(e)
      <4>1. e[i] < e[Len(e)]
        BY <1>3, <2>1, <3>2 DEF Increasing
      <4> QED
        BY <1>1, <2>1, <2>2, <4>1
    <3> QED
      BY <2>1, <3>1, <3>2
  <2> QED
    BY <1>1, <2>2, <2>3
<1>6. /\ Increasing(f) /\ ToSet(f) = ToSet(e) \cup {n + 1}
      /\ \A i \in DOMAIN f : (i \in DOMAIN e /\ f[i] = e[i]) \/ f[i] = n + 1
  <2>1. n + 1 \in Nat
    BY <1>1
  <2> QED
    BY <1>1, <1>2, <1>3, <1>5, <2>1, Appending
<1>7. Posts(r) /\ Posts(r)' /\ CallNr(r)' = n + 1
  BY <1>1, <1>2 DEF Posts, ToolOf, CallNr
<1>8. ASSUME NEW i \in DOMAIN f
      PROVE  \/ f[i] \in 1 .. n /\ records[r][f[i]].kind = "valid"
             \/ f[i] = n + 1
  BY <1>3, <1>6
<1> QED
  BY <1>1, <1>2, <1>3, <1>6, <1>7, <1>8 DEF EffectsOf, f

LEMMA ToolEffects ==
    ASSUME RoosInv, NEW r \in Runs, EffectsOf(r), ToolEnds(r)
    PROVE  EffectsOf(r)'
<1> DEFINE n == CallNr(r)
<1>1. /\ pc[r] = "executing" /\ pending[r] # <<>> /\ Head(pending[r]) = "valid"
      /\ effects[r] \in Seq(Nat) /\ n \in Nat /\ ToolOf(r) \in DOMAIN ToolOutcomes
  BY ExecutesACall DEF ToolEnds, RoosInv, LInv, IInv, Counting, CountingOf, ExecutionsCounted,
     ExecutionsCountedOf, UnderWay, Setting, AgentTypes
<1>2. PICK o \in ToolOutcomes[ToolOf(r)] :
         /\ ToolReturns(r, o.ok)
         /\ IF Interruptible(ToolOf(r))
            THEN o.effect = Acted(r) /\ UNCHANGED effects
            ELSE IF o.effect THEN Act(r) ELSE UNCHANGED effects
  BY DEF ToolEnds
<1>3. o.ok \in BOOLEAN /\ o.effect \in BOOLEAN
  BY <1>1, OutcomesAreBoolean
<1> DEFINE rec == Record(Head(pending[r]), o.ok, state[r].step)
<1>4. rec \in Records /\ rec.kind = "valid" /\ rec.ok = o.ok
  <2>1. state[r].step \in Nat
    BY StepIsNat DEF RoosInv, LInv, IInv, TypeOK
  <2> QED
    BY <1>1, <1>3, <2>1 DEF Record, Records, CallKinds
<1>5. records'[r] = Append(records[r], rec) /\ calls'[r] = calls[r]
  BY <1>2 DEF ToolReturns, Observe, ToolEnds, RoosInv, LInv, IInv, TypeOK
<1> HIDE DEF n, rec
<1>6. o.ok /\ ToolOf(r) \in ActingTools => o.effect
  BY ActsWhenOk
<1>7. /\ \/ effects'[r] = effects[r]
         \/ effects'[r] = Append(effects[r], n) /\ ~ Posts(r)
      /\ o.ok /\ ToolOf(r) \in ActingTools => n \in ToSet(effects'[r])
  <2>1. CASE Interruptible(ToolOf(r))
    <3>1. effects' = effects /\ o.effect = Acted(r)
      BY <1>2, <2>1
    <3>2. Acted(r) => n \in ToSet(effects[r])
      <4>1. effects[r] # <<>> => Len(effects[r]) \in DOMAIN effects[r]
        BY <1>1
      <4> QED
        BY <4>1 DEF Acted, Last, ToSet, n
    <3> QED
      BY <1>6, <3>1, <3>2
  <2>2. CASE ~ Interruptible(ToolOf(r))
    <3>1. ~ Posts(r)
      BY <2>2 DEF Posts, Interruptible
    <3>2. CASE o.effect
      <4>1. effects'[r] = Append(effects[r], n)
        BY <1>2, <2>2, <3>2 DEF Act, n, RoosInv, Setting, AgentTypes
      <4>2. n \in ToSet(Append(effects[r], n))
        <5>1. /\ Len(effects[r]) + 1 \in DOMAIN Append(effects[r], n)
              /\ Append(effects[r], n)[Len(effects[r]) + 1] = n
          BY <1>1
        <5> QED
          BY <5>1 DEF ToSet
      <4> QED
        BY <3>1, <4>1, <4>2
    <3>3. CASE ~ o.effect
      BY <1>2, <1>6, <2>2, <3>3
    <3> QED
      BY <3>2, <3>3
  <2> QED
    BY <2>1, <2>2
<1> QED
  BY <1>4, <1>5, <1>7, RecordedEffects DEF n

LEMMA MoveEffects ==
    ASSUME RoosInv, NEW r \in Runs, EffectsOf(r), AgentMove(r)
    PROVE  EffectsOf(r)'
<1>1. CASE RejectCall(r) /\ LoopStep(r)
  <2> DEFINE rec == Record(Head(pending[r]), FALSE, state[r].step)
  <2>1. pending[r] \in Seq(CallKinds) /\ pending[r] # <<>> /\ state[r].step \in Nat
    BY <1>1, StepIsNat DEF RejectCall, RoosInv, LInv, IInv, TypeOK
  <2>2. rec \in Records /\ ~ rec.ok
    BY <2>1 DEF Record, Records
  <2>3. records'[r] = Append(records[r], rec) /\ calls' = calls /\ effects' = effects
    BY <1>1 DEF RejectCall, Observe, LoopStep, RoosInv, LInv, IInv, TypeOK
  <2>4. ~ Posts(r)
    BY <1>1, PostsOnlyExecuting DEF RejectCall
  <2> HIDE DEF rec
  <2> QED
    BY <2>2, <2>3, <2>4, RecordedEffects
<1>2. CASE LoopStep(r) /\ ~ RejectCall(r)
  <2>1. /\ pc[r] \notin {"executing", "returned"} /\ records' = records
        /\ calls' = calls /\ effects' = effects
    BY <1>2 DEF LoopStep, Load, ExecuteCall, BatchDone, Save
  <2> QED
    BY <2>1, PostsOnlyExecuting, SameEffects
<1>3. ASSUME NEW a \in WireAnswers, Answer(r, a) PROVE EffectsOf(r)'
  <2>1. /\ pc[r] = "thinking" /\ records' = records /\ effects' = effects
        /\ calls' = calls \/ calls' = [calls EXCEPT ![r] = calls[r] \o a.calls]
    BY <1>3 DEF Answer, FinalAnswer, OutOfTokens, ToolUse
  <2>2. ASSUME NEW k \in DOMAIN records[r] PROVE calls'[r][k] = calls[r][k]
    <3>1. /\ calls[r] \in Seq(WireCalls) /\ a.calls \in Seq(WireCalls)
          /\ k \in 1 .. Len(records[r]) /\ Len(records[r]) \in Nat
          /\ pending[r] \in Seq(CallKinds)
      <4>1. calls[r] \in Seq(WireCalls) /\ pending[r] \in Seq(CallKinds)
        BY DEF RoosInv, LInv, IInv, TypeOK, Setting, AgentTypes
      <4>2. records[r] \in Seq(Records)
        BY DEF RoosInv, LInv, IInv, TypeOK
      <4> QED
        BY <2>2, <4>1, <4>2, AnswerShape
    <3>2. k \in 1 .. Len(calls[r])
      <4>1. Len(pending[r]) \in Nat
        BY <3>1
      <4>2. Len(calls[r]) = Len(records[r]) + Len(pending[r])
        BY DEF RoosInv, Called, CalledOf
      <4>3. \A x, y \in Nat : \A j \in 1 .. x : j \in 1 .. (x + y)
        OBVIOUS
      <4> QED
        BY <3>1, <4>1, <4>2, <4>3
    <3>3. (calls[r] \o a.calls)[k] = calls[r][k]
      <4> DEFINE c == calls[r]
      <4> DEFINE d == a.calls
      <4>1. c \in Seq(WireCalls) /\ d \in Seq(WireCalls) /\ k \in 1 .. Len(c)
        BY <3>1, <3>2
      <4> HIDE DEF c, d
      <4>2. (c \o d)[k] = c[k]
        BY <4>1
      <4> QED
        BY <4>2 DEF c, d
    <3> QED
      BY <2>1, <3>3 DEF RoosInv, Setting, AgentTypes
  <2> QED
    BY <2>1, <2>2, PostsOnlyExecuting, SameEffects
<1>4. CASE (\E a \in WireAnswers : AnswerPanics(r, a)) \/ (\E s \in Failures : AnswerFails(r, s))
  <2>1. /\ pc[r] = "thinking" /\ records' = records /\ calls' = calls /\ effects' = effects
    BY <1>4 DEF AnswerPanics, Cancel, AnswerFails, ProviderFails
  <2> QED
    BY <2>1, PostsOnlyExecuting, SameEffects
<1>5. CASE PostArrives(r) \/ ToolEnds(r)
  BY <1>5, PostEffects, ToolEffects
<1>6. CASE Begin(r) /\ UNCHANGED wireVars
  BY <1>6, PostsOnlyExecuting, SameEffects DEF Begin, wireVars
<1>7. CASE Cancel(r) /\ UNCHANGED wireVars
  <2>1. Posts(r) => Posts(r)'
    BY <1>7 DEF Posts, ToolOf, CallNr, Cancel, Return, Output, wireVars,
                RoosInv, LInv, IInv, TypeOK
  <2> QED
    BY <1>7, <2>1, SameEffects DEF Cancel, wireVars
<1> QED
  BY <1>1, <1>2, <1>3, <1>4, <1>5, <1>6, <1>7 DEF AgentMove, AgentStep, OwnStep,
     ServiceAnswers, Drop

LEMMA EffectsKept == RoosInv /\ Effects /\ [RoosNext]_roosVars => Effects'
<1> SUFFICES ASSUME RoosInv, Effects, [RoosNext]_roosVars PROVE Effects'
  OBVIOUS
<1>1. CASE UNCHANGED <<pc, records, output, calls, effects>>
  BY <1>1 DEF Effects, EffectsOf, Posts, ToolOf, CallNr
<1>2. ASSUME NEW r \in Runs, AgentMove(r) PROVE Effects'
  <2>1. EffectsOf(r)'
    BY <1>2, MoveEffects DEF Effects
  <2>2. ASSUME NEW q \in Runs, q # r PROVE EffectsOf(q)'
    <3>1. /\ pc'[q] = pc[q] /\ output'[q] = output[q] /\ records'[q] = records[q]
          /\ calls'[q] = calls[q] /\ effects'[q] = effects[q]
      BY <1>2, <2>2, OthersApart DEF RoosInv
    <3>2. Posts(q) => Posts(q)'
      BY <3>1 DEF Posts, ToolOf, CallNr
    <3> QED
      BY <3>1, <3>2, SameEffects DEF Effects
  <2> QED
    BY <2>1, <2>2 DEF Effects
<1>3. CASE RoosNext
  BY <1>1, <1>2, <1>3, ProcessMoves DEF RoosInv, Setting, Setup, agentVars, vars, wireVars
<1> QED
  BY <1>1, <1>3 DEF roosVars, agentVars, vars, wireVars

\* The audit trail accounts for what the tools did to the world, with the one gap it has:
\* an http_post that is under way, or was dropped (loop_.rs:117-130, http.rs:114-135).
THEOREM EffectsAreAudited == RoosSpec => []EffectsAudited
<1>1. RoosInit => Effects
  BY DEF RoosInit, AgentInit, Init, Effects, EffectsOf, Increasing
<1>2. Effects => EffectsAudited
  BY DEF Effects, EffectsOf, Increasing, Posts, ActingTools, EffectsAudited
<1> QED
  BY <1>1, <1>2, EffectsKept, ProcessInvariant, PTL DEF RoosSpec

-----------------------------------------------------------------------------
(* The exit status *)

FileStates == {"absent", "theirs", "whole", "cut"}

\* `new` makes the parts in their order, and nothing over what it has found.
Project ==
    /\ files \in [ToSet(Parts) -> FileStates]
    /\ made \in 0 .. Len(Parts)
    /\ \A f \in ToSet(Parts) : files[f] = "theirs" => files["dir"] = "theirs" /\ made = 0
    /\ \A k \in 1 .. made : files[Parts[k]] = "whole"
    /\ command # "new" => files = NoFiles /\ made = 0

\* An error of the provider is the end of a run.
Failed ==
    \A r \in Runs :
        failure[r] # "none" => pc[r] = "returned" /\ output[r].kind = "ProviderError"

Exited ==
    /\ command \in Commands
    /\ command = "run" /\ provider # "none" => loaded.kind = "Ok"
    /\ exit = "ok" =>
          /\ command = "new" => made = Len(Parts)
          /\ command \in {"run", "list"} => loaded.kind = "Ok"
          /\ command = "run" => \A r \in Runs : output[r].kind = "Ok"

LEMMA PartsInOrder ==
    /\ Len(Parts) = 4 /\ ToSet(Parts) = {Parts[k] : k \in 1 .. 4}
    /\ Parts[1] = "dir" /\ Parts[2] = "roos.toml" /\ Parts[3] = "agent.rs"
    /\ Parts[4] = "gitignore"
    /\ \A k, j \in 1 .. 4 : Parts[k] = Parts[j] => k = j
<1>1. /\ Len(Parts) = 4 /\ DOMAIN Parts = 1 .. 4
      /\ Parts[1] = "dir" /\ Parts[2] = "roos.toml" /\ Parts[3] = "agent.rs"
      /\ Parts[4] = "gitignore"
  BY DEF Parts
<1>2. \A k \in 1 .. 4 : k = 1 \/ k = 2 \/ k = 3 \/ k = 4
  OBVIOUS
<1>3. \A k, j \in 1 .. 4 : Parts[k] = Parts[j] => k = j
  BY <1>1, <1>2
<1> QED
  BY <1>1, <1>3 DEF ToSet

LEMMA NewProject == ASSUME Project, NewStep PROVE Project'
<1>1. /\ files \in [ToSet(Parts) -> FileStates] /\ made \in 0 .. 4 /\ made \in Nat
      /\ \A f \in ToSet(Parts) : files[f] = "theirs" => files["dir"] = "theirs" /\ made = 0
      /\ \A k \in 1 .. made : files[Parts[k]] = "whole"
      /\ command = "new" /\ command' = command
      /\ "dir" \in ToSet(Parts)
  BY PartsInOrder DEF Project, NewStep
<1>2. CASE UNCHANGED <<files, made>>
  BY <1>1, <1>2, PartsInOrder DEF Project
<1>3. ASSUME made < 4, made = 0 => ~ IsTaken, NEW what \in {"whole", "cut"},
             files' = [files EXCEPT ![Parts[made + 1]] = what],
             IF what = "whole" THEN made' = made + 1 ELSE made' = made
      PROVE  Project'
  <2>1. made + 1 \in 1 .. 4 /\ Parts[made + 1] \in ToSet(Parts)
    BY <1>1, <1>3, PartsInOrder
  <2>2. \A f \in ToSet(Parts) : files[f] # "theirs"
    BY <1>1, <1>3 DEF IsTaken
  <2>3. /\ files' \in [ToSet(Parts) -> FileStates]
        /\ \A f \in ToSet(Parts) : files'[f] # "theirs"
    BY <1>1, <1>3, <2>1, <2>2 DEF FileStates
  <2>4. made' \in 0 .. 4
    BY <1>1, <1>3
  <2>5. ASSUME NEW k \in 1 .. made' PROVE files'[Parts[k]] = "whole"
    <3>1. k \in 1 .. 4 /\ Parts[k] \in ToSet(Parts)
      BY <2>4, <2>5, PartsInOrder
    <3>2. CASE k = made + 1
      BY <1>1, <1>3, <2>1, <2>5, <3>1, <3>2
    <3>3. CASE k # made + 1
      <4>1. k \in 1 .. made /\ Parts[k] # Parts[made + 1]
        BY <1>1, <1>3, <2>1, <2>5, <3>1, <3>3, PartsInOrder
      <4> QED
        BY <1>1, <1>3, <2>1, <3>1, <4>1
    <3> QED
      BY <3>2, <3>3
  <2> QED
    BY <1>1, <2>3, <2>4, <2>5, PartsInOrder DEF Project
<1>4. \/ UNCHANGED <<files, made>>
      \/ /\ made < 4 /\ (made = 0 => ~ IsTaken)
         /\ \E what \in {"whole", "cut"} :
               /\ files' = [files EXCEPT ![Parts[made + 1]] = what]
               /\ IF what = "whole" THEN made' = made + 1 ELSE made' = made
  <2>1. CASE /\ made < Len(Parts) /\ (made = 0 => ~ IsTaken)
             /\ files' = [files EXCEPT ![Parts[made + 1]] = "whole"] /\ made' = made + 1
    BY <2>1, PartsInOrder
  <2>2. CASE /\ made < Len(Parts) /\ (made = 0 => ~ IsTaken)
             /\ files' = [files EXCEPT ![Parts[made + 1]] = "cut"] /\ made' = made
    BY <2>2, PartsInOrder
  <2> QED
    BY <2>1, <2>2 DEF NewStep
<1> QED
  BY <1>2, <1>3, <1>4

LEMMA ProjectKept == Project /\ [RoosNext]_roosVars => Project'
<1> SUFFICES ASSUME Project, [RoosNext]_roosVars PROVE Project'
  OBVIOUS
<1>1. CASE NewStep
  BY <1>1, NewProject
<1>2. CASE UNCHANGED <<files, made, command>>
  BY <1>2 DEF Project
<1>3. NewStep \/ UNCHANGED <<files, made, command>>
  BY DEF RoosNext, CommandStep, ConfigStep, ConfigRefused, ListStep, RunSetup, RunEnds,
         AgentMoves, AgentAnswered, ServeOpens, AgentSetup, AgentDropped, Serves,
         ServerSetup, ServerGoes, processVars, roosVars
<1> QED
  BY <1>1, <1>2, <1>3

LEMMA FailedKept == RoosInv /\ Failed /\ [RoosNext]_roosVars => Failed'
<1> SUFFICES ASSUME RoosInv, Failed, [RoosNext]_roosVars PROVE Failed'
  OBVIOUS
<1>1. CASE UNCHANGED <<pc, output, failure>>
  BY <1>1 DEF Failed
<1>2. ASSUME NEW r \in Runs, AgentMove(r) PROVE Failed'
  <2>1. ASSUME NEW s \in Failures, AnswerFails(r, s)
        PROVE  pc'[r] = "returned" /\ output'[r].kind = "ProviderError"
    BY <2>1 DEF AnswerFails, ProviderFails, Return, Goto, Output, RoosInv, LInv, IInv, TypeOK
  <2>2. ASSUME \A s \in Failures : ~ AnswerFails(r, s)
        PROVE  failure'[r] = "none"
    <3>1. failure' = failure
      BY <1>2, <2>2 DEF AgentMove, AgentStep, OwnStep, ServiceAnswers, LoopStep, Answer,
         AnswerPanics, PostArrives, ToolEnds, Drop, wireVars
    <3>2. pc[r] # "returned"
      BY <1>2, <2>2 DEF AgentMove, AgentStep, OwnStep, ServiceAnswers, LoopStep, Load,
         RejectCall, ExecuteCall, BatchDone, Save, Answer, FinalAnswer, OutOfTokens, ToolUse,
         AnswerPanics, PostArrives, SentOnce, ToolEnds, Drop, Begin, Cancel
    <3> QED
      BY <3>1, <3>2 DEF Failed
  <2>3. failure'[r] # "none" => pc'[r] = "returned" /\ output'[r].kind = "ProviderError"
    BY <2>1, <2>2
  <2>4. ASSUME NEW q \in Runs, q # r
        PROVE  failure'[q] # "none" => pc'[q] = "returned" /\ output'[q].kind = "ProviderError"
    BY <1>2, <2>4, OthersApart DEF RoosInv, Failed
  <2> QED
    BY <2>3, <2>4 DEF Failed
<1>3. CASE RoosNext
  BY <1>1, <1>2, <1>3, ProcessMoves DEF RoosInv, Setting, Setup, agentVars, vars, wireVars
<1> QED
  BY <1>1, <1>3 DEF roosVars, agentVars, vars, wireVars

LEMMA ExitedKept == RoosInv /\ Exited /\ [RoosNext]_roosVars => Exited'
<1> SUFFICES ASSUME RoosInv, Exited, [RoosNext]_roosVars PROVE Exited'
  OBVIOUS
<1>1. CASE UNCHANGED <<command, exit, made, loaded, provider, output>>
  BY <1>1 DEF Exited
<1>2. CASE NewStep
  <2>1. /\ command = "new" /\ UNCHANGED <<command, loaded, provider>>
        /\ exit = "running"
        /\ \/ exit' = exit
           \/ exit' = "error"
           \/ exit' = "ok" /\ made' = Len(Parts)
    BY <1>2 DEF NewStep, Exits, configVars, agentVars, setupVars
  <2> QED
    BY <2>1 DEF Exited
<1>3. CASE ConfigStep
  <2>1. /\ loaded.kind # "Ok" /\ exit' = "running"
        /\ UNCHANGED <<command, provider>>
    BY <1>3 DEF ConfigStep, LoadConfig, ReadToml, Expand, NoMorePlaceholders, ParseToml,
                processVars, agentVars, setupVars
  <2> QED
    BY <2>1 DEF Exited
<1>4. CASE ConfigRefused
  BY <1>4 DEF ConfigRefused, Exits, configVars, agentVars, setupVars, Exited
<1>5. CASE ListStep
  BY <1>5 DEF ListStep, Exits, configVars, agentVars, setupVars, Exited
<1>6. CASE RunSetup
  BY <1>6 DEF RunSetup, Exits, configVars, setupVars, Exited
<1>7. ASSUME NEW r \in Runs, RunEnds(r) PROVE Exited'
  <2>1. /\ command = "run" /\ pc[r] = "returned" /\ exit' = ExitOf(r)
        /\ UNCHANGED <<command, loaded, provider, output>>
    BY <1>7 DEF RunEnds, Exits, configVars, agentVars, setupVars, vars
  <2>2. loaded.kind = "Ok"
    BY <2>1 DEF RoosInv, Setting, NotSetUp, Exited
  <2>3. exit' = "ok" => \A q \in Runs : output[q].kind = "Ok"
    BY <2>1, OneRunAssumption DEF ExitOf, Exited
  <2> QED
    BY <2>1, <2>2, <2>3 DEF Exited
<1>8. ASSUME NEW r \in Runs, AgentMoves(r) \/ AgentAnswered(r) PROVE Exited'
  <2>1. /\ provider # "none" /\ exit' = "running" /\ UNCHANGED <<command, loaded>>
    BY <1>8 DEF AgentMoves, AgentAnswered, processVars, configVars
  <2> QED
    BY <2>1 DEF Exited
<1>9. CASE command = "agent" /\ (AgentSetup \/ \E r \in Runs : AgentDropped(r))
  BY <1>9 DEF AgentSetup, AgentDropped, processVars, configVars, Exited
<1>10. CASE ServeOpens \/ Serves \/ ServerSetup \/ ServerGoes
  BY <1>1, <1>10 DEF ServeOpens, Serves, ServerSetup, ServerGoes, processVars, configVars,
                     agentVars, setupVars, vars
<1>11. CASE UNCHANGED roosVars
  BY <1>1, <1>11 DEF roosVars, processVars, configVars, agentVars, setupVars, vars
<1>12. AgentSetup => command = "agent"
  BY DEF AgentSetup
<1> QED
  BY <1>2, <1>3, <1>4, <1>5, <1>6, <1>7, <1>8, <1>9, <1>10, <1>11, <1>12
     DEF RoosNext, CommandStep

LEMMA ProcessBegins == RoosInit => Project /\ Failed /\ Exited
<1> SUFFICES ASSUME RoosInit PROVE Project /\ Failed /\ Exited
  OBVIOUS
<1>1. "dir" \in ToSet(Parts)
  BY PartsInOrder
<1>2. /\ files \in [ToSet(Parts) -> FileStates]
      /\ \A f \in ToSet(Parts) : files[f] = "theirs" => files["dir"] = "theirs"
  BY <1>1 DEF RoosInit, FilesBefore, NoFiles, FileStates
<1>3. Project
  BY <1>2, PartsInOrder DEF RoosInit, Project
<1>4. Failed
  BY DEF RoosInit, AgentInit, Failed
<1>5. Exited
  BY DEF RoosInit, AgentInit, Exited
<1> QED
  BY <1>3, <1>4, <1>5

\* A process that says it succeeded has done what it was asked for, and has left what it
\* found (main.rs:48-61, new.rs:6-21, run.rs:10-49).
THEOREM OkIsTrue == RoosSpec => []OkMeansDone
<1>1. RoosInv /\ Project /\ Failed /\ Exited => OkMeansDone
  <2> SUFFICES ASSUME RoosInv, Project, Failed, Exited PROVE OkMeansDone
    OBVIOUS
  <2>1. "dir" \in ToSet(Parts)
    BY PartsInOrder
  <2>2. files["dir"] = "theirs" => made = 0 /\ exit # "ok"
    <3>1. ASSUME files["dir"] = "theirs" PROVE command = "new" /\ made = 0
      BY <2>1, <3>1 DEF Project, NoFiles
    <3> QED
      BY <3>1, PartsInOrder DEF Exited
  <2>3. command = "new" /\ exit = "ok" => \A f \in ToSet(Parts) : files[f] = "whole"
    BY PartsInOrder DEF Project, Exited
  <2>4. ASSUME command = "run", exit = "ok", NEW r \in Runs
        PROVE  /\ output[r].kind = "Ok" /\ failure[r] = "none"
               /\ \E k \in DOMAIN store[id[r]] : store[id[r]][k].run = r
    <3>1. output[r].kind = "Ok" /\ failure[r] = "none"
      BY <2>4 DEF Exited, Failed
    <3>2. id[r] \in Ids /\ store[id[r]] \in Seq(Messages)
      BY DEF RoosInv, LInv, IInv, TypeOK
    <3>3. r \in {store[id[r]][k].run : k \in 1 .. Len(store[id[r]])}
      BY <3>1, <3>2 DEF RoosInv, LInv, AnswersStored, AnswersOf, Done
    <3> QED
      BY <3>1, <3>2, <3>3
  <2> QED
    BY <2>2, <2>3, <2>4 DEF OkMeansDone, Project, Exited
<1> QED
  BY <1>1, ProcessBegins, ProjectKept, FailedKept, ExitedKept, ProcessInvariant, PTL
     DEF RoosSpec

-----------------------------------------------------------------------------
(* The server of a process *)

\* An application's server takes no step of `roos serve`, and a process that is no such
\* server sets one up only as serve::run does.
Serving ==
    /\ ServerIInv
    /\ IF command = "server" THEN main = "off" ELSE ServeIInv

\* What a step of the process is to its server.
LEMMA ServerMoves ==
    ASSUME [RoosNext]_roosVars
    PROVE  /\ command' = command
           /\ \/ command = "server" /\ (Configure \/ TriggerNext) /\ UNCHANGED serveVars
              \/ ServeStep
              \/ command = "serve" /\ Open
              \/ UNCHANGED <<triggerVars, serveVars>>
<1>1. CASE UNCHANGED roosVars
  BY <1>1 DEF roosVars, processVars
<1>2. CASE CommandStep
  <2>1. CASE NewStep
    BY <2>1 DEF NewStep
  <2>2. CASE ConfigStep \/ ConfigRefused \/ ListStep
    BY <2>2 DEF ConfigStep, ConfigRefused, ListStep, processVars
  <2>3. CASE RunSetup
    BY <2>3 DEF RunSetup
  <2>4. ASSUME NEW r \in Runs, RunEnds(r) \/ AgentMoves(r) \/ AgentAnswered(r)
        PROVE  command' = command /\ UNCHANGED <<triggerVars, serveVars>>
    BY <2>4 DEF RunEnds, AgentMoves, AgentAnswered, processVars
  <2>5. CASE ServeOpens
    BY <2>5 DEF ServeOpens, processVars
  <2> QED
    BY <1>2, <2>1, <2>2, <2>3, <2>4, <2>5 DEF CommandStep
<1>3. CASE AgentSetup
  BY <1>3 DEF AgentSetup, processVars
<1>4. ASSUME NEW r \in Runs, AgentMoves(r) \/ AgentAnswered(r) \/ AgentDropped(r)
      PROVE  command' = command /\ UNCHANGED <<triggerVars, serveVars>>
  BY <1>4 DEF AgentMoves, AgentAnswered, AgentDropped, processVars
<1>5. CASE Serves
  BY <1>5 DEF Serves, processVars
<1>6. CASE ServerSetup \/ ServerGoes
  BY <1>6 DEF ServerSetup, ServerGoes, processVars
<1> QED
  BY <1>1, <1>2, <1>3, <1>4, <1>5, <1>6 DEF RoosNext

\* A process that never opened the scheduler's store takes no step of serve::run.
LEMMA OffStands == ASSUME main = "off", ServeStep PROVE FALSE
<1>1. ~ Running
  BY DEF Running
<1>2. ~ MainStep
  BY DEF MainStep, Spawn, Bind, Drain, ServerEnds, Drained, Join
<1>3. \A q \in Reqs : ~ Connect(q) /\ ~ Exchange(q)
  BY <1>1 DEF Connect, Exchange
<1> QED
  BY <1>1, <1>2, <1>3 DEF ServeStep, Tick, TicksStop, Listen, Interrupt, HangUp

LEMMA ServingKept ==
    ASSUME Serving, [RoosNext]_roosVars
    PROVE  Serving' /\ [Configure \/ TriggerNext]_triggerVars
<1>1. CASE command = "server"
  <2>1. \/ (Configure \/ TriggerNext) /\ UNCHANGED serveVars
        \/ UNCHANGED <<triggerVars, serveVars>>
    BY <1>1, ServerMoves, OffStands DEF Serving
  <2>2. main' = main /\ [Configure \/ TriggerNext]_triggerVars
    BY <2>1 DEF serveVars
  <2>3. ServerIInv'
    BY <2>2, ServerNextKeeps DEF Serving
  <2> QED
    BY <1>1, <2>2, <2>3, ServerMoves DEF Serving
<1>2. CASE command # "server"
  <2>1. [ServeNext]_AllVars
    BY <1>2, ServerMoves DEF ServeNext, AllVars
  <2>2. ServeIInv' /\ [Configure \/ TriggerNext]_triggerVars
    BY <1>2, <2>1, ServeNextKeeps, StepsAreServers DEF Serving
  <2>3. ServerIInv'
    BY <2>2, ServerNextKeeps DEF Serving
  <2> QED
    BY <1>2, <2>2, <2>3, ServerMoves DEF Serving
<1> QED
  BY <1>1, <1>2

LEMMA ServingAlways == RoosSpec => []Serving
<1>1. RoosInit => Serving
  BY ServerBegins, ServeInitEstablishes DEF RoosInit, ServeInit, Serving
<1>2. Serving /\ [RoosNext]_roosVars => Serving'
  BY ServingKept
<1> QED
  BY <1>1, <1>2, PTL DEF RoosSpec

\* Whatever the process is started as, what it does as a server is what TriggerServer
\* allows: `roos serve` and an application's own server alike (serve.rs:39-51).
THEOREM ProcessesAreServers == RoosSpec => TriggerSpec
<1>1. RoosInit => TriggerInit
  BY DEF RoosInit
<1>2. Serving /\ [RoosNext]_roosVars => [Configure \/ TriggerNext]_triggerVars
  BY ServingKept
<1> QED
  BY <1>1, <1>2, ServingAlways, PTL DEF RoosSpec, TriggerSpec

\* So no process serves a request that its token and its secret do not entitle
\* (server.rs:148-176).
THEOREM ProcessServesTheEntitled == RoosSpec => []OnlyEntitledServed
  BY ProcessesAreServers, EntitlementHolds, PTL

\* Nor does it lose a run that it accepted (server.rs:78-108).
THEOREM ProcessFindsAcceptedRuns == RoosSpec => AcceptedRunsFound
  BY ProcessesAreServers, AcceptedRunsAreFound, PTL

\* And `roos serve` reports success only after a graceful shutdown (serve.rs:69-79).
THEOREM ProcessExitsGracefully == RoosSpec => []GracefulExit
<1>1. Serving => GracefulExit
  BY DEF Serving, ServeIInv, Orderly, GracefulExit
<1> QED
  BY <1>1, ServingAlways, PTL

-----------------------------------------------------------------------------
(* Where an error of the configuration points *)

\* What is left to look at is the end of the file.
EndOfText ==
    /\ text \in Seq(STRING) /\ rest \in Seq(STRING)
    /\ Len(rest) <= Len(text)
    /\ \A k \in 1 .. Len(rest) : rest[k] = text[Len(text) - Len(rest) + k]

Reading ==
    /\ loaded.kind \in {"none", "expanding"} => EndOfText
    /\ ErrorsPointIntoFile

\* The characters that are looked for.
Dollar == "$"
LeftBrace == "{"
RightBrace == "}"

LEMMA PlacesOf ==
    ASSUME NEW s
    PROVE  /\ Opens(s) = {i \in 1 .. Len(s) - 1 : s[i] = Dollar /\ s[i + 1] = LeftBrace}
           /\ Closes(s) = {i \in 1 .. Len(s) : s[i] = RightBrace}
  BY Zenon DEF Opens, Closes, Dollar, LeftBrace, RightBrace

LEMMA FirstOf ==
    ASSUME NEW T, T \subseteq Nat, T # {}
    PROVE  Min(T) \in T /\ \A y \in T : Min(T) <= y
<1>1. PICK x \in T : \A y \in T : <<y, x>> \notin OpToRel(<, Nat)
  BY NatLessThanWellFounded, WFMin
<1>2. \A y \in T : ~ (y < x)
  <2> SUFFICES ASSUME NEW y \in T, y < x PROVE FALSE
    OBVIOUS
  <2>1. <<y, x>> \in Nat \X Nat
    OBVIOUS
  <2>2. <<y, x>>[1] < <<y, x>>[2]
    OBVIOUS
  <2>3. <<y, x>> \in OpToRel(<, Nat)
    BY <2>1, <2>2, Zenon DEF OpToRel
  <2> QED
    BY <1>1, <2>3
<1>3. \A y \in T : x <= y
  BY <1>2
<1> QED
  BY <1>3 DEF Min

LEMMA PieceOf ==
    ASSUME NEW s \in Seq(STRING), NEW a \in 1 .. Len(s) + 1, NEW b \in Nat, b <= Len(s)
    PROVE  /\ SubSeq(s, a, b) \in Seq(STRING)
           /\ Len(SubSeq(s, a, b)) = IF a <= b THEN b - a + 1 ELSE 0
           /\ \A k \in 1 .. b - a + 1 : SubSeq(s, a, b)[k] = s[a + k - 1]
<1>1. \A k \in a .. b : s[k] \in STRING
  OBVIOUS
<1> QED
  BY <1>1, SubSeqProperties

LEMMA EndOf ==
    ASSUME NEW s \in Seq(STRING), NEW i \in 1 .. Len(s) + 1
    PROVE  /\ From(s, i) \in Seq(STRING)
           /\ Len(From(s, i)) \in Nat /\ i + Len(From(s, i)) = Len(s) + 1
           /\ \A k \in 1 .. Len(From(s, i)) : From(s, i)[k] = s[i + k - 1]
<1>1. /\ From(s, i) \in Seq(STRING)
      /\ Len(From(s, i)) = IF i <= Len(s) THEN Len(s) - i + 1 ELSE 0
      /\ \A k \in 1 .. Len(s) - i + 1 : From(s, i)[k] = s[i + k - 1]
  BY PieceOf DEF From
<1>2. Len(From(s, i)) = Len(s) - i + 1
  BY <1>1
<1> QED
  BY <1>1, <1>2

LEMMA SamePiece ==
    ASSUME NEW s \in Seq(STRING), NEW t \in Seq(STRING), NEW d \in Nat,
           NEW a \in 1 .. Len(s) + 1, NEW b \in Nat, b <= Len(s), d + b <= Len(t),
           d + a <= Len(t) + 1, \A k \in a .. b : s[k] = t[d + k]
    PROVE  SubSeq(s, a, b) = SubSeq(t, d + a, d + b)
<1> DEFINE p == SubSeq(s, a, b)
<1> DEFINE q == SubSeq(t, d + a, d + b)
<1>1. d + a \in 1 .. Len(t) + 1 /\ d + b \in Nat /\ Len(t) \in Nat /\ Len(s) \in Nat
  OBVIOUS
<1>2. /\ p \in Seq(STRING) /\ Len(p) = IF a <= b THEN b - a + 1 ELSE 0
      /\ \A k \in 1 .. b - a + 1 : p[k] = s[a + k - 1]
  BY PieceOf
<1>3. /\ q \in Seq(STRING) /\ Len(q) = IF d + a <= d + b THEN d + b - (d + a) + 1 ELSE 0
      /\ \A k \in 1 .. d + b - (d + a) + 1 : q[k] = t[d + a + k - 1]
  BY <1>1, PieceOf
<1> HIDE DEF p, q
<1>4. /\ d + b - (d + a) + 1 = b - a + 1 /\ (d + a <= d + b <=> a <= b)
  BY <1>1
<1>5. Len(p) = Len(q)
  BY <1>2, <1>3, <1>4
<1>6. ASSUME NEW k \in 1 .. Len(p) PROVE p[k] = q[k]
  <2>1. k \in 1 .. b - a + 1 /\ a + k - 1 \in a .. b /\ d + (a + k - 1) = d + a + k - 1
    BY <1>1, <1>2
  <2>2. p[k] = s[a + k - 1] /\ q[k] = t[d + a + k - 1]
    BY <1>2, <1>3, <1>4, <2>1
  <2> QED
    BY <2>1, <2>2
<1>7. p = q
  BY <1>2, <1>3, <1>5, <1>6, SeqEqual
<1> QED
  BY <1>7 DEF p, q

-----------------------------------------------------------------------------
(* Where the pieces of what is left stand in the file *)

Before == Len(text) - Len(rest)
Start == Min(Opens(rest))
After == From(rest, Start + 2)
Shut == Min(Closes(After))
Close == Before + Start + 1 + Shut

LEMMA StartOf ==
    ASSUME EndOfText, Opens(rest) # {}
    PROVE  /\ Start \in Nat /\ 1 <= Start /\ Start < Len(rest) /\ Len(rest) \in Nat
           /\ Before \in Nat /\ Before + Len(rest) = Len(text) /\ Len(text) \in Nat
           /\ \A k \in 1 .. Len(rest) : rest[k] = text[Before + k]
           /\ Before + Start \in Opens(text)
           /\ \A j \in Before + 1 .. Before + Start - 1 : j \notin Opens(text)
<1>1. Opens(rest) \subseteq Nat /\ Len(rest) \in Nat
  BY PlacesOf DEF EndOfText
<1>2. Start \in Opens(rest) /\ \A j \in Opens(rest) : Start <= j
  BY <1>1, FirstOf DEF Start
<1> HIDE DEF Start
<1>3. /\ Start \in 1 .. Len(rest) - 1 /\ rest[Start] = Dollar /\ rest[Start + 1] = LeftBrace
  BY <1>2, PlacesOf
<1>4. Start \in Nat /\ 1 <= Start /\ Start < Len(rest) /\ Start + 1 \in Nat
  BY <1>1, <1>3
<1>5. /\ Len(text) \in Nat /\ Len(rest) <= Len(text)
      /\ \A k \in 1 .. Len(rest) : rest[k] = text[Before + k]
  BY DEF EndOfText, Before
<1>6. Before \in Nat /\ Before + Len(rest) = Len(text)
  BY <1>1, <1>5 DEF Before
<1>7. Before + Start \in Opens(text)
  <2>1. /\ Start \in 1 .. Len(rest) /\ Start + 1 \in 1 .. Len(rest)
        /\ Before + Start \in 1 .. Len(text) - 1 /\ Before + (Start + 1) = Before + Start + 1
    BY <1>1, <1>4, <1>5, <1>6
  <2>2. text[Before + Start] = Dollar /\ text[Before + Start + 1] = LeftBrace
    BY <1>3, <1>5, <2>1
  <2> QED
    BY <2>1, <2>2, PlacesOf
<1>8. ASSUME NEW j \in Before + 1 .. Before + Start - 1, j \in Opens(text) PROVE FALSE
  <2> DEFINE k == j - Before
  <2>1. /\ k \in 1 .. Len(rest) - 1 /\ k < Start /\ k \in 1 .. Len(rest)
        /\ k + 1 \in 1 .. Len(rest) /\ Before + k = j /\ Before + (k + 1) = j + 1
    BY <1>1, <1>4, <1>6
  <2> HIDE DEF k
  <2>2. text[j] = Dollar /\ text[j + 1] = LeftBrace
    BY <1>8, PlacesOf
  <2>3. rest[k] = Dollar /\ rest[k + 1] = LeftBrace
    BY <1>5, <2>1, <2>2
  <2>4. k \in Opens(rest)
    BY <2>1, <2>3, PlacesOf
  <2> QED
    BY <1>2, <1>4, <2>1, <2>4
<1> QED
  BY <1>1, <1>4, <1>5, <1>6, <1>7, <1>8

LEMMA AfterOf ==
    ASSUME EndOfText, Opens(rest) # {}
    PROVE  /\ After \in Seq(STRING) /\ Len(After) \in Nat
           /\ Before + Start + 1 + Len(After) = Len(text)
           /\ \A k \in 1 .. Len(After) : After[k] = text[Before + Start + 1 + k]
           /\ \A k \in 1 .. Len(After) :
                 k \in Closes(After) <=> Before + Start + 1 + k \in Closes(text)
<1>1. /\ Start \in Nat /\ 1 <= Start /\ Start < Len(rest) /\ Len(rest) \in Nat
      /\ Before \in Nat /\ Before + Len(rest) = Len(text) /\ Len(text) \in Nat
  BY StartOf
<1>1a. \A k \in 1 .. Len(rest) : rest[k] = text[Before + k]
  BY StartOf
<1> HIDE DEF Start, Before
<1>2. Start + 2 \in 1 .. Len(rest) + 1 /\ rest \in Seq(STRING)
  BY <1>1 DEF EndOfText
<1>3. /\ After \in Seq(STRING)
      /\ Len(After) \in Nat /\ Start + 2 + Len(After) = Len(rest) + 1
      /\ \A k \in 1 .. Len(After) : After[k] = rest[Start + 2 + k - 1]
  BY <1>1, <1>2, EndOf DEF After
<1> HIDE DEF After
<1>4. Before + Start + 1 + Len(After) = Len(text)
  <2>1. Len(After) \in Nat /\ Start + 2 + Len(After) = Len(rest) + 1
    BY <1>3
  <2> QED
    BY ONLY <1>1, <2>1
<1>5. ASSUME NEW k \in 1 .. Len(After) PROVE After[k] = text[Before + Start + 1 + k]
  <2>1. /\ Start + 2 + k - 1 = Start + 1 + k
        /\ Start + 1 + k \in 1 .. Len(rest) /\ Before + (Start + 1 + k) = Before + Start + 1 + k
    BY <1>1, <1>3
  <2>2. After[k] = rest[Start + 1 + k]
    BY <1>3, <2>1
  <2> QED
    BY <1>1a, <2>1, <2>2
<1>6. ASSUME NEW k \in 1 .. Len(After)
      PROVE  k \in Closes(After) <=> Before + Start + 1 + k \in Closes(text)
  <2>1. Before + Start + 1 + k \in 1 .. Len(text)
    BY <1>1, <1>3, <1>4
  <2> QED
    BY <1>5, <2>1, PlacesOf
<1> QED
  BY <1>3, <1>4, <1>5, <1>6

LEMMA ShutOf ==
    ASSUME EndOfText, Opens(rest) # {}, Closes(After) # {}
    PROVE  /\ Shut \in Nat /\ 1 <= Shut /\ Shut <= Len(After)
           /\ Close \in Closes(text)
           /\ Before + Start + 2 <= Close /\ Close <= Len(text)
           /\ \A j \in Before + Start + 2 .. Close - 1 : j \notin Closes(text)
           /\ SubSeq(After, 1, Shut - 1) = SubSeq(text, Before + Start + 2, Close - 1)
<1>1. /\ Start \in Nat /\ 1 <= Start /\ Before \in Nat /\ Len(text) \in Nat
      /\ Len(After) \in Nat /\ Before + Start + 1 + Len(After) = Len(text)
      /\ After \in Seq(STRING) /\ text \in Seq(STRING)
  BY StartOf, AfterOf DEF EndOfText
<1>1a. /\ \A k \in 1 .. Len(After) : After[k] = text[Before + Start + 1 + k]
       /\ \A k \in 1 .. Len(After) :
             k \in Closes(After) <=> Before + Start + 1 + k \in Closes(text)
  BY AfterOf
<1> HIDE DEF Start, Before, After
<1>2. Closes(After) \subseteq 1 .. Len(After) /\ Closes(After) \subseteq Nat
  BY <1>1, PlacesOf
<1>3. Shut \in Closes(After) /\ \A k \in Closes(After) : Shut <= k
  BY <1>2, FirstOf DEF Shut
<1> HIDE DEF Shut
<1>4. Shut \in 1 .. Len(After) /\ Shut \in Nat /\ 1 <= Shut /\ Shut <= Len(After)
  BY <1>1, <1>2, <1>3
<1>5. /\ Before + Start + 2 <= Close /\ Close <= Len(text) /\ Close \in Nat
  BY <1>1, <1>4 DEF Close
<1>6. Close \in Closes(text)
  BY <1>1a, <1>3, <1>4 DEF Close
<1>7. ASSUME NEW j \in Before + Start + 2 .. Close - 1, j \in Closes(text) PROVE FALSE
  <2> DEFINE k == j - Before - Start - 1
  <2>1. k \in 1 .. Len(After) /\ k < Shut /\ Before + Start + 1 + k = j
    BY <1>1, <1>4 DEF Close
  <2> HIDE DEF k
  <2>2. k \in Closes(After)
    BY <1>1a, <1>7, <2>1
  <2> QED
    BY <1>3, <1>4, <2>1, <2>2
<1>8. SubSeq(After, 1, Shut - 1) = SubSeq(text, Before + Start + 2, Close - 1)
  <2> DEFINE d == Before + Start + 1
  <2>1. /\ d \in Nat /\ Shut - 1 \in Nat /\ Shut - 1 <= Len(After) /\ 1 \in 1 .. Len(After) + 1
        /\ d + (Shut - 1) <= Len(text) /\ d + 1 <= Len(text) + 1
        /\ d + 1 = Before + Start + 2 /\ d + (Shut - 1) = Close - 1
    BY <1>1, <1>4 DEF Close
  <2>2. \A k \in 1 .. Shut - 1 : After[k] = text[d + k]
    <3>1. \A k \in 1 .. Shut - 1 : k \in 1 .. Len(After)
      BY <1>1, <1>4
    <3> QED
      BY <1>1a, <3>1
  <2> HIDE DEF d
  <2>3. SubSeq(After, 1, Shut - 1) = SubSeq(text, d + 1, d + (Shut - 1))
    BY <1>1, <2>1, <2>2, SamePiece
  <2> QED
    BY <2>1, <2>3
<1> QED
  BY <1>4, <1>5, <1>6, <1>7, <1>8

LEMMA BehindOf ==
    ASSUME EndOfText, Opens(rest) # {}, Closes(After) # {},
           rest' = From(After, Shut + 1), text' = text
    PROVE  EndOfText' /\ Len(rest') = Len(text) - Close
<1>1. /\ Start \in Nat /\ Before \in Nat /\ Len(text) \in Nat
      /\ Len(After) \in Nat /\ Before + Start + 1 + Len(After) = Len(text)
      /\ After \in Seq(STRING) /\ text \in Seq(STRING)
  BY StartOf, AfterOf DEF EndOfText
<1>2. /\ \A k \in 1 .. Len(After) : After[k] = text[Before + Start + 1 + k]
      /\ Shut \in Nat /\ 1 <= Shut /\ Shut <= Len(After)
  BY AfterOf, ShutOf
<1> HIDE DEF Start, Before, After, Shut
<1>3. Shut + 1 \in 1 .. Len(After) + 1
  BY <1>1, <1>2
<1>4. /\ rest' \in Seq(STRING)
      /\ Len(rest') \in Nat /\ Shut + 1 + Len(rest') = Len(After) + 1
      /\ \A k \in 1 .. Len(rest') : rest'[k] = After[Shut + 1 + k - 1]
  BY <1>1, <1>3, EndOf
<1>5. Close \in Nat /\ Close + Len(rest') = Len(text)
  <2>1. /\ Start \in Nat /\ Before \in Nat /\ Len(text) \in Nat /\ Shut \in Nat
        /\ Len(After) \in Nat /\ Before + Start + 1 + Len(After) = Len(text)
        /\ Len(rest') \in Nat /\ Shut + 1 + Len(rest') = Len(After) + 1
    BY <1>1, <1>2, <1>4
  <2> QED
    BY ONLY <2>1 DEF Close
<1>6. Len(rest') = Len(text) - Close /\ Len(rest') <= Len(text) /\ Len(text) - Len(rest') = Close
  <2>1. Len(text) \in Nat /\ Len(rest') \in Nat
    BY <1>1, <1>4
  <2> QED
    BY ONLY <1>5, <2>1
<1>7. ASSUME NEW k \in 1 .. Len(rest') PROVE rest'[k] = text[Len(text) - Len(rest') + k]
  <2>1. Shut + 1 + k - 1 = Shut + k /\ Shut + k \in 1 .. Len(After)
    BY <1>1, <1>2, <1>4
  <2>2. Before + Start + 1 + (Shut + k) = Close + k
    BY <1>1, <1>2, <1>4 DEF Close
  <2> QED
    BY <1>2, <1>4, <1>6, <2>1, <2>2
<1> QED
  BY <1>1, <1>4, <1>6, <1>7 DEF EndOfText

\* The three ways of a placeholder.
LEMMA ExpandCases ==
    ASSUME Expand
    PROVE  /\ loaded.kind = "expanding" /\ Opens(rest) # {} /\ UNCHANGED <<text, config>>
           /\ \/ /\ Closes(After) = {}
                 /\ loaded' = At("MalformedPlaceholder", Before + Start - 1, <<>>)
                 /\ UNCHANGED <<rest, out>>
              \/ /\ Closes(After) # {}
                 /\ SubSeq(After, 1, Shut - 1) \notin DOMAIN Environment
                 /\ loaded' = At("MissingEnvVar", 0, SubSeq(After, 1, Shut - 1))
                 /\ UNCHANGED <<rest, out>>
              \/ /\ Closes(After) # {}
                 /\ SubSeq(After, 1, Shut - 1) \in DOMAIN Environment
                 /\ out' = out \o SubSeq(rest, 1, Start - 1)
                               \o Environment[SubSeq(After, 1, Shut - 1)]
                 /\ rest' = From(After, Shut + 1)
                 /\ UNCHANGED loaded
  BY Zenon DEF Expand, AfterValue, MalformedAt, Before, Start, After, Shut

LEMMA ExpandPoints == ASSUME EndOfText, ErrorsPointIntoFile, Expand PROVE Reading'
<1>1. /\ Opens(rest) # {} /\ text' = text
      /\ Start \in Nat /\ 1 <= Start /\ Before \in Nat /\ Before + Start \in Opens(text)
      /\ Len(text) \in Nat /\ Len(After) \in Nat /\ Before + Start + 1 + Len(After) = Len(text)
  BY ExpandCases, StartOf, AfterOf
<1>2. CASE /\ Closes(After) = {}
           /\ loaded' = At("MalformedPlaceholder", Before + Start - 1, <<>>)
  <2>1. loaded'.kind = "MalformedPlaceholder" /\ loaded'.at + 1 = Before + Start
    BY <1>1, <1>2 DEF At
  <2>2. ASSUME NEW k \in Before + Start + 2 .. Len(text) PROVE k \notin Closes(text)
    <3> DEFINE j == k - Before - Start - 1
    <3>1. j \in 1 .. Len(After) /\ Before + Start + 1 + j = k
      BY <1>1
    <3> HIDE DEF j
    <3> QED
      BY <1>1, <1>2, <3>1, AfterOf
  <2> QED
    BY <1>1, <2>1, <2>2 DEF Reading, ErrorsPointIntoFile, OpenAt, Opens, Closes
<1>3. CASE /\ Closes(After) # {}
           /\ SubSeq(After, 1, Shut - 1) \notin DOMAIN Environment
           /\ loaded' = At("MissingEnvVar", 0, SubSeq(After, 1, Shut - 1))
  <2>1. /\ Close \in Closes(text) /\ Before + Start + 2 <= Close /\ Close <= Len(text)
        /\ \A j \in Before + Start + 2 .. Close - 1 : j \notin Closes(text)
        /\ SubSeq(After, 1, Shut - 1) = SubSeq(text, Before + Start + 2, Close - 1)
        /\ Shut \in Nat
    BY <1>1, <1>3, ShutOf
  <2>2. loaded'.kind = "MissingEnvVar" /\ loaded'.name = SubSeq(After, 1, Shut - 1)
    BY <1>3 DEF At
  <2>3. Before + Start \in 1 .. Len(text) /\ Close \in 1 .. Len(text)
    BY <1>1, <2>1 DEF Close
  <2>4. NamedBetween(SubSeq(After, 1, Shut - 1), Before + Start, Close)
    BY <1>1, <2>1 DEF NamedBetween
  <2>5. \E i, j \in 1 .. Len(text) : NamedBetween(loaded'.name, i, j)
    BY <2>2, <2>3, <2>4
  <2>6. (\E i, j \in 1 .. Len(text) : NamedBetween(loaded.name, i, j))'
    BY <1>1, <2>5 DEF NamedBetween, Opens, Closes
  <2> QED
    BY <1>3, <2>2, <2>6 DEF Reading, ErrorsPointIntoFile
<1>4. CASE Closes(After) # {} /\ rest' = From(After, Shut + 1) /\ UNCHANGED loaded
  <2>1. EndOfText'
    BY <1>1, <1>4, BehindOf
  <2> QED
    BY <1>4, <2>1, ExpandCases DEF Reading, ErrorsPointIntoFile
<1> QED
  BY <1>2, <1>3, <1>4, ExpandCases

LEMMA ConfigPoints == ASSUME Reading, LoadConfig PROVE Reading'
<1>1. CASE ReadToml
  <2>1. CASE UNCHANGED <<text, rest>> /\ loaded' = Plain("Io")
    BY <2>1 DEF Reading, ErrorsPointIntoFile, Plain, At
  <2>2. CASE \E t \in FileTexts :
                /\ text' = t /\ rest' = t
                /\ loaded' = Plain("expanding")
    <3>1. PICK t \in FileTexts :
                /\ text' = t /\ rest' = t
                /\ loaded' = Plain("expanding")
      BY <2>2
    <3>2. t \in Seq(STRING)
      BY FileTextsAssumption
    <3>3. EndOfText'
      <4>1. Len(t) \in Nat
        BY <3>2
      <4>2. Len(t) <= Len(t) /\ \A k \in 1 .. Len(t) : t[k] = t[Len(t) - Len(t) + k]
        BY <4>1
      <4> QED
        BY <3>1, <3>2, <4>2 DEF EndOfText
    <3> QED
      BY <3>1, <3>3 DEF Reading, ErrorsPointIntoFile, Plain, At
  <2> QED
    BY <1>1, <2>1, <2>2 DEF ReadToml
<1>2. CASE Expand
  BY <1>2, ExpandPoints DEF Reading, Expand
<1>3. CASE NoMorePlaceholders
  BY <1>3 DEF NoMorePlaceholders, Reading, ErrorsPointIntoFile, Plain, At
<1>4. CASE ParseToml
  BY <1>4 DEF ParseToml, Reading, ErrorsPointIntoFile, Plain, At
<1> QED
  BY <1>1, <1>2, <1>3, <1>4 DEF LoadConfig

LEMMA ConfigMoves == ASSUME RoosNext PROVE LoadConfig \/ UNCHANGED configVars
  BY Zenon DEF RoosNext, CommandStep, NewStep, ConfigStep, ConfigRefused, ListStep,
     RunSetup, RunEnds, AgentSetup, AgentMoves, AgentAnswered, AgentDropped, ServeOpens, Serves,
     ServerSetup, ServerGoes

LEMMA ReadingKept == Reading /\ [RoosNext]_roosVars => Reading'
<1> SUFFICES ASSUME Reading, [RoosNext]_roosVars PROVE Reading'
  OBVIOUS
<1>1. CASE UNCHANGED configVars
  BY <1>1, Zenon DEF configVars, Reading, ErrorsPointIntoFile, EndOfText, OpenAt,
                     NamedBetween, Opens, Closes
<1>2. CASE LoadConfig
  BY <1>2, ConfigPoints
<1>3. LoadConfig \/ UNCHANGED configVars
  BY ConfigMoves DEF roosVars, configVars
<1> QED
  BY <1>1, <1>2, <1>3

LEMMA NothingRead == RoosInit => Reading
<1> SUFFICES ASSUME RoosInit PROVE Reading
  OBVIOUS
<1>1. text = <<>> /\ rest = <<>> /\ loaded.kind = "none"
  BY DEF RoosInit, ConfigInit, Plain, At
<1>2. EndOfText
  BY <1>1 DEF EndOfText
<1> QED
  BY <1>1, <1>2 DEF Reading, ErrorsPointIntoFile

\* An error of the configuration points into the file it is about: what is reported as
\* not closed stands there and has no "}" behind it, and a name that is reported as
\* missing stands in the file between "${" and the next "}" (config.rs:112-134).
THEOREM ErrorsPointIntoTheFile == RoosSpec => []ErrorsPointIntoFile
<1>1. RoosInit => Reading
  BY NothingRead
<1>2. Reading /\ [RoosNext]_roosVars => Reading'
  BY ReadingKept
<1>3. Reading => ErrorsPointIntoFile
  BY DEF Reading
<1> QED
  BY <1>1, <1>2, <1>3, PTL DEF RoosSpec

-----------------------------------------------------------------------------
(* What the reference definition says of a text *)

\* The reference definition is recursive.  That there is such a function, and what is
\* true of all it returns, is shown by looking at the least k for which it would fail.
LEMMA NoLeastOne ==
    ASSUME NEW T, T \subseteq Nat, \A n \in T : \E m \in T : m < n
    PROVE  T = {}
<1> SUFFICES ASSUME T # {} PROVE FALSE
  OBVIOUS
<1>1. PICK n \in T : \A y \in T : n <= y
  BY FirstOf
<1>2. PICK m \in T : m < n
  BY <1>1
<1>3. n \in Nat /\ m \in Nat /\ n <= m
  BY <1>1, <1>2
<1> QED
  BY <1>2, <1>3

LEMMA ClosesBehind ==
    ASSUME NEW s \in Seq(STRING), NEW i \in Nat, {j \in Closes(s) : i + 2 <= j} # {}
    PROVE  /\ Min({j \in Closes(s) : i + 2 <= j}) \in Nat
           /\ i + 2 <= Min({j \in Closes(s) : i + 2 <= j})
           /\ Min({j \in Closes(s) : i + 2 <= j}) <= Len(s)
<1> DEFINE T == {j \in Closes(s) : i + 2 <= j}
<1>1. T \subseteq Nat /\ \A j \in T : j <= Len(s) /\ i + 2 <= j
  BY PlacesOf
<1>2. Min(T) \in T
  BY <1>1, FirstOf
<1> QED
  BY <1>1, <1>2

\* It looks at what is said of fewer characters only.
LEMMA MeaningLooksBack ==
    ASSUME NEW s \in Seq(STRING), NEW k \in 0 .. Len(s), NEW f, NEW g,
           \A l \in 0 .. k - 1 : f[l] = g[l]
    PROVE  MeaningOf(s, f, k) = MeaningOf(s, g, k)
<1> DEFINE i == Len(s) - k + 1
<1> DEFINE closes == {j \in Closes(s) : i + 2 <= j}
<1>1. k \in Nat /\ Len(s) \in Nat /\ i \in Nat /\ k = Len(s) - i + 1
  OBVIOUS
<1>2. k # 0 => f[k - 1] = g[k - 1]
  <2>1. k # 0 => k - 1 \in 0 .. k - 1
    BY <1>1
  <2> QED
    BY <2>1
<1>3. closes # {} => f[Len(s) - Min(closes)] = g[Len(s) - Min(closes)]
  <2> SUFFICES ASSUME closes # {} PROVE Len(s) - Min(closes) \in 0 .. k - 1
    OBVIOUS
  <2>1. Min(closes) \in Nat /\ i + 2 <= Min(closes) /\ Min(closes) <= Len(s)
    BY <1>1, ClosesBehind
  <2> HIDE DEF closes, i
  <2> QED
    BY <1>1, <2>1
<1>4. ASSUME NEW h
      PROVE  MeaningOf(s, h, k) =
                IF k = 0 THEN Wrote(Plain("expanded"), <<>>)
                ELSE IF i \notin Opens(s) THEN Prefixed(<<s[i]>>, h[k - 1])
                ELSE IF closes = {} THEN Wrote(At("MalformedPlaceholder", i - 1, <<>>), <<>>)
                ELSE IF SubSeq(s, i + 2, Min(closes) - 1) \notin DOMAIN Environment
                THEN Wrote(At("MissingEnvVar", 0, SubSeq(s, i + 2, Min(closes) - 1)), <<>>)
                ELSE Prefixed(Environment[SubSeq(s, i + 2, Min(closes) - 1)],
                              h[Len(s) - Min(closes)])
  BY Zenon DEF MeaningOf
<1> HIDE DEF i, closes
<1> QED
  BY <1>2, <1>3, <1>4, Zenon

LEMMA MeaningsUnfold ==
    ASSUME NEW s \in Seq(STRING)
    PROVE  \A k \in 0 .. Len(s) : Meanings(s)[k] = MeaningOf(s, Meanings(s), k)
<1> DEFINE Of(g, n) == g = [k \in 0 .. n |-> MeaningOf(s, g, k)]
<1> DEFINE T == {n \in 0 .. Len(s) : ~ \E g : Of(g, n)}
<1>0. Len(s) \in Nat
  OBVIOUS
<1>1. \E g : Of(g, 0)
  <2> DEFINE g == [k \in 0 .. 0 |-> MeaningOf(s, <<>>, k)]
  <2>1. ASSUME NEW k \in 0 .. 0 PROVE MeaningOf(s, <<>>, k) = MeaningOf(s, g, k)
    <3>1. k \in 0 .. Len(s) /\ \A l \in 0 .. k - 1 : <<>>[l] = g[l]
      BY <1>0
    <3> HIDE DEF g
    <3> QED
      BY <3>1, MeaningLooksBack
  <2>2. g = [k \in 0 .. 0 |-> MeaningOf(s, g, k)]
    <3>1. g = [k \in 0 .. 0 |-> MeaningOf(s, <<>>, k)]
      OBVIOUS
    <3> HIDE DEF g
    <3> QED
      BY <2>1, <3>1, Zenon
  <2> HIDE DEF g
  <2> QED
    BY <2>2, Zenon
<1>2. ASSUME NEW n \in T PROVE \E m \in T : m < n
  <2>1. n \in Nat /\ n <= Len(s) /\ n # 0
    BY <1>0, <1>1
  <2>2. n - 1 \in 0 .. Len(s) /\ n - 1 < n
    BY <1>0, <2>1
  <2>3. ASSUME NEW g, Of(g, n - 1) PROVE FALSE
    <3> DEFINE h == [k \in 0 .. n |-> MeaningOf(s, g, k)]
    <3>1. \A k \in 0 .. n - 1 : g[k] = MeaningOf(s, g, k)
      <4>1. g = [k \in 0 .. n - 1 |-> MeaningOf(s, g, k)]
        BY <2>3, Zenon
      <4> DEFINE gg == [k \in 0 .. n - 1 |-> MeaningOf(s, g, k)]
      <4>2. \A k \in 0 .. n - 1 : gg[k] = MeaningOf(s, g, k)
        BY Zenon
      <4>3. g = gg
        BY <4>1, Zenon
      <4> HIDE DEF gg
      <4> QED
        BY <4>2, <4>3, Zenon
    <3>2. \A k \in 0 .. n : h[k] = MeaningOf(s, g, k)
      BY Zenon
    <3>3. \A k \in 0 .. n - 1 : h[k] = g[k]
      <4>1. \A k \in 0 .. n - 1 : k \in 0 .. n
        BY <2>1
      <4> HIDE DEF h
      <4> QED
        BY <3>1, <3>2, <4>1, Zenon
    <3>4. h = [k \in 0 .. n |-> MeaningOf(s, g, k)]
      BY Zenon
    <3> HIDE DEF h
    <3>5. ASSUME NEW k \in 0 .. n PROVE MeaningOf(s, g, k) = MeaningOf(s, h, k)
      <4>1. k \in 0 .. Len(s) /\ \A l \in 0 .. k - 1 : l \in 0 .. n - 1
        BY <1>0, <2>1
      <4>2. \A l \in 0 .. k - 1 : g[l] = h[l]
        BY <3>3, <4>1, Zenon
      <4> QED
        BY <4>1, <4>2, MeaningLooksBack, Zenon
    <3>6. h = [k \in 0 .. n |-> MeaningOf(s, h, k)]
      BY <3>4, <3>5, Zenon
    <3>7. Of(h, n)
      BY <3>6, Zenon
    <3> HIDE DEF Of
    <3> QED
      BY <3>7
  <2> HIDE DEF Of
  <2> QED
    BY <2>2, <2>3
<1>3. T = {}
  <2>1. T \subseteq Nat
    BY <1>0
  <2> HIDE DEF T
  <2> QED
    BY <1>2, <2>1, NoLeastOne
<1>4. \E g : Of(g, Len(s))
  <2>1. Len(s) \in 0 .. Len(s)
    BY <1>0
  <2> HIDE DEF Of
  <2> QED
    BY <1>3, <2>1
<1>5. Meanings(s) = [k \in 0 .. Len(s) |-> MeaningOf(s, Meanings(s), k)]
  BY <1>4, Zenon DEF Meanings
<1> DEFINE m == Meanings(s)
<1> DEFINE mm == [k \in 0 .. Len(s) |-> MeaningOf(s, m, k)]
<1>6. \A k \in 0 .. Len(s) : mm[k] = MeaningOf(s, m, k)
  BY Zenon
<1>7. m = mm
  BY <1>5, Zenon
<1> HIDE DEF m, mm
<1>8. \A k \in 0 .. Len(s) : m[k] = MeaningOf(s, m, k)
  BY <1>6, <1>7, Zenon
<1> QED
  BY <1>8, Zenon DEF m

Outcomes ==
    [kind : {"expanded", "MalformedPlaceholder", "MissingEnvVar"}, at : Int,
     name : Seq(STRING), out : Seq(STRING)]

LEMMA PrefixedIs ==
    ASSUME NEW m \in Outcomes, NEW a \in Seq(STRING)
    PROVE  /\ Prefixed(a, m) \in Outcomes
           /\ m.kind # "expanded" => Prefixed(a, m) = m
           /\ m.kind = "expanded" =>
                 Prefixed(a, m) = [kind |-> m.kind, at |-> m.at, name |-> m.name,
                                   out |-> a \o m.out]
<1>1. CASE m.kind = "expanded"
  <2>1. Prefixed(a, m) = [m EXCEPT !.out = a \o m.out]
    BY <1>1 DEF Prefixed
  <2>2. a \o m.out \in Seq(STRING)
    BY DEF Outcomes
  <2>3. ASSUME NEW v \in Seq(STRING)
        PROVE  [m EXCEPT !.out = v] =
                  [kind |-> m.kind, at |-> m.at, name |-> m.name, out |-> v]
    BY DEF Outcomes
  <2> QED
    BY <1>1, <2>1, <2>2, <2>3 DEF Outcomes
<1>2. CASE m.kind # "expanded"
  BY <1>2 DEF Prefixed
<1> QED
  BY <1>1, <1>2

LEMMA PrefixedTwice ==
    ASSUME NEW m \in Outcomes, NEW a \in Seq(STRING), NEW b \in Seq(STRING)
    PROVE  Prefixed(a, Prefixed(b, m)) = Prefixed(a \o b, m)
<1>0. a \o b \in Seq(STRING) /\ Prefixed(b, m) \in Outcomes
  BY PrefixedIs
<1>1. CASE m.kind = "expanded"
  <2> DEFINE n == [kind |-> m.kind, at |-> m.at, name |-> m.name, out |-> b \o m.out]
  <2>1. Prefixed(b, m) = n /\ n.kind = "expanded" /\ n.out = b \o m.out
        /\ n.at = m.at /\ n.name = m.name
    BY <1>1, PrefixedIs
  <2> HIDE DEF n
  <2>2. Prefixed(a, n) = [kind |-> n.kind, at |-> n.at, name |-> n.name, out |-> a \o n.out]
    BY <1>0, <2>1, PrefixedIs
  <2>3. a \o (b \o m.out) = (a \o b) \o m.out
    <3>1. ASSUME NEW z \in Seq(STRING) PROVE (a \o b) \o z = a \o (b \o z)
      BY ONLY a \in Seq(STRING), b \in Seq(STRING), ConcatAssociative
    <3>2. m.out \in Seq(STRING)
      BY DEF Outcomes
    <3> QED
      BY <3>1, <3>2, Zenon
  <2>4. Prefixed(a \o b, m) = [kind |-> m.kind, at |-> m.at, name |-> m.name,
                               out |-> (a \o b) \o m.out]
    BY <1>0, <1>1, PrefixedIs
  <2> QED
    BY <1>1, <2>1, <2>2, <2>3, <2>4
<1>2. CASE m.kind # "expanded"
  BY <1>0, <1>2, PrefixedIs
<1> QED
  BY <1>1, <1>2

LEMMA PrefixedByNothing ==
    ASSUME NEW m \in Outcomes PROVE Prefixed(<<>>, m) = m
<1>1. CASE m.kind = "expanded"
  <2>1. <<>> \o m.out = m.out /\ <<>> \in Seq(STRING)
    <3>1. m.out \in Seq(STRING)
      BY DEF Outcomes
    <3> QED
      BY <3>1, ConcatEmptySeq
  <2>2. Prefixed(<<>>, m) = [kind |-> m.kind, at |-> m.at, name |-> m.name, out |-> m.out]
    BY <1>1, <2>1, PrefixedIs
  <2> QED
    BY <2>2 DEF Outcomes
<1>2. CASE m.kind # "expanded"
  BY <1>2 DEF Prefixed
<1> QED
  BY <1>1, <1>2

\* The cases of the definition, one by one.
LEMMA MeaningCases ==
    ASSUME NEW s \in Seq(STRING), NEW k \in 0 .. Len(s)
    PROVE  LET i == Len(s) - k + 1
               closes == {j \in Closes(s) : i + 2 <= j}
               name == SubSeq(s, i + 2, Min(closes) - 1)
           IN  /\ k = 0 => Meanings(s)[k] = Wrote(Plain("expanded"), <<>>)
               /\ k # 0 /\ i \notin Opens(s) =>
                     Meanings(s)[k] = Prefixed(<<s[i]>>, Meanings(s)[k - 1])
               /\ k # 0 /\ i \in Opens(s) /\ closes = {} =>
                     Meanings(s)[k] = Wrote(At("MalformedPlaceholder", i - 1, <<>>), <<>>)
               /\ /\ k # 0 /\ i \in Opens(s) /\ closes # {}
                  /\ name \notin DOMAIN Environment
                  => Meanings(s)[k] = Wrote(At("MissingEnvVar", 0, name), <<>>)
               /\ /\ k # 0 /\ i \in Opens(s) /\ closes # {}
                  /\ name \in DOMAIN Environment
                  => Meanings(s)[k] =
                        Prefixed(Environment[name], Meanings(s)[Len(s) - Min(closes)])
<1>1. Meanings(s)[k] = MeaningOf(s, Meanings(s), k)
  BY MeaningsUnfold
<1> QED
  BY <1>1, Zenon DEF MeaningOf

LEMMA MeaningsTyped ==
    ASSUME NEW s \in Seq(STRING)
    PROVE  \A k \in 0 .. Len(s) : Meanings(s)[k] \in Outcomes
<1> DEFINE T == {k \in 0 .. Len(s) : Meanings(s)[k] \notin Outcomes}
<1>0. Len(s) \in Nat
  OBVIOUS
<1>1. ASSUME NEW k \in T PROVE \E l \in T : l < k
  <2> SUFFICES ASSUME \A l \in T : ~ (l < k) PROVE FALSE
    OBVIOUS
  <2>0. k \in 0 .. Len(s) /\ k \in Nat /\ Meanings(s)[k] \notin Outcomes
    OBVIOUS
  <2>1. \A l \in 0 .. k - 1 : Meanings(s)[l] \in Outcomes
    BY <1>0, <2>0
  <2> DEFINE i == Len(s) - k + 1
  <2> DEFINE closes == {j \in Closes(s) : i + 2 <= j}
  <2> DEFINE name == SubSeq(s, i + 2, Min(closes) - 1)
  <2>2. CASE k = 0
    <3>1. Wrote(Plain("expanded"), <<>>) \in Outcomes
      BY DEF Wrote, Plain, At, Outcomes
    <3> QED
      BY <2>0, <2>2, <3>1, MeaningCases
  <2>3. CASE k # 0 /\ i \notin Opens(s)
    <3>1. k - 1 \in 0 .. k - 1 /\ i \in 1 .. Len(s)
      BY <1>0, <2>0, <2>3
    <3>2. Meanings(s)[k - 1] \in Outcomes /\ <<s[i]>> \in Seq(STRING)
      BY <2>1, <3>1
    <3> QED
      BY <2>0, <2>3, <3>2, MeaningCases, PrefixedIs
  <2>4. CASE k # 0 /\ i \in Opens(s) /\ closes = {}
    <3>1. Wrote(At("MalformedPlaceholder", i - 1, <<>>), <<>>) \in Outcomes
      BY <1>0, <2>0 DEF Wrote, At, Outcomes
    <3> QED
      BY <2>0, <2>4, <3>1, MeaningCases
  <2>5. CASE k # 0 /\ i \in Opens(s) /\ closes # {}
    <3>1. i \in Nat /\ k = Len(s) - i + 1
      BY <1>0, <2>0
    <3>2. Min(closes) \in Nat /\ i + 2 <= Min(closes) /\ Min(closes) <= Len(s)
      BY <2>5, <3>1, ClosesBehind
    <3> DEFINE c == Min(closes)
    <3> HIDE DEF c
    <3>3. c \in Nat /\ i + 2 <= c /\ c <= Len(s)
      BY <3>2 DEF c
    <3>4. Len(s) - c \in 0 .. k - 1 /\ i + 2 \in 1 .. Len(s) + 1 /\ c - 1 \in Nat /\ c - 1 <= Len(s)
      BY <1>0, <2>0, <3>1, <3>3
    <3>5. name \in Seq(STRING)
      <4>1. SubSeq(s, i + 2, c - 1) \in Seq(STRING)
        BY <3>4, PieceOf
      <4> QED
        BY <4>1 DEF c
    <3>6. CASE name \notin DOMAIN Environment
      <4> HIDE DEF name
      <4>1. Wrote(At("MissingEnvVar", 0, name), <<>>) \in Outcomes
        BY <3>5 DEF Wrote, At, Outcomes
      <4>2. Meanings(s)[k] = Wrote(At("MissingEnvVar", 0, name), <<>>)
        BY <2>0, <2>5, <3>6, MeaningCases DEF name
      <4> QED
        BY <2>0, <4>1, <4>2
    <3>7. CASE name \in DOMAIN Environment
      <4> HIDE DEF name
      <4>1. Environment[name] \in Seq(STRING)
        BY <3>7, EnvironmentAssumption
      <4>2. Meanings(s)[Len(s) - c] \in Outcomes
        BY <2>1, <3>4
      <4>3. Meanings(s)[k] = Prefixed(Environment[name], Meanings(s)[Len(s) - c])
        BY <2>0, <2>5, <3>7, MeaningCases DEF name, c
      <4> QED
        BY <2>0, <4>1, <4>2, <4>3, PrefixedIs
    <3> QED
      BY <3>6, <3>7
  <2> QED
    BY <2>2, <2>3, <2>4, <2>5
<1>2. T = {}
  <2>1. T \subseteq Nat
    BY <1>0
  <2> HIDE DEF T
  <2> QED
    BY <1>1, <2>1, NoLeastOne
<1> QED
  BY <1>2

\* Characters at which no placeholder is opened stand for themselves.
LEMMA MeaningSkips ==
    ASSUME NEW s \in Seq(STRING), NEW l \in 0 .. Len(s), NEW k \in l .. Len(s),
           \A j \in Len(s) - k + 1 .. Len(s) - l : j \notin Opens(s)
    PROVE  Meanings(s)[k] = Prefixed(SubSeq(s, Len(s) - k + 1, Len(s) - l), Meanings(s)[l])
<1> DEFINE Skipped(n) == SubSeq(s, Len(s) - n + 1, Len(s) - l)
<1> DEFINE T == {n \in l .. k : Meanings(s)[n] # Prefixed(Skipped(n), Meanings(s)[l])}
<1>0. Len(s) \in Nat /\ l \in Nat /\ k \in Nat /\ l <= k /\ k <= Len(s)
  OBVIOUS
<1>1. ASSUME NEW n \in l .. k
      PROVE  /\ n \in Nat /\ n \in 0 .. Len(s)
             /\ Skipped(n) \in Seq(STRING)
             /\ Len(Skipped(n)) = n - l
             /\ \A x \in 1 .. n - l : Skipped(n)[x] = s[Len(s) - n + x]
             /\ Meanings(s)[n] \in Outcomes
  <2>1. /\ Len(s) - n + 1 \in 1 .. Len(s) + 1 /\ Len(s) - l \in Nat /\ Len(s) - l <= Len(s)
        /\ n \in 0 .. Len(s) /\ n \in Nat
    BY <1>0
  <2>2. /\ Skipped(n) \in Seq(STRING)
        /\ Len(Skipped(n)) = IF Len(s) - n + 1 <= Len(s) - l
                           THEN Len(s) - l - (Len(s) - n + 1) + 1 ELSE 0
        /\ \A x \in 1 .. Len(s) - l - (Len(s) - n + 1) + 1 :
              Skipped(n)[x] = s[Len(s) - n + 1 + x - 1]
    BY <2>1, PieceOf
  <2> HIDE DEF Skipped
  <2>3. /\ Len(s) - l - (Len(s) - n + 1) + 1 = n - l
        /\ Len(s) - n + 1 <= Len(s) - l <=> n - l # 0
    BY <1>0
  <2>4. Len(Skipped(n)) = n - l
    BY <1>0, <2>2, <2>3
  <2>5. ASSUME NEW x \in 1 .. n - l PROVE Skipped(n)[x] = s[Len(s) - n + x]
    <3>1. Len(s) - n + 1 + x - 1 = Len(s) - n + x
      BY <1>0
    <3> QED
      BY <2>2, <2>3, <3>1
  <2> QED
    BY <2>1, <2>2, <2>4, <2>5, MeaningsTyped
<1>2. ASSUME NEW n \in T PROVE \E x \in T : x < n
  <2> SUFFICES ASSUME \A x \in T : ~ (x < n) PROVE FALSE
    OBVIOUS
  <2>0. n \in l .. k /\ Meanings(s)[n] # Prefixed(Skipped(n), Meanings(s)[l])
    OBVIOUS
  <2>1. CASE n = l
    <3>1. Skipped(n) \in Seq(STRING) /\ Len(Skipped(n)) = 0
      BY <1>0, <1>1, <2>0, <2>1
    <3>2. Skipped(n) = <<>>
      <4> HIDE DEF Skipped
      <4> QED
        BY <3>1, EmptySeq
    <3>3. Meanings(s)[l] \in Outcomes
      BY <1>1, <2>0, <2>1
    <3> QED
      BY <2>0, <2>1, <3>2, <3>3, PrefixedByNothing
  <2>2. CASE n # l
    <3> DEFINE i == Len(s) - n + 1
    <3>1. /\ n - 1 \in l .. k /\ n - 1 < n /\ n \in Nat /\ n # 0
          /\ i \in Len(s) - k + 1 .. Len(s) - l /\ i \in 1 .. Len(s)
      BY <1>0, <2>0, <2>2
    <3>2. Meanings(s)[n - 1] = Prefixed(Skipped(n - 1), Meanings(s)[l])
      BY <3>1
    <3>3. i \notin Opens(s) /\ n \in 0 .. Len(s)
      BY <1>1, <2>0, <3>1
    <3>4. Meanings(s)[n] = Prefixed(<<s[i]>>, Meanings(s)[n - 1])
      BY <3>1, <3>3, MeaningCases
    <3>5. /\ <<s[i]>> \in Seq(STRING) /\ Skipped(n - 1) \in Seq(STRING)
          /\ Meanings(s)[l] \in Outcomes
      <4>1. l \in l .. k
        BY <1>0
      <4>2. s[i] \in STRING
        BY <3>1
      <4>3. Meanings(s)[l] \in Outcomes
        BY <1>1, <4>1
      <4>4. Skipped(n - 1) \in Seq(STRING)
        BY <1>1, <3>1
      <4> QED
        BY <4>2, <4>3, <4>4
    <3>6. <<s[i]>> \o Skipped(n - 1) = Skipped(n)
      <4> DEFINE p == Skipped(n - 1)
      <4> DEFINE q == Skipped(n)
      <4>1. /\ p \in Seq(STRING) /\ Len(p) = n - 1 - l
            /\ \A x \in 1 .. n - 1 - l : p[x] = s[Len(s) - (n - 1) + x]
        BY <1>1, <3>1
      <4>2. /\ q \in Seq(STRING) /\ Len(q) = n - l
            /\ \A x \in 1 .. n - l : q[x] = s[Len(s) - n + x]
        BY <1>1, <2>0
      <4> DEFINE w == <<s[i]>> \o p
      <4> HIDE DEF p, q, Skipped
      <4>3. /\ w \in Seq(STRING) /\ Len(w) = 1 + Len(p)
            /\ w[1] = s[i] /\ \A x \in 1 .. Len(p) : w[1 + x] = p[x]
        BY <3>5, <4>1
      <4> HIDE DEF w
      <4>4. Len(w) = Len(q)
        BY <1>0, <3>1, <4>1, <4>2, <4>3
      <4>5. ASSUME NEW x \in 1 .. Len(w) PROVE w[x] = q[x]
        <5>1. CASE x = 1
          <6>1. 1 \in 1 .. n - l
            BY <1>0, <3>1, <2>2, <2>0
          <6> QED
            BY <4>2, <4>3, <5>1, <6>1
        <5>2. CASE x # 1
          <6>1. /\ x - 1 \in 1 .. n - 1 - l /\ x \in 1 .. n - l /\ 1 + (x - 1) = x
                /\ x - 1 \in 1 .. Len(p)
                /\ Len(s) - (n - 1) + (x - 1) = Len(s) - n + x
            BY <1>0, <3>1, <4>1, <4>3, <5>2
          <6>2. w[x] = p[x - 1]
            BY <4>3, <6>1
          <6>3. p[x - 1] = s[Len(s) - n + x]
            BY <4>1, <6>1
          <6> QED
            BY <4>2, <6>1, <6>2, <6>3
        <5> QED
          BY <5>1, <5>2
      <4>6. w = q
        BY <4>2, <4>3, <4>4, <4>5, SeqEqual
      <4> QED
        BY <4>6 DEF w, p, q
    <3>7. Meanings(s)[n] = Prefixed(Skipped(n), Meanings(s)[l])
      <4>1. Meanings(s)[n] = Prefixed(<<s[i]>>, Prefixed(Skipped(n - 1), Meanings(s)[l]))
        BY <3>2, <3>4, Zenon
      <4> DEFINE m == Meanings(s)[l]
      <4> DEFINE a == <<s[i]>>
      <4> DEFINE b == Skipped(n - 1)
      <4>2. m \in Outcomes /\ a \in Seq(STRING) /\ b \in Seq(STRING)
        BY <3>5, Zenon
      <4> HIDE DEF m, a, b
      <4>3. Prefixed(a, Prefixed(b, m)) = Prefixed(a \o b, m)
        BY <4>2, PrefixedTwice, Zenon
      <4> QED
        BY <3>6, <4>1, <4>3, Zenon DEF m, a, b
    <3> QED
      BY <2>0, <3>7
  <2> QED
    BY <2>1, <2>2
<1>3. T = {}
  <2>1. T \subseteq Nat
    BY <1>0
  <2> HIDE DEF T
  <2> QED
    BY <1>2, <2>1, NoLeastOne
<1>4. k \in l .. k
  BY <1>0
<1> QED
  BY <1>3, <1>4

\* What was written and what is left mean together what the file means.
Expanding ==
    /\ loaded.kind = "none" => out = <<>>
    /\ loaded.kind = "expanding" =>
          /\ out \in Seq(STRING)
          /\ Meaning(text) = Prefixed(out, Meanings(text)[Len(rest)])
    /\ InterpolationExact

LEMMA ReadMeans == ASSUME Expanding, ReadToml PROVE Expanding'
<1>1. CASE loaded' = Plain("Io")
  BY <1>1 DEF Expanding, InterpolationExact, Plain, At
<1>2. ASSUME NEW t \in FileTexts,
             text' = t, rest' = t, loaded' = Plain("expanding"), out' = out
      PROVE  Expanding'
  <2>1. t \in Seq(STRING) /\ out = <<>>
    BY <1>2, FileTextsAssumption DEF Expanding, ReadToml
  <2>2. Len(t) \in 0 .. Len(t)
    BY <2>1
  <2>3. Meanings(t)[Len(t)] \in Outcomes
    BY <2>1, <2>2, MeaningsTyped
  <2>4. Prefixed(<<>>, Meanings(t)[Len(t)]) = Meanings(t)[Len(t)]
    BY <2>3, PrefixedByNothing
  <2>5. Meaning(text') = Prefixed(out', Meanings(text')[Len(rest')])
    BY <1>2, <2>1, <2>4, Zenon DEF Meaning
  <2>6. (Meaning(text) = Prefixed(out, Meanings(text)[Len(rest)]))'
    BY <2>5, Zenon DEF Prefixed, Meaning, Meanings, MeaningOf, Opens, Closes
  <2>7. loaded'.kind = "expanding" /\ out' \in Seq(STRING)
    BY <1>2, <2>1 DEF Plain, At
  <2> QED
    BY <2>6, <2>7 DEF Expanding, InterpolationExact
<1> QED
  BY <1>1, <1>2 DEF ReadToml

\* What is left, up to the placeholder and from it on.
LEMMA LeftMeans ==
    ASSUME EndOfText, Opens(rest) # {}, NEW l \in Nat, l = Len(rest) - Start + 1
    PROVE  /\ l \in 0 .. Len(text) /\ l # 0 /\ Len(text) - l + 1 = Before + Start
           /\ SubSeq(rest, 1, Start - 1) \in Seq(STRING)
           /\ Meanings(text)[Len(rest)] =
                 Prefixed(SubSeq(rest, 1, Start - 1), Meanings(text)[l])
<1> DEFINE k == Len(rest)
<1>0. /\ Start \in Nat /\ 1 <= Start /\ Start < k /\ k \in Nat
      /\ Before \in Nat /\ Before + k = Len(text) /\ Len(text) \in Nat
      /\ text \in Seq(STRING) /\ rest \in Seq(STRING)
  BY StartOf DEF EndOfText
<1>1. /\ \A x \in 1 .. k : rest[x] = text[Before + x]
      /\ \A j \in Before + 1 .. Before + Start - 1 : j \notin Opens(text)
  BY StartOf
<1> HIDE DEF Before, Start
<1>2. /\ l \in 0 .. Len(text) /\ l # 0 /\ k \in l .. Len(text)
      /\ Len(text) - k + 1 = Before + 1 /\ Len(text) - l = Before + Start - 1
      /\ Len(text) - l + 1 = Before + Start
  BY <1>0
<1>3. Meanings(text)[k] =
         Prefixed(SubSeq(text, Before + 1, Before + Start - 1), Meanings(text)[l])
  <2>1. \A j \in Len(text) - k + 1 .. Len(text) - l : j \notin Opens(text)
    BY <1>1, <1>2
  <2>2. Meanings(text)[k] =
           Prefixed(SubSeq(text, Len(text) - k + 1, Len(text) - l), Meanings(text)[l])
    BY <1>0, <1>2, <2>1, MeaningSkips
  <2> QED
    BY <1>2, <2>2
<1>4. SubSeq(rest, 1, Start - 1) = SubSeq(text, Before + 1, Before + Start - 1)
  <2>1. /\ 1 \in 1 .. k + 1 /\ Start - 1 \in Nat /\ Start - 1 <= k
        /\ Before + (Start - 1) <= Len(text) /\ Before + 1 <= Len(text) + 1
        /\ Before + (Start - 1) = Before + Start - 1
    BY <1>0
  <2>2. \A x \in 1 .. Start - 1 : rest[x] = text[Before + x]
    <3>1. \A x \in 1 .. Start - 1 : x \in 1 .. k
      BY <1>0
    <3> QED
      BY <1>1, <3>1
  <2>3. SubSeq(rest, 1, Start - 1) = SubSeq(text, Before + 1, Before + (Start - 1))
    BY <1>0, <2>1, <2>2, SamePiece
  <2> QED
    BY <2>1, <2>3
<1>5. SubSeq(rest, 1, Start - 1) \in Seq(STRING)
  <2>1. 1 \in 1 .. k + 1 /\ Start - 1 \in Nat /\ Start - 1 <= k
    BY <1>0
  <2> QED
    BY <1>0, <2>1, PieceOf
<1> QED
  BY <1>2, <1>3, <1>4, <1>5

\* What the placeholder means.
LEMMA PlaceholderMeans ==
    ASSUME EndOfText, Opens(rest) # {}, NEW l \in Nat, l = Len(rest) - Start + 1
    PROVE  LET name == SubSeq(After, 1, Shut - 1) IN
           /\ Closes(After) = {} =>
                 Meanings(text)[l] = Wrote(At("MalformedPlaceholder", Before + Start - 1, <<>>), <<>>)
           /\ Closes(After) # {} /\ name \notin DOMAIN Environment =>
                 Meanings(text)[l] = Wrote(At("MissingEnvVar", 0, name), <<>>)
           /\ Closes(After) # {} /\ name \in DOMAIN Environment =>
                 /\ Meanings(text)[l] =
                       Prefixed(Environment[name], Meanings(text)[Len(text) - Close])
                 /\ Len(text) - Close \in 0 .. Len(text)
<1> DEFINE i == Before + Start
<1> DEFINE closes == {j \in Closes(text) : i + 2 <= j}
<1>0. /\ Start \in Nat /\ Before \in Nat /\ Len(text) \in Nat /\ Len(After) \in Nat
      /\ Before + Start + 1 + Len(After) = Len(text)
      /\ text \in Seq(STRING) /\ After \in Seq(STRING) /\ i \in Opens(text)
  BY StartOf, AfterOf DEF EndOfText
<1>1. l \in 0 .. Len(text) /\ l # 0 /\ Len(text) - l + 1 = i
  BY LeftMeans
<1>2. /\ closes = {} =>
            Meanings(text)[l] = Wrote(At("MalformedPlaceholder", i - 1, <<>>), <<>>)
      /\ closes # {} /\ SubSeq(text, i + 2, Min(closes) - 1) \notin DOMAIN Environment =>
            Meanings(text)[l] =
               Wrote(At("MissingEnvVar", 0, SubSeq(text, i + 2, Min(closes) - 1)), <<>>)
      /\ closes # {} /\ SubSeq(text, i + 2, Min(closes) - 1) \in DOMAIN Environment =>
            Meanings(text)[l] =
               Prefixed(Environment[SubSeq(text, i + 2, Min(closes) - 1)],
                        Meanings(text)[Len(text) - Min(closes)])
  <2> DEFINE x == Len(text) - l + 1
  <2>1. x = i
    BY <1>1
  <2>2. /\ {j \in Closes(text) : x + 2 <= j} = {} =>
            Meanings(text)[l] = Wrote(At("MalformedPlaceholder", x - 1, <<>>), <<>>)
        /\ /\ {j \in Closes(text) : x + 2 <= j} # {}
           /\ SubSeq(text, x + 2, Min({j \in Closes(text) : x + 2 <= j}) - 1) \notin DOMAIN Environment
           => Meanings(text)[l] =
                Wrote(At("MissingEnvVar", 0, SubSeq(text, x + 2, Min({j \in Closes(text) : x + 2 <= j}) - 1)), <<>>)
        /\ /\ {j \in Closes(text) : x + 2 <= j} # {}
           /\ SubSeq(text, x + 2, Min({j \in Closes(text) : x + 2 <= j}) - 1) \in DOMAIN Environment
           => Meanings(text)[l] =
                Prefixed(Environment[SubSeq(text, x + 2, Min({j \in Closes(text) : x + 2 <= j}) - 1)],
                         Meanings(text)[Len(text) - Min({j \in Closes(text) : x + 2 <= j})])
    BY <1>0, <1>1, <2>1, MeaningCases, Zenon
  <2> HIDE DEF x
  <2> QED
    BY <2>1, <2>2, Zenon
<1>3. Closes(text) \subseteq Nat
  BY PlacesOf
<1>4. closes = {} <=> Closes(After) = {}
  <2>1. ASSUME NEW k \in Closes(After) PROVE closes # {}
    <3>1. k \in 1 .. Len(After) /\ k \in Nat
      BY <1>0, PlacesOf
    <3>2. Before + Start + 1 + k \in Closes(text)
      BY <3>1, AfterOf
    <3>3. i + 2 <= Before + Start + 1 + k
      BY <1>0, <3>1
    <3> QED
      BY <3>2, <3>3
  <2>2. ASSUME NEW j \in closes PROVE Closes(After) # {}
    <3> DEFINE k == j - i - 1
    <3>1. j \in 1 .. Len(text) /\ i + 2 <= j /\ j \in Closes(text)
      BY <1>0, PlacesOf
    <3>2. k \in 1 .. Len(After) /\ Before + Start + 1 + k = j
      BY <1>0, <3>1
    <3> HIDE DEF k
    <3> QED
      BY <3>1, <3>2, AfterOf
  <2> QED
    BY <2>1, <2>2
<1>5. ASSUME Closes(After) # {}
      PROVE  /\ Min(closes) = Close /\ Len(text) - Close \in 0 .. Len(text)
             /\ SubSeq(text, i + 2, Close - 1) = SubSeq(After, 1, Shut - 1)
  <2>1. /\ Shut \in Nat /\ Close \in Closes(text)
        /\ Before + Start + 2 <= Close /\ Close <= Len(text)
        /\ \A j \in Before + Start + 2 .. Close - 1 : j \notin Closes(text)
        /\ SubSeq(After, 1, Shut - 1) = SubSeq(text, Before + Start + 2, Close - 1)
    BY <1>5, ShutOf
  <2>2. Close \in Nat /\ i \in Nat
    BY <1>0, <2>1 DEF Close
  <2> HIDE DEF i
  <2>3. Before + Start = i
    BY DEF i
  <2>4. Close \in closes
    BY <2>1, <2>3
  <2>5. ASSUME NEW j \in closes PROVE Close <= j
    <3>1. j \in Nat /\ i + 2 <= j /\ j \in Closes(text)
      BY <1>3
    <3>2. j \notin i + 2 .. Close - 1
      BY <2>1, <2>3, <3>1
    <3> QED
      BY <2>2, <3>1, <3>2
  <2>6. closes \subseteq Nat /\ closes # {}
    BY <1>3, <2>4
  <2> DEFINE c == Min(closes)
  <2>7. c \in closes /\ \A y \in closes : c <= y
    BY <2>6, FirstOf
  <2> HIDE DEF c, closes
  <2>8. c = Close
    BY <2>2, <2>4, <2>5, <2>6, <2>7
  <2>9. Len(text) - Close \in 0 .. Len(text)
    BY <1>0, <2>1, <2>2
  <2> QED
    BY <2>1, <2>3, <2>8, <2>9 DEF c
<1> DEFINE name == SubSeq(After, 1, Shut - 1)
<1> DEFINE c == Min(closes)
<1> DEFINE inText == SubSeq(text, i + 2, c - 1)
<1>6. Closes(After) # {} => inText = name /\ c = Close /\ Len(text) - Close \in 0 .. Len(text)
  BY <1>5, Zenon
<1> HIDE DEF closes, name, c, inText
<1>7. Closes(After) = {} =>
         Meanings(text)[l] = Wrote(At("MalformedPlaceholder", Before + Start - 1, <<>>), <<>>)
  <2> DEFINE at == i - 1
  <2>1. closes = {} => Meanings(text)[l] = Wrote(At("MalformedPlaceholder", at, <<>>), <<>>)
    BY <1>2, Zenon
  <2>2. at = Before + Start - 1
    BY <1>0
  <2> HIDE DEF at
  <2> QED
    BY <1>4, <2>1, <2>2, Zenon
<1>8. Closes(After) # {} /\ name \notin DOMAIN Environment =>
         Meanings(text)[l] = Wrote(At("MissingEnvVar", 0, name), <<>>)
  BY <1>2, <1>4, <1>6, Zenon DEF inText, c
<1>9. Closes(After) # {} /\ name \in DOMAIN Environment =>
         Meanings(text)[l] = Prefixed(Environment[name], Meanings(text)[Len(text) - Close])
  BY <1>2, <1>4, <1>6, Zenon DEF inText, c
<1> QED
  BY <1>6, <1>7, <1>8, <1>9, Zenon DEF name

LEMMA ExpandMeans == ASSUME EndOfText, Expanding, Expand PROVE Expanding'
<1> DEFINE name == SubSeq(After, 1, Shut - 1)
<1> DEFINE front == SubSeq(rest, 1, Start - 1)
<1> DEFINE l == Len(rest) - Start + 1
<1> DEFINE m == Meanings(text)[l]
<1>0. /\ loaded.kind = "expanding" /\ Opens(rest) # {} /\ text' = text
      /\ out \in Seq(STRING) /\ Meaning(text) = Prefixed(out, Meanings(text)[Len(rest)])
      /\ text \in Seq(STRING)
  BY ExpandCases DEF Expanding, EndOfText
<1>1. l \in Nat
  <2>1. Start \in Nat /\ Start < Len(rest) /\ Len(rest) \in Nat
    BY <1>0, StartOf
  <2> QED
    BY ONLY <2>1
<1>2. /\ front \in Seq(STRING) /\ m \in Outcomes
      /\ Meanings(text)[Len(rest)] = Prefixed(front, m)
  BY <1>0, <1>1, LeftMeans, MeaningsTyped
<1>3. Meaning(text) = Prefixed(out \o front, m) /\ out \o front \in Seq(STRING)
  <2> HIDE DEF m, front
  <2> QED
    BY <1>0, <1>2, PrefixedTwice
<1>4. /\ Meanings(text') = Meanings(text) /\ Meaning(text') = Meaning(text)
  BY <1>0
<1>5. /\ Closes(After) = {} =>
            m = Wrote(At("MalformedPlaceholder", Before + Start - 1, <<>>), <<>>)
      /\ Closes(After) # {} /\ name \notin DOMAIN Environment =>
            m = Wrote(At("MissingEnvVar", 0, name), <<>>)
      /\ Closes(After) # {} /\ name \in DOMAIN Environment =>
            /\ m = Prefixed(Environment[name], Meanings(text)[Len(text) - Close])
            /\ Len(text) - Close \in 0 .. Len(text)
  BY <1>0, <1>1, PlaceholderMeans
<1> HIDE DEF m, front, name, l
<1>6. ASSUME NEW a, NEW n, NEW kind \in {"MalformedPlaceholder", "MissingEnvVar"},
             loaded' = At(kind, a, n), m = Wrote(At(kind, a, n), <<>>)
      PROVE  Expanding'
  <2>1. m.kind = kind /\ loaded'.kind = kind
    BY <1>6 DEF Wrote, At
  <2>2. Meaning(text) = m
    BY <1>2, <1>3, <2>1, PrefixedIs
  <2>3. Wrote(loaded', <<>>) = Meaning(text')
    BY <1>4, <1>6, <2>2
  <2>4. (Wrote(loaded, <<>>) = Meaning(text))'
    BY <2>3, Zenon DEF Wrote, Meaning, Meanings, MeaningOf, Opens, Closes
  <2> QED
    BY <2>1, <2>4 DEF Expanding, InterpolationExact
<1>7. CASE /\ Closes(After) # {} /\ name \in DOMAIN Environment
           /\ out' = out \o front \o Environment[name]
           /\ rest' = From(After, Shut + 1)
           /\ UNCHANGED loaded
  <2>1. Environment[name] \in Seq(STRING) /\ Len(rest') = Len(text) - Close
    BY <1>0, <1>7, EnvironmentAssumption, BehindOf
  <2>2. Meanings(text)[Len(text) - Close] \in Outcomes
    BY <1>0, <1>5, <1>7, MeaningsTyped
  <2> DEFINE n == Meanings(text)[Len(text) - Close]
  <2> DEFINE v == Environment[name]
  <2> DEFINE w == out \o front
  <2>3. m = Prefixed(v, n) /\ Meaning(text) = Prefixed(w, m) /\ w \in Seq(STRING)
        /\ v \in Seq(STRING) /\ n \in Outcomes /\ out' = w \o v
    BY <1>3, <1>5, <1>7, <2>1, <2>2
  <2> HIDE DEF n, v, w
  <2>4. Meaning(text) = Prefixed(out', n) /\ out' \in Seq(STRING)
    BY <2>3, PrefixedTwice
  <2>5. Meaning(text') = Prefixed(out', Meanings(text')[Len(rest')])
    BY <1>4, <2>1, <2>4 DEF n
  <2>6. (Meaning(text) = Prefixed(out, Meanings(text)[Len(rest)]))'
    BY <2>5, Zenon DEF Prefixed, Meaning, Meanings, MeaningOf, Opens, Closes
  <2>7. loaded'.kind = "expanding"
    BY <1>0, <1>7
  <2> QED
    BY <2>4, <2>6, <2>7 DEF Expanding, InterpolationExact
<1> QED
  BY <1>5, <1>6, <1>7, ExpandCases, Zenon DEF name, front

LEMMA NoMoreMeans == ASSUME EndOfText, Expanding, NoMorePlaceholders PROVE Expanding'
<1> DEFINE m == Meanings(text)[0]
<1>0. /\ text' = text /\ Opens(rest) = {} /\ loaded' = Plain("expanded") /\ out' = out \o rest
      /\ out \in Seq(STRING) /\ rest \in Seq(STRING) /\ text \in Seq(STRING)
      /\ Meaning(text) = Prefixed(out, Meanings(text)[Len(rest)])
  BY DEF NoMorePlaceholders, Expanding, EndOfText
<1> DEFINE d == Len(text) - Len(rest)
<1>1. /\ Len(rest) \in Nat /\ Len(text) \in Nat /\ d \in Nat /\ d + Len(rest) = Len(text)
      /\ \A k \in 1 .. Len(rest) : rest[k] = text[d + k]
  <2>1. /\ Len(rest) \in Nat /\ Len(text) \in Nat /\ Len(rest) <= Len(text)
        /\ \A k \in 1 .. Len(rest) : rest[k] = text[d + k]
    BY DEF EndOfText
  <2>2. Len(rest) \in Nat /\ Len(text) \in Nat /\ Len(rest) <= Len(text)
    BY <2>1
  <2>3. d \in Nat /\ d + Len(rest) = Len(text)
    BY ONLY <2>2
  <2> QED
    BY <2>1, <2>3
<1>2. \A j \in d + 1 .. Len(text) : j \notin Opens(text)
  <2> SUFFICES ASSUME NEW j \in d + 1 .. Len(text), j \in Opens(text) PROVE FALSE
    OBVIOUS
  <2> DEFINE k == j - d
  <2>1. text[j] = Dollar /\ text[j + 1] = LeftBrace /\ j \in 1 .. Len(text) - 1
    BY PlacesOf
  <2>2. /\ k \in 1 .. Len(rest) - 1 /\ k \in 1 .. Len(rest) /\ k + 1 \in 1 .. Len(rest)
        /\ d + k = j /\ d + (k + 1) = j + 1
    BY <1>1, <2>1
  <2> HIDE DEF k, d
  <2>3. rest[k] = Dollar /\ rest[k + 1] = LeftBrace
    BY <1>1, <2>1, <2>2
  <2> QED
    BY <1>0, <2>2, <2>3, PlacesOf
<1>3. Meanings(text)[Len(rest)] = Prefixed(rest, m)
  <2>1. /\ 0 \in 0 .. Len(text) /\ Len(rest) \in 0 .. Len(text)
        /\ Len(text) - Len(rest) + 1 = d + 1 /\ Len(text) - 0 = Len(text)
    BY <1>1
  <2>2. Meanings(text)[Len(rest)] =
           Prefixed(SubSeq(text, Len(text) - Len(rest) + 1, Len(text) - 0), Meanings(text)[0])
    BY <1>0, <1>2, <2>1, MeaningSkips
  <2>3. SubSeq(rest, 1, Len(rest)) = SubSeq(text, d + 1, d + Len(rest))
    <3>1. 1 \in 1 .. Len(rest) + 1 /\ d + Len(rest) <= Len(text) /\ d + 1 <= Len(text) + 1
      BY <1>1
    <3> HIDE DEF d
    <3> QED
      BY <1>0, <1>1, <3>1, SamePiece
  <2>4. SubSeq(rest, 1, Len(rest)) = rest
    BY <1>0, SubSeqFull
  <2> QED
    BY <1>1, <2>1, <2>2, <2>3, <2>4
<1>4. m = Wrote(Plain("expanded"), <<>>) /\ m \in Outcomes
  <2>1. 0 \in 0 .. Len(text)
    BY <1>1
  <2> QED
    BY <1>0, <2>1, MeaningCases, MeaningsTyped
<1> HIDE DEF m
<1>5. Meaning(text) = Prefixed(out \o rest, m) /\ out \o rest \in Seq(STRING)
  BY <1>0, <1>3, <1>4, PrefixedTwice
<1>6. Meaning(text) = Wrote(Plain("expanded"), out \o rest)
  <2>1. /\ m.kind = "expanded" /\ m.at = 0 /\ m.name = <<>> /\ m.out = <<>>
    BY <1>4 DEF Wrote, Plain, At
  <2>2. Meaning(text) = [kind |-> m.kind, at |-> m.at, name |-> m.name,
                         out |-> (out \o rest) \o m.out]
    BY <1>4, <1>5, <2>1, PrefixedIs
  <2>3. (out \o rest) \o <<>> = out \o rest
    BY <1>5, ConcatEmptySeq
  <2> QED
    BY <2>1, <2>2, <2>3 DEF Wrote, Plain, At
<1>7. (Wrote(loaded, out) = Meaning(text))'
  <2>1. Wrote(loaded', out') = Meaning(text')
    BY <1>0, <1>6
  <2> QED
    BY <2>1, Zenon DEF Wrote, Meaning, Meanings, MeaningOf, Opens, Closes
<1>8. loaded'.kind = "expanded"
  BY <1>0 DEF Plain, At
<1> QED
  BY <1>7, <1>8 DEF Expanding, InterpolationExact

LEMMA ConfigMeans == ASSUME Reading, Expanding, LoadConfig PROVE Expanding'
<1>1. CASE ReadToml
  BY <1>1, ReadMeans
<1>2. CASE Expand
  BY <1>2, ExpandMeans DEF Reading, Expand
<1>3. CASE NoMorePlaceholders
  BY <1>3, NoMoreMeans DEF Reading, NoMorePlaceholders
<1>4. CASE ParseToml
  BY <1>4 DEF ParseToml, Expanding, InterpolationExact, Plain, At
<1> QED
  BY <1>1, <1>2, <1>3, <1>4 DEF LoadConfig

LEMMA ExpandingKept == Reading /\ Expanding /\ [RoosNext]_roosVars => Expanding'
<1> SUFFICES ASSUME Reading, Expanding, [RoosNext]_roosVars PROVE Expanding'
  OBVIOUS
<1>1. CASE UNCHANGED configVars
  <2>1. text' = text /\ rest' = rest /\ out' = out /\ loaded' = loaded
    BY <1>1 DEF configVars
  <2>2. /\ loaded'.kind = "none" => out' = <<>>
        /\ loaded'.kind = "expanding" =>
              /\ out' \in Seq(STRING)
              /\ Meaning(text') = Prefixed(out', Meanings(text')[Len(rest')])
        /\ loaded'.kind = "expanded" => Wrote(loaded', out') = Meaning(text')
        /\ loaded'.kind \in {"MissingEnvVar", "MalformedPlaceholder"} =>
              Wrote(loaded', <<>>) = Meaning(text')
    BY <2>1, Zenon DEF Expanding, InterpolationExact
  <2>3. (Meaning(text) = Prefixed(out, Meanings(text)[Len(rest)]))'
            <=> Meaning(text') = Prefixed(out', Meanings(text')[Len(rest')])
    BY Zenon DEF Prefixed, Meaning, Meanings, MeaningOf, Opens, Closes
  <2>4. /\ (Wrote(loaded, out) = Meaning(text))' <=> Wrote(loaded', out') = Meaning(text')
        /\ (Wrote(loaded, <<>>) = Meaning(text))' <=> Wrote(loaded', <<>>) = Meaning(text')
    BY Zenon DEF Wrote, Meaning, Meanings, MeaningOf, Opens, Closes
  <2> QED
    BY <2>2, <2>3, <2>4, Zenon DEF Expanding, InterpolationExact
<1>2. CASE LoadConfig
  BY <1>2, ConfigMeans
<1>3. LoadConfig \/ UNCHANGED configVars
  BY ConfigMoves DEF roosVars, configVars
<1> QED
  BY <1>1, <1>2, <1>3

\* Whatever the file holds and whatever the variables' values are, the text that is parsed
\* is the file with every placeholder replaced by its value once, and an error is the
\* first placeholder that could not be (config.rs:112-134).
THEOREM PlaceholdersAreExpanded == RoosSpec => []InterpolationExact
<1>1. RoosInit => Reading /\ Expanding
  <2> SUFFICES ASSUME RoosInit PROVE Reading /\ Expanding
    OBVIOUS
  <2>1. text = <<>> /\ rest = <<>> /\ out = <<>> /\ loaded.kind = "none"
    BY DEF RoosInit, ConfigInit, Plain, At
  <2> QED
    BY <2>1, NothingRead DEF Expanding, InterpolationExact
<1>2. Reading /\ Expanding /\ [RoosNext]_roosVars => (Reading /\ Expanding)'
  BY ReadingKept, ExpandingKept
<1>3. Expanding => InterpolationExact
  BY DEF Expanding
<1> QED
  BY <1>1, <1>2, <1>3, PTL DEF RoosSpec

=============================================================================
