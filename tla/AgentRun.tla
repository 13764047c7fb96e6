------------------------------ MODULE AgentRun ------------------------------
(***************************************************************************)
(* An agent as an application puts it together: ReasoningLoop with one of  *)
(* the providers of roos-providers, the tools of roos-tools and            *)
(* InMemoryStore, which never fails.  The loop's steps are those of        *)
(* ReasoningLoop; here they meet what goes over the wire and what the      *)
(* tools do to the world.                                                  *)
(***************************************************************************)
EXTENDS ReasoningLoop, Providers, BuiltinTools, SequencesExt

CONSTANTS
    Failures,       \* HTTP statuses of failures; 0: no answer, 200: one that does not parse
    WireAnswers     \* answers of the service that parse

ASSUME WireAnswersAssumption ==
    \A a \in WireAnswers :
        /\ a.choices \in BOOLEAN /\ {a.input, a.output} \subseteq Nat
        /\ a.calls \in Seq([tool : STRING, args : STRING])
        /\ \A r \in Runs : Len(a.calls) <= MaxBatch[r]

VARIABLES
    provider,   \* the provider of the process
    system,     \* has it a system prompt?
    tools,      \* the names of its registered tools
    request,    \* request[r]: the messages of its last request, as sent
    calls,      \* calls[r]: the tool calls of all answers, as sent
    effects,    \* effects[r]: which of its calls changed the world
    tokens,     \* tokens[r]: its total_tokens
    billed,     \* billed[r]: what the service charged, exact: every answer could be counted
    failure,    \* failure[r]: the kind of ProviderError that ended it
    panicked    \* panicked[r]: has it panicked?

setupVars == <<provider, system, tools>>
wireVars == <<request, calls, effects, tokens, billed, failure, panicked>>
agentVars == <<vars, setupVars, wireVars>>

AgentInit ==
    /\ Init
    /\ provider = "none" /\ system = FALSE /\ tools = {}
    /\ request = [r \in Runs |-> <<>>]
    /\ calls = [r \in Runs |-> <<>>]
    /\ effects = [r \in Runs |-> <<>>]
    /\ tokens = [r \in Runs |-> Usage(0, 0)]
    /\ billed = [r \in Runs |-> [sum |-> 0, exact |-> TRUE]]
    /\ failure = [r \in Runs |-> "none"]
    /\ panicked = [r \in Runs |-> FALSE]

\* The provider is called with the messages of the step that leads to the call.
Asks(r) ==
    request' = IF asked'[r] = asked[r] THEN request
               ELSE [request EXCEPT ![r] = Request(provider, system, messages'[r])]

LoopStep(r) ==
    /\ \/ Load(r)
       \/ RejectCall(r)
       \/ ExecuteCall(r)
       \/ BatchDone(r)
       \/ Save(r)
    /\ Asks(r)
    /\ UNCHANGED <<setupVars, calls, effects, tokens, billed, failure, panicked>>

-----------------------------------------------------------------------------
(* An answer of the service *)

\* Only OpenAI's protocol has choices, and arguments that are JSON texts in JSON.
Speaks(p, answer) ==
    Apis[p] # "compat" =>
        /\ answer.choices
        /\ \A k \in DOMAIN answer.calls : answer.calls[k].args # "garbled"

Kind(call) ==
    IF call.tool \notin tools THEN "unknown"
    ELSE IF Fits(call.args) THEN "valid" ELSE "invalid"

CountedAtTheEnd(usage, stop) ==
    [input |-> usage.input, output |-> usage.output,
     total |-> IF stop = "ToolUse" THEN 0 ELSE usage.total]

\* total_tokens.add(&response.usage), before anything is done with the response.
Counted(usage, stop) == usage

Charge(r, answer) ==
    billed' = [billed EXCEPT ![r] =
        [sum |-> @.sum + answer.input + answer.output,
         exact |-> @.exact /\ answer.choices /\ ~ Overflows(answer)]]

Answer(r, answer) ==
    /\ Speaks(provider, answer)
    /\ LET response == Response(provider, answer)
           usage == Counted(response.usage, response.stop)
       IN  /\ \/ /\ response.stop \in {"EndTurn", "StopSequence"}
                 /\ FinalAnswer(r, response.text)
                 /\ UNCHANGED calls
              \/ /\ response.stop = "MaxTokens"
                 /\ OutOfTokens(r, response.text)
                 /\ UNCHANGED calls
              \/ /\ response.stop = "ToolUse"
                 /\ ToolUse(r, response.text,
                        [k \in DOMAIN response.calls |-> Kind(response.calls[k])])
                 /\ calls' = [calls EXCEPT ![r] = @ \o answer.calls]
           /\ tokens' = [tokens EXCEPT ![r] =
                  [input |-> @.input + usage.input,
                   output |-> @.output + usage.output,
                   total |-> @.total + usage.total]]
    /\ Charge(r, answer)
    /\ UNCHANGED <<setupVars, request, effects, failure, panicked>>

AnswerPanics(r, answer) ==
    /\ pc[r] = "thinking"
    /\ Speaks(provider, answer)
    /\ Overflows(answer)
    /\ Cancel(r)
    /\ panicked' = [panicked EXCEPT ![r] = TRUE]
    /\ Charge(r, answer)
    /\ UNCHANGED <<setupVars, request, calls, effects, tokens, failure>>

AnswerFails(r, status) ==
    /\ ProviderFails(r)
    /\ failure' = [failure EXCEPT ![r] = ErrorOf(status)]
    /\ UNCHANGED <<setupVars, request, calls, effects, tokens, billed, panicked>>

-----------------------------------------------------------------------------
(* The tools *)

CallNr(r) == Len(records[r]) + 1
ToolOf(r) == calls[r][CallNr(r)].tool
Acted(r) == effects[r] # <<>> /\ Last(effects[r]) = CallNr(r)
Act(r) == effects' = [effects EXCEPT ![r] = Append(@, CallNr(r))]

SentAgain(r) == pc[r] = "executing"
SentOnce(r) == pc[r] = "executing" /\ ~ Acted(r)

\* The request of an http_post arrives while the run waits for its answer.
PostArrives(r) ==
    /\ SentOnce(r)
    /\ ToolOf(r) = "http_post"
    /\ Act(r)
    /\ UNCHANGED <<vars, setupVars, request, calls, tokens, billed, failure, panicked>>

ToolEnds(r) ==
    /\ pc[r] = "executing"
    /\ \E outcome \in ToolOutcomes[ToolOf(r)] :
          /\ ToolReturns(r, outcome.ok)
          /\ IF Interruptible(ToolOf(r))
             THEN outcome.effect = Acted(r) /\ UNCHANGED effects
             ELSE IF outcome.effect THEN Act(r) ELSE UNCHANGED effects
    /\ UNCHANGED <<setupVars, request, calls, tokens, billed, failure, panicked>>

\* The application drops the run at an await.
Drop(r) ==
    /\ pc[r] = "executing" => Interruptible(ToolOf(r))
    /\ Cancel(r)
    /\ UNCHANGED <<setupVars, wireVars>>

\* The steps the process takes by itself, and the one for which it waits for the service,
\* whose clients have no request timeout.
OwnStep(r) == LoopStep(r) \/ PostArrives(r) \/ ToolEnds(r)

ServiceAnswers(r) ==
    \/ \E answer \in WireAnswers : Answer(r, answer) \/ AnswerPanics(r, answer)
    \/ \E status \in Failures : AnswerFails(r, status)

AgentStep(r) == OwnStep(r) \/ ServiceAnswers(r)

-----------------------------------------------------------------------------
(* Properties *)

\* The LLM sees one growing conversation: each request of a run repeats the one before
\* it, system prompt first, and adds to its end (loop_.rs:84, cohere.rs:120-132).
ContextGrows ==
    [][\A r \in Runs :
          request[r] # <<>> => IsPrefix(request[r], request'[r])]_request

\* The audit trail accounts for what a run did to the world: no call acts twice, none
\* acts without a record but the one that was dropped while it waited for the network
\* or is still under way, and a call that acts and is recorded Ok did act
\* (loop_.rs:117-130, http.rs:114-135, fs.rs:72-83, shell.rs:73-108).
EffectsAudited ==
    \A r \in Runs :
        /\ \A i, j \in DOMAIN effects[r] : i < j => effects[r][i] < effects[r][j]
        /\ \A i \in DOMAIN effects[r] :
              \/ /\ effects[r][i] \in DOMAIN records[r]
                 /\ records[r][effects[r][i]].kind = "valid"
              \/ /\ effects[r][i] = CallNr(r)
                 /\ pc[r] = "executing" \/ output[r].kind = "Cancelled"
                 /\ ToolOf(r) = "http_post"
        /\ \A k \in DOMAIN records[r] :
              /\ records[r][k].ok
              /\ calls[r][k].tool \in {"write_file", "execute_shell", "http_post"}
              => k \in ToSet(effects[r])

\* From the wire to the record: the calls of all answers are dealt with in the order
\* they came in, and one is executed exactly if its tool is registered and what the
\* service sent as its arguments is an input of that tool.  Arguments that do not even
\* parse are never executed, whichever provider they come through (openai.rs:227-240).
WireCallsAnswered ==
    \A r \in Runs :
        /\ Len(calls[r]) = Len(records[r]) + Len(pending[r])
        /\ \A k \in DOMAIN records[r] :
              records[r][k].kind = "valid"
                  <=> calls[r][k].tool \in tools /\ calls[r][k].args = "fits"

\* The tokens of an answer are reported once, with the run that caused them: the total
\* is what the service charged, less only if an answer had no choices or its sum did not
\* fit into u32 (openai.rs:203-218, 242-247, loop_.rs:88).
TokensAccounted ==
    \A r \in Runs :
        /\ tokens[r].total <= billed[r].sum
        /\ billed[r].exact /\ ~ panicked[r] =>
              /\ tokens[r].total = billed[r].sum
              /\ tokens[r].total = tokens[r].input + tokens[r].output

=============================================================================
