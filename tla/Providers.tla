----------------------------- MODULE Providers -----------------------------
(***************************************************************************)
(* roos-providers: how a completion is asked for over HTTP and what a      *)
(* CompletionResponse or ProviderError is made of the answer.  OpenAI,     *)
(* Groq and Qwen share complete_compat (openai.rs); Anthropic and Cohere   *)
(* have their own.  The services themselves answer anything.               *)
(***************************************************************************)
EXTENDS Naturals, Sequences

CONSTANT U32    \* 2^32: the usage of an answer is counted in u32

ASSUME U32Assumption == U32 \in Nat \ {0}

Apis == [openai |-> "compat", groq |-> "compat", qwen |-> "compat",
         anthropic |-> "anthropic", cohere |-> "cohere"]

\* The messages on the wire.  Anthropic and OpenAI take the system prompt in a field of
\* its own, Cohere as a first message.
SystemMessage == [role |-> "system", run |-> "none", nr |-> 0]

CohereRequestSystemLast(system, messages) ==
    IF system THEN Append(messages, SystemMessage) ELSE messages
CohereRequest(system, messages) ==
    IF system THEN <<SystemMessage>> \o messages ELSE messages
CompatRequest(system, messages) == messages
AnthropicRequest(system, messages) == messages

Request(p, system, messages) ==
    CASE Apis[p] = "cohere"    -> CohereRequest(system, messages)
      [] Apis[p] = "compat"    -> CompatRequest(system, messages)
      [] Apis[p] = "anthropic" -> AnthropicRequest(system, messages)

\* An HTTP answer: its status (0: none came) and, if it is 2xx, what its JSON holds.
\* `choices`: it has a choice (OpenAI); `text`: its text parts, if any, joined.
Answers(finishes, calls, usages) ==
    [choices : BOOLEAN, finish : finishes, text : {"none", "empty", "some"},
     calls : calls, input : usages, output : usages]

ErrorOf(status) ==
    CASE status = 0           -> "NetworkError"
      [] status = 401         -> "Unauthorized"
      [] status = 429         -> "RateLimited"
      [] status \in 500 .. 599 -> "ServerError"
      [] OTHER                -> "InvalidResponse"

AnthropicReasons ==
    [tool_use |-> "ToolUse", max_tokens |-> "MaxTokens", stop_sequence |-> "StopSequence"]
CompatReasons ==
    [tool_calls |-> "ToolUse", length |-> "MaxTokens", content_filter |-> "StopSequence"]
CohereReasons == [TOOL_CALL |-> "ToolUse", MAX_TOKENS |-> "MaxTokens"]

StopReason(reasons, finish) ==
    IF finish \in DOMAIN reasons THEN reasons[finish] ELSE "EndTurn"

\* OpenAI's arguments are a JSON text: one that does not parse becomes null.
InputGarbledFits(args) == IF args = "garbled" THEN "fits" ELSE args
Input(args) == IF args = "garbled" THEN "null" ELSE args

Usage(input, output) ==
    [input |-> input, output |-> output, total |-> (input + output) % U32]

\* The sum of an answer's tokens does not fit: a build with overflow checks panics, one
\* without wraps.
Overflows(a) == a.choices /\ a.input + a.output >= U32

\* map_response of each API.  An OpenAI answer without choices ends the turn and costs
\* nothing; Anthropic's text is None if there is no block of text, Cohere's if it is empty.
CompletionResponse(text, wanted, usage, stop) ==
    [text |-> text, calls |-> wanted, usage |-> usage, stop |-> stop]

CompatResponse(a) ==
    IF a.choices
    THEN CompletionResponse(a.text # "none",
            [k \in DOMAIN a.calls |-> [a.calls[k] EXCEPT !.args = Input(@)]],
            Usage(a.input, a.output), StopReason(CompatReasons, a.finish))
    ELSE CompletionResponse(FALSE, <<>>, Usage(0, 0), "EndTurn")

AnthropicResponse(a) ==
    CompletionResponse(a.text # "none", a.calls, Usage(a.input, a.output),
                       StopReason(AnthropicReasons, a.finish))

CohereResponse(a) ==
    CompletionResponse(a.text = "some", a.calls, Usage(a.input, a.output),
                       StopReason(CohereReasons, a.finish))

Response(p, a) ==
    CASE Apis[p] = "compat"    -> CompatResponse(a)
      [] Apis[p] = "anthropic" -> AnthropicResponse(a)
      [] Apis[p] = "cohere"    -> CohereResponse(a)

=============================================================================
