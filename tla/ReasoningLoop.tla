--------------------------- MODULE ReasoningLoop ---------------------------
(***************************************************************************)
(* roos-orchestrator/src/loop_.rs: ReasoningLoop::run, the Reasoning ->    *)
(* Action -> Observation loop of one agent run.  A run (element of Runs)   *)
(* is one execution of `run`; several may be under way, some for the same  *)
(* run_id, all over one Memory.  A step of the model is what the code does *)
(* between two awaits (memory.load, provider.complete, tool.execute,       *)
(* memory.append).  Provider, tools and memory are traits: they answer     *)
(* anything their types allow.  The memory keeps what InMemoryStore keeps. *)
(***************************************************************************)
EXTENDS Naturals, Sequences, FiniteSets

CONSTANTS
    Runs,       \* executions of `run`
    Ids,        \* values of AgentInput::run_id
    Limits,     \* values of input.max_steps.unwrap_or(10)
    MaxBatch    \* MaxBatch[r]: bound on the tool calls of one response to r

ASSUME LimitsAssumption == Limits \subseteq Nat
ASSUME MaxBatchAssumption == MaxBatch \in [Runs -> Nat]

A == INSTANCE AgentState

VARIABLES
    pc,         \* pc[r]: the await the run is at
    id,         \* id[r]: its run_id
    limit,      \* limit[r]: its max_steps
    state,      \* state[r]: its AgentState
    history,    \* history[r]: how many messages it loaded from memory
    messages,   \* messages[r]: the messages it sends to the provider
    pending,    \* pending[r]: tool calls of the last response not yet executed
    records,    \* records[r]: its tools_called
    output,     \* output[r]: what `run` returned
    store,      \* store[i]: the messages kept for run_id i
    asked,      \* asked[r]: how often it called provider.complete
    requested,  \* requested[r]: how many tool calls the responses held
    executed    \* executed[r]: how often it called Tool::execute

vars == <<pc, id, limit, state, history, messages, pending, records, output,
          store, asked, requested, executed>>

PCs == {"idle", "loading", "thinking", "acting", "executing", "saving", "returned"}

\* What becomes of a requested call: its tool is not registered, its input does not
\* match the tool's schema, or it can be executed.
CallKinds == {"unknown", "invalid", "valid"}

\* A message: who wrote it and, for what a run adds, which run and the number of the
\* step (assistant) or of the tool call (tool).
Message(role, r, k) == [role |-> role, run |-> r, nr |-> k]
Messages == [role : {"user", "assistant", "tool"}, run : Runs, nr : Nat]

Record(kind, ok, k) == [kind |-> kind, ok |-> ok, step |-> k]
Records == [kind : CallKinds, ok : BOOLEAN, step : Nat]

Errors == {"ConfigurationError", "MemoryError", "ProviderError",
           "MaxStepsExceeded", "ContextWindowExceeded", "Cancelled"}
Output(kind, k) == [kind |-> kind, steps |-> k]
Outputs == [kind : Errors \cup {"none", "Ok"}, steps : Nat]

TypeOK ==
    /\ pc \in [Runs -> PCs]
    /\ id \in [Runs -> Ids]
    /\ limit \in [Runs -> Limits]
    /\ state \in [Runs -> A!States]
    /\ \A r \in Runs : state[r].step <= limit[r] + 1
    /\ history \in [Runs -> Nat]
    /\ messages \in [Runs -> Seq(Messages)]
    /\ pending \in [Runs -> Seq(CallKinds)]
    /\ records \in [Runs -> Seq(Records)]
    /\ output \in [Runs -> Outputs]
    /\ store \in [Ids -> Seq(Messages)]
    /\ asked \in [Runs -> Nat]
    /\ requested \in [Runs -> Nat]
    /\ executed \in [Runs -> Nat]

Init ==
    /\ pc = [r \in Runs |-> "idle"]
    /\ id \in [Runs -> Ids]
    /\ limit \in [Runs -> Limits]
    /\ state = [r \in Runs |-> A!Idle]
    /\ history = [r \in Runs |-> 0]
    /\ messages = [r \in Runs |-> <<>>]
    /\ pending = [r \in Runs |-> <<>>]
    /\ records = [r \in Runs |-> <<>>]
    /\ output = [r \in Runs |-> Output("none", 0)]
    /\ store = [i \in Ids |-> <<>>]
    /\ asked = [r \in Runs |-> 0]
    /\ requested = [r \in Runs |-> 0]
    /\ executed = [r \in Runs |-> 0]

-----------------------------------------------------------------------------

Goto(r, where) == pc' = [pc EXCEPT ![r] = where]

Return(r, kind, k) ==
    /\ Goto(r, "returned")
    /\ output' = [output EXCEPT ![r] = Output(kind, k)]

\* Top of the loop, in state s: stop, or call the provider once more.
WithinLimitOffByOne(r, s) == s.step <= limit[r] + 1
WithinLimit(r, s) == s.step <= limit[r]

LoopTop(r, s) ==
    IF s = A!Invalid
    THEN /\ Return(r, "ConfigurationError", 0)
         /\ UNCHANGED <<state, asked>>
    ELSE /\ state' = [state EXCEPT ![r] = s]
         /\ IF WithinLimit(r, s)
            THEN /\ Goto(r, "thinking")
                 /\ asked' = [asked EXCEPT ![r] = @ + 1]
                 /\ UNCHANGED output
            ELSE Return(r, "MaxStepsExceeded", 0) /\ UNCHANGED asked

\* The caller polls `run` for the first time.
Begin(r) ==
    /\ pc[r] = "idle"
    /\ Goto(r, "loading")
    /\ UNCHANGED <<id, limit, state, history, messages, pending, records,
                   output, store, asked, requested, executed>>

\* memory.load answered: the context is what was stored, then this turn's input.
Load(r) ==
    /\ pc[r] = "loading"
    /\ history' = [history EXCEPT ![r] = Len(store[id[r]])]
    /\ messages' = [messages EXCEPT
            ![r] = Append(store[id[r]], Message("user", r, 0))]
    /\ LoopTop(r, A!Start(state[r]))
    /\ UNCHANGED <<id, limit, pending, records, store, requested, executed>>

LoadFails(r) ==
    /\ pc[r] = "loading"
    /\ Return(r, "MemoryError", 0)
    /\ UNCHANGED <<id, limit, state, history, messages, pending, records,
                   store, asked, requested, executed>>

-----------------------------------------------------------------------------
(* The provider's response *)

ProviderFails(r) ==
    /\ pc[r] = "thinking"
    /\ Return(r, "ProviderError", 0)
    /\ UNCHANGED <<id, limit, state, history, messages, pending, records,
                   store, asked, requested, executed>>

\* Any text of the response joins the context, whatever its stop reason.
Hear(r, text) ==
    messages' = IF text
                THEN [messages EXCEPT ![r] =
                        Append(@, Message("assistant", r, state[r].step))]
                ELSE messages

\* EndTurn, StopSequence: the text is the answer ("" if there is none).
FinalAnswer(r, text) ==
    /\ pc[r] = "thinking"
    /\ Hear(r, text)
    /\ Goto(r, "saving")
    /\ UNCHANGED <<id, limit, state, history, pending, records, output,
                   store, asked, requested, executed>>

\* MaxTokens
OutOfTokens(r, text) ==
    /\ pc[r] = "thinking"
    /\ Hear(r, text)
    /\ Return(r, "ContextWindowExceeded", 0)
    /\ UNCHANGED <<id, limit, state, history, pending, records,
                   store, asked, requested, executed>>

\* ToolUse: a batch of calls, possibly empty.
ToolUse(r, text, calls) ==
    /\ pc[r] = "thinking"
    /\ Hear(r, text)
    /\ IF A!CallTool(state[r]) = A!Invalid
       THEN /\ Return(r, "ConfigurationError", 0)
            /\ UNCHANGED <<state, pending, requested>>
       ELSE /\ state' = [state EXCEPT ![r] = A!CallTool(@)]
            /\ pending' = [pending EXCEPT ![r] = calls]
            /\ requested' = [requested EXCEPT ![r] = @ + Len(calls)]
            /\ Goto(r, "acting")
            /\ UNCHANGED output
    /\ UNCHANGED <<id, limit, history, records, store, asked, executed>>

-----------------------------------------------------------------------------
(* The calls of a batch, one after the other *)

ObserveDropsRest(r, kind, ok) ==
    /\ records' = [records EXCEPT ![r] = Append(@, Record(kind, ok, state[r].step))]
    /\ messages' = [messages EXCEPT ![r] =
            Append(@, Message("tool", r, Len(records[r]) + 1))]
    /\ pending' = [pending EXCEPT ![r] = IF ok THEN Tail(@) ELSE <<>>]

\* The call at the head is over: its audit record, and one observation for the LLM.
Observe(r, kind, ok) ==
    /\ records' = [records EXCEPT ![r] = Append(@, Record(kind, ok, state[r].step))]
    /\ messages' = [messages EXCEPT ![r] =
            Append(@, Message("tool", r, Len(records[r]) + 1))]
    /\ pending' = [pending EXCEPT ![r] = Tail(@)]

\* No such tool, or validate_tool_input found violations: an error, no execution.
RejectsOnlyUnknown(kind) == kind = "unknown"
Rejects(kind) == kind # "valid"

RejectCall(r) ==
    /\ pc[r] = "acting"
    /\ pending[r] # <<>>
    /\ Rejects(Head(pending[r]))
    /\ Observe(r, Head(pending[r]), FALSE)
    /\ UNCHANGED <<pc, id, limit, state, history, output, store,
                   asked, requested, executed>>

ExecuteCall(r) ==
    /\ pc[r] = "acting"
    /\ pending[r] # <<>>
    /\ ~ Rejects(Head(pending[r]))
    /\ Goto(r, "executing")
    /\ executed' = [executed EXCEPT ![r] = @ + 1]
    /\ UNCHANGED <<id, limit, state, history, messages, pending, records,
                   output, store, asked, requested>>

\* Tool::execute returned Ok or Err; neither ends the run.
ToolReturns(r, ok) ==
    /\ pc[r] = "executing"
    /\ Observe(r, Head(pending[r]), ok)
    /\ Goto(r, "acting")
    /\ UNCHANGED <<id, limit, state, history, output, store,
                   asked, requested, executed>>

BatchDoneAfterTool(r) ==
    /\ pc[r] = "acting"
    /\ pending[r] = <<>> /\ records[r] # <<>>
    /\ LoopTop(r, A!ContinueReasoning(A!ToolDone(state[r])))
    /\ UNCHANGED <<id, limit, history, messages, pending, records, store,
                   requested, executed>>

\* The batch is done: tool_done().continue_reasoning(), and the loop starts over.
BatchDone(r) ==
    /\ pc[r] = "acting"
    /\ pending[r] = <<>>
    /\ LoopTop(r, A!ContinueReasoning(A!ToolDone(state[r])))
    /\ UNCHANGED <<id, limit, history, messages, pending, records, store,
                   requested, executed>>

-----------------------------------------------------------------------------
(* The end of a run *)

\* The context the run loaded is written back with its answer.
StoredOverwrites(i, m) ==
    [store EXCEPT ![i] = Append(SubSeq(@, 1, history[m.run]), m)]

StoredNewestFirst(i, m) == [store EXCEPT ![i] = <<m>> \o @]

Stored(i, m) == [store EXCEPT ![i] = Append(@, m)]

Save(r) ==
    /\ pc[r] = "saving"
    /\ store' = Stored(id[r], Message("assistant", r, state[r].step))
    /\ Return(r, "Ok", state[r].step)
    /\ UNCHANGED <<id, limit, state, history, messages, pending, records,
                   asked, requested, executed>>

SaveFails(r) ==
    /\ pc[r] = "saving"
    /\ Return(r, "MemoryError", 0)
    /\ UNCHANGED <<id, limit, state, history, messages, pending, records,
                   store, asked, requested, executed>>

\* The caller drops the future while it waits.
Cancel(r) ==
    /\ pc[r] \in {"loading", "thinking", "executing", "saving"}
    /\ Return(r, "Cancelled", 0)
    /\ UNCHANGED <<id, limit, state, history, messages, pending, records,
                   store, asked, requested, executed>>

-----------------------------------------------------------------------------

Batches(r) == UNION {[1 .. k -> CallKinds] : k \in 0 .. MaxBatch[r]}

\* A step of a run that is under way, its caller still waiting for it.
Step(r) ==
    \/ Load(r)
    \/ LoadFails(r)
    \/ ProviderFails(r)
    \/ \E text \in BOOLEAN :
          \/ FinalAnswer(r, text)
          \/ OutOfTokens(r, text)
          \/ \E calls \in Batches(r) : ToolUse(r, text, calls)
    \/ RejectCall(r)
    \/ ExecuteCall(r)
    \/ \E ok \in BOOLEAN : ToolReturns(r, ok)
    \/ BatchDone(r)
    \/ Save(r)
    \/ SaveFails(r)

Next == \E r \in Runs : Begin(r) \/ Step(r) \/ Cancel(r)

Spec == Init /\ [][Next]_vars

\* tokio polls a run again when what it waits for has happened, and provider, tools and
\* memory answer sooner or later.  The second is an assumption about whoever implements
\* these traits: the loop sets no timeout, and neither do the HTTP clients of the providers
\* (openai.rs:109, anthropic.rs:92, cohere.rs:108).
FairSpec == Spec /\ \A r \in Runs : WF_vars(Step(r))

-----------------------------------------------------------------------------
(* Properties *)

\* The step limit is exact (loop_.rs:75-79): no run asks the provider more often than
\* max_steps, MaxStepsExceeded comes after exactly max_steps answers, and steps_taken
\* of an output is the number of times the provider was asked (loop_.rs:104).  The
\* AgentState counts along and never refuses a transition of the loop.
StepLimit ==
    \A r \in Runs :
        /\ asked[r] <= limit[r]
        /\ pc[r] = "thinking" => state[r] = A!Reasoning(asked[r])
        /\ output[r].kind # "ConfigurationError"
        /\ output[r].kind = "MaxStepsExceeded" => asked[r] = limit[r]
        /\ output[r].kind = "Ok" => output[r].steps = asked[r] /\ asked[r] > 0

\* Whenever the provider is asked again, every tool call it requested so far has been
\* answered by one observation and one audit record, in the order of the requests
\* (loop_.rs:117-130), failed calls included.
ToolMessages(r) ==
    {i \in history[r] + 1 .. Len(messages[r]) : messages[r][i].role = "tool"}

EveryCallObserved ==
    \A r \in Runs :
        /\ requested[r] = Len(records[r]) + Len(pending[r])
        /\ pc[r] \in {"thinking", "saving"} => pending[r] = <<>>
        /\ {messages[r][i] : i \in ToolMessages(r)} =
              {Message("tool", r, k) : k \in 1 .. Len(records[r])}
        /\ \A i, j \in ToolMessages(r) : i < j => messages[r][i].nr < messages[r][j].nr

\* A tool runs only on input its schema accepts (loop_.rs:155-158, ROOS-TOOL-004), and the
\* audit trail, which is written when a call is over (loop_.rs:118-130), accounts for every
\* execution and tells it from a rejected call.  The one that is under way is missing, and
\* stays missing if the run is dropped then (loop_.rs:43): no other way for a run to end,
\* and no other await to drop it at, leaves an execution without a record.
Executions(r) == {k \in 1 .. Len(records[r]) : records[r][k].kind = "valid"}

UnderWay(r) ==
    \/ pc[r] = "executing"
    \/ output[r].kind = "Cancelled" /\ pending[r] # <<>>

OnlyValidExecuted ==
    \A r \in Runs :
        /\ \A k \in 1 .. Len(records[r]) : records[r][k].ok => k \in Executions(r)
        /\ UnderWay(r) => Head(pending[r]) = "valid"
        /\ executed[r] = Cardinality(Executions(r)) + (IF UnderWay(r) THEN 1 ELSE 0)

\* The memory of a run_id holds exactly one answer of each run for it that returned Ok
\* and nothing of the others (loop_.rs:98-101), however the runs interleave.
OneAnswerPerRun ==
    \A i \in Ids :
        LET done == {r \in Runs : id[r] = i /\ output[r].kind = "Ok"}
        IN  /\ {store[i][k].run : k \in 1 .. Len(store[i])} = done
            /\ Len(store[i]) = Cardinality(done)

\* The context of a run starts with what was stored for its run_id when it loaded, and
\* this stays the beginning of what is stored: no other run rewrites it.
ContextIsPrefix ==
    \A r \in Runs :
        /\ history[r] <= Len(store[id[r]])
        /\ history[r] <= Len(messages[r])
        /\ \A k \in 1 .. history[r] : messages[r][k] = store[id[r]][k]

\* A run ends: the step limit stops even a provider that always asks for tools.
EveryRunReturns ==
    \A r \in Runs : pc[r] = "loading" ~> pc[r] = "returned"

=============================================================================
