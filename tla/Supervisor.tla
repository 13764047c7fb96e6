----------------------------- MODULE Supervisor -----------------------------
(***************************************************************************)
(* roos-core/src/supervisor.rs over the bus: SupervisorAgent::run asks an  *)
(* LLM to split a task into subtasks and sends them to their agents one    *)
(* after the other.  A run (element of Runs) is one execution of `run`;    *)
(* its i-th bus call is the pair <<r, i>>.  A supervisor is an agent too:  *)
(* a worker of the bus may itself work on a message by running one, and    *)
(* answers the message when that run has returned.                         *)
(***************************************************************************)
EXTENDS AgentBus

CONSTANTS
    Runs,           \* executions of SupervisorAgent::run
    MaxSubtasks,    \* bound on the subtasks of one decomposition
    Delegates,      \* Delegates[n]: names that a supervisor working as n assigns to
    TopLevel,       \* names that a supervisor run by the application assigns to
    NoCall          \* "run by the application, not for a message"

ASSUME SupervisorCalls == Calls = Runs \X (1 .. MaxSubtasks)
ASSUME NoCallAssumption == NoCall \notin Calls
ASSUME MaxSubtasksAssumption == MaxSubtasks \in Nat
ASSUME AssignableAssumption ==
    TopLevel \subseteq Names /\ \A n \in Names : Delegates[n] \subseteq Names

VARIABLES
    phase,      \* phase[r]: where run r is
    plan,       \* plan[r]: the agent of each subtask, in order
    at,         \* at[r]: index of the subtask being dispatched
    output,     \* output[r]: what the run returned
    steps,      \* steps[r]: steps_taken of the output
    onBehalf    \* onBehalf[r]: the message a worker answers with this run

supVars == <<phase, plan, at, output, steps, onBehalf>>
allVars == <<vars, supVars>>

Phases == {"idle", "decomposing", "dispatching", "returned", "panicked"}
Outputs == {"none", "Ok", "ProviderError", "ConfigurationError", "Cancelled"}

SupTypeOK ==
    /\ TypeOK
    /\ phase \in [Runs -> Phases]
    /\ plan \in [Runs -> Seq(Names)]
    /\ at \in [Runs -> 1 .. MaxSubtasks + 1]
    /\ output \in [Runs -> Outputs]
    /\ steps \in [Runs -> 0 .. MaxSubtasks]
    /\ onBehalf \in [Runs -> Calls \cup {NoCall}]

SupInit ==
    /\ Init
    /\ phase = [r \in Runs |-> "idle"]
    /\ plan = [r \in Runs |-> <<>>]
    /\ at = [r \in Runs |-> 1]
    /\ output = [r \in Runs |-> "none"]
    /\ steps = [r \in Runs |-> 0]
    /\ onBehalf = [r \in Runs |-> NoCall]

-----------------------------------------------------------------------------
(* parse_subtasks *)

\* What the extraction of the JSON array sees of an LLM text: the position of the
\* first '[' and of the last ']' (0: none), whether the slice between them is an array
\* of subtasks, and the agents those name.
Text(first, last, json, names) ==
    [first |-> first, last |-> last, json |-> json, names |-> names]

\* first .. last is an empty slice when last = first - 1; Rust refuses a slice that
\* starts beyond its end, and panics.
ParseSubtasks(t) ==
    CASE t.first = 0 \/ t.last = 0 -> "ConfigurationError"
      [] t.last + 1 < t.first -> "panic"
      [] t.last + 1 = t.first \/ ~ t.json -> "ConfigurationError"
      [] OTHER -> "Ok"

Plans(names) == UNION {[1 .. k -> names] : k \in 0 .. MaxSubtasks}

\* Texts of each shape; only a well-placed pair of brackets holds an array.
Texts(names) ==
    {Text(i, j, FALSE, <<>>) : i \in 0 .. 3, j \in 0 .. 3} \cup
    {Text(1, 2, TRUE, p) : p \in Plans(names)}

-----------------------------------------------------------------------------
(* SupervisorAgent::run *)

Call(r) == <<r, at[r]>>

FinishCountsThePlan(r, o, k) ==
    /\ phase' = [phase EXCEPT ![r] = "returned"]
    /\ output' = [output EXCEPT ![r] = o]
    /\ steps' = [steps EXCEPT ![r] = k + 1]

Finish(r, o, k) ==
    /\ phase' = [phase EXCEPT ![r] = "returned"]
    /\ output' = [output EXCEPT ![r] = o]
    /\ steps' = [steps EXCEPT ![r] = k]

\* The application runs a supervisor.
Start(r) ==
    /\ phase[r] = "idle"
    /\ phase' = [phase EXCEPT ![r] = "decomposing"]
    /\ UNCHANGED <<vars, plan, at, output, steps, onBehalf>>

\* A worker that received message c runs a supervisor to answer it.
StartFor(r, ch, c) ==
    /\ phase[r] = "idle"
    /\ c \in held[ch]
    /\ c[1] # r
    /\ \A q \in Runs : onBehalf[q] # c
    /\ phase' = [phase EXCEPT ![r] = "decomposing"]
    /\ onBehalf' = [onBehalf EXCEPT ![r] = c]
    /\ UNCHANGED <<vars, plan, at, output, steps>>

\* The names this run's LLM assigns subtasks to.
Assignable(r) ==
    IF onBehalf[r] = NoCall THEN TopLevel
    ELSE Delegates[plan[onBehalf[r][1]][onBehalf[r][2]]]

ProviderFails(r) ==
    /\ phase[r] = "decomposing"
    /\ Finish(r, "ProviderError", 0)
    /\ UNCHANGED <<vars, plan, at, onBehalf>>

NoText(r) ==
    /\ phase[r] = "decomposing"
    /\ Finish(r, "ConfigurationError", 0)
    /\ UNCHANGED <<vars, plan, at, onBehalf>>

Decompose(r, t) ==
    /\ phase[r] = "decomposing"
    /\ \/ /\ ParseSubtasks(t) = "ConfigurationError"
          /\ Finish(r, "ConfigurationError", 0)
          /\ UNCHANGED plan
       \/ /\ ParseSubtasks(t) = "panic"
          /\ phase' = [phase EXCEPT ![r] = "panicked"]
          /\ UNCHANGED <<plan, output, steps>>
       \/ /\ ParseSubtasks(t) = "Ok"
          /\ plan' = [plan EXCEPT ![r] = t.names]
          /\ IF Len(t.names) = 0 THEN Finish(r, "Ok", 0)
             ELSE /\ phase' = [phase EXCEPT ![r] = "dispatching"]
                  /\ UNCHANGED <<output, steps>>
    /\ UNCHANGED <<vars, at, onBehalf>>

\* bus.send(&st.agent, &st.task): the agent is looked up on the bus, not in `workers`.
Dispatch(r) ==
    /\ phase[r] = "dispatching"
    /\ Lookup(Call(r), plan[r][at[r]])
    /\ UNCHANGED supVars

\* `send` returned: keep the reply and go on, or give up the run and its results.
GoesOnAfterRecvError(res) == res \in {"Ok", "RecvError"}
GoesOnAfter(res) == res = "Ok"

AfterSendIgnoresErrors(r) ==
    /\ phase[r] = "dispatching"
    /\ pc[Call(r)] = "done" /\ GoesOnAfter(result[Call(r)])
    /\ at' = [at EXCEPT ![r] = @ + 1]
    /\ IF at[r] = Len(plan[r]) THEN Finish(r, "Ok", Len(plan[r]))
       ELSE UNCHANGED <<phase, output, steps>>
    /\ UNCHANGED <<vars, plan, onBehalf>>

AfterSend(r) ==
    /\ phase[r] = "dispatching"
    /\ pc[Call(r)] = "done"
    /\ IF ~ GoesOnAfter(result[Call(r)])
       THEN Finish(r, "ProviderError", 0) /\ UNCHANGED at
       ELSE /\ at' = [at EXCEPT ![r] = @ + 1]
            /\ IF at[r] = Len(plan[r]) THEN Finish(r, "Ok", Len(plan[r]))
               ELSE UNCHANGED <<phase, output, steps>>
    /\ UNCHANGED <<vars, plan, onBehalf>>

\* The caller drops the run at an await: the provider call, or a call of the bus.
CancelRun(r) ==
    /\ \/ phase[r] = "decomposing" /\ UNCHANGED vars
       \/ phase[r] = "dispatching" /\ Cancel(Call(r))
    /\ Finish(r, "Cancelled", 0)
    /\ UNCHANGED <<plan, at, onBehalf>>

-----------------------------------------------------------------------------
(* Workers of the bus *)

Unwound(r) == phase[r] \in {"returned", "panicked"}

\* A worker that runs a supervisor for c answers when that run is over, with its
\* output or, when it failed, by dropping the reply channel.
AnswerHeld(ch, c) ==
    /\ \/ /\ \E r \in Runs : onBehalf[r] = c /\ output[r] = "Ok"
          /\ Reply(ch, c)
       \/ /\ \E r \in Runs : onBehalf[r] = c /\ Unwound(r) /\ output[r] # "Ok"
          /\ DropReply(ch, c)
       \/ /\ \A r \in Runs : onBehalf[r] # c
          /\ Reply(ch, c) \/ DropReply(ch, c)
    /\ UNCHANGED supVars

BusStep(c) == (Transmit(c) \/ Collect(c)) /\ UNCHANGED supVars

WorkerStep(ch) == (Recv(ch) \/ DropReceiver(ch)) /\ UNCHANGED supVars

\* The LLM service answers, or fails: provider.complete(..).await is over.
ServiceAnswers(r) ==
    \/ ProviderFails(r)
    \/ NoText(r)
    \/ \E t \in Texts(Assignable(r)) : Decompose(r, t)

RunStep(r) == Dispatch(r) \/ AfterSend(r)

SupNext ==
    \/ \E n \in Names, ch \in Chans : Register(n, ch) /\ UNCHANGED supVars
    \/ \E r \in Runs : Start(r) \/ ServiceAnswers(r) \/ RunStep(r) \/ CancelRun(r)
    \/ \E r \in Runs, ch \in Chans, c \in Calls : StartFor(r, ch, c)
    \/ \E c \in Calls : BusStep(c)
    \/ \E ch \in Chans : WorkerStep(ch)
    \/ \E ch \in Chans, c \in Calls : AnswerHeld(ch, c)

SupSpec == SupInit /\ [][SupNext]_allVars

\* An assumption on the outside: the LLM service answers in the end or its connection
\* fails.  Nothing in the code enforces it, the HTTP clients have no request timeout
\* (openai.rs:109, anthropic.rs:92, cohere.rs:108): a silent service holds the run.
ServiceFairness == \A r \in Runs : WF_allVars(ServiceAnswers(r))

\* What the process does by itself: tokio polls woken tasks, workers let go of messages.
SupFairness ==
    /\ \A r \in Runs : WF_allVars(RunStep(r))
    /\ \A c \in Calls : WF_allVars(BusStep(c))
    /\ \A ch \in Chans :
        /\ WF_allVars(Recv(ch) /\ UNCHANGED supVars)
        /\ \A c \in Calls : WF_allVars(AnswerHeld(ch, c))

SupFairSpec == SupSpec /\ SupFairness /\ ServiceFairness

-----------------------------------------------------------------------------
(* Properties *)

\* Subtasks go out strictly one after the other (supervisor.rs:134-141): none is sent
\* before every earlier one was answered, and none after one failed.
InOrder ==
    \A r \in Runs : \A i \in 1 .. MaxSubtasks :
        pc[<<r, i>>] # "idle" =>
            \A j \in 1 .. i - 1 : result[<<r, j>>] = "Ok" /\ served[<<r, j>>] = 1

\* A run that returns Ok (supervisor.rs:143-149) had every subtask of its plan done by
\* exactly one worker; no call of a run that is over is still waiting in `send`.
OkMeansAllDone ==
    \A r \in Runs : phase[r] = "returned" =>
        /\ output[r] = "Ok" => /\ steps[r] = Len(plan[r])
                               /\ \A i \in 1 .. steps[r] : served[<<r, i>>] = 1
        /\ \A i \in 1 .. MaxSubtasks : pc[<<r, i>>] \in {"idle", "done"}

\* The call of q is in the hands of a worker that answers it with a run of D, or in line
\* at a receiver all of whose workers do so with what they hold.
WaitsFor(q, D) ==
    LET ch == tx[Call(q)]
        answered(c) == \E d \in D : onBehalf[d] = c
    IN  \/ Call(q) \in held[ch] /\ answered(Call(q))
        \/ /\ In(Call(q), queue[ch]) \/ In(Call(q), waiting[ch])
           /\ Cardinality(held[ch]) = Concurrency /\ \A c \in held[ch] : answered(c)

\* r is one of a set of runs that wait for each other and for nobody else.
InCircle(r) ==
    \E D \in SUBSET Runs :
        r \in D /\ \A q \in D : phase[q] = "dispatching" /\ tx[Call(q)] # NoChan /\ WaitsFor(q, D)

\* A run that does not end waits in such a circle for ever, where supervisors delegate to
\* their own agent or to one another (supervisor.rs:134-139 over bus.rs:92-99, which have
\* no timeout); nothing else holds one, neither dropped receivers nor full queues nor the
\* messages of cancelled runs.  Where Delegates has no circle, none can
\* close, and every run ends.
OnlyCirclesWait ==
    \A r \in Runs : phase[r] = "decomposing" ~> (Unwound(r) \/ []InCircle(r))

\* error.rs:6: "No public API path panics".
NoPanic == \A r \in Runs : phase[r] # "panicked"

=============================================================================
