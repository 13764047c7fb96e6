# A TLA+ model of Roos

Roos (`crates/*`) is a Rust framework for LLM agents: an agent run loops between a language
model and tools, remembers its conversation, may be started by a scheduler or over HTTP, and
may delegate to other agents over an in-process bus. These modules model the parts of it that
keep state and interleave, check them with TLC on small instances, and prove the central facts
about them with TLAPS for every instance. `PROJECT.json` maps each definition to its lines.

## The system

| component | state | operations | interacts with |
|---|---|---|---|
| agent bus, point-to-point (`roos-core/src/bus.rs`) | a map name -> mpsc sender behind an `RwLock`; per agent a bounded queue; per call a oneshot channel | `register`, `send` | callers, workers that own the receivers |
| agent bus, topics (same file) | a map topic -> broadcast sender | `subscribe`, `publish` | subscribers |
| supervisor (`roos-core/src/supervisor.rs`) | one `run`: plan, results so far | `run` | the provider, then the bus once per subtask |
| reasoning loop (`roos-orchestrator/src/loop_.rs`, `state.rs`, `validate.rs`) | one `run`: context, `AgentState`, audit records | `run`, `execute_tool`, the state machine's transitions | provider, tools, memory, each behind an await |
| memory trait, in-memory store (`roos-core/src/memory.rs`, `roos-memory/src/in_memory.rs`) | run_id -> history, one lock | `store`, `load`, `append`, `clear` | the loop |
| Sled memory (`roos-memory/src/sled_store.rs`) | a Sled tree run_id -> (history, deadline) | the same, several tree calls each | the loop, the clock |
| scheduler (`roos-scheduler/src/scheduler.rs`, `task.rs`) | a Sled tree id -> task | `add_*`, `remove_task`, `due_tasks`, `update_state`, `reschedule`, `record_failure` | whoever polls, the clock |
| configuration (`roos-core/src/config.rs`) | none that outlives a load | `from_file`: read, interpolate, parse | the file system, the environment, every command |
| providers (`roos-providers`) | none that outlives a call | `complete`: request, `map_response`, errors | the LLM services; the loop |
| tools (`roos-tools`) | none that outlives a call | `execute` | files, shell, network; the loop |
| trigger server (`roos-trigger`) | a map run_id -> record and the agents, each behind an `RwLock` | `/health`, `/agents`, `/trigger`, `/runs/:id`, bearer and HMAC layers | clients |
| command line (`roos-cli`) | files of a new project; the tasks and channels of `serve` | `new`, `run`, `list`, `serve` | all of the above, signals |
| prompt builder, macros, logging, facade crate | none | | |

What is hard in them:

* **bus**: a caller clones a sender under the lock and uses it later, when the name may have
  been registered anew or the receiver dropped; queues fill up; callers give up at any await,
  holding a slot, a place in line or a queued message; nothing has a timeout. Correct: nobody
  waits on nobody, no slot is lost, a refused task never runs, a task runs at most once.
* **supervisor**: one subtask failing in the middle; a run cancelled in the middle of a bus
  call; supervisors waiting for each other through the bus. Correct: strictly in order, Ok
  only when every subtask was done, and a run that never ends waits in a circle of runs.
* **reasoning loop**: exact step limit; failed, unknown and invalid tool calls in a batch;
  runs of one run_id that share a memory; cancellation.
* **memory**: operations made of several tree calls, deadlines that pass in between.
* **scheduler**: whole-task saves over stale copies, the retry budget and its back-off,
  crashes between two steps.
* **topics**: a slow subscriber loses the oldest events. Correct: never without being told,
  and all subscribers of a topic hear the same.
* **configuration**: values that look like placeholders, positions in a text that changes its
  length. Correct: each placeholder is replaced once, errors point into the file.
* **providers, tools and loop together**: arguments that do not parse, sums that do not fit,
  a run dropped while a request is on its way. Correct: the audit trail accounts for what was
  done to the world, the token count for what was charged.
* **trigger server**: a check before the body and one after it, clients that leave. Correct:
  only entitled requests leave a record, and what was accepted is found.
* **serve**: signals before and after their handlers, shutdown with requests in flight, a tick
  loop that is busy when it is told to stop. Correct: Ok only after everybody has ended, and
  a shutdown that was asked for ends.

## The modules

| module | models | composed with |
|---|---|---|
| `BusService` | what `send` promises: a call is new, pending, returned; its task is accepted at most once | abstract specification of `AgentBus` |
| `AgentBus` | `register`, `send` and the workers, tokio's channels included as the semaphore, the FIFO of waiting senders and the queue that `bus.rs` relies on | implements `BusService` (`ImplementsService`) |
| `Supervisor` | `SupervisorAgent::run` and `parse_subtasks` | EXTENDS `AgentBus`; its i-th bus call is the call `<<r, i>>`; a worker may answer a message by running a supervisor |
| `AgentState` | the state machine of `state.rs` as operators; `Invalid` is `TransitionError` | used by `ReasoningLoop` |
| `ReasoningLoop` | `ReasoningLoop::run` and `execute_tool`, several runs over one memory | INSTANCE of `AgentState` |
| `MemoryService` | the `Memory` trait with atomic operations, which is the in-memory store | abstract specification of `SledMemory` |
| `SledMemory` | the four operations one tree call or look at the clock at a time | implements `MemoryService` while no run_id is used by two tasks at once |
| `CronScheduler` | the scheduler's operations as load, compute, save; an executor; an admin | |
| `Topics` | `subscribe` and `publish` over tokio's broadcast channels | beside `AgentBus` in `MCRoosAgentBus` |
| `Config` | `RoosConfig::from_file`, `interpolate_env_vars` one placeholder at a time | the first steps of the commands in `Roos` |
| `Providers` | requests, `map_response`, stop reasons, usage and errors of each API, as operators | used by `AgentRun` |
| `BuiltinTools` | how each tool may end, whether it acts and whether it can be interrupted | used by `AgentRun` |
| `AgentRun` | an agent as an application puts it together | EXTENDS `ReasoningLoop`, whose steps it takes with what they mean on the wire and in the world |
| `TriggerServer` | router, layers, extractor and handlers, from one await of a request to the next | |
| `Serve` | `serve::run`: main task, signal task, tick loop, requests | EXTENDS `TriggerServer` and implements its specification (`ServeImplementsTriggerServer`) |
| `Roos` | one process: `roos new`, `run`, `list`, `serve`, or an application with an agent or a server | EXTENDS `Config`, `AgentRun`, `Serve` |
| `ReasoningLoop_proofs`, `AgentBus_proofs`, `Topics_proofs`, `SledMemory_proofs`, `CronScheduler_proofs` | theorems about the module of that name | |
| `Supervisor_proofs` | theorems about `Supervisor` | EXTENDS `AgentBus_proofs` |
| `Serve_proofs` | theorems about `TriggerServer` and `Serve` | |
| `Roos_proofs` | theorems about `AgentRun`, `Config` and `Roos` | EXTENDS `ReasoningLoop_proofs` and `Serve_proofs` |
| `MC*` | small instances for TLC | |

How state and actions correspond to the code:

* **AgentBus.** `agents` is the registry; `permits`, `waiting`, `queue` are one mpsc channel;
  `reply[c]` is a oneshot channel; `pc[c]` says at which await a call is. `Lookup` is the
  read of the registry, `Send` the first poll of `tx.send(..).await` (a slot, or a place in
  line), `SendGranted` the poll after the slot came, `SendRefused` the closed channel,
  `Collect` the end of `reply_rx.await`, `Cancel` the drop of the future at each await.
  `held[ch]` are messages a worker has received and not let go of; `DropReceiver` drops the
  queue and every reply channel in it. The one worker per channel works on at most
  `Concurrency` messages at a time. `RoosAgentBus` is never dropped while used, so the
  registry keeps its senders. tokio's drop of a receiver is one atomic step.
* **Supervisor.** `phase`, `plan`, `at` are the locals of `run`. A text of the LLM is the
  position of its first `[` and last `]` and what lies between. `Delegates` says whom a
  supervisor working under a name assigns to. In the instance a supervisor may delegate to its
  own agent, and runs that wait for each other, or one that waits for itself, wait for ever
  (`InCircle`), a deadlock the code does nothing about. `ServiceAnswers` is the end of
  `provider.complete`, `RunStep` what a run does by itself.
* **ReasoningLoop.** `pc[r]` is the await. `Load`, `LoadFails`; `FinalAnswer`, `ToolUse`,
  `OutOfTokens`, `ProviderFails` by the response's stop reason; `RejectCall`, `ExecuteCall`,
  `ToolReturns` for one call of a batch; `BatchDone` for `tool_done().continue_reasoning()`
  and the top of the loop; `Save`, `SaveFails`. A message carries its role, the run that
  wrote it and a number. `limit` is `max_steps.unwrap_or(10)`. `asked`, `requested` and
  `executed` are history variables, as `id` and `limit` they decide nothing themselves.
* **SledMemory.** `Get`, `CheckLive`, `CheckExpired` are `load`; an append goes on with
  `Stamp` (`make_entry` reads the clock again) and `Insert`; `Clear`; `Fail` at any call. A
  deadline is a `u64` of `U64` values: past the last one it wraps, or, in a build that checks
  overflows (`Checked`), `make_entry` panics and the operation with it (`StampPanics`).
* **CronScheduler.** `Load`, `Compute`, `Save*` are the three moments of an operation; only
  `Compute` looks at the clock. `Poll` and `Read` are `due_tasks`, which reads the clock once
  and then task after task. The repository has no code that executes a due task yet, so the
  executor is external and follows the API's documentation: `update_state(Running)`, the
  work, then `reschedule` or `record_failure`. `failures`, `streak`, `notBefore`,
  `attempts`, `succeeded` are history variables. `update_state` is modelled with `Running`,
  its documented use. `Delay` is the back-off as the code computes it, in a `u64` of `U64`
  values whose product saturates, the exponent at most `MaxExponent`, cast to `i64`; `Panics` is
  the addition to `now` that has no date as its sum. `Wait` is the back-off that `RetryStrategy`
  documents. Times before the start of the clock are no dates of the model. A schedule may come
  to an end (`LastRun`): then `next_run` has no answer and neither has `NextRun`.
* **Topics.** `channel[t]` is the entry of the map, made by the first `subscribe`; `log` keeps
  every event of a channel, of which the last `TopicCapacity` can still be received. `Receive`
  is `Receiver::recv`, `Lagged(n)` included; `Unsubscribe` the drop of a receiver. `published`
  and `since` count the calls of `publish`; `publish` to nobody stores nothing.
* **Config.** `text` is the file, `rest` what is left of it, `out` what was written, `loaded`
  the stage or the result. `Expand` is one turn of the `while let`. What the TOML parser makes
  of the result is external: an error or a configuration of some provider type.
* **AgentRun.** A step of `ReasoningLoop` with its meaning: `Answer` takes what a service sent
  through `Response` and then one of `FinalAnswer`, `ToolUse`, `OutOfTokens`; `AnswerFails` has
  the status and its `ProviderError`; `AnswerPanics` is the overflow of the `u32` sum in a
  build that checks. `PostArrives` lets the request of an `http_post` act before its answer is
  there; `ToolEnds` ends any tool; `Drop` drops the run, but not within a tool that never
  awaits. `OwnStep` is what the process does by itself, `ServiceAnswers` the end of
  `provider.complete`. `calls`, `effects`, `billed` are history variables. A message carries what
  `ReasoningLoop` gives it, so `request` is the list as the loop passed it.
* **TriggerServer.** `phase[q]` is the await: the body, or the connection that takes the reply.
  `Arrive` is everything up to the body (`require_bearer`, the header check of
  `require_webhook_signature`, the content type if no middleware reads the body first),
  `BodyComes` the HMAC, the extractor and the handler, `BodyFails` a body that breaks off,
  `ClientLeaves` the drop of the future. A request's `run_id` is named after it.
* **Serve.** `main` is the line of `serve::run`, `shutdown` and `stop` the oneshot and the watch
  channel, `ticks` and `listener` the spawned tasks. `Listen` installs the signal handlers or
  panics; `Interrupt` and `HangUp` end a process that has no handler yet.
* **Roos.** `ConfigStep`, `ConfigRefused`, `ListStep`, `RunSetup`, `RunEnds`, `ServeOpens` are
  the commands' own steps around those modules, `AgentMoves` and `AgentAnswered` those of an
  agent's run; `NewStep` is one call of `scaffold`, each of
  which may fail and leave a file half written.

## The runs

| run | question and answer | instance |
|---|---|---|
| `bus_safety` | Does any call wait on nobody, is a slot lost, does `send` break its promise? No. | 4 calls, 2 names, 2 channels, queues of 2: two queued, one in hand, one blocked; a name may be replaced; calls symmetric |
| `bus_liveness` | Does every `send` return, does a replaced worker end? Yes, fairly. Is a slow subscriber told of all that it missed? Yes. | 3 calls, 1 name, 2 channels, queue of 1; 2 topics, 2 subscribers, 2 of 3 events kept; no symmetry |
| `bus_full_queue` | Does a full queue give `SendError`, as the comment says? No, the caller waits. | 1 channel |
| `supervisor` | In order, all or nothing? Yes. What can hold a run for ever, if the service answers? Only a circle of runs that wait for each other. | 2 runs of up to 2 subtasks, one possibly on behalf of the other or of itself; 2 names, queues of 1; a supervisor may delegate to its own agent, so that circles do close, and a run may also wait behind one |
| `supervisor_panic` | Does an LLM text make `run` panic? Yes: `]` well before `[`. | 1 run |
| `loop` | The seven properties of the loop. All hold. | 2 runs of one run_id; limits 0 and 2; batches of up to 2 for one run, empty ones for the other |
| `sled` | Are the separate tree calls as good as atomic operations, is a deadline always renewed, is only what expired evicted? Yes, for tasks on different run_ids. | 2 tasks, 2 run_ids, 2 operations each, TTL 1, clock 0..3, a `u64` of 4 whose overflow is checked |
| `sled_race` | Does a concurrent append survive? No. | 2 appends |
| `sled_evict` | Does a load evict only what has expired, where two tasks share a run_id? No, it may remove what the other has just stored. | 2 tasks, 1 run_id, stores and loads |
| `scheduler` | Is the retry policy exact, are one-shots done once, are due tasks picked up, does nothing but a fault, a crash or a panic strand a task? Yes, with one executor. | a cron task whose schedule ends at 3 and a one-shot, 2 retries, exponential delay, clock 1..4, dates up to 5 so that a late second retry has none, one fault or crash |
| `scheduler_streak` | Is `retry_count` the number of consecutive failures? No, a success does not reset it. | one cron task |
| `roos` | The twelve properties of a process: what it reads, what its agent does over the wire and to the world, whom its server serves, how it ends. All hold. | every command; file texts of up to 4 characters over `$ { } x` and longer ones with a second placeholder, values that look like placeholders; one agent run of 2 steps, batches of up to 2, three protocols, `u32` of 4; 2 requests of 14 shapes |

Why the bounds are enough: a queue of one or two fills up with three or four calls; two
channels allow one replacement; two runs are enough for every race of two, and the loop's
properties relate at most two runs; batches of two have a call after a rejected one; limit 0
and a limit met in the middle of tool use are the edges; the clock bounds let each deadline
and the longest back-off pass. `MaxBatch`, `MaxSubtasks`, `MaxNow`, `MaxOps`, `MaxFaults` are
bounds of the models, not of the code, as is `MaxPublish`. `CHECK_DEADLOCK` is off where a
bounded system ends.

For `roos`: texts of four characters hold an open, a closed and a nested placeholder with text
before or behind it, the longer ones a placeholder that fails after one that was replaced; with
`u32` of 4, two answers of 2 + 2 overflow and smaller ones do not; two requests are a trigger
and the look-up of its run_id, or a request in flight at a shutdown; the tools are one that acts
in one poll, one that starts a command, one that waits for the network, and one that is not
registered. The two halves of the bus share no state, so a behaviour of `MCRoosAgentBus`
exercises one of them; a process likewise runs one command.

## Fairness

* Bus: a woken task is polled again (tokio), so `Transmit` and `Collect` are weakly fair for
  every call. A worker keeps receiving and lets go of each message it received, by an answer
  or by dropping it: the duty `register` documents. Registering, cancelling and dropping a
  receiver early are never required; the end of the stream is, for `ReplacedWorkerEnds`.
* LLM services: every property that a run ends assumes that the service answers or fails. This
  is an assumption about the service, and nothing in the code makes it true: the clients are
  `reqwest::Client::new()` (`openai.rs:109`, `anthropic.rs:92`, `cohere.rs:108`), which has no
  request timeout, and neither the loop, nor the supervisor, nor the bus sets one. A silent
  service holds its run for ever, and the runs that wait for it. The assumption has a name of
  its own, apart from what the process does by itself: `ServiceFairness` in `Supervisor` and in
  `Roos`. `OnlyCirclesWait` and the `run` part of `CommandEnds` rest on it.
* Supervisor: a run's own steps are taken (`SupFairness`), workers as above.
* Loop: a step of the loop is taken; that provider, tools and memory, which are traits, answer
  is the same assumption, made of whoever implements them.
* Scheduler: the clock runs and threads run; faults and crashes are never required.
* Serve: the main task, the tick loop and the requests' tasks run, and a client sends its body
  and takes its answer or leaves: graceful shutdown waits for it without a limit. The stop of
  the tick loop is strongly fair: `select!` polls its branches in random order, and every
  second it meets both of them anew. Signals and connections are never required.
* Commands: a step of the process itself is taken (`CommandFairness`).

## What is proved

No theorem assumes a bound: the constants are any sets and numbers that satisfy the named
assumptions of the modules. Four hypotheses are stated with the theorems that need them:
`Exclusive` for the refinement of `MemoryService` and for `OnlyExpiredIsEvicted`; that `now` plus
the TTL fits into a `u64` for `WritesRenewTheDeadline` (`TTLFits`); at most one executor for the
scheduler; and for `RetriesWait` a delay of the policy that an `i64` holds (`BaseFits`). All are
needed: `sled_race` and `sled_evict` show the first, the others are explained below.

Each argument has the same shape. The property is not inductive, because it speaks of the end
of an operation whose steps interleave with others; an invariant says what holds at each of
those steps, and TLC agreed to it on the instances above before it was proved.

**`ReasoningLoop_proofs`.** `TypeCorrect` and `StepLimitHolds`: that `MaxStepsExceeded` comes
after exactly `max_steps` answers needs the `AgentState` to count the answers at every await of
the loop, and that a run in the loop has returned nothing yet (`Counting`).
`ContextStaysPrefix` is inductive next to that. `OneAnswerOfEachRun` needs a run about to store
its answer to have returned nothing, so that its answer is new to a finite set.
`OnlyValidCallsExecuted` accounts for the execution that a dropped run leaves without a record:
it needs that no calls are pending while the provider or the memory is asked, so that only a run
dropped within a tool can have one (`ExecutionsCounted`). `EveryCallIsObserved` speaks of the moment a batch is over; `Observed`
says in the middle of one that records and pending calls are together what was requested, and
that the tool messages are in the order of the records.

**`AgentBus_proofs`.** `TypeCorrect` and `NobodyStranded`: `NoCallStranded` is inductive but for
one step. `register` opens a channel, and then every call that sends on it would have to stand
in its line. `Known` says that no call does: every sender there is, in the registry, with a call
or in a line of waiting senders, belongs to a channel made before. `SlotsAlwaysAccounted`: a
freed slot goes to the call first in line, so that call must really wait, for this channel, and
stand there once (`LineOf`), or the slot is counted twice or lost; and a channel that nobody has
made has all its slots (`SlotsOf`). `BusImplementsService` is the refinement of `BusService`. A
step of a worker maps to `Accept` only if the message was not taken before and its caller still
waits or has cancelled; `Collect` maps to a return of Ok only if the task ran. `Fates` carries
this: a message is in one queue, once, unread, and an answer comes from a worker that took the
task.

**`Supervisor_proofs`.** `SupervisorUsesTheBus` (`SupSpec` implements the specification of the
bus): what is proved of the bus holds of the calls of supervisors, nested ones too.
`SubtasksInOrder` and `OkMeansThePlanWasDone`: neither follows from the run's own state, as both
speak of calls and of workers. `Places` ties the position of a run in its plan to where its
calls are: those before it are answered Ok, those behind it not begun, and a run that returned
has none under way. That an answer of Ok means that one worker did the work is the service the
bus implements. `SupTypeCorrect` includes the types of the bus.

**`Topics_proofs`.** `TopicsTypeCorrect` and `NoEventLostSilently`. The count of
`NothingLostSilently` needs all receivers of a topic to listen to the channel that the map holds
(`Wired`), events to be stored in the order of their numbers, none above the number of calls of
`publish` (`LogsOrdered`), and those ahead of a receiver to be newer than its subscription and
what it got (`Positioned`).

**`SledMemory_proofs`.** `TypeCorrect`; `WritesRenewTheDeadline`, an action property, for which
an entry about to be inserted must carry a deadline that its own operation computed
(`EntryOf`, `StampKeeps`), and which is false of a TTL near `u64::MAX` (see below), hence `TTLFits`; both
hold whether or not clients keep apart. `OnlyExpiredIsEvicted` and
`SledImplementsService`, while they do
(`Exclusive`): each operation takes effect at one of its steps, where `MemoryService` takes its
atomic one. `Fresh` says that what a client read is still in the tree when it acts on it, and
that a history an append found expired stays so while it goes on; `Apart` that no other client
can spoil it.

**`CronScheduler_proofs`.** `TypeCorrect`, `RetriesAreExact`, `RetriesWait`, `OneShotsRunOnce`
and `OnlyFaultsStrandTasks`. An operation holds a copy of the task between its load and its save and saves
it whole, so that `CronInv` follows each copy: it agrees with what happened to the task
(`TaskOK`) or is what is about to be saved (`FailedCopy`, `RescheduledCopy`). It agrees because
a task in the executor's list is still due or was removed, and the task it works on is `Running`
or was removed (`ExecOK`); the clock moves on, and the admin adds a task only once (`AdminOK`),
neither of which changes that. The hypothesis of one executor is what this rests on:
`due_tasks` claims nothing, two executors may begin one task, and the save of one overwrites the
failure that the other counted; TLC then finds `RetryBudget` violated.
`RetriesWait` speaks of the wait that the policy promises, and the code computes with 64 bits.
Neither the cap of the exponent, nor the saturated product, nor the cast shortens a wait
(`DelayIsWait`): the wait before it was half as long and could be added to a date, or the task
would not have come so far (`Counted`), and the dates end long before an `i64` does
(`WidthAssumption`). A delay that an `i64` does not hold is the exception: with `BaseDelay` =
`U64 - 1` TLC finds `BackoffRespected` violated, a retry being due one second before its failure.
That powers of two grow and double is shown by counting subsets.

**`Serve_proofs`.** `EntitlementHolds` and `AcceptedRunsAreFound`, an action property. A request
is checked when its head comes and served when its body has come: `BodiesAwaited` is what the
first check leaves for the second. `NotConfigured` says that nobody is served before token and
secret are set, `AcceptedRecorded` that no accepted run is missing. `ServeExitsGracefully`, from
`Orderly`, which says for each line of `serve::run` what has become of the other parties;
`ServeImplementsTriggerServer` (`ServeSpec => TriggerSpec`), each step of the serve process being
a step of the server or none for it; and `ServeFindsAcceptedRuns`, which follows from the two.

**`Roos_proofs`.** A process, whatever it was started as, is composed of the parts above, and the
first theorems say that the parts are still what they were: `RunsAreReasoningLoops`
(`RoosSpec => Spec` of the loop) and `ProcessesAreServers` (`RoosSpec => TriggerSpec`). By them
the theorems about loops and servers hold of every process: `ProcessServesTheEntitled`,
`ProcessFindsAcceptedRuns`, and with the lines of `serve::run`, `ProcessExitsGracefully`.
On top of the loop's invariant, with the provider and tools of the process (`Setting`), rest

* `EveryWireCallAnswered`: `Called` relates the calls of all answers to the records and the calls
  pending, one by one, so that what runs is what came over the wire;
* `TokensAreAccounted`: `TokensCounted` keeps reported and billed tokens together up to the
  answers whose usage is not read;
* `ContextOnlyGrows`: each request of a run repeats the one before it and goes on from there
  (`Requests`: the last request is what the provider makes of a prefix of the messages);
* `EffectsAreAudited`: `Effects` says which calls have acted, that they did so in order and once,
  and that one without a record is an `http_post` under way or dropped;
* `OkIsTrue`: `Project` follows the parts of a new project, `Failed` and `Exited` what a run's
  failure and a command's exit say about each other;
* `ErrorsPointIntoTheFile`: what is left to be read is always the end of the file (`Reading`), so
  a position computed from its length is a position in the file, however long the values were
  that were put in before it;
* `PlaceholdersAreExpanded`: the loop searches and skips, the reference definition (`Meaning`)
  reads character by character and is recursive. `Expanding` says that what was written, put
  before what the definition makes of the rest, is what it makes of the whole file.
  That there is such a function (`MeaningsUnfold`) and that it passes over a text without
  placeholders unchanged (`MeaningSkips`) are inductions over the length of the text, carried out
  as the search for a least counterexample (`NoLeastOne`).

The assumptions on constants say what the code's types give: the numbers are natural, capacities
are not zero (32 and 16 in `bus.rs`), the calls and subscribers
are finite sets, texts are sequences of characters (`FileTextsAssumption`), and so are the
values of environment variables (`EnvironmentAssumption`), a delay is a `u64` and dates end long
before an `i64` does, the clock before them (`WidthAssumption` of `CronScheduler`), the clock and
the TTL are `u64` (that of `SledMemory`), an answer has counts
and calls of the right types and at most `MaxBatch` calls (`WireAnswersAssumption`), an
application registers providers and tools that exist (`AgentProvidersAssumption`,
`AgentToolsAssumption`), a plan names workers by names of the bus (`AssignableAssumption`),
`roos run` runs one agent (`OneRunAssumption`). TLC evaluates all of them.

Only model-checked: all liveness, `EverySendReturns`, `ReplacedWorkerEnds`,
`OnlyCirclesWait`, `EveryRunReturns`, `DueTaskPickedUp`, `ShutdownCompletes`,
`CommandEnds`, as TLAPS does not reason about fairness with ENABLED here. Every invariant and
every action property of a passing run is proved.

## Where code and documents disagree

1. `bus.rs:34` says a full queue is `SendError`; `send` waits (`bus_full_queue`).
2. `error.rs:6` says no public API path panics; `parse_subtasks` slices with start beyond end
   when the last `]` is more than one byte before the first `[` (`supervisor_panic`).
3. `roos_srs.md:666` asks for concurrent access; `SledMemory::append` loses one of two
   concurrent appends (`sled_race`).
4. `task.rs:62` calls `retry_count` consecutive; `reschedule` does not reset it
   (`scheduler_streak`).
5. `roos_srs.md:666` again: a `SledMemory::load` that found an entry expired removes whatever is
   there by then, a fresh entry of another task included (`sled_evict`).

Not checked by a run of its own, but met on the way:

* `memory.rs:44` calls the stored history the full one; the loop stores answers only, neither the
  user's input nor the observations. `OneAnswerPerRun` says that exactly: what the runs of one
  run_id leave is one answer each.
* `sled_store.rs:51` promises a TTL for all entries stored after it; `sled_store.rs:64` adds it
  to the time in `u64` without a check. `with_ttl(u64::MAX)`, say for "never", wraps in a
  release build, and an entry has expired as soon as it is stored; a debug build panics.
  `Cargo.toml` sets no profile, so that both are what the build gives. With `TTL` = `U64 - 1` and
  `Checked` = `FALSE` in `MCSledMemory.cfg` TLC finds `WriteRenewsDeadline` violated.
* `roos_srs.md` names a default of 20 steps, the loop takes 10. `roos run` ignores `max_steps`
  and `temperature` of its configuration.
* Two executors that poll at once both run a task, since `due_tasks` claims nothing; a task left
  `Running` by a crash is never due again. `roos serve` only logs due tasks.
* `record_failure` casts its delay to `i64`: `u64::MAX` seconds, say for "never again", are -1
  second, and the retry is due at once; one beyond the range of a date panics, and leaves the
  task `Running`. `task.rs:26` says each retry doubles the previous wait. It takes a policy of
  absurd delays; `CronScheduler` with `BaseDelay` = `U64 - 1` shows the first.
* `retry_count += 1` overflows when `max_retries` is `u32::MAX` and all of them failed.
* `ProviderError::Unauthorized` is documented for 401 and 403; a 403 becomes `InvalidResponse`.
* An OpenAI answer without choices drops the usage it reports; the sum of an answer's tokens is
  computed in `u32`, which wraps or, in a debug build, panics.
* SIGHUP is logged as "reloading configuration", and nothing is reloaded. A second SIGINT or
  SIGTERM has no effect while the server drains, since the handlers outlive the signal task, and
  the drain has no time limit.
* A record of `/trigger` stays "pending": nothing runs the agent, and any agent name is taken.
* `roos new` leaves a partial project behind when a call fails, which a second try then refuses;
  `exists` and `create_dir_all` are two calls.

## Not modelled, and the plan

Left out for good: prompts and other texts, durations, HTTP and JSON encodings, macros, logging,
the facade crate (they keep no state, and no property tells their results apart); what files,
commands and pages contain; Sled's durability; races inside tokio; signals while the
configuration is read, before the process has anything to lose.

Planned:

1. `ReasoningLoop` over `SledMemory` instead of an atomic memory; its proof from
   `SledImplementsService` and the theorems of the loop.
2. `add_*` and `remove_task` of the scheduler against its readers, with several executors.
