--------------------------- MODULE CronScheduler ---------------------------
(***************************************************************************)
(* roos-scheduler/src/scheduler.rs: tasks kept in a Sled tree.  A call to  *)
(* the tree is atomic; record_failure, update_state and reschedule load a  *)
(* task, look at the clock to compute a new one and save it whole, and     *)
(* other threads and the clock move in between.                            *)
(*                                                                         *)
(* The repository polls due_tasks (roos-cli/src/cmd/serve.rs) but has no   *)
(* code yet that executes a task: an executor here is a thread that uses   *)
(* the API the way its documentation describes, update_state(Running),     *)
(* the work, then reschedule or record_failure.  The admin adds and        *)
(* removes tasks.                                                          *)
(***************************************************************************)
EXTENDS Integers, FiniteSets

CONSTANTS
    Tasks,          \* task ids
    OneShots,       \* the tasks of kind OneShot; the others are Cron tasks
    Executors,      \* threads that execute due tasks
    Admin,          \* the thread that adds and removes
    MaxRetries,     \* RetryPolicy::max_retries
    BaseDelay,      \* RetryPolicy::retry_delay_seconds, a u64
    Exponential,    \* RetryPolicy::strategy
    Period,         \* a cron expression: every Period seconds
    LastRun,        \* until this date; cron expressions may name years
    U64,            \* how many values a u64 has: 2 ^ 64
    MaxExponent,    \* the largest exponent of a back-off: 62
    MaxTime,        \* the last second that a date has, some 2 ^ 43
    MaxNow,         \* bound on the clock
    MaxFaults       \* bound on backend errors and crashes of executors

ASSUME AdminAssumption == Admin \notin Executors
ASSUME OneShotsAssumption == OneShots \subseteq Tasks
ASSUME NumbersAssumption ==
    {MaxRetries, MaxFaults} \subseteq Nat /\ {MaxNow, Period} \subseteq Nat \ {0}
ASSUME WidthAssumption ==
    /\ {U64, MaxExponent, MaxTime} \subseteq Nat /\ BaseDelay \in 0 .. U64 - 1
    /\ 2 * MaxTime < U64 \div 2 /\ MaxTime < 2 ^ MaxExponent
    /\ MaxNow <= MaxTime /\ LastRun \in 0 .. MaxTime
ASSUME StrategyAssumption == Exponential \in BOOLEAN

Threads == Executors \cup {Admin}

VARIABLES
    db,         \* db[id]: the task stored under id, or NoTask
    now,        \* Utc::now()
    added,      \* the tasks the admin has added
    pc,         \* pc[t]: what thread t does next
    op,         \* op[t]: the operation t executes
    copy,       \* copy[t]: the task that t loaded, or is about to save
    stamp,      \* stamp[t]: Utc::now() when t computed it
    answer,     \* answer[t]: what the last operation of t returned
    stage,      \* stage[e]: what executor e is doing
    polled,     \* polled[e]: `now` of its last due_tasks
    unread,     \* unread[e]: tasks that due_tasks has still to read
    due,        \* due[e]: due tasks that e has still to execute
    job,        \* job[e]: the task that e executes
    faults,     \* backend errors and crashes so far
    failures,   \* failures[id]: failures recorded in all
    streak,     \* streak[id]: failures recorded since the last success
    notBefore,  \* notBefore[id]: when the back-off of the last failure ends
    attempts,   \* attempts[id]: how often the work was begun
    succeeded   \* the one-shot tasks whose work was done once

threadVars == <<pc, op, copy, stamp, answer>>
executorVars == <<stage, polled, unread, due, job>>
ghosts == <<failures, streak, notBefore, attempts, succeeded>>
vars == <<db, now, added, threadVars, executorVars, faults, ghosts>>

TaskStates == {"Pending", "Running", "Completed", "Failed"}

\* The seconds of a date; the clock starts at 1, and NoTime is None.
Dates == 1 .. MaxTime
NoTime == 0
Times == Dates \cup {NoTime}

NoTask == [state |-> "none", last |-> NoTime, next |-> NoTime, retries |-> 0]
NewTask(at) == [state |-> "Pending", last |-> NoTime, next |-> at, retries |-> 0]

NoJob == "no job"
NoOp == [kind |-> "none"]
Op(kind, id) == [kind |-> kind, id |-> id]

Stages == {"idle", "polling", "starting", "working", "finishing"}

TypeOK ==
    /\ \A id \in Tasks :
          /\ db[id].state \in TaskStates \cup {"none"}
          /\ db[id].last \in 0 .. now /\ db[id].next \in Times
          /\ db[id].retries \in 0 .. MaxRetries + 1
          /\ db[id].state = "Failed" =>
                db[id].next = NoTime /\ db[id].retries = MaxRetries + 1
          /\ id \notin added => db[id] = NoTask
    /\ now \in 1 .. MaxNow
    /\ \A t \in Threads :
          /\ pc[t] \in {"idle", "loading", "computing", "saving", "removing"}
          /\ stamp[t] \in 0 .. now
    /\ \A e \in Executors :
          /\ stage[e] \in Stages
          /\ unread[e] \cup due[e] \subseteq Tasks
          /\ stage[e] \in {"working", "finishing"} => job[e] \in added
    /\ faults \in 0 .. MaxFaults

Init ==
    /\ db = [id \in Tasks |-> NoTask]
    /\ now = 1
    /\ added = {}
    /\ pc = [t \in Threads |-> "idle"]
    /\ op = [t \in Threads |-> NoOp]
    /\ copy = [t \in Threads |-> NoTask]
    /\ stamp = [t \in Threads |-> NoTime]
    /\ answer = [t \in Threads |-> "none"]
    /\ stage = [e \in Executors |-> "idle"]
    /\ polled = [e \in Executors |-> NoTime]
    /\ unread = [e \in Executors |-> {}]
    /\ due = [e \in Executors |-> {}]
    /\ job = [e \in Executors |-> NoJob]
    /\ faults = 0
    /\ failures = [id \in Tasks |-> 0]
    /\ streak = [id \in Tasks |-> 0]
    /\ notBefore = [id \in Tasks |-> NoTime]
    /\ attempts = [id \in Tasks |-> 0]
    /\ succeeded = {}

-----------------------------------------------------------------------------
(* What the operations do to a task *)

\* next_run: the first occurrence of the schedule after now, None when there is none left.
\* The task is then saved Pending and never due again.
Upcoming == ((now \div Period) + 1) * Period
NextRun == IF Upcoming <= LastRun THEN Upcoming ELSE NoTime

\* The wait before retry k: computed as a u64, the exponent capped and the product
\* saturated, then taken `as i64`.
Exponent(k) == IF k - 1 < MaxExponent THEN k - 1 ELSE MaxExponent
Saturated(n) == IF n < U64 THEN n ELSE U64 - 1
AsI64(n) == IF n < U64 \div 2 THEN n ELSE n - U64

DelayFixed(k) == AsI64(BaseDelay)
Delay(k) == AsI64(IF Exponential THEN Saturated(BaseDelay * 2 ^ Exponent(k)) ELSE BaseDelay)

\* The wait that the policy promises before it.
Wait(k) == IF Exponential THEN BaseDelay * 2 ^ (k - 1) ELSE BaseDelay

RetriesOneLess(k) == k < MaxRetries
Retries(k) == k <= MaxRetries

GivenUpKeepsNextRun(task, k) == [task EXCEPT !.retries = k, !.state = "Failed"]

GivenUp(task, k) == [task EXCEPT !.retries = k, !.next = NoTime, !.state = "Failed"]

Failed(task) ==
    LET k == task.retries + 1
    IN  IF Retries(k)
        THEN [task EXCEPT !.retries = k, !.next = now + Delay(k), !.state = "Pending"]
        ELSE GivenUp(task, k)

\* There is no date so far away: now + Duration::seconds(..) panics, nothing is saved.
Unreachable(task) == Retries(task.retries + 1) /\ now + Delay(task.retries + 1) \notin Dates

\* update_state(id, Running)
Started(task) == [task EXCEPT !.state = "Running", !.last = now]

RescheduledStillRunning(id, task) ==
    IF id \in OneShots THEN [task EXCEPT !.state = "Completed", !.next = NoTime]
    ELSE [task EXCEPT !.next = NextRun]

RescheduledOneShotToo(id, task) == [task EXCEPT !.state = "Pending", !.next = NextRun]

Rescheduled(id, task) ==
    IF id \in OneShots THEN [task EXCEPT !.state = "Completed", !.next = NoTime]
    ELSE [task EXCEPT !.state = "Pending", !.next = NextRun]

\* The filter of due_tasks.
DueFilterFirstRunOnly(task, t) ==
    task.state = "Pending" /\ task.last = NoTime /\ task.next # NoTime /\ task.next <= t

DueFilter(task, t) == task.state = "Pending" /\ task.next # NoTime /\ task.next <= t

-----------------------------------------------------------------------------
(* The operations, one tree call at a time *)

Begin(t, o, where) ==
    /\ op' = [op EXCEPT ![t] = o]
    /\ pc' = [pc EXCEPT ![t] = where]
    /\ answer' = [answer EXCEPT ![t] = "none"]
    /\ UNCHANGED <<copy, stamp>>

Return(t, result) ==
    /\ pc' = [pc EXCEPT ![t] = "idle"]
    /\ op' = [op EXCEPT ![t] = NoOp]
    /\ answer' = [answer EXCEPT ![t] = result]
    /\ copy' = [copy EXCEPT ![t] = NoTask]
    /\ stamp' = [stamp EXCEPT ![t] = NoTime]

Load(t) ==
    /\ pc[t] = "loading"
    /\ IF db[op[t].id] = NoTask
       THEN Return(t, "TaskNotFound")
       ELSE /\ copy' = [copy EXCEPT ![t] = db[op[t].id]]
            /\ pc' = [pc EXCEPT ![t] = "computing"]
            /\ UNCHANGED <<op, stamp, answer>>
    /\ UNCHANGED <<db, now, added, executorVars, faults, ghosts>>

\* What each operation makes of the task; a new one-shot runs at any time.
Computed(t) ==
    LET o == op[t]
    IN  CASE o.kind = "add" ->
               IF o.id \in OneShots THEN {NewTask(at) : at \in 1 .. MaxNow}
               ELSE {NewTask(NextRun)}
          [] o.kind = "record_failure" -> {Failed(copy[t])}
          [] o.kind = "update_state" -> {Started(copy[t])}
          [] o.kind = "reschedule" -> {Rescheduled(o.id, copy[t])}

Panicking(t) ==
    pc[t] = "computing" /\ op[t].kind = "record_failure" /\ Unreachable(copy[t])

Compute(t) ==
    /\ pc[t] = "computing" /\ ~ Panicking(t)
    /\ \E task \in Computed(t) : copy' = [copy EXCEPT ![t] = task]
    /\ stamp' = [stamp EXCEPT ![t] = now]
    /\ pc' = [pc EXCEPT ![t] = "saving"]
    /\ UNCHANGED <<db, now, added, op, answer, executorVars, faults, ghosts>>

Save(t, kind) ==
    /\ pc[t] = "saving" /\ op[t].kind = kind
    /\ db' = [db EXCEPT ![op[t].id] = copy[t]]
    /\ Return(t, "Ok")
    /\ UNCHANGED <<now, executorVars, faults, attempts>>

\* add_task_with_retry, add_one_shot_with_retry
SaveNew(t) ==
    /\ Save(t, "add")
    /\ added' = added \cup {op[t].id}
    /\ UNCHANGED <<failures, streak, notBefore, succeeded>>

SaveFailure(t) ==
    /\ Save(t, "record_failure")
    /\ LET id == op[t].id
       IN  /\ failures' = [failures EXCEPT ![id] = @ + 1]
           /\ streak' = [streak EXCEPT ![id] = @ + 1]
           /\ notBefore' = [notBefore EXCEPT ![id] = stamp[t] + Wait(failures[id] + 1)]
    /\ UNCHANGED <<added, succeeded>>

SaveStarted(t) ==
    /\ Save(t, "update_state")
    /\ UNCHANGED <<added, failures, streak, notBefore, succeeded>>

SaveRescheduled(t) ==
    /\ Save(t, "reschedule")
    /\ LET id == op[t].id
       IN  /\ streak' = [streak EXCEPT ![id] = 0]
           /\ notBefore' = [notBefore EXCEPT ![id] = NoTime]
           /\ succeeded' = succeeded \cup ({id} \cap OneShots)
    /\ UNCHANGED <<added, failures>>

\* remove_task
Remove(t) ==
    /\ pc[t] = "removing"
    /\ db' = [db EXCEPT ![op[t].id] = NoTask]
    /\ Return(t, "Ok")
    /\ UNCHANGED <<now, added, executorVars, faults, ghosts>>

\* A tree call fails; the operation returns BackendError.
BackendFails(t) ==
    /\ pc[t] # "idle"
    /\ faults < MaxFaults
    /\ faults' = faults + 1
    /\ Return(t, "BackendError")
    /\ UNCHANGED <<db, now, added, executorVars, ghosts>>

Tick ==
    /\ now < MaxNow
    /\ now' = now + 1
    /\ UNCHANGED <<db, added, threadVars, executorVars, faults, ghosts>>

AdminBegins ==
    /\ pc[Admin] = "idle"
    /\ \E id \in Tasks :
          \/ id \notin added /\ Begin(Admin, Op("add", id), "computing")
          \/ db[id] # NoTask /\ Begin(Admin, Op("remove", id), "removing")
    /\ UNCHANGED <<db, now, added, executorVars, faults, ghosts>>

-----------------------------------------------------------------------------
(* An executor *)

\* due_tasks: read the clock, then every task of the tree.
Poll(e) ==
    /\ stage[e] = "idle"
    /\ stage' = [stage EXCEPT ![e] = "polling"]
    /\ polled' = [polled EXCEPT ![e] = now]
    /\ unread' = [unread EXCEPT ![e] = Tasks]
    /\ UNCHANGED <<db, now, added, threadVars, due, job, faults, ghosts>>

Read(e, id) ==
    /\ id \in unread[e]
    /\ unread' = [unread EXCEPT ![e] = @ \ {id}]
    /\ due' = [due EXCEPT ![e] = IF DueFilter(db[id], polled[e]) THEN @ \cup {id} ELSE @]
    /\ UNCHANGED <<db, now, added, threadVars, stage, polled, job, faults, ghosts>>

\* Take the next task of the list and mark it Running.
Pick(e, id) ==
    /\ stage[e] = "polling" /\ unread[e] = {}
    /\ id \in due[e]
    /\ due' = [due EXCEPT ![e] = @ \ {id}]
    /\ job' = [job EXCEPT ![e] = id]
    /\ stage' = [stage EXCEPT ![e] = "starting"]
    /\ Begin(e, Op("update_state", id), "loading")
    /\ UNCHANGED <<db, now, added, polled, unread, faults, ghosts>>

\* update_state has returned: begin the work, or leave a task that could not be marked.
Work(e) ==
    /\ stage[e] = "starting" /\ pc[e] = "idle"
    /\ IF answer[e] = "Ok"
       THEN /\ stage' = [stage EXCEPT ![e] = "working"]
            /\ attempts' = [attempts EXCEPT ![job[e]] = @ + 1]
       ELSE /\ stage' = [stage EXCEPT ![e] = "polling"]
            /\ UNCHANGED attempts
    /\ UNCHANGED <<db, now, added, threadVars, polled, unread, due, job, faults,
                   failures, streak, notBefore, succeeded>>

\* The work is done or has failed; the executor records which.
WorkEnds(e) ==
    /\ stage[e] = "working"
    /\ stage' = [stage EXCEPT ![e] = "finishing"]
    /\ \E kind \in {"reschedule", "record_failure"} :
          Begin(e, Op(kind, job[e]), "loading")
    /\ UNCHANGED <<db, now, added, polled, unread, due, job, faults, ghosts>>

JobOver(e) ==
    /\ stage[e] = "finishing" /\ pc[e] = "idle"
    /\ stage' = [stage EXCEPT ![e] = "polling"]
    /\ job' = [job EXCEPT ![e] = NoJob]
    /\ UNCHANGED <<db, now, added, threadVars, polled, unread, due, faults, ghosts>>

ListOver(e) ==
    /\ stage[e] = "polling" /\ unread[e] = {} /\ due[e] = {}
    /\ stage' = [stage EXCEPT ![e] = "idle"]
    /\ polled' = [polled EXCEPT ![e] = NoTime]
    /\ UNCHANGED <<db, now, added, threadVars, unread, due, job, faults, ghosts>>

\* e dies and starts again: what is in the tree stays.
Dies(e) ==
    /\ stage' = [stage EXCEPT ![e] = "idle"]
    /\ unread' = [unread EXCEPT ![e] = {}]
    /\ due' = [due EXCEPT ![e] = {}]
    /\ job' = [job EXCEPT ![e] = NoJob]
    /\ polled' = [polled EXCEPT ![e] = NoTime]
    /\ Return(e, "none")
    /\ UNCHANGED <<db, now, added, ghosts>>

Crash(e) ==
    /\ stage[e] # "idle"
    /\ faults < MaxFaults
    /\ faults' = faults + 1
    /\ Dies(e)

Panics(e) ==
    /\ Panicking(e)
    /\ Dies(e)
    /\ UNCHANGED faults

-----------------------------------------------------------------------------

OpStep(t) ==
    \/ Load(t) \/ Compute(t)
    \/ SaveNew(t) \/ SaveFailure(t) \/ SaveStarted(t) \/ SaveRescheduled(t)
    \/ Remove(t)

ExecutorStep(e) ==
    \/ Poll(e)
    \/ \E id \in Tasks : Read(e, id) \/ Pick(e, id)
    \/ Work(e) \/ WorkEnds(e) \/ JobOver(e) \/ ListOver(e)
    \/ Panics(e)

Next ==
    \/ Tick
    \/ AdminBegins
    \/ \E t \in Threads : OpStep(t) \/ BackendFails(t)
    \/ \E e \in Executors : ExecutorStep(e) \/ Crash(e)

Spec == Init /\ [][Next]_vars

\* The clock runs, threads run, an executor works through its list.
FairSpec ==
    /\ Spec
    /\ WF_vars(Tick)
    /\ \A t \in Threads : WF_vars(OpStep(t))
    /\ \A e \in Executors : WF_vars(ExecutorStep(e))

-----------------------------------------------------------------------------
(* Properties *)

\* The retry policy is exact (scheduler.rs:130-157): a task is given up at failure
\* MaxRetries + 1 and at no other, and a one-shot is never worked on more often.
RetryBudget ==
    \A id \in Tasks :
        /\ failures[id] <= MaxRetries + 1
        /\ db[id] # NoTask => db[id].retries = failures[id]
        /\ db[id].state = "Failed" <=> db[id] # NoTask /\ failures[id] = MaxRetries + 1
        /\ id \in OneShots => attempts[id] <= MaxRetries + 1

\* A retry waits out its back-off (task.rs:25-27, scheduler.rs:135-142).
BackoffRespected ==
    [][\A id \in Tasks : attempts'[id] > attempts[id] => now >= notBefore[id]]_vars

\* A one-shot task whose work was done is not worked on again (task.rs:9-10,
\* scheduler.rs:201-204), though due_tasks claims nothing; with one executor.
OneShotDoneOnce ==
    [][\A id \in succeeded : attempts'[id] = attempts[id]]_vars

\* A task that is due does not stay so: the executor gets to it, however many other
\* tasks are due and whatever faults there were.
IsDue(task, t) == task.state = "Pending" /\ task.next \in 1 .. t

DueTaskPickedUp ==
    \A id \in Tasks : IsDue(db[id], now) ~> ~ IsDue(db[id], now)

\* What leaves a task Running with nobody at work on it, where due_tasks never finds it
\* again and no operation resets it (scheduler.rs:172-189), is a crash, a failed call to
\* the tree or the panic of record_failure; nothing else does.
AtWorkOn(e, id) ==
    /\ job[e] = id
    /\ \/ stage[e] \in {"starting", "working"}
       \/ stage[e] = "finishing" /\ pc[e] # "idle"
Stranded(id) == db[id].state = "Running" /\ \A e \in Executors : ~ AtWorkOn(e, id)

OnlyFaultsStrand ==
    [][\A id \in Tasks :
          Stranded(id)' /\ ~ Stranded(id) =>
              faults' > faults \/ \E e \in Executors : Panics(e)]_vars

\* task.rs:62: retry_count is the "Number of consecutive failures recorded so far."
ConsecutiveFailures ==
    \A id \in Tasks : db[id] # NoTask => db[id].retries = streak[id]

=============================================================================
