------------------------ MODULE CronScheduler_proofs ------------------------
(***************************************************************************)
(* CronScheduler for any tasks, retry policy, clock and number of faults,  *)
(* and at most one executor (a hypothesis of the theorems: due_tasks       *)
(* claims nothing, so with two executors a task can be worked on twice and *)
(* the record of one overwrite that of the other).                         *)
(*                                                                         *)
(* RetryBudget is not inductive: an operation holds a copy of the task     *)
(* between its load and its save, and saves it whole.  CronInv says that   *)
(* the copy still agrees with what happened to the task (TaskOK), because  *)
(* a task in the list of the executor is still due or was removed, and the *)
(* task it works on is Running or was removed (ExecOK): the clock and the  *)
(* admin, who adds each task once (AdminOK), change nothing about that.    *)
(* A back-off is computed in a u64 whose product saturates, and cast to an *)
(* i64.  That this shortens no wait (DelayIsWait) rests on the wait before *)
(* it, half as long, which a date could hold, or the task would not have   *)
(* come so far (Counted).  That powers grow and double is shown by         *)
(* counting subsets.                                                       *)
(***************************************************************************)
EXTENDS CronScheduler, FiniteSetTheorems, TLAPS

-----------------------------------------------------------------------------
(* Powers of two, delays and times *)

\* 2 ^ n is the number of subsets of 1 .. n.
LEMMA PowerIsCardinality ==
    ASSUME NEW n \in Nat
    PROVE  /\ IsFiniteSet(SUBSET (1 .. n)) /\ Cardinality(SUBSET (1 .. n)) = 2 ^ n
           /\ 2 ^ n \in Nat
<1>1. IsFiniteSet(1 .. n) /\ Cardinality(1 .. n) = n
  BY FS_Interval
<1>2. IsFiniteSet(SUBSET (1 .. n)) /\ Cardinality(SUBSET (1 .. n)) = 2 ^ n
  BY <1>1, FS_SUBSET, Zenon
<1>3. Cardinality(SUBSET (1 .. n)) \in Nat
  BY <1>2, FS_CardinalityType, Zenon
<1> QED
  BY <1>2, <1>3, Zenon

LEMMA PowersGrow ==
    ASSUME NEW m \in Nat, NEW n \in Nat, m <= n PROVE 2 ^ m <= 2 ^ n
<1>1. SUBSET (1 .. m) \subseteq SUBSET (1 .. n)
  OBVIOUS
<1>2. Cardinality(SUBSET (1 .. m)) <= Cardinality(SUBSET (1 .. n))
  BY <1>1, PowerIsCardinality, FS_Subset, Zenon
<1>3. /\ Cardinality(SUBSET (1 .. m)) = 2 ^ m
      /\ Cardinality(SUBSET (1 .. n)) = 2 ^ n
  BY PowerIsCardinality, Zenon
<1> QED
  BY <1>2, <1>3, Zenon

LEMMA PowerOfZero == 2 ^ 0 = 1
  OBVIOUS

LEMMA PowersDouble == ASSUME NEW n \in Nat PROVE 2 ^ (n + 1) = 2 * 2 ^ n
<1> DEFINE S == SUBSET (1 .. n)
<1> DEFINE T == {A \cup {n + 1} : A \in S}
<1> DEFINE f == [A \in S |-> A \cup {n + 1}]
<1>1. IsFiniteSet(S) /\ Cardinality(S) = 2 ^ n /\ 2 ^ n \in Nat
  BY PowerIsCardinality
<1>2. Cardinality(SUBSET (1 .. n + 1)) = 2 ^ (n + 1)
  BY PowerIsCardinality
<1>3. SUBSET (1 .. n + 1) = S \cup T
  <2>1. ASSUME NEW B \in SUBSET (1 .. n + 1) PROVE B \in S \cup T
    <3>1. CASE n + 1 \in B
      <4>1. B \ {n + 1} \in S /\ B = (B \ {n + 1}) \cup {n + 1}
        BY <3>1
      <4> QED
        BY <4>1
    <3>2. CASE n + 1 \notin B
      BY <3>2
    <3> QED
      BY <3>1, <3>2
  <2>2. ASSUME NEW A \in S PROVE A \in SUBSET (1 .. n + 1) /\ A \cup {n + 1} \in SUBSET (1 .. n + 1)
    <3>1. \A i \in 1 .. n : i \in 1 .. n + 1
      OBVIOUS
    <3>2. n + 1 \in 1 .. n + 1
      OBVIOUS
    <3> QED
      BY <3>1, <3>2
  <2>3. \A B \in S \cup T : B \in SUBSET (1 .. n + 1)
    <3> HIDE DEF S
    <3> QED
      BY <2>2
  <2> HIDE DEF S, T
  <2> QED
    BY <2>1, <2>3
<1>4. S \cap T = {}
  <2>1. \A A \in S : n + 1 \notin A
    OBVIOUS
  <2> QED
    BY <2>1
<1>5. ExistsBijection(S, T)
  <2>1. \A A, B \in S : f[A] = f[B] => A = B
    <3> SUFFICES ASSUME NEW A \in S, NEW B \in S, A \cup {n + 1} = B \cup {n + 1} PROVE A = B
      OBVIOUS
    <3>1. n + 1 \notin A /\ n + 1 \notin B
      OBVIOUS
    <3> QED
      BY <3>1
  <2>2. f \in [S -> T] /\ \A B \in T : \E A \in S : f[A] = B
    <3> HIDE DEF S
    <3> QED
      OBVIOUS
  <2> HIDE DEF S, T, f
  <2>3. f \in Injection(S, T)
    BY <2>1, <2>2 DEF Injection, IsInjective
  <2>4. f \in Surjection(S, T)
    BY <2>2 DEF Surjection
  <2> QED
    BY <2>3, <2>4 DEF ExistsBijection, Bijection
<1> HIDE DEF S, T, f
<1>6. IsFiniteSet(T) /\ Cardinality(T) = 2 ^ n
  BY <1>1, <1>5, FS_Bijection
<1>7. Cardinality(S \cup T) = Cardinality(S) + Cardinality(T) - Cardinality({})
  BY <1>1, <1>4, <1>6, FS_Union
<1>8. Cardinality({}) = 0
  BY FS_EmptySet
<1> DEFINE x == 2 ^ n
<1>9. x \in Nat /\ 2 ^ (n + 1) = x + x - 0
  BY <1>1, <1>2, <1>3, <1>6, <1>7, <1>8, Zenon DEF S
<1> HIDE DEF x
<1>10. 2 ^ (n + 1) = 2 * x
  BY <1>9
<1> QED
  BY <1>10 DEF x

\* An i64 can hold the delay of the policy.
BaseFits == BaseDelay < U64 \div 2

LEMMA Widths ==
    /\ {MaxRetries, MaxTime, MaxExponent, BaseDelay, U64, U64 \div 2, MaxFaults} \subseteq Nat
    /\ BaseDelay < U64 /\ U64 \div 2 <= U64 /\ 2 * MaxTime < U64 \div 2
    /\ MaxTime < 2 ^ MaxExponent /\ MaxNow <= MaxTime /\ LastRun \in 0 .. MaxTime
    /\ {MaxNow, Period} \subseteq Nat \ {0}
  BY NumbersAssumption, WidthAssumption

LEMMA WaitIsNat == ASSUME NEW k \in Nat \ {0} PROVE Wait(k) \in Nat
<1>1. k - 1 \in Nat /\ BaseDelay \in Nat
  BY Widths
<1>2. 2 ^ (k - 1) \in Nat
  BY <1>1, PowerIsCardinality
<1>3. BaseDelay * 2 ^ (k - 1) \in Nat
  BY <1>1, <1>2
<1> QED
  BY <1>1, <1>3 DEF Wait

\* Neither the cap of the exponent, nor saturation, nor `as i64` changes a wait that is at
\* most twice one that a date could hold: the ones before it were computed and saved.
LEMMA DelayIsWait ==
    ASSUME BaseFits, NEW k \in Nat \ {0}, k > 1 => Wait(k - 1) <= MaxTime
    PROVE  Delay(k) = Wait(k)
<1> DEFINE h == U64 \div 2
<1>1. /\ MaxTime \in Nat /\ MaxExponent \in Nat /\ U64 \in Nat /\ h \in Nat
      /\ h <= U64 /\ 2 * MaxTime < h /\ BaseDelay \in Nat /\ BaseDelay < h
  BY Widths DEF BaseFits
<1>1a. MaxTime < 2 ^ MaxExponent
  BY Widths
<1>2. \A n \in Nat : n < h => Saturated(n) = n /\ AsI64(n) = n
  <2> SUFFICES ASSUME NEW n \in Nat, n < h PROVE Saturated(n) = n /\ AsI64(n) = n
    OBVIOUS
  <2> HIDE DEF h
  <2>1. n < U64
    BY <1>1
  <2> QED
    BY <2>1 DEF Saturated, AsI64, h
<1> HIDE DEF h
<1>3. CASE ~ Exponential
  BY <1>1, <1>2, <1>3 DEF Delay, Wait
<1>4. CASE Exponential /\ k = 1
  <2>1. Exponent(k) = 0 /\ k - 1 = 0
    BY <1>1, <1>4 DEF Exponent
  <2>2. BaseDelay * 2 ^ 0 = BaseDelay
    BY <1>1, PowerOfZero
  <2>3. Wait(k) = BaseDelay
    BY <1>4, <2>1, <2>2 DEF Wait
  <2>4. Delay(k) = AsI64(Saturated(BaseDelay))
    BY <1>4, <2>1, <2>2 DEF Delay
  <2> QED
    BY <1>1, <1>2, <2>3, <2>4
<1>5. CASE Exponential /\ k > 1
  <2> DEFINE x == 2 ^ (k - 2)
  <2> DEFINE y == 2 ^ (k - 1)
  <2>1. k - 2 \in Nat /\ k - 1 \in Nat /\ k - 2 + 1 = k - 1 /\ k - 1 - 1 = k - 2
    BY <1>5
  <2>2. x \in Nat /\ y \in Nat /\ y = 2 * x
    <3>1. x \in Nat /\ y \in Nat
      BY <2>1, PowerIsCardinality
    <3>2. 2 ^ (k - 2 + 1) = 2 * x
      BY <2>1, PowersDouble
    <3> QED
      BY <2>1, <3>1, <3>2
  <2>3. BaseDelay * x <= MaxTime
    BY <1>5, <2>1 DEF Wait
  <2>4. Wait(k) = BaseDelay * y
    BY <1>5 DEF Wait
  <2>5. BaseDelay * y = 2 * (BaseDelay * x) /\ BaseDelay * x \in Nat
    <3> HIDE DEF x, y
    <3> QED
      BY <1>1, <2>2
  <2>6. BaseDelay * y \in Nat /\ BaseDelay * y < h
    <3> DEFINE p == BaseDelay * x
    <3>1. p \in Nat /\ p <= MaxTime /\ BaseDelay * y = 2 * p
      BY <2>3, <2>5
    <3> HIDE DEF p, x, y
    <3> QED
      BY <1>1, <3>1
  <2>7. BaseDelay * 2 ^ Exponent(k) = BaseDelay * y
    <3>1. CASE k - 1 <= MaxExponent
      <4>1. Exponent(k) = k - 1
        BY <1>1, <2>1, <3>1 DEF Exponent
      <4> QED
        BY <4>1
    <3>2. CASE ~ (k - 1 <= MaxExponent)
      <4>1. MaxExponent <= k - 2
        BY <1>1, <2>1, <3>2
      <4>2. 2 ^ MaxExponent <= x /\ 2 ^ MaxExponent \in Nat
        BY <1>1, <2>1, <4>1, PowersGrow, PowerIsCardinality
      <4>3. MaxTime < x
        BY <1>1, <1>1a, <2>2, <4>2
      <4>4. BaseDelay = 0
        <5> HIDE DEF x, y
        <5>1. BaseDelay >= 1 => BaseDelay * x >= x
          BY <1>1, <2>2
        <5> QED
          BY <1>1, <2>2, <2>3, <2>5, <4>3, <5>1
      <4>5. Exponent(k) = MaxExponent
        BY <1>1, <2>1, <3>2 DEF Exponent
      <4>6. 0 * 2 ^ MaxExponent = 0 /\ 0 * y = 0
        <5> HIDE DEF x, y
        <5> QED
          BY <2>2, <4>2
      <4> QED
        BY <4>4, <4>5, <4>6
    <3> QED
      BY <3>1, <3>2
  <2> HIDE DEF x, y
  <2>8. Delay(k) = AsI64(Saturated(BaseDelay * y))
    BY <1>5, <2>7 DEF Delay
  <2> QED
    BY <1>2, <2>4, <2>6, <2>8
<1> QED
  BY <1>3, <1>4, <1>5

LEMMA NextRunFits ==
    ASSUME now \in 1 .. MaxNow PROVE NextRun \in 0 .. LastRun
<1>1. \A n \in Nat, p \in Nat \ {0} :
         n \div p \in Nat /\ (n \div p) * p <= n /\ n < (n \div p) * p + p
  OBVIOUS
<1> QED
  BY <1>1, Widths DEF NextRun, Upcoming, NoTime
-----------------------------------------------------------------------------
(* The inductive invariant *)

Points == {"idle", "loading", "computing", "saving", "removing"}

Records == [state : TaskStates \cup {"none"}, last : Nat, next : Nat, retries : Nat]

Types ==
    /\ db \in [Tasks -> Records]
    /\ now \in 1 .. MaxNow
    /\ pc \in [Threads -> Points]
    /\ DOMAIN op = Threads
    /\ copy \in [Threads -> Records]
    /\ stamp \in [Threads -> Nat] /\ (\A t \in Threads : stamp[t] <= now)
    /\ DOMAIN answer = Threads
    /\ stage \in [Executors -> Stages]
    /\ polled \in [Executors -> Nat] /\ (\A e \in Executors : polled[e] <= now)
    /\ unread \in [Executors -> SUBSET Tasks]
    /\ due \in [Executors -> SUBSET Tasks]
    /\ DOMAIN job = Executors
    /\ faults \in 0 .. MaxFaults
    /\ failures \in [Tasks -> Nat]
    /\ notBefore \in [Tasks -> Nat]
    /\ attempts \in [Tasks -> Nat]
    /\ added \subseteq Tasks /\ succeeded \subseteq Tasks

\* What is stored of a task agrees with what happened to it.
TaskOK(id, task) ==
    /\ task.state \in TaskStates
    /\ task.last <= now
    /\ task.next \in Times
    /\ task.retries = failures[id]
    /\ task.state = "Failed" <=> failures[id] = MaxRetries + 1
    /\ task.state = "Failed" => task.next = NoTime
    /\ task.state = "Pending" /\ BaseFits => notBefore[id] <= task.next
    /\ task.state = "Pending" /\ id \in OneShots => attempts[id] <= failures[id]
    /\ id \in succeeded => task.state = "Completed"

Stored == \A id \in Tasks : db[id] # NoTask => id \in added /\ TaskOK(id, db[id])

Counted ==
    \A id \in Tasks :
        /\ failures[id] <= MaxRetries + 1
        /\ BaseFits /\ failures[id] \in 1 .. MaxRetries => Wait(failures[id]) <= MaxTime
        /\ id \in OneShots => attempts[id] <= MaxRetries + 1 /\ attempts[id] <= failures[id] + 1
        /\ id \notin added => /\ failures[id] = 0 /\ attempts[id] = 0
                              /\ notBefore[id] = 0 /\ id \notin succeeded

\* Only the admin creates tasks, each once.
AdminOK ==
    \/ pc[Admin] = "idle"
    \/ \E id \in Tasks \ added :
          /\ op[Admin] = Op("add", id)
          /\ \/ pc[Admin] = "computing"
             \/ pc[Admin] = "saving" /\ \E at \in Times : copy[Admin] = NewTask(at)
    \/ \E id \in added : op[Admin] = Op("remove", id) /\ pc[Admin] = "removing"

\* The work on id may begin.
Attemptable(id) ==
    /\ BaseFits => notBefore[id] <= now
    /\ failures[id] <= MaxRetries
    /\ id \in OneShots => attempts[id] <= failures[id]
    /\ id \notin succeeded

\* Nobody but the executor of id makes a task of it that is due.
StillDue(e, id) ==
    db[id] # NoTask => db[id].state = "Pending" /\ db[id].next <= polled[e]

Begun(id) == db[id] # NoTask => db[id].state = "Running"

Listed(e) == \A id \in due[e] : id \in added /\ StillDue(e, id)

AtWork(e) == stage[e] \in {"starting", "working", "finishing"}

HasJob(e) == job[e] \in added /\ job[e] \notin due[e] /\ unread[e] = {}

Starting(e) ==
    \/ pc[e] = "idle" /\ (answer[e] = "Ok" => Begun(job[e]) /\ Attemptable(job[e]))
    \/ /\ op[e] = Op("update_state", job[e])
       /\ \/ pc[e] = "loading" /\ StillDue(e, job[e])
          \/ /\ pc[e] = "computing"
             /\ TaskOK(job[e], copy[e])
             /\ copy[e].state = "Pending" /\ copy[e].next <= polled[e]
          \/ /\ pc[e] = "saving"
             /\ TaskOK(job[e], copy[e]) /\ copy[e].state = "Running"
             /\ Attemptable(job[e])

\* What record_failure and reschedule are about to save.
FailedCopy(id, task, at) ==
    /\ task.last <= now
    /\ task.next \in Times
    /\ task.retries = failures[id] + 1
    /\ failures[id] <= MaxRetries
    /\ IF failures[id] = MaxRetries
       THEN task.state = "Failed" /\ task.next = NoTime
       ELSE /\ task.state = "Pending"
            /\ BaseFits => /\ Wait(failures[id] + 1) <= MaxTime
                           /\ task.next = at + Wait(failures[id] + 1)
    /\ id \notin succeeded

RescheduledCopy(id, task) ==
    /\ task.last <= now
    /\ task.next \in Times
    /\ task.retries = failures[id]
    /\ failures[id] <= MaxRetries
    /\ task.state = IF id \in OneShots THEN "Completed" ELSE "Pending"
    /\ id \notin succeeded

Finishing(e) ==
    \/ pc[e] = "idle"
    \/ /\ op[e] \in {Op("record_failure", job[e]), Op("reschedule", job[e])}
       /\ \/ pc[e] = "loading" /\ Begun(job[e])
          \/ pc[e] = "computing" /\ TaskOK(job[e], copy[e]) /\ copy[e].state = "Running"
    \/ /\ op[e] = Op("record_failure", job[e])
       /\ pc[e] = "saving" /\ FailedCopy(job[e], copy[e], stamp[e])
    \/ /\ op[e] = Op("reschedule", job[e])
       /\ pc[e] = "saving" /\ RescheduledCopy(job[e], copy[e])

ExecOK(e) ==
    /\ Listed(e)
    /\ AtWork(e) => HasJob(e)
    /\ stage[e] = "idle" => pc[e] = "idle" /\ due[e] = {} /\ unread[e] = {}
    /\ stage[e] = "polling" => pc[e] = "idle"
    /\ stage[e] = "starting" => Starting(e)
    /\ stage[e] = "working" => pc[e] = "idle" /\ Begun(job[e])
    /\ stage[e] = "finishing" => Finishing(e)

CronInv == Types /\ Stored /\ Counted /\ AdminOK /\ \A e \in Executors : ExecOK(e)

LEMMA TimesReached ==
    ASSUME now \in 1 .. MaxNow
    PROVE  /\ NextRun \in Times /\ 1 .. MaxNow \subseteq Dates
           /\ Dates \subseteq Times /\ Times \subseteq Nat /\ NoTime \in Times
<1>1. NextRun \in 0 .. LastRun
  BY NextRunFits
<1> QED
  BY <1>1, Widths DEF Dates, Times, NoTime

-----------------------------------------------------------------------------
(* Every step keeps it *)

LEMMA CronInit == ASSUME Init PROVE CronInv
<1>1. Types
  BY NumbersAssumption DEF Init, Types, Records, NoTask, NoTime, Points, Stages
<1>2. Stored /\ Counted
  BY NumbersAssumption DEF Init, Stored, Counted, NoTime
<1>3. AdminOK
  BY DEF Init, AdminOK, Threads
<1>4. \A e \in Executors : ExecOK(e)
  BY DEF Init, ExecOK, Listed, AtWork, Threads
<1> QED
  BY <1>1, <1>2, <1>3, <1>4 DEF CronInv

LEMMA ComputedRecords ==
    ASSUME Types, NEW t \in Threads,
           op[t].kind \in {"add", "record_failure", "update_state", "reschedule"},
           op[t].kind = "record_failure" => ~ Unreachable(copy[t]),
           NEW task \in Computed(t)
    PROVE  task \in Records
<1>1. /\ copy[t] \in Records /\ now \in Nat
      /\ now \in 1 .. MaxNow /\ 1 .. MaxNow \subseteq Nat
  BY NumbersAssumption DEF Types
<1>2. NextRun \in Nat
  BY <1>1, TimesReached
<1>3. \A at \in Nat : NewTask(at) \in Records
  BY DEF NewTask, Records, TaskStates, NoTime
<1>4. Started(copy[t]) \in Records
  BY <1>1 DEF Started, Records, TaskStates
<1>5. \A id : Rescheduled(id, copy[t]) \in Records
  BY <1>1, <1>2 DEF Rescheduled, Records, TaskStates, NoTime
<1>6. op[t].kind = "record_failure" => Failed(copy[t]) \in Records
  <2>1. copy[t].retries + 1 \in Nat
    BY <1>1 DEF Records
  <2>2. /\ op[t].kind = "record_failure" /\ Retries(copy[t].retries + 1)
        => now + Delay(copy[t].retries + 1) \in Nat
    BY <1>1, TimesReached DEF Unreachable
  <2> QED
    BY <1>1, <2>1, <2>2 DEF Failed, GivenUp, Records, TaskStates, NoTime
<1> QED
  BY <1>1, <1>2, <1>3, <1>4, <1>5, <1>6, Zenon DEF Computed

\* Who executes which operation.
LEMMA Operations ==
    ASSUME CronInv, NEW t \in Threads, pc[t] # "idle"
    PROVE  \/ /\ t = Admin
              /\ \/ op[t].kind = "add" /\ pc[t] \in {"computing", "saving"}
                 \/ op[t].kind = "remove" /\ pc[t] = "removing"
              /\ op[t].id \in Tasks
           \/ /\ t \in Executors
              /\ pc[t] \in {"loading", "computing", "saving"}
              /\ \/ op[t].kind = "update_state" /\ stage[t] = "starting"
                 \/ op[t].kind \in {"record_failure", "reschedule"} /\ stage[t] = "finishing"
              /\ op[t].id = job[t] /\ job[t] \in added /\ job[t] \in Tasks
<1>1. CASE t = Admin
  BY <1>1 DEF CronInv, Types, AdminOK, Op
<1>2. CASE t \in Executors
  <2>1. stage[t] \in Stages /\ ExecOK(t)
    BY <1>2 DEF CronInv, Types
  <2>2. stage[t] \in {"starting", "finishing"}
    BY <2>1 DEF Stages, ExecOK
  <2>3. job[t] \in added /\ job[t] \in Tasks
    BY <2>1, <2>2 DEF ExecOK, AtWork, HasJob, CronInv, Types
  <2>4. CASE stage[t] = "starting"
    BY <1>2, <2>1, <2>3, <2>4 DEF ExecOK, Starting, Op
  <2>5. CASE stage[t] = "finishing"
    BY <1>2, <2>1, <2>3, <2>5 DEF ExecOK, Finishing, Op
  <2> QED
    BY <2>2, <2>4, <2>5
<1> QED
  BY <1>1, <1>2 DEF Threads

LEMMA TypesKept == ASSUME CronInv, [Next]_vars PROVE Types'
<1>1. Types
  BY DEF CronInv
<1>2. \A id \in Tasks : Wait(failures[id] + 1) \in Nat
  BY <1>1, WaitIsNat DEF Types
<1>3. NoTask \in Records
  BY DEF NoTask, Records, NoTime
<1>4. CASE UNCHANGED vars
  BY <1>1, <1>4 DEF Types, vars, threadVars, executorVars, ghosts
<1>5. CASE Tick
  BY <1>1, <1>5, NumbersAssumption DEF Types, Tick, threadVars, executorVars, ghosts
<1>6. CASE AdminBegins
  BY <1>1, <1>6 DEF Types, AdminBegins, Begin, executorVars, ghosts, Points, Threads
<1>7. ASSUME NEW t \in Threads, Load(t) PROVE Types'
  <2>1. op[t].id \in Tasks
    BY <1>7, Operations DEF Load
  <2>2. db[op[t].id] \in Records
    BY <1>1, <2>1 DEF Types
  <2>3. copy' \in [Threads -> Records]
    BY <1>1, <1>3, <1>7, <2>2 DEF Types, Load, Return
  <2> QED
    BY <1>1, <1>7, <2>3, NumbersAssumption
       DEF Types, Load, Return, executorVars, ghosts, Points, NoTime
<1>8. ASSUME NEW t \in Threads, Compute(t) PROVE Types'
  <2>1. op[t].kind \in {"add", "record_failure", "update_state", "reschedule"}
    BY <1>8, Operations DEF Compute
  <2>2. copy' \in [Threads -> Records]
    <3>1. op[t].kind = "record_failure" => ~ Unreachable(copy[t])
      BY <1>8 DEF Compute, Panicking
    <3> QED
      BY <1>1, <1>8, <2>1, <3>1, ComputedRecords DEF Compute, Types
  <2> QED
    BY <1>1, <1>8, <2>2, NumbersAssumption DEF Types, Compute, executorVars, ghosts, Points
<1>9. ASSUME NEW t \in Threads, NEW kind, Save(t, kind)
      PROVE  /\ db' \in [Tasks -> Records]
             /\ pc' \in [Threads -> Points]
             /\ DOMAIN op' = Threads /\ DOMAIN answer' = Threads
             /\ copy' \in [Threads -> Records]
             /\ stamp' \in [Threads -> Nat] /\ (\A u \in Threads : stamp'[u] <= now)
  <2>1. copy[t] \in Records
    BY <1>1 DEF Types
  <2>2. db' \in [Tasks -> Records]
    BY <1>1, <1>9, <2>1 DEF Types, Save
  <2>3. pc' \in [Threads -> Points] /\ DOMAIN op' = Threads /\ DOMAIN answer' = Threads
    BY <1>1, <1>9 DEF Types, Save, Return, Points
  <2>4. copy' \in [Threads -> Records]
    BY <1>1, <1>3, <1>9 DEF Types, Save, Return
  <2>5. stamp' \in [Threads -> Nat] /\ (\A u \in Threads : stamp'[u] <= now)
    BY <1>1, <1>9, NumbersAssumption DEF Types, Save, Return, NoTime
  <2> QED
    BY <2>2, <2>3, <2>4, <2>5
<1>10. ASSUME NEW t \in Threads, SaveNew(t) PROVE Types'
  <2>1. op[t].id \in Tasks
    BY <1>10, Operations DEF SaveNew, Save
  <2> QED
    BY <1>1, <1>9, <1>10, <2>1 DEF Types, SaveNew, Save, executorVars
<1>11. ASSUME NEW t \in Threads, SaveFailure(t) PROVE Types'
  <2> DEFINE wait == Wait(failures[op[t].id] + 1)
  <2>1. op[t].id \in Tasks
    BY <1>11, Operations DEF SaveFailure, Save
  <2>2. /\ failures' = [failures EXCEPT ![op[t].id] = @ + 1]
        /\ notBefore' = [notBefore EXCEPT ![op[t].id] = stamp[t] + wait]
    BY <1>11 DEF SaveFailure
  <2>3. wait \in Nat /\ stamp[t] \in Nat
    BY <1>1, <1>2, <2>1 DEF Types
  <2> HIDE DEF wait
  <2>3a. /\ failures \in [Tasks -> Nat] /\ notBefore \in [Tasks -> Nat]
         /\ failures[op[t].id] + 1 \in Nat /\ stamp[t] + wait \in Nat
    BY <1>1, <2>1, <2>3 DEF Types
  <2>4. failures' \in [Tasks -> Nat] /\ notBefore' \in [Tasks -> Nat]
    BY <2>2, <2>3a
  <2> QED
    BY <1>1, <1>9, <1>11, <2>4 DEF Types, SaveFailure, Save, executorVars
<1>12. ASSUME NEW t \in Threads, SaveStarted(t) PROVE Types'
  BY <1>1, <1>9, <1>12 DEF Types, SaveStarted, Save, executorVars
<1>13. ASSUME NEW t \in Threads, SaveRescheduled(t) PROVE Types'
  <2>1. notBefore' = [notBefore EXCEPT ![op[t].id] = NoTime]
    BY <1>13 DEF SaveRescheduled
  <2>2. notBefore' \in [Tasks -> Nat]
    BY <1>1, <2>1 DEF Types, NoTime
  <2>3. UNCHANGED <<now, added, faults, failures, attempts, executorVars>>
    BY <1>13 DEF SaveRescheduled, Save
  <2>3a. succeeded' \subseteq Tasks
    BY <1>1, <1>13, OneShotsAssumption DEF SaveRescheduled, Types
  <2>4. Save(t, "reschedule")
    BY <1>13 DEF SaveRescheduled
  <2>5. /\ db' \in [Tasks -> Records]
        /\ pc' \in [Threads -> Points]
        /\ DOMAIN op' = Threads /\ DOMAIN answer' = Threads
        /\ copy' \in [Threads -> Records]
        /\ stamp' \in [Threads -> Nat] /\ (\A u \in Threads : stamp'[u] <= now)
    BY <1>9, <2>4
  <2> QED
    BY <1>1, <2>2, <2>3, <2>3a, <2>5 DEF Types, executorVars
<1>14. ASSUME NEW t \in Threads, Remove(t) PROVE Types'
  <2>1. db' \in [Tasks -> Records]
    BY <1>1, <1>3, <1>14 DEF Types, Remove
  <2>2. copy' \in [Threads -> Records]
    BY <1>1, <1>3, <1>14 DEF Types, Remove, Return
  <2>3. stamp' \in [Threads -> Nat] /\ (\A u \in Threads : stamp'[u] <= now)
    BY <1>1, <1>14, NumbersAssumption DEF Types, Remove, Return, NoTime
  <2> QED
    BY <1>1, <1>14, <2>1, <2>2, <2>3
       DEF Types, Remove, Return, executorVars, ghosts, Points
<1>15. ASSUME NEW t \in Threads, BackendFails(t) PROVE Types'
  BY <1>1, <1>3, <1>15, NumbersAssumption
     DEF Types, BackendFails, Return, executorVars, ghosts, Points, NoTime
<1>16a. ASSUME NEW e \in Executors, Dies(e), faults' \in 0 .. MaxFaults PROVE Types'
  BY <1>1, <1>3, <1>16a, NumbersAssumption
     DEF Types, Dies, Return, ghosts, Stages, Points, Threads, NoTime
<1>16. ASSUME NEW e \in Executors, ExecutorStep(e) PROVE Types'
  <2>1. CASE Poll(e)
    BY <1>1, <2>1, NumbersAssumption DEF Types, Poll, threadVars, ghosts, Stages
  <2>2. ASSUME NEW id \in Tasks, Read(e, id) PROVE Types'
    BY <1>1, <2>2 DEF Types, Read, threadVars, ghosts
  <2>3. ASSUME NEW id \in Tasks, Pick(e, id) PROVE Types'
    BY <1>1, <2>3 DEF Types, Pick, Begin, ghosts, Stages, Points, Threads
  <2>4. CASE Work(e)
    BY <1>1, <2>4 DEF Types, Work, threadVars, Stages
  <2>5. CASE WorkEnds(e)
    BY <1>1, <2>5 DEF Types, WorkEnds, Begin, ghosts, Stages, Points, Threads
  <2>6. CASE JobOver(e)
    BY <1>1, <2>6 DEF Types, JobOver, threadVars, ghosts, Stages
  <2>7. CASE ListOver(e)
    BY <1>1, <2>7, NumbersAssumption DEF Types, ListOver, threadVars, ghosts, Stages, NoTime
  <2>8. CASE Panics(e)
    BY <1>1, <1>16a, <2>8 DEF Panics, Types
  <2> QED
    BY <1>16, <2>1, <2>2, <2>3, <2>4, <2>5, <2>6, <2>7, <2>8 DEF ExecutorStep
<1>17. ASSUME NEW e \in Executors, Crash(e) PROVE Types'
  BY <1>1, <1>16a, <1>17, NumbersAssumption DEF Crash, Types
<1> QED
  BY <1>4, <1>5, <1>6, <1>7, <1>8, <1>10, <1>11, <1>12, <1>13, <1>14, <1>15, <1>16, <1>17
     DEF Next, OpStep

\* What a step leaves alone.
LEMMA StoredFrame ==
    ASSUME Types, Types', Stored, now <= now', added' = added,
           UNCHANGED <<db, failures, notBefore, attempts, succeeded>>
    PROVE  Stored'
<1> SUFFICES ASSUME NEW id \in Tasks, (db[id] # NoTask)'
             PROVE  (id \in added /\ TaskOK(id, db[id]))'
  BY DEF Stored
<1>1. id \in added /\ TaskOK(id, db[id]) /\ db[id] \in Records
  BY DEF Stored, Types
<1>2. now \in Nat /\ now' \in Nat
  BY NumbersAssumption DEF Types
<1> QED
  BY <1>1, <1>2 DEF TaskOK, Records

LEMMA CountedFrame ==
    ASSUME Counted, added \subseteq added',
           UNCHANGED <<failures, notBefore, attempts, succeeded>>
    PROVE  Counted'
  BY DEF Counted

LEMMA AdminFrame ==
    ASSUME AdminOK, added' = added, pc'[Admin] = pc[Admin], op'[Admin] = op[Admin],
           copy'[Admin] = copy[Admin]
    PROVE  AdminOK'
  BY DEF AdminOK, Times, Dates, NoTime

LEMMA ExecFrame ==
    ASSUME Types, Types', NEW e \in Executors, ExecOK(e), now <= now',
           added \subseteq added',
           UNCHANGED <<failures, notBefore, attempts, succeeded>>,
           pc'[e] = pc[e], op'[e] = op[e], copy'[e] = copy[e], stamp'[e] = stamp[e],
           answer'[e] = answer[e],
           UNCHANGED executorVars,
           \A id \in added : db'[id] \in {db[id], NoTask}
    PROVE  ExecOK(e)'
<1>1. /\ UNCHANGED <<stage, polled, unread, due, job>>
      /\ now \in Nat /\ now' \in Nat /\ copy[e] \in Records
      /\ notBefore \in [Tasks -> Nat] /\ added \subseteq Tasks
  BY NumbersAssumption DEF Types, executorVars, Threads
<1>2. Listed(e)'
  BY <1>1 DEF ExecOK, Listed, StillDue
<1>5. \A id \in added : Begun(id) => Begun(id)'
  BY DEF Begun
<1>7. AtWork(e)' => AtWork(e) /\ HasJob(e) /\ HasJob(e)'
  BY <1>1 DEF AtWork, ExecOK, HasJob
<1>8. ASSUME HasJob(e), Starting(e) PROVE Starting(e)'
  <2>1. job[e] \in added /\ job[e] \in Tasks /\ job'[e] = job[e]
    BY <1>1, <1>8 DEF HasJob
  <2>2. TaskOK(job[e], copy[e]) => TaskOK(job[e], copy[e])'
    BY <1>1, <2>1 DEF TaskOK, Records
  <2>3. /\ Attemptable(job[e]) => Attemptable(job[e])'
        /\ Begun(job[e]) => Begun(job[e])'
        /\ StillDue(e, job[e]) => StillDue(e, job[e])'
    BY <1>1, <2>1 DEF Attemptable, Begun, StillDue
  <2> QED
    BY <1>1, <1>8, <2>1, <2>2, <2>3 DEF Starting
<1>9. ASSUME HasJob(e), Finishing(e) PROVE Finishing(e)'
  <2>1. job[e] \in added /\ job[e] \in Tasks /\ job'[e] = job[e]
    BY <1>1, <1>9 DEF HasJob
  <2>2. TaskOK(job[e], copy[e]) => TaskOK(job[e], copy[e])'
    BY <1>1, <2>1 DEF TaskOK, Records
  <2>3. Begun(job[e]) => Begun(job[e])'
    BY <1>1, <2>1 DEF Begun
  <2>4. FailedCopy(job[e], copy[e], stamp[e]) => FailedCopy(job[e], copy[e], stamp[e])'
    BY <1>1, <2>1 DEF FailedCopy, Records, Wait, BaseFits, Times, Dates, NoTime
  <2>5. RescheduledCopy(job[e], copy[e]) => RescheduledCopy(job[e], copy[e])'
    BY <1>1, <2>1 DEF RescheduledCopy, Records, Times, Dates, NoTime
  <2> QED
    BY <1>9, <2>1, <2>2, <2>3, <2>4, <2>5 DEF Finishing
<1>10. stage[e] = "working" => Begun(job[e])'
  BY <1>1, <1>5 DEF ExecOK, AtWork, HasJob, Begun
<1>11. stage[e] = "starting" => Starting(e)'
  BY <1>8 DEF ExecOK, AtWork
<1>12. stage[e] = "finishing" => Finishing(e)'
  BY <1>9 DEF ExecOK, AtWork
<1> QED
  BY <1>1, <1>2, <1>7, <1>10, <1>11, <1>12 DEF ExecOK, AtWork

\* The clock moves, the admin calls an operation.
LEMMA QuietStepsKeep ==
    ASSUME CronInv, Types', UNCHANGED vars \/ Tick \/ AdminBegins
    PROVE  CronInv'
<1>1. /\ Types /\ Stored /\ Counted /\ AdminOK /\ (\A e \in Executors : ExecOK(e))
      /\ now \in Nat
  BY NumbersAssumption DEF CronInv, Types
<1>2. /\ now <= now'
      /\ UNCHANGED <<db, added, executorVars, failures, notBefore, attempts, succeeded>>
  BY <1>1 DEF vars, Tick, AdminBegins, ghosts
<1>3. \A e \in Executors : /\ pc'[e] = pc[e] /\ op'[e] = op[e] /\ copy'[e] = copy[e]
                           /\ stamp'[e] = stamp[e] /\ answer'[e] = answer[e]
  BY <1>1, AdminAssumption
     DEF vars, threadVars, Tick, AdminBegins, Begin, Types, Threads
<1>4. Stored' /\ Counted'
  BY <1>1, <1>2, StoredFrame, CountedFrame
<1>5. \A e \in Executors : ExecOK(e)'
  BY <1>1, <1>2, <1>3, ExecFrame
<1>6. AdminOK'
  <2>1. CASE UNCHANGED vars \/ Tick
    BY <1>1, <2>1, AdminFrame DEF vars, threadVars, Tick
  <2>2. CASE AdminBegins
    <3>1. /\ added' = added
          /\ \E id \in Tasks :
                \/ id \notin added /\ op'[Admin] = Op("add", id) /\ pc'[Admin] = "computing"
                \/ id \in added /\ op'[Admin] = Op("remove", id) /\ pc'[Admin] = "removing"
      BY <1>1, <2>2 DEF AdminBegins, Begin, Types, Threads, Stored
    <3> QED
      BY <3>1 DEF AdminOK
  <2> QED
    BY <2>1, <2>2
<1> QED
  BY <1>4, <1>5, <1>6 DEF CronInv

\* add_task, add_one_shot and remove_task, step by step.
LEMMA AdminStepsKeep ==
    ASSUME CronInv, Types', OpStep(Admin) \/ BackendFails(Admin)
    PROVE  CronInv'
<1>1. /\ Types /\ Stored /\ Counted /\ AdminOK /\ (\A e \in Executors : ExecOK(e))
      /\ Admin \in Threads
  BY DEF CronInv, Threads
<1>2. CASE BackendFails(Admin)
  <2>1. UNCHANGED <<now, added, db, executorVars, failures, notBefore, attempts, succeeded>>
    BY <1>2 DEF BackendFails, ghosts
  <2>2. now <= now'
    BY <1>1, <2>1, NumbersAssumption DEF Types
  <2>3. \A e \in Executors : /\ pc'[e] = pc[e] /\ op'[e] = op[e] /\ copy'[e] = copy[e]
                             /\ stamp'[e] = stamp[e] /\ answer'[e] = answer[e]
    BY <1>1, <1>2, AdminAssumption DEF BackendFails, Return, Types, Threads
  <2>4. pc'[Admin] = "idle"
    BY <1>1, <1>2 DEF BackendFails, Return, Types
  <2> QED
    BY <1>1, <2>1, <2>2, <2>3, <2>4, StoredFrame, CountedFrame, ExecFrame DEF CronInv, AdminOK
<1>3. CASE OpStep(Admin)
  <2>1. pc[Admin] # "idle"
    BY <1>3 DEF OpStep, Load, Compute, SaveNew, SaveFailure, SaveStarted, SaveRescheduled, Save, Remove
  <2>2. /\ \/ op[Admin].kind = "add" /\ pc[Admin] \in {"computing", "saving"}
           \/ op[Admin].kind = "remove" /\ pc[Admin] = "removing"
        /\ op[Admin].id \in Tasks
    BY <1>1, <2>1, Operations, AdminAssumption
  <2>3. \/ Compute(Admin) /\ op[Admin].kind = "add"
        \/ SaveNew(Admin)
        \/ Remove(Admin)
    <3>1. /\ Load(Admin) => pc[Admin] = "loading"
          /\ Compute(Admin) => pc[Admin] = "computing"
          /\ SaveFailure(Admin) => op[Admin].kind = "record_failure"
          /\ SaveStarted(Admin) => op[Admin].kind = "update_state"
          /\ SaveRescheduled(Admin) => op[Admin].kind = "reschedule"
      BY DEF Load, Compute, SaveFailure, SaveStarted, SaveRescheduled, Save
    <3> QED
      BY <1>3, <2>2, <3>1 DEF OpStep
  <2>4. /\ UNCHANGED <<now, executorVars, failures, notBefore, attempts, succeeded>>
        /\ added \subseteq added'
    BY <2>3 DEF Compute, SaveNew, Save, Remove, ghosts
  <2>5. now <= now'
    BY <1>1, <2>4, NumbersAssumption DEF Types
  <2>6. \A e \in Executors : /\ pc'[e] = pc[e] /\ op'[e] = op[e] /\ copy'[e] = copy[e]
                             /\ stamp'[e] = stamp[e] /\ answer'[e] = answer[e]
    BY <1>1, <2>3, AdminAssumption DEF Compute, SaveNew, Save, Remove, Return, Types, Threads
  <2>7. CASE Compute(Admin) /\ op[Admin].kind = "add"
    <3>1. UNCHANGED <<db, added, op>>
      BY <2>7 DEF Compute
    <3>2. PICK id \in Tasks \ added : op[Admin] = Op("add", id)
      BY <1>1, <2>7 DEF AdminOK, Compute, Op
    <3>3. PICK task \in Computed(Admin) : copy' = [copy EXCEPT ![Admin] = task]
      BY <2>7 DEF Compute
    <3>4. \E at \in Times : task = NewTask(at)
      <4>1. task \in IF id \in OneShots THEN {NewTask(at) : at \in 1 .. MaxNow}
                     ELSE {NewTask(NextRun)}
        <5>1. op[Admin].kind = "add" /\ op[Admin].id = id
          BY <3>2 DEF Op
        <5> QED
          BY <3>3, <5>1, Zenon DEF Computed
      <4>2. NextRun \in Times /\ 1 .. MaxNow \subseteq Times
        BY <1>1, TimesReached DEF Types
      <4> QED
        BY <4>1, <4>2
    <3>5. copy'[Admin] = task /\ pc'[Admin] = "saving"
      BY <1>1, <2>7, <3>3 DEF Compute, Types
    <3>6. AdminOK'
      BY <3>1, <3>2, <3>4, <3>5 DEF AdminOK, Times, Dates, NoTime
    <3> QED
      BY <1>1, <2>4, <2>5, <2>6, <3>1, <3>6, StoredFrame, CountedFrame, ExecFrame DEF CronInv
  <2>8. CASE SaveNew(Admin)
    <3>1. PICK id \in Tasks \ added :
             op[Admin] = Op("add", id) /\ \E at \in Times : copy[Admin] = NewTask(at)
      BY <1>1, <2>8 DEF AdminOK, SaveNew, Save, Op
    <3>2. PICK at \in Times : copy[Admin] = NewTask(at)
      BY <3>1
    <3>3. /\ added' = added \cup {id}
          /\ \A i \in Tasks : db'[i] = IF i = id THEN NewTask(at) ELSE db[i]
          /\ pc'[Admin] = "idle"
      BY <1>1, <2>8, <3>1, <3>2 DEF SaveNew, Save, Return, Types, Op
    <3>4. Stored'
      <4>1. /\ failures[id] = 0 /\ attempts[id] = 0 /\ notBefore[id] = 0
            /\ id \notin succeeded /\ id \in Tasks
        BY <1>1, <3>1 DEF Counted
      <4>2. at \in Nat /\ now \in Nat /\ MaxRetries \in Nat
        BY <1>1, TimesReached, NumbersAssumption DEF Types
      <4>3. TaskOK(id, NewTask(at))'
        BY <2>4, <4>1, <4>2 DEF TaskOK, NewTask, TaskStates, NoTime, Times, Dates, NoTime
      <4> QED
        BY <1>1, <2>4, <3>3, <4>1, <4>3 DEF Stored, TaskOK, Times, Dates, NoTime
    <3>5. \A i \in added : db'[i] \in {db[i], NoTask}
      BY <1>1, <3>1, <3>3 DEF Types
    <3> QED
      BY <1>1, <2>4, <2>5, <2>6, <3>3, <3>4, <3>5, CountedFrame, ExecFrame DEF CronInv, AdminOK
  <2>9. CASE Remove(Admin)
    <3>1. /\ added' = added /\ pc'[Admin] = "idle"
          /\ \A i \in Tasks : db'[i] \in {db[i], NoTask}
      BY <1>1, <2>9 DEF Remove, Return, Types
    <3>2. Stored'
      BY <1>1, <2>4, <3>1 DEF Stored, TaskOK, Times, Dates, NoTime
    <3> QED
      BY <1>1, <2>4, <2>5, <2>6, <3>1, <3>2, CountedFrame, ExecFrame DEF CronInv, AdminOK, Types
  <2> QED
    BY <2>3, <2>7, <2>8, <2>9
<1> QED
  BY <1>2, <1>3

\* An operation of an executor leaves its list alone.
LEMMA ExecAssembled ==
    ASSUME NEW e \in Executors, ExecOK(e), UNCHANGED executorVars, added' = added,
           stage[e] \in {"starting", "finishing"},
           \A id \in due[e] : db'[id] = db[id],
           stage[e] = "starting" => Starting(e)',
           stage[e] = "finishing" => Finishing(e)'
    PROVE  ExecOK(e)'
<1>1. UNCHANGED <<stage, polled, unread, due, job>>
  BY DEF executorVars
<1>2. Listed(e)'
  BY <1>1 DEF ExecOK, Listed, StillDue
<1>3. HasJob(e)'
  BY <1>1 DEF ExecOK, AtWork, HasJob
<1> QED
  BY <1>1, <1>2, <1>3 DEF ExecOK

\* update_state(Running), record_failure and reschedule, step by step.
LEMMA ExecutorOpsKeep ==
    ASSUME \A e, f \in Executors : e = f, CronInv, Types',
           NEW e \in Executors, OpStep(e) \/ BackendFails(e)
    PROVE  CronInv'
<1>1. /\ Types /\ Stored /\ Counted /\ AdminOK /\ ExecOK(e)
      /\ e \in Threads /\ e # Admin /\ Admin \in Threads
      /\ now \in Nat /\ MaxRetries \in Nat
  BY NumbersAssumption, AdminAssumption DEF CronInv, Types, Threads
<1>2. pc[e] # "idle"
  BY DEF OpStep, Load, Compute, SaveNew, SaveFailure, SaveStarted, SaveRescheduled, Save,
         Remove, BackendFails
<1>3. /\ pc[e] \in {"loading", "computing", "saving"}
      /\ \/ op[e].kind = "update_state" /\ stage[e] = "starting"
         \/ op[e].kind \in {"record_failure", "reschedule"} /\ stage[e] = "finishing"
      /\ op[e].id = job[e] /\ job[e] \in added /\ job[e] \in Tasks
  BY <1>1, <1>2, Operations
<1>3a. PICK id \in Tasks : id = job[e] /\ id \in added /\ op[e].id = id
  BY <1>3
<1>4. HasJob(e) /\ (stage[e] = "starting" => Starting(e)) /\ (stage[e] = "finishing" => Finishing(e))
  BY <1>3a, <1>1, <1>3 DEF ExecOK, AtWork
<1>5. \/ BackendFails(e) \/ Load(e) \/ Compute(e)
      \/ SaveFailure(e) \/ SaveStarted(e) \/ SaveRescheduled(e)
  <2>1. /\ SaveNew(e) => op[e].kind = "add"
        /\ Remove(e) => pc[e] = "removing"
    BY DEF SaveNew, Save, Remove
  <2> QED
    BY <1>3a, <1>3, <2>1 DEF OpStep
<1>6. /\ UNCHANGED <<now, added, executorVars>>
      /\ now <= now'
      /\ pc'[Admin] = pc[Admin] /\ op'[Admin] = op[Admin] /\ copy'[Admin] = copy[Admin]
  <2>1. UNCHANGED <<now, added, executorVars>>
    BY <1>5 DEF BackendFails, Load, Compute, Save, SaveFailure, SaveStarted, SaveRescheduled
  <2>2. pc'[Admin] = pc[Admin] /\ op'[Admin] = op[Admin] /\ copy'[Admin] = copy[Admin]
    BY <1>1, <1>5 DEF BackendFails, Load, Compute, Save, SaveFailure, SaveStarted, SaveRescheduled,
                      Return, Types
  <2> QED
    BY <1>3a, <1>1, <2>1, <2>2
<1>7. AdminOK'
  BY <1>3a, <1>1, <1>6, AdminFrame
<1>8. SUFFICES Stored' /\ Counted' /\ ExecOK(e)'
  BY <1>7 DEF CronInv
<1>9. CASE BackendFails(e)
  <2>1. UNCHANGED <<db, failures, notBefore, attempts, succeeded>>
    BY <1>9 DEF BackendFails, ghosts
  <2>2. pc'[e] = "idle" /\ answer'[e] = "BackendError"
    BY <1>1, <1>9 DEF BackendFails, Return, Types
  <2>3. Starting(e)' /\ Finishing(e)'
    BY <2>2 DEF Starting, Finishing
  <2> QED
    BY <1>3a, <1>1, <1>3, <1>6, <2>1, <2>3, StoredFrame, CountedFrame, ExecAssembled
<1>10. CASE Load(e)
  <2>1. UNCHANGED <<db, failures, notBefore, attempts, succeeded>> /\ pc[e] = "loading"
    BY <1>10 DEF Load, ghosts
  <2>2. CASE db[id] = NoTask
    <3>1. pc'[e] = "idle" /\ answer'[e] = "TaskNotFound"
      BY <1>3a, <1>1, <1>3, <1>10, <2>2 DEF Load, Return, Types
    <3>2. Starting(e)' /\ Finishing(e)'
      BY <3>1 DEF Starting, Finishing
    <3> QED
      BY <1>3a, <1>1, <1>3, <1>6, <2>1, <3>2, StoredFrame, CountedFrame, ExecAssembled
  <2>3. CASE db[id] # NoTask
    <3>1. pc'[e] = "computing" /\ op' = op /\ copy'[e] = db[id]
      BY <1>3a, <1>1, <1>3, <1>10, <2>3 DEF Load, Types
    <3>2. TaskOK(id, db[id])
      BY <1>3a, <1>1, <1>3, <2>3 DEF Stored
    <3>3. job' = job /\ polled' = polled
      BY <1>6 DEF executorVars
    <3>4. TaskOK(job[e], copy[e])'
      BY <1>3a, <1>6, <2>1, <3>1, <3>2, <3>3 DEF TaskOK, Times, Dates, NoTime
    <3>5. stage[e] = "starting" => Starting(e)'
      BY <1>3a, <1>4, <2>1, <2>3, <3>1, <3>3, <3>4 DEF Starting, StillDue
    <3>6. stage[e] = "finishing" => Finishing(e)'
      BY <1>3a, <1>4, <2>1, <2>3, <3>1, <3>3, <3>4 DEF Finishing, Begun
    <3> QED
      BY <1>3a, <1>1, <1>3, <1>6, <2>1, <3>5, <3>6, StoredFrame, CountedFrame, ExecAssembled
  <2> QED
    BY <1>3a, <2>2, <2>3
<1>11. CASE Compute(e)
  <2>1. /\ UNCHANGED <<db, op, failures, notBefore, attempts, succeeded>>
        /\ pc[e] = "computing" /\ pc'[e] = "saving" /\ stamp'[e] = now
    BY <1>1, <1>11 DEF Compute, ghosts, Types
  <2>2. PICK task \in Computed(e) : copy' = [copy EXCEPT ![e] = task]
    BY <1>11 DEF Compute
  <2>3. copy'[e] = task /\ job' = job /\ copy[e] \in Records
    BY <1>3a, <1>1, <1>6, <2>2 DEF executorVars, Types
  <2>4. TaskOK(id, copy[e])
    BY <1>3a, <1>3, <1>4, <2>1 DEF Starting, Finishing
  <2>5. failures[id] \in Nat /\ failures[id] <= MaxRetries + 1
    BY <1>3a, <1>1, <1>3 DEF Counted, Types
  <2>6. ASSUME stage[e] = "starting" PROVE Starting(e)'
    <3>1. /\ op[e] = Op("update_state", id) /\ op[e].kind = "update_state"
          /\ copy[e].state = "Pending" /\ copy[e].next <= polled[e]
      BY <1>3a, <1>4, <2>1, <2>6 DEF Starting, Op
    <3>2. task = Started(copy[e])
      BY <1>3a, <2>2, <3>1, Zenon DEF Computed
    <3>3. polled[e] <= now /\ polled[e] \in Nat /\ notBefore[id] \in Nat
      BY <1>3a, <1>1, <1>3 DEF Types
    <3>4. Attemptable(id)
      BY <1>3a, <1>1, <2>3, <2>4, <2>5, <3>1, <3>3 DEF Attemptable, TaskOK, Records
    <3>5. (TaskOK(job[e], copy[e]) /\ copy[e].state = "Running")'
      BY <1>3a, <1>1, <1>6, <2>1, <2>3, <2>4, <2>5, <3>1, <3>2
         DEF TaskOK, Started, Records, Times, Dates, NoTime, TaskStates
    <3>6. Attemptable(job[e])'
      BY <1>3a, <1>6, <2>1, <2>3, <3>4 DEF Attemptable
    <3> QED
      BY <1>3a, <2>1, <2>3, <3>1, <3>5, <3>6 DEF Starting
  <2>7. ASSUME stage[e] = "finishing" PROVE Finishing(e)'
    <3>1. /\ op[e] \in {Op("record_failure", id), Op("reschedule", id)}
          /\ copy[e].state = "Running"
      BY <1>3a, <1>4, <2>1, <2>7 DEF Finishing, Op
    <3>2. failures[id] <= MaxRetries /\ id \notin succeeded
      BY <1>3a, <1>1, <2>4, <2>5, <3>1 DEF TaskOK
    <3>3. CASE op[e] = Op("record_failure", id)
      <4>1. op[e].kind = "record_failure"
        BY <3>3 DEF Op
      <4>2. task = Failed(copy[e])
        BY <2>2, <4>1, Zenon DEF Computed
      <4>3. /\ copy[e].retries = failures[id]
            /\ copy[e].last <= now
        BY <1>3a, <2>4 DEF TaskOK
      <4> DEFINE k == failures[id] + 1
      <4>4. k <= MaxRetries => now + Delay(k) \in Dates
        BY <1>11, <4>1, <4>3 DEF Compute, Panicking, Unreachable, Retries
      <4>4a. ASSUME k <= MaxRetries, BaseFits PROVE Delay(k) = Wait(k) /\ Wait(k) <= MaxTime
        <5>1. k \in Nat \ {0} /\ k - 1 = failures[id]
          BY <2>5
        <5>2. k > 1 => Wait(k - 1) <= MaxTime
          BY <1>1, <1>3a, <2>5, <4>4a, <5>1 DEF Counted
        <5> HIDE DEF k
        <5>3. Delay(k) = Wait(k) /\ Wait(k) \in Nat
          BY <4>4a, <5>1, <5>2, DelayIsWait, WaitIsNat
        <5> QED
          BY <1>1, <4>4, <4>4a, <5>3, Widths DEF Dates
      <4>5. 0 \in Times
        BY <1>3a, <1>1, <2>4, TimesReached, NumbersAssumption DEF Times, Dates, NoTime, Types
      <4>6. FailedCopy(id, task, now)
        BY <1>3a, <1>1, <2>3, <2>5, <3>2, <4>2, <4>3, <4>4, <4>4a, <4>5
           DEF FailedCopy, Failed, GivenUp, Retries, Records, NoTime, Times, Dates, NoTime
      <4>7. FailedCopy(job[e], copy[e], stamp[e])'
        BY <1>3a, <1>6, <2>1, <2>3, <4>6 DEF FailedCopy, Times, Dates, NoTime, Wait, BaseFits
      <4> QED
        BY <1>3a, <2>1, <2>3, <3>3, <4>7 DEF Finishing
    <3>4. CASE op[e] = Op("reschedule", id)
      <4>1. op[e].kind = "reschedule" /\ op[e].id = id
        BY <3>4 DEF Op
      <4>2. task = Rescheduled(id, copy[e])
        BY <2>2, <4>1, Zenon DEF Computed
      <4>3. NextRun \in Times
        BY <1>1, TimesReached DEF Types
      <4>4. 0 \in Times
        BY <1>1, TimesReached, NumbersAssumption DEF Times, Dates, NoTime, Types
      <4>5. RescheduledCopy(id, task)
        BY <1>3a, <2>3, <2>4, <3>2, <4>2, <4>3, <4>4
           DEF RescheduledCopy, Rescheduled, TaskOK, Records, NoTime
      <4>6. RescheduledCopy(job[e], copy[e])'
        BY <1>3a, <1>6, <2>1, <2>3, <4>5 DEF RescheduledCopy, Times, Dates, NoTime
      <4> QED
        BY <1>3a, <2>1, <2>3, <3>4, <4>6 DEF Finishing
    <3> QED
      BY <3>1, <3>3, <3>4
  <2> QED
    BY <1>3a, <1>1, <1>3, <1>6, <2>1, <2>6, <2>7, StoredFrame, CountedFrame, ExecAssembled
<1>12. ASSUME NEW kind, Save(e, kind)
       PROVE  /\ pc[e] = "saving" /\ op[e].kind = kind
              /\ pc'[e] = "idle" /\ answer'[e] = "Ok" /\ attempts' = attempts
              /\ \A i \in Tasks : db'[i] = IF i = id THEN copy[e] ELSE db[i]
              /\ \A i \in due[e] : db'[i] = db[i]
  <2>1. id \notin due[e] /\ due[e] \subseteq Tasks
    BY <1>3a, <1>1, <1>4 DEF HasJob, Types
  <2>2. db' = [db EXCEPT ![id] = copy[e]]
    BY <1>3a, <1>3, <1>12 DEF Save
  <2>3. \A i \in Tasks : db'[i] = IF i = id THEN copy[e] ELSE db[i]
    BY <1>1, <2>2 DEF Types
  <2> QED
    BY <1>1, <1>12, <2>1, <2>3 DEF Save, Return, Types
<1>13. CASE SaveFailure(e)
  <2>1. Save(e, "record_failure")
    BY <1>13 DEF SaveFailure
  <2>2. FailedCopy(id, copy[e], stamp[e])
    BY <1>3a, <1>3, <1>4, <1>12, <2>1 DEF Finishing, Op
  <2>3. /\ failures[id] \in Nat /\ stamp[e] \in Nat
        /\ failures \in [Tasks -> Nat] /\ attempts \in [Tasks -> Nat]
    BY <1>3a, <1>1, <1>3 DEF Types
  <2> DEFINE wait == Wait(failures[id] + 1)
  <2>4. wait \in Nat
    BY <2>3, WaitIsNat
  <2>5. /\ \A i \in Tasks : failures'[i] = IF i = id THEN failures[i] + 1 ELSE failures[i]
        /\ \A i \in Tasks : notBefore'[i] = IF i = id THEN stamp[e] + wait ELSE notBefore[i]
        /\ UNCHANGED <<attempts, succeeded>>
    <3>1. /\ failures' = [failures EXCEPT ![id] = @ + 1]
          /\ notBefore' = [notBefore EXCEPT ![id] = stamp[e] + wait]
          /\ UNCHANGED <<attempts, succeeded>>
      BY <1>3a, <1>3, <1>13 DEF SaveFailure, Save
    <3> HIDE DEF wait
    <3> QED
      BY <1>3a, <1>1, <1>3, <3>1 DEF Types
  <2> HIDE DEF wait
  <2>6. Counted'
    BY <1>3a, <1>1, <1>3, <1>6, <2>2, <2>3, <2>5 DEF Counted, FailedCopy
  <2>7. PICK task \in Records : task = copy[e]
    BY <1>1 DEF Types
  <2>8. TaskOK(id, task)'
    <3>1. /\ failures'[id] = failures[id] + 1 /\ notBefore'[id] = stamp[e] + wait
          /\ attempts'[id] = attempts[id] /\ succeeded' = succeeded /\ now' = now
      BY <1>3a, <1>6, <2>5
    <3>2. task.state = "Pending" /\ BaseFits => notBefore'[id] <= task.next
      BY <2>2, <2>3, <2>4, <2>7, <3>1 DEF FailedCopy, wait
    <3>3. /\ task.state \in TaskStates /\ task.last <= now /\ task.next \in Times
          /\ task.retries = failures[id] + 1 /\ failures[id] <= MaxRetries
          /\ task.state = "Failed" <=> failures[id] + 1 = MaxRetries + 1
          /\ task.state = "Failed" => task.next = NoTime
          /\ task.state # "Completed" => id \notin succeeded
          /\ task.state \in {"Pending", "Failed"} /\ id \notin succeeded
      BY <1>1, <2>2, <2>3, <2>7 DEF FailedCopy, TaskStates
    <3>4. id \in OneShots => attempts[id] <= failures[id] + 1
      BY <1>1, <1>3a DEF Counted
    <3> QED
      BY <3>1, <3>2, <3>3, <3>4 DEF TaskOK, Times, Dates, NoTime, BaseFits
  <2>9. Stored'
    BY <1>3a, <1>1, <1>6, <1>12, <2>1, <2>5, <2>7, <2>8 DEF Stored, TaskOK, Times, Dates, NoTime
  <2>10. Finishing(e)' /\ stage[e] = "finishing"
    BY <1>3, <1>12, <2>1 DEF Finishing
  <2> QED
    BY <1>3a, <1>1, <1>3, <1>6, <1>12, <2>1, <2>6, <2>9, <2>10, ExecAssembled
<1>14. CASE SaveStarted(e)
  <2>1. Save(e, "update_state") /\ UNCHANGED <<failures, notBefore, attempts, succeeded>>
    BY <1>14 DEF SaveStarted, Save
  <2>2. TaskOK(id, copy[e]) /\ copy[e].state = "Running" /\ Attemptable(id) /\ stage[e] = "starting"
    BY <1>3a, <1>3, <1>4, <1>12, <2>1 DEF Starting, Op
  <2>3. PICK task \in Records : task = copy[e]
    BY <1>1 DEF Types
  <2>4. TaskOK(id, task)'
    BY <1>6, <2>1, <2>2, <2>3 DEF TaskOK, Times, Dates, NoTime
  <2>5. Stored'
    BY <1>3a, <1>1, <1>6, <1>12, <2>1, <2>3, <2>4 DEF Stored, TaskOK, Times, Dates, NoTime
  <2>6. Begun(id)' /\ Attemptable(id)' /\ job'[e] = id
    BY <1>3a, <1>6, <1>12, <2>1, <2>2 DEF Begun, Attemptable, executorVars
  <2>7. Starting(e)'
    BY <1>12, <2>1, <2>6 DEF Starting, Begun, Attemptable
  <2> QED
    BY <1>3a, <1>1, <1>6, <1>12, <2>1, <2>2, <2>5, <2>7, CountedFrame, ExecAssembled
<1>15. CASE SaveRescheduled(e)
  <2>1. Save(e, "reschedule")
    BY <1>15 DEF SaveRescheduled
  <2>2. RescheduledCopy(id, copy[e]) /\ stage[e] = "finishing"
    BY <1>3a, <1>3, <1>4, <1>12, <2>1 DEF Finishing, Op
  <2>3. PICK task \in Records : task = copy[e]
    BY <1>1 DEF Types
  <2>4. /\ UNCHANGED <<failures, attempts>>
        /\ \A i \in Tasks : notBefore'[i] = IF i = id THEN 0 ELSE notBefore[i]
        /\ succeeded' = succeeded \cup ({id} \cap OneShots)
    BY <1>3a, <1>1, <1>15 DEF SaveRescheduled, Save, Types, NoTime
  <2>5. Counted'
    BY <1>3a, <1>1, <1>6, <2>4 DEF Counted
  <2>6. failures[id] \in Nat /\ attempts[id] \in Nat
    BY <1>3a, <1>1 DEF Types
  <2>7. TaskOK(id, task)'
    BY <1>3a, <1>1, <1>6, <2>2, <2>3, <2>4, <2>6
       DEF TaskOK, RescheduledCopy, Records, TaskStates, Times, Dates, NoTime
  <2>8. Stored'
    BY <1>3a, <1>1, <1>6, <1>12, <2>1, <2>3, <2>4, <2>7 DEF Stored, TaskOK, Times, Dates, NoTime
  <2>9. Finishing(e)'
    BY <1>12, <2>1 DEF Finishing
  <2> QED
    BY <1>3a, <1>1, <1>6, <1>12, <2>1, <2>2, <2>5, <2>8, <2>9, ExecAssembled
<1> QED
  BY <1>3a, <1>5, <1>9, <1>10, <1>11, <1>13, <1>14, <1>15

\* The steps of an executor between the operations, and its crash.
LEMMA ExecutorListKeeps ==
    ASSUME \A e, f \in Executors : e = f, CronInv, Types',
           NEW e \in Executors, ExecutorStep(e) \/ Crash(e)
    PROVE  CronInv'
<1>1. /\ Types /\ Stored /\ Counted /\ AdminOK /\ ExecOK(e)
      /\ e \in Threads /\ e # Admin /\ Admin \in Threads
      /\ now \in Nat /\ MaxRetries \in Nat
      /\ due[e] \subseteq Tasks /\ unread[e] \subseteq Tasks
  BY NumbersAssumption, AdminAssumption DEF CronInv, Types, Threads
<1>2. /\ UNCHANGED <<now, db, added, failures, notBefore, succeeded>>
      /\ now <= now'
      /\ pc'[Admin] = pc[Admin] /\ op'[Admin] = op[Admin] /\ copy'[Admin] = copy[Admin]
  <2>1. UNCHANGED <<now, db, added, failures, notBefore, succeeded>>
    BY DEF ExecutorStep, Poll, Read, Pick, Work, WorkEnds, JobOver, ListOver, Panics, Crash, Dies,
           ghosts
  <2>2. pc'[Admin] = pc[Admin] /\ op'[Admin] = op[Admin] /\ copy'[Admin] = copy[Admin]
    BY <1>1 DEF ExecutorStep, Poll, Read, Pick, Work, WorkEnds, JobOver, ListOver, Panics, Crash,
                Dies, Begin, Return, threadVars, Types
  <2> QED
    BY <1>1, <2>1, <2>2
<1>3. AdminOK'
  BY <1>1, <1>2, AdminFrame
<1>4. SUFFICES Stored' /\ Counted' /\ ExecOK(e)'
  BY <1>3 DEF CronInv
<1>5. UNCHANGED attempts => Stored' /\ Counted'
  BY <1>1, <1>2, StoredFrame, CountedFrame
<1>6. CASE Poll(e)
  <2>1. /\ stage'[e] = "polling" /\ due'[e] = {} /\ pc'[e] = "idle"
        /\ UNCHANGED attempts
    BY <1>1, <1>6 DEF Poll, Types, threadVars, ghosts, ExecOK
  <2>2. ExecOK(e)'
    BY <2>1 DEF ExecOK, Listed, AtWork
  <2> QED
    BY <1>5, <2>1, <2>2
<1>7. ASSUME NEW id \in Tasks, Read(e, id) PROVE Stored' /\ Counted' /\ ExecOK(e)'
  <2>1. /\ UNCHANGED <<attempts, stage, polled>> /\ pc'[e] = pc[e]
        /\ unread'[e] = unread[e] \ {id} /\ id \in unread[e]
        /\ due'[e] = IF DueFilter(db[id], polled[e]) THEN due[e] \cup {id} ELSE due[e]
    BY <1>1, <1>7 DEF Read, Types, threadVars, ghosts
  <2>2. stage[e] = "polling" /\ pc[e] = "idle"
    BY <1>1, <2>1 DEF ExecOK, AtWork, HasJob, Types, Stages
  <2>3. DueFilter(db[id], polled[e]) => id \in added /\ StillDue(e, id)
    BY <1>1 DEF DueFilter, Stored, StillDue, NoTask
  <2>4. Listed(e)'
    BY <1>1, <1>2, <2>1, <2>3 DEF ExecOK, Listed, StillDue
  <2>5. ExecOK(e)'
    BY <2>1, <2>2, <2>4 DEF ExecOK, AtWork
  <2> QED
    BY <1>5, <2>1, <2>5
<1>8. ASSUME NEW id \in Tasks, Pick(e, id) PROVE Stored' /\ Counted' /\ ExecOK(e)'
  <2>1. /\ UNCHANGED <<attempts, polled, unread>> /\ unread[e] = {} /\ id \in due[e]
        /\ due'[e] = due[e] \ {id} /\ job'[e] = id /\ stage'[e] = "starting"
        /\ pc'[e] = "loading" /\ op'[e] = Op("update_state", id)
    BY <1>1, <1>8 DEF Pick, Begin, Types, ghosts
  <2>2. Listed(e)' /\ HasJob(e)' /\ StillDue(e, job[e])'
    BY <1>1, <1>2, <2>1 DEF ExecOK, Listed, StillDue, HasJob
  <2>3. ExecOK(e)'
    BY <2>1, <2>2 DEF ExecOK, Starting
  <2> QED
    BY <1>5, <2>1, <2>3
<1>9. CASE Work(e)
  <2>1. /\ UNCHANGED <<pc, op, copy, stamp, answer, polled, unread, due, job>>
        /\ stage[e] = "starting" /\ pc[e] = "idle"
    BY <1>9 DEF Work, threadVars
  <2>2. HasJob(e)' /\ Listed(e)'
    BY <1>1, <1>2, <2>1 DEF ExecOK, AtWork, HasJob, Listed, StillDue
  <2>3. PICK id \in Tasks : id = job[e] /\ id \in added
    BY <1>1, <2>1 DEF ExecOK, AtWork, HasJob, Types
  <2>4. CASE answer[e] = "Ok"
    <3>1. Begun(id) /\ Attemptable(id)
      BY <1>1, <2>1, <2>3, <2>4 DEF ExecOK, Starting
    <3>2. /\ stage'[e] = "working"
          /\ \A i \in Tasks : attempts'[i] = IF i = id THEN attempts[i] + 1 ELSE attempts[i]
      BY <1>1, <1>9, <2>3, <2>4 DEF Work, Types
    <3>3. attempts[id] \in Nat /\ failures[id] \in Nat
      BY <1>1, <2>3 DEF Types
    <3>4. Counted'
      BY <1>1, <1>2, <2>3, <3>1, <3>2, <3>3 DEF Counted, Attemptable
    <3>5. Stored'
      BY <1>1, <1>2, <2>3, <3>1, <3>2 DEF Stored, TaskOK, Begun, Times, Dates, NoTime
    <3>6. ExecOK(e)'
      BY <1>2, <2>1, <2>2, <2>3, <3>1, <3>2 DEF ExecOK, Begun
    <3> QED
      BY <3>4, <3>5, <3>6
  <2>5. CASE answer[e] # "Ok"
    <3>1. stage'[e] = "polling" /\ UNCHANGED attempts
      BY <1>1, <1>9, <2>5 DEF Work, Types
    <3>2. ExecOK(e)'
      BY <2>1, <2>2, <3>1 DEF ExecOK, AtWork
    <3> QED
      BY <1>5, <3>1, <3>2
  <2> QED
    BY <2>4, <2>5
<1>10. CASE WorkEnds(e)
  <2>1. /\ UNCHANGED <<attempts, polled, unread, due, job>>
        /\ stage[e] = "working" /\ stage'[e] = "finishing" /\ pc'[e] = "loading"
        /\ op'[e] \in {Op("record_failure", job[e]), Op("reschedule", job[e])}
    BY <1>1, <1>10 DEF WorkEnds, Begin, Types, ghosts
  <2>2. HasJob(e)' /\ Listed(e)'
    BY <1>1, <1>2, <2>1 DEF ExecOK, AtWork, HasJob, Listed, StillDue
  <2>3. Begun(job[e])'
    BY <1>1, <1>2, <2>1 DEF ExecOK, Begun
  <2>4. ExecOK(e)'
    BY <2>1, <2>2, <2>3 DEF ExecOK, Finishing
  <2> QED
    BY <1>5, <2>1, <2>4
<1>11. CASE JobOver(e)
  <2>1. /\ UNCHANGED <<attempts, polled, unread, due>>
        /\ stage[e] = "finishing" /\ stage'[e] = "polling" /\ pc'[e] = "idle"
    BY <1>1, <1>11 DEF JobOver, Types, ghosts, threadVars
  <2>2. ExecOK(e)'
    BY <1>1, <1>2, <2>1 DEF ExecOK, AtWork, Listed, StillDue
  <2> QED
    BY <1>5, <2>1, <2>2
<1>12. CASE ListOver(e)
  <2>1. /\ UNCHANGED <<attempts, unread, due>> /\ unread[e] = {} /\ due[e] = {}
        /\ stage[e] = "polling" /\ stage'[e] = "idle" /\ pc'[e] = pc[e]
    BY <1>1, <1>12 DEF ListOver, Types, ghosts, threadVars
  <2>2. ExecOK(e)'
    BY <1>1, <2>1 DEF ExecOK, AtWork, Listed
  <2> QED
    BY <1>5, <2>1, <2>2
<1>13. CASE Dies(e)
  <2>1. /\ UNCHANGED attempts /\ unread'[e] = {} /\ due'[e] = {}
        /\ stage'[e] = "idle" /\ pc'[e] = "idle"
    BY <1>1, <1>13 DEF Dies, Return, Types, ghosts
  <2>2. ExecOK(e)'
    BY <2>1 DEF ExecOK, AtWork, Listed
  <2> QED
    BY <1>5, <2>1, <2>2
<1> QED
  BY <1>6, <1>7, <1>8, <1>9, <1>10, <1>11, <1>12, <1>13 DEF ExecutorStep, Panics, Crash

LEMMA CronInvariant == ASSUME \A e, f \in Executors : e = f PROVE Spec => []CronInv
<1>1. Init => CronInv
  BY CronInit
<1>2. CronInv /\ [Next]_vars => CronInv'
  <2> SUFFICES ASSUME CronInv, [Next]_vars PROVE CronInv'
    OBVIOUS
  <2>1. Types'
    BY TypesKept
  <2>2. CASE UNCHANGED vars \/ Tick \/ AdminBegins
    BY <2>1, <2>2, QuietStepsKeep
  <2>3. ASSUME NEW t \in Threads, OpStep(t) \/ BackendFails(t) PROVE CronInv'
    BY <2>1, <2>3, AdminStepsKeep, ExecutorOpsKeep DEF Threads
  <2>4. ASSUME NEW e \in Executors, ExecutorStep(e) \/ Crash(e) PROVE CronInv'
    BY <2>1, <2>4, ExecutorListKeeps
  <2> QED
    BY <2>2, <2>3, <2>4 DEF Next
<1> QED
  BY <1>1, <1>2, PTL DEF Spec

-----------------------------------------------------------------------------
(* The theorems *)

\* What the tree holds are tasks, never dated in the future; a task that was given up
\* has no next run and all its retries behind it, and only a task that was added is worked on.
THEOREM TypeCorrect == ASSUME \A e, f \in Executors : e = f PROVE Spec => []TypeOK
<1>1. CronInv => TypeOK
  <2> SUFFICES ASSUME CronInv PROVE TypeOK
    OBVIOUS
  <2>1. /\ Types /\ Stored /\ Counted /\ (\A e \in Executors : ExecOK(e))
        /\ now \in Nat /\ MaxRetries \in Nat
    BY NumbersAssumption DEF CronInv, Types
  <2>2. ASSUME NEW id \in Tasks
        PROVE  /\ db[id].state \in TaskStates \cup {"none"}
               /\ db[id].last \in 0 .. now /\ db[id].next \in Times
               /\ db[id].retries \in 0 .. MaxRetries + 1
               /\ db[id].state = "Failed" =>
                     db[id].next = NoTime /\ db[id].retries = MaxRetries + 1
               /\ id \notin added => db[id] = NoTask
    <3>1. CASE db[id] = NoTask
      <4>1. 0 \in Times
        BY <2>1, TimesReached, NumbersAssumption DEF Times, Dates, NoTime, Types
      <4> QED
        BY <2>1, <3>1, <4>1 DEF NoTask, NoTime
    <3>2. CASE db[id] # NoTask
      <4>1. /\ id \in added /\ TaskOK(id, db[id]) /\ db[id] \in Records
            /\ failures[id] \in Nat /\ failures[id] <= MaxRetries + 1
        BY <2>1, <3>2 DEF Stored, Types, Counted
      <4> QED
        BY <2>1, <4>1 DEF TaskOK, Records
    <3> QED
      BY <3>1, <3>2
  <2>3. \A t \in Threads : pc[t] \in Points /\ stamp[t] \in 0 .. now
    BY <2>1 DEF Types
  <2>4. \A e \in Executors :
           /\ stage[e] \in Stages
           /\ unread[e] \cup due[e] \subseteq Tasks
           /\ stage[e] \in {"working", "finishing"} => job[e] \in added
    BY <2>1 DEF Types, ExecOK, AtWork, HasJob
  <2> QED
    BY <2>1, <2>2, <2>3, <2>4 DEF TypeOK, Types, Points
<1> QED
  BY <1>1, CronInvariant, PTL

\* The retry policy is exact, however the clock, the admin, faults and crashes interleave
\* with an executor that is alone (scheduler.rs:130-157).
THEOREM RetriesAreExact == ASSUME \A e, f \in Executors : e = f PROVE Spec => []RetryBudget
<1>1. CronInv => RetryBudget
  BY NumbersAssumption DEF CronInv, Types, Stored, TaskOK, Counted, RetryBudget, NoTask
<1> QED
  BY <1>1, CronInvariant, PTL

\* Work begins only on the task of a `starting` executor whose update_state succeeded.
LEMMA WorkIsAttemptable ==
    ASSUME CronInv, [Next]_vars, NEW id \in Tasks, attempts'[id] # attempts[id]
    PROVE  Attemptable(id)
<1>1. PICK e \in Executors : Work(e)
  BY DEF Next, vars, Tick, AdminBegins, OpStep, Load, Compute, SaveNew, SaveFailure, SaveStarted,
         SaveRescheduled, Save, Remove, BackendFails, ExecutorStep, Poll, Read, Pick, WorkEnds,
         JobOver, ListOver, Panics, Crash, Dies, ghosts
<1>2. attempts \in [Tasks -> Nat] /\ ExecOK(e)
  BY DEF CronInv, Types
<1>3. answer[e] = "Ok" /\ id = job[e] /\ stage[e] = "starting" /\ pc[e] = "idle"
  BY <1>1, <1>2 DEF Work
<1> QED
  BY <1>2, <1>3 DEF ExecOK, Starting

\* A retry waits out its back-off (scheduler.rs:135-142), whatever the width of the
\* arithmetic, if an i64 holds the delay of the policy; u64::MAX seconds are -1 second.
THEOREM RetriesWait ==
    ASSUME \A e, f \in Executors : e = f, BaseFits PROVE Spec => BackoffRespected
<1>1. CronInv /\ [Next]_vars =>
         [\A id \in Tasks : attempts'[id] > attempts[id] => now >= notBefore[id]]_vars
  <2> SUFFICES ASSUME CronInv, [Next]_vars, NEW id \in Tasks, attempts'[id] > attempts[id]
               PROVE  now >= notBefore[id]
    OBVIOUS
  <2>1. attempts'[id] # attempts[id] /\ now \in Nat /\ notBefore[id] \in Nat
    <3>1. attempts[id] \in Nat /\ now \in Nat /\ notBefore[id] \in Nat
      BY NumbersAssumption DEF CronInv, Types
    <3> QED
      BY <3>1
  <2> QED
    BY <2>1, WorkIsAttemptable DEF Attemptable
<1> QED
  BY <1>1, CronInvariant, PTL DEF Spec, BackoffRespected

\* A one-shot task whose work was done, and recorded with reschedule, is not worked on again
\* (scheduler.rs:201-204), although due_tasks claims nothing.
THEOREM OneShotsRunOnce == ASSUME \A e, f \in Executors : e = f PROVE Spec => OneShotDoneOnce
<1>1. CronInv /\ [Next]_vars => [\A id \in succeeded : attempts'[id] = attempts[id]]_vars
  <2> SUFFICES ASSUME CronInv, [Next]_vars, NEW id \in succeeded, attempts'[id] # attempts[id]
               PROVE  FALSE
    OBVIOUS
  <2> QED
    BY WorkIsAttemptable DEF Attemptable, CronInv, Types
<1> QED
  BY <1>1, CronInvariant, PTL DEF Spec, OneShotDoneOnce

-----------------------------------------------------------------------------
(* What leaves a task Running *)

\* An executor's task is not Running before its update_state is through.
Unmarked(e) ==
    stage[e] = "starting" /\ (pc[e] # "idle" \/ answer[e] # "Ok") => db[job[e]].state # "Running"

\* Only the update_state of an executor makes a task Running.
LEMMA BecomesRunning ==
    ASSUME CronInv, [Next]_vars, NEW id \in Tasks,
           db[id].state # "Running", db'[id].state = "Running"
    PROVE  \E e \in Executors :
              /\ stage[e] = "starting" /\ job[e] = id /\ UNCHANGED <<stage, job>>
              /\ pc'[e] = "idle" /\ answer'[e] = "Ok"
<1>0. Types /\ AdminOK
  BY DEF CronInv
<1>1. PICK t \in Threads :
         \/ SaveNew(t) \/ SaveFailure(t) \/ SaveStarted(t) \/ SaveRescheduled(t) \/ Remove(t)
  BY DEF Next, vars, Tick, AdminBegins, OpStep, Load, Compute, BackendFails, ExecutorStep, Poll,
         Read, Pick, Work, WorkEnds, JobOver, ListOver, Panics, Crash, Dies
<1>2. pc[t] # "idle"
  BY <1>1 DEF SaveNew, SaveFailure, SaveStarted, SaveRescheduled, Save, Remove
<1>3. db'[id] # db[id] /\ db' \in {[db EXCEPT ![op[t].id] = copy[t]], [db EXCEPT ![op[t].id] = NoTask]}
  BY <1>1 DEF SaveNew, SaveFailure, SaveStarted, SaveRescheduled, Save, Remove
<1>4. op[t].id = id /\ db'[id] \in {copy[t], NoTask}
  BY <1>0, <1>3 DEF Types
<1>5. db'[id] = copy[t] /\ ~ Remove(t)
  BY <1>0, <1>4 DEF NoTask, Remove, Types
<1>6. CASE SaveNew(t)
  <2>1. t = Admin /\ pc[t] = "saving" /\ op[t].kind = "add"
    BY <1>2, <1>6, Operations, AdminAssumption DEF SaveNew, Save
  <2>2. PICK at \in Times : copy[Admin] = NewTask(at)
    BY <1>0, <2>1 DEF AdminOK
  <2> QED
    BY <1>5, <2>1, <2>2 DEF NewTask
<1>7. CASE SaveFailure(t) \/ SaveRescheduled(t)
  <2>1. /\ t \in Executors /\ pc[t] = "saving" /\ stage[t] = "finishing"
        /\ op[t].kind \in {"record_failure", "reschedule"}
    BY <1>2, <1>7, Operations DEF SaveFailure, SaveRescheduled, Save
  <2>2. Finishing(t)
    BY <2>1 DEF CronInv, ExecOK
  <2> QED
    BY <1>5, <2>1, <2>2 DEF Finishing, FailedCopy, RescheduledCopy
<1>8. CASE SaveStarted(t)
  <2>1. t \in Executors /\ stage[t] = "starting" /\ job[t] = id
    BY <1>2, <1>4, <1>8, Operations DEF SaveStarted, Save
  <2>2. UNCHANGED <<stage, job>> /\ pc'[t] = "idle" /\ answer'[t] = "Ok"
    BY <1>0, <1>8 DEF SaveStarted, Save, Return, executorVars, Types
  <2> QED
    BY <2>1, <2>2
<1> QED
  BY <1>1, <1>5, <1>6, <1>7, <1>8

\* What a step does to an executor that is busy with a task.
LEMMA BusySteps ==
    ASSUME CronInv, [Next]_vars, NEW e \in Executors, AtWork(e)
    PROVE  \/ stage'[e] = stage[e] /\ job'[e] = job[e] /\ pc'[e] = pc[e] /\ answer'[e] = answer[e]
           \/ OpStep(e) \/ BackendFails(e) \/ Work(e) \/ WorkEnds(e) \/ JobOver(e)
           \/ Panics(e) \/ Crash(e)
<1>0. /\ Types /\ e \in Threads /\ e # Admin /\ stage[e] \in {"starting", "working", "finishing"}
  BY AdminAssumption DEF CronInv, Threads, AtWork
<1>1. CASE UNCHANGED vars \/ Tick \/ AdminBegins
  BY <1>0, <1>1 DEF vars, Tick, AdminBegins, Begin, threadVars, executorVars, Types
<1>2. ASSUME NEW t \in Threads, t # e, OpStep(t) \/ BackendFails(t)
      PROVE  stage' = stage /\ job' = job /\ pc'[e] = pc[e] /\ answer'[e] = answer[e]
  BY <1>0, <1>2 DEF OpStep, Load, Compute, SaveNew, SaveFailure, SaveStarted, SaveRescheduled, Save,
                    Remove, BackendFails, Return, executorVars, Types
<1>3. ASSUME NEW f \in Executors, f # e, ExecutorStep(f) \/ Crash(f)
      PROVE  /\ stage'[e] = stage[e] /\ job'[e] = job[e]
             /\ pc'[e] = pc[e] /\ answer'[e] = answer[e]
  BY <1>0, <1>3 DEF ExecutorStep, Poll, Read, Pick, Work, WorkEnds, JobOver, ListOver, Panics, Crash,
                    Dies, Begin, Return, threadVars, Types, Threads
<1>4. ASSUME NEW id \in Tasks, Read(e, id) PROVE stage' = stage /\ job' = job /\ pc' = pc /\ answer' = answer
  BY <1>4 DEF Read, threadVars
<1>5. ASSUME ExecutorStep(e)
      PROVE  \/ stage'[e] = stage[e] /\ job'[e] = job[e] /\ pc'[e] = pc[e] /\ answer'[e] = answer[e]
             \/ Work(e) \/ WorkEnds(e) \/ JobOver(e) \/ Panics(e)
  BY <1>0, <1>4, <1>5 DEF ExecutorStep, Poll, Pick, ListOver
<1> QED
  BY <1>1, <1>2, <1>3, <1>5 DEF Next

LEMMA UnmarkedKept ==
    ASSUME \A e, f \in Executors : e = f, CronInv, \A e \in Executors : Unmarked(e),
           [Next]_vars, NEW e \in Executors
    PROVE  Unmarked(e)'
<1> SUFFICES ASSUME stage'[e] = "starting", pc'[e] # "idle" \/ answer'[e] # "Ok",
                    db'[job'[e]].state = "Running"
             PROVE  FALSE
  BY DEF Unmarked
<1>0. Types /\ ExecOK(e) /\ e \in Threads
  BY DEF CronInv, Threads
<1>1. CASE stage[e] # "starting"
  <2>1. PICK id \in Tasks : Pick(e, id)
    BY <1>0, <1>1 DEF Next, vars, Tick, AdminBegins, OpStep, Load, Compute, SaveNew, SaveFailure,
          SaveStarted, SaveRescheduled, Save, Remove, BackendFails, ExecutorStep, Poll, Read, Work,
          WorkEnds, JobOver, ListOver, Panics, Crash, Dies, executorVars, Types
  <2>2. db' = db /\ job'[e] = id /\ StillDue(e, id)
    BY <1>0, <2>1 DEF Pick, ExecOK, Listed, Types
  <2> QED
    BY <2>2 DEF StillDue, NoTask
<1>2. CASE stage[e] = "starting"
  <2>1. AtWork(e) /\ job[e] \in Tasks
    BY <1>0, <1>2 DEF AtWork, ExecOK, HasJob, Types
  <2>2. job'[e] = job[e] /\ (pc[e] = "idle" => pc'[e] = pc[e] /\ answer'[e] = answer[e])
    BY <1>0, <1>2, <2>1, BusySteps DEF OpStep, Load, Compute, SaveNew, SaveFailure, SaveStarted,
          SaveRescheduled, Save, Remove, BackendFails, Work, WorkEnds, JobOver, Panics, Crash, Dies,
          executorVars, Types
  <2>3. db[job[e]].state # "Running"
    BY <1>2, <2>2 DEF Unmarked
  <2> QED
    BY <2>1, <2>2, <2>3, BecomesRunning
<1> QED
  BY <1>1, <1>2

LEMMA UnmarkedInvariant ==
    ASSUME \A e, f \in Executors : e = f PROVE Spec => [](\A e \in Executors : Unmarked(e))
<1>1. Init => \A e \in Executors : Unmarked(e)
  BY DEF Init, Unmarked
<1>2. CronInv /\ (\A e \in Executors : Unmarked(e)) /\ [Next]_vars => (\A e \in Executors : Unmarked(e))'
  BY UnmarkedKept
<1> QED
  BY <1>1, <1>2, CronInvariant, PTL DEF Spec

\* An executor stops working on a task that is and stays Running.
LEMMA Abandons ==
    ASSUME CronInv, [Next]_vars, NEW e \in Executors, NEW id \in Tasks, Unmarked(e),
           db[id].state = "Running", db'[id].state = "Running",
           AtWorkOn(e, id), ~ AtWorkOn(e, id)'
    PROVE  faults' > faults \/ Panics(e)
<1>0. Types /\ ExecOK(e) /\ e \in Threads /\ AtWork(e) /\ job[e] = id /\ faults \in Nat
  BY NumbersAssumption DEF CronInv, Types, Threads, AtWork, AtWorkOn
<1>1. CASE BackendFails(e) \/ Crash(e)
  BY <1>0, <1>1 DEF BackendFails, Crash
<1>2. CASE Work(e)
  <2>1. stage[e] = "starting" /\ job' = job /\ stage'[e] = (IF answer[e] = "Ok" THEN "working" ELSE "polling")
    BY <1>0, <1>2 DEF Work, Types
  <2>2. answer[e] = "Ok"
    BY <1>0, <2>1 DEF Unmarked
  <2> QED
    BY <1>0, <2>1, <2>2 DEF AtWorkOn
<1>3. CASE WorkEnds(e)
  <2>1. job' = job /\ stage'[e] = "finishing" /\ pc'[e] = "loading"
    BY <1>0, <1>3 DEF WorkEnds, Begin, Types
  <2> QED
    BY <1>0, <2>1 DEF AtWorkOn
<1>4. CASE JobOver(e)
  BY <1>0, <1>4 DEF JobOver, AtWorkOn
<1>5. CASE OpStep(e)
  <2>1. /\ UNCHANGED <<stage, job>> /\ pc[e] # "idle"
    BY <1>5 DEF OpStep, Load, Compute, SaveNew, SaveFailure, SaveStarted, SaveRescheduled, Save,
          Remove, executorVars
  <2>2. stage[e] = "finishing" /\ pc'[e] = "idle" /\ op[e].id = id
        /\ op[e].kind \in {"record_failure", "reschedule"} /\ pc[e] # "removing"
    BY <1>0, <2>1, Operations, AdminAssumption DEF AtWorkOn
  <2>3. db[id] # NoTask
    BY DEF NoTask
  <2>4. SaveFailure(e) \/ SaveRescheduled(e)
    BY <1>0, <1>5, <2>2, <2>3 DEF OpStep, Load, Compute, SaveNew, SaveStarted, Save, Remove, Types
  <2>5. db'[id] = copy[e] /\ pc[e] = "saving"
    BY <1>0, <2>2, <2>4 DEF SaveFailure, SaveRescheduled, Save, Types
  <2> QED
    BY <1>0, <2>2, <2>5 DEF ExecOK, Finishing, FailedCopy, RescheduledCopy
<1>6. CASE stage'[e] = stage[e] /\ job'[e] = job[e] /\ pc'[e] = pc[e]
  BY <1>6 DEF AtWorkOn
<1> QED
  BY <1>0, <1>1, <1>2, <1>3, <1>4, <1>5, <1>6, BusySteps

\* A task stays Running with nobody at work on it only after a crash, a failed call to the
\* tree or the panic of record_failure (scheduler.rs:130-207), however the clock and the
\* admin interleave with an executor that is alone.
THEOREM OnlyFaultsStrandTasks ==
    ASSUME \A e, f \in Executors : e = f PROVE Spec => OnlyFaultsStrand
<1>1. CronInv /\ (\A e \in Executors : Unmarked(e)) /\ [Next]_vars =>
        [\A id \in Tasks :
            Stranded(id)' /\ ~ Stranded(id) =>
                faults' > faults \/ \E e \in Executors : Panics(e)]_vars
  <2> SUFFICES ASSUME CronInv, \A e \in Executors : Unmarked(e), [Next]_vars, NEW id \in Tasks,
                      Stranded(id)', ~ Stranded(id)
               PROVE  faults' > faults \/ \E e \in Executors : Panics(e)
    OBVIOUS
  <2>1. db'[id].state = "Running" /\ \A e \in Executors : ~ AtWorkOn(e, id)'
    BY DEF Stranded
  <2>2. CASE db[id].state # "Running"
    BY <2>1, <2>2, BecomesRunning DEF AtWorkOn
  <2>3. CASE db[id].state = "Running"
    <3>1. PICK e \in Executors : AtWorkOn(e, id)
      BY <2>3 DEF Stranded
    <3> QED
      BY <2>1, <2>3, <3>1, Abandons
  <2> QED
    BY <2>2, <2>3
<1> QED
  BY <1>1, CronInvariant, UnmarkedInvariant, PTL DEF Spec, OnlyFaultsStrand

=============================================================================
