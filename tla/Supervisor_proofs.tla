-------------------------- MODULE Supervisor_proofs --------------------------
(***************************************************************************)
(* The supervisor sends its subtasks one after the other and reports Ok    *)
(* only for a plan that was carried out whole, for any number of runs,     *)
(* nested in one another in any way, over any bus.                         *)
(*                                                                         *)
(* InOrder speaks of the results of earlier calls and of a worker having   *)
(* had them; neither follows from the run's own state.  Places ties the    *)
(* position of a run in its plan to where its calls are; that Ok means     *)
(* served is what the bus promises (BusImplementsService).                 *)
(***************************************************************************)
EXTENDS Supervisor, AgentBus_proofs

Settled == {"idle", "done"}

\* Where a run is in its plan, and where its calls are.
Places(r) ==
    /\ Len(plan[r]) <= MaxSubtasks
    /\ \A i \in 1 .. MaxSubtasks :
          /\ pc[<<r, i>>] # "idle" => i <= at[r] /\ i <= Len(plan[r])
          /\ i < at[r] => pc[<<r, i>>] = "done" /\ result[<<r, i>>] = "Ok"
    /\ phase[r] \in {"idle", "decomposing", "panicked"} =>
          at[r] = 1 /\ \A i \in 1 .. MaxSubtasks : pc[<<r, i>>] = "idle"
    /\ phase[r] = "dispatching" => at[r] <= Len(plan[r])
    /\ phase[r] = "returned" =>
          /\ \A i \in 1 .. MaxSubtasks : pc[<<r, i>>] \in Settled
          /\ output[r] = "Ok" => steps[r] = Len(plan[r]) /\ at[r] = Len(plan[r]) + 1

RunTypes ==
    /\ phase \in [Runs -> Phases]
    /\ plan \in [Runs -> Seq(Names)]
    /\ at \in [Runs -> 1 .. MaxSubtasks + 1]
    /\ output \in [Runs -> Outputs]
    /\ steps \in [Runs -> 0 .. MaxSubtasks]
    /\ onBehalf \in [Runs -> Calls \cup {NoCall}]

\* A run works for a message that was sent.
Mandates == \A r \in Runs : onBehalf[r] # NoCall => pc[onBehalf[r]] # "idle"

OkRan == \A c \in Calls : result[c] = "Ok" => served[c] = 1

BusInv == IInv /\ Slots /\ Fates /\ OkRan

SupInv ==
    /\ BusInv
    /\ RunTypes
    /\ Mandates
    /\ \A r \in Runs : Places(r)

-----------------------------------------------------------------------------
(* The bus under the supervisors *)

\* A call that has not begun stays so, and one that returned keeps its result: but for the
\* call that moves.
OthersStay(c) ==
    \A d \in Calls \ {c} : pc[d] \in Settled => pc'[d] = pc[d] /\ result'[d] = result[d]

AllStay ==
    \A d \in Calls : pc[d] \in Settled => pc'[d] = pc[d] /\ result'[d] = result[d]

\* A freed slot wakes a call that waits for it, and no other.
LEMMA WakesOnlyWaiting ==
    ASSUME IInv, Slots, NEW ch \in Chans, Release(ch)
    PROVE  \A d \in Calls : \/ Woken(ch, pc)[d] = pc[d]
                            \/ pc[d] = "blocked" /\ Woken(ch, pc)[d] = "granted"
<1> DEFINE first == Head(waiting[ch])
<1>1. LineOf(ch) /\ pc \in [Calls -> PCs]
  BY DEF Slots, IInv, TypeOK
<1>2. \/ Woken(ch, pc) = pc
      \/ /\ Woken(ch, pc) = [pc EXCEPT ![first] = "granted"]
         /\ first \in Calls /\ pc[first] = "blocked"
  BY <1>1, Released
<1> HIDE DEF first
<1> QED
  BY <1>1, <1>2

LEMMA LookupStays ==
    ASSUME IInv, NEW c \in Calls, NEW n \in Names, Lookup(c, n) PROVE OthersStay(c)
  BY DEF Lookup, Return, OthersStay, IInv, TypeOK

LEMMA CancelStays ==
    ASSUME IInv, Slots, NEW c \in Calls, Cancel(c)
    PROVE  OthersStay(c) /\ pc'[c] = "done"
<1>1. pc \in [Calls -> PCs] /\ result \in [Calls -> Results]
  BY DEF IInv, TypeOK
<1>2. CASE CancelBlocked(c) \/ CancelAwaiting(c)
  BY <1>1, <1>2 DEF CancelBlocked, CancelAwaiting, Return, OthersStay
<1>3. CASE CancelGranted(c)
  <2>1. tx[c] \in Chans /\ Release(tx[c])
    BY <1>3 DEF CancelGranted, IInv, Known, Pending, TypeOK
  <2>2. \A d \in Calls : pc[d] \in Settled => Woken(tx[c], pc)[d] = pc[d]
    BY <2>1, WakesOnlyWaiting DEF Settled
  <2>3. Woken(tx[c], pc) \in [Calls -> PCs]
    BY <2>1, ReleaseWakes
  <2>4. /\ pc' = [Woken(tx[c], pc) EXCEPT ![c] = "done"]
        /\ result' = [result EXCEPT ![c] = "Cancelled"]
    BY <1>3 DEF CancelGranted
  <2> QED
    BY <1>1, <2>2, <2>3, <2>4 DEF OthersStay
<1> QED
  BY <1>2, <1>3 DEF Cancel

LEMMA BusStays ==
    ASSUME IInv, NEW c \in Calls, Transmit(c) \/ Collect(c) PROVE AllStay
<1>1. /\ pc[c] \notin Settled
      /\ \A d \in Calls \ {c} : pc'[d] = pc[d] /\ result'[d] = result[d]
  BY DEF Transmit, Send, SendGranted, SendRefused, Collect, Push, Return, Settled, IInv, TypeOK
<1> QED
  BY <1>1 DEF AllStay

LEMMA WorkerStays ==
    ASSUME IInv, Slots, NEW ch \in Chans, WorkerNext(ch) PROVE AllStay
<1>1. CASE Recv(ch)
  <2>1. Release(ch) /\ pc' = Woken(ch, pc) /\ UNCHANGED result
    BY <1>1 DEF Recv
  <2> QED
    BY <2>1, WakesOnlyWaiting DEF AllStay, Settled
<1>2. CASE UNCHANGED <<pc, result>>
  BY <1>2 DEF AllStay
<1> QED
  BY <1>1, <1>2 DEF WorkerNext, Reply, DropReply, Answer, DropReceiver

\* No call is ever idle again.
LEMMA NeverIdleAgain ==
    ASSUME IInv, Slots, Next PROVE \A d \in Calls : pc[d] # "idle" => pc'[d] # "idle"
<1>0. pc \in [Calls -> PCs]
  BY DEF IInv, TypeOK
<1>1. ASSUME NEW c \in Calls, CallNext(c)
      PROVE  \A d \in Calls : pc[d] # "idle" => pc'[d] # "idle"
  <2>1. CASE CancelGranted(c)
    <3>1. /\ pc' = [Woken(tx[c], pc) EXCEPT ![c] = "done"]
          /\ tx[c] \in Chans /\ Release(tx[c])
      BY <2>1 DEF CancelGranted, IInv, Known, Pending, TypeOK
    <3>2. /\ Woken(tx[c], pc) \in [Calls -> PCs]
          /\ \A d \in Calls : pc[d] # "idle" => Woken(tx[c], pc)[d] # "idle"
      BY <3>1, ReleaseWakes, WakesOnlyWaiting
    <3> QED
      BY <3>1, <3>2
  <2>2. CASE \E where \in PCs \ {"idle"} : pc' = [pc EXCEPT ![c] = where]
    BY <1>0, <2>2
  <2> QED
    BY <1>1, <2>1, <2>2
    DEF CallNext, Lookup, Send, SendGranted, SendRefused, Collect, Push, Return, Cancel,
        CancelBlocked, CancelAwaiting, PCs
<1>2. ASSUME NEW ch \in Chans, WorkerNext(ch)
      PROVE  \A d \in Calls : pc[d] # "idle" => pc'[d] # "idle"
  <2>1. CASE Recv(ch)
    BY <2>1, WakesOnlyWaiting DEF Recv
  <2>2. CASE UNCHANGED pc
    BY <2>2
  <2> QED
    BY <1>2, <2>1, <2>2 DEF WorkerNext, Reply, DropReply, Answer, DropReceiver
<1>3. ASSUME NEW n \in Names, NEW ch \in Chans, Register(n, ch) PROVE UNCHANGED pc
  BY <1>3 DEF Register
<1> QED
  BY <1>1, <1>2, <1>3 DEF Next

\* What Ok promises stays true: the service that the bus implements never takes it back.
LEMMA OkRanKept == BusInv /\ [Next]_vars => OkRan'
<1> SUFFICES ASSUME BusInv, [Next]_vars PROVE OkRan'
  OBVIOUS
<1>1. [Service!Next]_Service!vars
  BY NextRefines DEF BusInv
<1>2. served \in [Calls -> Nat] /\ result \in [Calls -> Results]
  BY DEF BusInv, IInv, TypeOK
<1>3. CASE UNCHANGED Service!vars
  BY <1>3 DEF Service!vars, BusInv, OkRan
<1>4. ASSUME NEW c \in Calls, Service!Invoke(c) PROVE OkRan'
  BY <1>4 DEF Service!Invoke, BusInv, OkRan
<1>5. ASSUME NEW c \in Calls, Service!Accept(c) PROVE OkRan'
  BY <1>2, <1>5 DEF Service!Accept, BusInv, OkRan
<1>6. ASSUME NEW c \in Calls, NEW o \in Service!Outcomes \ {"none"}, Service!Return(c, o)
      PROVE  OkRan'
  BY <1>2, <1>6 DEF Service!Return, BusInv, OkRan
<1> QED
  BY <1>1, <1>3, <1>4, <1>5, <1>6 DEF Service!Next

LEMMA BusInvKept == BusInv /\ [Next]_vars => BusInv'
  BY NextKeeps, NextSlots, NextFates, OkRanKept DEF BusInv

-----------------------------------------------------------------------------
(* A run and its calls *)

LEMMA CallOf ==
    /\ \A r \in Runs, i \in 1 .. MaxSubtasks : <<r, i>> \in Calls
    /\ \A c \in Calls : /\ c = <<c[1], c[2]>>
                        /\ c[1] \in Runs /\ c[2] \in 1 .. MaxSubtasks
  BY SupervisorCalls

\* A run that moves none of its variables keeps its places while its calls settle only.
LEMMA PlacesKept ==
    ASSUME SupInv, NEW r \in Runs,
           \A i \in 1 .. MaxSubtasks :
               pc[<<r, i>>] \in Settled =>
                   pc'[<<r, i>>] = pc[<<r, i>>] /\ result'[<<r, i>>] = result[<<r, i>>],
           phase'[r] = phase[r], plan'[r] = plan[r], at'[r] = at[r],
           output'[r] = output[r], steps'[r] = steps[r]
    PROVE  Places(r)'
  BY DEF SupInv, Places, Settled

LEMMA MandatesKept ==
    ASSUME SupInv, onBehalf' = onBehalf, Next \/ UNCHANGED vars PROVE Mandates'
<1>1. \A d \in Calls : pc[d] # "idle" => pc'[d] # "idle"
  BY NeverIdleAgain DEF SupInv, BusInv, vars
<1> QED
  BY <1>1 DEF SupInv, Mandates, RunTypes

-----------------------------------------------------------------------------
(* The steps of a run *)

LEMMA InitSup == SupInit => SupInv
<1> SUFFICES ASSUME SupInit PROVE SupInv
  OBVIOUS
<1>1. BusInv
  <2>1. OkRan
    BY DEF SupInit, Init, OkRan
  <2> QED
    BY <2>1, InitEstablishes, InitSlots, InitFates DEF SupInit, BusInv
<1>2. RunTypes
  BY MaxSubtasksAssumption DEF SupInit, RunTypes, Phases, Outputs
<1>3. Mandates
  BY DEF SupInit, Mandates
<1>4. ASSUME NEW r \in Runs PROVE Places(r)
  <2>1. \A i \in 1 .. MaxSubtasks : pc[<<r, i>>] = "idle"
    BY CallOf DEF SupInit, Init
  <2>2. phase[r] = "idle" /\ plan[r] = <<>> /\ at[r] = 1
    BY DEF SupInit
  <2> QED
    BY <2>1, <2>2, MaxSubtasksAssumption DEF Places
<1> QED
  BY <1>1, <1>2, <1>3, <1>4 DEF SupInv

\* A message that a worker holds was sent.
LEMMA HeldWasSent ==
    ASSUME SupInv, NEW ch \in Chans, NEW c \in held[ch]
    PROVE  c \in Calls /\ pc[c] # "idle"
<1>1. c \in Calls
  BY DEF SupInv, BusInv, IInv, TypeOK
<1> QED
  BY <1>1 DEF SupInv, BusInv, Fates, Messages, Fate

LEMMA StartKeeps ==
    ASSUME SupInv, NEW r \in Runs, phase[r] = "idle",
           phase' = [phase EXCEPT ![r] = "decomposing"],
           UNCHANGED <<vars, plan, at, output, steps>>,
           \/ UNCHANGED onBehalf
           \/ \E ch \in Chans : \E c \in held[ch] : onBehalf' = [onBehalf EXCEPT ![r] = c]
    PROVE  SupInv'
<1>1. RunTypes'
  <2>1. onBehalf' \in [Runs -> Calls \cup {NoCall}]
    BY HeldWasSent DEF SupInv, RunTypes
  <2> QED
    BY <2>1 DEF SupInv, RunTypes, Phases
<1>2. Mandates'
  BY HeldWasSent DEF SupInv, Mandates, RunTypes, vars
<1>3. BusInv'
  BY BusInvKept DEF SupInv, vars
<1>4. ASSUME NEW q \in Runs PROVE Places(q)'
  <2>1. Places(q) /\ UNCHANGED <<pc, result>>
    BY DEF SupInv, vars
  <2>2. phase'[q] = IF q = r THEN "decomposing" ELSE phase[q]
    BY DEF SupInv, RunTypes
  <2> QED
    BY <2>1, <2>2 DEF Places
<1> QED
  BY <1>1, <1>2, <1>3, <1>4 DEF SupInv

\* A run returns or panics, or gets its plan, and its calls stay where they are.
LEMMA DecomposedKeeps ==
    ASSUME SupInv, NEW r \in Runs, phase[r] = "decomposing",
           UNCHANGED <<vars, at, onBehalf>>,
           NEW p \in Seq(Names), Len(p) <= MaxSubtasks, plan' = [plan EXCEPT ![r] = p],
           NEW f \in {"returned", "panicked", "dispatching"},
           phase' = [phase EXCEPT ![r] = f],
           f = "dispatching" => p # <<>>,
           NEW o \in Outputs, output' = [output EXCEPT ![r] = o],
           UNCHANGED steps \/ steps' = [steps EXCEPT ![r] = 0],
           f = "returned" /\ o = "Ok" => p = <<>> /\ steps'[r] = 0
    PROVE  SupInv'
<1>0. RunTypes
  BY DEF SupInv
<1>1. RunTypes'
  <2>1. steps' \in [Runs -> 0 .. MaxSubtasks]
    <3>1. steps \in [Runs -> 0 .. MaxSubtasks] /\ 0 \in 0 .. MaxSubtasks
      BY <1>0, MaxSubtasksAssumption DEF RunTypes
    <3> QED
      BY <3>1
  <2>2. phase' \in [Runs -> Phases] /\ plan' \in [Runs -> Seq(Names)]
    BY <1>0 DEF RunTypes, Phases
  <2>3. output' \in [Runs -> Outputs] /\ UNCHANGED <<at, onBehalf>>
    BY <1>0 DEF RunTypes
  <2> QED
    BY <1>0, <2>1, <2>2, <2>3 DEF RunTypes
<1>2. Mandates'
  BY MandatesKept DEF vars
<1>3. BusInv'
  BY BusInvKept DEF SupInv, vars
<1>4. ASSUME NEW q \in Runs, q # r PROVE Places(q)'
  BY <1>0, <1>4, PlacesKept DEF RunTypes, vars
<1>5. Places(r)'
  <2>1. /\ phase'[r] = f /\ plan'[r] = p /\ at'[r] = 1 /\ output'[r] = o
        /\ \A i \in 1 .. MaxSubtasks : pc'[<<r, i>>] = "idle"
    BY <1>0 DEF RunTypes, SupInv, Places, vars
  <2> QED
    BY <2>1, MaxSubtasksAssumption DEF Places, Settled
<1> QED
  BY <1>1, <1>2, <1>3, <1>4, <1>5 DEF SupInv

LEMMA PlanOfText ==
    ASSUME NEW S \in SUBSET Names, NEW t \in Texts(S)
    PROVE  t.names \in Seq(Names) /\ Len(t.names) <= MaxSubtasks
<1> DEFINE Refused == {Text(i, j, FALSE, <<>>) : i \in 0 .. 3, j \in 0 .. 3}
           Accepted == {Text(1, 2, TRUE, p) : p \in Plans(S)}
<1>0. Texts(S) = Refused \cup Accepted
  BY DEF Texts
<1>1. CASE t \in Refused
  <2>1. t.names = <<>>
    BY <1>1 DEF Text
  <2> QED
    BY <2>1, MaxSubtasksAssumption
<1>2. CASE t \in Accepted
  <2>1. PICK k \in 0 .. MaxSubtasks : t.names \in [1 .. k -> S]
    BY <1>2 DEF Text, Plans
  <2>2. t.names \in [1 .. k -> Names] /\ k \in Nat /\ k <= MaxSubtasks
    BY <2>1, MaxSubtasksAssumption
  <2>3. t.names \in Seq(Names) /\ Len(t.names) = k
    BY <2>2
  <2> QED
    BY <2>2, <2>3
<1> HIDE DEF Refused, Accepted
<1> QED
  BY <1>0, <1>1, <1>2

\* The names that a run may assign to are names: its mandate is a subtask of a plan.
LEMMA AssignableIsNames ==
    ASSUME SupInv, NEW r \in Runs PROVE Assignable(r) \subseteq Names
<1>1. CASE onBehalf[r] = NoCall
  BY <1>1, AssignableAssumption DEF Assignable
<1>2. CASE onBehalf[r] # NoCall
  <2> DEFINE c == onBehalf[r]
             q == c[1]
             i == c[2]
  <2>1. c \in Calls /\ pc[c] # "idle"
    BY <1>2 DEF SupInv, RunTypes, Mandates
  <2>2. c = <<q, i>> /\ q \in Runs /\ i \in 1 .. MaxSubtasks
    BY <2>1, CallOf
  <2>3. i \in 1 .. Len(plan[q]) /\ plan[q] \in Seq(Names)
    <3>1. Places(q) /\ plan[q] \in Seq(Names)
      BY <2>2 DEF SupInv, RunTypes
    <3>2. i <= Len(plan[q])
      BY <2>1, <2>2, <3>1 DEF Places
    <3> QED
      BY <2>2, <3>1, <3>2, MaxSubtasksAssumption
  <2>4. plan[q][i] \in Names
    BY <2>3
  <2> QED
    BY <1>2, <2>4, AssignableAssumption DEF Assignable
<1> QED
  BY <1>1, <1>2

LEMMA DecomposeKeeps ==
    ASSUME SupInv, NEW r \in Runs, NEW t \in Texts(Assignable(r)), Decompose(r, t)
    PROVE  SupInv'
<1>1. t.names \in Seq(Names) /\ Len(t.names) <= MaxSubtasks
  BY AssignableIsNames, PlanOfText
<1>2. /\ phase \in [Runs -> Phases] /\ plan \in [Runs -> Seq(Names)]
      /\ output \in [Runs -> Outputs] /\ Len(plan[r]) <= MaxSubtasks
  BY DEF SupInv, RunTypes, Places
<1>3. CASE ParseSubtasks(t) = "ConfigurationError"
  BY <1>2, <1>3, DecomposedKeeps, plan = [plan EXCEPT ![r] = plan[r]]
  DEF Decompose, Finish, Outputs
<1>4. CASE ParseSubtasks(t) = "panic"
  BY <1>2, <1>4, DecomposedKeeps, plan = [plan EXCEPT ![r] = plan[r]],
     output = [output EXCEPT ![r] = output[r]]
  DEF Decompose
<1>5. CASE ParseSubtasks(t) = "Ok" /\ Len(t.names) = 0
  <2>1. /\ phase[r] = "decomposing" /\ UNCHANGED <<vars, at, onBehalf>>
        /\ plan' = [plan EXCEPT ![r] = t.names]
        /\ phase' = [phase EXCEPT ![r] = "returned"]
        /\ output' = [output EXCEPT ![r] = "Ok"] /\ steps' = [steps EXCEPT ![r] = 0]
    BY <1>5 DEF Decompose, Finish
  <2>2. t.names = <<>> /\ "Ok" \in Outputs /\ steps'[r] = 0
    BY <1>1, <1>5, <2>1 DEF Outputs, SupInv, RunTypes
  <2> QED
    BY <1>1, <2>1, <2>2, DecomposedKeeps
<1>6. CASE ParseSubtasks(t) = "Ok" /\ Len(t.names) # 0
  <2>1. /\ phase[r] = "decomposing" /\ UNCHANGED <<vars, at, onBehalf>>
        /\ plan' = [plan EXCEPT ![r] = t.names]
        /\ phase' = [phase EXCEPT ![r] = "dispatching"]
        /\ output' = [output EXCEPT ![r] = output[r]] /\ UNCHANGED steps
    BY <1>2, <1>6 DEF Decompose
  <2>2. t.names # <<>> /\ output[r] \in Outputs
    BY <1>1, <1>2, <1>6
  <2> HIDE DEF SupInv
  <2> QED
    BY <1>1, <2>1, <2>2, DecomposedKeeps
<1> QED
  BY <1>3, <1>4, <1>5, <1>6 DEF Decompose

LEMMA AskFailsKeeps ==
    ASSUME SupInv, NEW r \in Runs, phase[r] = "decomposing",
           NEW o \in Outputs \ {"Ok"}, Finish(r, o, 0),
           UNCHANGED <<vars, plan, at, onBehalf>>
    PROVE  SupInv'
<1>1. plan' = [plan EXCEPT ![r] = plan[r]]
      /\ plan[r] \in Seq(Names) /\ Len(plan[r]) <= MaxSubtasks
  BY DEF SupInv, RunTypes, Places
<1> QED
  BY <1>1, DecomposedKeeps DEF Finish

\* A run that dispatches is at a subtask of its plan.
LEMMA DispatchingCall ==
    ASSUME SupInv, NEW r \in Runs, phase[r] = "dispatching"
    PROVE  /\ at[r] \in 1 .. MaxSubtasks /\ at[r] \in 1 .. Len(plan[r])
           /\ plan[r] \in Seq(Names) /\ Len(plan[r]) \in 0 .. MaxSubtasks
           /\ Call(r) \in Calls
<1>1. at[r] \in 1 .. MaxSubtasks + 1 /\ plan[r] \in Seq(Names) /\ Places(r)
  BY DEF SupInv, RunTypes
<1>2. at[r] <= Len(plan[r]) /\ Len(plan[r]) <= MaxSubtasks /\ Len(plan[r]) \in Nat
  BY <1>1 DEF Places
<1>3. at[r] \in 1 .. MaxSubtasks
  BY <1>1, <1>2, MaxSubtasksAssumption
<1> QED
  BY <1>1, <1>2, <1>3, CallOf, MaxSubtasksAssumption DEF Call

LEMMA DispatchKeeps == ASSUME SupInv, NEW r \in Runs, Dispatch(r) PROVE SupInv' /\ Next
<1> DEFINE n == plan[r][at[r]]
<1>1. /\ at[r] \in 1 .. MaxSubtasks /\ at[r] \in 1 .. Len(plan[r]) /\ plan[r] \in Seq(Names)
      /\ phase[r] = "dispatching" /\ Call(r) \in Calls
  BY DispatchingCall DEF Dispatch
<1>2. n \in Names /\ Call(r) \in Calls
  BY <1>1
<1>3. Lookup(Call(r), n) /\ UNCHANGED supVars
  BY DEF Dispatch
<1>4. Next
  BY <1>2, <1>3 DEF Next, CallNext
<1>5. BusInv'
  BY <1>4, BusInvKept DEF SupInv
<1>6. OthersStay(Call(r)) /\ pc'[Call(r)] # "idle" /\ pc[Call(r)] = "idle"
  <2>1. OthersStay(Call(r))
    BY <1>2, <1>3, LookupStays DEF SupInv, BusInv
  <2>2. pc \in [Calls -> PCs]
    BY DEF SupInv, BusInv, IInv, TypeOK
  <2> QED
    BY <1>2, <1>3, <2>1, <2>2 DEF Lookup, Return
<1>7. Mandates'
  BY <1>3, <1>4, MandatesKept DEF supVars
<1>8. ASSUME NEW q \in Runs PROVE Places(q)'
  <2>1. CASE q # r
    <3>1. ASSUME NEW i \in 1 .. MaxSubtasks
          PROVE  <<q, i>> \in Calls \ {Call(r)}
      BY <2>1, CallOf DEF Call
    <3> QED
      BY <1>3, <1>6, <3>1, PlacesKept DEF supVars, OthersStay
  <2>2. CASE q = r
    <3>1. ASSUME NEW i \in 1 .. MaxSubtasks, i # at[r]
          PROVE  /\ <<r, i>> \in Calls \ {Call(r)}
                 /\ pc[<<r, i>>] \in Settled
      <4>1. <<r, i>> \in Calls \ {Call(r)}
        BY <3>1, CallOf DEF Call
      <4> QED
        BY <1>1, <3>1, <4>1 DEF SupInv, Places, Settled
    <3>2. ASSUME NEW i \in 1 .. MaxSubtasks, i # at[r]
          PROVE  pc'[<<r, i>>] = pc[<<r, i>>] /\ result'[<<r, i>>] = result[<<r, i>>]
      BY <1>6, <3>1, <3>2 DEF OthersStay
    <3>3. Places(r) /\ UNCHANGED <<phase, plan, at, output, steps>>
      BY <1>3 DEF SupInv, supVars
    <3> QED
      BY <1>1, <2>2, <3>2, <3>3 DEF Places
  <2> QED
    BY <2>1, <2>2
<1>9. RunTypes'
  BY <1>3 DEF SupInv, RunTypes, supVars
<1> QED
  BY <1>4, <1>5, <1>7, <1>8, <1>9 DEF SupInv

\* `send` returned: the call stays done, and the run moves on by one or is over.
LEMMA AfterSendKeeps == ASSUME SupInv, NEW r \in Runs, AfterSend(r) PROVE SupInv'
<1>0. RunTypes /\ Places(r) /\ phase[r] = "dispatching" /\ UNCHANGED <<vars, plan, onBehalf>>
  BY DEF SupInv, AfterSend
<1>1. /\ at[r] \in 1 .. MaxSubtasks /\ at[r] \in 1 .. Len(plan[r])
      /\ plan[r] \in Seq(Names) /\ Len(plan[r]) \in 0 .. MaxSubtasks
  BY <1>0, DispatchingCall
<1>2. pc[<<r, at[r]>>] = "done"
  BY DEF AfterSend, Call
<1>3. /\ \A i \in 1 .. MaxSubtasks : pc[<<r, i>>] \in Settled
      /\ \A i \in 1 .. MaxSubtasks : i > at[r] => pc[<<r, i>>] = "idle"
      /\ \A i \in 1 .. MaxSubtasks : i <= at[r] => pc[<<r, i>>] = "done"
  <2>1. ASSUME NEW i \in 1 .. MaxSubtasks
        PROVE  /\ i > at[r] => pc[<<r, i>>] = "idle"
               /\ i <= at[r] => pc[<<r, i>>] = "done"
    BY <1>0, <1>1, <1>2 DEF Places
  <2> QED
    BY <1>1, <2>1 DEF Settled
<1>4. BusInv' /\ Mandates'
  BY <1>0, BusInvKept, MandatesKept DEF SupInv, vars
<1>5. CASE ~ GoesOnAfter(result[Call(r)])
  <2>1. Finish(r, "ProviderError", 0) /\ UNCHANGED at
    BY <1>5 DEF AfterSend
  <2>2. RunTypes'
    BY <1>0, <2>1, MaxSubtasksAssumption DEF RunTypes, Finish, Phases, Outputs
  <2>3. ASSUME NEW q \in Runs, q # r PROVE Places(q)'
    BY <1>0, <2>1, <2>3, PlacesKept DEF RunTypes, Finish, vars
  <2>4. Places(r)'
    <3>1. phase'[r] = "returned" /\ output'[r] = "ProviderError"
      BY <1>0, <2>1 DEF Finish, RunTypes
    <3> QED
      BY <1>0, <1>3, <2>1, <3>1 DEF Places, vars
  <2> QED
    BY <1>4, <2>2, <2>3, <2>4 DEF SupInv
<1>6. CASE GoesOnAfter(result[Call(r)])
  <2>1. /\ at' = [at EXCEPT ![r] = @ + 1] /\ result[<<r, at[r]>>] = "Ok"
        /\ IF at[r] = Len(plan[r]) THEN Finish(r, "Ok", Len(plan[r]))
           ELSE UNCHANGED <<phase, output, steps>>
    BY <1>6 DEF AfterSend, GoesOnAfter, Call
  <2>2. /\ at'[r] = at[r] + 1 /\ at[r] + 1 \in 1 .. MaxSubtasks + 1
        /\ \A q \in Runs : q # r => at'[q] = at[q]
        /\ at' \in [Runs -> 1 .. MaxSubtasks + 1]
    BY <1>0, <1>1, <2>1, MaxSubtasksAssumption DEF RunTypes
  <2>3. RunTypes'
    <3>1. CASE at[r] = Len(plan[r])
      BY <1>0, <1>1, <2>1, <2>2, <3>1 DEF RunTypes, Finish, Phases, Outputs
    <3>2. CASE at[r] # Len(plan[r])
      BY <1>0, <2>1, <2>2, <3>2 DEF RunTypes
    <3> QED
      BY <3>1, <3>2
  <2>4. ASSUME NEW q \in Runs, q # r PROVE Places(q)'
    BY <1>0, <2>1, <2>2, <2>4, PlacesKept DEF RunTypes, Finish, vars
  <2>5. Places(r)'
    <3>1. UNCHANGED <<pc, result, plan>>
      BY <1>0 DEF vars
    <3>2. ASSUME NEW i \in 1 .. MaxSubtasks
          PROVE  /\ pc[<<r, i>>] # "idle" => i <= at[r] + 1 /\ i <= Len(plan[r])
                 /\ i < at[r] + 1 => pc[<<r, i>>] = "done" /\ result[<<r, i>>] = "Ok"
      BY <1>0, <1>1, <1>3, <2>1 DEF Places
    <3>3. CASE at[r] = Len(plan[r])
      <4>1. phase'[r] = "returned" /\ steps'[r] = Len(plan[r])
        BY <1>0, <2>1, <3>3 DEF Finish, RunTypes
      <4> QED
        BY <1>1, <1>3, <2>2, <3>1, <3>2, <3>3, <4>1 DEF Places
    <3>4. CASE at[r] # Len(plan[r])
      <4>1. phase'[r] = "dispatching"
        BY <1>0, <2>1, <3>4
      <4> QED
        BY <1>1, <2>2, <3>1, <3>2, <3>4, <4>1 DEF Places
    <3> QED
      BY <3>3, <3>4
  <2> QED
    BY <1>4, <2>3, <2>4, <2>5 DEF SupInv
<1> QED
  BY <1>5, <1>6

\* The caller drops the run: the call it waits for, if any, is given up with it.
LEMMA CancelRunKeeps == ASSUME SupInv, NEW r \in Runs, CancelRun(r) PROVE SupInv'
<1>1. CASE phase[r] = "decomposing" /\ UNCHANGED vars
  BY <1>1, AskFailsKeeps DEF CancelRun, Outputs
<1>2. CASE phase[r] = "dispatching" /\ Cancel(Call(r))
  <2>0. /\ RunTypes /\ Places(r) /\ Finish(r, "Cancelled", 0)
        /\ UNCHANGED <<plan, at, onBehalf>> /\ IInv /\ Slots
    BY DEF SupInv, BusInv, CancelRun
  <2>1. at[r] \in 1 .. MaxSubtasks /\ at[r] \in 1 .. Len(plan[r]) /\ Call(r) \in Calls
    BY <1>2, DispatchingCall
  <2>2. Call(r) \in Calls
    BY <2>1
  <2>3. OthersStay(Call(r)) /\ pc'[Call(r)] = "done"
    BY <1>2, <2>0, <2>2, CancelStays
  <2>4. BusInv'
    BY <1>2, <2>2, BusInvKept DEF SupInv, Next, CallNext
  <2>5. Mandates'
    BY <1>2, <2>0, <2>2, MandatesKept DEF Next, CallNext
  <2>6. RunTypes'
    BY <2>0, MaxSubtasksAssumption DEF RunTypes, Finish, Phases, Outputs
  <2>7. ASSUME NEW q \in Runs, q # r PROVE Places(q)'
    <3>1. ASSUME NEW i \in 1 .. MaxSubtasks PROVE <<q, i>> \in Calls \ {Call(r)}
      BY <2>7, CallOf DEF Call
    <3>2. /\ phase'[q] = phase[q] /\ output'[q] = output[q] /\ steps'[q] = steps[q]
      BY <2>0, <2>7 DEF RunTypes, Finish
    <3> QED
      BY <2>0, <2>3, <3>1, <3>2, PlacesKept DEF OthersStay
  <2>8. Places(r)'
    <3>1. phase'[r] = "returned" /\ output'[r] = "Cancelled"
      BY <2>0 DEF Finish, RunTypes
    <3>2. ASSUME NEW i \in 1 .. MaxSubtasks, i # at[r]
          PROVE  /\ pc[<<r, i>>] \in Settled
                 /\ pc'[<<r, i>>] = pc[<<r, i>>] /\ result'[<<r, i>>] = result[<<r, i>>]
      <4>1. <<r, i>> \in Calls \ {Call(r)}
        BY <3>2, CallOf DEF Call
      <4>2. pc[<<r, i>>] \in Settled
        BY <2>0, <2>1, <3>2 DEF Places, Settled
      <4> QED
        BY <2>3, <4>1, <4>2 DEF OthersStay
    <3>3. pc'[<<r, at[r]>>] = "done"
      BY <2>3 DEF Call
    <3> QED
      BY <2>0, <2>1, <3>1, <3>2, <3>3 DEF Places, Settled
  <2> QED
    BY <2>4, <2>5, <2>6, <2>7, <2>8 DEF SupInv
<1> QED
  BY <1>1, <1>2 DEF CancelRun

\* The bus moves under the runs.
LEMMA BusStepKeeps ==
    ASSUME SupInv, AllStay, Next, UNCHANGED supVars PROVE SupInv'
<1>1. BusInv' /\ Mandates'
  BY BusInvKept, MandatesKept DEF SupInv, supVars
<1>2. RunTypes'
  BY DEF SupInv, RunTypes, supVars
<1>3. ASSUME NEW r \in Runs PROVE Places(r)'
  BY CallOf, PlacesKept DEF AllStay, supVars
<1> QED
  BY <1>1, <1>2, <1>3 DEF SupInv

LEMMA SupNextKeeps == SupInv /\ [SupNext]_allVars => SupInv' /\ [Next]_vars
<1> SUFFICES ASSUME SupInv, [SupNext]_allVars PROVE SupInv' /\ (Next \/ UNCHANGED vars)
  OBVIOUS
<1>0. IInv /\ Slots
  BY DEF SupInv, BusInv
<1>1. ASSUME NEW n \in Names, NEW ch \in Chans, Register(n, ch), UNCHANGED supVars
      PROVE  SupInv' /\ Next
  BY <1>1, BusStepKeeps DEF Next, Register, AllStay
<1>2. ASSUME NEW r \in Runs, Start(r) \/ ServiceAnswers(r) \/ RunStep(r) \/ CancelRun(r)
      PROVE  SupInv' /\ (Next \/ UNCHANGED vars)
  <2>1. CASE Start(r)
    BY <2>1, StartKeeps DEF Start
  <2>2. CASE ProviderFails(r) \/ NoText(r)
    BY <2>2, AskFailsKeeps DEF ProviderFails, NoText, Outputs
  <2>3. ASSUME NEW t \in Texts(Assignable(r)), Decompose(r, t) PROVE SupInv' /\ UNCHANGED vars
    BY <2>3, DecomposeKeeps DEF Decompose
  <2>4. CASE Dispatch(r)
    BY <2>4, DispatchKeeps
  <2>5. CASE AfterSend(r)
    BY <2>5, AfterSendKeeps DEF AfterSend
  <2>6. CASE CancelRun(r)
    <3>1. CASE phase[r] = "dispatching" /\ Cancel(Call(r))
      <4>1. Call(r) \in Calls
        BY <3>1, DispatchingCall
      <4> QED
        BY <2>6, <3>1, <4>1, CancelRunKeeps DEF Next, CallNext
    <3> QED
      BY <2>6, <3>1, CancelRunKeeps DEF CancelRun
  <2> QED
    BY <1>2, <2>1, <2>2, <2>3, <2>4, <2>5, <2>6 DEF ServiceAnswers, RunStep
<1>3. ASSUME NEW r \in Runs, NEW ch \in Chans, NEW c \in Calls, StartFor(r, ch, c)
      PROVE  SupInv' /\ UNCHANGED vars
  BY <1>3, StartKeeps DEF StartFor
<1>4. ASSUME NEW c \in Calls, BusStep(c) PROVE SupInv' /\ Next
  <2>1. Next /\ UNCHANGED supVars
    BY <1>4 DEF BusStep, Next, CallNext, Transmit
  <2> QED
    BY <1>0, <1>4, <2>1, BusStays, BusStepKeeps DEF BusStep
<1>5. ASSUME NEW ch \in Chans, WorkerNext(ch), UNCHANGED supVars PROVE SupInv' /\ Next
  BY <1>0, <1>5, WorkerStays, BusStepKeeps DEF Next
<1>6. ASSUME NEW ch \in Chans, WorkerStep(ch) PROVE SupInv' /\ Next
  BY <1>5, <1>6 DEF WorkerStep, WorkerNext
<1>7. ASSUME NEW ch \in Chans, NEW c \in Calls, AnswerHeld(ch, c) PROVE SupInv' /\ Next
  BY <1>5, <1>7 DEF AnswerHeld, WorkerNext
<1>8. CASE UNCHANGED allVars
  <2>1. UNCHANGED <<vars, supVars, pc, result>>
    BY <1>8 DEF allVars, vars
  <2>2. BusInv' /\ Mandates'
    BY <2>1, BusInvKept, MandatesKept DEF SupInv, supVars
  <2>3. ASSUME NEW r \in Runs PROVE Places(r)'
    BY <2>1, PlacesKept DEF supVars
  <2> QED
    BY <2>1, <2>2, <2>3 DEF SupInv, RunTypes, supVars
<1> QED
  BY <1>1, <1>2, <1>3, <1>4, <1>6, <1>7, <1>8 DEF SupNext

-----------------------------------------------------------------------------
(* The theorems *)

THEOREM SupInductiveInvariant == SupSpec => []SupInv
<1>1. SupInv /\ [SupNext]_allVars => SupInv'
  BY SupNextKeeps
<1> QED
  BY <1>1, InitSup, PTL DEF SupSpec

\* The runs and the bus keep their types: the index of a subtask never leaves the plan,
\* and what a run that works for a message may assign to is defined
\* (supervisor.rs:130-149).
THEOREM SupTypeCorrect == SupSpec => []SupTypeOK
<1>1. SupInv => SupTypeOK
  BY DEF SupInv, BusInv, IInv, RunTypes, SupTypeOK
<1> QED
  BY <1>1, SupInductiveInvariant, PTL

\* However many supervisors run at once or for one another, and whatever workers,
\* registrations and cancelled callers do: no subtask goes out before every earlier one
\* was carried out by a worker and answered (supervisor.rs:134-141).
THEOREM SubtasksInOrder == SupSpec => []InOrder
<1>1. SupInv => InOrder
  <2> SUFFICES ASSUME SupInv, NEW r \in Runs, NEW i \in 1 .. MaxSubtasks,
                      pc[<<r, i>>] # "idle", NEW j \in 1 .. i - 1
               PROVE  result[<<r, j>>] = "Ok" /\ served[<<r, j>>] = 1
    BY DEF InOrder
  <2>1. j \in 1 .. MaxSubtasks /\ j < i /\ Places(r) /\ at[r] \in 1 .. MaxSubtasks + 1
    BY MaxSubtasksAssumption DEF SupInv, RunTypes
  <2>2. result[<<r, j>>] = "Ok"
    BY <2>1 DEF Places
  <2> QED
    BY <2>1, <2>2, CallOf DEF SupInv, BusInv, OkRan
<1> QED
  BY <1>1, SupInductiveInvariant, PTL

\* A run that returns Ok had its whole plan carried out, each subtask by one worker and
\* once; a run that is over leaves no call on the bus (supervisor.rs:143-149).
THEOREM OkMeansThePlanWasDone == SupSpec => []OkMeansAllDone
<1>1. SupInv => OkMeansAllDone
  <2> SUFFICES ASSUME SupInv, NEW r \in Runs, phase[r] = "returned"
               PROVE  /\ output[r] = "Ok" => /\ steps[r] = Len(plan[r])
                                             /\ \A i \in 1 .. steps[r] : served[<<r, i>>] = 1
                      /\ \A i \in 1 .. MaxSubtasks : pc[<<r, i>>] \in {"idle", "done"}
    BY DEF OkMeansAllDone
  <2>1. Places(r) /\ steps[r] \in 0 .. MaxSubtasks
    BY DEF SupInv, RunTypes
  <2>2. ASSUME output[r] = "Ok", NEW i \in 1 .. steps[r] PROVE served[<<r, i>>] = 1
    <3>1. i \in 1 .. MaxSubtasks /\ i < at[r]
      BY <2>1, <2>2, MaxSubtasksAssumption DEF Places
    <3>2. result[<<r, i>>] = "Ok"
      BY <2>1, <3>1 DEF Places
    <3> QED
      BY <3>1, <3>2, CallOf DEF SupInv, BusInv, OkRan
  <2> QED
    BY <2>1, <2>2 DEF Places, Settled
<1> QED
  BY <1>1, SupInductiveInvariant, PTL

\* The bus under the supervisors is the bus of AgentBus: what is proved of it holds here.
THEOREM SupervisorUsesTheBus == SupSpec => Spec
<1>1. SupInit => Init
  BY DEF SupInit
<1>2. SupInv /\ [SupNext]_allVars => [Next]_vars
  BY SupNextKeeps
<1> QED
  BY <1>1, <1>2, SupInductiveInvariant, PTL DEF SupSpec, Spec

=============================================================================
