----------------------------- MODULE BusService -----------------------------
(***************************************************************************)
(* What RoosAgentBus::send promises its caller, with no queues, channels   *)
(* or registrations in sight.  A call is one execution of `send`.  It is   *)
(* accepted by a worker at most once, and what it returns tells the caller *)
(* whether that happened: AgentNotFound and SendError mean the task was    *)
(* never started and never will be, Ok means it was, and only RecvError    *)
(* or a cancelled future leaves the question open.                         *)
(***************************************************************************)
EXTENDS Naturals

CONSTANT Calls

VARIABLES
    stage,      \* stage[c] \in Stages: where the caller is
    runs,       \* runs[c]: how many times a worker accepted the task of c
    outcome     \* outcome[c]: what the call returned

vars == <<stage, runs, outcome>>

Stages == {"new", "pending", "returned"}

\* The results of `send`; "Cancelled" stands for a caller that dropped the future.
Outcomes == {"none", "Ok", "AgentNotFound", "SendError", "RecvError", "Cancelled"}

\* Results that promise the caller that no worker ever sees the task.
NotRun == {"AgentNotFound", "SendError"}

TypeOK ==
    /\ stage \in [Calls -> Stages]
    /\ runs \in [Calls -> Nat]
    /\ outcome \in [Calls -> Outcomes]

Init ==
    /\ stage = [c \in Calls |-> "new"]
    /\ runs = [c \in Calls |-> 0]
    /\ outcome = [c \in Calls |-> "none"]

Invoke(c) ==
    /\ stage[c] = "new"
    /\ stage' = [stage EXCEPT ![c] = "pending"]
    /\ UNCHANGED <<runs, outcome>>

\* A worker takes the task: once, and only while the caller still counts on it
\* or has walked away from it.
Accept(c) ==
    /\ stage[c] = "pending" \/ outcome[c] = "Cancelled"
    /\ runs[c] = 0
    /\ runs' = [runs EXCEPT ![c] = 1]
    /\ UNCHANGED <<stage, outcome>>

Return(c, o) ==
    /\ stage[c] # "returned"
    /\ o = "Ok" => runs[c] = 1
    /\ o \in NotRun => runs[c] = 0
    /\ stage' = [stage EXCEPT ![c] = "returned"]
    /\ outcome' = [outcome EXCEPT ![c] = o]
    /\ UNCHANGED runs

Next ==
    \E c \in Calls :
        \/ Invoke(c)
        \/ Accept(c)
        \/ \E o \in Outcomes \ {"none"} : Return(c, o)

Spec == Init /\ [][Next]_vars

=============================================================================
