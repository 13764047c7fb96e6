------------------------------ MODULE AgentBus ------------------------------
(***************************************************************************)
(* The point-to-point half of roos-core/src/bus.rs: agents register a      *)
(* name and own the receiver of a bounded tokio mpsc channel, callers      *)
(* `send` a task and await the answer on a oneshot channel.                *)
(*                                                                         *)
(* A call (element of Calls) is one execution of `send`, split where the   *)
(* code releases the registry lock or awaits: between two steps of a call  *)
(* any other call, worker or registration may move.  A channel (element of *)
(* Chans) is what one execution of `register` creates.  The tokio channels *)
(* are external: they are modelled by the semaphore, the FIFO of waiting   *)
(* senders and the queue that bus.rs relies on.                            *)
(***************************************************************************)
EXTENDS Naturals, Sequences, FiniteSets

CONSTANTS
    Calls,          \* executions of `send`
    Names,          \* agent names
    Chans,          \* channels, one for each execution of `register`
    QueueCapacity,  \* AGENT_QUEUE_CAPACITY
    Concurrency,    \* how many messages one worker works on at a time
    NoChan          \* "no sender": an absent key of the registry

ASSUME CapacityAssumption == QueueCapacity \in Nat \ {0}
ASSUME ConcurrencyAssumption == Concurrency \in Nat \ {0}
ASSUME CallsAssumption == IsFiniteSet(Calls)
ASSUME NoChanAssumption == NoChan \notin Chans

VARIABLES
    agents,     \* agents[n]: the Sender stored under name n
    made,       \* the channels `register` has created
    open,       \* the channels whose Receiver has not been dropped
    permits,    \* permits[ch]: free slots not promised to a waiting sender
    queue,      \* queue[ch]: messages sent and not yet received
    waiting,    \* waiting[ch]: calls blocked in Sender::send, oldest first
    held,       \* held[ch]: messages received and not yet answered
    pc,         \* pc[c]: where the call is in `send`
    tx,         \* tx[c]: the Sender the call cloned out of the registry
    reply,      \* reply[c]: state of the call's oneshot channel
    result,     \* result[c]: what the call returned
    served      \* served[c]: how many times a worker received the message

chanVars == <<permits, queue, waiting, held>>
vars == <<agents, made, open, permits, queue, waiting, held,
          pc, tx, reply, result, served>>

PCs == {"idle", "ready", "blocked", "granted", "awaiting", "done"}

\* "closed": the caller dropped reply_rx before an answer came.
Oneshots == {"none", "open", "sent", "dropped", "closed"}

Results == {"none", "Ok", "AgentNotFound", "SendError", "RecvError", "Cancelled"}

In(e, s) == \E i \in 1 .. Len(s) : s[i] = e

TypeOK ==
    /\ agents \in [Names -> Chans \cup {NoChan}]
    /\ made \in SUBSET Chans
    /\ open \in SUBSET made
    /\ permits \in [Chans -> Nat]
    /\ queue \in [Chans -> Seq(Calls)]
    /\ waiting \in [Chans -> Seq(Calls)]
    /\ held \in [Chans -> SUBSET Calls]
    /\ pc \in [Calls -> PCs]
    /\ tx \in [Calls -> Chans \cup {NoChan}]
    /\ reply \in [Calls -> Oneshots]
    /\ result \in [Calls -> Results]
    /\ served \in [Calls -> Nat]

Init ==
    /\ agents = [n \in Names |-> NoChan]
    /\ made = {}
    /\ open = {}
    /\ permits = [ch \in Chans |-> QueueCapacity]
    /\ queue = [ch \in Chans |-> <<>>]
    /\ waiting = [ch \in Chans |-> <<>>]
    /\ held = [ch \in Chans |-> {}]
    /\ pc = [c \in Calls |-> "idle"]
    /\ tx = [c \in Calls |-> NoChan]
    /\ reply = [c \in Calls |-> "none"]
    /\ result = [c \in Calls |-> "none"]
    /\ served = [c \in Calls |-> 0]

-----------------------------------------------------------------------------
(* The semaphore of a bounded channel *)

\* A slot of ch is free again: it goes to the oldest waiting sender if there is one.
ReleaseForgetsWaiter(ch) ==
    /\ permits' = [permits EXCEPT ![ch] = @ + 1]
    /\ UNCHANGED waiting

Release(ch) ==
    IF waiting[ch] = <<>>
    THEN /\ permits' = [permits EXCEPT ![ch] = @ + 1]
         /\ UNCHANGED waiting
    ELSE /\ waiting' = [waiting EXCEPT ![ch] = Tail(@)]
         /\ UNCHANGED permits

\* pcs after that release: the waiting sender that got the slot can go on.
Woken(ch, pcs) ==
    IF waiting[ch] = <<>> THEN pcs
    ELSE [pcs EXCEPT ![Head(waiting[ch])] = "granted"]

\* The clone kept after the call returned.
SendingLeaked(ch) == {c \in Calls : tx[c] = ch}

\* The calls that own a clone of the Sender of ch.
Sending(ch) ==
    {c \in Calls : tx[c] = ch /\ pc[c] \in {"ready", "blocked", "granted", "awaiting"}}

NoSenderLeft(ch) == (\A n \in Names : agents[n] # ch) /\ Sending(ch) = {}

-----------------------------------------------------------------------------
(* RoosAgentBus::register *)

\* A second registration of a name replaces the Sender of the first.
Register(n, ch) ==
    /\ ch \notin made
    /\ made' = made \cup {ch}
    /\ open' = open \cup {ch}
    /\ agents' = [agents EXCEPT ![n] = ch]
    /\ UNCHANGED <<chanVars, pc, tx, reply, result, served>>

-----------------------------------------------------------------------------
(* RoosAgentBus::send *)

Return(c, r) ==
    /\ pc' = [pc EXCEPT ![c] = "done"]
    /\ result' = [result EXCEPT ![c] = r]

\* The registry is read under its lock; the cloned Sender outlives the lock.
Lookup(c, n) ==
    /\ pc[c] = "idle"
    /\ \/ /\ agents[n] = NoChan
          /\ Return(c, "AgentNotFound")
          /\ UNCHANGED tx
       \/ /\ agents[n] # NoChan
          /\ tx' = [tx EXCEPT ![c] = agents[n]]
          /\ pc' = [pc EXCEPT ![c] = "ready"]
          /\ UNCHANGED result
    /\ UNCHANGED <<agents, made, open, chanVars, reply, served>>

Push(c) ==
    /\ queue' = [queue EXCEPT ![tx[c]] = Append(@, c)]
    /\ reply' = [reply EXCEPT ![c] = "open"]
    /\ pc' = [pc EXCEPT ![c] = "awaiting"]

SlotAlwaysFree(ch) == TRUE
SlotFree(ch) == permits[ch] > 0

\* First poll of tx.send(..).await: take a free slot or queue for one.
Send(c) ==
    /\ pc[c] = "ready"
    /\ tx[c] \in open
    /\ \/ /\ SlotFree(tx[c])
          /\ permits' = [permits EXCEPT ![tx[c]] = @ - 1]
          /\ Push(c)
          /\ UNCHANGED waiting
       \/ /\ ~ SlotFree(tx[c])
          /\ waiting' = [waiting EXCEPT ![tx[c]] = Append(@, c)]
          /\ pc' = [pc EXCEPT ![c] = "blocked"]
          /\ UNCHANGED <<permits, queue, reply>>
    /\ UNCHANGED <<agents, made, open, held, tx, result, served>>

SendGranted(c) ==
    /\ pc[c] = "granted"
    /\ tx[c] \in open
    /\ Push(c)
    /\ UNCHANGED <<agents, made, open, permits, waiting, held, tx, result, served>>

\* The receiver is gone: every pending send fails, a granted one too.
SendRefused(c) ==
    /\ pc[c] \in {"ready", "blocked", "granted"}
    /\ tx[c] \notin open
    /\ Return(c, "SendError")
    /\ UNCHANGED <<agents, made, open, chanVars, tx, reply, served>>

Transmit(c) == Send(c) \/ SendGranted(c) \/ SendRefused(c)

\* reply_rx.await: what the state of the oneshot channel makes of the call.
ReplyOutcomeAlwaysOk(r) == "Ok"

ReplyOutcome(r) == IF r = "sent" THEN "Ok" ELSE "RecvError"

Collect(c) ==
    /\ pc[c] = "awaiting"
    /\ reply[c] \in {"sent", "dropped"}
    /\ Return(c, ReplyOutcome(reply[c]))
    /\ UNCHANGED <<agents, made, open, chanVars, tx, reply, served>>

\* The caller drops the future at one of its await points.
CancelBlocked(c) ==
    /\ pc[c] = "blocked"
    /\ tx[c] \in open => \E i \in 1 .. Len(waiting[tx[c]]) :
            /\ waiting[tx[c]][i] = c
            /\ waiting' = [waiting EXCEPT ![tx[c]] =
                    SubSeq(@, 1, i - 1) \o SubSeq(@, i + 1, Len(@))]
    /\ tx[c] \notin open => UNCHANGED waiting
    /\ Return(c, "Cancelled")
    /\ UNCHANGED <<permits, reply>>

CancelGrantedKeepsSlot(c) ==
    /\ pc[c] = "granted"
    /\ Return(c, "Cancelled")
    /\ UNCHANGED <<permits, waiting, reply>>

CancelGranted(c) ==
    /\ pc[c] = "granted"
    /\ Release(tx[c])
    /\ pc' = [Woken(tx[c], pc) EXCEPT ![c] = "done"]
    /\ result' = [result EXCEPT ![c] = "Cancelled"]
    /\ UNCHANGED reply

\* The message stays where it is: a worker may still take it.
CancelAwaiting(c) ==
    /\ pc[c] = "awaiting"
    /\ reply' = [reply EXCEPT ![c] = "closed"]
    /\ Return(c, "Cancelled")
    /\ UNCHANGED <<permits, waiting>>

Cancel(c) ==
    /\ CancelBlocked(c) \/ CancelGranted(c) \/ CancelAwaiting(c)
    /\ UNCHANGED <<agents, made, open, queue, held, tx, served>>

-----------------------------------------------------------------------------
(* The worker that owns the receiver of a channel *)

Recv(ch) ==
    /\ ch \in open
    /\ queue[ch] # <<>>
    /\ Cardinality(held[ch]) < Concurrency
    /\ LET c == Head(queue[ch])
       IN  /\ held' = [held EXCEPT ![ch] = @ \cup {c}]
           /\ served' = [served EXCEPT ![c] = @ + 1]
    /\ queue' = [queue EXCEPT ![ch] = Tail(@)]
    /\ Release(ch)
    /\ pc' = Woken(ch, pc)
    /\ UNCHANGED <<agents, made, open, tx, reply, result>>

\* The worker is done with c: it used reply_tx, or dropped it unused.
Answer(ch, c, how) ==
    /\ c \in held[ch]
    /\ held' = [held EXCEPT ![ch] = @ \ {c}]
    /\ reply' = [reply EXCEPT ![c] = IF @ = "open" THEN how ELSE @]
    /\ UNCHANGED <<agents, made, open, permits, queue, waiting,
                   pc, tx, result, served>>

Reply(ch, c) == Answer(ch, c, "sent")
DropReply(ch, c) == Answer(ch, c, "dropped")

\* The Receiver is dropped: what was queued is dropped with it, and so are the
\* reply_tx inside; blocked senders find the channel closed when next polled.
RepliesKept(ch) == reply

RepliesAfterClose(ch) ==
    [c \in Calls |-> IF In(c, queue[ch]) /\ reply[c] = "open"
                     THEN "dropped" ELSE reply[c]]

DropReceiver(ch) ==
    /\ ch \in open
    /\ open' = open \ {ch}
    /\ reply' = RepliesAfterClose(ch)
    /\ queue' = [queue EXCEPT ![ch] = <<>>]
    /\ waiting' = [waiting EXCEPT ![ch] = <<>>]
    /\ UNCHANGED <<agents, made, permits, held, pc, tx, result, served>>

\* recv() returns None once no Sender is left, and the worker's loop ends.
EndOfStream(ch) ==
    /\ queue[ch] = <<>>
    /\ NoSenderLeft(ch)
    /\ DropReceiver(ch)

-----------------------------------------------------------------------------

CallNext(c) ==
    \/ \E n \in Names : Lookup(c, n)
    \/ Send(c)
    \/ SendGranted(c)
    \/ SendRefused(c)
    \/ Collect(c)
    \/ Cancel(c)

WorkerNext(ch) ==
    \/ Recv(ch)
    \/ \E c \in Calls : Reply(ch, c) \/ DropReply(ch, c)
    \/ DropReceiver(ch)

Next ==
    \/ \E n \in Names, ch \in Chans : Register(n, ch)
    \/ \E c \in Calls : CallNext(c)
    \/ \E ch \in Chans : WorkerNext(ch)

Spec == Init /\ [][Next]_vars

\* tokio polls every woken task again; a worker keeps receiving and lets go of
\* every message it received; its loop ends when recv() returns None.
Fairness ==
    /\ \A c \in Calls : WF_vars(Transmit(c)) /\ WF_vars(Collect(c))
    /\ \A ch \in Chans :
        /\ WF_vars(Recv(ch))
        /\ WF_vars(EndOfStream(ch))
        /\ \A c \in Calls : WF_vars(Reply(ch, c) \/ DropReply(ch, c))

FairSpec == Spec /\ Fairness

-----------------------------------------------------------------------------
(* Properties *)

Granted(ch) == {c \in Calls : tx[c] = ch /\ pc[c] = "granted"}

\* A caller that waits for an answer (`reply_rx.await`, bus.rs:99) is owed one: its
\* message is queued at a live receiver or in a worker's hands.  A sender that waits
\* for a slot (bus.rs:92-96) is in line for it.  No call waits on nobody.
NoCallStranded ==
    \A c \in Calls :
        /\ pc[c] = "awaiting" /\ reply[c] = "open" =>
               \/ c \in held[tx[c]]
               \/ tx[c] \in open /\ In(c, queue[tx[c]])
        /\ pc[c] = "blocked" /\ tx[c] \in open => In(c, waiting[tx[c]])

\* No slot of the bounded queue of `register` (bus.rs:74) is lost or invented, whatever
\* callers give up half way, and no sender waits while a slot is free.
SlotsAccounted ==
    \A ch \in open :
        /\ permits[ch] + Len(queue[ch]) + Cardinality(Granted(ch)) = QueueCapacity
        /\ waiting[ch] # <<>> => permits[ch] = 0

\* Every call of `send` returns as long as workers keep receiving and let go of what
\* they received, though bus.rs has no timeout anywhere.
EverySendReturns ==
    \A c \in Calls : pc[c] # "idle" ~> pc[c] = "done"

\* The worker whose registration was replaced (bus.rs:75) comes to the end of its
\* stream: the calls that still hold the old Sender let it go.
ReplacedWorkerEnds ==
    \A ch \in Chans :
        (ch \in made /\ \A n \in Names : agents[n] # ch) ~> ch \notin open

\* What `send` promises its caller (see BusService).
Service ==
    INSTANCE BusService WITH
        stage <- [c \in Calls |-> CASE pc[c] = "idle" -> "new"
                                    [] pc[c] = "done" -> "returned"
                                    [] OTHER -> "pending"],
        runs <- served,
        outcome <- result

\* The bus implements the promise: tasks run at most once, refused calls never run,
\* and Ok means that the task ran (bus.rs:80-100).
ImplementsService == Service!Spec

\* The comment of BusError::SendError (bus.rs:34): "The target agent's queue is full or
\* its receiver has been dropped."  A send that meets a full queue returns SendError.
FullQueueIsSendError ==
    [][\A c \in Calls :
          /\ pc[c] = "ready" /\ pc'[c] # "ready"
          /\ tx[c] \in open /\ Len(queue[tx[c]]) = QueueCapacity
          => result'[c] = "SendError"]_vars

=============================================================================
