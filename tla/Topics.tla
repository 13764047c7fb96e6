------------------------------- MODULE Topics -------------------------------
(***************************************************************************)
(* The other half of RoosAgentBus (roos-core/src/bus.rs): subscribe and    *)
(* publish on named topics over tokio broadcast channels.  A channel keeps *)
(* its last TopicCapacity events (BROADCAST_CAPACITY); every Receiver has  *)
(* a position of its own, and one that falls behind is told how many       *)
(* events it missed.                                                       *)
(***************************************************************************)
EXTENDS Naturals, Sequences, FiniteSets

CONSTANTS
    Topics,         \* topic names
    Subs,           \* receivers that `subscribe` may return
    TopicCapacity,  \* BROADCAST_CAPACITY
    MaxPublish      \* bound on the calls of `publish` per topic

ASSUME SubsAssumption == IsFiniteSet(Subs)
ASSUME TopicCapacityAssumption == TopicCapacity \in Nat \ {0}
ASSUME MaxPublishAssumption == MaxPublish \in Nat

VARIABLES
    channel,    \* channel[t]: the number of the topic's channel, 0 if there is none
    log,        \* log[k]: every event sent on channel k, the last ones still in it
    sub,        \* sub[s]: what the receiver s listens to, and its position
    got,        \* got[s]: the events it received
    missed,     \* missed[s]: how many events it was told it missed
    since,      \* since[s]: how many events had been published when it subscribed
    published   \* published[t]: how often `publish` was called for t

topicVars == <<channel, log, sub, got, missed, since, published>>

NoSub == [state |-> "new", topic |-> "none", chan |-> 0, next |-> 1]

SubStates ==
    {NoSub} \cup
    [state : {"live", "gone"}, topic : Topics, chan : Nat \ {0}, next : Nat \ {0}]

TopicTypeOK ==
    /\ channel \in [Topics -> 0 .. Len(log)]
    /\ log \in Seq(Seq(Nat))
    /\ sub \in [Subs -> SubStates]
    /\ \A s \in Subs : sub[s].state # "new" => sub[s].chan \in 1 .. Len(log)
    /\ got \in [Subs -> Seq(Nat)]
    /\ missed \in [Subs -> Nat]
    /\ since \in [Subs -> Nat]
    /\ published \in [Topics -> Nat]

TopicInit ==
    /\ channel = [t \in Topics |-> 0]
    /\ log = <<>>
    /\ sub = [s \in Subs |-> NoSub]
    /\ got = [s \in Subs |-> <<>>]
    /\ missed = [s \in Subs |-> 0]
    /\ since = [s \in Subs |-> 0]
    /\ published = [t \in Topics |-> 0]

Live(s) == sub[s].state = "live"

\* entry(topic).or_insert_with(..), under the write lock.
KeepsChannelNever(t) == FALSE
KeepsChannel(t) == channel[t] # 0

\* A new receiver starts behind the last event sent so far.
Listener(t, k, sent) ==
    [state |-> "live", topic |-> t, chan |-> k, next |-> sent + 1]

Subscribe(s, t) ==
    /\ sub[s].state = "new"
    /\ IF KeepsChannel(t)
       THEN /\ sub' = [sub EXCEPT ![s] =
                  Listener(t, channel[t], Len(log[channel[t]]))]
            /\ UNCHANGED <<channel, log>>
       ELSE /\ sub' = [sub EXCEPT ![s] = Listener(t, Len(log) + 1, 0)]
            /\ channel' = [channel EXCEPT ![t] = Len(log) + 1]
            /\ log' = Append(log, <<>>)
    /\ since' = [since EXCEPT ![s] = published[t]]
    /\ UNCHANGED <<got, missed, published>>

\* broadcast::Sender::send returns the number of receivers, and stores nothing and
\* returns an error, here 0, if there is none.
Receivers(k) == {s \in Subs : Live(s) /\ sub[s].chan = k}
Heard(t) == IF channel[t] = 0 THEN 0 ELSE Cardinality(Receivers(channel[t]))

Publish(t) ==
    /\ published[t] < MaxPublish
    /\ published' = [published EXCEPT ![t] = @ + 1]
    /\ log' = IF Heard(t) > 0
              THEN [log EXCEPT ![channel[t]] = Append(@, published[t] + 1)]
              ELSE log
    /\ UNCHANGED <<channel, sub, got, missed, since>>

\* tokio's broadcast::Receiver::recv, on the Receiver that `subscribe` returned: the next
\* event, or, if the channel no longer has it, Lagged(n) and on with the oldest it has.
Sent(s) == Len(log[sub[s].chan])
StillKept(s) == sub[s].next + TopicCapacity > Sent(s)
Oldest(s) == Sent(s) - TopicCapacity + 1

Receive(s) ==
    /\ Live(s)
    /\ sub[s].next <= Sent(s)
    /\ IF StillKept(s)
       THEN /\ got' = [got EXCEPT ![s] = Append(@, log[sub[s].chan][sub[s].next])]
            /\ sub' = [sub EXCEPT ![s].next = @ + 1]
            /\ UNCHANGED missed
       ELSE /\ missed' = [missed EXCEPT ![s] = @ + Oldest(s) - sub[s].next]
            /\ sub' = [sub EXCEPT ![s].next = Oldest(s)]
            /\ UNCHANGED got
    /\ UNCHANGED <<channel, log, since, published>>

\* The Receiver is dropped; its topic stays in the map.
Unsubscribe(s) ==
    /\ Live(s)
    /\ sub' = [sub EXCEPT ![s].state = "gone"]
    /\ UNCHANGED <<channel, log, got, missed, since, published>>

TopicNext ==
    \/ \E s \in Subs, t \in Topics : Subscribe(s, t)
    \/ \E t \in Topics : Publish(t)
    \/ \E s \in Subs : Receive(s) \/ Unsubscribe(s)

TopicSpec == TopicInit /\ [][TopicNext]_topicVars

-----------------------------------------------------------------------------
(* Properties *)

\* Every event published while a receiver listens is received, reported as missed, or
\* still ahead of it, exactly once and in order: a slow receiver loses the oldest events
\* of a full channel (bus.rs:9, bus.rs:119), but never without being told, and all
\* receivers of a topic share one channel (bus.rs:106), whoever subscribed first.
NothingLostSilently ==
    \A s \in Subs : Live(s) =>
        /\ Len(got[s]) + missed[s] + (Sent(s) + 1 - sub[s].next)
              = published[sub[s].topic] - since[s]
        /\ \A i, j \in 1 .. Len(got[s]) : i < j => got[s][i] < got[s][j]
        /\ \A i \in 1 .. Len(got[s]) :
              /\ since[s] < got[s][i]
              /\ \A k \in sub[s].next .. Sent(s) : got[s][i] < log[sub[s].chan][k]

=============================================================================
