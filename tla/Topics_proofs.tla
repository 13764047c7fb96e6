---------------------------- MODULE Topics_proofs ----------------------------
(***************************************************************************)
(* No event of a topic is lost silently, for any topics, receivers and     *)
(* capacity.                                                               *)
(*                                                                         *)
(* NothingLostSilently is not inductive: it counts what was published on a *)
(* topic by what its channel holds, which needs every live receiver to be  *)
(* on the one channel of its topic (Wired) and every channel to hold the   *)
(* topic's events in order (LogsOrdered).  Positioned is the property with *)
(* what a receiver's next event is compared to.                            *)
(***************************************************************************)
EXTENDS Topics, FiniteSetTheorems, TLAPS

Wired ==
    /\ \A t, u \in Topics : channel[t] = channel[u] /\ channel[t] # 0 => t = u
    /\ \A s \in Subs : Live(s) => channel[sub[s].topic] = sub[s].chan
    /\ \A s \in Subs : sub[s].state = "new" => got[s] = <<>> /\ missed[s] = 0

LogOrdered(t) ==
    LET events == log[channel[t]] IN
    /\ \A i \in 1 .. Len(events) : events[i] <= published[t]
    /\ \A i, j \in 1 .. Len(events) : i < j => events[i] < events[j]

LogsOrdered == \A t \in Topics : channel[t] # 0 => LogOrdered(t)

PositionOf(s) ==
    LET events == log[sub[s].chan] IN
    /\ sub[s].next <= Len(events) + 1
    /\ since[s] <= published[sub[s].topic]
    /\ Len(got[s]) + missed[s] + (Len(events) + 1 - sub[s].next)
          = published[sub[s].topic] - since[s]
    /\ \A i, j \in 1 .. Len(got[s]) : i < j => got[s][i] < got[s][j]
    /\ \A i \in 1 .. Len(got[s]) :
          since[s] < got[s][i] /\ got[s][i] <= published[sub[s].topic]
    /\ \A k \in sub[s].next .. Len(events) : since[s] < events[k]
    /\ \A i \in 1 .. Len(got[s]), k \in sub[s].next .. Len(events) :
          got[s][i] < events[k]

Positioned == \A s \in Subs : Live(s) => PositionOf(s)

IInv == TopicTypeOK /\ Wired /\ LogsOrdered /\ Positioned

-----------------------------------------------------------------------------
(* What the type invariant says of a live receiver and of a channel *)

LEMMA LiveTypes ==
    ASSUME TopicTypeOK, NEW s \in Subs, Live(s)
    PROVE  /\ sub[s] \in [state : {"live", "gone"}, topic : Topics,
                          chan : Nat \ {0}, next : Nat \ {0}]
           /\ sub[s].topic \in Topics /\ sub[s].chan \in 1 .. Len(log)
           /\ sub[s].next \in Nat \ {0}
           /\ log[sub[s].chan] \in Seq(Nat)
           /\ got[s] \in Seq(Nat) /\ missed[s] \in Nat /\ since[s] \in Nat
           /\ published[sub[s].topic] \in Nat
<1>1. sub[s] \in SubStates /\ sub[s] # NoSub
  BY DEF TopicTypeOK, Live, NoSub
<1>2. sub[s] \in [state : {"live", "gone"}, topic : Topics,
                  chan : Nat \ {0}, next : Nat \ {0}]
  BY <1>1 DEF SubStates
<1>3. sub[s].chan \in 1 .. Len(log)
  BY DEF TopicTypeOK, Live
<1>4. log[sub[s].chan] \in Seq(Nat)
  BY <1>3 DEF TopicTypeOK
<1> QED
  BY <1>2, <1>3, <1>4 DEF TopicTypeOK

LEMMA ChannelTypes ==
    ASSUME TopicTypeOK, NEW t \in Topics, channel[t] # 0
    PROVE  /\ channel[t] \in 1 .. Len(log) /\ channel[t] \in Nat \ {0}
           /\ log[channel[t]] \in Seq(Nat) /\ published[t] \in Nat
<1>1. channel[t] \in 1 .. Len(log)
  BY DEF TopicTypeOK
<1> QED
  BY <1>1 DEF TopicTypeOK

LEMMA LogTypes ==
    ASSUME TopicTypeOK, LogsOrdered, NEW t \in Topics, channel[t] # 0
    PROVE  LET events == log[channel[t]] IN
           /\ Len(events) \in Nat
           /\ \A i \in 1 .. Len(events) :
                 events[i] \in Nat /\ events[i] <= published[t]
                 /\ events[i] < published[t] + 1
           /\ \A i, j \in 1 .. Len(events) : i < j => events[i] < events[j]
<1> DEFINE events == log[channel[t]]
<1> DEFINE top == published[t]
<1>1. events \in Seq(Nat) /\ top \in Nat
  BY ChannelTypes
<1>2. /\ \A i \in 1 .. Len(events) : events[i] <= top
      /\ \A i, j \in 1 .. Len(events) : i < j => events[i] < events[j]
  BY DEF LogsOrdered, LogOrdered
<1> HIDE DEF events, top
<1>3. /\ Len(events) \in Nat
      /\ \A i \in 1 .. Len(events) :
            events[i] \in Nat /\ events[i] <= top /\ events[i] < top + 1
  BY <1>1, <1>2
<1> QED
  BY <1>2, <1>3 DEF events, top

LEMMA GotTypes ==
    ASSUME TopicTypeOK, NEW s \in Subs, Live(s), PositionOf(s)
    PROVE  LET top == published[sub[s].topic] IN
           /\ Len(got[s]) \in Nat /\ Len(log[sub[s].chan]) \in Nat
           /\ since[s] < top + 1
           /\ \A i \in 1 .. Len(got[s]) : got[s][i] \in Nat /\ got[s][i] < top + 1
           /\ \A k \in sub[s].next .. Len(log[sub[s].chan]) :
                 k \in 1 .. Len(log[sub[s].chan])
<1> DEFINE top == published[sub[s].topic]
<1> DEFINE received == got[s]
<1> DEFINE events == log[sub[s].chan]
<1> DEFINE next == sub[s].next
<1>1. /\ received \in Seq(Nat) /\ top \in Nat /\ since[s] \in Nat /\ events \in Seq(Nat)
      /\ next \in Nat \ {0}
  BY LiveTypes
<1>2. since[s] <= top /\ \A i \in 1 .. Len(received) : received[i] <= top
  BY DEF PositionOf
<1> HIDE DEF top, received, events, next
<1>3. /\ Len(received) \in Nat /\ Len(events) \in Nat /\ since[s] < top + 1
      /\ \A i \in 1 .. Len(received) : received[i] \in Nat /\ received[i] < top + 1
      /\ \A k \in next .. Len(events) : k \in 1 .. Len(events)
  BY <1>1, <1>2
<1> QED
  BY <1>3 DEF top, received, events, next

\* Nobody hears an event only if no live receiver is on its topic.
LEMMA UnheardTopics ==
    ASSUME TopicTypeOK, Wired, NEW t \in Topics, ~ (Heard(t) > 0),
           NEW s \in Subs, Live(s)
    PROVE  sub[s].topic # t
<1> SUFFICES ASSUME sub[s].topic = t PROVE FALSE
  OBVIOUS
<1>1. channel[t] = sub[s].chan /\ channel[t] # 0
  BY LiveTypes DEF Wired
<1>2. s \in Receivers(channel[t]) /\ Receivers(channel[t]) \subseteq Subs
  BY <1>1 DEF Receivers
<1>3. IsFiniteSet(Receivers(channel[t]))
  BY <1>2, SubsAssumption, FS_Subset
<1>4. Cardinality(Receivers(channel[t])) \in Nat
      /\ Cardinality(Receivers(channel[t])) # 0
  BY <1>2, <1>3, FS_CardinalityType, FS_EmptySet
<1> QED
  BY <1>1, <1>4 DEF Heard

LEMMA HeardTopics ==
    ASSUME TopicTypeOK, NEW t \in Topics, Heard(t) > 0
    PROVE  channel[t] # 0
  BY DEF Heard

-----------------------------------------------------------------------------

LEMMA InitEstablishes == TopicInit => IInv
  BY SubsAssumption DEF TopicInit, IInv, TopicTypeOK, SubStates, NoSub, Wired, LogsOrdered,
     Positioned, Live

\* One more event in the channel, one more to come.
LEMMA OneMorePublished ==
    ASSUME NEW received \in Nat, NEW lost \in Nat, NEW n \in Nat, NEW first \in Nat,
           NEW count \in Nat, NEW start \in Nat,
           first <= n + 1, received + lost + (n + 1 - first) = count - start
    PROVE  /\ first <= n + 1 + 1
           /\ received + lost + (n + 1 + 1 - first) = count + 1 - start
  OBVIOUS

\* A sequence of numbers from a position on, before and after a larger one is appended.
LEMMA OrderedAfterAppend ==
    ASSUME NEW n \in Nat, NEW first \in Nat \ {0}, NEW old, NEW new, NEW e \in Nat,
           \A i \in first .. n : old[i] \in Nat /\ old[i] < e /\ new[i] = old[i],
           new[n + 1] = e
    PROVE  /\ \A i \in first .. n + 1 : new[i] \in Nat /\ new[i] <= e
           /\ (\A i, j \in first .. n : i < j => old[i] < old[j])
              => \A i, j \in first .. n + 1 : i < j => new[i] < new[j]
           /\ \A low \in Nat :
                 low < e /\ (\A i \in first .. n : low < old[i])
                 => \A i \in first .. n + 1 : low < new[i]
<1>1. \A i \in first .. n + 1 : i \in first .. n \/ i = n + 1
  OBVIOUS
<1>2. \A i \in first .. n + 1 : new[i] \in Nat /\ new[i] <= e
  BY <1>1
<1>3. ASSUME \A i, j \in first .. n : i < j => old[i] < old[j],
             NEW i \in first .. n + 1, NEW j \in first .. n + 1, i < j
      PROVE  new[i] < new[j]
  <2>1. i \in first .. n
    BY <1>1, <1>3
  <2>2. CASE j \in first .. n
    BY <1>3, <2>1, <2>2
  <2>3. CASE j = n + 1
    BY <2>1, <2>3
  <2> QED
    BY <1>1, <2>2, <2>3
<1>4. ASSUME NEW low \in Nat, low < e, \A i \in first .. n : low < old[i],
             NEW i \in first .. n + 1
      PROVE  low < new[i]
  BY <1>1, <1>4
<1> QED
  BY <1>2, <1>3, <1>4

\* The log after an event that is heard.
LEMMA LogGrows ==
    ASSUME TopicTypeOK, NEW t \in Topics, channel[t] # 0, Heard(t) > 0, Publish(t)
    PROVE  LET k == channel[t] IN
           /\ log' \in Seq(Seq(Nat)) /\ Len(log') = Len(log)
           /\ \A j \in 1 .. Len(log) : j # k => log'[j] = log[j]
           /\ Len(log'[k]) = Len(log[k]) + 1
           /\ \A i \in 1 .. Len(log[k]) : log'[k][i] = log[k][i]
           /\ log'[k][Len(log[k]) + 1] = published[t] + 1
<1> DEFINE k == channel[t]
<1> DEFINE e == published[t] + 1
<1>1. k \in 1 .. Len(log) /\ log[k] \in Seq(Nat) /\ e \in Nat
  BY ChannelTypes
<1>2. log' = [log EXCEPT ![k] = Append(log[k], e)]
  BY DEF Publish
<1>3. /\ Append(log[k], e) \in Seq(Nat)
      /\ Len(Append(log[k], e)) = Len(log[k]) + 1
      /\ \A i \in 1 .. Len(log[k]) : Append(log[k], e)[i] = log[k][i]
      /\ Append(log[k], e)[Len(log[k]) + 1] = e
  BY <1>1
<1>4. log \in Seq(Seq(Nat))
  BY DEF TopicTypeOK
<1> HIDE DEF e, k
<1>5. log' \in Seq(Seq(Nat)) /\ Len(log') = Len(log)
  BY <1>1, <1>2, <1>3, <1>4
<1>6. log'[k] = Append(log[k], e)
  BY <1>1, <1>2, <1>4
<1>7. \A j \in 1 .. Len(log) : j # k => log'[j] = log[j]
  BY <1>1, <1>2, <1>4
<1> QED
  BY <1>3, <1>5, <1>6, <1>7 DEF k, e

LEMMA PublishKeeps ==
    ASSUME IInv, NEW t \in Topics, Publish(t) PROVE IInv'
<1> DEFINE k == channel[t]
<1>0. /\ TopicTypeOK /\ Wired /\ LogsOrdered /\ Positioned
      /\ UNCHANGED <<channel, sub, got, missed, since>>
      /\ \A s \in Subs : Live(s)' <=> Live(s)
  BY DEF IInv, Publish, Live
<1>1. /\ published' \in [Topics -> Nat]
      /\ published'[t] = published[t] + 1 /\ published[t] \in Nat
      /\ \A u \in Topics : u # t => published'[u] = published[u]
  BY DEF IInv, TopicTypeOK, Publish
<1>2. Wired'
  BY <1>0 DEF Wired
<1>3. CASE Heard(t) > 0
  <2>1. k # 0 /\ k \in 1 .. Len(log) /\ log[k] \in Seq(Nat)
    BY <1>0, <1>3, HeardTopics, ChannelTypes
  <2>2. /\ log' \in Seq(Seq(Nat)) /\ Len(log') = Len(log)
        /\ \A j \in 1 .. Len(log) : j # k => log'[j] = log[j]
        /\ Len(log'[k]) = Len(log[k]) + 1
        /\ \A i \in 1 .. Len(log[k]) : log'[k][i] = log[k][i]
        /\ log'[k][Len(log[k]) + 1] = published[t] + 1
    BY <1>0, <1>3, <2>1, LogGrows
  <2>3. TopicTypeOK'
    BY <1>0, <1>1, <2>2 DEF TopicTypeOK
  <2>4. ASSUME NEW u \in Topics, channel[u] # 0 PROVE LogOrdered(u)'
    <3>1. CASE u = t
      <4>1. \A i \in 1 .. Len(log[k]) :
                log[k][i] \in Nat /\ log[k][i] < published[t] + 1
        BY <1>0, <2>1, LogTypes
      <4>2. \A i, j \in 1 .. Len(log[k]) : i < j => log[k][i] < log[k][j]
        BY <1>0, <2>1, LogTypes
      <4>3. Len(log[k]) \in Nat /\ published[t] + 1 \in Nat
        BY <1>1, <2>1
      <4> DEFINE old == log[k]
      <4> DEFINE new == log'[k]
      <4> DEFINE n == Len(log[k])
      <4> DEFINE e == published[t] + 1
      <4>6. /\ n \in Nat /\ e \in Nat /\ 1 \in Nat \ {0}
            /\ \A i \in 1 .. n : old[i] \in Nat /\ old[i] < e /\ new[i] = old[i]
            /\ \A i, j \in 1 .. n : i < j => old[i] < old[j]
            /\ new[n + 1] = e
        BY <2>2, <4>1, <4>2, <4>3
      <4> HIDE DEF old, new, n, e
      <4>7. /\ \A i \in 1 .. n + 1 : new[i] \in Nat /\ new[i] <= e
            /\ \A i, j \in 1 .. n + 1 : i < j => new[i] < new[j]
        BY <4>6, OrderedAfterAppend
      <4>4. \A i \in 1 .. Len(log[k]) + 1 : log'[k][i] <= published[t] + 1
        BY <4>7 DEF new, n, e
      <4>5. \A i, j \in 1 .. Len(log[k]) + 1 : i < j => log'[k][i] < log'[k][j]
        BY <4>7 DEF new, n
      <4> QED
        BY <1>0, <1>1, <2>2, <3>1, <4>4, <4>5 DEF LogOrdered
    <3>2. CASE u # t
      <4>1. channel[u] # k /\ channel[u] \in 1 .. Len(log)
        BY <1>0, <2>1, <2>4, <3>2, ChannelTypes DEF Wired
      <4>2. LogOrdered(u)
        BY <1>0, <2>4 DEF LogsOrdered
      <4> QED
        BY <1>0, <1>1, <2>2, <3>2, <4>1, <4>2 DEF LogOrdered
    <3> QED
      BY <3>1, <3>2
  <2>5. ASSUME NEW s \in Subs, Live(s) PROVE PositionOf(s)'
    <3>0. /\ PositionOf(s) /\ sub[s].topic \in Topics
          /\ channel[sub[s].topic] = sub[s].chan
          /\ sub[s].chan \in 1 .. Len(log) /\ sub[s].next \in Nat \ {0}
          /\ got[s] \in Seq(Nat) /\ missed[s] \in Nat /\ since[s] \in Nat
      BY <1>0, <2>5, LiveTypes DEF Positioned, Wired
    <3>1. CASE sub[s].topic = t
      <4>1. sub[s].chan = k
        BY <3>0, <3>1
      <4>2. \A i \in 1 .. Len(got[s]) : got[s][i] \in Nat /\ got[s][i] < published[t] + 1
        BY <1>0, <2>5, <3>0, <3>1, GotTypes
      <4>3. \A m \in sub[s].next .. Len(log[k]) :
                log[k][m] \in Nat /\ log[k][m] < published[t] + 1
        BY <1>0, <2>1, <2>5, <3>0, <4>1, LogTypes, GotTypes
      <4>7. /\ Len(log[k]) \in Nat /\ published[t] + 1 \in Nat
            /\ \A m \in sub[s].next .. Len(log[k]) : m \in 1 .. Len(log[k])
            /\ since[s] < published[t] + 1
        BY <1>0, <1>1, <2>1, <2>5, <3>0, <3>1, <4>1, GotTypes
      <4>8. /\ \A m \in sub[s].next .. Len(log[k]) : since[s] < log[k][m]
            /\ \A i \in 1 .. Len(got[s]), m \in sub[s].next .. Len(log[k]) :
                  got[s][i] < log[k][m]
        BY <3>0, <4>1 DEF PositionOf
      <4> DEFINE old == log[k]
      <4> DEFINE new == log'[k]
      <4> DEFINE n == Len(log[k])
      <4> DEFINE e == published[t] + 1
      <4> DEFINE first == sub[s].next
      <4>10. /\ n \in Nat /\ e \in Nat /\ first \in Nat \ {0}
             /\ \A i \in first .. n : old[i] \in Nat /\ old[i] < e /\ new[i] = old[i]
             /\ new[n + 1] = e
        BY <2>2, <3>0, <4>3, <4>7
      <4>11. /\ first <= n + 1
             /\ Len(got[s]) + missed[s] + (n + 1 - first) = published[t] - since[s]
        BY <3>0, <3>1, <4>1 DEF PositionOf
      <4>12. Len(got[s]) \in Nat /\ missed[s] \in Nat /\ since[s] \in Nat /\ since[s] < e
             /\ published[t] \in Nat
        BY <1>1, <3>0, <4>7
      <4> HIDE DEF old, new, n, first
      <4>6. /\ first <= n + 1 + 1 /\ since[s] <= e
            /\ Len(got[s]) + missed[s] + (n + 1 + 1 - first) = e - since[s]
        <5> DEFINE received == Len(got[s])
        <5> DEFINE lost == missed[s]
        <5> DEFINE start == since[s]
        <5> DEFINE count == published[t]
        <5>1. /\ received \in Nat /\ lost \in Nat /\ start \in Nat /\ count \in Nat
              /\ first \in Nat /\ n \in Nat /\ start < count + 1
              /\ first <= n + 1 /\ received + lost + (n + 1 - first) = count - start
          BY <4>10, <4>11, <4>12
        <5> HIDE DEF received, lost, start, count
        <5>2. first <= n + 1 + 1 /\ start <= count + 1
          BY <5>1
        <5>3. received + lost + (n + 1 + 1 - first) = count + 1 - start
          BY <5>1, OneMorePublished
        <5>4. e = count + 1
          BY DEF count
        <5> HIDE DEF e
        <5>5. start <= e /\ received + lost + (n + 1 + 1 - first) = e - start
          BY <4>10, <5>1, <5>2, <5>3, <5>4
        <5> QED
          BY <5>2, <5>5 DEF received, lost, start
      <4> HIDE DEF e
      <4>9. \A low \in Nat :
                low < e /\ (\A m \in first .. n : low < old[m])
                => \A m \in first .. n + 1 : low < new[m]
        BY <4>10, OrderedAfterAppend
      <4> USE DEF old, new, n, e, first
      <4>4. \A m \in sub[s].next .. Len(log[k]) + 1 : since[s] < log'[k][m]
        BY <3>0, <4>7, <4>8, <4>9
      <4>5. \A i \in 1 .. Len(got[s]), m \in sub[s].next .. Len(log[k]) + 1 :
                got[s][i] < log'[k][m]
        BY <4>2, <4>8, <4>9
      <4>13. Len(log'[k]) = n + 1 /\ published'[t] = e
        BY <1>1, <2>2
      <4> HIDE DEF first, n, e
      <4>14. /\ first <= Len(log'[k]) + 1 /\ since[s] <= published'[t]
             /\ Len(got[s]) + missed[s] + (Len(log'[k]) + 1 - first)
                   = published'[t] - since[s]
        BY <4>6, <4>13, Zenon
      <4>15. /\ \A i, j \in 1 .. Len(got[s]) : i < j => got[s][i] < got[s][j]
             /\ \A i \in 1 .. Len(got[s]) : since[s] < got[s][i] /\ got[s][i] <= published'[t]
        <5>1. /\ \A i, j \in 1 .. Len(got[s]) : i < j => got[s][i] < got[s][j]
              /\ \A i \in 1 .. Len(got[s]) : since[s] < got[s][i]
          BY <3>0 DEF PositionOf
        <5> HIDE DEF e
        <5>2. \A i \in 1 .. Len(got[s]) : got[s][i] <= e
          BY <4>2, <4>10 DEF e
        <5> QED
          BY <4>13, <5>1, <5>2
      <4>16. /\ \A m \in first .. Len(log'[k]) : since[s] < log'[k][m]
             /\ \A i \in 1 .. Len(got[s]), m \in first .. Len(log'[k]) :
                   got[s][i] < log'[k][m]
        BY <4>4, <4>5, <4>13 DEF first, n
      <4>17. /\ sub'[s].chan = k /\ sub'[s].next = first /\ sub'[s].topic = t
             /\ got'[s] = got[s] /\ missed'[s] = missed[s] /\ since'[s] = since[s]
        BY <1>0, <3>1, <4>1 DEF first
      <4> HIDE DEF k, old, new
      <4> QED
        BY <4>14, <4>15, <4>16, <4>17 DEF PositionOf
    <3>2. CASE sub[s].topic # t
      <4>1. sub[s].chan # k
        BY <1>0, <2>1, <3>0, <3>2 DEF Wired
      <4> QED
        BY <1>0, <1>1, <2>2, <3>0, <3>2, <4>1 DEF PositionOf
    <3> QED
      BY <3>1, <3>2
  <2> QED
    BY <1>0, <1>2, <2>3, <2>4, <2>5 DEF IInv, LogsOrdered, Positioned
<1>4. CASE ~ (Heard(t) > 0)
  <2>1. UNCHANGED log
    BY <1>4 DEF Publish
  <2>2. TopicTypeOK'
    BY <1>0, <1>1, <2>1 DEF TopicTypeOK
  <2>3. ASSUME NEW u \in Topics, channel[u] # 0 PROVE LogOrdered(u)'
    <3>1. LogOrdered(u) /\ log[channel[u]] \in Seq(Nat)
      BY <1>0, <2>3, ChannelTypes DEF LogsOrdered
    <3>2. published[u] \in Nat /\ published'[u] \in Nat /\ published[u] <= published'[u]
      <4>1. published[u] \in Nat
        BY <1>0 DEF TopicTypeOK
      <4>2. CASE u = t
        BY <1>1, <4>2
      <4>3. CASE u # t
        BY <1>1, <4>1, <4>3
      <4> QED
        BY <4>1, <4>2, <4>3
    <3> DEFINE events == log[channel[u]]
    <3> DEFINE n == Len(events)
    <3>3. /\ \A i \in 1 .. n : events[i] \in Nat
          /\ \A i \in 1 .. n : events[i] <= published[u]
          /\ \A i, j \in 1 .. n : i < j => events[i] < events[j]
      <4>1. events \in Seq(Nat)
        BY <3>1
      <4>2. /\ \A i \in 1 .. n : events[i] <= published[u]
            /\ \A i, j \in 1 .. n : i < j => events[i] < events[j]
        BY <3>1 DEF LogOrdered
      <4> HIDE DEF events
      <4> QED
        BY <4>1, <4>2
    <3>4. log'[channel'[u]] = events
      BY <1>0, <2>1 DEF Publish
    <3> HIDE DEF events
    <3>5. \A i \in 1 .. n : events[i] <= published'[u]
      <4> HIDE DEF n
      <4> QED
        BY <3>2, <3>3
    <3> QED
      BY <3>3, <3>4, <3>5 DEF LogOrdered
  <2>4. ASSUME NEW s \in Subs, Live(s) PROVE PositionOf(s)'
    <3>1. sub[s].topic # t /\ sub[s].topic \in Topics /\ PositionOf(s)
      BY <1>0, <1>4, <2>4, UnheardTopics, LiveTypes DEF Positioned
    <3> QED
      BY <1>0, <1>1, <2>1, <3>1 DEF PositionOf
  <2> QED
    BY <1>0, <1>2, <2>2, <2>3, <2>4 DEF IInv, LogsOrdered, Positioned
<1> QED
  BY <1>3, <1>4

-----------------------------------------------------------------------------
(* A receiver that is new or goes *)

\* What a step of one receiver leaves to the others.
LEMMA OthersStay ==
    ASSUME IInv, NEW s \in Subs, NEW r \in Subs, r # s, Live(r),
           sub'[r] = sub[r], got'[r] = got[r], missed'[r] = missed[r], since'[r] = since[r],
           log'[sub[r].chan] = log[sub[r].chan],
           published' = published
    PROVE  PositionOf(r)'
  BY DEF IInv, Positioned, PositionOf

LEMMA SubscribeKeeps ==
    ASSUME IInv, NEW s \in Subs, NEW t \in Topics, Subscribe(s, t) PROVE IInv'
<1>0. /\ TopicTypeOK /\ Wired /\ LogsOrdered /\ Positioned
      /\ sub[s].state = "new" /\ got[s] = <<>> /\ missed[s] = 0
      /\ since' = [since EXCEPT ![s] = published[t]]
      /\ UNCHANGED <<got, missed, published>>
  BY DEF IInv, Wired, Subscribe
<1>1. /\ since' \in [Subs -> Nat] /\ since'[s] = published[t] /\ published[t] \in Nat
      /\ \A r \in Subs : r # s => since'[r] = since[r]
  BY <1>0 DEF TopicTypeOK
<1>2. sub \in [Subs -> SubStates] /\ channel \in [Topics -> 0 .. Len(log)]
      /\ Len(log) \in Nat /\ log \in Seq(Seq(Nat))
  BY <1>0 DEF TopicTypeOK
<1>3. CASE channel[t] # 0
  <2> DEFINE k == channel[t]
  <2> DEFINE new == Listener(t, k, Len(log[k]))
  <2>1. /\ sub' = [sub EXCEPT ![s] = new] /\ UNCHANGED <<channel, log>>
        /\ k \in 1 .. Len(log) /\ k \in Nat \ {0} /\ log[k] \in Seq(Nat)
    BY <1>0, <1>3, ChannelTypes DEF Subscribe, KeepsChannel
  <2>2. /\ new.state = "live" /\ new.topic = t /\ new.chan = k
        /\ new.next = Len(log[k]) + 1 /\ new \in SubStates
    BY <2>1 DEF Listener, SubStates
  <2> HIDE DEF new
  <2>3. sub' \in [Subs -> SubStates] /\ sub'[s] = new
        /\ \A r \in Subs : r # s => sub'[r] = sub[r]
    BY <1>2, <2>1, <2>2
  <2>4. TopicTypeOK'
    BY <1>0, <1>1, <2>1, <2>2, <2>3 DEF TopicTypeOK
  <2>5. Wired'
    BY <1>0, <2>1, <2>2, <2>3 DEF Wired, Live
  <2>6. LogsOrdered'
    BY <1>0, <2>1 DEF LogsOrdered, LogOrdered
  <2>7. ASSUME NEW r \in Subs, Live(r)' PROVE PositionOf(r)'
    <3>1. CASE r = s
      <4>1. /\ got'[s] = <<>> /\ missed'[s] = 0 /\ since'[s] = published[t]
            /\ sub'[s].topic = t /\ sub'[s].chan = k /\ sub'[s].next = Len(log[k]) + 1
            /\ Len(log[k]) \in Nat /\ log' = log /\ published' = published
        BY <1>0, <1>1, <2>1, <2>2, <2>3
      <4> HIDE DEF k
      <4> QED
        BY <1>1, <3>1, <4>1 DEF PositionOf
    <3>2. CASE r # s
      <4>1. /\ Live(r) /\ sub'[r] = sub[r] /\ got'[r] = got[r] /\ missed'[r] = missed[r]
            /\ since'[r] = since[r] /\ published' = published
            /\ log'[sub[r].chan] = log[sub[r].chan]
        BY <1>0, <1>1, <2>1, <2>3, <2>7, <3>2 DEF Live
      <4> QED
        BY <3>2, <4>1, OthersStay
    <3> QED
      BY <3>1, <3>2
  <2> QED
    BY <2>4, <2>5, <2>6, <2>7 DEF IInv, Positioned
<1>4. CASE channel[t] = 0
  <2> DEFINE k == Len(log) + 1
  <2> DEFINE new == Listener(t, k, 0)
  <2>1. /\ sub' = [sub EXCEPT ![s] = new]
        /\ channel' = [channel EXCEPT ![t] = k] /\ log' = Append(log, <<>>)
        /\ k \in Nat \ {0}
    BY <1>2, <1>4 DEF Subscribe, KeepsChannel
  <2>2. /\ new.state = "live" /\ new.topic = t /\ new.chan = k
        /\ new.next = 1 /\ new \in SubStates
    BY <2>1 DEF Listener, SubStates
  <2>3. /\ log' \in Seq(Seq(Nat)) /\ Len(log') = k /\ log'[k] = <<>>
        /\ \A j \in 1 .. Len(log) : log'[j] = log[j]
    BY <1>2, <2>1
  <2> HIDE DEF new
  <2>4. sub' \in [Subs -> SubStates] /\ sub'[s] = new
        /\ \A r \in Subs : r # s => sub'[r] = sub[r]
    BY <1>2, <2>1, <2>2
  <2>5. /\ channel' \in [Topics -> 0 .. k] /\ channel'[t] = k
        /\ \A u \in Topics : u # t => channel'[u] = channel[u] /\ channel[u] # k
    BY <1>2, <2>1
  <2>6. TopicTypeOK'
    <3>1. \A r \in Subs : sub'[r].state # "new" => sub'[r].chan \in 1 .. Len(log')
      <4>1. ASSUME NEW r \in Subs, r # s, sub[r].state # "new"
            PROVE  sub[r].chan \in 1 .. Len(log')
        BY <1>0, <1>2, <2>3, <4>1 DEF TopicTypeOK
      <4>2. sub'[s].chan \in 1 .. Len(log')
        BY <1>2, <2>2, <2>3, <2>4
      <4> QED
        BY <2>4, <4>1, <4>2
    <3> QED
      BY <1>0, <1>1, <2>3, <2>4, <2>5, <3>1 DEF TopicTypeOK
  <2>7. ASSUME NEW r \in Subs, r # s, Live(r)
        PROVE  sub[r].topic # t /\ sub[r].topic \in Topics /\ sub[r].chan \in 1 .. Len(log)
    BY <1>0, <1>4, <2>7, LiveTypes DEF Wired
  <2>8. Wired'
    <3>1. \A u, v \in Topics : channel'[u] = channel'[v] /\ channel'[u] # 0 => u = v
      BY <1>0, <2>5 DEF Wired
    <3>2. \A r \in Subs : Live(r)' => channel'[sub'[r].topic] = sub'[r].chan
      BY <1>0, <2>2, <2>4, <2>5, <2>7 DEF Wired, Live
    <3>3. \A r \in Subs : sub'[r].state = "new" => got'[r] = <<>> /\ missed'[r] = 0
      BY <1>0, <2>2, <2>4 DEF Wired
    <3> QED
      BY <3>1, <3>2, <3>3 DEF Wired
  <2>9. ASSUME NEW u \in Topics, channel'[u] # 0 PROVE LogOrdered(u)'
    <3>1. CASE u = t
      BY <2>3, <2>5, <3>1 DEF LogOrdered
    <3>2. CASE u # t
      <4>1. channel[u] \in 1 .. Len(log) /\ LogOrdered(u)
        BY <1>0, <2>5, <2>9, <3>2, ChannelTypes DEF LogsOrdered
      <4> QED
        BY <1>0, <2>3, <2>5, <3>2, <4>1 DEF LogOrdered
    <3> QED
      BY <3>1, <3>2
  <2>10. ASSUME NEW r \in Subs, Live(r)' PROVE PositionOf(r)'
    <3>1. CASE r = s
      BY <1>0, <1>1, <2>2, <2>3, <2>4, <3>1 DEF PositionOf
    <3>2. CASE r # s
      <4>1. Live(r) /\ log'[sub[r].chan] = log[sub[r].chan]
        BY <2>3, <2>4, <2>7, <2>10, <3>2 DEF Live
      <4> QED
        BY <1>0, <1>1, <2>4, <3>2, <4>1, OthersStay
    <3> QED
      BY <3>1, <3>2
  <2> QED
    BY <2>6, <2>8, <2>9, <2>10 DEF IInv, LogsOrdered, Positioned
<1> QED
  BY <1>3, <1>4

LEMMA UnsubscribeKeeps ==
    ASSUME IInv, NEW s \in Subs, Unsubscribe(s) PROVE IInv'
<1>0. /\ TopicTypeOK /\ Wired /\ LogsOrdered /\ Positioned /\ Live(s)
      /\ sub' = [sub EXCEPT ![s].state = "gone"]
      /\ UNCHANGED <<channel, log, got, missed, since, published>>
  BY DEF IInv, Unsubscribe
<1>1. /\ sub[s] \in [state : {"live", "gone"}, topic : Topics,
                     chan : Nat \ {0}, next : Nat \ {0}]
      /\ sub[s].chan \in 1 .. Len(log) /\ sub \in [Subs -> SubStates]
  BY <1>0, LiveTypes DEF TopicTypeOK
<1>2. /\ sub' \in [Subs -> SubStates]
      /\ sub'[s].state = "gone" /\ sub'[s].chan = sub[s].chan
      /\ \A r \in Subs : r # s => sub'[r] = sub[r]
  BY <1>0, <1>1 DEF SubStates
<1>3. TopicTypeOK'
  BY <1>0, <1>1, <1>2 DEF TopicTypeOK
<1>4. Wired' /\ LogsOrdered'
  BY <1>0, <1>2 DEF Wired, LogsOrdered, LogOrdered, Live
<1>5. ASSUME NEW r \in Subs, Live(r)' PROVE PositionOf(r)'
  BY <1>0, <1>2, <1>5, OthersStay DEF Live
<1> QED
  BY <1>3, <1>4, <1>5 DEF IInv, Positioned

-----------------------------------------------------------------------------
(* A receiver receives, or is told what it missed *)

\* A received event is later than all that were received before.
LEMMA ReceivedInOrder ==
    ASSUME NEW before \in Seq(Nat), NEW event \in Nat,
           \A i, j \in 1 .. Len(before) : i < j => before[i] < before[j],
           \A i \in 1 .. Len(before) : before[i] < event
    PROVE  LET after == Append(before, event) IN
           /\ after \in Seq(Nat) /\ Len(after) = Len(before) + 1
           /\ \A i \in 1 .. Len(after) : i \in 1 .. Len(before) \/ i = Len(after)
           /\ \A i \in 1 .. Len(before) : after[i] = before[i]
           /\ after[Len(after)] = event
           /\ \A i, j \in 1 .. Len(after) : i < j => after[i] < after[j]
<1> DEFINE after == Append(before, event)
<1> DEFINE n == Len(before)
<1>1. /\ after \in Seq(Nat) /\ Len(after) = n + 1 /\ n \in Nat
      /\ \A i \in 1 .. n : after[i] = before[i] /\ before[i] \in Nat
      /\ after[n + 1] = event
  OBVIOUS
<1>2. \A i, j \in 1 .. n : i < j => before[i] < before[j]
  OBVIOUS
<1>3. \A i \in 1 .. n : before[i] < event
  OBVIOUS
<1> HIDE DEF after, n
<1>4. \A i, j \in 1 .. n + 1 : i < j => after[i] < after[j]
  <2> SUFFICES ASSUME NEW i \in 1 .. n + 1, NEW j \in 1 .. n + 1, i < j
               PROVE  after[i] < after[j]
    OBVIOUS
  <2>1. i \in 1 .. n
    BY <1>1
  <2>2. CASE j \in 1 .. n
    BY <1>1, <1>2, <2>1, <2>2
  <2>3. CASE j = n + 1
    BY <1>1, <1>3, <2>1, <2>3
  <2> QED
    BY <1>1, <2>2, <2>3
<1>5. \A i \in 1 .. n + 1 : i \in 1 .. n \/ i = n + 1
  BY <1>1
<1> QED
  BY <1>1, <1>4, <1>5 DEF after, n

LEMMA ReceiveKeeps ==
    ASSUME IInv, NEW s \in Subs, Receive(s) PROVE IInv'
<1> DEFINE k == sub[s].chan
<1> DEFINE events == log[k]
<1> DEFINE n == Len(events)
<1> DEFINE next == sub[s].next
<1> DEFINE top == published[sub[s].topic]
<1>0. /\ TopicTypeOK /\ Wired /\ LogsOrdered /\ Positioned /\ Live(s) /\ PositionOf(s)
      /\ UNCHANGED <<channel, log, since, published>>
  BY DEF IInv, Positioned, Receive
<1>1. /\ sub[s] \in [state : {"live", "gone"}, topic : Topics,
                     chan : Nat \ {0}, next : Nat \ {0}]
      /\ sub \in [Subs -> SubStates] /\ got \in [Subs -> Seq(Nat)]
      /\ missed \in [Subs -> Nat] /\ TopicCapacity \in Nat \ {0}
      /\ sub[s].topic \in Topics /\ k \in 1 .. Len(log)
      /\ next \in Nat \ {0} /\ events \in Seq(Nat) /\ n \in Nat
      /\ got[s] \in Seq(Nat) /\ missed[s] \in Nat /\ since[s] \in Nat /\ top \in Nat
      /\ Len(got[s]) \in Nat
  BY <1>0, LiveTypes, TopicCapacityAssumption DEF TopicTypeOK
<1>2. \A i \in 1 .. n : events[i] \in Nat /\ events[i] <= top
  <2>1. channel[sub[s].topic] = k /\ channel[sub[s].topic] # 0
    BY <1>0, <1>1 DEF Wired
  <2> QED
    BY <1>0, <1>1, <2>1, LogTypes
<1>3. \A i, j \in 1 .. n : i < j => events[i] < events[j]
  <2>1. channel[sub[s].topic] = k /\ channel[sub[s].topic] # 0
    BY <1>0, <1>1 DEF Wired
  <2> QED
    BY <1>0, <1>1, <2>1, LogTypes
<1>4. /\ since[s] <= top
      /\ Len(got[s]) + missed[s] + (n + 1 - next) = top - since[s]
      /\ \A i, j \in 1 .. Len(got[s]) : i < j => got[s][i] < got[s][j]
      /\ \A i \in 1 .. Len(got[s]) : since[s] < got[s][i] /\ got[s][i] <= top
      /\ \A m \in next .. n : since[s] < events[m]
      /\ \A i \in 1 .. Len(got[s]), m \in next .. n : got[s][i] < events[m]
      /\ next <= n
  BY <1>0 DEF PositionOf, Receive, Sent
\* Whatever the step does to the receiver, the others and the channels are as before.
<1>5. ASSUME NEW to \in Nat \ {0},
             sub' = [sub EXCEPT ![s].next = to],
             got' \in [Subs -> Seq(Nat)], missed' \in [Subs -> Nat],
             \A r \in Subs : r # s => got'[r] = got[r] /\ missed'[r] = missed[r],
             to <= n + 1,
             Len(got'[s]) + missed'[s] + (n + 1 - to) = top - since[s],
             \A i, j \in 1 .. Len(got'[s]) : i < j => got'[s][i] < got'[s][j],
             \A i \in 1 .. Len(got'[s]) : since[s] < got'[s][i] /\ got'[s][i] <= top,
             \A m \in to .. n : since[s] < events[m],
             \A i \in 1 .. Len(got'[s]), m \in to .. n : got'[s][i] < events[m]
      PROVE  IInv'
  <2>1. /\ sub' \in [Subs -> SubStates]
        /\ sub'[s].state = "live" /\ sub'[s].chan = k /\ sub'[s].next = to
        /\ sub'[s].topic = sub[s].topic
        /\ \A r \in Subs : r # s => sub'[r] = sub[r]
    BY <1>0, <1>1, <1>5 DEF SubStates, Live
  <2>2. TopicTypeOK'
    BY <1>0, <1>1, <1>5, <2>1 DEF TopicTypeOK
  <2>3. Wired'
    BY <1>0, <1>5, <2>1 DEF Wired, Live
  <2>4. LogsOrdered'
    BY <1>0 DEF LogsOrdered, LogOrdered
  <2>5. PositionOf(s)'
    BY <1>0, <1>5, <2>1 DEF PositionOf
  <2>6. ASSUME NEW r \in Subs, r # s, Live(r)' PROVE PositionOf(r)'
    BY <1>0, <1>5, <2>1, <2>6, OthersStay DEF Live
  <2> QED
    BY <2>2, <2>3, <2>4, <2>5, <2>6 DEF IInv, Positioned
<1>6. CASE StillKept(s)
  <2> DEFINE event == events[next]
  <2>1. /\ got' = [got EXCEPT ![s] = Append(got[s], event)]
        /\ sub' = [sub EXCEPT ![s].next = next + 1] /\ missed' = missed
    BY <1>6 DEF Receive
  <2>2. next \in 1 .. n /\ next \in next .. n
    BY <1>1, <1>4
  <2>3. event \in Nat /\ since[s] < event /\ event <= top
    BY <1>2, <1>4, <2>2
  <2>4. \A i \in 1 .. Len(got[s]) : got[s][i] < event
    BY <1>4, <2>2
  <2> DEFINE after == Append(got[s], event)
  <2>5. /\ after \in Seq(Nat) /\ Len(after) = Len(got[s]) + 1
        /\ \A i \in 1 .. Len(after) : i \in 1 .. Len(got[s]) \/ i = Len(after)
        /\ \A i \in 1 .. Len(got[s]) : after[i] = got[s][i]
        /\ after[Len(after)] = event
        /\ \A i, j \in 1 .. Len(after) : i < j => after[i] < after[j]
    <3>1. \A i, j \in 1 .. Len(got[s]) : i < j => got[s][i] < got[s][j]
      BY <1>4
    <3> HIDE DEF event
    <3> QED
      BY <1>1, <2>3, <2>4, <3>1, ReceivedInOrder
  <2> HIDE DEF after, event
  <2>6. /\ got' \in [Subs -> Seq(Nat)] /\ got'[s] = after
        /\ \A r \in Subs : r # s => got'[r] = got[r]
    BY <1>1, <2>1, <2>5 DEF after
  <2>7. \A i \in 1 .. Len(after) : since[s] < after[i] /\ after[i] <= top
    BY <1>4, <2>3, <2>5
  <2>8. \A m \in next + 1 .. n : m \in next .. n /\ m \in 1 .. n /\ next < m
    BY <1>1
  <2>9. \A m \in next + 1 .. n : since[s] < events[m] /\ event < events[m]
    BY <1>3, <1>4, <2>2, <2>8 DEF event
  <2>10. \A i \in 1 .. Len(after), m \in next + 1 .. n : after[i] < events[m]
    BY <1>4, <2>5, <2>8, <2>9
  <2>11. /\ next + 1 \in Nat \ {0} /\ next + 1 <= n + 1
         /\ Len(after) + missed[s] + (n + 1 - (next + 1)) = top - since[s]
    <3> DEFINE received == Len(got[s])
    <3> DEFINE lost == missed[s]
    <3> DEFINE start == since[s]
    <3>1. /\ received \in Nat /\ lost \in Nat /\ start \in Nat
          /\ received + lost + (n + 1 - next) = top - start
          /\ Len(after) = received + 1
      BY <1>1, <1>4, <2>5
    <3> HIDE DEF received, lost, start, n, next, top
    <3>2. /\ next + 1 \in Nat \ {0} /\ next + 1 <= n + 1
          /\ received + 1 + lost + (n + 1 - (next + 1)) = top - start
      BY <1>1, <1>4, <3>1
    <3> QED
      BY <3>1, <3>2 DEF lost, start
  <2> HIDE DEF next, n, events, top
  <2> QED
    BY <1>1, <1>5, <2>1, <2>5, <2>6, <2>7, <2>9, <2>10, <2>11
<1>7. CASE ~ StillKept(s)
  <2> DEFINE to == n - TopicCapacity + 1
  <2>1. /\ missed' = [missed EXCEPT ![s] = missed[s] + to - next]
        /\ sub' = [sub EXCEPT ![s].next = to] /\ got' = got
        /\ next + TopicCapacity <= n
    BY <1>1, <1>7 DEF Receive, Oldest, Sent, StillKept
  <2>2. to \in Nat \ {0} /\ next < to /\ to <= n + 1 /\ missed[s] + to - next \in Nat
    <3> DEFINE lost == missed[s]
    <3>1. /\ lost \in Nat /\ n \in Nat /\ next \in Nat \ {0} /\ TopicCapacity \in Nat \ {0}
          /\ next + TopicCapacity <= n
      BY <1>1, <2>1, TopicCapacityAssumption
    <3> HIDE DEF lost, n, next
    <3>2. to \in Nat \ {0} /\ next < to /\ to <= n + 1 /\ lost + to - next \in Nat
      BY <3>1
    <3> QED
      BY <3>2 DEF lost
  <2> HIDE DEF to
  <2>3. /\ missed' \in [Subs -> Nat] /\ missed'[s] = missed[s] + to - next
        /\ \A r \in Subs : r # s => missed'[r] = missed[r]
    BY <1>1, <2>1, <2>2
  <2>4. \A m \in to .. n : m \in next .. n
    BY <1>1, <2>2
  <2>5. Len(got[s]) + (missed[s] + to - next) + (n + 1 - to) = top - since[s]
    <3> DEFINE received == Len(got[s])
    <3> DEFINE lost == missed[s]
    <3> DEFINE start == since[s]
    <3>1. /\ received \in Nat /\ lost \in Nat /\ start \in Nat /\ to \in Nat
          /\ n \in Nat /\ next \in Nat /\ top \in Nat
          /\ received + lost + (n + 1 - next) = top - start
      BY <1>1, <1>4, <2>2
    <3> HIDE DEF received, lost, start, n, next, top
    <3>2. received + (lost + to - next) + (n + 1 - to) = top - start
      BY <3>1
    <3> QED
      BY <3>2 DEF received, lost, start
  <2> HIDE DEF next, n, events, top
  <2> QED
    BY <1>1, <1>4, <1>5, <2>1, <2>2, <2>3, <2>4, <2>5
<1> QED
  BY <1>6, <1>7

-----------------------------------------------------------------------------

LEMMA NextKeeps == IInv /\ [TopicNext]_topicVars => IInv'
<1> SUFFICES ASSUME IInv, [TopicNext]_topicVars PROVE IInv'
  OBVIOUS
<1>1. CASE UNCHANGED topicVars
  <2>1. TopicTypeOK' /\ Wired'
    BY <1>1 DEF IInv, TopicTypeOK, Wired, Live, topicVars
  <2>2. LogsOrdered' /\ Positioned'
    BY <1>1 DEF IInv, LogsOrdered, LogOrdered, Positioned, PositionOf, Live, topicVars
  <2> QED
    BY <2>1, <2>2 DEF IInv
<1>2. CASE TopicNext
  BY <1>2, SubscribeKeeps, PublishKeeps, ReceiveKeeps, UnsubscribeKeeps DEF TopicNext
<1> QED
  BY <1>1, <1>2

\* The invariant of the topics holds in every state, for any number of receivers.
THEOREM TopicsInvariant == TopicSpec => []IInv
  BY InitEstablishes, NextKeeps, PTL DEF TopicSpec

\* Every variable of the topics keeps its type, whoever subscribes and leaves
\* (bus.rs:95-128).
THEOREM TopicsTypeCorrect == TopicSpec => []TopicTypeOK
<1>1. IInv => TopicTypeOK
  BY DEF IInv
<1> QED
  BY <1>1, TopicsInvariant, PTL

\* Whatever the capacity and however many publish and listen: an event is received, told
\* as missed, or still ahead, exactly once and in order (bus.rs:111-128).
THEOREM NoEventLostSilently == TopicSpec => []NothingLostSilently
<1>1. ASSUME IInv, NEW s \in Subs, Live(s)
      PROVE  /\ Len(got[s]) + missed[s] + (Sent(s) + 1 - sub[s].next)
                   = published[sub[s].topic] - since[s]
             /\ \A i, j \in 1 .. Len(got[s]) : i < j => got[s][i] < got[s][j]
             /\ \A i \in 1 .. Len(got[s]) :
                   /\ since[s] < got[s][i]
                   /\ \A k \in sub[s].next .. Sent(s) : got[s][i] < log[sub[s].chan][k]
  BY <1>1 DEF IInv, Positioned, PositionOf, Sent
<1>2. IInv => NothingLostSilently
  BY <1>1 DEF NothingLostSilently
<1> QED
  BY <1>2, TopicsInvariant, PTL

=============================================================================
