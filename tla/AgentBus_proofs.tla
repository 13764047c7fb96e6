--------------------------- MODULE AgentBus_proofs ---------------------------
(***************************************************************************)
(* AgentBus for any number of calls, names, channels and any capacity of   *)
(* the queues: type correctness, that no call waits on nobody, the bounded *)
(* queues, and what the bus does for its callers.                          *)
(*                                                                         *)
(* NoCallStranded is inductive but for one step: `register` opens a        *)
(* channel, and no call may have been sending on it before.  Known says    *)
(* that every Sender there is belongs to a channel that was made, those of *)
(* the calls that wait for a slot included: a freed slot makes them go on. *)
(*                                                                         *)
(* Slots: SlotsAccounted is not inductive.  A slot that is freed goes to   *)
(* the caller first in line, which must be one that really waits, for this *)
(* channel, and waits once: or the slot would be counted twice, or not at  *)
(* all.  And `register` must find a channel whose slots are all free.      *)
(*                                                                         *)
(* Service: AgentBus implements BusService.  A step of the bus is a step   *)
(* of the service only if what a worker takes out of a queue was not taken *)
(* before and its caller has not been told that it never runs, and only if *)
(* an answer comes from a worker that took the task.  Fates says so; that  *)
(* a freed slot goes to a call that waits for one, Slots, is needed for it.*)
(***************************************************************************)
EXTENDS AgentBus, FiniteSetTheorems, TLAPS

Pending == {"ready", "blocked", "granted", "awaiting"}

Known ==
    /\ \A n \in Names : agents[n] # NoChan => agents[n] \in made
    /\ \A c \in Calls : pc[c] \in Pending => tx[c] \in made
    /\ \A ch \in Chans, c \in Calls : In(c, waiting[ch]) => tx[c] \in made

\* NoCallStranded, call by call.
AnswerOwed(c) ==
    pc[c] = "awaiting" /\ reply[c] = "open" =>
        \/ c \in held[tx[c]]
        \/ tx[c] \in open /\ In(c, queue[tx[c]])

InLine(c) == pc[c] = "blocked" /\ tx[c] \in open => In(c, waiting[tx[c]])

IInv ==
    /\ TypeOK
    /\ Known
    /\ \A c \in Calls : AnswerOwed(c)
    /\ \A c \in Calls : InLine(c)

-----------------------------------------------------------------------------
(* Membership in a sequence *)

LEMMA InAppend ==
    ASSUME NEW S, NEW s \in Seq(S), NEW e \in S
    PROVE  In(e, Append(s, e)) /\ \A d : In(d, s) => In(d, Append(s, e))
  BY DEF In

LEMMA OnlyAppended ==
    ASSUME NEW S, NEW s \in Seq(S), NEW e \in S, NEW d, In(d, Append(s, e))
    PROVE  In(d, s) \/ d = e
  BY DEF In

LEMMA NotByTail ==
    ASSUME NEW S, NEW s \in Seq(S), s # <<>>, NEW d, In(d, Tail(s))
    PROVE  In(d, s)
<1>1. PICK i \in 1 .. Len(Tail(s)) : Tail(s)[i] = d
  BY DEF In
<1>2. i + 1 \in 1 .. Len(s) /\ s[i + 1] = d
  BY <1>1
<1> QED
  BY <1>2 DEF In

LEMMA InTail ==
    ASSUME NEW S, NEW s \in Seq(S), s # <<>>, NEW d, In(d, s), d # Head(s)
    PROVE  In(d, Tail(s))
<1>1. PICK i \in 1 .. Len(s) : s[i] = d
  BY DEF In
<1>2. i # 1
  BY <1>1
<1>3. i - 1 \in 1 .. Len(Tail(s)) /\ Tail(s)[i - 1] = d
  BY <1>1, <1>2
<1> QED
  BY <1>3 DEF In

LEMMA InConcat ==
    ASSUME NEW S, NEW a \in Seq(S), NEW b \in Seq(S), NEW d, In(d, a) \/ In(d, b)
    PROVE  In(d, a \o b)
<1>1. CASE In(d, a)
  BY <1>1 DEF In
<1>2. CASE In(d, b)
  <2>1. PICK j \in 1 .. Len(b) : b[j] = d
    BY <1>2 DEF In
  <2>2. (a \o b)[Len(a) + j] = d /\ Len(a) + j \in 1 .. Len(a \o b)
    BY <2>1
  <2> QED
    BY <2>2 DEF In
<1> QED
  BY <1>1, <1>2

\* The sequence s without its element at i.
Without(s, i) == SubSeq(s, 1, i - 1) \o SubSeq(s, i + 1, Len(s))

LEMMA WithoutIsSeq ==
    ASSUME NEW S, NEW s \in Seq(S), NEW i \in 1 .. Len(s)
    PROVE  Without(s, i) \in Seq(S)
  BY DEF Without

LEMMA NotByConcat ==
    ASSUME NEW S, NEW a \in Seq(S), NEW b \in Seq(S), NEW d, In(d, a \o b)
    PROVE  In(d, a) \/ In(d, b)
<1>1. Len(a \o b) = Len(a) + Len(b) /\ Len(a) \in Nat /\ Len(b) \in Nat
  OBVIOUS
<1>2. PICK j \in 1 .. Len(a) + Len(b) : (a \o b)[j] = d
  BY <1>1 DEF In
<1>3. CASE j <= Len(a)
  <2>1. j \in 1 .. Len(a) /\ a[j] = d
    BY <1>1, <1>2, <1>3
  <2> QED
    BY <2>1 DEF In
<1>4. CASE j > Len(a)
  <2>1. j - Len(a) \in 1 .. Len(b) /\ b[j - Len(a)] = d
    BY <1>1, <1>2, <1>4
  <2> QED
    BY <2>1 DEF In
<1> QED
  BY <1>1, <1>2, <1>3, <1>4

LEMMA NotBySubSeq ==
    ASSUME NEW S, NEW s \in Seq(S), NEW m \in 1 .. Len(s) + 1, NEW n \in 0 .. Len(s), NEW d,
           In(d, SubSeq(s, m, n))
    PROVE  In(d, s)
<1>1. PICK j \in 1 .. Len(SubSeq(s, m, n)) : SubSeq(s, m, n)[j] = d
  BY DEF In
<1>2. m + j - 1 \in 1 .. Len(s) /\ s[m + j - 1] = d
  BY <1>1
<1> QED
  BY <1>2 DEF In

LEMMA NotByWithout ==
    ASSUME NEW S, NEW s \in Seq(S), NEW i \in 1 .. Len(s), NEW d, In(d, Without(s, i))
    PROVE  In(d, s)
<1>1. SubSeq(s, 1, i - 1) \in Seq(S) /\ SubSeq(s, i + 1, Len(s)) \in Seq(S)
  OBVIOUS
<1>2. In(d, SubSeq(s, 1, i - 1)) \/ In(d, SubSeq(s, i + 1, Len(s)))
  BY <1>1, NotByConcat DEF Without
<1>3. /\ 1 \in 1 .. Len(s) + 1 /\ i - 1 \in 0 .. Len(s)
      /\ i + 1 \in 1 .. Len(s) + 1 /\ Len(s) \in 0 .. Len(s)
  OBVIOUS
<1> QED
  BY <1>2, <1>3, NotBySubSeq

LEMMA InWithout ==
    ASSUME NEW S, NEW s \in Seq(S), NEW i \in 1 .. Len(s), NEW d, In(d, s), d # s[i]
    PROVE  In(d, Without(s, i))
<1> DEFINE a == SubSeq(s, 1, i - 1)
           b == SubSeq(s, i + 1, Len(s))
<1>1. /\ a \in Seq(S) /\ b \in Seq(S)
      /\ Len(a) = i - 1 /\ Len(b) = Len(s) - i
      /\ \A j \in 1 .. i - 1 : a[j] = s[j]
      /\ \A j \in 1 .. Len(s) - i : b[j] = s[i + j]
  OBVIOUS
<1>2. PICK j \in 1 .. Len(s) : s[j] = d
  BY DEF In
<1>3. CASE j < i
  <2>1. In(d, a)
    BY <1>1, <1>2, <1>3 DEF In
  <2> QED
    BY <1>1, <2>1, InConcat DEF Without
<1>4. CASE j > i
  <2>1. b[j - i] = d /\ j - i \in 1 .. Len(b)
    BY <1>1, <1>2, <1>4
  <2>2. In(d, b)
    BY <2>1 DEF In
  <2> QED
    BY <1>1, <2>2, InConcat DEF Without
<1> QED
  BY <1>2, <1>3, <1>4

-----------------------------------------------------------------------------
(* Initially there is no channel and no call *)

LEMMA InitEstablishes == Init => IInv
<1> SUFFICES ASSUME Init PROVE IInv
  OBVIOUS
<1>1. TypeOK
  BY CapacityAssumption, NoChanAssumption DEF Init, TypeOK, PCs, Oneshots, Results
<1>2. ASSUME NEW ch \in Chans, NEW c \in Calls PROVE ~ In(c, waiting[ch])
  BY DEF Init, In
<1> QED
  BY <1>1, <1>2 DEF Init, IInv, Known, AnswerOwed, InLine, Pending

-----------------------------------------------------------------------------
(* One lemma for each action *)

\* What a call that is sending knows of its channel.
LEMMA SenderOf ==
    ASSUME IInv, NEW c \in Calls, pc[c] \in Pending
    PROVE  tx[c] \in made /\ tx[c] \in Chans
  BY DEF IInv, Known, TypeOK

LEMMA RegisterKeeps ==
    ASSUME IInv, NEW n \in Names, NEW ch \in Chans, Register(n, ch)
    PROVE  IInv'
<1>1. TypeOK'
  BY DEF IInv, TypeOK, Register, chanVars
<1>2. Known'
  BY DEF IInv, TypeOK, Known, Register, chanVars, In
<1>3. ASSUME NEW c \in Calls PROVE AnswerOwed(c)'
  BY DEF IInv, AnswerOwed, Register, chanVars, In
<1>4. ASSUME NEW c \in Calls PROVE InLine(c)'
  <2>1. pc[c] = "blocked" => tx[c] # ch
    BY SenderOf DEF Register, Pending
  <2> QED
    BY <2>1 DEF IInv, InLine, Register, chanVars, In
<1> QED
  BY <1>1, <1>2, <1>3, <1>4 DEF IInv

LEMMA LookupKeeps ==
    ASSUME IInv, NEW c \in Calls, NEW n \in Names, Lookup(c, n)
    PROVE  IInv'
<1>1. TypeOK'
  BY DEF IInv, TypeOK, Lookup, Return, chanVars, PCs, Results
<1>2. Known'
  <2>1. \A d \in Calls : tx[d] \in made => tx'[d] \in made
    BY DEF IInv, TypeOK, Known, Lookup, Return
  <2>2. \A d \in Calls : pc'[d] \in Pending => tx'[d] \in made
    BY DEF IInv, TypeOK, Known, Lookup, Return, Pending
  <2> QED
    BY <2>1, <2>2 DEF IInv, Known, Lookup, chanVars, In
<1>3. ASSUME NEW d \in Calls PROVE AnswerOwed(d)' /\ InLine(d)'
  <2>1. CASE d = c
    BY <2>1 DEF IInv, TypeOK, AnswerOwed, InLine, Lookup, Return
  <2>2. CASE d # c
    <3>1. /\ pc'[d] = pc[d] /\ tx'[d] = tx[d]
          /\ UNCHANGED <<open, queue, waiting, held, reply>>
      BY <2>2 DEF IInv, TypeOK, Lookup, Return, chanVars
    <3> QED
      BY <3>1 DEF IInv, AnswerOwed, InLine, In
  <2> QED
    BY <2>1, <2>2
<1> QED
  BY <1>1, <1>2, <1>3 DEF IInv

\* A message is put into the queue.
LEMMA PushKeeps ==
    ASSUME IInv, NEW c \in Calls, pc[c] \in {"ready", "granted"}, tx[c] \in open, Push(c),
           UNCHANGED <<agents, made, open, waiting, held, tx, result, served>>,
           permits' \in [Chans -> Nat]
    PROVE  IInv'
<1>1. tx[c] \in made /\ tx[c] \in Chans
  BY SenderOf DEF Pending
<1>2. /\ queue[tx[c]] \in Seq(Calls) /\ queue' \in [Chans -> Seq(Calls)]
      /\ queue'[tx[c]] = Append(queue[tx[c]], c)
      /\ \A ch \in Chans : ch # tx[c] => queue'[ch] = queue[ch]
  BY <1>1 DEF IInv, TypeOK, Push
<1>3. TypeOK'
  BY <1>2 DEF IInv, TypeOK, Push, PCs, Oneshots
<1>4. Known'
  BY <1>1 DEF IInv, TypeOK, Known, Push, Pending, In
<1>5. ASSUME NEW d \in Calls PROVE AnswerOwed(d)'
  <2>1. CASE d = c
    <3>1. In(c, queue'[tx[c]]) /\ tx[c] \in open'
      BY <1>2, InAppend
    <3> QED
      BY <2>1, <3>1 DEF AnswerOwed, In
  <2>2. CASE d # c
    <3>1. SUFFICES ASSUME pc[d] = "awaiting", reply[d] = "open"
                   PROVE  \/ d \in held[tx[d]]
                          \/ tx[d] \in open /\ In(d, queue[tx[d]])'
      BY <2>2 DEF AnswerOwed, IInv, TypeOK, Push
    <3>2. CASE d \in held[tx[d]]
      BY <3>2
    <3>3. CASE tx[d] \in open /\ In(d, queue[tx[d]])
      <4>1. tx[d] \in Chans
        BY <3>1, SenderOf DEF Pending
      <4>2. In(d, queue'[tx[d]])
        BY <1>2, <3>3, <4>1, InAppend
      <4> QED
        BY <3>3, <4>2 DEF In
    <3> QED
      BY <3>1, <3>2, <3>3 DEF IInv, AnswerOwed
  <2> QED
    BY <2>1, <2>2
<1>6. ASSUME NEW d \in Calls PROVE InLine(d)'
  BY DEF IInv, TypeOK, InLine, Push, In
<1> QED
  BY <1>3, <1>4, <1>5, <1>6 DEF IInv

LEMMA SendKeeps == ASSUME IInv, NEW c \in Calls, Send(c) PROVE IInv'
<1>1. tx[c] \in made /\ tx[c] \in Chans
  BY SenderOf DEF Send, Pending
<1>2. CASE SlotFree(tx[c])
  <2>1. permits' \in [Chans -> Nat]
    <3>1. permits' = [permits EXCEPT ![tx[c]] = @ - 1]
      BY <1>2 DEF Send
    <3> QED
      BY <1>1, <1>2, <3>1 DEF IInv, TypeOK, SlotFree
  <2> QED
    BY <1>2, <2>1, PushKeeps DEF Send
<1>3. CASE ~ SlotFree(tx[c])
  <2>0. /\ waiting' = [waiting EXCEPT ![tx[c]] = Append(@, c)]
        /\ pc' = [pc EXCEPT ![c] = "blocked"]
        /\ UNCHANGED <<agents, made, open, permits, queue, reply, held, tx, result, served>>
    BY <1>3 DEF Send
  <2>1. /\ waiting[tx[c]] \in Seq(Calls) /\ waiting' \in [Chans -> Seq(Calls)]
        /\ waiting'[tx[c]] = Append(waiting[tx[c]], c)
        /\ \A ch \in Chans : ch # tx[c] => waiting'[ch] = waiting[ch]
    BY <1>1, <2>0 DEF IInv, TypeOK
  <2>2. TypeOK'
    BY <2>0, <2>1 DEF IInv, TypeOK, PCs
  <2>3. Known'
    <3>1. ASSUME NEW ch \in Chans, NEW d \in Calls, In(d, waiting'[ch])
          PROVE  tx[d] \in made
      <4>1. CASE ch = tx[c]
        <5>1. In(d, Append(waiting[tx[c]], c))
          BY <2>1, <3>1, <4>1
        <5>2. In(d, waiting[tx[c]]) \/ d = c
          BY <2>1, <5>1, OnlyAppended
        <5> QED
          BY <1>1, <5>2 DEF IInv, Known
      <4>2. CASE ch # tx[c]
        BY <2>1, <3>1, <4>2 DEF IInv, Known
      <4> QED
        BY <4>1, <4>2
    <3> QED
      BY <1>1, <2>0, <3>1 DEF IInv, TypeOK, Known, Pending, In
  <2>4. ASSUME NEW d \in Calls PROVE AnswerOwed(d)'
    BY <2>0 DEF IInv, TypeOK, AnswerOwed, In
  <2>5. ASSUME NEW d \in Calls PROVE InLine(d)'
    <3>1. CASE d = c
      <4>1. In(c, waiting'[tx[c]])
        BY <2>1, InAppend
      <4> QED
        BY <2>0, <3>1, <4>1 DEF InLine, In
    <3>2. CASE d # c
      <4>1. SUFFICES ASSUME pc[d] = "blocked", tx[d] \in open, In(d, waiting[tx[d]])
                     PROVE  In(d, waiting'[tx[d]])
        BY <2>0, <3>2 DEF IInv, TypeOK, InLine, In
      <4>2. tx[d] \in Chans
        BY <4>1, SenderOf DEF Pending
      <4> QED
        BY <2>1, <4>1, <4>2, InAppend
    <3> QED
      BY <3>1, <3>2
  <2> QED
    BY <2>2, <2>3, <2>4, <2>5 DEF IInv
<1> QED
  BY <1>2, <1>3

LEMMA SendGrantedKeeps == ASSUME IInv, NEW c \in Calls, SendGranted(c) PROVE IInv'
  BY PushKeeps DEF SendGranted, IInv, TypeOK

\* A call returns, its message (if it sent one) and its channel staying as they are.
LEMMA EndKeeps ==
    ASSUME IInv, NEW c \in Calls, NEW res \in Results, Return(c, res),
           UNCHANGED <<agents, made, open, queue, held, tx, served>>,
           permits' \in [Chans -> Nat],
           reply' \in [Calls -> Oneshots], \A d \in Calls : d # c => reply'[d] = reply[d],
           waiting' \in [Chans -> Seq(Calls)],
           \A ch \in Chans, d \in Calls :
              /\ In(d, waiting'[ch]) => In(d, waiting[ch])
              /\ d # c /\ In(d, waiting[ch]) => In(d, waiting'[ch])
    PROVE  IInv'
<1>1. TypeOK'
  BY DEF IInv, TypeOK, Return, PCs
<1>2. Known'
  <2>1. \A d \in Calls : pc'[d] \in Pending => pc[d] \in Pending
    BY DEF IInv, TypeOK, Return, Pending
  <2>2. \A ch \in Chans, d \in Calls : In(d, waiting[ch])' => tx[d] \in made
    BY DEF IInv, Known, In
  <2> QED
    BY <2>1, <2>2 DEF IInv, Known
<1>3. ASSUME NEW d \in Calls PROVE AnswerOwed(d)' /\ InLine(d)'
  <2>1. CASE d = c
    BY <2>1 DEF IInv, TypeOK, Return, AnswerOwed, InLine
  <2>2. CASE d # c
    <3>1. pc'[d] = pc[d] /\ tx'[d] = tx[d] /\ reply'[d] = reply[d]
      BY <2>2 DEF IInv, TypeOK, Return
    <3>2. AnswerOwed(d)'
      BY <3>1 DEF IInv, AnswerOwed, In
    <3>3. tx[d] \in open => tx[d] \in Chans
      BY DEF IInv, TypeOK
    <3>4. InLine(d)'
      BY <2>2, <3>1, <3>3 DEF IInv, InLine, In
    <3> QED
      BY <3>2, <3>4
  <2> QED
    BY <2>1, <2>2
<1> QED
  BY <1>1, <1>2, <1>3 DEF IInv

LEMMA SendRefusedKeeps == ASSUME IInv, NEW c \in Calls, SendRefused(c) PROVE IInv'
  BY EndKeeps DEF SendRefused, chanVars, IInv, TypeOK, Results

LEMMA CollectKeeps == ASSUME IInv, NEW c \in Calls, Collect(c) PROVE IInv'
<1>1. ReplyOutcome(reply[c]) \in Results
  BY DEF ReplyOutcome, Results
<1> QED
  BY <1>1, EndKeeps DEF Collect, chanVars, IInv, TypeOK

LEMMA CancelAwaitingKeeps ==
    ASSUME IInv, NEW c \in Calls, CancelAwaiting(c),
           UNCHANGED <<agents, made, open, queue, held, tx, served>>
    PROVE  IInv'
  BY EndKeeps DEF CancelAwaiting, IInv, TypeOK, Results, Oneshots

LEMMA CancelBlockedKeeps ==
    ASSUME IInv, NEW c \in Calls, CancelBlocked(c),
           UNCHANGED <<agents, made, open, queue, held, tx, served>>
    PROVE  IInv'
<1>1. /\ "Cancelled" \in Results /\ Return(c, "Cancelled") /\ UNCHANGED <<permits, reply>>
      /\ permits' \in [Chans -> Nat] /\ reply' \in [Calls -> Oneshots]
  BY DEF CancelBlocked, Results, IInv, TypeOK
<1>2. CASE tx[c] \notin open
  <2>1. UNCHANGED waiting
    BY <1>2 DEF CancelBlocked
  <2> QED
    BY <1>1, <2>1, EndKeeps DEF IInv, TypeOK
<1>3. CASE tx[c] \in open
  <2>1. PICK i \in 1 .. Len(waiting[tx[c]]) :
            /\ waiting[tx[c]][i] = c
            /\ waiting' = [waiting EXCEPT ![tx[c]] = Without(@, i)]
    BY <1>3 DEF CancelBlocked, Without
  <2>2. tx[c] \in Chans /\ waiting[tx[c]] \in Seq(Calls)
    BY <1>3 DEF IInv, TypeOK
  <2>3. waiting' \in [Chans -> Seq(Calls)]
    BY <2>1, <2>2, WithoutIsSeq DEF IInv, TypeOK
  <2>4. ASSUME NEW ch \in Chans, NEW d \in Calls
        PROVE  /\ In(d, waiting'[ch]) => In(d, waiting[ch])
               /\ d # c /\ In(d, waiting[ch]) => In(d, waiting'[ch])
    <3>1. CASE ch = tx[c]
      <4>1. waiting'[ch] = Without(waiting[ch], i)
        BY <2>1, <2>2, <3>1 DEF IInv, TypeOK
      <4> QED
        BY <2>1, <2>2, <3>1, <4>1, NotByWithout, InWithout
    <3>2. CASE ch # tx[c]
      BY <2>1, <3>2 DEF IInv, TypeOK
    <3> QED
      BY <3>1, <3>2
  <2> QED
    BY <1>1, <2>3, <2>4, EndKeeps
<1> QED
  BY <1>2, <1>3

\* A slot is released: a waiting sender gets it, and the other ones stay in line.
LEMMA ReleaseWakes ==
    ASSUME IInv, NEW ch \in Chans, Release(ch)
    PROVE  /\ permits' \in [Chans -> Nat]
           /\ waiting' \in [Chans -> Seq(Calls)]
           /\ Woken(ch, pc) \in [Calls -> PCs]
           /\ \A q \in Chans, d \in Calls : In(d, waiting'[q]) => In(d, waiting[q])
           /\ \A d \in Calls :
                 \/ /\ Woken(ch, pc)[d] = pc[d]
                    /\ \A q \in Chans : In(d, waiting[q]) => In(d, waiting'[q])
                 \/ Woken(ch, pc)[d] = "granted" /\ In(d, waiting[ch])
<1>1. CASE waiting[ch] = <<>>
  <2>1. /\ permits' = [permits EXCEPT ![ch] = @ + 1] /\ waiting' = waiting
        /\ Woken(ch, pc) = pc
    BY <1>1 DEF Release, Woken
  <2>2. permits' \in [Chans -> Nat]
    BY <2>1 DEF IInv, TypeOK
  <2> QED
    BY <2>1, <2>2 DEF IInv, TypeOK
<1>2. CASE waiting[ch] # <<>>
  <2> DEFINE w == Head(waiting[ch])
  <2>1. /\ waiting[ch] \in Seq(Calls) /\ w \in Calls /\ In(w, waiting[ch])
        /\ Tail(waiting[ch]) \in Seq(Calls)
    BY <1>2 DEF IInv, TypeOK, In
  <2>2. /\ waiting' = [waiting EXCEPT ![ch] = Tail(waiting[ch])] /\ UNCHANGED permits
        /\ Woken(ch, pc) = [pc EXCEPT ![w] = "granted"]
    BY <1>2 DEF Release, Woken
  <2>3. \A d \in Calls : In(d, Tail(waiting[ch])) => In(d, waiting[ch])
    BY <1>2, <2>1, NotByTail
  <2>4. \A d \in Calls : d # w /\ In(d, waiting[ch]) => In(d, Tail(waiting[ch]))
    BY <1>2, <2>1, InTail
  <2> HIDE DEF w
  <2>5. /\ permits' \in [Chans -> Nat] /\ waiting' \in [Chans -> Seq(Calls)]
        /\ Woken(ch, pc) \in [Calls -> PCs]
    BY <2>1, <2>2 DEF IInv, TypeOK, PCs
  <2>6. \A q \in Chans, d \in Calls : In(d, waiting'[q]) => In(d, waiting[q])
    BY <2>2, <2>3 DEF IInv, TypeOK
  <2>7. ASSUME NEW d \in Calls, d # w
        PROVE  /\ Woken(ch, pc)[d] = pc[d]
               /\ \A q \in Chans : In(d, waiting[q]) => In(d, waiting'[q])
    BY <2>2, <2>4, <2>7 DEF IInv, TypeOK
  <2>8. Woken(ch, pc)[w] = "granted" /\ In(w, waiting[ch])
    BY <2>1, <2>2 DEF IInv, TypeOK
  <2> QED
    BY <2>5, <2>6, <2>7, <2>8
<1> QED
  BY <1>1, <1>2

\* Once a sender was woken, every waiting call is still in line and still knows its channel.
LEMMA WokenKeeps ==
    ASSUME IInv, NEW ch \in Chans, Release(ch), NEW pcs \in [Calls -> PCs], pc' = pcs,
           \A d \in Calls : pcs[d] # Woken(ch, pc)[d] => pcs[d] = "done",
           UNCHANGED <<agents, made, open, tx>>
    PROVE  Known' /\ \A d \in Calls : InLine(d)'
<1>1. \A d \in Calls : pc'[d] \in Pending => tx[d] \in made
  BY ReleaseWakes DEF IInv, Known, Pending
<1>2. \A q \in Chans, d \in Calls : In(d, waiting[q])' => tx[d] \in made
  BY ReleaseWakes DEF IInv, Known, In
<1>3. ASSUME NEW d \in Calls PROVE InLine(d)'
  <2>1. SUFFICES ASSUME pc'[d] = "blocked", tx[d] \in open PROVE In(d, waiting'[tx[d]])
    BY DEF InLine, In
  <2>2. Woken(ch, pc)[d] = "blocked"
    BY <2>1
  <2>3. pc[d] = "blocked" /\ \A q \in Chans : In(d, waiting[q]) => In(d, waiting'[q])
    BY <2>2, ReleaseWakes
  <2> QED
    BY <2>1, <2>3 DEF IInv, TypeOK, InLine
<1> QED
  BY <1>1, <1>2, <1>3 DEF IInv, Known

LEMMA CancelGrantedKeeps ==
    ASSUME IInv, NEW c \in Calls, CancelGranted(c),
           UNCHANGED <<agents, made, open, queue, held, tx, served>>
    PROVE  IInv'
<1>1. tx[c] \in Chans /\ Release(tx[c])
  BY SenderOf DEF CancelGranted, Pending
<1>2. /\ Woken(tx[c], pc) \in [Calls -> PCs]
      /\ pc' = [Woken(tx[c], pc) EXCEPT ![c] = "done"] /\ UNCHANGED reply
  BY <1>1, ReleaseWakes DEF CancelGranted
<1>3. /\ pc' \in [Calls -> PCs] /\ pc'[c] = "done"
      /\ \A d \in Calls : d # c => pc'[d] = Woken(tx[c], pc)[d]
  BY <1>2 DEF PCs
<1>4. TypeOK'
  <2>1. result' \in [Calls -> Results]
    BY DEF IInv, TypeOK, CancelGranted, Results
  <2> QED
    BY <1>1, <1>2, <1>3, <2>1, ReleaseWakes DEF IInv, TypeOK
<1>5. Known' /\ \A d \in Calls : InLine(d)'
  BY <1>1, <1>3, WokenKeeps
<1>6. ASSUME NEW d \in Calls PROVE AnswerOwed(d)'
  <2>1. pc'[d] = "awaiting" => pc[d] = "awaiting"
    BY <1>1, <1>3, ReleaseWakes
  <2> QED
    BY <1>2, <2>1 DEF IInv, AnswerOwed, In
<1> QED
  BY <1>4, <1>5, <1>6 DEF IInv

LEMMA CancelKeeps == ASSUME IInv, NEW c \in Calls, Cancel(c) PROVE IInv'
  BY CancelBlockedKeeps, CancelGrantedKeeps, CancelAwaitingKeeps DEF Cancel

\* The message at the head of the queue goes into the worker's hands.
LEMMA RecvKeeps == ASSUME IInv, NEW ch \in Chans, Recv(ch) PROVE IInv'
<1> DEFINE c == Head(queue[ch])
<1>1. /\ queue[ch] \in Seq(Calls) /\ queue[ch] # <<>>
      /\ c \in Calls /\ Tail(queue[ch]) \in Seq(Calls)
  BY DEF IInv, TypeOK, Recv
<1>2. \A d \in Calls : d # c /\ In(d, queue[ch]) => In(d, Tail(queue[ch]))
  BY <1>1, InTail
<1>3. /\ held' = [held EXCEPT ![ch] = @ \cup {c}]
      /\ served' = [served EXCEPT ![c] = @ + 1]
      /\ queue' = [queue EXCEPT ![ch] = Tail(@)]
      /\ Release(ch) /\ pc' = Woken(ch, pc)
      /\ UNCHANGED <<agents, made, open, tx, reply, result>>
  BY DEF Recv
<1> HIDE DEF c
<1>4. TypeOK'
  <2>1. /\ queue' \in [Chans -> Seq(Calls)] /\ served' \in [Calls -> Nat]
        /\ held' \in [Chans -> SUBSET Calls]
    BY <1>1, <1>3 DEF IInv, TypeOK
  <2> QED
    BY <1>3, <2>1, ReleaseWakes DEF IInv, TypeOK
<1>5. Known' /\ \A d \in Calls : InLine(d)'
  BY <1>3, WokenKeeps, ReleaseWakes
<1>6. ASSUME NEW d \in Calls PROVE AnswerOwed(d)'
  <2>1. SUFFICES ASSUME pc'[d] = "awaiting", reply[d] = "open"
                 PROVE  \/ d \in held'[tx[d]]
                        \/ tx[d] \in open /\ In(d, queue'[tx[d]])
    BY <1>3 DEF AnswerOwed, In
  <2>2. pc[d] = "awaiting"
    BY <1>3, <2>1, ReleaseWakes
  <2>3. tx[d] \in Chans
    BY <2>2, SenderOf DEF Pending
  <2>4. CASE d \in held[tx[d]]
    BY <1>3, <2>3, <2>4 DEF IInv, TypeOK
  <2>5. CASE tx[d] \in open /\ In(d, queue[tx[d]])
    <3>1. CASE tx[d] # ch
      BY <1>3, <2>3, <2>5, <3>1 DEF IInv, TypeOK
    <3>2. CASE tx[d] = ch /\ d = c
      BY <1>3, <2>3, <3>2 DEF IInv, TypeOK
    <3>3. CASE tx[d] = ch /\ d # c
      BY <1>2, <1>3, <2>5, <3>3 DEF IInv, TypeOK
    <3> QED
      BY <3>1, <3>2, <3>3
  <2> QED
    BY <2>1, <2>2, <2>4, <2>5 DEF IInv, AnswerOwed
<1> QED
  BY <1>4, <1>5, <1>6 DEF IInv

LEMMA AnswerKeeps ==
    ASSUME IInv, NEW ch \in Chans, NEW c \in Calls, NEW how \in {"sent", "dropped"},
           Answer(ch, c, how)
    PROVE  IInv'
<1>1. TypeOK'
  BY DEF IInv, TypeOK, Answer, Oneshots
<1>2. Known'
  BY DEF IInv, Known, Answer, In
<1>3. ASSUME NEW d \in Calls PROVE AnswerOwed(d)'
  <2>1. CASE d = c
    BY <2>1 DEF IInv, TypeOK, AnswerOwed, Answer
  <2>2. CASE d # c
    <3>1. /\ reply'[d] = reply[d] /\ UNCHANGED <<open, queue, pc, tx>>
          /\ \A q \in Chans : d \in held[q] => d \in held'[q]
      BY <2>2 DEF IInv, TypeOK, Answer
    <3>2. pc[d] = "awaiting" => tx[d] \in Chans
      BY SenderOf DEF Pending
    <3> QED
      BY <3>1, <3>2 DEF IInv, AnswerOwed, In
  <2> QED
    BY <2>1, <2>2
<1>4. ASSUME NEW d \in Calls PROVE InLine(d)'
  BY DEF IInv, InLine, Answer, In
<1> QED
  BY <1>1, <1>2, <1>3, <1>4 DEF IInv

\* The callers of the dropped messages learn of it.
LEMMA DropReceiverKeeps == ASSUME IInv, NEW ch \in Chans, DropReceiver(ch) PROVE IInv'
<1>1. /\ open' = open \ {ch} /\ reply' = RepliesAfterClose(ch)
      /\ queue' = [queue EXCEPT ![ch] = <<>>] /\ waiting' = [waiting EXCEPT ![ch] = <<>>]
      /\ UNCHANGED <<agents, made, permits, held, pc, tx, result, served>>
  BY DEF DropReceiver
<1>2. /\ reply' \in [Calls -> Oneshots]
      /\ \A d \in Calls : reply'[d] = "open" => reply[d] = "open" /\ ~ In(d, queue[ch])
  BY <1>1 DEF IInv, TypeOK, RepliesAfterClose, Oneshots
<1>3. TypeOK'
  BY <1>1, <1>2 DEF IInv, TypeOK
<1>4. Known'
  <2>1. ASSUME NEW q \in Chans, NEW d \in Calls, In(d, waiting'[q]) PROVE In(d, waiting[q])
    <3>1. q # ch
      BY <1>1, <2>1 DEF IInv, TypeOK, In
    <3> QED
      BY <1>1, <2>1, <3>1 DEF IInv, TypeOK
  <2> QED
    BY <1>1, <2>1 DEF IInv, Known, In
<1>5. ASSUME NEW d \in Calls PROVE AnswerOwed(d)'
  <2>1. SUFFICES ASSUME pc[d] = "awaiting", reply'[d] = "open"
                 PROVE  \/ d \in held[tx[d]]
                        \/ tx[d] \in open' /\ In(d, queue'[tx[d]])
    BY <1>1 DEF AnswerOwed, In
  <2>2. reply[d] = "open" /\ ~ In(d, queue[ch])
    BY <1>2, <2>1
  <2>3. CASE tx[d] \in open /\ In(d, queue[tx[d]])
    <3>1. tx[d] # ch /\ tx[d] \in Chans
      BY <2>2, <2>3 DEF IInv, TypeOK
    <3> QED
      BY <1>1, <2>3, <3>1 DEF IInv, TypeOK
  <2> QED
    BY <2>1, <2>2, <2>3 DEF IInv, AnswerOwed
<1>6. ASSUME NEW d \in Calls PROVE InLine(d)'
  <2>1. SUFFICES ASSUME pc[d] = "blocked", tx[d] \in open, tx[d] # ch
                 PROVE  In(d, waiting'[tx[d]])
    BY <1>1 DEF InLine, In
  <2> QED
    BY <1>1, <2>1 DEF IInv, TypeOK, InLine
<1> QED
  BY <1>3, <1>4, <1>5, <1>6 DEF IInv

-----------------------------------------------------------------------------
(* The theorems *)

LEMMA NextKeeps == IInv /\ [Next]_vars => IInv'
<1> SUFFICES ASSUME IInv, [Next]_vars PROVE IInv'
  OBVIOUS
<1>1. ASSUME NEW n \in Names, NEW ch \in Chans, Register(n, ch) PROVE IInv'
  BY <1>1, RegisterKeeps
<1>2. ASSUME NEW c \in Calls, CallNext(c) PROVE IInv'
  <2>1. ASSUME NEW n \in Names, Lookup(c, n) PROVE IInv'
    BY <2>1, LookupKeeps
  <2>2. CASE Send(c) \/ SendGranted(c) \/ SendRefused(c)
    BY <2>2, SendKeeps, SendGrantedKeeps, SendRefusedKeeps
  <2>3. CASE Collect(c) \/ Cancel(c)
    BY <2>3, CollectKeeps, CancelKeeps
  <2> QED
    BY <1>2, <2>1, <2>2, <2>3 DEF CallNext
<1>3. ASSUME NEW ch \in Chans, WorkerNext(ch) PROVE IInv'
  <2>1. CASE Recv(ch) \/ DropReceiver(ch)
    BY <2>1, RecvKeeps, DropReceiverKeeps
  <2>2. ASSUME NEW c \in Calls, Reply(ch, c) \/ DropReply(ch, c) PROVE IInv'
    BY <2>2, AnswerKeeps DEF Reply, DropReply
  <2> QED
    BY <1>3, <2>1, <2>2 DEF WorkerNext
<1>4. CASE UNCHANGED vars
  BY <1>4 DEF IInv, TypeOK, Known, AnswerOwed, InLine, In, vars, chanVars
<1> QED
  BY <1>1, <1>2, <1>3, <1>4 DEF Next

THEOREM InductiveInvariant == Spec => []IInv
  BY InitEstablishes, NextKeeps, PTL DEF Spec

\* Every variable of the bus keeps its type; no semaphore is taken below zero
\* (bus.rs:58-100).
THEOREM TypeCorrect == Spec => []TypeOK
<1>1. IInv => TypeOK
  BY DEF IInv
<1> QED
  BY <1>1, InductiveInvariant, PTL

\* Whatever registrations, workers and other callers do, a call of `send` that waits for
\* an answer is owed one, and one that waits for a slot is in line for it (bus.rs:91-99).
THEOREM NobodyStranded == Spec => []NoCallStranded
<1>1. IInv => NoCallStranded
  BY DEF IInv, AnswerOwed, InLine, NoCallStranded
<1> QED
  BY <1>1, InductiveInvariant, PTL

-----------------------------------------------------------------------------
(* The slots of the queues *)

Distinct(s) == \A i, j \in 1 .. Len(s) : s[i] = s[j] => i = j

LineOf(ch) ==
    /\ waiting[ch] # <<>> => ch \in open /\ permits[ch] = 0
    /\ \A c \in Calls : In(c, waiting[ch]) => pc[c] = "blocked" /\ tx[c] = ch
    /\ Distinct(waiting[ch])

SlotsOf(ch) ==
    /\ IsFiniteSet(Granted(ch))
    /\ ch \in open =>
          permits[ch] + Len(queue[ch]) + Cardinality(Granted(ch)) = QueueCapacity
    /\ ch \notin made => permits[ch] = QueueCapacity /\ queue[ch] = <<>>

Slots == \A ch \in Chans : LineOf(ch) /\ SlotsOf(ch)

-----------------------------------------------------------------------------
(* Distinct sequences *)

LEMMA DistinctAppend ==
    ASSUME NEW S, NEW s \in Seq(S), NEW e \in S, Distinct(s), ~ In(e, s)
    PROVE  Distinct(Append(s, e))
<1>1. /\ Len(s) \in Nat /\ Len(Append(s, e)) = Len(s) + 1
      /\ \A i \in 1 .. Len(s) : Append(s, e)[i] = s[i] /\ s[i] # e
      /\ Append(s, e)[Len(s) + 1] = e
      /\ \A i \in 1 .. Len(s) + 1 : i \in 1 .. Len(s) \/ i = Len(s) + 1
  BY DEF In
<1> QED
  BY <1>1 DEF Distinct

LEMMA DistinctTail ==
    ASSUME NEW S, NEW s \in Seq(S), s # <<>>, Distinct(s)
    PROVE  Distinct(Tail(s)) /\ ~ In(Head(s), Tail(s))
<1>1. /\ Len(s) \in Nat /\ Len(Tail(s)) = Len(s) - 1 /\ Head(s) = s[1]
      /\ \A i \in 1 .. Len(s) - 1 : Tail(s)[i] = s[i + 1] /\ i + 1 \in 1 .. Len(s)
      /\ 1 \in 1 .. Len(s)
  OBVIOUS
<1>2. \A i \in 1 .. Len(s) - 1 : i + 1 # 1 /\ \A j \in 1 .. Len(s) - 1 : i + 1 = j + 1 => i = j
  BY <1>1
<1> QED
  BY <1>1, <1>2 DEF Distinct, In

LEMMA DistinctWithout ==
    ASSUME NEW S, NEW s \in Seq(S), NEW i \in 1 .. Len(s), Distinct(s)
    PROVE  Distinct(Without(s, i)) /\ ~ In(s[i], Without(s, i))
<1> DEFINE w == Without(s, i)
<1> DEFINE n == Len(s)
<1> DEFINE at(j) == IF j < i THEN j ELSE j + 1
<1>1. n \in Nat /\ i \in 1 .. n
  OBVIOUS
<1>2. /\ Len(w) = n - 1
      /\ \A j \in 1 .. n - 1 : w[j] = s[at(j)]
  <2> DEFINE a == SubSeq(s, 1, i - 1)
  <2> DEFINE b == SubSeq(s, i + 1, n)
  <2>1. /\ a \in Seq(S) /\ b \in Seq(S) /\ w = a \o b
        /\ Len(a) = i - 1 /\ Len(b) = n - i
        /\ \A j \in 1 .. i - 1 : a[j] = s[j]
        /\ \A j \in 1 .. n - i : b[j] = s[i + j]
    BY DEF Without
  <2> HIDE DEF a, b, w, n
  <2>2. /\ Len(w) = n - 1
        /\ \A j \in 1 .. n - 1 : w[j] = IF j <= Len(a) THEN a[j] ELSE b[j - Len(a)]
    BY <1>1, <2>1
  <2>3. ASSUME NEW j \in 1 .. n - 1 PROVE w[j] = s[at(j)]
    <3>1. CASE j < i
      BY <1>1, <2>1, <2>2, <3>1
    <3>2. CASE j >= i
      <4>1. w[j] = b[j - (i - 1)] /\ j - (i - 1) \in 1 .. n - i /\ at(j) = j + 1
        BY <1>1, <2>1, <2>2, <3>2
      <4>2. b[j - (i - 1)] = s[i + (j - (i - 1))] /\ i + (j - (i - 1)) = j + 1
        BY <1>1, <2>1, <4>1
      <4> QED
        BY <4>1, <4>2
    <3> QED
      BY <1>1, <3>1, <3>2
  <2> QED
    BY <2>2, <2>3
<1> HIDE DEF w, n
<1>3. \A j \in 1 .. n - 1 : at(j) \in 1 .. n /\ at(j) # i
  BY <1>1
<1>4. \A j, k \in 1 .. n - 1 : at(j) = at(k) => j = k
  BY <1>1
<1> HIDE DEF at
<1>5. \A j, k \in 1 .. n - 1 : w[j] = w[k] => j = k
  BY <1>2, <1>3, <1>4 DEF Distinct, n
<1>6. \A j \in 1 .. n - 1 : w[j] # s[i]
  BY <1>1, <1>2, <1>3 DEF Distinct, n
<1> QED
  BY <1>2, <1>5, <1>6 DEF Distinct, In, w

-----------------------------------------------------------------------------
(* What a step leaves of a channel *)

\* A call that neither waits for a slot of ch nor has got one, before and after.
Aside(d, ch) ==
    \/ pc'[d] = pc[d] /\ tx'[d] = tx[d]
    \/ /\ ~ (tx[d] = ch /\ pc[d] \in {"blocked", "granted"})
       /\ ~ (tx'[d] = ch /\ pc'[d] = "granted")

LEMMA SameGranted ==
    ASSUME NEW ch \in Chans, \A d \in Calls : Aside(d, ch)
    PROVE  Granted(ch)' = Granted(ch)
  BY DEF Granted, Aside

LEMMA Unaffected ==
    ASSUME NEW ch \in Chans, LineOf(ch), SlotsOf(ch),
           permits'[ch] = permits[ch], queue'[ch] = queue[ch], waiting'[ch] = waiting[ch],
           ch \in open' <=> ch \in open, ch \in made' <=> ch \in made,
           \A d \in Calls : Aside(d, ch)
    PROVE  LineOf(ch)' /\ SlotsOf(ch)'
<1>1. SlotsOf(ch)'
  BY SameGranted DEF SlotsOf
<1>2. \A d \in Calls : In(d, waiting'[ch]) => pc'[d] = "blocked" /\ tx'[d] = ch
  BY DEF LineOf, Aside, In
<1> QED
  BY <1>1, <1>2 DEF LineOf, Distinct, In

\* A step of one call on its way to or from a channel, or past the queue.
LEMMA CallApart ==
    ASSUME IInv, Slots, NEW c \in Calls, NEW to \in PCs \ {"granted"},
           pc[c] \notin {"blocked", "granted"} \/ tx[c] \notin open,
           pc' = [pc EXCEPT ![c] = to],
           \A d \in Calls : d # c => tx'[d] = tx[d],
           UNCHANGED <<permits, queue, waiting, open, made>>
    PROVE  Slots'
<1>1. \A d \in Calls : d # c => pc'[d] = pc[d] /\ tx'[d] = tx[d]
  BY DEF IInv, TypeOK
<1>2. pc'[c] = to
  BY DEF IInv, TypeOK
<1> SUFFICES ASSUME NEW ch \in Chans PROVE LineOf(ch)' /\ SlotsOf(ch)'
  BY DEF Slots
<1>3. LineOf(ch) /\ SlotsOf(ch)
  BY DEF Slots
<1>4. CASE ch \in open
  <2>1. \A d \in Calls : Aside(d, ch)
    BY <1>1, <1>2, <1>4 DEF Aside
  <2> QED
    BY <1>3, <2>1, Unaffected
<1>5. CASE ch \notin open
  <2>1. waiting[ch] = <<>>
    BY <1>3, <1>5 DEF LineOf
  <2>2. LineOf(ch)'
    BY <2>1 DEF LineOf, Distinct, In
  <2>3. Granted(ch)' \subseteq Granted(ch) \/ Granted(ch)' = Granted(ch)
    BY <1>1, <1>2 DEF Granted
  <2>4. IsFiniteSet(Granted(ch)')
    BY <1>3, <2>3, FS_Subset DEF SlotsOf
  <2> QED
    BY <1>3, <1>5, <2>2, <2>4 DEF SlotsOf
<1> QED
  BY <1>4, <1>5

-----------------------------------------------------------------------------
(* A freed slot *)

\* It is free, or the caller first in line has it.
LEMMA Released ==
    ASSUME IInv, NEW ch \in Chans, LineOf(ch), Release(ch)
    PROVE  /\ permits' \in [Chans -> Nat]
           /\ \A x \in Chans : x # ch => permits'[x] = permits[x] /\ waiting'[x] = waiting[x]
           /\ \/ /\ waiting[ch] = <<>> /\ waiting'[ch] = <<>>
                 /\ permits'[ch] = permits[ch] + 1
                 /\ Woken(ch, pc) = pc
              \/ /\ waiting[ch] # <<>> /\ permits'[ch] = permits[ch]
                 /\ ch \in open /\ permits[ch] = 0
                 /\ Head(waiting[ch]) \in Calls
                 /\ pc[Head(waiting[ch])] = "blocked" /\ tx[Head(waiting[ch])] = ch
                 /\ waiting'[ch] = Tail(waiting[ch])
                 /\ Distinct(waiting'[ch])
                 /\ \A d : In(d, waiting'[ch]) => In(d, waiting[ch]) /\ d # Head(waiting[ch])
                 /\ Woken(ch, pc) = [pc EXCEPT ![Head(waiting[ch])] = "granted"]
<1>0. /\ waiting[ch] \in Seq(Calls) /\ waiting \in [Chans -> Seq(Calls)]
      /\ permits \in [Chans -> Nat]
  BY DEF IInv, TypeOK
<1>1. CASE waiting[ch] = <<>>
  BY <1>0, <1>1 DEF Release, Woken
<1>2. CASE waiting[ch] # <<>>
  <2>1. /\ waiting' = [waiting EXCEPT ![ch] = Tail(waiting[ch])] /\ permits' = permits
        /\ Woken(ch, pc) = [pc EXCEPT ![Head(waiting[ch])] = "granted"]
    BY <1>2 DEF Release, Woken
  <2>2. Head(waiting[ch]) \in Calls /\ In(Head(waiting[ch]), waiting[ch])
    BY <1>0, <1>2 DEF In
  <2>3. Distinct(Tail(waiting[ch])) /\ ~ In(Head(waiting[ch]), Tail(waiting[ch]))
    BY <1>0, <1>2, DistinctTail DEF LineOf
  <2>4. \A d : In(d, Tail(waiting[ch])) => In(d, waiting[ch])
    BY <1>0, <1>2, NotByTail
  <2>5. waiting'[ch] = Tail(waiting[ch])
        /\ \A x \in Chans : x # ch => waiting'[x] = waiting[x]
    BY <1>0, <2>1
  <2> QED
    BY <1>0, <1>2, <2>1, <2>2, <2>3, <2>4, <2>5 DEF LineOf
<1> QED
  BY <1>1, <1>2

-----------------------------------------------------------------------------
(* One lemma for each action *)

LEMMA InitSlots == Init => Slots
<1> SUFFICES ASSUME Init, NEW ch \in Chans PROVE LineOf(ch) /\ SlotsOf(ch)
  BY DEF Slots
<1>1. waiting[ch] = <<>> /\ queue[ch] = <<>> /\ permits[ch] = QueueCapacity
      /\ ch \notin open /\ Granted(ch) = {}
  BY DEF Init, Granted
<1> QED
  BY <1>1, FS_EmptySet DEF LineOf, SlotsOf, Distinct, In

\* Nobody has used the channel that `register` makes.
LEMMA RegisterSlots ==
    ASSUME IInv, Slots, NEW n \in Names, NEW new \in Chans, Register(n, new)
    PROVE  Slots'
<1> SUFFICES ASSUME NEW ch \in Chans PROVE LineOf(ch)' /\ SlotsOf(ch)'
  BY DEF Slots
<1>0. /\ LineOf(ch) /\ SlotsOf(ch) /\ new \notin made
      /\ made' = made \cup {new} /\ open' = open \cup {new}
      /\ UNCHANGED <<permits, queue, waiting, pc, tx>>
  BY DEF Slots, Register, chanVars
<1>1. CASE ch # new
  BY <1>0, <1>1, Unaffected DEF Aside
<1>2. CASE ch = new
  <2>1. Granted(ch) = {}
    BY <1>0, <1>2 DEF IInv, Known, Granted, Pending
  <2>2. /\ permits[ch] = QueueCapacity /\ queue[ch] = <<>> /\ waiting[ch] = <<>>
        /\ permits[ch] \in Nat
    BY <1>0, <1>2 DEF LineOf, SlotsOf, IInv, TypeOK
  <2>3. Granted(ch)' = {} /\ Cardinality({}) = 0 /\ IsFiniteSet({})
    BY <1>0, <2>1, FS_EmptySet DEF Granted
  <2> QED
    BY <1>0, <2>2, <2>3 DEF LineOf, SlotsOf, Distinct, In
<1> QED
  BY <1>1, <1>2

LEMMA LookupSlots ==
    ASSUME IInv, Slots, NEW c \in Calls, NEW n \in Names, Lookup(c, n)
    PROVE  Slots'
<1>1. /\ UNCHANGED <<permits, queue, waiting, open, made>> /\ pc[c] = "idle"
      /\ \E to \in PCs \ {"granted"} : pc' = [pc EXCEPT ![c] = to]
      /\ \A d \in Calls : d # c => tx'[d] = tx[d]
  BY DEF Lookup, Return, chanVars, PCs, IInv, TypeOK
<1> QED
  BY <1>1, CallApart

LEMMA SendRefusedSlots ==
    ASSUME IInv, Slots, NEW c \in Calls, SendRefused(c) PROVE Slots'
<1>1. /\ UNCHANGED <<permits, queue, waiting, open, made, tx>> /\ tx[c] \notin open
      /\ \E to \in PCs \ {"granted"} : pc' = [pc EXCEPT ![c] = to]
  BY DEF SendRefused, Return, chanVars, PCs
<1> QED
  BY <1>1, CallApart

LEMMA CollectSlots ==
    ASSUME IInv, Slots, NEW c \in Calls, Collect(c) \/ (CancelAwaiting(c) /\ Cancel(c))
    PROVE  Slots'
<1>1. /\ UNCHANGED <<permits, queue, waiting, open, made, tx>> /\ pc[c] = "awaiting"
      /\ \E to \in PCs \ {"granted"} : pc' = [pc EXCEPT ![c] = to]
  BY DEF Collect, CancelAwaiting, Cancel, Return, chanVars, PCs
<1> QED
  BY <1>1, CallApart

\* A free slot, or a granted one, becomes a message in the queue.
LEMMA SendSlots ==
    ASSUME IInv, Slots, NEW c \in Calls, Send(c) \/ SendGranted(c) PROVE Slots'
<1> DEFINE mine == tx[c]
<1>0. /\ pc[c] \in {"ready", "granted"} /\ mine \in open /\ mine \in Chans /\ mine \in made
      /\ UNCHANGED <<open, made, tx>>
  BY SenderOf DEF Send, SendGranted, Pending, IInv, TypeOK
<1>1. /\ queue \in [Chans -> Seq(Calls)] /\ waiting \in [Chans -> Seq(Calls)]
      /\ permits \in [Chans -> Nat] /\ pc \in [Calls -> PCs]
      /\ LineOf(mine) /\ SlotsOf(mine)
      /\ Len(queue[mine]) \in Nat /\ permits[mine] \in Nat
      /\ Cardinality(Granted(mine)) \in Nat
  BY <1>0, FS_CardinalityType DEF IInv, TypeOK, Slots, SlotsOf
<1>2. ASSUME NEW ch \in Chans, ch # mine,
             permits'[ch] = permits[ch], queue'[ch] = queue[ch], waiting'[ch] = waiting[ch],
             \A d \in Calls : d # c => pc'[d] = pc[d]
      PROVE  LineOf(ch)' /\ SlotsOf(ch)'
  BY <1>0, <1>2, Unaffected DEF Aside, Slots
<1>3. ~ In(c, waiting[mine])
  BY <1>0, <1>1 DEF LineOf
<1>4. CASE Send(c) /\ permits[mine] > 0
  <2>1. /\ permits' = [permits EXCEPT ![mine] = permits[mine] - 1]
        /\ queue' = [queue EXCEPT ![mine] = Append(queue[mine], c)]
        /\ pc' = [pc EXCEPT ![c] = "awaiting"] /\ waiting' = waiting /\ pc[c] = "ready"
    BY <1>4 DEF Send, SlotFree, Push
  <2>2. /\ permits'[mine] = permits[mine] - 1 /\ Len(queue'[mine]) = Len(queue[mine]) + 1
        /\ pc'[c] = "awaiting" /\ \A d \in Calls : d # c => pc'[d] = pc[d]
        /\ \A ch \in Chans : ch # mine => permits'[ch] = permits[ch] /\ queue'[ch] = queue[ch]
    BY <1>0, <1>1, <2>1
  <2>3. Granted(mine)' = Granted(mine)
    BY <1>0, <2>1, <2>2, SameGranted DEF Aside
  <2>4. waiting'[mine] = <<>>
    BY <1>1, <1>4, <2>1 DEF LineOf
  <2>5. LineOf(mine)'
    BY <1>0, <2>4 DEF LineOf, Distinct, In
  <2>6. SlotsOf(mine)'
    BY <1>0, <1>1, <2>2, <2>3 DEF SlotsOf
  <2> QED
    BY <1>0, <1>2, <2>1, <2>2, <2>5, <2>6 DEF Slots
<1>5. CASE SendGranted(c)
  <2>1. /\ queue' = [queue EXCEPT ![mine] = Append(queue[mine], c)]
        /\ pc' = [pc EXCEPT ![c] = "awaiting"] /\ UNCHANGED <<waiting, permits>>
        /\ pc[c] = "granted"
    BY <1>5 DEF SendGranted, Push
  <2>2. /\ Len(queue'[mine]) = Len(queue[mine]) + 1
        /\ pc'[c] = "awaiting" /\ \A d \in Calls : d # c => pc'[d] = pc[d]
        /\ \A ch \in Chans : ch # mine => queue'[ch] = queue[ch]
    BY <1>0, <1>1, <2>1
  <2>3. Granted(mine)' = Granted(mine) \ {c} /\ c \in Granted(mine)
    BY <1>0, <2>1, <2>2 DEF Granted
  <2>4. /\ IsFiniteSet(Granted(mine)')
        /\ Cardinality(Granted(mine)') = Cardinality(Granted(mine)) - 1
    <3>1. IsFiniteSet(Granted(mine))
      BY <1>1 DEF SlotsOf
    <3> QED
      BY <2>3, <3>1, FS_RemoveElement
  <2>5. LineOf(mine)'
    BY <1>0, <1>1, <1>3, <2>1, <2>2 DEF LineOf, Distinct, In
  <2>6. SlotsOf(mine)'
    <3> DEFINE p == permits[mine]
    <3> DEFINE q == Len(queue[mine])
    <3> DEFINE g == Cardinality(Granted(mine))
    <3>1. p \in Nat /\ q \in Nat /\ g \in Nat /\ p + q + g = QueueCapacity
      BY <1>0, <1>1 DEF SlotsOf
    <3> HIDE DEF p, q, g
    <3>2. p + (q + 1) + (g - 1) = QueueCapacity
      BY <3>1
    <3>3. /\ permits'[mine] = p /\ Len(queue'[mine]) = q + 1
          /\ Cardinality(Granted(mine)') = g - 1
      BY <2>1, <2>2, <2>4 DEF p, q, g
    <3> QED
      BY <1>0, <2>4, <3>2, <3>3 DEF SlotsOf
  <2> QED
    BY <1>0, <1>2, <2>1, <2>2, <2>5, <2>6 DEF Slots
<1>6. CASE Send(c) /\ ~ (permits[mine] > 0)
  <2>1. /\ waiting' = [waiting EXCEPT ![mine] = Append(waiting[mine], c)]
        /\ pc' = [pc EXCEPT ![c] = "blocked"] /\ UNCHANGED <<queue, permits>>
        /\ pc[c] = "ready" /\ permits[mine] = 0
    BY <1>1, <1>6 DEF Send, SlotFree
  <2>2. /\ waiting'[mine] = Append(waiting[mine], c) /\ waiting[mine] \in Seq(Calls)
        /\ pc'[c] = "blocked" /\ \A d \in Calls : d # c => pc'[d] = pc[d]
        /\ \A ch \in Chans : ch # mine => waiting'[ch] = waiting[ch]
    BY <1>0, <1>1, <2>1
  <2>3. Granted(mine)' = Granted(mine)
    BY <1>0, <2>1, <2>2, SameGranted DEF Aside
  <2>4. SlotsOf(mine)'
    BY <1>0, <1>1, <2>1, <2>3 DEF SlotsOf
  <2>5. LineOf(mine)'
    <3>1. Distinct(waiting'[mine])
      BY <1>1, <1>3, <2>2, DistinctAppend DEF LineOf
    <3>2. \A d \in Calls : In(d, waiting'[mine]) => pc'[d] = "blocked" /\ tx'[d] = mine
      <4>1. \A d \in Calls : In(d, waiting'[mine]) => In(d, waiting[mine]) \/ d = c
        BY <2>2, OnlyAppended
      <4> QED
        BY <1>0, <1>1, <2>2, <4>1 DEF LineOf
    <3> QED
      BY <1>0, <2>1, <3>1, <3>2 DEF LineOf, Distinct, In
  <2> QED
    BY <1>0, <1>2, <2>1, <2>2, <2>4, <2>5 DEF Slots
<1> QED
  BY <1>4, <1>5, <1>6

LEMMA CancelBlockedSlots ==
    ASSUME IInv, Slots, NEW c \in Calls, CancelBlocked(c), Cancel(c) PROVE Slots'
<1> DEFINE mine == tx[c]
<1>0. /\ pc[c] = "blocked" /\ mine \in Chans
      /\ pc' = [pc EXCEPT ![c] = "done"]
      /\ UNCHANGED <<permits, queue, open, made, tx>>
      /\ pc'[c] = "done" /\ \A d \in Calls : d # c => pc'[d] = pc[d]
  BY SenderOf DEF CancelBlocked, Cancel, Return, Pending, IInv, TypeOK
<1>1. CASE mine \notin open
  <2>1. /\ UNCHANGED <<permits, queue, waiting, open, made, tx>> /\ tx[c] \notin open
        /\ \E to \in PCs \ {"granted"} : pc' = [pc EXCEPT ![c] = to]
    BY <1>0, <1>1 DEF CancelBlocked, PCs
  <2> QED
    BY <2>1, CallApart
<1>2. CASE mine \in open
  <2>1. PICK i \in 1 .. Len(waiting[mine]) :
            waiting[mine][i] = c /\ waiting' = [waiting EXCEPT ![mine] = Without(waiting[mine], i)]
    BY <1>2 DEF CancelBlocked, Without
  <2>2. /\ waiting[mine] \in Seq(Calls) /\ waiting'[mine] = Without(waiting[mine], i)
        /\ \A ch \in Chans : ch # mine => waiting'[ch] = waiting[ch]
        /\ LineOf(mine) /\ SlotsOf(mine) /\ waiting[mine] # <<>>
    BY <1>0, <2>1 DEF IInv, TypeOK, Slots
  <2>3. Distinct(waiting'[mine]) /\ ~ In(c, waiting'[mine])
    BY <2>1, <2>2, DistinctWithout DEF LineOf
  <2>4. \A d : In(d, waiting'[mine]) => In(d, waiting[mine]) /\ d # c
    BY <2>1, <2>2, <2>3, NotByWithout
  <2>5. LineOf(mine)'
    BY <1>0, <2>2, <2>3, <2>4 DEF LineOf, Distinct, In
  <2>6. Granted(mine)' = Granted(mine)
    BY <1>0 DEF Granted
  <2>7. SlotsOf(mine)'
    BY <1>0, <2>2, <2>6 DEF SlotsOf
  <2>8. ASSUME NEW ch \in Chans, ch # mine PROVE LineOf(ch)' /\ SlotsOf(ch)'
    BY <1>0, <2>2, <2>8, Unaffected DEF Aside, Slots
  <2> QED
    BY <1>0, <2>5, <2>7, <2>8 DEF Slots
<1> QED
  BY <1>1, <1>2

\* The call gives its slot back: to the queue or to the caller first in line.
LEMMA CancelGrantedSlots ==
    ASSUME IInv, Slots, NEW c \in Calls, CancelGranted(c), Cancel(c) PROVE Slots'
<1> DEFINE mine == tx[c]
<1> DEFINE first == Head(waiting[mine])
<1>0. /\ pc[c] = "granted" /\ mine \in Chans /\ mine \in made /\ pc \in [Calls -> PCs]
      /\ pc' = [Woken(mine, pc) EXCEPT ![c] = "done"]
      /\ UNCHANGED <<queue, open, made, tx>> /\ Release(mine)
  BY SenderOf DEF CancelGranted, Cancel, Pending, IInv, TypeOK
<1>1. /\ LineOf(mine) /\ SlotsOf(mine)
      /\ permits[mine] \in Nat /\ Len(queue[mine]) \in Nat
      /\ IsFiniteSet(Granted(mine)) /\ Cardinality(Granted(mine)) \in Nat
      /\ c \in Granted(mine)
  BY <1>0, FS_CardinalityType DEF IInv, TypeOK, Slots, SlotsOf, Granted
<1>2. /\ IsFiniteSet(Granted(mine) \ {c})
      /\ Cardinality(Granted(mine) \ {c}) = Cardinality(Granted(mine)) - 1
  BY <1>1, FS_RemoveElement
<1>3. \A x \in Chans : x # mine => permits'[x] = permits[x] /\ waiting'[x] = waiting[x]
  BY <1>0, <1>1, Released
<1>4. ASSUME NEW x \in Chans, x # mine,
             \A d \in Calls : tx[d] # mine => pc'[d] = pc[d]
      PROVE  LineOf(x)' /\ SlotsOf(x)'
  <2>1. \A d \in Calls : Aside(d, x)
    BY <1>0, <1>4 DEF Aside
  <2> QED
    BY <1>0, <1>3, <1>4, <2>1, Unaffected DEF Slots
<1>5. CASE waiting[mine] = <<>>
  <2>1. /\ permits'[mine] = permits[mine] + 1 /\ waiting'[mine] = <<>>
        /\ pc' = [pc EXCEPT ![c] = "done"]
    BY <1>0, <1>1, <1>5, Released
  <2>2. pc'[c] = "done" /\ \A d \in Calls : d # c => pc'[d] = pc[d]
    BY <1>0, <2>1
  <2>3. Granted(mine)' = Granted(mine) \ {c}
    BY <1>0, <2>2 DEF Granted
  <2>4. LineOf(mine)'
    BY <1>0, <2>1 DEF LineOf, Distinct, In
  <2>5. SlotsOf(mine)'
    <3> DEFINE p == permits[mine]
    <3> DEFINE q == Len(queue[mine])
    <3> DEFINE g == Cardinality(Granted(mine))
    <3>1. /\ p \in Nat /\ q \in Nat /\ g \in Nat
          /\ mine \in open => p + q + g = QueueCapacity
      BY <1>1 DEF SlotsOf
    <3>3. /\ permits'[mine] = p + 1 /\ Len(queue'[mine]) = q
          /\ Cardinality(Granted(mine)') = g - 1 /\ IsFiniteSet(Granted(mine)')
      BY <1>0, <1>2, <2>1, <2>3
    <3> HIDE DEF p, q, g
    <3>2. mine \in open => (p + 1) + q + (g - 1) = QueueCapacity
      BY <3>1
    <3> QED
      BY <1>0, <3>2, <3>3 DEF SlotsOf
  <2> QED
    BY <1>0, <1>4, <2>2, <2>4, <2>5 DEF Slots
<1>6. CASE waiting[mine] # <<>>
  <2>1. /\ permits'[mine] = permits[mine] /\ mine \in open /\ permits[mine] = 0
        /\ first \in Calls /\ pc[first] = "blocked" /\ tx[first] = mine
        /\ Distinct(waiting'[mine])
        /\ \A d : In(d, waiting'[mine]) => In(d, waiting[mine]) /\ d # first
        /\ pc' = [[pc EXCEPT ![first] = "granted"] EXCEPT ![c] = "done"]
    BY <1>0, <1>1, <1>6, Released
  <2> HIDE DEF first
  <2>2. /\ first # c /\ pc'[c] = "done" /\ pc'[first] = "granted"
        /\ \A d \in Calls : d \notin {c, first} => pc'[d] = pc[d]
    BY <1>0, <2>1
  <2>3. Granted(mine)' = (Granted(mine) \ {c}) \cup {first} /\ first \notin Granted(mine)
    BY <1>0, <2>1, <2>2 DEF Granted
  <2>4. /\ IsFiniteSet(Granted(mine)')
        /\ Cardinality(Granted(mine)') = Cardinality(Granted(mine))
    <3>1. Cardinality(Granted(mine)') = Cardinality(Granted(mine)) - 1 + 1
      BY <1>2, <2>3, FS_AddElement
    <3>2. IsFiniteSet(Granted(mine)')
      BY <1>2, <2>3, FS_AddElement
    <3> QED
      BY <1>1, <3>1, <3>2
  <2>5. SlotsOf(mine)'
    BY <1>0, <1>1, <2>1, <2>4 DEF SlotsOf
  <2>6. LineOf(mine)'
    <3>1. \A d \in Calls : In(d, waiting'[mine]) => pc'[d] = "blocked" /\ tx'[d] = mine
      BY <1>0, <1>1, <2>1, <2>2 DEF LineOf
    <3> QED
      BY <1>0, <2>1, <3>1 DEF LineOf, Distinct, In
  <2> QED
    BY <1>0, <1>4, <2>1, <2>2, <2>5, <2>6 DEF Slots
<1> QED
  BY <1>5, <1>6

\* A message leaves the queue, and its slot is free or somebody's.
LEMMA RecvSlots ==
    ASSUME IInv, Slots, NEW ch \in Chans, Recv(ch) PROVE Slots'
<1> DEFINE first == Head(waiting[ch])
<1>0. /\ ch \in open /\ queue[ch] # <<>> /\ pc \in [Calls -> PCs]
      /\ queue' = [queue EXCEPT ![ch] = Tail(queue[ch])] /\ pc' = Woken(ch, pc)
      /\ UNCHANGED <<open, made, tx>> /\ Release(ch)
  BY DEF Recv, IInv, TypeOK
<1>1. /\ LineOf(ch) /\ SlotsOf(ch) /\ ch \in made
      /\ permits[ch] \in Nat /\ Len(queue[ch]) \in Nat
      /\ IsFiniteSet(Granted(ch)) /\ Cardinality(Granted(ch)) \in Nat
  BY <1>0, FS_CardinalityType DEF IInv, TypeOK, Slots, SlotsOf
<1>2. /\ Len(queue'[ch]) = Len(queue[ch]) - 1
      /\ \A x \in Chans : x # ch => queue'[x] = queue[x]
  <2>1. queue \in [Chans -> Seq(Calls)] /\ queue[ch] \in Seq(Calls)
    BY DEF IInv, TypeOK
  <2>2. Len(Tail(queue[ch])) = Len(queue[ch]) - 1
    BY <1>0, <2>1
  <2> QED
    BY <1>0, <2>1, <2>2
<1>3. \A x \in Chans : x # ch => permits'[x] = permits[x] /\ waiting'[x] = waiting[x]
  BY <1>0, <1>1, Released
<1>4. ASSUME NEW x \in Chans, x # ch,
             \A d \in Calls : tx[d] # ch => pc'[d] = pc[d]
      PROVE  LineOf(x)' /\ SlotsOf(x)'
  <2>1. \A d \in Calls : Aside(d, x)
    BY <1>0, <1>4 DEF Aside
  <2> QED
    BY <1>0, <1>2, <1>3, <1>4, <2>1, Unaffected DEF Slots
<1> DEFINE p == permits[ch]
<1> DEFINE q == Len(queue[ch])
<1> DEFINE g == Cardinality(Granted(ch))
<1>5. p \in Nat /\ q \in Nat /\ g \in Nat /\ p + q + g = QueueCapacity
  BY <1>0, <1>1 DEF SlotsOf
<1>6. CASE waiting[ch] = <<>>
  <2>1. permits'[ch] = p + 1 /\ waiting'[ch] = <<>> /\ pc' = pc
    BY <1>0, <1>1, <1>6, Released
  <2>2. Granted(ch)' = Granted(ch)
    BY <1>0, <2>1 DEF Granted
  <2>3. LineOf(ch)'
    BY <2>1 DEF LineOf, Distinct, In
  <2>4. SlotsOf(ch)'
    <3>1. /\ Len(queue'[ch]) = q - 1 /\ Cardinality(Granted(ch)') = g
          /\ IsFiniteSet(Granted(ch)')
      BY <1>1, <1>2, <2>2
    <3> HIDE DEF p, q, g
    <3>2. (p + 1) + (q - 1) + g = QueueCapacity
      BY <1>5
    <3> QED
      BY <1>0, <1>1, <2>1, <3>1, <3>2 DEF SlotsOf
  <2> QED
    BY <1>4, <2>1, <2>3, <2>4 DEF Slots
<1>7. CASE waiting[ch] # <<>>
  <2>1. /\ permits'[ch] = p /\ p = 0
        /\ first \in Calls /\ pc[first] = "blocked" /\ tx[first] = ch
        /\ Distinct(waiting'[ch])
        /\ \A d : In(d, waiting'[ch]) => In(d, waiting[ch]) /\ d # first
        /\ pc' = [pc EXCEPT ![first] = "granted"]
    BY <1>0, <1>1, <1>7, Released
  <2> HIDE DEF first
  <2>2. pc'[first] = "granted" /\ \A d \in Calls : d # first => pc'[d] = pc[d]
    BY <1>0, <2>1
  <2>3. Granted(ch)' = Granted(ch) \cup {first} /\ first \notin Granted(ch)
    BY <1>0, <2>1, <2>2 DEF Granted
  <2>4. IsFiniteSet(Granted(ch)') /\ Cardinality(Granted(ch)') = g + 1
    BY <1>1, <2>3, FS_AddElement
  <2>5. SlotsOf(ch)'
    <3>1. Len(queue'[ch]) = q - 1
      BY <1>2
    <3> HIDE DEF p, q, g
    <3>2. p + (q - 1) + (g + 1) = QueueCapacity
      BY <1>5
    <3> QED
      BY <1>0, <1>1, <2>1, <2>4, <3>1, <3>2 DEF SlotsOf
  <2>6. LineOf(ch)'
    <3>1. \A d \in Calls : In(d, waiting'[ch]) => pc'[d] = "blocked" /\ tx'[d] = ch
      BY <1>0, <1>1, <2>1, <2>2 DEF LineOf
    <3> QED
      BY <1>0, <2>1, <3>1 DEF LineOf, Distinct, In
  <2> QED
    BY <1>4, <2>1, <2>2, <2>5, <2>6 DEF Slots
<1> QED
  BY <1>6, <1>7

LEMMA DropReceiverSlots ==
    ASSUME IInv, Slots, NEW ch \in Chans, DropReceiver(ch) PROVE Slots'
<1>0. /\ ch \in made /\ open' = open \ {ch} /\ UNCHANGED <<made, permits, pc, tx>>
      /\ \A x \in Chans : x # ch => queue'[x] = queue[x] /\ waiting'[x] = waiting[x]
      /\ waiting'[ch] = <<>>
  BY DEF DropReceiver, IInv, TypeOK
<1>1. ASSUME NEW x \in Chans, x # ch PROVE LineOf(x)' /\ SlotsOf(x)'
  BY <1>0, <1>1, Unaffected DEF Aside, Slots
<1>2. LineOf(ch)' /\ SlotsOf(ch)'
  <2>1. Granted(ch)' = Granted(ch)
    BY <1>0 DEF Granted
  <2> QED
    BY <1>0, <2>1 DEF Slots, LineOf, SlotsOf, Distinct, In
<1> QED
  BY <1>1, <1>2 DEF Slots

LEMMA AnswerSlots ==
    ASSUME IInv, Slots, NEW ch \in Chans, NEW c \in Calls, Reply(ch, c) \/ DropReply(ch, c)
    PROVE  Slots'
<1>1. UNCHANGED <<permits, queue, waiting, open, made, pc, tx>>
  BY DEF Reply, DropReply, Answer
<1> QED
  BY <1>1, Unaffected DEF Aside, Slots

LEMMA NextSlots == IInv /\ Slots /\ [Next]_vars => Slots'
<1> SUFFICES ASSUME IInv, Slots, [Next]_vars PROVE Slots'
  OBVIOUS
<1>1. CASE UNCHANGED vars
  BY <1>1, Unaffected DEF Aside, Slots, vars
<1>2. ASSUME NEW c \in Calls, CallNext(c) PROVE Slots'
  <2>1. CASE Cancel(c)
    BY <2>1, CancelBlockedSlots, CancelGrantedSlots, CollectSlots DEF Cancel
  <2>2. ASSUME NEW n \in Names, Lookup(c, n) PROVE Slots'
    BY <2>2, LookupSlots
  <2>3. CASE Send(c) \/ SendGranted(c)
    BY <2>3, SendSlots
  <2>4. CASE SendRefused(c)
    BY <2>4, SendRefusedSlots
  <2>5. CASE Collect(c)
    BY <2>5, CollectSlots
  <2> QED
    BY <1>2, <2>1, <2>2, <2>3, <2>4, <2>5 DEF CallNext
<1>3. ASSUME NEW ch \in Chans, WorkerNext(ch) PROVE Slots'
  BY <1>3, RecvSlots, AnswerSlots, DropReceiverSlots DEF WorkerNext
<1> QED
  BY <1>1, <1>2, <1>3, RegisterSlots DEF Next

\* Whatever is sent, received and given up half way, and however many channels replace
\* each other: every slot of a live queue is free, holds a message or is granted to one
\* caller, and nobody waits while one is free (bus.rs:72-100).
THEOREM SlotsAlwaysAccounted == Spec => []SlotsAccounted
<1>1. Slots /\ TypeOK => SlotsAccounted
  <2> SUFFICES ASSUME Slots, TypeOK, NEW ch \in open
               PROVE  /\ permits[ch] + Len(queue[ch]) + Cardinality(Granted(ch)) = QueueCapacity
                      /\ waiting[ch] # <<>> => permits[ch] = 0
    BY DEF SlotsAccounted
  <2>1. ch \in Chans
    BY DEF TypeOK
  <2> QED
    BY <2>1 DEF Slots, LineOf, SlotsOf
<1>2. IInv => TypeOK
  BY DEF IInv
<1> QED
  BY <1>1, <1>2, InitSlots, NextSlots, InductiveInvariant, PTL DEF Spec

-----------------------------------------------------------------------------
(* What the state of a call says about its task *)

\* What the state of a call says about its task.
Fate(c) ==
    /\ served[c] \in {0, 1}
    /\ result[c] = "none" <=> pc[c] # "done"
    /\ pc[c] \in {"idle", "ready", "blocked", "granted"}
          => served[c] = 0 /\ reply[c] = "none"
    /\ reply[c] = "sent" => served[c] = 1

\* A message that no worker has taken yet.
Unread(c, ch) ==
    /\ tx[c] = ch /\ served[c] = 0
    /\ \/ pc[c] = "awaiting" /\ reply[c] = "open"
       \/ pc[c] = "done" /\ result[c] = "Cancelled"

Messages(ch) ==
    /\ Distinct(queue[ch])
    /\ \A c \in Calls : In(c, queue[ch]) => Unread(c, ch)
    /\ \A c \in held[ch] : served[c] = 1

Fates ==
    /\ \A c \in Calls : Fate(c)
    /\ \A ch \in Chans : Messages(ch)

-----------------------------------------------------------------------------
(* The fates of calls: one lemma for each action *)

LEMMA InitFates == Init => Fates
  BY DEF Init, Fates, Fate, Messages, Distinct, In

\* A call moves, and perhaps another one gets its slot; no message does.
LEMMA CallMoves ==
    ASSUME IInv, Fates, NEW c \in Calls,
           UNCHANGED <<queue, held, served>>,
           \A d \in Calls : d # c =>
               /\ tx'[d] = tx[d] /\ result'[d] = result[d] /\ reply'[d] = reply[d]
               /\ pc'[d] = pc[d] \/ (pc[d] = "blocked" /\ pc'[d] = "granted"),
           Fate(c)',
           \A ch \in Chans : In(c, queue[ch]) => Unread(c, ch)'
    PROVE  Fates'
<1>1. \A d \in Calls : Fate(d)'
  BY DEF Fates, Fate
<1>2. ASSUME NEW ch \in Chans PROVE Messages(ch)'
  <2>1. Messages(ch) /\ queue'[ch] = queue[ch] /\ held'[ch] = held[ch]
    BY DEF Fates
  <2>2. ASSUME NEW d \in Calls, In(d, queue[ch]) PROVE Unread(d, ch)'
    <3>1. CASE d = c
      BY <2>2, <3>1
    <3>2. CASE d # c
      <4>1. Unread(d, ch)
        BY <2>1, <2>2 DEF Messages
      <4> QED
        BY <3>2, <4>1 DEF Unread
    <3> QED
      BY <3>1, <3>2
  <2>3. held[ch] \in SUBSET Calls
    BY DEF IInv, TypeOK
  <2> QED
    BY <2>1, <2>2, <2>3 DEF Messages, Distinct, In
<1> QED
  BY <1>1, <1>2 DEF Fates

LEMMA LookupFates ==
    ASSUME IInv, Fates, NEW c \in Calls, NEW n \in Names, Lookup(c, n) PROVE Fates'
<1>1. /\ UNCHANGED <<queue, held, served, reply>> /\ pc[c] = "idle"
      /\ \A d \in Calls : d # c =>
            tx'[d] = tx[d] /\ result'[d] = result[d] /\ pc'[d] = pc[d]
      /\ \/ pc'[c] = "done" /\ result'[c] = "AgentNotFound"
         \/ pc'[c] = "ready" /\ result'[c] = result[c]
  BY DEF Lookup, Return, chanVars, IInv, TypeOK
<1>2. Fate(c)'
  BY <1>1 DEF Fates, Fate
<1>3. \A ch \in Chans : ~ In(c, queue[ch])
  BY <1>1 DEF Fates, Messages, Unread
<1> QED
  BY <1>1, <1>2, <1>3, CallMoves

LEMMA ReturnFates ==
    ASSUME IInv, Fates, NEW c \in Calls, SendRefused(c) \/ Collect(c) PROVE Fates'
<1>1. /\ UNCHANGED <<queue, held, served, reply, tx>>
      /\ \A d \in Calls : d # c => result'[d] = result[d] /\ pc'[d] = pc[d]
      /\ pc'[c] = "done" /\ result'[c] # "none"
      /\ pc[c] \in {"ready", "blocked", "granted"}
            \/ (pc[c] = "awaiting" /\ reply[c] \in {"sent", "dropped"})
  BY DEF SendRefused, Collect, ReplyOutcome, Return, chanVars, IInv, TypeOK
<1>2. Fate(c)'
  BY <1>1 DEF Fates, Fate
<1>3. \A ch \in Chans : ~ In(c, queue[ch])
  BY <1>1 DEF Fates, Messages, Unread
<1> QED
  BY <1>1, <1>2, <1>3, CallMoves

LEMMA CancelFates ==
    ASSUME IInv, Slots, Fates, NEW c \in Calls, Cancel(c) PROVE Fates'
<1>1. CASE CancelBlocked(c) \/ CancelAwaiting(c)
  <2>1. /\ UNCHANGED <<queue, held, served, tx>> /\ pc[c] \in {"blocked", "awaiting"}
        /\ \A d \in Calls : d # c =>
              result'[d] = result[d] /\ reply'[d] = reply[d] /\ pc'[d] = pc[d]
        /\ pc'[c] = "done" /\ result'[c] = "Cancelled"
        /\ reply'[c] \in {reply[c], "closed"}
    BY <1>1 DEF Cancel, CancelBlocked, CancelAwaiting, Return, IInv, TypeOK
  <2>2. Fate(c)'
    BY <2>1 DEF Fates, Fate
  <2>3. \A ch \in Chans : In(c, queue[ch]) => Unread(c, ch)'
    BY <2>1 DEF Fates, Messages, Unread
  <2> QED
    BY <2>1, <2>2, <2>3, CallMoves
<1>2. CASE CancelGranted(c)
  <2> DEFINE first == Head(waiting[tx[c]])
  <2>1. /\ UNCHANGED <<queue, held, served, tx, reply>> /\ pc[c] = "granted"
        /\ Release(tx[c]) /\ pc' = [Woken(tx[c], pc) EXCEPT ![c] = "done"]
        /\ \A d \in Calls : d # c => result'[d] = result[d]
        /\ result'[c] = "Cancelled"
    BY <1>2 DEF Cancel, CancelGranted, IInv, TypeOK
  <2>2. tx[c] \in Chans /\ LineOf(tx[c]) /\ pc \in [Calls -> PCs]
    BY <2>1 DEF IInv, Known, Pending, TypeOK, Slots
  <2>3. \/ Woken(tx[c], pc) = pc
        \/ /\ Woken(tx[c], pc) = [pc EXCEPT ![first] = "granted"]
           /\ first \in Calls /\ pc[first] = "blocked"
    BY <2>1, <2>2, Released
  <2> HIDE DEF first
  <2>4. /\ pc'[c] = "done"
        /\ \A d \in Calls : d # c =>
              pc'[d] = pc[d] \/ (pc[d] = "blocked" /\ pc'[d] = "granted")
    BY <2>1, <2>2, <2>3
  <2>5. Fate(c)'
    BY <2>1, <2>4 DEF Fates, Fate
  <2>6. \A ch \in Chans : ~ In(c, queue[ch])
    BY <2>1 DEF Fates, Messages, Unread
  <2> QED
    BY <2>1, <2>4, <2>5, <2>6, CallMoves
<1> QED
  BY <1>1, <1>2 DEF Cancel

LEMMA SendFates ==
    ASSUME IInv, Fates, NEW c \in Calls, Send(c) \/ SendGranted(c) PROVE Fates'
<1>0. /\ pc[c] \in {"ready", "granted"} /\ tx[c] \in Chans
      /\ UNCHANGED <<held, served, tx, result>>
      /\ \A ch \in Chans : ~ In(c, queue[ch])
  BY DEF Send, SendGranted, IInv, Known, Pending, TypeOK, Fates, Messages, Unread
<1>1. CASE UNCHANGED <<queue, reply>> /\ pc' = [pc EXCEPT ![c] = "blocked"]
  <2>1. /\ pc'[c] = "blocked" /\ \A d \in Calls : d # c => pc'[d] = pc[d]
    BY <1>1 DEF IInv, TypeOK
  <2>2. Fate(c)'
    BY <1>0, <1>1, <2>1 DEF Fates, Fate
  <2> QED
    BY <1>0, <1>1, <2>1, <2>2, CallMoves
<1>2. CASE Push(c)
  <2>1. /\ queue'[tx[c]] = Append(queue[tx[c]], c)
        /\ \A ch \in Chans : ch # tx[c] => queue'[ch] = queue[ch]
        /\ pc'[c] = "awaiting" /\ reply'[c] = "open"
        /\ \A d \in Calls : d # c => pc'[d] = pc[d] /\ reply'[d] = reply[d]
        /\ \A ch \in Chans : queue[ch] \in Seq(Calls) /\ held[ch] \subseteq Calls
    BY <1>0, <1>2 DEF Push, IInv, TypeOK
  <2>2. ASSUME NEW d \in Calls PROVE Fate(d)'
    BY <1>0, <2>1 DEF Fates, Fate
  <2>3. Unread(c, tx[c])'
    BY <1>0, <2>1 DEF Unread, Fates, Fate
  <2>4. ASSUME NEW ch \in Chans PROVE Messages(ch)'
    <3>1. ASSUME NEW d \in Calls, In(d, queue[ch]) PROVE Unread(d, ch)'
      BY <1>0, <2>1, <3>1 DEF Fates, Messages, Unread
    <3>2. \A d \in Calls : In(d, queue'[ch]) => In(d, queue[ch]) \/ (d = c /\ ch = tx[c])
      <4>1. CASE ch = tx[c]
        <5>1. queue[ch] \in Seq(Calls) /\ queue'[ch] = Append(queue[ch], c)
          BY <2>1, <4>1
        <5> QED
          BY <4>1, <5>1, OnlyAppended
      <4>2. CASE ch # tx[c]
        BY <2>1, <4>2
      <4> QED
        BY <4>1, <4>2
    <3>3. Distinct(queue'[ch])
      <4>1. Distinct(queue[ch]) /\ queue[ch] \in Seq(Calls) /\ ~ In(c, queue[ch])
        BY <1>0, <2>1 DEF Fates, Messages
      <4>2. Distinct(Append(queue[ch], c))
        BY <4>1, DistinctAppend
      <4> QED
        BY <2>1, <4>1, <4>2
    <3>4. \A d \in Calls : In(d, queue'[ch]) => Unread(d, ch)'
      BY <1>0, <2>3, <3>1, <3>2
    <3>5. \A d \in held'[ch] : served'[d] = 1
      BY <1>0 DEF Fates, Messages
    <3> QED
      BY <3>3, <3>4, <3>5 DEF Messages, Distinct, In
  <2> QED
    BY <2>2, <2>4 DEF Fates
<1> QED
  BY <1>1, <1>2 DEF Send, SendGranted

\* A worker takes the first message: no other copy of it is in any queue.
LEMMA RecvFates ==
    ASSUME IInv, Slots, Fates, NEW ch \in Chans, Recv(ch)
    PROVE  /\ Fates'
           /\ \E c \in Calls : /\ Unread(c, ch) /\ served' = [served EXCEPT ![c] = 1]
                               /\ pc'[c] = pc[c]
           /\ \A d \in Calls : pc'[d] = pc[d] \/ (pc[d] = "blocked" /\ pc'[d] = "granted")
<1> DEFINE c == Head(queue[ch])
<1> DEFINE first == Head(waiting[ch])
<1>0. /\ queue \in [Chans -> Seq(Calls)] /\ held \in [Chans -> SUBSET Calls]
      /\ served \in [Calls -> Nat] /\ pc \in [Calls -> PCs]
      /\ Messages(ch) /\ LineOf(ch)
  BY DEF IInv, TypeOK, Fates, Slots
<1>1. /\ queue[ch] # <<>>
      /\ held' = [held EXCEPT ![ch] = @ \cup {c}]
      /\ served' = [served EXCEPT ![c] = @ + 1]
      /\ queue' = [queue EXCEPT ![ch] = Tail(@)]
      /\ Release(ch) /\ pc' = Woken(ch, pc)
      /\ UNCHANGED <<tx, reply, result>>
  BY DEF Recv
<1>2. c \in Calls /\ In(c, queue[ch])
  BY <1>0, <1>1 DEF In
<1>3. Unread(c, ch)
  BY <1>0, <1>2 DEF Messages
<1>4. /\ Distinct(Tail(queue[ch])) /\ ~ In(c, Tail(queue[ch]))
      /\ \A d : In(d, Tail(queue[ch])) => In(d, queue[ch])
  BY <1>0, <1>1, DistinctTail, NotByTail DEF Messages
<1>5. /\ queue'[ch] = Tail(queue[ch]) /\ held'[ch] = held[ch] \cup {c}
      /\ \A x \in Chans : x # ch => queue'[x] = queue[x] /\ held'[x] = held[x]
  BY <1>0, <1>1
<1>6. \A d \in Calls : pc'[d] = pc[d] \/ (pc[d] = "blocked" /\ pc'[d] = "granted")
  <2>1. \/ Woken(ch, pc) = pc
        \/ /\ Woken(ch, pc) = [pc EXCEPT ![first] = "granted"]
           /\ first \in Calls /\ pc[first] = "blocked"
    BY <1>0, <1>1, Released
  <2> HIDE DEF first, c
  <2> QED
    BY <1>0, <1>1, <2>1
<1> HIDE DEF c, first
<1>7. served'[c] = 1 /\ \A d \in Calls : d # c => served'[d] = served[d]
  BY <1>0, <1>1, <1>2, <1>3 DEF Unread
<1>8. ASSUME NEW d \in Calls PROVE Fate(d)'
  <2>1. Fate(d)
    BY DEF Fates
  <2>2. CASE d = c
    BY <1>1, <1>3, <1>6, <1>7, <2>1, <2>2 DEF Fate, Unread
  <2>3. CASE d # c
    BY <1>1, <1>6, <1>7, <2>1, <2>3 DEF Fate
  <2> QED
    BY <2>2, <2>3
<1>9. ASSUME NEW x \in Chans PROVE Messages(x)'
  <2>1. Messages(x)
    BY DEF Fates
  <2>2. Distinct(queue'[x])
    BY <1>4, <1>5, <2>1 DEF Messages
  <2>3. ASSUME NEW d \in Calls, In(d, queue'[x]) PROVE Unread(d, x)'
    <3>1. In(d, queue[x])
      BY <1>4, <1>5, <2>3
    <3>2. Unread(d, x)
      BY <2>1, <3>1 DEF Messages
    <3>3. d # c
      BY <1>3, <1>4, <1>5, <2>3, <3>2 DEF Unread
    <3> QED
      BY <1>1, <1>6, <1>7, <3>2, <3>3 DEF Unread
  <2>4. ASSUME NEW d \in held'[x] PROVE served'[d] = 1
    <3>1. d = c \/ (d \in held[x] /\ d \in Calls)
      <4>1. held[x] \subseteq Calls /\ held'[x] \subseteq held[x] \cup {c}
        <5>1. CASE x = ch
          BY <1>0, <1>5, <5>1
        <5>2. CASE x # ch
          BY <1>0, <1>5, <5>2
        <5> QED
          BY <5>1, <5>2
      <4> QED
        BY <2>4, <4>1
    <3> QED
      BY <1>7, <2>1, <3>1 DEF Messages
  <2> QED
    BY <2>2, <2>3, <2>4 DEF Messages, Distinct, In
<1>10. served' = [served EXCEPT ![c] = 1]
  BY <1>0, <1>1, <1>2, <1>3 DEF Unread
<1>11. pc'[c] = pc[c]
  BY <1>2, <1>3, <1>6 DEF Unread
<1> QED
  BY <1>2, <1>3, <1>6, <1>8, <1>9, <1>10, <1>11 DEF Fates

LEMMA AnswerFates ==
    ASSUME IInv, Fates, NEW ch \in Chans, NEW c \in Calls, NEW how \in {"sent", "dropped"},
           Answer(ch, c, how)
    PROVE  Fates'
<1>1. /\ c \in held[ch] /\ UNCHANGED <<queue, pc, tx, result, served>>
      /\ \A x \in Chans : held'[x] \subseteq held[x]
      /\ \A d \in Calls : d # c => reply'[d] = reply[d]
      /\ reply'[c] = IF reply[c] = "open" THEN how ELSE reply[c]
  BY DEF Answer, IInv, TypeOK
<1>2. served[c] = 1
  BY <1>1 DEF Fates, Messages
<1>3. ASSUME NEW d \in Calls PROVE Fate(d)'
  BY <1>1, <1>2 DEF Fates, Fate
<1>4. ASSUME NEW x \in Chans PROVE Messages(x)'
  <2>1. \A d \in Calls : In(d, queue[x]) => Unread(d, x)'
    BY <1>1, <1>2 DEF Fates, Messages, Unread
  <2> QED
    BY <1>1, <2>1 DEF Fates, Messages, Distinct, In
<1> QED
  BY <1>3, <1>4 DEF Fates

LEMMA DropReceiverFates ==
    ASSUME IInv, Fates, NEW ch \in Chans, DropReceiver(ch) PROVE Fates'
<1>1. /\ UNCHANGED <<held, pc, tx, result, served>>
      /\ queue'[ch] = <<>> /\ \A x \in Chans : x # ch => queue'[x] = queue[x]
      /\ \A d \in Calls : reply'[d] = IF In(d, queue[ch]) /\ reply[d] = "open"
                                      THEN "dropped" ELSE reply[d]
  BY DEF DropReceiver, RepliesAfterClose, IInv, TypeOK
<1>2. ASSUME NEW d \in Calls PROVE Fate(d)'
  BY <1>1 DEF Fates, Fate
<1>3. ASSUME NEW x \in Chans PROVE Messages(x)'
  <2>1. Messages(x) /\ Messages(ch)
    BY DEF Fates
  <2>2. CASE x = ch
    BY <1>1, <2>1, <2>2 DEF Messages, Distinct, In
  <2>3. CASE x # ch
    <3>1. ASSUME NEW d \in Calls, In(d, queue[x]) PROVE Unread(d, x)'
      <4>1. Unread(d, x)
        BY <2>1, <3>1 DEF Messages
      <4>2. ~ In(d, queue[ch])
        BY <2>1, <2>3, <4>1 DEF Messages, Unread
      <4> QED
        BY <1>1, <4>1, <4>2 DEF Unread
    <3> QED
      BY <1>1, <2>1, <2>3, <3>1 DEF Messages, Distinct, In
  <2> QED
    BY <2>2, <2>3
<1> QED
  BY <1>2, <1>3 DEF Fates

LEMMA NothingMovesFates ==
    ASSUME Fates, UNCHANGED <<queue, held, pc, tx, reply, result, served>> PROVE Fates'
  BY DEF Fates, Fate, Messages, Unread, Distinct, In

LEMMA NextFates == IInv /\ Slots /\ Fates /\ [Next]_vars => Fates'
<1> SUFFICES ASSUME IInv, Slots, Fates, [Next]_vars PROVE Fates'
  OBVIOUS
<1>1. CASE UNCHANGED vars
  BY <1>1, NothingMovesFates DEF vars
<1>2. ASSUME NEW n \in Names, NEW ch \in Chans, Register(n, ch) PROVE Fates'
  BY <1>2, NothingMovesFates DEF Register, chanVars
<1>3. ASSUME NEW c \in Calls, CallNext(c) PROVE Fates'
  <2>1. ASSUME NEW n \in Names, Lookup(c, n) PROVE Fates'
    BY <2>1, LookupFates
  <2>2. CASE Send(c) \/ SendGranted(c)
    BY <2>2, SendFates
  <2>3. CASE SendRefused(c) \/ Collect(c)
    BY <2>3, ReturnFates
  <2>4. CASE Cancel(c)
    BY <2>4, CancelFates
  <2> QED
    BY <1>3, <2>1, <2>2, <2>3, <2>4 DEF CallNext
<1>4. ASSUME NEW ch \in Chans, WorkerNext(ch) PROVE Fates'
  <2>1. CASE Recv(ch)
    BY <2>1, RecvFates
  <2>2. ASSUME NEW c \in Calls, Reply(ch, c) \/ DropReply(ch, c) PROVE Fates'
    BY <2>2, AnswerFates DEF Reply, DropReply
  <2>3. CASE DropReceiver(ch)
    BY <2>3, DropReceiverFates
  <2> QED
    BY <1>4, <2>1, <2>2, <2>3 DEF WorkerNext
<1> QED
  BY <1>1, <1>2, <1>3, <1>4 DEF Next

-----------------------------------------------------------------------------
(* The refinement *)

\* A call whose caller moves no further, as the service sees it.
LEMMA SameStage ==
    ASSUME \A d \in Calls : \/ pc'[d] = pc[d]
                            \/ /\ pc[d] \in Pending \ {"awaiting"} /\ pc'[d] \in Pending,
           UNCHANGED <<served, result>>
    PROVE  UNCHANGED Service!vars
  BY DEF Service!vars, Pending

\* It returns, and other calls stay where the service sees them.
LEMMA ReturnOfService ==
    ASSUME NEW c \in Calls, NEW o \in Results \ {"none"},
           pc[c] # "done", pc'[c] = "done",
           \A d \in Calls : d # c => \/ pc'[d] = pc[d]
                                     \/ pc[d] = "blocked" /\ pc'[d] = "granted",
           result' = [result EXCEPT ![c] = o], UNCHANGED served,
           o = "Ok" => served[c] = 1,
           o \in {"AgentNotFound", "SendError"} => served[c] = 0
    PROVE  Service!Next
  BY DEF Service!Next, Service!Return, Service!NotRun, Service!Outcomes, Results

LEMMA CallRefines ==
    ASSUME IInv, Slots, Fates, NEW c \in Calls, CallNext(c)
    PROVE  Service!Next \/ UNCHANGED Service!vars
<1>0. Fate(c) /\ pc \in [Calls -> PCs]
  BY DEF Fates, IInv, TypeOK
<1>1. ASSUME NEW n \in Names, Lookup(c, n) PROVE Service!Next
  <2>1. pc[c] = "idle" /\ served[c] = 0 /\ UNCHANGED served
    BY <1>0, <1>1 DEF Lookup, Fate
  <2>2. CASE Return(c, "AgentNotFound")
    BY <1>0, <2>1, <2>2, ReturnOfService DEF Return, Results
  <2>3. CASE pc' = [pc EXCEPT ![c] = "ready"] /\ UNCHANGED result
    BY <1>0, <2>1, <2>3 DEF Service!Next, Service!Invoke
  <2> QED
    BY <1>1, <2>2, <2>3 DEF Lookup
<1>2. CASE Send(c) \/ SendGranted(c)
  <2>1. /\ pc[c] \in {"ready", "granted"} /\ UNCHANGED <<served, result>>
        /\ pc' = [pc EXCEPT ![c] = "blocked"] \/ pc' = [pc EXCEPT ![c] = "awaiting"]
    BY <1>2 DEF Send, SendGranted, Push
  <2> QED
    BY <1>0, <2>1, SameStage DEF Pending
<1>3. CASE SendRefused(c)
  <2>1. /\ pc[c] \in {"ready", "blocked", "granted"} /\ UNCHANGED served
        /\ Return(c, "SendError")
    BY <1>3 DEF SendRefused
  <2> QED
    BY <1>0, <2>1, ReturnOfService DEF Return, Fate, Results
<1>4. CASE Collect(c)
  <2>1. /\ pc[c] = "awaiting" /\ UNCHANGED served
        /\ \/ Return(c, "Ok") /\ reply[c] = "sent"
           \/ Return(c, "RecvError")
    BY <1>4 DEF Collect, ReplyOutcome
  <2> QED
    BY <1>0, <2>1, ReturnOfService DEF Return, Fate, Results
<1>5. CASE Cancel(c)
  <2>1. /\ pc[c] \in Pending /\ UNCHANGED served
        /\ result' = [result EXCEPT ![c] = "Cancelled"]
    BY <1>5 DEF Cancel, CancelBlocked, CancelGranted, CancelAwaiting, Return, Pending
  <2>2. /\ pc'[c] = "done"
        /\ \A d \in Calls : d # c => \/ pc'[d] = pc[d]
                                     \/ pc[d] = "blocked" /\ pc'[d] = "granted"
    <3>1. CASE pc' = [pc EXCEPT ![c] = "done"]
      BY <1>0, <3>1
    <3>2. CASE CancelGranted(c)
      <4> DEFINE first == Head(waiting[tx[c]])
      <4>1. /\ Release(tx[c]) /\ pc' = [Woken(tx[c], pc) EXCEPT ![c] = "done"]
            /\ tx[c] \in Chans /\ LineOf(tx[c])
        BY <3>2 DEF CancelGranted, IInv, Known, Pending, TypeOK, Slots
      <4>2. \/ Woken(tx[c], pc) = pc
            \/ /\ Woken(tx[c], pc) = [pc EXCEPT ![first] = "granted"]
               /\ first \in Calls /\ pc[first] = "blocked"
        BY <4>1, Released
      <4> HIDE DEF first
      <4> QED
        BY <1>0, <4>1, <4>2
    <3> QED
      BY <1>5, <3>1, <3>2 DEF Cancel, CancelBlocked, CancelAwaiting, Return
  <2> QED
    BY <2>1, <2>2, ReturnOfService DEF Results, Pending
<1> QED
  BY <1>1, <1>2, <1>3, <1>4, <1>5 DEF CallNext

LEMMA RecvRefines ==
    ASSUME IInv, Slots, Fates, NEW ch \in Chans, Recv(ch) PROVE Service!Next
<1>1. PICK c \in Calls : /\ Unread(c, ch) /\ served' = [served EXCEPT ![c] = 1]
                         /\ pc'[c] = pc[c]
  BY RecvFates
<1>2. \A d \in Calls : pc'[d] = pc[d] \/ (pc[d] = "blocked" /\ pc'[d] = "granted")
  BY RecvFates
<1>3. UNCHANGED result
  BY DEF Recv
<1> QED
  BY <1>1, <1>2, <1>3 DEF Service!Next, Service!Accept, Unread

LEMMA NextRefines ==
    IInv /\ Slots /\ Fates /\ [Next]_vars => [Service!Next]_Service!vars
<1> SUFFICES ASSUME IInv, Slots, Fates, [Next]_vars
             PROVE  Service!Next \/ UNCHANGED Service!vars
  OBVIOUS
<1>1. CASE UNCHANGED <<pc, served, result>>
  BY <1>1, SameStage
<1>2. ASSUME NEW c \in Calls, CallNext(c)
      PROVE  Service!Next \/ UNCHANGED Service!vars
  BY <1>2, CallRefines
<1>3. ASSUME NEW ch \in Chans, WorkerNext(ch)
      PROVE  Service!Next \/ UNCHANGED <<pc, served, result>>
  <2>1. CASE Recv(ch)
    BY <2>1, RecvRefines
  <2>2. CASE UNCHANGED <<pc, served, result>>
    BY <2>2
  <2> QED
    BY <1>3, <2>1, <2>2 DEF WorkerNext, Reply, DropReply, Answer, DropReceiver
<1>4. CASE UNCHANGED vars
  BY <1>1, <1>4 DEF vars
<1>5. ASSUME NEW n \in Names, NEW ch \in Chans, Register(n, ch)
      PROVE  UNCHANGED <<pc, served, result>>
  BY <1>5 DEF Register
<1> QED
  BY <1>1, <1>2, <1>3, <1>4, <1>5 DEF Next

\* What `send` promises holds of the bus, with its queues, its registry and callers that
\* give up: a task is taken at most once, never after AgentNotFound or SendError, and
\* always before Ok (bus.rs:80-100).
THEOREM BusImplementsService == Spec => ImplementsService
<1>1. Init => Service!Init
  BY DEF Init, Service!Init
<1> QED
  BY <1>1, InitSlots, InitFates, NextSlots, NextFates, NextRefines, InductiveInvariant, PTL
  DEF Spec, ImplementsService, Service!Spec

=============================================================================
