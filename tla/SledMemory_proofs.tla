-------------------------- MODULE SledMemory_proofs --------------------------
(***************************************************************************)
(* SledMemory for any clients, run_ids, messages and time to live: its     *)
(* types, the deadline of a history, and, while the clients keep to        *)
(* different run_ids, that its operations are those of MemoryService.      *)
(*                                                                         *)
(* An operation is several tree calls.  That they amount to one rests on   *)
(* what a client read from the tree being still there when it acts on it,  *)
(* and, for an append, on an expired history staying expired: Fresh says   *)
(* so, and Apart why no other client can spoil it.                         *)
(***************************************************************************)
EXTENDS SledMemory, TLAPS

Appends(c) == pc[c] \in {"stamping", "inserting"} /\ op[c].kind = "append"

\* Where a client is, and what it executes there.
PlaceOf(c) ==
    /\ pc[c] = "idle" <=> op[c] = NoOp
    /\ pc[c] \in {"getting", "checking"} => op[c].kind \in {"load", "append"}
    /\ pc[c] \in {"stamping", "inserting"} => op[c].kind \in {"store", "append"}
    /\ pc[c] = "clearing" => op[c].kind = "clear"

\* No deadline wraps: the build checks, or the time to live leaves room for the clock.
TTLFits == Checked \/ (TTL # NoTTL => MaxNow + TTL < U64)

\* The entry that a client is about to insert.
EntryOf(c) ==
    pc[c] = "inserting" =>
        /\ entry[c].kept /\ entry[c].msgs = Written(c)
        /\ TTLFits /\ entry[c].mortal => entry[c].exp \in since[c] + TTL .. now + TTL

\* Nothing outlives a write of this moment, and without a time to live nothing expires.
Bounded(e) == e.mortal => TTL \in Nat /\ e.exp <= now + TTL

\* No empty history is kept.
StoredOf(k) == IF db[k].kept THEN db[k].msgs # <<>> ELSE db[k] = NoEntry

IInv ==
    /\ TypeOK
    /\ \A c \in Clients : PlaceOf(c) /\ EntryOf(c) /\ Bounded(entry[c])
    /\ \A k \in Keys : StoredOf(k) /\ Bounded(db[k])

-----------------------------------------------------------------------------
(* Operations and entries *)

Kept4 == {"load", "clear", "store", "append"}

LEMMA OpShape ==
    ASSUME NEW T, NEW o \in OpsOver(T)
    PROVE  /\ o.key \in Keys /\ o.kind \in Kept4 /\ o # NoOp
           /\ o.kind \in {"store", "append"} => o.msg \in T
  BY DEF OpsOver, NoOp, Kept4

LEMMA OpsGrow == ASSUME NEW S, NEW T, S \subseteq T, NEW o \in OpsOver(S) PROVE o \in OpsOver(T)
  BY DEF OpsOver

\* What a busy client executes.
LEMMA BusyOp ==
    ASSUME IInv, NEW c \in Clients, pc[c] # "idle"
    PROVE  /\ op[c] \in Ops /\ Key(c) \in Keys /\ op[c].kind \in Kept4
           /\ op[c].kind \in {"store", "append"} => op[c].msg \in Texts
<1>1. op[c] \in Ops
  BY DEF IInv, TypeOK, PlaceOf
<1> QED
  BY <1>1, OpShape DEF Ops, Key

LEMMA NoEntryType == NoEntry \in Entries /\ ~ NoEntry.kept /\ ~ NoEntry.mortal
  BY TTLAssumption, BoundsAssumption DEF NoEntry, Entries, Deadlines

LEMMA EntryType ==
    ASSUME TypeOK, NEW h \in Seq(Texts)
    PROVE  /\ MakeEntry(h) \in Entries
           /\ MakeEntry(h).kept /\ MakeEntry(h).msgs = h
           /\ MakeEntry(h).mortal =>
                 /\ TTL \in Nat /\ MakeEntry(h).exp <= now + TTL
                 /\ ~ Overflows => MakeEntry(h).exp = now + TTL
<1>1. now \in 0 .. MaxNow
  BY DEF TypeOK
<1>2. CASE TTL = NoTTL
  BY <1>2 DEF MakeEntry, Entry, Entries, Deadlines
<1>3. CASE TTL # NoTTL
  <2>1. TTL \in Nat
    BY <1>3, TTLAssumption
  <2>2. /\ Wrapped(now + TTL) \in 0 .. MaxNow + TTL /\ Wrapped(now + TTL) <= now + TTL
        /\ ~ Overflows => Wrapped(now + TTL) = now + TTL
    BY <1>1, <1>3, <2>1, BoundsAssumption, WidthAssumption DEF Wrapped, Overflows
  <2> QED
    BY <1>3, <2>1, <2>2 DEF MakeEntry, Entry, Entries, Deadlines
<1> QED
  BY <1>2, <1>3

LEMMA WrittenType ==
    ASSUME IInv, NEW c \in Clients, pc[c] \in {"stamping", "inserting"}
    PROVE  Written(c) \in Seq(Texts) /\ Written(c) # <<>>
<1>1. op[c].msg \in Texts /\ base[c] \in Seq(Texts)
  BY BusyOp DEF IInv, PlaceOf, TypeOK
<1> QED
  BY <1>1 DEF Written

-----------------------------------------------------------------------------
(* Types, places and deadlines *)

LEMMA InitEstablishes == Init => IInv
<1> SUFFICES ASSUME Init PROVE IInv
  OBVIOUS
<1>1. TypeOK
  BY NoEntryType, TTLAssumption, BoundsAssumption DEF Init, TypeOK, PCs
<1> QED
  BY <1>1 DEF Init, IInv, PlaceOf, EntryOf, StoredOf, Bounded, NoEntry

\* A step of c leaves the clock and the other clients alone.
Alone(c) ==
    /\ UNCHANGED <<now, used>>
    /\ \A d \in Clients \ {c} :
          /\ pc'[d] = pc[d] /\ op'[d] = op[d] /\ found'[d] = found[d]
          /\ base'[d] = base[d] /\ entry'[d] = entry[d] /\ since'[d] = since[d]

Typed ==
    /\ pc' \in [Clients -> PCs] /\ op' \in [Clients -> Ops \cup {NoOp}]
    /\ found' \in [Clients -> Entries] /\ base' \in [Clients -> Seq(Texts)]
    /\ entry' \in [Clients -> Entries] /\ since' \in [Clients -> 0 .. now]

LEMMA ClientMoves ==
    ASSUME IInv, NEW c \in Clients, Alone(c), Typed,
           Bounded(entry'[c]),
           db' \in [Keys -> Entries],
           \A k \in Keys : StoredOf(k)' /\ Bounded(db'[k]),
           PlaceOf(c)', EntryOf(c)'
    PROVE  IInv'
<1>1. TypeOK'
  <2>1. \A d \in Clients : entry'[d].mortal => entry'[d].exp <= now' + TTL
    BY DEF IInv, TypeOK, Alone, Bounded
  <2> QED
    BY <2>1 DEF IInv, TypeOK, Typed, Alone, Bounded
<1>2. ASSUME NEW d \in Clients, d # c PROVE PlaceOf(d)' /\ EntryOf(d)' /\ Bounded(entry[d])'
  BY <1>2 DEF Alone, IInv, PlaceOf, EntryOf, Bounded, Written
<1> QED
  BY <1>1, <1>2 DEF IInv, Bounded, Alone

LEMMA TreeKept ==
    ASSUME IInv, db' = db
    PROVE  /\ db' \in [Keys -> Entries]
           /\ \A k \in Keys : StoredOf(k)' /\ Bounded(db'[k])
  BY DEF IInv, TypeOK, StoredOf, Bounded

\* One entry of the tree is written or removed.
LEMMA TreeWritten ==
    ASSUME IInv, NEW k \in Keys, NEW e \in Entries, db' = [db EXCEPT ![k] = e],
           IF e.kept THEN e.msgs # <<>> ELSE e = NoEntry,
           Bounded(e)
    PROVE  /\ db' \in [Keys -> Entries]
           /\ \A j \in Keys : StoredOf(j)' /\ Bounded(db'[j])
<1>1. db \in [Keys -> Entries] /\ \A j \in Keys : StoredOf(j) /\ Bounded(db[j])
  BY DEF IInv, TypeOK
<1>2. ASSUME NEW j \in Keys PROVE StoredOf(j)' /\ Bounded(db'[j])
  <2>1. CASE j = k
    BY <1>1, <2>1 DEF StoredOf
  <2>2. CASE j # k
    BY <1>1, <2>2 DEF StoredOf
  <2> QED
    BY <2>1, <2>2
<1> QED
  BY <1>1, <1>2

\* An operation returns.
LEMMA ReturnMoves ==
    ASSUME IInv, NEW c \in Clients, NEW kind, NEW h, Return(c, kind, h), UNCHANGED <<now, used>>
    PROVE  /\ Alone(c) /\ Typed /\ PlaceOf(c)' /\ EntryOf(c)'
           /\ Bounded(entry'[c]) /\ pc'[c] = "idle" /\ op'[c] = NoOp
<1>1. now \in 0 .. MaxNow /\ 0 \in 0 .. now
  BY BoundsAssumption DEF IInv, TypeOK
<1>2. Alone(c) /\ Typed
  BY <1>1, NoEntryType DEF Return, Goto, IInv, TypeOK, PCs, Alone, Typed
<1>3. pc'[c] = "idle" /\ op'[c] = NoOp /\ entry'[c] = NoEntry
  BY DEF Return, Goto, IInv, TypeOK
<1> QED
  BY <1>2, <1>3, NoEntryType DEF PlaceOf, EntryOf, Bounded

LEMMA ReturnKeeps ==
    ASSUME IInv, NEW c \in Clients, NEW kind, NEW h, Return(c, kind, h),
           UNCHANGED <<now, used>>,
           db' \in [Keys -> Entries],
           \A k \in Keys : StoredOf(k)' /\ Bounded(db'[k])
    PROVE  IInv'
<1>1. /\ Alone(c) /\ Typed /\ PlaceOf(c)' /\ EntryOf(c)'
      /\ Bounded(entry'[c])
  BY ReturnMoves
<1> QED
  BY <1>1, ClientMoves

LEMMA LoadedKeeps ==
    ASSUME IInv, NEW c \in Clients, pc[c] \in {"getting", "checking"},
           NEW kind, NEW h \in Seq(Texts), Loaded(c, kind, h), UNCHANGED <<now, used>>,
           db' \in [Keys -> Entries],
           \A k \in Keys : StoredOf(k)' /\ Bounded(db'[k])
    PROVE  IInv'
<1>1. CASE op[c].kind = "append"
  <2>1. /\ base' = [base EXCEPT ![c] = h] /\ pc' = [pc EXCEPT ![c] = "stamping"]
        /\ UNCHANGED <<op, found, entry, since>>
    BY <1>1 DEF Loaded, Goto
  <2>2. Alone(c) /\ Typed
    BY <2>1 DEF IInv, TypeOK, PCs, Alone, Typed
  <2>3. pc'[c] = "stamping" /\ op'[c] = op[c] /\ op[c] # NoOp
    BY <2>1 DEF IInv, TypeOK, PlaceOf
  <2>4. PlaceOf(c)' /\ EntryOf(c)'
    BY <1>1, <2>3 DEF PlaceOf, EntryOf
  <2> QED
    BY <2>1, <2>2, <2>4, ClientMoves DEF IInv, TypeOK
<1>2. CASE op[c].kind # "append"
  BY <1>2, ReturnKeeps DEF Loaded
<1> QED
  BY <1>1, <1>2

LEMMA GetKeeps == ASSUME IInv, NEW c \in Clients, Get(c) PROVE IInv'
<1>1. Key(c) \in Keys /\ pc[c] = "getting"
  BY BusyOp DEF Get
<1>2. CASE db[Key(c)] = NoEntry
  <2>1. <<>> \in Seq(Texts)
    OBVIOUS
  <2> QED
    BY <1>1, <1>2, <2>1, TreeKept, LoadedKeeps DEF Get
<1>3. CASE db[Key(c)] # NoEntry
  <2>1. /\ found' = [found EXCEPT ![c] = db[Key(c)]] /\ pc' = [pc EXCEPT ![c] = "checking"]
        /\ UNCHANGED <<op, base, entry, since, db, now, used>>
    BY <1>3 DEF Get, Goto
  <2>2. Alone(c) /\ Typed
    BY <1>1, <2>1 DEF IInv, TypeOK, PCs, Alone, Typed
  <2>3. pc'[c] = "checking" /\ op'[c] = op[c]
    BY <2>1 DEF IInv, TypeOK
  <2>4. PlaceOf(c)' /\ EntryOf(c)'
    BY <1>1, <2>3 DEF IInv, PlaceOf, EntryOf
  <2> QED
    BY <2>1, <2>2, <2>4, TreeKept, ClientMoves DEF IInv, TypeOK
<1> QED
  BY <1>2, <1>3

LEMMA CheckKeeps == ASSUME IInv, NEW c \in Clients, CheckLive(c) \/ CheckExpired(c) PROVE IInv'
<1>1. pc[c] = "checking" /\ Key(c) \in Keys /\ found[c].msgs \in Seq(Texts)
  BY BusyOp DEF CheckLive, CheckExpired, IInv, TypeOK, Entries
<1>2. CASE CheckLive(c)
  BY <1>1, <1>2, TreeKept, LoadedKeeps DEF CheckLive
<1>3. CASE CheckExpired(c)
  <2>0. Bounded(NoEntry)
    BY NoEntryType DEF Bounded
  <2>1. /\ db' \in [Keys -> Entries]
        /\ \A k \in Keys : StoredOf(k)' /\ Bounded(db'[k])
    BY <1>1, <1>3, <2>0, TreeKept, TreeWritten, NoEntryType DEF CheckExpired, Evicted
  <2>2. AfterExpiry(c) \in Seq(Texts)
    BY DEF AfterExpiry
  <2> QED
    BY <1>1, <1>3, <2>1, <2>2, LoadedKeeps DEF CheckExpired
<1> QED
  BY <1>2, <1>3

LEMMA StampKeeps == ASSUME IInv, NEW c \in Clients, Stamp(c) PROVE IInv'
<1>1. /\ Written(c) \in Seq(Texts) /\ pc[c] = "stamping" /\ since[c] \in 0 .. now
      /\ now \in 0 .. MaxNow /\ TypeOK
  BY WrittenType DEF Stamp, IInv, TypeOK
<1>2. /\ Stamped(c) \in Entries /\ Stamped(c).kept /\ Stamped(c).msgs = Written(c)
      /\ Stamped(c).mortal =>
            TTL \in Nat /\ Stamped(c).exp <= now + TTL /\ (~ Overflows => Stamped(c).exp = now + TTL)
  BY <1>1, EntryType DEF Stamped
<1>3. /\ entry' = [entry EXCEPT ![c] = Stamped(c)] /\ pc' = [pc EXCEPT ![c] = "inserting"]
      /\ UNCHANGED <<db, now, op, found, base, since, used>>
  BY DEF Stamp, Goto
<1>4. Alone(c) /\ Typed
  BY <1>2, <1>3 DEF IInv, TypeOK, PCs, Alone, Typed
<1>5. pc'[c] = "inserting" /\ entry'[c] = Stamped(c) /\ op'[c] = op[c]
  BY <1>3 DEF IInv, TypeOK
<1>6. TTLFits /\ Stamped(c).mortal => Stamped(c).exp \in since[c] + TTL .. now + TTL
  <2>1. TTLFits => ~ Overflows
    BY <1>1, TTLAssumption, BoundsAssumption, WidthAssumption DEF TTLFits, Overflows, Stamp
  <2> QED
    BY <1>1, <1>2, <2>1, BoundsAssumption
<1>7. PlaceOf(c)' /\ EntryOf(c)'
  BY <1>1, <1>2, <1>3, <1>5, <1>6 DEF IInv, PlaceOf, EntryOf, Written
<1>8. Bounded(entry'[c])
  BY <1>1, <1>2, <1>5, BoundsAssumption DEF Bounded
<1> QED
  BY <1>3, <1>4, <1>7, <1>8, TreeKept, ClientMoves

LEMMA InsertKeeps == ASSUME IInv, NEW c \in Clients, Insert(c) \/ Clear(c) PROVE IInv'
<1>1. Key(c) \in Keys /\ UNCHANGED <<now, used>> /\ Return(c, "Ok", <<>>)
  BY BusyOp DEF Insert, Clear
<1>2. CASE Insert(c)
  <2>1. /\ entry[c] \in Entries /\ entry[c].kept /\ entry[c].msgs # <<>>
        /\ Bounded(entry[c])
    BY <1>2, WrittenType DEF Insert, IInv, TypeOK, EntryOf
  <2> QED
    BY <1>1, <1>2, <2>1, TreeWritten, ReturnKeeps DEF Insert
<1>3. CASE Clear(c)
  <2>1. Bounded(NoEntry)
    BY NoEntryType DEF Bounded
  <2> QED
    BY <1>1, <1>3, <2>1, NoEntryType, TreeWritten, ReturnKeeps DEF Clear
<1> QED
  BY <1>2, <1>3

LEMMA CallKeeps ==
    ASSUME IInv, NEW c \in Clients, NEW o \in OpsOver(Writes[c]), Call(c, o) PROVE IInv'
<1>1. o \in Ops /\ o # NoOp /\ o.kind \in Kept4
  BY WritesAssumption, OpsGrow, OpShape DEF Ops
<1>2. /\ used[c] < MaxOps /\ used' = [used EXCEPT ![c] = @ + 1] /\ op' = [op EXCEPT ![c] = o]
      /\ since' = [since EXCEPT ![c] = now] /\ pc' = [pc EXCEPT ![c] = FirstStep(o.kind)]
      /\ UNCHANGED <<db, now, found, base, entry>>
  BY DEF Call, Goto
<1>3. FirstStep(o.kind) \in PCs \ {"idle", "inserting", "checking"}
  BY <1>1 DEF FirstStep, PCs
<1>4. now \in 0 .. MaxNow /\ now \in 0 .. now
  BY BoundsAssumption DEF IInv, TypeOK
<1>5. TypeOK'
  <2>1. used' \in [Clients -> 0 .. MaxOps]
    BY <1>2, BoundsAssumption DEF IInv, TypeOK
  <2> QED
    BY <1>1, <1>2, <1>3, <1>4, <2>1 DEF IInv, TypeOK
<1>6. ASSUME NEW d \in Clients PROVE PlaceOf(d)' /\ EntryOf(d)'
  <2>1. CASE d = c
    <3>1. pc'[c] = FirstStep(o.kind) /\ op'[c] = o
      BY <1>2 DEF IInv, TypeOK
    <3> QED
      BY <1>1, <1>3, <2>1, <3>1 DEF PlaceOf, EntryOf, FirstStep, Kept4
  <2>2. CASE d # c
    <3>1. /\ pc'[d] = pc[d] /\ op'[d] = op[d] /\ since'[d] = since[d]
          /\ UNCHANGED <<now, base, entry>>
      BY <1>2, <2>2 DEF IInv, TypeOK
    <3> QED
      BY <3>1 DEF IInv, PlaceOf, EntryOf, Written
  <2> QED
    BY <2>1, <2>2
<1> QED
  BY <1>2, <1>5, <1>6 DEF IInv, StoredOf, Bounded

LEMMA TickKeeps == ASSUME IInv, Tick PROVE IInv'
<1>1. /\ now \in 0 .. MaxNow /\ now' = now + 1 /\ now < MaxNow
      /\ UNCHANGED <<db, pc, locals, answer, used>>
  BY DEF Tick, IInv, TypeOK
<1>2. ASSUME NEW e \in Entries, Bounded(e) PROVE e.mortal => TTL \in Nat /\ e.exp <= now' + TTL
  <2>0. e.exp \in Deadlines
    BY DEF Entries
  <2>1. e.mortal => e.exp \in Nat
    BY <1>2, <2>0, BoundsAssumption DEF Bounded, Deadlines
  <2> QED
    BY <1>1, <1>2, <2>1 DEF Bounded
<1>3. /\ \A k \in Keys : db[k].mortal => TTL \in Nat /\ db[k].exp <= now' + TTL
      /\ \A c \in Clients : entry[c].mortal => TTL \in Nat /\ entry[c].exp <= now' + TTL
  BY <1>2 DEF IInv, TypeOK
<1>4. TypeOK'
  <2>1. now' \in 0 .. MaxNow /\ since' \in [Clients -> 0 .. now']
    BY <1>1, BoundsAssumption DEF locals, IInv, TypeOK
  <2> QED
    BY <1>1, <1>3, <2>1 DEF locals, IInv, TypeOK
<1>5. ASSUME NEW c \in Clients PROVE PlaceOf(c)' /\ EntryOf(c)'
  <2>1. PlaceOf(c)'
    BY <1>1 DEF locals, IInv, PlaceOf
  <2>2. ASSUME TTLFits, pc[c] = "inserting", entry[c].mortal
        PROVE  entry[c].exp \in since[c] + TTL .. now' + TTL
    <3>1. TTL \in Nat /\ entry[c].exp \in since[c] + TTL .. now + TTL /\ since[c] \in 0 .. now
      BY <2>2 DEF IInv, TypeOK, EntryOf, Bounded
    <3> QED
      BY <1>1, <3>1, BoundsAssumption
  <2> QED
    BY <1>1, <2>1, <2>2 DEF locals, IInv, EntryOf, Written
<1> QED
  BY <1>1, <1>3, <1>4, <1>5 DEF IInv, StoredOf, Bounded, locals

LEMMA NextKeeps == IInv /\ [Next]_vars => IInv'
<1> SUFFICES ASSUME IInv, [Next]_vars PROVE IInv'
  OBVIOUS
<1>1. ASSUME NEW c \in Clients, ClientNext(c) PROVE IInv'
  <2>1. CASE StampPanics(c) \/ Fail(c)
    BY <2>1, TreeKept, ReturnKeeps DEF StampPanics, Fail
  <2> QED
    BY <1>1, <2>1, CallKeeps, GetKeeps, CheckKeeps, StampKeeps, InsertKeeps DEF ClientNext
<1>2. CASE UNCHANGED vars
  BY <1>2 DEF vars, locals, IInv, TypeOK, PlaceOf, EntryOf, StoredOf, Bounded, Written
<1> QED
  BY <1>1, <1>2, TickKeeps DEF Next

THEOREM InductiveInvariant == Spec => []IInv
  BY InitEstablishes, NextKeeps, PTL DEF Spec

\* Every variable of the store keeps its type; no entry outlives a write of the present
\* moment (sled_store.rs:51-66, 80-128).
THEOREM TypeCorrect == Spec => []TypeOK
<1>1. IInv => TypeOK
  BY DEF IInv
<1> QED
  BY <1>1, InductiveInvariant, PTL

\* While no deadline wraps, what a write leaves in the tree expires no sooner than TTL
\* after the write was begun and no later than TTL after it took effect, however the clock
\* runs on between its tree calls and whatever was stored before (sled_store.rs:51-66).
THEOREM WritesRenewTheDeadline == ASSUME TTLFits PROVE Spec => WriteRenewsDeadline
<1>1. IInv /\ [Next]_vars =>
        [\A c \in Clients :
            pc[c] = "inserting" /\ db' # db /\ db'[Key(c)] = entry[c] /\ entry[c].mortal =>
                db'[Key(c)].exp \in since[c] + TTL .. now + TTL]_vars
  BY DEF IInv, EntryOf
<1> QED
  BY <1>1, InductiveInvariant, PTL DEF Spec, WriteRenewsDeadline

-----------------------------------------------------------------------------
(* While clients keep apart *)

Apart ==
    \A c, d \in Clients : c # d /\ pc[c] # "idle" /\ pc[d] # "idle" => Key(c) # Key(d)

\* What c read from the tree is still there; what it found expired stays so.
FreshOf(c) ==
    /\ pc[c] = "checking" => db[Key(c)].kept /\ found[c] = db[Key(c)]
    /\ Appends(c) =>
          IF base[c] = <<>> THEN db[Key(c)].kept => IsExpired(db[Key(c)])
          ELSE db[Key(c)].kept /\ base[c] = db[Key(c)].msgs

Fresh == \A c \in Clients : FreshOf(c)

\* A step of a busy client: it stays with its operation or is done with it, and touches
\* no other key.
OwnStep(c) ==
    /\ pc[c] # "idle" /\ Alone(c)
    /\ \/ op'[c] = op[c] /\ pc'[c] # "idle"
       \/ op'[c] = NoOp /\ pc'[c] = "idle"
    /\ \A k \in Keys : k # Key(c) => db'[k] = db[k]

Step(c) ==
    \/ Get(c) \/ CheckLive(c) \/ CheckExpired(c) \/ Stamp(c) \/ StampPanics(c)
    \/ Insert(c) \/ Clear(c) \/ Fail(c)

LEMMA LoadedStep ==
    ASSUME IInv, NEW c \in Clients, NEW kind, NEW h \in Seq(Texts), Loaded(c, kind, h),
           UNCHANGED <<now, used>>
    PROVE  /\ Alone(c)
           /\ \/ op'[c] = op[c] /\ pc'[c] # "idle"
              \/ op'[c] = NoOp /\ pc'[c] = "idle"
<1>1. CASE op[c].kind = "append"
  BY <1>1 DEF Loaded, Goto, Alone, IInv, TypeOK
<1>2. CASE op[c].kind # "append"
  BY <1>2, ReturnMoves DEF Loaded
<1> QED
  BY <1>1, <1>2

LEMMA StepIsOwn == ASSUME IInv, NEW c \in Clients, Step(c) PROVE OwnStep(c)
<1>0. /\ pc \in [Clients -> PCs] /\ op \in [Clients -> Ops \cup {NoOp}]
      /\ db \in [Keys -> Entries] /\ found[c].msgs \in Seq(Texts)
  BY DEF IInv, TypeOK, Entries
<1>1. pc[c] # "idle"
  BY DEF Step, Get, CheckLive, CheckExpired, Stamp, StampPanics, Insert, Clear, Fail
<1>2. Key(c) \in Keys
  BY <1>1, BusyOp
<1>3. \A k \in Keys : k # Key(c) => db'[k] = db[k]
  <2>1. \/ db' = db
        \/ db' = [db EXCEPT ![Key(c)] = NoEntry]
        \/ db' = [db EXCEPT ![Key(c)] = entry[c]]
    BY DEF Step, Get, CheckLive, CheckExpired, Evicted, Stamp, StampPanics, Insert, Clear, Fail
  <2> QED
    BY <1>0, <2>1
<1>4. /\ Alone(c)
      /\ \/ op'[c] = op[c] /\ pc'[c] # "idle"
         \/ op'[c] = NoOp /\ pc'[c] = "idle"
  <2>1. CASE \E kind : Return(c, kind, <<>>) /\ UNCHANGED <<now, used>>
    BY <2>1, ReturnMoves
  <2>2. CASE \E kind : \E h \in Seq(Texts) : Loaded(c, kind, h) /\ UNCHANGED <<now, used>>
    BY <2>2, LoadedStep
  <2>3. CASE Get(c) /\ db[Key(c)] # NoEntry
    BY <1>0, <2>3 DEF Get, Goto, Alone, IInv, TypeOK
  <2>4. CASE Stamp(c)
    BY <1>0, <2>4 DEF Stamp, Goto, Alone, IInv, TypeOK
  <2>5. <<>> \in Seq(Texts)
    OBVIOUS
  <2>6. CASE Get(c) /\ db[Key(c)] = NoEntry
    BY <2>2, <2>5, <2>6 DEF Get
  <2>7. CASE CheckLive(c)
    BY <1>0, <2>2, <2>7 DEF CheckLive
  <2>8. CASE CheckExpired(c)
    BY <2>2, <2>5, <2>8 DEF CheckExpired, AfterExpiry
  <2>9. CASE StampPanics(c) \/ Insert(c) \/ Clear(c) \/ Fail(c)
    BY <2>1, <2>9 DEF StampPanics, Insert, Clear, Fail
  <2> QED
    BY <2>3, <2>4, <2>6, <2>7, <2>8, <2>9 DEF Step
<1> QED
  BY <1>1, <1>3, <1>4 DEF OwnStep

LEMMA InitApart == Init => Apart /\ Fresh
  BY DEF Init, Apart, Fresh, FreshOf, Appends

LEMMA StepApart == ASSUME Apart, NEW c \in Clients, OwnStep(c) PROVE Apart'
  BY DEF Apart, OwnStep, Alone, Key

\* The others read and found what they had.
LEMMA OthersFresh ==
    ASSUME IInv, Apart, Fresh, NEW c \in Clients, OwnStep(c), NEW d \in Clients, d # c
    PROVE  FreshOf(d)'
<1>1. /\ pc'[d] = pc[d] /\ op'[d] = op[d] /\ found'[d] = found[d] /\ base'[d] = base[d]
      /\ now' = now
  BY DEF OwnStep, Alone
<1>2. pc[d] # "idle" => db'[Key(d)] = db[Key(d)]
  BY BusyOp DEF OwnStep, Apart
<1> QED
  BY <1>1, <1>2 DEF Fresh, FreshOf, Appends, IsExpired, Key

LEMMA OwnFresh ==
    ASSUME IInv, Apart, Fresh, NEW c \in Clients, Step(c) PROVE FreshOf(c)'
<1>0. /\ pc \in [Clients -> PCs] /\ op \in [Clients -> Ops \cup {NoOp}]
      /\ found \in [Clients -> Entries] /\ base \in [Clients -> Seq(Texts)]
      /\ db \in [Keys -> Entries]
  BY DEF IInv, TypeOK
<1>1. OwnStep(c)
  BY StepIsOwn
<1>2. Key(c) \in Keys /\ now' = now /\ StoredOf(Key(c))
  BY <1>1, BusyOp DEF OwnStep, Alone, IInv
<1>3. CASE pc'[c] = "idle"
  BY <1>3 DEF FreshOf, Appends
<1>4. CASE Get(c) /\ db[Key(c)] # NoEntry
  <2>1. /\ pc'[c] = "checking" /\ found'[c] = db[Key(c)] /\ op'[c] = op[c] /\ db' = db
    BY <1>0, <1>4 DEF Get, Goto
  <2> QED
    BY <1>2, <1>4, <2>1 DEF FreshOf, Appends, StoredOf, Key
<1>5. CASE Get(c) /\ db[Key(c)] = NoEntry
  <2>1. pc'[c] = "idle" \/ (pc'[c] = "stamping" /\ base'[c] = <<>> /\ op'[c] = op[c] /\ db' = db)
    BY <1>0, <1>5 DEF Get, Loaded, Return, Goto
  <2> QED
    BY <1>3, <1>5, <2>1 DEF FreshOf, Key, NoEntry
<1>6. CASE CheckLive(c)
  <2>1. \/ pc'[c] = "idle"
        \/ /\ pc'[c] = "stamping" /\ base'[c] = found[c].msgs /\ op'[c] = op[c] /\ db' = db
    BY <1>0, <1>6 DEF CheckLive, Loaded, Return, Goto
  <2>2. db[Key(c)].kept /\ found[c] = db[Key(c)]
    BY <1>6 DEF CheckLive, Fresh, FreshOf
  <2> QED
    BY <1>2, <1>3, <2>1, <2>2 DEF FreshOf, Key, StoredOf
<1>7. CASE CheckExpired(c)
  <2>1. \/ pc'[c] = "idle"
        \/ /\ pc'[c] = "stamping" /\ base'[c] = <<>> /\ op'[c] = op[c]
           /\ db' \in {[db EXCEPT ![Key(c)] = NoEntry], db}
    BY <1>0, <1>7 DEF CheckExpired, Evicted, Loaded, Return, Goto, AfterExpiry
  <2>2. IsExpired(db[Key(c)])
    BY <1>7 DEF CheckExpired, Fresh, FreshOf
  <2>3. pc'[c] = "idle" \/ db'[Key(c)] = NoEntry \/ db'[Key(c)] = db[Key(c)]
    BY <1>0, <1>2, <2>1
  <2> QED
    BY <1>2, <1>3, <2>1, <2>2, <2>3 DEF FreshOf, Key, NoEntry, IsExpired
<1>8. CASE Stamp(c)
  <2>1. pc'[c] = "inserting" /\ base' = base /\ op' = op /\ db' = db /\ pc[c] = "stamping"
    BY <1>0, <1>8 DEF Stamp, Goto
  <2> QED
    BY <1>2, <2>1 DEF Fresh, FreshOf, Appends, Key, IsExpired
<1>9. CASE StampPanics(c) \/ Insert(c) \/ Clear(c) \/ Fail(c)
  BY <1>0, <1>3, <1>9 DEF StampPanics, Insert, Clear, Fail, Return, Goto
<1> QED
  BY <1>4, <1>5, <1>6, <1>7, <1>8, <1>9 DEF Step

LEMMA CallFresh ==
    ASSUME Exclusive, IInv, Apart, Fresh, NEW c \in Clients, NEW o \in OpsOver(Writes[c]),
           Call(c, o)
    PROVE  Apart' /\ Fresh'
<1>1. /\ \A d \in Clients : pc[d] # "idle" => Key(d) # o.key
      /\ op' = [op EXCEPT ![c] = o] /\ pc' = [pc EXCEPT ![c] = FirstStep(o.kind)]
      /\ UNCHANGED <<db, now, found, base>>
  BY DEF Call, Goto
<1>2. /\ op'[c] = o /\ pc'[c] = FirstStep(o.kind)
      /\ \A d \in Clients : d # c => op'[d] = op[d] /\ pc'[d] = pc[d]
  BY <1>1 DEF IInv, TypeOK
<1>3. Apart'
  BY <1>1, <1>2 DEF Apart, Key
<1>4. FreshOf(c)'
  <2>1. ~ Appends(c)' /\ pc'[c] # "checking"
    BY <1>2 DEF Appends, FirstStep
  <2> QED
    BY <2>1 DEF FreshOf
<1>5. \A d \in Clients : d # c => FreshOf(d)'
  BY <1>1, <1>2 DEF Fresh, FreshOf, Appends, IsExpired, Key
<1> QED
  BY <1>3, <1>4, <1>5 DEF Fresh

LEMMA TickFresh == ASSUME IInv, Apart, Fresh, Tick PROVE Apart' /\ Fresh'
<1>1. /\ now \in 0 .. MaxNow /\ now' = now + 1 /\ UNCHANGED <<db, pc, op, found, base>>
  BY DEF Tick, locals, IInv, TypeOK
<1>2. ASSUME NEW k \in Keys, IsExpired(db[k]) PROVE IsExpired(db[k])'
  <2>1. db[k].exp \in Nat
    BY <1>2, BoundsAssumption DEF IInv, TypeOK, Bounded, Entries, Deadlines, IsExpired
  <2> QED
    BY <1>1, <1>2, <2>1, BoundsAssumption DEF IsExpired
<1>3. Apart'
  BY <1>1 DEF Apart, Key
<1>4. ASSUME NEW c \in Clients PROVE FreshOf(c)'
  <2>1. Appends(c) => Key(c) \in Keys
    BY BusyOp DEF Appends
  <2> QED
    BY <1>1, <1>2, <2>1 DEF Fresh, FreshOf, Appends, Key
<1> QED
  BY <1>3, <1>4 DEF Fresh

LEMMA NextFresh ==
    ASSUME Exclusive PROVE IInv /\ Apart /\ Fresh /\ [Next]_vars => Apart' /\ Fresh'
<1> SUFFICES ASSUME IInv, Apart, Fresh, [Next]_vars PROVE Apart' /\ Fresh'
  OBVIOUS
<1>1. ASSUME NEW c \in Clients, Step(c) PROVE Apart' /\ Fresh'
  BY <1>1, StepIsOwn, StepApart, OthersFresh, OwnFresh DEF Fresh
<1>2. ASSUME NEW c \in Clients, NEW o \in OpsOver(Writes[c]), Call(c, o) PROVE Apart' /\ Fresh'
  BY <1>2, CallFresh
<1>3. CASE Tick
  BY <1>3, TickFresh
<1>4. CASE UNCHANGED vars
  BY <1>4 DEF vars, locals, Apart, Fresh, FreshOf, Appends, IsExpired, Key
<1> QED
  BY <1>1, <1>2, <1>3, <1>4 DEF Next, ClientNext, Step

-----------------------------------------------------------------------------
(* What the trait's callers see *)

Inv == IInv /\ Apart /\ Fresh

EntryView(e) ==
    [status |-> IF ~ e.kept THEN "absent" ELSE IF IsExpired(e) THEN "expired" ELSE "live",
     msgs |-> e.msgs]

Appending(k) ==
    {c \in Clients : /\ pc[c] \in {"stamping", "inserting"}
                     /\ op[c].kind = "append" /\ Key(c) = k}

\* Nobody appends to k: callers see its entry.
LEMMA UnclaimedView ==
    \A k \in Keys : (\A c \in Clients : ~ (Appends(c) /\ Key(c) = k)) => View(k) = EntryView(db[k])
<1> SUFFICES ASSUME NEW k \in Keys, \A c \in Clients : ~ (Appends(c) /\ Key(c) = k)
             PROVE  View(k) = EntryView(db[k])
  OBVIOUS
<1>1. Appending(k) = {}
  BY DEF Appending, Appends
<1> QED
  BY <1>1 DEF View, Appending, EntryView

\* Only an append that goes on with a history it loaded hides the entry.
OwnViewOf(c) ==
    View(Key(c)) =
        IF Appends(c) /\ base[c] # <<>> THEN Service!Live(base[c]) ELSE EntryView(db[Key(c)])

LEMMA OwnView == Inv => \A c \in Clients : pc[c] # "idle" => OwnViewOf(c)
<1> SUFFICES ASSUME Inv, NEW c \in Clients, pc[c] # "idle" PROVE OwnViewOf(c)
  OBVIOUS
<1>1. Key(c) \in Keys
  BY BusyOp DEF Inv
<1>2. \A d \in Clients : d # c => ~ (Appends(d) /\ Key(d) = Key(c))
  BY DEF Inv, Apart, Appends
<1>3. CASE ~ Appends(c)
  BY <1>1, <1>2, <1>3, UnclaimedView DEF OwnViewOf
<1>4. CASE Appends(c)
  <2>1. Appending(Key(c)) = {c}
    BY <1>2, <1>4 DEF Appending, Appends
  <2>2. (CHOOSE d \in {c} : TRUE) = c
    OBVIOUS
  <2>3. View(Key(c)) =
          [status |-> IF base[c] # <<>> THEN "live"
                      ELSE IF db[Key(c)].kept THEN "expired" ELSE "absent",
           msgs |-> IF base[c] # <<>> THEN base[c] ELSE db[Key(c)].msgs]
    BY <2>1, <2>2 DEF View, Appending
  <2>4. base[c] = <<>> /\ db[Key(c)].kept => IsExpired(db[Key(c)])
    BY <1>4 DEF Inv, Fresh, FreshOf
  <2> QED
    BY <1>4, <2>3, <2>4 DEF OwnViewOf, EntryView, Service!Live
<1> QED
  BY <1>3, <1>4

LEMMA OwnViewNext == Inv' => \A c \in Clients : pc'[c] # "idle" => OwnViewOf(c)'
<1>1. (Inv => \A c \in Clients : pc[c] # "idle" => OwnViewOf(c))'
  BY OwnView, PTL
<1> QED
  BY <1>1

LEMMA UnclaimedViewNext ==
    \A k \in Keys :
        (\A c \in Clients : ~ (Appends(c)' /\ Key(c)' = k)) => View(k)' = EntryView(db[k])'
<1>1. (\A k \in Keys :
          (\A c \in Clients : ~ (Appends(c) /\ Key(c) = k)) => View(k) = EntryView(db[k]))'
  BY UnclaimedView, PTL
<1> QED
  BY <1>1

\* A step of c changes what callers see of its own run_id only.
LEMMA OthersView ==
    ASSUME Inv, NEW c \in Clients, OwnStep(c), NEW j \in Keys, j # Key(c)
    PROVE  View(j)' = View(j)
<1>1. \A d \in Clients : d \in Appending(j)' <=> d \in Appending(j)
  BY DEF Appending, OwnStep, Alone, Key
<1>2. Appending(j)' = Appending(j)
  BY <1>1 DEF Appending
<1>3. c \notin Appending(j) /\ Appending(j) \subseteq Clients
  BY DEF Appending
<1>4. now' = now /\ db'[j] = db[j] /\ \A d \in Clients : d # c => base'[d] = base[d]
  BY DEF OwnStep, Alone
<1>5. CASE Appending(j) = {}
  BY <1>2, <1>4, <1>5 DEF View, Appending, IsExpired
<1>6. CASE Appending(j) # {}
  <2> DEFINE d == CHOOSE d \in Appending(j) : TRUE
  <2>1. d \in Appending(j)
    BY <1>6
  <2>2. base'[d] = base[d]
    BY <1>3, <1>4, <2>1
  <2> QED
    BY <1>2, <1>4, <1>6, <2>2 DEF View, Appending
<1> QED
  BY <1>5, <1>6

Views == [k \in Keys |-> View(k)]

LEMMA OwnBecomes ==
    ASSUME Inv, NEW c \in Clients, OwnStep(c), NEW k \in Keys, k = Key(c)
    PROVE  Views' = [Views EXCEPT ![k] = View(k)']
  BY OthersView DEF Views

\* What callers see of the run_id of c after its step.
LEMMA ViewAfter ==
    ASSUME Inv, Inv', NEW c \in Clients, OwnStep(c), NEW k \in Keys, k = Key(c)
    PROVE  /\ pc'[c] = "idle" => View(k)' = EntryView(db[k])'
           /\ pc'[c] # "idle" =>
                View(k)' = IF Appends(c)' /\ base'[c] # <<>> THEN Service!Live(base'[c])
                           ELSE EntryView(db[k])'
<1>1. CASE pc'[c] = "idle"
  <2>1. \A d \in Clients : ~ (Appends(d)' /\ Key(d)' = k)
    BY <1>1 DEF Inv, Apart, OwnStep, Alone, Appends, Key
  <2> QED
    BY <1>1, <2>1, UnclaimedViewNext
<1>2. CASE pc'[c] # "idle"
  <2>1. OwnViewOf(c)'
    BY <1>2, OwnViewNext
  <2>2. op'[c] = op[c]
    BY <1>2 DEF OwnStep
  <2> QED
    BY <1>2, <2>1, <2>2 DEF OwnViewOf, Key, Service!Live
<1> QED
  BY <1>1, <1>2

-----------------------------------------------------------------------------
(* Each tree call is an operation of the trait, or is not seen *)

LEMMA Unseen ==
    ASSUME Inv, NEW c \in Clients, OwnStep(c), NEW k \in Keys, k = Key(c),
           View(k)' = View(k), UNCHANGED <<op, answer>>
    PROVE  UNCHANGED Service!vars
<1>1. Views' = Views
  BY OwnBecomes DEF Views
<1> QED
  BY <1>1 DEF Views, Service!vars

\* Loaded, of an append, hides the entry behind the history that it holds.
LEMMA AppendLoads ==
    ASSUME Inv, Inv', NEW c \in Clients, OwnStep(c), NEW k \in Keys, k = Key(c),
           op[c].kind = "append", NEW kind, NEW h \in Seq(Texts), Loaded(c, kind, h)
    PROVE  /\ View(k)' = IF h # <<>> THEN Service!Live(h) ELSE EntryView(db[k])'
           /\ UNCHANGED <<op, answer>>
<1>1. pc'[c] = "stamping" /\ base'[c] = h /\ op' = op /\ answer' = answer
  BY DEF Loaded, Goto, Inv, IInv, TypeOK
<1> QED
  BY <1>1, ViewAfter DEF Appends

\* Loaded, of a load, returns; nobody appends to the run_id.
LEMMA LoadReturns ==
    ASSUME Inv, Inv', NEW c \in Clients, pc[c] \in {"getting", "checking"},
           OwnStep(c), NEW k \in Keys, k = Key(c),
           op[c].kind # "append", NEW kind, NEW h \in Seq(Texts), Loaded(c, kind, h)
    PROVE  /\ op[c].kind = "load"
           /\ View(k)' = EntryView(db[k])'
           /\ Service!Reply(c, kind, h)
<1>1. pc'[c] = "idle" /\ Service!Reply(c, kind, h)
  BY DEF Loaded, Return, Goto, Inv, IInv, TypeOK, Service!Reply, Service!NoOp, Service!Answer,
         NoOp, Answer
<1>2. op[c].kind = "load"
  BY DEF Inv, IInv, PlaceOf
<1> QED
  BY <1>1, <1>2, ViewAfter

LEMMA StayViews == ASSUME NEW k \in Keys, Views' = [Views EXCEPT ![k] = View(k)]
                   PROVE  Views' = Views
  BY DEF Views

LEMMA GetImplements ==
    ASSUME Inv, Inv', NEW c \in Clients, Get(c) PROVE [Service!Next]_Service!vars
<1>0. OwnStep(c) /\ db' = db /\ now' = now /\ pc[c] = "getting"
  BY StepIsOwn DEF Inv, Step, Get
<1>1. PICK k \in Keys : k = Key(c)
  BY <1>0, BusyOp DEF Inv
<1>2. View(k) = EntryView(db[k]) /\ EntryView(db[k])' = EntryView(db[k])
  BY <1>0, <1>1, OwnView DEF OwnViewOf, Appends, EntryView, IsExpired
<1>3. CASE db[k] # NoEntry
  <2>1. pc'[c] = "checking" /\ UNCHANGED <<op, answer>>
    BY <1>1, <1>3 DEF Get, Goto, Inv, IInv, TypeOK
  <2>2. View(k)' = EntryView(db[k])'
    BY <1>0, <1>1, <2>1, ViewAfter DEF Appends
  <2> QED
    BY <1>0, <1>1, <1>2, <2>1, <2>2, Unseen
<1>4. CASE db[k] = NoEntry
  <2>1. Loaded(c, "None", <<>>) /\ <<>> \in Seq(Texts)
    BY <1>1, <1>4 DEF Get
  <2>2. CASE op[c].kind = "append"
    <3>1. View(k)' = EntryView(db[k])' /\ UNCHANGED <<op, answer>>
      BY <1>0, <1>1, <2>1, <2>2, AppendLoads
    <3> QED
      BY <1>0, <1>1, <1>2, <3>1, Unseen
  <2>3. CASE op[c].kind # "append"
    <3>1. /\ op[c].kind = "load" /\ View(k)' = View(k) /\ Service!Reply(c, "None", <<>>)
      BY <1>0, <1>1, <1>2, <2>1, <2>3, LoadReturns
    <3>2. Views' = Views
      BY <1>0, <1>1, <3>1, OwnBecomes, StayViews
    <3>3. View(k).status = "absent" /\ Views[k] = View(k) /\ k = op[c].key
      BY <1>1, <1>2, <1>4, NoEntryType DEF EntryView, Views, Key
    <3>4. Service!Load(c)
      BY <3>1, <3>2, <3>3 DEF Service!Load, Views
    <3> QED
      BY <3>4 DEF Service!Next
  <2> QED
    BY <2>2, <2>3
<1> QED
  BY <1>3, <1>4

LEMMA CheckLiveImplements ==
    ASSUME Inv, Inv', NEW c \in Clients, CheckLive(c) PROVE [Service!Next]_Service!vars
<1>0. OwnStep(c) /\ db' = db /\ now' = now /\ pc[c] = "checking"
  BY StepIsOwn DEF Inv, Step, CheckLive
<1>1. PICK k \in Keys : k = Key(c)
  BY <1>0, BusyOp DEF Inv
<1>2. View(k) = EntryView(db[k]) /\ EntryView(db[k])' = EntryView(db[k])
  BY <1>0, <1>1, OwnView DEF OwnViewOf, Appends, EntryView, IsExpired
<1>3. /\ db[k].kept /\ found[c] = db[k] /\ ~ IsExpired(db[k])
      /\ db[k].msgs # <<>> /\ db[k].msgs \in Seq(Texts)
  BY <1>0, <1>1 DEF Inv, Fresh, FreshOf, IInv, StoredOf, TypeOK, Entries, CheckLive
<1>4. Loaded(c, "Some", db[k].msgs)
  BY <1>3 DEF CheckLive
<1>5. EntryView(db[k]) = Service!Live(db[k].msgs)
  BY <1>3 DEF EntryView, Service!Live
<1>6. CASE op[c].kind = "append"
  <2>1. View(k)' = Service!Live(db[k].msgs) /\ UNCHANGED <<op, answer>>
    BY <1>0, <1>1, <1>3, <1>4, <1>6, AppendLoads
  <2> QED
    BY <1>0, <1>1, <1>2, <1>5, <2>1, Unseen
<1>7. CASE op[c].kind # "append"
  <2>1. /\ op[c].kind = "load" /\ View(k)' = View(k) /\ Service!Reply(c, "Some", db[k].msgs)
    BY <1>0, <1>1, <1>2, <1>3, <1>4, <1>7, LoadReturns
  <2>2. Views' = Views
    BY <1>0, <1>1, <2>1, OwnBecomes, StayViews
  <2>3. /\ View(k).status = "live" /\ View(k).msgs = db[k].msgs
        /\ Views[k] = View(k) /\ k = op[c].key
    BY <1>1, <1>2, <1>5 DEF Service!Live, Views, Key
  <2>4. Service!Load(c)
    BY <2>1, <2>2, <2>3 DEF Service!Load, Views
  <2> QED
    BY <2>4 DEF Service!Next
<1> QED
  BY <1>6, <1>7

\* Views that only grow older are a step of Expire.
LEMMA OlderViews ==
    ASSUME \A j \in Keys : View(j)' \in Service!Older(View(j)), UNCHANGED <<op, answer>>
    PROVE  Service!Expire
<1>1. Views' \in [Keys -> UNION {Service!Older(Views[j]) : j \in Keys}]
  BY DEF Views
<1>2. \A j \in Keys : Views'[j] \in Service!Older(Views[j])
  BY DEF Views
<1> QED
  BY <1>1, <1>2 DEF Views, Service!Expire

LEMMA Itself == \A v : v \in Service!Older(v)
  BY DEF Service!Older

LEMMA CheckExpiredImplements ==
    ASSUME Inv, Inv', NEW c \in Clients, CheckExpired(c) PROVE [Service!Next]_Service!vars
<1>0. OwnStep(c) /\ now' = now /\ pc[c] = "checking"
  BY StepIsOwn DEF Inv, Step, CheckExpired
<1>1. PICK k \in Keys : k = Key(c)
  BY <1>0, BusyOp DEF Inv
<1>2. View(k) = EntryView(db[k])
  BY <1>0, <1>1, OwnView DEF OwnViewOf, Appends
<1>3. db[k].kept /\ IsExpired(db[k])
  BY <1>0, <1>1 DEF Inv, Fresh, FreshOf, CheckExpired
<1>4. View(k) = Service!Expired(db[k].msgs)
  BY <1>2, <1>3 DEF EntryView, Service!Expired
<1>5. EntryView(db[k])' \in {Service!Absent, View(k)}
  <2>1. db'[k] = NoEntry \/ db'[k] = db[k]
    BY <1>1 DEF CheckExpired, Evicted, Inv, IInv, TypeOK
  <2> QED
    BY <1>0, <1>2, <2>1 DEF EntryView, IsExpired, NoEntry, Service!Absent
<1>6. Loaded(c, "Expired", <<>>) /\ <<>> \in Seq(Texts)
  BY DEF CheckExpired, AfterExpiry
<1>7. CASE op[c].kind = "append"
  <2>1. View(k)' = EntryView(db[k])' /\ UNCHANGED <<op, answer>>
    BY <1>0, <1>1, <1>6, <1>7, AppendLoads
  <2>2. \A j \in Keys : View(j)' \in Service!Older(View(j))
    <3>1. View(k)' \in Service!Older(View(k))
      BY <1>4, <1>5, <2>1 DEF Service!Older, Service!Expired
    <3> QED
      BY <1>0, <1>1, <3>1, OthersView, Itself
  <2> QED
    BY <2>1, <2>2, OlderViews DEF Service!Next
<1>8. CASE op[c].kind # "append"
  <2>1. /\ op[c].kind = "load" /\ View(k)' = EntryView(db[k])'
        /\ Service!Reply(c, "Expired", <<>>)
    BY <1>0, <1>1, <1>6, <1>8, LoadReturns
  <2>2. Views' = [Views EXCEPT ![k] = Service!Absent] \/ Views' = Views
    BY <1>0, <1>1, <1>5, <2>1, OwnBecomes, StayViews
  <2>3. View(k).status = "expired" /\ Views[k] = View(k) /\ k = op[c].key
    BY <1>1, <1>4 DEF Service!Expired, Views, Key
  <2>4. Service!Load(c)
    BY <2>1, <2>2, <2>3 DEF Service!Load, Service!Becomes, Views
  <2> QED
    BY <2>4 DEF Service!Next
<1> QED
  BY <1>7, <1>8

LEMMA StampImplements ==
    ASSUME Inv, Inv', NEW c \in Clients, Stamp(c) PROVE UNCHANGED Service!vars
<1>0. /\ OwnStep(c) /\ UNCHANGED <<db, now, op, base, answer>> /\ pc[c] = "stamping"
      /\ pc'[c] = "inserting"
  BY StepIsOwn DEF Inv, Step, Stamp, Goto, IInv, TypeOK
<1>1. PICK k \in Keys : k = Key(c)
  BY <1>0, BusyOp DEF Inv
<1>2. Appends(c)' = Appends(c) /\ EntryView(db[k])' = EntryView(db[k])
  BY <1>0 DEF Appends, EntryView, IsExpired
<1>3. View(k) = IF Appends(c) /\ base[c] # <<>> THEN Service!Live(base[c]) ELSE EntryView(db[k])
  BY <1>0, <1>1, OwnView DEF OwnViewOf
<1>4. View(k)' = View(k)
  BY <1>0, <1>1, <1>2, <1>3, ViewAfter
<1> QED
  BY <1>0, <1>1, <1>4, Unseen

\* The end of an operation, as MemoryService words it.
LEMMA Replies ==
    ASSUME NEW c, NEW kind, NEW h, Return(c, kind, h) PROVE Service!Reply(c, kind, h)
  BY DEF Return, Service!Reply, Service!NoOp, Service!Answer, NoOp, Answer

LEMMA InsertImplements ==
    ASSUME Inv, Inv', NEW c \in Clients, Insert(c) PROVE Service!Next
<1>0. /\ OwnStep(c) /\ now' = now /\ pc[c] = "inserting" /\ pc'[c] = "idle"
      /\ Service!Reply(c, "Ok", <<>>)
  BY StepIsOwn, Replies DEF Inv, Step, Insert, Return, Goto, IInv, TypeOK
<1>1. PICK k \in Keys : k = Key(c)
  BY <1>0, BusyOp DEF Inv
<1>2. db'[k] = entry[c] /\ entry[c].kept /\ entry[c].msgs = Written(c)
  BY <1>0, <1>1 DEF Inv, IInv, EntryOf, Insert, TypeOK
<1>3. View(k)' \in {Service!Live(Written(c)), Service!Expired(Written(c))}
  BY <1>0, <1>1, <1>2, ViewAfter DEF EntryView, Service!Live, Service!Expired
<1>4. Service!Write(k, Written(c))
  BY <1>0, <1>1, <1>3, OwnBecomes DEF Service!Write, Service!Becomes, Views
<1>5. op[c].kind \in {"store", "append"} /\ k = op[c].key
  BY <1>0, <1>1 DEF Inv, IInv, PlaceOf, Key
<1>6. CASE op[c].kind = "store"
  BY <1>0, <1>4, <1>5, <1>6 DEF Written, Service!Store, Service!Next
<1>7. CASE op[c].kind = "append"
  <2>1. base[c] \in Seq(Texts) /\ Written(c) = Append(base[c], op[c].msg)
    BY <1>7 DEF Written, Inv, IInv, TypeOK
  <2>2. Service!Appended(View(k), op[c].msg) = Written(c)
    <3>1. CASE base[c] # <<>>
      <4>1. View(k) = Service!Live(base[c])
        BY <1>0, <1>1, <1>7, <3>1, OwnView DEF OwnViewOf, Appends
      <4> QED
        BY <2>1, <4>1 DEF Service!Live, Service!Appended
    <3>2. CASE base[c] = <<>>
      <4>1. View(k) = EntryView(db[k])
        BY <1>0, <1>1, <3>2, OwnView DEF OwnViewOf
      <4>2. db[k].kept => IsExpired(db[k])
        BY <1>0, <1>1, <1>7, <3>2 DEF Inv, Fresh, FreshOf, Appends
      <4>3. View(k).status # "live"
        BY <4>1, <4>2 DEF EntryView
      <4> QED
        BY <2>1, <3>2, <4>3 DEF Service!Appended
    <3> QED
      BY <3>1, <3>2
  <2>3. Views[k] = View(k)
    BY DEF Views
  <2>4. Service!AppendMsg(c)
    BY <1>0, <1>4, <1>5, <1>7, <2>2, <2>3 DEF Service!AppendMsg, Views
  <2> QED
    BY <2>4 DEF Service!Next
<1> QED
  BY <1>5, <1>6, <1>7

LEMMA ClearImplements ==
    ASSUME Inv, Inv', NEW c \in Clients, Clear(c) PROVE Service!Next
<1>0. /\ OwnStep(c) /\ pc[c] = "clearing" /\ pc'[c] = "idle" /\ Service!Reply(c, "Ok", <<>>)
  BY StepIsOwn, Replies DEF Inv, Step, Clear, Return, Goto, IInv, TypeOK
<1>1. PICK k \in Keys : k = Key(c)
  BY <1>0, BusyOp DEF Inv
<1>2. db'[k] = NoEntry
  BY <1>1 DEF Clear, Inv, IInv, TypeOK
<1>3. View(k)' = Service!Absent
  BY <1>0, <1>1, <1>2, ViewAfter DEF EntryView, NoEntry, Service!Absent
<1>4. Service!Becomes(k, Service!Absent)
  BY <1>0, <1>1, <1>3, OwnBecomes DEF Service!Becomes, Views
<1>5. op[c].kind = "clear" /\ k = op[c].key
  BY <1>0, <1>1 DEF Inv, IInv, PlaceOf, Key
<1> QED
  BY <1>0, <1>4, <1>5 DEF Service!Clear, Service!Next

\* A failed append gives up the history it held: its entry may have expired meanwhile.
LEMMA FailImplements ==
    ASSUME Inv, Inv', NEW c \in Clients, Fail(c) \/ StampPanics(c) PROVE Service!Next
<1>0. /\ OwnStep(c) /\ UNCHANGED <<db, now>> /\ pc[c] # "idle" /\ pc'[c] = "idle"
      /\ \E kind \in {"BackendError", "Panicked"} : Service!Reply(c, kind, <<>>)
  BY StepIsOwn, Replies DEF Inv, Step, Fail, StampPanics, Return, Goto, IInv, TypeOK
<1>1. PICK k \in Keys : k = Key(c)
  BY <1>0, BusyOp DEF Inv
<1>2. View(k)' = EntryView(db[k])
  BY <1>0, <1>1, ViewAfter DEF EntryView, IsExpired
<1>3. View(k)' \in Service!Older(View(k))
  <2>1. CASE Appends(c) /\ base[c] # <<>>
    <3>1. View(k) = Service!Live(base[c])
      BY <1>0, <1>1, <2>1, OwnView DEF OwnViewOf
    <3>2. db[k].kept /\ base[c] = db[k].msgs
      BY <1>1, <2>1 DEF Inv, Fresh, FreshOf
    <3> QED
      BY <1>2, <3>1, <3>2 DEF EntryView, Service!Older, Service!Live, Service!Expired
  <2>2. CASE ~ (Appends(c) /\ base[c] # <<>>)
    <3>1. View(k) = EntryView(db[k])
      BY <1>0, <1>1, <2>2, OwnView DEF OwnViewOf
    <3> QED
      BY <1>2, <3>1, Itself
  <2> QED
    BY <2>1, <2>2
<1>4. Service!Becomes(k, View(k)')
  BY <1>0, <1>1, OwnBecomes DEF Service!Becomes, Views
<1>5. k = op[c].key /\ op[c] # Service!NoOp /\ Views[k] = View(k)
  BY <1>0, <1>1 DEF Inv, IInv, PlaceOf, Key, NoOp, Service!NoOp, Views
<1>6. Service!Fail(c)
  BY <1>0, <1>3, <1>4, <1>5 DEF Service!Fail, Views
<1> QED
  BY <1>6 DEF Service!Next

LEMMA CallImplements ==
    ASSUME Inv, NEW c \in Clients, NEW o \in OpsOver(Writes[c]), Call(c, o) PROVE Service!Next
<1>1. /\ pc[c] = "idle" /\ op' = [op EXCEPT ![c] = o] /\ pc' = [pc EXCEPT ![c] = FirstStep(o.kind)]
      /\ UNCHANGED <<db, now, base, answer>>
  BY DEF Call, Goto
<1>2. \A j \in Keys : View(j)' = View(j)
  <2>0. /\ op'[c] = o /\ pc[c] = "idle" /\ pc'[c] = FirstStep(o.kind)
        /\ \A d \in Clients : d # c => pc'[d] = pc[d] /\ op'[d] = op[d]
    BY <1>1 DEF Inv, IInv, TypeOK
  <2>1. ASSUME NEW j \in Keys PROVE Appending(j)' = Appending(j)
    BY <2>0 DEF Appending, Key, FirstStep
  <2> QED
    BY <1>1, <2>1 DEF View, Appending, IsExpired
<1>3. Views' = Views
  BY <1>2 DEF Views
<1>4. op[c] = Service!NoOp
  BY <1>1 DEF Inv, IInv, PlaceOf, NoOp, Service!NoOp
<1>5. o \in Service!Ops
  <2>1. o \in Ops
    BY WritesAssumption, OpsGrow DEF Ops
  <2> QED
    BY <2>1 DEF Ops, OpsOver, Service!Ops
<1>6. Service!Call(c, o)
  BY <1>1, <1>3, <1>4 DEF Service!Call, Views
<1> QED
  BY <1>5, <1>6 DEF Service!Next

LEMMA TickImplements == ASSUME Inv, Tick PROVE Service!Next
<1>1. UNCHANGED <<db, pc, op, base, answer>>
  BY DEF Tick, locals
<1>2. \A j \in Keys : Appending(j)' = Appending(j)
  BY <1>1 DEF Appending, Key
<1>3. ASSUME NEW j \in Keys PROVE View(j)' \in Service!Older(View(j))
  <2>1. CASE Appending(j) # {}
    <3>1. PICK c \in Clients : c \in Appending(j)
      BY <2>1 DEF Appending
    <3>2. Appends(c) /\ Key(c) = j /\ \A d \in Appending(j) : d = c
      BY <3>1 DEF Appending, Appends, Inv, Apart
    <3>3. Appending(j) = {c} /\ (CHOOSE d \in {c} : TRUE) = c
      BY <3>1, <3>2
    <3>4. View(j)' = View(j)
      BY <1>1, <1>2, <3>3 DEF View, Appending
    <3> QED
      BY <3>4, Itself
  <2>2. CASE Appending(j) = {}
    <3>1. View(j) = EntryView(db[j])
      BY <2>2 DEF View, Appending, EntryView
    <3>2. View(j)' = EntryView(db[j])'
      BY <1>2, <2>2 DEF View, Appending, EntryView
    <3>3. IsExpired(db[j]) => IsExpired(db[j])'
      <4>1. ASSUME db[j].mortal PROVE db[j].exp \in Nat
        BY <4>1, BoundsAssumption DEF Inv, IInv, TypeOK, Bounded, Entries, Deadlines
      <4> QED
        BY <1>1, <4>1, BoundsAssumption DEF IsExpired, Tick, Inv, IInv, TypeOK
    <3> QED
      BY <1>1, <3>1, <3>2, <3>3 DEF EntryView, Service!Older, Service!Expired, Service!Absent
  <2> QED
    BY <2>1, <2>2
<1> QED
  BY <1>1, <1>3, OlderViews DEF Service!Next

-----------------------------------------------------------------------------

LEMMA InvHolds == ASSUME Exclusive PROVE Spec => []Inv
<1>1. Init => Inv
  BY InitEstablishes, InitApart DEF Inv
<1>2. Inv /\ [Next]_vars => Inv'
  BY NextKeeps, NextFresh DEF Inv
<1> QED
  BY <1>1, <1>2, PTL DEF Spec

\* A step that removes a history is a clear, or the eviction of one found expired, which is
\* still the one in the tree.
LEMMA EvictsExpired ==
    ASSUME Inv, [Next]_vars, NEW k \in Keys, db[k].kept, ~ db'[k].kept,
           db[k].mortal => now <= db[k].exp
    PROVE  \E c \in Clients : pc[c] = "clearing" /\ Key(c) = k
<1>1. db'[k] # db[k] /\ db \in [Keys -> Entries]
  BY DEF Inv, IInv, TypeOK
<1>2. PICK c \in Clients : CheckExpired(c) \/ Insert(c) \/ Clear(c)
  BY <1>1 DEF Next, ClientNext, Tick, Call, Get, CheckLive, Stamp, StampPanics, Fail, vars
<1>3. Key(c) = k
  BY <1>1, <1>2 DEF CheckExpired, Evicted, Insert, Clear
<1>4. CASE CheckExpired(c)
  <2>1. IsExpired(db[k])
    BY <1>3, <1>4 DEF CheckExpired, Inv, Fresh, FreshOf
  <2>2. now \in Nat /\ db[k].exp \in Nat
    BY <1>1, <2>1, BoundsAssumption
       DEF Inv, IInv, TypeOK, Bounded, Entries, Deadlines, IsExpired
  <2> QED
    BY <2>1, <2>2 DEF IsExpired
<1>5. CASE Insert(c)
  BY <1>1, <1>3, <1>5 DEF Insert, Inv, IInv, EntryOf
<1> QED
  BY <1>2, <1>3, <1>4, <1>5 DEF Clear

\* While the tasks keep to different run_ids, lazy eviction removes nothing that is still
\* good: the entry that a load found expired is the one it removes (sled_store.rs:96-108).
THEOREM OnlyExpiredIsEvicted == ASSUME Exclusive PROVE Spec => OnlyExpiredEvicted
<1>1. Inv /\ [Next]_vars =>
        [\A k \in Keys :
            /\ db[k].kept /\ ~ db'[k].kept
            /\ db[k].mortal => now <= db[k].exp
            => \E c \in Clients : pc[c] = "clearing" /\ Key(c) = k]_vars
  BY EvictsExpired
<1> QED
  BY <1>1, InvHolds, PTL DEF Spec, OnlyExpiredEvicted

LEMMA InitImplements == Init => Service!Init
<1> SUFFICES ASSUME Init PROVE Service!Init
  OBVIOUS
<1>1. ASSUME NEW k \in Keys PROVE View(k) = Service!Absent
  <2>1. Appending(k) = {}
    BY DEF Init, Appending
  <2> QED
    BY <2>1 DEF Init, View, Appending, NoEntry, Service!Absent
<1> QED
  BY <1>1 DEF Init, Service!Init, Service!NoOp, NoOp, Service!Answer, Answer

LEMMA StepImplements ==
    Inv /\ Inv' /\ [Next]_vars => [Service!Next]_Service!vars
<1> SUFFICES ASSUME Inv, Inv', [Next]_vars PROVE [Service!Next]_Service!vars
  OBVIOUS
<1>1. ASSUME NEW c \in Clients, ClientNext(c) PROVE [Service!Next]_Service!vars
  BY <1>1, CallImplements, GetImplements, CheckLiveImplements, CheckExpiredImplements,
     StampImplements, InsertImplements, ClearImplements, FailImplements DEF ClientNext
<1>2. CASE UNCHANGED vars
  BY <1>2 DEF vars, locals, Service!vars, View, IsExpired, Key
<1> QED
  BY <1>1, <1>2, TickImplements DEF Next

\* While the tasks keep to different run_ids, every behaviour of SledMemory is one of the
\* Memory trait: its tree calls, with the clock and the other tasks between them, amount
\* to operations that take effect at once (sled_store.rs:80-128).
THEOREM SledImplementsService == ASSUME Exclusive PROVE Spec => ImplementsService
  BY InvHolds, InitImplements, StepImplements, PTL DEF Spec, ImplementsService, Service!Spec

=============================================================================
