----------------------------- MODULE SledMemory -----------------------------
(***************************************************************************)
(* roos-memory/src/sled_store.rs: the Memory trait over a Sled tree with   *)
(* an optional time to live.  One call to the tree is atomic, an operation *)
(* of SledMemory is several of them: load gets, looks at the clock and may *)
(* remove; append is such a load, then the clock again for the new         *)
(* deadline, then an insert.  Tasks and the clock move between any two of  *)
(* them.  The deadline is a sum of u64: one that does not fit wraps, or    *)
(* panics in a build that checks for overflow.                             *)
(***************************************************************************)
EXTENDS Naturals, Sequences

CONSTANTS
    Clients, Keys, Texts,
    Kinds,      \* the operations the clients use
    TTL,        \* ttl_secs, or NoTTL
    NoTTL,
    U64,        \* how many values a u64 has: 2 ^ 64
    Checked,    \* built with overflow checks
    Writes,     \* Writes[c]: the messages client c writes
    MaxNow,     \* bound on the clock
    MaxOps,     \* bound on the operations of one client
    Exclusive   \* the clients never use one run_id at the same time

ASSUME WritesAssumption == Writes \in [Clients -> SUBSET Texts]
ASSUME TTLAssumption == TTL \in Nat \/ TTL = NoTTL
ASSUME BoundsAssumption == MaxNow \in Nat /\ MaxOps \in Nat
ASSUME WidthAssumption ==
    U64 \in Nat /\ MaxNow < U64 /\ (TTL # NoTTL => TTL < U64) /\ Checked \in BOOLEAN

VARIABLES
    db,         \* db[k]: the entry of k, or NoEntry
    now,        \* now_secs()
    pc,         \* pc[c]: the tree call that c does next
    op,         \* op[c]: the operation c executes
    found,      \* found[c]: the entry that c got
    base,       \* base[c]: the history that the append of c extends
    entry,      \* entry[c]: the entry that c inserts
    answer,     \* answer[c]: result of the last operation of c
    used,       \* used[c]: how many operations c has begun
    since       \* since[c]: when c began its operation

locals == <<op, found, base, entry, since>>
vars == <<db, now, pc, locals, answer, used>>

\* StoredEntry: a history, and when it expires if it is mortal.
NoEntry == [kept |-> FALSE, mortal |-> FALSE, exp |-> 0, msgs |-> <<>>]
Entry(h, t) == [kept |-> TRUE, mortal |-> TTL # NoTTL, exp |-> t, msgs |-> h]

PCs == {"idle", "getting", "checking", "stamping", "inserting", "clearing"}

NoOp == [kind |-> "none"]

OpsOver(texts) ==
    {o \in [kind : {"load", "clear"}, key : Keys]
           \cup [kind : {"store", "append"}, key : Keys, msg : texts] :
        o.kind \in Kinds}

Ops == OpsOver(Texts)

Answer(kind, h) == [kind |-> kind, msgs |-> h]

Deadlines == IF TTL = NoTTL THEN {0} ELSE 0 .. MaxNow + TTL
Entries == [kept : BOOLEAN, mortal : BOOLEAN, exp : Deadlines, msgs : Seq(Texts)]

TypeOK ==
    /\ db \in [Keys -> Entries]
    /\ now \in 0 .. MaxNow
    /\ pc \in [Clients -> PCs]
    /\ op \in [Clients -> Ops \cup {NoOp}]
    /\ found \in [Clients -> Entries]
    /\ base \in [Clients -> Seq(Texts)]
    /\ entry \in [Clients -> Entries]
    /\ since \in [Clients -> 0 .. now]
    /\ used \in [Clients -> 0 .. MaxOps]
    /\ \A c \in Clients : entry[c].mortal => entry[c].exp <= now + TTL
    /\ \A k \in Keys : db[k].mortal => db[k].exp <= now + TTL

Init ==
    /\ db = [k \in Keys |-> NoEntry]
    /\ now = 0
    /\ pc = [c \in Clients |-> "idle"]
    /\ op = [c \in Clients |-> NoOp]
    /\ found = [c \in Clients |-> NoEntry]
    /\ base = [c \in Clients |-> <<>>]
    /\ entry = [c \in Clients |-> NoEntry]
    /\ since = [c \in Clients |-> 0]
    /\ answer = [c \in Clients |-> Answer("none", <<>>)]
    /\ used = [c \in Clients |-> 0]

-----------------------------------------------------------------------------

Key(c) == op[c].key

\* make_entry: the deadline is now_secs() + ttl_secs, which may be more than a u64 holds.
Overflows == TTL # NoTTL /\ now + TTL >= U64
Wrapped(n) == IF n < U64 THEN n ELSE n - U64

MakeEntryLate(h) == Entry(h, IF TTL = NoTTL THEN 0 ELSE Wrapped(now + TTL + 1))
MakeEntry(h) == Entry(h, IF TTL = NoTTL THEN 0 ELSE Wrapped(now + TTL))

IsExpiredOnTime(e) == e.mortal /\ now >= e.exp
IsExpired(e) == e.mortal /\ now > e.exp

Goto(c, where) == pc' = [pc EXCEPT ![c] = where]

Return(c, kind, h) ==
    /\ Goto(c, "idle")
    /\ op' = [op EXCEPT ![c] = NoOp]
    /\ found' = [found EXCEPT ![c] = NoEntry]
    /\ base' = [base EXCEPT ![c] = <<>>]
    /\ entry' = [entry EXCEPT ![c] = NoEntry]
    /\ since' = [since EXCEPT ![c] = 0]
    /\ answer' = [answer EXCEPT ![c] = Answer(kind, h)]

FirstStep(kind) ==
    CASE kind = "store" -> "stamping"
      [] kind = "clear" -> "clearing"
      [] OTHER -> "getting"

Call(c, o) ==
    /\ pc[c] = "idle"
    /\ used[c] < MaxOps
    /\ Exclusive => \A d \in Clients : pc[d] # "idle" => Key(d) # o.key
    /\ used' = [used EXCEPT ![c] = @ + 1]
    /\ op' = [op EXCEPT ![c] = o]
    /\ since' = [since EXCEPT ![c] = now]
    /\ Goto(c, FirstStep(o.kind))
    /\ UNCHANGED <<db, now, found, base, entry, answer>>

\* load is over for c without an error: the operation was load, or append goes on.
Loaded(c, kind, h) ==
    IF op[c].kind = "append"
    THEN /\ base' = [base EXCEPT ![c] = h]
         /\ Goto(c, "stamping")
         /\ UNCHANGED <<op, found, entry, since, answer>>
    ELSE Return(c, kind, h)

\* db.get
Get(c) ==
    /\ pc[c] = "getting"
    /\ IF db[Key(c)] = NoEntry
       THEN Loaded(c, "None", <<>>)
       ELSE /\ found' = [found EXCEPT ![c] = db[Key(c)]]
            /\ Goto(c, "checking")
            /\ UNCHANGED <<op, base, entry, since, answer>>
    /\ UNCHANGED <<db, now, used>>

\* The entry is still good.
CheckLive(c) ==
    /\ pc[c] = "checking"
    /\ ~ IsExpired(found[c])
    /\ Loaded(c, "Some", found[c].msgs)
    /\ UNCHANGED <<db, now, used>>

\* It is not: remove whatever is there now (a failure of that is ignored).  load
\* returns Expired, append starts a new history.
Evicted(k) == {[db EXCEPT ![k] = NoEntry], db}

AfterExpiryOldHistory(c) == found[c].msgs
AfterExpiry(c) == <<>>

CheckExpired(c) ==
    /\ pc[c] = "checking"
    /\ IsExpired(found[c])
    /\ db' \in Evicted(Key(c))
    /\ Loaded(c, "Expired", AfterExpiry(c))
    /\ UNCHANGED <<now, used>>

\* The history that store, or append at its end, writes.
Written(c) == IF op[c].kind = "append" THEN Append(base[c], op[c].msg) ELSE <<op[c].msg>>

\* make_entry looks at the clock once more.
StampedOnce(c) ==
    IF found[c].mortal THEN Entry(Written(c), found[c].exp) ELSE MakeEntry(Written(c))

Stamped(c) == MakeEntry(Written(c))

Stamp(c) ==
    /\ pc[c] = "stamping"
    /\ ~ (Checked /\ Overflows)
    /\ entry' = [entry EXCEPT ![c] = Stamped(c)]
    /\ Goto(c, "inserting")
    /\ UNCHANGED <<db, now, op, found, base, since, answer, used>>

\* The task dies with nothing written; c stands for the next one from here on.
StampPanics(c) ==
    /\ pc[c] = "stamping"
    /\ Checked /\ Overflows
    /\ Return(c, "Panicked", <<>>)
    /\ UNCHANGED <<db, now, used>>

\* db.insert
Insert(c) ==
    /\ pc[c] = "inserting"
    /\ db' = [db EXCEPT ![Key(c)] = entry[c]]
    /\ Return(c, "Ok", <<>>)
    /\ UNCHANGED <<now, used>>

Clear(c) ==
    /\ pc[c] = "clearing"
    /\ db' = [db EXCEPT ![Key(c)] = NoEntry]
    /\ Return(c, "Ok", <<>>)
    /\ UNCHANGED <<now, used>>

\* A tree call, or decoding the bytes it gave, fails.
Fail(c) ==
    /\ pc[c] # "idle"
    /\ Return(c, "BackendError", <<>>)
    /\ UNCHANGED <<db, now, used>>

Tick ==
    /\ now < MaxNow
    /\ now' = now + 1
    /\ UNCHANGED <<db, pc, locals, answer, used>>

ClientNext(c) ==
    \/ \E o \in OpsOver(Writes[c]) : Call(c, o)
    \/ Get(c)
    \/ CheckLive(c)
    \/ CheckExpired(c)
    \/ Stamp(c)
    \/ StampPanics(c)
    \/ Insert(c)
    \/ Clear(c)
    \/ Fail(c)

Next == Tick \/ \E c \in Clients : ClientNext(c)

Spec == Init /\ [][Next]_vars

-----------------------------------------------------------------------------
(* Properties *)

\* What the trait's callers can tell of the tree.  An append that is past its load
\* works on the history it loaded, whatever the clock says since.
View(k) ==
    LET appending == {c \in Clients : /\ pc[c] \in {"stamping", "inserting"}
                                      /\ op[c].kind = "append" /\ Key(c) = k}
        e == db[k]
    IN  IF appending # {}
        THEN LET h == base[CHOOSE c \in appending : TRUE]
             IN  [status |-> IF h # <<>> THEN "live"
                             ELSE IF e.kept THEN "expired" ELSE "absent",
                  msgs |-> IF h # <<>> THEN h ELSE e.msgs]
        ELSE [status |-> IF ~ e.kept THEN "absent"
                         ELSE IF IsExpired(e) THEN "expired" ELSE "live",
              msgs |-> e.msgs]

Service ==
    INSTANCE MemoryService WITH
        MayExpire <- TRUE,
        kept <- [k \in Keys |-> View(k)],
        busy <- op

\* While the tasks keep to different run_ids, SledMemory's several tree calls are as
\* good as one: its operations are those of the Memory trait, expiry included
\* (sled_store.rs:80-128).
ImplementsService == Service!Spec

\* A history lives for ttl_secs from its last write (sled_store.rs:51-66): what a write
\* leaves behind expires no sooner than TTL after the write was begun, however long the
\* old entry had to live, and no later than TTL after it took effect.  In a build that
\* does not check for overflow this takes a TTL that leaves room for the clock.
WriteRenewsDeadline ==
    [][\A c \in Clients :
          pc[c] = "inserting" /\ db' # db /\ db'[Key(c)] = entry[c] /\ entry[c].mortal =>
              db'[Key(c)].exp \in since[c] + TTL .. now + TTL]_vars

\* Lazy eviction takes nothing away that is still good (sled_store.rs:101-106): only clear
\* removes a history before its deadline.  The entry that load found expired and the one
\* it removes are read by two tree calls; with tasks on different run_ids they are one.
OnlyExpiredEvicted ==
    [][\A k \in Keys :
          /\ db[k].kept /\ ~ db'[k].kept
          /\ db[k].mortal => now <= db[k].exp
          => \E c \in Clients : pc[c] = "clearing" /\ Key(c) = k]_vars

\* ROOS-MEM-002 (roos_srs.md:666): "Must handle concurrent access from multiple agent
\* tasks (Sled is thread-safe)".  For clients that append one message each, with no
\* expiry: the message of an append that returned Ok is in a history.
NoAppendLost ==
    \A c \in Clients :
        answer[c].kind = "Ok" =>
            \E k \in Keys : \E i \in 1 .. Len(db[k].msgs) : db[k].msgs[i] \in Writes[c]

=============================================================================
