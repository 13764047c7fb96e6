--------------------------- MODULE MemoryService ---------------------------
(***************************************************************************)
(* The Memory trait (roos-core/src/memory.rs) as its callers see it: every *)
(* operation takes effect at one instant between call and return.  This is *)
(* InMemoryStore (roos-memory/src/in_memory.rs), whose operations run      *)
(* under one lock, and what SledMemory is compared with.  A history may    *)
(* also expire; InMemoryStore never lets one (MayExpire = FALSE).          *)
(***************************************************************************)
EXTENDS Naturals, Sequences

CONSTANTS
    Clients,    \* tasks that use the store
    Keys,       \* run_ids
    Texts,      \* messages
    MayExpire   \* histories have a time to live

VARIABLES
    kept,       \* kept[k]: the history of k
    busy,       \* busy[c]: the operation c is waiting for
    answer      \* answer[c]: result of the last operation of c

vars == <<kept, busy, answer>>

Absent == [status |-> "absent", msgs |-> <<>>]
Live(h) == [status |-> "live", msgs |-> h]
Expired(h) == [status |-> "expired", msgs |-> h]

Kept == {Absent} \cup [status : {"live", "expired"}, msgs : Seq(Texts)]

NoOp == [kind |-> "none"]

\* store overwrites with a history of one message, append adds one.
Ops == [kind : {"load", "clear"}, key : Keys]
       \cup [kind : {"store", "append"}, key : Keys, msg : Texts]

Answer(kind, h) == [kind |-> kind, msgs |-> h]
Answers == {"none", "Ok", "None", "Some", "Expired", "BackendError", "Panicked"}

TypeOK ==
    /\ kept \in [Keys -> Kept]
    /\ busy \in [Clients -> Ops \cup {NoOp}]
    /\ answer \in [Clients -> [kind : Answers, msgs : Seq(Texts)]]

Init ==
    /\ kept = [k \in Keys |-> Absent]
    /\ busy = [c \in Clients |-> NoOp]
    /\ answer = [c \in Clients |-> Answer("none", <<>>)]

-----------------------------------------------------------------------------

Call(c, o) ==
    /\ busy[c] = NoOp
    /\ busy' = [busy EXCEPT ![c] = o]
    /\ UNCHANGED <<kept, answer>>

Reply(c, kind, h) ==
    /\ busy' = [busy EXCEPT ![c] = NoOp]
    /\ answer' = [answer EXCEPT ![c] = Answer(kind, h)]

Becomes(k, v) == kept' = [kept EXCEPT ![k] = v]

\* A history is written; the write may have lasted past its deadline.
Write(k, h) ==
    \/ Becomes(k, Live(h))
    \/ MayExpire /\ Becomes(k, Expired(h))

Store(c) ==
    /\ busy[c].kind = "store"
    /\ Write(busy[c].key, <<busy[c].msg>>)
    /\ Reply(c, "Ok", <<>>)

\* The caller of load learns of an expiry once; the history is then gone, unless the
\* backend failed to remove it.
Load(c) ==
    /\ busy[c].kind = "load"
    /\ LET v == kept[busy[c].key]
       IN  \/ v.status = "absent" /\ Reply(c, "None", <<>>) /\ UNCHANGED kept
           \/ v.status = "live" /\ Reply(c, "Some", v.msgs) /\ UNCHANGED kept
           \/ /\ v.status = "expired"
              /\ Reply(c, "Expired", <<>>)
              /\ Becomes(busy[c].key, Absent) \/ UNCHANGED kept

\* An expired history is replaced by a new one.
Appended(v, m) == IF v.status = "live" THEN Append(v.msgs, m) ELSE <<m>>

AppendMsg(c) ==
    /\ busy[c].kind = "append"
    /\ Write(busy[c].key, Appended(kept[busy[c].key], busy[c].msg))
    /\ Reply(c, "Ok", <<>>)

Clear(c) ==
    /\ busy[c].kind = "clear"
    /\ Becomes(busy[c].key, Absent)
    /\ Reply(c, "Ok", <<>>)

\* Time passes: live histories expire, expired ones are dropped.
Older(v) ==
    CASE v.status = "live" -> {v, Expired(v.msgs)}
      [] v.status = "expired" -> {v, Absent}
      [] OTHER -> {v}

\* An operation that fails, by an error or a panic, changes nothing, but may have lasted
\* past a deadline.
Fail(c) ==
    /\ busy[c] # NoOp
    /\ \E kind \in {"BackendError", "Panicked"} : Reply(c, kind, <<>>)
    /\ \/ UNCHANGED kept
       \/ MayExpire /\ \E v \in Older(kept[busy[c].key]) : Becomes(busy[c].key, v)

Expire ==
    /\ MayExpire
    /\ kept' \in {f \in [Keys -> UNION {Older(kept[k]) : k \in Keys}] :
                     \A k \in Keys : f[k] \in Older(kept[k])}
    /\ UNCHANGED <<busy, answer>>

Next ==
    \/ \E c \in Clients :
          \/ \E o \in Ops : Call(c, o)
          \/ Store(c) \/ Load(c) \/ AppendMsg(c) \/ Clear(c)
          \/ Fail(c)
    \/ Expire

Spec == Init /\ [][Next]_vars

=============================================================================
