---------------------------- MODULE MCToolCalls ----------------------------
(* ToolCalls for TLC: handlers, callers and requests are interchangeable.    *)
EXTENDS ToolCalls, TLC

(* Two ways to slot 1, one by an update of a side alone, a way out of it, and *)
(* the calls without a time.                                                  *)
Call(op, id, of, from, till) ==
    [op |-> op, id |-> id, of |-> of, from |-> from, till |-> till]
Reading == Call("read", 0, 0, 0, 0)
SomeKeys ==
    {Call("create", 0, 0, 1, 1), Call("update", 0, 1, 3, 3), Call("update", 1, 0, 1, 0),
     Call("delete", 1, 0, 0, 0)}
    \union {Call(o, 0, 0, 0, 0) : o \in {"post", "read", "comment", "submit", "fetch"}}

(* Either the calls race and fail while the connection is a lasting one, or  *)
(* no call fails and the connection changes under two that read.             *)
Calling ==
    /\ granted = MaxGrants
    /\ LET placed == {<<e.id, e.from, e.till>> : e \in events} IN
          \/ losses = 0 /\ placed = {<<1, 1, 1>>}
          \/ losses = MaxLosses - 1 /\ placed \in {{<<1, 2, 2>>}, {<<1, 1, 1>>, <<2, 2, 2>>}}
    /\ \A r \in rows : r.bundle.age = "endless" /\ ~r.bundle.renew
Connecting ==
    /\ losses = MaxLosses
    /\ granted < MaxGrants /\ \A r \in rows : r.bundle.age = "skewed"
    /\ events = {}
MCInit == Init /\ (Calling \/ Connecting)
MCSpec == MCInit /\ [][Next]_vars

\* The calls that are not the calendar's have nothing to do with any other call.
Apart(k) == k.op \notin {"create", "update", "delete"}
ByThemselves ==
    LET others == {c \in Callers : Busy(c) /\ Apart(caller[c].key)}
    IN  others # {} =>
            /\ Cardinality(events) < 2
            /\ \A c, d \in Callers : c \in others /\ Busy(d) => caller[d].key = caller[c].key
            /\ \A k \in Keys : landed[k] > 0 => Apart(k)
            /\ \A e \in events : e.id = 1 /\ e.from = 1 /\ e.by = NoKey
(* While the connection changes: a token past its time takes the path of one  *)
(* within the skew, and what follows the answer of a read is in the other half. *)
Reads ==
    /\ \A c \in Callers : caller[c].key \in {NoKey, Reading}
    /\ \A r \in rows : r.bundle.age # "expired"
    /\ \A h \in Handlers : at[h] # "answered"
OneAtATime ==
    /\ ByThemselves
    /\ IF losses = MaxLosses /\ excused \subseteq {Reading} THEN Reads
       ELSE \A p \in Requests : at[p] = "idle"

Interchangeable ==
    Permutations(Handlers) \union Permutations(Callers) \union Permutations(Requests)
=============================================================================
