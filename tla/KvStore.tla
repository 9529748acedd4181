------------------------------ MODULE KvStore -------------------------------
(***************************************************************************)
(* What the database library promises: calls of several processes behave   *)
(* as if each took effect at one instant on a map from keys to data.       *)
(***************************************************************************)
EXTENDS Integers

CONSTANTS Proc, Key, Data, NoData

VARIABLES
    map,    \* the data of each key, or NoData
    last    \* the call of each process that took effect, until it is over

vars == <<map, last>>

\* The outcome of a call: its name, key, data and return value.
Outcome(op, k, d, rc) == [op |-> op, key |-> k, data |-> d, rc |-> rc]

NoOutcome == Outcome("none", NoData, NoData, 0)

Init ==
    /\ map \in [Key -> Data \cup {NoData}]
    /\ last = [p \in Proc |-> NoOutcome]

Returns(p, op, k, d, rc) == last' = [last EXCEPT ![p] = Outcome(op, k, d, rc)]

Fetch(p, k) ==
    /\ Returns(p, "fetch", k, map[k], IF map[k] = NoData THEN -1 ELSE 0)
    /\ UNCHANGED map

Delete(p, k) ==
    /\ map' = [map EXCEPT ![k] = NoData]
    /\ Returns(p, "delete", k, NoData, IF map[k] = NoData THEN -1 ELSE 0)

\* DB_INSERT refuses a key that is there, DB_REPLACE one that is not.
Store(p, flag, k, d) ==
    \/ /\ flag = "insert" /\ map[k] # NoData
       /\ Returns(p, flag, k, d, 1)
       /\ UNCHANGED map
    \/ /\ flag = "replace" /\ map[k] = NoData
       /\ Returns(p, flag, k, d, -1)
       /\ UNCHANGED map
    \/ /\ flag = "insert" => map[k] = NoData
       /\ flag = "replace" => map[k] # NoData
       /\ map' = [map EXCEPT ![k] = d]
       /\ Returns(p, flag, k, d, 0)

\* A sequential read returns some record as it is at that instant, or the end.
Nextrec(p) ==
    /\ \/ \E k \in Key : map[k] # NoData /\ Returns(p, "nextrec", k, map[k], 0)
       \/ Returns(p, "nextrec", NoData, NoData, -1)
    /\ UNCHANGED map

\* The caller has its result.
Over(p) ==
    /\ last' = [last EXCEPT ![p] = NoOutcome]
    /\ UNCHANGED map

\* Each outcome names the call that takes effect.
Next ==
    \E p \in Proc :
       LET call == last'[p]
       IN  \/ call.op = "fetch" /\ Fetch(p, call.key)
           \/ call.op = "delete" /\ Delete(p, call.key)
           \/ /\ call.op \in {"insert", "replace", "store"}
              /\ Store(p, call.op, call.key, call.data)
           \/ call.op = "nextrec" /\ Nextrec(p)
           \/ call.op = "none" /\ Over(p)

Spec == Init /\ [][Next]_vars
=============================================================================
