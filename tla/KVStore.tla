------------------------------ MODULE KVStore ------------------------------
(***************************************************************************)
(* What a shard of the store promises its callers (spec.md 4.2.1-4.2.3):   *)
(* a map from keys to values.  insert(k, v) makes v the value of k,        *)
(* erase(k) removes k and answers whether it was present, get(k) answers   *)
(* the current value of k or nothing.  Each operation takes effect         *)
(* atomically, and reply records the return of the last call: the value    *)
(* get answers, the flag erase answers, and the return of insert(k, v)     *)
(* with its arguments, so that the value an insert makes visible is the    *)
(* one it was called with.  Crashes, recovery and compaction are invisible *)
(* here: they must leave the map and the last return as they were.         *)
(***************************************************************************)
CONSTANTS Keys, Values, NoValue

VARIABLES store, reply

vars == <<store, reply>>

Reply == {<<>>}
         \cup {<<"get", k, r>> : k \in Keys, r \in Values \cup {NoValue}}
         \cup {<<"erase", k, b>> : k \in Keys, b \in BOOLEAN}
         \cup {<<"insert", k, v>> : k \in Keys, v \in Values}

TypeOK == /\ store \in [Keys -> Values \cup {NoValue}]
          /\ reply \in Reply

Init == /\ store = [k \in Keys |-> NoValue]
        /\ reply = <<>>

Insert(k, v) == /\ store' = [store EXCEPT ![k] = v]
                /\ reply' = <<"insert", k, v>>

Get(k) == /\ reply' = <<"get", k, store[k]>>
          /\ UNCHANGED store

Erase(k) == /\ reply' = <<"erase", k, store[k] # NoValue>>
            /\ store' = [store EXCEPT ![k] = NoValue]

Next == \E k \in Keys : \/ Get(k)
                        \/ Erase(k)
                        \/ \E v \in Values : Insert(k, v)

Spec == Init /\ [][Next]_vars
=============================================================================
