------------------------------- MODULE KeyMap -------------------------------
(***************************************************************************)
(* What the hash table of example_shm_hashtable2.cpp promises to those who *)
(* use it: a map from keys to values in which a key may have no place.     *)
(***************************************************************************)
CONSTANTS Keys, Values

VARIABLES
    map,      \* the keys that are set, and their values
    ret       \* what the last call returned: a code, and a value

vars == <<map, ret>>

NoKeys == [k \in {} |-> 0]
Init == map = NoKeys /\ ret = <<"OK", 0>>

Has(k) == k \in DOMAIN map
With(k, v) == [x \in DOMAIN map \cup {k} |-> IF x = k THEN v ELSE map[x]]
Returns(code) == ret' = <<code, 0>>

NoPlace(k) == ~Has(k) /\ Returns("ERROR") /\ UNCHANGED map

Set(k, v) ==
    \/ Has(k) /\ Returns("KEYEXIST") /\ UNCHANGED map
    \/ ~Has(k) /\ Returns("OK") /\ map' = With(k, v)
    \/ NoPlace(k)

Replace(k, v) ==
    \/ Returns("OK") /\ map' = With(k, v)
    \/ NoPlace(k)

Get(k) ==
    /\ IF Has(k) THEN ret' = <<"OK", map[k]>> ELSE Returns("NOTFOUND")
    /\ UNCHANGED map

Remove(k) ==
    /\ Returns(IF Has(k) THEN "OK" ELSE "NOTFOUND")
    /\ map' = [x \in DOMAIN map \ {k} |-> map[x]]

Foreach(v) == map' = [k \in DOMAIN map |-> v]
Clear      == map' = NoKeys

\* A process that has the map now, or has not got it
Attach == UNCHANGED map /\ (Returns("OK") \/ Returns("ERROR"))

Next ==
    \/ \E k \in Keys : \/ Get(k) \/ Remove(k)
                       \/ \E v \in Values : Set(k, v) \/ Replace(k, v)
    \/ Attach
    \/ UNCHANGED ret /\ (Clear \/ \E v \in Values : Foreach(v))

Spec == Init /\ [][Next]_vars
=============================================================================
