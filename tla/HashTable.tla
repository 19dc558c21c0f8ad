----------------------------- MODULE HashTable -----------------------------
(***************************************************************************)
(* The table of numbers of example_hashtable.cpp: a number whose place is  *)
(* taken goes to the next one that is free.                                *)
(*                                                                         *)
(* A definition that directly precedes another with its parameters and is  *)
(* used nowhere is the other one with a mistake in it.                     *)
(***************************************************************************)
EXTENDS Integers

CONSTANTS
    HASHSIZE,
    Data               \* numbers, none of them negative

ASSUME NumbersAssumption == HASHSIZE \in Nat \ {0} /\ Data \subseteq Nat

NULLKEY == -32768

VARIABLES
    elem,
    inserted           \* history: the numbers inserted

NumbersInit == elem = [i \in 0 .. HASHSIZE - 1 |-> NULLKEY] /\ inserted = {}

Hash(data) == data % HASHSIZE

\* The place n steps behind data's own
Probe(data, n) == (Hash(data) + n) % HASHSIZE

\* The first free place; the loop does not end in a table that has none.  A
\* number that is there already is inserted again.
NumbersInsert(data) ==
    \E n \in 0 .. HASHSIZE - 1 :
        /\ elem[Probe(data, n)] = NULLKEY
        /\ \A l \in 0 .. n - 1 : elem[Probe(data, l)] # NULLKEY
        /\ elem' = [elem EXCEPT ![Probe(data, n)] = data]
        /\ inserted' = inserted \cup {data}

\* Where the loop ends, n steps behind data's own place: at data, before a free
\* place, or where the next one is the first again.  It moves on before it tests.
EndsEarly(data, n) ==
    \/ elem[Probe(data, n)] = data
    \/ elem[Probe(data, n + 1)] = NULLKEY \/ Probe(data, n + 2) = Hash(data)
Ends(data, n) ==
    \/ elem[Probe(data, n)] = data
    \/ elem[Probe(data, n + 1)] = NULLKEY \/ Probe(data, n + 1) = Hash(data)

Steps(data) ==
    CHOOSE n \in 0 .. HASHSIZE - 1 : Ends(data, n) /\ \A l \in 0 .. n - 1 : ~Ends(data, l)

NumbersSearch(data) ==
    IF elem[Probe(data, Steps(data))] = data THEN Probe(data, Steps(data)) ELSE -1

NumbersNext == \E data \in Data : NumbersInsert(data)

numbersVars == <<elem, inserted>>
NumbersSpec == NumbersInit /\ [][NumbersNext]_numbersVars

-----------------------------------------------------------------------------
\* The places hold numbers.
NumbersTypeOK == elem \in [0 .. HASHSIZE - 1 -> Data \cup {NULLKEY}]

\* Search finds a number if and only if it was inserted, also in a full table,
\* through places that others have taken.
NumbersFound ==
    \A data \in Data :
        IF data \in inserted THEN NumbersSearch(data) >= 0 /\ elem[NumbersSearch(data)] = data
        ELSE NumbersSearch(data) = -1
=============================================================================
