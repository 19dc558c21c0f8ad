------------------------------ MODULE HashShm ------------------------------
(***************************************************************************)
(* The first shared-memory hash table, example_shm_hashtable1.cpp: rows of *)
(* nodes whose lengths are primes that getMode computes.  The class has no *)
(* lock, and an operation is one action.                                   *)
(*                                                                         *)
(* A definition that directly precedes another with its parameters and is  *)
(* used nowhere is the other one with a mistake in it.                     *)
(***************************************************************************)
EXTENDS Integers, Sequences, FiniteSets

CONSTANTS
    maxLine, lines,    \* the class's parameters
    Keys,              \* 0 is none
    Values,
    Lines              \* pairs <<maxLine, lines>> with which getMode is compared
                       \* with what it shall return

Key0 == 0
NONE == -1

VARIABLES
    key, value,        \* the nodes
    currentSize,       \* in the word behind them
    held               \* history: keys and values inserted and not removed

-----------------------------------------------------------------------------
(* getMode *)

\* The test divisors: numbers next to a multiple n of 6, but for those that end
\* in 5; k is the last digit of n \div 6, which is 4 or 9 where n + 1 ends in 5,
\* and 6 (or 1, which is not tested) where n - 1 does.
Divides(n, m) ==
    LET k == (n \div 6) % 10
    IN  \/ k \notin {4, 9} /\ m % (n + 1) = 0
        \/ k # 6 /\ m % (n - 1) = 0

\* p * 6 <= sqrt(m + 1) + 2
Tested(m) == {n \in {6 * p : p \in 1 .. m} : n <= 2 \/ (n - 2) * (n - 2) <= m + 1}

IsPrime1(t) == LET m == 6 * t
               IN  /\ t % 10 \notin {4, 9} /\ (m + 1) % 3 # 0
                   /\ \A n \in Tested(m) : ~Divides(n, m + 1)
IsPrime5(t) == LET m == 6 * t
               IN  /\ t % 10 # 6 /\ (m - 1) % 3 # 0
                   /\ \A n \in Tested(m) : ~Divides(n, m - 1)

\* From maxLine down: 6t + 1 before 6t - 1
RECURSIVE ModFrom(_, _)
ModFrom(t, z) ==
    LET some == (IF IsPrime1(t) THEN <<6 * t + 1>> ELSE << >>)
                  \o (IF IsPrime5(t) THEN <<6 * t - 1>> ELSE << >>)
    IN  IF z <= Len(some) THEN SubSeq(some, 1, z) ELSE some \o ModFrom(t - 1, z - Len(some))

getMode(max, n) == ModFrom(max \div 6, n)

-----------------------------------------------------------------------------
(* The table.  A process that attaches an existing one changes nothing.    *)

modTable == getMode(maxLine, lines)
Rows == 1 .. lines

\* The sum of the first i rows: getPos adds them up.
RECURSIVE Before(_)
Before(i) == IF i = 0 THEN 0 ELSE Before(i - 1) + modTable[i]
maxSize == Before(lines)
Nodes == 0 .. maxSize - 1

getPos(i, k) == Before(i - 1) + ((k + maxLine) % modTable[i])

Empty ==
    /\ key' = [n \in Nodes |-> Key0] /\ value' = [n \in Nodes |-> 0] /\ currentSize' = 0
    /\ held' = [k \in {} |-> 0]

Init ==
    /\ key = [n \in Nodes |-> Key0] /\ value = [n \in Nodes |-> 0] /\ currentSize = 0
    /\ held = [k \in {} |-> 0]

\* The node of k in the first row that has one of S there
NodeWith(k, S) ==
    LET with == {i \in Rows : key[getPos(i, k)] \in S}
    IN  IF with = {} THEN NONE
        ELSE getPos(CHOOSE i \in with : \A j \in with : i <= j, k)

findUntilFree(k) ==
    IF NodeWith(k, {k, Key0}) = NodeWith(k, {k}) THEN NodeWith(k, {k}) ELSE NONE
find(k) == NodeWith(k, {k})

\* A key that is there, or that has no free place, changes nothing.
insert(k, v) ==
    /\ find(k) = NONE /\ NodeWith(k, {Key0}) # NONE
    /\ key' = [key EXCEPT ![NodeWith(k, {Key0})] = k]
    /\ value' = [value EXCEPT ![NodeWith(k, {Key0})] = v]
    /\ currentSize' = currentSize + 1
    /\ held' = [x \in DOMAIN held \cup {k} |-> IF x = k THEN v ELSE held[x]]

\* Of the node, only the key is cleared.
remove(k) ==
    /\ find(k) # NONE
    /\ key' = [key EXCEPT ![find(k)] = Key0]
    /\ currentSize' = currentSize - 1
    /\ held' = [x \in DOMAIN held \ {k} |-> held[x]]
    /\ UNCHANGED value

clear == currentSize > 0 /\ Empty

Next == clear \/ \E k \in Keys : remove(k) \/ \E v \in Values : insert(k, v)

-----------------------------------------------------------------------------
\* The nodes hold keys and values, and the counter their number.
TypeOK ==
    /\ key \in [Nodes -> Keys \cup {Key0}] /\ value \in [Nodes -> Values \cup {0}]
    /\ currentSize = Cardinality({n \in Nodes : key[n] # Key0})

\* find finds what was inserted and not removed, with its value, whatever was
\* removed from rows before its own.
TableFinds ==
    \A k \in Keys : IF k \in DOMAIN held THEN find(k) # NONE /\ value[find(k)] = held[k]
                                         ELSE find(k) = NONE

\* getMode returns the largest primes up to the first above the last multiple of 6
IsPrime(n) == n > 1 /\ \A d \in 2 .. n - 1 : n % d # 0
ModesArePrimes ==
    \A x \in Lines :
        LET mode == getMode(x[1], x[2])
        IN  /\ \A i \in 1 .. x[2] : IsPrime(mode[i]) /\ mode[i] <= 6 * (x[1] \div 6) + 1
            /\ \A n \in mode[x[2]] .. 6 * (x[1] \div 6) + 1 :
                   IsPrime(n) => \E i \in 1 .. x[2] : mode[i] = n
=============================================================================
