------------------------------ MODULE ShmHash ------------------------------
(***************************************************************************)
(* The hash table of example_shm_hashtable2.cpp (CHashShm): rows of nodes  *)
(* in a shared-memory segment, each row as long as a prime.  A key has one *)
(* place in each row and is in one of them.  Processes attach the segment  *)
(* one after the other and call its operations in turn: the code has no    *)
(* lock, and an operation is one action.                                   *)
(*                                                                         *)
(* A definition that directly precedes another with its parameters and is  *)
(* used nowhere is the other one with a mistake in it, which the           *)
(* properties must notice.                                                 *)
(***************************************************************************)
EXTENDS Integers, Sequences, FiniteSets

CONSTANTS
    PRIMER_TABLE,      \* the lengths of the rows; as many as `lines'
    FACTOR,
    Keys,              \* hashes; 0 is no key
    Values,
    Word               \* the range of an unsigned long

lines == Len(PRIMER_TABLE)
Rows  == 1 .. lines
Key0  == 0

\* There are rows, each of which has a length; Key0 is no key.
ASSUME HashAssumption ==
    /\ PRIMER_TABLE \in Seq(Nat \ {0}) /\ PRIMER_TABLE # << >>
    /\ FACTOR \in Nat /\ Word \in Nat \ {0}
    /\ Keys \subseteq Nat \ {Key0}

\* Where a row begins: the sum of the rows before it
PRIMER_TABLE_TOTAL[i \in Rows] ==
    IF i = 1 THEN 0 ELSE PRIMER_TABLE_TOTAL[i - 1] + PRIMER_TABLE[i - 1]
maxSize == PRIMER_TABLE_TOTAL[lines] + PRIMER_TABLE[lines]
Nodes   == 0 .. maxSize - 1

\* memSize, which is more, is an unsigned long.
ASSUME SizeAssumption == maxSize < Word

VARIABLES
    key, value,        \* the nodes
    currentSize,       \* in the segment's head
    ret,               \* what the last call returned: a code, OK and ERROR for
                       \* Init's true and false, and Get's value
    uncounted          \* history: nodes in use that currentSize leaves out

table    == <<key, value>>
hashVars  == <<table, currentSize, ret, uncounted>>

\* A new segment is all zero.
ZeroKeys   == [n \in Nodes |-> Key0]
ZeroValues == [n \in Nodes |-> 0]

Ret(code) == <<code, 0>>

HashInit ==
    /\ key = ZeroKeys /\ value = ZeroValues /\ currentSize = 0
    /\ ret = Ret("OK") /\ uncounted = 0

-----------------------------------------------------------------------------

\* getPos: it is inside the table for every row and key.
Pos(i, k) == PRIMER_TABLE_TOTAL[i] + ((k + lines * FACTOR) % PRIMER_TABLE[i])

FirstRow(k, x) ==
    LET With(i) == key[Pos(i, k)] = x
    IN  IF \E i \in Rows : With(i)
        THEN CHOOSE i \in Rows : With(i) /\ \A j \in 1 .. i - 1 : ~With(j)
        ELSE 0

\* find: all rows are looked at, as a key may be behind a place that was freed.
RowUpToHole(k) ==
    LET i == FirstRow(k, k)
    IN  IF \E j \in 1 .. i - 1 : key[Pos(j, k)] = Key0 THEN 0 ELSE i
RowOf(k)   == FirstRow(k, k)
FreeRow(k) == FirstRow(k, Key0)

Found(k)     == RowOf(k) # 0
lastFound(k) == Pos(RowOf(k), k)

\* The insertion that Set and Replace have in common
Insert(k, v) ==
    IF FreeRow(k) # 0
    THEN /\ key' = [key EXCEPT ![Pos(FreeRow(k), k)] = k]
         /\ value' = [value EXCEPT ![Pos(FreeRow(k), k)] = v]
         /\ currentSize' = (currentSize + 1) % Word
         /\ ret' = Ret("OK")
    ELSE ret' = Ret("ERROR") /\ UNCHANGED <<table, currentSize>>

Set(k, v) ==
    /\ IF Found(k) THEN ret' = Ret("KEYEXIST") /\ UNCHANGED <<table, currentSize>>
                   ELSE Insert(k, v)
    /\ UNCHANGED uncounted

Get(k) ==
    /\ ret' = IF Found(k) THEN <<"OK", value[lastFound(k)]>> ELSE Ret("NOTFOUND")
    /\ UNCHANGED <<table, currentSize, uncounted>>

Replace(k, v) ==
    /\ IF Found(k)
       THEN /\ value' = [value EXCEPT ![lastFound(k)] = v] /\ ret' = Ret("OK")
            /\ UNCHANGED <<key, currentSize>>
       ELSE Insert(k, v)
    /\ UNCHANGED uncounted

\* The value stays in the node.
SizeKept == currentSize
SizeLess == (currentSize - 1) % Word

Remove(k) ==
    /\ IF Found(k)
       THEN /\ key' = [key EXCEPT ![lastFound(k)] = Key0] /\ ret' = Ret("OK")
            /\ currentSize' = SizeLess
       ELSE ret' = Ret("NOTFOUND") /\ UNCHANGED <<key, currentSize>>
    /\ UNCHANGED <<value, uncounted>>

\* Foreach, with a callback that assigns v to the value it is given
LastButOne == PRIMER_TABLE_TOTAL[lines]
EndNode == PRIMER_TABLE[lines] + PRIMER_TABLE_TOTAL[lines]

Foreach(v) ==
    /\ value' = [n \in Nodes |-> IF n < EndNode /\ key[n] # Key0 THEN v ELSE value[n]]
    /\ UNCHANGED <<key, currentSize, ret, uncounted>>

Clear ==
    /\ key' = ZeroKeys /\ value' = ZeroValues /\ currentSize' = 0 /\ uncounted' = 0
    /\ UNCHANGED <<ret>>

\* Init of another process, or of the same one started again: the segment is
\* there, and its contents are kept, but for the head.  Where the segment cannot
\* be had or mapped, Init has done nothing to it.
InUse == {n \in Nodes : key[n] # Key0}

Attach ==
    /\ \/ currentSize' = 0 /\ uncounted' = Cardinality(InUse) /\ ret' = Ret("OK")
       \/ ret' = Ret("ERROR") /\ UNCHANGED <<currentSize, uncounted>>
    /\ UNCHANGED table

HashNext ==
    \/ \E k \in Keys : \/ Get(k) \/ Remove(k)
                       \/ \E v \in Values : Set(k, v) \/ Replace(k, v)
    \/ \E v \in Values : Foreach(v)
    \/ Clear \/ Attach

HashSpec == HashInit /\ [][HashNext]_hashVars

-----------------------------------------------------------------------------
(* Properties *)

HashTypeOK ==
    /\ key \in [Nodes -> Keys \cup {Key0}] /\ value \in [Nodes -> Values \cup {0}]
    /\ currentSize \in 0 .. Word - 1
    /\ uncounted \in 0 .. maxSize
    /\ ret \in {"OK", "ERROR", "KEYEXIST", "NOTFOUND"} \X (Values \cup {0})

\* A key is in one node at most, and one where find looks for it, whatever has
\* been removed in rows before it.
OneNodeEach ==
    \A m, n \in InUse :
        /\ key[m] = key[n] => m = n
        /\ \E i \in Rows : n = Pos(i, key[n])

\* "current size of the table": as many nodes as are in use.  That is promised of
\* tables that no process has attached when something was in them: Init sets the
\* size of those to zero.
SizeCounts == uncounted = 0 => currentSize = Cardinality(InUse)

\* A key has one node, and the size is right until a process attaches a table with
\* something in it, also where Set finds no place, or a key that is there.
HashConsistent == OneNodeEach /\ SizeCounts

\* For its callers, the table is a map: what Set stored Get returns until Remove
\* takes it out, whoever attaches meanwhile or fails to, and Foreach reaches all of it.
NodeOf(k) == CHOOSE n \in Nodes : key[n] = k
Map == INSTANCE KeyMap WITH map <- [k \in {key[n] : n \in InUse} |-> value[NodeOf(k)]]

ImplementsMap == Map!Spec
=============================================================================
