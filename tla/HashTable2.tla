----------------------------- MODULE HashTable2 -----------------------------
(***************************************************************************)
(* The table of example_hashtable2.cpp: each place has a list of nodes,    *)
(* the newest first.                                                       *)
(*                                                                         *)
(* A definition that directly precedes another with its parameters and is  *)
(* used nowhere is the other one with a mistake in it.                     *)
(***************************************************************************)
EXTENDS Integers, Sequences, FiniteSets

CONSTANTS
    HASH_TABLE_MAX_SIZE,
    Strings,           \* the hashes of strings
    Ints

ASSUME ListsAssumption == HASH_TABLE_MAX_SIZE \in Nat \ {0} /\ Strings \subseteq Nat

NoNode == << >>

VARIABLES
    hashTable,         \* a list of <<key, value>> in each place
    hash_table_size,
    found              \* history: keys and values that are to be found

ListsInit ==
    /\ hashTable = [p \in 0 .. HASH_TABLE_MAX_SIZE - 1 |-> << >>]
    /\ hash_table_size = 0 /\ found = [k \in {} |-> 0]

StringPos(key) == key % HASH_TABLE_MAX_SIZE
List(key) == hashTable[StringPos(key)]

\* The place in its list of the first node with this key, or 0
FirstNode(key) ==
    LET with == {i \in DOMAIN List(key) : List(key)[i][1] = key}
    IN  IF with = {} THEN 0 ELSE CHOOSE i \in with : \A j \in with : i <= j

lookup(key) == IF FirstNode(key) = 0 THEN NoNode ELSE List(key)[FirstNode(key)]

\* A key that is there, and a key too many, change nothing.  The size is how
\* many there have been: nothing makes it less.
insert(key, value) ==
    /\ hash_table_size < HASH_TABLE_MAX_SIZE /\ FirstNode(key) = 0
    /\ hashTable' = [hashTable EXCEPT ![StringPos(key)] = <<<<key, value>>>> \o @]
    /\ hash_table_size' = hash_table_size + 1
    /\ found' = [k \in DOMAIN found \cup {key} |-> IF k = key THEN value ELSE found[k]]

\* Where the first node of a list is removed, the whole list is lost.
After(list, i) == SubSeq(list, i + 1, Len(list))
WithoutTail(list, i) == SubSeq(list, 1, i - 1)
ListWithout(list, i) == IF i = 1 THEN << >> ELSE SubSeq(list, 1, i - 1) \o After(list, i)

remove(key) ==
    /\ FirstNode(key) # 0
    /\ hashTable' = [hashTable EXCEPT ![StringPos(key)] = ListWithout(@, FirstNode(key))]
    /\ LET lost == {key} \cup (IF FirstNode(key) = 1 THEN {List(key)[i][1] : i \in DOMAIN List(key)}
                                                 ELSE {})
       IN  found' = [k \in DOMAIN found \ lost |-> found[k]]
    /\ UNCHANGED hash_table_size

ListsNext == \E key \in Strings : remove(key) \/ \E value \in Ints : insert(key, value)

listsVars == <<hashTable, hash_table_size, found>>
ListsSpec == ListsInit /\ [][ListsNext]_listsVars

-----------------------------------------------------------------------------
\* The lists hold as many nodes as hash_table_size says, or fewer.
ListsTypeOK ==
    /\ \A p \in DOMAIN hashTable : hashTable[p] \in Seq(Strings \X Ints)
    /\ hash_table_size \in 0 .. HASH_TABLE_MAX_SIZE

\* lookup finds the value that insert gave a key, until the key is removed, or
\* was behind one in front of its list that was removed.
ListsFound ==
    \A key \in Strings :
        lookup(key) = IF key \in DOMAIN found THEN <<key, found[key]>> ELSE NoNode
=============================================================================
