-------------------------------- MODULE Trie --------------------------------
(***************************************************************************)
(* The word counter of example_trie.cpp.  A node of the trie is named by   *)
(* the letters that lead to it; those that are allocated are the domain of *)
(* next.                                                                   *)
(***************************************************************************)
EXTENDS Integers, Sequences, FiniteSets
LOCAL INSTANCE SequencesExt

CONSTANTS
    Words,             \* of at least one letter: the caller drops empty ones
    MaxWords           \* bound: words of the text

VARIABLES
    next,              \* count and pass of each node
    text               \* history: the words read

NewNode == [count |-> 0, pass |-> 0]

Init == next = [n \in {<< >>} |-> NewNode] /\ text = << >>

\* pass counts at each node on the way, count at the end of it.
NodeRead(n, word) ==
    LET old == IF n \in DOMAIN next THEN next[n] ELSE NewNode
    IN  IF n = word THEN [old EXCEPT !.count = @ + 1]
        ELSE IF n \in Prefixes(word) THEN [old EXCEPT !.pass = @ + 1]
        ELSE old

insert(word) ==
    /\ Len(text) < MaxWords
    /\ next' = [n \in DOMAIN next \cup Prefixes(word) |-> NodeRead(n, word)]
    /\ text' = Append(text, word)

Next == \E word \in Words : insert(word)

\* What do_travel prints: the words that end at a node, with their numbers
do_travel == {<<n, next[n].count + next[n].pass>> : n \in {d \in DOMAIN next : next[d].count > 0}}

-----------------------------------------------------------------------------
\* A node exists with all those on the way to it.
TypeOK ==
    /\ next \in [DOMAIN next -> [count : Nat, pass : Nat]]
    /\ \A n \in DOMAIN next : Prefixes(n) \subseteq DOMAIN next

\* Each word of the text is printed once, with the number of words of the text
\* that begin with it.  Those that hold it elsewhere do not count, which the comment
\* at pass (:15) says they do: "'this is' then the 'is' is hited two times".
CountsWords ==
    do_travel = {<<w, Cardinality({i \in DOMAIN text : IsPrefix(w, text[i])})>> : w \in Range(text)}
=============================================================================
