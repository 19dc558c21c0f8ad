-------------------------------- MODULE Heap --------------------------------
(***************************************************************************)
(* The priority queue of example_heap.cpp.                                 *)
(*                                                                         *)
(* A definition that directly precedes another with its parameters and is  *)
(* used nowhere is the other one with a mistake in it.                     *)
(***************************************************************************)
EXTENDS Integers, FiniteSets

CONSTANTS
    Elements,
    capacity

VARIABLES
    elements, size,    \* the queue, with one element more than its capacity
    minElement,        \* what the last deleteMin returned
    held               \* history: how often each element is in the queue

Init ==
    /\ elements = [i \in 0 .. capacity |-> 0] /\ size = 0
    /\ minElement = 0
    /\ held = [x \in Elements |-> 0]

Parent(i) == (i - 1) \div 2

\* From the last place up, what is greater than x moves down.  (The test of the
\* parent comes before that of i > 0, and reads elements[0] of an empty queue.)
RECURSIVE Up(_, _, _)
Up(e, i, x) == IF i > 0 /\ e[Parent(i)] > x
               THEN Up([e EXCEPT ![i] = e[Parent(i)]], Parent(i), x)
               ELSE [e EXCEPT ![i] = x]

\* A full queue refuses the element.
insert(x) ==
    /\ size < capacity
    /\ elements' = Up(elements, size, x) /\ size' = size + 1
    /\ held' = [held EXCEPT ![x] = @ + 1]
    /\ UNCHANGED minElement

\* The lesser child of i, where n is the new size: the element at n, which the
\* loop may look at, is the last one still.
LesserFirst(e, n, i) == 2 * i + 1
Lesser(e, n, i) ==
    LET child == 2 * i + 1
    IN  IF child # n /\ e[child + 1] < e[child] THEN child + 1 ELSE child

RECURSIVE DownFrom(_, _, _, _)
DownFrom(e, n, i, lastElement) ==
    LET child == Lesser(e, n, i)
    IN  IF i * 2 < n /\ lastElement > e[child]
        THEN DownFrom([e EXCEPT ![i] = e[child]], n, child, lastElement)
        ELSE [e EXCEPT ![i] = lastElement]

\* An empty queue returns 0 and stays as it is.
deleteMin ==
    /\ size > 0
    /\ minElement' = elements[0]
    /\ size' = size - 1
    /\ elements' = DownFrom(elements, size - 1, 0, elements[size - 1])
    /\ held' = [held EXCEPT ![elements[0]] = @ - 1]

Next == deleteMin \/ \E x \in Elements : insert(x)

-----------------------------------------------------------------------------
\* size stays within the array, and the slots hold elements, or what malloc left.
TypeOK ==
    /\ elements \in [0 .. capacity -> Elements \cup {0}] /\ size \in 0 .. capacity
    /\ minElement \in Elements \cup {0}

\* The queue holds what was inserted and not returned, each as often, and the
\* least of it is in front: a deleteMin returns the least element, although its
\* loop looks at elements behind the last one.
FrontIsLeast ==
    /\ \A x \in Elements : Cardinality({i \in 0 .. size - 1 : elements[i] = x}) = held[x]
    /\ \A i \in 1 .. size - 1 : elements[Parent(i)] <= elements[i]
=============================================================================
