------------------------------ MODULE AvlTree ------------------------------
(***************************************************************************)
(* The search tree of example_binary_tree_avl.cpp.  A tree is NULL or      *)
(* <<value, height, left, right>>.                                         *)
(*                                                                         *)
(* A tree that is too high on its right is rotated as if it were on its    *)
(* left, so the tree is not balanced; and where the left subtree is NULL   *)
(* the program ends there.                                                 *)
(***************************************************************************)
EXTENDS Integers, FiniteSets

CONSTANT Values

VARIABLES
    tree,
    inserted           \* history: the values inserted

NULL  == << >>
Crash == <<-1>>        \* NULL was dereferenced

value(t) == t[1]
left(t)  == t[3]
right(t) == t[4]
treeDeep(t) == IF t = NULL THEN -1 ELSE t[2]
Higher(l, r) == (IF treeDeep(l) > treeDeep(r) THEN treeDeep(l) ELSE treeDeep(r)) + 1
Node(v, l, r) == <<v, Higher(l, r), l, r>>

Init == tree = NULL /\ inserted = {}

\* The new root gets the height of the node that was above it, from which a
\* caller's insNode corrects it.
singleRotateWithLeft(t) ==
    LET tmp == left(t)
        down == Node(value(t), right(tmp), right(t))
    IN  IF tmp = NULL THEN Crash ELSE <<value(tmp), treeDeep(down), left(tmp), down>>

singleRotateWithRight(t) ==
    LET tmp == right(t)
        down == Node(value(t), left(t), left(tmp))
    IN  IF t = NULL \/ tmp = NULL THEN Crash
        ELSE <<value(tmp), treeDeep(down), down, right(tmp)>>

doubleRotateWithLeft(t) ==
    LET l == IF left(t) = NULL THEN Crash ELSE singleRotateWithRight(left(t))
    IN  IF l = Crash THEN Crash
        ELSE singleRotateWithLeft(<<value(t), treeDeep(t), l, right(t)>>)

\* The node t with its new subtrees l and r, one of which has got v
Rotated(v, t, l, r) ==
    LET new == <<value(t), treeDeep(t), l, r>>
        Straight == IF v < value(t) THEN v < value(l) ELSE v > value(r)
        Deeper   == IF v < value(t) THEN treeDeep(l) - treeDeep(r) ELSE treeDeep(r) - treeDeep(l)
    IN  IF Deeper # 2 THEN new
        ELSE IF Straight THEN singleRotateWithLeft(new)
        ELSE doubleRotateWithLeft(new)

HeightSet(t) == IF t = Crash THEN Crash ELSE Node(value(t), left(t), right(t))

RECURSIVE insNode(_, _)
insNode(v, t) ==
    IF t = NULL THEN <<v, 0, NULL, NULL>>
    ELSE LET l == IF v < value(t) THEN insNode(v, left(t)) ELSE left(t)
             r == IF v > value(t) THEN insNode(v, right(t)) ELSE right(t)
         IN  IF Crash \in {l, r} THEN Crash
             ELSE HeightSet(IF v = value(t) THEN t ELSE Rotated(v, t, l, r))

Insert(v) ==
    /\ tree # Crash
    /\ tree' = insNode(v, tree)
    /\ inserted' = inserted \cup {v}

Next == \E v \in Values : Insert(v)

RECURSIVE findMin(_)
findMin(t) == IF left(t) = NULL THEN value(t) ELSE findMin(left(t))

-----------------------------------------------------------------------------
RECURSIVE Content(_)
Content(t) == IF t = NULL THEN {} ELSE {value(t)} \cup Content(left(t)) \cup Content(right(t))

\* The tree holds none but values, each at most once; or the program has ended.
TypeOK ==
    /\ inserted \subseteq Values
    /\ tree # Crash => Content(tree) \subseteq Values

RECURSIVE InOrder(_)
InOrder(t) ==
    t # NULL =>
        /\ \A v \in Content(left(t)) : v < value(t)
        /\ \A v \in Content(right(t)) : v > value(t)
        /\ treeDeep(t) = Higher(left(t), right(t))
        /\ InOrder(left(t)) /\ InOrder(right(t))

\* Until the program ends on a NULL pointer: whatever is rotated, and however
\* wrongly, the tree stays in order, knows its heights and loses no value, and
\* findMin finds the least.  That it is balanced is not so, and not asked.
TreeKept ==
    tree # Crash =>
        /\ Content(tree) = inserted /\ InOrder(tree)
        /\ tree # NULL => \A v \in inserted : findMin(tree) <= v
=============================================================================
