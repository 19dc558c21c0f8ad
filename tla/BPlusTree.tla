------------------------------ MODULE BPlusTree ------------------------------
(***************************************************************************)
(* src/example_bplus_tree.cpp: a B+ tree whose leaves are chained from     *)
(* left to right.  mem holds the nodes; a child, a root or a right sibling *)
(* is the number of a node, or NULL.  Keys and children are counted from 0 *)
(* in the code, from 1 in the sequences.  A leaf's data moves with its key *)
(* wherever that goes, so an entry stands for both.  The file holds its    *)
(* classes twice; the lines are those of the first copy.                   *)
(*                                                                         *)
(* getKeyIndex answers with the last key where all are less, so that the   *)
(* last child is reached only with a key equal to the last: what insert    *)
(* leaves to the right of the last key of a node is seldom found again.    *)
(* Two steps on internal nodes destroy the tree: removeKey(0, 0), with     *)
(* which a node borrows from its right sibling, drops the sibling's last   *)
(* child and keeps the last but one twice; and mergeChild deletes the node *)
(* right of the two that it merged unless they are the last two.  Nothing  *)
(* is promised after these: no call follows.                               *)
(*                                                                         *)
(* A definition that directly precedes another with its parameters and is  *)
(* used nowhere is the other one with a mistake in it.                     *)
(***************************************************************************)
EXTENDS Integers, Sequences, FiniteSets
LOCAL INSTANCE SequencesExt

CONSTANTS
    ORDER,                     \* 7 in the code
    Keys,
    Nodes,                     \* the numbers a node can have
    MaxCount,                  \* bound: entries in the tree
    MaxDoubles                 \* bound: those of them with the key of another

VARIABLES
    mem, m_Root, m_DataHead, m_MaxKey,
    count,                     \* calls that inserted, less calls that removed
    grown                      \* a root was split since the tree was empty

vars == <<mem, m_Root, m_DataHead, m_MaxKey, count, grown>>

NULL == 0
MINNUM_KEY == ORDER - 1
MAXNUM_KEY == 2 * ORDER - 1

Node == [type : {"LEAF", "INTERNAL", "deleted"}, keys : Seq(Keys),
         childs : Seq(Nodes), right : Nodes \cup {NULL}]
NewLeaf(keys, right) ==
    [type |-> "LEAF", keys |-> keys, childs |-> <<>>, right |-> right]
NewInternal(keys, childs) ==
    [type |-> "INTERNAL", keys |-> keys, childs |-> childs, right |-> NULL]

\* A node, the root and the first leaf are among the nodes that exist.
TypeOK ==
    /\ DOMAIN mem \subseteq Nodes /\ \A n \in DOMAIN mem : mem[n] \in Node
    /\ m_Root \in (DOMAIN mem) \cup {NULL} /\ m_DataHead \in (DOMAIN mem) \cup {NULL}
    /\ m_MaxKey \in Keys \cup {NULL}
    /\ count \in 0 .. MaxCount /\ grown \in BOOLEAN

Init ==
    /\ mem = <<>> /\ m_Root = NULL /\ m_DataHead = NULL
    /\ m_MaxKey = NULL         \* not set
    /\ count = 0 /\ grown = FALSE

-----------------------------------------------------------------------------
(* A node's own operations, on its keys and children                       *)

RECURSIVE Narrow(_, _, _, _)
Narrow(keys, key, left, right) ==
    LET current == (left + right) \div 2
    IN  IF left = right THEN left
        ELSE IF key > keys[current + 1] THEN Narrow(keys, key, current + 1, right)
             ELSE Narrow(keys, key, left, current)

getKeyIndex(n, key) == Narrow(n.keys, key, 0, Len(n.keys) - 1)

getChildIndex(n, key) ==
    LET keyIndex == getKeyIndex(n, key)
    IN  IF n.type # "LEAF" /\ key = n.keys[keyIndex + 1] THEN keyIndex + 1 ELSE keyIndex

Put(n, key, keyIndex, child, childIndex) ==
    [n EXCEPT !.keys = InsertAt(@, keyIndex + 1, key),
              !.childs = InsertAt(@, childIndex + 1, child)]

\* Behind the keys that are not greater
LeafInsert(n, key) ==
    LET i == Len(SelectSeq(n.keys, LAMBDA k : k <= key))
    IN  [n EXCEPT !.keys = InsertAt(@, i + 1, key)]

\* The loop moves as many children as keys.
removeKey(n, keyIndex, childIndex) ==
    LET moved == Len(n.keys) - keyIndex - 1
    IN  [n EXCEPT !.keys = RemoveAt(@, keyIndex + 1),
                  !.childs = SubSeq(@, 1, childIndex)
                                \o SubSeq(@, childIndex + 2, childIndex + 1 + moved)
                                \o SubSeq(@, childIndex + 1 + moved, Len(@) - 1)]
LeafRemove(n, keyIndex) == [n EXCEPT !.keys = RemoveAt(@, keyIndex + 1)]

-----------------------------------------------------------------------------
(* Operations on a node, its sibling and its parent: the nodes after them  *)

With(m, n, node) == [x \in DOMAIN m \cup {n} |-> IF x = n THEN node ELSE m[x]]
Less(m, n) == [x \in DOMAIN m \ {n} |-> m[x]]
Fresh(m) == CHOOSE n \in Nodes \ DOMAIN m : \A x \in Nodes \ DOMAIN m : n <= x

\* The right siblings of a leaf that is split and of the new one
ChainedPast(right, new) == <<right, right>>
Chain(right, new) == <<new, right>>

\* A full leaf and the new one on its right share the leaf's entries, and so do
\* internal nodes their keys, but for the one that goes up, and children.
LeafHalves(n, new) ==
    LET right == Chain(n.right, new)
    IN  <<NewLeaf(SubSeq(n.keys, 1, MINNUM_KEY), right[1]),
          NewLeaf(SubSeq(n.keys, ORDER, MAXNUM_KEY), right[2])>>
Halves(n) ==
    <<NewInternal(SubSeq(n.keys, 1, MINNUM_KEY), SubSeq(n.childs, 1, ORDER)),
      NewInternal(SubSeq(n.keys, ORDER + 1, MAXNUM_KEY), SubSeq(n.childs, ORDER + 1, 2 * ORDER))>>

split(m, parent, childIndex) ==
    LET c     == m[parent].childs[childIndex + 1]
        n     == m[c]
        new   == Fresh(m)
        halves == IF n.type = "LEAF" THEN LeafHalves(n, new) ELSE Halves(n)
    IN  With([m EXCEPT ![c] = halves[1],
                       ![parent] = Put(@, n.keys[ORDER], childIndex, new, childIndex + 1)],
             new, halves[2])

\* The left of two siblings takes in the right; key is the parent's between them.
LeafMerged(left, right) ==
    NewLeaf(FoldLeft(LeafInsert, left, right.keys).keys, right.right)
Merged(left, key, right) ==
    NewInternal(left.keys \o <<key>> \o right.keys, left.childs \o right.childs)

\* A leaf that was merged stays behind, and nobody refers to it (it is not among
\* the nodes any more); of internal nodes the child that now follows is deleted.
mergeChild(m, parent, keyIndex) ==
    LET p     == m[parent]
        left  == p.childs[keyIndex + 1]
        right == p.childs[keyIndex + 2]
        leaf  == m[left].type = "LEAF"
        after == removeKey(p, keyIndex, keyIndex + 1)
        both  == IF leaf THEN LeafMerged(m[left], m[right])
                 ELSE Merged(m[left], p.keys[keyIndex + 1], m[right])
        done  == Less([m EXCEPT ![left] = both, ![parent] = after], right)
    IN  IF leaf \/ keyIndex + 1 = Len(p.keys) THEN done
        ELSE [done EXCEPT ![after.childs[keyIndex + 2]].type = "deleted"]

\* A loan: the node, the sibling that lends, and the parent's key between them
LeafFromLeft(n, sib) ==
    LET n2 == LeafInsert(n, Last(sib.keys))
    IN  <<n2, LeafRemove(sib, Len(sib.keys) - 1), n2.keys[1]>>
LeafFromRight(n, sib) ==
    LET sib2 == LeafRemove(sib, 0)
    IN  <<LeafInsert(n, sib.keys[1]), sib2, sib2.keys[1]>>
FromLeft(n, sib, key) ==
    LET k == Len(sib.keys)
    IN  <<Put(n, key, 0, sib.childs[k + 1], 0), removeKey(sib, k - 1, k), sib.keys[k]>>
FromRight(n, sib, key) ==
    LET k == Len(n.keys)
    IN  <<Put(n, key, k, sib.childs[1], k + 1), removeKey(sib, 0, 0), sib.keys[1]>>

borrowFrom(m, parent, keyIndex, d) ==
    LET p    == m[parent]
        pair == <<p.childs[keyIndex + 1], p.childs[keyIndex + 2]>>
        c    == IF d = "LEFT" THEN pair[2] ELSE pair[1]
        s    == IF d = "LEFT" THEN pair[1] ELSE pair[2]
        key  == p.keys[keyIndex + 1]
        loan == IF m[c].type = "LEAF"
                THEN IF d = "LEFT" THEN LeafFromLeft(m[c], m[s]) ELSE LeafFromRight(m[c], m[s])
                ELSE IF d = "LEFT" THEN FromLeft(m[c], m[s], key) ELSE FromRight(m[c], m[s], key)
    IN  [m EXCEPT ![c] = loan[1], ![s] = loan[2], ![parent].keys[keyIndex + 1] = loan[3]]

-----------------------------------------------------------------------------
(* Operations on the tree                                                  *)

RECURSIVE recursive_search(_, _, _)
recursive_search(m, n, key) ==
    LET i == getKeyIndex(m[n], key)
    IN  \/ key = m[n].keys[i + 1]
        \/ m[n].type # "LEAF"
           /\ recursive_search(m, m[n].childs[getChildIndex(m[n], key) + 1], key)

search(m, root, key) == root # NULL /\ recursive_search(m, root, key)

RECURSIVE recursive_insert(_, _, _)
recursive_insert(m, parent, key) ==
    LET p     == m[parent]
        index == getChildIndex(p, key)
        child == p.childs[index + 1]
        m2    == split(m, parent, index)
    IN  IF p.type = "LEAF" THEN [m EXCEPT ![parent] = LeafInsert(p, key)]
        ELSE IF Len(m[child].keys) < MAXNUM_KEY THEN recursive_insert(m, child, key)
        ELSE recursive_insert(m2, IF m2[parent].keys[index + 1] <= key
                                  THEN m2[parent].childs[index + 2] ELSE child, key)

\* The tree after insert: the new key or a root that is split first
Inserted(m, root, key) ==
    LET new == Fresh(m)
        m2  == split(With(m, new, NewInternal(<<>>, <<root>>)), new, 0)
    IN  IF root = NULL THEN [mem |-> With(m, new, NewLeaf(<<key>>, NULL)), root |-> new]
        ELSE IF Len(m[root].keys) < MAXNUM_KEY
        THEN [mem |-> recursive_insert(m, root, key), root |-> root]
        ELSE [mem |-> recursive_insert(m2, new, key), root |-> new]

RECURSIVE changeKey(_, _, _, _)
changeKey(m, n, oldKey, newKey) ==
    LET i == getKeyIndex(m[n], oldKey)
    IN  IF m[n].type = "LEAF" THEN m
        ELSE IF oldKey = m[n].keys[i + 1] THEN [m EXCEPT ![n].keys[i + 1] = newKey]
        ELSE changeKey(m, m[n].childs[i + 1], oldKey, newKey)

\* A child with the least number of keys gets one more before the descent.
Filled(m, parent, index) ==
    LET p       == m[parent]
        KeyNum(i) == Len(m[p.childs[i + 1]].keys)
        last    == Len(p.keys)
    IN  IF KeyNum(index) # MINNUM_KEY THEN [mem |-> m, child |-> p.childs[index + 1]]
        ELSE IF index > 0 /\ KeyNum(index - 1) > MINNUM_KEY
        THEN [mem |-> borrowFrom(m, parent, index - 1, "LEFT"), child |-> p.childs[index + 1]]
        ELSE IF index < last /\ KeyNum(index + 1) > MINNUM_KEY
        THEN [mem |-> borrowFrom(m, parent, index, "RIGHT"), child |-> p.childs[index + 1]]
        ELSE IF index > 0
        THEN [mem |-> mergeChild(m, parent, index - 1), child |-> p.childs[index]]
        ELSE [mem |-> mergeChild(m, parent, index), child |-> p.childs[index + 1]]

\* The nodes, the root and the largest key after the removal
RECURSIVE recursive_remove(_, _, _, _)
recursive_remove(m, root, parent, key) ==
    LET p     == m[parent]
        i     == getKeyIndex(p, key)
        m2    == [m EXCEPT ![parent] = LeafRemove(p, i)]
        next  == Filled(m, parent, getChildIndex(p, key))
    IN  IF p.type # "LEAF" THEN recursive_remove(next.mem, root, next.child, key)
        ELSE [mem |-> IF i = 0 /\ m[root].type # "LEAF" /\ parent # m_DataHead
                      THEN changeKey(m2, root, key, m2[parent].keys[1]) ELSE m2,
              root |-> root,
              max |-> IF key = m_MaxKey /\ i > 0 THEN p.keys[i] ELSE m_MaxKey]

\* remove: a root of one key is cleared, or gives way to its merged children.
Removed(m, root, key) ==
    LET r    == m[root]
        Least(i) == Len(m[r.childs[i]].keys) = MINNUM_KEY
        left == r.childs[1]
    IN  IF Len(r.keys) = 1 /\ r.type = "LEAF"
        THEN [mem |-> <<>>, root |-> NULL, max |-> m_MaxKey]
        ELSE IF Len(r.keys) = 1 /\ Least(1) /\ Least(2)
        THEN recursive_remove(Less(mergeChild(m, root, 0), root), left, left, key)
        ELSE recursive_remove(m, root, root, key)

-----------------------------------------------------------------------------
(* The leaves, and select                                                  *)

\* The leaves below a node, from left to right
RECURSIVE Below(_, _)
Below(m, n) ==
    IF m[n].type = "LEAF" THEN <<n>>
    ELSE FlattenSeq([i \in DOMAIN m[n].childs |-> Below(m, m[n].childs[i])])

\* The leaves from one of them on, by their right siblings
RECURSIVE Chained(_)
Chained(leaf) == IF leaf = NULL THEN <<>> ELSE <<leaf>> \o Chained(mem[leaf].right)

KeysOf(leaves) == FlattenSeq([i \in DOMAIN leaves |-> mem[leaves[i]].keys])

\* The entries before, at and behind the one where the search for a key ends
RECURSIVE Target(_, _)
Target(n, key) ==
    IF mem[n].type = "LEAF" THEN n
    ELSE Target(mem[n].childs[getChildIndex(mem[n], key) + 1], key)

Place(key) ==
    LET leaf == Target(m_Root, key)
    IN  Len(KeysOf(Chained(m_DataHead))) - Len(KeysOf(Chained(leaf)))
            + getKeyIndex(mem[leaf], key) + 1

select(compareKey, operator) ==
    LET all == KeysOf(Chained(m_DataHead))
        at  == Place(compareKey)
        equal == compareKey = all[at]
        If(condition) == IF condition THEN <<all[at]>> ELSE <<>>
    IN  IF m_Root = NULL THEN <<>>
        ELSE IF compareKey > m_MaxKey THEN IF operator \in {"LT", "LE"} THEN all ELSE <<>>
        ELSE IF compareKey < all[1] THEN IF operator \in {"BE", "BT"} THEN all ELSE <<>>
        ELSE CASE operator \in {"LT", "LE"} ->
                      SubSeq(all, 1, at - 1)
                          \o If(all[at] < compareKey \/ (operator = "LE" /\ equal))
               [] operator = "EQ" -> If(equal)
               [] operator \in {"BE", "BT"} ->
                      If(compareKey < all[at] \/ (operator = "BE" /\ equal))
                          \o SubSeq(all, at + 1, Len(all))

\* The root is not tested: of an empty tree this reads through NULL.
selectBetween(smallKey, largeKey) ==
    LET all   == KeysOf(Chained(m_DataHead))
        first == Place(smallKey)
        last  == Place(largeKey)
    IN  IF smallKey > largeKey THEN <<>>
        ELSE SubSeq(all, IF all[first] < smallKey THEN first + 1 ELSE first,
                         IF all[last] > largeKey THEN last - 1 ELSE last)

-----------------------------------------------------------------------------

\* Nothing that the tree refers to was deleted or dropped.
WholeIn(m) == \A n \in DOMAIN m : m[n].type # "deleted" /\ IsInjective(m[n].childs)
Whole == WholeIn(mem)

RECURSIVE Preorder(_, _)
Preorder(m, n) ==
    <<n>> \o FlattenSeq([i \in DOMAIN m[n].childs |-> Preorder(m, m[n].childs[i])])

Doubles(m, root) ==
    LET leaves == IF root = NULL THEN <<>> ELSE Below(m, root)
        all    == FlattenSeq([i \in DOMAIN leaves |-> m[leaves[i]].keys])
    IN  Len(all) - Cardinality(Range(all))

\* A call leaves the tree with these nodes.  Which number a node has says nothing:
\* they are counted through from the root.
Leave(m, root, head) ==
    IF WholeIn(m)
    THEN \E order \in { IF root = NULL THEN <<>> ELSE Preorder(m, root) } :
         LET at(n) == IF n = NULL THEN NULL ELSE CHOOSE i \in DOMAIN order : order[i] = n
             same(n) == [m[n] EXCEPT !.right = at(@), !.childs = [i \in DOMAIN @ |-> at(@[i])]]
         IN  /\ Doubles(m, root) <= MaxDoubles
             /\ mem' = [i \in DOMAIN order |-> same(order[i])]
             /\ m_Root' = at(root) /\ m_DataHead' = at(head)
    ELSE mem' = m /\ m_Root' = root /\ m_DataHead' = head

insert(key) ==
    /\ ~search(mem, m_Root, key) /\ count < MaxCount
    /\ \E after \in { Inserted(mem, m_Root, key) } :
        /\ Leave(after.mem, after.root, IF m_Root = NULL THEN after.root ELSE m_DataHead)
        /\ m_MaxKey' = IF m_Root = NULL \/ key > m_MaxKey THEN key ELSE m_MaxKey
        /\ count' = count + 1
        /\ grown' = (m_Root # NULL /\ (grown \/ after.root # m_Root))

remove(key) ==
    /\ search(mem, m_Root, key)
    /\ \E after \in { Removed(mem, m_Root, key) } :
        /\ Leave(after.mem, after.root, IF after.root = NULL THEN NULL ELSE m_DataHead)
        /\ m_MaxKey' = after.max
        /\ count' = count - 1 /\ grown' = (after.root # NULL /\ grown)

\* remove and insert.  It ends with remove where the data removed is INVALID_INDEX,
\* as data may be, and where the new key is there then: insert looks for it again.
update(oldKey) ==
    /\ search(mem, m_Root, oldKey)
    /\ \E newKey \in { k \in Keys : ~search(mem, m_Root, k) } :
        \/ remove(oldKey)
        \/ \E r \in { Removed(mem, m_Root, oldKey) } :
           /\ WholeIn(r.mem) /\ ~search(r.mem, r.root, newKey)
           /\ \E after \in { Inserted(r.mem, r.root, newKey) } :
                /\ Leave(after.mem, after.root, IF r.root = NULL THEN after.root ELSE m_DataHead)
                /\ m_MaxKey' = IF r.root = NULL \/ newKey > r.max THEN newKey ELSE r.max
                /\ grown' = (r.root # NULL /\ (grown \/ r.root # after.root))
                /\ UNCHANGED count

clear ==
    /\ m_Root # NULL
    /\ mem' = <<>> /\ m_Root' = NULL /\ m_DataHead' = NULL
    /\ count' = 0 /\ grown' = FALSE
    /\ UNCHANGED m_MaxKey

\* No call follows one that destroyed the tree.
Next ==
    /\ Whole
    /\ clear \/ \E key \in Keys : insert(key) \/ remove(key) \/ update(key)

Spec == Init /\ [][Next]_vars

-----------------------------------------------------------------------------

Leaves == IF m_Root = NULL THEN <<>> ELSE Below(mem, m_Root)

\* How deep the leaves below a node are
RECURSIVE Depths(_)
Depths(n) ==
    IF mem[n].type = "LEAF" THEN {0}
    ELSE { d + 1 : d \in UNION { Depths(mem[n].childs[i]) : i \in DOMAIN mem[n].childs } }

\* After every call the chain of right siblings holds one entry for each call of
\* insert that returned true and was not followed by one of remove, and every node
\* but the root is at least half full.
\*
\* The nodes above the leaves are asked for more until a call destroys them, which
\* only the two steps named at the top do: a node borrows from its right sibling
\* (:215), which then has its last child twice, or is merged and another one deleted
\* (:187).  Until then the tree's leaves are the chain's, in its order, all as deep
\* as each other.
TreeKept ==
    m_Root # NULL =>
        LET chain == Chained(m_DataHead)
            Left(n) == mem[n].type # "deleted"
        IN  /\ Len(KeysOf(chain)) = count
            /\ \A n \in DOMAIN mem : Left(n) =>
                  Len(mem[n].keys) \in (IF n = m_Root THEN 1 ELSE MINNUM_KEY) .. MAXNUM_KEY
            /\ \A n \in DOMAIN mem : mem[n].childs # <<>> => IsInjective(Front(mem[n].childs))
            /\ Whole => Leaves = chain /\ Cardinality(Depths(m_Root)) = 1

\* A tree that was never more than one leaf answers as a set of keys does, also at and beyond
\* its least and its greatest key.
LeafAnswers ==
    (m_Root # NULL /\ ~grown) =>
        LET all == KeysOf(Leaves)
        IN  \A k \in Keys :
              /\ search(mem, m_Root, k) <=> \E i \in DOMAIN all : all[i] = k
              /\ select(k, "LT") = SelectSeq(all, LAMBDA x : x < k)
              /\ select(k, "LE") = SelectSeq(all, LAMBDA x : x <= k)
              /\ select(k, "EQ") = SelectSeq(all, LAMBDA x : x = k)
              /\ select(k, "BE") = SelectSeq(all, LAMBDA x : x >= k)
              /\ select(k, "BT") = SelectSeq(all, LAMBDA x : x > k)
              /\ \A l \in Keys :
                    selectBetween(k, l) = SelectSeq(all, LAMBDA x : k <= x /\ x <= l)

\* "bool search(KeyType key); // 查找是否存在" (whether it exists): a key that a leaf
\* holds is found.
SearchFinds ==
    Whole => \A i \in DOMAIN KeysOf(Leaves) : search(mem, m_Root, KeysOf(Leaves)[i])
=============================================================================
