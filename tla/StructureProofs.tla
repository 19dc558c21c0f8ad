---------------------------- MODULE StructureProofs ----------------------------
(***************************************************************************)
(* What the hash tables and the memory pool keep.                          *)
(*                                                                         *)
(* The tables find what was put into them.  That of rows implements a      *)
(* map, for any rows, keys and values: a place belongs to one row, so a    *)
(* key that is in no row can be put where one of its places is free, and   *)
(* then is in no other.  In that of numbers only taken places lie between  *)
(* a number's own place and the one it is in; in that of lists a key has   *)
(* one node, in the list of its own place.                                 *)
(*                                                                         *)
(* The blocks of the pool are in its two lists, each once, as long as both *)
(* ends of the lists are right.                                            *)
(***************************************************************************)
EXTENDS ShmHash, HashTable, HashTable2, MemPool, FiniteSetTheorems,
        SequenceTheorems, WellFoundedInduction, TLAPS

\* currentSize is behind by the nodes that the last Init left out, also where Remove
\* takes those away and it falls below zero.
SizeDrifts == currentSize = (Cardinality(InUse) - uncounted) % Word

\* The strengthening is the types, the places of the keys, and the size at all
\* times: the nodes that were left out must be the same number until Clear.
HashInv == HashTypeOK /\ OneNodeEach /\ SizeDrifts

-----------------------------------------------------------------------------
(* Numbers *)

\* A set of natural numbers has a least one.
LEMMA LeastOf ==
    ASSUME NEW S \in SUBSET Nat, S # {}
    PROVE  \E x \in S : \A y \in S : x <= y
<1>1. PICK x \in S : \A y \in S : ~(<<y, x>> \in OpToRel(<, Nat))
  BY NatLessThanWellFounded, WFMin
<1>2. ASSUME NEW y \in S PROVE x <= y
  <2>1. ~(y < x)
    BY <1>1 DEF OpToRel
  <2> QED
    BY <2>1
<1> QED
  BY <1>2

\* Sizes may be counted on after or before they go below zero.
LEMMA CountOn ==
    ASSUME NEW x \in Int, NEW y \in Int, NEW s \in Nat \ {0}
    PROVE  ((x % s) + y) % s = (x + y) % s
<1> DEFINE r == x % s
           p == x \div s
           z == r + y
           q == z \div s
           m == (x + y) \div s
           d == m - (p + q)
<1>1. x = s * p + r /\ p \in Int /\ r \in 0 .. s - 1
  OBVIOUS
<1> HIDE DEF p, r
<1>2. z = s * q + (z % s) /\ q \in Int /\ z % s \in 0 .. s - 1
  BY <1>1
<1>3. x + y = s * m + ((x + y) % s) /\ m \in Int /\ (x + y) % s \in 0 .. s - 1
  OBVIOUS
<1> HIDE DEF q, m
<1>4. s * d = (z % s) - ((x + y) % s) /\ d \in Int
  BY <1>1, <1>2, <1>3
<1> HIDE DEF d
<1>5. d = 0
  <2>1. CASE d >= 1
    <3>1. s * d >= s
      BY ONLY <1>4, <2>1, s \in Nat \ {0}
    <3> QED
      BY <1>2, <1>3, <1>4, <3>1
  <2>2. CASE d <= -1
    <3>1. s * d <= -s
      BY ONLY <1>4, <2>2, s \in Nat \ {0}
    <3> QED
      BY <1>2, <1>3, <1>4, <3>1
  <2> QED
    BY <1>4, <2>1, <2>2
<1>6. s * d = 0
  BY ONLY <1>5, s \in Nat \ {0}
<1> QED
  BY <1>2, <1>3, <1>4, <1>6 DEF z, r

-----------------------------------------------------------------------------
(* Sequences *)

\* A sequence has elements unless it is empty.
LEMMA Elements ==
    ASSUME NEW S, NEW L \in Seq(S)
    PROVE  /\ Len(L) \in Nat /\ DOMAIN L = 1 .. Len(L)
           /\ \A i \in 1 .. Len(L) : L[i] \in S
           /\ L = << >> <=> Len(L) = 0
OBVIOUS

\* Sequences over a larger set.
LEMMA SeqSubset ==
    ASSUME NEW S, NEW T, S \subseteq T, NEW L \in Seq(S)
    PROVE  L \in Seq(T)
<1>1. Len(L) \in Nat /\ \A i \in 1 .. Len(L) : L[i] \in T
  OBVIOUS
<1> QED
  BY <1>1

\* A sequence without its i-th element.
LEMMA TakenOut ==
    ASSUME NEW S, NEW L \in Seq(S), NEW i \in 1 .. Len(L)
    PROVE  LET W == SubSeq(L, 1, i - 1) \o SubSeq(L, i + 1, Len(L))
           IN  /\ W \in Seq(S) /\ Len(W) = Len(L) - 1 /\ DOMAIN W = 1 .. Len(L) - 1
               /\ \A j \in 1 .. Len(L) - 1 : W[j] = IF j < i THEN L[j] ELSE L[j + 1]
<1> DEFINE a == SubSeq(L, 1, i - 1)
           b == SubSeq(L, i + 1, Len(L))
<1>0. Len(L) \in Nat
  OBVIOUS
<1>1. a \in Seq(S) /\ Len(a) = i - 1 /\ \A j \in 1 .. i - 1 : a[j] = L[j]
  BY <1>0
<1>2. b \in Seq(S) /\ Len(b) = Len(L) - i /\ \A j \in 1 .. Len(L) - i : b[j] = L[i + j]
  BY <1>0
<1> HIDE DEF a, b
<1>p. /\ a \o b \in Seq(S) /\ Len(a \o b) = Len(a) + Len(b)
      /\ \A j \in 1 .. Len(a) + Len(b) : (a \o b)[j] = IF j <= Len(a) THEN a[j] ELSE b[j - Len(a)]
  BY <1>1, <1>2, ConcatProperties, Zenon
<1>3. a \o b \in Seq(S) /\ Len(a \o b) = Len(L) - 1
  BY <1>0, <1>1, <1>2, <1>p
<1>4. ASSUME NEW j \in 1 .. Len(L) - 1
      PROVE  (a \o b)[j] = IF j < i THEN L[j] ELSE L[j + 1]
  <2>0. (a \o b)[j] = IF j <= Len(a) THEN a[j] ELSE b[j - Len(a)]
    BY <1>0, <1>1, <1>2, <1>p
  <2>1. CASE j < i
    BY <2>0, <2>1, <1>0, <1>1
  <2>2. CASE ~(j < i)
    <3>1. (a \o b)[j] = b[j - (i - 1)]
      BY <2>0, <2>2, <1>0, <1>1
    <3>2. j - (i - 1) \in 1 .. Len(L) - i /\ i + (j - (i - 1)) = j + 1
      BY <2>2, <1>0
    <3> QED
      BY <3>1, <3>2, <2>2, <1>2
  <2> QED
    BY <2>1, <2>2, Zenon
<1>5. DOMAIN (a \o b) = 1 .. Len(L) - 1
  BY <1>0, <1>3
<1> QED
  BY <1>3, <1>4, <1>5, Zenon DEF a, b

-----------------------------------------------------------------------------
(* Rows *)

\* A table of the sums of the first n rows
Sums(g, n) == g = [i \in 1 .. n |-> IF i = 1 THEN 0 ELSE g[i - 1] + PRIMER_TABLE[i - 1]]

\* The rows have lengths.
LEMMA RowLength ==
    /\ lines \in Nat \ {0} /\ Rows = 1 .. lines
    /\ \A i \in Rows : PRIMER_TABLE[i] \in Nat /\ PRIMER_TABLE[i] > 0
<1>1. PRIMER_TABLE \in Seq(Nat \ {0}) /\ PRIMER_TABLE # << >>
  BY HashAssumption
<1>2. Len(PRIMER_TABLE) \in Nat \ {0}
  BY <1>1
<1>3. \A i \in 1 .. Len(PRIMER_TABLE) : PRIMER_TABLE[i] \in Nat \ {0}
  BY <1>1
<1> QED
  BY <1>2, <1>3 DEF lines, Rows

\* One row after the other, such a table can be made, so PRIMER_TABLE_TOTAL is one.
LEMMA SumsExist ==
    \E g : Sums(g, lines)
<1> DEFINE T == {n \in Nat : n <= lines /\ ~\E g : Sums(g, n)}
<1>1. T = {}
  <2> SUFFICES ASSUME T # {} PROVE FALSE
    OBVIOUS
  <2>1. PICK n \in T : \A m \in T : n <= m
    BY LeastOf
  <2>2. n \in Nat /\ n <= lines /\ lines \in Nat
    BY RowLength
  <2>3. CASE n = 0
    <3>1. Sums([i \in 1 .. n |-> 0], n)
      BY <2>3 DEF Sums
    <3> QED
      BY <2>1, <3>1
  <2>4. CASE n # 0
    <3>1. n - 1 \in Nat /\ n - 1 <= lines /\ ~(n <= n - 1)
      BY <2>2, <2>4
    <3>2. n - 1 \notin T
      BY <2>1, <3>1
    <3>3. PICK g : Sums(g, n - 1)
      BY <3>1, <3>2
    <3> DEFINE h == [i \in 1 .. n |-> IF i = 1 THEN 0 ELSE g[i - 1] + PRIMER_TABLE[i - 1]]
    <3>4. ASSUME NEW i \in 1 .. n, i # 1 PROVE h[i - 1] = g[i - 1]
      <4>1. i - 1 \in 1 .. n - 1 /\ i - 1 \in 1 .. n
        BY <2>2, <3>4
      <4>2. h[i - 1] = IF i - 1 = 1 THEN 0 ELSE g[i - 1 - 1] + PRIMER_TABLE[i - 1 - 1]
        BY <4>1
      <4>3. g[i - 1] = IF i - 1 = 1 THEN 0 ELSE g[i - 1 - 1] + PRIMER_TABLE[i - 1 - 1]
        <5> DEFINE k == i - 1
        <5>1. k \in 1 .. n - 1
          BY <4>1
        <5> HIDE DEF k
        <5>2. g[k] = IF k = 1 THEN 0 ELSE g[k - 1] + PRIMER_TABLE[k - 1]
          BY <3>3, <5>1 DEF Sums
        <5> QED
          BY <5>2 DEF k
      <4> QED
        BY <4>2, <4>3
    <3>5. Sums(h, n)
      <4>1. \A i \in 1 .. n : h[i] = IF i = 1 THEN 0 ELSE h[i - 1] + PRIMER_TABLE[i - 1]
        BY <3>4
      <4>2. h = [i \in 1 .. n |-> h[i]]
        OBVIOUS
      <4> HIDE DEF h
      <4> QED
        BY <4>1, <4>2 DEF Sums
    <3> QED
      BY <2>1, <3>5
  <2> QED
    BY <2>3, <2>4
<1>2. lines \in Nat /\ lines <= lines
  BY RowLength
<1> QED
  BY <1>1, <1>2

\* Each row begins where the one before it ends.
LEMMA RowTotals ==
    /\ PRIMER_TABLE_TOTAL[1] = 0
    /\ \A i \in Rows : i # 1 =>
          PRIMER_TABLE_TOTAL[i] = PRIMER_TABLE_TOTAL[i - 1] + PRIMER_TABLE[i - 1]
    /\ \A i \in Rows : PRIMER_TABLE_TOTAL[i] \in Nat
<1> DEFINE P == PRIMER_TABLE_TOTAL
<1>1. Sums(P, lines)
  BY SumsExist DEF Sums, PRIMER_TABLE_TOTAL, Rows
<1> HIDE DEF P
<1>2. \A i \in Rows : P[i] = IF i = 1 THEN 0 ELSE P[i - 1] + PRIMER_TABLE[i - 1]
  BY <1>1 DEF Sums, Rows
<1>3. 1 \in Rows
  BY RowLength
<1> DEFINE T == {i \in Rows : P[i] \notin Nat}
<1>4. T = {}
  <2> SUFFICES ASSUME T # {} PROVE FALSE
    OBVIOUS
  <2>1. T \in SUBSET Nat
    BY RowLength
  <2>2. PICK n \in T : \A m \in T : n <= m
    BY <2>1, LeastOf
  <2>3. n \in Rows /\ n # 1 /\ n \in Nat
    BY <1>2, <2>1, <2>2
  <2>4. n - 1 \in Rows /\ ~(n <= n - 1)
    BY <2>3, RowLength
  <2>5. P[n - 1] \in Nat /\ PRIMER_TABLE[n - 1] \in Nat
    BY <2>2, <2>4, RowLength
  <2> QED
    BY <1>2, <2>2, <2>3, <2>5
<1> QED
  BY <1>2, <1>3, <1>4 DEF P

\* No two rows overlap, and the last ends at maxSize.
LEMMA RowsApart ==
    ASSUME NEW i \in Rows
    PROVE  /\ \A j \in Rows : i < j => PRIMER_TABLE_TOTAL[i] + PRIMER_TABLE[i] <= PRIMER_TABLE_TOTAL[j]
           /\ PRIMER_TABLE_TOTAL[i] + PRIMER_TABLE[i] <= maxSize
<1> DEFINE P == PRIMER_TABLE_TOTAL
           T == {j \in Rows : i < j /\ ~(P[i] + PRIMER_TABLE[i] <= P[j])}
<1>1. /\ \A k \in Rows : k # 1 => P[k] = P[k - 1] + PRIMER_TABLE[k - 1]
      /\ \A k \in Rows : P[k] \in Nat
  BY RowTotals
<1> HIDE DEF P
<1>2. T = {}
  <2> SUFFICES ASSUME T # {} PROVE FALSE
    OBVIOUS
  <2>1. T \in SUBSET Nat
    BY RowLength
  <2>2. PICK j \in T : \A m \in T : j <= m
    BY <2>1, LeastOf
  <2>3. j \in Rows /\ i \in Nat /\ i > 0 /\ j \in Nat /\ i < j /\ ~(P[i] + PRIMER_TABLE[i] <= P[j])
    BY <2>2, RowLength
  <2>4. j - 1 \in Rows /\ ~(j <= j - 1) /\ j # 1 /\ (i = j - 1 \/ i < j - 1)
    BY <2>3, RowLength
  <2>5. P[j] = P[j - 1] + PRIMER_TABLE[j - 1] /\ P[j - 1] \in Nat /\ PRIMER_TABLE[j - 1] \in Nat
        /\ P[i] \in Nat /\ PRIMER_TABLE[i] \in Nat /\ P[j] \in Nat
    BY <1>1, <2>3, <2>4, RowLength
  <2>6. i # j - 1
    BY <2>3, <2>5
  <2>7. j - 1 \in T
    BY <2>3, <2>4, <2>5, <2>6
  <2> QED
    BY <2>2, <2>4, <2>7
<1>3. \A j \in Rows : i < j => P[i] + PRIMER_TABLE[i] <= P[j]
  BY <1>2
<1>4. P[i] + PRIMER_TABLE[i] <= P[lines] + PRIMER_TABLE[lines]
  <2>1. lines \in Rows /\ (i = lines \/ i < lines)
    BY RowLength
  <2>2. P[lines] \in Nat /\ PRIMER_TABLE[lines] \in Nat /\ P[i] \in Nat /\ PRIMER_TABLE[i] \in Nat
    BY <1>1, <2>1, RowLength
  <2> QED
    BY <1>3, <2>1, <2>2
<1> QED
  BY <1>3, <1>4 DEF P, maxSize

\* maxSize is a number, and EndNode is the end of the table.
LEMMA TableSize ==
    maxSize \in Nat /\ EndNode = maxSize
<1>1. lines \in Rows
  BY RowLength
<1>2. PRIMER_TABLE_TOTAL[lines] \in Nat /\ PRIMER_TABLE[lines] \in Nat
  BY <1>1, RowTotals, RowLength
<1> QED
  BY <1>2 DEF maxSize, EndNode

\* A key's place in a row is inside that row, so it is in no other.
LEMMA PosInRow ==
    /\ \A i \in Rows, k \in Nat : Pos(i, k) \in Nodes
    /\ \A i, j \in Rows, k, l \in Nat : Pos(i, k) = Pos(j, l) => i = j
<1>1. ASSUME NEW i \in Rows, NEW k \in Nat
      PROVE  /\ Pos(i, k) \in Nat
             /\ PRIMER_TABLE_TOTAL[i] <= Pos(i, k)
             /\ Pos(i, k) < PRIMER_TABLE_TOTAL[i] + PRIMER_TABLE[i]
  <2>1. PRIMER_TABLE[i] \in Nat /\ PRIMER_TABLE[i] > 0 /\ PRIMER_TABLE_TOTAL[i] \in Nat
    BY RowLength, RowTotals
  <2>2. lines * FACTOR \in Nat
    BY RowLength, HashAssumption
  <2> DEFINE f == k + lines * FACTOR
  <2>3. f \in Nat
    BY <2>2
  <2> HIDE DEF f
  <2>4. f % PRIMER_TABLE[i] \in 0 .. PRIMER_TABLE[i] - 1
    BY <2>1, <2>3
  <2> QED
    BY <2>1, <2>4 DEF Pos, f
<1>2. ASSUME NEW i \in Rows, NEW k \in Nat PROVE Pos(i, k) \in Nodes
  <2>1. PRIMER_TABLE_TOTAL[i] + PRIMER_TABLE[i] <= maxSize /\ maxSize \in Nat
        /\ PRIMER_TABLE_TOTAL[i] + PRIMER_TABLE[i] \in Nat
    BY RowsApart, TableSize, RowTotals, RowLength
  <2>2. Pos(i, k) \in Nat /\ Pos(i, k) < PRIMER_TABLE_TOTAL[i] + PRIMER_TABLE[i]
    BY <1>1
  <2> QED
    BY <2>1, <2>2 DEF Nodes
<1>3. ASSUME NEW i \in Rows, NEW j \in Rows, NEW k \in Nat, NEW l \in Nat, i < j
      PROVE  Pos(i, k) # Pos(j, l)
  <2>1. /\ Pos(i, k) \in Nat /\ Pos(j, l) \in Nat
        /\ Pos(i, k) < PRIMER_TABLE_TOTAL[i] + PRIMER_TABLE[i] /\ PRIMER_TABLE_TOTAL[j] <= Pos(j, l)
    BY <1>1
  <2>2. PRIMER_TABLE_TOTAL[i] + PRIMER_TABLE[i] <= PRIMER_TABLE_TOTAL[j]
        /\ PRIMER_TABLE_TOTAL[i] + PRIMER_TABLE[i] \in Nat /\ PRIMER_TABLE_TOTAL[j] \in Nat
    BY <1>3, RowsApart, RowTotals, RowLength
  <2> QED
    BY <2>1, <2>2
<1>4. \A i, j \in Rows : i = j \/ i < j \/ j < i
  BY RowLength
<1> QED
  BY <1>2, <1>3, <1>4

-----------------------------------------------------------------------------
(* Finding a key *)

\* FirstRow is a row in whose place of the key x is, where there is one.
LEMMA FirstRowIs ==
    ASSUME NEW k \in Nat, NEW x
    PROVE  IF \E i \in Rows : key[Pos(i, k)] = x
           THEN FirstRow(k, x) \in Rows /\ FirstRow(k, x) # 0 /\ key[Pos(FirstRow(k, x), k)] = x
           ELSE FirstRow(k, x) = 0
<1> DEFINE Has(i) == key[Pos(i, k)] = x
           S == {i \in Rows : Has(i)}
<1>1. FirstRow(k, x) = IF \E i \in Rows : Has(i)
                       THEN CHOOSE i \in Rows : Has(i) /\ \A j \in 1 .. i - 1 : ~Has(j)
                       ELSE 0
  BY DEF FirstRow
<1>2. CASE S # {}
  <2>1. S \in SUBSET Nat
    BY RowLength
  <2>2. PICK m \in S : \A y \in S : m <= y
    BY <1>2, <2>1, LeastOf
  <2>3. ASSUME NEW j \in 1 .. m - 1 PROVE ~Has(j)
    <3>1. m \in 1 .. lines /\ lines \in Nat
      BY <2>2, RowLength
    <3>2. j \in Rows /\ ~(m <= j)
      BY <3>1, RowLength
    <3>3. j \notin S
      BY <2>2, <3>1, <3>2
    <3> QED
      BY <3>2, <3>3
  <2> DEFINE i == CHOOSE i \in Rows : Has(i) /\ \A j \in 1 .. i - 1 : ~Has(j)
  <2>4. i \in Rows /\ Has(i)
    <3>1. m \in Rows /\ Has(m)
      BY <2>2
    <3> HIDE DEF Has
    <3> QED
      BY <2>3, <3>1
  <2>5. (\E r \in Rows : Has(r)) /\ FirstRow(k, x) = i
    BY <1>1, <2>4
  <2> HIDE DEF i
  <2>6. i # 0
    BY <2>4, RowLength
  <2> QED
    BY <2>4, <2>5, <2>6
<1>3. CASE S = {}
  BY <1>1, <1>3
<1> QED
  BY <1>2, <1>3

\* A key that has a node is found, and found there: its node is a place of its.
LEMMA FoundIs ==
    ASSUME HashInv, NEW k \in Keys
    PROVE  /\ Found(k) <=> \E n \in InUse : key[n] = k
           /\ Found(k) => /\ lastFound(k) \in InUse /\ key[lastFound(k)] = k
                          /\ \A n \in Nodes : key[n] = k => n = lastFound(k)
<1>1. k \in Nat /\ k # Key0
  BY HashAssumption
<1>2. ASSUME NEW n \in Nodes, key[n] = k
      PROVE  n \in InUse /\ \E i \in Rows : key[Pos(i, k)] = k
  BY <1>1, <1>2 DEF InUse, HashInv, OneNodeEach
<1>3. Found(k) => /\ lastFound(k) \in InUse /\ key[lastFound(k)] = k
  <2> SUFFICES ASSUME Found(k) PROVE lastFound(k) \in InUse /\ key[lastFound(k)] = k
    OBVIOUS
  <2>1. RowOf(k) \in Rows /\ key[Pos(RowOf(k), k)] = k
    BY <1>1, FirstRowIs DEF Found, RowOf
  <2>2. Pos(RowOf(k), k) \in Nodes
    BY <1>1, <2>1, PosInRow
  <2> QED
    BY <1>1, <2>1, <2>2 DEF lastFound, InUse
<1>4. (\E n \in InUse : key[n] = k) => Found(k)
  <2> SUFFICES ASSUME NEW n \in InUse, key[n] = k PROVE Found(k)
    OBVIOUS
  <2>1. \E i \in Rows : key[Pos(i, k)] = k
    BY <1>2 DEF InUse
  <2> QED
    BY <1>1, <2>1, FirstRowIs DEF Found, RowOf
<1>5. ASSUME Found(k), NEW n \in Nodes, key[n] = k PROVE n = lastFound(k)
  BY <1>2, <1>3, <1>5 DEF HashInv, OneNodeEach
<1> QED
  BY <1>3, <1>4, <1>5

\* Where a row is free, the place of the key is, too.
LEMMA FreeIs ==
    ASSUME NEW k \in Keys, FreeRow(k) # 0
    PROVE  /\ FreeRow(k) \in Rows /\ Pos(FreeRow(k), k) \in Nodes \ InUse
<1>1. k \in Nat
  BY HashAssumption
<1>2. FreeRow(k) \in Rows /\ key[Pos(FreeRow(k), k)] = Key0
  BY <1>1, FirstRowIs DEF FreeRow
<1> QED
  BY <1>1, <1>2, PosInRow DEF InUse

-----------------------------------------------------------------------------
(* Steps *)

\* The nodes in use are counted.
LEMMA InUseCounts ==
    IsFiniteSet(InUse) /\ Cardinality(InUse) \in 0 .. maxSize
<1>1. maxSize \in Nat
  BY TableSize
<1>2. IsFiniteSet(Nodes) /\ Cardinality(Nodes) = maxSize
  BY <1>1, FS_Interval DEF Nodes
<1>3. InUse \in SUBSET Nodes
  BY DEF InUse
<1>4. IsFiniteSet(InUse) /\ Cardinality(InUse) <= maxSize
  BY <1>2, <1>3, FS_Subset
<1>5. Cardinality(InUse) \in Nat
  BY <1>4, FS_CardinalityType
<1> QED
  BY <1>1, <1>4, <1>5

\* Set and Replace put a key that is nowhere in a free place of its.
LEMMA InsertStep ==
    ASSUME HashInv, NEW k \in Keys, NEW v \in Values, ~Found(k), Insert(k, v),
           UNCHANGED uncounted
    PROVE  HashInv'
<1>1. CASE FreeRow(k) = 0
  <2>1. UNCHANGED <<table, currentSize>> /\ ret' = <<"ERROR", 0>>
    BY <1>1 DEF Insert, Ret
  <2> QED
    BY <2>1 DEF HashInv, HashTypeOK, OneNodeEach, SizeDrifts, InUse, table
<1>2. CASE FreeRow(k) # 0
  <2> DEFINE p == Pos(FreeRow(k), k)
  <2>1. FreeRow(k) \in Rows /\ p \in Nodes /\ p \notin InUse
    BY <1>2, FreeIs
  <2>2. /\ key' = [key EXCEPT ![p] = k] /\ value' = [value EXCEPT ![p] = v]
        /\ currentSize' = (currentSize + 1) % Word /\ ret' = <<"OK", 0>> /\ UNCHANGED uncounted
    BY <1>2 DEF Insert, Ret
  <2>3. /\ key \in [Nodes -> Keys \cup {Key0}] /\ value \in [Nodes -> Values \cup {0}]
        /\ currentSize \in 0 .. Word - 1 /\ Word \in Nat \ {0} /\ uncounted \in 0 .. maxSize
        /\ k \in Nat /\ k # Key0
    BY HashAssumption DEF HashInv, HashTypeOK
  <2>a. \E i \in Rows : p = Pos(i, k)
    BY <2>1
  <2> HIDE DEF p
  <2>4. key'[p] = k /\ \A n \in Nodes \ {p} : key'[n] = key[n]
    BY <2>1, <2>2, <2>3
  <2>5. InUse' = InUse \cup {p}
    BY <2>1, <2>3, <2>4 DEF InUse
  <2>6. \A n \in InUse : key[n] # k
    BY FoundIs
  <2>7. HashTypeOK'
    <3>1. key' \in [Nodes -> Keys \cup {Key0}] /\ value' \in [Nodes -> Values \cup {0}]
      BY <2>1, <2>2, <2>3
    <3>2. currentSize' \in 0 .. Word - 1
      BY <2>2, <2>3
    <3> QED
      BY <2>2, <2>3, <3>1, <3>2 DEF HashTypeOK
  <2>8. OneNodeEach'
    <3>1. \A m \in InUse : m \in Nodes /\ m # p
      BY <2>1 DEF InUse
    <3>2. \A m \in InUse : key'[m] = key[m] /\ key'[m] # k
      BY <2>4, <2>6, <3>1
    <3>3. \A m, n \in InUse' : key'[m] = key'[n] => m = n
      BY <2>4, <2>5, <3>2 DEF HashInv, OneNodeEach
    <3>4. \A n \in InUse' : \E i \in Rows : n = Pos(i, key'[n])
      BY <2>a, <2>4, <2>5, <3>2 DEF HashInv, OneNodeEach
    <3> QED
      BY <3>3, <3>4 DEF OneNodeEach
  <2>9. SizeDrifts'
    <3>1. IsFiniteSet(InUse) /\ Cardinality(InUse) \in Nat /\ uncounted \in Int
      BY <2>3, InUseCounts
    <3>2. Cardinality(InUse') = Cardinality(InUse) + 1
      BY <2>1, <2>5, <3>1, FS_AddElement
    <3> DEFINE x == Cardinality(InUse) - uncounted
    <3>3. currentSize = x % Word /\ x \in Int /\ Cardinality(InUse) + 1 - uncounted = x + 1
      BY <3>1 DEF HashInv, SizeDrifts
    <3> HIDE DEF x
    <3>4. \A y \in Int : ((x % Word) + y) % Word = (x + y) % Word
      BY <2>3, <3>3, CountOn
    <3>5. (currentSize + 1) % Word = (x + 1) % Word
      BY <3>3, <3>4
    <3>6. currentSize' = (Cardinality(InUse) + 1 - uncounted) % Word
      BY <2>2, <3>3, <3>5
    <3>7. Cardinality(InUse') - uncounted' = Cardinality(InUse) + 1 - uncounted
      BY <2>2, <3>1, <3>2
    <3>8. currentSize' = (Cardinality(InUse') - uncounted') % Word
      BY <3>6, <3>7
    <3> QED
      BY <3>8 DEF SizeDrifts
  <2> QED
    BY <2>7, <2>8, <2>9 DEF HashInv
<1> QED
  BY <1>1, <1>2

\* Remove empties the node that has the key.
LEMMA RemoveStep ==
    ASSUME HashInv, NEW k \in Keys, Remove(k)
    PROVE  HashInv'
<1>1. CASE ~Found(k)
  <2>1. UNCHANGED <<key, value, currentSize, uncounted>> /\ ret' = <<"NOTFOUND", 0>>
    BY <1>1 DEF Remove, Ret
  <2> QED
    BY <2>1 DEF HashInv, HashTypeOK, OneNodeEach, SizeDrifts, InUse
<1>2. CASE Found(k)
  <2> DEFINE p == lastFound(k)
  <2>1. p \in InUse /\ p \in Nodes
    BY <1>2, FoundIs DEF InUse
  <2>2. /\ key' = [key EXCEPT ![p] = Key0] /\ UNCHANGED <<value, uncounted>>
        /\ currentSize' = (currentSize - 1) % Word /\ ret' = <<"OK", 0>>
    BY <1>2 DEF Remove, Ret, SizeLess
  <2> HIDE DEF p
  <2>3. /\ key \in [Nodes -> Keys \cup {Key0}] /\ value \in [Nodes -> Values \cup {0}]
        /\ currentSize \in 0 .. Word - 1 /\ Word \in Nat \ {0} /\ uncounted \in 0 .. maxSize
    BY HashAssumption DEF HashInv, HashTypeOK
  <2>4. key'[p] = Key0 /\ \A n \in Nodes \ {p} : key'[n] = key[n]
    BY <2>1, <2>2, <2>3
  <2>5. InUse' = InUse \ {p} /\ \A n \in InUse' : n \in InUse /\ key'[n] = key[n]
    BY <2>1, <2>4 DEF InUse
  <2>6. HashTypeOK'
    <3>1. key' \in [Nodes -> Keys \cup {Key0}]
      BY <2>1, <2>2, <2>3
    <3>2. currentSize' \in 0 .. Word - 1
      BY <2>2, <2>3
    <3> QED
      BY <2>2, <2>3, <3>1, <3>2 DEF HashTypeOK
  <2>7. OneNodeEach'
    BY <2>5 DEF HashInv, OneNodeEach
  <2>8. SizeDrifts'
    <3>1. IsFiniteSet(InUse) /\ Cardinality(InUse) \in Nat /\ uncounted \in Int
      BY <2>3, InUseCounts
    <3>2. Cardinality(InUse') = Cardinality(InUse) - 1
      BY <2>1, <2>5, <3>1, FS_RemoveElement
    <3> DEFINE x == Cardinality(InUse) - uncounted
    <3>3. currentSize = x % Word /\ x \in Int /\ Cardinality(InUse) - 1 - uncounted = x + -1
      BY <3>1 DEF HashInv, SizeDrifts
    <3>4. currentSize - 1 = currentSize + -1
      BY <2>3
    <3> HIDE DEF x
    <3>5. \A y \in Int : ((x % Word) + y) % Word = (x + y) % Word
      BY <2>3, <3>3, CountOn
    <3>6. (currentSize - 1) % Word = (x + -1) % Word
      BY <3>3, <3>4, <3>5
    <3>7. currentSize' = (Cardinality(InUse) - 1 - uncounted) % Word
      BY <2>2, <3>3, <3>6
    <3> QED
      BY <2>2, <3>2, <3>7 DEF SizeDrifts
  <2> QED
    BY <2>6, <2>7, <2>8 DEF HashInv
<1> QED
  BY <1>1, <1>2

\* Set stores a key that it does not find, where it has a place.
LEMMA SetStep ==
    ASSUME HashInv, NEW k \in Keys, NEW v \in Values, Set(k, v)
    PROVE  HashInv'
<1>1. CASE Found(k)
  <2>1. UNCHANGED <<key, value, currentSize, uncounted>> /\ ret' = <<"KEYEXIST", 0>>
    BY <1>1 DEF Set, Ret, table
  <2> QED
    BY <2>1 DEF HashInv, HashTypeOK, OneNodeEach, SizeDrifts, InUse
<1>2. CASE ~Found(k)
  BY <1>2, InsertStep DEF Set
<1> QED
  BY <1>1, <1>2

\* Replace changes a value where it finds the key, and is Set otherwise.
LEMMA ReplaceStep ==
    ASSUME HashInv, NEW k \in Keys, NEW v \in Values, Replace(k, v)
    PROVE  HashInv'
<1>1. CASE Found(k)
  <2>1. /\ value' = [value EXCEPT ![lastFound(k)] = v]
        /\ UNCHANGED <<key, currentSize, uncounted>> /\ ret' = <<"OK", 0>>
    BY <1>1 DEF Replace, Ret
  <2>2. value' \in [Nodes -> Values \cup {0}]
    BY <2>1 DEF HashInv, HashTypeOK
  <2> QED
    BY <2>1, <2>2 DEF HashInv, HashTypeOK, OneNodeEach, SizeDrifts, InUse
<1>2. CASE ~Found(k)
  BY <1>2, InsertStep DEF Replace
<1> QED
  BY <1>1, <1>2

\* Get only returns something.
LEMMA GetStep ==
    ASSUME HashInv, NEW k \in Keys, Get(k)
    PROVE  HashInv'
<1>1. UNCHANGED <<key, value, currentSize, uncounted>>
  BY DEF Get, table
<1>2. ret' \in {"OK", "ERROR", "KEYEXIST", "NOTFOUND"} \X (Values \cup {0})
  <2>1. CASE Found(k)
    <3>1. lastFound(k) \in Nodes
      BY <2>1, FoundIs DEF InUse
    <3>2. value[lastFound(k)] \in Values \cup {0}
      BY <3>1 DEF HashInv, HashTypeOK
    <3> QED
      BY <2>1, <3>2 DEF Get
  <2>2. CASE ~Found(k)
    BY <2>2 DEF Get, Ret
  <2> QED
    BY <2>1, <2>2
<1> QED
  BY <1>1, <1>2 DEF HashInv, HashTypeOK, OneNodeEach, SizeDrifts, InUse

\* Foreach, Clear and Attach
LEMMA WholeStep ==
    ASSUME HashInv, (\E v \in Values : Foreach(v)) \/ Clear \/ Attach
    PROVE  HashInv'
<1>1. ASSUME NEW v \in Values, Foreach(v) PROVE HashInv'
  <2>1. UNCHANGED <<key, currentSize, ret, uncounted>>
    BY <1>1 DEF Foreach
  <2>2. value' \in [Nodes -> Values \cup {0}]
    BY <1>1 DEF Foreach, HashInv, HashTypeOK
  <2> QED
    BY <2>1, <2>2 DEF HashInv, HashTypeOK, OneNodeEach, SizeDrifts, InUse
<1>2. CASE Clear
  <2>1. /\ key' = [n \in Nodes |-> Key0] /\ value' = [n \in Nodes |-> 0]
        /\ currentSize' = 0 /\ uncounted' = 0 /\ ret' = ret
    BY <1>2 DEF Clear, ZeroKeys, ZeroValues
  <2>2. InUse' = {} /\ Cardinality({}) = 0
    BY <2>1, FS_EmptySet DEF InUse
  <2>3. Word \in Nat \ {0} /\ maxSize \in Nat
    BY TableSize, HashAssumption
  <2>4. HashTypeOK'
    BY <2>1, <2>3 DEF HashInv, HashTypeOK
  <2>5. OneNodeEach'
    BY <2>2 DEF OneNodeEach
  <2>6. SizeDrifts'
    BY <2>1, <2>2, <2>3 DEF SizeDrifts
  <2> QED
    BY <2>4, <2>5, <2>6 DEF HashInv
<1>3. CASE Attach
  <2>1. CASE /\ currentSize' = 0 /\ uncounted' = Cardinality(InUse)
             /\ ret' = <<"OK", 0>> /\ UNCHANGED <<key, value>>
    <3>1. Cardinality(InUse) \in 0 .. maxSize /\ InUse' = InUse /\ maxSize \in Nat
      BY <2>1, InUseCounts, TableSize DEF InUse
    <3>2. Word \in Nat \ {0}
      BY HashAssumption
    <3>3. HashTypeOK' /\ OneNodeEach'
      BY <2>1, <3>1, <3>2 DEF HashInv, HashTypeOK, OneNodeEach
    <3>4. SizeDrifts'
      <4>1. Cardinality(InUse) - Cardinality(InUse) = 0 /\ 0 % Word = 0
        BY <3>1, <3>2
      <4> QED
        BY <2>1, <3>1, <4>1 DEF SizeDrifts
    <3> QED
      BY <3>3, <3>4 DEF HashInv
  <2>2. CASE ret' = <<"ERROR", 0>> /\ UNCHANGED <<key, value, currentSize, uncounted>>
    BY <2>2 DEF HashInv, HashTypeOK, OneNodeEach, SizeDrifts, InUse
  <2> QED
    BY <1>3, <2>1, <2>2 DEF Attach, table, Ret
<1> QED
  BY <1>1, <1>2, <1>3

\* Every operation maintains it.
LEMMA HashInvInductive ==
    /\ HashInit => HashInv
    /\ HashInv /\ [HashNext]_hashVars => HashInv'
<1>1. ASSUME HashInit PROVE HashInv
  <2>1. /\ key = [n \in Nodes |-> Key0] /\ value = [n \in Nodes |-> 0]
        /\ currentSize = 0 /\ uncounted = 0 /\ ret = <<"OK", 0>>
    BY <1>1 DEF HashInit, ZeroKeys, ZeroValues, Ret
  <2>2. InUse = {} /\ Cardinality({}) = 0
    BY <2>1, FS_EmptySet DEF InUse
  <2>3. Word \in Nat \ {0} /\ maxSize \in Nat
    BY TableSize, HashAssumption
  <2>4. HashTypeOK
    BY <2>1, <2>3 DEF HashTypeOK
  <2>5. OneNodeEach /\ SizeDrifts
    BY <2>1, <2>2, <2>3 DEF OneNodeEach, SizeDrifts
  <2> QED
    BY <2>4, <2>5 DEF HashInv
<1>2. ASSUME HashInv, UNCHANGED hashVars PROVE HashInv'
  BY <1>2 DEF HashInv, HashTypeOK, OneNodeEach, SizeDrifts, InUse, hashVars, table
<1>3. ASSUME HashInv, HashNext PROVE HashInv'
  BY <1>3, GetStep, RemoveStep, SetStep, ReplaceStep, WholeStep DEF HashNext
<1> QED
  BY <1>1, <1>2, <1>3

-----------------------------------------------------------------------------
(* The map *)

\* The map that a table stands for
Abstract == [k \in {key[n] : n \in InUse} |-> value[NodeOf(k)]]

\* The keys of the map are those that find finds, with the values it finds.
LEMMA AbstractIs ==
    ASSUME HashInv
    PROVE  /\ DOMAIN Abstract = {k \in Keys : Found(k)}
           /\ \A n \in InUse : key[n] \in DOMAIN Abstract /\ Abstract[key[n]] = value[n]
           /\ \A k \in Keys : Found(k) => Abstract[k] = value[lastFound(k)]
<1>1. \A n \in InUse : n \in Nodes /\ key[n] \in Keys
  BY DEF HashInv, HashTypeOK, InUse
<1>2. ASSUME NEW n \in InUse PROVE NodeOf(key[n]) = n
  <2>1. \A m \in Nodes : key[m] = key[n] => m \in InUse
    BY DEF InUse
  <2>2. \A m \in Nodes : key[m] = key[n] => m = n
    BY <2>1 DEF HashInv, OneNodeEach
  <2>3. n \in Nodes
    BY <1>1
  <2> QED
    BY <2>2, <2>3 DEF NodeOf
<1>3. DOMAIN Abstract = {key[n] : n \in InUse}
  BY DEF Abstract
<1>4. ASSUME NEW n \in InUse PROVE key[n] \in DOMAIN Abstract /\ Abstract[key[n]] = value[n]
  BY <1>2 DEF Abstract
<1>5. DOMAIN Abstract = {k \in Keys : Found(k)}
  BY <1>1, <1>3, FoundIs
<1>6. ASSUME NEW k \in Keys, Found(k) PROVE Abstract[k] = value[lastFound(k)]
  BY <1>4, <1>6, FoundIs
<1> QED
  BY <1>4, <1>5, <1>6

\* Two maps are one, when the tables hold the same values for the same keys.
LEMMA SameMap ==
    ASSUME NEW f, NEW g, f = [k \in DOMAIN f |-> f[k]], g = [k \in DOMAIN g |-> g[k]],
           DOMAIN f = DOMAIN g, \A k \in DOMAIN f : f[k] = g[k]
    PROVE  f = g
OBVIOUS

\* Inserting a key is With in the map.
LEMMA InsertMaps ==
    ASSUME HashInv, HashInv', NEW k \in Keys, NEW v \in Values, ~Found(k),
           FreeRow(k) # 0, Insert(k, v)
    PROVE  Abstract' = [x \in DOMAIN Abstract \cup {k} |-> IF x = k THEN v ELSE Abstract[x]]
<1> DEFINE p == Pos(FreeRow(k), k)
           g == [x \in DOMAIN Abstract \cup {k} |-> IF x = k THEN v ELSE Abstract[x]]
<1>1. p \in Nodes /\ p \notin InUse
  BY FreeIs
<1>2. key' = [key EXCEPT ![p] = k] /\ value' = [value EXCEPT ![p] = v]
  BY DEF Insert
<1>3. /\ key \in [Nodes -> Keys \cup {Key0}] /\ value \in [Nodes -> Values \cup {0}] /\ k # Key0
  BY HashAssumption DEF HashInv, HashTypeOK
<1> HIDE DEF p
<1>4. /\ key'[p] = k /\ value'[p] = v
      /\ \A n \in Nodes \ {p} : key'[n] = key[n] /\ value'[n] = value[n]
  BY <1>1, <1>2, <1>3
<1>5. InUse' = InUse \cup {p} /\ \A n \in InUse : n \in Nodes \ {p}
  BY <1>1, <1>3, <1>4 DEF InUse
<1>6. \A n \in InUse : key[n] # k
  BY FoundIs
<1>7. (\A n \in InUse : key[n] \in DOMAIN Abstract /\ Abstract[key[n]] = value[n])
      /\ DOMAIN Abstract = {key[n] : n \in InUse}
  BY AbstractIs DEF Abstract
<1>8. /\ \A n \in InUse' : key'[n] \in DOMAIN Abstract' /\ Abstract'[key'[n]] = value'[n]
      /\ DOMAIN Abstract' = {key'[n] : n \in InUse'}
      /\ Abstract' = [x \in DOMAIN Abstract' |-> Abstract'[x]]
  <2>1. (HashInv => \A n \in InUse : key[n] \in DOMAIN Abstract /\ Abstract[key[n]] = value[n])'
    BY AbstractIs, PTL
  <2> QED
    BY <2>1, HashAssumption DEF Abstract
<1> HIDE DEF g
<1>9. DOMAIN g = DOMAIN Abstract \cup {k} /\ g[k] = v
      /\ (\A x \in DOMAIN Abstract : x # k => g[x] = Abstract[x])
      /\ g = [x \in DOMAIN g |-> g[x]]
  BY DEF g
<1>10. DOMAIN Abstract' = DOMAIN g
  BY <1>4, <1>5, <1>7, <1>8, <1>9
<1>11. \A n \in InUse' : Abstract'[key'[n]] = g[key'[n]]
  BY <1>4, <1>5, <1>6, <1>7, <1>8, <1>9
<1>12. \A x \in DOMAIN Abstract' : Abstract'[x] = g[x]
  BY <1>8, <1>11
<1>13. Abstract' = g
  BY <1>8, <1>9, <1>10, <1>12, SameMap
<1> QED
  BY <1>13 DEF g

\* Set and Replace, of a key that is not there
LEMMA InsertRefines ==
    ASSUME HashInv, HashInv', NEW k \in Keys, NEW v \in Values, ~Found(k),
           Insert(k, v)
    PROVE  \/ ret' = <<"OK", 0>> /\ Abstract' = [x \in DOMAIN Abstract \cup {k} |->
                                                    IF x = k THEN v ELSE Abstract[x]]
           \/ ret' = <<"ERROR", 0>> /\ UNCHANGED Abstract
<1>1. CASE FreeRow(k) # 0
  BY <1>1, InsertMaps DEF Insert, Ret
<1>2. CASE FreeRow(k) = 0
  BY <1>2 DEF Insert, Ret, Abstract, InUse, NodeOf, table
<1> QED
  BY <1>1, <1>2

\* Removing a key takes it out of the map.
LEMMA RemoveMaps ==
    ASSUME HashInv, HashInv', NEW k \in Keys, Remove(k)
    PROVE  Abstract' = [x \in DOMAIN Abstract \ {k} |-> Abstract[x]]
<1> DEFINE p == lastFound(k)
           g == [x \in DOMAIN Abstract \ {k} |-> Abstract[x]]
<1>1. /\ \A n \in InUse : key[n] \in DOMAIN Abstract /\ Abstract[key[n]] = value[n]
      /\ DOMAIN Abstract = {key[n] : n \in InUse} /\ DOMAIN Abstract = {x \in Keys : Found(x)}
      /\ Abstract = [x \in DOMAIN Abstract |-> Abstract[x]]
  BY AbstractIs DEF Abstract
<1>2. /\ \A n \in InUse' : key'[n] \in DOMAIN Abstract' /\ Abstract'[key'[n]] = value'[n]
      /\ DOMAIN Abstract' = {key'[n] : n \in InUse'}
      /\ Abstract' = [x \in DOMAIN Abstract' |-> Abstract'[x]]
  <2>1. (HashInv => \A n \in InUse : key[n] \in DOMAIN Abstract /\ Abstract[key[n]] = value[n])'
    BY AbstractIs, PTL
  <2> QED
    BY <2>1, HashAssumption DEF Abstract
<1>3. DOMAIN g = DOMAIN Abstract \ {k} /\ (\A x \in DOMAIN g : g[x] = Abstract[x])
      /\ g = [x \in DOMAIN g |-> g[x]]
  OBVIOUS
<1> HIDE DEF g
<1>4. CASE Found(k)
  <2>1. p \in InUse /\ p \in Nodes /\ key[p] = k /\ \A n \in Nodes : key[n] = k => n = p
    BY <1>4, FoundIs DEF InUse
  <2>2. key' = [key EXCEPT ![p] = Key0] /\ value' = value
    BY <1>4 DEF Remove
  <2> HIDE DEF p
  <2>3. key'[p] = Key0 /\ \A n \in Nodes \ {p} : key'[n] = key[n]
    BY <2>1, <2>2 DEF HashInv, HashTypeOK
  <2>4. InUse' = InUse \ {p} /\ \A n \in InUse' : n \in InUse /\ key'[n] = key[n] /\ key[n] # k
    BY <2>1, <2>3 DEF InUse
  <2>5. \A n \in InUse : n # p => n \in InUse' /\ key'[n] = key[n]
    BY <2>4
  <2>6. DOMAIN Abstract' = DOMAIN g
    <3>1. ASSUME NEW x \in DOMAIN Abstract' PROVE x \in DOMAIN g
      <4>1. PICK n \in InUse' : x = key'[n]
        BY <1>2
      <4>2. n \in InUse /\ x = key[n] /\ x # k
        BY <2>4, <4>1
      <4> QED
        BY <1>1, <1>3, <4>2
    <3>2. ASSUME NEW x \in DOMAIN g PROVE x \in DOMAIN Abstract'
      <4>1. PICK n \in InUse : x = key[n]
        BY <1>1, <1>3
      <4>2. n # p
        BY <1>3, <2>1, <4>1
      <4> QED
        BY <1>2, <2>5, <4>1, <4>2
    <3> QED
      BY <3>1, <3>2
  <2>7. ASSUME NEW n \in InUse' PROVE Abstract'[key'[n]] = g[key'[n]]
    <3>1. n \in InUse /\ key'[n] = key[n] /\ key[n] # k
      BY <2>4
    <3>2. Abstract'[key'[n]] = value[n] /\ Abstract[key[n]] = value[n]
      BY <3>1, <1>1, <1>2, <2>2
    <3>3. key[n] \in DOMAIN g
      BY <3>1, <1>1, <1>3
    <3> QED
      BY <3>1, <3>2, <3>3, <1>3
  <2>8. \A x \in DOMAIN Abstract' : Abstract'[x] = g[x]
    BY <1>2, <2>7
  <2>9. Abstract' = g
    BY <1>2, <1>3, <2>6, <2>8, SameMap
  <2> QED
    BY <2>9 DEF g
<1>5. CASE ~Found(k)
  <2>1. k \notin DOMAIN Abstract
    BY <1>1, <1>5
  <2>2. Abstract' = Abstract
    BY <1>5 DEF Remove, Abstract, InUse, NodeOf
  <2>3. DOMAIN Abstract = DOMAIN g
    BY <1>3, <2>1
  <2>4. Abstract = g
    BY <1>1, <1>3, <2>3, SameMap
  <2> QED
    BY <2>2, <2>4 DEF g
<1> QED
  BY <1>4, <1>5

\* Replacing the value of a key replaces it in the map.
LEMMA ReplaceMaps ==
    ASSUME HashInv, HashInv', NEW k \in Keys, NEW v \in Values, Found(k),
           key' = key, value' = [value EXCEPT ![lastFound(k)] = v]
    PROVE  Abstract' = [x \in DOMAIN Abstract \cup {k} |-> IF x = k THEN v ELSE Abstract[x]]
<1> DEFINE p == lastFound(k)
           g == [x \in DOMAIN Abstract \cup {k} |-> IF x = k THEN v ELSE Abstract[x]]
<1>1. /\ \A n \in InUse : key[n] \in DOMAIN Abstract /\ Abstract[key[n]] = value[n]
      /\ DOMAIN Abstract = {key[n] : n \in InUse}
  BY AbstractIs DEF Abstract
<1>2. /\ \A n \in InUse' : key'[n] \in DOMAIN Abstract' /\ Abstract'[key'[n]] = value'[n]
      /\ DOMAIN Abstract' = {key'[n] : n \in InUse'}
      /\ Abstract' = [x \in DOMAIN Abstract' |-> Abstract'[x]]
  <2>1. (HashInv => \A n \in InUse : key[n] \in DOMAIN Abstract /\ Abstract[key[n]] = value[n])'
    BY AbstractIs, PTL
  <2> QED
    BY <2>1, HashAssumption DEF Abstract
<1>3. DOMAIN g = DOMAIN Abstract \cup {k} /\ g[k] = v
      /\ (\A x \in DOMAIN Abstract : x # k => g[x] = Abstract[x])
      /\ g = [x \in DOMAIN g |-> g[x]]
  OBVIOUS
<1> HIDE DEF g
<1>4. p \in InUse /\ p \in Nodes /\ key[p] = k /\ \A n \in Nodes : key[n] = k => n = p
  BY FoundIs DEF InUse
<1>5. InUse' = InUse
  BY DEF InUse
<1>6. value'[p] = v /\ \A n \in InUse : n # p => value'[n] = value[n] /\ key[n] # k
  BY <1>4 DEF HashInv, HashTypeOK, InUse
<1> HIDE DEF p
<1>7. DOMAIN Abstract' = DOMAIN g
  BY <1>1, <1>2, <1>3, <1>4, <1>5
<1>8. \A n \in InUse' : Abstract'[key'[n]] = g[key'[n]]
  BY <1>1, <1>2, <1>3, <1>4, <1>5, <1>6
<1>9. \A x \in DOMAIN Abstract' : Abstract'[x] = g[x]
  BY <1>2, <1>8
<1>10. Abstract' = g
  BY <1>2, <1>3, <1>7, <1>9, SameMap
<1> QED
  BY <1>10 DEF g

\* Foreach reaches every key of the map: EndNode is behind the last node.
LEMMA ForeachMaps ==
    ASSUME HashInv, HashInv', NEW v \in Values, Foreach(v)
    PROVE  Abstract' = [x \in DOMAIN Abstract |-> v]
<1> DEFINE g == [x \in DOMAIN Abstract |-> v]
<1>1. DOMAIN Abstract = {key[n] : n \in InUse}
  BY DEF Abstract
<1>2. /\ \A n \in InUse' : key'[n] \in DOMAIN Abstract' /\ Abstract'[key'[n]] = value'[n]
      /\ DOMAIN Abstract' = {key'[n] : n \in InUse'}
      /\ Abstract' = [x \in DOMAIN Abstract' |-> Abstract'[x]]
  <2>1. (HashInv => \A n \in InUse : key[n] \in DOMAIN Abstract /\ Abstract[key[n]] = value[n])'
    BY AbstractIs, PTL
  <2> QED
    BY <2>1, HashAssumption DEF Abstract
<1>3. InUse' = InUse /\ key' = key
  BY DEF Foreach, InUse
<1>4. ASSUME NEW n \in InUse PROVE value'[n] = v
  <2>1. n \in Nodes /\ key[n] # Key0
    BY DEF InUse
  <2>2. n < EndNode
    BY <2>1, TableSize DEF Nodes
  <2> QED
    BY <2>1, <2>2 DEF Foreach
<1>5. DOMAIN g = DOMAIN Abstract /\ (\A x \in DOMAIN g : g[x] = v) /\ g = [x \in DOMAIN g |-> g[x]]
  OBVIOUS
<1> HIDE DEF g
<1>6. DOMAIN Abstract' = DOMAIN g
  BY <1>1, <1>2, <1>3, <1>5
<1>7. \A x \in DOMAIN Abstract' : Abstract'[x] = g[x]
  BY <1>2, <1>3, <1>4, <1>5, <1>6
<1>8. Abstract' = g
  BY <1>2, <1>5, <1>6, <1>7, SameMap
<1> QED
  BY <1>8 DEF g

\* An empty table is the empty map.
LEMMA EmptyMaps ==
    ASSUME key = ZeroKeys
    PROVE  Abstract = [k \in {} |-> 0]
<1>1. InUse = {}
  BY DEF InUse, ZeroKeys
<1> QED
  BY <1>1 DEF Abstract

\* Every step of the table is one of the map, or none.
LEMMA StepRefines ==
    ASSUME HashInv, HashInv', [HashNext]_hashVars
    PROVE  [Map!Next]_(Map!vars)
<1> DEFINE M == Abstract
<1>1. ASSUME M' = M, ret' = ret PROVE UNCHANGED Map!vars
  BY <1>1 DEF Map!vars, Abstract
<1>2. DOMAIN M = {x \in Keys : Found(x)} /\ \A k \in Keys : Found(k) => M[k] = value[lastFound(k)]
  BY AbstractIs
<1>s. \A k, v : Map!Set(k, v) <=>
          \/ k \in DOMAIN M /\ ret' = <<"KEYEXIST", 0>> /\ M' = M
          \/ k \notin DOMAIN M /\ ret' = <<"OK", 0>>
             /\ M' = [x \in DOMAIN M \cup {k} |-> IF x = k THEN v ELSE M[x]]
          \/ k \notin DOMAIN M /\ ret' = <<"ERROR", 0>> /\ M' = M
  BY DEF Map!Set, Map!Has, Map!Returns, Map!With, Map!NoPlace, Abstract
<1>r. \A k, v : Map!Replace(k, v) <=>
          \/ ret' = <<"OK", 0>>
             /\ M' = [x \in DOMAIN M \cup {k} |-> IF x = k THEN v ELSE M[x]]
          \/ k \notin DOMAIN M /\ ret' = <<"ERROR", 0>> /\ M' = M
  BY DEF Map!Replace, Map!Has, Map!Returns, Map!With, Map!NoPlace, Abstract
<1>g. \A k : Map!Get(k) <=>
          /\ IF k \in DOMAIN M THEN ret' = <<"OK", M[k]>> ELSE ret' = <<"NOTFOUND", 0>>
          /\ M' = M
  BY DEF Map!Get, Map!Has, Map!Returns, Abstract
<1>m. \A k : Map!Remove(k) <=>
          /\ ret' = <<IF k \in DOMAIN M THEN "OK" ELSE "NOTFOUND", 0>>
          /\ M' = [x \in DOMAIN M \ {k} |-> M[x]]
  BY DEF Map!Remove, Map!Has, Map!Returns, Abstract
<1>f. /\ \A v : Map!Foreach(v) <=> M' = [k \in DOMAIN M |-> v]
      /\ Map!Clear <=> M' = [k \in {} |-> 0]
      /\ Map!Attach <=> M' = M /\ (ret' = <<"OK", 0>> \/ ret' = <<"ERROR", 0>>)
  BY DEF Map!Foreach, Map!Clear, Map!NoKeys, Map!Attach, Map!Returns, Abstract
<1>t. ASSUME UNCHANGED table PROVE M' = M
  BY <1>t DEF Abstract, InUse, NodeOf, table
<1> HIDE DEF M
<1>3. CASE UNCHANGED hashVars
  BY <1>1, <1>3, <1>t DEF hashVars, table
<1>4. ASSUME NEW k \in Keys, Get(k) PROVE Map!Get(k)
  BY <1>2, <1>4, <1>g, <1>t DEF Get, Ret
<1>5. ASSUME NEW k \in Keys, Remove(k) PROVE Map!Remove(k)
  BY <1>2, <1>5, <1>m, RemoveMaps DEF Remove, Ret, M
<1>6. ASSUME NEW k \in Keys, NEW v \in Values, Set(k, v) PROVE Map!Set(k, v)
  <2>1. CASE Found(k)
    BY <1>2, <1>6, <1>s, <1>t, <2>1 DEF Set, Ret
  <2>2. CASE ~Found(k)
    BY <1>2, <1>6, <1>s, <2>2, InsertRefines DEF Set, M
  <2> QED
    BY <2>1, <2>2
<1>7. ASSUME NEW k \in Keys, NEW v \in Values, Replace(k, v) PROVE Map!Replace(k, v)
  <2>1. CASE Found(k)
    BY <1>2, <1>7, <1>r, <2>1, ReplaceMaps DEF Replace, Ret, M
  <2>2. CASE ~Found(k)
    BY <1>2, <1>7, <1>r, <2>2, InsertRefines DEF Replace, M
  <2> QED
    BY <2>1, <2>2
<1>8. ASSUME NEW v \in Values, Foreach(v) PROVE Map!Foreach(v) /\ UNCHANGED ret
  BY <1>8, <1>f, ForeachMaps DEF Foreach, M
<1>9. ASSUME Clear PROVE Map!Clear /\ UNCHANGED ret
  <2>1. (key = ZeroKeys => Abstract = [k \in {} |-> 0])'
    BY EmptyMaps, PTL
  <2>2. key' = ZeroKeys /\ ZeroKeys' = ZeroKeys /\ ret' = ret
    BY <1>9 DEF Clear, ZeroKeys
  <2> QED
    BY <1>f, <2>1, <2>2 DEF M
<1>10. ASSUME Attach PROVE Map!Attach
  BY <1>10, <1>f, <1>t DEF Attach, Ret
<1> QED
  BY <1>3, <1>4, <1>5, <1>6, <1>7, <1>8, <1>9, <1>10 DEF HashNext, Map!Next

-----------------------------------------------------------------------------
(* Theorems *)

\* Every variable of the table keeps its type, and what a call returns.
THEOREM TypeCorrect == HashSpec => []HashTypeOK
<1>1. HashInv => HashTypeOK
  BY DEF HashInv
<1> QED
  BY <1>1, HashInvInductive, PTL DEF HashSpec

\* A key has one node at most, where find looks for it, and currentSize is the
\* number of nodes in use, unless the last Init found some and set it to zero (:248).
THEOREM OneNodePerKey == HashSpec => []HashConsistent
<1>1. ASSUME HashInv PROVE HashConsistent
  <2>1. Cardinality(InUse) \in Nat /\ Cardinality(InUse) < Word /\ Word \in Nat \ {0}
    BY InUseCounts, TableSize, HashAssumption, SizeAssumption
  <2>2. Cardinality(InUse) % Word = Cardinality(InUse)
    BY <2>1
  <2>3. uncounted = 0 => currentSize = Cardinality(InUse)
    BY <1>1, <2>1, <2>2 DEF HashInv, SizeDrifts
  <2> QED
    BY <1>1, <2>3 DEF HashInv, HashConsistent, SizeCounts
<1> QED
  BY <1>1, HashInvInductive, PTL DEF HashSpec

\* For its callers the table is a map, whoever attaches meanwhile.
THEOREM TableIsMap == HashSpec => ImplementsMap
<1>1. HashInit => Map!Init
  <2> SUFFICES ASSUME HashInit PROVE Map!Init
    OBVIOUS
  <2>1. Abstract = [k \in {} |-> 0] /\ ret = <<"OK", 0>>
    BY EmptyMaps DEF HashInit, Ret
  <2> QED
    BY <2>1 DEF Map!Init, Map!NoKeys, Abstract
<1>2. HashInv /\ HashInv' /\ [HashNext]_hashVars => [Map!Next]_(Map!vars)
  BY StepRefines
<1> QED
  BY <1>1, <1>2, HashInvInductive, PTL DEF HashSpec, Map!Spec, ImplementsMap

-----------------------------------------------------------------------------
(* The table of numbers *)

\* Places are counted round the table once.
LEMMA OnceRound ==
    ASSUME NEW s \in Nat \ {0}, NEW x \in 0 .. s - 1, NEW n \in 0 .. s
    PROVE  (x + n) % s = IF x + n < s THEN x + n ELSE x + n - s
<1> DEFINE k == x + n
           q == k \div s
<1>1. k = s * q + (k % s) /\ q \in Int /\ k % s \in 0 .. s - 1
  OBVIOUS
<1>2. k \in 0 .. 2 * s - 1
  OBVIOUS
<1> HIDE DEF q, k
<1>3. q = 0 \/ q = 1
  <2>1. CASE q >= 2
    <3>1. s * q >= 2 * s
      BY ONLY <2>1, <1>1, s \in Nat \ {0}
    <3> QED
      BY ONLY <3>1, <1>1, <1>2, s \in Nat \ {0}
  <2>2. CASE q <= -1
    <3>1. s * q <= -s
      BY ONLY <2>2, <1>1, s \in Nat \ {0}
    <3> QED
      BY ONLY <3>1, <1>1, <1>2, s \in Nat \ {0}
  <2> QED
    BY ONLY <2>1, <2>2, <1>1
<1>4. k % s = IF k < s THEN k ELSE k - s
  BY ONLY <1>1, <1>2, <1>3, s \in Nat \ {0}
<1> QED
  BY <1>4 DEF k

\* A number that was inserted is in a place that is reached through others that
\* are taken, and there are no other numbers.
Reached(data) ==
    \E n \in 0 .. HASHSIZE - 1 :
        elem[Probe(data, n)] = data /\ \A l \in 0 .. n - 1 : elem[Probe(data, l)] # NULLKEY

NumbersInv ==
    /\ NumbersTypeOK /\ inserted \subseteq Data
    /\ \A data \in inserted : Reached(data)
    /\ \A p \in 0 .. HASHSIZE - 1 : elem[p] # NULLKEY => elem[p] \in inserted

\* The places of a number: it has HASHSIZE of them, and comes back to the first.
LEMMA ProbePlaces ==
    ASSUME NEW data \in Data, NEW n \in 0 .. HASHSIZE
    PROVE  /\ Hash(data) \in 0 .. HASHSIZE - 1 /\ Probe(data, n) \in 0 .. HASHSIZE - 1
           /\ Probe(data, n) = Hash(data) <=> n \in {0, HASHSIZE}
           /\ NULLKEY \notin Data
<1>0. HASHSIZE \in Nat \ {0} /\ data \in Nat /\ Data \subseteq Nat
  BY NumbersAssumption
<1>1. Hash(data) \in 0 .. HASHSIZE - 1
  BY <1>0 DEF Hash
<1>2. (Hash(data) + n) % HASHSIZE =
         IF Hash(data) + n < HASHSIZE THEN Hash(data) + n ELSE Hash(data) + n - HASHSIZE
  BY <1>0, <1>1, OnceRound
<1> QED
  BY <1>0, <1>1, <1>2 DEF Probe, NULLKEY

\* Search's loop ends, and before it does it has passed only taken places.
LEMMA SearchEnds ==
    ASSUME NEW data \in Data
    PROVE  /\ Steps(data) \in 0 .. HASHSIZE - 1
           /\ Ends(data, Steps(data))
           /\ \A l \in 0 .. Steps(data) - 1 : ~Ends(data, l)
<1> DEFINE S == {n \in 0 .. HASHSIZE - 1 : Ends(data, n)}
<1>0. HASHSIZE \in Nat \ {0}
  BY NumbersAssumption
<1>1. Probe(data, HASHSIZE) = Hash(data)
  BY <1>0, ProbePlaces
<1>2. HASHSIZE - 1 \in S
  BY <1>0, <1>1 DEF Ends
<1>3. S \in SUBSET Nat /\ S # {}
  BY <1>0, <1>2
<1>4. PICK m \in S : \A n \in S : m <= n
  BY <1>3, LeastOf
<1>5. \A l \in 0 .. m - 1 : ~Ends(data, l)
  BY <1>0, <1>4
<1> QED
  BY <1>4, <1>5 DEF Steps

\* The table starts empty, with nothing inserted.
LEMMA NumbersInitInv == NumbersInit => NumbersInv
BY NumbersAssumption, ProbePlaces
   DEF NumbersInit, NumbersInv, NumbersTypeOK

\* A place that is taken stays so, and the first free one is reached.
LEMMA NumbersStep == NumbersInv /\ [NumbersNext]_numbersVars => NumbersInv'
<1> SUFFICES ASSUME NumbersInv, [NumbersNext]_numbersVars PROVE NumbersInv'
  OBVIOUS
<1>1. ASSUME NEW data \in Data, NumbersInsert(data) PROVE NumbersInv'
  <2>1. PICK n \in 0 .. HASHSIZE - 1 :
            /\ elem[Probe(data, n)] = NULLKEY
            /\ \A l \in 0 .. n - 1 : elem[Probe(data, l)] # NULLKEY
            /\ elem' = [elem EXCEPT ![Probe(data, n)] = data]
            /\ inserted' = inserted \cup {data}
    BY <1>1 DEF NumbersInsert
  <2> DEFINE at == Probe(data, n)
  <2>2. HASHSIZE \in Nat \ {0} /\ n \in 0 .. HASHSIZE
    BY NumbersAssumption
  <2>3. at \in 0 .. HASHSIZE - 1 /\ data # NULLKEY
    BY <2>2, ProbePlaces
  <2>4. \A d \in Data : \A l \in 0 .. HASHSIZE - 1 : Probe(d, l) \in 0 .. HASHSIZE - 1
    BY <2>2, ProbePlaces
  <2> HIDE DEF at
  <2>5. /\ elem[at] = NULLKEY /\ elem' = [elem EXCEPT ![at] = data]
        /\ \A l \in 0 .. n - 1 : elem[Probe(data, l)] # NULLKEY
    BY <2>1 DEF at
  <2>6. elem \in [0 .. HASHSIZE - 1 -> Data \cup {NULLKEY}]
    BY DEF NumbersInv, NumbersTypeOK
  <2>7. \A p \in 0 .. HASHSIZE - 1 : elem'[p] = IF p = at THEN data ELSE elem[p]
    BY <2>3, <2>5, <2>6
  <2>8. NumbersTypeOK' /\ inserted' \subseteq Data
    BY <2>1, <2>5, <2>6 DEF NumbersInv, NumbersTypeOK
  <2>9. ASSUME NEW d \in inserted' PROVE Reached(d)'
    <3>1. CASE d \in inserted
      <4>1. PICK m \in 0 .. HASHSIZE - 1 :
                elem[Probe(d, m)] = d /\ \A l \in 0 .. m - 1 : elem[Probe(d, l)] # NULLKEY
        BY <3>1 DEF NumbersInv, Reached
      <4>2. d \in Data /\ d # NULLKEY
        BY <3>1, <2>2, ProbePlaces DEF NumbersInv
      <4>3. elem'[Probe(d, m)] = d
        BY <4>1, <4>2, <2>4, <2>5, <2>7
      <4>4. \A l \in 0 .. m - 1 : elem'[Probe(d, l)] # NULLKEY
        BY <4>1, <4>2, <2>2, <2>3, <2>4, <2>7
      <4> QED
        BY <4>3, <4>4 DEF Reached, Probe, Hash
    <3>2. CASE d = data
      <4>1. elem'[Probe(data, n)] = data
        BY <2>3, <2>7 DEF at
      <4>2. \A l \in 0 .. n - 1 : elem'[Probe(data, l)] # NULLKEY
        BY <2>2, <2>3, <2>4, <2>5, <2>7
      <4> QED
        BY <3>2, <4>1, <4>2 DEF Reached, Probe, Hash
    <3> QED
      BY <3>1, <3>2, <2>1
  <2>10. \A p \in 0 .. HASHSIZE - 1 : elem'[p] # NULLKEY => elem'[p] \in inserted'
    BY <2>1, <2>7 DEF NumbersInv
  <2> QED
    BY <2>8, <2>9, <2>10 DEF NumbersInv
<1>2. CASE UNCHANGED numbersVars
  BY <1>2 DEF numbersVars, NumbersInv, NumbersTypeOK, Reached, Probe, Hash
<1> QED
  BY <1>1, <1>2 DEF NumbersNext

\* NumbersSpec keeps the invariant.
LEMMA NumbersInvKept == NumbersSpec => []NumbersInv
BY NumbersInitInv, NumbersStep, PTL DEF NumbersSpec

\* The places of a table of any size hold numbers.
THEOREM NumbersTypeCorrect == NumbersSpec => []NumbersTypeOK
<1>1. NumbersInv => NumbersTypeOK
  BY DEF NumbersInv
<1> QED
  BY <1>1, NumbersInvKept, PTL

\* Insert and Search: a number is found if and only if it was inserted, however full
\* the table is and whichever numbers have taken its places, for any size of it.
THEOREM NumbersAreFound == NumbersSpec => []NumbersFound
<1>1. NumbersInv => NumbersFound
  <2> SUFFICES ASSUME NumbersInv, NEW data \in Data
               PROVE  IF data \in inserted
                      THEN NumbersSearch(data) >= 0 /\ elem[NumbersSearch(data)] = data
                      ELSE NumbersSearch(data) = -1
    BY DEF NumbersFound
  <2> DEFINE s == Steps(data)
  <2>0. HASHSIZE \in Nat \ {0}
    BY NumbersAssumption
  <2>1. /\ s \in 0 .. HASHSIZE - 1 /\ Ends(data, s)
        /\ \A l \in 0 .. s - 1 : ~Ends(data, l)
    BY SearchEnds
  <2>2. Probe(data, s) \in 0 .. HASHSIZE - 1 /\ data # NULLKEY
    BY <2>0, <2>1, ProbePlaces
  <2> HIDE DEF s
  <2>3. ASSUME data \in inserted, elem[Probe(data, s)] # data PROVE FALSE
    <3>1. PICK n \in 0 .. HASHSIZE - 1 :
              elem[Probe(data, n)] = data /\ \A l \in 0 .. n - 1 : elem[Probe(data, l)] # NULLKEY
      BY <2>3 DEF NumbersInv, Reached
    <3>2. s < n
      <4>1. ~(n < s)
        BY <3>1, <2>1 DEF Ends
      <4> QED
        BY <4>1, <3>1, <2>1, <2>3
    <3>3. s + 1 \in 0 .. n /\ s + 1 \in 1 .. HASHSIZE - 1
      BY <3>2, <2>0, <2>1
    <3>4. elem[Probe(data, s + 1)] # NULLKEY
      <4>1. s + 1 \in 0 .. n - 1 \/ s + 1 = n
        BY <3>3
      <4> QED
        BY <4>1, <3>1, <2>2
    <3>5. Probe(data, s + 1) # Hash(data)
      BY <3>3, <2>0, ProbePlaces
    <3> QED
      BY <3>4, <3>5, <2>1, <2>3 DEF Ends
  <2>4. ASSUME data \notin inserted PROVE elem[Probe(data, s)] # data
    BY <2>2, <2>4 DEF NumbersInv
  <2> QED
    BY <2>2, <2>3, <2>4 DEF NumbersSearch, s
<1> QED
  BY <1>1, NumbersInvKept, PTL

-----------------------------------------------------------------------------
(* The table of lists *)

\* A node is in the list of its key, the only one there with it, and is what is to
\* be found; and whatever is to be found has a node.
ListsInv ==
    /\ hashTable \in [0 .. HASH_TABLE_MAX_SIZE - 1 -> Seq(Strings \X Ints)]
    /\ hash_table_size \in 0 .. HASH_TABLE_MAX_SIZE
    /\ \A p \in DOMAIN hashTable : \A i \in DOMAIN hashTable[p] :
          LET node == hashTable[p][i]
          IN  StringPos(node[1]) = p /\ node[1] \in DOMAIN found /\ found[node[1]] = node[2]
    /\ \A p \in DOMAIN hashTable : \A i, j \in DOMAIN hashTable[p] :
          hashTable[p][i][1] = hashTable[p][j][1] => i = j
    /\ \A k \in DOMAIN found : k \in Strings /\ \E i \in DOMAIN List(k) : List(k)[i][1] = k

\* The place of a string is one of the table's.
LEMMA StringPosIn ==
    ASSUME NEW k \in Strings
    PROVE  StringPos(k) \in 0 .. HASH_TABLE_MAX_SIZE - 1
BY ListsAssumption DEF StringPos

\* What FirstNode finds.
LEMMA FirstNodeIs ==
    ASSUME ListsInv, NEW k \in Strings
    PROVE  /\ FirstNode(k) = 0 => \A i \in DOMAIN List(k) : List(k)[i][1] # k
           /\ FirstNode(k) # 0 => FirstNode(k) \in DOMAIN List(k) /\ List(k)[FirstNode(k)][1] = k
<1> DEFINE with == {i \in DOMAIN List(k) : List(k)[i][1] = k}
<1>1. List(k) \in Seq(Strings \X Ints) /\ StringPos(k) \in DOMAIN hashTable
  BY StringPosIn DEF ListsInv, List
<1>2. DOMAIN List(k) = 1 .. Len(List(k)) /\ Len(List(k)) \in Nat
  BY <1>1
<1>3. \A i, j \in with : i = j
  BY <1>1 DEF ListsInv, List
<1>4. FirstNode(k) = IF with = {} THEN 0 ELSE CHOOSE i \in with : \A j \in with : i <= j
  BY DEF FirstNode
<1> HIDE DEF with
<1>5. with \subseteq DOMAIN List(k) /\ \A i \in DOMAIN List(k) : i \in with <=> List(k)[i][1] = k
  BY DEF with
<1>6. CASE with = {}
  BY <1>4, <1>5, <1>6
<1>7. CASE with # {}
  <2>1. PICK w \in with : TRUE
    BY <1>7
  <2>2. w \in Nat /\ w >= 1 /\ \A j \in with : w <= j
    BY <2>1, <1>2, <1>3, <1>5
  <2>3. FirstNode(k) \in with
    BY <2>1, <2>2, <1>4, <1>7
  <2>4. FirstNode(k) \in DOMAIN List(k) /\ List(k)[FirstNode(k)][1] = k
    BY <2>3, <1>5
  <2>5. FirstNode(k) # 0
    BY <2>4, <1>2
  <2> QED
    BY <2>4, <2>5
<1> QED
  BY <1>6, <1>7

\* A node in front of a list.
LEMMA InFront ==
    ASSUME NEW S, NEW x \in S, NEW L \in Seq(S)
    PROVE  /\ <<x>> \o L \in Seq(S)
           /\ DOMAIN (<<x>> \o L) = 1 .. Len(L) + 1
           /\ \A i \in 1 .. Len(L) + 1 : (<<x>> \o L)[i] = IF i = 1 THEN x ELSE L[i - 1]
OBVIOUS

\* A list without the i-th node, which is not the first.
LEMMA ListWithoutIs ==
    ASSUME NEW S, NEW L \in Seq(S), NEW i \in 2 .. Len(L)
    PROVE  /\ ListWithout(L, i) \in Seq(S)
           /\ DOMAIN ListWithout(L, i) = 1 .. Len(L) - 1
           /\ \A j \in 1 .. Len(L) - 1 : ListWithout(L, i)[j] = IF j < i THEN L[j] ELSE L[j + 1]
<1>1. ListWithout(L, i) = SubSeq(L, 1, i - 1) \o SubSeq(L, i + 1, Len(L))
  BY DEF ListWithout, After
<1>2. i \in 1 .. Len(L)
  OBVIOUS
<1> QED
  BY <1>1, <1>2, TakenOut

\* The table starts with empty lists, and nothing to be found.
LEMMA ListsInitInv == ListsInit => ListsInv
<1> SUFFICES ASSUME ListsInit PROVE ListsInv
  OBVIOUS
<1>1. << >> \in Seq(Strings \X Ints) /\ \A i : i \notin DOMAIN << >>
  OBVIOUS
<1>2. DOMAIN found = {}
  BY DEF ListsInit
<1>3. \A p \in 0 .. HASH_TABLE_MAX_SIZE - 1 : hashTable[p] = << >>
  BY DEF ListsInit
<1>4. hashTable \in [0 .. HASH_TABLE_MAX_SIZE - 1 -> Seq(Strings \X Ints)]
  BY <1>1 DEF ListsInit
<1> QED
  BY <1>1, <1>2, <1>3, <1>4, ListsAssumption DEF ListsInit, ListsInv

\* The new node is in front of the others of its place.
LEMMA InsertLists ==
    ASSUME ListsInv, NEW str \in Strings, NEW num \in Ints, insert(str, num)
    PROVE  ListsInv'
<1> DEFINE p0 == StringPos(str)
           old == hashTable[p0]
           new == <<<<str, num>>>> \o old
<1>1. /\ hash_table_size < HASH_TABLE_MAX_SIZE
      /\ hashTable' = [hashTable EXCEPT ![p0] = new]
      /\ hash_table_size' = hash_table_size + 1
      /\ found' = [k \in DOMAIN found \cup {str} |-> IF k = str THEN num ELSE found[k]]
  BY DEF insert
<1>2. \A i \in DOMAIN old : old[i][1] # str
  BY FirstNodeIs DEF insert, List
<1>3. p0 \in 0 .. HASH_TABLE_MAX_SIZE - 1 /\ p0 = StringPos(str)
  BY StringPosIn
<1>4. old = hashTable[p0] /\ old \in Seq(Strings \X Ints)
  BY <1>3 DEF ListsInv
<1>5. /\ new \in Seq(Strings \X Ints) /\ DOMAIN new = 1 .. Len(old) + 1
      /\ \A i \in 1 .. Len(old) + 1 : new[i] = IF i = 1 THEN <<str, num>> ELSE old[i - 1]
  BY <1>4, InFront
<1>6. DOMAIN old = 1 .. Len(old) /\ Len(old) \in Nat
  BY <1>4
<1> HIDE DEF p0, old, new
<1>7. /\ hashTable \in [0 .. HASH_TABLE_MAX_SIZE - 1 -> Seq(Strings \X Ints)]
      /\ \A p \in 0 .. HASH_TABLE_MAX_SIZE - 1 :
            hashTable'[p] = IF p = p0 THEN new ELSE hashTable[p]
  BY <1>1, <1>3 DEF ListsInv
<1>8. hashTable' \in [0 .. HASH_TABLE_MAX_SIZE - 1 -> Seq(Strings \X Ints)]
  BY <1>1, <1>3, <1>5, <1>7
<1>9. hash_table_size' \in 0 .. HASH_TABLE_MAX_SIZE
  BY <1>1, ListsAssumption DEF ListsInv
<1>10. /\ DOMAIN found' = DOMAIN found \cup {str} /\ found'[str] = num
       /\ \A k \in DOMAIN found : k # str => found'[k] = found[k]
  BY <1>1
<1>11. ASSUME NEW p \in 0 .. HASH_TABLE_MAX_SIZE - 1, NEW i \in DOMAIN hashTable[p]
       PROVE  /\ StringPos(hashTable[p][i][1]) = p /\ hashTable[p][i][1] \in DOMAIN found'
              /\ found'[hashTable[p][i][1]] = hashTable[p][i][2]
  <2>1. /\ StringPos(hashTable[p][i][1]) = p /\ hashTable[p][i][1] \in DOMAIN found
        /\ found[hashTable[p][i][1]] = hashTable[p][i][2]
    BY <1>7, <1>11 DEF ListsInv
  <2>2. hashTable[p][i][1] # str
    BY <2>1, <1>2, <1>3, <1>4, <1>11
  <2> QED
    BY <2>1, <2>2, <1>10
<1>12. ASSUME NEW p \in 0 .. HASH_TABLE_MAX_SIZE - 1, NEW i \in DOMAIN hashTable'[p]
       PROVE  /\ StringPos(hashTable'[p][i][1]) = p /\ hashTable'[p][i][1] \in DOMAIN found'
              /\ found'[hashTable'[p][i][1]] = hashTable'[p][i][2]
  <2>1. CASE p # p0
    BY <2>1, <1>7, <1>11, <1>12
  <2>2. CASE p = p0 /\ i = 1
    <3>1. hashTable'[p][i] = <<str, num>>
      BY <2>2, <1>5, <1>6, <1>7, <1>12
    <3> QED
      BY <3>1, <2>2, <1>3, <1>10
  <2>3. CASE p = p0 /\ i # 1
    <3>1. hashTable'[p][i] = hashTable[p][i - 1] /\ i - 1 \in DOMAIN hashTable[p]
      BY <2>3, <1>4, <1>5, <1>6, <1>7, <1>12
    <3> QED
      BY <3>1, <1>11
  <2> QED
    BY <2>1, <2>2, <2>3
<1>13. ASSUME NEW p \in 0 .. HASH_TABLE_MAX_SIZE - 1,
              NEW i \in DOMAIN hashTable'[p], NEW j \in DOMAIN hashTable'[p],
              hashTable'[p][i][1] = hashTable'[p][j][1]
       PROVE  i = j
  <2>1. CASE p # p0
    BY <2>1, <1>7, <1>13 DEF ListsInv
  <2>2. CASE p = p0
    <3>1. /\ i \in 1 .. Len(old) + 1 /\ j \in 1 .. Len(old) + 1 /\ new[i][1] = new[j][1]
      BY <2>2, <1>5, <1>7, <1>13
    <3>2. CASE i = 1 \/ j = 1
      <4>1. new[1][1] = str /\ \A l \in 2 .. Len(old) + 1 : new[l][1] # str
        <5>1. new[1][1] = str
          BY <1>5, <1>6
        <5>2. \A l \in 2 .. Len(old) + 1 : l - 1 \in DOMAIN old /\ new[l] = old[l - 1]
          BY <1>5, <1>6
        <5> QED
          BY <5>1, <5>2, <1>2
      <4>2. (i = 1 \/ i \in 2 .. Len(old) + 1) /\ (j = 1 \/ j \in 2 .. Len(old) + 1)
        BY <3>1, <1>6
      <4> QED
        BY <4>1, <4>2, <3>1, <3>2
    <3>3. CASE i # 1 /\ j # 1
      <4>1. /\ i - 1 \in DOMAIN old /\ j - 1 \in DOMAIN old
            /\ new[i] = old[i - 1] /\ new[j] = old[j - 1]
        BY <3>1, <3>3, <1>5, <1>6
      <4>2. i - 1 = j - 1
        BY <4>1, <3>1, <1>3, <1>4, <1>7 DEF ListsInv
      <4> QED
        BY <4>2, <3>1
    <3> QED
      BY <3>2, <3>3
  <2> QED
    BY <2>1, <2>2
<1>14. ASSUME NEW k \in DOMAIN found'
       PROVE  k \in Strings /\ \E i \in DOMAIN hashTable'[StringPos(k)] :
                                  hashTable'[StringPos(k)][i][1] = k
  <2>1. CASE k = str
    <3>1. 1 \in DOMAIN new /\ new[1][1] = str
      BY <1>5, <1>6
    <3> QED
      BY <3>1, <2>1, <1>3, <1>7
  <2>2. CASE k # str
    <3>1. k \in DOMAIN found
      BY <2>2, <1>10
    <3>2. k \in Strings
      BY <3>1 DEF ListsInv
    <3>3. PICK i \in DOMAIN hashTable[StringPos(k)] : hashTable[StringPos(k)][i][1] = k
      BY <3>1 DEF ListsInv, List
    <3>4. StringPos(k) \in 0 .. HASH_TABLE_MAX_SIZE - 1
      BY <3>2, StringPosIn
    <3>5. CASE StringPos(k) # p0
      BY <3>2, <3>3, <3>4, <3>5, <1>7
    <3>6. CASE StringPos(k) = p0
      <4>1. i \in 1 .. Len(old) /\ old[i][1] = k
        BY <3>3, <3>6, <1>4, <1>6
      <4>2. i + 1 \in DOMAIN new /\ new[i + 1] = old[i]
        BY <4>1, <1>5, <1>6
      <4> QED
        BY <4>1, <4>2, <3>2, <3>4, <3>6, <1>7
    <3> QED
      BY <3>5, <3>6
  <2> QED
    BY <2>1, <2>2
<1>15. DOMAIN hashTable' = 0 .. HASH_TABLE_MAX_SIZE - 1
  BY <1>8
<1> QED
  BY <1>8, <1>9, <1>12, <1>13, <1>14, <1>15 DEF ListsInv, List, StringPos

\* What is not lost keeps its node, a place further in front if it was behind the one
\* that is removed; and the nodes that stay were not lost.
LEMMA RemoveLists ==
    ASSUME ListsInv, NEW str \in Strings, remove(str)
    PROVE  ListsInv'
<1> DEFINE p0 == StringPos(str)
           old == hashTable[p0]
           f == FirstNode(str)
           new == ListWithout(old, f)
           lost == {str} \cup (IF f = 1 THEN {old[i][1] : i \in DOMAIN old} ELSE {})
<1>1. /\ f # 0 /\ hashTable' = [hashTable EXCEPT ![p0] = new]
      /\ found' = [k \in DOMAIN found \ lost |-> found[k]]
      /\ hash_table_size' = hash_table_size
  BY DEF remove, List
<1>2. f \in DOMAIN old /\ old[f][1] = str
  BY <1>1, FirstNodeIs DEF List
<1>3. p0 \in 0 .. HASH_TABLE_MAX_SIZE - 1 /\ p0 = StringPos(str)
  BY StringPosIn
<1>4. old = hashTable[p0] /\ old \in Seq(Strings \X Ints)
  BY <1>3 DEF ListsInv
<1>5. DOMAIN old = 1 .. Len(old) /\ Len(old) \in Nat
  BY <1>4
<1>6. f = 1 => new = << >>
  BY DEF ListWithout
<1>7. f # 1 => /\ new \in Seq(Strings \X Ints) /\ DOMAIN new = 1 .. Len(old) - 1
               /\ \A j \in 1 .. Len(old) - 1 : new[j] = IF j < f THEN old[j] ELSE old[j + 1]
  <2>1. f # 1 => f \in 2 .. Len(old)
    BY <1>2, <1>5
  <2> HIDE DEF f, old
  <2> QED
    BY <2>1, <1>4, ListWithoutIs
<1>8. str \in lost /\ (f = 1 => \A i \in DOMAIN old : old[i][1] \in lost)
      /\ \A k \in lost : k = str \/ (f = 1 /\ \E i \in DOMAIN old : old[i][1] = k)
  OBVIOUS
<1> HIDE DEF p0, old, f, new, lost
<1>9. /\ hashTable \in [0 .. HASH_TABLE_MAX_SIZE - 1 -> Seq(Strings \X Ints)]
      /\ \A p \in 0 .. HASH_TABLE_MAX_SIZE - 1 :
            hashTable'[p] = IF p = p0 THEN new ELSE hashTable[p]
  BY <1>1, <1>3 DEF ListsInv
<1>10. new \in Seq(Strings \X Ints) /\ (f = 1 => DOMAIN new = {})
  <2>1. << >> \in Seq(Strings \X Ints) /\ DOMAIN << >> = {}
    OBVIOUS
  <2> QED
    BY <2>1, <1>6, <1>7, Zenon
<1>11. hashTable' \in [0 .. HASH_TABLE_MAX_SIZE - 1 -> Seq(Strings \X Ints)]
  BY <1>1, <1>3, <1>9, <1>10
\* Where a node of the new list was
<1>12. ASSUME NEW j \in DOMAIN new
       PROVE  /\ f # 1 /\ j \in 1 .. Len(old) - 1
              /\ new[j] = old[IF j < f THEN j ELSE j + 1]
              /\ (IF j < f THEN j ELSE j + 1) \in DOMAIN old \ {f}
  <2>1. f # 1 /\ j \in 1 .. Len(old) - 1
    BY <1>7, <1>10
  <2>2. CASE j < f
    BY <2>1, <2>2, <1>2, <1>5, <1>7
  <2>3. CASE ~(j < f)
    BY <2>1, <2>3, <1>2, <1>5, <1>7
  <2> QED
    BY <2>1, <2>2, <2>3
<1>13. \A i, j \in DOMAIN old : old[i][1] = old[j][1] => i = j
  BY <1>3, <1>4, <1>9 DEF ListsInv
<1>14. \A i \in DOMAIN old : StringPos(old[i][1]) = p0
  BY <1>3, <1>4, <1>9 DEF ListsInv
<1>15. \A k \in lost : StringPos(k) = p0
  BY <1>3, <1>8, <1>14
<1>16. /\ DOMAIN found' = DOMAIN found \ lost
       /\ \A k \in DOMAIN found \ lost : found'[k] = found[k]
  BY <1>1
<1>17. ASSUME NEW p \in 0 .. HASH_TABLE_MAX_SIZE - 1, NEW i \in DOMAIN hashTable[p],
              hashTable[p][i][1] \notin lost
       PROVE  /\ StringPos(hashTable[p][i][1]) = p /\ hashTable[p][i][1] \in DOMAIN found'
              /\ found'[hashTable[p][i][1]] = hashTable[p][i][2]
  <2>1. /\ StringPos(hashTable[p][i][1]) = p /\ hashTable[p][i][1] \in DOMAIN found
        /\ found[hashTable[p][i][1]] = hashTable[p][i][2]
    BY <1>9, <1>17 DEF ListsInv
  <2> QED
    BY <2>1, <1>16, <1>17
<1>18. ASSUME NEW p \in 0 .. HASH_TABLE_MAX_SIZE - 1, NEW i \in DOMAIN hashTable'[p]
       PROVE  /\ StringPos(hashTable'[p][i][1]) = p /\ hashTable'[p][i][1] \in DOMAIN found'
              /\ found'[hashTable'[p][i][1]] = hashTable'[p][i][2]
  <2>1. CASE p # p0
    <3>1. hashTable'[p] = hashTable[p]
      BY <2>1, <1>9
    <3>2. StringPos(hashTable[p][i][1]) = p
      BY <3>1, <1>9, <1>18 DEF ListsInv
    <3>3. hashTable[p][i][1] \notin lost
      BY <3>2, <2>1, <1>15
    <3> QED
      BY <3>1, <3>3, <1>17, <1>18
  <2>2. CASE p = p0
    <3> DEFINE l == IF i < f THEN i ELSE i + 1
    <3>1. f # 1 /\ hashTable'[p][i] = hashTable[p][l] /\ l \in DOMAIN old \ {f}
      BY <2>2, <1>4, <1>9, <1>12, <1>18
    <3> HIDE DEF l
    <3>2. hashTable[p][l][1] # str
      BY <3>1, <2>2, <1>2, <1>4, <1>13
    <3>3. hashTable[p][l][1] \notin lost
      BY <3>1, <3>2, <1>8
    <3>4. l \in DOMAIN hashTable[p]
      BY <3>1, <2>2, <1>4
    <3> QED
      BY <3>1, <3>3, <3>4, <1>17
  <2> QED
    BY <2>1, <2>2
<1>19. ASSUME NEW p \in 0 .. HASH_TABLE_MAX_SIZE - 1,
              NEW i \in DOMAIN hashTable'[p], NEW j \in DOMAIN hashTable'[p],
              hashTable'[p][i][1] = hashTable'[p][j][1]
       PROVE  i = j
  <2>1. CASE p # p0
    BY <2>1, <1>9, <1>19 DEF ListsInv
  <2>2. CASE p = p0
    <3>1. i \in DOMAIN new /\ j \in DOMAIN new /\ new[i][1] = new[j][1]
      BY <2>2, <1>9, <1>19
    <3>2. (IF i < f THEN i ELSE i + 1) = (IF j < f THEN j ELSE j + 1)
      BY <3>1, <1>12, <1>13
    <3>3. f \in Nat /\ i \in Nat /\ j \in Nat
      BY <3>1, <1>2, <1>5, <1>12
    <3> QED
      BY <3>2, <3>3
  <2> QED
    BY <2>1, <2>2
<1>20. ASSUME NEW k \in DOMAIN found'
       PROVE  k \in Strings /\ \E i \in DOMAIN hashTable'[StringPos(k)] :
                                  hashTable'[StringPos(k)][i][1] = k
  <2>1. k \in DOMAIN found /\ k \notin lost
    BY <1>16
  <2>2. k \in Strings
    BY <2>1 DEF ListsInv
  <2>3. PICK i \in DOMAIN hashTable[StringPos(k)] : hashTable[StringPos(k)][i][1] = k
    BY <2>1 DEF ListsInv, List
  <2>4. StringPos(k) \in 0 .. HASH_TABLE_MAX_SIZE - 1
    BY <2>2, StringPosIn
  <2>5. CASE StringPos(k) # p0
    BY <2>2, <2>3, <2>4, <2>5, <1>9
  <2>6. CASE StringPos(k) = p0
    <3>1. i \in DOMAIN old /\ old[i][1] = k
      BY <2>3, <2>6, <1>4
    <3>2. f # 1 /\ i # f
      BY <3>1, <2>1, <1>2, <1>8
    <3>3. i \in Nat /\ f \in 1 .. Len(old) /\ i \in 1 .. Len(old)
      BY <3>1, <1>2, <1>5
    <3>4. PICK j \in 1 .. Len(old) - 1 : j = IF i < f THEN i ELSE i - 1
      BY <3>2, <3>3, <1>5
    <3>5. (IF j < f THEN j ELSE j + 1) = i
      BY <3>2, <3>3, <3>4
    <3>6. j \in DOMAIN new /\ new[j] = old[i]
      <4>1. j \in DOMAIN new
        BY <3>2, <1>7
      <4> QED
        BY <4>1, <3>5, <1>12
    <3> QED
      BY <3>1, <3>6, <2>2, <2>4, <2>6, <1>9
  <2> QED
    BY <2>5, <2>6
<1>21. DOMAIN hashTable' = 0 .. HASH_TABLE_MAX_SIZE - 1
  BY <1>11
<1> QED
  BY <1>1, <1>11, <1>18, <1>19, <1>20, <1>21 DEF ListsInv, List, StringPos

\* Every call keeps the invariant.
LEMMA ListsStep == ListsInv /\ [ListsNext]_listsVars => ListsInv'
<1> SUFFICES ASSUME ListsInv, [ListsNext]_listsVars PROVE ListsInv'
  OBVIOUS
<1>1. CASE UNCHANGED listsVars
  BY <1>1 DEF listsVars, ListsInv, List, StringPos
<1> QED
  BY <1>1, InsertLists, RemoveLists DEF ListsNext

\* ListsSpec keeps the invariant.
LEMMA ListsInvKept == ListsSpec => []ListsInv
BY ListsInitInv, ListsStep, PTL DEF ListsSpec

\* The lists of a table of any size hold keys and values, and the size stays in it.
THEOREM ListsTypeCorrect == ListsSpec => []ListsTypeOK
<1>1. ListsInv => ListsTypeOK
  BY DEF ListsInv, ListsTypeOK
<1> QED
  BY <1>1, ListsInvKept, PTL

\* insert, lookup and remove: what lookup finds is what was inserted and has not been
\* lost since, whatever the strings hash to and however long the lists are.
THEOREM StringsAreFound == ListsSpec => []ListsFound
<1>1. ListsInv => ListsFound
  <2> SUFFICES ASSUME ListsInv, NEW str \in Strings
               PROVE  lookup(str) = IF str \in DOMAIN found THEN <<str, found[str]>> ELSE NoNode
    BY DEF ListsFound
  <2>1. List(str) \in Seq(Strings \X Ints) /\ StringPos(str) \in DOMAIN hashTable
    BY StringPosIn DEF ListsInv, List
  <2>2. CASE FirstNode(str) = 0
    <3>1. str \notin DOMAIN found
      BY <2>2, FirstNodeIs DEF ListsInv
    <3> QED
      BY <3>1, <2>2 DEF lookup
  <2>3. CASE FirstNode(str) # 0
    <3>1. FirstNode(str) \in DOMAIN List(str) /\ List(str)[FirstNode(str)][1] = str
      BY <2>3, FirstNodeIs
    <3>2. List(str)[FirstNode(str)] \in Strings \X Ints
      BY <3>1, <2>1
    <3>3. str \in DOMAIN found /\ found[str] = List(str)[FirstNode(str)][2]
      BY <3>1, <2>1 DEF ListsInv, List
    <3> QED
      BY <3>1, <3>2, <3>3, <2>3 DEF lookup
  <2> QED
    BY <2>2, <2>3
<1> QED
  BY <1>1, ListsInvKept, PTL

-----------------------------------------------------------------------------
(* The memory pool *)

\* A list is what pNext makes of it from head to tail, once round.
ListIs(next, list, head, tail) ==
    /\ head = IF list = << >> THEN NoBlock ELSE list[1]
    /\ list # << >> => tail = list[Len(list)]
    /\ \A i \in DOMAIN list : next[list[i]] = IF i = Len(list) THEN NoBlock ELSE list[i + 1]
    /\ \A i, j \in DOMAIN list : list[i] = list[j] => i = j

\* A pool of p.count blocks: its links, its free list from p.head to p.tail, and
\* the used list of the state.
Good(p) ==
    /\ p.count \in Nat /\ blocks <= p.count
    /\ p.next \in [1 .. p.count -> 0 .. p.count] /\ p.prev \in [1 .. p.count -> 0 .. p.count]
    /\ p.head \in 0 .. p.count /\ p.tail \in 0 .. p.count
    /\ p.list \in Seq(1 .. p.count)
    /\ ListIs(p.next, p.list, p.head, p.tail)
    /\ ListIs(p.next, usedList, usedHead, usedTail)
    /\ \A i \in DOMAIN usedList : p.prev[usedList[i]] = IF i = 1 THEN NoBlock ELSE usedList[i - 1]
    /\ \A i \in DOMAIN p.list, j \in DOMAIN usedList : p.list[i] # usedList[j]
    /\ \A b \in 1 .. p.count : \/ \E i \in DOMAIN p.list : b = p.list[i]
                               \/ \E j \in DOMAIN usedList : b = usedList[j]
    /\ freeCount = (Len(p.list) - (p.count - blockCount)) % CountRange

\* Until a list is broken the pool is good; and nothing was used before the used list
\* got its first block.
PoolInv ==
    /\ PoolTypeOK
    /\ ~broken => /\ Good(Unchained)
                  /\ usedList = << >> => usedTail = NoBlock

\* What a good pool is in the terms of the property.
LEMMA GoodIsKept == PoolInv => PoolKept
<1> SUFFICES ASSUME PoolInv, ~broken PROVE PoolKept
  BY DEF PoolKept
<1>1. Good(Unchained)
  BY DEF PoolInv
<1>2. /\ ListIs(pNext, freeList, freeHead, freeTail)
      /\ ListIs(pNext, usedList, usedHead, usedTail)
      /\ \A i \in DOMAIN usedList : pPrev[usedList[i]] = IF i = 1 THEN NoBlock ELSE usedList[i - 1]
      /\ \A i \in DOMAIN freeList, j \in DOMAIN usedList : freeList[i] # usedList[j]
      /\ \A b \in 1 .. blocks : \/ \E i \in DOMAIN freeList : b = freeList[i]
                                \/ \E j \in DOMAIN usedList : b = usedList[j]
      /\ freeCount = (Len(freeList) - (blocks - blockCount)) % CountRange
  BY <1>1 DEF Good, Unchained
<1>3. freeList \in Seq(Blocks) /\ usedList \in Seq(Blocks)
  BY DEF PoolInv, PoolTypeOK
<1>4. Members(freeList) \cap Members(usedList) = {}
  BY <1>2 DEF Members
<1>5. Members(freeList) \cup Members(usedList) = Blocks
  <2>1. Members(freeList) \subseteq Blocks /\ Members(usedList) \subseteq Blocks
    BY <1>3 DEF Members
  <2> QED
    BY <2>1, <1>2 DEF Members, Blocks
<1>6. ASSUME blocks = blockCount PROVE freeCount = Len(freeList)
  <2>1. blocks \in Nat /\ blocks < CountRange /\ CountRange \in Nat \ {0} /\ Len(freeList) \in Nat
    BY <1>3, <1>6, PoolAssumption
  <2>2. freeList \in Injection(1 .. Len(freeList), Blocks)
    <3>1. freeList \in [1 .. Len(freeList) -> Blocks]
      BY <1>3
    <3>2. \A i, j \in 1 .. Len(freeList) : freeList[i] = freeList[j] => i = j
      BY <1>2, <1>3 DEF ListIs
    <3> QED
      BY <3>1, <3>2 DEF Injection, IsInjective
  <2>3. /\ IsFiniteSet(Blocks) /\ Cardinality(Blocks) = blocks
        /\ Cardinality(1 .. Len(freeList)) = Len(freeList)
    <3>1. IsFiniteSet(1 .. blocks) /\ Cardinality(1 .. blocks) = blocks
      BY <2>1, FS_Interval
    <3>2. Cardinality(1 .. Len(freeList)) = Len(freeList)
      <4>1. Cardinality(1 .. Len(freeList)) =
                IF 1 > Len(freeList) THEN 0 ELSE Len(freeList) - 1 + 1
        BY <2>1, FS_Interval
      <4> QED
        BY <2>1, <4>1
    <3> QED
      BY <3>1, <3>2 DEF Blocks
  <2>4. Cardinality(1 .. Len(freeList)) <= Cardinality(Blocks)
    BY <2>2, <2>3, FS_Injection
  <2>5. Len(freeList) % CountRange = Len(freeList) /\ blocks - blockCount = 0
    BY <1>6, <2>1, <2>3, <2>4
  <2> QED
    BY <1>2, <2>1, <2>5
<1> QED
  BY <1>2, <1>4, <1>5, <1>6 DEF PoolKept, Linked, ListIs

\* The types of a grown pool.
LEMMA ChainedTypes ==
    ASSUME PoolTypeOK
    PROVE  LET p == Chained(blockCountStep, freeTail)
           IN  /\ p.count \in Nat /\ blocks <= p.count /\ p.count = blocks + blockCountStep
               /\ p.next \in [1 .. p.count -> 0 .. p.count]
               /\ p.prev \in [1 .. p.count -> 0 .. p.count]
               /\ p.head \in 1 .. p.count /\ p.tail \in 1 .. p.count
               /\ p.list \in Seq(1 .. p.count) /\ Len(p.list) = blockCountStep
               /\ p.list = [i \in 1 .. blockCountStep |-> blocks + i]
<1> DEFINE p == Chained(blockCountStep, freeTail)
           n == blockCountStep
           m == blocks
<1>1. n \in Nat \ {0} /\ m \in Nat /\ Blocks = 1 .. m
  BY PoolAssumption DEF PoolTypeOK, Blocks
<1>2. /\ p.count = m + n /\ p.head = m + 1 /\ p.tail = m + n
      /\ p.list = [i \in 1 .. n |-> m + i]
  BY DEF Chained
<1>3. p.next = [b \in 1 .. m + n |-> IF b \in Blocks THEN pNext[b]
                                     ELSE IF b = m + n THEN NoBlock ELSE b + 1]
  BY DEF Chained
<1>4. p.prev = [b \in 1 .. m + n |-> IF b \in Blocks THEN pPrev[b]
                                     ELSE IF b = m + 1 THEN freeTail ELSE b - 1]
  BY DEF Chained
<1>5. /\ \A b \in Blocks : pNext[b] \in 0 .. m /\ pPrev[b] \in 0 .. m
      /\ freeTail \in 0 .. m
  BY <1>1 DEF PoolTypeOK, NoBlock
<1> HIDE DEF p, n, m
<1>6. p.next \in [1 .. m + n -> 0 .. m + n]
  <2>1. ASSUME NEW b \in 1 .. m + n
        PROVE  (IF b \in Blocks THEN pNext[b] ELSE IF b = m + n THEN NoBlock ELSE b + 1)
                   \in 0 .. m + n
    BY <1>1, <1>5 DEF NoBlock
  <2> QED
    BY <2>1, <1>3
<1>7. p.prev \in [1 .. m + n -> 0 .. m + n]
  <2>1. ASSUME NEW b \in 1 .. m + n
        PROVE  (IF b \in Blocks THEN pPrev[b] ELSE IF b = m + 1 THEN freeTail ELSE b - 1)
                   \in 0 .. m + n
    BY <1>1, <1>5
  <2> QED
    BY <2>1, <1>4
<1>8. p.list \in Seq(1 .. m + n) /\ Len(p.list) = n
  <2>1. \A i \in 1 .. n : m + i \in 1 .. m + n
    BY <1>1
  <2>2. [i \in 1 .. n |-> m + i] \in [1 .. n -> 1 .. m + n]
    BY <2>1
  <2> QED
    BY <2>2, <1>1, <1>2
<1> QED
  BY <1>1, <1>2, <1>6, <1>7, <1>8 DEF p, n, m

\* A pool whose free list is empty is good, once it has grown.
LEMMA GoodGrown ==
    ASSUME PoolTypeOK, Good(Unchained), freeHead = NoBlock
    PROVE  Good(Chained(blockCountStep, freeTail))
<1> DEFINE p == Chained(blockCountStep, freeTail)
           n == blockCountStep
           m == blocks
<1>1. n \in Nat \ {0} /\ m \in Nat /\ Blocks = 1 .. m /\ blockCount \in Nat
  BY PoolAssumption DEF PoolTypeOK, Blocks
<1>2. /\ p.count = m + n /\ p.head = m + 1 /\ p.tail = m + n
      /\ p.list = [i \in 1 .. n |-> m + i]
      /\ \A b \in 1 .. m + n : p.next[b] = IF b \in Blocks THEN pNext[b]
                                           ELSE IF b = m + n THEN NoBlock ELSE b + 1
      /\ \A b \in Blocks : p.prev[b] = pPrev[b]
  BY <1>1 DEF Chained
<1>3. /\ p.count \in Nat /\ blocks <= p.count
      /\ p.next \in [1 .. p.count -> 0 .. p.count]
      /\ p.prev \in [1 .. p.count -> 0 .. p.count]
      /\ p.head \in 0 .. p.count /\ p.tail \in 0 .. p.count
      /\ p.list \in Seq(1 .. p.count) /\ Len(p.list) = n
  BY ChainedTypes
<1>4. /\ ListIs(pNext, freeList, freeHead, freeTail)
      /\ ListIs(pNext, usedList, usedHead, usedTail)
      /\ \A i \in DOMAIN usedList : pPrev[usedList[i]] = IF i = 1 THEN NoBlock ELSE usedList[i - 1]
      /\ \A b \in 1 .. m : \/ \E i \in DOMAIN freeList : b = freeList[i]
                           \/ \E j \in DOMAIN usedList : b = usedList[j]
      /\ freeCount = (Len(freeList) - (m - blockCount)) % CountRange
  BY DEF Good, Unchained
<1>5. freeList \in Seq(1 .. m) /\ usedList \in Seq(1 .. m)
  BY <1>1 DEF PoolTypeOK
<1> HIDE DEF p, n, m
<1>6. freeList = << >>
  <2>0. /\ Len(freeList) \in Nat /\ \A i \in 1 .. Len(freeList) : freeList[i] \in 1 .. m
        /\ freeList = << >> <=> Len(freeList) = 0
    BY <1>5, Elements, Zenon
  <2>1. freeList # << >> => 1 \in 1 .. Len(freeList) /\ freeList[1] \in 1 .. m
    BY <2>0
  <2> QED
    BY <2>1, <1>1, <1>4 DEF ListIs, NoBlock
<1>7. ListIs(p.next, p.list, p.head, p.tail)
  <2>0. p.list # << >>
    BY <1>1, <1>3, Elements
  <2>1. p.list # << >> /\ p.list[1] = m + 1 /\ p.list[n] = m + n
    BY <2>0, <1>1, <1>2
  <2>2. ASSUME NEW i \in 1 .. n
        PROVE  p.next[p.list[i]] = IF i = n THEN NoBlock ELSE p.list[i + 1]
    <3>1. p.list[i] = m + i /\ m + i \in 1 .. m + n /\ m + i \notin Blocks
      BY <1>1, <1>2
    <3>2. i # n => p.list[i + 1] = m + i + 1
      BY <1>1, <1>2
    <3> QED
      BY <3>1, <3>2, <1>1, <1>2
  <2>3. \A i, j \in 1 .. n : p.list[i] = p.list[j] => i = j
    BY <1>1, <1>2
  <2>4. DOMAIN p.list = 1 .. n
    BY <1>2
  <2> QED
    BY <2>1, <2>2, <2>3, <2>4, <1>2, <1>3 DEF ListIs
<1>8. ListIs(p.next, usedList, usedHead, usedTail)
  <2>1. \A i \in DOMAIN usedList : usedList[i] \in Blocks /\ usedList[i] \in 1 .. m + n
    BY <1>1, <1>5
  <2>2. \A i \in DOMAIN usedList : p.next[usedList[i]] = pNext[usedList[i]]
    BY <2>1, <1>2
  <2> HIDE DEF NoBlock
  <2> QED
    BY <2>2, <1>4 DEF ListIs
<1>9. \A i \in DOMAIN usedList : p.prev[usedList[i]] = IF i = 1 THEN NoBlock ELSE usedList[i - 1]
  <2>1. \A i \in DOMAIN usedList : usedList[i] \in Blocks
    BY <1>1, <1>5
  <2> QED
    BY <2>1, <1>2, <1>4
<1>10. \A i \in DOMAIN p.list, j \in DOMAIN usedList : p.list[i] # usedList[j]
  <2>1. \A i \in DOMAIN p.list : p.list[i] = m + i /\ i \in 1 .. n
    BY <1>2
  <2>2. \A j \in DOMAIN usedList : usedList[j] \in 1 .. m
    BY <1>5, Elements
  <2> QED
    BY <2>1, <2>2, <1>1
<1>11. ASSUME NEW b \in 1 .. p.count
       PROVE  \/ \E i \in DOMAIN p.list : b = p.list[i]
              \/ \E j \in DOMAIN usedList : b = usedList[j]
  <2>1. CASE b <= m
    <3>1. b \in 1 .. m /\ DOMAIN freeList = {}
      BY <2>1, <1>1, <1>2, <1>6
    <3> QED
      BY <3>1, <1>4
  <2>2. CASE ~(b <= m)
    <3>1. b - m \in 1 .. n /\ p.list[b - m] = b
      BY <2>2, <1>1, <1>2
    <3>2. DOMAIN p.list = 1 .. n
      BY <1>2
    <3> QED
      BY <3>1, <3>2
  <2> QED
    BY <2>1, <2>2
<1>12. Len(freeList) - (m - blockCount) = Len(p.list) - (p.count - blockCount)
  <2>1. Len(freeList) = 0
    BY <1>6
  <2> QED
    BY <2>1, <1>1, <1>2, <1>3
<1> QED
  BY <1>3, <1>4, <1>7, <1>8, <1>9, <1>10, <1>11, <1>12 DEF Good, p

\* The first block of a good pool goes behind the used ones.
LEMMA GoodTaken ==
    ASSUME NEW p, Good(p), PoolTypeOK, p.head # NoBlock,
           usedList = << >> => usedTail = NoBlock,
           Taken(p)
    PROVE  Good(Unchained)' /\ usedList' # << >>
<1> DEFINE F == p.list
           U == usedList
           block == p.head
           next == [p.next EXCEPT ![block] = NoBlock]
           F2 == SubSeq(F, 2, Len(F))
           U2 == Append(U, block)
           m == p.count
<1>1. /\ freeHead' = p.next[block] /\ freeTail' = p.tail
      /\ freeCount' = (freeCount - 1) % CountRange
      /\ pPrev' = [p.prev EXCEPT ![block] = usedTail] /\ usedTail' = block
      /\ IF usedHead = NoBlock
         THEN usedHead' = block /\ pNext' = next
         ELSE pNext' = [next EXCEPT ![usedTail] = block] /\ usedHead' = usedHead
      /\ usedList' = U2 /\ freeList' = F2 /\ blocks' = m
  BY DEF Taken
<1>2. /\ m \in Nat /\ blocks <= m
      /\ p.next \in [1 .. m -> 0 .. m] /\ p.prev \in [1 .. m -> 0 .. m]
      /\ block \in 0 .. m /\ p.tail \in 0 .. m /\ F \in Seq(1 .. m)
  BY DEF Good
<1>a. /\ block = IF F = << >> THEN NoBlock ELSE F[1]
      /\ F # << >> => p.tail = F[Len(F)]
      /\ \A i \in DOMAIN F : p.next[F[i]] = IF i = Len(F) THEN NoBlock ELSE F[i + 1]
      /\ \A i, j \in DOMAIN F : F[i] = F[j] => i = j
  BY DEF Good, ListIs
<1>b. /\ usedHead = IF U = << >> THEN NoBlock ELSE U[1]
      /\ U # << >> => usedTail = U[Len(U)]
      /\ \A i \in DOMAIN U : p.next[U[i]] = IF i = Len(U) THEN NoBlock ELSE U[i + 1]
      /\ \A i, j \in DOMAIN U : U[i] = U[j] => i = j
  BY DEF Good, ListIs
<1>c. \A i \in DOMAIN U : p.prev[U[i]] = IF i = 1 THEN NoBlock ELSE U[i - 1]
  BY DEF Good
<1>d. \A i \in DOMAIN F, j \in DOMAIN U : F[i] # U[j]
  BY DEF Good
<1>e. \A b \in 1 .. m : (\E i \in DOMAIN F : b = F[i]) \/ \E j \in DOMAIN U : b = U[j]
  BY DEF Good
<1>f. freeCount = (Len(F) - (m - blockCount)) % CountRange
  BY DEF Good
<1>g. block # NoBlock /\ (U = << >> => usedTail = NoBlock)
  OBVIOUS
<1>3. /\ U \in Seq(1 .. m) /\ blocks \in Nat /\ blockCount \in Nat /\ CountRange \in Nat \ {0}
  <2>1. U \in Seq(1 .. blocks) /\ blocks \in Nat
    BY PoolAssumption DEF PoolTypeOK, Blocks
  <2>2. 1 .. blocks \subseteq 1 .. m
    BY <2>1, <1>2
  <2>3. U \in Seq(1 .. m)
    BY <2>1, <2>2, SeqSubset
  <2> QED
    BY <2>1, <2>3, PoolAssumption
<1> HIDE DEF F, U, block, F2, U2, m
<1>4. /\ Len(F) \in Nat /\ DOMAIN F = 1 .. Len(F) /\ \A i \in 1 .. Len(F) : F[i] \in 1 .. m
      /\ F = << >> <=> Len(F) = 0
  BY <1>2, Elements, Zenon
<1>5. /\ Len(U) \in Nat /\ DOMAIN U = 1 .. Len(U) /\ \A i \in 1 .. Len(U) : U[i] \in 1 .. m
      /\ U = << >> <=> Len(U) = 0
  BY <1>3, Elements, Zenon
<1>n. Len(F) \in Nat /\ Len(U) \in Nat
  BY <1>4, <1>5
<1>6. /\ Len(F) >= 1 /\ block = F[1] /\ block \in 1 .. m /\ p.tail = F[Len(F)]
  <2>1. F # << >>
    BY <1>a, <1>g
  <2>2. Len(F) >= 1
    BY <2>1, <1>4
  <2> QED
    BY <2>1, <2>2, <1>a, <1>4
<1>7. /\ F2 \in Seq(1 .. m) /\ Len(F2) = Len(F) - 1 /\ DOMAIN F2 = 1 .. Len(F) - 1
      /\ \A i \in 1 .. Len(F) - 1 : F2[i] = F[i + 1]
  <2>1. \A i \in 2 .. Len(F) : F[i] \in 1 .. m
    BY <1>4
  <2> QED
    BY <1>2, <1>4, <1>6, <2>1 DEF F2
<1>8. /\ U2 \in Seq(1 .. m) /\ Len(U2) = Len(U) + 1 /\ DOMAIN U2 = 1 .. Len(U) + 1
      /\ \A i \in 1 .. Len(U) + 1 : U2[i] = IF i = Len(U) + 1 THEN block ELSE U[i]
  BY <1>3, <1>5, <1>6 DEF U2
<1>9. (F2 = << >> <=> Len(F2) = 0) /\ U2 # << >>
  <2>1. (F2 = << >> <=> Len(F2) = 0) /\ (U2 = << >> <=> Len(U2) = 0)
    BY <1>7, <1>8, Elements, Zenon
  <2> QED
    BY <2>1, <1>5, <1>8
\* The links: of the block, of the last used one, of the others
<1>10. /\ next \in [1 .. m -> 0 .. m] /\ next[block] = NoBlock
       /\ \A b \in 1 .. m : b # block => next[b] = p.next[b]
  BY <1>2, <1>6 DEF NoBlock, m
<1> HIDE DEF next
<1>11. /\ Len(U) = 0 <=> usedHead = NoBlock
       /\ Len(U) # 0 => usedTail = U[Len(U)] /\ usedTail \in 1 .. m /\ usedTail # block
       /\ Len(U) = 0 => usedTail = NoBlock
  <2>1. Len(U) # 0 => usedHead = U[1] /\ usedTail = U[Len(U)] /\ 1 \in 1 .. Len(U) /\ Len(U) \in 1 .. Len(U)
    BY <1>b, <1>5
  <2>2. Len(U) # 0 => usedHead \in 1 .. m /\ usedTail \in 1 .. m
    BY <2>1, <1>5
  <2>3. Len(U) = 0 => usedHead = NoBlock /\ usedTail = NoBlock
    BY <1>b, <1>g, <1>5
  <2>4. Len(U) # 0 => usedTail # block
    BY <2>1, <1>d, <1>4, <1>5, <1>6
  <2> QED
    BY <2>1, <2>2, <2>3, <2>4, <1>2 DEF NoBlock
<1>12. /\ pNext' \in [1 .. m -> 0 .. m] /\ pNext'[block] = NoBlock
       /\ Len(U) # 0 => pNext'[usedTail] = block
       /\ \A b \in 1 .. m : b # block /\ b # usedTail => pNext'[b] = p.next[b]
  <2>1. CASE usedHead = NoBlock
    BY <2>1, <1>1, <1>6, <1>10, <1>11
  <2>2. CASE usedHead # NoBlock
    <3>1. pNext' = [next EXCEPT ![usedTail] = block] /\ usedTail \in 1 .. m /\ usedTail # block
      BY <2>2, <1>1, <1>11
    <3> QED
      BY <3>1, <1>6, <1>10
  <2> QED
    BY <2>1, <2>2
<1>13. /\ pPrev' \in [1 .. m -> 0 .. m] /\ pPrev'[block] = usedTail
       /\ \A b \in 1 .. m : b # block => pPrev'[b] = p.prev[b]
  <2>1. usedTail \in 0 .. m
    BY <1>2, <1>5, <1>11 DEF NoBlock
  <2>2. pPrev' = [p.prev EXCEPT ![block] = usedTail]
    BY <1>1
  <2> QED
    BY <2>1, <2>2, <1>2, <1>6
<1>14. ListIs(pNext', F2, freeHead', freeTail')
  <2>1. ASSUME NEW i \in 1 .. Len(F) - 1
        PROVE  pNext'[F2[i]] = IF i = Len(F) - 1 THEN NoBlock ELSE F2[i + 1]
    <3>1. F2[i] = F[i + 1] /\ i + 1 \in 1 .. Len(F) /\ 1 \in 1 .. Len(F)
      BY <1>4, <1>6, <1>7
    <3>2. F[i + 1] # block /\ F[i + 1] \in 1 .. m
      <4>1. i + 1 \in DOMAIN F /\ 1 \in DOMAIN F /\ i + 1 # 1
        BY <3>1, <1>4
      <4>2. F[i + 1] # F[1]
        BY <4>1, <1>a
      <4>3. F[i + 1] \in 1 .. m
        BY <3>1, <1>4
      <4> QED
        BY <4>2, <4>3, <1>6
    <3>3. Len(U) # 0 => F[i + 1] # usedTail
      BY <3>1, <1>d, <1>4, <1>5, <1>b
    <3>4. F[i + 1] # usedTail
      BY <3>2, <3>3, <1>11 DEF NoBlock
    <3>5. pNext'[F[i + 1]] = p.next[F[i + 1]]
      BY <3>2, <3>4, <1>12
    <3>6. p.next[F[i + 1]] = IF i + 1 = Len(F) THEN NoBlock ELSE F[(i + 1) + 1]
      BY <3>1, <1>a, <1>4
    <3>7. CASE i = Len(F) - 1
      BY <3>1, <3>5, <3>6, <3>7, <1>4
    <3>8. CASE i # Len(F) - 1
      <4>0. i + 1 \in 1 .. Len(F) - 1 /\ i + 1 # Len(F)
        BY <3>8, <1>n
      <4>1. F2[i + 1] = F[(i + 1) + 1] /\ i + 1 # Len(F)
        BY <4>0, <1>7
      <4> QED
        BY <4>1, <3>1, <3>5, <3>6, <3>8
    <3> QED
      BY <3>7, <3>8
  <2>2. p.next[block] = IF Len(F) = 1 THEN NoBlock ELSE F[2]
    BY <1>a, <1>4, <1>6
  <2>3. freeHead' = IF F2 = << >> THEN NoBlock ELSE F2[1]
    BY <2>2, <1>1, <1>4, <1>6, <1>7, <1>9
  <2>4. F2 # << >> => freeTail' = F2[Len(F2)]
    BY <1>1, <1>4, <1>6, <1>7, <1>9
  <2>5. \A i, j \in 1 .. Len(F) - 1 : F2[i] = F2[j] => i = j
    <3> SUFFICES ASSUME NEW i \in 1 .. Len(F) - 1, NEW j \in 1 .. Len(F) - 1, F2[i] = F2[j]
                 PROVE  i = j
      OBVIOUS
    <3>1. i + 1 \in DOMAIN F /\ j + 1 \in DOMAIN F /\ F[i + 1] = F[j + 1]
      BY <1>4, <1>7
    <3>2. i + 1 = j + 1
      BY <3>1, <1>a
    <3> QED
      BY <3>2, <1>4
  <2> QED
    BY <2>1, <2>3, <2>4, <2>5, <1>7 DEF ListIs
<1>15. ListIs(pNext', U2, usedHead', usedTail')
  <2>1. ASSUME NEW i \in 1 .. Len(U) + 1
        PROVE  pNext'[U2[i]] = IF i = Len(U) + 1 THEN NoBlock ELSE U2[i + 1]
    <3>1. CASE i = Len(U) + 1
      BY <3>1, <1>8, <1>12
    <3>2. CASE i = Len(U)
      BY <3>2, <2>1, <1>5, <1>8, <1>11, <1>12
    <3>3. CASE i < Len(U)
      <4>1. U2[i] = U[i] /\ i \in DOMAIN U /\ U2[i + 1] = U[i + 1] /\ Len(U) \in DOMAIN U
        BY <3>3, <1>5, <1>8
      <4>2. U[i] # block
        <5>1. 1 \in DOMAIN F
          BY <1>4, <1>6
        <5>2. F[1] # U[i]
          BY <5>1, <4>1, <1>d
        <5> QED
          BY <5>2, <1>6
      <4>3. U[i] # usedTail
        BY <4>1, <3>3, <1>b, <1>5
      <4>4. pNext'[U[i]] = p.next[U[i]]
        BY <4>1, <4>2, <4>3, <1>5, <1>12
      <4>5. p.next[U[i]] = U[i + 1]
        BY <4>1, <3>3, <1>b, <1>5
      <4> QED
        BY <4>1, <4>4, <4>5, <3>3, <1>5
    <3>4. i = Len(U) + 1 \/ i = Len(U) \/ i < Len(U)
      BY <1>n
    <3> QED
      BY <3>1, <3>2, <3>3, <3>4, Zenon
  <2>2. usedHead' = U2[1]
    <3>1. CASE Len(U) = 0
      BY <3>1, <1>1, <1>8, <1>11
    <3>2. CASE Len(U) # 0
      BY <3>2, <1>1, <1>b, <1>5, <1>8, <1>11
    <3> QED
      BY <3>1, <3>2
  <2>3. usedTail' = U2[Len(U2)]
    BY <1>1, <1>5, <1>8
  <2>4. ASSUME NEW i \in 1 .. Len(U) + 1, NEW j \in 1 .. Len(U) + 1, U2[i] = U2[j]
        PROVE  i = j
    <3>1. \A k \in DOMAIN U : U[k] # block
      BY <1>d, <1>4, <1>6
    <3>2. \A k, l \in DOMAIN U : U[k] = U[l] => k = l
      BY <1>b
    <3> QED
      BY <3>1, <3>2, <2>4, <1>5, <1>8
  <2> QED
    BY <2>1, <2>2, <2>3, <2>4, <1>8, <1>9 DEF ListIs
<1>16. ASSUME NEW i \in 1 .. Len(U) + 1
       PROVE  pPrev'[U2[i]] = IF i = 1 THEN NoBlock ELSE U2[i - 1]
  <2>1. CASE i = Len(U) + 1
    BY <2>1, <1>5, <1>8, <1>11, <1>13
  <2>2. CASE i # Len(U) + 1
    <3>1. i \in DOMAIN U /\ U2[i] = U[i] /\ (i # 1 => U2[i - 1] = U[i - 1])
      BY <2>2, <1>5, <1>8
    <3>2. U[i] # block /\ U[i] \in 1 .. m
      BY <3>1, <1>d, <1>4, <1>5, <1>6
    <3> QED
      BY <3>1, <3>2, <1>c, <1>13
  <2> QED
    BY <2>1, <2>2
<1>17. \A i \in DOMAIN F2, j \in DOMAIN U2 : F2[i] # U2[j]
  <2> SUFFICES ASSUME NEW i \in 1 .. Len(F) - 1, NEW j \in 1 .. Len(U) + 1 PROVE F2[i] # U2[j]
    BY <1>7, <1>8
  <2>1. F2[i] = F[i + 1] /\ i + 1 \in DOMAIN F /\ 1 \in DOMAIN F /\ i + 1 # 1
    BY <1>4, <1>6, <1>7
  <2>2. F[i + 1] # F[1]
    BY <2>1, <1>a
  <2> QED
    BY <2>1, <2>2, <1>d, <1>5, <1>6, <1>8
<1>18. ASSUME NEW b \in 1 .. m
       PROVE  (\E i \in DOMAIN F2 : b = F2[i]) \/ \E j \in DOMAIN U2 : b = U2[j]
  <2>1. CASE b = block
    <3>1. Len(U) + 1 \in DOMAIN U2 /\ U2[Len(U) + 1] = block
      BY <1>5, <1>8
    <3> QED
      BY <3>1, <2>1
  <2>2. ASSUME b # block, NEW i \in DOMAIN F, b = F[i] PROVE \E k \in DOMAIN F2 : b = F2[k]
    <3>1. i - 1 \in DOMAIN F2 /\ F2[i - 1] = F[i]
      BY <2>2, <1>4, <1>6, <1>7
    <3> QED
      BY <3>1, <2>2
  <2>3. ASSUME NEW j \in DOMAIN U, b = U[j] PROVE \E k \in DOMAIN U2 : b = U2[k]
    <3>1. j \in DOMAIN U2 /\ U2[j] = U[j]
      BY <1>5, <1>8
    <3> QED
      BY <3>1, <2>3
  <2> QED
    BY <2>1, <2>2, <2>3, <1>e
<1>19. freeCount' = (Len(F2) - (m - blockCount)) % CountRange
  <2>0. Len(F) - (m - blockCount) \in Int /\ -1 \in Int
    BY <1>2, <1>3, <1>4
  <2>1. (((Len(F) - (m - blockCount)) % CountRange) + (-1)) % CountRange
            = ((Len(F) - (m - blockCount)) + (-1)) % CountRange
    BY <2>0, <1>3, CountOn, Zenon
  <2>2. (Len(F) - (m - blockCount)) + (-1) = Len(F2) - (m - blockCount)
    BY <1>2, <1>3, <1>4, <1>7
  <2>3. freeCount' = (freeCount + (-1)) % CountRange
    <3>1. freeCount \in Int
      BY DEF PoolTypeOK
    <3>2. freeCount - 1 = freeCount + (-1)
      BY <3>1
    <3> QED
      BY <3>2, <1>1
  <2> QED
    BY <2>1, <2>2, <2>3, <1>f
<1>20. freeHead' \in 0 .. m
  BY <1>1, <1>2, <1>6
<1>21. /\ Unchained'.next = pNext' /\ Unchained'.prev = pPrev' /\ Unchained'.head = freeHead'
       /\ Unchained'.tail = freeTail' /\ Unchained'.count = m /\ Unchained'.list = F2
  BY <1>1 DEF Unchained
<1>22. usedList' = U2 /\ blocks' = m /\ freeTail' \in 0 .. m
  BY <1>1, <1>2
<1>23. /\ m \in Nat /\ blocks' <= m
       /\ pNext' \in [1 .. m -> 0 .. m] /\ pPrev' \in [1 .. m -> 0 .. m]
       /\ freeHead' \in 0 .. m /\ freeTail' \in 0 .. m /\ F2 \in Seq(1 .. m)
  <2>1. blocks' <= m
    BY <1>2, <1>22
  <2> QED
    BY <2>1, <1>2, <1>7, <1>12, <1>13, <1>20, <1>22, Zenon
<1>24. \A i \in DOMAIN usedList' :
           pPrev'[usedList'[i]] = IF i = 1 THEN NoBlock ELSE usedList'[i - 1]
  BY <1>8, <1>16, <1>22
<1>25. /\ ListIs(pNext', F2, freeHead', freeTail')
       /\ ListIs(pNext', usedList', usedHead', usedTail')
  BY <1>14, <1>15, <1>22
<1>26. /\ \A i \in DOMAIN F2, j \in DOMAIN usedList' : F2[i] # usedList'[j]
       /\ \A b \in 1 .. m : (\E i \in DOMAIN F2 : b = F2[i])
                             \/ \E j \in DOMAIN usedList' : b = usedList'[j]
  BY <1>17, <1>18, <1>22
<1>27. Good(Unchained)'
  BY <1>19, <1>21, <1>23, <1>24, <1>25, <1>26, Zenon DEF Good
<1> QED
  BY <1>27, <1>9, <1>22

\* A block that is taken out of the used list leaves its neighbours linked: next and
\* prev go past it, and the ends move to them.
LEMMA UnlinkedIs ==
    ASSUME PoolTypeOK, Good(Unchained), NEW i \in DOMAIN usedList, Len(usedList) # 1
    PROVE  LET block == usedList[i]
               used  == Unlinked(block)
               last  == Len(usedList)
           IN  /\ used.next = IF i = 1 THEN pNext
                              ELSE [pNext EXCEPT ![usedList[i - 1]] = pNext[block]]
               /\ used.prev = IF i = last THEN pPrev
                              ELSE [pPrev EXCEPT ![usedList[i + 1]] = pPrev[block]]
               /\ used.head = IF i = 1 THEN usedList[2] ELSE usedList[1]
               /\ used.tail = IF i = last THEN usedList[last - 1] ELSE usedList[last]
<1> DEFINE U == usedList
           n == Len(usedList)
           block == U[i]
<1>1. U \in Seq(1 .. blocks) /\ blocks \in Nat
  BY PoolAssumption DEF PoolTypeOK, Blocks
<1>2. /\ usedHead = IF U = << >> THEN NoBlock ELSE U[1]
      /\ U # << >> => usedTail = U[n]
      /\ \A j \in DOMAIN U : pNext[U[j]] = IF j = n THEN NoBlock ELSE U[j + 1]
  BY DEF Good, Unchained, ListIs
<1>3. \A j \in DOMAIN U : pPrev[U[j]] = IF j = 1 THEN NoBlock ELSE U[j - 1]
  BY DEF Good, Unchained
<1> HIDE DEF U, n, block
<1>4. /\ n \in Nat /\ DOMAIN U = 1 .. n /\ \A j \in 1 .. n : U[j] \in 1 .. blocks
      /\ (U = << >> <=> n = 0)
  BY <1>1, Elements, Zenon DEF n, U
<1>5. i \in 1 .. n /\ n >= 2
  BY <1>4 DEF U, n
<1>6. \A j \in 1 .. n : U[j] # NoBlock
  BY <1>1, <1>4 DEF NoBlock
<1>7. /\ pPrev[block] = IF i = 1 THEN NoBlock ELSE U[i - 1]
      /\ pNext[block] = IF i = n THEN NoBlock ELSE U[i + 1]
  BY <1>2, <1>3, <1>4, <1>5 DEF block
<1>8. /\ pPrev[block] = NoBlock <=> i = 1
      /\ pNext[block] = NoBlock <=> i = n
  <2>1. (i # 1 => i - 1 \in 1 .. n) /\ (i # n => i + 1 \in 1 .. n)
    BY <1>4, <1>5
  <2> QED
    BY <2>1, <1>6, <1>7
<1>9. usedHead = U[1] /\ usedTail = U[n]
  BY <1>2, <1>4, <1>5
<1>10. CASE i = 1
  <2>1. i # n /\ pNext[block] = U[2]
    BY <1>10, <1>5, <1>7
  <2> QED
    BY <2>1, <1>7, <1>8, <1>9, <1>10 DEF Unlinked, U, n, block
<1>11. CASE i # 1 /\ i = n
  <2>1. pPrev[block] = U[n - 1] /\ pPrev[block] # NoBlock /\ pNext[block] = NoBlock
    BY <1>7, <1>8, <1>11
  <2> QED
    BY <2>1, <1>9, <1>11 DEF Unlinked, U, n, block
<1>12. CASE i # 1 /\ i # n
  <2>1. /\ pPrev[block] = U[i - 1] /\ pPrev[block] # NoBlock
        /\ pNext[block] = U[i + 1] /\ pNext[block] # NoBlock
    BY <1>7, <1>8, <1>12
  <2> QED
    BY <2>1, <1>9, <1>12 DEF Unlinked, U, n, block
<1> QED
  BY <1>10, <1>11, <1>12

\* The only block of the used list leaves none behind.
LEMMA LastOne ==
    ASSUME PoolTypeOK, Good(Unchained), NEW i \in DOMAIN usedList, Len(usedList) = 1
    PROVE  Unlinked(usedList[i]).head = NoBlock
<1>1. usedList \in Seq(1 .. blocks)
  BY DEF PoolTypeOK, Blocks
<1>2. i = 1
  BY <1>1
<1>3. pPrev[usedList[i]] = NoBlock /\ pNext[usedList[i]] = NoBlock
  BY <1>2 DEF Good, Unchained, ListIs
<1> QED
  BY <1>3 DEF Unlinked

\* A block that is freed goes behind the free ones, and the used ones stay linked
\* without it.
LEMMA GoodFreed ==
    ASSUME PoolTypeOK, Good(Unchained), NEW i \in DOMAIN usedList, Xpool_free(i), ~broken'
    PROVE  Good(Unchained)' /\ usedList' # << >>
<1> DEFINE F == freeList
           U == usedList
           W == BlocksWithout(U, i)
           n == Len(U)
           block == U[i]
           used == Unlinked(block)
           F2 == Append(F, block)
           m == blocks
<1>1. /\ usedHead' = used.head /\ usedTail' = used.tail
      /\ pPrev' = [used.prev EXCEPT ![block] = freeTail]
      /\ pNext' = [[used.next EXCEPT ![block] = NoBlock] EXCEPT ![freeTail] = block]
      /\ freeTail' = block /\ freeCount' = (freeCount + 1) % CountRange
      /\ usedList' = W /\ freeList' = F2
      /\ freeHead # NoBlock /\ usedHead' # NoBlock
      /\ freeHead' = freeHead /\ blocks' = m
  BY DEF Xpool_free
<1>2. /\ m \in Nat /\ pNext \in [1 .. m -> 0 .. m] /\ pPrev \in [1 .. m -> 0 .. m]
      /\ freeHead \in 0 .. m /\ F \in Seq(1 .. m) /\ U \in Seq(1 .. m)
      /\ freeCount \in Int /\ blockCount \in Nat /\ CountRange \in Nat \ {0}
  <2>1. blockCount \in Nat /\ CountRange \in Nat \ {0}
    BY PoolAssumption
  <2>2. m \in Nat /\ freeCount \in Int
    BY <2>1 DEF PoolTypeOK
  <2>3. /\ pNext \in [1 .. m -> 0 .. m] /\ pPrev \in [1 .. m -> 0 .. m]
        /\ freeHead \in 0 .. m
    BY DEF Good, Unchained
  <2>4. F \in Seq(1 .. m) /\ U \in Seq(1 .. m)
    BY DEF PoolTypeOK, Blocks
  <2> QED
    BY <2>1, <2>2, <2>3, <2>4, Zenon
<1>a. /\ freeHead = IF F = << >> THEN NoBlock ELSE F[1]
      /\ F # << >> => freeTail = F[Len(F)]
      /\ \A j \in DOMAIN F : pNext[F[j]] = IF j = Len(F) THEN NoBlock ELSE F[j + 1]
      /\ \A j, k \in DOMAIN F : F[j] = F[k] => j = k
  BY DEF Good, Unchained, ListIs
<1>b. /\ \A j \in DOMAIN U : pNext[U[j]] = IF j = n THEN NoBlock ELSE U[j + 1]
      /\ \A j, k \in DOMAIN U : U[j] = U[k] => j = k
  BY DEF Good, Unchained, ListIs
<1>c. \A j \in DOMAIN U : pPrev[U[j]] = IF j = 1 THEN NoBlock ELSE U[j - 1]
  BY DEF Good, Unchained
<1>d. \A j \in DOMAIN F, k \in DOMAIN U : F[j] # U[k]
  BY DEF Good, Unchained
<1>e. \A b \in 1 .. m : (\E j \in DOMAIN F : b = F[j]) \/ \E k \in DOMAIN U : b = U[k]
  BY DEF Good, Unchained
<1>f. freeCount = (Len(F) - (m - blockCount)) % CountRange
  BY DEF Good, Unchained
<1>3. n # 1
  BY <1>1, LastOne
<1>4. /\ used.next = IF i = 1 THEN pNext ELSE [pNext EXCEPT ![U[i - 1]] = pNext[block]]
      /\ used.prev = IF i = n THEN pPrev ELSE [pPrev EXCEPT ![U[i + 1]] = pPrev[block]]
      /\ used.head = IF i = 1 THEN U[2] ELSE U[1]
      /\ used.tail = IF i = n THEN U[n - 1] ELSE U[n]
  BY <1>3, UnlinkedIs
<1>5. /\ i \in DOMAIN U /\ block = U[i]
  OBVIOUS
<1>6. /\ n \in Nat /\ DOMAIN U = 1 .. n /\ \A j \in 1 .. n : U[j] \in 1 .. m
      /\ (U = << >> <=> n = 0)
  BY <1>2, Elements, Zenon
<1>7. i \in 1 .. n /\ n >= 2
  BY <1>3, <1>5, <1>6
<1>8. /\ W \in Seq(1 .. m) /\ Len(W) = n - 1 /\ DOMAIN W = 1 .. n - 1
      /\ \A j \in 1 .. n - 1 : W[j] = IF j < i THEN U[j] ELSE U[j + 1]
  BY <1>2, <1>7, TakenOut DEF BlocksWithout
<1> HIDE DEF F, U, W, n, block, used, F2, m
<1>9. /\ Len(F) \in Nat /\ DOMAIN F = 1 .. Len(F) /\ \A j \in 1 .. Len(F) : F[j] \in 1 .. m
      /\ F = << >> <=> Len(F) = 0
  BY <1>2, Elements, Zenon
<1>n. n \in Nat /\ n >= 2 /\ Len(F) \in Nat /\ i \in 1 .. n
  BY <1>6, <1>7, <1>9
<1>10. Len(F) >= 1 /\ freeHead = F[1] /\ freeTail = F[Len(F)] /\ freeTail \in 1 .. m
  <2>1. F # << >>
    BY <1>1, <1>a
  <2>2. Len(F) >= 1
    BY <2>1, <1>9
  <2> QED
    BY <2>1, <2>2, <1>a, <1>9
<1>11. /\ block \in 1 .. m /\ block # freeTail /\ \A j \in DOMAIN F : F[j] # block
       /\ \A k \in DOMAIN U : U[k] # freeTail
  <2>1. Len(F) \in DOMAIN F
    BY <1>9, <1>10
  <2> QED
    BY <2>1, <1>5, <1>6, <1>10, <1>d
<1>12. /\ F2 \in Seq(1 .. m) /\ Len(F2) = Len(F) + 1 /\ DOMAIN F2 = 1 .. Len(F) + 1
       /\ \A j \in 1 .. Len(F) + 1 : F2[j] = IF j = Len(F) + 1 THEN block ELSE F[j]
  BY <1>2, <1>9, <1>11 DEF F2
<1>13. F2 # << >> /\ W # << >>
  <2>1. (F2 = << >> <=> Len(F2) = 0) /\ (W = << >> <=> Len(W) = 0)
    BY <1>8, <1>12, Elements, Zenon
  <2> QED
    BY <2>1, <1>n, <1>8, <1>12
\* Where pNext has changed
<1>14. /\ pNext' \in [1 .. m -> 0 .. m] /\ pNext'[block] = NoBlock /\ pNext'[freeTail] = block
       /\ i # 1 => pNext'[U[i - 1]] = pNext[block]
       /\ \A b \in 1 .. m : b # block /\ b # freeTail /\ (i = 1 \/ b # U[i - 1])
                                => pNext'[b] = pNext[b]
  <2>1. pNext[block] \in 0 .. m
    BY <1>2, <1>11
  <2>2. /\ used.next \in [1 .. m -> 0 .. m]
        /\ i # 1 => used.next[U[i - 1]] = pNext[block]
        /\ \A b \in 1 .. m : (i = 1 \/ b # U[i - 1]) => used.next[b] = pNext[b]
    <3>1. CASE i = 1
      BY <3>1, <1>2, <1>4
    <3>2. CASE i # 1
      <4>1. U[i - 1] \in 1 .. m
        BY <3>2, <1>6, <1>7
      <4>2. used.next = [pNext EXCEPT ![U[i - 1]] = pNext[block]]
        BY <3>2, <1>4
      <4> QED
        BY <3>2, <4>1, <4>2, <2>1, <1>2
    <3> QED
      BY <3>1, <3>2
  <2>3. /\ pNext' \in [1 .. m -> 0 .. m] /\ pNext'[block] = NoBlock /\ pNext'[freeTail] = block
        /\ \A b \in 1 .. m : b # block /\ b # freeTail => pNext'[b] = used.next[b]
    <3>1. pNext' = [[used.next EXCEPT ![block] = NoBlock] EXCEPT ![freeTail] = block]
      BY <1>1
    <3>2. NoBlock \in 0 .. m /\ block \in 0 .. m
      BY <1>2, <1>11 DEF NoBlock
    <3>3. block \in 1 .. m /\ block # freeTail /\ freeTail \in 1 .. m
      BY <1>10, <1>11
    <3>4. used.next \in [1 .. m -> 0 .. m]
      BY <2>2
    <3> QED
      BY <3>1, <3>2, <3>3, <3>4
  <2>4. i # 1 => U[i - 1] \in 1 .. m /\ U[i - 1] # block /\ U[i - 1] # freeTail
    <3>1. i # 1 => i - 1 \in DOMAIN U /\ i - 1 # i
      BY <1>6, <1>7
    <3> QED
      BY <3>1, <1>5, <1>6, <1>11, <1>b
  <2> QED
    BY <2>2, <2>3, <2>4
\* Where pPrev has changed
<1>15. /\ pPrev' \in [1 .. m -> 0 .. m]
       /\ i # n => pPrev'[U[i + 1]] = pPrev[block]
       /\ \A b \in 1 .. m : b # block /\ (i = n \/ b # U[i + 1]) => pPrev'[b] = pPrev[b]
  <2>1. pPrev[block] \in 0 .. m
    BY <1>2, <1>11
  <2>2. /\ used.prev \in [1 .. m -> 0 .. m]
        /\ i # n => used.prev[U[i + 1]] = pPrev[block]
        /\ \A b \in 1 .. m : (i = n \/ b # U[i + 1]) => used.prev[b] = pPrev[b]
    <3>1. CASE i = n
      BY <3>1, <1>2, <1>4
    <3>2. CASE i # n
      <4>1. U[i + 1] \in 1 .. m
        BY <3>2, <1>6, <1>7
      <4>2. used.prev = [pPrev EXCEPT ![U[i + 1]] = pPrev[block]]
        BY <3>2, <1>4
      <4> QED
        BY <3>2, <4>1, <4>2, <2>1, <1>2
    <3> QED
      BY <3>1, <3>2
  <2>3. /\ pPrev' \in [1 .. m -> 0 .. m]
        /\ \A b \in 1 .. m : b # block => pPrev'[b] = used.prev[b]
    <3>1. pPrev' = [used.prev EXCEPT ![block] = freeTail]
      BY <1>1
    <3>2. freeTail \in 0 .. m /\ block \in 1 .. m
      BY <1>2, <1>10, <1>11
    <3>3. used.prev \in [1 .. m -> 0 .. m]
      BY <2>2
    <3> QED
      BY <3>1, <3>2, <3>3
  <2>4. i # n => U[i + 1] \in 1 .. m /\ U[i + 1] # block
    <3>1. i # n => i + 1 \in DOMAIN U /\ i + 1 # i
      BY <1>6, <1>7
    <3> QED
      BY <3>1, <1>5, <1>6, <1>b
  <2> QED
    BY <2>2, <2>3, <2>4
<1>16. ListIs(pNext', F2, freeHead', freeTail')
  <2>1. ASSUME NEW j \in 1 .. Len(F) + 1
        PROVE  pNext'[F2[j]] = IF j = Len(F) + 1 THEN NoBlock ELSE F2[j + 1]
    <3>1. CASE j = Len(F) + 1
      BY <3>1, <1>n, <1>12, <1>14
    <3>2. CASE j = Len(F)
      BY <3>2, <2>1, <1>n, <1>10, <1>12, <1>14
    <3>3. CASE j < Len(F)
      <4>1. /\ j \in DOMAIN F /\ Len(F) \in DOMAIN F /\ j # Len(F)
            /\ F2[j] = F[j] /\ F2[j + 1] = F[j + 1]
        <5>1. /\ j \in 1 .. Len(F) /\ Len(F) \in 1 .. Len(F) /\ j # Len(F)
              /\ j # Len(F) + 1 /\ j + 1 \in 1 .. Len(F) + 1 /\ j + 1 # Len(F) + 1
          BY <3>3, <1>n
        <5> QED
          BY <5>1, <1>9, <1>12
      <4>2. F[j] \in 1 .. m /\ F[j] # block /\ F[j] # freeTail
        BY <4>1, <1>9, <1>10, <1>11, <1>a
      <4>3. i # 1 => F[j] # U[i - 1]
        <5>1. i # 1 => i - 1 \in DOMAIN U
          BY <1>6, <1>7
        <5> QED
          BY <5>1, <4>1, <1>d
      <4>4. pNext'[F[j]] = pNext[F[j]]
        BY <4>2, <4>3, <1>14
      <4>5. pNext[F[j]] = F[j + 1]
        BY <4>1, <1>a
      <4> QED
        BY <4>1, <4>4, <4>5, <3>3, <1>n
    <3>4. j = Len(F) + 1 \/ j = Len(F) \/ j < Len(F)
      BY <1>n
    <3> QED
      BY <3>1, <3>2, <3>3, <3>4, Zenon
  <2>2. freeHead' = F2[1]
    BY <1>1, <1>n, <1>10, <1>12
  <2>3. freeTail' = F2[Len(F2)]
    BY <1>1, <1>n, <1>12
  <2>4. ASSUME NEW j \in 1 .. Len(F) + 1, NEW k \in 1 .. Len(F) + 1, F2[j] = F2[k]
        PROVE  j = k
    <3>1. /\ j = Len(F) + 1 \/ j \in 1 .. Len(F)
          /\ k = Len(F) + 1 \/ k \in 1 .. Len(F)
      BY <1>n
    <3>2. \A l \in 1 .. Len(F) : l # Len(F) + 1 /\ l \in 1 .. Len(F) + 1
      BY <1>n
    <3>3. \A l \in 1 .. Len(F) : F2[l] = F[l] /\ F2[l] # block
      BY <3>2, <1>9, <1>11, <1>12
    <3>4. j = Len(F) + 1 => F2[j] = block
      BY <1>12
    <3>5. k = Len(F) + 1 => F2[k] = block
      BY <1>12
    <3>6. ASSUME j \in 1 .. Len(F), k \in 1 .. Len(F) PROVE j = k
      BY <3>6, <3>3, <2>4, <1>9, <1>a
    <3> QED
      BY <3>1, <3>3, <3>4, <3>5, <3>6, <2>4, Zenon
  <2> QED
    BY <2>1, <2>2, <2>3, <2>4, <1>12, <1>13 DEF ListIs
\* Where a block of the used list was
<1>17. ASSUME NEW j \in 1 .. n - 1
       PROVE  /\ j < i => W[j] = U[j] /\ j \in DOMAIN U
              /\ ~(j < i) => W[j] = U[j + 1] /\ j + 1 \in DOMAIN U
              /\ W[j] \in 1 .. m /\ W[j] # block /\ W[j] # freeTail
  <2>1. CASE j < i
    BY <2>1, <1>5, <1>6, <1>8, <1>11, <1>b
  <2>2. CASE ~(j < i)
    <3>1. j + 1 \in DOMAIN U /\ j + 1 # i /\ W[j] = U[j + 1]
      BY <2>2, <1>6, <1>7, <1>8
    <3> QED
      BY <3>1, <2>2, <1>5, <1>6, <1>11, <1>b
  <2> QED
    BY <2>1, <2>2
<1>18. ListIs(pNext', W, usedHead', usedTail')
  <2>1. ASSUME NEW j \in 1 .. n - 1
        PROVE  pNext'[W[j]] = IF j = n - 1 THEN NoBlock ELSE W[j + 1]
    <3>1. CASE j = i - 1
      <4>1. i # 1 /\ W[j] = U[i - 1]
        BY <3>1, <1>n, <1>17
      <4>2. pNext'[W[j]] = IF i = n THEN NoBlock ELSE U[i + 1]
        BY <4>1, <1>5, <1>14, <1>b
      <4>3. i # n => W[j + 1] = U[i + 1]
        <5>1. i # n => j + 1 = i /\ i \in 1 .. n - 1
          BY <3>1, <1>n
        <5> QED
          BY <5>1, <1>17
      <4> QED
        BY <4>2, <4>3, <3>1, <1>n
    <3>2. CASE j < i - 1
      <4>1. /\ W[j] = U[j] /\ j \in DOMAIN U /\ j # n /\ j # n - 1
            /\ i - 1 \in DOMAIN U /\ j # i - 1
        <5>1. j < i /\ j # n /\ j # n - 1 /\ i - 1 \in 1 .. n /\ j # i - 1
          BY <3>2, <1>n
        <5>2. W[j] = U[j] /\ j \in DOMAIN U
          BY <5>1, <1>17
        <5> QED
          BY <5>1, <5>2, <1>6
      <4>2. U[j] # U[i - 1]
        BY <4>1, <1>b
      <4>3. pNext'[W[j]] = U[j + 1]
        BY <4>1, <4>2, <1>14, <1>17, <1>b
      <4>4. j + 1 \in 1 .. n - 1 /\ j + 1 < i
        BY <3>2, <1>n
      <4>5. W[j + 1] = U[j + 1]
        BY <4>4, <1>17
      <4> QED
        BY <4>1, <4>3, <4>5
    <3>3. CASE j >= i
      <4>1. /\ W[j] = U[j + 1] /\ j + 1 \in DOMAIN U
            /\ i # 1 => i - 1 \in DOMAIN U /\ j + 1 # i - 1
        <5>1. W[j] = U[j + 1] /\ j + 1 \in DOMAIN U
          <6>1. ~(j < i)
            BY <3>3, <1>n
          <6> QED
            BY <6>1, <1>17
        <5>2. i # 1 => i - 1 \in 1 .. n /\ j + 1 # i - 1
          BY <3>3, <1>n
        <5> QED
          BY <5>1, <5>2, <1>6
      <4>2. i # 1 => U[j + 1] # U[i - 1]
        BY <4>1, <1>b
      <4>3. pNext'[W[j]] = IF j + 1 = n THEN NoBlock ELSE U[(j + 1) + 1]
        BY <4>1, <4>2, <1>14, <1>17, <1>b
      <4>4. j # n - 1 => W[j + 1] = U[(j + 1) + 1]
        <5>1. j # n - 1 => j + 1 \in 1 .. n - 1 /\ ~(j + 1 < i)
          BY <3>3, <1>n
        <5> QED
          BY <5>1, <1>17
      <4>5. j = n - 1 <=> j + 1 = n
        BY <1>n
      <4> QED
        BY <4>3, <4>4, <4>5
    <3>4. j = i - 1 \/ j < i - 1 \/ j >= i
      BY <1>n
    <3> QED
      BY <3>1, <3>2, <3>3, <3>4, Zenon
  <2>2. usedHead' = W[1]
    BY <1>1, <1>4, <1>n, <1>8
  <2>3. usedTail' = W[Len(W)]
    <3>1. n - 1 \in 1 .. n - 1 /\ (i = n => n - 1 < i) /\ (i # n => ~(n - 1 < i)) /\ (n - 1) + 1 = n
      BY <1>n
    <3> QED
      BY <3>1, <1>1, <1>4, <1>8
  <2>4. ASSUME NEW j \in 1 .. n - 1, NEW k \in 1 .. n - 1, W[j] = W[k]
        PROVE  j = k
    <3>1. CASE j < i /\ k < i
      BY <3>1, <2>4, <1>17, <1>b
    <3>2. CASE j < i /\ ~(k < i)
      <4>1. j = k + 1
        BY <3>2, <2>4, <1>17, <1>b
      <4> QED
        BY <4>1, <3>2, <1>n
    <3>3. CASE ~(j < i) /\ k < i
      <4>1. j + 1 = k
        BY <3>3, <2>4, <1>17, <1>b
      <4> QED
        BY <4>1, <3>3, <1>n
    <3>4. CASE ~(j < i) /\ ~(k < i)
      <4>1. j + 1 = k + 1
        BY <3>4, <2>4, <1>17, <1>b
      <4> QED
        BY <4>1, <1>n
    <3> QED
      BY <3>1, <3>2, <3>3, <3>4
  <2> QED
    BY <2>1, <2>2, <2>3, <2>4, <1>8, <1>13 DEF ListIs
<1>19. ASSUME NEW j \in 1 .. n - 1
       PROVE  pPrev'[W[j]] = IF j = 1 THEN NoBlock ELSE W[j - 1]
  <2>1. CASE j = i
    <3>1. i # n /\ W[j] = U[i + 1]
      BY <2>1, <1>n, <1>17
    <3>2. pPrev'[W[j]] = IF i = 1 THEN NoBlock ELSE U[i - 1]
      BY <3>1, <1>5, <1>15, <1>c
    <3>3. i # 1 => W[j - 1] = U[i - 1]
      <4>1. i # 1 => j - 1 \in 1 .. n - 1 /\ j - 1 < i /\ j - 1 = i - 1
        BY <2>1, <1>n
      <4> QED
        BY <4>1, <1>17
    <3> QED
      BY <3>2, <3>3, <2>1
  <2>2. CASE j < i
    <3>1. /\ W[j] = U[j] /\ j \in DOMAIN U
          /\ i # n => i + 1 \in DOMAIN U /\ j # i + 1
      BY <2>2, <1>n, <1>6, <1>17
    <3>2. i # n => U[j] # U[i + 1]
      BY <3>1, <1>b
    <3>3. pPrev'[W[j]] = IF j = 1 THEN NoBlock ELSE U[j - 1]
      BY <3>1, <3>2, <1>15, <1>17, <1>c
    <3>4. j # 1 => W[j - 1] = U[j - 1]
      <4>1. j # 1 => j - 1 \in 1 .. n - 1 /\ j - 1 < i
        BY <2>2, <1>n
      <4> QED
        BY <4>1, <1>17
    <3> QED
      BY <3>3, <3>4
  <2>3. CASE j > i
    <3>1. /\ W[j] = U[j + 1] /\ j + 1 \in DOMAIN U /\ j + 1 # 1
          /\ i + 1 \in DOMAIN U /\ j + 1 # i + 1 /\ i # n
      <4>1. /\ j + 1 # 1 /\ i + 1 \in 1 .. n /\ j + 1 # i + 1 /\ i # n /\ ~(j < i)
        BY <2>3, <1>n
      <4> QED
        BY <4>1, <1>6, <1>17
    <3>2. U[j + 1] # U[i + 1]
      BY <3>1, <1>b
    <3>3. pPrev'[W[j]] = U[(j + 1) - 1]
      BY <3>1, <3>2, <1>15, <1>17, <1>c
    <3>4. j - 1 \in 1 .. n - 1 /\ ~(j - 1 < i) /\ (j - 1) + 1 = (j + 1) - 1 /\ j # 1
      BY <2>3, <1>n
    <3>5. W[j - 1] = U[(j - 1) + 1]
      BY <3>4, <1>17
    <3> QED
      BY <3>3, <3>4, <3>5
  <2>4. j = i \/ j < i \/ j > i
    BY <1>n
  <2> QED
    BY <2>1, <2>2, <2>3, <2>4, Zenon
<1>20. ASSUME NEW j \in DOMAIN F2, NEW k \in DOMAIN W PROVE F2[j] # W[k]
  <2>1. k \in 1 .. n - 1
    BY <1>8
  <2>2. CASE j = Len(F) + 1
    BY <2>1, <2>2, <1>12, <1>17
  <2>3. CASE j # Len(F) + 1
    <3>1. j \in DOMAIN F /\ F2[j] = F[j]
      BY <2>3, <1>n, <1>9, <1>12
    <3>2. \E l \in DOMAIN U : W[k] = U[l]
      BY <2>1, <1>17
    <3> QED
      BY <3>1, <3>2, <1>d
  <2> QED
    BY <2>2, <2>3
<1>21. ASSUME NEW b \in 1 .. m
       PROVE  (\E j \in DOMAIN F2 : b = F2[j]) \/ \E k \in DOMAIN W : b = W[k]
  <2>1. ASSUME NEW j \in DOMAIN F, b = F[j] PROVE \E k \in DOMAIN F2 : b = F2[k]
    <3>1. j \in DOMAIN F2 /\ F2[j] = F[j]
      BY <1>9, <1>12
    <3> QED
      BY <3>1, <2>1
  <2>2. ASSUME NEW k \in DOMAIN U, b = U[k], k = i PROVE \E j \in DOMAIN F2 : b = F2[j]
    <3>1. Len(F) + 1 \in DOMAIN F2 /\ F2[Len(F) + 1] = block
      BY <1>n, <1>12
    <3> QED
      BY <3>1, <2>2, <1>5
  <2>3. ASSUME NEW k \in DOMAIN U, b = U[k], k < i PROVE \E j \in DOMAIN W : b = W[j]
    <3>1. k \in DOMAIN W /\ W[k] = U[k]
      BY <2>3, <1>n, <1>6, <1>8
    <3> QED
      BY <3>1, <2>3
  <2>4. ASSUME NEW k \in DOMAIN U, b = U[k], k > i PROVE \E j \in DOMAIN W : b = W[j]
    <3>1. k - 1 \in DOMAIN W /\ ~(k - 1 < i) /\ (k - 1) + 1 = k
      BY <2>4, <1>n, <1>6, <1>8
    <3>2. W[k - 1] = U[k]
      BY <3>1, <1>8
    <3> QED
      BY <3>1, <3>2, <2>4
  <2>5. \A k \in DOMAIN U : k = i \/ k < i \/ k > i
    BY <1>n, <1>6
  <2> QED
    BY <2>1, <2>2, <2>3, <2>4, <2>5, <1>e
<1>22. freeCount' = (Len(F2) - (m - blockCount)) % CountRange
  <2>0. Len(F) - (m - blockCount) \in Int /\ 1 \in Int
    BY <1>2, <1>9
  <2>1. (((Len(F) - (m - blockCount)) % CountRange) + 1) % CountRange
            = ((Len(F) - (m - blockCount)) + 1) % CountRange
    BY <2>0, <1>2, CountOn, Zenon
  <2>2. (Len(F) - (m - blockCount)) + 1 = Len(F2) - (m - blockCount)
    BY <1>2, <1>9, <1>12
  <2> QED
    BY <2>1, <2>2, <1>1, <1>f
<1>23. /\ Unchained'.next = pNext' /\ Unchained'.prev = pPrev' /\ Unchained'.head = freeHead'
       /\ Unchained'.tail = freeTail' /\ Unchained'.count = m /\ Unchained'.list = F2
  BY <1>1 DEF Unchained
<1>24. usedList' = W /\ blocks' = m /\ freeTail' \in 0 .. m /\ freeHead' \in 0 .. m
  BY <1>1, <1>2, <1>11
<1>25. /\ m \in Nat /\ blocks' <= m
       /\ pNext' \in [1 .. m -> 0 .. m] /\ pPrev' \in [1 .. m -> 0 .. m]
       /\ freeHead' \in 0 .. m /\ freeTail' \in 0 .. m /\ F2 \in Seq(1 .. m)
  <2>1. blocks' <= m
    BY <1>2, <1>24
  <2> QED
    BY <2>1, <1>2, <1>12, <1>14, <1>15, <1>24, Zenon
<1>26. \A j \in DOMAIN usedList' :
           pPrev'[usedList'[j]] = IF j = 1 THEN NoBlock ELSE usedList'[j - 1]
  BY <1>8, <1>19, <1>24
<1>27. /\ ListIs(pNext', F2, freeHead', freeTail')
       /\ ListIs(pNext', usedList', usedHead', usedTail')
  BY <1>16, <1>18, <1>24
<1>28. /\ \A j \in DOMAIN F2, k \in DOMAIN usedList' : F2[j] # usedList'[k]
       /\ \A b \in 1 .. m : (\E j \in DOMAIN F2 : b = F2[j])
                             \/ \E k \in DOMAIN usedList' : b = usedList'[k]
  BY <1>20, <1>21, <1>24
<1>29. Good(Unchained)'
  BY <1>22, <1>23, <1>25, <1>26, <1>27, <1>28, Zenon DEF Good
<1> QED
  BY <1>29, <1>13, <1>24

\* A function with another value at a place, that may not be one of its own.
LEMMA SetKeeps ==
    ASSUME NEW D, NEW R, NEW f \in [D -> R], NEW x, NEW v \in R
    PROVE  [f EXCEPT ![x] = v] \in [D -> R]
OBVIOUS

\* Without its first element a sequence is one, even if it has none.
LEMMA TailIs ==
    ASSUME NEW S, NEW L \in Seq(S)
    PROVE  SubSeq(L, 2, Len(L)) \in Seq(S)
<1>1. Len(L) \in Nat /\ \A i \in 2 .. Len(L) : L[i] \in S
  OBVIOUS
<1> QED
  BY <1>1, SubSeqProperties

\* The types of the state, with numbers for the sets of blocks.
LEMMA PoolTypes ==
    ASSUME PoolTypeOK
    PROVE  /\ blocks \in Nat /\ blockCount \in Nat /\ CountRange \in Nat \ {0}
           /\ blockCount <= blocks /\ MaxBlocks \in Nat
           /\ pNext \in [1 .. blocks -> 0 .. blocks] /\ pPrev \in [1 .. blocks -> 0 .. blocks]
           /\ freeHead \in 0 .. blocks /\ freeTail \in 0 .. blocks
           /\ usedHead \in 0 .. blocks /\ usedTail \in 0 .. blocks
           /\ freeCount \in Int
           /\ freeList \in Seq(1 .. blocks) /\ usedList \in Seq(1 .. blocks)
<1>1. /\ blockCount \in Nat /\ CountRange \in Nat \ {0} /\ MaxBlocks \in Nat
  BY PoolAssumption
<1>2. blocks \in Nat /\ blockCount <= blocks /\ freeCount \in Int
  BY <1>1 DEF PoolTypeOK
<1>3. Blocks = 1 .. blocks /\ Blocks \cup {NoBlock} = 0 .. blocks
  BY <1>2 DEF Blocks, NoBlock
<1>4. /\ pNext \in [Blocks -> Blocks \cup {NoBlock}] /\ pPrev \in [Blocks -> Blocks \cup {NoBlock}]
      /\ {freeHead, freeTail, usedHead, usedTail} \subseteq Blocks \cup {NoBlock}
      /\ freeList \in Seq(Blocks) /\ usedList \in Seq(Blocks)
  BY DEF PoolTypeOK
<1>5. /\ freeHead \in Blocks \cup {NoBlock} /\ freeTail \in Blocks \cup {NoBlock}
      /\ usedHead \in Blocks \cup {NoBlock} /\ usedTail \in Blocks \cup {NoBlock}
  BY <1>4
<1> QED
  BY <1>1, <1>2, <1>3, <1>4, <1>5

\* And back.
LEMMA PoolTypesBack ==
    ASSUME NEW m \in Nat, blocks' = m, blockCount <= m, m <= MaxBlocks,
           pNext' \in [1 .. m -> 0 .. m], pPrev' \in [1 .. m -> 0 .. m],
           freeHead' \in 0 .. m, freeTail' \in 0 .. m,
           usedHead' \in 0 .. m, usedTail' \in 0 .. m,
           NEW x \in Int, freeCount' = x % CountRange,
           freeList' \in Seq(1 .. m), usedList' \in Seq(1 .. m), broken' \in BOOLEAN
    PROVE  PoolTypeOK'
<1>1. Blocks' = 1 .. m /\ Blocks' \cup {NoBlock} = 0 .. m
  BY DEF Blocks, NoBlock
<1>2. blocks' \in blockCount .. MaxBlocks
  BY PoolAssumption
<1>3. freeCount' \in 0 .. CountRange - 1
  <2>1. CountRange \in Nat \ {0}
    BY PoolAssumption
  <2> QED
    BY <2>1
<1>4. /\ pNext' \in [Blocks' -> Blocks' \cup {NoBlock}]
      /\ pPrev' \in [Blocks' -> Blocks' \cup {NoBlock}]
  BY <1>1, Zenon
<1>5. {freeHead', freeTail', usedHead', usedTail'} \subseteq Blocks' \cup {NoBlock}
  BY <1>1, Zenon
<1>6. freeList' \in Seq(Blocks') /\ usedList' \in Seq(Blocks')
  BY <1>1, Zenon
<1> QED
  BY <1>2, <1>3, <1>4, <1>5, <1>6, Zenon DEF PoolTypeOK

\* The types after an allocation from a pool with its types.
LEMMA TakenTypes ==
    ASSUME PoolTypeOK, NEW p, Taken(p),
           p.count \in Nat, blocks <= p.count,
           p.next \in [1 .. p.count -> 0 .. p.count], p.prev \in [1 .. p.count -> 0 .. p.count],
           p.head \in 1 .. p.count, p.tail \in 0 .. p.count, p.list \in Seq(1 .. p.count)
    PROVE  PoolTypeOK'
<1> DEFINE m == p.count
           block == p.head
           next == [p.next EXCEPT ![block] = NoBlock]
<1>1. /\ m <= MaxBlocks
      /\ freeHead' = p.next[block] /\ freeTail' = p.tail
      /\ freeCount' = (freeCount - 1) % CountRange
      /\ pPrev' = [p.prev EXCEPT ![block] = usedTail] /\ usedTail' = block
      /\ IF usedHead = NoBlock
         THEN usedHead' = block /\ pNext' = next
         ELSE pNext' = [next EXCEPT ![usedTail] = block] /\ usedHead' = usedHead
      /\ usedList' = Append(usedList, block)
      /\ freeList' = SubSeq(p.list, 2, Len(p.list)) /\ blocks' = m /\ broken' = broken
  BY DEF Taken
<1>2. /\ m \in Nat /\ blocks <= m /\ block \in 1 .. m /\ p.tail \in 0 .. m
      /\ p.next \in [1 .. m -> 0 .. m] /\ p.prev \in [1 .. m -> 0 .. m]
      /\ p.list \in Seq(1 .. m)
  OBVIOUS
<1>3. /\ blocks \in Nat /\ blockCount <= blocks /\ blockCount \in Nat
      /\ usedHead \in 0 .. blocks /\ usedTail \in 0 .. blocks
      /\ freeCount \in Int /\ usedList \in Seq(1 .. blocks)
  BY PoolTypes
<1> HIDE DEF m, block, next
<1>4. /\ NoBlock \in 0 .. m /\ block \in 0 .. m /\ usedHead \in 0 .. m /\ usedTail \in 0 .. m
      /\ 1 .. blocks \subseteq 1 .. m /\ blockCount <= m
  BY <1>2, <1>3 DEF NoBlock
<1>5. next \in [1 .. m -> 0 .. m]
  BY <1>2, <1>4, SetKeeps DEF next, m
<1>6. [next EXCEPT ![usedTail] = block] \in [1 .. m -> 0 .. m]
  BY <1>4, <1>5, SetKeeps
<1>7. pNext' \in [1 .. m -> 0 .. m] /\ usedHead' \in 0 .. m
  <2>1. CASE usedHead = NoBlock
    BY <2>1, <1>1, <1>4, <1>5
  <2>2. CASE usedHead # NoBlock
    BY <2>2, <1>1, <1>4, <1>6
  <2> QED
    BY <2>1, <2>2
<1>8. pPrev' \in [1 .. m -> 0 .. m]
  <2>1. [p.prev EXCEPT ![block] = usedTail] \in [1 .. m -> 0 .. m]
    BY <1>2, <1>4, SetKeeps
  <2> QED
    BY <2>1, <1>1
<1>9. freeHead' \in 0 .. m /\ freeTail' \in 0 .. m /\ usedTail' \in 0 .. m
  BY <1>1, <1>2, <1>4
<1>10. usedList' \in Seq(1 .. m)
  <2>1. usedList \in Seq(1 .. m)
    BY <1>3, <1>4, SeqSubset
  <2>2. Append(usedList, block) \in Seq(1 .. m)
    BY <2>1, <1>2
  <2> QED
    BY <2>2, <1>1
<1>11. freeList' \in Seq(1 .. m)
  BY <1>1, <1>2, TailIs
<1>12. broken' \in BOOLEAN
  BY <1>1 DEF PoolTypeOK
<1>13. freeCount - 1 \in Int
  BY <1>3
<1>14. blocks' = m /\ m <= MaxBlocks /\ freeCount' = (freeCount - 1) % CountRange
  BY <1>1
<1> QED
  BY <1>2, <1>4, <1>7, <1>8, <1>9, <1>10, <1>11, <1>12, <1>13, <1>14, PoolTypesBack, Zenon

\* The types after a block was freed.
LEMMA FreedTypes ==
    ASSUME PoolTypeOK, NEW i \in DOMAIN usedList, Xpool_free(i)
    PROVE  PoolTypeOK'
<1> DEFINE m == blocks
           block == usedList[i]
           used == Unlinked(block)
<1>1. /\ usedHead' = used.head /\ usedTail' = used.tail
      /\ pPrev' = [used.prev EXCEPT ![block] = freeTail]
      /\ pNext' = [[used.next EXCEPT ![block] = NoBlock] EXCEPT ![freeTail] = block]
      /\ freeTail' = block /\ freeCount' = (freeCount + 1) % CountRange
      /\ usedList' = BlocksWithout(usedList, i) /\ freeList' = Append(freeList, block)
      /\ broken' = (broken \/ freeHead = NoBlock \/ usedHead' = NoBlock)
      /\ freeHead' = freeHead /\ blocks' = m
  BY DEF Xpool_free
<1>2. /\ m \in Nat /\ blockCount <= m
      /\ pNext \in [1 .. m -> 0 .. m] /\ pPrev \in [1 .. m -> 0 .. m]
      /\ freeHead \in 0 .. m /\ freeTail \in 0 .. m
      /\ usedHead \in 0 .. m /\ usedTail \in 0 .. m
      /\ freeCount \in Int /\ freeList \in Seq(1 .. m) /\ usedList \in Seq(1 .. m)
  BY PoolTypes
<1>m. m <= MaxBlocks
  BY PoolAssumption DEF PoolTypeOK
<1>3. i \in 1 .. Len(usedList) /\ block \in 1 .. m
  BY <1>2, Elements
<1>4. BlocksWithout(usedList, i) \in Seq(1 .. m)
  BY <1>2, <1>3, TakenOut DEF BlocksWithout
<1>5. pNext[block] \in 0 .. m /\ pPrev[block] \in 0 .. m /\ NoBlock \in 0 .. m /\ block \in 0 .. m
  BY <1>2, <1>3 DEF NoBlock
<1>6. /\ used.next \in [1 .. m -> 0 .. m] /\ used.prev \in [1 .. m -> 0 .. m]
      /\ used.head \in 0 .. m /\ used.tail \in 0 .. m
  <2>1. CASE pPrev[block] = NoBlock
    <3>1. /\ used.next = pNext /\ used.head = pNext[block] /\ used.tail = usedTail
          /\ used.prev = IF pNext[block] = NoBlock THEN pPrev
                         ELSE [pPrev EXCEPT ![pNext[block]] = NoBlock]
      BY <2>1 DEF Unlinked
    <3>2. [pPrev EXCEPT ![pNext[block]] = NoBlock] \in [1 .. m -> 0 .. m]
      BY <1>2, <1>5, SetKeeps
    <3>3. used.prev \in [1 .. m -> 0 .. m]
      BY <3>1, <3>2, <1>2
    <3> QED
      BY <3>1, <3>3, <1>2, <1>5, Zenon
  <2>2. CASE pPrev[block] # NoBlock /\ pNext[block] = NoBlock
    <3>1. /\ used.next = [pNext EXCEPT ![pPrev[block]] = NoBlock] /\ used.prev = pPrev
          /\ used.head = usedHead /\ used.tail = pPrev[block]
      BY <2>2 DEF Unlinked
    <3>2. [pNext EXCEPT ![pPrev[block]] = NoBlock] \in [1 .. m -> 0 .. m]
      BY <1>2, <1>5, SetKeeps
    <3> QED
      BY <3>1, <3>2, <1>2, <1>5
  <2>3. CASE pPrev[block] # NoBlock /\ pNext[block] # NoBlock
    <3>1. /\ used.next = [pNext EXCEPT ![pPrev[block]] = pNext[block]]
          /\ used.prev = [pPrev EXCEPT ![pNext[block]] = pPrev[block]]
          /\ used.head = usedHead /\ used.tail = usedTail
      BY <2>3 DEF Unlinked
    <3>2. /\ [pNext EXCEPT ![pPrev[block]] = pNext[block]] \in [1 .. m -> 0 .. m]
          /\ [pPrev EXCEPT ![pNext[block]] = pPrev[block]] \in [1 .. m -> 0 .. m]
      BY <1>2, <1>5, SetKeeps
    <3> QED
      BY <3>1, <3>2, <1>2, <1>5
  <2> QED
    BY <2>1, <2>2, <2>3
<1> HIDE DEF m, block, used
<1>7. pPrev' \in [1 .. m -> 0 .. m]
  <2>1. [used.prev EXCEPT ![block] = freeTail] \in [1 .. m -> 0 .. m]
    BY <1>2, <1>6, SetKeeps
  <2> QED
    BY <2>1, <1>1
<1>8. pNext' \in [1 .. m -> 0 .. m]
  <2>1. [used.next EXCEPT ![block] = NoBlock] \in [1 .. m -> 0 .. m]
    BY <1>5, <1>6, SetKeeps
  <2>2. [[used.next EXCEPT ![block] = NoBlock] EXCEPT ![freeTail] = block]
            \in [1 .. m -> 0 .. m]
    BY <2>1, <1>5, SetKeeps
  <2> QED
    BY <2>2, <1>1
<1>9. /\ freeHead' \in 0 .. m /\ freeTail' \in 0 .. m
      /\ usedHead' \in 0 .. m /\ usedTail' \in 0 .. m
  BY <1>1, <1>2, <1>5, <1>6
<1>10. freeList' \in Seq(1 .. m)
  <2>1. Append(freeList, block) \in Seq(1 .. m)
    BY <1>2, <1>3
  <2> QED
    BY <2>1, <1>1
<1>11. usedList' \in Seq(1 .. m)
  BY <1>1, <1>4
<1>12. broken' \in BOOLEAN
  BY <1>1
<1>13. freeCount + 1 \in Int
  BY <1>2
<1>14. blocks' = m /\ freeCount' = (freeCount + 1) % CountRange
  BY <1>1
<1> QED
  BY <1>2, <1>m, <1>7, <1>8, <1>9, <1>10, <1>11, <1>12, <1>13, <1>14, PoolTypesBack, Zenon

\* Every allocation and every free keeps the pool good, until a list is broken.
LEMMA PoolStep ==
    ASSUME PoolInv, [PoolNext]_poolVars
    PROVE  PoolInv'
<1>1. PoolTypeOK /\ (~broken => Good(Unchained) /\ (usedList = << >> => usedTail = NoBlock))
  BY DEF PoolInv
<1>2. CASE Xpool_alloc
  <2> DEFINE q == IF freeHead = NoBlock THEN Chained(blockCountStep, freeTail) ELSE Unchained
  <2>1. PICK p : p = q
    OBVIOUS
  <2>2. Taken(p)
    BY <1>2, <2>1 DEF Xpool_alloc
  <2>3. /\ p.count \in Nat /\ blocks <= p.count
        /\ p.next \in [1 .. p.count -> 0 .. p.count] /\ p.prev \in [1 .. p.count -> 0 .. p.count]
        /\ p.head \in 1 .. p.count /\ p.tail \in 0 .. p.count /\ p.list \in Seq(1 .. p.count)
    <3>1. CASE freeHead = NoBlock
      <4>1. p = Chained(blockCountStep, freeTail)
        BY <3>1, <2>1
      <4>2. /\ p.count \in Nat /\ blocks <= p.count
            /\ p.next \in [1 .. p.count -> 0 .. p.count]
            /\ p.prev \in [1 .. p.count -> 0 .. p.count]
            /\ p.head \in 1 .. p.count /\ p.tail \in 1 .. p.count /\ p.list \in Seq(1 .. p.count)
        BY <4>1, <1>1, ChainedTypes, Zenon
      <4>3. p.tail \in 0 .. p.count
        BY <4>2
      <4> QED
        BY <4>2, <4>3, Zenon
    <3>2. CASE freeHead # NoBlock
      <4>1. p = Unchained
        BY <3>2, <2>1
      <4>2. /\ p.count = blocks /\ p.next = pNext /\ p.prev = pPrev /\ p.head = freeHead
            /\ p.tail = freeTail /\ p.list = freeList
        BY <4>1 DEF Unchained
      <4>3. /\ blocks \in Nat
            /\ pNext \in [1 .. blocks -> 0 .. blocks] /\ pPrev \in [1 .. blocks -> 0 .. blocks]
            /\ freeHead \in 0 .. blocks /\ freeTail \in 0 .. blocks
            /\ freeList \in Seq(1 .. blocks)
        BY <1>1, PoolTypes
      <4>4. freeHead \in 1 .. blocks /\ blocks <= blocks
        BY <4>3, <3>2 DEF NoBlock
      <4> QED
        BY <4>2, <4>3, <4>4, Zenon
    <3> QED
      BY <3>1, <3>2
  <2>4. PoolTypeOK'
    BY <1>1, <2>2, <2>3, TakenTypes, Zenon
  <2>5. broken' = broken
    BY <2>2 DEF Taken
  <2>6. ASSUME ~broken PROVE Good(Unchained)' /\ usedList' # << >>
    <3>1. Good(p)
      <4>1. CASE freeHead = NoBlock
        BY <4>1, <1>1, <2>1, <2>6, GoodGrown
      <4>2. CASE freeHead # NoBlock
        BY <4>2, <1>1, <2>1, <2>6
      <4> QED
        BY <4>1, <4>2
    <3>2. p.head # NoBlock
      BY <2>3 DEF NoBlock
    <3> QED
      BY <3>1, <3>2, <1>1, <2>2, <2>6, GoodTaken, Zenon
  <2> QED
    BY <2>4, <2>5, <2>6, Zenon DEF PoolInv
<1>3. ASSUME NEW i \in DOMAIN usedList, Xpool_free(i) PROVE PoolInv'
  <2>1. PoolTypeOK'
    BY <1>1, <1>3, FreedTypes, Zenon
  <2>2. ~broken' => ~broken
    BY <1>3 DEF Xpool_free
  <2>3. ~broken' => Good(Unchained)' /\ usedList' # << >>
    BY <1>1, <1>3, <2>2, GoodFreed, Zenon
  <2> QED
    BY <2>1, <2>3, Zenon DEF PoolInv
<1>4. CASE UNCHANGED poolVars
  <2>1. /\ pNext' = pNext /\ pPrev' = pPrev /\ freeHead' = freeHead /\ freeTail' = freeTail
        /\ usedHead' = usedHead /\ usedTail' = usedTail /\ freeCount' = freeCount
        /\ blocks' = blocks /\ freeList' = freeList /\ usedList' = usedList /\ broken' = broken
    BY <1>4 DEF poolVars
  <2>2. PoolTypeOK'
    BY <1>1, <2>1 DEF PoolTypeOK, Blocks
  <2>3. Unchained' = Unchained
    BY <2>1 DEF Unchained
  <2>4. Good(Unchained) => Good(Unchained)'
    <3> SUFFICES ASSUME Good(Unchained) PROVE Good(Unchained)'
      OBVIOUS
    <3>1. PICK p : p = Unchained
      OBVIOUS
    <3>2. Good(p) /\ p = Unchained'
      BY <3>1, <2>3
    <3>3. Good(p)'
      BY <3>2, <2>1 DEF Good, ListIs
    <3> QED
      BY <3>2, <3>3 DEF Good, ListIs
  <2> QED
    BY <1>1, <2>1, <2>2, <2>4 DEF PoolInv
<1> QED
  BY <1>2, <1>3, <1>4 DEF PoolNext

\* The pool that Xpool_init makes is good.
LEMMA PoolInitInv == PoolInit => PoolInv
<1> SUFFICES ASSUME PoolInit PROVE PoolInv
  OBVIOUS
<1> DEFINE n == blockCount
<1>1. n \in Nat /\ n >= 1 /\ n < CountRange /\ CountRange \in Nat \ {0} /\ n <= MaxBlocks /\ MaxBlocks \in Nat
  BY PoolAssumption
<1>2. /\ pNext = [b \in 1 .. n |-> IF b = n THEN NoBlock ELSE b + 1]
      /\ pPrev = [b \in 1 .. n |-> b - 1]
      /\ freeHead = 1 /\ freeTail = n
      /\ usedHead = NoBlock /\ usedTail = NoBlock /\ freeCount = n /\ blocks = n
      /\ freeList = [i \in 1 .. n |-> i] /\ usedList = << >> /\ broken = FALSE
  BY DEF PoolInit
<1> HIDE DEF n
<1>3. pNext \in [1 .. n -> 0 .. n]
  <2>1. \A b \in 1 .. n : (IF b = n THEN NoBlock ELSE b + 1) \in 0 .. n
    BY <1>1 DEF NoBlock
  <2> QED
    BY <2>1, <1>2
<1>4. pPrev \in [1 .. n -> 0 .. n]
  <2>1. \A b \in 1 .. n : b - 1 \in 0 .. n
    BY <1>1
  <2> QED
    BY <2>1, <1>2
<1>5. /\ freeList \in Seq(1 .. n) /\ Len(freeList) = n /\ DOMAIN freeList = 1 .. n
      /\ \A i \in 1 .. n : freeList[i] = i
  <2>1. [i \in 1 .. n |-> i] \in [1 .. n -> 1 .. n]
    OBVIOUS
  <2> QED
    BY <2>1, <1>1, <1>2
<1>6. /\ freeHead \in 0 .. n /\ freeTail \in 0 .. n /\ usedHead \in 0 .. n /\ usedTail \in 0 .. n
      /\ usedList \in Seq(1 .. n) /\ DOMAIN usedList = {}
  BY <1>1, <1>2 DEF NoBlock
<1>7. freeCount = (n - (n - n)) % CountRange /\ freeCount \in 0 .. CountRange - 1
  <2>1. n - (n - n) = n
    BY <1>1
  <2>2. n % CountRange = n
    BY ONLY <1>1
  <2> QED
    BY <2>1, <2>2, <1>1, <1>2
<1>8. freeList # << >>
  BY <1>1, <1>5, Elements
<1>9. ListIs(pNext, freeList, freeHead, freeTail)
  <2>1. freeHead = freeList[1] /\ freeTail = freeList[Len(freeList)]
    BY <1>1, <1>2, <1>5
  <2>2. ASSUME NEW i \in 1 .. n PROVE pNext[freeList[i]] = IF i = n THEN NoBlock ELSE freeList[i + 1]
    BY <1>1, <1>2, <1>5
  <2> QED
    BY <2>1, <2>2, <1>5, <1>8 DEF ListIs
<1>10. ListIs(pNext, usedList, usedHead, usedTail)
  BY <1>2, <1>6 DEF ListIs
<1>11. Good(Unchained)
  <2>1. /\ Unchained.next = pNext /\ Unchained.prev = pPrev /\ Unchained.head = freeHead
        /\ Unchained.tail = freeTail /\ Unchained.count = n /\ Unchained.list = freeList
    BY <1>2 DEF Unchained
  <2>2. n \in Nat /\ blocks <= n
    BY <1>1, <1>2
  <2>3. \A i \in DOMAIN usedList :
            pPrev[usedList[i]] = IF i = 1 THEN NoBlock ELSE usedList[i - 1]
    BY <1>6
  <2>4. /\ \A i \in DOMAIN freeList, j \in DOMAIN usedList : freeList[i] # usedList[j]
        /\ \A b \in 1 .. n : (\E i \in DOMAIN freeList : b = freeList[i])
                              \/ \E j \in DOMAIN usedList : b = usedList[j]
    BY <1>5, <1>6
  <2>5. freeCount = (Len(freeList) - (n - blockCount)) % CountRange
    BY <1>5, <1>7 DEF n
  <2> QED
    BY <2>1, <2>2, <2>3, <2>4, <2>5, <1>3, <1>4, <1>5, <1>6, <1>9, <1>10, Zenon DEF Good
<1>12. PoolTypeOK
  <2>1. Blocks = 1 .. n /\ Blocks \cup {NoBlock} = 0 .. n
    BY <1>1, <1>2 DEF Blocks, NoBlock
  <2>2. blocks \in blockCount .. MaxBlocks
    BY <1>1, <1>2 DEF n
  <2>3. {freeHead, freeTail, usedHead, usedTail} \subseteq 0 .. n /\ broken \in BOOLEAN
    BY <1>2, <1>6
  <2> QED
    BY <2>1, <2>2, <2>3, <1>3, <1>4, <1>5, <1>6, <1>7, Zenon DEF PoolTypeOK
<1> QED
  BY <1>2, <1>11, <1>12 DEF PoolInv

\* The invariant holds in every state of the pool.
LEMMA PoolInvKept == PoolSpec => []PoolInv
<1> QED
  BY PoolInitInv, PoolStep, PTL DEF PoolSpec

\* Whatever is allocated and freed, in whatever order, and with the lists broken or
\* not: the links and the ends of the lists stay inside the pool, and freeCount
\* an unsigned int.
THEOREM PoolTypeCorrect == PoolSpec => []PoolTypeOK
<1>1. PoolInv => PoolTypeOK
  BY DEF PoolInv
<1> QED
  BY <1>1, PoolInvKept, PTL

\* For pools of every size, and however often they grow: until a free empties the
\* used list or finds the free one empty, both lists of Xpool_alloc and Xpool_free
\* hold exactly the blocks that they should, and freeCount is right until they grow.
THEOREM BlocksStay == PoolSpec => []PoolKept
<1> QED
  BY PoolInvKept, GoodIsKept, PTL
================================================================================
