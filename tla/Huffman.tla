------------------------------ MODULE Huffman ------------------------------
(***************************************************************************)
(* The code tree of example_huffman.cpp, for weights that a user enters    *)
(* one after the other.  A leaf is <<data>>, an inner node <<data, left,   *)
(* right>>.                                                                *)
(*                                                                         *)
(* A definition that directly precedes another with its parameters and is  *)
(* used nowhere is the other one with a mistake in it.                     *)
(***************************************************************************)
EXTENDS Integers, Sequences, FiniteSets
LOCAL INSTANCE SequencesExt

CONSTANTS
    Weights,
    MaxLeaves          \* bound: weights entered

VARIABLE a

Init == a = << >>
Enter(w) == Len(a) < MaxLeaves /\ a' = Append(a, w)
Next == \E w \in Weights : Enter(w)

-----------------------------------------------------------------------------
data(t) == t[1]
IsLeaf(t) == Len(t) = 1
Index(S) == SetToSortSeq(S, <)

\* b is the forest: the places of it that are not NULL.  k1 and k2 start with
\* the first two trees; then each tree from k2 on that is lighter than one of
\* them takes its part.
LeastTwoOnce(b) ==
    LET first == Index(DOMAIN b)
        See(k, j) == IF data(b[j]) < data(b[k[1]]) THEN <<j, k[2]>>
                     ELSE IF data(b[j]) < data(b[k[2]]) THEN <<k[1], j>>
                     ELSE k
    IN  FoldLeft(See, <<first[1], first[2]>>, Tail(first))
LeastTwo(b) ==
    LET first == Index(DOMAIN b)
        See(k, j) == IF data(b[j]) < data(b[k[1]]) THEN <<j, k[1]>>
                     ELSE IF data(b[j]) < data(b[k[2]]) THEN <<k[1], j>>
                     ELSE k
    IN  FoldLeft(See, <<first[1], first[2]>>, Tail(first))

\* Two trees become one, in the place of the first, until there is one.
RECURSIVE Joined(_)
Joined(b) ==
    LET k == LeastTwo(b)
        q == <<data(b[k[1]]) + data(b[k[2]]), b[k[1]], b[k[2]]>>
    IN  IF Cardinality(DOMAIN b) = 1
        THEN b[CHOOSE i \in DOMAIN b : TRUE]
        ELSE Joined([i \in DOMAIN b \ {k[2]} |-> IF i = k[1] THEN q ELSE b[i]])

CreateHuffman == Joined([i \in 1 .. Len(a) |-> <<a[i]>>])

RECURSIVE WeightPathLength(_, _)
WeightPathLength(FBT, len) ==
    IF IsLeaf(FBT) THEN data(FBT) * len
    ELSE WeightPathLength(FBT[2], len + 1) + WeightPathLength(FBT[3], len + 1)

\* What HuffManCoding prints: <<weight, code>> of each leaf, from left to right
RECURSIVE HuffManCoding(_, _)
HuffManCoding(FBT, code) ==
    IF IsLeaf(FBT) THEN <<<<data(FBT), code>>>>
    ELSE HuffManCoding(FBT[2], Append(code, 0)) \o HuffManCoding(FBT[3], Append(code, 1))

-----------------------------------------------------------------------------
\* The weights are those of the code's users, as many as the bound allows.
TypeOK == a \in Seq(Weights) /\ Len(a) <= MaxLeaves

\* The least weighted path length of any tree with these weights: of all ways to
\* join two of them, the best
RECURSIVE Least(_)
Least(s) ==
    LET Pairs == {p \in (DOMAIN s) \X (DOMAIN s) : p[1] < p[2]}
        Rest(p) == RemoveAt(RemoveAt(s, p[2]), p[1])
        Costs == {s[p[1]] + s[p[2]] + Least(Append(Rest(p), s[p[1]] + s[p[2]])) : p \in Pairs}
    IN  IF Len(s) = 1 THEN 0 ELSE CHOOSE c \in Costs : \A d \in Costs : c <= d

\* No tree has a smaller weighted path length than the one CreateHuffman builds,
\* and its codes are those of the weights: as many, none a prefix of another, and
\* together as long as WeightPathLength says.
CodeIsBest ==
    Len(a) >= 2 =>
        LET tree  == CreateHuffman
            codes == HuffManCoding(tree, << >>)
        IN  /\ WeightPathLength(tree, 0) = Least(a)
            /\ SortSeq([i \in DOMAIN codes |-> codes[i][1]], <) = SortSeq(a, <)
            /\ \A i, j \in DOMAIN codes : i # j => ~IsPrefix(codes[i][2], codes[j][2])
            /\ FoldLeft(LAMBDA n, c : n + c[1] * Len(c[2]), 0, codes) = WeightPathLength(tree, 0)
=============================================================================
