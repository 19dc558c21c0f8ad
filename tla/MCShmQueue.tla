----------------------------- MODULE MCShmQueue -----------------------------
(* Instances of ShmQueue for TLC.  With ele_size = 8 a block has 24 bytes: a *)
(* message of 8 bytes needs one, a message of 20 bytes two.                  *)
EXTENDS ShmQueue, TLC

OneBlock == {8}
TwoSizes == {8, 20}

\* Payload taken for a length: with an int of 12 bits and a size_t of 24 the four
\* negative ones make, in this order, two different negative numbers of blocks
\* (as they do with 32 and 64 bits), none and one; of the others one makes more
\* than the ring holds.
AnyWords == {-2048, -1900, -20, -5, 0, 8, 20, 2047}
\* One of each kind
FewWords == {-2048, -20, -5, 8}

\* Writers are interchangeable, and so are readers: no action tells them apart.
Symmetry == Permutations(Writers) \cup Permutations(Readers)
=============================================================================
