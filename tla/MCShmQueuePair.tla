--------------------------- MODULE MCShmQueuePair ---------------------------
(* Two of a kind: of two writers and two readers one process stays away, so  *)
(* that either two writers face one reader or two readers one writer.        *)
EXTENDS MCShmQueue

VARIABLE absent

PairInit == Init /\ absent \in Writers \cup Readers

PairNext ==
    /\ \/ \E p \in Writers \ {absent} : Writer(p)
       \/ \E r \in Readers \ {absent} : Reader(r)
    /\ UNCHANGED absent

PairSpec == PairInit /\ [][PairNext]_<<vars, absent>>
=============================================================================
