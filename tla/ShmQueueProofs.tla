--------------------------- MODULE ShmQueueProofs ---------------------------
(***************************************************************************)
(* What ShmQueue's runs check on small rings, for rings of every size and  *)
(* for any number of writers, readers, messages and crashes.               *)
(***************************************************************************)
EXTENDS ShmQueue, TLAPS

(* Positions *)

\* SQ_ADD_POS stays inside the ring whatever is added.
LEMMA AddPosInRing ==
    ASSUME NEW pos \in Blocks, NEW val \in Nat
    PROVE  AddPos(pos, val) \in Blocks
BY QueueAssumption DEF AddPos, Rem, Blocks

\* Whatever is added to whatever position, the remainder is a position.
LEMMA AddPosAny ==
    ASSUME NEW pos \in Positions, NEW val \in Int
    PROVE  AddPos(pos, val) \in Positions
<1> DEFINE n == ele_count + 1
<1>1. n \in Nat \ {0} /\ pos + val \in Int
  BY QueueAssumption DEF Positions
<1>2. ASSUME NEW a \in Int PROVE Rem(a, n) \in -(n - 1) .. n - 1
  <2>1. a >= 0 => a % n \in 0 .. n - 1
    BY <1>1
  <2>2. (-a) % n \in 0 .. n - 1
    BY <1>1
  <2> QED
    BY <1>1, <2>1, <2>2 DEF Rem
<1> QED
  BY <1>1, <1>2, QueueAssumption DEF AddPos, Positions

\* The positions of the ring's blocks are positions.
LEMMA BlocksArePositions == Blocks \subseteq Positions /\ 0 \in Blocks
BY QueueAssumption DEF Blocks, Positions

\* Inside the ring SQ_ADD_POS wraps at most once.
LEMMA AddPosCases ==
    ASSUME NEW pos \in Blocks, NEW val \in Blocks
    PROVE  AddPos(pos, val) = IF pos + val <= ele_count THEN pos + val
                              ELSE pos + val - (ele_count + 1)
BY QueueAssumption DEF AddPos, Rem, Blocks

\* SQ_USED_NODES2 is the distance from the head up to the tail.
LEMMA UsedCases ==
    ASSUME NEW h \in Blocks, NEW t \in Blocks
    PROVE  /\ UsedNodes(h, t) = IF h <= t THEN t - h ELSE ele_count + 1 + t - h
           /\ UsedNodes(h, t) \in Blocks
BY QueueAssumption DEF UsedNodes, EmptyNodes, Rem, Blocks

\* A block has room for its header.
LEMMA NodeSizeNat == NodeSize \in Nat /\ NodeSize >= 16
BY QueueAssumption DEF NodeSize, NODE_HEAD

\* SQ_NUM_NEEDED_NODES is an int, whatever is taken for a length.
LEMMA NumNeededInt ==
    ASSUME NEW l \in Int
    PROVE  NumNeeded(l) \in Int
<1> DEFINE n == (l + NODE_HEAD + NodeSize - 1) % SizeRange
<1>1. SizeRange \in Nat \ {0} /\ IntRange \in Nat \ {0}
  BY WidthAssumption, NodeSizeNat, QueueAssumption DEF NODE_HEAD
<1>2. n \in Nat
  BY <1>1, NodeSizeNat DEF NODE_HEAD
<1>3. n \div NodeSize \in Int
  BY <1>2, NodeSizeNat
<1>4. ASSUME NEW m \in Int PROVE AsInt(m) \in Int
  <2>1. m % IntRange \in Int
    BY <1>1
  <2> QED
    BY <1>1, <2>1 DEF AsInt
<1> QED
  BY <1>3, <1>4 DEF NumNeeded

\* Of the length of a message it is the number of blocks that hold it with its
\* header: nothing is lost in a size_t or in an int.
LEMMA NumNeededOf ==
    ASSUME NEW l \in 0 .. MAX_SQ_DATA_LENGTH
    PROVE  /\ NumNeeded(l) = (l + NODE_HEAD + NodeSize - 1) \div NodeSize
           /\ NumNeeded(l) \in Nat \ {0}
<1> DEFINE n == l + NODE_HEAD + NodeSize - 1
<1>1. /\ n \in Nat /\ n >= NodeSize /\ 2 * n < IntRange
      /\ IntRange \in Nat \ {0} /\ SizeRange \in Nat \ {0} /\ IntRange <= SizeRange
  BY NodeSizeNat, QueueAssumption, WidthAssumption DEF NODE_HEAD
<1>2. n % SizeRange = n
  BY <1>1
<1>3. /\ n \div NodeSize \in Nat /\ n \div NodeSize <= n /\ n \div NodeSize >= 1
  BY <1>1, NodeSizeNat, SMTT(30)
<1>4. ASSUME NEW m \in Nat, 2 * m < IntRange PROVE AsInt(m) = m
  BY <1>1, <1>4 DEF AsInt
<1>5. AsInt(n \div NodeSize) = n \div NodeSize
  BY <1>1, <1>3, <1>4
<1> QED
  BY <1>2, <1>3, <1>5 DEF NumNeeded

\* What Lens may contain
LEMMA LensInBounds == Lens \subseteq 0 .. MAX_SQ_DATA_LENGTH /\ Lens \subseteq Nat
BY QueueAssumption

-----------------------------------------------------------------------------
(* Type correctness *)

\* What the locals of a call hold at a given place, beyond their types: a
\* message's length and number, a conflict counter with room for one more, a block
\* where a length is read, and a length that is not negative when data is copied.
WriterLocal(pc, l) ==
    /\ pc # "idle" => l.len \in Lens
    /\ pc \in {"skip", "copy", "token"} => l.id \in Ids

ReaderLocal(pc, l, c) ==
    /\ pc = "recheck" => c < SQ_MAX_CONFLICT_TRIES
    /\ pc = "len" => l.head \in Blocks
    /\ pc \in {"copy", "clear"} => l.len \in Nat

LocalsOK ==
    /\ \A p \in Writers : WriterLocal(wpc[p], wl[p])
    /\ \A r \in Readers : ReaderLocal(rpc[r], rl[r], rw_conflict[r])

PlainInv == TypeOK /\ LocalsOK

\* The locals of a process outside sq_put and sq_get
LEMMA IdleLocals == WIdle \in WLocals /\ RIdle \in RLocals
BY QueueAssumption, BoundAssumption DEF WIdle, RIdle, WLocals, RLocals, Blocks, Positions, Buffers

\* A segment that open_shm_queue has just cleared satisfies the type invariant.
LEMMA InitType == Init => PlainInv
<1> SUFFICES ASSUME Init PROVE PlainInv
  OBVIOUS
<1> USE QueueAssumption, BoundAssumption DEF Init
<1>1. RingOK
  BY DEF RingOK, Blocks, Positions, Tokens
<1>2. WritersOK /\ ReadersOK
  BY IdleLocals DEF WritersOK, ReadersOK, WriterPC, ReaderPC
<1>3. HistoryOK
  <2>1. lenOf \in Seq(Lens) /\ returned \in Seq(Results)
    OBVIOUS
  <2>2. /\ conflict \in BOOLEAN /\ gaveUp \in BOOLEAN /\ aba \in BOOLEAN
        /\ astray \in BOOLEAN /\ misled \in BOOLEAN
    BY Zenon
  <2> QED
    BY <2>1, <2>2 DEF HistoryOK
<1>4. LocalsOK
  <2>1. \A p \in Writers : wpc[p] = "idle"
    OBVIOUS
  <2>2. \A r \in Readers : rpc[r] = "idle"
    OBVIOUS
  <2> QED
    BY <2>1, <2>2, Zenon DEF LocalsOK, WriterLocal, ReaderLocal
<1> QED
  BY <1>1, <1>2, <1>3, <1>4 DEF PlainInv, TypeOK

\* A step of one writer, as far as its own state goes
LEMMA WriterStep ==
    ASSUME PlainInv, NEW p \in Writers, NEW pc \in WriterPC, NEW l \in WLocals,
           WriterLocal(pc, l),
           wpc' = [wpc EXCEPT ![p] = pc], wl' = [wl EXCEPT ![p] = l],
           UNCHANGED rvars
    PROVE  WritersOK' /\ ReadersOK' /\ LocalsOK'
BY DEF PlainInv, TypeOK, WritersOK, ReadersOK, LocalsOK, WriterLocal, rvars

\* A step of one reader
LEMMA ReaderStep ==
    ASSUME PlainInv, NEW r \in Readers, NEW pc \in ReaderPC, NEW l \in RLocals,
           NEW c \in 0 .. SQ_MAX_CONFLICT_TRIES,
           ReaderLocal(pc, l, c),
           rpc' = [rpc EXCEPT ![r] = pc], rl' = [rl EXCEPT ![r] = l],
           rw_conflict' = [rw_conflict EXCEPT ![r] = c],
           UNCHANGED wvars
    PROVE  WritersOK' /\ ReadersOK' /\ LocalsOK'
BY DEF PlainInv, TypeOK, WritersOK, ReadersOK, LocalsOK, wvars

\* A length that a reader may find is an int, also in a block of payload.
LEMMA LenAtInt ==
    ASSUME RingOK, NEW b \in Blocks, NEW l \in LenAt(b)
    PROVE  l \in Int
<1>1. datalen[b] \in Lens \cup {0, GARBAGE}
  BY DEF RingOK
<1> QED
  BY <1>1, QueueAssumption DEF LenAt, GARBAGE

\* The message that a reader dies with is in blocks of the ring.
LEMMA LeavesTypes ==
    ASSUME RingOK, HistoryOK, NEW r \in Readers, Leaves(r)
    PROVE  left' \subseteq Blocks /\ lost' \subseteq 0 .. MaxPuts
<1>1. \A a, b : Range(a, b) \subseteq Blocks
  BY DEF Range
<1>2. {data[b] : b \in Range(rl[r].head, rl[r].new_head)} \subseteq 0 .. MaxPuts
  BY <1>1 DEF RingOK
<1> QED
  BY <1>1, <1>2 DEF Leaves, HistoryOK

\* No step of sq_put or sq_get and no death of a process breaks a type.
LEMMA NextType == PlainInv /\ [Next]_vars => PlainInv'
<1> SUFFICES ASSUME PlainInv, [Next]_vars
             PROVE  PlainInv'
  OBVIOUS
<1> USE QueueAssumption, BoundAssumption DEF PlainInv, TypeOK
<1>1. ASSUME NEW p \in Writers, NEW l \in Lens, PutStart(p, l)
      PROVE  PlainInv'
  <2>1. RingOK'
    BY <1>1 DEF PutStart, RingOK, shm
  <2>2. HistoryOK'
    BY <1>1 DEF PutStart, HistoryOK, history, remains, crashes
  <2> DEFINE pc == "load"
             new == [WIdle EXCEPT !.len = l, !.nr = NumNeeded(l)]
  <2>a. NumNeeded(l) \in Nat
    BY NumNeededOf, LensInBounds
  <2>3. pc \in WriterPC /\ new \in WLocals /\ WriterLocal(pc, new)
    BY <1>1, IdleLocals, <2>a
    DEF PutStart, WritersOK, LocalsOK, WriterLocal, WLocals, WriterPC, RingOK, WIdle
  <2>4. /\ wpc' = [wpc EXCEPT ![p] = pc]
        /\ wl' = [wl EXCEPT ![p] = new]
        /\ UNCHANGED rvars
    BY <1>1 DEF PutStart, WritersOK, rvars
  <2>5. WritersOK' /\ ReadersOK' /\ LocalsOK'
    BY <2>3, <2>4, WriterStep
  <2> QED
    BY <2>1, <2>2, <2>5
<1>2. ASSUME NEW p \in Writers, PutLoadTail(p)
      PROVE  PlainInv'
  <2>1. RingOK'
    BY <1>2 DEF PutLoadTail, RingOK, shm
  <2>2. HistoryOK'
    BY <1>2 DEF PutLoadTail, HistoryOK, remains, crashes
  <2> DEFINE pc == "head"
             new == [wl[p] EXCEPT !.old_tail = tail_pos]
  <2>3. pc \in WriterPC /\ new \in WLocals /\ WriterLocal(pc, new)
    BY <1>2, IdleLocals
    DEF PutLoadTail, WritersOK, LocalsOK, WriterLocal, WLocals, WriterPC, RingOK
  <2>4. /\ wpc' = [wpc EXCEPT ![p] = pc]
        /\ wl' = [wl EXCEPT ![p] = new]
        /\ UNCHANGED rvars
    BY <1>2 DEF PutLoadTail, WritersOK, rvars
  <2>5. WritersOK' /\ ReadersOK' /\ LocalsOK'
    BY <2>3, <2>4, WriterStep
  <2> QED
    BY <2>1, <2>2, <2>5
<1>3. ASSUME NEW p \in Writers, PutReadHead(p)
      PROVE  PlainInv'
  <2>1. RingOK'
    BY <1>3 DEF PutReadHead, RingOK, shm
  <2>2. HistoryOK'
    BY <1>3 DEF PutReadHead, HistoryOK, history, remains, crashes
  <2> DEFINE pc == "check"
             new == [wl[p] EXCEPT !.h = head_pos]
  <2>3. pc \in WriterPC /\ new \in WLocals /\ WriterLocal(pc, new)
    BY <1>3, IdleLocals
    DEF PutReadHead, WritersOK, LocalsOK, WriterLocal, WLocals, WriterPC, RingOK
  <2>4. /\ wpc' = [wpc EXCEPT ![p] = pc]
        /\ wl' = [wl EXCEPT ![p] = new]
        /\ UNCHANGED rvars
    BY <1>3 DEF PutReadHead, WritersOK, rvars
  <2>5. WritersOK' /\ ReadersOK' /\ LocalsOK'
    BY <2>3, <2>4, WriterStep
  <2> QED
    BY <2>1, <2>2, <2>5
<1>4. ASSUME NEW p \in Writers, PutCheck(p)
      PROVE  PlainInv'
  <2>1. RingOK'
    BY <1>4 DEF PutCheck, RingOK, shm
  <2>2. HistoryOK'
    BY <1>4 DEF PutCheck, HistoryOK, history, remains, crashes
  <2> DEFINE pc == IF Enough(wl[p].h, tail_pos, wl[p].nr) THEN "alloc" ELSE "idle"
             new == IF pc = "alloc" THEN wl[p] ELSE WIdle
  <2>3. pc \in WriterPC /\ new \in WLocals /\ WriterLocal(pc, new)
    BY <1>4, IdleLocals
    DEF PutCheck, WritersOK, LocalsOK, WriterLocal, WLocals, WriterPC, RingOK
  <2>4. /\ wpc' = [wpc EXCEPT ![p] = pc]
        /\ wl' = [wl EXCEPT ![p] = new]
        /\ UNCHANGED rvars
    BY <1>4 DEF PutCheck, WritersOK, rvars, PutReturn
  <2>5. WritersOK' /\ ReadersOK' /\ LocalsOK'
    BY <2>3, <2>4, WriterStep
  <2> QED
    BY <2>1, <2>2, <2>5
<1>5. ASSUME NEW p \in Writers, PutAlloc(p)
      PROVE  PlainInv'
  <2>1. RingOK'
    BY <1>5 DEF PutAlloc, RingOK, shm
  <2>2. HistoryOK'
    BY <1>5 DEF PutAlloc, HistoryOK, history, remains, crashes
  <2> DEFINE pc == IF AddPos(tail_pos, wl[p].nr) < wl[p].old_tail THEN "wrap" ELSE "cas"
             new == [wl[p] EXCEPT !.new_tail = AddPos(tail_pos, wl[p].nr), !.idx = wl[p].old_tail]
  <2>a. AddPos(tail_pos, wl[p].nr) \in Blocks
    BY AddPosInRing DEF RingOK, WritersOK, WLocals
  <2>3. pc \in WriterPC /\ new \in WLocals /\ WriterLocal(pc, new)
    BY <1>5, IdleLocals, <2>a
    DEF PutAlloc, WritersOK, LocalsOK, WriterLocal, WLocals, WriterPC, RingOK
  <2>4. /\ wpc' = [wpc EXCEPT ![p] = pc]
        /\ wl' = [wl EXCEPT ![p] = new]
        /\ UNCHANGED rvars
    BY <1>5 DEF PutAlloc, WritersOK, rvars
  <2>5. WritersOK' /\ ReadersOK' /\ LocalsOK'
    BY <2>3, <2>4, WriterStep
  <2> QED
    BY <2>1, <2>2, <2>5
<1>6. ASSUME NEW p \in Writers, PutWrap(p)
      PROVE  PlainInv'
  <2>1. RingOK'
    BY <1>6 DEF PutWrap, RingOK, shm
  <2>2. HistoryOK'
    BY <1>6 DEF PutWrap, HistoryOK, history, remains, crashes
  <2> DEFINE pc == IF RoomBeforeHead(wl[p].nr) THEN "cas" ELSE "idle"
             new == IF pc = "cas" THEN [wl[p] EXCEPT !.new_tail = wl[p].nr, !.idx = 0] ELSE WIdle
  <2>a. RoomBeforeHead(wl[p].nr) => wl[p].nr \in Blocks
    BY DEF RoomBeforeHead, RingOK, WritersOK, WLocals, Blocks, Positions
  <2>b. 0 \in Blocks
    BY DEF Blocks
  <2>3. pc \in WriterPC /\ new \in WLocals /\ WriterLocal(pc, new)
    BY <1>6, IdleLocals, <2>a, <2>b
    DEF PutWrap, WritersOK, LocalsOK, WriterLocal, WLocals, WriterPC, RingOK
  <2>4. /\ wpc' = [wpc EXCEPT ![p] = pc]
        /\ wl' = [wl EXCEPT ![p] = new]
        /\ UNCHANGED rvars
    BY <1>6 DEF PutWrap, WritersOK, rvars, PutReturn
  <2>5. WritersOK' /\ ReadersOK' /\ LocalsOK'
    BY <2>3, <2>4, WriterStep
  <2> QED
    BY <2>1, <2>2, <2>5
<1>7. ASSUME NEW p \in Writers, PutCAS(p)
      PROVE  PlainInv'
  <2> USE DEF WritersOK, LocalsOK, WriterLocal
  <2>1. CASE MoveTail(p) /\ nputs < MaxPuts /\ nputs' = nputs + 1
    <3> DEFINE pc == wpc'[p]
               new == [wl[p] EXCEPT !.id = nputs + 1, !.k = 0]
    <3>1. nputs + 1 \in Ids /\ wl[p].len \in Lens
      BY <1>7, <2>1, SMTT(30) DEF HistoryOK, PutCAS, Ids
    <3>2. pc \in {"skip", "copy"} /\ wpc' = [wpc EXCEPT ![p] = pc]
      BY <1>7, <2>1 DEF PutCAS, MoveTail
    <3>3. wl' = [wl EXCEPT ![p] = new] /\ UNCHANGED rvars
      BY <1>7, <2>1 DEF PutCAS, MoveTail, rvars
    <3>4. RingOK'
      BY <1>7, <2>1 DEF PutCAS, MoveTail, RingOK, WLocals
    <3>5. HistoryOK'
      <4>1. /\ lenOf' = Append(lenOf, wl[p].len)
            /\ UNCHANGED <<returned, putDone, gaveUp, remains, crashes>>
        BY <1>7, <2>1 DEF PutCAS, MoveTail
      <4>4. lenOf \in Seq(Lens)
        BY DEF HistoryOK
      <4>5. lenOf' \in Seq(Lens)
        BY ONLY <3>1, <4>1, <4>4
      <4>2. conflict' \in BOOLEAN /\ aba' \in BOOLEAN
        BY <1>7, <2>1 DEF PutCAS, MoveTail
      <4>3. passed' \subseteq Writers \cup Readers
        BY <1>7, <2>1 DEF PutCAS, MoveTail, HistoryOK
      <4> QED
        BY <2>1, <3>1, <4>1, <4>2, <4>3, <4>5 DEF HistoryOK, remains, crashes, Ids
    <3>6. pc \in WriterPC /\ new \in WLocals /\ WriterLocal(pc, new)
      <4>1. wl[p] \in WLocals /\ nputs + 1 \in 0 .. MaxPuts
        BY <3>1 DEF Ids
      <4>2. new \in WLocals /\ new.len = wl[p].len /\ new.id = nputs + 1
        BY <4>1 DEF WLocals
      <4> QED
        BY <3>1, <3>2, <4>2 DEF WriterPC
    <3>7. WritersOK' /\ ReadersOK' /\ LocalsOK'
      BY <3>2, <3>3, <3>6, WriterStep
    <3> QED
      BY <3>4, <3>5, <3>7
  <2>2. CASE /\ tail_pos # wl[p].old_tail
             /\ wpc' = [wpc EXCEPT ![p] = "load"]
             /\ UNCHANGED <<shm, wl, history>>
    <3>1. RingOK' /\ HistoryOK'
      BY <1>7, <2>2 DEF PutCAS, RingOK, HistoryOK, shm, history, remains, crashes
    <3>2. wl' = [wl EXCEPT ![p] = wl[p]] /\ wl[p] \in WLocals
      BY <2>2
    <3>3. WriterLocal("load", wl[p]) /\ "load" \in WriterPC /\ UNCHANGED rvars
      BY <1>7 DEF PutCAS, WriterPC
    <3>4. WritersOK' /\ ReadersOK' /\ LocalsOK'
      BY <2>2, <3>2, <3>3, WriterStep
    <3> QED
      BY <3>1, <3>4
  <2> QED
    BY <1>7, <2>1, <2>2 DEF PutCAS
<1>8. ASSUME NEW p \in Writers, PutSkip(p)
      PROVE  PlainInv'
  <2>1. RingOK'
    BY <1>8 DEF PutSkip, RingOK, Tokens
  <2>2. HistoryOK'
    BY <1>8 DEF PutSkip, Written, HistoryOK, crashes
  <2> DEFINE pc == IF AddPos(wl[p].old_tail, 1) = 0 THEN "copy" ELSE "skip"
             new == [wl[p] EXCEPT !.old_tail = AddPos(wl[p].old_tail, 1)]
  <2>a. AddPos(wl[p].old_tail, 1) \in Blocks
    BY AddPosInRing DEF WritersOK, WLocals
  <2>3. pc \in WriterPC /\ new \in WLocals /\ WriterLocal(pc, new)
    BY <1>8, IdleLocals, <2>a
    DEF PutSkip, WritersOK, LocalsOK, WriterLocal, WLocals, WriterPC, RingOK
  <2>4. /\ wpc' = [wpc EXCEPT ![p] = pc]
        /\ wl' = [wl EXCEPT ![p] = new]
        /\ UNCHANGED rvars
    BY <1>8 DEF PutSkip, WritersOK, rvars
  <2>5. WritersOK' /\ ReadersOK' /\ LocalsOK'
    BY <2>3, <2>4, WriterStep
  <2> QED
    BY <2>1, <2>2, <2>5
<1>9. ASSUME NEW p \in Writers, PutCopy(p)
      PROVE  PlainInv'
  <2>1. RingOK'
    BY <1>9 DEF PutCopy, RingOK, Tokens, TokenAfter, WritersOK, WLocals, LocalsOK, WriterLocal, Ids
  <2>2. HistoryOK'
    BY <1>9 DEF PutCopy, Written, HistoryOK, remains, crashes
  <2> DEFINE pc == IF wl[p].k + 1 = wl[p].nr THEN "token" ELSE "copy"
             new == [wl[p] EXCEPT !.k = wl[p].k + 1]
  <2>3. pc \in WriterPC /\ new \in WLocals /\ WriterLocal(pc, new)
    BY <1>9, IdleLocals
    DEF PutCopy, WritersOK, LocalsOK, WriterLocal, WLocals, WriterPC, RingOK
  <2>4. /\ wpc' = [wpc EXCEPT ![p] = pc]
        /\ wl' = [wl EXCEPT ![p] = new]
        /\ UNCHANGED rvars
    BY <1>9 DEF PutCopy, WritersOK, rvars
  <2>5. WritersOK' /\ ReadersOK' /\ LocalsOK'
    BY <2>3, <2>4, WriterStep
  <2> QED
    BY <2>1, <2>2, <2>5
<1>10. ASSUME NEW p \in Writers, PutToken(p)
      PROVE  PlainInv'
  <2>1. RingOK'
    BY <1>10 DEF PutToken, RingOK, Tokens
  <2>2. HistoryOK'
    BY <1>10 DEF PutToken, Written, HistoryOK, crashes, LocalsOK, WriterLocal
  <2> DEFINE pc == "idle"
             new == WIdle
  <2>3. pc \in WriterPC /\ new \in WLocals /\ WriterLocal(pc, new)
    BY <1>10, IdleLocals
    DEF PutToken, WritersOK, LocalsOK, WriterLocal, WLocals, WriterPC, RingOK
  <2>4. /\ wpc' = [wpc EXCEPT ![p] = pc]
        /\ wl' = [wl EXCEPT ![p] = new]
        /\ UNCHANGED rvars
    BY <1>10 DEF PutToken, WritersOK, rvars, PutReturn
  <2>5. WritersOK' /\ ReadersOK' /\ LocalsOK'
    BY <2>3, <2>4, WriterStep
  <2> QED
    BY <2>1, <2>2, <2>5
<1>11. ASSUME NEW p \in Writers, WriterCrash(p)
      PROVE  PlainInv'
  <2>1. RingOK'
    BY <1>11 DEF WriterCrash, RingOK, shm
  <2>2. HistoryOK'
    BY <1>11 DEF WriterCrash, HistoryOK, history, remains
  <2> DEFINE pc == "idle"
             new == WIdle
  <2>3. pc \in WriterPC /\ new \in WLocals /\ WriterLocal(pc, new)
    BY <1>11, IdleLocals
    DEF WriterCrash, WritersOK, LocalsOK, WriterLocal, WLocals, WriterPC, RingOK
  <2>4. /\ wpc' = [wpc EXCEPT ![p] = pc]
        /\ wl' = [wl EXCEPT ![p] = new]
        /\ UNCHANGED rvars
    BY <1>11 DEF WriterCrash, WritersOK, rvars, PutReturn
  <2>5. WritersOK' /\ ReadersOK' /\ LocalsOK'
    BY <2>3, <2>4, WriterStep
  <2> QED
    BY <2>1, <2>2, <2>5
<1>12. ASSUME NEW r \in Readers, GetLoadHead(r)
      PROVE  PlainInv'
  <2>1. RingOK'
    BY <1>12 DEF GetLoadHead, RingOK, shm
  <2>2. HistoryOK'
    BY <1>12 DEF GetLoadHead, HistoryOK, remains, crashes
  <2> DEFINE pc == "tail"
             new == [RIdle EXCEPT !.old_head = head_pos, !.head = head_pos]
             c == rw_conflict[r]
  <2>3. /\ pc \in ReaderPC /\ new \in RLocals
        /\ c \in 0 .. SQ_MAX_CONFLICT_TRIES
        /\ ReaderLocal(pc, new, c)
    BY <1>12, IdleLocals
    DEF GetLoadHead, ReadersOK, LocalsOK, ReaderLocal, RLocals, ReaderPC, RingOK
  <2>4. /\ rpc' = [rpc EXCEPT ![r] = pc]
        /\ rl' = [rl EXCEPT ![r] = new]
        /\ rw_conflict' = [rw_conflict EXCEPT ![r] = c]
        /\ UNCHANGED wvars
    BY <1>12 DEF GetLoadHead, ReadersOK, wvars, RGoto
  <2>5. WritersOK' /\ ReadersOK' /\ LocalsOK'
    BY <2>3, <2>4, ReaderStep
  <2> QED
    BY <2>1, <2>2, <2>5
<1>13. ASSUME NEW r \in Readers, GetTail(r)
      PROVE  PlainInv'
  <2>1. RingOK'
    BY <1>13 DEF GetTail, RingOK, shm
  <2>2. HistoryOK'
    BY <1>13 DEF GetTail, HistoryOK, history, remains, crashes
  <2> DEFINE pc == IF tail_pos # rl[r].head THEN "tok1" ELSE IF rl[r].head # rl[r].old_head THEN "endcas" ELSE "idle"
             new == IF pc = "idle" THEN RIdle ELSE rl[r]
             c == IF pc = "idle" THEN 0 ELSE rw_conflict[r]
  <2>3. /\ pc \in ReaderPC /\ new \in RLocals
        /\ c \in 0 .. SQ_MAX_CONFLICT_TRIES
        /\ ReaderLocal(pc, new, c)
    BY <1>13, IdleLocals
    DEF GetTail, ReadersOK, LocalsOK, ReaderLocal, RLocals, ReaderPC, RingOK
  <2>4. /\ rpc' = [rpc EXCEPT ![r] = pc]
        /\ rl' = [rl EXCEPT ![r] = new]
        /\ rw_conflict' = [rw_conflict EXCEPT ![r] = c]
        /\ UNCHANGED wvars
    BY <1>13 DEF GetTail, ReadersOK, wvars, RGoto, GetReturn
  <2>5. WritersOK' /\ ReadersOK' /\ LocalsOK'
    BY <2>3, <2>4, ReaderStep
  <2> QED
    BY <2>1, <2>2, <2>5
<1>14. ASSUME NEW r \in Readers, GetEndCAS(r)
      PROVE  PlainInv'
  <2>1. RingOK'
    BY <1>14 DEF GetEndCAS, RingOK, MoveHead, KeepHead, ReadersOK, RLocals
  <2>2. HistoryOK'
    BY <1>14 DEF GetEndCAS, HistoryOK, MoveHead, KeepHead, remains, crashes
  <2> DEFINE pc == rpc'[r]
             new == rl'[r]
             c == rw_conflict'[r]
  <2>3. /\ pc \in ReaderPC /\ new \in RLocals
        /\ c \in 0 .. SQ_MAX_CONFLICT_TRIES
        /\ ReaderLocal(pc, new, c)
    BY <1>14, IdleLocals
    DEF GetEndCAS, ReadersOK, LocalsOK, ReaderLocal, RLocals, ReaderPC, RingOK, GetReturn, RGoto
  <2>4. /\ rpc' = [rpc EXCEPT ![r] = pc]
        /\ rl' = [rl EXCEPT ![r] = new]
        /\ rw_conflict' = [rw_conflict EXCEPT ![r] = c]
        /\ UNCHANGED wvars
    BY <1>14 DEF GetEndCAS, ReadersOK, wvars, RGoto, GetReturn
  <2>5. WritersOK' /\ ReadersOK' /\ LocalsOK'
    BY <2>3, <2>4, ReaderStep
  <2> QED
    BY <2>1, <2>2, <2>5
<1>15. ASSUME NEW r \in Readers, GetTok1(r)
      PROVE  PlainInv'
  <2>1. RingOK'
    BY <1>15 DEF GetTok1, RingOK, shm
  <2>2. HistoryOK'
    BY <1>15 DEF GetTok1, TakenForStart, HistoryOK, remains, crashes
  <2> DEFINE pc == IF TokenAt(rl[r].head) = TOKEN_HAS_DATA THEN "len" ELSE "tok2"
             new == rl[r]
             c == rw_conflict[r]
  <2>3. /\ pc \in ReaderPC /\ new \in RLocals
        /\ c \in 0 .. SQ_MAX_CONFLICT_TRIES
        /\ ReaderLocal(pc, new, c)
    BY <1>15, IdleLocals
    DEF GetTok1, ReadersOK, LocalsOK, ReaderLocal, RLocals, ReaderPC, RingOK, TokenAt,
        TOKEN_HAS_DATA, TOKEN_NO_DATA
  <2>4. /\ rpc' = [rpc EXCEPT ![r] = pc]
        /\ rl' = [rl EXCEPT ![r] = new]
        /\ rw_conflict' = [rw_conflict EXCEPT ![r] = c]
        /\ UNCHANGED wvars
    BY <1>15 DEF GetTok1, ReadersOK, wvars, RGoto
  <2>5. WritersOK' /\ ReadersOK' /\ LocalsOK'
    BY <2>3, <2>4, ReaderStep
  <2> QED
    BY <2>1, <2>2, <2>5
<1>16. ASSUME NEW r \in Readers, GetTok2(r)
      PROVE  PlainInv'
  <2>1. RingOK'
    BY <1>16 DEF GetTok2, RingOK, shm
  <2>2. HistoryOK'
    BY <1>16 DEF GetTok2, HistoryOK, history, remains, crashes
  <2> DEFINE pc == IF Wait(r) THEN "recheck" ELSE "tok3"
             new == rl[r]
             c == rw_conflict[r]
  <2>3. /\ pc \in ReaderPC /\ new \in RLocals
        /\ c \in 0 .. SQ_MAX_CONFLICT_TRIES
        /\ ReaderLocal(pc, new, c)
    BY <1>16, IdleLocals
    DEF GetTok2, ReadersOK, LocalsOK, ReaderLocal, RLocals, ReaderPC, RingOK, Wait
  <2>4. /\ rpc' = [rpc EXCEPT ![r] = pc]
        /\ rl' = [rl EXCEPT ![r] = new]
        /\ rw_conflict' = [rw_conflict EXCEPT ![r] = c]
        /\ UNCHANGED wvars
    BY <1>16 DEF GetTok2, ReadersOK, wvars, RGoto
  <2>5. WritersOK' /\ ReadersOK' /\ LocalsOK'
    BY <2>3, <2>4, ReaderStep
  <2> QED
    BY <2>1, <2>2, <2>5
<1>17. ASSUME NEW r \in Readers, GetRecheck(r)
      PROVE  PlainInv'
  <2>1. RingOK'
    BY <1>17 DEF GetRecheck, RingOK, shm
  <2>2. HistoryOK'
    BY <1>17 DEF GetRecheck, HistoryOK, history, remains, crashes
  <2> DEFINE pc == IF head_pos # rl[r].old_head THEN "load" ELSE "idle"
             new == RIdle
             c == IF pc = "load" THEN rw_conflict[r] ELSE rw_conflict[r] + 1
  <2>3. /\ pc \in ReaderPC /\ new \in RLocals
        /\ c \in 0 .. SQ_MAX_CONFLICT_TRIES
        /\ ReaderLocal(pc, new, c)
    BY <1>17, IdleLocals
    DEF GetRecheck, ReadersOK, LocalsOK, ReaderLocal, RLocals, ReaderPC, RingOK
  <2>4. /\ rpc' = [rpc EXCEPT ![r] = pc]
        /\ rl' = [rl EXCEPT ![r] = new]
        /\ rw_conflict' = [rw_conflict EXCEPT ![r] = c]
        /\ UNCHANGED wvars
    BY <1>17 DEF GetRecheck, Tried, ReadersOK, wvars, RGoto, GetReturn, GetAgain
  <2>5. WritersOK' /\ ReadersOK' /\ LocalsOK'
    BY <2>3, <2>4, ReaderStep
  <2> QED
    BY <2>1, <2>2, <2>5
<1>18. ASSUME NEW r \in Readers, GetTok3(r)
      PROVE  PlainInv'
  <2>1. RingOK'
    BY <1>18 DEF GetTok3, RingOK, shm
  <2>2. HistoryOK'
    BY <1>18 DEF GetTok3, TakenForStart, HistoryOK, remains, crashes
  <2> DEFINE pc == IF TokenAt(rl[r].head) = TOKEN_HAS_DATA THEN "len" ELSE "tail"
             new == IF pc = "len" THEN rl[r] ELSE [rl[r] EXCEPT !.head = AddPos(rl[r].head, 1)]
             c == rw_conflict[r]
  <2>a. AddPos(rl[r].head, 1) \in Positions /\ AddPos(rl[r].head, rl[r].nr) \in Positions
    BY AddPosAny DEF ReadersOK, RLocals
  <2>3. /\ pc \in ReaderPC /\ new \in RLocals
        /\ c \in 0 .. SQ_MAX_CONFLICT_TRIES
        /\ ReaderLocal(pc, new, c)
    BY <1>18, IdleLocals, <2>a
    DEF GetTok3, ReadersOK, LocalsOK, ReaderLocal, RLocals, ReaderPC, RingOK, TokenAt,
        TOKEN_HAS_DATA, TOKEN_NO_DATA
  <2>4. /\ rpc' = [rpc EXCEPT ![r] = pc]
        /\ rl' = [rl EXCEPT ![r] = new]
        /\ rw_conflict' = [rw_conflict EXCEPT ![r] = c]
        /\ UNCHANGED wvars
    BY <1>18 DEF GetTok3, ReadersOK, wvars, RGoto, NextBlock
  <2>5. WritersOK' /\ ReadersOK' /\ LocalsOK'
    BY <2>3, <2>4, ReaderStep
  <2> QED
    BY <2>1, <2>2, <2>5
<1>19. ASSUME NEW r \in Readers, GetLen(r)
      PROVE  PlainInv'
  <2>1. RingOK' /\ HistoryOK'
    BY <1>19 DEF GetLen, RingOK, HistoryOK, shm, history, remains, crashes
  <2>2. PICK l \in LenAt(rl[r].head) :
           rl' = [rl EXCEPT ![r].len = l, ![r].nr = NumNeeded(l)]
    BY <1>19 DEF GetLen
  <2> DEFINE new == [rl[r] EXCEPT !.len = l, !.nr = NumNeeded(l)]
  <2>3. l \in Int /\ NumNeeded(l) \in Int
    BY <1>19, LenAtInt, NumNeededInt DEF LocalsOK, ReaderLocal, GetLen
  <2>4. new \in RLocals /\ "fits" \in ReaderPC
    BY <2>3 DEF ReadersOK, RLocals, ReaderPC
  <2>5. /\ rpc' = [rpc EXCEPT ![r] = "fits"]
        /\ rl' = [rl EXCEPT ![r] = new]
        /\ rw_conflict' = [rw_conflict EXCEPT ![r] = rw_conflict[r]]
        /\ UNCHANGED wvars
    BY <1>19, <2>2 DEF GetLen, ReadersOK, wvars, RGoto
  <2>6. WritersOK' /\ ReadersOK' /\ LocalsOK'
    BY <2>4, <2>5, ReaderStep DEF ReadersOK, ReaderLocal
  <2> QED
    BY <2>1, <2>6
<1>20. ASSUME NEW r \in Readers, GetFits(r)
      PROVE  PlainInv'
  <2>1. RingOK'
    BY <1>20 DEF GetFits, RingOK, shm
  <2>2. HistoryOK'
    BY <1>20 DEF GetFits, HistoryOK, history, remains, crashes
  <2> DEFINE pc == IF Fits(r) THEN "cas" ELSE "tail"
             new == IF Fits(r) THEN [rl[r] EXCEPT !.new_head = AddPos(rl[r].head, rl[r].nr)] ELSE [rl[r] EXCEPT !.head = AddPos(rl[r].head, 1)]
             c == rw_conflict[r]
  <2>a. AddPos(rl[r].head, 1) \in Positions /\ AddPos(rl[r].head, rl[r].nr) \in Positions
    BY AddPosAny DEF ReadersOK, RLocals
  <2>3. /\ pc \in ReaderPC /\ new \in RLocals
        /\ c \in 0 .. SQ_MAX_CONFLICT_TRIES
        /\ ReaderLocal(pc, new, c)
    BY <1>20, IdleLocals, <2>a
    DEF GetFits, ReadersOK, LocalsOK, ReaderLocal, RLocals, ReaderPC, RingOK
  <2>4. /\ rpc' = [rpc EXCEPT ![r] = pc]
        /\ rl' = [rl EXCEPT ![r] = new]
        /\ rw_conflict' = [rw_conflict EXCEPT ![r] = c]
        /\ UNCHANGED wvars
    BY <1>20 DEF GetFits, ReadersOK, wvars, RGoto, NextBlock
  <2>5. WritersOK' /\ ReadersOK' /\ LocalsOK'
    BY <2>3, <2>4, ReaderStep
  <2> QED
    BY <2>1, <2>2, <2>5
<1>21. ASSUME NEW r \in Readers, GetCAS(r)
      PROVE  PlainInv'
  <2>1. RingOK'
    BY <1>21 DEF GetCAS, RingOK, MoveHead, KeepHead, ReadersOK, RLocals
  <2>2. HistoryOK'
    <3>1. /\ UNCHANGED <<nputs, lenOf, putDone, returned, conflict, gaveUp, misled, crashes>>
          /\ passed' \subseteq passed \cup Readers
          /\ aba' \in BOOLEAN /\ astray' \in BOOLEAN
      BY <1>21 DEF GetCAS, MoveHead, KeepHead, HistoryOK
    <3>2. left' \subseteq Blocks /\ lost' \subseteq 0 .. MaxPuts
      <4>1. Leaves(r) \/ UNCHANGED <<left, lost>>
        BY <1>21 DEF GetCAS
      <4> QED
        BY <4>1, LeavesTypes DEF HistoryOK
    <3> QED
      BY <3>1, <3>2 DEF HistoryOK, crashes
  <2> DEFINE pc == rpc'[r]
             new == rl'[r]
             c == rw_conflict'[r]
  <2>3. /\ pc \in ReaderPC /\ new \in RLocals
        /\ c \in 0 .. SQ_MAX_CONFLICT_TRIES
        /\ ReaderLocal(pc, new, c)
    BY <1>21, IdleLocals
    DEF GetCAS, ReadersOK, LocalsOK, ReaderLocal, RLocals, ReaderPC, RingOK, GetReturn, GetAgain, RGoto
  <2>4. /\ rpc' = [rpc EXCEPT ![r] = pc]
        /\ rl' = [rl EXCEPT ![r] = new]
        /\ rw_conflict' = [rw_conflict EXCEPT ![r] = c]
        /\ UNCHANGED wvars
    BY <1>21 DEF GetCAS, ReadersOK, wvars, RGoto, GetReturn, GetAgain
  <2>5. WritersOK' /\ ReadersOK' /\ LocalsOK'
    BY <2>3, <2>4, ReaderStep
  <2> QED
    BY <2>1, <2>2, <2>5
<1>22. ASSUME NEW r \in Readers, GetCopy(r)
      PROVE  PlainInv'
  <2>1. RingOK' /\ HistoryOK'
    BY <1>22 DEF GetCopy, RingOK, HistoryOK, shm, history, remains, crashes
  <2> DEFINE b == rl[r].head + rl[r].k
             x == IF b \in Blocks THEN data[b] ELSE 0
             new == [rl[r] EXCEPT !.buf = Append(rl[r].buf, x), !.k = rl[r].k + 1]
             pc == IF rl[r].k + 1 = rl[r].nr THEN "clear" ELSE "copy"
  <2>2. x \in 0 .. MaxPuts
    BY DEF RingOK
  <2>3. Append(rl[r].buf, x) \in Buffers
    BY <2>2 DEF ReadersOK, RLocals, Buffers
  <2>4. rl[r] \in RLocals
    BY DEF ReadersOK
  <2>5. new \in RLocals
    <3>1. ASSUME NEW l \in RLocals, NEW bf \in Buffers, NEW k \in Nat
          PROVE  [l EXCEPT !.buf = bf, !.k = k] \in RLocals
      BY ONLY DEF RLocals
    <3>2. rl[r].k + 1 \in Nat
      BY <2>4 DEF RLocals
    <3> QED
      BY <2>3, <2>4, <3>1, <3>2
  <2>6. pc \in ReaderPC
    BY DEF ReaderPC
  <2>7. /\ rpc' = [rpc EXCEPT ![r] = pc]
        /\ rl' = [rl EXCEPT ![r] = new]
        /\ rw_conflict' = [rw_conflict EXCEPT ![r] = rw_conflict[r]]
        /\ UNCHANGED wvars
    BY <1>22 DEF GetCopy, ReadersOK, wvars, RGoto
  <2>9. ReaderLocal(pc, new, rw_conflict[r])
    <3>1. rl[r].len \in Nat
      BY <1>22 DEF GetCopy, LocalsOK, ReaderLocal
    <3> QED
      BY <2>4, <3>1 DEF ReaderLocal, RLocals
  <2>8. WritersOK' /\ ReadersOK' /\ LocalsOK'
    BY <2>5, <2>6, <2>7, <2>9, ReaderStep DEF ReadersOK
  <2> QED
    BY <2>1, <2>8
<1>23. ASSUME NEW r \in Readers, GetClear(r)
      PROVE  PlainInv'
  <2> DEFINE h == ResetNext(r)
             done == h = rl[r].new_head
             pc == IF done THEN "idle" ELSE "clear"
             new == IF done THEN RIdle ELSE [rl[r] EXCEPT !.old_head = h]
             c == IF done THEN 0 ELSE rw_conflict[r]
  <2>1. RingOK'
    BY <1>23 DEF GetClear, RingOK, Reset, Tokens
  <2>2. HistoryOK'
    <3>1. [len |-> rl[r].len, buf |-> rl[r].buf] \in Results
      BY <1>23 DEF GetClear, ReadersOK, LocalsOK, ReaderLocal, RLocals, Results
    <3>4. \/ returned' = returned
          \/ returned' = Append(returned, [len |-> rl[r].len, buf |-> rl[r].buf])
      BY <1>23 DEF GetClear
    <3>5. returned \in Seq(Results)
      BY DEF HistoryOK
    <3>2. returned' \in Seq(Results)
      BY ONLY <3>1, <3>4, <3>5
    <3>3. UNCHANGED <<nputs, lenOf, putDone, conflict, gaveUp, passed, aba, crashes>>
      BY <1>23 DEF GetClear
    <3>6. UNCHANGED <<astray, misled, lost>> /\ left' \subseteq left
      BY <1>23 DEF GetClear, Written
    <3> QED
      BY <3>2, <3>3, <3>6 DEF HistoryOK, crashes
  <2>3. h \in Positions
    BY AddPosAny DEF ReadersOK, RLocals, ResetNext
  <2>4. pc \in ReaderPC /\ new \in RLocals /\ c \in 0 .. SQ_MAX_CONFLICT_TRIES
    BY <2>3, IdleLocals DEF ReadersOK, RLocals, ReaderPC
  <2>5. /\ rpc' = [rpc EXCEPT ![r] = pc]
        /\ rl' = [rl EXCEPT ![r] = new]
        /\ rw_conflict' = [rw_conflict EXCEPT ![r] = c]
        /\ UNCHANGED wvars
    BY <1>23 DEF GetClear, GetReturn, ReadersOK, wvars
  <2>7. ReaderLocal(pc, new, c)
    <3>1. rl[r].len \in Nat
      BY <1>23 DEF GetClear, LocalsOK, ReaderLocal
    <3> QED
      BY <3>1 DEF ReaderLocal, ReadersOK, RLocals
  <2>6. WritersOK' /\ ReadersOK' /\ LocalsOK'
    BY <2>4, <2>5, <2>7, ReaderStep
  <2> QED
    BY <2>1, <2>2, <2>6
<1>24. ASSUME NEW r \in Readers, ReaderCrash(r)
      PROVE  PlainInv'
  <2>1. RingOK'
    BY <1>24 DEF ReaderCrash, RingOK, shm
  <2>2. HistoryOK'
    <3>1. /\ UNCHANGED <<nputs, lenOf, putDone, returned, conflict, gaveUp, passed, aba>>
          /\ UNCHANGED <<astray, misled, wcrashes>>
          /\ rcrashes' = rcrashes + 1 /\ rcrashes < MaxReaderCrashes
      BY <1>24 DEF ReaderCrash
    <3>2. left' \subseteq Blocks /\ lost' \subseteq 0 .. MaxPuts
      <4>1. Leaves(r) \/ UNCHANGED <<left, lost>>
        BY <1>24 DEF ReaderCrash
      <4> QED
        BY <4>1, LeavesTypes DEF HistoryOK
    <3> QED
      BY <3>1, <3>2 DEF HistoryOK
  <2> DEFINE pc == "idle"
             new == RIdle
             c == 0
  <2>3. /\ pc \in ReaderPC /\ new \in RLocals
        /\ c \in 0 .. SQ_MAX_CONFLICT_TRIES
        /\ ReaderLocal(pc, new, c)
    BY <1>24, IdleLocals
    DEF ReaderCrash, ReadersOK, LocalsOK, ReaderLocal, RLocals, ReaderPC, RingOK
  <2>4. /\ rpc' = [rpc EXCEPT ![r] = pc]
        /\ rl' = [rl EXCEPT ![r] = new]
        /\ rw_conflict' = [rw_conflict EXCEPT ![r] = c]
        /\ UNCHANGED wvars
    BY <1>24 DEF ReaderCrash, ReadersOK, wvars, RGoto, GetReturn
  <2>5. WritersOK' /\ ReadersOK' /\ LocalsOK'
    BY <2>3, <2>4, ReaderStep
  <2> QED
    BY <2>1, <2>2, <2>5
<1>25. CASE UNCHANGED vars
  BY <1>25 DEF vars, shm, wvars, rvars, history, remains, crashes, RingOK, WritersOK, ReadersOK,
               HistoryOK, LocalsOK
<1> QED
  BY <1>1, <1>2, <1>3, <1>4, <1>5, <1>6, <1>7, <1>8, <1>9, <1>10, <1>11, <1>12, <1>13, <1>14, <1>15, <1>16, <1>17, <1>18, <1>19, <1>20, <1>21, <1>22, <1>23, <1>24, <1>25 DEF Next, Writer, Reader

\* Every variable keeps to the values the code can give it, in a queue of any
\* size with any number of processes and with any ints for the lengths that
\* readers find in payload: the tail stays in the ring, the head less than a turn
\* in front of it.
THEOREM TypeCorrect == Spec => []TypeOK
<1>1. Init => PlainInv
  BY InitType
<1>2. PlainInv /\ [Next]_vars => PlainInv'
  BY NextType
<1>3. PlainInv => TypeOK
  BY DEF PlainInv
<1> QED
  BY <1>1, <1>2, <1>3, PTL DEF Spec

-----------------------------------------------------------------------------
(* The ring: head and tail never pass each other *)

\* As long as the head has not gone astray, it is in the ring, and so is every
\* position that a process holds, except where a negative number of blocks waits
\* to be exchanged.
Inside ==
    /\ head_pos \in Blocks
    /\ \A p \in Writers : wl[p].h \in Blocks
    /\ \A r \in Readers :
         /\ rl[r].old_head \in Blocks /\ rl[r].head \in Blocks
         /\ rpc[r] # "cas" \/ rl[r].nr >= 0 => rl[r].new_head \in Blocks

TypeInv == TypeOK /\ LocalsOK /\ Inside

\* A step of one writer keeps the positions of all processes inside.
LEMMA InsideWriter ==
    ASSUME TypeInv, NEW p \in Writers, UNCHANGED <<head_pos, rvars>>,
           \A q \in Writers \ {p} : wl'[q] = wl[q], wl'[p].h \in Blocks
    PROVE  Inside'
BY DEF TypeInv, Inside, rvars

\* A step of one reader does when it keeps its own.
LEMMA InsideReader ==
    ASSUME TypeInv, NEW r \in Readers, UNCHANGED wl, head_pos' \in Blocks,
           \A q \in Readers \ {r} : rpc'[q] = rpc[q] /\ rl'[q] = rl[q],
           rl'[r].old_head \in Blocks, rl'[r].head \in Blocks,
           rpc'[r] # "cas" \/ rl'[r].nr >= 0 => rl'[r].new_head \in Blocks
    PROVE  Inside'
BY DEF TypeInv, Inside

\* What goes astray stays astray.
LEMMA AstrayStays == PlainInv /\ [Next]_vars => (astray => astray')
<1> SUFFICES ASSUME astray, [Next]_vars PROVE astray'
  OBVIOUS
<1> USE DEF history, remains, Written, TakenForStart, Leaves
<1>1. ASSUME NEW p \in Writers, Writer(p) \/ WriterCrash(p) PROVE astray'
  BY <1>1, Zenon
  DEF Writer, WriterCrash, PutStart, PutLoadTail, PutReadHead, PutCheck, PutAlloc, PutWrap,
      PutCAS, PutSkip, PutCopy, PutToken
<1>2. ASSUME NEW r \in Readers, Reader(r) \/ ReaderCrash(r) PROVE astray'
  BY <1>2, Zenon
  DEF Reader, ReaderCrash, GetLoadHead, GetTail, GetEndCAS, GetTok1, GetTok2, GetRecheck,
      GetTok3, GetLen, GetFits, GetCAS, GetCopy, GetClear
<1> QED
  BY <1>1, <1>2 DEF Next, vars

\* No step takes a position out of the ring but the exchange of the head for one
\* that a negative number of blocks makes.
LEMMA InsideStep == TypeInv /\ [Next]_vars /\ ~astray' => Inside'
<1> SUFFICES ASSUME TypeInv, [Next]_vars, ~astray' PROVE Inside'
  OBVIOUS
<1> USE DEF RIdle, WIdle
<1>0. 0 \in Blocks
  BY BlocksArePositions
<1>1. ASSUME NEW p \in Writers, Writer(p) \/ WriterCrash(p) PROVE Inside'
  <2>1. UNCHANGED <<head_pos, rvars>> /\ wl \in [Writers -> WLocals]
    BY <1>1
    DEF Writer, WriterCrash, PutStart, PutLoadTail, PutReadHead, PutCheck, PutAlloc, PutWrap,
        PutCAS, PutSkip, PutCopy, PutToken, MoveTail, shm, TypeInv, TypeOK, WritersOK
  <2>2. /\ \A q \in Writers \ {p} : wl'[q] = wl[q]
        /\ wl'[p].h \in {wl[p].h, head_pos, 0}
    <3> USE <2>1 DEF WLocals
    <3>1. ASSUME NEW l \in Lens, PutStart(p, l) PROVE <2>2!:
      BY <3>1 DEF PutStart
    <3>2. CASE PutLoadTail(p)
      BY <3>2 DEF PutLoadTail
    <3>3. CASE PutReadHead(p)
      BY <3>3 DEF PutReadHead
    <3>4. CASE PutCheck(p)
      BY <3>4 DEF PutCheck, PutReturn
    <3>5. CASE PutAlloc(p)
      BY <3>5 DEF PutAlloc
    <3>6. CASE PutWrap(p)
      BY <3>6 DEF PutWrap, PutReturn
    <3>7. CASE PutCAS(p)
      BY <3>7 DEF PutCAS
    <3>8. CASE PutSkip(p)
      BY <3>8 DEF PutSkip
    <3>9. CASE PutCopy(p)
      BY <3>9 DEF PutCopy
    <3>10. CASE PutToken(p)
      BY <3>10 DEF PutToken, PutReturn
    <3>11. CASE WriterCrash(p)
      BY <3>11 DEF WriterCrash, PutReturn
    <3> QED
      BY <1>1, <3>1, <3>2, <3>3, <3>4, <3>5, <3>6, <3>7, <3>8, <3>9, <3>10, <3>11 DEF Writer
  <2> QED
    BY <1>0, <2>1, <2>2, InsideWriter DEF TypeInv, Inside
<1>2. ASSUME NEW r \in Readers, Reader(r) \/ ReaderCrash(r) PROVE Inside'
  <2>1. /\ rl \in [Readers -> RLocals] /\ rpc \in [Readers -> ReaderPC]
        /\ head_pos \in Blocks /\ rl[r].old_head \in Blocks /\ rl[r].head \in Blocks
        /\ rpc[r] # "cas" \/ rl[r].nr >= 0 => rl[r].new_head \in Blocks
    BY DEF TypeInv, Inside, TypeOK, ReadersOK
  <2>2. /\ AddPos(rl[r].head, 1) \in Blocks /\ AddPos(rl[r].old_head, 1) \in Blocks
        /\ rl[r].nr >= 0 => AddPos(rl[r].head, rl[r].nr) \in Blocks
    BY <2>1, AddPosInRing DEF RLocals
  <2>3. /\ UNCHANGED wl /\ \A q \in Readers \ {r} : rpc'[q] = rpc[q] /\ rl'[q] = rl[q]
    <3> USE <2>1 DEF RGoto, GetReturn, GetAgain, NextBlock, wvars
    <3>1. CASE GetLoadHead(r) \/ GetTail(r) \/ GetEndCAS(r) \/ GetTok1(r)
      BY <3>1 DEF GetLoadHead, GetTail, GetEndCAS, GetTok1
    <3>2. CASE GetTok2(r) \/ GetRecheck(r) \/ GetTok3(r) \/ GetLen(r) \/ GetFits(r)
      BY <3>2 DEF GetTok2, GetRecheck, GetTok3, GetLen, GetFits
    <3>3. CASE GetCAS(r) \/ GetCopy(r) \/ GetClear(r) \/ ReaderCrash(r)
      BY <3>3 DEF GetCAS, GetCopy, GetClear, ReaderCrash
    <3> QED
      BY <1>2, <3>1, <3>2, <3>3 DEF Reader
  <2>4. head_pos' \in Blocks
    <3>1. CASE GetEndCAS(r)
      BY <2>1, <3>1 DEF GetEndCAS, MoveHead, KeepHead
    <3>2. CASE GetCAS(r)
      <4>1. CASE MoveHead(r, rl[r].new_head) /\ astray' = (astray \/ rl[r].nr < 0)
        <5>2. ~(rl[r].nr < 0)
          BY <4>1, Zenon
        <5>1. rl[r].nr >= 0
          BY <2>1, <5>2 DEF RLocals
        <5> QED
          BY <2>1, <4>1, <5>1 DEF MoveHead
      <4>2. CASE KeepHead(r)
        BY <2>1, <4>2 DEF KeepHead
      <4> QED
        BY <3>2, <4>1, <4>2 DEF GetCAS
    <3>3. CASE UNCHANGED head_pos
      BY <2>1, <3>3
    <3> QED
      BY <1>2, <3>1, <3>2, <3>3
      DEF Reader, ReaderCrash, GetLoadHead, GetTail, GetTok1, GetTok2, GetRecheck, GetTok3,
          GetLen, GetFits, GetCopy, GetClear, shm
  <2>5. /\ rl'[r].old_head \in Blocks /\ rl'[r].head \in Blocks
        /\ rpc'[r] # "cas" \/ rl'[r].nr >= 0 => rl'[r].new_head \in Blocks
    <3> USE <1>0, <2>1, <2>2 DEF RGoto, GetReturn, GetAgain, NextBlock, RLocals
    <3>1. CASE GetLoadHead(r)
      BY <3>1 DEF GetLoadHead
    <3>2. CASE GetTail(r)
      BY <3>2 DEF GetTail
    <3>3. CASE GetEndCAS(r)
      <4>1. CASE /\ rpc' = [rpc EXCEPT ![r] = "clear"]
                 /\ rl' = [rl EXCEPT ![r].new_head = rl[r].head, ![r].len = 0]
        <5>1. /\ rl'[r].new_head = rl[r].head /\ rl'[r].old_head = rl[r].old_head
              /\ rl'[r].head = rl[r].head
          BY <4>1
        <5> QED
          BY <5>1
      <4>2. CASE rl' = [rl EXCEPT ![r] = RIdle]
        BY <4>2
      <4> QED
        BY <3>3, <4>1, <4>2 DEF GetEndCAS
    <3>4. CASE GetTok1(r)
      BY <3>4 DEF GetTok1
    <3>5. CASE GetTok2(r)
      BY <3>5 DEF GetTok2
    <3>6. CASE GetRecheck(r)
      BY <3>6 DEF GetRecheck
    <3>7. CASE GetTok3(r)
      BY <3>7 DEF GetTok3
    <3>8. CASE GetLen(r)
      BY <3>8 DEF GetLen
    <3>9. CASE GetFits(r)
      BY <3>9 DEF GetFits
    <3>10. CASE GetCAS(r)
      <4>1. CASE rpc'[r] = "copy" /\ rl' = rl /\ astray' = (astray \/ rl[r].nr < 0)
        <5>1. ~(rl[r].nr < 0)
          BY <4>1, Zenon
        <5>2. rl[r].nr >= 0
          BY <5>1
        <5> QED
          BY <4>1, <5>2
      <4>2. CASE rl' = [rl EXCEPT ![r] = RIdle]
        BY <4>2
      <4> QED
        BY <3>10, <4>1, <4>2 DEF GetCAS
    <3>11. CASE GetCopy(r)
      BY <3>11 DEF GetCopy
    <3>12. CASE GetClear(r)
      BY <3>12 DEF GetClear, ResetNext
    <3>13. CASE ReaderCrash(r)
      BY <3>13 DEF ReaderCrash
    <3> QED
      BY <1>2, <3>1, <3>2, <3>3, <3>4, <3>5, <3>6, <3>7, <3>8, <3>9, <3>10, <3>11, <3>12, <3>13 DEF Reader
  <2> QED
    BY <2>3, <2>4, <2>5, InsideReader
<1>3. CASE UNCHANGED vars
  BY <1>3 DEF vars, shm, wvars, rvars, TypeInv, Inside
<1> QED
  BY <1>1, <1>2, <1>3 DEF Next

\* SQ_USED_NODES2 counts blocks, and so does
LEMMA UsedInt ==
    ASSUME NEW a \in Blocks, NEW b \in Blocks
    PROVE  UsedNodes(a, b) \in Nat
BY UsedCases, QueueAssumption DEF Blocks

\* SQ_EMPTY_NODES2.
LEMMA EmptyInt ==
    ASSUME NEW a \in Blocks, NEW b \in Blocks
    PROVE  EmptyNodes(a, b) \in Nat
BY QueueAssumption DEF EmptyNodes, Rem, Blocks

\* Distances along the ring add up as long as they stay below one turn ...
LEMMA UsedAdd ==
    ASSUME NEW a \in Blocks, NEW b \in Blocks, NEW c \in Blocks,
           UsedNodes(a, b) + UsedNodes(b, c) <= ele_count
    PROVE  UsedNodes(a, c) = UsedNodes(a, b) + UsedNodes(b, c)
<1> DEFINE Dist(x, y) == IF x <= y THEN y - x ELSE ele_count + 1 + y - x
<1>1. /\ UsedNodes(a, b) = Dist(a, b) /\ UsedNodes(b, c) = Dist(b, c)
      /\ UsedNodes(a, c) = Dist(a, c)
  BY UsedCases
<1> QED
  BY <1>1, QueueAssumption DEF Blocks

\* Two positions as far from a third are the same position.
LEMMA UsedInjective ==
    ASSUME NEW a \in Blocks, NEW b \in Blocks, NEW c \in Blocks,
           UsedNodes(a, b) = UsedNodes(a, c)
    PROVE  b = c
<1> DEFINE Dist(x, y) == IF x <= y THEN y - x ELSE ele_count + 1 + y - x
<1>1. Dist(a, b) = Dist(a, c)
  BY UsedCases
<1>2. a \in 0 .. ele_count /\ b \in 0 .. ele_count /\ c \in 0 .. ele_count
  BY DEF Blocks
<1> QED
  BY ONLY <1>1, <1>2, QueueAssumption

\* ... and a position within a stretch splits it.
LEMMA UsedSplit ==
    ASSUME NEW a \in Blocks, NEW b \in Blocks, NEW c \in Blocks,
           UsedNodes(a, b) <= UsedNodes(a, c)
    PROVE  /\ UsedNodes(b, c) = UsedNodes(a, c) - UsedNodes(a, b)
           /\ a <= c => b <= c
<1> DEFINE Dist(x, y) == IF x <= y THEN y - x ELSE ele_count + 1 + y - x
<1>1. /\ UsedNodes(a, b) = Dist(a, b) /\ UsedNodes(b, c) = Dist(b, c)
      /\ UsedNodes(a, c) = Dist(a, c)
  BY UsedCases
<1> QED
  BY <1>1, QueueAssumption DEF Blocks

\* Going on from b by v blocks that are left before c stays within the stretch.
LEMMA UsedAdvance ==
    ASSUME NEW a \in Blocks, NEW b \in Blocks, NEW c \in Blocks, NEW v \in Nat,
           UsedNodes(a, b) <= UsedNodes(a, c), v <= UsedNodes(b, c)
    PROVE  UsedNodes(a, AddPos(b, v)) <= UsedNodes(a, c)
<1> DEFINE d == AddPos(b, v)
<1>1. UsedNodes(b, c) \in Blocks /\ UsedNodes(a, b) \in Blocks /\ UsedNodes(a, c) \in Blocks
  BY UsedCases
<1>2. v \in Blocks
  BY <1>1, QueueAssumption DEF Blocks
<1>3. d \in Blocks
  BY AddPosInRing
<1>4. d = IF b + v <= ele_count THEN b + v ELSE b + v - (ele_count + 1)
  BY <1>2, AddPosCases
<1>5. UsedNodes(b, d) = IF b <= d THEN d - b ELSE ele_count + 1 + d - b
  BY <1>3, UsedCases
<1>6. UsedNodes(b, d) = v
  BY ONLY <1>2, <1>4, <1>5, QueueAssumption, b \in Blocks DEF Blocks
<1>7. UsedNodes(b, c) = UsedNodes(a, c) - UsedNodes(a, b)
  BY UsedSplit
<1>8. UsedNodes(a, b) + UsedNodes(b, d) <= ele_count
  BY <1>1, <1>2, <1>6, <1>7, QueueAssumption DEF Blocks
<1>9. UsedNodes(a, d) = UsedNodes(a, b) + UsedNodes(b, d)
  BY <1>3, <1>8, UsedAdd
<1> QED
  BY <1>1, <1>2, <1>6, <1>7, <1>9, QueueAssumption DEF Blocks

\* What a writer knows of the ring while its tail is the queue's: the blocks it
\* is about to allocate are not in use, and it starts at block 0 only when the
\* used blocks do not go round the end.
WriterRing(p) ==
    p \notin passed =>
        /\ wpc[p] \in HoldsTail => wl[p].old_tail = tail_pos
        /\ wpc[p] = "check" => Used <= UsedNodes(wl[p].h, tail_pos)
        /\ wpc[p] = "alloc" => Used + wl[p].nr <= ele_count
        /\ wpc[p] = "wrap" => head_pos <= tail_pos
        /\ wpc[p] = "cas" => Used + UsedNodes(tail_pos, wl[p].new_tail) <= ele_count

\* What a reader knows while its head is the queue's: it has looked at, and is
\* about to release, blocks that are in use.
ReaderRing(r) ==
    r \notin passed =>
        /\ rpc[r] \in HoldsHead => /\ rl[r].old_head = head_pos
                                   /\ UsedNodes(rl[r].old_head, rl[r].head) <= Used
        /\ rpc[r] \in {"tok1", "tok2", "recheck", "tok3", "len", "fits"} =>
              UsedNodes(rl[r].old_head, rl[r].head) < Used
        /\ rpc[r] = "cas" /\ rl[r].nr >= 0 =>
              UsedNodes(rl[r].old_head, rl[r].new_head) <= Used

RingInv == ~aba => /\ \A p \in Writers : WriterRing(p)
                   /\ \A r \in Readers : ReaderRing(r)

\* A step of a writer that leaves both positions alone
LEMMA WriterAlone ==
    ASSUME RingInv, NEW p \in Writers, UNCHANGED <<head_pos, tail_pos, aba>>,
           UNCHANGED rvars, passed' \in {passed, passed \ {p}},
           \A q \in Writers \ {p} : wpc'[q] = wpc[q] /\ wl'[q] = wl[q],
           ~aba => WriterRing(p)'
    PROVE  RingInv'
<1> SUFFICES ASSUME ~aba' PROVE RingInv'
  BY DEF RingInv
<1> ~aba
  OBVIOUS
<1>1. Used' = Used
  BY DEF Used
<1>2. ASSUME NEW q \in Writers, q # p PROVE WriterRing(q)'
  BY <1>1, <1>2 DEF RingInv, WriterRing
<1>3. ASSUME NEW r \in Readers PROVE ReaderRing(r)'
  BY <1>1, QueueAssumption DEF RingInv, ReaderRing, rvars
<1> QED
  BY <1>2, <1>3 DEF RingInv

\* A step of a reader that leaves both positions alone
LEMMA ReaderAlone ==
    ASSUME RingInv, NEW r \in Readers, UNCHANGED <<head_pos, tail_pos, aba>>,
           UNCHANGED wvars, passed' \in {passed, passed \ {r}},
           \A q \in Readers \ {r} : rpc'[q] = rpc[q] /\ rl'[q] = rl[q],
           ~aba => ReaderRing(r)'
    PROVE  RingInv'
<1> SUFFICES ASSUME ~aba' PROVE RingInv'
  BY DEF RingInv
<1> ~aba
  OBVIOUS
<1>1. Used' = Used
  BY DEF Used
<1>2. ASSUME NEW q \in Readers, q # r PROVE ReaderRing(q)'
  BY <1>1, <1>2 DEF RingInv, ReaderRing
<1>3. ASSUME NEW p \in Writers PROVE WriterRing(p)'
  BY <1>1, QueueAssumption DEF RingInv, WriterRing, wvars
<1> QED
  BY <1>2, <1>3 DEF RingInv

\* What RingConserved says of one step
ConservingStep ==
    ~aba' /\ ~astray' =>
        /\ tail_pos' # tail_pos =>
                Used' = Used + UsedNodes(tail_pos, tail_pos')
        /\ head_pos' # head_pos =>
                Used' = Used - UsedNodes(head_pos, head_pos')

\* An exchange of the tail: the used blocks grow by what the writer allocates
LEMMA TailStep ==
    ASSUME TypeInv, RingInv, NEW p \in Writers, wpc[p] = "cas", MoveTail(p),
           UNCHANGED <<head_pos, rvars>>,
           wpc'[p] \in {"skip", "copy"},
           \A q \in Writers \ {p} : wpc'[q] = wpc[q] /\ wl'[q] = wl[q]
    PROVE  RingInv' /\ ConservingStep
<1> SUFFICES ASSUME ~aba' PROVE RingInv' /\ ConservingStep
  BY DEF RingInv, ConservingStep
<1>1. ~aba /\ p \notin passed
  BY DEF MoveTail
<1>2. /\ head_pos \in Blocks /\ tail_pos \in Blocks /\ tail_pos' \in Blocks
      /\ wl[p].new_tail \in Blocks
  BY DEF TypeInv, Inside, TypeOK, RingOK, WritersOK, WLocals, MoveTail
<1>3. Used + UsedNodes(tail_pos, tail_pos') <= ele_count
  BY <1>1 DEF RingInv, WriterRing, MoveTail
<1>4. Used' = Used + UsedNodes(tail_pos, tail_pos')
  BY <1>2, <1>3, UsedAdd DEF Used
<1>5. Used' >= Used /\ Used \in Nat /\ Used' \in Nat
  BY <1>2, <1>4, UsedCases, QueueAssumption DEF Blocks, Used
<1>6. ASSUME NEW q \in Writers PROVE WriterRing(q)'
  <2>1. CASE q = p
    BY <2>1 DEF WriterRing, HoldsTail
  <2>2. CASE q # p
    BY <2>2 DEF WriterRing, HoldsTail, MoveTail
  <2> QED
    BY <2>1, <2>2
<1>7. ASSUME NEW r \in Readers PROVE ReaderRing(r)'
  <2> SUFFICES ASSUME r \notin passed' PROVE ReaderRing(r)'
    BY DEF ReaderRing
  <2>1. r \notin passed
    BY QueueAssumption DEF MoveTail
  <2>2. ReaderRing(r)
    BY <1>1 DEF RingInv
  <2>3. /\ UsedNodes(rl[r].old_head, rl[r].head) \in Int
        /\ rpc[r] = "cas" /\ rl[r].nr >= 0 =>
              UsedNodes(rl[r].old_head, rl[r].new_head) \in Int
    BY UsedInt DEF TypeInv, Inside, TypeOK, ReadersOK, RLocals
  <2> QED
    BY <1>5, <2>1, <2>2, <2>3 DEF ReaderRing, rvars
<1> QED
  BY <1>1, <1>4, <1>6, <1>7 DEF RingInv, ConservingStep

\* An exchange of the head: the used blocks shrink by what the reader releases
LEMMA HeadStep ==
    ASSUME TypeInv, RingInv, NEW r \in Readers, NEW pos \in Blocks,
           MoveHead(r, pos), rpc[r] \in HoldsHead,
           r \notin passed /\ ~aba => UsedNodes(rl[r].old_head, pos) <= Used,
           UNCHANGED <<tail_pos, wvars>>,
           rpc'[r] \in {"idle", "copy", "clear"},
           \A q \in Readers \ {r} : rpc'[q] = rpc[q] /\ rl'[q] = rl[q]
    PROVE  RingInv' /\ ConservingStep
<1> SUFFICES ASSUME ~aba' PROVE RingInv' /\ ConservingStep
  BY DEF RingInv, ConservingStep
<1>1. ~aba /\ r \notin passed
  BY DEF MoveHead
<1>2. /\ head_pos \in Blocks /\ tail_pos \in Blocks /\ head_pos' = pos
      /\ UsedNodes(head_pos, pos) <= Used
  BY <1>1 DEF TypeInv, Inside, TypeOK, RingOK, MoveHead
<1>3. /\ Used' = Used - UsedNodes(head_pos, head_pos')
      /\ head_pos <= tail_pos => head_pos' <= tail_pos'
  BY <1>2, UsedSplit DEF Used
<1>4. Used' <= Used /\ Used \in Nat /\ Used' \in Nat
  BY <1>2, <1>3, UsedCases, QueueAssumption DEF Blocks, Used
<1>5. ASSUME NEW q \in Readers PROVE ReaderRing(q)'
  <2>1. CASE q = r
    BY <2>1 DEF ReaderRing, HoldsHead
  <2>2. CASE q # r
    BY <2>2 DEF ReaderRing, HoldsHead, ReaderPC, MoveHead
  <2> QED
    BY <2>1, <2>2
<1>6. ASSUME NEW p \in Writers PROVE WriterRing(p)'
  <2> SUFFICES ASSUME p \notin passed' PROVE WriterRing(p)'
    BY DEF WriterRing
  <2>1. p \notin passed
    BY DEF MoveHead
  <2>2. WriterRing(p)
    BY <1>1 DEF RingInv
  <2>3. /\ UsedNodes(wl[p].h, tail_pos) \in Int
        /\ UsedNodes(tail_pos, wl[p].new_tail) \in Int /\ wl[p].nr \in Nat
    BY <1>2, UsedInt DEF TypeInv, Inside, TypeOK, WritersOK, WLocals
  <2> QED
    BY <1>3, <1>4, <2>1, <2>2, <2>3, QueueAssumption DEF WriterRing, wvars
<1> QED
  BY <1>1, <1>3, <1>5, <1>6 DEF RingInv, ConservingStep

\* A reader that stands on a block in use may go on: to the next block, or by
\* as many blocks as are left up to the tail.
LEMMA GoingOn ==
    ASSUME TypeInv, NEW r \in Readers, rl[r].old_head = head_pos,
           UsedNodes(rl[r].old_head, rl[r].head) < Used
    PROVE  /\ UsedNodes(head_pos, AddPos(rl[r].head, 1)) <= Used
           /\ rl[r].nr \in 0 .. UsedNodes(rl[r].head, tail_pos) =>
                UsedNodes(head_pos, AddPos(rl[r].head, rl[r].nr)) <= Used
<1>1. /\ head_pos \in Blocks /\ tail_pos \in Blocks /\ rl[r].head \in Blocks
  BY DEF TypeInv, Inside, TypeOK, RingOK, ReadersOK, RLocals
<1>2. /\ UsedNodes(head_pos, rl[r].head) \in Nat /\ UsedNodes(head_pos, tail_pos) \in Nat
      /\ UsedNodes(rl[r].head, tail_pos) \in Nat
  BY <1>1, UsedInt
<1>3. UsedNodes(head_pos, rl[r].head) <= UsedNodes(head_pos, tail_pos)
  BY <1>2 DEF Used
<1>4. 1 <= UsedNodes(rl[r].head, tail_pos)
  BY <1>1, <1>2, <1>3, UsedSplit DEF Used
<1> QED
  BY <1>1, <1>3, <1>4, UsedAdvance DEF Used

\* Every step of sq_put and sq_get keeps the ring's invariant and moves the two
\* positions only over blocks that are free or in use.
LEMMA RingStep ==
    TypeInv /\ RingInv /\ [Next]_vars /\ ~astray' => RingInv' /\ ConservingStep
<1> SUFFICES ASSUME TypeInv, RingInv, [Next]_vars, ~astray'
             PROVE  RingInv' /\ ConservingStep
  OBVIOUS
<1>1. ASSUME NEW p \in Writers, NEW l \in Lens, PutStart(p, l)
      PROVE  RingInv' /\ ConservingStep
  <2>1. /\ UNCHANGED <<head_pos, tail_pos, aba>> /\ UNCHANGED rvars
        /\ passed' \in {passed, passed \ {p}}
        /\ \A q \in Writers \ {p} : wpc'[q] = wpc[q] /\ wl'[q] = wl[q]
    BY <1>1 DEF PutStart, PutReturn, shm, history, TypeInv, Inside, TypeOK, WritersOK
  <2>2. ~aba => WriterRing(p)'
    BY <1>1
    DEF PutStart, PutReturn, WriterRing, RingInv, HoldsTail, Used, shm, history,
        TypeInv, Inside, TypeOK, WritersOK, WLocals
  <2> QED
    BY <2>1, <2>2, WriterAlone DEF ConservingStep
<1>2. ASSUME NEW p \in Writers, PutLoadTail(p)
      PROVE  RingInv' /\ ConservingStep
  <2>1. /\ UNCHANGED <<head_pos, tail_pos, aba>> /\ UNCHANGED rvars
        /\ passed' \in {passed, passed \ {p}}
        /\ \A q \in Writers \ {p} : wpc'[q] = wpc[q] /\ wl'[q] = wl[q]
    BY <1>2 DEF PutLoadTail, PutReturn, shm, history, TypeInv, Inside, TypeOK, WritersOK
  <2>2. ~aba => WriterRing(p)'
    BY <1>2
    DEF PutLoadTail, PutReturn, WriterRing, RingInv, HoldsTail, Used, shm, history,
        TypeInv, Inside, TypeOK, WritersOK, WLocals
  <2> QED
    BY <2>1, <2>2, WriterAlone DEF ConservingStep
<1>3. ASSUME NEW p \in Writers, PutReadHead(p)
      PROVE  RingInv' /\ ConservingStep
  <2>1. /\ UNCHANGED <<head_pos, tail_pos, aba>> /\ UNCHANGED rvars
        /\ passed' \in {passed, passed \ {p}}
        /\ \A q \in Writers \ {p} : wpc'[q] = wpc[q] /\ wl'[q] = wl[q]
    BY <1>3 DEF PutReadHead, PutReturn, shm, history, TypeInv, Inside, TypeOK, WritersOK
  <2>2. ~aba => WriterRing(p)'
    <3>1. /\ wpc[p] = "head" /\ wpc'[p] = "check"
          /\ wl'[p].h = head_pos /\ wl'[p].old_tail = wl[p].old_tail
          /\ UNCHANGED <<head_pos, tail_pos, passed>>
      BY <1>3 DEF PutReadHead, shm, history, TypeInv, Inside, TypeOK, WritersOK, WLocals
    <3>2. UsedNodes(head_pos, tail_pos) \in Nat
      BY UsedInt DEF TypeInv, Inside, TypeOK, RingOK
    <3> QED
      BY <3>1, <3>2 DEF RingInv, WriterRing, HoldsTail, Used
  <2> QED
    BY <2>1, <2>2, WriterAlone DEF ConservingStep
<1>4. ASSUME NEW p \in Writers, PutCheck(p)
      PROVE  RingInv' /\ ConservingStep
  <2>1. /\ UNCHANGED <<head_pos, tail_pos, aba>> /\ UNCHANGED rvars
        /\ passed' \in {passed, passed \ {p}}
        /\ \A q \in Writers \ {p} : wpc'[q] = wpc[q] /\ wl'[q] = wl[q]
    BY <1>4 DEF PutCheck, PutReturn, shm, history, TypeInv, Inside, TypeOK, WritersOK
  <2>2. ~aba => WriterRing(p)'
    <3>1. CASE wpc' = [wpc EXCEPT ![p] = "alloc"] /\ UNCHANGED wl
      <4>1. Enough(wl[p].h, tail_pos, wl[p].nr) /\ wpc[p] = "check" /\ wpc'[p] = "alloc"
        BY <1>4, <3>1 DEF PutCheck, PutReturn, TypeInv, Inside, TypeOK, WritersOK, WLocals
      <4>2. UsedNodes(wl[p].h, tail_pos) + wl[p].nr <= ele_count
        <5>2. wl[p].h \in Blocks /\ tail_pos \in Blocks
          BY DEF RingOK, TypeInv, Inside, TypeOK, WritersOK, WLocals
        <5>1. EmptyNodes(wl[p].h, tail_pos) = ele_count - UsedNodes(wl[p].h, tail_pos)
          BY <5>2, EmptyInt, QueueAssumption DEF UsedNodes
        <5> QED
          BY <4>1, <5>1, UsedInt, QueueAssumption
          DEF Enough, RingOK, TypeInv, Inside, TypeOK, WritersOK, WLocals
      <4>3. /\ UsedNodes(wl[p].h, tail_pos) \in Nat /\ Used \in Nat
            /\ wl[p].nr \in Nat /\ UNCHANGED <<passed, Used>>
        BY <1>4, UsedInt DEF PutCheck, Used, RingOK, shm, history, TypeInv, Inside, TypeOK, WritersOK, WLocals
      <4> QED
        BY <1>4, <3>1, <4>1, <4>2, <4>3, QueueAssumption
        DEF PutCheck, RingInv, WriterRing, HoldsTail, shm, history
    <3>2. CASE PutReturn(p)
      BY <3>2 DEF PutReturn, WriterRing, HoldsTail, TypeInv, Inside, TypeOK, WritersOK, WLocals
    <3> QED
      BY <1>4, <3>1, <3>2 DEF PutCheck
  <2> QED
    BY <2>1, <2>2, WriterAlone DEF ConservingStep
<1>5. ASSUME NEW p \in Writers, PutAlloc(p)
      PROVE  RingInv' /\ ConservingStep
  <2>1. /\ UNCHANGED <<head_pos, tail_pos, aba>> /\ UNCHANGED rvars
        /\ passed' \in {passed, passed \ {p}}
        /\ \A q \in Writers \ {p} : wpc'[q] = wpc[q] /\ wl'[q] = wl[q]
    BY <1>5 DEF PutAlloc, PutReturn, shm, history, TypeInv, Inside, TypeOK, WritersOK
  <2>2. ~aba => WriterRing(p)'
    <3> SUFFICES ASSUME ~aba, p \notin passed' PROVE WriterRing(p)'
      BY DEF WriterRing
    <3> DEFINE t == AddPos(tail_pos, wl[p].nr)
    <3>1. /\ wl[p].old_tail = tail_pos /\ Used + wl[p].nr <= ele_count
          /\ UNCHANGED <<head_pos, tail_pos, Used>>
      BY <1>5 DEF PutAlloc, RingInv, WriterRing, HoldsTail, Used, shm, history
    <3>2. /\ wl'[p].old_tail = tail_pos /\ wl'[p].new_tail = t
          /\ wpc'[p] = IF t < tail_pos THEN "wrap" ELSE "cas"
      BY <1>5, <3>1 DEF PutAlloc, TypeInv, Inside, TypeOK, WritersOK, WLocals
    <3>3. /\ head_pos \in Blocks /\ tail_pos \in Blocks /\ wl[p].nr \in Nat
      BY DEF RingOK, TypeInv, Inside, TypeOK, WritersOK, WLocals
    <3>4. Used = IF head_pos <= tail_pos THEN tail_pos - head_pos
                 ELSE ele_count + 1 + tail_pos - head_pos
      BY <3>3, UsedCases DEF Used
    <3>5. wl[p].nr \in Blocks
      BY <3>1, <3>3, <3>4, QueueAssumption DEF Blocks
    <3>6. t = IF tail_pos + wl[p].nr <= ele_count THEN tail_pos + wl[p].nr
              ELSE tail_pos + wl[p].nr - (ele_count + 1)
      BY <3>3, <3>5, AddPosCases
    <3>7. t \in Blocks /\ UsedNodes(tail_pos, t) =
                IF tail_pos <= t THEN t - tail_pos ELSE ele_count + 1 + t - tail_pos
      BY <3>3, AddPosInRing, UsedCases
    <3>8. t < tail_pos => head_pos <= tail_pos
      BY ONLY <3>1, <3>3, <3>4, <3>5, <3>6, QueueAssumption DEF Blocks
    <3>9. ~(t < tail_pos) => Used + UsedNodes(tail_pos, t) <= ele_count
      BY ONLY <3>1, <3>3, <3>4, <3>5, <3>6, <3>7, QueueAssumption DEF Blocks
    <3> HIDE DEF t
    <3> QED
      BY <3>1, <3>2, <3>8, <3>9 DEF WriterRing
  <2> QED
    BY <2>1, <2>2, WriterAlone DEF ConservingStep
<1>6. ASSUME NEW p \in Writers, PutWrap(p)
      PROVE  RingInv' /\ ConservingStep
  <2>1. /\ UNCHANGED <<head_pos, tail_pos, aba>> /\ UNCHANGED rvars
        /\ passed' \in {passed, passed \ {p}}
        /\ \A q \in Writers \ {p} : wpc'[q] = wpc[q] /\ wl'[q] = wl[q]
    BY <1>6 DEF PutWrap, PutReturn, shm, history, TypeInv, Inside, TypeOK, WritersOK
  <2>2. ~aba => WriterRing(p)'
    <3> SUFFICES ASSUME ~aba, p \notin passed' PROVE WriterRing(p)'
      BY DEF WriterRing
    <3>1. CASE PutReturn(p)
      BY <3>1 DEF PutReturn, WriterRing, HoldsTail, TypeInv, Inside, TypeOK, WritersOK, WLocals
    <3>2. CASE /\ RoomBeforeHead(wl[p].nr)
               /\ wpc' = [wpc EXCEPT ![p] = "cas"]
               /\ wl' = [wl EXCEPT ![p].new_tail = wl[p].nr, ![p].idx = 0]
      <4>1. /\ wl[p].old_tail = tail_pos /\ head_pos <= tail_pos
            /\ UNCHANGED <<head_pos, tail_pos, Used>>
        BY <1>6 DEF PutWrap, RingInv, WriterRing, HoldsTail, Used, shm, history
      <4>2. /\ wl'[p].old_tail = tail_pos /\ wl'[p].new_tail = wl[p].nr
            /\ wpc'[p] = "cas"
        BY <3>2, <4>1 DEF TypeInv, Inside, TypeOK, WritersOK, WLocals
      <4>3. head_pos \in Blocks /\ tail_pos \in Blocks /\ wl[p].nr \in Nat
        BY DEF RingOK, TypeInv, Inside, TypeOK, WritersOK, WLocals
      <4>4. wl[p].nr \in Blocks /\ wl[p].nr < head_pos
        BY <3>2, <4>3, QueueAssumption DEF RoomBeforeHead, Blocks
      <4>5. /\ Used = tail_pos - head_pos
            /\ UsedNodes(tail_pos, wl[p].nr) = ele_count + 1 + wl[p].nr - tail_pos
        <5>1. Used = tail_pos - head_pos
          BY <4>1, <4>3, UsedCases DEF Used
        <5>2. ~(tail_pos <= wl[p].nr)
          BY <4>1, <4>3, <4>4, QueueAssumption DEF Blocks
        <5>3. UsedNodes(tail_pos, wl[p].nr) = ele_count + 1 + wl[p].nr - tail_pos
          BY <4>3, <4>4, <5>2, UsedCases
        <5> QED
          BY <5>1, <5>3
      <4>6. Used + UsedNodes(tail_pos, wl[p].nr) <= ele_count
        BY <4>3, <4>4, <4>5, QueueAssumption DEF Blocks
      <4> QED
        BY <4>1, <4>2, <4>6 DEF WriterRing
    <3> QED
      BY <1>6, <3>1, <3>2 DEF PutWrap
  <2> QED
    BY <2>1, <2>2, WriterAlone DEF ConservingStep
<1>7. ASSUME NEW p \in Writers, PutCAS(p)
      PROVE  RingInv' /\ ConservingStep
  <2>1. CASE MoveTail(p) /\ wpc'[p] \in {"skip", "copy"}
    <3>1. \A q \in Writers \ {p} : wpc'[q] = wpc[q] /\ wl'[q] = wl[q]
      BY <1>7 DEF PutCAS, TypeInv, Inside, TypeOK, WritersOK, WLocals
    <3>2. wpc[p] = "cas" /\ UNCHANGED <<head_pos, rvars>>
      BY <1>7, <2>1 DEF PutCAS, MoveTail, shm
    <3> QED
      BY <2>1, <3>1, <3>2, TailStep
  <2>2. CASE wpc'[p] = "load" /\ UNCHANGED <<shm, wl, history>>
    <3>1. /\ UNCHANGED <<head_pos, tail_pos, aba>> /\ UNCHANGED rvars
          /\ passed' = passed
      BY <1>7, <2>2 DEF PutCAS, shm, history
    <3>2. \A q \in Writers \ {p} : wpc'[q] = wpc[q] /\ wl'[q] = wl[q]
      BY <1>7, <2>2 DEF PutCAS, TypeInv, Inside, TypeOK, WritersOK, WLocals
    <3>3. WriterRing(p)'
      BY <2>2 DEF WriterRing, HoldsTail
    <3> QED
      BY <3>1, <3>2, <3>3, WriterAlone DEF ConservingStep
  <2> QED
    BY <1>7, <2>1, <2>2 DEF PutCAS, TypeInv, Inside, TypeOK, WritersOK, WLocals
<1>8. ASSUME NEW p \in Writers, PutSkip(p)
      PROVE  RingInv' /\ ConservingStep
  <2>1. /\ UNCHANGED <<head_pos, tail_pos, aba>> /\ UNCHANGED rvars
        /\ passed' \in {passed, passed \ {p}}
        /\ \A q \in Writers \ {p} : wpc'[q] = wpc[q] /\ wl'[q] = wl[q]
    BY <1>8 DEF PutSkip, PutReturn, shm, history, TypeInv, Inside, TypeOK, WritersOK
  <2>2. ~aba => WriterRing(p)'
    BY <1>8
    DEF PutSkip, PutReturn, WriterRing, RingInv, HoldsTail, Used, shm, history,
        TypeInv, Inside, TypeOK, WritersOK, WLocals
  <2> QED
    BY <2>1, <2>2, WriterAlone DEF ConservingStep
<1>9. ASSUME NEW p \in Writers, PutCopy(p)
      PROVE  RingInv' /\ ConservingStep
  <2>1. /\ UNCHANGED <<head_pos, tail_pos, aba>> /\ UNCHANGED rvars
        /\ passed' \in {passed, passed \ {p}}
        /\ \A q \in Writers \ {p} : wpc'[q] = wpc[q] /\ wl'[q] = wl[q]
    BY <1>9 DEF PutCopy, PutReturn, shm, history, TypeInv, Inside, TypeOK, WritersOK
  <2>2. ~aba => WriterRing(p)'
    BY <1>9
    DEF PutCopy, PutReturn, WriterRing, RingInv, HoldsTail, Used, shm, history,
        TypeInv, Inside, TypeOK, WritersOK, WLocals
  <2> QED
    BY <2>1, <2>2, WriterAlone DEF ConservingStep
<1>10. ASSUME NEW p \in Writers, PutToken(p)
      PROVE  RingInv' /\ ConservingStep
  <2>1. /\ UNCHANGED <<head_pos, tail_pos, aba>> /\ UNCHANGED rvars
        /\ passed' \in {passed, passed \ {p}}
        /\ \A q \in Writers \ {p} : wpc'[q] = wpc[q] /\ wl'[q] = wl[q]
    BY <1>10 DEF PutToken, PutReturn, shm, history, TypeInv, Inside, TypeOK, WritersOK
  <2>2. ~aba => WriterRing(p)'
    BY <1>10
    DEF PutToken, PutReturn, WriterRing, RingInv, HoldsTail, Used, shm, history,
        TypeInv, Inside, TypeOK, WritersOK, WLocals
  <2> QED
    BY <2>1, <2>2, WriterAlone DEF ConservingStep
<1>11. ASSUME NEW p \in Writers, WriterCrash(p)
      PROVE  RingInv' /\ ConservingStep
  <2>1. /\ UNCHANGED <<head_pos, tail_pos, aba>> /\ UNCHANGED rvars
        /\ passed' \in {passed, passed \ {p}}
        /\ \A q \in Writers \ {p} : wpc'[q] = wpc[q] /\ wl'[q] = wl[q]
    BY <1>11 DEF WriterCrash, PutReturn, shm, history, TypeInv, Inside, TypeOK, WritersOK
  <2>2. ~aba => WriterRing(p)'
    BY <1>11
    DEF WriterCrash, PutReturn, WriterRing, RingInv, HoldsTail, Used, shm, history,
        TypeInv, Inside, TypeOK, WritersOK, WLocals
  <2> QED
    BY <2>1, <2>2, WriterAlone DEF ConservingStep
<1>12. ASSUME NEW r \in Readers, GetLoadHead(r)
      PROVE  RingInv' /\ ConservingStep
  <2>1. /\ UNCHANGED <<head_pos, tail_pos, aba>> /\ UNCHANGED wvars
        /\ passed' \in {passed, passed \ {r}}
        /\ \A q \in Readers \ {r} : rpc'[q] = rpc[q] /\ rl'[q] = rl[q]
    BY <1>12 DEF GetLoadHead, GetReturn, GetAgain, NextBlock, RGoto, shm, history, TypeInv, Inside, TypeOK, ReadersOK
  <2>2. ~aba => ReaderRing(r)'
    <3> SUFFICES ASSUME ~aba, r \notin passed' PROVE ReaderRing(r)'
      BY DEF ReaderRing
    <3>1. /\ UNCHANGED <<head_pos, tail_pos, Used>> /\ ReaderRing(r)
          /\ head_pos \in Blocks /\ tail_pos \in Blocks
      BY <1>12 DEF GetLoadHead, RingInv, Used, shm, history, TypeInv, Inside, TypeOK, RingOK
    <3>2. /\ rpc'[r] = "tail" /\ rl'[r].old_head = head_pos /\ rl'[r].head = head_pos
      BY <1>12 DEF GetLoadHead, RGoto, RIdle, TypeInv, Inside, TypeOK, ReadersOK, RLocals
    <3>3. UsedNodes(head_pos, head_pos) = 0 /\ Used \in Nat
      BY <3>1, UsedCases, UsedInt, QueueAssumption DEF Used, Blocks
    <3> QED
      BY <3>1, <3>2, <3>3 DEF ReaderRing
  <2> QED
    BY <2>1, <2>2, ReaderAlone DEF ConservingStep
<1>13. ASSUME NEW r \in Readers, GetTail(r)
      PROVE  RingInv' /\ ConservingStep
  <2>1. /\ UNCHANGED <<head_pos, tail_pos, aba>> /\ UNCHANGED wvars
        /\ passed' \in {passed, passed \ {r}}
        /\ \A q \in Readers \ {r} : rpc'[q] = rpc[q] /\ rl'[q] = rl[q]
    BY <1>13 DEF GetTail, GetReturn, GetAgain, NextBlock, RGoto, shm, history, TypeInv, Inside, TypeOK, ReadersOK
  <2>2. ~aba => ReaderRing(r)'
    <3> SUFFICES ASSUME ~aba, r \notin passed' PROVE ReaderRing(r)'
      BY DEF ReaderRing
    <3>1. /\ UNCHANGED <<head_pos, tail_pos, Used>> /\ ReaderRing(r)
          /\ head_pos \in Blocks /\ tail_pos \in Blocks
      BY <1>13 DEF GetTail, RingInv, Used, shm, history, TypeInv, Inside, TypeOK, RingOK
    <3>2. CASE tail_pos # rl[r].head /\ RGoto(r, "tok1") /\ UNCHANGED rl
      <4>1. /\ rpc[r] = "tail" /\ rpc'[r] = "tok1" /\ passed' = passed
            /\ rl[r].head \in Blocks
        BY <1>13, <3>2 DEF GetTail, RGoto, history, TypeInv, Inside, TypeOK, ReadersOK, RLocals
      <4>2. rl[r].old_head = head_pos /\ UsedNodes(head_pos, rl[r].head) <= Used
        BY <3>1, <4>1 DEF ReaderRing, HoldsHead, ReaderPC
      <4>3. UsedNodes(head_pos, rl[r].head) # UsedNodes(head_pos, tail_pos)
        BY <3>1, <3>2, <4>1, UsedInjective
      <4>4. UsedNodes(head_pos, rl[r].head) \in Nat /\ Used \in Nat
        BY <3>1, <4>1, UsedInt DEF Used
      <4>5. UsedNodes(head_pos, rl[r].head) < Used
        BY <4>2, <4>3, <4>4 DEF Used
      <4> QED
        BY <3>1, <3>2, <4>1, <4>2, <4>5 DEF ReaderRing
    <3>3. CASE RGoto(r, "endcas") /\ UNCHANGED rl
      <4>1. rpc[r] = "tail" /\ rpc'[r] = "endcas" /\ passed' = passed
        BY <1>13, <3>3 DEF GetTail, RGoto, history, TypeInv, Inside, TypeOK, ReadersOK, RLocals
      <4> QED
        BY <3>1, <3>3, <4>1 DEF ReaderRing, HoldsHead, ReaderPC
    <3>4. CASE GetReturn(r, 0)
      BY <3>4 DEF GetReturn, ReaderRing, HoldsHead, TypeInv, Inside, TypeOK, ReadersOK, RLocals
    <3> QED
      BY <1>13, <3>2, <3>3, <3>4 DEF GetTail
  <2> QED
    BY <2>1, <2>2, ReaderAlone DEF ConservingStep
<1>14. ASSUME NEW r \in Readers, GetEndCAS(r)
      PROVE  RingInv' /\ ConservingStep
  <2>1. /\ \A q \in Readers \ {r} : rpc'[q] = rpc[q] /\ rl'[q] = rl[q]
        /\ rpc[r] = "endcas" /\ rl[r].head \in Blocks /\ UNCHANGED <<tail_pos, wvars>>
    BY <1>14 DEF GetEndCAS, GetReturn, GetAgain, RGoto, TypeInv, Inside, TypeOK, ReadersOK, RLocals
  <2>2. CASE MoveHead(r, rl[r].head) /\ rpc'[r] \in {"idle", "copy", "clear"}
    <3>1. r \notin passed /\ ~aba => UsedNodes(rl[r].old_head, rl[r].head) <= Used
      BY <2>1 DEF RingInv, ReaderRing, HoldsHead, ReaderPC
    <3> QED
      BY <2>1, <2>2, <3>1, HeadStep DEF HoldsHead, ReaderPC
  <2>3. CASE KeepHead(r) /\ GetReturn(r, 0)
    <3>1. UNCHANGED <<head_pos, tail_pos, aba, wvars, passed>>
      BY <2>1, <2>3 DEF KeepHead
    <3>2. ReaderRing(r)'
      BY <2>3 DEF GetReturn, ReaderRing, HoldsHead, TypeInv, Inside, TypeOK, ReadersOK, RLocals
    <3> QED
      BY <2>1, <3>1, <3>2, ReaderAlone DEF ConservingStep
  <2> QED
    BY <1>14, <2>2, <2>3 DEF GetEndCAS, GetReturn, RGoto, TypeInv, Inside, TypeOK, ReadersOK, RLocals
<1>15. ASSUME NEW r \in Readers, GetTok1(r)
      PROVE  RingInv' /\ ConservingStep
  <2>1. /\ UNCHANGED <<head_pos, tail_pos, aba>> /\ UNCHANGED wvars
        /\ passed' \in {passed, passed \ {r}}
        /\ \A q \in Readers \ {r} : rpc'[q] = rpc[q] /\ rl'[q] = rl[q]
    BY <1>15 DEF GetTok1, GetReturn, GetAgain, NextBlock, RGoto, shm, history, TypeInv, Inside, TypeOK, ReadersOK
  <2>2. ~aba => ReaderRing(r)'
    BY <1>15
    DEF GetTok1, GetReturn, GetAgain, NextBlock, RGoto, ReaderRing, RingInv, HoldsHead,
        ReaderPC, Used, shm, history, TypeInv, Inside, TypeOK, ReadersOK, RLocals
  <2> QED
    BY <2>1, <2>2, ReaderAlone DEF ConservingStep
<1>16. ASSUME NEW r \in Readers, GetTok2(r)
      PROVE  RingInv' /\ ConservingStep
  <2>1. /\ UNCHANGED <<head_pos, tail_pos, aba>> /\ UNCHANGED wvars
        /\ passed' \in {passed, passed \ {r}}
        /\ \A q \in Readers \ {r} : rpc'[q] = rpc[q] /\ rl'[q] = rl[q]
    BY <1>16 DEF GetTok2, GetReturn, GetAgain, NextBlock, RGoto, shm, history, TypeInv, Inside, TypeOK, ReadersOK
  <2>2. ~aba => ReaderRing(r)'
    BY <1>16
    DEF GetTok2, GetReturn, GetAgain, NextBlock, RGoto, ReaderRing, RingInv, HoldsHead,
        ReaderPC, Used, shm, history, TypeInv, Inside, TypeOK, ReadersOK, RLocals
  <2> QED
    BY <2>1, <2>2, ReaderAlone DEF ConservingStep
<1>17. ASSUME NEW r \in Readers, GetRecheck(r)
      PROVE  RingInv' /\ ConservingStep
  <2>1. /\ UNCHANGED <<head_pos, tail_pos, aba>> /\ UNCHANGED wvars
        /\ passed' \in {passed, passed \ {r}}
        /\ \A q \in Readers \ {r} : rpc'[q] = rpc[q] /\ rl'[q] = rl[q]
    BY <1>17 DEF GetRecheck, GetReturn, GetAgain, NextBlock, RGoto, shm, history, TypeInv, Inside, TypeOK, ReadersOK
  <2>2. ~aba => ReaderRing(r)'
    BY <1>17
    DEF GetRecheck, GetReturn, GetAgain, NextBlock, RGoto, ReaderRing, RingInv, HoldsHead,
        ReaderPC, Used, shm, history, TypeInv, Inside, TypeOK, ReadersOK, RLocals
  <2> QED
    BY <2>1, <2>2, ReaderAlone DEF ConservingStep
<1>18. ASSUME NEW r \in Readers, GetTok3(r)
      PROVE  RingInv' /\ ConservingStep
  <2>1. /\ UNCHANGED <<head_pos, tail_pos, aba>> /\ UNCHANGED wvars
        /\ passed' \in {passed, passed \ {r}}
        /\ \A q \in Readers \ {r} : rpc'[q] = rpc[q] /\ rl'[q] = rl[q]
    BY <1>18 DEF GetTok3, GetReturn, GetAgain, NextBlock, RGoto, shm, history, TypeInv, Inside, TypeOK, ReadersOK
  <2>2. ~aba => ReaderRing(r)'
    <3> SUFFICES ASSUME ~aba, r \notin passed' PROVE ReaderRing(r)'
      BY DEF ReaderRing
    <3>1. /\ UNCHANGED <<head_pos, tail_pos, Used>> /\ ReaderRing(r)
          /\ head_pos \in Blocks /\ tail_pos \in Blocks
      BY <1>18 DEF GetTok3, RingInv, Used, shm, history, TypeInv, Inside, TypeOK, RingOK
    <3>2. rpc[r] = "tok3" /\ passed' = passed
      BY <1>18 DEF GetTok3
    <3>3. rl[r].old_head = head_pos /\ UsedNodes(rl[r].old_head, rl[r].head) < Used
      BY <3>1, <3>2 DEF ReaderRing, HoldsHead, ReaderPC
    <3>4. UsedNodes(head_pos, rl[r].head) \in Nat /\ Used \in Nat
      BY <3>1, UsedInt DEF Used, TypeInv, Inside, TypeOK, ReadersOK, RLocals
    <3>5. CASE RGoto(r, "len") /\ UNCHANGED rl
      <4>1. rpc'[r] = "len"
        BY <3>5 DEF RGoto, TypeInv, Inside, TypeOK, ReadersOK, RLocals
      <4> QED
        BY <3>1, <3>3, <3>4, <3>5, <4>1 DEF ReaderRing
    <3>6. CASE NextBlock(r)
      <4>1. /\ rpc'[r] = "tail" /\ rl'[r].old_head = head_pos
            /\ rl'[r].head = AddPos(rl[r].head, 1)
        BY <3>3, <3>6 DEF NextBlock, RGoto, TypeInv, Inside, TypeOK, ReadersOK, RLocals
      <4> QED
        BY <3>1, <3>3, <4>1, GoingOn DEF ReaderRing
    <3> QED
      BY <1>18, <3>5, <3>6 DEF GetTok3
  <2> QED
    BY <2>1, <2>2, ReaderAlone DEF ConservingStep
<1>19. ASSUME NEW r \in Readers, GetLen(r)
      PROVE  RingInv' /\ ConservingStep
  <2>1. /\ UNCHANGED <<head_pos, tail_pos, aba>> /\ UNCHANGED wvars
        /\ passed' \in {passed, passed \ {r}}
        /\ \A q \in Readers \ {r} : rpc'[q] = rpc[q] /\ rl'[q] = rl[q]
    BY <1>19 DEF GetLen, GetReturn, GetAgain, NextBlock, RGoto, shm, history, TypeInv, Inside, TypeOK, ReadersOK
  <2>2. ~aba => ReaderRing(r)'
    BY <1>19
    DEF GetLen, GetReturn, GetAgain, NextBlock, RGoto, ReaderRing, RingInv, HoldsHead,
        ReaderPC, Used, shm, history, TypeInv, Inside, TypeOK, ReadersOK, RLocals
  <2> QED
    BY <2>1, <2>2, ReaderAlone DEF ConservingStep
<1>20. ASSUME NEW r \in Readers, GetFits(r)
      PROVE  RingInv' /\ ConservingStep
  <2>1. /\ UNCHANGED <<head_pos, tail_pos, aba>> /\ UNCHANGED wvars
        /\ passed' \in {passed, passed \ {r}}
        /\ \A q \in Readers \ {r} : rpc'[q] = rpc[q] /\ rl'[q] = rl[q]
    BY <1>20 DEF GetFits, GetReturn, GetAgain, NextBlock, RGoto, shm, history, TypeInv, Inside, TypeOK, ReadersOK
  <2>2. ~aba => ReaderRing(r)'
    <3> SUFFICES ASSUME ~aba, r \notin passed' PROVE ReaderRing(r)'
      BY DEF ReaderRing
    <3>1. /\ UNCHANGED <<head_pos, tail_pos, Used>> /\ ReaderRing(r)
          /\ head_pos \in Blocks /\ tail_pos \in Blocks
      BY <1>20 DEF GetFits, RingInv, Used, shm, history, TypeInv, Inside, TypeOK, RingOK
    <3>2. rpc[r] = "fits" /\ passed' = passed
      BY <1>20 DEF GetFits, history
    <3>3. rl[r].old_head = head_pos /\ UsedNodes(rl[r].old_head, rl[r].head) < Used
      BY <3>1, <3>2 DEF ReaderRing, HoldsHead, ReaderPC
    <3>4. /\ UsedNodes(head_pos, rl[r].head) \in Nat /\ Used \in Nat
          /\ UsedNodes(rl[r].head, tail_pos) \in Nat /\ rl[r].nr \in Int
      BY <3>1, UsedInt DEF Used, TypeInv, Inside, TypeOK, ReadersOK, RLocals
    <3>5. CASE /\ Fits(r) /\ RGoto(r, "cas")
               /\ rl' = [rl EXCEPT ![r].new_head = AddPos(rl[r].head, rl[r].nr)]
      <4>1. /\ rpc'[r] = "cas" /\ rl'[r].old_head = head_pos /\ rl'[r].head = rl[r].head
            /\ rl'[r].new_head = AddPos(rl[r].head, rl[r].nr) /\ rl'[r].nr = rl[r].nr
        BY <3>3, <3>5 DEF RGoto, TypeInv, Inside, TypeOK, ReadersOK, RLocals
      <4>2. rl[r].nr >= 0 => UsedNodes(head_pos, AddPos(rl[r].head, rl[r].nr)) <= Used
        BY <3>3, <3>4, <3>5, GoingOn DEF Fits
      <4> QED
        BY <3>1, <3>3, <3>4, <4>1, <4>2 DEF ReaderRing
    <3>6. CASE NextBlock(r)
      <4>1. /\ rpc'[r] = "tail" /\ rl'[r].old_head = head_pos
            /\ rl'[r].head = AddPos(rl[r].head, 1)
        BY <3>3, <3>6 DEF NextBlock, RGoto, TypeInv, Inside, TypeOK, ReadersOK, RLocals
      <4> QED
        BY <3>1, <3>3, <4>1, GoingOn DEF ReaderRing
    <3> QED
      BY <1>20, <3>5, <3>6 DEF GetFits
  <2> QED
    BY <2>1, <2>2, ReaderAlone DEF ConservingStep
<1>21. ASSUME NEW r \in Readers, GetCAS(r)
      PROVE  RingInv' /\ ConservingStep
  <2>1. /\ \A q \in Readers \ {r} : rpc'[q] = rpc[q] /\ rl'[q] = rl[q]
        /\ rpc[r] = "cas" /\ UNCHANGED <<tail_pos, wvars>>
    BY <1>21 DEF GetCAS, GetReturn, GetAgain, RGoto, TypeInv, Inside, TypeOK, ReadersOK, RLocals
  <2>2. CASE MoveHead(r, rl[r].new_head) /\ rpc'[r] \in {"idle", "copy", "clear"}
    <3>0. rl[r].nr >= 0 /\ rl[r].new_head \in Blocks
      <4>1. astray' = (astray \/ rl[r].nr < 0)
        BY <1>21, <2>2 DEF GetCAS, KeepHead, MoveHead
      <4>2. ~(rl[r].nr < 0)
        BY <4>1, Zenon
      <4>3. rl[r].nr \in Int
        BY DEF TypeInv, TypeOK, ReadersOK, RLocals
      <4>4. rl[r].nr >= 0
        BY <4>2, <4>3
      <4> QED
        BY <4>4 DEF TypeInv, Inside
    <3>1. r \notin passed /\ ~aba => UsedNodes(rl[r].old_head, rl[r].new_head) <= Used
      BY <2>1, <3>0 DEF RingInv, ReaderRing, HoldsHead, ReaderPC
    <3> QED
      BY <2>1, <2>2, <3>0, <3>1, HeadStep DEF HoldsHead, ReaderPC
  <2>3. CASE KeepHead(r) /\ GetAgain(r)
    <3>1. UNCHANGED <<head_pos, tail_pos, aba, wvars, passed>>
      BY <2>1, <2>3 DEF KeepHead
    <3>2. ReaderRing(r)'
      BY <2>3 DEF GetAgain, ReaderRing, HoldsHead, TypeInv, Inside, TypeOK, ReadersOK, RLocals
    <3> QED
      BY <2>1, <3>1, <3>2, ReaderAlone DEF ConservingStep
  <2> QED
    BY <1>21, <2>2, <2>3 DEF GetCAS, GetReturn, RGoto, TypeInv, Inside, TypeOK, ReadersOK, RLocals
<1>22. ASSUME NEW r \in Readers, GetCopy(r)
      PROVE  RingInv' /\ ConservingStep
  <2>1. /\ UNCHANGED <<head_pos, tail_pos, aba>> /\ UNCHANGED wvars
        /\ passed' \in {passed, passed \ {r}}
        /\ \A q \in Readers \ {r} : rpc'[q] = rpc[q] /\ rl'[q] = rl[q]
    BY <1>22 DEF GetCopy, GetReturn, GetAgain, NextBlock, RGoto, shm, history, TypeInv, Inside, TypeOK, ReadersOK
  <2>2. ~aba => ReaderRing(r)'
    BY <1>22
    DEF GetCopy, GetReturn, GetAgain, NextBlock, RGoto, ReaderRing, RingInv, HoldsHead,
        ReaderPC, Used, shm, history, TypeInv, Inside, TypeOK, ReadersOK, RLocals
  <2> QED
    BY <2>1, <2>2, ReaderAlone DEF ConservingStep
<1>23. ASSUME NEW r \in Readers, GetClear(r)
      PROVE  RingInv' /\ ConservingStep
  <2>1. /\ UNCHANGED <<head_pos, tail_pos, aba>> /\ UNCHANGED wvars
        /\ passed' \in {passed, passed \ {r}}
        /\ \A q \in Readers \ {r} : rpc'[q] = rpc[q] /\ rl'[q] = rl[q]
    BY <1>23 DEF GetClear, GetReturn, GetAgain, NextBlock, RGoto, shm, history, TypeInv, Inside, TypeOK, ReadersOK
  <2>2. ~aba => ReaderRing(r)'
    BY <1>23
    DEF GetClear, GetReturn, GetAgain, NextBlock, RGoto, ReaderRing, RingInv, HoldsHead,
        ReaderPC, Used, shm, history, TypeInv, Inside, TypeOK, ReadersOK, RLocals
  <2> QED
    BY <2>1, <2>2, ReaderAlone DEF ConservingStep
<1>24. ASSUME NEW r \in Readers, ReaderCrash(r)
      PROVE  RingInv' /\ ConservingStep
  <2>1. /\ UNCHANGED <<head_pos, tail_pos, aba>> /\ UNCHANGED wvars
        /\ passed' \in {passed, passed \ {r}}
        /\ \A q \in Readers \ {r} : rpc'[q] = rpc[q] /\ rl'[q] = rl[q]
    BY <1>24 DEF ReaderCrash, GetReturn, GetAgain, NextBlock, RGoto, shm, history, TypeInv, Inside, TypeOK, ReadersOK
  <2>2. ~aba => ReaderRing(r)'
    BY <1>24
    DEF ReaderCrash, GetReturn, GetAgain, NextBlock, RGoto, ReaderRing, RingInv, HoldsHead,
        ReaderPC, Used, shm, history, TypeInv, Inside, TypeOK, ReadersOK, RLocals
  <2> QED
    BY <2>1, <2>2, ReaderAlone DEF ConservingStep
<1>25. CASE UNCHANGED vars
  <2> USE <1>25 DEF vars, shm, wvars, rvars, history, crashes
  <2>1. Used' = Used
    BY DEF Used
  <2> QED
    BY <2>1 DEF RingInv, WriterRing, ReaderRing, ConservingStep
<1> QED
  BY <1>1, <1>2, <1>3, <1>4, <1>5, <1>6, <1>7, <1>8, <1>9, <1>10, <1>11, <1>12, <1>13, <1>14, <1>15, <1>16, <1>17, <1>18, <1>19, <1>20, <1>21, <1>22, <1>23, <1>24, <1>25 DEF Next, Writer, Reader

\* What holds until the head goes astray, if it ever does
RingHolds == PlainInv /\ (~astray => Inside /\ RingInv)

\* A fresh segment satisfies it,
LEMMA InitRing == Init => RingHolds
<1> SUFFICES ASSUME Init PROVE RingHolds
  OBVIOUS
<1>1. PlainInv
  BY InitType
<1>2. Inside
  BY BlocksArePositions DEF Init, Inside, WIdle, RIdle
<1>3. RingInv
  BY DEF Init, RingInv, WriterRing, ReaderRing, HoldsTail, HoldsHead, ReaderPC
<1> QED
  BY <1>1, <1>2, <1>3 DEF RingHolds

\* and every step keeps it and conserves the ring.
LEMMA RingHoldsStep == RingHolds /\ [Next]_vars => RingHolds' /\ ConservingStep
<1> SUFFICES ASSUME RingHolds, [Next]_vars PROVE RingHolds' /\ ConservingStep
  OBVIOUS
<1>1. PlainInv /\ PlainInv'
  BY NextType DEF RingHolds
<1>2. CASE astray'
  BY <1>1, <1>2 DEF RingHolds, ConservingStep
<1>3. CASE ~astray'
  <2>1. ~astray
    BY <1>1, <1>3, AstrayStays
  <2>2. TypeInv /\ RingInv
    BY <1>1, <2>1 DEF RingHolds, TypeInv, PlainInv
  <2> QED
    BY <1>1, <1>3, <2>2, InsideStep, RingStep DEF RingHolds
<1> QED
  BY <1>2, <1>3

\* The two positions never pass each other, in a queue of any size with any
\* number of processes, as long as no outdated position is exchanged and no
\* negative number of blocks moves the head.
THEOREM RingIsConserved == Spec => RingConserved
<1>1. Spec => [][ConservingStep]_vars
  BY InitRing, RingHoldsStep, PTL DEF Spec
<1> QED
  BY <1>1 DEF RingConserved, ConservingStep

\* The head is the position of a block, in a queue of any size with any number of
\* processes and deaths, unless payload that makes a negative number of blocks was
\* taken for a length.
THEOREM HeadInRingUnlessAstray == Spec => [](astray \/ HeadInRing)
<1>1. RingHolds => (astray \/ HeadInRing)
  BY DEF RingHolds, Inside, HeadInRing
<1> QED
  BY <1>1, InitRing, RingHoldsStep, PTL DEF Spec

\* Nobody's position is outdated.
UpToDate == passed = {} /\ ~aba

\* With one writer and one reader nobody's position is ever outdated.
LEMMA UpToDateKept ==
    ASSUME \A p, q \in Writers : p = q, \A r, q \in Readers : r = q
    PROVE  Spec => []UpToDate
<1>1. Init => UpToDate
  BY DEF Init, UpToDate
<1>2. ASSUME UpToDate, [Next]_vars PROVE UpToDate'
  <2> USE <1>2 DEF UpToDate, history
  <2>1. ASSUME NEW p \in Writers, Writer(p) \/ WriterCrash(p) PROVE UpToDate'
    <3>1. ASSUME NEW l \in Lens, PutStart(p, l) PROVE UpToDate'
      BY <3>1 DEF PutStart
    <3>2. CASE PutLoadTail(p)
      BY <3>2 DEF PutLoadTail
    <3>3. CASE PutReadHead(p)
      BY <3>3 DEF PutReadHead
    <3>4. CASE PutCheck(p)
      BY <3>4 DEF PutCheck
    <3>5. CASE PutAlloc(p)
      BY <3>5 DEF PutAlloc
    <3>6. CASE PutWrap(p)
      BY <3>6 DEF PutWrap
    <3>7. CASE PutCAS(p)
      <4>1. CASE MoveTail(p)
        <5>1. Writers \ {p} = {}
          OBVIOUS
        <5>2. passed' = {}
          BY <4>1, <5>1 DEF MoveTail
        <5>3. ~aba'
          BY <4>1 DEF MoveTail
        <5> QED
          BY <5>2, <5>3
      <4>2. CASE UNCHANGED history
        BY <4>2
      <4> QED
        BY <3>7, <4>1, <4>2 DEF PutCAS
    <3>8. CASE PutSkip(p)
      BY <3>8 DEF PutSkip
    <3>9. CASE PutCopy(p)
      BY <3>9 DEF PutCopy
    <3>10. CASE PutToken(p)
      BY <3>10 DEF PutToken
    <3>11. CASE WriterCrash(p)
      BY <3>11 DEF WriterCrash
    <3> QED
      BY <2>1, <3>1, <3>2, <3>3, <3>4, <3>5, <3>6, <3>7, <3>8, <3>9, <3>10, <3>11 DEF Writer
  <2>2. ASSUME NEW r \in Readers, Reader(r) \/ ReaderCrash(r) PROVE UpToDate'
    <3>1. CASE GetLoadHead(r)
      BY <3>1 DEF GetLoadHead
    <3>2. CASE GetTail(r)
      BY <3>2 DEF GetTail
    <3>3. CASE GetEndCAS(r)
      <4>1. ASSUME NEW pos, MoveHead(r, pos) PROVE UpToDate'
        <5>1. Readers \ {r} = {}
          OBVIOUS
        <5>2. passed' = {}
          BY <4>1, <5>1 DEF MoveHead
        <5>3. ~aba'
          BY <4>1 DEF MoveHead
        <5> QED
          BY <5>2, <5>3
      <4>2. CASE KeepHead(r)
        BY <4>2 DEF KeepHead
      <4> QED
        BY <3>3, <4>1, <4>2 DEF GetEndCAS
    <3>4. CASE GetTok1(r)
      BY <3>4 DEF GetTok1
    <3>5. CASE GetTok2(r)
      BY <3>5 DEF GetTok2
    <3>6. CASE GetRecheck(r)
      BY <3>6 DEF GetRecheck
    <3>7. CASE GetTok3(r)
      BY <3>7 DEF GetTok3
    <3>8. CASE GetLen(r)
      BY <3>8 DEF GetLen
    <3>9. CASE GetFits(r)
      BY <3>9 DEF GetFits
    <3>10. CASE GetCAS(r)
      <4>1. ASSUME NEW pos, MoveHead(r, pos) PROVE UpToDate'
        <5>1. Readers \ {r} = {}
          OBVIOUS
        <5>2. passed' = {}
          BY <4>1, <5>1 DEF MoveHead
        <5>3. ~aba'
          BY <4>1 DEF MoveHead
        <5> QED
          BY <5>2, <5>3
      <4>2. CASE KeepHead(r)
        BY <4>2 DEF KeepHead
      <4> QED
        BY <3>10, <4>1, <4>2 DEF GetCAS
    <3>11. CASE GetCopy(r)
      BY <3>11 DEF GetCopy
    <3>12. CASE GetClear(r)
      BY <3>12 DEF GetClear
    <3>13. CASE ReaderCrash(r)
      BY <3>13 DEF ReaderCrash
    <3> QED
      BY <2>2, <3>1, <3>2, <3>3, <3>4, <3>5, <3>6, <3>7, <3>8, <3>9, <3>10, <3>11, <3>12, <3>13 DEF Reader
  <2> QED
    BY <2>1, <2>2 DEF Next, vars
<1> QED
  BY <1>1, <1>2, PTL DEF Spec

\* "here we assume only one process can put to the queue": with one writer and
\* one reader no position is ever outdated when it is exchanged, and the ring is
\* conserved until the head goes astray.  That may still happen when the reader
\* has given the writer up and takes payload for a length.
THEOREM OneWriterOneReader ==
    ASSUME \A p, q \in Writers : p = q, \A r, q \in Readers : r = q
    PROVE  Spec => [][~astray' =>
                        /\ tail_pos' # tail_pos =>
                               Used' = Used + UsedNodes(tail_pos, tail_pos')
                        /\ head_pos' # head_pos =>
                               Used' = Used - UsedNodes(head_pos, head_pos')]_vars
<1>1. UpToDate' /\ [ConservingStep]_vars =>
        [~astray' =>
           /\ tail_pos' # tail_pos => Used' = Used + UsedNodes(tail_pos, tail_pos')
           /\ head_pos' # head_pos => Used' = Used - UsedNodes(head_pos, head_pos')]_vars
  BY DEF UpToDate, ConservingStep
<1>2. Spec => [][ConservingStep]_vars
  BY RingIsConserved DEF RingConserved, ConservingStep
<1>3. Spec => []UpToDate
  BY UpToDateKept
<1> QED
  BY <1>1, <1>2, <1>3, PTL
=============================================================================
