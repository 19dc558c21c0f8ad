----------------------- MODULE ShmQueueMessageProofs -----------------------
(***************************************************************************)
(* What sq_get returns, for queues of every size and any number of writers *)
(* and readers: whole messages, each once, and in order if there is only   *)
(* one reader.                                                             *)
(*                                                                         *)
(* The ring falls into stretches.  Between head_pos and tail_pos there are *)
(* messages that are complete, stretches that a writer fills, and          *)
(* stretches that a writer skipped or died in; behind head_pos there are   *)
(* the stretches that readers have taken and copy out or clear.  The       *)
(* invariant says that no two of them overlap, that a block marked as the  *)
(* start of a message is the start of one that is whole, and that the      *)
(* messages lie in the ring in the order of their numbers.                 *)
(*                                                                         *)
(* The last part is about RESERVE_BLOCK_COUNT: a single reader and a       *)
(* writer never touch the same block if every message fits twice in the    *)
(* reserve and the extra element of the ring.                              *)
(***************************************************************************)
EXTENDS ShmQueueProofs

(* Stretches of the ring *)

Marked(b) == start_token[b] = TOKEN_HAS_DATA

\* The n blocks from b on, and the blocks of the message that starts at b
Stretch(b, n) == {x \in Blocks : b <= x /\ x < b + n}
Size(b) == NumNeeded(lenOf[data[b]])
Span(b) == Stretch(b, Size(b))

InUse == Range(head_pos, tail_pos)

Writing(p) == wpc[p] \in {"skip", "copy", "token"}
Taking(r) == rpc[r] \in {"copy", "clear"}

\* What a writer has been handed, and what a reader has released
Filled(p) == IF Writing(p) THEN Handed(p) ELSE {}
Released(r) == IF Taking(r) THEN Range(rl[r].old_head, rl[r].new_head) ELSE {}

\* A reader whose old_head is still the head, and the blocks it has gone over
Current(r) == r \notin passed /\ rpc[r] \in HoldsHead
Scanned(r) == Range(rl[r].old_head, rl[r].head)

\* The message that a reader has taken, until its call returns it
Carries(r) == rpc[r] = "copy" \/ (rpc[r] = "clear" /\ rl[r].len # 0)
TakenId(r) == IF rpc[r] = "copy" THEN data[rl[r].head] ELSE rl[r].buf[1]

\* Message i starts at block b, complete or still being written.
Holds(b, i) ==
    \/ Marked(b) /\ b \in InUse /\ data[b] = i
    \/ \E p \in Writers : Writing(p) /\ wl[p].idx = b /\ wl[p].id = i

-----------------------------------------------------------------------------
(* The invariant *)

\* The history: what was put has been allocated.
Counted == Len(lenOf) = nputs /\ putDone \subseteq 1 .. nputs

\* Writers fill different blocks in use; readers take different blocks out of
\* use.
WritersApart ==
    /\ \A p \in Writers : Filled(p) \subseteq InUse
    /\ \A p, q \in Writers : p # q => Filled(p) \cap Filled(q) = {}
ReadersApart ==
    /\ \A r \in Readers : Released(r) \cap InUse = {}
    /\ \A r, s \in Readers : r # s => Released(r) \cap Released(s) = {}

Whole(b) ==
    /\ data[b] \in putDone /\ datalen[b] = lenOf[data[b]]
    /\ b + Size(b) <= ele_count
    /\ \A x \in Span(b) : data[x] = data[b]

\* A block is marked only as the start of a whole message, which is in use or
\* being taken, and which nobody writes to.
Marks ==
    \A b \in Blocks : Marked(b) =>
        /\ Whole(b)
        /\ \/ Span(b) \subseteq InUse
           \/ \E r \in Readers : Span(b) \subseteq Released(r)
        /\ \A p \in Writers : Span(b) \cap Filled(p) = {}

\* What a writer's locals say of the blocks it asks for ...
Asks(p) ==
    /\ wpc[p] # "idle" => wl[p].nr = NumNeeded(wl[p].len)
    /\ wpc[p] = "cas" /\ p \notin passed =>
         \/ /\ wl[p].idx = wl[p].old_tail
            /\ wl[p].new_tail = wl[p].idx + wl[p].nr
         \/ /\ wl[p].idx = 0 /\ wl[p].new_tail = wl[p].nr
            /\ wl[p].nr < wl[p].old_tail

\* ... and of those it fills
Fills(p) ==
    /\ Writing(p) =>
         /\ wl[p].id \in (1 .. nputs) \ putDone
         /\ lenOf[wl[p].id] = wl[p].len
         /\ wl[p].idx + wl[p].nr <= ele_count
    /\ wpc[p] = "skip" =>
         /\ wl[p].idx = 0 /\ wl[p].nr < wl[p].old_tail /\ wl[p].k = 0
    /\ wpc[p] \in {"copy", "token"} =>
         /\ wl[p].idx = 0 => wl[p].old_tail = 0
         /\ IF wpc[p] = "copy" THEN wl[p].k < wl[p].nr ELSE wl[p].k = wl[p].nr
         /\ wl[p].k > 0 => datalen[wl[p].idx] = wl[p].len
         /\ \A x \in Stretch(wl[p].idx, wl[p].k) : data[x] = wl[p].id

\* A reader whose head is the queue's has gone over no message and no block
\* that is being filled, and is looking at a message that it can take.
Scans(r) ==
    Current(r) =>
        /\ \A b \in Scanned(r) : ~Marked(b) /\ \A p \in Writers : b \notin Filled(p)
        /\ rpc[r] = "endcas" => rl[r].head # rl[r].old_head
        /\ rpc[r] \in {"len", "fits", "cas"} =>
             Marked(rl[r].head) /\ Span(rl[r].head) \subseteq InUse
        /\ rpc[r] \in {"fits", "cas"} =>
             rl[r].len = lenOf[data[rl[r].head]] /\ rl[r].nr = NumNeeded(rl[r].len)
        /\ rpc[r] = "cas" => rl[r].new_head = rl[r].head + rl[r].nr

\* What a reader has copied is the message it has taken.
Takes(r) ==
    /\ rpc[r] \in HoldsHead => rl[r].k = 0 /\ rl[r].buf = << >>
    /\ Taking(r) => rl[r].old_head # rl[r].new_head
    /\ rpc[r] = "copy" =>
         /\ Marked(rl[r].head) /\ Span(rl[r].head) \subseteq Released(r)
         /\ rl[r].len = lenOf[data[rl[r].head]] /\ rl[r].nr = NumNeeded(rl[r].len)
         /\ rl[r].k < rl[r].nr
         /\ rl[r].buf = [j \in 1 .. rl[r].k |-> data[rl[r].head]]
    /\ rpc[r] = "clear" /\ rl[r].len # 0 =>
         /\ rl[r].buf[1] \in putDone
         /\ rl[r].len = lenOf[rl[r].buf[1]]
         /\ rl[r].buf = [j \in 1 .. NumNeeded(rl[r].len) |-> rl[r].buf[1]]

\* Messages lie in the ring in the order they were allocated ...
Ordered ==
    \A b, c \in Blocks, i, j \in Ids :
        /\ Holds(b, i) /\ Holds(c, j)
        /\ UsedNodes(head_pos, b) < UsedNodes(head_pos, c)
        => i < j

\* ... after all that were taken.
Older ==
    \A b \in Blocks, i \in Ids : Holds(b, i) =>
        /\ \A r \in Readers : Carries(r) => TakenId(r) < i
        /\ \A k \in DOMAIN returned : returned[k].buf[1] < i

\* What was returned is whole, and nothing was taken twice.
Returns ==
    /\ \A k \in DOMAIN returned : \E i \in putDone : returned[k] = Buf(i)
    /\ \A j, k \in DOMAIN returned : returned[j].buf[1] = returned[k].buf[1] => j = k
    /\ \A r \in Readers, k \in DOMAIN returned :
         Carries(r) => returned[k].buf[1] # TakenId(r)
    /\ \A r, s \in Readers :
         Carries(r) /\ Carries(s) /\ TakenId(r) = TakenId(s) => r = s

\* A single reader takes them in their order.
Alone == \A r, s \in Readers : r = s
InTurn ==
    Alone =>
        /\ \A j, k \in DOMAIN returned : j < k => returned[j].buf[1] < returned[k].buf[1]
        /\ \A r \in Readers, k \in DOMAIN returned :
             Carries(r) => returned[k].buf[1] < TakenId(r)

Layout == Counted /\ WritersApart /\ ReadersApart /\ Marks
Locals == /\ \A p \in Writers : Asks(p) /\ Fills(p)
          /\ \A r \in Readers : Scans(r) /\ Takes(r)
Order  == Ordered /\ Older /\ Returns /\ InTurn

MessageInv == Good => Layout /\ Locals /\ Order

\* The calls are given buffers that hold any message, and no reader dies with
\* the blocks it has taken: otherwise these stay marked as messages.
ReadersFinish == MaxReaderCrashes = 0 /\ \A l \in Lens : l <= buf_sz

-----------------------------------------------------------------------------
(* Distances and stretches *)

\* Every length that is put needs a block.
LEMMA NumNeededPositive ==
    ASSUME NEW l \in Lens
    PROVE  NumNeeded(l) \in Nat /\ NumNeeded(l) >= 1
<1>1. l \in 0 .. MAX_SQ_DATA_LENGTH
  BY LensInBounds
<1>2. NumNeeded(l) \in Nat \ {0}
  BY <1>1, NumNeededOf
<1> QED
  BY <1>2

\* No block lies between a position and itself.
LEMMA UsedSelf ==
    ASSUME NEW a \in Blocks
    PROVE  UsedNodes(a, a) = 0 /\ Range(a, a) = {}
<1>1. UsedNodes(a, a) = 0
  BY UsedCases, QueueAssumption DEF Blocks
<1>2. \A x \in Blocks : UsedNodes(a, x) \in Nat
  BY UsedInt
<1> QED
  BY <1>1, <1>2 DEF Range

\* A position within a stretch divides it in two.
LEMMA RangeSplit ==
    ASSUME NEW a \in Blocks, NEW b \in Blocks, NEW c \in Blocks,
           UsedNodes(a, b) + UsedNodes(b, c) <= ele_count
    PROVE  /\ Range(a, c) = Range(a, b) \cup Range(b, c)
           /\ Range(a, b) \cap Range(b, c) = {}
           /\ \A x \in Range(b, c) : UsedNodes(a, x) = UsedNodes(a, b) + UsedNodes(b, x)
<1> DEFINE Dist(x, y) == IF x <= y THEN y - x ELSE ele_count + 1 + y - x
<1>1. \A x, y \in Blocks : UsedNodes(x, y) = Dist(x, y)
  BY UsedCases
<1>2. Dist(a, b) + Dist(b, c) <= ele_count
  BY <1>1
<1>3. \A x \in Blocks : Dist(a, x) < Dist(a, c) <=> Dist(a, x) < Dist(a, b) \/ Dist(b, x) < Dist(b, c)
  BY <1>2, QueueAssumption DEF Blocks
<1>4. \A x \in Blocks : ~(Dist(a, x) < Dist(a, b) /\ Dist(b, x) < Dist(b, c))
  BY <1>2, QueueAssumption DEF Blocks
<1>5. \A x \in Blocks : Dist(b, x) < Dist(b, c) => Dist(a, x) = Dist(a, b) + Dist(b, x)
  BY <1>2, QueueAssumption DEF Blocks
<1> HIDE DEF Dist
<1> QED
  BY <1>1, <1>3, <1>4, <1>5 DEF Range

\* Consecutive blocks inside a stretch are as far apart as their numbers: the
\* stretch does not begin in the middle of them.
LEMMA SpanInRange ==
    ASSUME NEW a \in Blocks, NEW c \in Blocks, NEW b \in Blocks, NEW n \in Nat,
           b + n <= ele_count, n >= 1, Stretch(b, n) \subseteq Range(a, c)
    PROVE  /\ \A x \in Stretch(b, n) : UsedNodes(a, x) = UsedNodes(a, b) + (x - b)
           /\ b + n \in Blocks
           /\ UsedNodes(a, b + n) = UsedNodes(a, b) + n
           /\ UsedNodes(a, b) + n <= UsedNodes(a, c)
<1> DEFINE Dist(x, y) == IF x <= y THEN y - x ELSE ele_count + 1 + y - x
<1>1. \A x, y \in Blocks : UsedNodes(x, y) = Dist(x, y)
  BY UsedCases
<1>2. \A x \in Blocks : b <= x /\ x < b + n => Dist(a, x) < Dist(a, c)
  BY <1>1 DEF Range, Stretch
<1>3. ~(b < a /\ a < b + n)
  <2> SUFFICES ASSUME b < a, a < b + n PROVE FALSE
    OBVIOUS
  <2>1. a - 1 \in Blocks /\ b <= a - 1 /\ a - 1 < b + n /\ Dist(a, a - 1) = ele_count
    BY QueueAssumption DEF Blocks
  <2>2. Dist(a, c) <= ele_count /\ Dist(a, c) \in Int
    BY QueueAssumption DEF Blocks
  <2> HIDE DEF Dist
  <2>3. Dist(a, a - 1) < Dist(a, c)
    BY <2>1, <1>2
  <2> QED
    BY <2>1, <2>2, <2>3, QueueAssumption
<1>4. \A x \in Blocks : b <= x /\ x < b + n => Dist(a, x) = Dist(a, b) + (x - b)
  BY <1>3, QueueAssumption DEF Blocks
<1>5. b + n - 1 \in Blocks /\ b + n \in Blocks
  BY QueueAssumption DEF Blocks
<1>6. Dist(a, b) + (n - 1) < Dist(a, c)
  <2> DEFINE e == b + n - 1
  <2>1. e \in Blocks /\ b <= e /\ e < b + n /\ e - b = n - 1
    BY <1>5, QueueAssumption DEF Blocks
  <2> HIDE DEF Dist, e
  <2>2. Dist(a, e) < Dist(a, c) /\ Dist(a, e) = Dist(a, b) + (e - b)
    BY <2>1, <1>2, <1>4
  <2> QED
    BY <2>1, <2>2
<1>7. Dist(a, b + n) = Dist(a, b) + n
  BY <1>3, <1>6, QueueAssumption DEF Blocks
<1>8. Dist(a, b) \in Int /\ Dist(a, c) \in Int
  BY QueueAssumption DEF Blocks
<1> HIDE DEF Dist
<1> QED
  BY <1>1, <1>4, <1>5, <1>6, <1>7, <1>8 DEF Stretch

\* One more block at the end of a stretch, ...
LEMMA RangeMore ==
    ASSUME NEW a \in Blocks, NEW b \in Blocks, NEW c \in Blocks,
           UsedNodes(a, b) < UsedNodes(a, c)
    PROVE  Range(a, AddPos(b, 1)) = Range(a, b) \cup {b}
<1> DEFINE Dist(x, y) == IF x <= y THEN y - x ELSE ele_count + 1 + y - x
           d == AddPos(b, 1)
<1>1. \A x, y \in Blocks : UsedNodes(x, y) = Dist(x, y)
  BY UsedCases
<1>2. 1 \in Blocks
  BY QueueAssumption DEF Blocks
<1>3. d \in Blocks /\ d = IF b + 1 <= ele_count THEN b + 1 ELSE b + 1 - (ele_count + 1)
  BY <1>2, AddPosInRing, AddPosCases
<1>4. Dist(a, b) < Dist(a, c)
  BY <1>1
<1>5. \A x \in Blocks : Dist(a, x) < Dist(a, d) <=> Dist(a, x) < Dist(a, b) \/ x = b
  BY ONLY <1>3, <1>4, QueueAssumption, a \in Blocks, b \in Blocks, c \in Blocks DEF Blocks
<1> HIDE DEF Dist, d
<1> QED
  BY <1>1, <1>3, <1>5 DEF Range, d

\* ... and one less at its beginning.
LEMMA RangeLess ==
    ASSUME NEW a \in Blocks, NEW c \in Blocks, a # c
    PROVE  /\ Range(AddPos(a, 1), c) = Range(a, c) \ {a}
           /\ a \in Range(a, c)
<1> DEFINE Dist(x, y) == IF x <= y THEN y - x ELSE ele_count + 1 + y - x
           d == AddPos(a, 1)
<1>1. \A x, y \in Blocks : UsedNodes(x, y) = Dist(x, y)
  BY UsedCases
<1>2. 1 \in Blocks
  BY QueueAssumption DEF Blocks
<1>3. d \in Blocks /\ d = IF a + 1 <= ele_count THEN a + 1 ELSE a + 1 - (ele_count + 1)
  BY <1>2, AddPosInRing, AddPosCases
<1>5. \A x \in Blocks : Dist(d, x) < Dist(d, c) <=> Dist(a, x) < Dist(a, c) /\ x # a
  BY ONLY <1>3, QueueAssumption, a \in Blocks, c \in Blocks, a # c DEF Blocks
<1>6. Dist(a, a) < Dist(a, c)
  BY ONLY QueueAssumption, a \in Blocks, c \in Blocks, a # c DEF Blocks
<1> HIDE DEF Dist, d
<1> QED
  BY <1>1, <1>3, <1>5, <1>6 DEF Range, d

-----------------------------------------------------------------------------
(* What the parts of the invariant say of one message or one process *)

\* Positions and locals have the types that the ring gives them.
LEMMA InRing ==
    ASSUME TypeInv
    PROVE  /\ head_pos \in Blocks /\ tail_pos \in Blocks
           /\ \A b \in Blocks : data[b] \in 0 .. MaxPuts
           /\ \A p \in Writers : /\ wl[p].idx \in Blocks /\ wl[p].old_tail \in Blocks
                                 /\ wl[p].new_tail \in Blocks
                                 /\ wl[p].nr \in Nat /\ wl[p].k \in Nat
                                 /\ wpc[p] # "idle" => wl[p].len \in Lens
           /\ \A r \in Readers : /\ rl[r].old_head \in Blocks /\ rl[r].head \in Blocks
                                 /\ rpc[r] # "cas" \/ rl[r].nr >= 0 => rl[r].new_head \in Blocks
                                 /\ rl[r].nr \in Int /\ rl[r].k \in Nat
                                 /\ rl[r].len \in Int
BY DEF TypeInv, Inside, TypeOK, RingOK, WritersOK, ReadersOK, WLocals, RLocals, LocalsOK, WriterLocal

\* A message that was allocated has a length that is put.
LEMMA LenKnown ==
    ASSUME TypeInv, Counted, NEW i \in 1 .. nputs
    PROVE  /\ lenOf[i] \in Lens /\ i \in Ids
           /\ NumNeeded(lenOf[i]) \in Nat /\ NumNeeded(lenOf[i]) >= 1
<1>1. lenOf \in Seq(Lens) /\ nputs \in 0 .. MaxPuts
  BY DEF TypeInv, Inside, TypeOK, HistoryOK
<1>2. lenOf[i] \in Lens
  BY <1>1 DEF Counted
<1> QED
  BY <1>1, <1>2, NumNeededPositive, BoundAssumption DEF Ids

\* A whole message has a number and a first block.
LEMMA WholeMessage ==
    ASSUME TypeInv, Counted, NEW b \in Blocks, Whole(b)
    PROVE  /\ data[b] \in putDone /\ data[b] \in 1 .. nputs /\ data[b] \in Ids
           /\ lenOf[data[b]] \in Lens
           /\ Size(b) \in Nat /\ Size(b) >= 1
           /\ b \in Span(b)
<1>1. data[b] \in putDone /\ data[b] \in 1 .. nputs
  BY DEF Whole, Counted
<1>2. Size(b) \in Nat /\ Size(b) >= 1 /\ lenOf[data[b]] \in Lens /\ data[b] \in Ids
  BY <1>1, LenKnown DEF Size
<1>3. b \in Span(b)
  BY <1>2, QueueAssumption DEF Span, Stretch, Blocks
<1> QED
  BY <1>1, <1>2, <1>3

\* A reader whose head is the queue's is about to move it past a message.
LEMMA TakenLength ==
    ASSUME TypeInv, Counted, Marks, NEW r \in Readers, Current(r), Scans(r), rpc[r] = "cas"
    PROVE  /\ rl[r].len \in Lens
           /\ rl[r].nr \in Nat /\ rl[r].nr >= 1
           /\ rl[r].new_head \in Blocks
<1>1. rl[r].head \in Blocks /\ Marked(rl[r].head)
  BY InRing DEF Scans
<1>2. rl[r].len = lenOf[data[rl[r].head]] /\ rl[r].nr = Size(rl[r].head)
  BY DEF Scans, Size
<1>3. /\ rl[r].len \in Lens
      /\ rl[r].nr \in Nat /\ rl[r].nr >= 1
  BY <1>1, <1>2, WholeMessage DEF Marks
<1>4. rl[r].nr >= 0
  BY ONLY <1>3
<1> QED
  BY <1>3, <1>4, InRing

\* A message that starts in the used part lies in it.
LEMMA MarkedInUse ==
    ASSUME TypeInv, Counted, ReadersApart, Marks,
           NEW b \in Blocks, Marked(b), b \in InUse
    PROVE  Span(b) \subseteq InUse
BY WholeMessage DEF Marks, ReadersApart

\* No block that is being filled is marked.
LEMMA FilledUnmarked ==
    ASSUME TypeInv, Counted, Marks, NEW p \in Writers, NEW x \in Blocks, x \in Filled(p)
    PROVE  ~Marked(x)
BY WholeMessage DEF Marks

\* The blocks that a writer fills
LEMMA FilledBlocks ==
    ASSUME TypeInv, Counted, NEW p \in Writers, Asks(p), Fills(p), Writing(p)
    PROVE  /\ wl[p].nr >= 1 /\ wl[p].idx \in Filled(p)
           /\ wpc[p] = "skip" =>
                Filled(p) = Stretch(0, wl[p].nr) \cup {x \in Blocks : wl[p].old_tail <= x}
           /\ wpc[p] # "skip" => Filled(p) = Stretch(wl[p].idx, wl[p].nr)
           /\ Stretch(wl[p].idx, wl[p].nr) \subseteq Filled(p)
<1>1. /\ wl[p].idx \in 0 .. ele_count /\ wl[p].old_tail \in 0 .. ele_count
      /\ wl[p].nr \in Nat /\ wl[p].len \in Lens
  BY InRing DEF Writing, Blocks
<1>3. wl[p].nr >= 1
  BY <1>1, NumNeededPositive DEF Asks, Writing
<1>4. /\ wpc[p] = "skip" => wl[p].idx = 0 /\ wl[p].old_tail # 0
      /\ wpc[p] # "skip" => ~(wl[p].idx = 0 /\ wl[p].old_tail # 0)
  BY <1>1, <1>3 DEF Fills, Writing
<1>5. /\ wpc[p] = "skip" =>
           Handed(p) = Stretch(0, wl[p].nr) \cup {x \in Blocks : wl[p].old_tail <= x}
      /\ wpc[p] # "skip" => Handed(p) = Stretch(wl[p].idx, wl[p].nr)
  BY <1>4 DEF Handed, Stretch
<1>6. wl[p].idx \in Stretch(wl[p].idx, wl[p].nr)
  BY <1>1, <1>3, QueueAssumption DEF Stretch, Blocks
<1>7. Stretch(wl[p].idx, wl[p].nr) \subseteq Filled(p)
  BY <1>4, <1>5 DEF Filled
<1> QED
  BY <1>3, <1>5, <1>6, <1>7 DEF Filled

\* What a reader whose head is the queue's has before it
LEMMA ScanInUse ==
    ASSUME TypeInv, RingInv, ~aba, NEW r \in Readers, Current(r)
    PROVE  /\ rl[r].old_head = head_pos
           /\ UsedNodes(head_pos, rl[r].head) <= Used
           /\ Scanned(r) = Range(head_pos, rl[r].head)
           /\ Scanned(r) \subseteq InUse
<1>1. rl[r].old_head = head_pos /\ UsedNodes(rl[r].old_head, rl[r].head) <= Used
  BY DEF RingInv, ReaderRing, Current
<1>2. /\ UsedNodes(head_pos, rl[r].head) \in Nat /\ Used \in Nat
      /\ \A x \in Blocks : UsedNodes(head_pos, x) \in Nat
  BY InRing, UsedInt DEF Used
<1> QED
  BY <1>1, <1>2 DEF Scanned, InUse, Range, Used

-----------------------------------------------------------------------------
(* Steps that leave the ring alone *)

\* What is in the blocks is as it was.
LEMMA SameBlocks ==
    ASSUME UNCHANGED <<head_pos, tail_pos, start_token, datalen, data, lenOf, putDone>>
    PROVE  /\ InUse' = InUse
           /\ \A b \in Blocks : /\ Marked(b)' <=> Marked(b)
                                /\ Whole(b)' <=> Whole(b)
                                /\ Span(b)' = Span(b)
BY DEF InUse, Range, Marked, Whole, Span, Size, Stretch

\* What a writer does is as it was.
LEMMA SameWriter ==
    ASSUME NEW p \in Writers, wpc'[p] = wpc[p], wl'[p] = wl[p]
    PROVE  /\ Writing(p)' <=> Writing(p)
           /\ Filled(p)' = Filled(p)
BY DEF Writing, Filled, Handed

\* So is what a reader does.
LEMMA SameReader ==
    ASSUME NEW r \in Readers, rpc'[r] = rpc[r], rl'[r] = rl[r]
    PROVE  /\ Taking(r)' <=> Taking(r)
           /\ Released(r)' = Released(r)
           /\ Scanned(r)' = Scanned(r)
           /\ Carries(r)' <=> Carries(r)
BY DEF Taking, Released, Scanned, Carries, Range

\* A step of a writer before its exchange of the tail, or its death
LEMMA QuietWriter ==
    ASSUME TypeInv, MessageInv, NEW p \in Writers,
           UNCHANGED <<shm, rvars, nputs, lenOf, putDone, returned, conflict, gaveUp, aba>>,
           passed' \in {passed, passed \ {p}},
           \A q \in Writers \ {p} : wpc'[q] = wpc[q] /\ wl'[q] = wl[q],
           ~Writing(p)', Good => Asks(p)'
    PROVE  MessageInv'
<1> SUFFICES ASSUME Good' PROVE Layout' /\ Locals' /\ Order'
  BY DEF MessageInv
<1>0. Good /\ Layout /\ Locals /\ Order
  BY DEF Good, MessageInv
<1>u. UNCHANGED <<head_pos, tail_pos, start_token, datalen, data, rpc, rl>>
  BY DEF shm, rvars
<1>1. /\ InUse' = InUse
      /\ \A b \in Blocks : /\ Marked(b)' <=> Marked(b)
                           /\ Whole(b)' <=> Whole(b)
                           /\ Span(b)' = Span(b)
  BY <1>u, SameBlocks
<1>2. /\ \A q \in Writers \ {p} : (Writing(q)' <=> Writing(q)) /\ Filled(q)' = Filled(q)
      /\ Filled(p)' = {}
  <2>1. Filled(p)' = {}
    BY DEF Filled
  <2> QED
    BY <2>1, SameWriter
<1>3. \A r \in Readers : /\ Released(r)' = Released(r)
                         /\ Scanned(r)' = Scanned(r)
                         /\ Carries(r)' <=> Carries(r)
                         /\ TakenId(r)' = TakenId(r)
                         /\ Current(r)' <=> Current(r)
  <2>1. \A r \in Readers : r \in passed' <=> r \in passed
    BY QueueAssumption
  <2>2. \A r \in Readers : Current(r)' <=> Current(r)
    BY <2>1, <1>u DEF Current
  <2>3. \A r \in Readers : TakenId(r)' = TakenId(r)
    BY <1>u DEF TakenId
  <2> QED
    BY <2>2, <2>3, <1>u, SameReader
<1>4. Layout'
  <2>1. Counted'
    BY <1>0 DEF Layout, Counted
  <2>2. WritersApart'
    BY <1>0, <1>1, <1>2 DEF Layout, WritersApart
  <2>3. ReadersApart'
    BY <1>0, <1>1, <1>3 DEF Layout, ReadersApart
  <2>4. Marks'
    <3> SUFFICES ASSUME NEW b \in Blocks, Marked(b)'
                 PROVE  /\ Whole(b)'
                        /\ \/ Span(b)' \subseteq InUse'
                           \/ \E r \in Readers : Span(b)' \subseteq Released(r)'
                        /\ \A q \in Writers : Span(b)' \cap Filled(q)' = {}
      BY DEF Marks
    <3>1. /\ Whole(b)
          /\ \/ Span(b) \subseteq InUse
             \/ \E r \in Readers : Span(b) \subseteq Released(r)
          /\ \A q \in Writers : Span(b) \cap Filled(q) = {}
      BY <1>0, <1>1 DEF Layout, Marks
    <3> QED
      BY <3>1, <1>1, <1>2, <1>3
  <2> QED
    BY <2>1, <2>2, <2>3, <2>4 DEF Layout
<1>5. Locals'
  <2>1. ASSUME NEW q \in Writers PROVE Asks(q)' /\ Fills(q)'
    <3>1. CASE q = p
      <4>1. Fills(p)'
        BY DEF Fills, Writing
      <4> QED
        BY <3>1, <4>1, <1>0
    <3>2. CASE q # p
      <4>1. Asks(q) /\ Fills(q) /\ wpc'[q] = wpc[q] /\ wl'[q] = wl[q] /\ (q \in passed' <=> q \in passed)
        BY <3>2, <1>0 DEF Locals
      <4>2. Asks(q)'
        BY <4>1 DEF Asks
      <4>3. Fills(q)'
        BY <4>1, <1>u DEF Fills, Writing
      <4> QED
        BY <4>2, <4>3
    <3> QED
      BY <3>1, <3>2
  <2>2. ASSUME NEW r \in Readers PROVE Scans(r)' /\ Takes(r)'
    <3>1. Scans(r) /\ Takes(r) /\ rpc'[r] = rpc[r] /\ rl'[r] = rl[r]
      BY <1>0, <1>u DEF Locals
    <3>2. rl[r].head \in Blocks
      BY InRing
    <3>3. Scans(r)'
      <4> SUFFICES ASSUME Current(r)' PROVE Scans(r)'
        BY DEF Scans
      <4>1. Current(r)
        BY <1>3
      <4>2. \A b \in Scanned(r) : b \in Blocks
        BY DEF Scanned, Range
      <4>3. \A b \in Scanned(r)' : ~Marked(b)' /\ \A q \in Writers : b \notin Filled(q)'
        BY <3>1, <4>1, <4>2, <1>1, <1>2, <1>3 DEF Scans
      <4> QED
        BY <3>1, <3>2, <4>1, <4>3, <1>1, <1>u DEF Scans
    <3>4. Takes(r)'
      BY <3>1, <3>2, <1>1, <1>3, <1>u DEF Takes, Taking
    <3> QED
      BY <3>3, <3>4
  <2> QED
    BY <2>1, <2>2 DEF Locals
<1>6. Order'
  <2>1. \A b \in Blocks, i \in Ids : Holds(b, i)' => Holds(b, i)
    <3> SUFFICES ASSUME NEW b \in Blocks, NEW i \in Ids, Holds(b, i)' PROVE Holds(b, i)
      OBVIOUS
    <3>1. CASE Marked(b)' /\ b \in InUse' /\ data'[b] = i
      BY <3>1, <1>1, <1>u DEF Holds
    <3>2. CASE \E q \in Writers : Writing(q)' /\ wl'[q].idx = b /\ wl'[q].id = i
      <4> PICK q \in Writers : Writing(q)' /\ wl'[q].idx = b /\ wl'[q].id = i
        BY <3>2
      <4>1. q # p
        OBVIOUS
      <4> QED
        BY <4>1, <1>2 DEF Holds
    <3> QED
      BY <3>1, <3>2 DEF Holds
  <2>2. Ordered'
    BY <1>0, <2>1, <1>u DEF Order, Ordered
  <2>3. Older'
    BY <1>0, <2>1, <1>3 DEF Order, Older
  <2>4. Returns'
    <3>1. \A i \in putDone : Buf(i)' = Buf(i)
      BY DEF Buf
    <3> QED
      BY <1>0, <3>1, <1>3 DEF Order, Returns
  <2>5. InTurn'
    BY <1>0, <1>3 DEF Order, InTurn, Alone
  <2> QED
    BY <2>2, <2>3, <2>4, <2>5 DEF Order
<1> QED
  BY <1>4, <1>5, <1>6

\* A step of a reader before its exchange of the head
LEMMA QuietReader ==
    ASSUME TypeInv, MessageInv, NEW r \in Readers,
           UNCHANGED <<shm, wvars, nputs, lenOf, putDone, returned>>,
           passed' \in {passed, passed \ {r}}, Good' => Good,
           \A s \in Readers \ {r} : rpc'[s] = rpc[s] /\ rl'[s] = rl[s],
           ~Taking(r), ~Taking(r)', Good' => Scans(r)',
           rpc'[r] \in HoldsHead => rl'[r].k = 0 /\ rl'[r].buf = << >>
    PROVE  MessageInv'
<1> SUFFICES ASSUME Good' PROVE Layout' /\ Locals' /\ Order'
  BY DEF MessageInv
<1>0. Good /\ Layout /\ Locals /\ Order
  BY DEF MessageInv
<1>u. UNCHANGED <<head_pos, tail_pos, start_token, datalen, data, wpc, wl>>
  BY DEF shm, wvars
<1>1. /\ InUse' = InUse
      /\ \A b \in Blocks : /\ Marked(b)' <=> Marked(b)
                           /\ Whole(b)' <=> Whole(b)
                           /\ Span(b)' = Span(b)
  BY <1>u, SameBlocks
<1>2. \A q \in Writers : (Writing(q)' <=> Writing(q)) /\ Filled(q)' = Filled(q)
  BY <1>u, SameWriter
<1>3. \A s \in Readers : /\ Released(s)' = Released(s)
                         /\ Carries(s)' <=> Carries(s)
                         /\ Carries(s) => TakenId(s)' = TakenId(s)
  <2> SUFFICES ASSUME NEW s \in Readers
               PROVE  /\ Released(s)' = Released(s)
                      /\ Carries(s)' <=> Carries(s)
                      /\ Carries(s) => TakenId(s)' = TakenId(s)
    OBVIOUS
  <2>1. CASE s = r
    BY <2>1 DEF Released, Carries, Taking
  <2>2. CASE s # r
    <3>1. rpc'[s] = rpc[s] /\ rl'[s] = rl[s]
      BY <2>2
    <3>2. TakenId(s)' = TakenId(s)
      BY <3>1, <1>u DEF TakenId
    <3> QED
      BY <3>1, <3>2, SameReader
  <2> QED
    BY <2>1, <2>2
<1>4. Layout'
  <2>1. Counted'
    BY <1>0 DEF Layout, Counted
  <2>2. WritersApart'
    BY <1>0, <1>1, <1>2 DEF Layout, WritersApart
  <2>3. ReadersApart'
    BY <1>0, <1>1, <1>3 DEF Layout, ReadersApart
  <2>4. Marks'
    <3> SUFFICES ASSUME NEW b \in Blocks, Marked(b)'
                 PROVE  /\ Whole(b)'
                        /\ \/ Span(b)' \subseteq InUse'
                           \/ \E s \in Readers : Span(b)' \subseteq Released(s)'
                        /\ \A q \in Writers : Span(b)' \cap Filled(q)' = {}
      BY DEF Marks
    <3>1. /\ Whole(b)
          /\ \/ Span(b) \subseteq InUse
             \/ \E s \in Readers : Span(b) \subseteq Released(s)
          /\ \A q \in Writers : Span(b) \cap Filled(q) = {}
      BY <1>0, <1>1 DEF Layout, Marks
    <3> QED
      BY <3>1, <1>1, <1>2, <1>3
  <2> QED
    BY <2>1, <2>2, <2>3, <2>4 DEF Layout
<1>5. Locals'
  <2>1. ASSUME NEW q \in Writers PROVE Asks(q)' /\ Fills(q)'
    <3>1. Asks(q) /\ Fills(q) /\ wpc'[q] = wpc[q] /\ wl'[q] = wl[q] /\ (q \in passed' <=> q \in passed)
      BY <1>0, <1>u, QueueAssumption DEF Locals
    <3>2. Asks(q)'
      BY <3>1 DEF Asks
    <3>3. Fills(q)'
      BY <3>1, <1>u DEF Fills, Writing
    <3> QED
      BY <3>2, <3>3
  <2>2. ASSUME NEW s \in Readers PROVE Scans(s)' /\ Takes(s)'
    <3>1. CASE s = r
      <4>1. Takes(r)'
        BY DEF Takes, Taking
      <4> QED
        BY <3>1, <4>1
    <3>2. CASE s # r
      <4>1. Scans(s) /\ Takes(s) /\ rpc'[s] = rpc[s] /\ rl'[s] = rl[s]
        BY <3>2, <1>0 DEF Locals
      <4>2. rl[s].head \in Blocks
        BY InRing
      <4>3. Scans(s)'
        <5> SUFFICES ASSUME Current(s)' PROVE Scans(s)'
          BY DEF Scans
        <5>1. Current(s)
          BY <3>2, <4>1 DEF Current
        <5>2. Scanned(s)' = Scanned(s) /\ \A b \in Scanned(s) : b \in Blocks
          BY <4>1, SameReader DEF Scanned, Range
        <5>3. \A b \in Scanned(s)' : ~Marked(b)' /\ \A q \in Writers : b \notin Filled(q)'
          BY <4>1, <5>1, <5>2, <1>1, <1>2 DEF Scans
        <5> QED
          BY <4>1, <4>2, <5>1, <5>3, <1>1, <1>u DEF Scans
      <4>4. Takes(s)'
        BY <4>1, <4>2, <1>1, <1>3, <1>u DEF Takes, Taking
      <4> QED
        BY <4>3, <4>4
    <3> QED
      BY <3>1, <3>2
  <2> QED
    BY <2>1, <2>2 DEF Locals
<1>6. Order'
  <2>1. \A b \in Blocks, i \in Ids : Holds(b, i)' => Holds(b, i)
    BY <1>1, <1>2, <1>u DEF Holds
  <2>2. Ordered'
    BY <1>0, <2>1, <1>u DEF Order, Ordered
  <2>3. Older'
    BY <1>0, <2>1, <1>3 DEF Order, Older
  <2>4. Returns'
    <3>1. \A i \in putDone : Buf(i)' = Buf(i)
      BY DEF Buf
    <3> QED
      BY <1>0, <3>1, <1>3 DEF Order, Returns
  <2>5. InTurn'
    BY <1>0, <1>3 DEF Order, InTurn, Alone
  <2> QED
    BY <2>2, <2>3, <2>4, <2>5 DEF Order
<1> QED
  BY <1>4, <1>5, <1>6

-----------------------------------------------------------------------------
(* Writers fill the blocks they were handed *)

\* Two writers fill different messages.
LEMMA IdsDiffer ==
    ASSUME TypeInv, Counted, WritersApart, Ordered,
           \A p \in Writers : Asks(p) /\ Fills(p),
           NEW p \in Writers, NEW q \in Writers, p # q, Writing(p), Writing(q)
    PROVE  wl[p].id # wl[q].id
<1> SUFFICES ASSUME wl[p].id = wl[q].id PROVE FALSE
  OBVIOUS
<1> DEFINE b == wl[p].idx
           c == wl[q].idx
           i == wl[p].id
<1>1. b \in Blocks /\ c \in Blocks /\ b \in Filled(p) /\ c \in Filled(q)
  BY InRing, FilledBlocks
<1>2. b # c
  BY <1>1 DEF WritersApart
<1>3. i \in 1 .. nputs /\ i \in Ids
  BY LenKnown DEF Fills
<1>4. Holds(b, i) /\ Holds(c, i)
  BY DEF Holds
<1>5. head_pos \in Blocks
  BY InRing
<1>6. UsedNodes(head_pos, b) # UsedNodes(head_pos, c)
  BY <1>1, <1>2, <1>5, UsedInjective
<1>7. UsedNodes(head_pos, b) \in Nat /\ UsedNodes(head_pos, c) \in Nat
  BY <1>1, <1>5, UsedInt
<1>8. UsedNodes(head_pos, b) < UsedNodes(head_pos, c) \/ UsedNodes(head_pos, c) < UsedNodes(head_pos, b)
  BY <1>6, <1>7
<1>9. i < i
  BY <1>1, <1>3, <1>4, <1>8 DEF Ordered
<1> QED
  BY <1>3, <1>9

\* A step of sq_put after the exchange of the tail: it changes nothing but the
\* blocks it was handed, and marks one of them only when the message is whole
\* and the call returns.
LEMMA FillStep ==
    ASSUME TypeInv, MessageInv, NEW p \in Writers, Writing(p),
           NEW b0 \in Blocks, b0 = wl[p].idx,
           UNCHANGED <<head_pos, tail_pos, rvars, nputs, lenOf, returned>>,
           UNCHANGED <<conflict, gaveUp, passed, aba>>,
           \A q \in Writers \ {p} : wpc'[q] = wpc[q] /\ wl'[q] = wl[q],
           \A x \in Blocks : x \notin Filled(p) =>
               /\ start_token'[x] = start_token[x]
               /\ datalen'[x] = datalen[x] /\ data'[x] = data[x],
           Good => /\ Filled(p)' \subseteq Filled(p)
                   /\ Asks(p)' /\ Fills(p)'
                   /\ \/ /\ putDone' = putDone
                         /\ wl'[p].id = wl[p].id /\ wl'[p].idx = wl[p].idx
                         /\ \A x \in Filled(p) : ~Marked(x)'
                      \/ /\ putDone' = putDone \cup {wl[p].id}
                         /\ ~Writing(p)'
                         /\ Span(b0)' = Filled(p)
                         /\ Whole(b0)' /\ data'[b0] = wl[p].id
                         /\ \A x \in Filled(p) : Marked(x)' => x = b0
    PROVE  MessageInv'
<1> SUFFICES ASSUME Good' PROVE Layout' /\ Locals' /\ Order'
  BY DEF MessageInv
<1>0. Good /\ Layout /\ Locals /\ Order
  BY DEF Good, MessageInv
<1>u. UNCHANGED <<rpc, rl>>
  BY DEF rvars
<1> DEFINE i0 == wl[p].id
           Kept == /\ putDone' = putDone
                   /\ wl'[p].id = wl[p].id /\ wl'[p].idx = wl[p].idx
                   /\ \A x \in Filled(p) : ~Marked(x)'
           Ended == /\ putDone' = putDone \cup {i0}
                    /\ ~Writing(p)'
                    /\ Span(b0)' = Filled(p)
                    /\ Whole(b0)' /\ data'[b0] = i0
                    /\ \A x \in Filled(p) : Marked(x)' => x = b0
<1>a. Filled(p)' \subseteq Filled(p) /\ Asks(p)' /\ Fills(p)' /\ (Kept \/ Ended)
  BY <1>0
<1>b. /\ Asks(p) /\ Fills(p) /\ Counted /\ Marks /\ WritersApart /\ ReadersApart
      /\ i0 \in (1 .. nputs) \ putDone /\ b0 \in Blocks /\ b0 \in Filled(p)
  BY <1>0, InRing, FilledBlocks DEF Locals, Layout, Fills
<1> HIDE DEF Kept, Ended
<1>1. InUse' = InUse
  BY DEF InUse, Range
<1>c. \A x \in Blocks : x \notin Filled(p) => (Marked(x)' <=> Marked(x))
  BY DEF Marked
<1>d. \A x \in Blocks : x \in Filled(p) => ~Marked(x)
  BY <1>b, FilledUnmarked
<1>m. \A b \in Blocks : Marked(b) =>
         /\ Marked(b)' /\ Whole(b)' /\ Span(b)' = Span(b)
         /\ b \in Span(b) /\ data'[b] = data[b] /\ data[b] \in putDone
         /\ datalen'[b] = datalen[b]
  <2> SUFFICES ASSUME NEW b \in Blocks, Marked(b)
               PROVE  /\ Marked(b)' /\ Whole(b)' /\ Span(b)' = Span(b)
                      /\ b \in Span(b) /\ data'[b] = data[b] /\ data[b] \in putDone
                      /\ datalen'[b] = datalen[b]
    OBVIOUS
  <2>1. Whole(b) /\ Span(b) \cap Filled(p) = {}
    BY <1>b DEF Marks
  <2>2. b \in Span(b) /\ data[b] \in putDone
    BY <2>1, <1>b, WholeMessage
  <2>3. Marked(b)' /\ data'[b] = data[b] /\ datalen'[b] = datalen[b]
    BY <2>1, <2>2 DEF Marked
  <2>4. Size(b)' = Size(b) /\ Span(b)' = Span(b)
    BY <2>3 DEF Size, Span, Stretch
  <2>5. \A x \in Span(b) : x \in Blocks /\ x \notin Filled(p)
    BY <2>1 DEF Span, Stretch
  <2>6. \A x \in Span(b) : data'[x] = data[x]
    BY <2>5
  <2>7. putDone \subseteq putDone'
    BY <1>a DEF Kept, Ended
  <2>8. Whole(b)'
    BY <2>1, <2>2, <2>3, <2>4, <2>6, <2>7 DEF Whole
  <2> QED
    BY <2>2, <2>3, <2>4, <2>8
<1>n. \A b \in Blocks : Marked(b)' => Marked(b) \/ (b = b0 /\ Ended)
  BY <1>a, <1>c, <1>d DEF Kept, Ended
<1>2. \A q \in Writers \ {p} : (Writing(q)' <=> Writing(q)) /\ Filled(q)' = Filled(q)
  BY SameWriter
<1>3. \A r \in Readers : /\ Released(r)' = Released(r)
                         /\ Scanned(r)' = Scanned(r)
                         /\ Carries(r)' <=> Carries(r)
                         /\ Current(r)' <=> Current(r)
  <2>1. \A r \in Readers : Current(r)' <=> Current(r)
    BY <1>u DEF Current
  <2> QED
    BY <2>1, <1>u, SameReader
<1>t. \A r \in Readers : Carries(r) => TakenId(r)' = TakenId(r)
  <2> SUFFICES ASSUME NEW r \in Readers, Carries(r) PROVE TakenId(r)' = TakenId(r)
    OBVIOUS
  <2>1. CASE rpc[r] = "copy"
    <3>1. Marked(rl[r].head) /\ rl[r].head \in Blocks
      BY <2>1, <1>0, InRing DEF Locals, Takes
    <3> QED
      BY <2>1, <3>1, <1>m, <1>u DEF TakenId
  <2>2. CASE rpc[r] # "copy"
    BY <2>2, <1>u DEF TakenId
  <2> QED
    BY <2>1, <2>2
<1>4. Layout'
  <2>1. Counted'
    BY <1>a, <1>b DEF Counted, Kept, Ended
  <2>2. WritersApart'
    <3>1. \A q \in Writers : Filled(q)' \subseteq Filled(q)
      BY <1>a, <1>2
    <3> QED
      BY <1>b, <3>1, <1>1 DEF WritersApart
  <2>3. ReadersApart'
    BY <1>b, <1>1, <1>3 DEF ReadersApart
  <2>4. Marks'
    <3> SUFFICES ASSUME NEW b \in Blocks, Marked(b)'
                 PROVE  /\ Whole(b)'
                        /\ \/ Span(b)' \subseteq InUse'
                           \/ \E r \in Readers : Span(b)' \subseteq Released(r)'
                        /\ \A q \in Writers : Span(b)' \cap Filled(q)' = {}
      BY DEF Marks
    <3>1. CASE Marked(b)
      <4>1. /\ \/ Span(b) \subseteq InUse
               \/ \E r \in Readers : Span(b) \subseteq Released(r)
            /\ \A q \in Writers : Span(b) \cap Filled(q) = {}
        BY <3>1, <1>b DEF Marks
      <4>2. \A q \in Writers : Filled(q)' \subseteq Filled(q)
        BY <1>a, <1>2
      <4> QED
        BY <3>1, <4>1, <4>2, <1>m, <1>1, <1>3
    <3>2. CASE b = b0 /\ Ended
      <4>1. Whole(b)' /\ Span(b)' = Filled(p) /\ Filled(p) \subseteq InUse
        BY <3>2, <1>b DEF Ended, WritersApart
      <4>2. Filled(p)' = {}
        BY <3>2 DEF Ended, Filled
      <4>3. \A q \in Writers : Filled(p) \cap Filled(q)' = {}
        BY <4>2, <1>b, <1>2 DEF WritersApart
      <4> QED
        BY <4>1, <4>3, <1>1
    <3> QED
      BY <3>1, <3>2, <1>n
  <2> QED
    BY <2>1, <2>2, <2>3, <2>4 DEF Layout
<1>5. Locals'
  <2>1. ASSUME NEW q \in Writers PROVE Asks(q)' /\ Fills(q)'
    <3>1. CASE q = p
      BY <3>1, <1>a
    <3>2. CASE q # p
      <4>1. Asks(q) /\ Fills(q) /\ wpc'[q] = wpc[q] /\ wl'[q] = wl[q]
        BY <3>2, <1>0 DEF Locals
      <4>2. Asks(q)'
        BY <4>1 DEF Asks
      <4>3. Writing(q) => wl[q].id \notin putDone'
        <5>1. Writing(q) => wl[q].id # i0
          BY <3>2, <1>0, <1>b, IdsDiffer DEF Order, Locals
        <5>2. Writing(q) => wl[q].id \notin putDone
          BY <4>1 DEF Fills
        <5> QED
          BY <5>1, <5>2, <1>a DEF Kept, Ended
      <4>4. Writing(q) => \A x \in Filled(q) : x \in Blocks /\ datalen'[x] = datalen[x] /\ data'[x] = data[x]
        <5>1. Filled(q) \subseteq Blocks
          BY <1>b DEF WritersApart, InUse, Range
        <5> QED
          BY <3>2, <5>1, <1>b DEF WritersApart
      <4>5. Writing(q) => wl[q].idx \in Filled(q) /\ Stretch(wl[q].idx, wl[q].nr) \subseteq Filled(q)
        BY <4>1, <1>b, FilledBlocks
      <4>6. wl[q].k \in Nat /\ wl[q].nr \in Nat /\ wl[q].idx \in Int
        BY InRing DEF Blocks
      <4>7. wpc[q] \in {"copy", "token"} => wl[q].k <= wl[q].nr
        BY <4>1, <4>6 DEF Fills
      <4>8. wpc[q] \in {"copy", "token"} => Stretch(wl[q].idx, wl[q].k) \subseteq Stretch(wl[q].idx, wl[q].nr)
        BY <4>6, <4>7 DEF Stretch, Blocks
      <4>9. Writing(q)' <=> Writing(q)
        BY <4>1 DEF Writing
      <4>10. /\ Writing(q) =>
                  /\ wl[q].id \in 1 .. nputs
                  /\ lenOf[wl[q].id] = wl[q].len
                  /\ wl[q].idx + wl[q].nr <= ele_count
             /\ wpc[q] = "skip" =>
                  /\ wl[q].idx = 0 /\ wl[q].nr < wl[q].old_tail /\ wl[q].k = 0
             /\ wpc[q] \in {"copy", "token"} =>
                  /\ wl[q].idx = 0 => wl[q].old_tail = 0
                  /\ IF wpc[q] = "copy" THEN wl[q].k < wl[q].nr ELSE wl[q].k = wl[q].nr
        BY <4>1 DEF Fills
      <4>11. wpc[q] \in {"copy", "token"} =>
                  /\ wl[q].k > 0 => datalen'[wl[q].idx] = wl[q].len
                  /\ \A x \in Stretch(wl[q].idx, wl[q].k) : data'[x] = wl[q].id
        BY <4>1, <4>4, <4>5, <4>8 DEF Fills, Writing
      <4>12. Fills(q)'
        BY <4>1, <4>3, <4>9, <4>10, <4>11 DEF Fills, Stretch
      <4> QED
        BY <4>2, <4>12
    <3> QED
      BY <3>1, <3>2
  <2>2. ASSUME NEW r \in Readers PROVE Scans(r)' /\ Takes(r)'
    <3>1. Scans(r) /\ Takes(r) /\ rpc'[r] = rpc[r] /\ rl'[r] = rl[r]
      BY <1>0, <1>u DEF Locals
    <3>2. rl[r].head \in Blocks
      BY InRing
    <3>3. Scans(r)'
      <4> SUFFICES ASSUME Current(r)' PROVE Scans(r)'
        BY DEF Scans
      <4>1. Current(r)
        BY <1>3
      <4>2. \A b \in Scanned(r) : b \in Blocks
        BY DEF Scanned, Range
      <4>3. \A b \in Scanned(r)' : ~Marked(b)'
        BY <3>1, <4>1, <4>2, <1>3, <1>b, <1>n DEF Scans
      <4>4. \A b \in Scanned(r)' : \A q \in Writers : b \notin Filled(q)'
        BY <3>1, <4>1, <1>a, <1>2, <1>3 DEF Scans
      <4> QED
        BY <3>1, <3>2, <4>1, <4>3, <4>4, <1>1, <1>m DEF Scans
    <3>4. Takes(r)'
      <4>1. putDone \subseteq putDone'
        BY <1>a DEF Kept, Ended
      <4>2. CASE rpc[r] = "copy"
        <5>1. /\ Marked(rl[r].head) /\ Span(rl[r].head) \subseteq Released(r)
              /\ rl[r].len = lenOf[data[rl[r].head]] /\ rl[r].nr = NumNeeded(rl[r].len)
              /\ rl[r].k < rl[r].nr
              /\ rl[r].buf = [j \in 1 .. rl[r].k |-> data[rl[r].head]]
          BY <3>1, <4>2 DEF Takes, Taking
        <5>2. /\ Marked(rl[r].head)' /\ Span(rl[r].head)' \subseteq Released(r)'
              /\ data'[rl'[r].head] = data[rl[r].head]
          BY <3>1, <3>2, <5>1, <1>m, <1>3 DEF Marked, Span, Size, Stretch
        <5> QED
          BY <3>1, <4>2, <5>1, <5>2 DEF Takes, Taking
      <4>3. CASE rpc[r] # "copy"
        BY <3>1, <4>1, <4>3 DEF Takes, Taking
      <4> QED
        BY <4>2, <4>3
    <3> QED
      BY <3>3, <3>4
  <2> QED
    BY <2>1, <2>2 DEF Locals
<1>6. Order'
  <2>1. \A b \in Blocks, i \in Ids : Holds(b, i)' => Holds(b, i)
    <3> SUFFICES ASSUME NEW b \in Blocks, NEW i \in Ids, Holds(b, i)' PROVE Holds(b, i)
      OBVIOUS
    <3>1. CASE Marked(b)' /\ b \in InUse' /\ data'[b] = i
      <4>1. CASE Marked(b)
        BY <3>1, <4>1, <1>m, <1>1 DEF Holds
      <4>2. CASE b = b0 /\ Ended
        BY <3>1, <4>2 DEF Holds, Ended
      <4> QED
        BY <3>1, <4>1, <4>2, <1>n
    <3>2. CASE \E q \in Writers : Writing(q)' /\ wl'[q].idx = b /\ wl'[q].id = i
      <4> PICK q \in Writers : Writing(q)' /\ wl'[q].idx = b /\ wl'[q].id = i
        BY <3>2
      <4>1. CASE q # p
        BY <4>1, <1>2 DEF Holds
      <4>2. CASE q = p
        BY <4>2, <1>a DEF Holds, Kept, Ended
      <4> QED
        BY <4>1, <4>2
    <3> QED
      BY <3>1, <3>2 DEF Holds
  <2>2. Ordered'
    BY <1>0, <2>1 DEF Order, Ordered
  <2>3. Older'
    BY <1>0, <2>1, <1>3, <1>t DEF Order, Older
  <2>4. Returns'
    <3>1. \A i \in putDone : Buf(i)' = Buf(i)
      BY DEF Buf
    <3>2. putDone \subseteq putDone'
      BY <1>a DEF Kept, Ended
    <3> QED
      BY <1>0, <3>1, <3>2, <1>3, <1>t DEF Order, Returns
  <2>5. InTurn'
    BY <1>0, <1>3, <1>t DEF Order, InTurn, Alone
  <2> QED
    BY <2>2, <2>3, <2>4, <2>5 DEF Order
<1> QED
  BY <1>4, <1>5, <1>6

-----------------------------------------------------------------------------
(* The exchange of the tail *)

\* What a reader carries is a message that was put, ...
LEMMA TakenKnown ==
    ASSUME TypeInv, Counted, Marks, NEW r \in Readers, Takes(r), Carries(r)
    PROVE  TakenId(r) \in putDone /\ TakenId(r) \in 1 .. nputs
<1>1. CASE rpc[r] = "copy"
  <2>1. Marked(rl[r].head) /\ rl[r].head \in Blocks
    BY <1>1, InRing DEF Takes
  <2>2. data[rl[r].head] \in putDone
    BY <2>1, WholeMessage DEF Marks
  <2> QED
    BY <1>1, <2>2 DEF TakenId, Counted
<1>2. CASE rpc[r] # "copy"
  BY <1>2 DEF TakenId, Counted, Takes, Carries
<1> QED
  BY <1>1, <1>2

\* ... and so is what was returned.
LEMMA ReturnedKnown ==
    ASSUME TypeInv, Counted, Returns, NEW k \in DOMAIN returned
    PROVE  /\ returned[k].buf[1] \in putDone /\ returned[k].buf[1] \in 1 .. nputs
           /\ returned[k] = Buf(returned[k].buf[1])
<1>1. PICK i \in putDone : returned[k] = Buf(i)
  BY DEF Returns
<1>2. i \in 1 .. nputs
  BY DEF Counted
<1>3. 1 \in 1 .. NumNeeded(lenOf[i])
  BY <1>2, LenKnown
<1>4. Buf(i).buf[1] = i
  BY <1>3 DEF Buf
<1> QED
  BY <1>1, <1>2, <1>4

\* A writer asks for the blocks from the tail that it loaded up to its new one.
LEMMA HandedRange ==
    ASSUME TypeInv, NEW p \in Writers, wpc[p] = "cas", p \notin passed, Asks(p)
    PROVE  /\ Handed(p) = Range(wl[p].old_tail, wl[p].new_tail)
           /\ wl[p].nr >= 1
           /\ wl[p].idx + wl[p].nr <= ele_count
           /\ wl[p].idx \in Handed(p)
           /\ wl[p].idx = 0 /\ wl[p].old_tail # 0 => wl[p].nr < wl[p].old_tail
<1> DEFINE t == wl[p].old_tail
           n == wl[p].new_tail
           v == wl[p].nr
           Dist(x, y) == IF x <= y THEN y - x ELSE ele_count + 1 + y - x
<1>1. t \in Blocks /\ n \in Blocks /\ v \in Nat /\ wl[p].len \in Lens
  BY InRing
<1>2. v >= 1
  <2>1. \A l \in Lens : l \in Nat /\ l > 0
    BY QueueAssumption
  <2> QED
    BY <1>1, <2>1, NumNeededPositive DEF Asks
<1>3. \/ wl[p].idx = t /\ n = wl[p].idx + v
      \/ wl[p].idx = 0 /\ n = v /\ v < t
  BY DEF Asks
<1>4. \A x, y \in Blocks : UsedNodes(x, y) = Dist(x, y)
  BY UsedCases
<1>5. CASE wl[p].idx = t /\ n = wl[p].idx + v
  <2>1. Handed(p) = {b \in Blocks : t <= b /\ b < t + v}
    BY <1>5 DEF Handed
  <2>2. \A x \in Blocks : Dist(t, x) < Dist(t, n) <=> t <= x /\ x < t + v
    BY ONLY <1>1, <1>2, <1>5, QueueAssumption DEF Blocks
  <2> HIDE DEF Dist, t, n, v
  <2>3. Handed(p) = Range(t, n)
    BY <2>1, <2>2, <1>1, <1>4 DEF Range
  <2>4. wl[p].idx + v <= ele_count /\ t \in Handed(p)
    BY <1>1, <1>2, <1>5, <2>1, QueueAssumption DEF Blocks
  <2> QED
    BY <2>3, <2>4, <1>2, <1>5 DEF t, n, v
<1>6. CASE wl[p].idx = 0 /\ n = v /\ v < t
  <2>1. Handed(p) = {b \in Blocks : (0 <= b /\ b < 0 + v) \/ t <= b}
    BY <1>6, <1>1 DEF Handed, Blocks
  <2>2. \A x \in Blocks : Dist(t, x) < Dist(t, n) <=> (0 <= x /\ x < 0 + v) \/ t <= x
    BY ONLY <1>1, <1>2, <1>6, QueueAssumption DEF Blocks
  <2> HIDE DEF Dist, t, n, v
  <2>3. Handed(p) = Range(t, n)
    BY <2>1, <2>2, <1>1, <1>4 DEF Range
  <2>4. wl[p].idx + v <= ele_count /\ 0 \in Handed(p)
    BY <1>1, <1>2, <1>6, <2>1, QueueAssumption DEF Blocks
  <2> QED
    BY <2>3, <2>4, <1>2, <1>6 DEF t, n, v
<1> QED
  BY <1>3, <1>5, <1>6

\* CAS32(&queue->tail_pos, old_tail, new_tail) succeeds: the blocks it hands out
\* were free, and the new message comes after all the others.
LEMMA TakeTail ==
    ASSUME TypeInv, RingInv, MessageInv, NEW p \in Writers, wpc[p] = "cas",
           MoveTail(p),
           wpc' = [wpc EXCEPT ![p] =
                IF wl[p].idx = 0 /\ wl[p].old_tail # 0 THEN "skip" ELSE "copy"],
           wl' = [wl EXCEPT ![p].id = nputs + 1, ![p].k = 0],
           nputs' = nputs + 1, lenOf' = Append(lenOf, wl[p].len),
           conflict' = (conflict \/ \E r \in Readers : Busy(r) \cap Handed(p) # {}),
           UNCHANGED <<head_pos, start_token, datalen, data>>,
           UNCHANGED <<putDone, returned, gaveUp, rvars>>
    PROVE  MessageInv'
<1> SUFFICES ASSUME Good' PROVE Layout' /\ Locals' /\ Order'
  BY DEF MessageInv
<1>0. Good /\ Layout /\ Locals /\ Order /\ p \notin passed
  BY DEF Good, MessageInv, MoveTail
<1>u. UNCHANGED <<rpc, rl>>
  BY DEF rvars
<1> DEFINE H == Handed(p)
           new == nputs + 1
           b0 == wl[p].idx
<1>b. /\ Asks(p) /\ Counted /\ Marks /\ WritersApart /\ ReadersApart
      /\ b0 \in Blocks /\ head_pos \in Blocks /\ tail_pos \in Blocks
      /\ wl[p].new_tail \in Blocks /\ wl[p].old_tail \in Blocks
      /\ wl[p].nr \in Nat /\ wl[p].len \in Lens
      /\ wl[p] \in WLocals
  BY <1>0, InRing DEF Locals, Layout, TypeInv, Inside, TypeOK, WritersOK
<1>p. /\ wl'[p].id = new /\ wl'[p].k = 0
      /\ wl'[p].idx = wl[p].idx /\ wl'[p].nr = wl[p].nr /\ wl'[p].len = wl[p].len
      /\ wl'[p].old_tail = wl[p].old_tail
      /\ wpc'[p] = IF b0 = 0 /\ wl[p].old_tail # 0 THEN "skip" ELSE "copy"
      /\ \A q \in Writers \ {p} : wpc'[q] = wpc[q] /\ wl'[q] = wl[q]
  BY <1>b DEF WLocals, TypeInv, Inside, TypeOK, WritersOK
<1>h. /\ H = Range(tail_pos, tail_pos') /\ tail_pos = wl[p].old_tail
      /\ tail_pos' = wl[p].new_tail
      /\ wl[p].nr >= 1 /\ b0 + wl[p].nr <= ele_count
      /\ b0 \in H
      /\ b0 = 0 /\ wl[p].old_tail # 0 => wl[p].nr < wl[p].old_tail
  BY <1>0, <1>b, HandedRange DEF MoveTail
<1> HIDE DEF H
<1>r. Used + UsedNodes(tail_pos, tail_pos') <= ele_count
  BY <1>0, <1>h DEF RingInv, WriterRing, Good
<1>s. /\ InUse' = InUse \cup H
      /\ InUse \cap H = {}
      /\ \A x \in H : UsedNodes(head_pos, x) = Used + UsedNodes(tail_pos, x)
  BY <1>b, <1>h, <1>r, RangeSplit DEF InUse, Used, Range
<1>f. /\ Filled(p)' = H /\ Filled(p) = {} /\ Writing(p)' /\ ~Writing(p)
      /\ \A q \in Writers \ {p} : (Writing(q)' <=> Writing(q)) /\ Filled(q)' = Filled(q)
  <2>1. Handed(p)' = H
    BY <1>p DEF Handed, H
  <2>2. Writing(p)' /\ ~Writing(p)
    BY <1>p DEF Writing
  <2> QED
    BY <2>1, <2>2, <1>p, SameWriter DEF Filled
<1>g. \A r \in Readers : Busy(r) \cap H = {}
  BY DEF Good, H
<1>3. \A r \in Readers : /\ Released(r)' = Released(r)
                         /\ Scanned(r)' = Scanned(r)
                         /\ Carries(r)' <=> Carries(r)
                         /\ Current(r)' => Current(r)
                         /\ TakenId(r)' = TakenId(r)
                         /\ Released(r) \cap H = {}
  <2> SUFFICES ASSUME NEW r \in Readers
               PROVE  /\ Released(r)' = Released(r)
                      /\ Scanned(r)' = Scanned(r)
                      /\ Carries(r)' <=> Carries(r)
                      /\ Current(r)' => Current(r)
                      /\ TakenId(r)' = TakenId(r)
                      /\ Released(r) \cap H = {}
    OBVIOUS
  <2>1. Current(r)' => Current(r)
    BY <1>u DEF Current, MoveTail
  <2>2. TakenId(r)' = TakenId(r)
    BY <1>u DEF TakenId
  <2>3. Released(r) \subseteq Busy(r)
    BY DEF Released, Taking, Busy
  <2>4. Released(r) \cap H = {}
    BY <2>3, <1>g
  <2> QED
    BY <2>1, <2>2, <2>4, <1>u, SameReader
<1>l. /\ Len(lenOf') = nputs' /\ lenOf'[new] = wl[p].len
      /\ \A i \in 1 .. nputs : lenOf'[i] = lenOf[i]
      /\ nputs \in Nat
  <2>1. lenOf \in Seq(Lens) /\ Len(lenOf) = nputs
    BY <1>b DEF Counted, TypeInv, Inside, TypeOK, HistoryOK
  <2> QED
    BY <2>1, <1>b
<1>m. \A b \in Blocks : Marked(b) =>
         /\ Whole(b)' /\ Span(b)' = Span(b)
         /\ data[b] \in 1 .. nputs /\ b \in Span(b)
         /\ Span(b) \cap H = {}
  <2> SUFFICES ASSUME NEW b \in Blocks, Marked(b)
               PROVE  /\ Whole(b)' /\ Span(b)' = Span(b)
                      /\ data[b] \in 1 .. nputs /\ b \in Span(b)
                      /\ Span(b) \cap H = {}
    OBVIOUS
  <2>1. /\ Whole(b)
        /\ \/ Span(b) \subseteq InUse
           \/ \E r \in Readers : Span(b) \subseteq Released(r)
    BY <1>b DEF Marks
  <2>2. b \in Span(b) /\ data[b] \in putDone /\ data[b] \in 1 .. nputs
    BY <2>1, <1>b, WholeMessage
  <2>3. Size(b)' = Size(b) /\ Span(b)' = Span(b)
    BY <2>2, <1>l DEF Size, Span, Stretch
  <2>4. Whole(b)'
    BY <2>1, <2>2, <2>3, <1>l DEF Whole
  <2>5. Span(b) \cap H = {}
    BY <2>1, <1>s, <1>3
  <2> QED
    BY <2>2, <2>3, <2>4, <2>5
<1>n. \A b \in Blocks : Marked(b)' <=> Marked(b)
  BY DEF Marked
<1>k. /\ \A r \in Readers : Carries(r) => TakenId(r) \in 1 .. nputs
      /\ \A k \in DOMAIN returned : returned[k].buf[1] \in 1 .. nputs
  BY <1>0, <1>b, TakenKnown, ReturnedKnown DEF Locals, Order
<1>4. Layout'
  <2>1. Counted'
    BY <1>b, <1>l DEF Counted
  <2>2. WritersApart'
    <3>1. \A q \in Writers : Filled(q)' \subseteq InUse'
      BY <1>b, <1>f, <1>s DEF WritersApart
    <3>2. \A q \in Writers \ {p} : Filled(q) \cap H = {}
      BY <1>b, <1>s DEF WritersApart
    <3>3. \A q, s \in Writers : q # s => Filled(q)' \cap Filled(s)' = {}
      BY <1>b, <1>f, <3>2 DEF WritersApart
    <3> QED
      BY <3>1, <3>3 DEF WritersApart
  <2>3. ReadersApart'
    BY <1>b, <1>s, <1>3 DEF ReadersApart
  <2>4. Marks'
    <3> SUFFICES ASSUME NEW b \in Blocks, Marked(b)'
                 PROVE  /\ Whole(b)'
                        /\ \/ Span(b)' \subseteq InUse'
                           \/ \E r \in Readers : Span(b)' \subseteq Released(r)'
                        /\ \A q \in Writers : Span(b)' \cap Filled(q)' = {}
      BY DEF Marks
    <3>1. /\ Marked(b) /\ Whole(b)
          /\ \/ Span(b) \subseteq InUse
             \/ \E r \in Readers : Span(b) \subseteq Released(r)
          /\ \A q \in Writers : Span(b) \cap Filled(q) = {}
      BY <1>b, <1>n DEF Marks
    <3>2. /\ Whole(b)' /\ Span(b)' = Span(b) /\ Span(b) \cap H = {}
      BY <3>1, <1>m
    <3>3. \A q \in Writers : Span(b) \cap Filled(q)' = {}
      BY <3>1, <3>2, <1>f
    <3> QED
      BY <3>1, <3>2, <3>3, <1>s, <1>3
  <2> QED
    BY <2>1, <2>2, <2>3, <2>4 DEF Layout
<1>5. Locals'
  <2>1. ASSUME NEW q \in Writers PROVE Asks(q)' /\ Fills(q)'
    <3>1. CASE q = p
      <4>1. Asks(p)'
        BY <1>p, <1>b DEF Asks
      <4>2. new \in (1 .. nputs') \ putDone'
        BY <1>b, <1>l DEF Counted
      <4>6. /\ wl'[p].id \in (1 .. nputs') \ putDone'
            /\ lenOf'[wl'[p].id] = wl'[p].len
            /\ wl'[p].idx + wl'[p].nr <= ele_count
        <5>1. wl'[p].id = new /\ wl'[p].len = wl[p].len /\ wl'[p].idx = b0 /\ wl'[p].nr = wl[p].nr
          BY <1>p
        <5>2. lenOf'[new] = wl[p].len /\ b0 + wl[p].nr <= ele_count
          BY <1>h, <1>l
        <5> HIDE DEF new, b0
        <5> QED
          BY ONLY <4>2, <5>1, <5>2
      <4>3. \A x \in Stretch(b0, 0) : FALSE
        BY <1>b, QueueAssumption, SMTT(30) DEF Stretch, Blocks
      <4>4. ASSUME wpc'[p] = "skip" PROVE Fills(p)'
        <5>1. b0 = 0 /\ wl[p].old_tail # 0
          BY <4>4, <1>p
        <5>2. wl'[p].idx = 0 /\ wl'[p].nr < wl'[p].old_tail /\ wl'[p].k = 0
          BY <5>1, <1>p, <1>h
        <5> QED
          BY ONLY <4>4, <4>6, <5>2 DEF Fills, Writing
      <4>5. ASSUME wpc'[p] = "copy" PROVE Fills(p)'
        <5>1. b0 = 0 => wl[p].old_tail = 0
          BY <4>5, <1>p
        <5>2. Stretch(wl'[p].idx, wl'[p].k) = {}
          BY <4>3, <1>p
        <5>3. 0 < wl'[p].nr
          BY <1>p, <1>h, <1>b
        <5>4. (wl'[p].idx = 0 => wl'[p].old_tail = 0) /\ wl'[p].k = 0
          BY <5>1, <1>p
        <5> QED
          BY ONLY <4>5, <4>6, <5>2, <5>3, <5>4 DEF Fills, Writing, Stretch
      <4> QED
        BY <3>1, <4>1, <4>4, <4>5, <1>p
    <3>2. CASE q # p
      <4>1. Asks(q) /\ Fills(q) /\ wpc'[q] = wpc[q] /\ wl'[q] = wl[q]
        BY <3>2, <1>0, <1>p DEF Locals
      <4>2. Asks(q)'
        BY <4>1 DEF Asks, MoveTail
      <4>3. Writing(q) => wl[q].id \in 1 .. nputs' /\ lenOf'[wl[q].id] = lenOf[wl[q].id]
        BY <4>1, <1>l DEF Fills
      <4>4. Writing(q) =>
              /\ wl[q].id \notin putDone' /\ lenOf'[wl[q].id] = wl[q].len
              /\ wl[q].idx + wl[q].nr <= ele_count
        BY <4>1, <4>3 DEF Fills
      <4>5. /\ wpc[q] = "skip" =>
                 /\ wl[q].idx = 0 /\ wl[q].nr < wl[q].old_tail /\ wl[q].k = 0
            /\ wpc[q] \in {"copy", "token"} =>
                 /\ wl[q].idx = 0 => wl[q].old_tail = 0
                 /\ IF wpc[q] = "copy" THEN wl[q].k < wl[q].nr ELSE wl[q].k = wl[q].nr
                 /\ wl[q].k > 0 => datalen[wl[q].idx] = wl[q].len
                 /\ \A x \in Stretch(wl[q].idx, wl[q].k) : data[x] = wl[q].id
        BY <4>1 DEF Fills
      <4>6. Writing(q)' <=> Writing(q)
        BY <4>1 DEF Writing
      <4>7. Fills(q)'
        BY <4>1, <4>3, <4>4, <4>5, <4>6 DEF Fills, Stretch
      <4> QED
        BY <4>2, <4>7
    <3> QED
      BY <3>1, <3>2
  <2>2. ASSUME NEW r \in Readers PROVE Scans(r)' /\ Takes(r)'
    <3>1. Scans(r) /\ Takes(r) /\ rpc'[r] = rpc[r] /\ rl'[r] = rl[r]
      BY <1>0, <1>u DEF Locals
    <3>2. rl[r].head \in Blocks
      BY InRing
    <3>3. Scans(r)'
      <4> SUFFICES ASSUME Current(r)' PROVE Scans(r)'
        BY DEF Scans
      <4>1. Current(r)
        BY <1>3
      <4>2. \A b \in Scanned(r) : b \in Blocks /\ b \notin H
        BY <4>1, <1>0, <1>s, ScanInUse DEF Scanned, Range, Good
      <4>3. \A b \in Scanned(r)' : ~Marked(b)' /\ \A q \in Writers : b \notin Filled(q)'
        BY <3>1, <4>1, <4>2, <1>f, <1>3, <1>n DEF Scans
      <4>4. rpc[r] \in {"len", "fits", "cas"} =>
              /\ Marked(rl[r].head) /\ Span(rl[r].head) \subseteq InUse
              /\ lenOf'[data[rl[r].head]] = lenOf[data[rl[r].head]]
        BY <3>1, <3>2, <4>1, <1>m, <1>l DEF Scans
      <4> QED
        BY <3>1, <3>2, <4>1, <4>3, <4>4, <1>s, <1>m, <1>n DEF Scans
    <3>4. Takes(r)'
      <4>1. CASE rpc[r] = "copy"
        <5>1. Marked(rl[r].head) /\ lenOf'[data[rl[r].head]] = lenOf[data[rl[r].head]]
          BY <3>1, <3>2, <4>1, <1>m, <1>l DEF Takes, Taking
        <5> QED
          BY <3>1, <3>2, <4>1, <5>1, <1>m, <1>n, <1>3 DEF Takes, Taking
      <4>2. CASE rpc[r] = "clear" /\ rl[r].len # 0
        <5>1. lenOf'[rl[r].buf[1]] = lenOf[rl[r].buf[1]]
          BY <3>1, <4>2, <1>l, <1>b DEF Takes, Counted
        <5> QED
          BY <3>1, <4>2, <5>1 DEF Takes, Taking
      <4>3. CASE ~(rpc[r] = "copy" \/ (rpc[r] = "clear" /\ rl[r].len # 0))
        BY <3>1, <4>3 DEF Takes, Taking
      <4> QED
        BY <4>1, <4>2, <4>3
    <3> QED
      BY <3>3, <3>4
  <2> QED
    BY <2>1, <2>2 DEF Locals
<1>6. Order'
  <2>1. \A b \in Blocks, i \in Ids : Holds(b, i)' => Holds(b, i) \/ (b = b0 /\ i = new)
    <3> SUFFICES ASSUME NEW b \in Blocks, NEW i \in Ids, Holds(b, i)'
                 PROVE  Holds(b, i) \/ (b = b0 /\ i = new)
      OBVIOUS
    <3>1. CASE Marked(b)' /\ b \in InUse' /\ data'[b] = i
      <4>1. Marked(b) /\ b \notin H
        BY <3>1, <1>m, <1>n
      <4> QED
        BY <3>1, <4>1, <1>s DEF Holds
    <3>2. CASE \E q \in Writers : Writing(q)' /\ wl'[q].idx = b /\ wl'[q].id = i
      <4> PICK q \in Writers : Writing(q)' /\ wl'[q].idx = b /\ wl'[q].id = i
        BY <3>2
      <4>1. CASE q # p
        BY <4>1, <1>f, <1>p DEF Holds
      <4>2. CASE q = p
        BY <4>2, <1>p
      <4> QED
        BY <4>1, <4>2
    <3> QED
      BY <3>1, <3>2 DEF Holds
  <2>2. \A b \in Blocks, i \in Ids : Holds(b, i) => i \in 1 .. nputs /\ b \in InUse
    <3> SUFFICES ASSUME NEW b \in Blocks, NEW i \in Ids, Holds(b, i)
                 PROVE  i \in 1 .. nputs /\ b \in InUse
      OBVIOUS
    <3>1. CASE Marked(b) /\ b \in InUse /\ data[b] = i
      BY <3>1, <1>m
    <3>2. CASE \E q \in Writers : Writing(q) /\ wl[q].idx = b /\ wl[q].id = i
      <4> PICK q \in Writers : Writing(q) /\ wl[q].idx = b /\ wl[q].id = i
        BY <3>2
      <4>1. Asks(q) /\ Fills(q)
        BY <1>0 DEF Locals
      <4>2. b \in Filled(q)
        BY <4>1, <1>b, FilledBlocks
      <4> QED
        BY <4>1, <4>2, <1>b DEF Fills, WritersApart
    <3> QED
      BY <3>1, <3>2 DEF Holds
  <2>3. /\ \A b \in InUse : UsedNodes(head_pos, b) < Used
        /\ UsedNodes(head_pos, b0) >= Used
        /\ Used \in Nat
    <3>1. Used \in Nat /\ UsedNodes(tail_pos, b0) \in Nat
      BY <1>b, UsedInt DEF Used
    <3> QED
      BY <3>1, <1>h, <1>s DEF InUse, Range, Used
  <2>4. Ordered'
    <3> SUFFICES ASSUME NEW b \in Blocks, NEW c \in Blocks, NEW i \in Ids, NEW j \in Ids,
                        Holds(b, i)', Holds(c, j)',
                        UsedNodes(head_pos, b) < UsedNodes(head_pos, c)
                 PROVE  i < j
      BY DEF Ordered
    <3>1. CASE Holds(b, i) /\ Holds(c, j)
      BY <3>1, <1>0 DEF Order, Ordered
    <3>2. CASE Holds(b, i) /\ c = b0 /\ j = new
      BY <3>2, <2>2, <1>l
    <3>3. CASE b = b0 /\ Holds(c, j)
      <4>1. UsedNodes(head_pos, c) < Used /\ UsedNodes(head_pos, b) >= Used
        BY <3>3, <2>2, <2>3
      <4>2. UsedNodes(head_pos, c) \in Nat /\ UsedNodes(head_pos, b) \in Nat
        BY <1>b, UsedInt
      <4> QED
        BY <4>1, <4>2, <2>3
    <3>4. CASE b = b0 /\ c = b0
      <4>1. UsedNodes(head_pos, b) \in Nat
        BY <1>b, UsedInt
      <4> QED
        BY <3>4, <4>1
    <3> QED
      BY <3>1, <3>2, <3>3, <3>4, <2>1
  <2>5. Older'
    <3> SUFFICES ASSUME NEW b \in Blocks, NEW i \in Ids, Holds(b, i)'
                 PROVE  /\ \A r \in Readers : Carries(r)' => TakenId(r)' < i
                        /\ \A k \in DOMAIN returned' : returned'[k].buf[1] < i
      BY DEF Older
    <3>1. CASE Holds(b, i)
      BY <3>1, <1>0, <1>3 DEF Order, Older
    <3>2. CASE i = new
      BY <3>2, <1>k, <1>3, <1>l
    <3> QED
      BY <3>1, <3>2, <2>1
  <2>6. Returns'
    <3>1. \A i \in putDone : Buf(i)' = Buf(i)
      BY <1>b, <1>l DEF Buf, Counted
    <3> QED
      BY <1>0, <3>1, <1>3 DEF Order, Returns
  <2>7. InTurn'
    BY <1>0, <1>3 DEF Order, InTurn, Alone
  <2> QED
    BY <2>4, <2>5, <2>6, <2>7 DEF Order
<1> QED
  BY <1>4, <1>5, <1>6

-----------------------------------------------------------------------------
(* The exchange of the head *)

\* Where a message that lies in the used part begins and ends
LEMMA SpanUsed ==
    ASSUME TypeInv, Counted, ReadersApart, Marks,
           NEW b \in Blocks, Marked(b), b \in InUse
    PROVE  /\ Size(b) \in Nat /\ Size(b) >= 1 /\ b + Size(b) \in Blocks
           /\ Span(b) \subseteq InUse
           /\ \A x \in Span(b) : UsedNodes(head_pos, x) = UsedNodes(head_pos, b) + (x - b)
           /\ UsedNodes(head_pos, b + Size(b)) = UsedNodes(head_pos, b) + Size(b)
           /\ UsedNodes(head_pos, b) + Size(b) <= Used
           /\ UsedNodes(b, b + Size(b)) = Size(b)
           /\ Span(b) = Range(b, b + Size(b))
<1> DEFINE n == Size(b)
<1>1. Whole(b) /\ Span(b) \subseteq InUse
  BY MarkedInUse DEF Marks
<1>2. n \in Nat /\ n >= 1 /\ b + n <= ele_count
  BY <1>1, WholeMessage DEF Whole
<1>3. head_pos \in Blocks /\ tail_pos \in Blocks
  BY InRing
<1>4. Stretch(b, n) \subseteq Range(head_pos, tail_pos)
  BY <1>1 DEF Span, InUse
<1> HIDE DEF n
<1>5. /\ \A x \in Stretch(b, n) : UsedNodes(head_pos, x) = UsedNodes(head_pos, b) + (x - b)
      /\ b + n \in Blocks
      /\ UsedNodes(head_pos, b + n) = UsedNodes(head_pos, b) + n
      /\ UsedNodes(head_pos, b) + n <= UsedNodes(head_pos, tail_pos)
  BY <1>2, <1>3, <1>4, SpanInRange
<1>6. UsedNodes(b, b + n) = n /\ Stretch(b, n) = Range(b, b + n)
  <2> DEFINE Dist(x, y) == IF x <= y THEN y - x ELSE ele_count + 1 + y - x
  <2>1. \A x, y \in Blocks : UsedNodes(x, y) = Dist(x, y)
    BY UsedCases
  <2>2. \A x \in Blocks : Dist(b, x) < n <=> b <= x /\ x < b + n
    BY <1>2, QueueAssumption DEF Blocks
  <2>3. Dist(b, b + n) = n
    BY <1>2, QueueAssumption DEF Blocks
  <2> HIDE DEF Dist
  <2> QED
    BY <1>5, <2>1, <2>2, <2>3 DEF Range, Stretch
<1> QED
  BY <1>1, <1>2, <1>5, <1>6 DEF n, Span, Used

\* What a reader is about to release, when its head is the queue's: nothing that
\* is being filled, and no message but the one it takes.
LEMMA Releases ==
    ASSUME TypeInv, RingInv, Good, Layout, Locals, Order,
           NEW r \in Readers, Current(r), NEW pos \in Blocks,
           \/ rpc[r] = "endcas" /\ pos = rl[r].head
           \/ rpc[r] = "cas" /\ pos = rl[r].new_head
    PROVE  /\ InUse = Range(head_pos, pos) \cup Range(pos, tail_pos)
           /\ Range(head_pos, pos) \cap Range(pos, tail_pos) = {}
           /\ \A x \in Range(pos, tail_pos) :
                UsedNodes(head_pos, x) = UsedNodes(head_pos, pos) + UsedNodes(pos, x)
           /\ \A q \in Writers : Filled(q) \cap Range(head_pos, pos) = {}
           /\ \A b \in Blocks : Marked(b) /\ b \in InUse =>
                \/ rpc[r] = "cas" /\ b = rl[r].head
                \/ Span(b) \subseteq Range(pos, tail_pos)
           /\ rpc[r] = "cas" =>
                /\ Marked(rl[r].head) /\ rl[r].head \in InUse
                /\ Span(rl[r].head) \subseteq Range(head_pos, pos)
                /\ \A x \in Range(pos, tail_pos) :
                     UsedNodes(head_pos, rl[r].head) < UsedNodes(head_pos, x)
<1> DEFINE hp == head_pos
           h == rl[r].head
           R == Range(head_pos, pos)
           U == Range(pos, tail_pos)
<1>1. /\ hp \in Blocks /\ tail_pos \in Blocks /\ h \in Blocks
      /\ Counted /\ Marks /\ WritersApart /\ ReadersApart
      /\ Ordered /\ Scans(r) /\ ~aba
  BY InRing DEF Layout, Locals, Order, Good
<1>2. /\ UsedNodes(hp, h) <= Used /\ Scanned(r) = Range(hp, h)
      /\ Scanned(r) \subseteq InUse
  BY <1>1, ScanInUse
<1>3. \A x \in Blocks : UsedNodes(hp, x) \in Nat /\ UsedNodes(pos, x) \in Nat
  BY <1>1, UsedInt
<1>4. UsedNodes(hp, pos) <= UsedNodes(hp, tail_pos)
  <2>1. rpc[r] = "cas" => rl[r].nr >= 0
    <3>1. rpc[r] = "cas" => rl[r].nr \in Nat
      BY <1>1, TakenLength
    <3> QED
      BY ONLY <3>1
  <2> QED
    BY <1>1, <1>2, <2>1 DEF RingInv, ReaderRing, Current, HoldsHead, Used
<1>5. UsedNodes(hp, pos) + UsedNodes(pos, tail_pos) <= ele_count
  <2>1. UsedNodes(pos, tail_pos) = UsedNodes(hp, tail_pos) - UsedNodes(hp, pos)
    BY <1>1, <1>4, UsedSplit
  <2>2. UsedNodes(hp, tail_pos) \in 0 .. ele_count
    BY <1>1, UsedCases DEF Blocks
  <2> QED
    BY <1>1, <1>3, <2>1, <2>2, QueueAssumption
<1>6. /\ InUse = R \cup U /\ R \cap U = {}
      /\ \A x \in U : UsedNodes(hp, x) = UsedNodes(hp, pos) + UsedNodes(pos, x)
  BY <1>1, <1>5, RangeSplit DEF InUse
<1>7. rpc[r] = "cas" =>
        /\ Marked(h) /\ h \in InUse /\ pos = h + Size(h)
        /\ R = Scanned(r) \cup Span(h)
        /\ UsedNodes(hp, h) < UsedNodes(hp, pos)
  <2> SUFFICES ASSUME rpc[r] = "cas"
               PROVE  /\ Marked(h) /\ h \in InUse /\ pos = h + Size(h)
                      /\ R = Scanned(r) \cup Span(h)
                      /\ UsedNodes(hp, h) < UsedNodes(hp, pos)
    OBVIOUS
  <2>1. Marked(h) /\ Span(h) \subseteq InUse /\ pos = h + Size(h)
    BY <1>1 DEF Scans, Size
  <2>2. h \in InUse
    BY <1>1, <2>1, WholeMessage DEF Marks
  <2>3. /\ Size(h) \in Nat /\ Size(h) >= 1
        /\ UsedNodes(hp, pos) = UsedNodes(hp, h) + Size(h)
        /\ UsedNodes(h, pos) = Size(h) /\ Span(h) = Range(h, pos)
    BY <1>1, <2>1, <2>2, SpanUsed
  <2>4. UsedNodes(hp, pos) <= ele_count
    BY <1>1, UsedCases, QueueAssumption DEF Blocks
  <2>5. Range(hp, pos) = Range(hp, h) \cup Range(h, pos)
    BY <1>1, <2>3, <2>4, RangeSplit
  <2>6. UsedNodes(hp, h) < UsedNodes(hp, pos)
    <3>1. UsedNodes(hp, h) \in Nat
      BY <1>1, <1>3
    <3> QED
      BY ONLY <2>3, <3>1
  <2>7. R = Scanned(r) \cup Span(h)
    BY <1>2, <2>3, <2>5
  <2> QED
    BY <2>1, <2>2, <2>6, <2>7
<1>8. rpc[r] = "endcas" => R = Scanned(r)
  BY <1>2
<1>9. \A b \in Scanned(r) : ~Marked(b) /\ \A q \in Writers : b \notin Filled(q)
  BY <1>1 DEF Scans
<1>10. \A q \in Writers : Filled(q) \cap R = {}
  <2>1. rpc[r] = "cas" => \A q \in Writers : Filled(q) \cap Span(h) = {}
    BY <1>1, <1>7 DEF Marks
  <2> QED
    BY <1>7, <1>8, <1>9, <2>1
<1>11. ASSUME NEW b \in Blocks, Marked(b), b \in InUse
       PROVE  (rpc[r] = "cas" /\ b = h) \/ Span(b) \subseteq U
  <2>1. CASE b \in R
    <3>1. b \notin Scanned(r)
      BY <1>9, <1>11
    <3>2. rpc[r] = "cas" /\ b \in Span(h)
      BY <2>1, <3>1, <1>7, <1>8
    <3>3. b = h
      <4> SUFFICES ASSUME b # h PROVE FALSE
        OBVIOUS
      <4>1. UsedNodes(hp, b) = UsedNodes(hp, h) + (b - h)
        BY <1>1, <1>7, <3>2, SpanUsed
      <4>2. b \in Int /\ h \in Int /\ h < b
        BY <1>1, <3>2 DEF Span, Stretch, Blocks
      <4>3. UsedNodes(hp, h) < UsedNodes(hp, b)
        BY <1>1, <1>3, <4>1, <4>2
      <4>4. Whole(h)
        BY <1>1, <1>7, <3>2 DEF Marks
      <4>5. data[b] = data[h] /\ data[h] \in Ids /\ data[h] \in 1 .. nputs
        BY <1>1, <3>2, <4>4, WholeMessage DEF Whole
      <4>6. Holds(h, data[h]) /\ Holds(b, data[h])
        BY <1>7, <1>11, <3>2, <4>5 DEF Holds
      <4>7. data[h] < data[h]
        BY <1>1, <4>3, <4>5, <4>6 DEF Ordered
      <4> QED
        BY <4>5, <4>7
    <3> QED
      BY <3>2, <3>3
  <2>2. CASE b \notin R
    <3>1. UsedNodes(hp, pos) <= UsedNodes(hp, b)
      BY <2>2, <1>1, <1>3 DEF Range
    <3>2. /\ Span(b) \subseteq InUse
          /\ \A x \in Span(b) : UsedNodes(hp, x) = UsedNodes(hp, b) + (x - b)
      BY <1>1, <1>11, SpanUsed
    <3>3. ASSUME NEW x \in Span(b) PROVE x \notin R
      <4>1. x \in Int /\ b \in Int /\ b <= x /\ x \in Blocks
        BY <3>3 DEF Span, Stretch, Blocks
      <4>2. UsedNodes(hp, pos) <= UsedNodes(hp, x)
        BY <3>1, <3>2, <3>3, <4>1, <1>3
      <4> QED
        BY <4>1, <4>2, <1>3 DEF Range
    <3> QED
      BY <3>2, <3>3, <1>6
  <2> QED
    BY <2>1, <2>2
<1>12. rpc[r] = "cas" => \A x \in U : UsedNodes(hp, h) < UsedNodes(hp, x)
  <2>1. \A x \in U : x \in Blocks
    BY DEF Range
  <2>2. \A x \in U : UsedNodes(hp, pos) <= UsedNodes(hp, x)
    BY <1>3, <1>6, <2>1
  <2> QED
    BY <1>1, <1>3, <1>7, <2>1, <2>2
<1> QED
  BY <1>6, <1>7, <1>10, <1>11, <1>12

\* CAS32(&queue->head_pos, old_head, new_head) succeeds: the blocks that the
\* reader releases are no longer in use, and it is the only one to have them.
LEMMA TakeHead ==
    ASSUME TypeInv, RingInv, MessageInv, NEW r \in Readers, NEW pos \in Blocks,
           \/ rpc[r] = "endcas" /\ pos = rl[r].head
           \/ rpc[r] = "cas" /\ pos = rl[r].new_head,
           MoveHead(r, pos),
           UNCHANGED <<tail_pos, start_token, datalen, data, wvars>>,
           UNCHANGED <<nputs, lenOf, putDone, returned, conflict, gaveUp>>,
           \A s \in Readers \ {r} : rpc'[s] = rpc[s] /\ rl'[s] = rl[s],
           rpc'[r] = IF rpc[r] = "cas" THEN "copy" ELSE "clear",
           rl'[r].old_head = rl[r].old_head, rl'[r].new_head = pos,
           rl'[r].head = rl[r].head,
           rpc[r] = "endcas" => rl'[r].len = 0,
           rpc[r] = "cas" => /\ rl'[r].len = rl[r].len /\ rl'[r].nr = rl[r].nr
                             /\ rl'[r].k = 0 /\ rl'[r].buf = << >>
    PROVE  MessageInv'
<1> SUFFICES ASSUME Good' PROVE Layout' /\ Locals' /\ Order'
  BY DEF MessageInv
<1>0. Good /\ Layout /\ Locals /\ Order /\ r \notin passed
  BY DEF Good, MessageInv, MoveHead
<1>u. UNCHANGED <<wpc, wl>> /\ head_pos' = pos
  BY DEF wvars, MoveHead
<1> DEFINE h == rl[r].head
           R == Range(head_pos, pos)
<1>b. /\ Counted /\ Marks /\ WritersApart /\ ReadersApart
      /\ h \in Blocks /\ head_pos \in Blocks /\ tail_pos \in Blocks
      /\ Scans(r) /\ Current(r) /\ rl[r].old_head = head_pos
  BY <1>0, InRing DEF Locals, Layout, Current, HoldsHead, ReaderPC, MoveHead
<1>s. /\ InUse = R \cup InUse' /\ R \cap InUse' = {}
      /\ \A x \in InUse' : UsedNodes(head_pos, x) = UsedNodes(head_pos, pos) + UsedNodes(pos, x)
      /\ \A q \in Writers : Filled(q) \cap R = {}
      /\ \A b \in Blocks : Marked(b) /\ b \in InUse =>
           \/ rpc[r] = "cas" /\ b = h
           \/ Span(b) \subseteq InUse'
      /\ rpc[r] = "cas" =>
           /\ Marked(h) /\ h \in InUse
           /\ Span(h) \subseteq R
           /\ \A x \in InUse' : UsedNodes(head_pos, h) < UsedNodes(head_pos, x)
  <2>1. InUse' = Range(pos, tail_pos)
    BY <1>u DEF InUse, Range
  <2> HIDE DEF R, h
  <2> QED
    BY <1>0, <1>b, <2>1, Releases DEF R, h
<1> HIDE DEF R
<1>1. \A b \in Blocks : /\ Marked(b)' <=> Marked(b)
                        /\ Whole(b)' <=> Whole(b)
                        /\ Span(b)' = Span(b)
  BY DEF Marked, Whole, Span, Size, Stretch
<1>2. \A q \in Writers : (Writing(q)' <=> Writing(q)) /\ Filled(q)' = Filled(q)
  BY <1>u, SameWriter
<1>r. /\ Taking(r)' /\ ~Taking(r) /\ Released(r) = {} /\ Released(r)' = R
      /\ ~Carries(r) /\ (Carries(r)' <=> rpc[r] = "cas")
      /\ rpc[r] = "cas" => TakenId(r)' = data[h]
  <2>1. Taking(r)' /\ ~Taking(r) /\ ~Carries(r)
    BY DEF Taking, Carries
  <2>2. Released(r)' = R
    BY <2>1, <1>b DEF Released, Range, R
  <2>3. Carries(r)' <=> rpc[r] = "cas"
    BY DEF Carries
  <2>4. rpc[r] = "cas" => TakenId(r)' = data[h]
    BY DEF TakenId
  <2> QED
    BY <2>1, <2>2, <2>3, <2>4 DEF Released
<1>3. \A s \in Readers \ {r} : /\ Released(s)' = Released(s)
                               /\ Carries(s)' <=> Carries(s)
                               /\ TakenId(s)' = TakenId(s)
  <2>1. \A s \in Readers \ {r} : TakenId(s)' = TakenId(s)
    BY DEF TakenId
  <2> QED
    BY <2>1, SameReader
<1>4. Layout'
  <2>1. Counted'
    BY <1>b DEF Counted
  <2>2. WritersApart'
    <3>1. \A q \in Writers : Filled(q) \subseteq InUse'
      BY <1>b, <1>s DEF WritersApart
    <3> QED
      BY <3>1, <1>b, <1>2 DEF WritersApart
  <2>3. ReadersApart'
    <3>1. \A s \in Readers : Released(s)' \cap InUse' = {}
      BY <1>b, <1>s, <1>r, <1>3 DEF ReadersApart
    <3>2. \A s \in Readers \ {r} : Released(s) \cap R = {}
      BY <1>b, <1>s DEF ReadersApart
    <3>3. \A s, t \in Readers : s # t => Released(s)' \cap Released(t)' = {}
      BY <1>b, <3>2, <1>r, <1>3 DEF ReadersApart
    <3> QED
      BY <3>1, <3>3 DEF ReadersApart
  <2>4. Marks'
    <3> SUFFICES ASSUME NEW b \in Blocks, Marked(b)'
                 PROVE  /\ Whole(b)'
                        /\ \/ Span(b)' \subseteq InUse'
                           \/ \E s \in Readers : Span(b)' \subseteq Released(s)'
                        /\ \A q \in Writers : Span(b)' \cap Filled(q)' = {}
      BY DEF Marks
    <3>1. /\ Marked(b) /\ Whole(b)
          /\ \/ Span(b) \subseteq InUse
             \/ \E s \in Readers : Span(b) \subseteq Released(s)
          /\ \A q \in Writers : Span(b) \cap Filled(q) = {}
      BY <1>b, <1>1 DEF Marks
    <3>2. b \in Span(b)
      BY <3>1, <1>b, WholeMessage
    <3>3. \/ Span(b) \subseteq InUse'
          \/ \E s \in Readers : Span(b) \subseteq Released(s)'
      <4>1. CASE b \in InUse
        BY <4>1, <3>1, <1>s, <1>r
      <4>2. CASE b \notin InUse
        <5> PICK s \in Readers : Span(b) \subseteq Released(s)
          BY <4>2, <3>1, <3>2
        <5>1. s # r
          BY <3>2, <1>r
        <5> QED
          BY <5>1, <1>3
      <4> QED
        BY <4>1, <4>2
    <3> QED
      BY <3>1, <3>3, <1>1, <1>2
  <2> QED
    BY <2>1, <2>2, <2>3, <2>4 DEF Layout
<1>5. Locals'
  <2>1. ASSUME NEW q \in Writers PROVE Asks(q)' /\ Fills(q)'
    <3>1. Asks(q) /\ Fills(q) /\ wpc'[q] = wpc[q] /\ wl'[q] = wl[q] /\ (q \in passed' <=> q \in passed)
      BY <1>0, <1>u, QueueAssumption DEF Locals, MoveHead
    <3>2. Asks(q)'
      BY <3>1 DEF Asks
    <3>3. Fills(q)'
      BY <3>1 DEF Fills, Writing
    <3> QED
      BY <3>2, <3>3
  <2>2. ASSUME NEW s \in Readers PROVE Scans(s)' /\ Takes(s)'
    <3>1. CASE s = r
      <4>1. Scans(r)'
        BY <1>r DEF Scans, Current, HoldsHead, Taking
      <4>0. rl'[r].old_head # rl'[r].new_head
        <5>1. CASE rpc[r] = "endcas"
          BY <5>1, <1>b DEF Scans
        <5>2. CASE rpc[r] = "cas"
          <6>1. UsedNodes(head_pos, h) < UsedNodes(head_pos, pos)
            <7>1. h \in Span(h)
              BY <5>2, <1>b, <1>s, WholeMessage DEF Marks
            <7> QED
              BY <7>1, <5>2, <1>s DEF R, Range
          <6>2. UsedNodes(head_pos, head_pos) = 0 /\ UsedNodes(head_pos, h) \in Nat
            BY <1>b, UsedSelf, UsedInt
          <6>3. pos # head_pos
            BY <6>1, <6>2
          <6> QED
            BY <6>3, <1>b
        <5> QED
          BY <5>1, <5>2
      <4>2. CASE rpc[r] = "endcas"
        BY <4>0, <3>1, <4>1, <4>2 DEF Takes, Taking, HoldsHead
      <4>3. CASE rpc[r] = "cas"
        <5>1. /\ rl[r].len = lenOf[data[h]] /\ rl[r].nr = NumNeeded(rl[r].len)
              /\ Marked(h) /\ Whole(h)
          BY <4>3, <1>b DEF Scans, Marks
        <5>2. rl[r].nr = Size(h) /\ rl[r].nr \in Nat /\ rl[r].nr >= 1
          BY <5>1, <1>b, WholeMessage DEF Size
        <5>3. << >> = [j \in 1 .. 0 |-> data[h]]
          OBVIOUS
        <5>4. Marked(h)' /\ Span(h) \subseteq Released(r)' /\ rl'[r].head = h
          BY <4>3, <1>1, <1>b, <1>s, <1>r
        <5>5. Span(rl[r].head)' = Span(h) /\ Marked(rl[r].head)'
          BY <5>4 DEF Span, Marked, Stretch, Size
        <5> HIDE DEF h
        <5>6. rpc'[r] = "copy"
          BY <4>3
        <5>7. /\ rl'[r].len = lenOf'[data'[rl'[r].head]] /\ rl'[r].nr = NumNeeded(rl'[r].len)
              /\ rl'[r].k < rl'[r].nr
          <6>1. rl'[r].len = rl[r].len /\ rl'[r].nr = rl[r].nr /\ rl'[r].k = 0
            BY <4>3
          <6>2. lenOf'[data'[rl'[r].head]] = lenOf[data[h]]
            BY <5>4
          <6>3. rl'[r].len = lenOf'[data'[rl'[r].head]]
            BY <5>1, <6>1, <6>2
          <6>4. rl'[r].nr = NumNeeded(rl'[r].len)
            BY <5>1, <6>1
          <6>5. rl'[r].k < rl'[r].nr
            BY <5>2, <6>1
          <6> QED
            BY <6>3, <6>4, <6>5
        <5>8. rl'[r].buf = [j \in 1 .. rl'[r].k |-> data'[rl'[r].head]]
          BY <4>3, <5>3, <5>4
        <5>9. Takes(r)'
          BY <4>0, <5>4, <5>5, <5>6, <5>7, <5>8 DEF Takes, Taking, HoldsHead
        <5> QED
          BY <3>1, <4>1, <5>9
      <4> QED
        BY <4>2, <4>3
    <3>2. CASE s # r
      <4>1. Scans(s) /\ Takes(s) /\ rpc'[s] = rpc[s] /\ rl'[s] = rl[s]
        BY <3>2, <1>0 DEF Locals
      <4>2. rl[s].head \in Blocks
        BY InRing
      <4>3. Scans(s)'
        BY <3>2, <4>1 DEF Scans, Current, MoveHead
      <4>4. Takes(s)'
        BY <3>2, <4>1, <4>2, <1>1, <1>3 DEF Takes, Taking
      <4> QED
        BY <4>3, <4>4
    <3> QED
      BY <3>1, <3>2
  <2> QED
    BY <2>1, <2>2 DEF Locals
<1>6. Order'
  <2>1. \A b \in Blocks, i \in Ids : Holds(b, i)' => Holds(b, i) /\ b \in InUse'
    <3> SUFFICES ASSUME NEW b \in Blocks, NEW i \in Ids, Holds(b, i)'
                 PROVE  Holds(b, i) /\ b \in InUse'
      OBVIOUS
    <3>1. CASE Marked(b)' /\ b \in InUse' /\ data'[b] = i
      BY <3>1, <1>1, <1>s DEF Holds
    <3>2. CASE \E q \in Writers : Writing(q)' /\ wl'[q].idx = b /\ wl'[q].id = i
      <4> PICK q \in Writers : Writing(q)' /\ wl'[q].idx = b /\ wl'[q].id = i
        BY <3>2
      <4>1. Asks(q) /\ Fills(q) /\ Writing(q) /\ wl[q].idx = b /\ wl[q].id = i
        BY <1>0, <1>2, <1>u DEF Locals
      <4>2. b \in Filled(q)
        BY <4>1, <1>b, FilledBlocks
      <4>3. b \in InUse'
        BY <4>2, <1>b, <1>s DEF WritersApart
      <4> QED
        BY <4>1, <4>3 DEF Holds
    <3> QED
      BY <3>1, <3>2 DEF Holds
  <2>2. Ordered'
    <3> SUFFICES ASSUME NEW b \in Blocks, NEW c \in Blocks, NEW i \in Ids, NEW j \in Ids,
                        Holds(b, i)', Holds(c, j)',
                        UsedNodes(pos, b) < UsedNodes(pos, c)
                 PROVE  i < j
      BY <1>u DEF Ordered
    <3>1. /\ UsedNodes(head_pos, b) = UsedNodes(head_pos, pos) + UsedNodes(pos, b)
          /\ UsedNodes(head_pos, c) = UsedNodes(head_pos, pos) + UsedNodes(pos, c)
      BY <2>1, <1>s
    <3>2. /\ UsedNodes(head_pos, pos) \in Nat
          /\ UsedNodes(pos, b) \in Nat /\ UsedNodes(pos, c) \in Nat
      BY <1>b, UsedInt
    <3>3. UsedNodes(head_pos, b) < UsedNodes(head_pos, c)
      BY <3>1, <3>2
    <3> QED
      BY <3>3, <2>1, <1>0 DEF Order, Ordered
  <2>3. rpc[r] = "cas" => data[h] \in Ids /\ data[h] \in 1 .. nputs /\ Holds(h, data[h])
    <3> SUFFICES ASSUME rpc[r] = "cas"
                 PROVE data[h] \in Ids /\ data[h] \in 1 .. nputs /\ Holds(h, data[h])
      OBVIOUS
    <3>1. Marked(h) /\ h \in InUse /\ Whole(h)
      BY <1>b, <1>s DEF Marks
    <3> QED
      BY <3>1, <1>b, WholeMessage DEF Holds
  <2>4. Older'
    <3> SUFFICES ASSUME NEW b \in Blocks, NEW i \in Ids, Holds(b, i)'
                 PROVE  /\ \A s \in Readers : Carries(s)' => TakenId(s)' < i
                        /\ \A k \in DOMAIN returned' : returned'[k].buf[1] < i
      BY DEF Older
    <3>1. Holds(b, i) /\ b \in InUse'
      BY <2>1
    <3>2. \A s \in Readers \ {r} : Carries(s)' => TakenId(s)' < i
      BY <3>1, <1>0, <1>3 DEF Order, Older
    <3>3. Carries(r)' => TakenId(r)' < i
      <4> SUFFICES ASSUME rpc[r] = "cas" PROVE data[h] < i
        BY <1>r
      <4>1. UsedNodes(head_pos, h) < UsedNodes(head_pos, b)
        BY <3>1, <1>s
      <4> QED
        BY <4>1, <3>1, <2>3, <1>0, <1>b DEF Order, Ordered
    <3>4. \A k \in DOMAIN returned' : returned'[k].buf[1] < i
      BY <3>1, <1>0 DEF Order, Older
    <3> QED
      BY <3>2, <3>3, <3>4
  <2>5. rpc[r] = "cas" =>
          /\ \A s \in Readers : Carries(s) => TakenId(s) < data[h]
          /\ \A k \in DOMAIN returned : returned[k].buf[1] < data[h]
    BY <2>3, <1>0, <1>b DEF Order, Older
  <2>6. Returns'
    <3>1. \A i \in putDone : Buf(i)' = Buf(i)
      BY DEF Buf
    <3>2. \A k \in DOMAIN returned' : \E i \in putDone' : returned'[k] = Buf(i)'
      BY <3>1, <1>0 DEF Order, Returns
    <3>3. \A j, k \in DOMAIN returned' : returned'[j].buf[1] = returned'[k].buf[1] => j = k
      BY <1>0 DEF Order, Returns
    <3>k. /\ \A s \in Readers : Carries(s) => TakenId(s) \in Int
          /\ \A k \in DOMAIN returned : returned[k].buf[1] \in Int
          /\ rpc[r] = "cas" => data[h] \in Int
      BY <1>0, <1>b, <2>3, TakenKnown, ReturnedKnown DEF Locals, Order
    <3>4. ASSUME NEW s \in Readers, NEW k \in DOMAIN returned', Carries(s)'
          PROVE  returned'[k].buf[1] # TakenId(s)'
      <4>1. CASE s = r
        BY <3>4, <4>1, <3>k, <2>5, <1>r
      <4>2. CASE s # r
        BY <3>4, <4>2, <1>0, <1>3 DEF Order, Returns
      <4> QED
        BY <4>1, <4>2
    <3>5. ASSUME NEW s \in Readers, NEW t \in Readers, Carries(s)', Carries(t)',
                 TakenId(s)' = TakenId(t)'
          PROVE  s = t
      <4>1. CASE s # r /\ t # r
        BY <3>5, <4>1, <1>0, <1>3 DEF Order, Returns
      <4>2. CASE s = r /\ t # r
        BY <3>5, <4>2, <3>k, <2>5, <1>r, <1>3
      <4>3. CASE s # r /\ t = r
        BY <3>5, <4>3, <3>k, <2>5, <1>r, <1>3
      <4> QED
        BY <4>1, <4>2, <4>3
    <3> QED
      BY <3>2, <3>3, <3>4, <3>5 DEF Returns
  <2>7. InTurn'
    <3> SUFFICES ASSUME Alone PROVE InTurn'
      BY DEF InTurn, Alone
    <3>1. \A j, k \in DOMAIN returned' : j < k => returned'[j].buf[1] < returned'[k].buf[1]
      BY <1>0 DEF Order, InTurn
    <3>2. \A s \in Readers, k \in DOMAIN returned' :
             Carries(s)' => returned'[k].buf[1] < TakenId(s)'
      BY <2>5, <1>r DEF Alone
    <3> QED
      BY <3>1, <3>2 DEF InTurn, Alone
  <2> QED
    BY <2>2, <2>4, <2>6, <2>7 DEF Order
<1> QED
  BY <1>4, <1>5, <1>6

-----------------------------------------------------------------------------
(* Readers copy out and clear the blocks they have released *)

\* memcpy(buf, node->data, datalen): the next block belongs to the message too.
LEMMA CopyStep ==
    ASSUME TypeInv, MessageInv, NEW r \in Readers, GetCopy(r)
    PROVE  MessageInv'
<1> SUFFICES ASSUME Good' PROVE Layout' /\ Locals' /\ Order'
  BY DEF MessageInv
<1>u. /\ UNCHANGED <<head_pos, tail_pos, start_token, datalen, data, wpc, wl>>
      /\ UNCHANGED <<nputs, lenOf, putDone, returned, conflict, gaveUp, passed, aba>>
      /\ rpc[r] = "copy"
  BY DEF GetCopy, shm, wvars, history
<1>0. Good /\ Layout /\ Locals /\ Order
  BY <1>u DEF Good, MessageInv
<1> DEFINE h == rl[r].head
           k == rl[r].k
           d == data[h]
<1>m. /\ Counted /\ Marks /\ Takes(r) /\ Whole(h) /\ Marked(h)
      /\ h \in Blocks /\ k \in Nat /\ rl[r] \in RLocals
      /\ rl[r].len = lenOf[d] /\ rl[r].nr = NumNeeded(rl[r].len) /\ k < rl[r].nr
      /\ rl[r].buf = [j \in 1 .. k |-> d]
  BY <1>0, <1>u, InRing DEF Locals, Layout, Takes, Marks, TypeInv, Inside, TypeOK, ReadersOK
<1>b. /\ Counted /\ Marks /\ Takes(r) /\ Whole(h) /\ Marked(h)
      /\ h \in Blocks /\ k \in Nat /\ rl[r].nr \in Nat /\ rl[r] \in RLocals
      /\ rl[r].len = lenOf[d] /\ rl[r].nr = NumNeeded(rl[r].len) /\ k < rl[r].nr
      /\ rl[r].buf = [j \in 1 .. k |-> d]
  BY <1>m, WholeMessage DEF Size
<1>c. /\ rl[r].nr = Size(h) /\ d \in putDone /\ d \in 1 .. nputs
      /\ h + Size(h) <= ele_count
      /\ \A x \in Span(h) : data[x] = d
  BY <1>b, WholeMessage DEF Whole, Size
<1>x. h + k \in Blocks /\ data[h + k] = d
  <2>1. h + k \in Span(h)
    BY <1>b, <1>c, QueueAssumption, SMTT(30) DEF Span, Stretch, Blocks
  <2> QED
    BY <2>1, <1>c DEF Span, Stretch
<1>n. Append(rl[r].buf, d) = [j \in 1 .. k + 1 |-> d]
  <2> HIDE DEF k, d
  <2> QED
    BY ONLY <1>b
<1>p. /\ rl'[r].buf = [j \in 1 .. k + 1 |-> d] /\ rl'[r].k = k + 1
      /\ rl'[r].head = h /\ rl'[r].len = rl[r].len /\ rl'[r].nr = rl[r].nr
      /\ rl'[r].old_head = rl[r].old_head /\ rl'[r].new_head = rl[r].new_head
      /\ rpc'[r] = IF k + 1 = rl[r].nr THEN "clear" ELSE "copy"
      /\ \A s \in Readers \ {r} : rpc'[s] = rpc[s] /\ rl'[s] = rl[s]
  BY <1>x, <1>n, <1>b DEF GetCopy, RGoto, RLocals, TypeInv, Inside, TypeOK, ReadersOK
<1>l. rl[r].len # 0
  <2>1. lenOf[d] \in Lens
    BY <1>b, <1>c, LenKnown
  <2> QED
    BY <2>1, <1>b, QueueAssumption
<1>1. /\ InUse' = InUse
      /\ \A b \in Blocks : /\ Marked(b)' <=> Marked(b)
                           /\ Whole(b)' <=> Whole(b)
                           /\ Span(b)' = Span(b)
  BY <1>u, SameBlocks
<1>2. \A q \in Writers : (Writing(q)' <=> Writing(q)) /\ Filled(q)' = Filled(q)
  BY <1>u, SameWriter
<1>r. /\ Released(r)' = Released(r) /\ Carries(r) /\ Carries(r)'
      /\ TakenId(r)' = TakenId(r) /\ TakenId(r) = d
  <2>1. TakenId(r) = d /\ Carries(r) /\ Carries(r)'
    BY <1>u, <1>p, <1>l DEF TakenId, Carries
  <2>2. Released(r)' = Released(r)
    BY <1>u, <1>p DEF Released, Taking, Range
  <2>3. TakenId(r)' = d
    <3>1. [j \in 1 .. k + 1 |-> d][1] = d
      BY <1>b
    <3> QED
      BY <3>1, <1>u, <1>p DEF TakenId
  <2> QED
    BY <2>1, <2>2, <2>3
<1>3. \A s \in Readers : /\ Released(s)' = Released(s)
                         /\ Carries(s)' <=> Carries(s)
                         /\ TakenId(s)' = TakenId(s)
  <2>1. \A s \in Readers \ {r} : TakenId(s)' = TakenId(s)
    BY <1>p, <1>u DEF TakenId
  <2> QED
    BY <2>1, <1>p, <1>r, SameReader
<1>4. Layout'
  <2>1. Counted'
    BY <1>0, <1>u DEF Layout, Counted
  <2>2. WritersApart'
    BY <1>0, <1>1, <1>2 DEF Layout, WritersApart
  <2>3. ReadersApart'
    BY <1>0, <1>1, <1>3 DEF Layout, ReadersApart
  <2>4. Marks'
    <3> SUFFICES ASSUME NEW b \in Blocks, Marked(b)'
                 PROVE  /\ Whole(b)'
                        /\ \/ Span(b)' \subseteq InUse'
                           \/ \E s \in Readers : Span(b)' \subseteq Released(s)'
                        /\ \A q \in Writers : Span(b)' \cap Filled(q)' = {}
      BY DEF Marks
    <3>1. /\ Whole(b)
          /\ \/ Span(b) \subseteq InUse
             \/ \E s \in Readers : Span(b) \subseteq Released(s)
          /\ \A q \in Writers : Span(b) \cap Filled(q) = {}
      BY <1>b, <1>1 DEF Marks
    <3> QED
      BY <3>1, <1>1, <1>2, <1>3
  <2> QED
    BY <2>1, <2>2, <2>3, <2>4 DEF Layout
<1>5. Locals'
  <2>1. ASSUME NEW q \in Writers PROVE Asks(q)' /\ Fills(q)'
    <3>1. Asks(q) /\ Fills(q) /\ wpc'[q] = wpc[q] /\ wl'[q] = wl[q]
      BY <1>0, <1>u DEF Locals
    <3>2. Asks(q)'
      BY <3>1, <1>u DEF Asks
    <3>3. Fills(q)'
      BY <3>1, <1>u DEF Fills, Writing
    <3> QED
      BY <3>2, <3>3
  <2>2. ASSUME NEW s \in Readers PROVE Scans(s)' /\ Takes(s)'
    <3>1. CASE s = r
      <4>1. Scans(r)'
        BY <1>p DEF Scans, Current, HoldsHead
      <4>2. rl[r].old_head # rl[r].new_head /\ Span(h) \subseteq Released(r)
        BY <1>b, <1>u DEF Takes, Taking
      <4>3. ASSUME rpc'[r] = "copy" PROVE Takes(r)'
        <5>1. k + 1 < rl[r].nr
          BY <4>3, <1>p, <1>b
        <5>2. Marked(rl[r].head)' /\ Span(rl[r].head)' \subseteq Released(r)'
          <6>1. Marked(rl[r].head)' <=> Marked(h)
            BY <1>u, <1>p DEF Marked
          <6>2. Span(rl[r].head)' = Span(h)
            BY <1>u, <1>p DEF Span, Size, Stretch
          <6> QED
            BY <6>1, <6>2, <1>b, <1>r, <4>2
        <5>3. /\ rl'[r].len = lenOf'[data'[rl'[r].head]] /\ rl'[r].nr = NumNeeded(rl'[r].len)
              /\ rl'[r].k < rl'[r].nr
          BY <5>1, <1>b, <1>p, <1>u
        <5>4. rl'[r].buf = [j \in 1 .. rl'[r].k |-> data'[rl'[r].head]]
          BY <1>p, <1>u
        <5> QED
          BY <4>2, <4>3, <5>2, <5>3, <5>4, <1>p DEF Takes, HoldsHead
      <4>4. ASSUME rpc'[r] = "clear" PROVE Takes(r)'
        <5>1. k + 1 = rl[r].nr
          BY <4>4, <1>p
        <5>2. rl'[r].buf[1] = d
          BY <4>4, <1>r DEF TakenId
        <5>3. rl'[r].buf = [j \in 1 .. NumNeeded(rl'[r].len) |-> d]
          BY <5>1, <1>b, <1>p
        <5>4. rl'[r].len = lenOf'[d] /\ d \in putDone'
          BY <1>b, <1>c, <1>p, <1>u
        <5> QED
          BY <4>2, <4>4, <5>2, <5>3, <5>4, <1>p DEF Takes, HoldsHead
      <4> QED
        BY <3>1, <4>1, <4>3, <4>4, <1>p
    <3>2. CASE s # r
      <4>1. Scans(s) /\ Takes(s) /\ rpc'[s] = rpc[s] /\ rl'[s] = rl[s]
        BY <3>2, <1>0, <1>p DEF Locals
      <4>2. rl[s].head \in Blocks
        BY InRing
      <4>3. Scans(s)'
        <5> SUFFICES ASSUME Current(s)' PROVE Scans(s)'
          BY DEF Scans
        <5>1. Current(s)
          BY <4>1, <1>u DEF Current
        <5>2. Scanned(s)' = Scanned(s) /\ \A b \in Scanned(s) : b \in Blocks
          BY <4>1, SameReader DEF Scanned, Range
        <5>3. \A b \in Scanned(s)' : ~Marked(b)' /\ \A q \in Writers : b \notin Filled(q)'
          BY <4>1, <5>1, <5>2, <1>1, <1>2 DEF Scans
        <5> QED
          BY <4>1, <4>2, <5>1, <5>3, <1>1, <1>u DEF Scans
      <4>4. Takes(s)'
        BY <4>1, <4>2, <1>1, <1>3, <1>u DEF Takes, Taking
      <4> QED
        BY <4>3, <4>4
    <3> QED
      BY <3>1, <3>2
  <2> QED
    BY <2>1, <2>2 DEF Locals
<1>6. Order'
  <2>1. \A b \in Blocks, i \in Ids : Holds(b, i)' => Holds(b, i)
    BY <1>1, <1>2, <1>u DEF Holds
  <2>2. Ordered'
    BY <1>0, <2>1, <1>u DEF Order, Ordered
  <2>3. Older'
    BY <1>0, <2>1, <1>3, <1>u DEF Order, Older
  <2>4. Returns'
    <3>1. \A i \in putDone : Buf(i)' = Buf(i)
      BY <1>u DEF Buf
    <3> QED
      BY <1>0, <3>1, <1>3, <1>u DEF Order, Returns
  <2>5. InTurn'
    BY <1>0, <1>3, <1>u DEF Order, InTurn, Alone
  <2> QED
    BY <2>2, <2>3, <2>4, <2>5 DEF Order
<1> QED
  BY <1>4, <1>5, <1>6

\* node->start_token = 0: the message that starts in the block, if there is one,
\* is the reader's own.  After the last block the call returns what it copied.
LEMMA ClearStep ==
    ASSUME TypeInv, MessageInv, NEW r \in Readers, GetClear(r)
    PROVE  MessageInv'
<1> SUFFICES ASSUME Good' PROVE Layout' /\ Locals' /\ Order'
  BY DEF MessageInv
<1> DEFINE a == rl[r].old_head
           c == rl[r].new_head
           Last == ResetNext(r) = c
           Result == [len |-> rl[r].len, buf |-> rl[r].buf]
<1>u. /\ UNCHANGED <<head_pos, tail_pos, datalen, data, wpc, wl>>
      /\ UNCHANGED <<nputs, lenOf, putDone, conflict, gaveUp, passed, aba>>
      /\ start_token' = [start_token EXCEPT ![a] = TOKEN_NO_DATA]
      /\ rpc[r] = "clear"
  BY InRing DEF GetClear, wvars, Reset
<1>0. Good /\ Layout /\ Locals /\ Order
  BY <1>u DEF Good, MessageInv
<1>b. /\ Counted /\ Marks /\ WritersApart /\ ReadersApart /\ Takes(r)
      /\ a \in Blocks /\ c \in Blocks /\ a # c /\ rl[r] \in RLocals
      /\ start_token \in [Blocks -> Tokens]
  BY <1>0, <1>u, InRing DEF Locals, Layout, Takes, Taking, TypeInv, Inside, TypeOK, ReadersOK, RingOK
<1>p. /\ Last => rpc'[r] = "idle"
      /\ Last => returned' = IF rl[r].len = 0 THEN returned ELSE Append(returned, Result)
      /\ ~Last => /\ rpc'[r] = "clear" /\ returned' = returned
                  /\ rl'[r].old_head = AddPos(a, 1)
                  /\ rl'[r].new_head = c /\ rl'[r].len = rl[r].len
                  /\ rl'[r].buf = rl[r].buf /\ rl'[r].head = rl[r].head
      /\ \A s \in Readers \ {r} : rpc'[s] = rpc[s] /\ rl'[s] = rl[s]
  BY <1>u, <1>b DEF GetClear, GetReturn, ResetNext, RLocals, TypeInv, Inside, TypeOK, ReadersOK
<1>R. Released(r) = Range(a, c)
  BY <1>u DEF Released, Taking
<1>s. /\ Range(AddPos(a, 1), c) = Range(a, c) \ {a}
      /\ a \in Range(a, c)
  BY <1>b, RangeLess
<1>q. Released(r)' = Released(r) \ {a} /\ a \in Released(r)
  <2>1. CASE Last
    <3>1. AddPos(a, 1) = c
      BY <2>1 DEF ResetNext
    <3>2. Range(c, c) = {}
      BY <1>b, UsedSelf
    <3>3. Released(r)' = {}
      BY <2>1, <1>p DEF Released, Taking
    <3> QED
      BY <3>1, <3>2, <3>3, <1>R, <1>s
  <2>2. CASE ~Last
    <3>1. Released(r)' = Range(AddPos(a, 1), c)
      BY <2>2, <1>p DEF Released, Taking, Range
    <3> QED
      BY <3>1, <1>R, <1>s
  <2> QED
    BY <2>1, <2>2
<1>a. /\ a \notin InUse
      /\ \A s \in Readers \ {r} : a \notin Released(s)
  BY <1>b, <1>q DEF ReadersApart
<1>m. \A b \in Blocks : /\ Marked(b)' <=> Marked(b) /\ b # a
                        /\ Whole(b)' <=> Whole(b)
                        /\ Span(b)' = Span(b)
  <2>1. \A b \in Blocks : Marked(b)' <=> Marked(b) /\ b # a
    BY <1>u, <1>b DEF Marked, TOKEN_NO_DATA, TOKEN_HAS_DATA
  <2>2. \A b \in Blocks : Span(b)' = Span(b) /\ Size(b)' = Size(b)
    BY <1>u DEF Span, Size, Stretch
  <2>3. \A b \in Blocks : Whole(b)' <=> Whole(b)
    BY <2>2, <1>u DEF Whole
  <2> QED
    BY <2>1, <2>2, <2>3
<1>1. InUse' = InUse
  BY <1>u DEF InUse, Range
<1>2. \A q \in Writers : (Writing(q)' <=> Writing(q)) /\ Filled(q)' = Filled(q)
  BY <1>u, SameWriter
<1>3. /\ \A s \in Readers \ {r} : /\ Released(s)' = Released(s)
                                  /\ Carries(s)' <=> Carries(s)
                                  /\ TakenId(s)' = TakenId(s)
      /\ ~Last => (Carries(r)' <=> Carries(r)) /\ TakenId(r)' = TakenId(r)
      /\ Last => ~Carries(r)'
  <2>1. \A s \in Readers \ {r} : TakenId(s)' = TakenId(s)
    BY <1>p, <1>u DEF TakenId
  <2>2. /\ ~Last => (Carries(r)' <=> Carries(r)) /\ TakenId(r)' = TakenId(r)
        /\ Last => ~Carries(r)'
    BY <1>p, <1>u DEF TakenId, Carries
  <2> QED
    BY <2>1, <2>2, <1>p, SameReader
<1>4. Layout'
  <2>1. Counted'
    BY <1>b, <1>u DEF Counted
  <2>2. WritersApart'
    BY <1>b, <1>1, <1>2 DEF WritersApart
  <2>3. ReadersApart'
    <3>1. \A s \in Readers : Released(s)' \subseteq Released(s)
      BY <1>q, <1>3
    <3> QED
      BY <3>1, <1>b, <1>1 DEF ReadersApart
  <2>4. Marks'
    <3> SUFFICES ASSUME NEW b \in Blocks, Marked(b)'
                 PROVE  /\ Whole(b)'
                        /\ \/ Span(b)' \subseteq InUse'
                           \/ \E s \in Readers : Span(b)' \subseteq Released(s)'
                        /\ \A q \in Writers : Span(b)' \cap Filled(q)' = {}
      BY DEF Marks
    <3>1. /\ Marked(b) /\ Whole(b) /\ b # a
          /\ \/ Span(b) \subseteq InUse
             \/ \E s \in Readers : Span(b) \subseteq Released(s)
          /\ \A q \in Writers : Span(b) \cap Filled(q) = {}
      BY <1>b, <1>m DEF Marks
    <3>2. ASSUME Span(b) \subseteq Released(r) PROVE Span(b) \subseteq Released(r)'
      <4>1. Size(b) \in Nat /\ Size(b) >= 1 /\ b + Size(b) <= ele_count
        BY <3>1, <1>b, WholeMessage DEF Whole
      <4>2. \A x \in Span(b) : UsedNodes(a, x) = UsedNodes(a, b) + (x - b)
        <5>1. Stretch(b, Size(b)) \subseteq Range(a, c)
          BY <3>2, <1>R DEF Span
        <5>2. \A x \in Stretch(b, Size(b)) : UsedNodes(a, x) = UsedNodes(a, b) + (x - b)
          BY <4>1, <5>1, <1>b, SpanInRange
        <5> QED
          BY <5>2 DEF Span
      <4>3. UsedNodes(a, a) = 0 /\ UsedNodes(a, b) \in Nat
        BY <1>b, UsedSelf, UsedInt
      <4>4. a \notin Span(b)
        <5> SUFFICES ASSUME a \in Span(b) PROVE FALSE
          OBVIOUS
        <5>1. a \in Int /\ b \in Int /\ b <= a
          BY <1>b DEF Span, Stretch, Blocks
        <5>2. 0 = UsedNodes(a, b) + (a - b)
          BY <4>2, <4>3
        <5>3. b # a
          BY <3>1
        <5>4. UsedNodes(a, b) \in Int /\ UsedNodes(a, b) >= 0
          BY <4>3
        <5> HIDE DEF a
        <5> QED
          BY ONLY <5>1, <5>2, <5>3, <5>4
      <4> QED
        BY <3>2, <4>4, <1>q
    <3>3. \/ Span(b) \subseteq InUse'
          \/ \E s \in Readers : Span(b) \subseteq Released(s)'
      BY <3>1, <3>2, <1>1, <1>3
    <3> QED
      BY <3>1, <3>3, <1>m, <1>2
  <2> QED
    BY <2>1, <2>2, <2>3, <2>4 DEF Layout
<1>5. Locals'
  <2>1. ASSUME NEW q \in Writers PROVE Asks(q)' /\ Fills(q)'
    <3>1. Asks(q) /\ Fills(q) /\ wpc'[q] = wpc[q] /\ wl'[q] = wl[q]
      BY <1>0, <1>u DEF Locals
    <3>2. Asks(q)'
      BY <3>1, <1>u DEF Asks
    <3>3. Fills(q)'
      BY <3>1, <1>u DEF Fills, Writing
    <3> QED
      BY <3>2, <3>3
  <2>2. ASSUME NEW s \in Readers PROVE Scans(s)' /\ Takes(s)'
    <3>1. CASE s = r
      <4>1. Scans(r)'
        BY <1>p DEF Scans, Current, HoldsHead
      <4>2. ASSUME Last PROVE Takes(r)'
        BY <4>2, <1>p DEF Takes, Taking, HoldsHead
      <4>3. ASSUME ~Last PROVE Takes(r)'
        <5>1. AddPos(a, 1) # c
          BY <4>3 DEF ResetNext
        <5> QED
          BY <4>3, <5>1, <1>p, <1>b, <1>u DEF Takes, Taking, HoldsHead
      <4> QED
        BY <3>1, <4>1, <4>2, <4>3
    <3>2. CASE s # r
      <4>1. Scans(s) /\ Takes(s) /\ rpc'[s] = rpc[s] /\ rl'[s] = rl[s]
        BY <3>2, <1>0, <1>p DEF Locals
      <4>2. rl[s].head \in Blocks
        BY InRing
      <4>k. \A b \in Blocks : Marked(b) => b \in Span(b)
        BY <1>b, WholeMessage DEF Marks
      <4>3. Scans(s)'
        <5> SUFFICES ASSUME Current(s)' PROVE Scans(s)'
          BY DEF Scans
        <5>1. Current(s)
          BY <4>1, <1>u DEF Current
        <5>2. Scanned(s)' = Scanned(s) /\ \A b \in Scanned(s) : b \in Blocks
          BY <4>1, SameReader DEF Scanned, Range
        <5>3. \A b \in Scanned(s)' : ~Marked(b)' /\ \A q \in Writers : b \notin Filled(q)'
          BY <4>1, <5>1, <5>2, <1>m, <1>2 DEF Scans
        <5>4. rpc[s] \in {"len", "fits", "cas"} =>
                Marked(rl[s].head)' /\ Span(rl[s].head)' \subseteq InUse'
          <6>1. rpc[s] \in {"len", "fits", "cas"} =>
                  /\ Marked(rl[s].head) /\ Span(rl[s].head) \subseteq InUse
                  /\ rl[s].head # a
            BY <4>1, <4>2, <4>k, <5>1, <1>a DEF Scans
          <6> QED
            BY <6>1, <4>1, <4>2, <1>m, <1>1
        <5> QED
          BY <4>1, <4>2, <5>1, <5>3, <5>4, <1>u DEF Scans
      <4>4. Takes(s)'
        <5>1. rpc[s] = "copy" => rl[s].head # a
          BY <3>2, <4>1, <4>2, <4>k, <1>a DEF Takes
        <5> QED
          BY <3>2, <4>1, <4>2, <5>1, <1>m, <1>3, <1>u DEF Takes, Taking
      <4> QED
        BY <4>3, <4>4
    <3> QED
      BY <3>1, <3>2
  <2> QED
    BY <2>1, <2>2 DEF Locals
<1>6. Order'
  <2>1. \A b \in Blocks, i \in Ids : Holds(b, i)' => Holds(b, i)
    BY <1>1, <1>2, <1>m, <1>u DEF Holds
  <2>2. Ordered'
    BY <1>0, <2>1, <1>u DEF Order, Ordered
  <2>3. \A i \in putDone : Buf(i)' = Buf(i)
    BY <1>u DEF Buf
  <2>4. CASE returned' = returned
    <3>1. \A s \in Readers : Carries(s)' => Carries(s) /\ TakenId(s)' = TakenId(s)
      BY <1>3
    <3>2. Older'
      BY <1>0, <2>1, <3>1, <2>4 DEF Order, Older
    <3>3. Returns'
      BY <1>0, <2>3, <2>4, <3>1, <1>u DEF Order, Returns
    <3>4. InTurn'
      BY <1>0, <2>4, <3>1 DEF Order, InTurn, Alone
    <3> QED
      BY <2>2, <3>2, <3>3, <3>4 DEF Order
  <2>5. CASE returned' # returned
    <3> DEFINE n == Len(returned)
               i0 == rl[r].buf[1]
    <3>1. Last /\ rl[r].len # 0 /\ returned' = Append(returned, Result)
      BY <2>5, <1>p
    <3>2. /\ Carries(r) /\ TakenId(r) = i0 /\ i0 \in putDone
          /\ Result = Buf(i0)
      BY <3>1, <1>u, <1>b DEF Carries, TakenId, Takes, Buf
    <3> HIDE DEF Result, i0
    <3>3. returned \in Seq(Results)
      BY DEF TypeInv, Inside, TypeOK, HistoryOK
    <3>4. /\ n \in Nat /\ DOMAIN returned = 1 .. n /\ DOMAIN returned' = 1 .. n + 1
          /\ \A k \in 1 .. n : returned'[k] = returned[k]
          /\ returned'[n + 1] = Result
      BY ONLY <3>1, <3>3
    <3>5. Result.buf[1] = i0
      BY DEF Result, i0
    <3>6. \A s \in Readers : Carries(s)' => Carries(s) /\ TakenId(s)' = TakenId(s) /\ s # r
      BY <3>1, <1>3
    <3> HIDE DEF n
    <3>7. \A k \in DOMAIN returned : returned[k].buf[1] # i0
      BY <3>2, <1>0 DEF Order, Returns
    <3>8. Older'
      <4> SUFFICES ASSUME NEW b \in Blocks, NEW i \in Ids, Holds(b, i)'
                   PROVE  /\ \A s \in Readers : Carries(s)' => TakenId(s)' < i
                          /\ \A k \in DOMAIN returned' : returned'[k].buf[1] < i
        BY DEF Older
      <4>1. /\ \A s \in Readers : Carries(s) => TakenId(s) < i
            /\ \A k \in DOMAIN returned : returned[k].buf[1] < i
        BY <2>1, <1>0 DEF Order, Older
      <4>2. \A k \in DOMAIN returned' : k \in DOMAIN returned \/ k = n + 1
        BY <3>4
      <4>3. \A k \in DOMAIN returned' : returned'[k].buf[1] < i
        BY <4>1, <4>2, <3>2, <3>4, <3>5
      <4> QED
        BY <4>1, <4>3, <3>6
    <3>9. Returns'
      <4>1. \A k \in DOMAIN returned' : k \in DOMAIN returned \/ k = n + 1
        BY <3>4
      <4>2. ASSUME NEW k \in DOMAIN returned'
            PROVE  \E i \in putDone' : returned'[k] = Buf(i)'
        <5>1. CASE k = n + 1
          BY <5>1, <3>2, <3>4, <2>3, <1>u
        <5>2. CASE k \in DOMAIN returned
          BY <5>2, <3>4, <2>3, <1>0, <1>u DEF Order, Returns
        <5> QED
          BY <4>1, <5>1, <5>2
      <4>3. ASSUME NEW j \in DOMAIN returned', NEW k \in DOMAIN returned',
                   returned'[j].buf[1] = returned'[k].buf[1]
            PROVE  j = k
        <5>1. CASE j \in DOMAIN returned /\ k \in DOMAIN returned
          BY <4>3, <5>1, <3>4, <1>0 DEF Order, Returns
        <5>2. CASE j = n + 1 /\ k \in DOMAIN returned
          BY <4>3, <5>2, <3>4, <3>5, <3>7
        <5>3. CASE j \in DOMAIN returned /\ k = n + 1
          BY <4>3, <5>3, <3>4, <3>5, <3>7
        <5> QED
          BY <4>1, <5>1, <5>2, <5>3
      <4>4. ASSUME NEW s \in Readers, NEW k \in DOMAIN returned', Carries(s)'
            PROVE  returned'[k].buf[1] # TakenId(s)'
        <5>1. CASE k = n + 1
          BY <4>4, <5>1, <3>2, <3>4, <3>5, <3>6, <1>0 DEF Order, Returns
        <5>2. CASE k \in DOMAIN returned
          BY <4>4, <5>2, <3>4, <3>6, <1>0 DEF Order, Returns
        <5> QED
          BY <4>1, <5>1, <5>2
      <4>5. \A s, t \in Readers :
              Carries(s)' /\ Carries(t)' /\ TakenId(s)' = TakenId(t)' => s = t
        BY <3>6, <1>0 DEF Order, Returns
      <4> QED
        BY <4>2, <4>3, <4>4, <4>5 DEF Returns
    <3>10. InTurn'
      <4> SUFFICES ASSUME Alone PROVE InTurn'
        BY DEF InTurn, Alone
      <4>1. \A k \in DOMAIN returned' : k \in DOMAIN returned \/ k = n + 1
        BY <3>4
      <4>2. ASSUME NEW j \in DOMAIN returned', NEW k \in DOMAIN returned', j < k
            PROVE  returned'[j].buf[1] < returned'[k].buf[1]
        <5>1. CASE k \in DOMAIN returned
          <6>1. j \in DOMAIN returned
            BY <4>2, <5>1, <3>4
          <6> QED
            BY <4>2, <5>1, <6>1, <3>4, <1>0 DEF Order, InTurn
        <5>2. CASE k = n + 1
          <6>1. j \in DOMAIN returned
            BY <4>2, <5>2, <3>4
          <6>2. returned[j].buf[1] < i0
            BY <6>1, <3>2, <1>0 DEF Order, InTurn
          <6> QED
            BY <5>2, <6>1, <6>2, <3>4, <3>5
        <5> QED
          BY <4>1, <5>1, <5>2
      <4>3. \A s \in Readers : ~Carries(s)'
        BY <3>6 DEF Alone
      <4> QED
        BY <4>2, <4>3 DEF InTurn, Alone
    <3> QED
      BY <2>2, <3>8, <3>9, <3>10 DEF Order
  <2> QED
    BY <2>4, <2>5
<1> QED
  BY <1>4, <1>5, <1>6

-----------------------------------------------------------------------------
(* The invariant holds from the beginning and after every step *)

\* A fresh segment holds no message, and nobody is inside a call.
LEMMA InitMessages == Init => MessageInv
<1> SUFFICES ASSUME Init PROVE Layout /\ Locals /\ Order
  BY DEF MessageInv
<1> USE DEF Init
<1>1. /\ \A b \in Blocks : ~Marked(b)
      /\ \A p \in Writers : ~Writing(p) /\ Filled(p) = {}
      /\ \A r \in Readers : ~Taking(r) /\ ~Carries(r) /\ Released(r) = {} /\ ~Current(r)
  BY DEF Marked, Writing, Filled, Taking, Carries, Released, Current, HoldsHead, ReaderPC,
         TOKEN_HAS_DATA, TOKEN_NO_DATA
<1>2. Layout
  BY <1>1 DEF Layout, Counted, WritersApart, ReadersApart, Marks
<1>3. Locals
  <2>1. \A p \in Writers : Asks(p) /\ Fills(p)
    BY <1>1 DEF Asks, Fills, Writing
  <2>2. \A r \in Readers : Scans(r) /\ Takes(r)
    BY <1>1 DEF Scans, Takes, Taking, HoldsHead, ReaderPC
  <2> QED
    BY <2>1, <2>2 DEF Locals
<1>4. Order
  <2>1. \A b \in Blocks, i \in Ids : ~Holds(b, i)
    BY <1>1 DEF Holds
  <2> QED
    BY <1>1, <2>1 DEF Order, Ordered, Older, Returns, InTurn
<1> QED
  BY <1>2, <1>3, <1>4

\* sq_put up to its exchange of the tail: a writer whose tail is the queue's
\* asks for the blocks from there on, or from block 0 on.
LEMMA AskingSteps ==
    ASSUME TypeInv, RingInv, MessageInv, NEW p \in Writers,
           \/ \E l \in Lens : PutStart(p, l)
           \/ PutLoadTail(p) \/ PutReadHead(p) \/ PutCheck(p) \/ PutAlloc(p) \/ PutWrap(p)
           \/ PutCAS(p) /\ tail_pos # wl[p].old_tail
           \/ WriterCrash(p)
    PROVE  MessageInv'
<1>t. /\ wl \in [Writers -> WLocals] /\ wpc \in [Writers -> WriterPC]
      /\ wl[p].old_tail \in Blocks /\ head_pos \in Blocks /\ tail_pos \in Blocks
      /\ wl[p].nr \in Nat
  BY InRing DEF TypeInv, Inside, TypeOK, WritersOK
<1>a. Good => Asks(p) /\ WriterRing(p)
  BY DEF MessageInv, Locals, RingInv, Good
<1>w. ASSUME wpc'[p] \notin {"skip", "copy", "token"} PROVE ~Writing(p)'
  BY <1>w DEF Writing
<1> USE DEF history
<1>1. ASSUME NEW l \in Lens, PutStart(p, l) PROVE MessageInv'
  <2>1. /\ wpc'[p] = "load" /\ wl'[p] = [WIdle EXCEPT !.len = l, !.nr = NumNeeded(l)]
        /\ \A q \in Writers \ {p} : wpc'[q] = wpc[q] /\ wl'[q] = wl[q]
    BY <1>1, <1>t DEF PutStart
  <2>2. Asks(p)'
    BY <2>1 DEF Asks, WIdle
  <2> QED
    BY <1>1, <2>1, <2>2, <1>w, QuietWriter DEF PutStart
<1>2. CASE PutLoadTail(p)
  <2>1. /\ wpc'[p] = "head" /\ wl'[p] = [wl[p] EXCEPT !.old_tail = tail_pos]
        /\ \A q \in Writers \ {p} : wpc'[q] = wpc[q] /\ wl'[q] = wl[q]
    BY <1>2, <1>t DEF PutLoadTail
  <2>2. Good => Asks(p)'
    BY <1>2, <2>1, <1>t, <1>a DEF Asks, WLocals, PutLoadTail
  <2> QED
    BY <1>2, <2>1, <2>2, <1>w, QuietWriter DEF PutLoadTail
<1>3. CASE PutReadHead(p)
  <2>1. /\ wpc'[p] = "check" /\ wl'[p] = [wl[p] EXCEPT !.h = head_pos]
        /\ \A q \in Writers \ {p} : wpc'[q] = wpc[q] /\ wl'[q] = wl[q]
    BY <1>3, <1>t DEF PutReadHead
  <2>2. Good => Asks(p)'
    BY <1>3, <2>1, <1>t, <1>a DEF Asks, WLocals, PutReadHead
  <2> QED
    BY <1>3, <2>1, <2>2, <1>w, QuietWriter DEF PutReadHead
<1>4. CASE PutCheck(p)
  <2>1. /\ \/ wpc'[p] = "alloc" /\ wl'[p] = wl[p]
           \/ wpc'[p] = "idle"
        /\ \A q \in Writers \ {p} : wpc'[q] = wpc[q] /\ wl'[q] = wl[q]
    BY <1>4, <1>t DEF PutCheck, PutReturn
  <2>2. Good => Asks(p)'
    BY <1>4, <2>1, <1>a DEF Asks, PutCheck
  <2> QED
    BY <1>4, <2>1, <2>2, <1>w, QuietWriter DEF PutCheck
<1>5. CASE PutAlloc(p)
  <2> DEFINE t == AddPos(tail_pos, wl[p].nr)
  <2>1. /\ wpc'[p] = IF t < wl[p].old_tail THEN "wrap" ELSE "cas"
        /\ wl'[p].new_tail = t /\ wl'[p].idx = wl[p].old_tail
        /\ wl'[p].old_tail = wl[p].old_tail
        /\ wl'[p].nr = wl[p].nr /\ wl'[p].len = wl[p].len
        /\ \A q \in Writers \ {p} : wpc'[q] = wpc[q] /\ wl'[q] = wl[q]
        /\ passed' = passed /\ wpc[p] = "alloc"
    BY <1>5, <1>t DEF PutAlloc, WLocals
  <2>2. Good => Asks(p)'
    <3> SUFFICES ASSUME Good PROVE Asks(p)'
      OBVIOUS
    <3>1. wl'[p].nr = NumNeeded(wl'[p].len)
      BY <1>a, <2>1 DEF Asks
    <3>2. ASSUME p \notin passed, t >= wl[p].old_tail PROVE t = wl[p].old_tail + wl[p].nr
      <4>1. wl[p].old_tail = tail_pos /\ Used + wl[p].nr <= ele_count
        BY <3>2, <1>a, <2>1 DEF WriterRing, HoldsTail
      <4>2. Used \in Nat
        BY <1>t, UsedInt DEF Used
      <4>3. wl[p].nr \in Blocks
        BY <4>1, <4>2, <1>t, QueueAssumption DEF Blocks
      <4>4. t = IF tail_pos + wl[p].nr <= ele_count THEN tail_pos + wl[p].nr
                ELSE tail_pos + wl[p].nr - (ele_count + 1)
        BY <4>3, <1>t, AddPosCases
      <4> QED
        BY <3>2, <4>1, <4>3, <4>4, <1>t, QueueAssumption DEF Blocks
    <3>3. t \in Blocks
      BY <1>t, AddPosInRing
    <3> HIDE DEF t
    <3>4. wpc'[p] = "cas" => t >= wl[p].old_tail
      BY <2>1, <3>3, <1>t, QueueAssumption DEF Blocks
    <3> QED
      BY <2>1, <3>1, <3>2, <3>4 DEF Asks
  <2>3. wpc'[p] \in {"wrap", "cas"}
    BY <2>1
  <2>4. ~Writing(p)'
    BY <2>3, <1>w
  <2>5. UNCHANGED <<shm, rvars, history>>
    BY <1>5 DEF PutAlloc
  <2> QED
    BY <2>1, <2>2, <2>4, <2>5, QuietWriter
<1>6. CASE PutWrap(p)
  <2>1. /\ \/ /\ wpc'[p] = "cas" /\ RoomBeforeHead(wl[p].nr)
              /\ wl'[p].new_tail = wl[p].nr /\ wl'[p].idx = 0
              /\ wl'[p].old_tail = wl[p].old_tail
              /\ wl'[p].nr = wl[p].nr /\ wl'[p].len = wl[p].len
           \/ wpc'[p] = "idle"
        /\ \A q \in Writers \ {p} : wpc'[q] = wpc[q] /\ wl'[q] = wl[q]
        /\ passed' = passed /\ wpc[p] = "wrap"
    BY <1>6, <1>t DEF PutWrap, PutReturn, WLocals
  <2>2. Good => Asks(p)'
    <3> SUFFICES ASSUME Good, wpc'[p] = "cas" PROVE Asks(p)'
      BY <2>1 DEF Asks
    <3>1. wl'[p].nr = NumNeeded(wl'[p].len)
      BY <1>a, <2>1 DEF Asks
    <3>2. p \notin passed => wl[p].nr < wl[p].old_tail
      <4> SUFFICES ASSUME p \notin passed PROVE wl[p].nr < wl[p].old_tail
        OBVIOUS
      <4>1. head_pos <= tail_pos /\ wl[p].old_tail = tail_pos
        BY <1>a, <2>1 DEF WriterRing, HoldsTail
      <4>2. head_pos - 1 >= wl[p].nr
        BY <2>1 DEF RoomBeforeHead
      <4> QED
        BY <4>1, <4>2, <1>t DEF Blocks
    <3> QED
      BY <2>1, <3>1, <3>2 DEF Asks
  <2> QED
    BY <1>6, <2>1, <2>2, <1>w, QuietWriter DEF PutWrap
<1>7. CASE PutCAS(p) /\ tail_pos # wl[p].old_tail
  <2>1. wpc' = [wpc EXCEPT ![p] = "load"] /\ UNCHANGED <<shm, wl, history, rvars>> /\ wpc[p] = "cas"
    BY <1>7 DEF PutCAS, MoveTail
  <2>2. /\ wpc'[p] = "load" /\ wl'[p] = wl[p]
        /\ \A q \in Writers \ {p} : wpc'[q] = wpc[q] /\ wl'[q] = wl[q]
    BY <2>1, <1>t
  <2>3. Good => Asks(p)'
    BY <2>1, <2>2, <1>a DEF Asks
  <2> QED
    BY <2>1, <2>2, <2>3, <1>w, QuietWriter
<1>8. CASE WriterCrash(p)
  <2>1. /\ wpc'[p] = "idle"
        /\ \A q \in Writers \ {p} : wpc'[q] = wpc[q] /\ wl'[q] = wl[q]
    BY <1>8, <1>t DEF WriterCrash, PutReturn
  <2>2. Asks(p)'
    BY <2>1 DEF Asks
  <2> QED
    BY <1>8, <2>1, <2>2, <1>w, QuietWriter DEF WriterCrash
<1> QED
  BY <1>1, <1>2, <1>3, <1>4, <1>5, <1>6, <1>7, <1>8

\* sq_put after its exchange of the tail: skipping, copying, and the token
LEMMA FillingSteps ==
    ASSUME TypeInv, MessageInv, NEW p \in Writers,
           PutSkip(p) \/ PutCopy(p) \/ PutToken(p)
    PROVE  MessageInv'
<1> DEFINE b0 == wl[p].idx
           k == wl[p].k
           n == wl[p].nr
           i0 == wl[p].id
<1>u. /\ UNCHANGED <<head_pos, tail_pos, rvars, nputs, lenOf, returned>>
      /\ UNCHANGED <<conflict, gaveUp, passed, aba>>
  BY DEF PutSkip, PutCopy, PutToken, history
<1> SUFFICES ASSUME Good PROVE MessageInv'
  BY <1>u DEF MessageInv, Good
<1>t. /\ wl \in [Writers -> WLocals] /\ wpc \in [Writers -> WriterPC]
      /\ start_token \in [Blocks -> Tokens] /\ data \in [Blocks -> 0 .. MaxPuts]
      /\ datalen \in [Blocks -> Lens \cup {0, GARBAGE}]
      /\ wl[p].old_tail \in Blocks /\ b0 \in Blocks /\ k \in Nat /\ n \in Nat
  BY InRing DEF TypeInv, Inside, TypeOK, WritersOK, RingOK
<1>w. Writing(p) /\ wpc[p] \in {"skip", "copy", "token"}
  BY DEF PutSkip, PutCopy, PutToken, Writing
<1>g. /\ Counted /\ Marks /\ Asks(p) /\ Fills(p)
      /\ n >= 1 /\ b0 \in Filled(p)
      /\ wpc[p] = "skip" =>
           Filled(p) = Stretch(0, n) \cup {x \in Blocks : wl[p].old_tail <= x}
      /\ wpc[p] # "skip" => Filled(p) = Stretch(b0, n)
      /\ \A x \in Filled(p) : x \in Blocks /\ ~Marked(x)
  <2>1. Counted /\ Marks /\ Asks(p) /\ Fills(p)
    BY DEF MessageInv, Layout, Locals
  <2>2. Filled(p) \subseteq Blocks
    BY DEF Filled, Handed
  <2>3. \A x \in Blocks : x \in Filled(p) => ~Marked(x)
    BY <2>1, FilledUnmarked
  <2> QED
    BY <2>1, <2>2, <2>3, <1>w, FilledBlocks
<1>i. /\ i0 \in (1 .. nputs) \ putDone /\ lenOf[i0] = wl[p].len
      /\ b0 + n <= ele_count /\ n = NumNeeded(wl[p].len)
  BY <1>g, <1>w DEF Fills, Asks, Writing
<1>1. CASE PutSkip(p)
  <2> DEFINE o == wl[p].old_tail
             t == AddPos(o, 1)
  <2>1. /\ wpc[p] = "skip" /\ wpc'[p] = IF t = 0 THEN "copy" ELSE "skip"
        /\ wl'[p].old_tail = t /\ wl'[p].idx = b0 /\ wl'[p].k = k
        /\ wl'[p].id = i0 /\ wl'[p].nr = n /\ wl'[p].len = wl[p].len
        /\ \A q \in Writers \ {p} : wpc'[q] = wpc[q] /\ wl'[q] = wl[q]
    BY <1>1, <1>t DEF PutSkip, WLocals
  <2>2. /\ start_token' = [start_token EXCEPT ![o] = TOKEN_SKIPPED]
        /\ UNCHANGED <<datalen, data, putDone>>
    BY <1>1 DEF PutSkip, history
  <2>3. b0 = 0 /\ n < o /\ k = 0
    BY <1>g, <2>1 DEF Fills
  <2>4. o \in 0 .. ele_count /\ n \in Nat /\ ele_count \in Nat
    BY <1>t, QueueAssumption DEF Blocks
  <2>5. t = IF o + 1 <= ele_count THEN o + 1 ELSE 0
    <3>1. 1 \in Blocks
      BY QueueAssumption DEF Blocks
    <3>2. t = IF o + 1 <= ele_count THEN o + 1 ELSE o + 1 - (ele_count + 1)
      BY <3>1, <1>t, AddPosCases
    <3> QED
      BY <3>2, <2>4
  <2>6. o \in Filled(p)
    BY <1>g, <1>t, <2>1, <2>4
  <2> HIDE DEF t
  <2>7. /\ t = 0 => wpc'[p] = "copy"
        /\ t # 0 => wpc'[p] = "skip" /\ n < t
    BY <2>1, <2>3, <2>4, <2>5
  <2>8. Filled(p)' \subseteq Filled(p)
    <3> SUFFICES ASSUME NEW x \in Filled(p)' PROVE x \in Filled(p)
      OBVIOUS
    <3>1. x \in Blocks /\ (b0 + n > x \/ (t # 0 /\ t <= x))
      BY <2>1 DEF Filled, Handed
    <3>2. x \in 0 .. ele_count /\ (x < n \/ o <= x)
      BY <3>1, <2>3, <2>4, <2>5 DEF Blocks
    <3>3. x < n => x \in Stretch(0, n)
      BY <3>1, <3>2, <2>4 DEF Stretch
    <3> QED
      BY <3>1, <3>2, <3>3, <1>g, <2>1
  <2>9. Asks(p)'
    BY <2>1, <1>i DEF Asks
  <2>10. Fills(p)'
    <3>1. Stretch(b0, k) = {}
      BY <2>3 DEF Stretch, Blocks
    <3>2. (Stretch(wl[p].idx, wl[p].k))' = {}
      BY <3>1, <2>1 DEF Stretch
    <3>3. CASE t = 0
      <4>1. k < n /\ ~(k > 0)
        BY <2>3, <1>g, <1>t
      <4> QED
        BY <3>2, <3>3, <4>1, <2>1, <2>2, <2>3, <2>7, <1>i, <1>u DEF Fills, Writing
    <3>4. CASE t # 0
      BY <3>4, <2>1, <2>2, <2>3, <2>7, <1>i, <1>g, <1>u DEF Fills, Writing
    <3> QED
      BY <3>3, <3>4
  <2>11. \A x \in Filled(p) : ~Marked(x)'
    BY <1>g, <1>t, <2>2 DEF Marked, TOKEN_SKIPPED, TOKEN_HAS_DATA
  <2>12. \A x \in Blocks : x \notin Filled(p) =>
             /\ start_token'[x] = start_token[x]
             /\ datalen'[x] = datalen[x] /\ data'[x] = data[x]
    BY <2>2, <2>6, <1>t
  <2> HIDE DEF b0
  <2> QED
    BY <1>t, <1>u, <1>w, <2>1, <2>2, <2>8, <2>9, <2>10, <2>11, <2>12, FillStep DEF b0
<1>2. CASE PutCopy(p)
  <2> DEFINE b == b0 + k
  <2>1. /\ wpc[p] = "copy" /\ wpc'[p] = IF k + 1 = n THEN "token" ELSE "copy"
        /\ wl'[p].old_tail = wl[p].old_tail /\ wl'[p].idx = b0 /\ wl'[p].k = k + 1
        /\ wl'[p].id = i0 /\ wl'[p].nr = n /\ wl'[p].len = wl[p].len
        /\ \A q \in Writers \ {p} : wpc'[q] = wpc[q] /\ wl'[q] = wl[q]
    BY <1>2, <1>t DEF PutCopy, WLocals
  <2>2. /\ start_token' = [start_token EXCEPT ![b] = TokenAfter(b, k)]
        /\ datalen' = [datalen EXCEPT ![b] = IF k = 0 THEN wl[p].len ELSE GARBAGE]
        /\ data' = [data EXCEPT ![b] = i0]
        /\ putDone' = putDone
    BY <1>2 DEF PutCopy, history
  <2>3. /\ k < n /\ (b0 = 0 => wl[p].old_tail = 0)
        /\ k > 0 => datalen[b0] = wl[p].len
        /\ \A x \in Stretch(b0, k) : data[x] = i0
    BY <1>g, <2>1 DEF Fills
  <2>4. b \in Blocks /\ b \in Filled(p)
    <3>1. b \in Blocks
      BY <1>t, <1>i, <2>3, QueueAssumption DEF Blocks
    <3>2. b0 <= b /\ b < b0 + n
      BY <1>t, <2>3 DEF Blocks
    <3> QED
      BY <3>1, <3>2, <1>g, <2>1 DEF Stretch
  <2>5. Filled(p)' = Filled(p)
    <3>1. Handed(p)' = Handed(p)
      BY <2>1 DEF Handed
    <3> QED
      BY <3>1, <1>w, <2>1 DEF Filled, Writing
  <2>6. Asks(p)'
    BY <2>1, <1>i DEF Asks
  <2>7. Fills(p)'
    <3>1. datalen'[b0] = wl[p].len
      BY <1>t, <2>2, <2>3, <2>4 DEF Blocks
    <3>2. \A x \in Stretch(b0, k + 1) : data'[x] = i0
      <4> SUFFICES ASSUME NEW x \in Stretch(b0, k + 1) PROVE data'[x] = i0
        OBVIOUS
      <4>1. x \in Blocks /\ b0 <= x /\ (x < b0 + k \/ x = b)
        <5>1. x \in Blocks /\ b0 <= x /\ x < b0 + (k + 1)
          BY DEF Stretch
        <5>2. x \in Int /\ b0 \in Int /\ k \in Int
          BY <5>1, <1>t DEF Blocks
        <5> QED
          BY ONLY <5>1, <5>2
      <4>2. CASE x = b
        BY <4>2, <2>2, <2>4, <1>t
      <4>3. CASE x # b
        <5>1. x \in Stretch(b0, k)
          BY <4>1, <4>3 DEF Stretch
        <5> QED
          BY <5>1, <4>1, <4>3, <2>2, <2>3, <1>t
      <4> QED
        BY <4>2, <4>3
    <3>3. IF wpc'[p] = "copy" THEN k + 1 < n ELSE k + 1 = n
      BY <1>t, <2>1, <2>3
    <3>4. \A x \in (Stretch(wl[p].idx, wl[p].k))' : data'[x] = i0
      BY <3>2, <2>1 DEF Stretch
    <3>5. wpc'[p] \in {"copy", "token"} /\ wpc'[p] # "skip"
      BY <2>1
    <3> QED
      BY <3>1, <3>3, <3>4, <3>5, <2>1, <2>2, <2>3, <1>i, <1>u DEF Fills, Writing
  <2>8. \A x \in Filled(p) : ~Marked(x)'
    <3> SUFFICES ASSUME NEW x \in Filled(p) PROVE start_token'[x] # TOKEN_HAS_DATA
      BY DEF Marked
    <3>1. x \in Blocks /\ start_token[x] # TOKEN_HAS_DATA
      BY <1>g DEF Marked
    <3>2. x = b => start_token'[x] = TokenAfter(b, k)
      BY <2>2, <2>4, <1>t
    <3>3. x # b => start_token'[x] = start_token[x]
      BY <3>1, <2>2, <1>t
    <3> QED
      BY <3>1, <3>2, <3>3 DEF TokenAfter, PAYLOAD, TOKEN_HAS_DATA
  <2>9. \A x \in Blocks : x \notin Filled(p) =>
             /\ start_token'[x] = start_token[x]
             /\ datalen'[x] = datalen[x] /\ data'[x] = data[x]
    BY <2>2, <2>4, <1>t
  <2> HIDE DEF b0
  <2> QED
    BY <1>t, <1>u, <1>w, <2>1, <2>2, <2>5, <2>6, <2>7, <2>8, <2>9, FillStep DEF b0
<1>3. CASE PutToken(p)
  <2>1. /\ wpc[p] = "token" /\ wpc'[p] = "idle"
        /\ \A q \in Writers \ {p} : wpc'[q] = wpc[q] /\ wl'[q] = wl[q]
    BY <1>3, <1>t DEF PutToken, PutReturn
  <2>2. /\ start_token' = [start_token EXCEPT ![b0] = TOKEN_HAS_DATA]
        /\ UNCHANGED <<datalen, data>>
        /\ putDone' = putDone \cup {i0}
    BY <1>3 DEF PutToken
  <2>3. /\ k = n /\ datalen[b0] = wl[p].len
        /\ \A x \in Stretch(b0, n) : data[x] = i0
    <3>1. k = n
      BY <1>g, <2>1 DEF Fills
    <3>2. k > 0
      BY <3>1, <1>t, <1>g
    <3> QED
      BY <3>1, <3>2, <1>g, <2>1 DEF Fills
  <2>4. ~Writing(p)' /\ Filled(p)' = {} /\ Asks(p)' /\ Fills(p)'
    BY <2>1 DEF Writing, Filled, Asks, Fills
  <2>5. data'[b0] = i0 /\ datalen'[b0] = lenOf'[i0]
    BY <1>g, <1>i, <1>u, <2>1, <2>2, <2>3
  <2>6. ASSUME NEW z \in Blocks, z = b0 PROVE Span(z)' = Filled(p) /\ Whole(z)'
    <3>1. Size(z)' = n
      BY <2>6, <2>5, <1>i, <1>u DEF Size
    <3>2. Span(z)' = Stretch(b0, n)
      BY <3>1, <2>6 DEF Span, Stretch
    <3>3. Whole(z)'
      <4>1. data'[z] = i0 /\ i0 \in putDone' /\ datalen'[z] = lenOf'[data'[z]]
        BY <2>5, <2>6, <2>2
      <4>2. z + n <= ele_count /\ \A x \in Stretch(b0, n) : data'[x] = i0
        BY <2>6, <1>i, <2>3, <2>2
      <4> QED
        BY <3>1, <3>2, <4>1, <4>2 DEF Whole
    <3> QED
      BY <3>2, <3>3, <1>g, <2>1
  <2>7. \A x \in Filled(p) : Marked(x)' => x = b0
    BY <1>g, <1>t, <2>2 DEF Marked
  <2>8. \A x \in Blocks : x \notin Filled(p) =>
             /\ start_token'[x] = start_token[x]
             /\ datalen'[x] = datalen[x] /\ data'[x] = data[x]
    BY <2>2, <1>g, <1>t
  <2>9. PICK z \in Blocks : z = wl[p].idx
    BY <1>t
  <2> QED
    BY <1>u, <1>w, <2>1, <2>2, <2>4, <2>5, <2>6, <2>7, <2>8, <2>9, FillStep
<1> QED
  BY <1>1, <1>2, <1>3

\* A reader that gives up a block passes no block of a live writer, not even
\* one in the middle of a message that is being copied: it would have passed
\* the first block before.
LEMMA NextIsFree ==
    ASSUME TypeInv, RingInv, MessageInv, Good, NEW r \in Readers, Current(r),
           UsedNodes(rl[r].old_head, rl[r].head) < Used,
           \A p \in Writers : rl[r].head \notin Unwritten(p)
    PROVE  \A p \in Writers : rl[r].head \notin Filled(p)
<1> DEFINE h == rl[r].head
<1> SUFFICES ASSUME NEW p \in Writers, h \in Filled(p) PROVE FALSE
  OBVIOUS
<1>1. /\ Counted /\ WritersApart /\ Asks(p) /\ Fills(p) /\ Scans(r)
      /\ Scanned(r) = Range(head_pos, h) /\ Scanned(r) \subseteq InUse
      /\ h \in Blocks /\ head_pos \in Blocks /\ tail_pos \in Blocks
      /\ wl[p].idx \in Blocks /\ wl[p].nr \in Nat
  BY InRing, ScanInUse DEF MessageInv, Layout, Locals, Good
<1>2. Writing(p)
  BY DEF Filled
<1>3. CASE wpc[p] = "skip"
  BY <1>2, <1>3 DEF Unwritten, Filled
<1>4. CASE wpc[p] # "skip"
  <2> DEFINE b == wl[p].idx
             n == wl[p].nr
  <2>1. b # h
    BY <1>2, <1>4 DEF Unwritten, Writing
  <2>2. n >= 1 /\ b \in Filled(p) /\ Filled(p) = Stretch(b, n) /\ b + n <= ele_count
    BY <1>1, <1>2, <1>4, FilledBlocks DEF Fills
  <2>3. Stretch(b, n) \subseteq Range(head_pos, tail_pos)
    BY <1>1, <2>2 DEF WritersApart, InUse
  <2>4. UsedNodes(head_pos, h) = UsedNodes(head_pos, b) + (h - b)
    BY <1>1, <2>2, <2>3, SpanInRange
  <2>5. b <= h /\ b \in Int /\ h \in Int
    BY <1>1, <2>2 DEF Stretch, Blocks
  <2>6. UsedNodes(head_pos, b) \in Nat /\ UsedNodes(head_pos, h) \in Nat
    BY <1>1, UsedInt
  <2> HIDE DEF b, h
  <2>7. UsedNodes(head_pos, b) < UsedNodes(head_pos, h)
    BY ONLY <2>1, <2>4, <2>5, <2>6
  <2>8. b \in Scanned(r)
    BY <1>1, <2>7 DEF Range, b
  <2> QED
    BY <1>1, <2>2, <2>8 DEF Scans
<1> QED
  BY <1>3, <1>4

\* The message that a reader looks at fits in the used part, so that it is
\* taken from its first block to its last.
LEMMA MessageFits ==
    ASSUME TypeInv, RingInv, MessageInv, Good, NEW r \in Readers, Current(r),
           rpc[r] = "fits"
    PROVE  Fits(r) /\ AddPos(rl[r].head, rl[r].nr) = rl[r].head + rl[r].nr
<1> DEFINE h == rl[r].head
           n == rl[r].nr
<1>1. /\ Counted /\ ReadersApart /\ Marks /\ Marked(h) /\ Span(h) \subseteq InUse
      /\ n = Size(h)
      /\ h \in Blocks /\ head_pos \in Blocks /\ tail_pos \in Blocks
  BY InRing DEF MessageInv, Layout, Locals, Scans, Size
<1>2. h \in InUse
  BY <1>1, WholeMessage DEF Marks
<1>3. n \in Nat /\ n >= 1 /\ h + n \in Blocks /\ UsedNodes(head_pos, h) + n <= Used
  BY <1>1, <1>2, SpanUsed
<1>4. UsedNodes(head_pos, h) \in Nat /\ Used \in Nat /\ UsedNodes(head_pos, tail_pos) = Used
  BY <1>1, UsedInt DEF Used
<1>5. UsedNodes(head_pos, h) <= UsedNodes(head_pos, tail_pos)
  BY <1>3, <1>4
<1>6. UsedNodes(h, tail_pos) = Used - UsedNodes(head_pos, h)
  BY <1>1, <1>4, <1>5, UsedSplit
<1>7. UsedNodes(h, tail_pos) >= n
  BY <1>3, <1>4, <1>6
<1>8. n \in Blocks /\ h + n <= ele_count
  BY <1>1, <1>3, QueueAssumption DEF Blocks
<1>9. AddPos(h, n) = h + n
  BY <1>1, <1>8, AddPosCases
<1> QED
  BY <1>7, <1>9 DEF Fits

\* sq_get up to its exchange of the head
LEMMA ScanningSteps ==
    ASSUME TypeInv, RingInv, MessageInv, NEW r \in Readers,
           \/ GetLoadHead(r) \/ GetTail(r) \/ GetTok1(r) \/ GetTok2(r) \/ GetRecheck(r)
           \/ GetTok3(r) \/ GetLen(r) \/ GetFits(r)
           \/ GetEndCAS(r) /\ KeepHead(r)
           \/ GetCAS(r) /\ KeepHead(r)
    PROVE  MessageInv'
<1> DEFINE h == rl[r].head
<1>t. /\ rl \in [Readers -> RLocals] /\ rpc \in [Readers -> ReaderPC]
      /\ rl[r].old_head \in Blocks /\ h \in Blocks /\ head_pos \in Blocks /\ tail_pos \in Blocks
  BY InRing DEF TypeInv, Inside, TypeOK, ReadersOK
<1>a. Good => Scans(r) /\ Takes(r) /\ ReaderRing(r) /\ Counted /\ ReadersApart /\ Marks
  BY DEF MessageInv, Locals, Layout, RingInv, Good
<1>k. MessageInv' \/ Good
  BY DEF MessageInv, Good, GetLoadHead, GetTail, GetTok1, GetTok2, GetRecheck, GetTok3, GetLen,
         GetFits, GetEndCAS, GetCAS, KeepHead, history
<1> SUFFICES ASSUME Good PROVE MessageInv'
  BY <1>k
<1>b. /\ Scans(r) /\ Takes(r) /\ ReaderRing(r) /\ Counted /\ ReadersApart /\ Marks
      /\ rpc[r] \in HoldsHead => rl[r].k = 0 /\ rl[r].buf = << >>
  BY <1>a DEF Takes
<1>c. rpc[r] \in HoldsHead => Current(r) \/ r \in passed
  BY DEF Current
<1>e. ASSUME rpc'[r] \in {"idle", "load"}
      PROVE  Scans(r)' /\ ~Taking(r)' /\ rpc'[r] \notin HoldsHead
  BY <1>e DEF Scans, Current, HoldsHead, Taking
<1>f. ASSUME rl'[r] = rl[r], rpc[r] \in HoldsHead, passed' = passed, Good' => Good,
             UNCHANGED <<shm, wvars>>
      PROVE  Current(r)' => /\ Current(r)
                            /\ \A b \in Scanned(r)' : ~Marked(b)' /\ \A p \in Writers : b \notin Filled(p)'
  <2>1. Current(r)' => Current(r)
    BY <1>f DEF Current
  <2>2. Scanned(r)' = Scanned(r)
    BY <1>f DEF Scanned, Range
  <2>3. \A b : Marked(b)' <=> Marked(b)
    BY <1>f DEF Marked, shm
  <2>4. \A p \in Writers : Filled(p)' = Filled(p)
    BY <1>f, SameWriter DEF wvars
  <2> QED
    BY <2>1, <2>2, <2>3, <2>4, <1>b DEF Scans
<1> USE DEF history
<1>1. CASE GetLoadHead(r)
  <2>1. /\ rpc'[r] = "tail"
        /\ rl'[r].old_head = head_pos /\ rl'[r].head = head_pos
        /\ rl'[r].k = 0 /\ rl'[r].buf = << >>
        /\ \A s \in Readers \ {r} : rpc'[s] = rpc[s] /\ rl'[s] = rl[s]
        /\ ~Taking(r)
    BY <1>1, <1>t DEF GetLoadHead, RGoto, RIdle, Taking
  <2>2. Scanned(r)' = {}
    <3>1. Scanned(r)' = Range(head_pos, head_pos)
      BY <2>1 DEF Scanned, Range
    <3> QED
      BY <3>1, <1>t, UsedSelf
  <2>3. Scans(r)'
    BY <2>1, <2>2 DEF Scans
  <2>4. ~Taking(r)'
    BY <2>1 DEF Taking
  <2>5. Good' => Good
    OBVIOUS
  <2> QED
    BY <1>1, <2>1, <2>3, <2>4, <2>5, QuietReader DEF GetLoadHead
<1>2. CASE GetTail(r)
  <2>1. /\ \/ rpc'[r] = "tok1" /\ rl'[r] = rl[r]
           \/ rpc'[r] = "endcas" /\ rl'[r] = rl[r] /\ h # rl[r].old_head
           \/ rpc'[r] = "idle"
        /\ \A s \in Readers \ {r} : rpc'[s] = rpc[s] /\ rl'[s] = rl[s]
        /\ rpc[r] = "tail"
        /\ UNCHANGED <<shm, wvars, history>>
    BY <1>2, <1>t DEF GetTail, RGoto, GetReturn
  <2>2. Scans(r)' /\ ~Taking(r)'
    <3>1. CASE rpc'[r] = "idle"
      BY <3>1, <1>e
    <3>2. CASE rpc'[r] # "idle"
      BY <3>2, <2>1, <1>f DEF Scans, Taking, HoldsHead, ReaderPC
    <3> QED
      BY <3>1, <3>2
  <2>3. rpc'[r] \in HoldsHead => rl'[r].k = 0 /\ rl'[r].buf = << >>
    BY <2>1, <1>b DEF HoldsHead, ReaderPC
  <2>4. ~Taking(r)
    BY <2>1 DEF Taking
  <2> QED
    BY <2>1, <2>2, <2>3, <2>4, QuietReader
<1>3. CASE GetTok1(r) \/ (GetTok3(r) /\ rl'[r] = rl[r])
  <2>1. /\ \/ rpc'[r] = "len" /\ Marked(h)
           \/ rpc'[r] = "tok2"
        /\ rl'[r] = rl[r]
        /\ \A s \in Readers \ {r} : rpc'[s] = rpc[s] /\ rl'[s] = rl[s]
        /\ rpc[r] \in {"tok1", "tok3"}
    <3>1. CASE GetTok1(r)
      BY <3>1, <1>t DEF GetTok1, RGoto, Marked, TokenAt
    <3>2. CASE GetTok3(r) /\ rl'[r] = rl[r]
      <4>1. AddPos(h, 1) # h
        <5>1. 1 \in Blocks
          BY QueueAssumption DEF Blocks
        <5> QED
          BY <5>1, <1>t, AddPosCases, QueueAssumption DEF Blocks
      <4>2. ~NextBlock(r)
        BY <3>2, <4>1, <1>t DEF NextBlock, RLocals
      <4> QED
        BY <3>2, <4>2, <1>t DEF GetTok3, RGoto, Marked, TokenAt
    <3> QED
      BY <1>3, <3>1, <3>2
  <2>2. UNCHANGED <<shm, wvars, nputs, lenOf, putDone, returned, passed, conflict, aba>> /\ (Good' => Good)
    BY <1>3 DEF GetTok1, GetTok3
  <2>3. rpc'[r] = "len" /\ Current(r) => Span(h) \subseteq InUse
    <3> SUFFICES ASSUME rpc'[r] = "len", Current(r) PROVE Span(h) \subseteq InUse
      OBVIOUS
    <3>1. UsedNodes(head_pos, h) < UsedNodes(head_pos, tail_pos)
      BY <1>b, <2>1 DEF ReaderRing, Current, Used
    <3>2. h \in InUse
      BY <3>1, <1>t DEF InUse, Range
    <3> QED
      BY <3>2, <1>b, <1>t, <2>1, MarkedInUse
  <2>4. Scans(r)'
    <3>1. /\ InUse' = InUse /\ (Marked(h)' <=> Marked(h)) /\ Span(h)' = Span(h)
      BY <2>1, <2>2, <1>t, SameBlocks DEF shm
    <3>2. rpc[r] \in HoldsHead
      BY <2>1 DEF HoldsHead, ReaderPC
    <3>3. Current(r)' => /\ Current(r)
                         /\ \A b \in Scanned(r)' : ~Marked(b)' /\ \A p \in Writers : b \notin Filled(p)'
      BY <2>1, <2>2, <3>2, <1>f
    <3>4. rpc'[r] = "len" /\ Current(r) => Marked(rl[r].head)' /\ Span(rl[r].head)' \subseteq InUse'
      BY <2>1, <2>3, <3>1 DEF Marked, Span, Size, Stretch
    <3> QED
      BY <2>1, <3>3, <3>4 DEF Scans
  <2>5. rl'[r].k = 0 /\ rl'[r].buf = << >> /\ ~Taking(r) /\ ~Taking(r)'
    BY <2>1, <1>b DEF HoldsHead, ReaderPC, Taking
  <2> QED
    BY <2>1, <2>2, <2>4, <2>5, QuietReader
<1>4. CASE GetTok2(r)
  <2>1. /\ rpc'[r] \in {"recheck", "tok3"} /\ rl'[r] = rl[r]
        /\ \A s \in Readers \ {r} : rpc'[s] = rpc[s] /\ rl'[s] = rl[s]
        /\ rpc[r] = "tok2"
        /\ UNCHANGED <<shm, wvars, history>>
    BY <1>4, <1>t DEF GetTok2, RGoto
  <2>2. rpc[r] \in HoldsHead /\ ~Taking(r) /\ ~Taking(r)'
    BY <2>1 DEF HoldsHead, ReaderPC, Taking
  <2>3. Scans(r)'
    BY <2>1, <2>2, <1>f DEF Scans
  <2> QED
    BY <2>1, <2>2, <2>3, <1>b, QuietReader
<1>5. CASE GetRecheck(r) \/ (GetEndCAS(r) /\ KeepHead(r)) \/ (GetCAS(r) /\ KeepHead(r))
  <2>1. /\ rpc'[r] \in {"idle", "load"}
        /\ \A s \in Readers \ {r} : rpc'[s] = rpc[s] /\ rl'[s] = rl[s]
        /\ rpc[r] \in {"recheck", "endcas", "cas"}
        /\ UNCHANGED <<shm, wvars, history>>
    <3> USE <1>t DEF KeepHead, GetAgain, GetReturn, shm, remains
    <3>1. CASE GetRecheck(r)
      BY <3>1 DEF GetRecheck
    <3>2. CASE GetEndCAS(r) /\ KeepHead(r)
      BY <3>2 DEF GetEndCAS, MoveHead
    <3>3. CASE GetCAS(r) /\ KeepHead(r)
      BY <3>3 DEF GetCAS, MoveHead
    <3> QED
      BY <1>5, <3>1, <3>2, <3>3
  <2>2. ~Taking(r)
    BY <2>1 DEF Taking
  <2> QED
    BY <2>1, <2>2, <1>e, QuietReader
<1>6. CASE NextBlock(r) /\ (GetTok3(r) \/ GetFits(r))
  <2>1. /\ rpc'[r] = "tail" /\ rl'[r].old_head = rl[r].old_head /\ rl'[r].head = AddPos(h, 1)
        /\ rl'[r].k = rl[r].k /\ rl'[r].buf = rl[r].buf
        /\ \A s \in Readers \ {r} : rpc'[s] = rpc[s] /\ rl'[s] = rl[s]
        /\ rpc[r] \in {"tok3", "fits"}
        /\ UNCHANGED <<shm, wvars, nputs, lenOf, putDone, returned, passed, conflict, aba>>
        /\ Good' => Good
    BY <1>6, <1>t DEF NextBlock, RGoto, GetTok3, GetFits, RLocals
  <2>2. ASSUME Good' PROVE Scans(r)'
    <3> SUFFICES ASSUME Current(r)'
                 PROVE  \A b \in Scanned(r)' : ~Marked(b)' /\ \A p \in Writers : b \notin Filled(p)'
      BY <2>1 DEF Scans
    <3>1. Current(r)
      BY <2>1 DEF Current, HoldsHead, ReaderPC
    <3>2. AddPos(h, 1) # h
      <4>1. 1 \in Blocks
        BY QueueAssumption DEF Blocks
      <4> QED
        BY <4>1, <1>t, AddPosCases, QueueAssumption DEF Blocks
    <3>3. rpc[r] = "tok3" /\ GetTok3(r)
      <4>1. CASE GetTok3(r)
        BY <4>1 DEF GetTok3
      <4>2. CASE GetFits(r)
        <5>1. rpc[r] = "fits" /\ Fits(r)
          BY <4>2, <3>1, MessageFits DEF GetFits
        <5>2. rpc'[r] = "cas"
          BY <4>2, <5>1, <1>t DEF GetFits, RGoto
        <5> QED
          BY <5>2, <2>1
      <4> QED
        BY <1>6, <4>1, <4>2
    <3>4. ~Marked(h) /\ (gaveUp' = (gaveUp \/ \E p \in Writers : h \in Unwritten(p)))
      BY <3>2, <3>3, <2>1, <1>t DEF GetTok3, RGoto, Marked, TokenAt
    <3>5. \A p \in Writers : h \notin Unwritten(p)
      BY <3>4, <2>2 DEF Good
    <3>6. /\ rl[r].old_head = head_pos
          /\ UsedNodes(rl[r].old_head, h) < UsedNodes(rl[r].old_head, tail_pos)
          /\ UsedNodes(rl[r].old_head, h) < Used
      BY <3>1, <3>3, <1>b DEF ReaderRing, Current, Used
    <3>7. \A p \in Writers : h \notin Filled(p)
      BY <3>1, <3>5, <3>6, NextIsFree
    <3>8. Scanned(r)' = Scanned(r) \cup {h}
      <4>1. Scanned(r)' = Range(rl[r].old_head, AddPos(h, 1))
        BY <2>1 DEF Scanned, Range
      <4> QED
        BY <4>1, <3>6, <1>t, RangeMore DEF Scanned
    <3>9. \A b : Marked(b)' <=> Marked(b)
      BY <2>1 DEF Marked, shm
    <3>10. \A p \in Writers : Filled(p)' = Filled(p)
      BY <2>1, SameWriter DEF wvars
    <3>11. \A b \in Scanned(r) : ~Marked(b) /\ \A p \in Writers : b \notin Filled(p)
      BY <3>1, <1>b DEF Scans
    <3> QED
      BY <3>4, <3>7, <3>8, <3>9, <3>10, <3>11
  <2>3. rl'[r].k = 0 /\ rl'[r].buf = << >> /\ ~Taking(r) /\ ~Taking(r)'
    BY <2>1, <1>b DEF HoldsHead, ReaderPC, Taking
  <2> QED
    BY <2>1, <2>2, <2>3, QuietReader
<1>7. CASE GetLen(r)
  <2>1. PICK l \in LenAt(h) : rl' = [rl EXCEPT ![r].len = l, ![r].nr = NumNeeded(l)]
    BY <1>7 DEF GetLen
  <2>a. /\ rl'[r].len = l /\ rl'[r].nr = NumNeeded(l)
    BY <2>1, <1>t DEF RLocals
  <2>b. rl'[r].old_head = rl[r].old_head /\ rl'[r].head = h
    BY <2>1, <1>t DEF RLocals
  <2>c. rl'[r].k = rl[r].k /\ rl'[r].buf = rl[r].buf
    BY <2>1, <1>t DEF RLocals
  <2>d. \A s \in Readers \ {r} : rpc'[s] = rpc[s] /\ rl'[s] = rl[s]
    BY <1>7, <2>1, <1>t DEF GetLen, RGoto
  <2>2. /\ rpc'[r] = "fits" /\ rl'[r].old_head = rl[r].old_head /\ rl'[r].head = h
        /\ rl'[r].k = rl[r].k /\ rl'[r].buf = rl[r].buf
        /\ rl'[r].len = l /\ rl'[r].nr = NumNeeded(l)
        /\ \A s \in Readers \ {r} : rpc'[s] = rpc[s] /\ rl'[s] = rl[s]
        /\ rpc[r] = "len"
        /\ UNCHANGED <<shm, wvars, history>>
    BY <1>7, <1>t, <2>a, <2>b, <2>c, <2>d DEF GetLen, RGoto
  <2>3. Scans(r)'
    <3> SUFFICES ASSUME Current(r)' PROVE Scans(r)'
      BY DEF Scans
    <3>1. Current(r)
      BY <2>2 DEF Current, HoldsHead, ReaderPC
    <3>2. /\ Marked(h) /\ Span(h) \subseteq InUse /\ Whole(h)
          /\ \A b \in Scanned(r) : ~Marked(b) /\ \A p \in Writers : b \notin Filled(p)
      BY <3>1, <2>2, <1>b, <1>t DEF Scans, Marks
    <3>3. l = lenOf[data[h]]
      <4>1. datalen[h] = lenOf[data[h]] /\ lenOf[data[h]] \in Lens
        BY <3>2, <1>b, <1>t, WholeMessage DEF Whole
      <4>2. datalen[h] # GARBAGE
        BY <4>1, QueueAssumption DEF GARBAGE
      <4> QED
        BY <4>1, <4>2, <2>1 DEF LenAt
    <3>4. /\ InUse' = InUse /\ (Marked(h)' <=> Marked(h)) /\ Span(h)' = Span(h)
      BY <2>2, <1>t, SameBlocks DEF shm
    <3>5. Marked(rl[r].head)' /\ Span(rl[r].head)' \subseteq InUse'
      BY <2>2, <3>2, <3>4 DEF Marked, Span, Size, Stretch
    <3>6. Scanned(r)' = Scanned(r)
      BY <2>2 DEF Scanned, Range
    <3>7. \A b : Marked(b)' <=> Marked(b)
      BY <2>2 DEF Marked, shm
    <3>8. \A p \in Writers : Filled(p)' = Filled(p)
      BY <2>2, SameWriter DEF wvars
    <3>9. lenOf'[data'[rl'[r].head]] = l
      BY <2>2, <3>3 DEF shm
    <3> QED
      BY <2>2, <3>2, <3>5, <3>6, <3>7, <3>8, <3>9 DEF Scans
  <2>4. rl'[r].k = 0 /\ rl'[r].buf = << >> /\ ~Taking(r) /\ ~Taking(r)'
    BY <2>2, <1>b DEF HoldsHead, ReaderPC, Taking
  <2> QED
    BY <2>2, <2>3, <2>4, QuietReader
<1>8. CASE GetFits(r) /\ ~NextBlock(r)
  <2>1. /\ rpc'[r] = "cas" /\ rl'[r].old_head = rl[r].old_head /\ rl'[r].head = h
        /\ rl'[r].k = rl[r].k /\ rl'[r].buf = rl[r].buf
        /\ rl'[r].len = rl[r].len /\ rl'[r].nr = rl[r].nr
        /\ rl'[r].new_head = AddPos(h, rl[r].nr)
        /\ \A s \in Readers \ {r} : rpc'[s] = rpc[s] /\ rl'[s] = rl[s]
        /\ rpc[r] = "fits"
        /\ UNCHANGED <<shm, wvars, history>>
    BY <1>8, <1>t DEF GetFits, RGoto, RLocals
  <2>2. Scans(r)'
    <3> SUFFICES ASSUME Current(r)' PROVE Scans(r)'
      BY DEF Scans
    <3>1. Current(r)
      BY <2>1 DEF Current, HoldsHead, ReaderPC
    <3>2. /\ Marked(h) /\ Span(h) \subseteq InUse
          /\ rl[r].len = lenOf[data[h]] /\ rl[r].nr = NumNeeded(rl[r].len)
          /\ \A b \in Scanned(r) : ~Marked(b) /\ \A p \in Writers : b \notin Filled(p)
      BY <3>1, <2>1, <1>b, <1>t DEF Scans
    <3>3. AddPos(h, rl[r].nr) = h + rl[r].nr
      BY <3>1, <2>1, MessageFits
    <3>4. /\ InUse' = InUse /\ (Marked(h)' <=> Marked(h)) /\ Span(h)' = Span(h)
      BY <2>1, <1>t, SameBlocks DEF shm
    <3>5. Marked(rl[r].head)' /\ Span(rl[r].head)' \subseteq InUse'
      BY <2>1, <3>2, <3>4 DEF Marked, Span, Size, Stretch
    <3>6. Scanned(r)' = Scanned(r)
      BY <2>1 DEF Scanned, Range
    <3>7. \A b : Marked(b)' <=> Marked(b)
      BY <2>1 DEF Marked, shm
    <3>8. \A p \in Writers : Filled(p)' = Filled(p)
      BY <2>1, SameWriter DEF wvars
    <3>9. lenOf'[data'[rl'[r].head]] = lenOf[data[h]]
      BY <2>1 DEF shm
    <3> QED
      BY <2>1, <3>2, <3>3, <3>5, <3>6, <3>7, <3>8, <3>9 DEF Scans
  <2>3. rl'[r].k = 0 /\ rl'[r].buf = << >> /\ ~Taking(r) /\ ~Taking(r)'
    BY <2>1, <1>b DEF HoldsHead, ReaderPC, Taking
  <2> QED
    BY <2>1, <2>2, <2>3, QuietReader
<1>9. GetTok3(r) => NextBlock(r) \/ rl'[r] = rl[r]
  BY DEF GetTok3
<1>10. CASE GetTok3(r)
  BY <1>3, <1>6, <1>9, <1>10
<1>11. CASE GetFits(r)
  BY <1>6, <1>8, <1>11
<1> QED
  BY <1>1, <1>2, <1>3, <1>4, <1>5, <1>7, <1>10, <1>11

\* Every step keeps the invariant, if readers finish what they have taken.
LEMMA NextMessages ==
    ASSUME ReadersFinish
    PROVE  TypeInv /\ RingInv /\ MessageInv /\ [Next]_vars => MessageInv'
<1> SUFFICES ASSUME TypeInv, RingInv, MessageInv, [Next]_vars PROVE MessageInv'
  OBVIOUS
<1>1. ASSUME NEW p \in Writers, Writer(p) \/ WriterCrash(p) PROVE MessageInv'
  <2>1. CASE PutCAS(p) /\ tail_pos = wl[p].old_tail
    BY <2>1, TakeTail DEF PutCAS, crashes
  <2>2. CASE PutSkip(p) \/ PutCopy(p) \/ PutToken(p)
    BY <2>2, FillingSteps
  <2>3. CASE \/ \E l \in Lens : PutStart(p, l)
             \/ PutLoadTail(p) \/ PutReadHead(p) \/ PutCheck(p) \/ PutAlloc(p) \/ PutWrap(p)
             \/ PutCAS(p) /\ tail_pos # wl[p].old_tail
             \/ WriterCrash(p)
    BY <2>3, AskingSteps
  <2> QED
    BY <1>1, <2>1, <2>2, <2>3 DEF Writer
<1>2. ASSUME NEW r \in Readers, Reader(r) \/ ReaderCrash(r) PROVE MessageInv'
  <2>t. /\ rl \in [Readers -> RLocals] /\ rpc \in [Readers -> ReaderPC]
        /\ rl[r].head \in Blocks
    BY InRing DEF TypeInv, TypeOK, ReadersOK
  <2>1. CASE GetEndCAS(r) /\ ~KeepHead(r)
    <3>1. /\ rpc[r] = "endcas" /\ MoveHead(r, rl[r].head)
          /\ rl' = [rl EXCEPT ![r].new_head = rl[r].head, ![r].len = 0]
          /\ rpc' = [rpc EXCEPT ![r] = "clear"]
          /\ UNCHANGED <<tail_pos, start_token, datalen, data, wvars>>
          /\ UNCHANGED <<nputs, lenOf, putDone, returned, conflict, gaveUp>>
      BY <2>1 DEF GetEndCAS, RGoto
    <3>2. rl'[r].new_head = rl[r].head /\ rl'[r].len = 0
      BY <3>1, <2>t DEF RLocals
    <3>3. rl'[r].old_head = rl[r].old_head /\ rl'[r].head = rl[r].head
      BY <3>1, <2>t DEF RLocals
    <3>4. rpc'[r] = "clear" /\ \A s \in Readers \ {r} : rpc'[s] = rpc[s] /\ rl'[s] = rl[s]
      BY <3>1, <2>t
    <3> QED
      BY <3>1, <3>2, <3>3, <3>4, <2>t, TakeHead
  <2>2. CASE GetCAS(r) /\ ~KeepHead(r)
    <3> SUFFICES ASSUME Good' PROVE MessageInv'
      BY DEF MessageInv
    <3>1. /\ rpc[r] = "cas" /\ MoveHead(r, rl[r].new_head)
          /\ \/ rl[r].len > buf_sz
             \/ rl[r].len < 0
             \/ RGoto(r, "copy") /\ UNCHANGED rl
          /\ UNCHANGED <<tail_pos, start_token, datalen, data, wvars>>
          /\ UNCHANGED <<nputs, lenOf, putDone, returned, conflict, gaveUp>>
      BY <2>2 DEF GetCAS
    <3>2. Good /\ Current(r)
      BY <3>1 DEF Good, MoveHead, Current, HoldsHead, ReaderPC
    <3>3. /\ Scans(r) /\ Takes(r) /\ Counted /\ Marks
          /\ rl[r].k = 0 /\ rl[r].buf = << >>
      BY <3>1, <3>2 DEF MessageInv, Layout, Locals, Scans, Takes, HoldsHead, ReaderPC
    <3>4. rl[r].len \in Lens /\ rl[r].new_head \in Blocks
      BY <3>1, <3>2, <3>3, TakenLength
    <3>5. ~(rl[r].len > buf_sz) /\ ~(rl[r].len < 0)
      <4>1. rl[r].len <= buf_sz
        BY <3>4 DEF ReadersFinish
      <4>2. rl[r].len \in Nat /\ buf_sz \in Nat
        BY <3>4, LensInBounds, QueueAssumption
      <4> QED
        BY ONLY <4>1, <4>2
    <3>6. rpc' = [rpc EXCEPT ![r] = "copy"] /\ rl' = rl
      BY <3>1, <3>5 DEF RGoto
    <3>7. rpc'[r] = "copy" /\ \A s \in Readers \ {r} : rpc'[s] = rpc[s] /\ rl'[s] = rl[s]
      BY <3>6, <2>t
    <3> QED
      BY <3>1, <3>3, <3>4, <3>6, <3>7, <2>t, TakeHead
  <2>3. CASE GetCopy(r)
    BY <2>3, CopyStep
  <2>4. CASE GetClear(r)
    BY <2>4, ClearStep
  <2>5. CASE ReaderCrash(r)
    BY <2>5, BoundAssumption DEF ReaderCrash, ReadersFinish, TypeInv, Inside, TypeOK, HistoryOK
  <2>6. CASE \/ GetLoadHead(r) \/ GetTail(r) \/ GetTok1(r) \/ GetTok2(r) \/ GetRecheck(r)
             \/ GetTok3(r) \/ GetLen(r) \/ GetFits(r)
             \/ GetEndCAS(r) /\ KeepHead(r)
             \/ GetCAS(r) /\ KeepHead(r)
    BY <2>6, ScanningSteps
  <2> QED
    BY <1>2, <2>1, <2>2, <2>3, <2>4, <2>5, <2>6 DEF Reader
<1>3. CASE UNCHANGED vars
  <2> USE <1>3 DEF vars, shm, wvars, rvars, history, remains, crashes
  <2>1. Good' <=> Good
    BY DEF Good
  <2>2. Layout' <=> Layout
    BY DEF Layout, Counted, WritersApart, ReadersApart, Marks, Marked, Whole, Span, Size,
           Stretch, InUse, Filled, Writing, Handed, Released, Taking, Range
  <2>3. Locals' <=> Locals
    BY DEF Locals, Asks, Fills, Scans, Takes, Marked, Span, Size, Stretch, InUse, Filled,
           Writing, Handed, Released, Taking, Range, Current, Scanned
  <2>4. Order' <=> Order
    BY DEF Order, Ordered, Older, Returns, InTurn, Alone, Holds, Marked, InUse, Writing,
           Carries, TakenId, Range, Buf
  <2> QED
    BY <2>1, <2>2, <2>3, <2>4 DEF MessageInv
<1> QED
  BY <1>1, <1>2, <1>3 DEF Next

\* Accidents are not forgotten.
LEMMA GoodBefore == [Next]_vars => (Good' => Good)
<1> SUFFICES ASSUME [Next]_vars
             PROVE  (conflict => conflict') /\ (gaveUp => gaveUp') /\ (aba => aba')
  BY DEF Good
<1> DEFINE Kept == (conflict => conflict') /\ (gaveUp => gaveUp') /\ (aba => aba')
<1> USE DEF history
<1>1. ASSUME NEW p \in Writers, Writer(p) \/ WriterCrash(p) PROVE Kept
  <2>1. CASE PutCAS(p)
    <3>1. gaveUp' = gaveUp
      BY <2>1 DEF PutCAS
    <3>2. conflict => conflict'
      BY <2>1, Zenon DEF PutCAS
    <3>3. aba => aba'
      BY <2>1, Zenon DEF PutCAS, MoveTail
    <3> QED
      BY <3>1, <3>2, <3>3
  <2>2. ASSUME NEW l \in Lens, PutStart(p, l) PROVE Kept
    BY <2>2 DEF PutStart
  <2>3. CASE PutLoadTail(p) \/ PutReadHead(p) \/ PutCheck(p) \/ PutAlloc(p) \/ PutWrap(p)
    BY <2>3 DEF PutLoadTail, PutReadHead, PutCheck, PutAlloc, PutWrap
  <2>4. CASE PutSkip(p) \/ PutCopy(p) \/ PutToken(p) \/ WriterCrash(p)
    BY <2>4 DEF PutSkip, PutCopy, PutToken, WriterCrash
  <2> QED
    BY <1>1, <2>1, <2>2, <2>3, <2>4 DEF Writer
<1>2. ASSUME NEW r \in Readers, Reader(r) \/ ReaderCrash(r) PROVE Kept
  <2>1. CASE GetEndCAS(r) \/ GetCAS(r)
    <3>1. conflict' = conflict /\ gaveUp' = gaveUp
      BY <2>1 DEF GetEndCAS, GetCAS
    <3>2. ASSUME NEW x, MoveHead(r, x) PROVE aba => aba'
      BY <3>2, Zenon DEF MoveHead
    <3>3. KeepHead(r) => aba' = aba
      BY DEF KeepHead
    <3> QED
      BY <2>1, <3>1, <3>2, <3>3 DEF GetEndCAS, GetCAS
  <2>2. CASE GetTok3(r)
    <3>1. conflict' = conflict /\ aba' = aba
      BY <2>2 DEF GetTok3
    <3>2. gaveUp => gaveUp'
      BY <2>2, Zenon DEF GetTok3
    <3> QED
      BY <3>1, <3>2
  <2>3. CASE ~(GetEndCAS(r) \/ GetCAS(r) \/ GetTok3(r))
    BY <1>2, <2>3
    DEF Reader, ReaderCrash, GetLoadHead, GetTail, GetTok1, GetTok2, GetRecheck, GetLen, GetFits,
        GetCopy, GetClear
  <2> QED
    BY <2>1, <2>2, <2>3
<1>3. CASE UNCHANGED vars
  BY <1>3 DEF vars
<1> QED
  BY <1>1, <1>2, <1>3 DEF Next

\* As long as there are none, only the lengths of messages move the head.
LEMMA StaysInRing ==
    TypeInv /\ MessageInv /\ [Next]_vars /\ Good /\ Good' /\ ~astray => ~astray'
<1> SUFFICES ASSUME TypeInv, MessageInv, [Next]_vars, Good, Good', ~astray PROVE ~astray'
  OBVIOUS
<1> USE DEF history, remains, Written, TakenForStart, Leaves
<1>1. ASSUME NEW p \in Writers, Writer(p) \/ WriterCrash(p) PROVE ~astray'
  BY <1>1, Zenon
  DEF Writer, WriterCrash, PutStart, PutLoadTail, PutReadHead, PutCheck, PutAlloc, PutWrap,
      PutCAS, PutSkip, PutCopy, PutToken
<1>2. ASSUME NEW r \in Readers, GetCAS(r), ~KeepHead(r) PROVE ~astray'
  <2>1. /\ rpc[r] = "cas" /\ MoveHead(r, rl[r].new_head)
        /\ astray' = (astray \/ rl[r].nr < 0)
    BY <1>2 DEF GetCAS
  <2>2. Current(r)
    BY <2>1 DEF Good, MoveHead, Current, HoldsHead, ReaderPC
  <2>3. rl[r].nr \in Nat
    BY <2>1, <2>2, TakenLength DEF MessageInv, Layout, Locals
  <2>4. ~(rl[r].nr < 0)
    BY ONLY <2>3
  <2> QED
    BY <2>1, <2>4, Zenon
<1>3. ASSUME NEW r \in Readers, Reader(r) \/ ReaderCrash(r), ~(GetCAS(r) /\ ~KeepHead(r))
      PROVE  ~astray'
  <2>1. CASE GetCAS(r) /\ KeepHead(r)
    <3>1. ~MoveHead(r, rl[r].new_head)
      BY <2>1 DEF MoveHead, KeepHead
    <3> QED
      BY <2>1, <3>1, Zenon DEF GetCAS
  <2> QED
    BY <1>3, <2>1, Zenon
    DEF Reader, ReaderCrash, GetLoadHead, GetTail, GetEndCAS, GetTok1, GetTok2, GetRecheck,
        GetTok3, GetLen, GetFits, GetCopy, GetClear
<1> QED
  BY <1>1, <1>2, <1>3 DEF Next, vars

\* The ring is sound and its messages are whole, from the beginning on, and as
\* long as there is no accident the head does not go astray.
MessagesHold == RingHolds /\ MessageInv /\ (Good => ~astray)

LEMMA MessagesHoldNow ==
    ASSUME MessagesHold, Good
    PROVE  TypeInv /\ RingInv /\ MessageInv
BY DEF MessagesHold, RingHolds, TypeInv, PlainInv

LEMMA InitHolds == Init => MessagesHold
BY InitRing, InitMessages DEF Init, MessagesHold

LEMMA MessagesHoldStep ==
    ASSUME ReadersFinish
    PROVE  MessagesHold /\ [Next]_vars => MessagesHold'
<1> SUFFICES ASSUME MessagesHold, [Next]_vars PROVE MessagesHold'
  OBVIOUS
<1>1. RingHolds'
  BY RingHoldsStep DEF MessagesHold
<1>2. CASE ~Good'
  BY <1>1, <1>2 DEF MessagesHold, MessageInv
<1>3. CASE Good'
  <2>1. Good
    BY <1>3, GoodBefore
  <2>2. TypeInv /\ RingInv /\ MessageInv /\ ~astray
    BY <2>1, MessagesHoldNow DEF MessagesHold
  <2>3. MessageInv' /\ ~astray'
    BY <1>3, <2>1, <2>2, NextMessages, StaysInRing
  <2> QED
    BY <1>1, <2>3 DEF MessagesHold
<1> QED
  BY <1>2, <1>3

LEMMA MessagesKept ==
    ASSUME ReadersFinish
    PROVE  Spec => []MessagesHold
<1>1. MessagesHold /\ [Next]_vars => MessagesHold'
  BY MessagesHoldStep
<1> QED
  BY <1>1, InitHolds, PTL DEF Spec

-----------------------------------------------------------------------------
(* What sq_get returns *)

\* Whatever sq_get returns is one whole message of a sq_put that has returned 0,
\* and no message is returned twice: for every size of the queue, any number of
\* writers and readers, and writers that die anywhere inside sq_put.
THEOREM MessagesIntact ==
    ASSUME ReadersFinish
    PROVE  Spec => []Intact
<1>1. MessagesHold => Intact
  <2> SUFFICES ASSUME Good, Returns PROVE Intact
    BY DEF MessagesHold, MessageInv, Order, Intact
  <2> QED
    BY DEF Returns, Intact
<1> QED
  BY <1>1, MessagesKept, PTL

\* A reader that has the queue for itself is given the messages in the order in
\* which the writers allocated them: the exchanges of the tail.
THEOREM MessagesInOrder ==
    ASSUME ReadersFinish, \A r, s \in Readers : r = s
    PROVE  Spec => []InOrder
<1>1. MessagesHold => InOrder
  BY DEF MessagesHold, MessageInv, Order, InTurn, Alone, InOrder
<1> QED
  BY <1>1, MessagesKept, PTL

\* "so that this node will not be treated as a starting node of data": outside
\* the used part of the ring, every block that is marked as the start of a
\* message is one that a reader is about to clear.
THEOREM NoMarkLeft ==
    ASSUME ReadersFinish
    PROVE  Spec => []NoStaleStart
<1>1. MessagesHold => NoStaleStart
  <2> SUFFICES ASSUME TypeInv, MessageInv, Good, NEW b \in Blocks, Marked(b)
               PROVE  b \in InUse \cup UNION {Busy(r) : r \in Readers}
    BY MessagesHoldNow DEF NoStaleStart, Marked, InUse
  <2>1. Marks /\ Counted
    BY DEF MessageInv, Layout
  <2>2. b \in Span(b)
    BY <2>1, WholeMessage DEF Marks
  <2>3. \A r \in Readers : Released(r) \subseteq Busy(r)
    BY DEF Released, Taking, Busy
  <2> QED
    BY <2>1, <2>2, <2>3 DEF Marks
<1> QED
  BY <1>1, MessagesKept, PTL

\* The head is the position of a block, "pointer for reading", in every queue
\* until a reader takes for corrupted what a live writer is filling, a block in
\* use by a reader is handed out, or an outdated position is exchanged: only then
\* can payload be taken for a length.
THEOREM HeadStaysInRing ==
    ASSUME ReadersFinish
    PROVE  Spec => [](Good => HeadInRing)
<1>1. MessagesHold => (Good => HeadInRing)
  BY DEF MessagesHold, RingHolds, Inside, HeadInRing
<1> QED
  BY <1>1, MessagesKept, PTL

-----------------------------------------------------------------------------
(* The reserve: how far behind the head a single reader can still be, and  *)
(* how far a writer stays away from it                                     *)

\* Twice n blocks fit in the reserve and the extra element of the ring.
Half(n) == 2 * n <= RESERVE_BLOCK_COUNT + 1

\* Every message fits twice in the reserve and the extra element.
HalfReserve == \A l \in Lens : Half(NumNeeded(l))

\* A message, complete or not, starts at block b.
Starts(b) ==
    \/ Marked(b) /\ b \in InUse
    \/ \E p \in Writers : Writing(p) /\ wl[p].idx = b

\* The blocks from x to the end of the ring were skipped by the writer of a
\* message that starts at block 0.
Gap(x) ==
    /\ x # 0 /\ Half(ele_count + 1 - x)
    /\ \A y \in Blocks : x <= y => y \in InUse /\ ~Starts(y)
    /\ Starts(0)

\* The messages lie in the used part one after the other, but for a gap: at x
\* it ends or the next one begins.
Goes(x) == x = tail_pos \/ Starts(x) \/ Gap(x)

Tiled ==
    /\ Goes(head_pos)
    /\ \A b \in Blocks : Marked(b) /\ b \in InUse => Goes(b + Size(b))
    /\ \A p \in Writers : Writing(p) => Goes(wl[p].idx + wl[p].nr)

\* A writer whose tail is the queue's leaves the reserve free, and starts at
\* block 0 only if the end of the ring is too short and the head is far enough.
Room(p) ==
    p \notin passed =>
        /\ wpc[p] \in {"alloc", "wrap", "cas"} =>
              Used + wl[p].nr + RESERVE_BLOCK_COUNT <= ele_count
        /\ wpc[p] = "wrap" => tail_pos + wl[p].nr > ele_count
        /\ wpc[p] = "cas" /\ wl[p].idx # wl[p].old_tail =>
              tail_pos + wl[p].nr > ele_count /\ wl[p].nr < head_pos

\* The reader passes over nothing but a gap, and so never finds the tail.
Skims(r) ==
    rpc[r] \in HoldsHead =>
        /\ rpc[r] # "endcas"
        /\ rl[r].head # rl[r].old_head =>
              Gap(rl[r].old_head) /\ (rl[r].head > rl[r].old_head \/ rl[r].head = 0)

\* What it has taken lies right behind the head and is short, on either side of
\* the end of the ring.
Short(r) ==
    Taking(r) =>
        /\ rl[r].new_head = head_pos
        /\ IF rl[r].old_head < rl[r].new_head
           THEN Half(rl[r].new_head - rl[r].old_head)
           ELSE Half(rl[r].new_head) /\ Half(ele_count + 1 - rl[r].old_head)

Reserved ==
    /\ Tiled
    /\ \A p \in Writers : Room(p)
    /\ \A r \in Readers : Skims(r) /\ Short(r)

\* No writer has died or was given up, and no outdated position was exchanged.
Calm == ~gaveUp /\ ~aba /\ wcrashes = 0

ReserveInv ==
    /\ \A r \in Readers : r \notin passed
    /\ Calm => ~conflict /\ Reserved

\* A state of the proof below: everything known of a queue without accidents
Steady ==
    /\ TypeInv /\ RingInv /\ Calm /\ ~conflict
    /\ Layout /\ Locals /\ Order /\ Reserved
    /\ \A r \in Readers : r \notin passed

\* A message starts in the used part of the ring ...
LEMMA StartsInUse ==
    ASSUME Steady, NEW b, Starts(b)
    PROVE  b \in Blocks /\ b \in InUse
<1>1. CASE Marked(b) /\ b \in InUse
  BY <1>1 DEF InUse, Range
<1>2. CASE \E p \in Writers : Writing(p) /\ wl[p].idx = b
  <2> PICK p \in Writers : Writing(p) /\ wl[p].idx = b
    BY <1>2
  <2>1. wl[p].idx \in Filled(p)
    BY FilledBlocks DEF Steady, Layout, Locals
  <2>2. Filled(p) \subseteq InUse
    BY DEF Steady, Layout, WritersApart
  <2> QED
    BY <2>1, <2>2 DEF InUse, Range
<1> QED
  BY <1>1, <1>2 DEF Starts

\* ... and is marked unless its writer has yet to do so.
LEMMA StartsUnwritten ==
    ASSUME Steady, NEW b \in Blocks, Starts(b), ~Marked(b)
    PROVE  \E p \in Writers : b \in Unwritten(p)
<1> PICK p \in Writers : Writing(p) /\ wl[p].idx = b
  BY DEF Starts
<1>1. b \in Filled(p)
  BY FilledBlocks DEF Steady, Layout, Locals
<1>2. b \in Unwritten(p)
  BY <1>1 DEF Unwritten, Filled, Writing
<1> QED
  BY <1>2

\* A gap begins ahead of the head: the blocks in it, and block 0 after them,
\* are as far from the head as their numbers say.
LEMMA GapAhead ==
    ASSUME Steady, NEW x \in Blocks, Gap(x)
    PROVE  /\ \A y \in Blocks : x <= y =>
                UsedNodes(head_pos, x) <= UsedNodes(head_pos, y)
           /\ UsedNodes(head_pos, x) <= UsedNodes(head_pos, 0)
           /\ x \in InUse /\ 0 \in InUse
<1>0. /\ head_pos \in Blocks /\ tail_pos \in Blocks
      /\ ele_count \in Nat /\ ele_count \in Blocks /\ 0 \in Blocks
  BY InRing, QueueAssumption DEF Steady, Blocks
<1>1. Used \in Blocks
  BY <1>0, UsedCases DEF Used
<1>2. \A y \in Blocks : x <= y => y \in InUse
  BY DEF Gap
<1>3. \A y \in Blocks : y \in InUse => UsedNodes(head_pos, y) < ele_count
  BY <1>0, <1>1, UsedCases DEF InUse, Range, Used, Blocks
<1>4. head_pos <= x
  <2> SUFFICES ASSUME head_pos > x PROVE FALSE
    BY <1>0 DEF Blocks
  <2>1. head_pos - 1 \in Blocks /\ x <= head_pos - 1
    BY <1>0 DEF Blocks
  <2>2. UsedNodes(head_pos, head_pos - 1) = ele_count
    BY <1>0, <2>1, UsedCases DEF Blocks
  <2>3. UsedNodes(head_pos, head_pos - 1) < ele_count
    BY <2>1, <1>2, <1>3
  <2> QED
    BY <2>2, <2>3, <1>0
<1>5. head_pos # 0
  <2> SUFFICES ASSUME head_pos = 0 PROVE FALSE
    OBVIOUS
  <2>1. UsedNodes(head_pos, ele_count) = ele_count
    BY <1>0, UsedCases DEF Blocks
  <2>2. UsedNodes(head_pos, ele_count) < ele_count
    BY <1>0, <1>2, <1>3 DEF Blocks
  <2> QED
    BY <2>1, <2>2, <1>0
<1>6. \A y \in Blocks : x <= y => UsedNodes(head_pos, y) = y - head_pos
  BY <1>0, <1>4, UsedCases DEF Blocks
<1>7. UsedNodes(head_pos, 0) = ele_count + 1 - head_pos
  BY <1>0, <1>5, UsedCases DEF Blocks
<1>8. UsedNodes(head_pos, x) = x - head_pos
  BY <1>6 DEF Blocks
<1>9. \A y \in Blocks : x <= y => UsedNodes(head_pos, x) <= UsedNodes(head_pos, y)
  BY <1>0, <1>6, <1>8 DEF Blocks
<1>10. UsedNodes(head_pos, x) <= UsedNodes(head_pos, 0)
  BY <1>0, <1>7, <1>8 DEF Blocks
<1>11. x \in InUse /\ 0 \in InUse
  BY <1>2, StartsInUse DEF Gap, Blocks
<1> QED
  BY <1>9, <1>10, <1>11

\* A gap stays one while its blocks and the message after it are in use and no
\* message is put in the middle of it.
LEMMA GapKept ==
    ASSUME NEW x, Gap(x), Starts(0)',
           \A y \in Blocks : x <= y => y \in InUse',
           \A y \in Blocks : Starts(y)' => Starts(y) \/ y \notin InUse
    PROVE  Gap(x)'
BY DEF Gap, Half

\* Where the messages start and the ring begins and ends, nothing has changed.
LEMMA SameTiles ==
    ASSUME UNCHANGED <<head_pos, tail_pos>>,
           \A b \in Blocks : Starts(b)' <=> Starts(b)
    PROVE  /\ InUse' = InUse
           /\ \A x \in Blocks : (Gap(x)' <=> Gap(x)) /\ (Goes(x)' <=> Goes(x))
<1>1. InUse' = InUse
  BY DEF InUse, Range
<1>2. 0 \in Blocks
  BY QueueAssumption DEF Blocks
<1>3. \A x \in Blocks : Gap(x)' <=> Gap(x)
  BY <1>1, <1>2 DEF Gap, Half
<1> QED
  BY <1>1, <1>3 DEF Goes

\* A step that leaves the positions and the messages in use alone
LEMMA ReserveKept ==
    ASSUME Steady, UNCHANGED <<head_pos, tail_pos, conflict>>,
           \A b \in Blocks : Starts(b)' <=> Starts(b),
           \A b \in Blocks : (Marked(b) /\ b \in InUse)' =>
               \/ Marked(b) /\ Size(b)' = Size(b)
               \/ \E p \in Writers : Writing(p) /\ wl[p].idx = b /\ wl[p].nr = Size(b)',
           \A p \in Writers : Writing(p)' =>
               Writing(p) /\ wl'[p].idx = wl[p].idx /\ wl'[p].nr = wl[p].nr,
           \A p \in Writers : Room(p)',
           \A r \in Readers : Skims(r)' /\ Short(r)'
    PROVE  ~conflict' /\ Reserved'
<1>1. /\ InUse' = InUse
      /\ \A x \in Blocks : (Gap(x)' <=> Gap(x)) /\ (Goes(x)' <=> Goes(x))
  BY SameTiles
<1>2. Tiled
  BY DEF Steady, Reserved
<1>3. Goes(head_pos)'
  <2>1. head_pos \in Blocks /\ Goes(head_pos)
    BY <1>2, InRing DEF Steady, Tiled
  <2>2. \A x : x = head_pos => (Goes(x)' <=> Goes(head_pos)')
    OBVIOUS
  <2> QED
    BY <2>1, <1>1
<1>4. ASSUME NEW b \in Blocks, Marked(b)', b \in InUse'
      PROVE  Goes(b + Size(b))'
  <2>1. PICK n : /\ n = Size(b)'
                 /\ \/ Marked(b) /\ b \in InUse /\ n = Size(b)
                    \/ \E p \in Writers : Writing(p) /\ wl[p].idx = b /\ wl[p].nr = n
    BY <1>4, <1>1
  <2>2. b + n \in Blocks /\ Goes(b + n)
    <3>1. CASE Marked(b) /\ b \in InUse /\ n = Size(b)
      <4>1. b + Size(b) \in Blocks
        BY <3>1, SpanUsed DEF Steady, Layout
      <4> QED
        BY <3>1, <4>1, <1>2 DEF Tiled
    <3>2. CASE \E p \in Writers : Writing(p) /\ wl[p].idx = b /\ wl[p].nr = n
      <4> PICK p \in Writers : Writing(p) /\ wl[p].idx = b /\ wl[p].nr = n
        BY <3>2
      <4>1. Fills(p) /\ wl[p].nr \in Nat /\ wl[p].idx \in Nat
        BY InRing DEF Steady, Locals, Blocks
      <4>2. wl[p].idx + wl[p].nr \in Blocks
        BY <4>1, QueueAssumption DEF Fills, Blocks
      <4> QED
        BY <4>2, <1>2 DEF Tiled
    <3> QED
      BY <2>1, <3>1, <3>2
  <2>3. Goes(b + n)'
    BY <2>2, <1>1
  <2> QED
    BY <2>1, <2>3
<1>5. ASSUME NEW p \in Writers, Writing(p)'
      PROVE  Goes(wl[p].idx + wl[p].nr)'
  <2>1. Writing(p) /\ wl'[p].idx = wl[p].idx /\ wl'[p].nr = wl[p].nr
    BY <1>5
  <2>2. Fills(p) /\ wl[p].nr \in Nat /\ wl[p].idx \in Nat
    BY InRing DEF Steady, Locals, Blocks
  <2>3. wl[p].idx + wl[p].nr \in Blocks /\ Goes(wl[p].idx + wl[p].nr)
    BY <2>1, <2>2, <1>2, QueueAssumption DEF Fills, Blocks, Tiled
  <2>4. \A x : x = wl[p].idx + wl[p].nr => (Goes(wl[p].idx + wl[p].nr)' <=> Goes(x)')
    BY <2>1
  <2> QED
    BY <2>3, <2>4, <1>1
<1>6. Tiled'
  BY <1>3, <1>4, <1>5 DEF Tiled
<1> QED
  BY <1>6 DEF Reserved, Steady

\* A reader's own locals are as they were, and so is what they say of the ring.
LEMMA SameReserve ==
    ASSUME Steady, UNCHANGED <<head_pos, tail_pos>>,
           \A b \in Blocks : Starts(b)' <=> Starts(b),
           NEW r \in Readers, rpc'[r] = rpc[r], rl'[r] = rl[r]
    PROVE  Skims(r)' /\ Short(r)'
<1>1. Skims(r) /\ Short(r) /\ rl[r].old_head \in Blocks
  BY InRing DEF Steady, Reserved
<1>2. Gap(rl[r].old_head)' <=> Gap(rl[r].old_head)
  <2>1. \A x : x = rl[r].old_head => (Gap(rl[r].old_head)' <=> Gap(x)')
    OBVIOUS
  <2> QED
    BY <2>1, <1>1, SameTiles
<1>3. Skims(r)'
  BY <1>1, <1>2 DEF Skims
<1>4. Short(r)'
  BY <1>1 DEF Short, Taking, Half
<1> QED
  BY <1>3, <1>4

\* A step of a writer before its exchange of the tail
LEMMA AskingReserve ==
    ASSUME Steady, NEW p \in Writers,
           UNCHANGED <<shm, rvars, lenOf, conflict>>,
           passed' \in {passed, passed \ {p}},
           \A q \in Writers \ {p} : wpc'[q] = wpc[q] /\ wl'[q] = wl[q],
           ~Writing(p), ~Writing(p)', Room(p)'
    PROVE  ~conflict' /\ Reserved'
<1>u. UNCHANGED <<head_pos, tail_pos, start_token, datalen, data, rpc, rl>>
  BY DEF shm, rvars
<1>1. \A q \in Writers : /\ Writing(q)' <=> Writing(q)
                         /\ Writing(q) => wl'[q] = wl[q]
  BY SameWriter
<1>2. \A b \in Blocks : Starts(b)' <=> Starts(b)
  BY <1>u, <1>1 DEF Starts, Marked, InUse, Range
<1>3. \A b \in Blocks : (Marked(b) /\ b \in InUse)' => Marked(b) /\ Size(b)' = Size(b)
  BY <1>u DEF Marked, Size
<1>4. \A q \in Writers : Room(q)'
  <2> SUFFICES ASSUME NEW q \in Writers, q # p PROVE Room(q)'
    OBVIOUS
  <2>1. Room(q) /\ wpc'[q] = wpc[q] /\ wl'[q] = wl[q] /\ (q \in passed' <=> q \in passed)
    BY DEF Steady, Reserved
  <2> QED
    BY <2>1, <1>u DEF Room, Used
<1>5. \A r \in Readers : Skims(r)' /\ Short(r)'
  BY <1>u, <1>2, SameReserve
<1> QED
  BY <1>u, <1>1, <1>2, <1>3, <1>4, <1>5, ReserveKept

\* sq_put up to its exchange of the tail: the writer finds the reserve free.
LEMMA AskingStepsReserve ==
    ASSUME Steady, NEW p \in Writers,
           \/ \E l \in Lens : PutStart(p, l)
           \/ PutLoadTail(p) \/ PutReadHead(p) \/ PutCheck(p) \/ PutAlloc(p) \/ PutWrap(p)
           \/ PutCAS(p) /\ tail_pos # wl[p].old_tail
    PROVE  ~conflict' /\ Reserved'
<1>0. /\ WriterRing(p) /\ Room(p) /\ Asks(p)
      /\ wpc \in [Writers -> WriterPC] /\ wl \in [Writers -> WLocals]
      /\ head_pos \in Blocks /\ tail_pos \in Blocks /\ ele_count \in Nat
      /\ RESERVE_BLOCK_COUNT \in Nat /\ wl[p].h \in Blocks
  BY QueueAssumption DEF Steady, Calm, RingInv, Reserved, Locals, TypeInv, Inside, TypeOK, WritersOK, RingOK
<1>1. wl[p].nr \in Nat /\ wl[p].h \in Blocks /\ wl[p].old_tail \in Blocks /\ Used \in Blocks
  BY <1>0, UsedCases DEF WLocals, Used
<1>2. ASSUME NEW l \in Lens, PutStart(p, l) PROVE ~conflict' /\ Reserved'
  <2>1. wpc[p] = "idle" /\ wpc'[p] = "load"
    BY <1>2, <1>0 DEF PutStart
  <2> QED
    BY <1>2, <2>1, <1>0, AskingReserve DEF PutStart, Writing, Room, history
<1>3. CASE PutLoadTail(p)
  <2>1. wpc[p] = "load" /\ wpc'[p] = "head"
    BY <1>3, <1>0 DEF PutLoadTail
  <2> QED
    BY <1>3, <2>1, <1>0, AskingReserve DEF PutLoadTail, Writing, Room
<1>4. CASE PutReadHead(p)
  <2>1. wpc[p] = "head" /\ wpc'[p] = "check"
    BY <1>4, <1>0 DEF PutReadHead
  <2> QED
    BY <1>4, <2>1, <1>0, AskingReserve DEF PutReadHead, Writing, Room, history
<1>5. CASE PutCheck(p)
  <2>1. wpc[p] = "check" /\ wpc'[p] \in {"alloc", "idle"}
    BY <1>5, <1>0 DEF PutCheck, PutReturn
  <2>2. CASE wpc'[p] = "idle"
    BY <1>5, <2>1, <2>2, <1>0, AskingReserve DEF PutCheck, PutReturn, Writing, Room, history
  <2>3. CASE wpc'[p] = "alloc"
    <3>1. Enough(wl[p].h, tail_pos, wl[p].nr) /\ wl' = wl
      BY <1>5, <2>3, <1>0 DEF PutCheck, PutReturn
    <3>2. EmptyNodes(wl[p].h, tail_pos) \in Nat
      BY <1>0, <1>1, EmptyInt
    <3>3. UsedNodes(wl[p].h, tail_pos) + wl[p].nr + RESERVE_BLOCK_COUNT <= ele_count
      BY <3>1, <3>2, <1>0, <1>1 DEF Enough, UsedNodes
    <3>4. UsedNodes(wl[p].h, tail_pos) \in Blocks
      BY <1>0, <1>1, UsedCases
    <3>5. p \notin passed => Used + wl[p].nr + RESERVE_BLOCK_COUNT <= ele_count
      BY <3>3, <3>4, <2>1, <1>0, <1>1 DEF WriterRing, Blocks
    <3>6. passed' = passed /\ Used' = Used
      BY <1>5 DEF PutCheck, history, shm, Used
    <3>7. Room(p)'
      BY <2>3, <3>1, <3>5, <3>6 DEF Room
    <3> QED
      BY <1>5, <2>1, <2>3, <3>7, <1>0, AskingReserve DEF PutCheck, PutReturn, Writing, history
  <2> QED
    BY <2>1, <2>2, <2>3
<1>6. CASE PutAlloc(p)
  <2>1. /\ wpc[p] = "alloc"
        /\ wpc'[p] = IF AddPos(tail_pos, wl[p].nr) < wl[p].old_tail THEN "wrap" ELSE "cas"
        /\ wl'[p].idx = wl[p].old_tail /\ wl'[p].nr = wl[p].nr
        /\ wl'[p].old_tail = wl[p].old_tail
    BY <1>6, <1>0 DEF PutAlloc, WLocals
  <2>2. passed' = passed /\ Used' = Used /\ tail_pos' = tail_pos /\ head_pos' = head_pos
    BY <1>6 DEF PutAlloc, history, shm, Used
  <2>3. p \notin passed /\ wpc'[p] = "wrap" => tail_pos + wl[p].nr > ele_count
    <3> SUFFICES ASSUME p \notin passed, wpc'[p] = "wrap"
                 PROVE  tail_pos + wl[p].nr > ele_count
      OBVIOUS
    <3>1. Used + wl[p].nr <= ele_count /\ wl[p].old_tail = tail_pos
      BY <2>1, <1>0 DEF WriterRing, HoldsTail
    <3>2. wl[p].nr \in Blocks
      BY <3>1, <1>0, <1>1 DEF Blocks
    <3>3. AddPos(tail_pos, wl[p].nr) < tail_pos
      BY <2>1, <3>1
    <3> QED
      BY <3>2, <3>3, <1>0, AddPosCases DEF Blocks
  <2>4. Room(p)'
    BY <2>1, <2>2, <2>3, <1>0 DEF Room
  <2> QED
    BY <1>6, <2>1, <2>4, <1>0, AskingReserve DEF PutAlloc, Writing, history
<1>7. CASE PutWrap(p)
  <2>1. wpc[p] = "wrap" /\ wpc'[p] \in {"cas", "idle"}
    BY <1>7, <1>0 DEF PutWrap, PutReturn
  <2>2. CASE wpc'[p] = "idle"
    BY <1>7, <2>1, <2>2, <1>0, AskingReserve DEF PutWrap, PutReturn, Writing, Room, history
  <2>3. CASE wpc'[p] = "cas"
    <3>1. RoomBeforeHead(wl[p].nr) /\ wl'[p].nr = wl[p].nr
      BY <1>7, <2>3, <1>0 DEF PutWrap, PutReturn, WLocals
    <3>2. wl[p].nr < head_pos
      BY <3>1, <1>0, <1>1 DEF RoomBeforeHead, Blocks
    <3>3. passed' = passed /\ Used' = Used /\ tail_pos' = tail_pos /\ head_pos' = head_pos
      BY <1>7 DEF PutWrap, history, shm, Used
    <3>4. Room(p)'
      BY <2>1, <2>3, <3>1, <3>2, <3>3, <1>0 DEF Room
    <3> QED
      BY <1>7, <2>1, <2>3, <3>4, <1>0, AskingReserve DEF PutWrap, PutReturn, Writing, history
  <2> QED
    BY <2>1, <2>2, <2>3
<1>8. CASE PutCAS(p) /\ tail_pos # wl[p].old_tail
  <2>1. /\ wpc[p] = "cas" /\ wpc' = [wpc EXCEPT ![p] = "load"]
        /\ UNCHANGED <<shm, wl, history, rvars>>
    BY <1>8 DEF PutCAS, MoveTail
  <2>2. wpc'[p] = "load"
    BY <2>1, <1>0
  <2> QED
    BY <2>1, <2>2, <1>0, AskingReserve DEF Writing, Room, history
<1> QED
  BY <1>2, <1>3, <1>4, <1>5, <1>6, <1>7, <1>8

\* sq_put after its exchange of the tail: the message that is being filled
\* starts where it will be marked.
LEMMA FillingStepsReserve ==
    ASSUME Steady, NEW p \in Writers, PutSkip(p) \/ PutCopy(p) \/ PutToken(p)
    PROVE  ~conflict' /\ Reserved'
<1> DEFINE b0 == wl[p].idx
           k == wl[p].k
           i0 == wl[p].id
<1>u. /\ UNCHANGED <<head_pos, tail_pos, rpc, rl, lenOf, conflict, passed>>
      /\ \A q \in Writers \ {p} : wpc'[q] = wpc[q] /\ wl'[q] = wl[q]
  BY DEF PutSkip, PutCopy, PutToken, PutReturn, history, rvars, Steady, TypeInv, Inside, TypeOK, WritersOK
<1>t. /\ wl \in [Writers -> WLocals] /\ wpc \in [Writers -> WriterPC]
      /\ start_token \in [Blocks -> Tokens] /\ data \in [Blocks -> 0 .. MaxPuts]
      /\ wl[p].old_tail \in Blocks /\ b0 \in Blocks /\ k \in Nat /\ wl[p].nr \in Nat
  BY InRing DEF Steady, TypeInv, Inside, TypeOK, WritersOK, RingOK
<1>w. Writing(p) /\ wpc[p] \in {"skip", "copy", "token"}
  BY DEF PutSkip, PutCopy, PutToken, Writing
<1>g. /\ Asks(p) /\ Fills(p) /\ b0 \in Filled(p)
      /\ wpc[p] = "skip" =>
           Filled(p) = Stretch(0, wl[p].nr) \cup {x \in Blocks : wl[p].old_tail <= x}
      /\ wpc[p] # "skip" => Filled(p) = Stretch(b0, wl[p].nr)
      /\ \A x \in Blocks : x \in Filled(p) => ~Marked(x) /\ x \in InUse
  <2>1. Counted /\ Marks /\ Asks(p) /\ Fills(p) /\ Filled(p) \subseteq InUse
    BY DEF Steady, Layout, Locals, WritersApart
  <2> QED
    BY <2>1, <1>w, FilledUnmarked, FilledBlocks DEF Steady
<1>1. \A q \in Writers : Room(q)'
  <2> SUFFICES ASSUME NEW q \in Writers PROVE Room(q)'
    OBVIOUS
  <2>1. CASE q = p
    <3>1. wpc'[p] \notin {"alloc", "wrap", "cas"}
      BY <1>t DEF PutSkip, PutCopy, PutToken, PutReturn
    <3> QED
      BY <2>1, <3>1 DEF Room
  <2>2. CASE q # p
    <3>1. Room(q) /\ wpc'[q] = wpc[q] /\ wl'[q] = wl[q] /\ passed' = passed
      BY <2>2, <1>u DEF Steady, Reserved
    <3> QED
      BY <3>1, <1>u DEF Room, Used
  <2> QED
    BY <2>1, <2>2
<1>2. \A q \in Writers \ {p} : (Writing(q)' <=> Writing(q)) /\ wl'[q] = wl[q]
  BY <1>u, SameWriter
<1>3. InUse' = InUse
  BY <1>u DEF InUse, Range
<1>4. ASSUME Writing(p)', wl'[p].idx = b0, wl'[p].nr = wl[p].nr,
             \A x \in Blocks : Marked(x)' <=> Marked(x),
             \A x \in Blocks : Marked(x) => data'[x] = data[x]
      PROVE  ~conflict' /\ Reserved'
  <2>1. \A b \in Blocks : Starts(b)' <=> Starts(b)
    BY <1>2, <1>3, <1>4, <1>w DEF Starts
  <2>2. \A b \in Blocks : (Marked(b) /\ b \in InUse)' => Marked(b) /\ Size(b)' = Size(b)
    BY <1>4, <1>u DEF Size
  <2>3. \A q \in Writers : Writing(q)' =>
            Writing(q) /\ wl'[q].idx = wl[q].idx /\ wl'[q].nr = wl[q].nr
    BY <1>2, <1>4, <1>w
  <2> QED
    BY <2>1, <2>2, <2>3, <1>1, <1>u, SameReserve, ReserveKept
<1>5. CASE PutSkip(p)
  <2>1. /\ wpc[p] = "skip" /\ wpc'[p] \in {"copy", "skip"}
        /\ wl'[p].idx = b0 /\ wl'[p].nr = wl[p].nr
        /\ start_token' = [start_token EXCEPT ![wl[p].old_tail] = TOKEN_SKIPPED]
        /\ UNCHANGED data
    BY <1>5, <1>t DEF PutSkip, WLocals
  <2>2. ~Marked(wl[p].old_tail)
    BY <2>1, <1>g, <1>t, QueueAssumption DEF Blocks
  <2>3. \A x \in Blocks : Marked(x)' <=> Marked(x)
    BY <2>1, <2>2, <1>t DEF Marked, TOKEN_SKIPPED, TOKEN_HAS_DATA
  <2> QED
    BY <2>1, <2>3, <1>4 DEF Writing
<1>6. CASE PutCopy(p)
  <2> DEFINE b == b0 + k
  <2>1. /\ wpc[p] = "copy" /\ wpc'[p] \in {"copy", "token"}
        /\ wl'[p].idx = b0 /\ wl'[p].nr = wl[p].nr
        /\ start_token' = [start_token EXCEPT ![b] = TokenAfter(b, k)]
        /\ data' = [data EXCEPT ![b] = i0]
    BY <1>6, <1>t DEF PutCopy, WLocals
  <2>2. k < wl[p].nr /\ b0 + wl[p].nr <= ele_count
    BY <2>1, <1>g, <1>w DEF Fills
  <2>3. b \in Blocks
    BY <1>t, <2>2, QueueAssumption, SMTT(30) DEF Blocks
  <2>4. b0 <= b /\ b < b0 + wl[p].nr
    BY <1>t, <2>2 DEF Blocks
  <2>5. ~Marked(b)
    BY <2>1, <2>3, <2>4, <1>g DEF Stretch
  <2>6. start_token'[b] # TOKEN_HAS_DATA
    BY <2>1, <2>3, <2>5, <1>t DEF TokenAfter, Marked, PAYLOAD, TOKEN_HAS_DATA
  <2>7. \A x \in Blocks : x # b => start_token'[x] = start_token[x] /\ data'[x] = data[x]
    BY <2>1, <1>t
  <2> HIDE DEF b
  <2>8. \A x \in Blocks : Marked(x)' <=> Marked(x)
    BY <2>5, <2>6, <2>7 DEF Marked
  <2>9. \A x \in Blocks : Marked(x) => data'[x] = data[x]
    BY <2>5, <2>7
  <2> QED
    BY <2>1, <2>8, <2>9, <1>4 DEF Writing
<1>7. CASE PutToken(p)
  <2>1. /\ wpc[p] = "token" /\ wpc'[p] = "idle"
        /\ start_token' = [start_token EXCEPT ![b0] = TOKEN_HAS_DATA]
        /\ UNCHANGED data
    BY <1>7, <1>t DEF PutToken, PutReturn
  <2>2. \A x \in Blocks : Marked(x)' <=> Marked(x) \/ x = b0
    BY <2>1, <1>t DEF Marked
  <2>3. ~Writing(p)'
    BY <2>1 DEF Writing
  <2>4. data[b0] = i0 /\ lenOf[i0] = wl[p].len /\ wl[p].nr = NumNeeded(wl[p].len)
    <3>1. k = wl[p].nr /\ \A x \in Stretch(b0, k) : data[x] = i0
      BY <2>1, <1>g DEF Fills
    <3>2. b0 \in Stretch(b0, wl[p].nr)
      BY <2>1, <1>g
    <3> QED
      BY <2>1, <3>1, <3>2, <1>g, <1>w DEF Fills, Asks
  <2>5. \A b \in Blocks : Starts(b)' <=> Starts(b)
    <3>1. \A b \in Blocks : Starts(b) => Starts(b)'
      <4> SUFFICES ASSUME NEW b \in Blocks, Starts(b) PROVE Starts(b)'
        OBVIOUS
      <4>1. CASE Marked(b) /\ b \in InUse
        BY <4>1, <2>2, <1>3 DEF Starts
      <4>2. CASE \E q \in Writers : Writing(q) /\ wl[q].idx = b
        <5> PICK q \in Writers : Writing(q) /\ wl[q].idx = b
          BY <4>2
        <5>1. CASE q = p
          <6>1. Marked(b)' /\ b \in InUse'
            BY <5>1, <2>2, <1>3, <1>g
          <6> QED
            BY <6>1 DEF Starts
        <5>2. CASE q # p
          BY <5>2, <1>2 DEF Starts
        <5> QED
          BY <5>1, <5>2
      <4> QED
        BY <4>1, <4>2 DEF Starts
    <3>2. \A b \in Blocks : Starts(b)' => Starts(b)
      <4> SUFFICES ASSUME NEW b \in Blocks, Starts(b)' PROVE Starts(b)
        OBVIOUS
      <4>1. CASE Marked(b)' /\ b \in InUse'
        BY <4>1, <2>2, <1>3, <1>w DEF Starts
      <4>2. CASE \E q \in Writers : Writing(q)' /\ wl'[q].idx = b
        BY <4>2, <2>3, <1>2 DEF Starts
      <4> QED
        BY <4>1, <4>2 DEF Starts
    <3> QED
      BY <3>1, <3>2
  <2>6. \A b \in Blocks : (Marked(b) /\ b \in InUse)' =>
            \/ Marked(b) /\ Size(b)' = Size(b)
            \/ \E q \in Writers : Writing(q) /\ wl[q].idx = b /\ wl[q].nr = Size(b)'
    <3> SUFFICES ASSUME NEW b \in Blocks, Marked(b)'
                 PROVE  \/ Marked(b) /\ Size(b)' = Size(b)
                        \/ \E q \in Writers : Writing(q) /\ wl[q].idx = b /\ wl[q].nr = Size(b)'
      OBVIOUS
    <3>1. CASE Marked(b)
      BY <3>1, <2>1, <1>u DEF Size
    <3>2. CASE b = b0
      BY <3>2, <2>1, <2>4, <1>u, <1>w DEF Size
    <3> QED
      BY <3>1, <3>2, <2>2
  <2>7. \A q \in Writers : Writing(q)' =>
            Writing(q) /\ wl'[q].idx = wl[q].idx /\ wl'[q].nr = wl[q].nr
    BY <1>2, <2>3
  <2> QED
    BY <2>5, <2>6, <2>7, <1>1, <1>u, SameReserve, ReserveKept
<1> QED
  BY <1>5, <1>6, <1>7

\* The blocks that a writer is handed and those that the reader is at are apart:
\* what the reader scans is in use, and what it takes is behind the head by no
\* more than the reserve leaves room for.
LEMMA BusyApart ==
    ASSUME Steady, HalfReserve, NEW p \in Writers, wpc[p] = "cas", p \notin passed,
           NEW r \in Readers
    PROVE  Busy(r) \cap Handed(p) = {}
<1> DEFINE T == wl[p].old_tail
           H == head_pos
           n == wl[p].nr
           O == rl[r].old_head
<1>0. /\ head_pos \in Blocks /\ tail_pos \in Blocks /\ wl[p].new_tail \in Blocks
      /\ T \in Blocks /\ n \in Nat /\ O \in Blocks /\ rl[r].head \in Blocks
      /\ rpc[r] # "cas" => rl[r].new_head \in Blocks
      /\ rpc[r] \in ReaderPC
      /\ ele_count \in Nat /\ RESERVE_BLOCK_COUNT \in Nat \ {0}
  BY InRing, QueueAssumption DEF Steady, TypeInv, Inside, TypeOK, ReadersOK
<1>1. /\ Asks(p) /\ Room(p) /\ WriterRing(p) /\ Skims(r) /\ Short(r) /\ ReaderRing(r)
      /\ r \notin passed
  BY DEF Steady, Locals, Reserved, RingInv, Calm
<1>2. /\ T = tail_pos /\ Used + UsedNodes(tail_pos, wl[p].new_tail) <= ele_count
      /\ Used + n + RESERVE_BLOCK_COUNT <= ele_count
      /\ wl[p].idx # T => T + n > ele_count /\ n < H
  BY <1>1 DEF WriterRing, HoldsTail, Room
<1>3. Handed(p) = Range(tail_pos, wl[p].new_tail)
  BY <1>1, <1>2, HandedRange DEF Steady
<1>4. InUse \cap Handed(p) = {}
  BY <1>0, <1>2, <1>3, RangeSplit DEF InUse, Used
<1>5. CASE rpc[r] \in {"idle", "load"}
  BY <1>5 DEF Busy
<1>6. CASE rpc[r] \in HoldsHead
  <2>1. O = head_pos
    BY <1>1, <1>6 DEF ReaderRing
  <2>2. Current(r)
    BY <1>1, <1>6 DEF Current
  <2>3. Scanned(r) \subseteq InUse
    BY <2>2, ScanInUse DEF Steady, Calm
  <2>4. CASE rpc[r] \in {"tail", "endcas"}
    BY <2>3, <2>4, <1>4 DEF Busy, Scanned
  <2>5. CASE rpc[r] \in {"tok1", "tok2", "recheck", "tok3", "len", "fits"}
    <3>1. rl[r].head \in InUse
      BY <2>1, <2>5, <1>0, <1>1 DEF ReaderRing, InUse, Range, Used
    <3>2. Busy(r) = Scanned(r) \cup {rl[r].head}
      BY <2>5 DEF Busy, Scanned
    <3> QED
      BY <2>3, <3>1, <3>2, <1>4
  <2>6. CASE rpc[r] = "cas"
    <3>0. rl[r].nr \in Nat /\ rl[r].new_head \in Blocks
      BY <2>2, <2>6, TakenLength DEF Steady, Locals, Layout
    <3>1. UsedNodes(O, rl[r].new_head) <= Used
      <4>1. rl[r].nr >= 0
        BY ONLY <3>0
      <4> QED
        BY <2>6, <1>1, <4>1 DEF ReaderRing
    <3>2. \A x \in Blocks : /\ UsedNodes(O, x) \in Nat /\ UsedNodes(O, rl[r].new_head) \in Nat
                            /\ Used \in Nat
      BY <3>0, <1>0, UsedInt DEF Used
    <3>3. Range(O, rl[r].new_head) \subseteq InUse
      BY <2>1, <3>1, <3>2 DEF Range, InUse, Used
    <3>4. Busy(r) = Range(O, rl[r].new_head)
      BY <2>6 DEF Busy
    <3> QED
      BY <3>3, <3>4, <1>4
  <2> QED
    BY <2>4, <2>5, <2>6, <1>6 DEF HoldsHead, ReaderPC
<1>7. CASE Taking(r)
  <2>1. /\ rl[r].new_head = H
        /\ IF O < H THEN 2 * (H - O) <= RESERVE_BLOCK_COUNT + 1
           ELSE /\ 2 * H <= RESERVE_BLOCK_COUNT + 1
                /\ 2 * (ele_count + 1 - O) <= RESERVE_BLOCK_COUNT + 1
    BY <1>1, <1>7 DEF Short, Half
  <2>2. Busy(r) = Range(O, H)
    BY <2>1, <1>7 DEF Busy, Taking
  <2>3. O # H
    BY <2>1, <1>7 DEF Steady, Locals, Takes
  <2>4. 2 * n <= RESERVE_BLOCK_COUNT + 1
    <3>1. wl[p].len \in Lens /\ n = NumNeeded(wl[p].len)
      BY <1>1, InRing DEF Steady, Asks
    <3> QED
      BY <3>1 DEF HalfReserve, Half
  <2>5. Used = IF H <= T THEN T - H ELSE ele_count + 1 + T - H
    BY <1>0, <1>2, UsedCases DEF Used
  <2> SUFFICES ASSUME NEW x \in Busy(r), x \in Handed(p) PROVE FALSE
    OBVIOUS
  <2>6. x \in Blocks /\ UsedNodes(O, x) < UsedNodes(O, H)
    BY <2>2 DEF Range
  <2>7. /\ UsedNodes(O, x) = IF O <= x THEN x - O ELSE ele_count + 1 + x - O
        /\ UsedNodes(O, H) = IF O <= H THEN H - O ELSE ele_count + 1 + H - O
    BY <2>6, <1>0, UsedCases
  <2>8. IF O < H THEN O <= x /\ x < H ELSE O <= x \/ x < H
    BY <2>3, <2>6, <2>7, <1>0 DEF Blocks
  <2>9. \/ wl[p].idx = T /\ T <= x /\ x < T + n
        \/ wl[p].idx # T /\ (x < n \/ T <= x)
    <3>1. wl[p].idx = T \/ wl[p].idx = 0
      BY <1>1 DEF Asks
    <3> QED
      BY <3>1, <2>6, <1>0 DEF Handed, Blocks
  <2> HIDE DEF T, H, n, O
  <2>10. CASE wl[p].idx = T
    <3>1. T <= x /\ x < T + n
      BY <2>9, <2>10
    <3>2. H \in Nat /\ T \in Nat /\ n \in Nat /\ O \in Nat /\ x \in Nat /\ H <= ele_count /\ x <= ele_count
      BY <1>0, <2>6 DEF H, T, n, O, Blocks
    <3>3. (IF H <= T THEN T - H ELSE ele_count + 1 + T - H) + n + RESERVE_BLOCK_COUNT <= ele_count
      BY <2>5, <1>2
    <3> QED
      BY ONLY <3>1, <3>2, <3>3, <2>1, <2>3, <2>8, <1>0
  <2>11. CASE wl[p].idx # T
    <3>1. x < n \/ T <= x
      BY <2>9, <2>11
    <3>2. H \in Nat /\ T \in Nat /\ n \in Nat /\ O \in Nat /\ x \in Nat /\ H <= ele_count /\ x <= ele_count
      BY <1>0, <2>6 DEF H, T, n, O, Blocks
    <3>3. (IF H <= T THEN T - H ELSE ele_count + 1 + T - H) + n + RESERVE_BLOCK_COUNT <= ele_count
      BY <2>5, <1>2
    <3>4. T + n > ele_count /\ n < H
      BY <1>2, <2>11
    <3> QED
      BY ONLY <3>1, <3>2, <3>3, <3>4, <2>1, <2>3, <2>4, <2>8, <1>0
  <2> QED
    BY <2>10, <2>11
<1> QED
  BY <1>0, <1>5, <1>6, <1>7 DEF ReaderPC, HoldsHead, Taking

\* CAS32(&queue->tail_pos, old_tail, new_tail) succeeds: the blocks it hands out
\* are nobody's, and a message follows the ones that lie there, with a gap in
\* between if it starts at block 0.
LEMMA TakeTailReserve ==
    ASSUME Steady, HalfReserve, NEW p \in Writers, PutCAS(p),
           tail_pos = wl[p].old_tail, ~aba'
    PROVE  ~conflict' /\ Reserved'
<1> DEFINE b0 == wl[p].idx
           n == wl[p].nr
<1>0. /\ wpc[p] = "cas" /\ MoveTail(p)
      /\ wpc' = [wpc EXCEPT ![p] = IF b0 = 0 /\ wl[p].old_tail # 0 THEN "skip" ELSE "copy"]
      /\ wl' = [wl EXCEPT ![p].id = nputs + 1, ![p].k = 0]
      /\ lenOf' = Append(lenOf, wl[p].len)
      /\ conflict' = (conflict \/ \E r \in Readers : Busy(r) \cap Handed(p) # {})
      /\ UNCHANGED <<head_pos, start_token, data, rpc, rl>>
  BY DEF PutCAS, rvars
<1>1. /\ tail_pos' = wl[p].new_tail /\ p \notin passed
      /\ passed' = passed \cup {q \in Writers \ {p} : wpc[q] \in HoldsTail}
  BY <1>0 DEF MoveTail
<1>t. /\ wl \in [Writers -> WLocals] /\ wpc \in [Writers -> WriterPC]
      /\ head_pos \in Blocks /\ tail_pos \in Blocks /\ wl[p].new_tail \in Blocks
      /\ b0 \in Blocks /\ n \in Nat /\ ele_count \in Nat /\ 0 \in Blocks
      /\ lenOf \in Seq(Lens)
  BY InRing, QueueAssumption DEF Steady, TypeInv, Inside, TypeOK, WritersOK, HistoryOK, Blocks
<1>2. /\ Asks(p) /\ Room(p) /\ WriterRing(p) /\ Counted /\ Marks /\ Tiled
      /\ WritersApart /\ ReadersApart
  BY DEF Steady, Layout, Locals, Reserved, RingInv, Calm
<1>3. /\ wpc'[p] \in {"skip", "copy"} /\ wl'[p].idx = b0 /\ wl'[p].nr = n
      /\ \A q \in Writers \ {p} : wpc'[q] = wpc[q] /\ wl'[q] = wl[q]
  BY <1>0, <1>t DEF WLocals
<1>4. \A r \in Readers : Busy(r) \cap Handed(p) = {}
  BY <1>0, <1>1, BusyApart
<1>5. ~conflict'
  BY <1>0, <1>4 DEF Steady
<1>6. /\ InUse' = InUse \cup Handed(p) /\ InUse \cap Handed(p) = {}
      /\ b0 \in Handed(p) /\ b0 + n <= ele_count /\ n >= 1
  <2>1. /\ Handed(p) = Range(tail_pos, wl[p].new_tail)
        /\ b0 \in Handed(p) /\ b0 + n <= ele_count /\ n >= 1
    BY <1>0, <1>1, <1>2, HandedRange DEF Steady
  <2>2. UsedNodes(head_pos, tail_pos) + UsedNodes(tail_pos, wl[p].new_tail) <= ele_count
    BY <1>0, <1>1, <1>2 DEF WriterRing, Used
  <2>3. /\ Range(head_pos, wl[p].new_tail) = InUse \cup Handed(p)
        /\ InUse \cap Handed(p) = {}
    BY <2>1, <2>2, <1>t, RangeSplit DEF InUse
  <2>4. InUse' = Range(head_pos, wl[p].new_tail)
    BY <1>0, <1>1 DEF InUse, Range
  <2> QED
    BY <2>1, <2>3, <2>4
\* No marked block is handed out: it is in use, or a reader is clearing it.
<1>7. \A b \in Blocks : /\ Marked(b)' <=> Marked(b)
                        /\ Marked(b) => b \notin Handed(p)
                        /\ Marked(b) => Size(b)' = Size(b)
  <2> SUFFICES ASSUME NEW b \in Blocks
               PROVE  /\ Marked(b)' <=> Marked(b)
                      /\ Marked(b) => b \notin Handed(p)
                      /\ Marked(b) => Size(b)' = Size(b)
    OBVIOUS
  <2>1. Marked(b)' <=> Marked(b)
    BY <1>0 DEF Marked
  <2>2. ASSUME Marked(b) PROVE b \notin Handed(p) /\ Size(b)' = Size(b)
    <3>1. /\ Whole(b)
          /\ Span(b) \subseteq InUse \/ \E r \in Readers : Span(b) \subseteq Released(r)
      BY <2>2, <1>2 DEF Marks
    <3>2. b \in Span(b) /\ data[b] \in 1 .. nputs
      BY <3>1, <1>2, WholeMessage DEF Steady
    <3>3. \A r \in Readers : Released(r) \subseteq Busy(r)
      BY DEF Released, Busy, Taking
    <3>4. b \notin Handed(p)
      BY <3>1, <3>2, <3>3, <1>4, <1>6
    <3>5. lenOf'[data[b]] = lenOf[data[b]]
      BY <3>2, <1>0, <1>2, <1>t DEF Counted
    <3>6. Size(b)' = Size(b)
      BY <3>5, <1>0 DEF Size
    <3> QED
      BY <3>4, <3>6
  <2> QED
    BY <2>1, <2>2
<1>8. /\ ~Writing(p) /\ Writing(p)'
      /\ \A q \in Writers \ {p} : (Writing(q)' <=> Writing(q)) /\ wl'[q] = wl[q]
  BY <1>0, <1>3 DEF Writing
<1>9. \A b \in Blocks : Starts(b)' <=> (Starts(b) \/ b = b0)
  <2> SUFFICES ASSUME NEW b \in Blocks PROVE Starts(b)' <=> (Starts(b) \/ b = b0)
    OBVIOUS
  <2>1. (Marked(b)' /\ b \in InUse') <=> (Marked(b) /\ b \in InUse)
    BY <1>6, <1>7
  <2>2. (\E q \in Writers : Writing(q)' /\ wl'[q].idx = b)
          <=> (b = b0 \/ \E q \in Writers : Writing(q) /\ wl[q].idx = b)
    BY <1>3, <1>8
  <2> QED
    BY <2>1, <2>2 DEF Starts
<1>10. \A x : Gap(x) => Gap(x)'
  <2> SUFFICES ASSUME NEW x, Gap(x) PROVE Gap(x)'
    OBVIOUS
  <2>1. \A y \in Blocks : x <= y => y \in InUse'
    BY <1>6 DEF Gap
  <2>2. \A y \in Blocks : Starts(y)' => Starts(y) \/ y \notin InUse
    BY <1>6, <1>9
  <2>3. Starts(0) /\ Starts(0)'
    BY <1>9, <1>t DEF Gap
  <2> QED
    BY <2>1, <2>2, <2>3, GapKept
\* What used to be the end of the used part is the new message or a gap before it.
<1>11. ASSUME NEW x, x = tail_pos PROVE Goes(x)'
  <2>1. CASE b0 = tail_pos
    BY <2>1, <1>9, <1>t, <1>11 DEF Goes
  <2>2. CASE b0 # tail_pos
    <3>1. b0 = 0 /\ tail_pos # 0 /\ tail_pos + n > ele_count
      BY <2>2, <1>0, <1>1, <1>2 DEF Asks, Room
    <3>2. 2 * n <= RESERVE_BLOCK_COUNT + 1
      <4>1. wl[p].len \in Lens /\ n = NumNeeded(wl[p].len)
        BY <1>0, <1>2, InRing DEF Steady, Asks
      <4> QED
        BY <4>1 DEF HalfReserve, Half
    <3>3. 2 * (ele_count + 1 - tail_pos) <= RESERVE_BLOCK_COUNT + 1
      BY <3>1, <3>2, <1>t, QueueAssumption, SMTT(30) DEF Blocks
    <3>4. Half(ele_count + 1 - x)'
      BY <3>3, <1>11 DEF Half
    <3>5. ASSUME NEW y \in Blocks, x <= y PROVE y \in InUse' /\ ~Starts(y)'
      <4>1. y \in Handed(p)
        BY <3>1, <3>5, <1>11 DEF Handed
      <4>2. y # b0
        BY <3>1, <3>5, <1>11, <1>t DEF Blocks
      <4>3. ~Starts(y)
        BY <4>1, <1>6, StartsInUse
      <4> QED
        BY <4>1, <4>2, <4>3, <1>6, <1>9
    <3>6. Starts(0)'
      BY <3>1, <1>9, <1>t
    <3>7. Gap(x)'
      BY <3>1, <3>4, <3>5, <3>6, <1>11 DEF Gap
    <3> QED
      BY <3>7 DEF Goes
  <2> QED
    BY <2>1, <2>2
<1>12. ASSUME NEW x \in Blocks, Goes(x) PROVE Goes(x)'
  BY <1>9, <1>10, <1>11, <1>12 DEF Goes
<1>13. Tiled'
  <2>1. Goes(head_pos)'
    <3>1. \A x : x = head_pos => (Goes(x)' <=> Goes(head_pos)')
      BY <1>0
    <3> QED
      BY <3>1, <1>2, <1>12, <1>t DEF Tiled
  <2>2. ASSUME NEW b \in Blocks, Marked(b)', b \in InUse' PROVE Goes(b + Size(b))'
    <3>1. Marked(b) /\ b \in InUse /\ Size(b)' = Size(b)
      BY <2>2, <1>6, <1>7
    <3>2. b + Size(b) \in Blocks /\ Goes(b + Size(b))
      BY <3>1, <1>2, SpanUsed DEF Steady, Tiled
    <3>3. \A x : x = b + Size(b) => (Goes(x)' <=> Goes(b + Size(b))')
      BY <3>1
    <3> QED
      BY <3>2, <3>3, <1>12
  <2>3. ASSUME NEW q \in Writers, Writing(q)' PROVE Goes(wl[q].idx + wl[q].nr)'
    <3>1. CASE q = p
      <4>1. wl'[q].idx + wl'[q].nr = tail_pos'
        <5>1. wl[p].new_tail = b0 + n
          BY <1>0, <1>1, <1>2, <1>t DEF Asks, Blocks
        <5> QED
          BY <3>1, <5>1, <1>1, <1>3
      <4> QED
        BY <4>1 DEF Goes
    <3>2. CASE q # p
      <4>1. Writing(q) /\ wl'[q] = wl[q]
        BY <2>3, <3>2, <1>8
      <4>2. Fills(q) /\ wl[q].nr \in Nat /\ wl[q].idx \in Nat
        BY InRing DEF Steady, Locals, Blocks
      <4>3. wl[q].idx + wl[q].nr \in Blocks /\ Goes(wl[q].idx + wl[q].nr)
        BY <4>1, <4>2, <1>2, QueueAssumption DEF Fills, Blocks, Tiled
      <4>4. \A x : x = wl[q].idx + wl[q].nr => (Goes(x)' <=> Goes(wl[q].idx + wl[q].nr)')
        BY <4>1
      <4> QED
        BY <4>3, <4>4, <1>12
    <3> QED
      BY <3>1, <3>2
  <2> QED
    BY <2>1, <2>2, <2>3 DEF Tiled
<1>14. \A q \in Writers : Room(q)'
  <2> SUFFICES ASSUME NEW q \in Writers PROVE Room(q)'
    OBVIOUS
  <2>1. CASE q = p
    BY <2>1, <1>3 DEF Room
  <2>2. CASE q # p
    <3>1. q \notin passed' => wpc'[q] \notin HoldsTail
      BY <2>2, <1>1, <1>3
    <3> QED
      BY <3>1 DEF Room, HoldsTail
  <2> QED
    BY <2>1, <2>2
<1>15. \A r \in Readers : Skims(r)' /\ Short(r)'
  <2> SUFFICES ASSUME NEW r \in Readers PROVE Skims(r)' /\ Short(r)'
    OBVIOUS
  <2>1. Skims(r) /\ Short(r) /\ rpc'[r] = rpc[r] /\ rl'[r] = rl[r] /\ head_pos' = head_pos
    BY <1>0 DEF Steady, Reserved
  <2>2. Gap(rl[r].old_head) => Gap(rl[r].old_head)'
    <3>1. \A x : x = rl[r].old_head => (Gap(rl[r].old_head)' <=> Gap(x)')
      BY <2>1
    <3> QED
      BY <3>1, <1>10
  <2> QED
    BY <2>1, <2>2 DEF Skims, Short, Taking, Half
<1> QED
  BY <1>5, <1>13, <1>14, <1>15 DEF Reserved

\* A step of the reader, except its exchange of the head
LEMMA ReadingReserve ==
    ASSUME Steady, Alone, NEW r \in Readers,
           UNCHANGED <<head_pos, tail_pos, wvars, lenOf, data, conflict>>,
           passed' \in {passed, passed \ {r}},
           \A b \in InUse : start_token'[b] = start_token[b],
           Skims(r)', Short(r)'
    PROVE  ~conflict' /\ Reserved'
<1>u. UNCHANGED <<wpc, wl>>
  BY DEF wvars
<1>1. InUse' = InUse
  BY DEF InUse, Range
<1>2. \A q \in Writers : (Writing(q)' <=> Writing(q)) /\ wl'[q] = wl[q]
  BY <1>u DEF Writing
<1>3. \A b \in Blocks : (Marked(b) /\ b \in InUse)' <=> (Marked(b) /\ b \in InUse)
  BY <1>1 DEF Marked
<1>4. \A b \in Blocks : Starts(b)' <=> Starts(b)
  BY <1>2, <1>3 DEF Starts
<1>5. \A b \in Blocks : (Marked(b) /\ b \in InUse)' => Marked(b) /\ Size(b)' = Size(b)
  BY <1>3 DEF Size
<1>6. \A q \in Writers : Room(q)'
  <2> SUFFICES ASSUME NEW q \in Writers PROVE Room(q)'
    OBVIOUS
  <2>1. Room(q) /\ (q \in passed' <=> q \in passed)
    BY QueueAssumption DEF Steady, Reserved
  <2> QED
    BY <2>1, <1>u DEF Room, Used
<1>7. \A s \in Readers : Skims(s)' /\ Short(s)'
  <2>1. \A s \in Readers : s = r
    BY DEF Alone
  <2> QED
    BY <2>1
<1> QED
  BY <1>2, <1>4, <1>5, <1>6, <1>7, ReserveKept

\* A reader that gives up a block stands in a gap: no message starts there.
LEMMA SkimsOn ==
    ASSUME Steady, NEW r \in Readers, rpc[r] = "tok3", NextBlock(r),
           ~Marked(rl[r].head), \A p \in Writers : rl[r].head \notin Unwritten(p)
    PROVE  /\ Gap(rl[r].old_head)
           /\ rl'[r].old_head = rl[r].old_head
           /\ rl'[r].head > rl[r].old_head \/ rl'[r].head = 0
<1> DEFINE h == rl[r].head
           o == rl[r].old_head
<1>0. /\ Skims(r) /\ ReaderRing(r) /\ r \notin passed /\ Tiled /\ rl[r] \in RLocals
      /\ rl \in [Readers -> RLocals] /\ h \in Blocks /\ o \in Blocks
      /\ head_pos \in Blocks /\ tail_pos \in Blocks /\ ele_count \in Nat /\ 1 \in Blocks
  BY InRing, QueueAssumption
     DEF Steady, Reserved, RingInv, Calm, TypeInv, Inside, TypeOK, ReadersOK, Blocks
<1>1. /\ o = head_pos /\ UsedNodes(o, h) < Used
      /\ h # o => Gap(o) /\ (h > o \/ h = 0)
  BY <1>0 DEF Skims, ReaderRing, HoldsHead, ReaderPC
<1>2. ~Starts(h)
  BY <1>0, StartsUnwritten
<1>3. Gap(o) /\ (h = o \/ h > o)
  <2>1. CASE h = o
    <3>1. head_pos # tail_pos
      <4>1. UsedNodes(o, h) \in Nat /\ UsedNodes(head_pos, head_pos) = 0
        BY <1>0, UsedInt, UsedSelf
      <4> QED
        BY <4>1, <1>1 DEF Used
    <3>2. Gap(o)
      BY <2>1, <3>1, <1>0, <1>1, <1>2 DEF Tiled, Goes
    <3> QED
      BY <2>1, <3>2
  <2>2. CASE h # o
    BY <2>2, <1>1, <1>2 DEF Gap
  <2> QED
    BY <2>1, <2>2
<1>4. rl'[r].old_head = o /\ rl'[r].head = AddPos(h, 1)
  BY <1>0 DEF NextBlock, RLocals
<1>5. AddPos(h, 1) > o \/ AddPos(h, 1) = 0
  <2>1. AddPos(h, 1) = IF h + 1 <= ele_count THEN h + 1 ELSE h + 1 - (ele_count + 1)
    BY <1>0, AddPosCases
  <2>2. h \in 0 .. ele_count /\ o \in 0 .. ele_count
    BY <1>0 DEF Blocks
  <2> QED
    BY ONLY <2>1, <2>2, <1>0, <1>3
<1> QED
  BY <1>3, <1>4, <1>5

\* sq_get up to its exchange of the head: the reader passes over a gap at most.
LEMMA ScanningStepsReserve ==
    ASSUME Steady, Alone, NEW r \in Readers, ~gaveUp',
           \/ GetLoadHead(r) \/ GetTail(r) \/ GetEndCAS(r) \/ GetTok1(r) \/ GetTok2(r)
           \/ GetRecheck(r) \/ GetTok3(r) \/ GetLen(r) \/ GetFits(r)
           \/ GetCAS(r) /\ KeepHead(r)
    PROVE  ~conflict' /\ Reserved'
<1> DEFINE h == rl[r].head
           o == rl[r].old_head
<1>0. /\ Skims(r) /\ ReaderRing(r) /\ r \notin passed
      /\ rl \in [Readers -> RLocals] /\ rpc \in [Readers -> ReaderPC]
      /\ h \in Blocks /\ o \in Blocks /\ head_pos \in Blocks /\ tail_pos \in Blocks
  BY InRing DEF Steady, Reserved, RingInv, Calm, TypeInv, Inside, TypeOK, ReadersOK
<1>1. rpc[r] # "endcas"
  BY <1>0 DEF Skims, HoldsHead, ReaderPC
<1>2. ~GetEndCAS(r)
  BY <1>1 DEF GetEndCAS
<1>3. UNCHANGED <<head_pos, tail_pos, start_token, wvars, lenOf, data, conflict>>
  BY <1>2 DEF GetLoadHead, GetTail, GetTok1, GetTok2, GetRecheck, GetTok3, GetLen, GetFits,
     GetCAS, KeepHead, MoveHead, shm, history
<1>4. passed' \in {passed, passed \ {r}}
  BY <1>2 DEF GetLoadHead, GetTail, GetTok1, GetTok2, GetRecheck, GetTok3, GetLen, GetFits,
     GetCAS, KeepHead, history
\* What the gap is made of has not changed.
<1>5. ASSUME rl'[r].old_head = o, Gap(o) PROVE Gap(rl[r].old_head)'
  <2>1. \A b \in Blocks : Starts(b)' <=> Starts(b)
    BY <1>3 DEF Starts, Marked, InUse, Range, Writing, wvars
  <2>2. Gap(o)' <=> Gap(rl[r].old_head)'
    OBVIOUS
  <2>3. \A x : x = o => (Gap(x)' <=> Gap(rl[r].old_head)')
    BY <1>5
  <2> QED
    BY <2>1, <2>3, <1>0, <1>3, <1>5, SameTiles
<1>6. Skims(r)' /\ rpc'[r] \notin {"copy", "clear"}
  <2>1. CASE GetLoadHead(r)
    <3>1. rpc'[r] = "tail" /\ rl'[r].head = rl'[r].old_head
      BY <2>1, <1>0 DEF GetLoadHead, RGoto, RIdle
    <3> QED
      BY <3>1 DEF Skims
  <2>2. CASE GetTail(r)
    <3>1. rpc[r] = "tail"
      BY <2>2 DEF GetTail
    <3>2. h # o => Gap(o) /\ (h > o \/ h = 0)
      BY <3>1, <1>0 DEF Skims, HoldsHead, ReaderPC
    <3>3. ~(tail_pos = h /\ h # o)
      <4> SUFFICES ASSUME tail_pos = h, h # o PROVE FALSE
        OBVIOUS
      <4>1. h \in InUse
        BY <3>2, <1>0, GapAhead DEF Gap, Blocks
      <4>2. tail_pos \notin InUse
        BY <1>0, UsedInt DEF InUse, Range
      <4> QED
        BY <4>1, <4>2
    <3>4. \/ rpc'[r] = "tok1" /\ rl'[r] = rl[r]
          \/ rpc'[r] = "idle"
      BY <2>2, <3>3, <1>0 DEF GetTail, RGoto, GetReturn
    <3> QED
      BY <3>2, <3>4, <1>5 DEF Skims, HoldsHead, ReaderPC
  <2>3. CASE GetTok1(r) \/ GetTok2(r) \/ GetLen(r)
    <3>1. /\ rpc[r] \in HoldsHead
          /\ rpc'[r] \in {"len", "tok2", "recheck", "tok3", "fits"}
          /\ rl'[r].head = h /\ rl'[r].old_head = o
      <4>1. CASE GetTok1(r) \/ GetTok2(r)
        BY <4>1, <1>0 DEF GetTok1, GetTok2, RGoto, HoldsHead, ReaderPC
      <4>2. CASE GetLen(r)
        <5>1. PICK l : rl' = [rl EXCEPT ![r].len = l, ![r].nr = NumNeeded(l)]
          BY <4>2 DEF GetLen
        <5>2. rl'[r].head = h /\ rl'[r].old_head = o
          BY <5>1, <1>0 DEF RLocals
        <5>3. rpc[r] = "len" /\ rpc'[r] = "fits"
          BY <4>2, <1>0 DEF GetLen, RGoto
        <5> QED
          BY <5>2, <5>3 DEF HoldsHead, ReaderPC
      <4> QED
        BY <2>3, <4>1, <4>2
    <3> QED
      BY <3>1, <1>0, <1>5 DEF Skims
  <2>4. CASE GetRecheck(r) \/ (GetCAS(r) /\ KeepHead(r))
    <3>1. rpc'[r] \in {"idle", "load"}
      BY <2>4, <1>0 DEF GetRecheck, GetCAS, KeepHead, MoveHead, GetAgain, GetReturn
    <3> QED
      BY <3>1 DEF Skims, HoldsHead
  <2>5. CASE GetTok3(r)
    <3>1. CASE RGoto(r, "len") /\ rl' = rl
      <4>1. rpc[r] = "tok3" /\ rpc'[r] = "len" /\ rl'[r] = rl[r]
        BY <2>5, <3>1, <1>0 DEF GetTok3, RGoto
      <4> QED
        BY <4>1, <1>0, <1>5 DEF Skims, HoldsHead, ReaderPC
    <3>2. CASE NextBlock(r) /\ ~Marked(h)
               /\ gaveUp' = (gaveUp \/ \E p \in Writers : h \in Unwritten(p))
      <4>1. rpc[r] = "tok3" /\ rpc'[r] = "tail"
        BY <2>5, <3>2, <1>0 DEF GetTok3, NextBlock, RGoto
      <4>2. /\ Gap(o) /\ rl'[r].old_head = o
            /\ rl'[r].head > o \/ rl'[r].head = 0
        BY <3>2, <4>1, SkimsOn
      <4> QED
        BY <4>1, <4>2, <1>5 DEF Skims
    <3> QED
      BY <2>5, <3>1, <3>2, InRing DEF GetTok3, Marked, TokenAt, Steady
  <2>6. CASE GetFits(r)
    <3>1. rpc[r] = "fits" /\ Current(r)
      BY <2>6, <1>0 DEF GetFits, Current, HoldsHead, ReaderPC
    <3>2. Fits(r)
      BY <3>1, MessageFits DEF Steady, Calm, MessageInv, Good
    <3>3. rpc'[r] = "cas" /\ rl'[r].head = h /\ rl'[r].old_head = o
      BY <2>6, <3>2, <1>0 DEF GetFits, RGoto, RLocals
    <3> QED
      BY <3>1, <3>3, <1>0, <1>5 DEF Skims, HoldsHead, ReaderPC
  <2> QED
    BY <1>2, <2>1, <2>2, <2>3, <2>4, <2>5, <2>6
<1>7. Short(r)'
  BY <1>6 DEF Short, Taking
<1> QED
  BY <1>3, <1>4, <1>6, <1>7, ReadingReserve

\* Copying out and clearing: what is left to clear gets shorter.
LEMMA TakingStepsReserve ==
    ASSUME Steady, Alone, NEW r \in Readers, GetCopy(r) \/ GetClear(r)
    PROVE  ~conflict' /\ Reserved'
<1> DEFINE a == rl[r].old_head
           c == rl[r].new_head
<1>1. /\ UNCHANGED <<head_pos, tail_pos, wvars, lenOf, data, conflict, passed>>
      /\ rpc[r] \in {"copy", "clear"} /\ Taking(r)
  BY DEF GetCopy, GetClear, shm, history, Taking
<1>t. a \in Blocks /\ c \in Blocks /\ head_pos \in Blocks
  BY <1>1, InRing DEF Steady
<1>0. /\ Takes(r) /\ Short(r) /\ ReadersApart /\ rl \in [Readers -> RLocals]
      /\ rpc \in [Readers -> ReaderPC] /\ start_token \in [Blocks -> Tokens]
      /\ a \in Blocks /\ c \in Blocks /\ head_pos \in Blocks
      /\ ele_count \in Nat /\ RESERVE_BLOCK_COUNT \in Nat /\ 1 \in Blocks
  BY <1>t, QueueAssumption, SMTT(30)
     DEF Steady, Locals, Layout, Reserved, TypeInv, TypeOK, ReadersOK, RingOK, Blocks
<1>2. CASE GetCopy(r)
  <2>1. /\ rpc'[r] \in {"copy", "clear"} /\ rl'[r].old_head = a /\ rl'[r].new_head = c
        /\ start_token' = start_token
    BY <1>2, <1>0 DEF GetCopy, RGoto, RLocals, shm
  <2>2. Skims(r)' /\ Short(r)'
    BY <2>1, <1>0, <1>1 DEF Skims, HoldsHead, Short, Taking, Half
  <2> QED
    BY <2>1, <2>2, <1>1, ReadingReserve
<1>3. CASE GetClear(r)
  <2>1. a # c /\ rpc[r] = "clear"
    BY <1>3, <1>0, <1>1 DEF Takes, GetClear
  <2>2. \A b \in InUse : start_token'[b] = start_token[b]
    <3>1. a \in Released(r)
      BY <2>1, <1>0, <1>1, RangeLess DEF Released
    <3>2. a \notin InUse
      BY <3>1, <1>0 DEF ReadersApart
    <3>3. start_token' = [start_token EXCEPT ![a] = TOKEN_NO_DATA]
      BY <1>3, <1>t DEF GetClear, Reset
    <3>4. InUse \subseteq Blocks
      BY DEF InUse, Range
    <3> QED
      BY <3>2, <3>3, <3>4, <1>0
  <2>3. CASE AddPos(a, 1) = c
    <3>1. rpc'[r] = "idle"
      BY <1>3, <2>3, <1>0 DEF GetClear, GetReturn, ResetNext
    <3>2. Skims(r)' /\ Short(r)'
      BY <3>1 DEF Skims, HoldsHead, Short, Taking
    <3> QED
      BY <2>2, <3>2, <1>1, ReadingReserve
  <2>4. CASE AddPos(a, 1) # c
    <3>1. rpc'[r] = "clear" /\ rl'[r].old_head = AddPos(a, 1) /\ rl'[r].new_head = c
      BY <1>3, <2>1, <2>4, <1>0 DEF GetClear, ResetNext, RLocals
    <3>2. c = head_pos
          /\ IF a < c THEN Half(c - a) ELSE Half(c) /\ Half(ele_count + 1 - a)
      BY <1>0, <1>1 DEF Short
    <3>3. AddPos(a, 1) = IF a + 1 <= ele_count THEN a + 1 ELSE a + 1 - (ele_count + 1)
      BY <1>0, AddPosCases
    <3>4. IF AddPos(a, 1) < c THEN Half(c - AddPos(a, 1))
          ELSE Half(c) /\ Half(ele_count + 1 - AddPos(a, 1))
      BY <2>1, <2>4, <3>2, <3>3, <1>0, SMTT(30) DEF Half, Blocks
    <3>5. Skims(r)' /\ Short(r)'
      BY <3>1, <3>2, <3>4, <1>1 DEF Skims, HoldsHead, Short, Taking, Half
    <3> QED
      BY <2>2, <3>5, <1>1, ReadingReserve
  <2> QED
    BY <2>3, <2>4
<1> QED
  BY <1>2, <1>3

\* CAS32(&queue->head_pos, old_head, new_head) succeeds: behind the head there
\* is now one message, after one gap at most, and the next message is before it.
LEMMA TakeHeadReserve ==
    ASSUME Steady, HalfReserve, NEW r \in Readers, rpc[r] = "cas",
           MoveHead(r, rl[r].new_head),
           UNCHANGED <<tail_pos, start_token, data, lenOf, wvars, conflict, rl>>,
           rpc' = [rpc EXCEPT ![r] = "copy"], Alone
    PROVE  ~conflict' /\ Reserved'
<1> DEFINE h == rl[r].head
           o == rl[r].old_head
           pos == rl[r].new_head
           n == rl[r].nr
           D(x) == UsedNodes(head_pos, x)
<1>0. /\ Skims(r) /\ Scans(r) /\ r \notin passed /\ Tiled /\ Counted /\ Marks
      /\ ReadersApart /\ WritersApart /\ ReaderRing(r)
      /\ h \in Blocks /\ o \in Blocks /\ pos \in Blocks /\ n \in Nat
      /\ head_pos \in Blocks /\ tail_pos \in Blocks /\ ele_count \in Nat /\ 0 \in Blocks
      /\ RESERVE_BLOCK_COUNT \in Nat /\ rpc \in [Readers -> ReaderPC]
  <2>1. /\ Skims(r) /\ Scans(r) /\ r \notin passed /\ Tiled /\ Counted /\ Marks
        /\ ReadersApart /\ WritersApart /\ ReaderRing(r)
        /\ TypeInv /\ Current(r)
    BY DEF Steady, Locals, Layout, Reserved, RingInv, Calm, Current, HoldsHead, ReaderPC
  <2>2. pos \in Blocks /\ n \in Nat
    BY <2>1, TakenLength
  <2>3. /\ ele_count \in Nat /\ RESERVE_BLOCK_COUNT \in Nat /\ 0 \in Blocks
    BY QueueAssumption DEF Blocks
  <2>4. rpc \in [Readers -> ReaderPC]
    BY <2>1 DEF TypeInv, TypeOK, ReadersOK
  <2> QED
    BY <2>1, <2>2, <2>3, <2>4, InRing
<1>1. Current(r) /\ o = head_pos /\ D(pos) <= Used
  BY <1>0 DEF Current, HoldsHead, ReaderPC, ReaderRing
<1>u. /\ UNCHANGED <<wpc, wl>> /\ head_pos' = pos /\ rpc'[r] = "copy" /\ rl' = rl
      /\ passed' \cap Writers = passed \cap Writers
  BY <1>0, QueueAssumption DEF wvars, MoveHead
<1>2. /\ Marked(h) /\ Span(h) \subseteq InUse /\ n = Size(h) /\ pos = h + n
      /\ n = NumNeeded(rl[r].len) /\ rl[r].len \in Lens /\ h \in InUse
  <2>1. /\ Marked(h) /\ Span(h) \subseteq InUse /\ rl[r].len = lenOf[data[h]]
        /\ n = NumNeeded(rl[r].len) /\ pos = h + n
    BY <1>0, <1>1 DEF Scans
  <2>2. rl[r].len \in Lens /\ h \in Span(h)
    BY <2>1, <1>0, WholeMessage DEF Marks, Steady
  <2> QED
    BY <2>1, <2>2 DEF Size
<1>3. n >= 1 /\ D(pos) = D(h) + n /\ D(pos) <= Used
  <2>1. /\ Size(h) >= 1 /\ UsedNodes(head_pos, h + Size(h)) = UsedNodes(head_pos, h) + Size(h)
        /\ UsedNodes(head_pos, h) + Size(h) <= Used
    BY <1>0, <1>2, SpanUsed DEF Steady
  <2>2. h + Size(h) = pos
    BY <1>2
  <2> QED
    BY <2>1, <2>2, <1>2
<1>4. /\ InUse' = Range(pos, tail_pos)
      /\ InUse = Range(head_pos, pos) \cup InUse'
      /\ Range(head_pos, pos) \cap InUse' = {}
      /\ \A q \in Writers : Filled(q) \cap Range(head_pos, pos) = {}
  <2>1. InUse' = Range(pos, tail_pos)
    BY <1>u DEF InUse, Range
  <2>2. Good /\ TypeInv /\ RingInv /\ Layout /\ Locals /\ Order
    BY DEF Steady, Calm, Good
  <2>3. /\ InUse = Range(head_pos, pos) \cup Range(pos, tail_pos)
        /\ Range(head_pos, pos) \cap Range(pos, tail_pos) = {}
        /\ \A q \in Writers : Filled(q) \cap Range(head_pos, pos) = {}
    <3> HIDE DEF pos
    <3>1. pos = rl[r].new_head
      BY DEF pos
    <3> QED
      BY <2>2, <3>1, <1>0, <1>1, Releases
  <2> QED
    BY <2>1, <2>3
<1>5. \A x \in Blocks : x \in InUse /\ D(pos) <= D(x) => x \in InUse'
  <2> SUFFICES ASSUME NEW x \in Blocks, x \in InUse, D(pos) <= D(x) PROVE x \in InUse'
    OBVIOUS
  <2>1. D(x) \in Nat /\ D(pos) \in Nat
    BY <1>0, UsedInt
  <2>2. x \notin Range(head_pos, pos)
    BY <2>1 DEF Range
  <2> QED
    BY <2>2, <1>4
<1>6. \A b \in Blocks : Marked(b)' <=> Marked(b)
  BY DEF Marked
<1>7. \A q \in Writers : /\ Writing(q)' <=> Writing(q)
                         /\ wl'[q] = wl[q]
                         /\ Writing(q) => wl[q].idx \in InUse'
  <2> SUFFICES ASSUME NEW q \in Writers
               PROVE  /\ Writing(q)' <=> Writing(q)
                      /\ wl'[q] = wl[q]
                      /\ Writing(q) => wl[q].idx \in InUse'
    OBVIOUS
  <2>1. Writing(q) => wl[q].idx \in Filled(q)
    BY FilledBlocks DEF Steady, Layout, Locals
  <2>2. Filled(q) \subseteq InUse
    BY <1>0 DEF WritersApart
  <2> QED
    BY <2>1, <2>2, <1>4, <1>u DEF Writing
<1>8. \A b \in Blocks : Starts(b)' <=> Starts(b) /\ b \in InUse'
  BY <1>4, <1>6, <1>7 DEF Starts
<1>9. ASSUME NEW x \in Blocks, Gap(x), x \in InUse', D(pos) <= D(x) PROVE Gap(x)'
  <2>1. \A y \in Blocks : x <= y => y \in InUse /\ D(x) <= D(y)
    BY <1>9, GapAhead DEF Gap
  <2>2. 0 \in InUse /\ D(x) <= D(0)
    BY <1>9, GapAhead
  <2>3. \A y \in Blocks : D(y) \in Nat
    BY <1>0, UsedInt
  <2>4. \A y \in Blocks : x <= y => y \in InUse'
    <3> SUFFICES ASSUME NEW y \in Blocks, x <= y PROVE y \in InUse'
      OBVIOUS
    <3>1. D(pos) <= D(y)
      <4>1. D(pos) \in Nat /\ D(x) \in Nat /\ D(y) \in Nat /\ D(x) <= D(y)
        BY <2>1, <2>3, <1>0
      <4> QED
        BY ONLY <4>1, <1>9
    <3> QED
      BY <3>1, <2>1, <1>5
  <2>5. 0 \in InUse'
    <3>1. D(pos) <= D(0)
      <4>1. D(pos) \in Nat /\ D(x) \in Nat /\ D(0) \in Nat
        BY <2>3, <1>0
      <4> QED
        BY ONLY <4>1, <2>2, <1>9
    <3> QED
      BY <3>1, <2>2, <1>0, <1>5
  <2>6. Starts(0)'
    BY <2>5, <1>9, <1>8, <1>0 DEF Gap
  <2> QED
    BY <2>4, <2>6, <1>8, <1>9, GapKept
\* Where a message goes on that was beyond the one taken, it still does.
<1>10. ASSUME NEW x \in Blocks, Goes(x), D(pos) <= D(x) PROVE Goes(x)'
  <2>1. CASE x = tail_pos
    BY <2>1 DEF Goes
  <2>2. CASE Starts(x)
    <3>1. x \in InUse'
      BY <2>2, <1>5, <1>10, StartsInUse
    <3> QED
      BY <2>2, <3>1, <1>8 DEF Goes
  <2>3. CASE Gap(x)
    <3>1. x \in InUse'
      BY <2>3, <1>5, <1>10, GapAhead
    <3> QED
      BY <2>3, <3>1, <1>9, <1>10 DEF Goes
  <2> QED
    BY <1>10, <2>1, <2>2, <2>3 DEF Goes
<1>11. Tiled'
  <2>1. Goes(head_pos)'
    <3>1. Goes(pos)
      BY <1>0, <1>2 DEF Tiled
    <3>2. D(pos) \in Nat
      BY <1>0, UsedInt
    <3>3. \A x : x = pos => (Goes(x)' <=> Goes(head_pos)')
      BY <1>u
    <3> QED
      BY <3>1, <3>2, <3>3, <1>0, <1>10
  <2>2. ASSUME NEW b \in Blocks, Marked(b)', b \in InUse' PROVE Goes(b + Size(b))'
    <3>1. Marked(b) /\ b \in InUse /\ Size(b)' = Size(b) /\ b \notin Range(head_pos, pos)
      BY <2>2, <1>4, <1>6 DEF Size
    <3>2. /\ Size(b) \in Nat /\ b + Size(b) \in Blocks /\ D(b + Size(b)) = D(b) + Size(b)
          /\ Goes(b + Size(b))
      BY <3>1, <1>0, SpanUsed DEF Steady, Tiled
    <3>3. D(b) \in Nat /\ D(pos) \in Nat /\ D(pos) <= D(b)
      BY <3>1, <1>0, UsedInt DEF Range
    <3>4. D(pos) <= D(b + Size(b))
      BY <3>2, <3>3
    <3>5. \A x : x = b + Size(b) => (Goes(x)' <=> Goes(b + Size(b))')
      BY <3>1
    <3> QED
      BY <3>2, <3>4, <3>5, <1>10
  <2>3. ASSUME NEW q \in Writers, Writing(q)' PROVE Goes(wl[q].idx + wl[q].nr)'
    <3> DEFINE b == wl[q].idx
               m == wl[q].nr
    <3>1. /\ Writing(q) /\ b \in InUse' /\ b \in Blocks /\ m \in Nat
          /\ Fills(q) /\ Asks(q) /\ wl'[q] = wl[q]
      BY <2>3, <1>7, InRing DEF Steady, Locals
    <3>2. /\ m >= 1 /\ Stretch(b, m) \subseteq InUse /\ b + m <= ele_count
      BY <3>1, <1>0, FilledBlocks DEF Steady, WritersApart, Fills
    <3>3. b + m \in Blocks /\ D(b + m) = D(b) + m
      BY <3>1, <3>2, <1>0, SpanInRange DEF InUse
    <3>4. b \notin Range(head_pos, pos)
      BY <3>1, <1>4
    <3>5. D(b) \in Nat /\ D(pos) \in Nat /\ D(pos) <= D(b)
      BY <3>1, <3>4, <1>0, UsedInt DEF Range
    <3>6. D(pos) <= D(b + m)
      BY <3>1, <3>3, <3>5
    <3>7. Goes(b + m)
      BY <3>1, <1>0 DEF Tiled
    <3>8. \A x : x = b + m => (Goes(x)' <=> Goes(wl[q].idx + wl[q].nr)')
      BY <3>1
    <3> HIDE DEF b, m
    <3> QED
      BY <3>3, <3>6, <3>7, <3>8, <1>10
  <2> QED
    BY <2>1, <2>2, <2>3 DEF Tiled
<1>12. Used' \in Nat /\ Used \in Nat /\ Used' <= Used
  <2>1. D(pos) \in Nat /\ UsedNodes(pos, tail_pos) \in Nat /\ Used \in Nat
    BY <1>0, UsedInt DEF Used
  <2>2. UsedNodes(pos, tail_pos) = Used - D(pos)
    BY <2>1, <1>0, <1>3, UsedSplit DEF Used
  <2> QED
    BY <2>1, <2>2, <1>u DEF Used
<1>13. \A q \in Writers : Room(q)'
  <2> SUFFICES ASSUME NEW q \in Writers, q \notin passed PROVE Room(q)'
    BY <1>u DEF Room
  <2>1. Room(q) /\ wl[q].nr \in Nat
    BY InRing DEF Steady, Reserved
  <2>2. ASSUME wpc[q] = "cas", wl[q].idx # wl[q].old_tail PROVE head_pos <= pos
    <3>1. /\ Used + wl[q].nr + RESERVE_BLOCK_COUNT <= ele_count
          /\ tail_pos + wl[q].nr > ele_count
      BY <2>1, <2>2 DEF Room
    <3>2. Used = IF head_pos <= tail_pos THEN tail_pos - head_pos
                 ELSE ele_count + 1 + tail_pos - head_pos
      BY <1>0, UsedCases DEF Used
    <3>3. head_pos <= tail_pos
      BY <3>1, <3>2, <2>1, <1>0 DEF Blocks
    <3>4. D(pos) = IF head_pos <= pos THEN pos - head_pos ELSE ele_count + 1 + pos - head_pos
      BY <1>0, UsedCases
    <3> QED
      BY <3>2, <3>3, <3>4, <1>0, <1>3 DEF Blocks
  <2>3. /\ wpc'[q] = wpc[q] /\ wl'[q] = wl[q] /\ tail_pos' = tail_pos /\ head_pos' = pos
        /\ wl[q].nr \in Nat /\ head_pos \in Int /\ pos \in Int
    BY <2>1, <1>u, <1>0 DEF Blocks
  <2>4. wpc[q] \in {"alloc", "wrap", "cas"} =>
            Used' + wl[q].nr + RESERVE_BLOCK_COUNT <= ele_count
    BY <2>1, <1>0, <1>12 DEF Room
  <2>5. wpc[q] = "cas" /\ wl[q].idx # wl[q].old_tail =>
            tail_pos + wl[q].nr > ele_count /\ wl[q].nr < pos
    BY <2>1, <2>2, <2>3 DEF Room
  <2>6. wpc[q] = "wrap" => tail_pos + wl[q].nr > ele_count
    BY <2>1 DEF Room
  <2> QED
    BY <2>3, <2>4, <2>5, <2>6 DEF Room
<1>14. Skims(r)' /\ Short(r)'
  <2>1. Half(n)
    BY <1>2 DEF HalfReserve
  <2>2. IF o < pos THEN Half(pos - o) ELSE Half(pos) /\ Half(ele_count + 1 - o)
    <3>1. CASE h = o
      <4>1. pos - o = n /\ o < pos
        BY <3>1, <1>0, <1>2, <1>3 DEF Blocks
      <4> QED
        BY <4>1, <2>1
    <3>2. CASE h # o
      <4>1. Gap(o) /\ (h > o \/ h = 0)
        BY <3>2, <1>0 DEF Skims, HoldsHead, ReaderPC
      <4>2. Starts(h)
        BY <1>2 DEF Starts
      <4>3. h = 0
        BY <4>1, <4>2, <1>0 DEF Gap, Blocks
      <4>4. pos = n /\ Half(ele_count + 1 - o)
        BY <4>1, <4>3, <1>0, <1>2 DEF Gap
      <4>5. o < pos => Half(pos - o)
        BY <4>4, <2>1, <1>0 DEF Half, Blocks
      <4> QED
        BY <4>4, <4>5, <2>1
    <3> QED
      BY <3>1, <3>2
  <2> QED
    BY <2>2, <1>u DEF Skims, HoldsHead, Short, Half
<1>15. \A s \in Readers : s = r
  BY DEF Alone
<1>16. \A s \in Readers : Skims(s)' /\ Short(s)'
  BY <1>14, <1>15
<1> QED
  BY <1>11, <1>13, <1>16 DEF Reserved, Steady

\* Accidents are not forgotten, and a reader that is alone is never passed.
LEMMA NeverPassed ==
    ASSUME Alone, PlainInv, [Next]_vars, \A r \in Readers : r \notin passed
    PROVE  /\ \A r \in Readers : r \notin passed'
           /\ Calm' => Calm
<1>1. ASSUME NEW p \in Writers, Writer(p) \/ WriterCrash(p)
      PROVE  passed' \subseteq passed \cup Writers /\ (Calm' => Calm)
  <2> USE DEF Calm, history, crashes
  <2>1. ASSUME NEW l \in Lens, PutStart(p, l) PROVE passed' = passed /\ (Calm' => Calm)
    BY <2>1 DEF PutStart
  <2>2. CASE PutLoadTail(p)
    BY <2>2 DEF PutLoadTail
  <2>3. CASE PutReadHead(p) \/ PutCheck(p) \/ PutAlloc(p) \/ PutWrap(p)
    BY <2>3 DEF PutReadHead, PutCheck, PutAlloc, PutWrap
  <2>4. CASE PutCAS(p)
    <3>1. gaveUp' = gaveUp /\ wcrashes' = wcrashes /\ passed' \subseteq passed \cup Writers
      BY <2>4 DEF PutCAS, MoveTail
    <3>2. aba => aba'
      <4>1. CASE MoveTail(p)
        BY <4>1, Zenon DEF MoveTail
      <4>2. CASE aba' = aba
        BY <4>2
      <4> QED
        BY <2>4, <4>1, <4>2 DEF PutCAS
    <3> QED
      BY <3>1, <3>2
  <2>5. CASE PutSkip(p) \/ PutCopy(p) \/ PutToken(p)
    BY <2>5 DEF PutSkip, PutCopy, PutToken
  <2>6. CASE WriterCrash(p)
    BY <2>6 DEF WriterCrash, PlainInv, TypeOK, HistoryOK
  <2> QED
    BY <1>1, <2>1, <2>2, <2>3, <2>4, <2>5, <2>6 DEF Writer
<1>2. ASSUME NEW r \in Readers, Reader(r) \/ ReaderCrash(r)
      PROVE  passed' \subseteq passed /\ (Calm' => Calm)
  <2> USE DEF Calm, history, crashes
  <2>1. CASE GetLoadHead(r)
    BY <2>1 DEF GetLoadHead
  <2>2. CASE GetEndCAS(r) \/ GetCAS(r)
    <3>1. Readers \ {r} = {}
      BY DEF Alone
    <3>2. ASSUME NEW x, MoveHead(r, x) PROVE passed' = passed /\ (aba => aba')
      BY <3>1, <3>2 DEF MoveHead
    <3>3. KeepHead(r) => passed' = passed /\ aba' = aba
      BY DEF KeepHead
    <3> QED
      BY <2>2, <3>2, <3>3 DEF GetEndCAS, GetCAS
  <2>3. CASE GetTail(r) \/ GetTok1(r) \/ GetTok2(r) \/ GetRecheck(r) \/ GetLen(r) \/ GetFits(r)
    BY <2>3 DEF GetTail, GetTok1, GetTok2, GetRecheck, GetLen, GetFits
  <2>4. CASE GetTok3(r)
    <3>1. passed' = passed /\ aba' = aba /\ wcrashes' = wcrashes
      BY <2>4 DEF GetTok3
    <3>2. gaveUp => gaveUp'
      BY <2>4, Zenon DEF GetTok3
    <3> QED
      BY <3>1, <3>2
  <2>5. CASE GetCopy(r) \/ GetClear(r) \/ ReaderCrash(r)
    BY <2>5 DEF GetCopy, GetClear, ReaderCrash
  <2> QED
    BY <1>2, <2>1, <2>2, <2>3, <2>4, <2>5 DEF Reader
<1>3. CASE UNCHANGED vars
  BY <1>3 DEF vars, history, crashes, Calm
<1> QED
  BY <1>1, <1>2, <1>3, QueueAssumption DEF Next

\* Every step of sq_put and sq_get keeps the reserve's invariant: the case of
\* each action is a lemma above.
LEMMA NextReserve ==
    ASSUME ReadersFinish, Alone, HalfReserve
    PROVE  MessagesHold /\ ReserveInv /\ [Next]_vars => ReserveInv'
<1> SUFFICES ASSUME MessagesHold, ReserveInv, [Next]_vars
             PROVE  ReserveInv'
  OBVIOUS
<1>1. (\A r \in Readers : r \notin passed') /\ (Calm' => Calm)
  BY NeverPassed DEF ReserveInv, MessagesHold, RingHolds
<1> SUFFICES ASSUME Calm' PROVE ~conflict' /\ Reserved'
  BY <1>1 DEF ReserveInv
<1>g. Good /\ TypeInv /\ RingInv /\ MessageInv
  <2>1. Good
    BY <1>1 DEF ReserveInv, Good, Calm
  <2> QED
    BY <2>1, MessagesHoldNow
<1>2. Steady
  BY <1>1, <1>g DEF Steady, ReserveInv, MessageInv, Good, Calm
<1>3. ~gaveUp' /\ ~aba' /\ wcrashes' = 0 /\ wcrashes = 0
  BY <1>2 DEF Steady, Calm
<1>4. ASSUME NEW p \in Writers, Writer(p) \/ WriterCrash(p)
      PROVE  ~conflict' /\ Reserved'
  <2>1. ~WriterCrash(p)
    BY <1>3 DEF WriterCrash
  <2>2. CASE PutCAS(p) /\ tail_pos = wl[p].old_tail
    BY <2>2, <1>2, <1>3, TakeTailReserve
  <2>3. CASE PutSkip(p) \/ PutCopy(p) \/ PutToken(p)
    BY <2>3, <1>2, FillingStepsReserve
  <2>4. CASE \/ \E l \in Lens : PutStart(p, l)
             \/ PutLoadTail(p) \/ PutReadHead(p) \/ PutCheck(p) \/ PutAlloc(p) \/ PutWrap(p)
             \/ PutCAS(p) /\ tail_pos # wl[p].old_tail
    BY <2>4, <1>2, AskingStepsReserve
  <2> QED
    BY <1>4, <2>1, <2>2, <2>3, <2>4 DEF Writer
<1>5. ASSUME NEW r \in Readers, Reader(r) \/ ReaderCrash(r)
      PROVE  ~conflict' /\ Reserved'
  <2>1. CASE GetCAS(r) /\ ~KeepHead(r)
    <3>1. /\ rpc[r] = "cas" /\ MoveHead(r, rl[r].new_head)
          /\ \/ rl[r].len > buf_sz
             \/ rl[r].len < 0
             \/ RGoto(r, "copy") /\ UNCHANGED rl
          /\ UNCHANGED <<tail_pos, start_token, datalen, data, wvars>>
          /\ UNCHANGED <<nputs, lenOf, putDone, returned, conflict, gaveUp>>
      BY <2>1 DEF GetCAS
    <3>2. Current(r)
      BY <3>1, <1>2 DEF Steady, Current, HoldsHead, ReaderPC
    <3>3. TypeInv /\ Scans(r) /\ Counted /\ Marks
      BY <1>2 DEF Steady, Layout, Locals
    <3>4. rl[r].len \in Lens
      BY <3>1, <3>2, <3>3, TakenLength
    <3>5. ~(rl[r].len > buf_sz) /\ ~(rl[r].len < 0)
      <4>1. rl[r].len <= buf_sz
        BY <3>4 DEF ReadersFinish
      <4>2. rl[r].len \in Nat /\ buf_sz \in Nat
        BY <3>4, LensInBounds, QueueAssumption
      <4> QED
        BY ONLY <4>1, <4>2
    <3>6. rpc' = [rpc EXCEPT ![r] = "copy"] /\ rl' = rl
      BY <3>1, <3>5 DEF RGoto
    <3> QED
      BY <3>1, <3>6, <1>2, TakeHeadReserve
  <2>2. CASE GetCopy(r) \/ GetClear(r)
    BY <2>2, <1>2, TakingStepsReserve
  <2>3. CASE ReaderCrash(r)
    BY <2>3, <1>g, BoundAssumption DEF ReaderCrash, ReadersFinish, TypeInv, TypeOK, HistoryOK
  <2>4. CASE \/ GetLoadHead(r) \/ GetTail(r) \/ GetEndCAS(r) \/ GetTok1(r) \/ GetTok2(r)
             \/ GetRecheck(r) \/ GetTok3(r) \/ GetLen(r) \/ GetFits(r)
             \/ GetCAS(r) /\ KeepHead(r)
    BY <2>4, <1>2, <1>3, ScanningStepsReserve
  <2> QED
    BY <1>5, <2>1, <2>2, <2>3, <2>4 DEF Reader
<1>6. CASE UNCHANGED vars
  <2> USE <1>6 DEF vars, shm, wvars, rvars, history, crashes
  <2>1. Tiled' <=> Tiled
    BY DEF Tiled, Goes, Gap, Starts, Half, Marked, InUse, Range, Writing, Size
  <2>2. (\A p \in Writers : Room(p)) <=> (\A p \in Writers : Room(p)')
    BY DEF Room, Used
  <2>3. (\A r \in Readers : Skims(r) /\ Short(r)) <=> (\A r \in Readers : Skims(r)' /\ Short(r)')
    BY DEF Skims, Short, Taking, Gap, Starts, Half, Marked, InUse, Range, Writing
  <2> QED
    BY <2>1, <2>2, <2>3, <1>2 DEF Steady, Reserved
<1> QED
  BY <1>4, <1>5, <1>6 DEF Next

\* "number of blocks that will be reserved to avoid write-read conflict": with one
\* reader, the reserve keeps the writers, however many, out of the blocks that
\* the reader has taken and still reads or clears, if no message needs more than
\* half of it.
THEOREM ReserveSuffices ==
    ASSUME ReadersFinish, \A r, s \in Readers : r = s, HalfReserve
    PROVE  Spec => [](aba \/ NoConflict)
<1>1. Alone
  BY DEF Alone
<1>2. Init => MessagesHold /\ ReserveInv
  <2>1. Init => ReserveInv
    BY DEF Init, ReserveInv, Calm, Reserved, Tiled, Goes, Room, Skims, Short, Taking, HoldsHead,
           Marked, Writing, TOKEN_NO_DATA, TOKEN_HAS_DATA, InUse, Range
  <2> QED
    BY <2>1, InitHolds
<1>3. MessagesHold /\ ReserveInv /\ [Next]_vars => (MessagesHold /\ ReserveInv)'
  BY <1>1, MessagesHoldStep, NextReserve
<1>4. MessagesHold /\ ReserveInv => aba \/ NoConflict
  BY DEF ReserveInv, Calm, NoConflict, MessagesHold, RingHolds, PlainInv, TypeOK, HistoryOK
<1> QED
  BY <1>2, <1>3, <1>4, PTL DEF Spec

\* With one writer too no outdated position is exchanged, and the proviso goes.
THEOREM NoConflictForOne ==
    ASSUME ReadersFinish, HalfReserve,
           \A p, q \in Writers : p = q, \A r, s \in Readers : r = s
    PROVE  Spec => []NoConflict
<1>1. Spec => [](aba \/ NoConflict)
  BY ReserveSuffices
<1>2. Spec => []UpToDate
  BY UpToDateKept
<1>3. (aba \/ NoConflict) /\ UpToDate => NoConflict
  BY DEF UpToDate
<1> QED
  BY <1>1, <1>2, <1>3, PTL

=============================================================================
