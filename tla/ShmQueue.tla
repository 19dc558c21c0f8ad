------------------------------ MODULE ShmQueue ------------------------------
(***************************************************************************)
(* The data path of the shared-memory queue: sq_put and sq_get of          *)
(* shmqueue/shm_queue.c, working on the ring of blocks that sq_head_t      *)
(* describes.  One action per access to shared memory: writers and readers *)
(* are processes that interleave between any two of them, and each may die *)
(* between any two of them and be started again.                           *)
(*                                                                         *)
(* A block is a sq_node_head_t followed by ele_size bytes.  A message that *)
(* needs several blocks has a header in its first block only: the bytes of *)
(* the others, header fields included, are payload.                        *)
(*                                                                         *)
(* Stores are seen in program order: x86 keeps the order of stores, and    *)
(* the build (no optimisation level is set) keeps the order of the code.   *)
(***************************************************************************)
EXTENDS Integers, Sequences, FiniteSets

CONSTANTS
    Writers, Readers,        \* processes that call sq_put, sq_get
    ele_size, ele_count,     \* the arguments of sq_create
    RESERVE_BLOCK_COUNT,
    SQ_MAX_CONFLICT_TRIES,
    MAX_SQ_DATA_LENGTH,
    IntRange, SizeRange,     \* how many values an int and a size_t have
    Lens,                    \* the lengths of the messages that are put
    Words,                   \* the ints that four bytes of payload may be
    buf_sz,                  \* the size of the buffer given to sq_get
    MaxPuts,                 \* bound: messages allocated in the ring
    MaxWriterCrashes,        \* bound: writers that die inside sq_put
    MaxReaderCrashes         \* bound: readers that die inside sq_get

ASSUME QueueAssumption ==
    /\ Writers \cap Readers = {}
    /\ ele_size \in Nat \ {0}
    /\ RESERVE_BLOCK_COUNT \in Nat \ {0}
    /\ ele_count \in Nat /\ ele_count > RESERVE_BLOCK_COUNT
    /\ SQ_MAX_CONFLICT_TRIES \in Nat
    /\ MAX_SQ_DATA_LENGTH \in Nat
    /\ Lens \subseteq 1 .. MAX_SQ_DATA_LENGTH
    /\ Words \subseteq Int
    /\ buf_sz \in Nat \ {0}

ASSUME BoundAssumption ==
    /\ MaxPuts \in Nat /\ MaxWriterCrashes \in Nat /\ MaxReaderCrashes \in Nat

-----------------------------------------------------------------------------
(* The macros on positions and sizes.  Here and below, a definition that   *)
(* directly precedes another with its parameters and is used nowhere is    *)
(* the other one with a mistake in it, which the properties must notice.   *)

\* sizeof(struct sq_node_head_t): two words and a 32-bit timeval
NODE_HEAD == 16

\* SQ_NODE_SIZE, and open_shm_queue's alignment of ele_size to 8 bytes
NodeSize == NODE_HEAD + ((ele_size + 7) \div 8) * 8

\* A message and its header are well below the greatest int; 2^32 and 2^64 in
\* the code.
ASSUME WidthAssumption ==
    /\ IntRange \in Nat /\ SizeRange \in Nat /\ IntRange <= SizeRange
    /\ 2 * (MAX_SQ_DATA_LENGTH + NODE_HEAD + NodeSize) < IntRange

\* What is left of a size_t when it is stored in an int
AsInt(n) == IF 2 * (n % IntRange) < IntRange THEN n % IntRange
            ELSE (n % IntRange) - IntRange

\* SQ_NUM_NEEDED_NODES: computed in size_t, because of its sizeof, from an int
\* and stored in an int.  A negative length gives 0, 1 or a number that may be
\* negative too.
NumNeeded(datalen) ==
    AsInt(((datalen + NODE_HEAD + NodeSize - 1) % SizeRange) \div NodeSize)

\* The ring has an extra element for ending control
Blocks == 0 .. ele_count

\* % of the language: the remainder has the sign of a.
Rem(a, b) == IF a >= 0 THEN a % b ELSE -((-a) % b)

\* What % leaves of a position: with a negative number of blocks it is one in
\* front of the ring.
Positions == -ele_count .. ele_count

\* SQ_ADD_POS; SQ_ADD_HEAD and SQ_ADD_TAIL add to the head and the tail
AddPosNoWrap(pos, val) == pos + val
AddPos(pos, val) == Rem(pos + val, ele_count + 1)

\* SQ_EMPTY_NODES2 and SQ_USED_NODES2; SQ_EMPTY_NODES has head = head_pos
EmptyNodes(head, tail) == Rem(head + ele_count - tail, ele_count + 1)
UsedNodes(head, tail)  == ele_count - EmptyNodes(head, tail)

-----------------------------------------------------------------------------

TOKEN_NO_DATA  == "no_data"
TOKEN_SKIPPED  == "skipped"
TOKEN_HAS_DATA == "has_data"
PAYLOAD        == "payload"      \* bytes of a message that are no token
Tokens == {TOKEN_NO_DATA, TOKEN_SKIPPED, TOKEN_HAS_DATA, PAYLOAD}

GARBAGE == -1            \* the header length of a block whose bytes are payload

Ids == 1 .. MaxPuts              \* messages, in the order they are allocated

VARIABLES
    head_pos, tail_pos,          \* sq_head_t
    start_token, datalen, data,  \* the blocks; data[b] = 0 before any put
    wpc, wl,                     \* writers: where in sq_put, its locals
    rpc, rl,                     \* readers: where in sq_get, its locals
    rw_conflict,                 \* in the reader's handle, kept between calls
    nputs, lenOf,                \* history: messages allocated, their lengths
    putDone,                     \* history: messages whose sq_put returned 0
    returned,                    \* history: what sq_get returned, per call
    conflict,                    \* history: a write-read conflict happened
    gaveUp,                      \* history: a reader gave up a live writer
    passed,                      \* history: who holds an outdated old_tail/old_head
    aba,                         \* history: ... and exchanged it all the same
    astray,                      \* history: the head was moved by less than no block
    left,                        \* history: blocks with a token a dead reader left
    misled,                      \* history: a reader took such a token for a start
    lost,                        \* history: what was taken by readers that died
    wcrashes, rcrashes           \* how often a process has died

shm     == <<head_pos, tail_pos, start_token, datalen, data>>
wvars   == <<wpc, wl>>
rvars   == <<rpc, rl, rw_conflict>>
remains == <<astray, left, misled, lost>>
history == <<nputs, lenOf, putDone, returned, conflict, gaveUp, passed, aba, remains>>
crashes == <<wcrashes, rcrashes>>
vars    == <<shm, wvars, rvars, history, crashes>>

WriterPC == {"idle", "load", "head", "check", "alloc", "wrap", "cas",
             "skip", "copy", "token"}
ReaderPC == {"idle", "load", "tail", "endcas", "tok1", "tok2", "recheck",
             "tok3", "len", "fits", "cas", "copy", "clear"}

\* Where old_tail and old_head have been loaded and not yet exchanged
HoldsTail == {"head", "check", "alloc", "wrap", "cas"}
HoldsHead == ReaderPC \ {"idle", "load", "copy", "clear"}

WLocals == [len: Lens \cup {0}, nr: Nat, h: Positions, old_tail: Blocks,
            new_tail: Blocks, idx: Blocks, id: 0 .. MaxPuts, k: Nat]
Buffers == Seq(0 .. MaxPuts)     \* what was copied out, a number per block
RLocals == [old_head: Positions, head: Positions, new_head: Positions,
            len: Int, nr: Int, k: Nat, buf: Buffers]
Results == [len: Nat, buf: Buffers]

WIdle == [len |-> 0, nr |-> 0, h |-> 0, old_tail |-> 0, new_tail |-> 0,
          idx |-> 0, id |-> 0, k |-> 0]
RIdle == [old_head |-> 0, head |-> 0, new_head |-> 0, len |-> 0, nr |-> 0,
          k |-> 0, buf |-> << >>]

\* Shared memory as a fresh segment is: open_shm_queue clears all of it.
Init ==
    /\ head_pos = 0 /\ tail_pos = 0
    /\ start_token = [b \in Blocks |-> TOKEN_NO_DATA]
    /\ datalen = [b \in Blocks |-> 0]
    /\ data = [b \in Blocks |-> 0]
    /\ wpc = [p \in Writers |-> "idle"] /\ wl = [p \in Writers |-> WIdle]
    /\ rpc = [r \in Readers |-> "idle"] /\ rl = [r \in Readers |-> RIdle]
    /\ rw_conflict = [r \in Readers |-> 0]
    /\ nputs = 0 /\ lenOf = << >> /\ putDone = {} /\ returned = << >>
    /\ conflict = FALSE /\ gaveUp = FALSE /\ passed = {} /\ aba = FALSE
    /\ astray = FALSE /\ left = {} /\ misled = FALSE /\ lost = {}
    /\ wcrashes = 0 /\ rcrashes = 0

-----------------------------------------------------------------------------
(* What the two sides are working on: for the history variables only *)

\* The blocks from position a up to, not including, position b
Range(a, b) == {x \in Blocks : UsedNodes(a, x) < UsedNodes(a, b)}

\* The blocks a reader has looked at in this call and may still read or clear
Busy(r) ==
    CASE rpc[r] \in {"idle", "load"} -> {}
      [] rpc[r] \in {"tail", "endcas"} -> Range(rl[r].old_head, rl[r].head)
      [] rpc[r] \in {"tok1", "tok2", "recheck", "tok3", "len", "fits"} ->
            Range(rl[r].old_head, rl[r].head) \cup {rl[r].head}
      [] OTHER -> Range(rl[r].old_head, rl[r].new_head)

\* The blocks a successful exchange of the tail hands to writer p
Handed(p) ==
    {b \in Blocks : \/ wl[p].idx <= b /\ b < wl[p].idx + wl[p].nr
                    \/ wl[p].idx = 0 /\ wl[p].old_tail # 0
                       /\ wl[p].old_tail <= b}

\* The blocks whose token writer p has yet to write
Unwritten(p) ==
    CASE wpc[p] = "skip" -> Handed(p)
      [] wpc[p] \in {"copy", "token"} -> {wl[p].idx}
      [] OTHER -> {}

\* sq_get_used_blocks
Used == UsedNodes(head_pos, tail_pos)

-----------------------------------------------------------------------------
(* sq_put *)

\* The call, past the check of its parameters
PutStart(p, l) ==
    /\ wpc[p] = "idle" /\ nputs < MaxPuts
    /\ wpc' = [wpc EXCEPT ![p] = "load"]
    /\ wl' = [wl EXCEPT ![p] = [WIdle EXCEPT !.len = l, !.nr = NumNeeded(l)]]
    /\ UNCHANGED <<shm, rvars, history, crashes>>

\* old_tail = queue->tail_pos
PutLoadTail(p) ==
    /\ wpc[p] = "load"
    /\ wpc' = [wpc EXCEPT ![p] = "head"]
    /\ wl' = [wl EXCEPT ![p].old_tail = tail_pos]
    /\ passed' = passed \ {p}
    /\ UNCHANGED <<shm, rvars, crashes>>
    /\ UNCHANGED <<nputs, lenOf, putDone, returned, conflict, gaveUp, aba, remains>>

\* SQ_EMPTY_NODES reads head_pos ...
PutReadHead(p) ==
    /\ wpc[p] = "head"
    /\ wpc' = [wpc EXCEPT ![p] = "check"]
    /\ wl' = [wl EXCEPT ![p].h = head_pos]
    /\ UNCHANGED <<shm, rvars, history, crashes>>

\* return -2 (or 0): the call is over
PutReturn(p) ==
    /\ wpc' = [wpc EXCEPT ![p] = "idle"]
    /\ wl' = [wl EXCEPT ![p] = WIdle]

\* SQ_EMPTY_NODES(queue)<nr_nodes+RESERVE_BLOCK_COUNT is not the case
EnoughUnreserved(h, tail, nr) == EmptyNodes(h, tail) >= nr
Enough(h, tail, nr) == EmptyNodes(h, tail) >= nr + RESERVE_BLOCK_COUNT

\* ... and then tail_pos: "Not enough for new data", or go on
PutCheck(p) ==
    /\ wpc[p] = "check"
    /\ IF Enough(wl[p].h, tail_pos, wl[p].nr)
       THEN wpc' = [wpc EXCEPT ![p] = "alloc"] /\ UNCHANGED wl
       ELSE PutReturn(p)
    /\ UNCHANGED <<shm, rvars, history, crashes>>

\* idx = old_tail, new_tail = SQ_ADD_TAIL, which reads tail_pos again
PutAlloc(p) ==
    /\ wpc[p] = "alloc"
    /\ LET t == AddPos(tail_pos, wl[p].nr)
       IN  /\ wl' = [wl EXCEPT ![p].new_tail = t, ![p].idx = wl[p].old_tail]
           /\ wpc' = [wpc EXCEPT ![p] =
                        IF t < wl[p].old_tail THEN "wrap" ELSE "cas"]
    /\ UNCHANGED <<shm, rvars, history, crashes>>

\* queue->head_pos-1 < nr_nodes is not the case
RoomBeforeHead(nr) == head_pos - 1 >= nr

\* Wrapped back: begin at block 0, if the head leaves room for it there
PutWrap(p) ==
    /\ wpc[p] = "wrap"
    /\ IF RoomBeforeHead(wl[p].nr)
       THEN /\ wpc' = [wpc EXCEPT ![p] = "cas"]
            /\ wl' = [wl EXCEPT ![p].new_tail = wl[p].nr, ![p].idx = 0]
       ELSE PutReturn(p)
    /\ UNCHANGED <<shm, rvars, history, crashes>>

\* The exchange of tail_pos succeeds, for writer p; stored without comparing
StoreTail(p) ==
    /\ tail_pos' = wl[p].new_tail
    /\ UNCHANGED <<aba, passed>>
MoveTail(p) ==
    /\ tail_pos = wl[p].old_tail
    /\ tail_pos' = wl[p].new_tail
    /\ aba' = (aba \/ p \in passed)
    /\ passed' = passed \cup {q \in Writers \ {p} : wpc[q] \in HoldsTail}

\* CAS32(&queue->tail_pos, old_tail, new_tail): from here on the blocks up to
\* new_tail are the writer's to fill; if it fails, start again
PutCAS(p) ==
    /\ wpc[p] = "cas"
    /\ \/ /\ MoveTail(p)
          /\ nputs < MaxPuts
          /\ wpc' = [wpc EXCEPT ![p] =
                IF wl[p].idx = 0 /\ wl[p].old_tail # 0 THEN "skip" ELSE "copy"]
          /\ wl' = [wl EXCEPT ![p].id = nputs + 1, ![p].k = 0]
          /\ nputs' = nputs + 1
          /\ lenOf' = Append(lenOf, wl[p].len)
          /\ conflict' = (conflict \/ \E r \in Readers : Busy(r) \cap Handed(p) # {})
          /\ UNCHANGED <<head_pos, start_token, datalen, data>>
          /\ UNCHANGED <<putDone, returned, gaveUp, remains>>
       \/ /\ tail_pos # wl[p].old_tail
          /\ wpc' = [wpc EXCEPT ![p] = "load"]
          /\ UNCHANGED <<shm, wl, history>>
    /\ UNCHANGED <<rvars, crashes>>

\* Block b has a new token.
Written(b) == left' = left \ {b} /\ UNCHANGED <<astray, misled, lost>>

\* One turn of the loop that marks the blocks skipped at the end of the ring
PutSkip(p) ==
    /\ wpc[p] = "skip"
    /\ start_token' = [start_token EXCEPT ![wl[p].old_tail] = TOKEN_SKIPPED]
    /\ LET t == AddPos(wl[p].old_tail, 1)
       IN  /\ wl' = [wl EXCEPT ![p].old_tail = t]
           /\ wpc' = [wpc EXCEPT ![p] = IF t = 0 THEN "copy" ELSE "skip"]
    /\ Written(wl[p].old_tail)
    /\ UNCHANGED <<head_pos, tail_pos, datalen, data, rvars, crashes>>
    /\ UNCHANGED <<nputs, lenOf, putDone, returned, conflict, gaveUp, passed, aba>>

\* The bytes of the token of the k-th block, once that block is written
TokenFirst(b, k) == IF k = 0 THEN TOKEN_HAS_DATA ELSE PAYLOAD
TokenAfter(b, k) == IF k = 0 THEN start_token[b] ELSE PAYLOAD

\* The header length, the timestamp and the data, a block at a time: the first
\* block keeps its token, the others are payload from the first byte
PutCopy(p) ==
    /\ wpc[p] = "copy"
    /\ LET k == wl[p].k
           b == wl[p].idx + k
       IN  /\ data' = [data EXCEPT ![b] = wl[p].id]
           /\ datalen' = [datalen EXCEPT ![b] = IF k = 0 THEN wl[p].len ELSE GARBAGE]
           /\ start_token' = [start_token EXCEPT ![b] = TokenAfter(b, k)]
           /\ wl' = [wl EXCEPT ![p].k = k + 1]
           /\ wpc' = [wpc EXCEPT ![p] = IF k + 1 = wl[p].nr THEN "token" ELSE "copy"]
           /\ IF k = 0 THEN UNCHANGED remains ELSE Written(b)
    /\ UNCHANGED <<head_pos, tail_pos, rvars, crashes>>
    /\ UNCHANGED <<nputs, lenOf, putDone, returned, conflict, gaveUp, passed, aba>>

\* start_token = TOKEN_HAS_DATA: the data is ready for reading; return 0
PutToken(p) ==
    /\ wpc[p] = "token"
    /\ start_token' = [start_token EXCEPT ![wl[p].idx] = TOKEN_HAS_DATA]
    /\ PutReturn(p)
    /\ putDone' = putDone \cup {wl[p].id}
    /\ Written(wl[p].idx)
    /\ UNCHANGED <<head_pos, tail_pos, datalen, data, rvars, crashes>>
    /\ UNCHANGED <<nputs, lenOf, returned, conflict, gaveUp, passed, aba>>

\* A writer dies inside the call; the process that takes its place attaches
\* the segment as it is.
WriterCrash(p) ==
    /\ wpc[p] # "idle" /\ wcrashes < MaxWriterCrashes
    /\ wcrashes' = wcrashes + 1
    /\ PutReturn(p)
    /\ UNCHANGED <<shm, rvars, history, rcrashes>>

Writer(p) ==
    \/ \E l \in Lens : PutStart(p, l)
    \/ PutLoadTail(p) \/ PutReadHead(p) \/ PutCheck(p) \/ PutAlloc(p)
    \/ PutWrap(p) \/ PutCAS(p) \/ PutSkip(p) \/ PutCopy(p) \/ PutToken(p)

-----------------------------------------------------------------------------
(* sq_get *)

RGoto(r, l) == rpc' = [rpc EXCEPT ![r] = l]

\* return, with the handle's conflict counter left at c
GetReturn(r, c) ==
    /\ rpc' = [rpc EXCEPT ![r] = "idle"]
    /\ rl' = [rl EXCEPT ![r] = RIdle]
    /\ rw_conflict' = [rw_conflict EXCEPT ![r] = c]

\* start over with head_pos as it is then
GetAgain(r) ==
    /\ rpc' = [rpc EXCEPT ![r] = "load"]
    /\ rl' = [rl EXCEPT ![r] = RIdle]
    /\ UNCHANGED rw_conflict

\* head = old_head = queue->head_pos, on the call and when starting over
GetLoadHead(r) ==
    /\ rpc[r] \in {"idle", "load"}
    /\ rl' = [rl EXCEPT ![r] = [RIdle EXCEPT !.old_head = head_pos, !.head = head_pos]]
    /\ RGoto(r, "tail")
    /\ passed' = passed \ {r}
    /\ UNCHANGED <<shm, wvars, rw_conflict, crashes>>
    /\ UNCHANGED <<nputs, lenOf, putDone, returned, conflict, gaveUp, aba, remains>>

\* The exchange of head_pos succeeds, for reader r; stored without comparing
StoreHead(r, pos) ==
    /\ head_pos' = pos
    /\ UNCHANGED <<aba, passed>>
MoveHead(r, pos) ==
    /\ head_pos = rl[r].old_head
    /\ head_pos' = pos
    /\ aba' = (aba \/ r \in passed)
    /\ passed' = passed \cup {q \in Readers \ {r} : rpc[q] \in HoldsHead}

KeepHead(r) == head_pos # rl[r].old_head /\ UNCHANGED <<head_pos, aba, passed>>

\* End of queue?
GetTail(r) ==
    /\ rpc[r] = "tail"
    /\ \/ /\ tail_pos # rl[r].head
          /\ RGoto(r, "tok1") /\ UNCHANGED <<rl, rw_conflict>>
       \/ /\ tail_pos = rl[r].head /\ rl[r].head # rl[r].old_head
          /\ RGoto(r, "endcas") /\ UNCHANGED <<rl, rw_conflict>>
       \/ /\ tail_pos = rl[r].head /\ rl[r].head = rl[r].old_head
          /\ GetReturn(r, 0)
    /\ UNCHANGED <<shm, wvars, history, crashes>>

\* Only unreadable blocks up to the tail: drop them
GetEndCAS(r) ==
    /\ rpc[r] = "endcas"
    /\ \/ /\ MoveHead(r, rl[r].head)
          /\ rl' = [rl EXCEPT ![r].new_head = rl[r].head, ![r].len = 0]
          /\ RGoto(r, "clear") /\ UNCHANGED rw_conflict
       \/ KeepHead(r) /\ GetReturn(r, 0)
    /\ UNCHANGED <<tail_pos, start_token, datalen, data, wvars, crashes>>
    /\ UNCHANGED <<nputs, lenOf, putDone, returned, conflict, gaveUp, remains>>

\* The token at a position: in front of the ring are reserved bytes, all zero.
TokenAt(b) == IF b \in Blocks THEN start_token[b] ELSE TOKEN_NO_DATA

\* Block b is taken for the start of a message.
TakenForStart(b) ==
    /\ misled' = (misled \/ b \in left)
    /\ UNCHANGED <<astray, left, lost>>

\* node->start_token!=TOKEN_HAS_DATA
GetTok1(r) ==
    /\ rpc[r] = "tok1"
    /\ IF TokenAt(rl[r].head) = TOKEN_HAS_DATA
       THEN RGoto(r, "len") /\ TakenForStart(rl[r].head)
       ELSE RGoto(r, "tok2") /\ UNCHANGED remains
    /\ UNCHANGED <<shm, wvars, rl, rw_conflict, crashes>>
    /\ UNCHANGED <<nputs, lenOf, putDone, returned, conflict, gaveUp, passed, aba>>

\* Not written yet, and not waited for long enough?
Wait(r) == /\ TokenAt(rl[r].head) = TOKEN_NO_DATA
           /\ rw_conflict[r] < SQ_MAX_CONFLICT_TRIES

GetTok2(r) ==
    /\ rpc[r] = "tok2"
    /\ RGoto(r, IF Wait(r) THEN "recheck" ELSE "tok3")
    /\ UNCHANGED <<shm, wvars, rl, rw_conflict, history, crashes>>

\* sq->rw_conflict++
TriedNot(r) == rw_conflict[r]
Tried(r) == rw_conflict[r] + 1

\* Read by others: start all over again; else count a try and return no data
GetRecheck(r) ==
    /\ rpc[r] = "recheck"
    /\ \/ head_pos # rl[r].old_head /\ GetAgain(r)
       \/ head_pos = rl[r].old_head /\ GetReturn(r, Tried(r))
    /\ UNCHANGED <<shm, wvars, history, crashes>>

NextBlock(r) ==
    /\ rl' = [rl EXCEPT ![r].head = AddPos(rl[r].head, 1)]
    /\ RGoto(r, "tail")

\* The token once again: treat the block as corrupted, or take it after all
GetTok3(r) ==
    /\ rpc[r] = "tok3"
    /\ \/ /\ TokenAt(rl[r].head) = TOKEN_HAS_DATA
          /\ RGoto(r, "len") /\ TakenForStart(rl[r].head)
          /\ UNCHANGED <<rl, gaveUp>>
       \/ /\ TokenAt(rl[r].head) # TOKEN_HAS_DATA
          /\ NextBlock(r) /\ UNCHANGED remains
          /\ gaveUp' = (gaveUp \/ \E p \in Writers : rl[r].head \in Unwritten(p))
    /\ UNCHANGED <<shm, wvars, rw_conflict, crashes>>
    /\ UNCHANGED <<nputs, lenOf, putDone, returned, conflict, passed, aba>>

\* The header length of a block, as an int: any four bytes where it is payload
LenAt(b) == IF datalen[b] = GARBAGE THEN Words ELSE {datalen[b]}

\* datalen = node->datalen
GetLen(r) ==
    /\ rpc[r] = "len"
    /\ \E l \in LenAt(rl[r].head) :
         rl' = [rl EXCEPT ![r].len = l, ![r].nr = NumNeeded(l)]
    /\ RGoto(r, "fits")
    /\ UNCHANGED <<shm, wvars, rw_conflict, history, crashes>>

\* Does the ring hold as much from here on?  It holds any negative number.
FitsAnyway(r) == TRUE
Fits(r) == UsedNodes(rl[r].head, tail_pos) >= rl[r].nr

GetFits(r) ==
    /\ rpc[r] = "fits"
    /\ \/ /\ Fits(r)
          /\ rl' = [rl EXCEPT ![r].new_head = AddPos(rl[r].head, rl[r].nr)]
          /\ RGoto(r, "cas")
       \/ ~Fits(r) /\ NextBlock(r)
    /\ UNCHANGED <<shm, wvars, rw_conflict, history, crashes>>

\* The blocks that a reader has taken and not yet cleared keep their tokens, and
\* nobody gets the message it took from its head on.
Leaves(r) ==
    /\ left' = left \cup Range(rl[r].old_head, rl[r].new_head)
    /\ lost' = lost \cup {data[b] : b \in Range(rl[r].head, rl[r].new_head)}

\* CAS32(&queue->head_pos, old_head, new_head): the message is this reader's.
\* One longer than the buffer makes the call return -2 here; a negative length
\* is not longer, and the size_t that memcpy gets instead kills the process.
GetCAS(r) ==
    /\ rpc[r] = "cas"
    /\ \/ KeepHead(r) /\ GetAgain(r) /\ UNCHANGED <<astray, left, lost>>
       \/ /\ MoveHead(r, rl[r].new_head)
          /\ astray' = (astray \/ rl[r].nr < 0)
          /\ \/ /\ rl[r].len > buf_sz
                /\ GetReturn(r, rw_conflict[r]) /\ UNCHANGED <<left, lost>>
             \/ rl[r].len < 0 /\ GetReturn(r, 0) /\ Leaves(r)
             \/ /\ rl[r].len \in 0 .. buf_sz
                /\ RGoto(r, "copy") /\ UNCHANGED <<rl, rw_conflict, left, lost>>
    /\ UNCHANGED <<tail_pos, start_token, datalen, data, wvars, crashes, misled>>
    /\ UNCHANGED <<nputs, lenOf, putDone, returned, conflict, gaveUp>>

\* memcpy(buf, node->data, datalen), a block at a time
GetCopy(r) ==
    /\ rpc[r] = "copy"
    /\ LET b == rl[r].head + rl[r].k
           x == IF b \in Blocks THEN data[b] ELSE 0
       IN  rl' = [rl EXCEPT ![r].buf = Append(@, x), ![r].k = @ + 1]
    /\ RGoto(r, IF rl[r].k + 1 = rl[r].nr THEN "clear" ELSE "copy")
    /\ UNCHANGED <<shm, wvars, rw_conflict, history, crashes>>

\* node->start_token = 0, and the next node to reset
ResetNot(b) == start_token
Reset(b) == IF b \in Blocks THEN [start_token EXCEPT ![b] = TOKEN_NO_DATA]
            ELSE start_token

ResetOne(r) == rl[r].new_head
ResetNext(r) == AddPos(rl[r].old_head, 1)

\* One turn of the loop that resets the tokens; after the last, return datalen
GetClear(r) ==
    /\ rpc[r] = "clear"
    /\ start_token' = Reset(rl[r].old_head)
    /\ LET h == ResetNext(r)
       IN  IF h = rl[r].new_head
           THEN /\ GetReturn(r, 0)
                /\ returned' = IF rl[r].len = 0 THEN returned
                               ELSE Append(returned, [len |-> rl[r].len, buf |-> rl[r].buf])
           ELSE /\ rl' = [rl EXCEPT ![r].old_head = h]
                /\ UNCHANGED <<rpc, rw_conflict, returned>>
    /\ Written(rl[r].old_head)
    /\ UNCHANGED <<head_pos, tail_pos, datalen, data, wvars, crashes>>
    /\ UNCHANGED <<nputs, lenOf, putDone, conflict, gaveUp, passed, aba>>

\* A reader dies inside the call; another opens the queue with a new handle.
ReaderCrash(r) ==
    /\ rpc[r] # "idle" /\ rcrashes < MaxReaderCrashes
    /\ rcrashes' = rcrashes + 1
    /\ GetReturn(r, 0)
    /\ IF rpc[r] \in {"copy", "clear"} THEN Leaves(r) ELSE UNCHANGED <<left, lost>>
    /\ UNCHANGED <<shm, wvars, wcrashes, astray, misled>>
    /\ UNCHANGED <<nputs, lenOf, putDone, returned, conflict, gaveUp, passed, aba>>

Reader(r) ==
    \/ GetLoadHead(r) \/ GetTail(r) \/ GetEndCAS(r) \/ GetTok1(r)
    \/ GetTok2(r) \/ GetRecheck(r) \/ GetTok3(r) \/ GetLen(r) \/ GetFits(r)
    \/ GetCAS(r) \/ GetCopy(r) \/ GetClear(r)

Next ==
    \/ \E p \in Writers : Writer(p) \/ WriterCrash(p)
    \/ \E r \in Readers : Reader(r) \/ ReaderCrash(r)

Spec == Init /\ [][Next]_vars

\* A process inside sq_put or sq_get keeps running, and a reader keeps calling
\* sq_get (the loops of the test programs); nobody has to call sq_put.
FairSpec ==
    /\ Spec
    /\ \A p \in Writers : WF_vars(Writer(p) /\ wpc[p] # "idle")
    /\ \A r \in Readers : WF_vars(Reader(r))

-----------------------------------------------------------------------------
(* Properties *)

RingOK ==
    /\ head_pos \in Positions /\ tail_pos \in Blocks
    /\ start_token \in [Blocks -> Tokens]
    /\ datalen \in [Blocks -> Lens \cup {0, GARBAGE}]
    /\ data \in [Blocks -> 0 .. MaxPuts]

WritersOK == wpc \in [Writers -> WriterPC] /\ wl \in [Writers -> WLocals]

ReadersOK ==
    /\ rpc \in [Readers -> ReaderPC] /\ rl \in [Readers -> RLocals]
    /\ rw_conflict \in [Readers -> 0 .. SQ_MAX_CONFLICT_TRIES]

HistoryOK ==
    /\ nputs \in 0 .. MaxPuts /\ lenOf \in Seq(Lens)
    /\ putDone \subseteq Ids
    /\ returned \in Seq(Results)
    /\ conflict \in BOOLEAN /\ gaveUp \in BOOLEAN /\ aba \in BOOLEAN
    /\ passed \subseteq Writers \cup Readers
    /\ astray \in BOOLEAN /\ left \subseteq Blocks /\ misled \in BOOLEAN
    /\ lost \subseteq 0 .. MaxPuts
    /\ wcrashes \in 0 .. MaxWriterCrashes /\ rcrashes \in 0 .. MaxReaderCrashes

\* Every variable has the values the code can give it: the tail stays inside the
\* ring, the head inside it or less than a turn in front of it, whatever words
\* readers find for lengths in blocks that are being overwritten, and the
\* conflict counter below its limit.
TypeOK == RingOK /\ WritersOK /\ ReadersOK /\ HistoryOK

\* A step that moves the tail takes blocks that were free, and a step that
\* moves the head releases blocks that were in use: the two positions never
\* pass each other, so a full ring never looks empty nor an empty one full.
\* Any number of writers and readers, whatever is in the blocks and wherever
\* a process dies, as long as no exchange of a position succeeds only because
\* the position has come back to the value the process had loaded, and no
\* payload is taken for a length that makes a negative number of blocks.
RingConserved ==
    [][~aba' /\ ~astray' =>
            /\ tail_pos' # tail_pos =>
                    Used' = Used + UsedNodes(tail_pos, tail_pos')
            /\ head_pos' # head_pos =>
                    Used' = Used - UsedNodes(head_pos, head_pos')]_vars

\* "head position in the queue, pointer for reading": the head is the number
\* of a block.
HeadInRing == head_pos \in Blocks

\* No block that is still being read or cleared is handed to a writer: what
\* the RESERVE_BLOCK_COUNT blocks kept free are there for.
NoConflict == gaveUp \/ wcrashes > 0 \/ ~conflict

\* No reader took for corrupted what a live writer was filling, no block in
\* use by a reader was handed out, and no outdated position was exchanged.
Good == ~conflict /\ ~gaveUp /\ ~aba

Buf(i) == [len |-> lenOf[i], buf |-> [j \in 1 .. NumNeeded(lenOf[i]) |-> i]]
ReturnedIds == {i \in 1 .. nputs : \E j \in DOMAIN returned : returned[j] = Buf(i)}

\* Whatever sq_get returns is one whole message of a sq_put that has returned
\* 0, never a mixture of two nor one seen before its put was complete, and no
\* message is returned twice.
Intact ==
    Good => /\ \A j \in DOMAIN returned : \E i \in putDone : returned[j] = Buf(i)
            /\ \A j, k \in DOMAIN returned : returned[j] = returned[k] => j = k

\* "this function is multi-thread/multi-process safe": readers that share the
\* queue never get the same message twice.
ReturnedOnce ==
    ~conflict /\ ~gaveUp =>
        \A j, k \in DOMAIN returned : returned[j] = returned[k] => j = k

\* A single reader gets the messages in the order they were put in.
InOrder ==
    Good => \A j, k \in DOMAIN returned :
              j < k => returned[j].buf[1] < returned[k].buf[1]

\* "reset start_token so that this node will not be treated as a starting
\* node of data": outside the used part of the ring only blocks that a reader
\* is about to clear are marked as the start of a message.
NoStaleStart ==
    Good => \A b \in Blocks :
              start_token[b] = TOKEN_HAS_DATA =>
                 b \in Range(head_pos, tail_pos) \cup UNION {Busy(r) : r \in Readers}

\* A message that was put and fits the buffer is returned in the end, also
\* when writers die inside sq_put and leave unfinished messages before it, and
\* readers inside sq_get and leave tokens in blocks that are used again.  Only
\* the message that a reader has taken dies with it, and what is put where
\* another reader takes such a token for the start of a message may be lost too.
\* Whatever dies, and whatever is taken for what, no message stays in the ring.
Delivered ==
    \A i \in Ids :
        /\ (i \in putDone /\ lenOf[i] <= buf_sz)
              ~> (i \in ReturnedIds \cup lost \/ ~Good \/ misled)
        /\ i \in putDone ~> i \notin {data[b] : b \in Range(head_pos, tail_pos)}
=============================================================================
