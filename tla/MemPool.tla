------------------------------ MODULE MemPool ------------------------------
(***************************************************************************)
(* The memory pool of example_mem_pool.cpp: blocks in two doubly linked    *)
(* lists, those that are free and those that are used.                     *)
(*                                                                         *)
(* What Xpool_alloc returns lies inside the block's own links (its data is *)
(* set to the block itself); the callers of this model do not write to it, *)
(* as main does not.                                                       *)
(*                                                                         *)
(* A definition that directly precedes another with its parameters and is  *)
(* used nowhere is the other one with a mistake in it.                     *)
(***************************************************************************)
EXTENDS Integers, Sequences

CONSTANTS
    blockCount, blockCountStep,
    CountRange,        \* the range of an unsigned int
    MaxBlocks          \* bound: blocks that exist

ASSUME PoolAssumption ==
    /\ CountRange \in Nat \ {0} /\ blockCount \in 1 .. CountRange - 1
    /\ blockCountStep \in Nat \ {0} /\ MaxBlocks \in Nat /\ blockCount <= MaxBlocks

NoBlock == 0

VARIABLES
    pNext, pPrev,      \* of each block
    freeHead, freeTail, usedHead, usedTail, freeCount,
    blocks,            \* how many there are
    freeList,          \* history: the blocks nobody has, longest free first
    usedList,          \* history: those that callers have, longest held first
    broken             \* history: a list has been left with a wrong end

poolVars == <<pNext, pPrev, freeHead, freeTail, usedHead, usedTail, freeCount,
              blocks, freeList, usedList, broken>>

Blocks == 1 .. blocks
Members(list) == {list[i] : i \in DOMAIN list}

-----------------------------------------------------------------------------
\* Xpool_block: the next n blocks, behind freeTail.  Where the free list is
\* empty, freeTail is what it was, a used block by now: only the new block
\* points to it.
Chained(n, tail) ==
    [next |-> [b \in 1 .. blocks + n |->
                  IF b \in Blocks THEN pNext[b]
                  ELSE IF b = blocks + n THEN NoBlock ELSE b + 1],
     prev |-> [b \in 1 .. blocks + n |->
                  IF b \in Blocks THEN pPrev[b]
                  ELSE IF b = blocks + 1 THEN tail ELSE b - 1],
     head |-> blocks + 1, tail |-> blocks + n, count |-> blocks + n,
     list |-> [i \in 1 .. n |-> blocks + i]]

Unchained == [next |-> pNext, prev |-> pPrev, head |-> freeHead, tail |-> freeTail,
              count |-> blocks, list |-> freeList]

\* Xpool_init
PoolInit ==
    /\ pNext = [b \in 1 .. blockCount |-> IF b = blockCount THEN NoBlock ELSE b + 1]
    /\ pPrev = [b \in 1 .. blockCount |-> b - 1]
    /\ freeHead = 1 /\ freeTail = blockCount
    /\ usedHead = NoBlock /\ usedTail = NoBlock
    /\ freeCount = blockCount /\ blocks = blockCount
    /\ freeList = [i \in 1 .. blockCount |-> i] /\ usedList = << >> /\ broken = FALSE

\* The first free block goes behind the last used one.  A block that a caller has
\* already would be used by two; there the run is at its end.
Taken(pool) ==
    LET block == pool.head
        next  == [pool.next EXCEPT ![block] = NoBlock]
    IN  /\ pool.count <= MaxBlocks
        /\ block \notin Members(usedList)
        /\ freeHead' = pool.next[block] /\ freeTail' = pool.tail
        /\ freeCount' = (freeCount - 1) % CountRange
        /\ pPrev' = [pool.prev EXCEPT ![block] = usedTail]
        /\ usedTail' = block
        /\ IF usedHead = NoBlock
           THEN usedHead' = block /\ pNext' = next
           ELSE pNext' = [next EXCEPT ![usedTail] = block] /\ UNCHANGED usedHead
        /\ usedList' = Append(usedList, block)
        /\ freeList' = SubSeq(pool.list, 2, Len(pool.list))
        /\ blocks' = pool.count
        /\ UNCHANGED broken

Xpool_alloc ==
    Taken(IF freeHead = NoBlock THEN Chained(blockCountStep, freeTail) ELSE Unchained)

\* The lists after a block was taken out of the used one: the first, the last, or
\* one between two others.  The only block of the list is its first.
UnlinkedKeepsTail(block) ==
    IF pPrev[block] = NoBlock
    THEN [next |-> pNext, head |-> pNext[block], tail |-> usedTail,
          prev |-> IF pNext[block] = NoBlock THEN pPrev
                                             ELSE [pPrev EXCEPT ![pNext[block]] = NoBlock]]
    ELSE [next |-> [pNext EXCEPT ![pPrev[block]] = pNext[block]], prev |-> pPrev,
          head |-> usedHead, tail |-> usedTail]
Unlinked(block) ==
    IF pPrev[block] = NoBlock
    THEN [next |-> pNext, head |-> pNext[block], tail |-> usedTail,
          prev |-> IF pNext[block] = NoBlock THEN pPrev
                                             ELSE [pPrev EXCEPT ![pNext[block]] = NoBlock]]
    ELSE IF pNext[block] = NoBlock
    THEN [next |-> [pNext EXCEPT ![pPrev[block]] = NoBlock], prev |-> pPrev,
          head |-> usedHead, tail |-> pPrev[block]]
    ELSE [next |-> [pNext EXCEPT ![pPrev[block]] = pNext[block]],
          prev |-> [pPrev EXCEPT ![pNext[block]] = pPrev[block]],
          head |-> usedHead, tail |-> usedTail]

\* A list without its i-th block
BlocksWithout(list, i) == SubSeq(list, 1, i - 1) \o SubSeq(list, i + 1, Len(list))

\* Then it goes behind freeTail; freeHead is not looked at.
Xpool_free(i) ==
    LET block == usedList[i]
        used  == Unlinked(block)
    IN  /\ usedHead' = used.head /\ usedTail' = used.tail
        /\ pPrev' = [used.prev EXCEPT ![block] = freeTail]
        /\ pNext' = [[used.next EXCEPT ![block] = NoBlock] EXCEPT ![freeTail] = block]
        /\ freeTail' = block
        /\ freeCount' = (freeCount + 1) % CountRange
        /\ usedList' = BlocksWithout(usedList, i)
        /\ freeList' = Append(freeList, block)
        /\ broken' = (broken \/ freeHead = NoBlock \/ usedHead' = NoBlock)
        /\ UNCHANGED <<freeHead, blocks>>

PoolNext == Xpool_alloc \/ \E i \in DOMAIN usedList : Xpool_free(i)

PoolSpec == PoolInit /\ [][PoolNext]_poolVars

-----------------------------------------------------------------------------
\* The links and the ends of the lists are blocks, or none.
PoolTypeOK ==
    /\ blocks \in blockCount .. MaxBlocks
    /\ pNext \in [Blocks -> Blocks \cup {NoBlock}] /\ pPrev \in [Blocks -> Blocks \cup {NoBlock}]
    /\ {freeHead, freeTail, usedHead, usedTail} \subseteq Blocks \cup {NoBlock}
    /\ freeCount \in 0 .. CountRange - 1
    /\ freeList \in Seq(Blocks) /\ usedList \in Seq(Blocks) /\ broken \in BOOLEAN

\* The list is what pNext leads to from head, and ends at tail.
Linked(list, head, tail) ==
    /\ head = IF list = << >> THEN NoBlock ELSE list[1]
    /\ list # << >> => tail = list[Len(list)]
    /\ \A i \in DOMAIN list : pNext[list[i]] = IF i = Len(list) THEN NoBlock ELSE list[i + 1]

\* The lists are what their callers made of them: every block is in one of them,
\* once, those that callers have in the used one, linked in both directions; so none
\* is handed out twice.  freeCount is "the number of free blocks" until blocks are
\* added: Xpool_block does not count those.
\*
\* Not asked once a free has emptied the used list, or found the free one empty:
\* there Xpool_free leaves usedTail at a block that is free (:131), or puts the block
\* behind a used one and not at freeHead (:151), and the lists are wrong.
PoolKept ==
    broken \/
        /\ Linked(freeList, freeHead, freeTail) /\ Linked(usedList, usedHead, usedTail)
        /\ \A i \in DOMAIN usedList :
              pPrev[usedList[i]] = IF i = 1 THEN NoBlock ELSE usedList[i - 1]
        /\ \A i, j \in DOMAIN freeList : freeList[i] = freeList[j] => i = j
        /\ \A i, j \in DOMAIN usedList : usedList[i] = usedList[j] => i = j
        /\ Members(freeList) \cap Members(usedList) = {}
        /\ Members(freeList) \cup Members(usedList) = Blocks
        /\ blocks = blockCount => freeCount = Len(freeList)
=============================================================================
