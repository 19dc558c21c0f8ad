# A specification of UC

UC is a collection of C and C++ programs, each built from its own source file
by `CMakeLists.txt`. Most show one technique; a few are components that other
programs could use and that have concurrent or persistent state. This directory
specifies those components in TLA+, checks them with TLC on small instances and
proves part of what is checked with TLAPS.

## 1. Inventory

### The components and their state

| component | state | operations | what is hard |
|---|---|---|---|
| Shared-memory queue, data path (`shmqueue/shm_queue.c`) | a ring of blocks in a System V segment: `head_pos`, `tail_pos`, and per block `start_token`, `datalen`, the bytes; per handle `rw_conflict` | `sq_put`, `sq_get`, `sq_get_usage`, `sq_get_used_blocks` | processes share the ring without a lock: compare-and-exchange on the two positions, tokens that say whether a block is written, messages of several blocks that must not wrap, processes that die half-way, readers that give up waiting |
| Shared-memory queue, signals | `pidnum`, `pidset`, `sigmask`, `siglock`, `signr` in the segment; named pipes | `sq_get_eventfd`, `sq_sigon`, `sq_sigoff`, `sq_consume_event`, `signal_process`, the end of `sq_put` | registration of several processes at once, dead processes, a wakeup that falls between the last look and the wait |
| Shared-memory queue, creation | the segment itself, a lock file | `sq_create`, `sq_open`, `sq_destroy` | creation, clearing and attachment are several steps; `sq_open` takes no lock |
| Thread pool (`example_thread_pool.cpp`) | `queue_lock`, `queue_ready`, the list, `cur_queue_size`, `shutdown` | `pool_init`, `pool_add_worker`, `pool_destroy`, `thread_routine` | wakeups, shutdown against threads on their way to sleep, freeing what threads use |
| Lock-free byte ring (`example_unlockqueue.cpp`) | `m_nIn`, `m_nOut`, the buffer | `Put`, `Get`, `Clean`, `GetDataLen` | one producer and one consumer without a lock; counters that overflow |
| Coroutine scheduler (`coroutine.cpp`) | table of coroutines, `running`, one shared stack | `coroutine_new`, `resume`, `yield`, `status`, `running`, `close` | ids used again, the table growing, the stack copied in and out |
| Clients on the scheduler (`example_check_alot_server2.cpp`) | two coroutines, a socket each | `foo`, `test` | who runs, and what the loop does when one has ended |
| Second scheduler and its clients (`example_test.cpp`) | table of 1024, `running_coroutine`, `max_index` | `coroutine_create`, `_resume`, `_yield`, `schedule_finished`, `checkServer` | resume of a suspended coroutine |
| Producer and consumer (`example_pthread_cond1.cpp`) | `store`, `size`, a mutex, two conditions | `producer`, `customer` | waiting on conditions |
| Memory pool (`example_mem_pool.cpp`) | free list, used list, `freeCount` | `Xpool_init`, `_block`, `_alloc`, `_free`, `_destroy` | list ends when a list becomes empty |
| Shared-memory hash tables (`example_shm_hashtable1/2.cpp`) | rows of a table in a segment | insert, find, remove, clear, attach | an existing segment, holes in front of a key, full rows |
| B+ tree (`example_bplus_tree.cpp`) | nodes, root, first leaf, `m_MaxKey` | `insert`, `remove`, `update`, `search`, `select`, `clear` | splits, loans and merges through several levels, and keys at the ends |
| Redis connection pool (`example_redis_test.cpp`) | queue of connections, `m_useNum` | `connect`, `getConntection`, `releaseConnection`, the destructor | counts on error paths |
| Epoll server (`example_thread_epoll1.cpp`) | event array, descriptors | accept, a thread per message | an array shared with threads |
| In-memory hash tables (`example_hashtable.cpp`, `2`, `3`) | places, or lists | insert, search, remove | a full table, the first node of a list |
| Algorithms | arrays, trees, graphs | sorts, heap, search trees, tries, codes, graph searches | boundaries |
| System call demonstrations | none | | |

### How they interact

The data path, the signals and the creation of the shared-memory queue share one
segment: creation clears it, `sq_put` reads the signal part after it has written
a message, readers sleep on their pipe and call `sq_get` when they wake. All
other components stand alone: they share memory only among the threads of their
own program.

## 2. Modules

| module | what it is | depends on |
|---|---|---|
| `ShmQueue` | `sq_put` and `sq_get` on the ring | |
| `MCShmQueue` | message lengths and symmetry for TLC | `ShmQueue` |
| `ShmQueueProofs` | theorems on `ShmQueue`: types, the ring | `ShmQueue` |
| `ShmQueueMessageProofs` | theorems on `ShmQueue`: the messages in the ring | `ShmQueueProofs` |
| `ShmQueueSignal` | registration, signals, pipes, the reader's loop | |
| `ShmQueueSignalProofs` | theorems on `ShmQueueSignal` | `ShmQueueSignal` |
| `ThreadPool` | the thread pool and its main thread | |
| `ThreadPoolProofs` | theorems on `ThreadPool`, `CondBuffer` and `RedisPool` | these three |
| `BoundedFifo` | abstract: what a byte queue promises | |
| `UnlockQueue` | the lock-free byte ring | `BoundedFifo` by refinement |
| `UnlockQueueProofs` | theorems on `UnlockQueue` | `UnlockQueue` |
| `Coroutine` | the coroutine scheduler and its one stack | |
| `CoroutineProofs` | theorems on `Coroutine` and `UThread` | these two |
| `KeyMap` | abstract: a map in which a key may have no place | |
| `ShmHash` | the hash table in shared memory | `KeyMap` by refinement |
| `StructureProofs` | theorems on `ShmHash`, `HashTable`, `HashTable2` and `MemPool` | these four |
| `CondBuffer` | producers and customer with two conditions | |
| `MCShmQueuePair` | two of a kind: two readers and a writer, or two writers and a reader | `MCShmQueue` |
| `ShmQueueOpen` | creation and attachment of the shared-memory queue | |
| `ShmQueueOpenProofs` | theorems on `ShmQueueOpen` | `ShmQueueOpen` |
| `UThread` | the second scheduler, with the clients it runs | |
| `CheckClients` | two clients on the first scheduler and their loop | |
| `BPlusTree` | the B+ tree | |
| `MemPool`, `RedisPool` | blocks of memory; connections | |
| `HashShm` | the first shared hash table | |
| `HashTable`, `HashTable2` | open addressing; chaining | |
| `AvlTree`, `Heap`, `Huffman`, `Trie`, `GraphSearch`, `Sorts` | algorithms, as operators, with the inputs that reach them | |
| `MCPrograms` | what is checked under fairness, side by side | `UnlockQueue`, `CondBuffer`, `ThreadPool`, `ShmQueueSignal` |
| `MCStructures` | what is checked without, side by side | `Coroutine`, `ShmHash` and the modules from `ShmQueueOpen` on |

Conventions. Variables, constants, labels of error paths and macros keep the
names of the source. Each thread or process has a program counter; an action is
the code between two accesses to memory that somebody else may touch at the
same time. Variables under the comment *history* are not in the program: they
record what has happened, and no guard reads them (but the counters `nputs`,
`nadded`, `sent`, `wcrashes`, `deaths`..., which bound the runs). Where a
definition directly precedes another of the same parameters and is used nowhere
(`AddPosNoWrap` before `AddPos`), it is that definition with a plausible mistake;
put in its place, it must make TLC report the property that is there to notice
it.

### 2.1 ShmQueue

`sq_put` (`shm_queue.c:640-756`) is `PutStart`, `PutLoadTail`, `PutReadHead`,
`PutCheck`, `PutAlloc`, `PutWrap`, `PutCAS`, `PutSkip`, `PutCopy`, `PutToken`;
`sq_get` (`:765-868`) is `GetLoadHead` to `GetClear`. `wl[p]` and `rl[r]` hold
the locals of one call. `WriterCrash` and `ReaderCrash` end a call at any point
and leave the segment as it is, as the death of a process does; the process that
replaces it starts with a new handle.

Abstractions. The bytes of a block are the number of the message they belong
to; the two header words of a block are kept, since code reads them in blocks that hold payload: a
block of payload has the length `GARBAGE`, and a reader of
it finds any of `Words` (`LenAt`), a set of ints, negative ones among them. Payload
never equals a token (`:717` is where it might; see section 5). `start_time` is
not modelled.

Widths. `datalen` and `nr_nodes` are ints, and `SQ_NUM_NEEDED_NODES` computes in
`size_t`, because of its `sizeof`, and is cut to an int: `NumNeeded` does the same
modulo `SizeRange` and `IntRange` (`AsInt`), which are constants, 2^64 and 2^32 in the code.
TLC has 24 and 12 bits, with which the words of `MCShmQueue` make what words of the code
make: no block, one, more than the ring holds, and two negative numbers. The proofs are for any widths in
which twice a message fits an int, and for any set of words. A negative number of
blocks passes the test of `:829`, and the remainder of C keeps its sign (`Rem`), so the
head may then be in front of the ring (`Positions`). What a reader finds there is the zeros of the
segment's reserved part, which is exact for rings that are not longer than these 4 MB. `astray`
records that a head was moved so, and nothing about the ring is promised after it; a `memcpy` with a
negative length ends the process (`GetCAS`).

What dead readers leave is recorded too: `left` are the blocks whose tokens they did not
clear, `lost` the messages they had taken, and `misled` says that a reader took one of those
tokens for the start of a message. The signal loop at the end of `sq_put` is
in `ShmQueueSignal`.

Stores are seen in program order. The code writes the token after the data with
no barrier (`:717-718`); that is enough on x86 with the flags of `CMakeLists.txt`,
and it is an assumption of the model elsewhere.

### 2.2 ShmQueueSignal

Readers start (`Start`), verify the pids (`Verify*`, `:210-260`), find, claim or
append a slot (`Scan`, `Claim`, `Extend`, `OldPid`, `Grow`, `Own`), open its
pipe (`Fifo`, which may fail) and enter the loop of `test_get` (`:930-962`): `SigOn`, `select`
(`Wake`, `Timeout`), `SigOff`, `Consume`, `Get`. Writers create (`Create`, with the
same `Verify`, and `Notify`), put (`Put`, `Test`, and `Look`, `LookPid`, `LookBit` for the three
reads of the loop's condition), and run
`signal_process` (`OpenFifo`, `LockPipe`, `Count`, `Add`, `Reset`, `Write`,
`Unlock`) and `PutSigOff`. Processes die anywhere (`Die`, `Crash`), and a reader may
be started again with the pid of one that died, as the kernel gives numbers out again.
A function that has ended forgets its locals.

The ring is reduced to `used`, the number of its messages. `sigmask` and
`siglock` are sets of slots; the atomic and/or of the code on a word of the mask
is a set operation in one step.

`OneAtATime` says whether processes start one after the other. With it, `OwnSlot`
holds; without it the code's claim fails (`ShmQueueUniqueFd`). It is an
assumption about the environment, not something the code enforces. `SleepersSignalled` and
`SignalledOnce` take it as a premise, and one writer with it: a slot given away twice may
fall out of the table while one of its two readers sleeps on it, and of two writers each
may signal and clear the bits of the other.

### 2.3 ThreadPool

`CreateThread`, `AddTask`, `AddSignal`, `DestroyShutdown`, `DestroyBroadcast`,
`DestroyJoin`, `DestroyDrain` are the main thread in `pool_init`,
`pool_add_worker` and `pool_destroy`; `Lock`, `Check`, `Wait`, `Shut`, `Take`,
`Run` are `thread_routine`. The body of `pool_add_worker` between lock and
unlock is one action, as it touches only what the mutex protects. `Check` and
`Shut` are separate steps: both read `shutdown`, which `pool_destroy` writes
without the mutex. Spurious wakeups are allowed and never relied on.

### 2.4 UnlockQueue and BoundedFifo

`PutStart` reads `m_nOut` and fixes `len`, `PutCopy` copies a byte, `PutStore`
publishes `m_nIn`; likewise `Get*`. Counters are taken modulo `2^Bits`, so that
running over is part of the model. Bytes are numbered in the order they are
offered, which makes "once, in order" a statement about numbers. `Clean`, which no
program calls and which is not safe next to a `Put` or `Get`, is left out.

`BoundedFifo` is what the queue promises: an `Enqueue` of some bytes that fit,
a `Dequeue` of some from the front. The mapping takes for `queue` the bytes of
the buffer from `m_nOut` to `m_nIn`: a `Put` takes effect when it stores `m_nIn`,
and all its other steps stutter.

### 2.5 Coroutine

`New`, `ResumeReady`, `ResumeSuspended`, `Yield`, `Close` and `Open` are the
functions of `coroutine.cpp` with those names; `End` is what `mainfunc` does after
the coroutine's function has returned; `Call` and `Return` are the coroutine's own
doing. Everything runs in one thread, so an action is a whole call, up to the
`swapcontext` in which it leaves.

The stack is counted in frames from its base, and `_save_stack` copies frames in
the order of their addresses: the last one first. The buffer of a coroutine keeps
its capacity (`Len(C.stack)`), while `size` is what was saved last. The history
`frames` says what each coroutine has put on its stack; `StackKept` compares it with
the stack that all coroutines share. The first frame is `mainfunc`'s, with the `C`
and `id` that it frees and empties in the end, and `End` takes them from there.

Not allowed, because the code stops there: a resume inside a coroutine, an id that
is not in the table, a yield outside a coroutine, a stack that overflows.

### 2.6 ShmHash and KeyMap

`Set`, `Get`, `Replace`, `Remove`, `Foreach`, `Clear` are the methods of `CHashShm`,
`Attach` is `Init` on a segment that exists. The class has no lock and says nothing
of calls at the same time, so an operation is one action. Keys are the hashes
(a string's hash is computed before), `0` marks an empty node and is not used as
a key. `find` looks at a key's place in every row; `FirstRow` says which row it stops
at.

`Init` sets `currentSize` to zero although the nodes of an existing segment stay, or fails and
leaves everything as it is. `uncounted` records how many nodes the last one left out, and `SizeCounts`
says that the counter is the number of nodes in use unless there are such: then it is wrong, and
removals take it, modulo its word, below zero (section 3.2). `KeyMap` is what callers see, which
attachments do not change.

### 2.7 CondBuffer

`Push` and `ProducerWaits`, `Pop` and `CustomerWaits` are the bodies of the two
loops in `example_pthread_cond1.cpp`; whatever is between lock and unlock is one
action. A woken thread competes for the mutex again and repeats its test, which is
what `while` does. `store` keeps what is above `size`, as the array does.

### 2.8 ShmQueueOpen

`SqCreate`, `Lock`, `ShmGet`, `ShmStat`, `ShmRemove`, `ShmMake`, `ShmAttach`, `Memset`, `Store`,
`Verify`, `ReturnQueue` are `sq_create` with `exc_lock`, `attach_shm` and `open_shm_queue` inside, a
step for each system call and for each access to the segment that others may read, `LockFails` is a
creator that goes on without the lock, as the code does; `SqOpen`, `SqOpenAttach`
are `sq_open`, `SqDestroy` is `sq_destroy`. `Fault` is the death of a process or a call
that fails, at any point. Segments are numbered in the order of their making, since a
name can pass from one to another, and a removed one lives while somebody is
attached to it, as in System V. `QueueStays` relates what a creator was given
(`ready`) to what the segment says from then on, and what made a creator return NULL
(`refused`) to what was asked for. Notification parameters (`sq_set_sigparam`) are in
`ShmQueueSignal`.

### 2.9 UThread and CheckClients

Both model the whole program: `at` says whose code runs, `line` where each coroutine's
function is, between two calls of `select` or `connect`. Sockets have every outcome those
calls have. `UThread` has the scheduler of `example_test.cpp` as actions
(`coroutine_create`, `coroutine_resume`, `coroutine_yield`, `coroute_body`), as its
bookkeeping is what may go wrong; `CheckClients` takes of the scheduler of `coroutine.cpp`
only the status of two coroutines, since `Coroutine` says how it comes about.
`main` of `example_test.cpp` does not compile; `UThread` lets it create and resume in any order.

### 2.10 BPlusTree

A heap of nodes, so that a node which is deleted, linked twice or left out of the leaf
chain is seen. `split`, `mergeChild`, `borrowFrom` are functions from one heap to the
next, for leaves and for internal nodes where they differ; `recursive_insert`,
`recursive_remove` and `recursive_search` descend as the code does. Entries are keys; a
leaf's data moves with its key. `update` is a removal and an insertion in one call, and
`select` and `selectBetween` are the five comparisons and the range. After each call the
nodes are counted through from the root, since which number a node has says nothing.
`ORDER` is 7 in the code; a tree of order 2 has three levels with six entries, and lends between internal
nodes with eight.

Two steps on internal nodes destroy the tree, and no call follows them in the model (`Whole`):
`removeKey(0, 0)` of a loan from the right drops the sibling's last child and keeps the last but one
twice, and `mergeChild` deletes the node to the right of the two it has merged, unless these are
the last. `TreeKept` is asked in the states they lead to as well: all entries are in the
chain of leaves, every node that is left is half full, and no child but the last is there twice.
Up to there, besides, the leaves in the tree are the chain, and at one depth.

### 2.11 MemPool and RedisPool

`MemPool` keeps both links of each block, the four ends and the counter as they are, and
compares the lists with the histories `freeList` and `usedList`, the blocks in the order in
which they became free and in which callers got them. `Taken` is `Xpool_alloc` on the pool as
it is, or as `Xpool_block` leaves it; an allocation of a block that a caller has already is where
a behaviour ends. `PoolKept` is stated up to `broken`, which becomes true when a free finds the
free list empty, or empties the used one; and its part on `freeCount` until the pool grows, since
`Xpool_block` does not count what it adds (section 3.2). `RedisPool` is `HiredisHelper` as `SetEx`
uses it: `Connect` and `Connected` are the loop
of `connect`, `TakeQueued` and `TakeNew` are `getConntection`, `Release` is `releaseConnection`,
`Leave`, `Destruct`, `Destructed` are the destructor. Contexts come from hiredis, which is
external: a context, one with an error, or NULL.

### 2.12 Tables and algorithms

`HashShm` has the first shared table, with `getMode`, which computes the primes that are the
lengths of its rows. `HashTable` and `HashTable2` are compared with what was put in.
`AvlTree`, `Heap`, `Huffman`, `Trie`, `GraphSearch` and `Sorts` have the algorithm as an
operator that follows the code's loop or recursion, an action that takes the next input
(a weight, an edge, a word, a value), and one property that compares the result with its
definition: a permutation in order, the least element, the least weighted path length,
the distance, the number of words that begin with a word. Where the algorithm is wrong the
property says what is left: the AVL tree's says nothing of balance, and nothing once the
program has ended on a null pointer.

### 2.13 MCPrograms and MCStructures

These programs have nothing in common but this directory. One module has the
variables of several, and `program` says which of them runs in a behaviour; the rest stay
in their initial states, so the state spaces add up and one run checks all. The programs
with theorems (`UnlockQueue`, `CondBuffer`, `ThreadPool`; `Coroutine`, `ShmHash`, `ShmQueueOpen`, `UThread`,
`RedisPool`, `HashTable`, `HashTable2`, `MemPool`) are extended, so that TLC checks the same
definitions as the proofs and evaluates their assumptions on the constants in the `.cfg`; what is
called `Init` or `Next` elsewhere has a name of its own there (`HashInit`, `CondNext`, `PoolInit`).
The other programs are instances.
`MCPrograms` states fairness, for the program that runs; `MCStructures` has none.

## 3. Runs

| run | asks | bounds | result |
|---|---|---|---|
| `ShmQueueSPSC` | does one reader get what one writer put, whole and in order? | 7 blocks of 80 bytes, reserve 3, messages of 1 and 2 blocks, 5 puts, one retry before giving up | holds |
| `ShmQueuePairs` | do two readers, or two writers, keep out of each other's messages? | 4 blocks, reserve 1, 4 puts of one block, one retry | holds |
| `ShmQueueCrash` | is what was put returned if either side dies inside its call, but for what a dead reader took and what its tokens mislead another to drop, and does nothing stay in the ring? | 4 blocks, reserve 1, messages of 1 and 2 blocks, 3 puts, one death of each | holds |
| `ShmQueueAstray` | is the head a block of the ring? | 4 blocks, 4 puts, no retry, nobody dies | fails |
| `ShmQueueSmallBuffer` | is a message that does not fit the reader's buffer gone? | 5 blocks, a buffer of 50 bytes, 6 puts | fails |
| `ShmQueueABA` | is no message returned twice with two readers? | 4 blocks, 4 puts | fails |
| `ShmQueueSignal` | do readers keep their slots, and does a put wake the sleepers once? | 2 readers, 1 writer, 2 slots, puts that signal up to 2 readers, 1 message in the ring, pipes of 1 byte, one death and one crash, a lock ignored after one refusal | holds |
| `ShmQueueUniqueFd` | does each process have a pipe of its own when two register at once? | 2 readers, nobody dies | fails |
| `ThreadPoolHang` | does `pool_destroy` always return? | 2 threads, 1 task | fails |
| `Programs`, byte ring | is it a FIFO, also when counters run over? | size 5 (8 after rounding), 4-bit counters, calls of 2 and 4 bytes, 20 bytes | holds |
| `Programs`, two conditions | are letters conserved, and do the threads end although all may wait? | 2 producers of 3 letters, a store of 2 | holds |
| `Programs`, thread pool | are tasks conserved, run and never used after free, and does destroying end? | 3 threads, 3 tasks | holds |
| `Programs`, signals | does a lock left behind silence a slot, do messages stay? | 1 reader, 1 slot, 1 writer, 1 message in the ring, one death and one crash, a lock ignored after two refusals | holds |
| `Structures`, coroutines | does each find its stack, its place and its id? | 2 coroutines, a table that starts with one place, 3 frames, 2 values of locals | holds |
| `Structures`, `ShmHash` | is it a map, whoever attaches, and is the size right unless somebody has? | rows of 2 and 3 nodes, 3 keys of which pairs collide in one row or in both, 2 values | holds |
| `Structures`, `ShmQueueOpen` | does a queue that was given to a process stay as it is? | 2 processes, 4 pairs of arguments (two of one size, one larger, one refused), 2 segments, one fault | holds |
| `Structures`, `UThread`, `CheckClients` | does the scheduler know who runs, who is suspended and who has a socket? | 2 coroutines each, 2 leaked sockets | holds |
| `Structures`, `BPlusTree` | are nodes filled, and entries chained and none lost, after each call, and is the tree balanced up to the steps that destroy it? | order 2, three levels: every sequence of calls with 5 keys, 7 nodes and 6 entries, one of them a double; insertions and up to 3 removals with 6 keys, 9 nodes and 8 entries, two of them doubles; a tree of 12 keys, with a root of three children, and up to 3 removals | holds |
| `Structures`, `MemPool`, `RedisPool` | where is each block, each connection? | 4 blocks, 2 at a time, a counter of 4 bits; a pool of 3 and a limit of 2, 5 contexts | holds |
| `Structures`, `HashShm`, `HashTable`, `HashTable2` | is what was inserted found? | 2 rows of 7 and of 5 nodes, and getMode for 81 sizes and 1 to 12 rows; 3 places and 4 numbers; 4 places and 4 keys of which 3 collide | holds |
| `Structures`, algorithms | is the result what its definition says? | arrays of up to 6 out of 4 values, heap of 5, 5 weights, graphs of 4 vertices and 4 edges, texts of 5 words, trees of 7 values | holds |
| `BPlusSearch` | is a key that was inserted found? | the code's order 7, 14 keys | fails |

Why the bounds are enough. In the rings, the number of puts exceeds what fits
the ring, so positions wrap, blocks are used again with the header and token of
an earlier message in them, and a put that does not fit the end of the ring
skips it. Messages of two blocks are the smallest that have a block without a
header. A retry limit of 1 has both outcomes, waiting and giving up.
In the byte ring, 20 bytes exceed both the buffer (8) and the counter (16). Two
coroutines of up to three frames have buffers that are larger than, as large as and
smaller than what is saved next, and the second makes the table grow. Both rows of
the hash table fill up, so that keys find no place, and holes are left in front of
keys. A store of 2 with two producers has both waiting at once. In the
signal runs, one death covers each point of a registration, since registrations
are many and the death is any step. `SIGNR_LIMIT` (10 in the code) only sets how
many refusals it takes. Two creators and a fault find each other at each step of a
creation, and two segments let one be removed for another. A B+ tree of six
entries and order 2 splits a leaf, an internal node and a root, borrows a key of a
leaf from both sides and merges on both levels; the third removal from a tree of
eight entries makes an internal node borrow too, from either side, and with the tree of twelve
it merges internal nodes of which the second is not the last. Four blocks are twice what the memory pool
starts with, so it grows, and both lists become empty. Insertions into the
tables collide, wrap and find them full.

`ShmQueuePairs` and `ShmQueueSignal` use symmetry: no property and no action tells two
readers, or two writers, apart (in the first, the one that stays away is permuted with
them), and the runs have no liveness property. Runs with liveness use none.

Deadlock is checked but where the system really stops: a pool that has been
destroyed, programs that have closed or destructed what they work on, an AVL tree whose
rotation followed a null pointer, a queue that is full when its only reader is dead
(`Programs`; there `ProgramsEnd` says that the ring and the store do not stop early).

### 3.1 Fairness

`ShmQueue`: a process inside a call goes on; a reader keeps calling `sq_get`
(`test_get`'s loop); nobody has to put. `ShmQueueSignal`: the same, `select` returns
at the latest after its 100 seconds, and minutes pass (`MinuteLater`); starting,
putting and dying are never required. `ThreadPool`: threads run, tasks end, and
main goes on inside its functions; it may stay between two calls for ever.
`Programs`: the consumer's thread calls `Get` for ever (`consumer_proc`), a `Put`
that was begun ends. All of it is weak fairness, on whole processes: a process that
can take a step for ever takes one. For the store with two conditions it means that a
thread which waits for the mutex gets it in the end. For the mutex of `ThreadPool` this grants less
than a scheduler does (a thread may lose every race for it), and it is enough.

### 3.2 Disagreements between the code and what it says

1. `ShmQueueSmallBuffer`: `sq_get` returns -2 (`shm_queue.c:846`) after it moved the
   head and before it resets the tokens. The dropped message keeps its token in
   a free block; a comment (`:861`) says tokens are reset so that the block "will
   not be treated as a starting node of data".
2. `ShmQueueABA`: the exchange of `head_pos` (`:835`) compares positions, which come
   back. A reader that sleeps for one turn of the ring exchanges it and returns
   a message a second time, though the header says the function is "multi-thread/
   multi-process safe" (`shm_queue.h:107`). `RingConserved`, `Intact` and `InOrder` are
   therefore stated up to `aba`, which becomes true only when such an exchange
   succeeds; with one writer and one reader it cannot (theorem
   `OneWriterOneReader`).
3. `ShmQueueUniqueFd`: a slot is counted (`:312`) before it has an owner. Another
   process that verifies the table in between takes the slot out of the count
   and gets it too; the comment at `:928` says each process has its own.
4. `ThreadPoolHang`: `shutdown` and the broadcast (`example_thread_pool.cpp:102-104`)
   come without the mutex. A thread between its test and its wait misses both
   and is joined for ever. `DestroyReturnsUnlessMissed` shows it is the only way.
5. `BPlusSearch`: `getKeyIndex` (`example_bplus_tree.cpp:103`) answers with the last key
   where all are less, so a search enters the last child only with a key equal to the
   last one. After fourteen insertions in order the first split has left keys to the
   right of it that `search` does not find, although it says it tells whether a key
   exists (`:659`); `insert` takes such a key a second time.
6. `ShmQueueAstray`: a reader gives up the blocks of a slow writer, which marks its message all the
   same, in a block that is free by then. A turn later a message of two blocks is put over it. The reader
   gives up the first, finds the old token in the second, and reads there, for a length, what the writer has
   put in since. `nr_nodes` is an int, and `:829` takes a negative one for a number that fits, so the
   exchange (`:835`) puts `head_pos`, the "head position in the queue" (`:99`), in front of the ring,
   with one writer and one reader. `RingConserved` is stated up to `astray`, and theorem
   `HeadInRingUnlessAstray` says that there is no other way.

These were met while modelling; no run is spent on them, since a single call shows each:

7. `Init` of the second shared hash table sets `currentSize` to zero on attachment too
   (`example_shm_hashtable2.cpp:248`), though it is to be the "current size of the table" (`:164`).
   `GetCurSize` and `GetFullRate` are wrong until `Clear`.
8. `freeCount` is "the number of free blocks" (`example_mem_pool.cpp:17`), and `Xpool_block` adds blocks
   without counting them (`:49`): it is too small by them for ever, and, unsigned, huge.
9. `Xpool_free` into an empty free list (`example_mem_pool.cpp:151`) links the block behind one that
   is in use, and
   leaves `freeHead` NULL: the block is gone.
10. `borrowFrom` of an internal node loses its right sibling's last child (`example_bplus_tree.cpp:215`).
11. `mergeChild` of internal nodes deletes the wrong node (`:187`).
12. The trie counts the words that begin with a word; its comment (`example_trie.cpp:15`) has "is" counted twice
    in "this is", and the program prints 1.

### 3.3 What else the model shows

- The reserve protects a reader that is clearing its blocks if it is twice as long as a
  message, less one (`2 * blocks <= RESERVE_BLOCK_COUNT + 1`; theorem `ReserveSuffices`): a
  reader passes over the end of the ring and takes a message behind it in one exchange, and
  either may be that long. With one block less TLC finds a writer in blocks that are still
  being cleared (messages of 2 blocks, reserve 2); `ShmQueueSPSC` is at the limit. No reserve
  helps where there are two readers: while one is about to clear, the other takes what comes next and
  moves the head on, and the writer follows it.
- A put that wraps (`:682`) keeps one block before the head and does not count the
  reserve. So the number of usable elements is not `ele_count -
  RESERVE_BLOCK_COUNT` as the header says, and `sq_get_usage` may exceed the "0 to 99"
  of its comment.
- A reader that waits `SQ_MAX_CONFLICT_TRIES` times for a block gives it up
  (`gaveUp`), dead writer or slow one: the message of a slow one is lost. The
  properties on content assume readers are right when they give up.
- A reader that dies after its exchange leaves tokens behind, as a return of -2 does. A turn later
  a reader may take one for the start of a message that a writer has not finished, and then
  some of what is put there is lost (`misled`); but nothing gets stuck, which the second part of
  `Delivered` says.
- Wakeups are lost: `test_get` calls `sq_sigon` after its last look at the ring and
  does
  not look again, and sleeps even after it got a message, although its comment
  says "if we are able to retrieve data from queue, always try it without sleeping"
  (`:966`); a put in between finds no bit. Only the timeout of `select` brings
  the reader back, which is why `RingDrained` fails without `Timeout`.
- The header (`shm_queue.h:102`) asks for a lock around `sq_put` when several processes
  put; the code exchanges `tail_pos` all the same and the test program puts from
  several. `ShmQueuePairs` shows what the exchange alone achieves.
- `HASH_ENABLE_DETACH` of the shared hash table only detaches; the segment is never released,
  although its comment (`example_shm_hashtable2.cpp:78`) says it will be.
- Two writers may each signal and clear: the second clears a bit set after the
  first one's wakeup. `SleepersSignalled` and `SignalledOnce` are stated for one
  writer.
- The byte ring keeps records whole only if they are of one length, a power of two that fits the
  ring: `Put` cuts a length to the space there is, and a record length that does not divide the
  ring's size is cut in the middle (`WholeRecords`).
- `sq_create` goes on when its lock file cannot be opened or locked (`LockFails`), and may
  then clear a queue that is in use: `QueueStays` is stated up to `unlocked`. `sq_open` takes
  no lock at all: a process may attach a segment between `shmget` and the stores of its
  parameters and find a queue of no elements. A creator that ends between the two leaves a
  segment that a later `sq_create` of the same size refuses, until somebody
  removes it; what `QueueStays` says of refusals is stated up to faults.
- A coroutine of the second scheduler that was resumed cannot yield again
  (`example_test.cpp:113`): `coroutine_yield` returns at once and the loop around it polls
  until the socket is ready. The loop that waits for the connection has no exit but an
  error or a connection.
- In both clients a failure of `inet_aton` or `fcntl` returns with the socket open, and
  `test` stops resuming when the first of its two coroutines has ended: the other is freed
  as it is, its socket open.
- The memory pool's ends are wrong after a free that finds the free list empty or empties
  the used one; from there on a block is handed out twice after eight calls.
- `HiredisHelper::connect` drops a context that has an error without freeing it; a NULL in
  the queue is counted in `m_useNum` and never given back; the destructor's loop runs to a
  size that shrinks, so half the connections stay open.
- A B+ tree's `m_MaxKey` keeps a key that was removed as the only one of its leaf;
  `remove` may take the entry of another key where the search ends elsewhere, and
  `select` over a range reads through a null root in an empty tree.
- The AVL tree rotates a right-heavy node as if it were left-heavy: 10, 15, 20 end the
  program. `TreeKept` says what holds up to there: order, heights and content.
- Removing the first node of a list in `example_hashtable2.cpp` loses the rest of it,
  and its count never goes down.

## 4. Proofs

The assumptions on constants are the modules' ASSUMEs, which TLC evaluates: positive sizes,
sets of numbers, names that differ. A theorem with a further hypothesis says so below.

`ShmQueueProofs`. `TypeCorrect`: by induction, one step per action, under
`QueueAssumption`, `WidthAssumption` and `BoundAssumption`; what is cut from a `size_t` to an int is any int
in general, and the number of blocks itself where the length is a message's. `RingIsConserved`: a
step that moves the tail
moves it from the value a writer had loaded; the room it computed from the head
it had read can only have grown since, unless the tail has moved and come back,
which is what `aba` records. The inductive invariant `RingInv` therefore relates a process's locals
to the ring as long as the process is not in `passed`: what
`PutCheck` and `GetTail` established in terms of loaded values still holds of the
present ones. All of it holds until the head goes astray (`RingHolds`): `HeadInRingUnlessAstray`.
TLC agrees with it on small instances. `OneWriterOneReader`: nobody
else moves the tail of the only writer, hence no `aba`, and the ring is conserved until the head goes
astray, which may happen with one of each. The theorems include processes that
die inside their calls; TLC's run of `RingConserved` has none, and `ShmQueueCrash`, which has,
checks `Delivered`.

`ShmQueueMessageProofs`. What `sq_get` returns is a whole message, once (`MessagesIntact`),
messages come in the order of their allocation if there is one reader
(`MessagesInOrder`), and outside the used part of the ring only blocks that a reader has
still to clear are marked as the start of one (`NoMarkLeft`); readers take nothing but lengths of
messages, so the head stays in the ring (`HeadStaysInRing`). This for any number of writers and
readers, writers that die anywhere included. `MessageInv` says, as long as nothing has gone wrong that
the properties except (`Good`):
- `Layout`: the blocks a writer has been handed are in use and nobody else's, those a reader
  has released are out of use and nobody else's, and a marked block is the start of a whole
  message that lies in one of the two and that no writer is touching (`Marks`). That an
  exchange hands out blocks that are free, and takes blocks that are in use, is `RingInv`.
- `Locals`: what a writer has asked for and filled so far, and what a reader has passed over,
  measured and copied. A reader counts only while its `old_head` is still the head.
- `Order`: by distance from the head, messages in the ring are in the order of their ids, later
  than those that have been taken; so no id is taken twice.

`ReadersFinish`, the hypothesis, says that no reader dies and that all messages fit the buffers:
a reader that dies after its exchange, or returns -2, leaves marks behind in free blocks, and
the run `ShmQueueSmallBuffer` shows what comes of it. `Intact` for readers that die
stays without proof and is no run's claim either.

`ShmQueueSignalProofs`, for any number of readers, writers, slots, messages and deaths. `TypeCorrect`
adds what an index holds at each place of a loop (`IndexOK`). `SlotIsOwn`: the process that is joining
is the only one (`Exclusive`), so what it has seen of the table holds until it acts: the pid it
removes is that of a process that is gone (`Gone`), the slot it has appended is nobody's (`NewEnd`),
the slot it claims is its own from then on (`Claimed`, `Owned`); `Lives` says that a pid which is used
again belongs to one process at a time. `OncePerSignal`: a bit is in the mask only for slots in the table
(`BitsInside`), and a slot that was written to has its bit off, or is the one whose bit the
writer is about to clear (`WokenOff`). `NobodyPassedOver`: each sleeper has a byte in its pipe,
or could not be given one, or its slot is still ahead of the writer's loop (`Looked`); the
loop runs to `pidnum`, which does not come below the slot of a registered reader (`Owned`).

`ThreadPoolProofs`. The inductive invariant adds to the four checked ones that
`queue_lock` is held by exactly the thread whose program counter says so and
`waiting` is the set of threads in `pthread_cond_wait` (`LockInv`), that
`cur_queue_size` is the length of the list and a thread in `take` saw a task under
the lock it still holds (`SizeInv`), that a task taken has run or is being run
(`RunInv`), and that threads before `i` have exited while main joins (`MainInv`).

`UnlockQueueProofs`. The invariant says that a call in progress knows at most the
room (or data) there is, since the other side only adds to it; that bytes
between `m_nOut` and `m_nIn` are the accepted ones in order; and that bytes already copied
by a `Put` are in their places. The refinement follows: `PutStore` maps to
`Enqueue`, `GetStore` to `Dequeue`, all else stutters. `RecordsWhole`: room, data, and the
lengths that calls are cut to are all multiples of the record's length. The theorems assume `SizeOK`,
that the rounded size divides the range of the counters and is smaller, and the last one
`RecordsFit`, that a power of two which fits the ring divides its size. Both follow from these
numbers being powers of two, which is a fact on exponents that the
provers lack; TLC evaluates both (`RoundsUp`, an assumption of `MCPrograms`).

`ShmQueueOpenProofs`. `Basic` has the types and what each process knows by where it is
(`Local`), with or without the lock. As long as every creator has the lock, `Locked` says: there is
one creator (`Alone`); what it has found out about the key holds until it acts on it (`KeySeen`);
the segment it will clear was never returned to anyone (`OwnSegment`); what was returned keeps
its parameters (`ReadyKept`); every other segment belongs to the creator, unless somebody died or
failed, so a segment which is verified was returned (`NoneLeft`), and a refusal is right.

`CoroutineProofs`. `CoInv` has the types (`Typed`); `running`, the statuses and `current`
agree (`Runs`); table and coroutines correspond one to one, and `nco` is their number
(`Placed`); the buffer of a suspended coroutine holds its stack, and the
first frame of each has its own id and place (`Stacks`: `mainfunc` finds there what it frees).
That `coroutine_new` finds a place when `nco` is below `cap` needs the first of a set of numbers:
`LeastOf` gets it from the library's theorem on well-founded orders, which has no operator as
its parameter.

`StructureProofs`, the table of rows. The rows do not overlap (`RowsApart`), so a place tells its row
(`PosInRow`), a key that `find` does not see is nowhere, and a key that is put where one of its
places is free is there once (`OneNodePerKey`). Where rows begin is a recursive function of their lengths:
that there is one (`SumsExist`) is shown by its least counterexample. The refinement of `KeyMap`
has one lemma for each operation: the keys of the abstract map are those in the nodes, `Set` and
`Replace` add one or change its value, `Remove` drops one, `Foreach` reaches the last node, `Attach`
stutters.

`StructureProofs`, the other tables and the pool:
- `NumbersAreFound`: `NumbersFound` says what `Search` answers, which is not inductive, as it does not say
  why. `NumbersInv` does: each number that was inserted is in a place that it comes to over
  places which are taken (`Reached`), and places are never left. That `Search` then stops there,
  and stops at all in a full table, is the same fact about the least number of steps (`LeastOf`) and
  the round they make (`OnceRound`, `ProbePlaces`).
- `StringsAreFound`: each node is in the list of its key's place, is the only one there with that
  key, and is to be found (`ListsInv`); a removal takes out the node it found, or, for the first, the
  list, and with it from what is to be found (`RemoveLists`).
- `BlocksStay`: `Good` says of a pool, grown or not, that both lists are what `pNext` makes of them, end
  where they should, share no block, and have all. `Xpool_block` makes a good pool of a good one
  that has no free block (`GoodGrown`), and taking its first block (`GoodTaken`) or giving one back
  (`GoodFreed`, by where the block is in its list: `UnlinkedIs`) leaves it good. The count of free
  blocks goes through the range of an unsigned int (`CountOn`). What makes `PoolKept` inductive besides is
  that the used list, once it has had a block, is not empty unless `broken`: an
  allocation into an empty one with an old `usedTail` would leave a wrong `pPrev`.

`ShmQueueMessageProofs`, the reserve. `ReserveSuffices` is `NoConflict` for any number of writers and
one reader, `NoConflictForOne` for one writer without the proviso on `aba`. The hypotheses: readers finish
what they took, and every message fits twice in `RESERVE_BLOCK_COUNT + 1` blocks (`HalfReserve`), which
the run's constants satisfy. `ReserveInv` adds to the invariants above that messages lie in the used
part one after the other, but for a gap at the end of the ring which a writer has skipped and
which is shorter than half the reserve (`Tiled`, `Gap`); that a writer which has found room has
left the reserve free (`Room`); and that the blocks a reader has taken lie right behind the head and are
no more than one message and one gap (`Skims`, `Short`). So what a writer may be
given ends before them.

`ThreadPoolProofs`, the store. `LettersKept` needs that no two places in use hold one letter
(`Distinct`), `SomeoneCanRun` that a thread sleeps only while its own loop would go on waiting
(`SleepsRight`): then producers and customer do not sleep at once, and who has rounds left while the
other kind has none is counted out by the letters. For any finite set of producers, any store, any
number of letters.

`ThreadPoolProofs`, the connections. `PoolAt` bounds the queue by where the program is, in `connect`'s
loop, in a call, in the destructor's loop; with it `Accounted` is inductive, for any sizes and whatever
hiredis returns.

`CoroutineProofs`, the second scheduler. `UthreadInv` says of each coroutine that it has none to run
(`Idle`), waits on `select` with its socket (`Waits`), or is the one whose code runs (`Executes`), and
then `running_coroutine` names it only until it first yields; `Scheduled` (theorem `StatesAreRight`) follows.

Only model-checked:
- everything temporal beyond safety (`Delivered`, `EachTaskRuns`, `DestroyReturnsUnlessMissed`,
  `ProgramsEnd`, `LockIsFreed`, `RingDrained`), because liveness under fairness is out of the
  prover's reach;
- `BPlusKept` and `AlgorithmsRight`: the B+ tree, the AVL tree and the algorithms are recursive
  definitions, or their properties are by induction over data; `getMode` in `HashShm` is
  recursive, and so is the invariant that its primes would need; the program of `CheckClients`
  has no parameters, so TLC sees all of it. The types of these modules are part of the two;
- `RoundsUp`, which needs facts on exponents.

## 5. What is not modelled

`PROJECT.json` lists every component.

- The epoll server (`example_thread_epoll1.cpp`): a thread is given the address of an element of
  `events`, which the next `epoll_wait` overwrites, so nothing can be promised of the message
  it handles; the rest is calls of sockets.
- The forking and chat servers, asynchronous I/O and the other demonstrations of system calls:
  each is a straight sequence of calls, whose state is the kernel's. The shared counters are
  atomic increments of one integer.
- Of modelled components: `Clean` of the byte ring and `Xpool_destroy`, which leave nothing to
  rely on; the dump of the shared hash table to a file, its restoration and statistics; printing
  of trees and graphs; `doubleRotateWithRight`, which nothing calls; second copies of the same text
  (`example_bplus_tree.cpp`, `checkServer` in `example_test.cpp`); the leftist heap and the plain
  search tree; `example_hashtable3.cpp`, whose insertion loops for ever at a node with
  another key (`:50`); the timing functions of `opt_time.h`; payload that holds the bytes of a
  token (`shm_queue.c:717`).

## 6. What could come next

Modelled are the concurrent components (`ShmQueue`, `ShmQueueSignal`, `ShmQueueOpen`, `ThreadPool`,
`UnlockQueue`, `CondBuffer`), the schedulers and their clients (`Coroutine`, `UThread`,
`CheckClients`), the shared and the sequential structures. Every safety invariant of a component
that can be reasoned about without induction over data has its theorem. Left are:

1. A run with payload that may hold the bytes of a token (`shm_queue.c:717`).
2. `HashShm` with the lengths of its rows as a constant, which `getMode` is shown to give by TLC alone:
   that `find` finds could then be proved as it is for `ShmHash`.
3. `MessagesIntact` for readers that return -2 or die, with the marks they leave behind.
