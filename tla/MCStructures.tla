---------------------------- MODULE MCStructures ----------------------------
(***************************************************************************)
(* The programs of one thread, and the two of several processes that need  *)
(* no fairness, side by side for TLC: program says which of them runs, the *)
(* others stay as they began, and their state spaces add up.  Coroutine,   *)
(* ShmHash, ShmQueueOpen, UThread, RedisPool, HashTable, HashTable2 and    *)
(* MemPool have their constants in the .cfg; the others are instances,     *)
(* whose variables have the program's name in front.                       *)
(***************************************************************************)
EXTENDS Coroutine, ShmHash, ShmQueueOpen, UThread, RedisPool, HashTable, HashTable2,
        MemPool

VARIABLES
    program,
    sorts_array,
    heap_elements, heap_size, heap_minElement, heap_held,
    huffman_a,
    graph_edges,
    trie_next, trie_text,
    avl_tree, avl_inserted,
    bplus_mem, bplus_m_Root, bplus_m_DataHead, bplus_m_MaxKey, bplus_count,
    bplus_grown, bplus_size, bplus_removals,
    primes_key, primes_value, primes_currentSize, primes_held,
    clients_status, clients_at, clients_line, clients_isConnect,
    clients_sockets, clients_leaked, clients_closed

\* Two rows; keys of which two collide in one row, and two in both
TwoRows   == <<2, 3>>
\* <<ele_size, ele_count>> of sq_create: two pairs that make segments of one size,
\* one that makes a larger one, and one that is refused
Creations == {<<64, 3>>, <<60, 4>>, <<64, 65536>>, <<64, 1>>}

Sort == INSTANCE Sorts WITH
    Values <- {5, 9, 10, 23}, Width <- 10, MaxArray <- 6, array <- sorts_array

Heap == INSTANCE Heap WITH
    Elements <- 1 .. 4, capacity <- 5, elements <- heap_elements,
    size <- heap_size, minElement <- heap_minElement, held <- heap_held

Huff == INSTANCE Huffman WITH
    Weights <- {1, 2, 3, 5}, MaxLeaves <- 5, a <- huffman_a

Graph == INSTANCE GraphSearch WITH
    numVertices <- 4, MaxEdges <- 4, edges <- graph_edges

Trie == INSTANCE Trie WITH
    Words <- {<<1>>, <<1, 1>>, <<1, 2>>, <<2>>, <<1, 2, 1>>}, MaxWords <- 5,
    next <- trie_next, text <- trie_text

Avl == INSTANCE AvlTree WITH
    Values <- 1 .. 7, tree <- avl_tree, inserted <- avl_inserted

BPlus == INSTANCE BPlusTree WITH
    ORDER <- 2, Keys <- 1 .. 5, Nodes <- 1 .. 7, MaxCount <- 6,
    MaxDoubles <- 1, mem <- bplus_mem, m_Root <- bplus_m_Root,
    m_DataHead <- bplus_m_DataHead,
    m_MaxKey <- bplus_m_MaxKey, count <- bplus_count, grown <- bplus_grown

\* Trees of more entries, from which few are removed
Taller == INSTANCE BPlusTree WITH
    ORDER <- 2, Keys <- 1 .. 6, Nodes <- 1 .. 9, MaxCount <- 8,
    MaxDoubles <- 2, mem <- bplus_mem, m_Root <- bplus_m_Root,
    m_DataHead <- bplus_m_DataHead,
    m_MaxKey <- bplus_m_MaxKey, count <- bplus_count, grown <- bplus_grown

MaxRemovals == 3       \* bound: removals from the trees that are not small

\* A tree of a root and three nodes with two leaves each or more, grown by the
\* insertion of these keys, from which few are removed
GrownBy == <<3, 1, 2, 4, 6, 7, 12, 10, 8, 9, 11, 5>>
Tallest == INSTANCE BPlusTree WITH
    ORDER <- 2, Keys <- 1 .. 12, Nodes <- 1 .. 16, MaxCount <- 12,
    MaxDoubles <- 1, mem <- bplus_mem, m_Root <- bplus_m_Root,
    m_DataHead <- bplus_m_DataHead,
    m_MaxKey <- bplus_m_MaxKey, count <- bplus_count, grown <- bplus_grown

Primes == INSTANCE HashShm WITH
    maxLine <- 6, lines <- 2, Keys <- {1, 36, 71, 8}, Values <- {1, 2},
    Lines <- (60 .. 140) \X (1 .. 12), key <- primes_key,
    value <- primes_value, currentSize <- primes_currentSize,
    held <- primes_held

Clients == INSTANCE CheckClients WITH
    status <- clients_status, at <- clients_at, line <- clients_line,
    isConnect <- clients_isConnect, sockets <- clients_sockets,
    leaked <- clients_leaked, closed <- clients_closed

Programs ==
    {"coroutine", "rows", "open", "sorts", "heap", "huffman", "graph", "trie",
    "avl", "bplus", "numbers", "lists", "primes", "blocks", "redis",
    "uthread", "clients"}

\* The variables of a program do not change.
Rests(p) ==
    CASE p = "coroutine" -> UNCHANGED vars
      [] p = "rows" -> UNCHANGED hashVars
      [] p = "open" -> UNCHANGED openVars
      [] p = "sorts" ->
             UNCHANGED <<sorts_array>>
      [] p = "heap" ->
             UNCHANGED <<heap_elements, heap_size, heap_minElement, heap_held>>
      [] p = "huffman" ->
             UNCHANGED <<huffman_a>>
      [] p = "graph" ->
             UNCHANGED <<graph_edges>>
      [] p = "trie" ->
             UNCHANGED <<trie_next, trie_text>>
      [] p = "avl" ->
             UNCHANGED <<avl_tree, avl_inserted>>
      [] p = "bplus" ->
             UNCHANGED <<bplus_mem, bplus_m_Root, bplus_m_DataHead, bplus_m_MaxKey,
                 bplus_count, bplus_grown, bplus_size, bplus_removals>>
      [] p = "numbers" -> UNCHANGED numbersVars
      [] p = "lists" -> UNCHANGED listsVars
      [] p = "primes" ->
             UNCHANGED <<primes_key, primes_value, primes_currentSize, primes_held>>
      [] p = "blocks" -> UNCHANGED poolVars
      [] p = "redis" -> UNCHANGED redisVars
      [] p = "uthread" -> UNCHANGED uthreadVars
      [] p = "clients" ->
             UNCHANGED <<clients_status, clients_at, clients_line, clients_isConnect,
                 clients_sockets, clients_leaked, clients_closed>>

\* A call on a tree
BPlusNext ==
    /\ UNCHANGED bplus_size
    /\ \/ bplus_size = "small" /\ BPlus!Next /\ UNCHANGED bplus_removals
       \/ /\ bplus_size = "taller" /\ Taller!Whole /\ UNCHANGED bplus_removals
          /\ \E k \in 1 .. 6 : Taller!insert(k)
       \/ /\ bplus_size = "tallest" /\ Tallest!Whole /\ UNCHANGED bplus_removals
          /\ bplus_removals = 0 /\ bplus_count < Len(GrownBy)
          /\ Tallest!insert(GrownBy[bplus_count + 1])
       \/ /\ bplus_removals < MaxRemovals /\ bplus_removals' = bplus_removals + 1
          /\ \/ bplus_size = "taller" /\ Taller!Whole /\ \E k \in 1 .. 6 : Taller!remove(k)
             \/ bplus_size = "tallest" /\ Tallest!Whole /\ \E k \in 1 .. 12 : Tallest!remove(k)

Step(p, A) ==
    /\ program = p /\ A /\ UNCHANGED program
    /\ \A q \in Programs \ {p} : Rests(q)

InitOne ==
    /\ program \in Programs
    /\ bplus_size \in IF program = "bplus" THEN {"small", "taller", "tallest"} ELSE {"small"}
    /\ bplus_removals = 0
    /\ Init /\ HashInit /\ OpenInit /\ Sort!Init
    /\ Heap!Init /\ Huff!Init /\ Graph!Init /\ Trie!Init
    /\ Avl!Init /\ BPlus!Init /\ NumbersInit /\ ListsInit
    /\ Primes!Init /\ PoolInit /\ RedisInit /\ UthreadInit
    /\ Clients!Init

NextOne ==
    \/ Step("coroutine", Next)
    \/ Step("rows", HashNext)
    \/ Step("open", OpenNext)
    \/ Step("sorts", Sort!Next)
    \/ Step("heap", Heap!Next)
    \/ Step("huffman", Huff!Next)
    \/ Step("graph", Graph!Next)
    \/ Step("trie", Trie!Next)
    \/ Step("avl", Avl!Next)
    \/ Step("bplus", BPlusNext)
    \/ Step("numbers", NumbersNext)
    \/ Step("lists", ListsNext)
    \/ Step("primes", Primes!Next)
    \/ Step("blocks", PoolNext)
    \/ Step("redis", RedisNext)
    \/ Step("uthread", UthreadNext)
    \/ Step("clients", Clients!Next)

SpecOne == InitOne /\ [][NextOne]_<<program, vars, hashVars, openVars, uthreadVars,
    redisVars, numbersVars, listsVars, poolVars,
    sorts_array, heap_elements, heap_size,
    heap_minElement, heap_held, huffman_a, graph_edges, trie_next, trie_text, avl_tree,
    avl_inserted, bplus_mem, bplus_m_Root, bplus_m_DataHead, bplus_m_MaxKey,
    bplus_count, bplus_grown, bplus_size, bplus_removals, primes_key, primes_value,
    primes_currentSize, primes_held, clients_status, clients_at, clients_line,
    clients_isConnect, clients_sockets, clients_leaked, clients_closed>>
-----------------------------------------------------------------------------
(* The properties of the programs that are instances, each stated in its   *)
(* module; those of the modules it extends have the names they have there. *)
(* Programs that rest keep theirs, so the property of an instance is asked *)
(* only when its program runs.                                             *)

\* The programs that no theorem is about have the types they should have, and
\* Sorts, Heap, Huffman, GraphSearch: what the algorithm returns is what its
\* definition says, for every input that fits the bounds;
\* Trie: a word is counted once for each word that begins with it;
\* AvlTree: until it ends on a NULL pointer the tree is in order and complete, and
\* not always balanced;
\* HashShm: the table answers as the map of what was put in, and its rows have
\* different primes;
\* CheckClients: what the scheduler knows of a client is what it does, and what the
\* clients leave open
AlgorithmsRight ==
    CASE program = "sorts"   -> Sort!TypeOK /\ Sort!SortsSort
      [] program = "heap"    -> Heap!TypeOK /\ Heap!FrontIsLeast
      [] program = "huffman" -> Huff!TypeOK /\ Huff!CodeIsBest
      [] program = "graph"   -> Graph!TypeOK /\ Graph!SearchesRight
      [] program = "trie"    -> Trie!TypeOK /\ Trie!CountsWords
      [] program = "avl"     -> Avl!TypeOK /\ Avl!TreeKept
      [] program = "primes"  -> Primes!TypeOK /\ Primes!TableFinds /\ Primes!ModesArePrimes
      [] program = "clients" -> Clients!TypeOK /\ Clients!ClientsChecked
      [] OTHER               -> TRUE

\* BPlusTree: no call loses an entry from the chain of leaves, or leaves a node with
\* too few keys; the nodes above the leaves lead to them until a call borrows from
\* the right, or merges, among the nodes that are no leaves
BPlusKept ==
    (program = "bplus") =>
        CASE bplus_size = "small"   -> BPlus!TypeOK /\ BPlus!TreeKept /\ BPlus!LeafAnswers
          [] bplus_size = "taller"  -> Taller!TypeOK /\ Taller!TreeKept /\ Taller!LeafAnswers
          [] bplus_size = "tallest" -> Tallest!TypeOK /\ Tallest!TreeKept
=============================================================================
