--------------------------- MODULE CoroutineProofs ---------------------------
(***************************************************************************)
(* The coroutine scheduler for any number of coroutines, any length of the *)
(* table and of the stack: what a coroutine has on its stack, and what the *)
(* scheduler knows of it.  At the end, the second scheduler, UThread, and  *)
(* the checks of a server that it runs.                                    *)
(***************************************************************************)
EXTENDS Coroutine, UThread, FiniteSetTheorems, WellFoundedInduction, TLAPS

-----------------------------------------------------------------------------
(* The invariant *)

\* struct coroutine
Struct == [status : Status, size : 0 .. STACK_SIZE, sp : 0 .. STACK_SIZE,
           stack : Seq(Contents)]

\* The table begins at 0 and has a length, and every variable its type.
Typed ==
    /\ \E n \in Nat \ {0} : DOMAIN co = 0 .. n - 1
    /\ co \in [DOMAIN co -> Coroutines \cup {NULL}]
    /\ nco \in Nat /\ running \in DOMAIN co \cup {-1}
    /\ stack \in [1 .. STACK_SIZE -> Contents]
    /\ DOMAIN heap \subseteq Coroutines
    /\ heap \in [DOMAIN heap -> Struct] /\ frames \in [DOMAIN heap -> Seq(Contents)]
    /\ \A c \in DOMAIN heap : heap[c].size <= Len(heap[c].stack)
    /\ current \in DOMAIN heap \cup {NULL} /\ sp \in 0 .. STACK_SIZE
    /\ opened \in BOOLEAN

\* Only an open schedule has coroutines, and running and the status tell which of
\* them executes.
Runs ==
    /\ running = -1 <=> current = NULL
    /\ current # NULL => opened /\ co[running] = current
    /\ \A c \in DOMAIN heap : heap[c].status = "RUNNING" <=> c = current
    /\ ~opened => DOMAIN heap = {}

\* In an open schedule the table and the coroutines that exist belong together one
\* to one.
Used == {id \in DOMAIN co : co[id] # NULL}
Placed == opened =>
    /\ \A id \in Used : co[id] \in DOMAIN heap
    /\ \A c \in DOMAIN heap : \E id \in DOMAIN co : co[id] = c
    /\ \A i, j \in Used : co[i] = co[j] => i = j
    /\ nco = Cardinality(Used)

\* What mainfunc has on the stack is the coroutine and its place.
Rooted(c) ==
    /\ Len(frames[c]) > 0
    /\ \E id \in DOMAIN co : frames[c][1] = <<c, id>> /\ co[id] = c

\* The buffer of a suspended coroutine holds all it had on the stack.
InBuffer(c) ==
    LET C == heap[c]
    IN  /\ C.sp = C.size /\ C.size = Len(frames[c])
        /\ \A d \in 1 .. C.size : C.stack[SavedAt(C.size, d)] = frames[c][d]

Stacks ==
    /\ \A c \in DOMAIN heap : heap[c].status # "READY" => Rooted(c)
    /\ \A c \in DOMAIN heap : heap[c].status = "SUSPEND" => InBuffer(c)
    /\ StackKept

CoInv == Typed /\ Runs /\ Placed /\ Stacks

-----------------------------------------------------------------------------
(* The table *)

\* A set of natural numbers has a least one.
LEMMA LeastOf ==
    ASSUME NEW S \in SUBSET Nat, S # {}
    PROVE  \E x \in S : \A y \in S : x <= y
<1>1. PICK x \in S : \A y \in S : ~(<<y, x>> \in OpToRel(<, Nat))
  BY NatLessThanWellFounded, WFMin
<1>2. ASSUME NEW y \in S PROVE x <= y
  <2>1. ~(y < x)
    BY <1>1 DEF OpToRel
  <2> QED
    BY <2>1
<1> QED
  BY <1>2

\* A sum of two positions is once round the table at most.
LEMMA Round ==
    ASSUME NEW n \in Nat \ {0}, NEW k \in 0 .. 2 * n - 1
    PROVE  k % n = IF k < n THEN k ELSE k - n
<1>1. k = n * (k \div n) + (k % n) /\ k \div n \in Int /\ k % n \in 0 .. n - 1
  OBVIOUS
<1> DEFINE q == k \div n
<1> HIDE DEF q
<1>2. q \in Int /\ k = n * q + (k % n)
  BY <1>1 DEF q
<1>3. q = 0 \/ q = 1
  <2>1. CASE q >= 2
    <3>1. n * q >= n * 2
      BY ONLY <1>2, <2>1, n \in Nat \ {0}
    <3> QED
      BY <1>1, <1>2, <3>1
  <2>2. CASE q <= -1
    <3>1. n * q <= -n
      BY ONLY <1>2, <2>2, n \in Nat \ {0}
    <3> QED
      BY <1>1, <1>2, <3>1
  <2> QED
    BY <1>2, <2>1, <2>2
<1> QED
  BY <1>1, <1>2, <1>3

\* cap is the length of the table.
LEMMA CapIsLength ==
    ASSUME Typed
    PROVE  /\ cap \in Nat \ {0} /\ DOMAIN co = 0 .. cap - 1
           /\ IsFiniteSet(DOMAIN co) /\ IsFiniteSet(Used)
           /\ Cardinality(Used) <= cap
           /\ Cardinality(Used) = cap => Used = DOMAIN co
<1>1. PICK n \in Nat \ {0} : DOMAIN co = 0 .. n - 1
  BY DEF Typed
<1>2. IsFiniteSet(DOMAIN co) /\ Cardinality(DOMAIN co) = n
  BY <1>1, FS_Interval
<1>3. Used \in SUBSET DOMAIN co
  BY DEF Used
<1> QED
  BY <1>1, <1>2, <1>3, FS_Subset DEF cap

\* Where the count is below cap, coroutine_new finds an empty place.
LEMMA PlaceIsEmpty ==
    ASSUME Typed, Placed, opened, nco < cap
    PROVE  Place \in DOMAIN co /\ co[Place] = NULL
<1> DEFINE At(i) == (i + nco) % cap
           Found(i) == co[At(i)] = NULL /\ \A j \in 0 .. i - 1 : co[At(j)] # NULL
           S == {i \in 0 .. cap - 1 : co[At(i)] = NULL}
<1>1. /\ cap \in Nat \ {0} /\ DOMAIN co = 0 .. cap - 1 /\ nco \in 0 .. cap - 1
  BY CapIsLength DEF Typed
<1>2. PICK id \in 0 .. cap - 1 : co[id] = NULL
  <2>1. Used # DOMAIN co
    <3>1. Cardinality(Used) # cap /\ Cardinality(DOMAIN co) = cap
      BY <1>1 DEF Placed, cap
    <3> QED
      BY <3>1
  <2> QED
    BY <1>1, <2>1 DEF Used
<1>3. PICK i \in 0 .. cap - 1 : At(i) = id
  <2>1. CASE id >= nco
    <3>1. (id - nco) + nco = id /\ id - nco \in 0 .. cap - 1 /\ id \in 0 .. 2 * cap - 1 /\ id < cap
      BY <1>1, <2>1
    <3> QED
      BY ONLY <1>1, <3>1, Round
  <2>2. CASE id < nco
    <3>1. /\ (id - nco + cap) + nco = id + cap /\ id - nco + cap \in 0 .. cap - 1
          /\ id + cap \in 0 .. 2 * cap - 1 /\ ~(id + cap < cap) /\ id + cap - cap = id
      BY <1>1, <2>2
    <3>2. (id + cap) % cap = id
      BY ONLY <1>1, <3>1, Round
    <3> QED
      BY <3>1, <3>2
  <2> QED
    BY <1>1, <2>1, <2>2
<1>4. S \in SUBSET Nat /\ i \in S
  BY <1>1, <1>2, <1>3
<1>5. PICK m \in S : \A y \in S : m <= y
  BY <1>4, LeastOf
<1>6. m \in 0 .. cap - 1 /\ Found(m)
  <2>1. m \in 0 .. cap - 1 /\ co[At(m)] = NULL
    BY <1>5
  <2>2. ASSUME NEW j \in 0 .. m - 1 PROVE co[At(j)] # NULL
    <3>1. j \in 0 .. cap - 1 /\ ~(m <= j)
      BY <1>1, <2>1
    <3>2. j \notin S
      BY <1>5, <3>1
    <3> QED
      BY <3>1, <3>2
  <2> QED
    BY <2>1, <2>2
<1>7. ASSUME NEW k \in 0 .. cap - 1 PROVE At(k) \in DOMAIN co
  BY <1>1
<1> DEFINE c == CHOOSE k \in 0 .. cap - 1 : Found(k)
<1>8. Place = At(c)
  BY DEF Place
<1>9. c \in 0 .. cap - 1 /\ Found(c)
  <2> HIDE DEF Found
  <2> QED
    BY <1>6
<1> HIDE DEF c
<1> QED
  BY <1>7, <1>8, <1>9

-----------------------------------------------------------------------------
(* Steps *)

\* Who executes has the place running, and at least mainfunc on the stack.
LEMMA Executing ==
    ASSUME CoInv, current # NULL
    PROVE  /\ opened /\ current \in DOMAIN heap /\ current \in Coroutines
           /\ running \in DOMAIN co /\ co[running] = current
           /\ heap[current].status = "RUNNING" /\ heap[current] \in Struct
           /\ frames[current] \in Seq(Contents) /\ Rooted(current)
           /\ sp = Len(frames[current]) /\ sp \in 1 .. STACK_SIZE
           /\ \A d \in 1 .. sp : stack[d] = frames[current][d]
<1>1. current \in DOMAIN heap /\ opened /\ co[running] = current /\ running # -1
  BY DEF CoInv, Typed, Runs
<1>2. current \in Coroutines /\ running \in DOMAIN co /\ heap[current] \in Struct
      /\ frames[current] \in Seq(Contents) /\ heap[current].status = "RUNNING"
  BY <1>1 DEF CoInv, Typed, Runs
<1>3. Rooted(current)
  BY <1>1, <1>2 DEF CoInv, Stacks
<1>4. sp = Len(frames[current]) /\ \A d \in 1 .. sp : stack[d] = frames[current][d]
  BY DEF CoInv, Stacks, StackKept
<1>5. sp \in 0 .. STACK_SIZE /\ Len(frames[current]) > 0
  BY <1>3 DEF Rooted, CoInv, Typed
<1>6. sp \in 1 .. STACK_SIZE
  BY <1>4, <1>5
<1> QED
  BY <1>1, <1>2, <1>3, <1>4, <1>6

\* No coroutine is NULL.
LEMMA NotNull == NULL \notin Coroutines /\ \A c \in Coroutines : c # NULL
BY DEF Coroutines, NULL

\* coroutine_new puts c in a place that was empty, or new, and nothing else moves.
LEMMA Placing ==
    ASSUME CoInv, NEW c \in Coroutines, New(c)
    PROVE  \E k : /\ k \in DOMAIN co' /\ k \notin Used /\ co'[k] = c
                  /\ \E n \in Nat \ {0} : DOMAIN co' = 0 .. n - 1
                  /\ DOMAIN co \subseteq DOMAIN co'
                  /\ \A id \in DOMAIN co \ {k} : co'[id] = co[id]
                  /\ \A id \in DOMAIN co' \ (DOMAIN co \cup {k}) : co'[id] = NULL
<1>1. /\ Typed /\ Placed /\ opened /\ nco = Cardinality(Used) /\ nco \in Nat
  BY DEF CoInv, New, Placed, Typed
<1>2. /\ cap \in Nat \ {0} /\ DOMAIN co = 0 .. cap - 1 /\ nco <= cap
      /\ nco = cap => Used = DOMAIN co
  BY <1>1, CapIsLength
<1>3. CASE nco >= cap
  <2> DEFINE n == cap
  <2>1. co' = [id \in 0 .. 2 * n - 1 |->
                  IF id < n THEN co[id] ELSE IF id = n THEN c ELSE NULL]
    BY <1>3 DEF New, Grown
  <2>2. /\ n \in 0 .. 2 * n - 1 /\ n \notin DOMAIN co /\ 2 * n \in Nat \ {0} /\ ~(n < n)
        /\ DOMAIN co \subseteq 0 .. 2 * n - 1
        /\ \A id \in DOMAIN co : id < n
        /\ \A id \in 0 .. 2 * n - 1 : id \notin DOMAIN co => ~(id < n)
    BY <1>2
  <2> HIDE DEF n
  <2>3. DOMAIN co' = 0 .. 2 * n - 1 /\ co'[n] = c /\ n \notin Used
    BY <2>1, <2>2 DEF Used
  <2>4. /\ \A id \in DOMAIN co \ {n} : co'[id] = co[id]
        /\ \A id \in DOMAIN co' \ (DOMAIN co \cup {n}) : co'[id] = NULL
    BY <2>1, <2>2
  <2> QED
    BY <2>2, <2>3, <2>4
<1>4. CASE ~(nco >= cap)
  <2>1. nco < cap
    BY <1>1, <1>2, <1>4
  <2>2. Place \in DOMAIN co /\ co[Place] = NULL
    BY <1>1, <2>1, PlaceIsEmpty
  <2>3. co' = [co EXCEPT ![Place] = c]
    BY <1>4 DEF New
  <2>4. co'[Place] = c /\ DOMAIN co' = DOMAIN co /\ Place \notin Used
        /\ \A id \in DOMAIN co \ {Place} : co'[id] = co[id]
    BY <2>2, <2>3 DEF Used
  <2> QED
    BY <1>2, <2>2, <2>4
<1> QED
  BY <1>3, <1>4

\* coroutine_new
LEMMA NewStep ==
    ASSUME CoInv, NEW c \in Coroutines, New(c)
    PROVE  CoInv'
<1>1. PICK k : /\ k \in DOMAIN co' /\ k \notin Used /\ co'[k] = c
               /\ \E n \in Nat \ {0} : DOMAIN co' = 0 .. n - 1
               /\ DOMAIN co \subseteq DOMAIN co'
               /\ \A id \in DOMAIN co \ {k} : co'[id] = co[id]
               /\ \A id \in DOMAIN co' \ (DOMAIN co \cup {k}) : co'[id] = NULL
  BY Placing
<1>2. /\ opened /\ c \notin DOMAIN heap /\ c # NULL
      /\ DOMAIN heap' = DOMAIN heap \cup {c} /\ DOMAIN frames' = DOMAIN heap'
      /\ heap'[c] = Empty /\ frames'[c] = << >>
      /\ \A x \in DOMAIN heap : heap'[x] = heap[x] /\ frames'[x] = frames[x] /\ x # c
      /\ heap' = [x \in DOMAIN heap' |-> heap'[x]] /\ frames' = [x \in DOMAIN heap' |-> frames'[x]]
      /\ nco' = nco + 1 /\ UNCHANGED <<running, stack, current, sp, opened>>
  BY NotNull DEF New, With, CoInv, Typed
<1>3. Empty \in Struct /\ Empty.size = 0 /\ Empty.status = "READY" /\ Len(Empty.stack) = 0
  BY CoroutineAssumption DEF Empty, Struct, Status
<1>4. co \in [DOMAIN co -> Coroutines \cup {NULL}] /\ DOMAIN heap \subseteq Coroutines
  BY DEF CoInv, Typed
<1>5. /\ Used' = Used \cup {k}
      /\ \A id \in Used : id \in DOMAIN co' /\ co'[id] = co[id]
  BY <1>1, <1>2, <1>4 DEF Used
<1>6. Typed'
  <2>1. co' = [id \in DOMAIN co' |-> co'[id]]
    BY <1>2 DEF New, Grown
  <2>2. \A id \in DOMAIN co' : co'[id] \in Coroutines \cup {NULL}
    BY <1>1, <1>4
  <2>3. co' \in [DOMAIN co' -> Coroutines \cup {NULL}]
    BY <2>1, <2>2
  <2>4. nco' \in Nat /\ running' \in DOMAIN co' \cup {-1} /\ stack' \in [1 .. STACK_SIZE -> Contents]
        /\ sp' \in 0 .. STACK_SIZE /\ opened' \in BOOLEAN /\ DOMAIN heap' \subseteq Coroutines
        /\ current' \in DOMAIN heap' \cup {NULL}
    BY <1>1, <1>2 DEF CoInv, Typed
  <2>5. \A x \in DOMAIN heap' : heap'[x] \in Struct /\ frames'[x] \in Seq(Contents)
                                /\ heap'[x].size <= Len(heap'[x].stack)
    <3>1. \A x \in DOMAIN heap : heap[x] \in Struct /\ frames[x] \in Seq(Contents)
                                 /\ heap[x].size <= Len(heap[x].stack)
      BY DEF CoInv, Typed
    <3>2. heap'[c] \in Struct /\ frames'[c] \in Seq(Contents)
          /\ heap'[c].size <= Len(heap'[c].stack)
      BY <1>2, <1>3
    <3> QED
      BY <1>2, <3>1, <3>2
  <2>6. heap' \in [DOMAIN heap' -> Struct] /\ frames' \in [DOMAIN heap' -> Seq(Contents)]
    BY <1>2, <2>5
  <2> QED
    BY <1>1, <2>3, <2>4, <2>5, <2>6 DEF Typed
<1>7. Runs'
  <2>1. current # c
    BY <1>2 DEF CoInv, Typed
  <2>2. \A x \in DOMAIN heap' : heap'[x].status = "RUNNING" <=> x = current'
    BY <1>2, <1>3, <2>1 DEF CoInv, Runs
  <2>3. current # NULL => co'[running] = current
    <3>1. current # NULL => running \in Used /\ co[running] = current
      BY Executing DEF Used
    <3> QED
      BY <1>5, <3>1
  <2> QED
    BY <1>2, <2>2, <2>3 DEF CoInv, Runs
<1>8. Placed'
  <2>1. /\ \A id \in Used : co[id] \in DOMAIN heap
        /\ \A x \in DOMAIN heap : \E id \in Used : co[id] = x
        /\ \A i, j \in Used : co[i] = co[j] => i = j
        /\ nco = Cardinality(Used)
    BY <1>2, <1>4, NotNull DEF CoInv, Placed, Used
  <2>2. nco' = Cardinality(Used')
    <3>1. Cardinality(Used \cup {k}) = Cardinality(Used) + 1
      BY <1>1, CapIsLength, FS_AddElement DEF CoInv
    <3> QED
      BY <1>2, <1>5, <2>1, <3>1
  <2>3. \A id \in Used' : co'[id] \in DOMAIN heap'
    BY <1>1, <1>2, <1>5, <2>1
  <2>4. \A x \in DOMAIN heap' : \E id \in DOMAIN co' : co'[id] = x
    BY <1>1, <1>2, <1>5, <2>1
  <2>5. \A i, j \in Used' : co'[i] = co'[j] => i = j
    BY <1>1, <1>2, <1>5, <2>1
  <2> QED
    BY <2>2, <2>3, <2>4, <2>5 DEF Placed
<1>9. Stacks'
  <2>1. StackKept'
    BY <1>2 DEF CoInv, Stacks, StackKept, Typed
  <2>2. ASSUME NEW x \in DOMAIN heap', heap'[x].status # "READY" PROVE x \in DOMAIN heap /\ Rooted(x)'
    <3>1. x \in DOMAIN heap /\ heap[x].status # "READY"
      BY <1>2, <1>3, <2>2
    <3>2. PICK id \in DOMAIN co : frames[x][1] = <<x, id>> /\ co[id] = x
      BY <3>1 DEF CoInv, Stacks, Rooted
    <3>3. Len(frames[x]) > 0
      BY <3>1 DEF CoInv, Stacks, Rooted
    <3>4. id \in DOMAIN co' /\ co'[id] = x
      BY <1>4, <1>5, <3>1, <3>2, NotNull DEF Used
    <3> QED
      BY <1>2, <3>1, <3>2, <3>3, <3>4 DEF Rooted
  <2>3. ASSUME NEW x \in DOMAIN heap', heap'[x].status = "SUSPEND" PROVE InBuffer(x)'
    <3>1. x \in DOMAIN heap /\ heap'[x] = heap[x] /\ frames'[x] = frames[x]
      BY <1>2, <1>3, <2>3
    <3> QED
      BY <2>3, <3>1 DEF CoInv, Stacks, InBuffer, SavedAt
  <2> QED
    BY <2>1, <2>2, <2>3 DEF Stacks
<1> QED
  BY <1>6, <1>7, <1>8, <1>9 DEF CoInv

\* The other steps that leave the table alone leave everyone where he is.
LEMMA SamePlaces ==
    ASSUME CoInv, UNCHANGED <<co, nco, opened>>, DOMAIN heap' = DOMAIN heap
    PROVE  Placed'
BY DEF CoInv, Placed, Used

\* A coroutine whose state and stack do not change, nor its place
LEMMA SameStack ==
    ASSUME CoInv, UNCHANGED co, NEW x \in DOMAIN heap, heap'[x] = heap[x], frames'[x] = frames[x]
    PROVE  /\ heap'[x].status # "READY" => Rooted(x)'
           /\ heap'[x].status = "SUSPEND" => InBuffer(x)'
BY DEF CoInv, Stacks, Rooted, InBuffer, SavedAt

\* What the caller of coroutine_resume finds
LEMMA Switching ==
    ASSUME CoInv, NEW id \in DOMAIN co, Switch(id)
    PROVE  /\ current = NULL /\ opened /\ co[id] \in DOMAIN heap /\ co[id] \in Coroutines
           /\ co[id] # NULL /\ heap[co[id]] \in Struct /\ frames[co[id]] \in Seq(Contents)
           /\ id \in Nat /\ id # -1
           /\ \A x \in DOMAIN heap : heap[x].status # "RUNNING"
<1>1. running = -1 /\ opened /\ co[id] # NULL
  BY DEF Switch
<1>2. current = NULL /\ \A x \in DOMAIN heap : heap[x].status = "RUNNING" <=> x = NULL
  BY <1>1 DEF CoInv, Runs
<1>3. id \in Used
  BY <1>1 DEF Used
<1>4. co[id] \in DOMAIN heap
  BY <1>1, <1>3 DEF CoInv, Placed
<1>5. co[id] \in Coroutines /\ heap[co[id]] \in Struct /\ frames[co[id]] \in Seq(Contents)
      /\ DOMAIN heap \subseteq Coroutines
  BY <1>4 DEF CoInv, Typed
<1>6. id \in Nat /\ id # -1
  BY DEF CoInv, Typed
<1> QED
  BY <1>1, <1>2, <1>4, <1>5, <1>6, NotNull

\* What changes when a coroutine is resumed, but the stack
LEMMA SwitchStep ==
    ASSUME CoInv, NEW id \in DOMAIN co, Switch(id),
           heap' = [heap EXCEPT ![co[id]] = Running(@)]
    PROVE  /\ DOMAIN heap' = DOMAIN heap /\ heap' \in [DOMAIN heap' -> Struct]
           /\ \A c \in DOMAIN heap' : heap'[c].size <= Len(heap'[c].stack)
           /\ heap'[co[id]].status = "RUNNING"
           /\ \A x \in DOMAIN heap \ {co[id]} : heap'[x] = heap[x]
           /\ Runs' /\ Placed'
<1> DEFINE c == co[id]
<1>1. /\ current = NULL /\ opened /\ c \in DOMAIN heap /\ heap[c] \in Struct /\ c # NULL
      /\ id # -1 /\ \A x \in DOMAIN heap : heap[x].status # "RUNNING"
  BY Switching
<1>2. running' = id /\ current' = c /\ UNCHANGED <<co, nco, opened>>
  BY DEF Switch
<1>3. heap \in [DOMAIN heap -> Struct] /\ \A x \in DOMAIN heap : heap[x].size <= Len(heap[x].stack)
  BY DEF CoInv, Typed
<1>4. /\ Running(heap[c]) \in Struct /\ Running(heap[c]).status = "RUNNING"
      /\ Running(heap[c]).size = heap[c].size /\ Running(heap[c]).stack = heap[c].stack
  BY <1>1 DEF Running, Struct, Status
<1>5. DOMAIN heap' = DOMAIN heap /\ heap'[c] = Running(heap[c])
      /\ (\A x \in DOMAIN heap \ {c} : heap'[x] = heap[x])
      /\ heap' = [x \in DOMAIN heap |-> heap'[x]]
  BY <1>1, <1>3
<1> HIDE DEF c
<1>6. \A x \in DOMAIN heap' : heap'[x] \in Struct /\ heap'[x].size <= Len(heap'[x].stack)
  BY <1>1, <1>3, <1>4, <1>5
<1>7. heap' \in [DOMAIN heap' -> Struct]
  BY <1>5, <1>6
<1>8. Runs'
  <2>1. \A x \in DOMAIN heap' : heap'[x].status = "RUNNING" <=> x = c
    BY <1>1, <1>4, <1>5
  <2>2. co'[running'] = current'
    BY <1>2 DEF c
  <2> QED
    BY <1>1, <1>2, <2>1, <2>2 DEF Runs
<1>9. Placed'
  BY <1>2, <1>5, SamePlaces
<1> QED
  BY <1>4, <1>5, <1>6, <1>7, <1>8, <1>9 DEF c

\* coroutine_resume of one that has not run yet
LEMMA ResumeReadyStep ==
    ASSUME CoInv, NEW id \in DOMAIN co, ResumeReady(id)
    PROVE  CoInv'
<1> DEFINE c == co[id]
<1>1. /\ current = NULL /\ c \in DOMAIN heap /\ c \in Coroutines /\ id \in Nat
  BY Switching DEF ResumeReady
<1>2. /\ DOMAIN heap' = DOMAIN heap /\ heap' \in [DOMAIN heap' -> Struct]
      /\ \A x \in DOMAIN heap' : heap'[x].size <= Len(heap'[x].stack)
      /\ heap'[c].status = "RUNNING"
      /\ \A x \in DOMAIN heap \ {c} : heap'[x] = heap[x]
      /\ Runs' /\ Placed'
  BY SwitchStep DEF ResumeReady
<1>3. running' = id /\ current' = c /\ sp' = 1 /\ UNCHANGED <<co, nco, opened>>
  BY DEF ResumeReady, Switch
<1>4. /\ stack \in [1 .. STACK_SIZE -> Contents] /\ 1 \in 1 .. STACK_SIZE
      /\ frames \in [DOMAIN heap -> Seq(Contents)]
  BY CoroutineAssumption DEF CoInv, Typed
<1>5. stack' = [stack EXCEPT ![1] = <<c, id>>] /\ frames' = [frames EXCEPT ![c] = <<stack'[1]>>]
  BY DEF ResumeReady
<1> HIDE DEF c
<1>6. <<c, id>> \in Contents
  BY <1>1 DEF Contents
<1>7. /\ stack' \in [1 .. STACK_SIZE -> Contents] /\ stack'[1] = <<c, id>>
  BY <1>4, <1>5, <1>6
<1>8. /\ frames' \in [DOMAIN heap' -> Seq(Contents)] /\ frames'[c] = << <<c, id>> >>
      /\ \A x \in DOMAIN heap \ {c} : frames'[x] = frames[x]
  BY <1>1, <1>2, <1>4, <1>5, <1>6, <1>7
<1>9. Typed'
  BY <1>1, <1>2, <1>3, <1>4, <1>7, <1>8 DEF CoInv, Typed
<1>10. \A x \in DOMAIN heap : x = c => Rooted(x)'
  <2>1. Len(frames'[c]) > 0 /\ frames'[c][1] = <<c, id>>
    BY <1>8
  <2>2. id \in DOMAIN co' /\ co'[id] = c
    BY <1>3 DEF c
  <2> QED
    BY <2>1, <2>2 DEF Rooted
<1>11. StackKept'
  <2>1. Len(frames'[c]) = 1 /\ frames'[c][1] = stack'[1] /\ 1 .. 1 = {1}
    BY <1>7, <1>8
  <2> QED
    BY <1>3, <2>1 DEF StackKept
<1>12. \A x \in DOMAIN heap \ {c} : /\ heap'[x].status # "READY" => Rooted(x)'
                                    /\ heap'[x].status = "SUSPEND" => InBuffer(x)'
  BY <1>2, <1>3, <1>8, SameStack
<1>13. Stacks'
  BY <1>1, <1>2, <1>10, <1>11, <1>12 DEF Stacks
<1> QED
  BY <1>2, <1>9, <1>13 DEF CoInv

\* A coroutine that goes on finds what it had on the stack.
LEMMA ResumeSuspendedStep ==
    ASSUME CoInv, NEW id \in DOMAIN co, ResumeSuspended(id)
    PROVE  CoInv'
<1> DEFINE c == co[id]
           C == heap[c]
<1>1. /\ current = NULL /\ c \in DOMAIN heap /\ c \in Coroutines /\ C \in Struct
      /\ frames[c] \in Seq(Contents) /\ C.status = "SUSPEND"
  BY Switching DEF ResumeSuspended
<1>2. /\ DOMAIN heap' = DOMAIN heap /\ heap' \in [DOMAIN heap' -> Struct]
      /\ \A x \in DOMAIN heap' : heap'[x].size <= Len(heap'[x].stack)
      /\ heap'[c].status = "RUNNING"
      /\ \A x \in DOMAIN heap \ {c} : heap'[x] = heap[x]
      /\ Runs' /\ Placed'
  BY SwitchStep DEF ResumeSuspended
<1>3. running' = id /\ current' = c /\ sp' = C.sp /\ UNCHANGED <<co, nco, opened, frames>>
      /\ stack' = Restored(C)
  BY DEF ResumeSuspended, Switch
<1>4. Rooted(c) /\ InBuffer(c) /\ C.size <= Len(C.stack)
  BY <1>1 DEF CoInv, Typed, Stacks
<1>5. /\ C.size \in 0 .. STACK_SIZE /\ C.stack \in Seq(Contents) /\ C.sp = C.size
      /\ C.size = Len(frames[c]) /\ Len(C.stack) \in Nat
      /\ \A d \in 1 .. C.size : C.stack[SavedAt(C.size, d)] = frames[c][d]
  BY <1>1, <1>4 DEF Struct, InBuffer
<1>6. stack \in [1 .. STACK_SIZE -> Contents] /\ frames \in [DOMAIN heap -> Seq(Contents)]
      /\ STACK_SIZE \in Nat
  BY CoroutineAssumption DEF CoInv, Typed
<1> HIDE DEF C, c
<1>7. \A d \in 1 .. STACK_SIZE : stack'[d] = IF d <= C.size THEN C.stack[SavedAt(C.size, d)] ELSE stack[d]
  BY <1>3 DEF Restored
<1>8. ASSUME NEW d \in 1 .. STACK_SIZE PROVE stack'[d] \in Contents
  <2>1. CASE d <= C.size
    <3>1. SavedAt(C.size, d) \in 1 .. Len(C.stack)
      BY <1>4, <1>5, <1>6, <2>1 DEF SavedAt
    <3>2. C.stack[SavedAt(C.size, d)] \in Contents
      BY <1>5, <3>1
    <3> QED
      BY <1>7, <2>1, <3>2
  <2>2. CASE ~(d <= C.size)
    BY <1>6, <1>7, <2>2
  <2> QED
    BY <2>1, <2>2
<1>9. stack' \in [1 .. STACK_SIZE -> Contents]
  BY <1>3, <1>8 DEF Restored
<1>10. Typed'
  BY <1>1, <1>2, <1>3, <1>5, <1>6, <1>9 DEF CoInv, Typed
<1>11. StackKept'
  <2>1. ASSUME NEW d \in 1 .. C.size PROVE stack'[d] = frames[c][d]
    <3>1. d \in 1 .. STACK_SIZE /\ d <= C.size
      BY <1>5, <1>6
    <3> QED
      BY <1>5, <1>7, <3>1
  <2> QED
    BY <1>3, <1>5, <2>1 DEF StackKept
<1>12. \A x \in DOMAIN heap : x = c => Rooted(x)'
  BY <1>3, <1>4 DEF Rooted
<1>13. \A x \in DOMAIN heap \ {c} : /\ heap'[x].status # "READY" => Rooted(x)'
                                    /\ heap'[x].status = "SUSPEND" => InBuffer(x)'
  BY <1>2, <1>3, SameStack
<1>14. Stacks'
  BY <1>1, <1>2, <1>11, <1>12, <1>13 DEF Stacks
<1> QED
  BY <1>2, <1>10, <1>14 DEF CoInv

\* A step of the coroutine that executes, above mainfunc: its stack is what it has
\* on it.
LEMMA FramesStep ==
    ASSUME CoInv, current # NULL, NEW f \in Seq(Contents),
           frames' = [frames EXCEPT ![current] = f], Len(f) > 0, f[1] = frames[current][1],
           sp' = Len(f), sp' \in 0 .. STACK_SIZE, stack' \in [1 .. STACK_SIZE -> Contents],
           \A d \in 1 .. Len(f) : stack'[d] = f[d],
           UNCHANGED <<co, nco, running, heap, current, opened>>
    PROVE  CoInv'
<1>1. current \in DOMAIN heap /\ Rooted(current) /\ heap[current].status = "RUNNING"
  BY Executing
<1>2. frames \in [DOMAIN heap -> Seq(Contents)]
  BY DEF CoInv, Typed
<1>3. /\ frames' \in [DOMAIN heap -> Seq(Contents)] /\ frames'[current] = f
      /\ \A x \in DOMAIN heap \ {current} : frames'[x] = frames[x]
  BY <1>1, <1>2
<1>4. Typed'
  BY <1>3 DEF CoInv, Typed
<1>5. Runs' /\ Placed'
  BY SamePlaces DEF CoInv, Runs
<1>6. Stacks'
  <2>1. StackKept'
    BY <1>3 DEF StackKept
  <2>2. \A x \in DOMAIN heap : x = current => Rooted(x)'
    BY <1>1, <1>3 DEF Rooted
  <2>3. \A x \in DOMAIN heap \ {current} : /\ heap'[x].status # "READY" => Rooted(x)'
                                           /\ heap'[x].status = "SUSPEND" => InBuffer(x)'
    BY <1>3, SameStack
  <2> QED
    BY <1>1, <2>1, <2>2, <2>3 DEF Stacks
<1> QED
  BY <1>4, <1>5, <1>6 DEF CoInv

\* A coroutine calls a function: a frame more.
LEMMA CallStep ==
    ASSUME CoInv, NEW x \in Locals, Call(x)
    PROVE  CoInv'
<1> DEFINE f == frames[current]
           g == Append(f, <<current, x>>)
<1>1. /\ current # NULL /\ sp < STACK_SIZE /\ sp' = sp + 1
      /\ stack' = [stack EXCEPT ![sp + 1] = <<current, x>>]
      /\ UNCHANGED <<co, nco, running, heap, current, opened>>
  BY DEF Call
<1>2. /\ current \in Coroutines /\ current \in DOMAIN heap /\ f \in Seq(Contents)
      /\ sp = Len(f) /\ sp \in 1 .. STACK_SIZE /\ \A d \in 1 .. sp : stack[d] = f[d]
  BY <1>1, Executing
<1>3. stack \in [1 .. STACK_SIZE -> Contents] /\ frames \in [DOMAIN heap -> Seq(Contents)]
      /\ STACK_SIZE \in Nat
  BY CoroutineAssumption DEF CoInv, Typed
<1>4. <<current, x>> \in Contents
  BY <1>2 DEF Contents
<1>5. frames' = [frames EXCEPT ![current] = g]
  BY DEF Call
<1> HIDE DEF f
<1>6. /\ g \in Seq(Contents) /\ Len(g) = sp + 1 /\ g[sp + 1] = <<current, x>>
      /\ \A d \in 1 .. sp : g[d] = f[d]
  BY <1>2, <1>4
<1> HIDE DEF g
<1>7. sp + 1 \in 1 .. STACK_SIZE
  BY <1>1, <1>2, <1>3
<1>8. /\ stack' \in [1 .. STACK_SIZE -> Contents] /\ stack'[sp + 1] = <<current, x>>
      /\ \A d \in 1 .. STACK_SIZE : d # sp + 1 => stack'[d] = stack[d]
  BY <1>1, <1>3, <1>4, <1>7
<1>9. ASSUME NEW d \in 1 .. Len(g) PROVE stack'[d] = g[d]
  <2>1. CASE d = sp + 1
    BY <1>6, <1>8, <2>1
  <2>2. CASE d # sp + 1
    <3>1. d \in 1 .. sp /\ d \in 1 .. STACK_SIZE
      BY <1>2, <1>3, <1>6, <2>2
    <3> QED
      BY <1>2, <1>6, <1>8, <2>2, <3>1
  <2> QED
    BY <2>1, <2>2
<1>10. Len(g) > 0 /\ g[1] = frames[current][1] /\ sp' = Len(g) /\ sp' \in 0 .. STACK_SIZE
  BY <1>1, <1>2, <1>6, <1>7 DEF f
<1> QED
  BY <1>1, <1>5, <1>6, <1>8, <1>9, <1>10, FramesStep

\* And returns from it: a frame less.
LEMMA ReturnStep ==
    ASSUME CoInv, Return
    PROVE  CoInv'
<1> DEFINE f == frames[current]
           g == SubSeq(f, 1, sp - 1)
<1>1. /\ current # NULL /\ sp > 1 /\ sp' = sp - 1
      /\ UNCHANGED <<co, nco, running, stack, heap, current, opened>>
  BY DEF Return
<1>2. /\ f \in Seq(Contents) /\ sp = Len(f) /\ sp \in 1 .. STACK_SIZE
      /\ \A d \in 1 .. sp : stack[d] = f[d]
  BY <1>1, Executing
<1>3. stack \in [1 .. STACK_SIZE -> Contents] /\ STACK_SIZE \in Nat
  BY CoroutineAssumption DEF CoInv, Typed
<1>4. frames' = [frames EXCEPT ![current] = g]
  BY DEF Return
<1> HIDE DEF f
<1>5. g \in Seq(Contents) /\ Len(g) = sp - 1 /\ \A d \in 1 .. sp - 1 : g[d] = f[d]
  BY <1>1, <1>2
<1> HIDE DEF g
<1>6. \A d \in 1 .. Len(g) : stack'[d] = g[d]
  BY <1>1, <1>2, <1>5
<1>7. Len(g) > 0 /\ g[1] = frames[current][1] /\ sp' = Len(g) /\ sp' \in 0 .. STACK_SIZE
      /\ stack' \in [1 .. STACK_SIZE -> Contents]
  BY <1>1, <1>2, <1>3, <1>5 DEF f
<1> QED
  BY <1>1, <1>4, <1>5, <1>6, <1>7, FramesStep

\* A coroutine that yields leaves all it had on the stack in its buffer.
LEMMA YieldStep ==
    ASSUME CoInv, Yield
    PROVE  CoInv'
<1> DEFINE c == current
           C == heap[c]
           n == IF Len(C.stack) < sp THEN sp ELSE Len(C.stack)
           B == [j \in 1 .. n |-> IF j <= sp THEN stack[SavedAt(sp, j)] ELSE C.stack[j]]
           D == [Saved(C) EXCEPT !.status = "SUSPEND", !.sp = sp]
<1>1. /\ c # NULL /\ running' = -1 /\ current' = NULL /\ sp' = 0
      /\ UNCHANGED <<co, nco, stack, opened, frames>>
  BY DEF Yield
<1>2. /\ opened /\ c \in DOMAIN heap /\ co[running] = c /\ C \in Struct /\ Rooted(c)
      /\ sp = Len(frames[c]) /\ sp \in 1 .. STACK_SIZE
      /\ \A d \in 1 .. sp : stack[d] = frames[c][d]
  BY <1>1, Executing
<1>3. heap' = [heap EXCEPT ![c] = D]
  BY <1>2 DEF Yield
<1>4. /\ stack \in [1 .. STACK_SIZE -> Contents] /\ STACK_SIZE \in Nat
      /\ heap \in [DOMAIN heap -> Struct] /\ \A x \in DOMAIN heap : heap[x].size <= Len(heap[x].stack)
  BY CoroutineAssumption DEF CoInv, Typed
<1>5. C.stack \in Seq(Contents) /\ C.status \in Status /\ C.sp \in 0 .. STACK_SIZE
  BY <1>2 DEF Struct
<1>6. Saved(C) = [status |-> C.status, size |-> sp, sp |-> C.sp, stack |-> B]
  <2>1. C = [status |-> C.status, size |-> C.size, sp |-> C.sp, stack |-> C.stack]
    BY <1>2 DEF Struct
  <2>2. Saved(C) = [C EXCEPT !.size = sp, !.stack = B]
    BY DEF Saved
  <2> HIDE DEF B, C
  <2> QED
    BY <2>1, <2>2
<1> HIDE DEF D, C
<1>7. n \in Nat /\ sp <= n
  BY <1>2, <1>5
<1>8. ASSUME NEW j \in 1 .. n PROVE B[j] \in Contents
  <2>1. CASE j <= sp
    <3>1. SavedAt(sp, j) \in 1 .. STACK_SIZE
      BY <1>2, <1>4, <2>1 DEF SavedAt
    <3> QED
      BY <1>4, <2>1, <3>1
  <2>2. CASE ~(j <= sp)
    <3>1. j \in 1 .. Len(C.stack)
      BY <1>2, <1>5, <2>2
    <3> QED
      BY <1>5, <2>2, <3>1
  <2> QED
    BY <2>1, <2>2
<1>9. B \in [1 .. n -> Contents]
  BY <1>8
<1>10. \A d \in 1 .. sp : B[SavedAt(sp, d)] = stack[d]
  <2>1. ASSUME NEW d \in 1 .. sp
        PROVE  SavedAt(sp, d) \in 1 .. n /\ SavedAt(sp, d) <= sp /\ SavedAt(sp, SavedAt(sp, d)) = d
    BY <1>2, <1>7 DEF SavedAt
  <2> QED
    BY <2>1
<1> HIDE DEF n, B
<1>11. B \in Seq(Contents) /\ Len(B) = n
  BY <1>7, <1>9
<1>12. /\ D \in Struct /\ D.status = "SUSPEND" /\ D.size = sp /\ D.sp = sp /\ D.stack = B
       /\ D.size <= Len(D.stack)
  <2> DEFINE E == Saved(C)
  <2>1. E \in Struct /\ E.size = sp /\ E.stack = B
    BY <1>2, <1>5, <1>6, <1>11 DEF Struct
  <2> HIDE DEF E
  <2>2. D = [E EXCEPT !.status = "SUSPEND", !.sp = sp]
    BY DEF D, E
  <2>3. D.status = "SUSPEND" /\ D.sp = sp /\ D.size = sp /\ D.stack = B
    BY <2>1, <2>2 DEF Struct
  <2>4. D \in Struct
    BY <1>2, <2>1, <2>2 DEF Struct, Status
  <2> QED
    BY <1>7, <1>11, <2>3, <2>4
<1> HIDE DEF c
<1>13. /\ DOMAIN heap' = DOMAIN heap /\ heap'[c] = D
       /\ \A x \in DOMAIN heap \ {c} : heap'[x] = heap[x]
       /\ heap' \in [DOMAIN heap -> Struct]
  BY <1>2, <1>3, <1>4, <1>12
<1>14. Typed'
  <2>1. \A x \in DOMAIN heap' : heap'[x].size <= Len(heap'[x].stack)
    BY <1>4, <1>12, <1>13
  <2>2. sp' \in 0 .. STACK_SIZE /\ running' \in DOMAIN co' \cup {-1} /\ current' = NULL
    BY <1>1, <1>4
  <2> QED
    BY <1>1, <1>13, <2>1, <2>2 DEF CoInv, Typed
<1>15. Placed'
  BY <1>1, <1>13, SamePlaces
<1>16. Runs'
  <2>1. \A x \in DOMAIN heap : heap[x].status = "RUNNING" => x = c
    BY DEF CoInv, Runs, c
  <2>2. \A x \in DOMAIN heap : heap'[x].status # "RUNNING" /\ x # NULL
    BY <1>12, <1>13, <2>1, NotNull DEF CoInv, Typed
  <2> QED
    BY <1>1, <1>2, <1>13, <2>2 DEF Runs
<1>17. Stacks'
  <2>1. \A x \in DOMAIN heap : x = c => Rooted(x)' /\ InBuffer(x)'
    <3>1. \A x \in DOMAIN heap : x = c => Rooted(x)'
      BY <1>1, <1>2 DEF Rooted
    <3>2. \A d \in 1 .. sp : D.stack[SavedAt(sp, d)] = frames[c][d]
      BY <1>2, <1>10, <1>12
    <3>3. \A x \in DOMAIN heap : x = c => InBuffer(x)'
      BY <1>1, <1>2, <1>12, <1>13, <3>2 DEF InBuffer, SavedAt
    <3> QED
      BY <3>1, <3>3
  <2>2. \A x \in DOMAIN heap \ {c} : /\ heap'[x].status # "READY" => Rooted(x)'
                                     /\ heap'[x].status = "SUSPEND" => InBuffer(x)'
    BY <1>1, <1>13, SameStack
  <2>3. StackKept'
    BY <1>1 DEF StackKept
  <2> QED
    BY <1>13, <2>1, <2>2, <2>3 DEF Stacks
<1> QED
  BY <1>14, <1>15, <1>16, <1>17 DEF CoInv

\* The end of mainfunc finds its coroutine and its place on the stack.
LEMMA EndStep ==
    ASSUME CoInv, End
    PROVE  CoInv'
<1>1. current # NULL /\ sp = 1
  BY DEF End
<1>2. /\ opened /\ current \in DOMAIN heap /\ current \in Coroutines
      /\ running \in DOMAIN co /\ co[running] = current
      /\ stack[1] = frames[current][1] /\ Rooted(current)
  BY <1>1, Executing
<1>3. PICK id \in DOMAIN co : frames[current][1] = <<current, id>> /\ co[id] = current
  BY <1>2 DEF Rooted
<1>4. stack[1][1] = current /\ stack[1][2] = id
  BY <1>2, <1>3
<1> DEFINE Left == DOMAIN heap \ {current}
<1>5. /\ heap' = Without(heap, current) /\ frames' = Without(frames, current)
      /\ co' = [co EXCEPT ![id] = NULL] /\ nco' = nco - 1
      /\ running' = -1 /\ current' = NULL /\ sp' = 0 /\ UNCHANGED <<stack, opened>>
  BY <1>4 DEF End, Emptied, OneLess
<1>6. /\ DOMAIN heap' = Left
      /\ \A x \in Left : heap'[x] = heap[x] /\ frames'[x] = frames[x] /\ x # current
      /\ heap' = [x \in Left |-> heap[x]] /\ frames' = [x \in Left |-> frames[x]]
  BY <1>5 DEF Without, CoInv, Typed
<1>7. /\ co \in [DOMAIN co -> Coroutines \cup {NULL}] /\ DOMAIN heap \subseteq Coroutines
      /\ heap \in [DOMAIN heap -> Struct] /\ frames \in [DOMAIN heap -> Seq(Contents)]
      /\ \A x \in DOMAIN heap : heap[x].size <= Len(heap[x].stack)
      /\ stack \in [1 .. STACK_SIZE -> Contents] /\ STACK_SIZE \in Nat /\ nco \in Nat
      /\ \E n \in Nat \ {0} : DOMAIN co = 0 .. n - 1
  BY CoroutineAssumption DEF CoInv, Typed
<1>8. /\ DOMAIN co' = DOMAIN co /\ co'[id] = NULL /\ \A k \in DOMAIN co \ {id} : co'[k] = co[k]
      /\ co' \in [DOMAIN co -> Coroutines \cup {NULL}]
  BY <1>3, <1>5, <1>7
<1>9. id \in Used /\ Used' = Used \ {id}
  BY <1>1, <1>3, <1>8 DEF Used
<1>10. /\ nco = Cardinality(Used)
       /\ \A k \in Used : co[k] \in DOMAIN heap
       /\ \A x \in DOMAIN heap : \E k \in DOMAIN co : co[k] = x
       /\ \A i, j \in Used : co[i] = co[j] => i = j
  BY <1>2 DEF CoInv, Placed
<1>11. nco' = Cardinality(Used') /\ nco' \in Nat
  <2>1. IsFiniteSet(Used) /\ IsFiniteSet(Used')
    BY <1>9, CapIsLength, FS_Subset DEF CoInv
  <2>2. Cardinality(Used') = Cardinality(Used) - 1
    BY <1>9, <2>1, FS_RemoveElement
  <2>3. Cardinality(Used') \in Nat
    BY <2>1, FS_CardinalityType
  <2> QED
    BY <1>5, <1>10, <2>2, <2>3
<1>12. Typed'
  <2>1. running' \in DOMAIN co' \cup {-1} /\ current' \in DOMAIN heap' \cup {NULL}
        /\ sp' \in 0 .. STACK_SIZE
    BY <1>5, <1>7
  <2>2. heap' \in [DOMAIN heap' -> Struct] /\ frames' \in [DOMAIN heap' -> Seq(Contents)]
        /\ DOMAIN heap' \subseteq Coroutines
    BY <1>6, <1>7
  <2>3. \A x \in DOMAIN heap' : heap'[x].size <= Len(heap'[x].stack)
    BY <1>6, <1>7
  <2>4. stack' \in [1 .. STACK_SIZE -> Contents] /\ opened' \in BOOLEAN
    BY <1>2, <1>5, <1>7
  <2>5. co' \in [DOMAIN co' -> Coroutines \cup {NULL}] /\ \E n \in Nat \ {0} : DOMAIN co' = 0 .. n - 1
    BY <1>7, <1>8
  <2> QED
    BY <1>11, <2>1, <2>2, <2>3, <2>4, <2>5 DEF Typed
<1>13. Runs'
  <2>1. \A x \in DOMAIN heap : heap[x].status = "RUNNING" => x = current
    BY DEF CoInv, Runs
  <2>2. \A x \in DOMAIN heap' : heap'[x].status # "RUNNING" /\ x # NULL
    BY <1>6, <1>7, <2>1, NotNull
  <2> QED
    BY <1>2, <1>5, <2>2 DEF Runs
<1>14. Placed'
  <2>1. \A k \in Used' : co'[k] \in DOMAIN heap'
    <3>1. \A k \in Used' : k \in Used /\ k # id /\ co'[k] = co[k]
      BY <1>8, <1>9 DEF Used
    <3>2. \A k \in Used' : co[k] # current /\ co[k] \in DOMAIN heap
      BY <1>3, <1>9, <1>10, <3>1
    <3> QED
      BY <1>6, <3>1, <3>2
  <2>2. \A x \in DOMAIN heap' : \E k \in DOMAIN co' : co'[k] = x
    BY <1>3, <1>6, <1>8, <1>10
  <2>3. \A i, j \in Used' : co'[i] = co'[j] => i = j
    <3>1. \A k \in Used' : k \in Used /\ co'[k] = co[k]
      BY <1>8, <1>9 DEF Used
    <3> QED
      BY <1>10, <3>1
  <2> QED
    BY <1>11, <2>1, <2>2, <2>3 DEF Placed
<1>15. Stacks'
  <2>1. ASSUME NEW x \in Left, heap[x].status # "READY" PROVE Rooted(x)'
    <3>1. Len(frames[x]) > 0 /\ \E k \in DOMAIN co : frames[x][1] = <<x, k>> /\ co[k] = x
      BY <2>1 DEF CoInv, Stacks, Rooted
    <3>2. \A k \in DOMAIN co : co[k] = x => k \in DOMAIN co' /\ co'[k] = x
      BY <1>3, <1>6, <1>8
    <3> QED
      BY <1>6, <3>1, <3>2 DEF Rooted
  <2>2. ASSUME NEW x \in Left, heap[x].status = "SUSPEND" PROVE InBuffer(x)'
    BY <1>6, <2>2 DEF CoInv, Stacks, InBuffer, SavedAt
  <2>3. StackKept'
    BY <1>5 DEF StackKept
  <2> QED
    BY <1>6, <2>1, <2>2, <2>3 DEF Stacks
<1> QED
  BY <1>12, <1>13, <1>14, <1>15 DEF CoInv

\* coroutine_close finds every coroutine in the table.
LEMMA CloseStep ==
    ASSUME CoInv, Close
    PROVE  CoInv'
<1> DEFINE Left == DOMAIN heap \ {co[id] : id \in DOMAIN co}
<1>1. /\ opened /\ current = NULL /\ ~opened' /\ opened' \in BOOLEAN
      /\ heap' = [c \in Left |-> heap[c]] /\ frames' = [c \in Left |-> frames[c]]
      /\ UNCHANGED <<co, nco, running, stack, current, sp>>
  BY DEF Close
<1>2. Left = {}
  BY <1>1 DEF CoInv, Placed
<1>3. DOMAIN heap' = {} /\ heap' \in [{} -> Struct] /\ frames' \in [{} -> Seq(Contents)]
  BY <1>1, <1>2
<1>4. Typed'
  BY <1>1, <1>3 DEF CoInv, Typed
<1>5. Runs'
  BY <1>1, <1>3 DEF CoInv, Runs
<1>6. Placed' /\ Stacks'
  BY <1>1, <1>3 DEF Placed, Stacks, StackKept
<1> QED
  BY <1>4, <1>5, <1>6 DEF CoInv

\* The empty table of coroutine_open
LEMMA EmptyTable ==
    /\ DOMAIN OpenTable = 0 .. DEFAULT_COROUTINE - 1
    /\ OpenTable \in [0 .. DEFAULT_COROUTINE - 1 -> Coroutines \cup {NULL}]
    /\ \A id \in DOMAIN OpenTable : OpenTable[id] = NULL
    /\ Cardinality({}) = 0
BY FS_EmptySet DEF OpenTable

\* coroutine_open
LEMMA OpenStep ==
    ASSUME CoInv, Open
    PROVE  CoInv'
<1>1. /\ ~opened /\ opened' = TRUE /\ co' = OpenTable /\ nco' = 0 /\ running' = -1
      /\ UNCHANGED <<stack, heap, current, sp, frames>>
  BY DEF Open
<1>2. DOMAIN heap = {} /\ current = NULL
  BY <1>1 DEF CoInv, Runs
<1>3. /\ DOMAIN co' = 0 .. DEFAULT_COROUTINE - 1 /\ DEFAULT_COROUTINE \in Nat \ {0}
      /\ co' \in [DOMAIN co' -> Coroutines \cup {NULL}] /\ Used' = {} /\ Cardinality({}) = 0
  BY <1>1, EmptyTable, CoroutineAssumption DEF Used
<1>4. Typed'
  <2>1. /\ stack' \in [1 .. STACK_SIZE -> Contents] /\ DOMAIN heap' \subseteq Coroutines
        /\ heap' \in [DOMAIN heap' -> Struct] /\ frames' \in [DOMAIN heap' -> Seq(Contents)]
        /\ current' \in DOMAIN heap' \cup {NULL} /\ sp' \in 0 .. STACK_SIZE
        /\ \A c \in DOMAIN heap' : heap'[c].size <= Len(heap'[c].stack)
    BY <1>1 DEF CoInv, Typed
  <2>2. nco' \in Nat /\ running' \in DOMAIN co' \cup {-1} /\ opened' \in BOOLEAN
    BY <1>1
  <2> QED
    BY <1>3, <2>1, <2>2 DEF Typed
<1>5. Runs' /\ Stacks'
  BY <1>1, <1>2 DEF Runs, Stacks, StackKept
<1>6. Placed'
  BY <1>1, <1>2, <1>3 DEF Placed
<1> QED
  BY <1>4, <1>5, <1>6 DEF CoInv

-----------------------------------------------------------------------------
(* Theorems *)

\* Every action maintains it.
LEMMA CoInvInductive ==
    /\ Init => CoInv
    /\ CoInv /\ [Next]_vars => CoInv'
<1>1. ASSUME Init PROVE CoInv
  <2>1. /\ co = OpenTable /\ nco = 0 /\ running = -1 /\ heap = << >> /\ frames = << >>
        /\ stack = [d \in 1 .. STACK_SIZE |-> <<NULL, 0>>]
        /\ current = NULL /\ sp = 0 /\ opened = TRUE
        /\ DEFAULT_COROUTINE \in Nat \ {0} /\ STACK_SIZE \in Nat
    BY <1>1, CoroutineAssumption DEF Init
  <2>2. /\ DOMAIN co = 0 .. DEFAULT_COROUTINE - 1 /\ Used = {} /\ Cardinality({}) = 0
        /\ co \in [DOMAIN co -> Coroutines \cup {NULL}]
    BY <2>1, EmptyTable DEF Used
  <2>3. DOMAIN heap = {} /\ heap \in [{} -> Struct] /\ frames \in [{} -> Seq(Contents)]
    BY <2>1
  <2>4. stack \in [1 .. STACK_SIZE -> Contents] /\ sp \in 0 .. STACK_SIZE
    BY <2>1 DEF Contents
  <2>5. Typed
    BY <2>1, <2>2, <2>3, <2>4 DEF Typed
  <2>6. Runs /\ Stacks
    BY <2>1, <2>3 DEF Runs, Stacks, StackKept
  <2>7. Placed
    BY <2>1, <2>2, <2>3 DEF Placed
  <2> QED
    BY <2>5, <2>6, <2>7 DEF CoInv
<1>2. ASSUME CoInv, [Next]_vars PROVE CoInv'
  <2>1. CASE UNCHANGED vars
    BY <1>2, <2>1 DEF vars, CoInv, Typed, Runs, Placed, Used, Stacks, Rooted, InBuffer, SavedAt,
                      StackKept
  <2>2. CASE Next
    BY <1>2, <2>2, NewStep, ResumeReadyStep, ResumeSuspendedStep, CallStep, ReturnStep,
       YieldStep, EndStep, CloseStep, OpenStep DEF Next
  <2> QED
    BY <1>2, <2>1, <2>2
<1> QED
  BY <1>1, <1>2

\* Every variable of the scheduler keeps its type, for any length of the table and of
\* the stack and any number of coroutines.
THEOREM TypeCorrect == Spec => []TypeOK
<1>1. CoInv => TypeOK
  <2> SUFFICES ASSUME CoInv PROVE TypeOK
    OBVIOUS
  <2>1. DOMAIN co = 0 .. cap - 1
    BY CapIsLength DEF CoInv
  <2>2. \A c \in DOMAIN heap : heap[c] \in Struct
    BY DEF CoInv, Typed
  <2>3. \A c \in DOMAIN heap : /\ heap[c].status \in Status
                               /\ heap[c].size \in 0 .. STACK_SIZE /\ heap[c].sp \in 0 .. STACK_SIZE
                               /\ heap[c].stack \in Seq(Contents)
    BY <2>2 DEF Struct
  <2>4. co \in [0 .. cap - 1 -> Coroutines \cup {NULL}]
    BY <2>1 DEF CoInv, Typed
  <2> QED
    BY <2>3, <2>4 DEF CoInv, Typed, TypeOK
<1> QED
  BY <1>1, CoInvInductive, PTL DEF Spec

\* A coroutine finds its locals as it left them: all that it has on the stack when it
\* yields goes to its buffer, and comes back from there.
THEOREM StackIsKept == Spec => []StackKept
<1>1. CoInv => StackKept
  BY DEF CoInv, Stacks
<1> QED
  BY <1>1, CoInvInductive, PTL DEF Spec

\* nco counts the coroutines in the table, each of which has one place, and running
\* and the status say who executes: no assertion of coroutine_new or coroutine_resume
\* fails but for a wrong id, and coroutine_close frees all there are.
THEOREM ScheduleIsRight == Spec => []ScheduleAgrees
<1>1. CoInv => ScheduleAgrees
  <2> SUFFICES ASSUME CoInv PROVE ScheduleAgrees
    OBVIOUS
  <2>1. RunningRuns
    BY DEF CoInv, Runs, RunningRuns
  <2>2. ASSUME opened, NEW c \in DOMAIN heap
        PROVE  Cardinality({id \in DOMAIN co : co[id] = c}) = 1
    <3>1. c # NULL
      BY NotNull DEF CoInv, Typed
    <3>2. PICK k \in DOMAIN co : co[k] = c
      BY <2>2 DEF CoInv, Placed
    <3>3. \A id \in DOMAIN co : co[id] = c => id = k
      BY <2>2, <3>1, <3>2 DEF CoInv, Placed, Used
    <3>4. {id \in DOMAIN co : co[id] = c} = {k}
      BY <3>2, <3>3
    <3> QED
      BY <3>4, FS_Singleton
  <2>3. TableCounts
    BY <2>2 DEF CoInv, Runs, Placed, Used, TableCounts
  <2> QED
    BY <2>1, <2>3 DEF ScheduleAgrees
<1> QED
  BY <1>1, CoInvInductive, PTL DEF Spec

\* An id stands for its coroutine until that one has ended: the places that New,
\* End, Close and Open change are those of no other.
THEOREM IdsKept == Spec => IdsStay
<1> DEFINE Stay == opened /\ opened' =>
        \A id \in DOMAIN co :
            co[id] # NULL /\ co[id] \in DOMAIN heap' => id \in DOMAIN co' /\ co'[id] = co[id]
<1>1. CoInv /\ [Next]_vars => [Stay]_vars
  <2> SUFFICES ASSUME CoInv, Next, opened, opened', NEW id \in DOMAIN co, co[id] # NULL,
                      co[id] \in DOMAIN heap'
               PROVE  id \in DOMAIN co' /\ co'[id] = co[id]
    OBVIOUS
  <2>1. CASE \E c \in Coroutines : New(c)
    <3>1. id \in Used
      BY DEF Used
    <3> QED
      BY <2>1, <3>1, Placing
  <2>2. CASE End
    <3>1. PICK k \in DOMAIN co : stack[1] = <<current, k>> /\ co[k] = current
      BY <2>2, Executing DEF End, Rooted
    <3>2. /\ DOMAIN heap' = DOMAIN heap \ {current}
          /\ co' = [co EXCEPT ![k] = NULL]
      BY <2>2, <3>1 DEF End, Without, Emptied
    <3>3. id # k
      BY <3>1, <3>2
    <3> QED
      BY <3>2, <3>3
  <2>3. CASE UNCHANGED co
    BY <2>3
  <2>4. CASE Close \/ Open
    BY <2>4 DEF Close, Open
  <2>5. CASE \E i \in DOMAIN co : ResumeReady(i) \/ ResumeSuspended(i)
    BY <2>3, <2>5 DEF ResumeReady, ResumeSuspended, Switch
  <2>6. CASE (\E x \in Locals : Call(x)) \/ Return \/ Yield
    BY <2>3, <2>6 DEF Call, Return, Yield
  <2> QED
    BY <2>1, <2>2, <2>4, <2>5, <2>6 DEF Next
<1> QED
  BY <1>1, CoInvInductive, PTL DEF Spec, IdsStay

-----------------------------------------------------------------------------
(* The second scheduler *)

\* A coroutine that has none to run, one that waits on select with its socket open,
\* and the one whose code runs, which the schedule knows of until it first yields
Idle(id) ==
    state[id] = "FREE" /\ line[id] = "none" /\ id \notin sockets /\ yields[id] <= 1
Waits(id) ==
    /\ state[id] = "SUSPEND" /\ yields[id] = 1
    /\ line[id] \in {"connecting", "reading"} /\ id \in sockets
Executes(id) ==
    /\ id < max_index /\ running_coroutine \in {id, -1}
    /\ running_coroutine = id => state[id] = "RUNNABLE" /\ yields[id] = 0
    /\ running_coroutine = -1 => state[id] = "SUSPEND" /\ yields[id] = 1
    /\ line[id] # "none"
    /\ id \in sockets <=> line[id] \in {"connecting", "connected", "reading"}

UthreadInv ==
    /\ UthreadTypeOK
    /\ \A id \in Ids : IF at = id THEN Executes(id) ELSE Idle(id) \/ Waits(id)
    /\ \A id \in Ids : id >= max_index => Idle(id)
    /\ at = Main => running_coroutine = -1
    /\ \A id \in Ids : line[id] = "start" => leaked < MaxLeaked

\* Before main does anything, nobody runs and nobody has a socket.
LEMMA UthreadInitInv == UthreadInit => UthreadInv
<1> SUFFICES ASSUME UthreadInit PROVE UthreadInv
  OBVIOUS
<1>1. Main \notin Ids
  BY UthreadAssumption DEF Ids, Main
<1>2. UthreadTypeOK
  BY UthreadAssumption DEF UthreadInit, UthreadTypeOK, MaxLeaked
<1> QED
  BY <1>1, <1>2 DEF UthreadInit, UthreadInv, Idle

\* Where coroutine_create puts a coroutine nothing of another one is left.
LEMMA CreateKeeps ==
    ASSUME UthreadInv, coroutine_create
    PROVE  UthreadInv'
<1> DEFINE free == { i \in Ids : i < max_index /\ state[i] = "FREE" }
           new  == IF free = {} THEN max_index ELSE CHOOSE i \in free : \A j \in free : i <= j
<1>1. /\ at = Main /\ leaked < MaxLeaked /\ new \in Ids
      /\ max_index' = IF new = max_index THEN max_index + 1 ELSE max_index
      /\ state' = [state EXCEPT ![new] = "RUNNABLE"]
      /\ running_coroutine' = new /\ at' = new
      /\ line' = [line EXCEPT ![new] = "start"]
      /\ isConnect' = [isConnect EXCEPT ![new] = FALSE]
      /\ yields' = [yields EXCEPT ![new] = 0]
      /\ UNCHANGED <<sockets, leaked>>
  BY DEF coroutine_create
<1>2. new = max_index \/ (new < max_index /\ state[new] = "FREE")
  <2>1. CASE free # {}
    <3>1. free \in SUBSET Nat
      BY UthreadAssumption DEF Ids
    <3>2. \E n \in free : \A m \in free : n <= m
      BY <3>1, <2>1, LeastOf
    <3>3. new \in free
      BY <3>2, <2>1
    <3> QED
      BY <3>3
  <2> QED
    BY <2>1
<1> HIDE DEF new, free
<1>3. /\ MAX_COROUTINE_SIZE \in Nat /\ Main \notin Ids /\ new \in Nat /\ max_index \in Nat
      /\ new < MAX_COROUTINE_SIZE /\ max_index <= MAX_COROUTINE_SIZE
      /\ \A id \in Ids : id \in Nat
  BY <1>1, UthreadAssumption DEF UthreadInv, UthreadTypeOK, Ids, Main
<1>4. Idle(new)
  BY <1>1, <1>2, <1>3 DEF UthreadInv, Idle, Waits
<1>5. /\ max_index' \in 0 .. MAX_COROUTINE_SIZE /\ new < max_index'
      /\ max_index <= max_index'
  BY <1>1, <1>2, <1>3
<1>6. UthreadTypeOK'
  BY <1>1, <1>5 DEF UthreadInv, UthreadTypeOK
<1>7. /\ state \in [Ids -> {"FREE", "RUNNABLE", "SUSPEND"}]
      /\ DOMAIN line = Ids /\ DOMAIN yields = Ids
  BY DEF UthreadInv, UthreadTypeOK
<1>8. \A n : n = new => Executes(n)'
  <2> TAKE n
  <2> HAVE n = new
  <2>1. /\ n \in Ids /\ n < max_index' /\ running_coroutine' = n /\ n # -1
        /\ state'[n] = "RUNNABLE" /\ yields'[n] = 0 /\ line'[n] = "start"
        /\ n \notin sockets'
    BY <1>1, <1>3, <1>4, <1>5, <1>7 DEF Idle
  <2> QED
    BY <2>1 DEF Executes
<1>9. \A id \in Ids : id # new => /\ Idle(id)' <=> Idle(id)
                                  /\ Waits(id)' <=> Waits(id)
  BY <1>1, <1>7 DEF Idle, Waits
<1>10. \A id \in Ids : IF at' = id THEN Executes(id)' ELSE (Idle(id) \/ Waits(id))'
  <2>1. \A id \in Ids : Idle(id) \/ Waits(id)
    BY <1>1, <1>3 DEF UthreadInv
  <2> QED
    BY <1>1, <1>8, <1>9, <2>1
<1>11. \A id \in Ids : id >= max_index' => Idle(id)'
  BY <1>3, <1>5, <1>9 DEF UthreadInv
<1>12. at' # Main /\ \A id \in Ids : line'[id] = "start" => leaked' < MaxLeaked
  BY <1>1, <1>3
<1> QED
  BY <1>6, <1>10, <1>11, <1>12 DEF UthreadInv

\* Each step of main, of the scheduler and of a client keeps the invariant.
LEMMA UthreadStep == UthreadInv /\ [UthreadNext]_uthreadVars => UthreadInv'
<1> SUFFICES ASSUME UthreadInv, [UthreadNext]_uthreadVars PROVE UthreadInv'
  OBVIOUS
<1>0. /\ MAX_COROUTINE_SIZE \in Nat /\ Main \notin Ids /\ -1 \notin Ids /\ Main = -1
      /\ max_index \in Nat /\ \A id \in Ids : id \in Nat
  BY UthreadAssumption DEF UthreadInv, UthreadTypeOK, Ids, Main
<1>1. /\ state \in [Ids -> {"FREE", "RUNNABLE", "SUSPEND"}]
      /\ running_coroutine \in Ids \cup {-1} /\ at \in Ids \cup {Main}
      /\ line \in [Ids -> {"none", "start", "connecting", "connected", "reading", "returned"}]
      /\ isConnect \in [Ids -> BOOLEAN]
      /\ sockets \subseteq Ids /\ leaked \in 0 .. MaxLeaked
      /\ yields \in [Ids -> 0 .. 2]
  BY DEF UthreadInv, UthreadTypeOK
<1>2. /\ \A id \in Ids : IF at = id THEN Executes(id) ELSE Idle(id) \/ Waits(id)
      /\ \A id \in Ids : id >= max_index => Idle(id)
      /\ at = Main => running_coroutine = -1
      /\ \A id \in Ids : line[id] = "start" => leaked < MaxLeaked
  BY DEF UthreadInv
<1>3. CASE coroutine_create
  BY <1>3, CreateKeeps
<1>4. ASSUME NEW id \in Ids, coroutine_resume(id) PROVE UthreadInv'
  <2>1. /\ at = Main /\ id < max_index /\ state[id] = "SUSPEND" /\ at' = id
        /\ UNCHANGED <<state, running_coroutine, max_index, line, isConnect, sockets, leaked, yields>>
    BY <1>4 DEF coroutine_resume
  <2>2. UthreadTypeOK'
    BY <2>1 DEF UthreadInv, UthreadTypeOK
  <2>3. Waits(id) /\ running_coroutine = -1
    BY <2>1, <1>0, <1>2 DEF Idle
  <2>4. Executes(id)'
    BY <2>1, <2>3, <1>0 DEF Executes, Waits
  <2>5. \A i \in Ids : (Idle(i)' <=> Idle(i)) /\ (Waits(i)' <=> Waits(i))
    BY <2>1 DEF Idle, Waits
  <2>6. \A i \in Ids : IF at' = i THEN Executes(i)' ELSE (Idle(i) \/ Waits(i))'
    BY <2>1, <2>4, <2>5, <1>0, <1>2
  <2> QED
    BY <2>1, <2>2, <2>5, <2>6, <1>0, <1>2 DEF UthreadInv
\* A step of the one whose code runs leaves the others alone.
<1>5. ASSUME NEW id \in Ids, at = id, UthreadTypeOK', max_index' = max_index,
             \A i \in Ids \ {id} : /\ state'[i] = state[i] /\ line'[i] = line[i]
                                   /\ yields'[i] = yields[i] /\ (i \in sockets' <=> i \in sockets),
             \/ at' = id /\ Executes(id)'
             \/ at' = Main /\ running_coroutine' = -1 /\ (Idle(id) \/ Waits(id))',
             leaked' = leaked \/ \A i \in Ids : line'[i] # "start",
             line'[id] = "start" => line[id] = "start"
      PROVE  UthreadInv'
  <2>1. \A i \in Ids \ {id} : (Idle(i)' <=> Idle(i)) /\ (Waits(i)' <=> Waits(i))
    BY <1>5 DEF Idle, Waits
  <2>2. \A i \in Ids \ {id} : (Idle(i) \/ Waits(i))'
    BY <2>1, <1>2, <1>5
  <2>3. \A i \in Ids : IF at' = i THEN Executes(i)' ELSE (Idle(i) \/ Waits(i))'
    BY <2>2, <1>5, <1>0
  <2>4. id < max_index
    BY <1>2, <1>5 DEF Executes
  <2>5. \A i \in Ids : i >= max_index' => Idle(i)'
    BY <2>1, <2>4, <1>0, <1>2, <1>5
  <2>6. \A i \in Ids : line'[i] = "start" => leaked' < MaxLeaked
    BY <1>2, <1>5
  <2>7. at' = Main => running_coroutine' = -1
    BY <1>0, <1>5
  <2> QED
    BY <2>3, <2>5, <2>6, <2>7, <1>5 DEF UthreadInv
<1>6. ASSUME NEW id \in Ids, coroute_body(id) PROVE UthreadInv'
  <2>1. /\ at = id /\ line[id] = "returned" /\ line' = [line EXCEPT ![id] = "none"]
        /\ state' = [state EXCEPT ![id] = "FREE"] /\ running_coroutine' = -1 /\ at' = Main
        /\ UNCHANGED <<max_index, isConnect, sockets, leaked, yields>>
    BY <1>6 DEF coroute_body
  <2>2. UthreadTypeOK'
    BY <2>1, <1>1 DEF UthreadInv, UthreadTypeOK
  <2>3. Idle(id)'
    BY <2>1, <1>1, <1>2 DEF Idle, Executes
  <2> QED
    BY <2>1, <2>2, <2>3, <1>1, <1>5
<1>7. ASSUME NEW id \in Ids, NotReady(id) PROVE UthreadInv'
  <2>1. /\ at = id /\ line[id] \in {"connecting", "reading"} /\ coroutine_yield(id)
        /\ UNCHANGED <<max_index, line, isConnect, sockets, leaked>>
        /\ Executes(id)
    BY <1>7, <1>2 DEF NotReady
  <2>2. CASE running_coroutine = -1
    <3>1. UNCHANGED uthreadVars
      BY <2>1, <2>2 DEF coroutine_yield, uthreadVars
    <3>2. UthreadTypeOK'
      BY <3>1 DEF UthreadInv, UthreadTypeOK, uthreadVars
    <3>3. Executes(id)'
      BY <2>1, <3>1 DEF Executes, uthreadVars
    <3> QED
      BY <2>1, <3>1, <3>2, <3>3, <1>5 DEF uthreadVars
  <2>3. CASE running_coroutine # -1
    <3>1. /\ running_coroutine = id /\ yields[id] = 0
          /\ state' = [state EXCEPT ![id] = "SUSPEND"]
          /\ yields' = [yields EXCEPT ![id] = @ + 1]
          /\ running_coroutine' = -1 /\ at' = Main
      BY <2>1, <2>3 DEF coroutine_yield, Executes
    <3>2. UthreadTypeOK'
      BY <2>1, <3>1, <1>1 DEF UthreadInv, UthreadTypeOK
    <3>3. Waits(id)'
      BY <2>1, <3>1, <1>1 DEF Waits, Executes
    <3> QED
      BY <2>1, <3>1, <3>2, <3>3, <1>1, <1>5
  <2> QED
    BY <2>2, <2>3
\* A step of checkServer that does not yield
<1>8. ASSUME NEW id \in Ids, Begin(id) \/ Ready(id) \/ Request(id) \/ Answer(id)
      PROVE  UthreadInv'
  <2>1. /\ at = id /\ Executes(id) /\ at' = id
        /\ UNCHANGED <<state, running_coroutine, max_index, yields>>
    BY <1>8, <1>2 DEF Begin, Ready, Request, Answer, Stays
  <2>2. \E l \in {"connecting", "connected", "reading", "returned"} :
           line' = [line EXCEPT ![id] = l]
    <3>1. CASE Begin(id)
      BY <3>1 DEF Begin, Go
    <3>2. CASE Ready(id)
      <4>1. line[id] = "connecting" /\ (line' = line \/ line' = [line EXCEPT ![id] = "connected"])
        BY <3>2 DEF Ready, Go
      <4>2. line = [line EXCEPT ![id] = line[id]]
        BY <1>1
      <4> QED
        BY <4>1, <4>2
    <3>3. CASE Request(id) \/ Answer(id)
      BY <3>3 DEF Request, Answer, Go, CloseSocket
    <3> QED
      BY <1>8, <3>1, <3>2, <3>3
  <2>3. /\ sockets' \subseteq Ids /\ \A i \in Ids \ {id} : i \in sockets' <=> i \in sockets
        /\ id \in sockets' <=> line'[id] \in {"connecting", "connected", "reading"}
    <3>1. line'[id] \in {"connecting", "connected", "reading", "returned"}
      BY <2>2, <1>1
    <3>2. CASE Begin(id)
      BY <3>2, <2>1, <1>1 DEF Begin, Go, Executes
    <3>3. CASE Ready(id)
      BY <3>3, <2>1, <1>1 DEF Ready, Go, Executes
    <3>4. CASE Request(id)
      BY <3>4, <2>1, <1>1 DEF Request, Go, Executes, CloseSocket
    <3>5. CASE Answer(id)
      BY <3>5, <2>1, <1>1 DEF Answer, Go, Executes, CloseSocket
    <3> QED
      BY <1>8, <3>2, <3>3, <3>4, <3>5
  <2>4. isConnect' \in [Ids -> BOOLEAN]
    BY <1>8, <1>1 DEF Begin, Ready, Request, Answer
  <2>5. leaked' \in 0 .. MaxLeaked
    <3>1. CASE Begin(id)
      BY <3>1, <1>1, <1>2 DEF Begin, MaxLeaked
    <3>2. CASE Ready(id) \/ Request(id) \/ Answer(id)
      BY <3>2, <1>1 DEF Ready, Request, Answer
    <3> QED
      BY <1>8, <3>1, <3>2
  <2>6. leaked' = leaked \/ \A i \in Ids : line'[i] # "start"
    <3>1. \A i \in Ids \ {id} : line[i] # "start"
      BY <2>1, <1>2 DEF Idle, Waits
    <3>2. \A i \in Ids : line'[i] # "start"
      BY <3>1, <2>2, <1>1
    <3> QED
      BY <3>2
  <2>7. UthreadTypeOK'
    BY <2>1, <2>2, <2>3, <2>4, <2>5, <1>1 DEF UthreadInv, UthreadTypeOK
  <2>8. line'[id] \in {"connecting", "connected", "reading", "returned"}
        /\ \A i \in Ids \ {id} : line'[i] = line[i]
    BY <2>2, <1>1
  <2>9. Executes(id)'
    BY <2>1, <2>3, <2>8 DEF Executes
  <2> QED
    BY <2>1, <2>3, <2>6, <2>7, <2>8, <2>9, <1>5
<1>9. CASE UNCHANGED uthreadVars
  <2>1. UthreadTypeOK'
    BY <1>9 DEF uthreadVars, UthreadInv, UthreadTypeOK
  <2>2. \A i \in Ids : (Idle(i)' <=> Idle(i)) /\ (Waits(i)' <=> Waits(i)) /\ (Executes(i)' <=> Executes(i))
    BY <1>9 DEF uthreadVars, Idle, Waits, Executes
  <2> QED
    BY <1>9, <1>2, <2>1, <2>2 DEF uthreadVars, UthreadInv
<1> QED
  BY <1>3, <1>4, <1>6, <1>7, <1>8, <1>9 DEF UthreadNext

\* So it holds in every state.
LEMMA UthreadInvKept == UthreadSpec => []UthreadInv
BY UthreadInitInv, UthreadStep, PTL DEF UthreadSpec

\* The schedule's variables and the lines of checkServer keep their types, for any
\* number of coroutines.
THEOREM UthreadTypeCorrect == UthreadSpec => []UthreadTypeOK
<1>1. UthreadInv => UthreadTypeOK
  BY DEF UthreadInv
<1> QED
  BY <1>1, UthreadInvKept, PTL

\* coroutine_create, coroutine_yield and coroutine_resume: while the main program
\* runs the states of the coroutines are right although a resumed one is not marked
\* as running, and none yields twice.
THEOREM StatesAreRight == UthreadSpec => []Scheduled
<1>1. UthreadInv => Scheduled
  <2> SUFFICES ASSUME UthreadInv PROVE Scheduled
    OBVIOUS
  <2>0. /\ \A id \in Ids : IF at = id THEN Executes(id) ELSE Idle(id) \/ Waits(id)
        /\ \A id \in Ids : id >= max_index => Idle(id)
        /\ at = Main => running_coroutine = -1
        /\ sockets \subseteq Ids /\ Main \notin Ids
        /\ -1 \notin Ids /\ max_index \in Nat /\ \A id \in Ids : id \in Nat
    BY UthreadAssumption DEF UthreadInv, UthreadTypeOK, Ids, Main
  <2>1. ASSUME at = Main
        PROVE  /\ schedule_finished <=> (\A id \in Ids : line[id] = "none")
               /\ \A id \in Ids : (state[id] = "SUSPEND") <=> (line[id] # "none")
               /\ sockets = { id \in Ids : line[id] # "none" }
    <3>1. \A id \in Ids : Idle(id) \/ Waits(id)
      BY <2>0, <2>1
    <3>2. \A id \in Ids : state[id] = "FREE" <=> line[id] = "none"
      BY <3>1 DEF Idle, Waits
    <3>3. \A id \in Ids : id >= max_index => line[id] = "none"
      BY <2>0 DEF Idle
    <3>4. schedule_finished <=> (\A id \in Ids : line[id] = "none")
      BY <3>2, <3>3, <2>0, <2>1 DEF schedule_finished
    <3>5. \A id \in Ids : (state[id] = "SUSPEND") <=> (line[id] # "none")
      BY <3>1 DEF Idle, Waits
    <3>6. \A id \in Ids : id \in sockets <=> line[id] # "none"
      BY <3>1 DEF Idle, Waits
    <3> QED
      BY <3>4, <3>5, <3>6, <2>0
  <2>2. \A id \in Ids : at = id => ((running_coroutine = id) <=> (yields[id] = 0))
    BY <2>0 DEF Executes
  <2>3. \A id \in Ids : yields[id] <= 1
    BY <2>0 DEF Idle, Waits, Executes
  <2> QED
    BY <2>1, <2>2, <2>3 DEF Scheduled
<1> QED
  BY <1>1, UthreadInvKept, PTL
=============================================================================
