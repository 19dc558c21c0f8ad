------------------------------- MODULE Sorts -------------------------------
(***************************************************************************)
(* The sorts of example_sort.cpp, example_heapsort.cpp and                 *)
(* example_quicksort.cpp and the searches of example_binarysearch.cpp, as  *)
(* functions of an array, for arrays that a caller makes longer.           *)
(*                                                                         *)
(* An array is a function on 0 .. n-1.  A loop over the array is a fold    *)
(* over the sequence of its indices, a loop that moves an element along is *)
(* the place where it ends.                                                *)
(*                                                                         *)
(* A definition that directly precedes another with its parameters and is  *)
(* used nowhere is the other one with a mistake in it.                     *)
(***************************************************************************)
EXTENDS Integers, Sequences, FiniteSetsExt
LOCAL INSTANCE SequencesExt

CONSTANTS
    Values,            \* what arrays hold
    Width,             \* keys to a bucket
    MaxArray           \* bound: elements of an array

VARIABLE array

Len0(a) == Cardinality(DOMAIN a)

\* The indices from a up to b, and from a down to b, that a loop goes through
Up(a, b)   == [k \in 1 .. b - a + 1 |-> a + k - 1]
Down(a, b) == [k \in 1 .. a - b + 1 |-> a - k + 1]

Init == array = << >>
Append0(v) ==
    /\ Len0(array) < MaxArray
    /\ array' = [i \in 0 .. Len0(array) |-> IF i = Len0(array) THEN v ELSE array[i]]
Next == \E v \in Values : Append0(v)

-----------------------------------------------------------------------------
(* insertSort and shellSort *)

\* arr[i] goes down in steps of h as long as what is there is greater.
InsertBy(a, i, h) ==
    LET j == Max({k \in 0 .. i : /\ (i - k) % h = 0
                                 /\ k < h \/ a[k - h] <= a[i]})
    IN  [k \in DOMAIN a |->
            IF k = j THEN a[i]
            ELSE IF k \in j .. i /\ (i - k) % h = 0 THEN a[k - h]
            ELSE a[k]]

InsertPass(a, h) == FoldLeft(LAMBDA b, i : InsertBy(b, i, h), a, Up(h, Len0(a) - 1))

insertSort(a) == InsertPass(a, 1)

RECURSIVE ShellFrom(_, _)
ShellFrom(a, increment) ==
    IF increment = 0 THEN a ELSE ShellFrom(InsertPass(a, increment), increment \div 2)
shellSort(a) == ShellFrom(a, Len0(a) \div 2)

-----------------------------------------------------------------------------
(* mergeSort *)

\* What the loops of merge store from lpos and rpos on
RECURSIVE Merged(_, _, _, _, _)
Merged(a, lpos, leftEnd, rpos, rightEnd) ==
    IF lpos > leftEnd THEN [k \in 1 .. rightEnd - rpos + 1 |-> a[rpos + k - 1]]
    ELSE IF rpos > rightEnd \/ a[lpos] <= a[rpos]
    THEN <<a[lpos]>> \o Merged(a, lpos + 1, leftEnd, rpos, rightEnd)
    ELSE <<a[rpos]>> \o Merged(a, lpos, leftEnd, rpos + 1, rightEnd)

merge(a, lpos, rpos, rightEnd) ==
    LET tmpArray == Merged(a, lpos, rpos - 1, rpos, rightEnd)
    IN  [k \in DOMAIN a |-> IF k \in lpos .. rightEnd THEN tmpArray[k - lpos + 1] ELSE a[k]]

RECURSIVE mSort(_, _, _)
mSort(a, left, right) ==
    LET center == (left + right) \div 2
    IN  IF left >= right THEN a
        ELSE merge(mSort(mSort(a, left, center), center + 1, right), left, center + 1, right)

mergeSort(a) == mSort(a, 0, Len0(a) - 1)

-----------------------------------------------------------------------------
(* heapsort, the same in both files *)

swap(a, i, j) == [a EXCEPT ![i] = a[j], ![j] = a[i]]

\* The place of the greatest of pos and its children below size
GreatestUnbounded(a, size, pos) ==
    CHOOSE m \in {pos, 2 * pos + 1, 2 * pos + 2} \cap DOMAIN a :
        \A k \in {pos, 2 * pos + 1, 2 * pos + 2} \cap DOMAIN a : a[k] <= a[m]
Greatest(a, size, pos) ==
    LET left  == 2 * pos + 1
        right == 2 * pos + 2
        m     == IF left < size /\ a[left] > a[pos] THEN left ELSE pos
    IN  IF right < size /\ a[right] > a[m] THEN right ELSE m

RECURSIVE maxheapify(_, _, _)
maxheapify(a, size, pos) ==
    LET maxpos == Greatest(a, size, pos)
    IN  IF maxpos = pos THEN a ELSE maxheapify(swap(a, maxpos, pos), size, maxpos)

buildheap(a) ==
    FoldLeft(LAMBDA b, i : maxheapify(b, Len0(a), i), a, Down((Len0(a) \div 2) - 1, 0))

heapsort(a) ==
    FoldLeft(LAMBDA b, i : maxheapify(swap(b, 0, i), i, 0), buildheap(a), Down(Len0(a) - 1, 1))

-----------------------------------------------------------------------------
(* quicksort *)

\* The two inner loops, from i and j on, until they meet: <<array, i>>
RECURSIVE Partition(_, _, _, _)
Partition(a, i, j, key) ==
    IF i >= j THEN <<a, i>>
    ELSE LET j1 == Max({i} \cup {k \in i .. j : a[k] < key})
             b  == [a EXCEPT ![i] = a[j1]]
             i1 == Min({j1} \cup {k \in i .. j1 : b[k] > key})
         IN  Partition([b EXCEPT ![j1] = b[i1]], i1, j1, key)

RECURSIVE QuickFrom(_, _, _)
QuickFrom(a, left, right) ==
    IF left >= right THEN a
    ELSE LET p == Partition(a, left, right, a[left])
             i == p[2]
             b == [p[1] EXCEPT ![i] = a[left]]
         IN  QuickFrom(QuickFrom(b, i + 1, right), left, i - 1)

quicksort(a) == QuickFrom(a, 0, Len0(a) - 1)

-----------------------------------------------------------------------------
(* bucketsort: the head of a bucket counts the nodes of its list, which is  *)
(* kept in order.                                                           *)

BucketInsert(list, key) ==
    LET before == Cardinality({k \in DOMAIN list : \A l \in 1 .. k : list[l] <= key})
    IN  SubSeq(list, 1, before) \o <<key>> \o SubSeq(list, before + 1, Len(list))

bucketsort(a, bucket_size) ==
    LET Lists == FoldLeft(LAMBDA t, j : [t EXCEPT ![a[j] \div Width] = BucketInsert(@, a[j])],
                          [b \in 0 .. bucket_size - 1 |-> << >>], Up(0, Len0(a) - 1))
        keys  == FoldLeft(LAMBDA s, b : s \o Lists[b], << >>, Up(0, bucket_size - 1))
    IN  [i \in DOMAIN a |-> keys[i + 1]]

-----------------------------------------------------------------------------
(* The searches of a sorted array *)

RECURSIVE SearchLoop(_, _, _, _)
SearchLoop(a, l, r, key) ==
    LET mid == (l + r) \div 2
    IN  IF l > r THEN -1
        ELSE IF a[mid] = key THEN mid
        ELSE IF key > a[mid] THEN SearchLoop(a, mid + 1, r, key)
        ELSE SearchLoop(a, l, mid - 1, key)

binarySearch(a, key) == SearchLoop(a, 0, Len0(a) - 1, key)

RECURSIVE BinarySearchRecursive(_, _, _, _)
BinarySearchRecursive(a, low, high, key) ==
    LET mid == (low + high) \div 2
    IN  IF low > high THEN -1
        ELSE IF a[mid] = key THEN mid
        ELSE IF a[mid] < key THEN BinarySearchRecursive(a, mid + 1, high, key)
        ELSE BinarySearchRecursive(a, low, mid - 1, key)

-----------------------------------------------------------------------------
\* The array holds as many values as the caller appended, up to the bound.
TypeOK == array \in UNION {[0 .. n - 1 -> Values] : n \in 0 .. MaxArray}

Occurrences(a, v) == Cardinality({i \in DOMAIN a : a[i] = v})
Sorted(a, b) ==
    /\ DOMAIN a = DOMAIN b
    /\ \A i, j \in DOMAIN a : i < j => a[i] <= a[j]
    /\ \A v \in Values : Occurrences(a, v) = Occurrences(b, v)
Finds(a, i, key) == IF \E k \in DOMAIN a : a[k] = key THEN i \in DOMAIN a /\ a[i] = key ELSE i = -1

\* Each of the six sorts returns the values of its array in order, each as often
\* as it was there, and both searches find in it the keys that it holds.
SortsSort ==
    LET buckets == (Max(Values) \div Width) + 1
        sorted  == insertSort(array)
    IN  /\ \A b \in {sorted, shellSort(array), mergeSort(array), heapsort(array),
                     quicksort(array), bucketsort(array, buckets)} : Sorted(b, array)
        /\ \A key \in Values :
               /\ Finds(sorted, binarySearch(sorted, key), key)
               /\ Finds(sorted, BinarySearchRecursive(sorted, 0, Len0(sorted) - 1, key), key)
=============================================================================
