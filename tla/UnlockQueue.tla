---------------------------- MODULE UnlockQueue ----------------------------
(***************************************************************************)
(* The lock-free byte ring of example_unlockqueue.cpp: one producer puts,  *)
(* one consumer gets, and the two share a buffer and two counters of which *)
(* each is written by one side only.  One action per access to what the    *)
(* other side reads or writes: the counters, and each byte of the buffer.  *)
(*                                                                         *)
(* The counters are unsigned and run over: they count modulo Word.         *)
(*                                                                         *)
(* A definition that directly precedes another with its parameters and is  *)
(* used nowhere is the other one with a mistake in it, which the           *)
(* properties must notice.                                                 *)
(***************************************************************************)
EXTENDS Integers, Sequences

CONSTANTS
    nSize,              \* the argument of the constructor
    Bits,               \* of unsigned int: 32
    PutLens, GetLens,   \* the lengths Put and Get are called with
    MaxBytes            \* bound: bytes that are offered to Put

ASSUME UnlockQueueAssumption ==
    /\ Bits \in Nat \ {0}
    /\ nSize \in 1 .. 2 ^ (Bits - 1) - 1
    /\ PutLens \subseteq Nat \ {0} /\ GetLens \subseteq Nat \ {0}
    /\ MaxBytes \in Nat

Word == 2 ^ Bits

-----------------------------------------------------------------------------
(* The size of the buffer *)

BitSet(n, b) == (n \div 2 ^ b) % 2 = 1

is_power_of_2(n) == n # 0 /\ \A b, c \in 0 .. Bits - 1 :
                                BitSet(n, b) /\ BitSet(n, c) => b = c

\* The loop shifts a single bit down until it meets the highest bit of val.
roundup_power_of_two(val) ==
    LET b == CHOOSE c \in 0 .. Bits - 1 :
                 BitSet(val, c) /\ \A d \in c + 1 .. Bits - 1 : ~BitSet(val, d)
    IN  2 ^ (b + 1)

Rounded(n) == IF is_power_of_2(n) THEN n ELSE roundup_power_of_two(n)

m_nSize == Rounded(nSize)

-----------------------------------------------------------------------------

VARIABLES
    m_pBuffer,          \* the bytes: 0 before the first Put
    m_nIn, m_nOut,
    ppc, plen, pk,      \* the producer: where in Put, its len, bytes copied
    cpc, clen, cbuf,    \* the consumer: where in Get, its len, bytes copied
    sent,               \* history: bytes accepted so far; bytes are numbered
    got,                \* history: what the last Get that was not empty returned
    taken               \* history: bytes returned so far

producer == <<ppc, plen, pk>>
consumer == <<cpc, clen, cbuf>>
vars == <<m_pBuffer, m_nIn, m_nOut, producer, consumer, sent, got, taken>>

PC == {"idle", "copy", "store"}

\* GetDataLen, and the space Put sees
DataLen == (m_nIn - m_nOut) % Word
Space   == (m_nSize - m_nIn + m_nOut) % Word

Least(a, b) == IF a <= b THEN a ELSE b

\* n & (m_nSize - 1), for a power of two
Mask(n) == n % m_nSize

\* Where the k-th of len bytes from counter n on is in the buffer: the first
\* memcpy goes to the end of the buffer, the second begins at its start.
PlaceUnsplit(n, len, k) == IF k < Least(len, m_nSize - Mask(n)) THEN Mask(n) + k ELSE k
Place(n, len, k) ==
    LET l == Least(len, m_nSize - Mask(n))
    IN  IF k < l THEN Mask(n) + k ELSE k - l

\* The constructor and Initialize
Init ==
    /\ m_pBuffer = [x \in 0 .. m_nSize - 1 |-> 0]
    /\ m_nIn = 0 /\ m_nOut = 0
    /\ ppc = "idle" /\ plen = 0 /\ pk = 0
    /\ cpc = "idle" /\ clen = 0 /\ cbuf = << >>
    /\ sent = 0 /\ got = << >> /\ taken = 0

-----------------------------------------------------------------------------
(* Put *)

\* len = min(len, m_nSize - m_nIn + m_nOut)
PutLenUnbounded(n) == n
PutLenOneMore(n) == Least(n, Space + 1)
PutLen(n) == Least(n, Space)

PutStart(n) ==
    /\ ppc = "idle" /\ sent + n <= MaxBytes
    /\ plen' = PutLen(n) /\ pk' = 0
    /\ ppc' = IF plen' = 0 THEN "store" ELSE "copy"
    /\ UNCHANGED <<m_pBuffer, m_nIn, m_nOut, consumer, sent, got, taken>>

\* One byte of the two memcpy
PutCopy ==
    /\ ppc = "copy"
    /\ m_pBuffer' = [m_pBuffer EXCEPT ![Place(m_nIn, plen, pk)] = sent + pk + 1]
    /\ pk' = pk + 1
    /\ ppc' = IF pk + 1 = plen THEN "store" ELSE "copy"
    /\ UNCHANGED <<m_nIn, m_nOut, plen, consumer, sent, got, taken>>

\* m_nIn += len, and return len
PutStore ==
    /\ ppc = "store"
    /\ m_nIn' = (m_nIn + plen) % Word
    /\ sent' = sent + plen
    /\ ppc' = "idle" /\ plen' = 0 /\ pk' = 0
    /\ UNCHANGED <<m_pBuffer, m_nOut, consumer, got, taken>>

Producer == (\E n \in PutLens : PutStart(n)) \/ PutCopy \/ PutStore

-----------------------------------------------------------------------------
(* Get *)

\* len = min(len, m_nIn - m_nOut)
GetLenBelow(n) == IF DataLen <= n THEN 0 ELSE n
GetLen(n) == Least(n, DataLen)

GetStart(n) ==
    /\ cpc = "idle"
    /\ clen' = GetLen(n) /\ cbuf' = << >>
    /\ cpc' = IF clen' = 0 THEN "store" ELSE "copy"
    /\ UNCHANGED <<m_pBuffer, m_nIn, m_nOut, producer, sent, got, taken>>

\* One byte of the two memcpy
GetCopy ==
    /\ cpc = "copy"
    /\ cbuf' = Append(cbuf, m_pBuffer[Place(m_nOut, clen, Len(cbuf))])
    /\ cpc' = IF Len(cbuf) + 1 = clen THEN "store" ELSE "copy"
    /\ UNCHANGED <<m_pBuffer, m_nIn, m_nOut, clen, producer, sent, got, taken>>

\* m_nOut += len, and return len
GetStore ==
    /\ cpc = "store"
    /\ m_nOut' = (m_nOut + clen) % Word
    /\ got' = IF clen = 0 THEN got ELSE cbuf
    /\ taken' = taken + clen
    /\ cpc' = "idle" /\ clen' = 0 /\ cbuf' = << >>
    /\ UNCHANGED <<m_pBuffer, m_nIn, producer, sent>>

Consumer == (\E n \in GetLens : GetStart(n)) \/ GetCopy \/ GetStore

Next == Producer \/ Consumer

Spec == Init /\ [][Next]_vars

\* consumer_proc calls Get for ever; a Put that was begun goes on.
FairSpec == Spec /\ WF_vars(Consumer) /\ WF_vars(Producer /\ ppc # "idle")

-----------------------------------------------------------------------------
(* Properties *)

Types ==
    /\ m_pBuffer \in [0 .. m_nSize - 1 -> Nat]
    /\ m_nIn \in 0 .. Word - 1 /\ m_nOut \in 0 .. Word - 1
    /\ ppc \in PC /\ plen \in Nat /\ pk \in Nat
    /\ cpc \in PC /\ clen \in Nat /\ cbuf \in Seq(Nat)
    /\ sent \in Nat /\ got \in Seq(Nat) /\ taken \in Nat

\* The counters stay in their words, and never more bytes are in the queue than
\* the buffer has: GetDataLen never exceeds the size.
TypeOK == Types /\ DataLen <= m_nSize

\* The byte Put is about to write is none that Get may still read: neither a
\* byte in the queue nor, therefore, one of a Get that has begun.
NoRace ==
    ppc = "copy" =>
        \A x \in 0 .. DataLen - 1 : Place(m_nIn, plen, pk) # Mask(m_nOut + x)

\* A queue of bytes used for records, as producer_proc and consumer_proc use it:
\* when all lengths are multiples of R, so is what a Get returns, and it begins
\* where a record begins, if R is a power of two: it divides the size, which is
\* one too, and so the space that Put finds and truncates its length to.
WholeRecords ==
    \A R \in PutLens \cup GetLens :
        /\ R <= m_nSize /\ is_power_of_2(R)
        /\ \A n \in PutLens \cup GetLens : n % R = 0
        => /\ Len(got) % R = 0
           /\ \A k \in 1 .. Len(got) : (got[k] - k) % R = 0

\* A power of two that fits the ring divides its size, ...
RecordsFit == \A R \in PutLens \cup GetLens : R <= m_nSize /\ is_power_of_2(R) => m_nSize % R = 0

\* ... as the constructor rounds up to the next power of 2, for whatever size it is
\* called with.
RoundsUp ==
    /\ \A n \in 1 .. 2 ^ (Bits - 1) - 1 :
          \E b \in 0 .. Bits - 1 : Rounded(n) = 2 ^ b /\ n <= 2 ^ b /\ 2 ^ b < 2 * n
    /\ RecordsFit

\* Every byte that was accepted is returned in the end.
AllReturned == \A n \in 1 .. MaxBytes : (sent >= n) ~> (taken >= n)

\* The queue is a first-in first-out queue of m_nSize bytes: a Put takes effect
\* where it stores m_nIn, a Get where it stores m_nOut.
Fifo == INSTANCE BoundedFifo WITH
            Capacity <- m_nSize,
            queue <- [x \in 1 .. DataLen |-> m_pBuffer[Mask(m_nOut + x - 1)]]

ImplementsFifo == Fifo!Spec
=============================================================================
