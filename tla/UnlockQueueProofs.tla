-------------------------- MODULE UnlockQueueProofs --------------------------
(***************************************************************************)
(* UnlockQueue implements BoundedFifo, for a buffer and words of any size. *)
(*                                                                         *)
(* The argument counts bytes without end: m_nIn and m_nOut are the numbers *)
(* of bytes sent and taken, modulo Word, and the n-th byte is at place     *)
(* n - 1 modulo m_nSize.  As the size divides Word, both agree.            *)
(***************************************************************************)
EXTENDS UnlockQueue, SequenceTheorems, TLAPS

\* What rounding to a power of two is for: the size divides the range of the
\* counters, and the range is larger.
SizeOK ==
    /\ m_nSize \in Nat \ {0} /\ Word \in Nat /\ m_nSize < Word
    /\ \E c \in Nat : Word = m_nSize * c

-----------------------------------------------------------------------------
(* Remainders *)

\* What \div and % are; both are used for positions in the buffer.
LEMMA DivMod ==
    ASSUME NEW x \in Int, NEW s \in Nat \ {0}
    PROVE  /\ x = s * (x \div s) + (x % s)
           /\ x % s \in 0 .. s - 1 /\ x \div s \in Int
OBVIOUS

\* A multiple of the size that is smaller than the size is zero.
LEMMA SmallMultiple ==
    ASSUME NEW q \in Int, NEW s \in Nat \ {0}, NEW d \in Int, s * q = d, -s < d, d < s
    PROVE  q = 0
<1>1. CASE q >= 1
  <2>1. s * q >= s
    BY <1>1
  <2> QED
    BY <2>1
<1>2. CASE q <= -1
  <2>1. s * q <= -s
    BY <1>2
  <2> QED
    BY <2>1
<1> QED
  BY <1>1, <1>2

\* The remainder is the only one.
LEMMA ModUnique ==
    ASSUME NEW x \in Int, NEW s \in Nat \ {0}, NEW q \in Int, NEW r \in 0 .. s - 1,
           x = s * q + r
    PROVE  x % s = r
<1>1. x = s * (x \div s) + (x % s) /\ x % s \in 0 .. s - 1 /\ x \div s \in Int
  BY DivMod
<1>2. s * (q - (x \div s)) = (x % s) - r
  BY <1>1
<1>3. q - (x \div s) = 0
  BY ONLY <1>1, <1>2, SmallMultiple, s \in Nat \ {0}, q \in Int, r \in 0 .. s - 1
<1> QED
  BY <1>1, <1>2, <1>3

\* Counters may be added to after or before they run over.
LEMMA ModShift ==
    ASSUME NEW x \in Int, NEW y \in Int, NEW s \in Nat \ {0}
    PROVE  ((x % s) + y) % s = (x + y) % s
<1> DEFINE z == (x % s) + y
           p == x \div s
           q == z \div s
           r == z % s
<1>1. x = s * p + (x % s) /\ z \in Int /\ p \in Int
  BY DivMod
<1> HIDE DEF z, p
<1>2. z = s * q + r /\ r \in 0 .. s - 1 /\ q \in Int
  BY ONLY <1>1, DivMod, s \in Nat \ {0}
<1> HIDE DEF q, r
<1>3. x + y = s * (p + q) + r /\ p + q \in Int /\ x + y \in Int
  BY <1>1, <1>2 DEF z
<1>4. (x + y) % s = r
  BY ONLY <1>2, <1>3, ModUnique, s \in Nat \ {0}
<1> QED
  BY <1>4 DEF r, z

\* Two bytes less than the size apart are at different places.
LEMMA ModDistinct ==
    ASSUME NEW a \in Int, NEW b \in Int, NEW s \in Nat \ {0}, a < b, b < a + s
    PROVE  a % s # b % s
<1> SUFFICES ASSUME a % s = b % s PROVE FALSE
  OBVIOUS
<1>1. a = s * (a \div s) + (a % s) /\ a \div s \in Int /\ a % s \in Int
  BY DivMod
<1>2. b = s * (b \div s) + (b % s) /\ b \div s \in Int
  BY DivMod
<1>3. s * ((b \div s) - (a \div s)) = b - a
  BY <1>1, <1>2
<1>4. (b \div s) - (a \div s) = 0
  BY <1>1, <1>2, <1>3, SmallMultiple
<1> QED
  BY <1>3, <1>4

\* Quotients of quotients, as a counter modulo Word is taken modulo the size
LEMMA NestedQuotient ==
    ASSUME NEW x \in Int, NEW w \in Int, NEW m \in Int, NEW c \in Int, NEW p \in Int,
           NEW q \in Int, NEW t \in Int, NEW r \in Int,
           w = m * c, x = w * p + r, r = m * q + t
    PROVE  x = m * (c * p + q) + t /\ c * p + q \in Int
<1>1. w * p = m * (c * p) /\ c * p \in Int
  OBVIOUS
<1>2. m * (c * p + q) = m * (c * p) + m * q
  BY <1>1
<1> QED
  BY <1>1, <1>2

\* The place of a byte can be read off a counter that has run over.
LEMMA ModMod ==
    ASSUME NEW x \in Int, SizeOK
    PROVE  (x % Word) % m_nSize = x % m_nSize
<1> DEFINE r == x % Word
           p == x \div Word
           q == r \div m_nSize
           t == r % m_nSize
<1>1. PICK c \in Nat : Word = m_nSize * c
  BY DEF SizeOK
<1>2. m_nSize \in Nat \ {0} /\ Word \in Nat \ {0}
  BY DEF SizeOK
<1>3. x = Word * p + r /\ r \in Int /\ p \in Int
  BY <1>2, DivMod
<1> HIDE DEF r, p
<1>4. r = m_nSize * q + t /\ t \in 0 .. m_nSize - 1 /\ q \in Int
  BY ONLY <1>2, <1>3, DivMod
<1> HIDE DEF q, t
<1>5. x = m_nSize * (c * p + q) + t /\ c * p + q \in Int
  BY ONLY <1>1, <1>2, <1>3, <1>4, NestedQuotient, c \in Nat, x \in Int
<1>6. x % m_nSize = t
  BY ONLY <1>2, <1>4, <1>5, ModUnique, x \in Int
<1> QED
  BY <1>6 DEF t, r

-----------------------------------------------------------------------------
(* The counters and the places *)

\* The counters are what was sent and taken, modulo Word.
Counting ==
    /\ m_nIn = sent % Word /\ m_nOut = taken % Word
    /\ taken <= sent /\ sent - taken <= m_nSize

\* GetDataLen and the space seen by Put, whether or not a counter has run over
LEMMA Lengths ==
    ASSUME SizeOK, sent \in Nat, taken \in Nat, Counting
    PROVE  DataLen = sent - taken /\ Space = m_nSize - (sent - taken)
<1> DEFINE a == sent \div Word
           b == taken \div Word
           i == sent % Word
           o == taken % Word
<1>1. Word \in Nat \ {0} /\ m_nSize \in Nat \ {0} /\ m_nSize < Word
  BY DEF SizeOK
<1>2. /\ sent = Word * a + i /\ taken = Word * b + o
      /\ a \in Int /\ b \in Int /\ i \in Int /\ o \in Int
  BY <1>1, DivMod
<1> HIDE DEF a, b, i, o
<1> DEFINE d == sent - taken
           e == m_nSize - (sent - taken)
<1>3. /\ i - o = Word * (b - a) + d /\ i - o \in Int /\ b - a \in Int
      /\ m_nSize - i + o = Word * (a - b) + e /\ m_nSize - i + o \in Int /\ a - b \in Int
  BY <1>1, <1>2
<1>4. d \in 0 .. Word - 1 /\ e \in 0 .. Word - 1
  BY <1>1 DEF Counting
<1> HIDE DEF d, e
<1>5. (i - o) % Word = d
  BY ONLY <1>1, <1>3, <1>4, ModUnique
<1>6. (m_nSize - i + o) % Word = e
  BY ONLY <1>1, <1>3, <1>4, ModUnique
<1> QED
  BY <1>5, <1>6 DEF Counting, DataLen, Space, i, o, d, e

\* The places the two memcpy of a call go through are those of the bytes.
LEMMA PlaceMod ==
    ASSUME SizeOK, NEW x \in Nat, NEW len \in 0 .. m_nSize, NEW k \in 0 .. len - 1
    PROVE  /\ Place(x % Word, len, k) = (x + k) % m_nSize
           /\ (x + k) % m_nSize \in 0 .. m_nSize - 1
<1> DEFINE y == x % m_nSize
           q == x \div m_nSize
<1>1. m_nSize \in Nat \ {0}
  BY DEF SizeOK
<1>2. Mask(x % Word) = y
  BY ModMod DEF Mask
<1>3. x = m_nSize * q + y /\ y \in 0 .. m_nSize - 1 /\ q \in Int
  BY <1>1, DivMod
<1> HIDE DEF y, q
<1>4. CASE y + k < m_nSize
  <2>1. (x + k) % m_nSize = y + k
    <3>1. x + k = m_nSize * q + (y + k) /\ y + k \in 0 .. m_nSize - 1 /\ x + k \in Int
      BY <1>1, <1>3, <1>4
    <3> QED
      BY ONLY <1>1, <1>3, <3>1, ModUnique
  <2>2. Place(x % Word, len, k) = y + k
    BY <1>1, <1>2, <1>3, <1>4 DEF Place, Least
  <2> QED
    BY <1>1, <1>3, <1>4, <2>1, <2>2
<1>5. CASE y + k >= m_nSize
  <2>1. (x + k) % m_nSize = y + k - m_nSize
    <3>1. /\ x + k = m_nSize * (q + 1) + (y + k - m_nSize) /\ q + 1 \in Int
          /\ y + k - m_nSize \in 0 .. m_nSize - 1 /\ x + k \in Int
      BY <1>1, <1>3, <1>5
    <3> QED
      BY ONLY <1>1, <3>1, ModUnique
  <2>2. Place(x % Word, len, k) = k - (m_nSize - y)
    BY <1>1, <1>2, <1>3, <1>5 DEF Place, Least
  <2> QED
    BY <1>1, <1>3, <1>5, <2>1, <2>2
<1> QED
  BY <1>1, <1>3, <1>4, <1>5

\* The place of the x-th byte after m_nOut
LEMMA MaskMod ==
    ASSUME SizeOK, NEW n \in Nat, NEW x \in Nat
    PROVE  Mask((n % Word) + x) = (n + x) % m_nSize
<1> DEFINE u == n % Word
<1>1. m_nSize \in Nat \ {0} /\ Word \in Nat \ {0}
  BY DEF SizeOK
<1>2. u \in Int
  BY <1>1
<1>3. u % m_nSize = n % m_nSize
  BY ModMod
<1> HIDE DEF u
<1>0. x \in Int /\ n \in Int
  OBVIOUS
<1>4. ((u % m_nSize) + x) % m_nSize = (u + x) % m_nSize
  BY ONLY <1>0, <1>1, <1>2, ModShift, Zenon
<1>5. ((n % m_nSize) + x) % m_nSize = (n + x) % m_nSize
  BY ONLY <1>0, <1>1, ModShift, Zenon
<1>6. (u + x) % m_nSize = (n + x) % m_nSize
  BY ONLY <1>3, <1>4, <1>5
<1> QED
  BY <1>6 DEF Mask, u

-----------------------------------------------------------------------------
(* The inductive invariant *)

\* A Put has room for what it is copying; it has copied part of it, or all.
PutInv ==
    /\ sent + plen - taken <= m_nSize
    /\ ppc = "idle" => plen = 0 /\ pk = 0
    /\ ppc = "copy" => pk < plen
    /\ ppc = "store" => pk = plen

\* A Get finds what it is copying, and has copied the bytes after those taken.
GetInv ==
    /\ taken + clen <= sent
    /\ cpc = "idle" => clen = 0 /\ cbuf = << >>
    /\ cpc = "copy" => Len(cbuf) < clen
    /\ cpc = "store" => Len(cbuf) = clen
    /\ \A k \in 1 .. Len(cbuf) : cbuf[k] = taken + k

\* The bytes in the queue, and those a Put has copied, are in their places.
Contents ==
    \A n \in taken + 1 .. sent + pk : m_pBuffer[(n - 1) % m_nSize] = n

Inv == Types /\ Counting /\ PutInv /\ GetInv /\ Contents

\* The constructor and Initialize establish the invariant.
LEMMA InitInv == ASSUME SizeOK PROVE Init => Inv
<1> SUFFICES ASSUME Init PROVE Inv
  OBVIOUS
<1> USE DEF Init
<1>1. m_nSize \in Nat \ {0} /\ Word \in Nat \ {0}
  BY DEF SizeOK
<1>2. cbuf \in Seq(Nat) /\ got \in Seq(Nat)
  OBVIOUS
<1>3. m_pBuffer \in [0 .. m_nSize - 1 -> Nat]
  OBVIOUS
<1>4. Types
  BY <1>1, <1>2, <1>3 DEF Types, PC
<1>5. Counting
  BY <1>1, ModUnique DEF Counting
<1>6. PutInv /\ GetInv /\ Contents
  BY <1>1 DEF PutInv, GetInv, Contents
<1> QED
  BY <1>4, <1>5, <1>6 DEF Inv

\* Every step of Put and of Get keeps it.
LEMMA NextInv == ASSUME SizeOK PROVE Inv /\ [Next]_vars => Inv'
<1> SUFFICES ASSUME Inv, [Next]_vars PROVE Inv'
  OBVIOUS
<1> USE DEF Inv, producer, consumer
<1>1. /\ m_nSize \in Nat \ {0} /\ Word \in Nat \ {0}
      /\ sent \in Nat /\ taken \in Nat /\ plen \in Nat /\ pk \in Nat /\ clen \in Nat
      /\ cbuf \in Seq(Nat) /\ got \in Seq(Nat)
  BY DEF SizeOK, Types
<1>2. DataLen = sent - taken /\ Space = m_nSize - (sent - taken)
  BY <1>1, Lengths
<1>3. ASSUME NEW n \in PutLens, PutStart(n) PROVE Inv'
  <2>1. n \in Nat \ {0}
    BY UnlockQueueAssumption
  <2>2. plen' \in Nat /\ plen' <= Space /\ pk' = 0
    BY <1>1, <1>2, <1>3, <2>1 DEF PutStart, PutLen, Least, Counting
  <2>3. Types' /\ Counting' /\ GetInv'
    BY <1>1, <1>3, <2>2 DEF PutStart, Types, PC, Counting, GetInv
  <2>4. PutInv'
    BY <1>1, <1>2, <1>3, <2>2 DEF PutStart, PutInv
  <2>5. Contents'
    BY <1>1, <1>3, <2>2 DEF PutStart, Contents, PutInv
  <2> QED
    BY <2>3, <2>4, <2>5
<1>4. CASE PutCopy
  <2>1. pk < plen /\ plen \in 0 .. m_nSize /\ pk \in 0 .. plen - 1
    BY <1>1, <1>4 DEF PutCopy, PutInv, Counting
  <2> DEFINE x == (sent + pk) % m_nSize
  <2>2. Place(m_nIn, plen, pk) = x /\ x \in 0 .. m_nSize - 1
    BY <1>1, <2>1, PlaceMod DEF Counting
  <2>3. m_pBuffer' = [m_pBuffer EXCEPT ![x] = sent + pk + 1]
    BY <1>4, <2>2 DEF PutCopy
  <2>4. m_pBuffer \in [0 .. m_nSize - 1 -> Nat]
    BY DEF Types
  <2>5. m_pBuffer' \in [0 .. m_nSize - 1 -> Nat]
    BY ONLY <1>1, <2>2, <2>3, <2>4
  <2>6. Contents'
    <3> SUFFICES ASSUME NEW n \in taken' + 1 .. sent' + pk'
                 PROVE  m_pBuffer'[(n - 1) % m_nSize] = n
      BY DEF Contents
    <3>1. n \in taken + 1 .. sent + pk + 1 /\ n \in Int
      BY <1>1, <1>4 DEF PutCopy
    <3>2. CASE n = sent + pk + 1
      <4>1. n - 1 = sent + pk
        BY <1>1, <3>2
      <4>2. m_pBuffer'[x] = sent + pk + 1
        BY ONLY <2>2, <2>3, <2>4
      <4> QED
        BY ONLY <3>2, <4>1, <4>2
    <3>3. CASE n # sent + pk + 1
      <4>1. n \in taken + 1 .. sent + pk
        BY <1>1, <3>1, <3>3
      <4>2. /\ n - 1 < sent + pk /\ sent + pk < (n - 1) + m_nSize
            /\ n - 1 \in Int /\ sent + pk \in Int
        BY <1>1, <2>1, <4>1 DEF PutInv
      <4>3. (n - 1) % m_nSize # x
        BY ONLY <1>1, <4>2, ModDistinct, Zenon
      <4>4. m_pBuffer[(n - 1) % m_nSize] = n
        BY <4>1 DEF Contents
      <4>5. (n - 1) % m_nSize \in 0 .. m_nSize - 1
        BY <1>1, <4>2, DivMod
      <4> QED
        BY ONLY <2>3, <2>4, <4>3, <4>4, <4>5
    <3> QED
      BY <3>2, <3>3
  <2>7. Types' /\ Counting' /\ PutInv' /\ GetInv'
    BY <1>1, <1>4, <2>1, <2>5 DEF PutCopy, Types, PC, Counting, PutInv, GetInv
  <2> QED
    BY <2>6, <2>7
<1>5. CASE PutStore
  <2>1. m_nIn' = (sent + plen) % Word
    <3>1. m_nIn' = ((sent % Word) + plen) % Word
      BY <1>5 DEF PutStore, Counting
    <3>2. sent \in Int /\ plen \in Int
      BY <1>1
    <3> QED
      BY ONLY <1>1, <3>1, <3>2, ModShift, Zenon
  <2>2. m_nIn' \in 0 .. Word - 1
    BY <1>1, <2>1, DivMod
  <2>3. pk = plen
    BY <1>5 DEF PutStore, PutInv
  <2>4. Types'
    BY <1>1, <1>5, <2>2 DEF PutStore, Types, PC
  <2>5. PutInv' /\ GetInv' /\ taken' <= sent' /\ sent' - taken' <= m_nSize
    BY <1>1, <1>5 DEF PutStore, Counting, PutInv, GetInv
  <2>6. Counting'
    BY <1>5, <2>1, <2>5 DEF PutStore, Counting
  <2>7. Contents'
    BY <1>1, <1>5, <2>3 DEF PutStore, Contents
  <2> QED
    BY <2>4, <2>5, <2>6, <2>7
<1>6. ASSUME NEW n \in GetLens, GetStart(n) PROVE Inv'
  <2>1. n \in Nat \ {0}
    BY UnlockQueueAssumption
  <2>2. clen' \in Nat /\ clen' <= DataLen /\ cbuf' = << >>
    BY <1>1, <1>2, <1>6, <2>1 DEF GetStart, GetLen, Least, Counting
  <2>3. cbuf' \in Seq(Nat) /\ Len(cbuf') = 0
    BY <2>2
  <2>4. Types' /\ Counting' /\ PutInv'
    BY <1>1, <1>6, <2>2, <2>3 DEF GetStart, Types, PC, Counting, PutInv
  <2>5. GetInv'
    BY <1>1, <1>2, <1>6, <2>2, <2>3 DEF GetStart, GetInv
  <2>6. Contents'
    BY <1>1, <1>6 DEF GetStart, Contents
  <2> QED
    BY <2>4, <2>5, <2>6
<1>7. CASE GetCopy
  <2> DEFINE k == Len(cbuf)
             v == m_pBuffer[Place(m_nOut, clen, k)]
  <2>1. clen \in 0 .. m_nSize /\ k \in 0 .. clen - 1 /\ k \in Nat
    BY <1>1, <1>7 DEF GetCopy, GetInv, Counting
  <2>2. Place(m_nOut, clen, k) = (taken + k) % m_nSize
    BY <1>1, <2>1, PlaceMod DEF Counting
  <2>3. v = taken + k + 1
    <3> DEFINE n == taken + k + 1
    <3>1. n \in taken + 1 .. sent + pk /\ n - 1 = taken + k
      BY <1>1, <2>1 DEF GetInv
    <3> HIDE DEF n
    <3>2. m_pBuffer[(n - 1) % m_nSize] = n
      BY <3>1 DEF Contents
    <3>3. m_pBuffer[(taken + k) % m_nSize] = n
      BY ONLY <3>1, <3>2
    <3> QED
      BY <2>2, <3>3 DEF n
  <2>4. v \in Nat /\ cbuf' = Append(cbuf, v)
    BY <1>1, <1>7, <2>1, <2>3 DEF GetCopy
  <2> HIDE DEF v
  <2>5. /\ cbuf' \in Seq(Nat) /\ Len(cbuf') = k + 1
        /\ \A j \in 1 .. k : cbuf'[j] = cbuf[j]
        /\ cbuf'[k + 1] = v
    BY ONLY <1>1, <2>4
  <2>6. Types' /\ Counting' /\ PutInv' /\ Contents'
    BY <1>1, <1>7, <2>5 DEF GetCopy, Types, PC, Counting, PutInv, Contents
  <2>7. \A j \in 1 .. Len(cbuf') : cbuf'[j] = taken' + j
    <3>1. taken' = taken /\ \A j \in 1 .. k : cbuf[j] = taken + j
      BY <1>7 DEF GetCopy, GetInv
    <3>2. cbuf'[k + 1] = taken + (k + 1)
      BY <1>1, <2>1, <2>3, <2>5
    <3> QED
      BY <2>1, <2>5, <3>1, <3>2
  <2>8. GetInv'
    BY <1>1, <1>7, <2>1, <2>5, <2>7 DEF GetCopy, GetInv
  <2> QED
    BY <2>6, <2>8
<1>8. CASE GetStore
  <2>1. m_nOut' = (taken + clen) % Word
    <3>1. m_nOut' = ((taken % Word) + clen) % Word
      BY <1>8 DEF GetStore, Counting
    <3>2. taken \in Int /\ clen \in Int
      BY <1>1
    <3> QED
      BY ONLY <1>1, <3>1, <3>2, ModShift, Zenon
  <2>2. m_nOut' \in 0 .. Word - 1
    BY <1>1, <2>1, DivMod
  <2>3. cbuf' \in Seq(Nat) /\ got' \in Seq(Nat) /\ Len(cbuf') = 0
    BY <1>1, <1>8 DEF GetStore
  <2>4. Types'
    BY <1>1, <1>8, <2>2, <2>3 DEF GetStore, Types, PC
  <2>5. PutInv' /\ GetInv' /\ taken' <= sent' /\ sent' - taken' <= m_nSize
    BY <1>1, <1>8, <2>3 DEF GetStore, Counting, PutInv, GetInv
  <2>6. Counting'
    BY <1>8, <2>1, <2>5 DEF GetStore, Counting
  <2>7. Contents'
    BY <1>1, <1>8 DEF GetStore, Contents
  <2> QED
    BY <2>4, <2>5, <2>6, <2>7
<1>9. CASE UNCHANGED vars
  BY <1>9 DEF vars, Types, Counting, PutInv, GetInv, Contents
<1> QED
  BY <1>3, <1>4, <1>5, <1>6, <1>7, <1>8, <1>9 DEF Next, Producer, Consumer

\* The invariant of both sides together
LEMMA Invariant == ASSUME SizeOK PROVE Spec => []Inv
<1>1. Init => Inv
  BY InitInv
<1>2. Inv /\ [Next]_vars => Inv'
  BY NextInv
<1> QED
  BY <1>1, <1>2, PTL DEF Spec

-----------------------------------------------------------------------------
(* What the runs check, for every size *)

\* The counters stay in their words and the data length within the size: Put and
\* Get may use m_nIn and m_nOut unsynchronised and after they have run over.
THEOREM TypeCorrect == ASSUME SizeOK PROVE Spec => []TypeOK
<1>1. Inv => TypeOK
  <2> SUFFICES ASSUME Inv PROVE TypeOK
    OBVIOUS
  <2>1. sent \in Nat /\ taken \in Nat /\ Types /\ Counting
    BY DEF Inv, Types
  <2>2. DataLen = sent - taken
    BY <2>1, Lengths
  <2> QED
    BY <2>1, <2>2 DEF TypeOK, Counting
<1> QED
  BY <1>1, Invariant, PTL

\* The memcpy of Put and the memcpy of Get never touch the same byte.
THEOREM RaceFree == ASSUME SizeOK PROVE Spec => []NoRace
<1>1. Inv => NoRace
  <2> SUFFICES ASSUME Inv, ppc = "copy", NEW x \in 0 .. DataLen - 1
               PROVE  Place(m_nIn, plen, pk) # Mask(m_nOut + x)
    BY DEF NoRace
  <2>1. /\ sent \in Nat /\ taken \in Nat /\ plen \in Nat /\ pk \in Nat
        /\ Counting /\ m_nSize \in Nat \ {0}
    BY DEF Inv, Types, SizeOK
  <2>2. DataLen = sent - taken
    BY <2>1, Lengths
  <2>3. /\ plen \in 0 .. m_nSize /\ pk \in 0 .. plen - 1
        /\ x \in Nat /\ x < sent - taken /\ sent + plen - taken <= m_nSize
    BY <2>1, <2>2 DEF Inv, PutInv, Counting
  <2>4. Place(m_nIn, plen, pk) = (sent + pk) % m_nSize
    BY <2>1, <2>3, PlaceMod DEF Counting
  <2>5. Mask(m_nOut + x) = (taken + x) % m_nSize
    BY <2>1, <2>3, MaskMod DEF Counting
  <2>6. /\ taken + x < sent + pk /\ sent + pk < (taken + x) + m_nSize
        /\ taken + x \in Int /\ sent + pk \in Int
    BY <2>1, <2>3
  <2>7. (taken + x) % m_nSize # (sent + pk) % m_nSize
    BY ONLY <2>1, <2>6, ModDistinct, Zenon
  <2> QED
    BY <2>4, <2>5, <2>7
<1> QED
  BY <1>1, Invariant, PTL

-----------------------------------------------------------------------------
(* Records *)

\* Sums and differences of multiples are multiples.
LEMMA Multiples ==
    ASSUME NEW R \in Nat \ {0}, NEW x \in Int, NEW y \in Int, x % R = 0, y % R = 0
    PROVE  (x + y) % R = 0 /\ (x - y) % R = 0
<1>1. (x + y) % R = 0
  <2>1. ((x % R) + y) % R = (x + y) % R
    BY ModShift
  <2> QED
    BY <2>1
<1>2. (x - y) % R = 0
  <2> DEFINE z == x - y
  <2>1. y + z = x /\ z \in Int
    OBVIOUS
  <2> HIDE DEF z
  <2>2. ((y % R) + z) % R = (y + z) % R
    BY <2>1, ModShift
  <2>3. z % R = 0
    BY <2>1, <2>2
  <2> QED
    BY <2>3 DEF z
<1> QED
  BY <1>1, <1>2

\* Both sides have put and taken whole records, and go on to.
Records(R) ==
    /\ sent % R = 0 /\ taken % R = 0 /\ plen % R = 0 /\ clen % R = 0
    /\ Len(got) % R = 0 /\ \A k \in 1 .. Len(got) : (got[k] - k) % R = 0

\* A length that is cut to what there is remains a multiple.
LEMMA CutToRecords ==
    ASSUME SizeOK, NEW R \in Nat \ {0}, m_nSize % R = 0, Inv, Records(R),
           NEW n \in Nat, n % R = 0
    PROVE  PutLen(n) % R = 0 /\ GetLen(n) % R = 0
<1>1. sent \in Int /\ taken \in Int /\ m_nSize \in Int /\ sent - taken \in Int
  BY DEF Inv, Types, SizeOK
<1>2. (sent - taken) % R = 0
  BY <1>1, Multiples DEF Records
<1>3. (m_nSize - (sent - taken)) % R = 0
  BY <1>1, <1>2, Multiples
<1>4. DataLen = sent - taken /\ Space = m_nSize - (sent - taken)
  BY Lengths DEF Inv, Types
<1> QED
  BY <1>2, <1>3, <1>4 DEF PutLen, GetLen, Least

\* Calls for whole records keep counters and lengths whole.
LEMMA RecordsNext ==
    ASSUME SizeOK, NEW R \in Nat \ {0}, m_nSize % R = 0,
           \A n \in PutLens \cup GetLens : n % R = 0
    PROVE  Inv /\ Records(R) /\ [Next]_vars => Records(R)'
<1> SUFFICES ASSUME Inv, Records(R), [Next]_vars PROVE Records(R)'
  OBVIOUS
<1> USE DEF producer, consumer
<1>1. /\ sent \in Int /\ taken \in Int /\ plen \in Int /\ clen \in Int
      /\ cbuf \in Seq(Nat) /\ PutLens \subseteq Nat /\ GetLens \subseteq Nat
  BY UnlockQueueAssumption DEF Inv, Types
<1>2. 0 % R = 0
  OBVIOUS
<1>3. ASSUME NEW n \in PutLens, PutStart(n) PROVE Records(R)'
  <2>1. plen' % R = 0
    BY <1>1, <1>3, CutToRecords DEF PutStart
  <2> QED
    BY <1>3, <2>1 DEF PutStart, Records
<1>4. CASE PutCopy
  BY <1>4 DEF PutCopy, Records
<1>5. CASE PutStore
  <2>1. (sent + plen) % R = 0
    BY <1>1, Multiples DEF Records
  <2> QED
    BY <1>2, <1>5, <2>1 DEF PutStore, Records
<1>6. ASSUME NEW n \in GetLens, GetStart(n) PROVE Records(R)'
  <2>1. clen' % R = 0
    BY <1>1, <1>6, CutToRecords DEF GetStart
  <2> QED
    BY <1>6, <2>1 DEF GetStart, Records
<1>7. CASE GetCopy
  BY <1>7 DEF GetCopy, Records
<1>8. CASE GetStore
  <2>1. (taken + clen) % R = 0
    BY <1>1, Multiples DEF Records
  <2>2. CASE clen = 0
    BY <1>2, <1>8, <2>1, <2>2 DEF GetStore, Records
  <2>3. CASE clen # 0
    <3>1. got' = cbuf /\ Len(cbuf) = clen
      BY <1>8, <2>3 DEF GetStore, Inv, GetInv
    <3>2. \A k \in 1 .. Len(cbuf) : cbuf[k] - k = taken
      BY <1>1 DEF Inv, GetInv
    <3> QED
      BY <1>2, <1>8, <2>1, <3>1, <3>2 DEF GetStore, Records
  <2> QED
    BY <2>2, <2>3
<1>9. CASE UNCHANGED vars
  BY <1>9 DEF vars, Records
<1> QED
  BY <1>3, <1>4, <1>5, <1>6, <1>7, <1>8, <1>9 DEF Next, Producer, Consumer

\* For every length that is a power of two and divides the others
RecordsInv ==
    \A R \in PutLens \cup GetLens :
        R <= m_nSize /\ is_power_of_2(R) /\ (\A n \in PutLens \cup GetLens : n % R = 0)
            => Records(R)

\* Records are never torn: although Put cuts a length to the space there is, and
\* Get to the bytes there are, at whatever moment each reads the other's counter,
\* what a Get returns are whole records.
THEOREM RecordsWhole == ASSUME SizeOK, RecordsFit PROVE Spec => []WholeRecords
<1>1. Init => RecordsInv
  <2> SUFFICES ASSUME Init, NEW R \in PutLens \cup GetLens PROVE Records(R)
    BY DEF RecordsInv
  <2>1. R \in Nat \ {0}
    BY UnlockQueueAssumption
  <2> QED
    BY <2>1 DEF Init, Records
<1>2. Inv /\ RecordsInv /\ [Next]_vars => RecordsInv'
  <2> SUFFICES ASSUME Inv, RecordsInv, [Next]_vars, NEW R \in PutLens \cup GetLens,
                      R <= m_nSize, is_power_of_2(R),
                      \A n \in PutLens \cup GetLens : n % R = 0
               PROVE  Records(R)'
    BY DEF RecordsInv
  <2>1. R \in Nat \ {0} /\ m_nSize % R = 0
    BY UnlockQueueAssumption DEF RecordsFit
  <2> QED
    BY <2>1, RecordsNext DEF RecordsInv
<1>3. RecordsInv => WholeRecords
  BY DEF RecordsInv, Records, WholeRecords
<1> QED
  BY <1>1, <1>2, <1>3, Invariant, PTL DEF Spec

-----------------------------------------------------------------------------
(* The refinement *)

\* The queue of BoundedFifo, read out of the buffer
Mapped == [x \in 1 .. DataLen |-> m_pBuffer[Mask(m_nOut + x - 1)]]

\* The bytes from a + 1 to b
Numbers(a, b) == [x \in 1 .. b - a |-> a + x]

\* The bytes in the queue are those sent and not taken.
LEMMA MappedIs == ASSUME SizeOK PROVE Inv => Mapped = Numbers(taken, sent)
<1> SUFFICES ASSUME Inv PROVE Mapped = Numbers(taken, sent)
  OBVIOUS
<1>1. /\ sent \in Nat /\ taken \in Nat /\ pk \in Nat /\ m_nOut \in Int
      /\ Counting /\ Contents
  BY DEF Inv, Types
<1>2. DataLen = sent - taken
  BY <1>1, Lengths
<1>3. ASSUME NEW x \in 1 .. sent - taken
      PROVE  m_pBuffer[Mask(m_nOut + x - 1)] = taken + x
  <2>1. x - 1 \in Nat /\ m_nOut + x - 1 = m_nOut + (x - 1)
    BY <1>1
  <2>2. Mask(m_nOut + (x - 1)) = (taken + (x - 1)) % m_nSize
    BY <1>1, <2>1, MaskMod DEF Counting
  <2>3. taken + x \in taken + 1 .. sent + pk /\ (taken + x) - 1 = taken + (x - 1)
    BY <1>1
  <2>4. m_pBuffer[((taken + x) - 1) % m_nSize] = taken + x
    BY <1>1, <2>3 DEF Contents
  <2> QED
    BY <2>1, <2>2, <2>3, <2>4
<1> QED
  BY <1>2, <1>3 DEF Mapped, Numbers

\* What the buffer holds is what was put in, also after a step.
LEMMA MappedIsNext == ASSUME SizeOK PROVE Inv' => (Mapped = Numbers(taken, sent))'
<1>1. Inv => Mapped = Numbers(taken, sent)
  BY MappedIs
<1> QED
  BY <1>1, PTL

\* More numbers behind, and fewer in front
LEMMA MoreNumbers ==
    ASSUME NEW a \in Nat, NEW b \in Nat, a <= b, NEW n \in Nat
    PROVE  Numbers(a, b) \o [k \in 1 .. n |-> b + k] = Numbers(a, b + n)
<1> DEFINE s == Numbers(a, b)
           t == [k \in 1 .. n |-> b + k]
           u == Numbers(a, b + n)
<1>1. s \in Seq(Nat) /\ Len(s) = b - a /\ \A k \in 1 .. b - a : s[k] = a + k
  BY DEF Numbers
<1>2. t \in Seq(Nat) /\ Len(t) = n /\ \A k \in 1 .. n : t[k] = b + k
  OBVIOUS
<1>3. /\ u \in Seq(Nat) /\ Len(u) = b + n - a
      /\ \A k \in 1 .. b + n - a : u[k] = a + k
  BY DEF Numbers
<1> HIDE DEF s, t, u
<1>4. /\ s \o t \in Seq(Nat) /\ Len(s \o t) = Len(s) + Len(t)
      /\ \A k \in 1 .. Len(s) + Len(t) :
            (s \o t)[k] = IF k <= Len(s) THEN s[k] ELSE t[k - Len(s)]
  BY ONLY <1>1, <1>2, ConcatProperties
<1>5. ASSUME NEW k \in 1 .. b + n - a PROVE (s \o t)[k] = a + k
  <2>1. (s \o t)[k] = IF k <= b - a THEN s[k] ELSE t[k - (b - a)]
    BY ONLY <1>1, <1>2, <1>4, a \in Nat, b \in Nat, n \in Nat, a <= b, k \in 1 .. b + n - a
  <2>2. CASE k <= b - a
    BY <1>1, <2>1, <2>2
  <2>3. CASE k > b - a
    <3>1. t[k - (b - a)] = b + (k - (b - a))
      BY <1>2, <2>3
    <3> QED
      BY <2>1, <2>3, <3>1
  <2>4. k <= b - a \/ k > b - a
    OBVIOUS
  <2> QED
    BY ONLY <2>2, <2>3, <2>4
<1>6. Len(s \o t) = Len(u) /\ \A k \in 1 .. Len(u) : (s \o t)[k] = u[k]
  BY <1>1, <1>2, <1>3, <1>4, <1>5, SMTT(30)
<1>7. s \o t = u
  BY ONLY <1>3, <1>4, <1>6, SeqEqual
<1> QED
  BY <1>7 DEF s, t, u

\* The first n of the numbers after a, and what is left of them
LEMMA FewerNumbers ==
    ASSUME NEW a \in Nat, NEW b \in Nat, NEW n \in Nat, a + n <= b
    PROVE  /\ SubSeq(Numbers(a, b), 1, n) = Numbers(a, a + n)
           /\ SubSeq(Numbers(a, b), n + 1, b - a) = Numbers(a + n, b)
<1>1. /\ Numbers(a, b) \in Seq(Nat) /\ Len(Numbers(a, b)) = b - a
      /\ \A k \in 1 .. b - a : Numbers(a, b)[k] = a + k
  BY DEF Numbers
<1>2. SubSeq(Numbers(a, b), 1, n) = Numbers(a, a + n)
  BY <1>1 DEF Numbers
<1>3. SubSeq(Numbers(a, b), n + 1, b - a) = Numbers(a + n, b)
  BY <1>1 DEF Numbers
<1> QED
  BY <1>2, <1>3

\* The constructor gives the empty queue.
LEMMA InitRefines == ASSUME SizeOK PROVE Init => Fifo!Init
<1> SUFFICES ASSUME Init PROVE Fifo!Init
  OBVIOUS
<1>1. Inv /\ sent = 0 /\ taken = 0 /\ got = << >>
  BY InitInv DEF Init
<1>2. Mapped = Numbers(0, 0)
  BY <1>1, MappedIs
<1>3. Numbers(0, 0) = << >>
  BY DEF Numbers
<1> QED
  BY <1>1, <1>2, <1>3 DEF Fifo!Init, Mapped

\* Storing m_nIn accepts the bytes of a Put, storing m_nOut returns those of a
\* Get, and no other step is seen.
LEMMA NextRefines ==
    ASSUME SizeOK, Inv, Inv', [Next]_vars
    PROVE  [Fifo!Next]_(Fifo!vars)
<1> USE DEF producer, consumer
<1>1. /\ sent \in Nat /\ taken \in Nat /\ plen \in Nat /\ clen \in Nat
      /\ taken <= sent /\ sent - taken <= m_nSize /\ m_nSize \in Nat
      /\ sent + plen - taken <= m_nSize /\ taken + clen <= sent
  BY DEF Inv, Types, Counting, PutInv, GetInv, SizeOK
<1>2. Mapped = Numbers(taken, sent)
  BY MappedIs
<1>3. Mapped' = Numbers(taken', sent')
  BY MappedIsNext
<1>4. Len(Numbers(taken, sent)) = sent - taken
  BY <1>1 DEF Numbers
<1>5. ASSUME UNCHANGED <<sent, taken, got>> PROVE UNCHANGED Fifo!vars
  BY <1>2, <1>3, <1>5 DEF Fifo!vars, Mapped
<1>6. CASE PutStore
  <2>1. sent' = sent + plen /\ taken' = taken /\ got' = got
    BY <1>6 DEF PutStore
  <2>2. CASE plen = 0
    BY <1>1, <1>5, <2>1, <2>2
  <2>3. CASE plen # 0
    <3>1. plen \in 1 .. m_nSize - Len(Mapped)
      BY <1>1, <1>2, <1>4, <2>3
    <3>2. Mapped' = Mapped \o [k \in 1 .. plen |-> sent + k]
      BY <1>1, <1>2, <1>3, <2>1, MoreNumbers
    <3> QED
      BY <2>1, <3>1, <3>2 DEF Fifo!Next, Fifo!Enqueue, Mapped
  <2> QED
    BY <2>2, <2>3
<1>7. CASE GetStore
  <2>1. sent' = sent /\ taken' = taken + clen
    BY <1>7 DEF GetStore
  <2>2. CASE clen = 0
    <3>1. got' = got
      BY <1>7, <2>2 DEF GetStore
    <3> QED
      BY <1>1, <1>5, <2>1, <2>2, <3>1
  <2>3. CASE clen # 0
    <3>1. clen \in 1 .. Len(Mapped)
      BY <1>1, <1>2, <1>4, <2>3
    <3>2. got' = Numbers(taken, taken + clen)
      <4>1. got' = cbuf /\ Len(cbuf) = clen /\ cbuf \in Seq(Nat)
        BY <1>7, <2>3 DEF GetStore, Inv, GetInv, Types
      <4>2. \A k \in 1 .. Len(cbuf) : cbuf[k] = taken + k
        BY DEF Inv, GetInv
      <4> QED
        BY <1>1, <4>1, <4>2 DEF Numbers
    <3>3. /\ SubSeq(Numbers(taken, sent), 1, clen) = Numbers(taken, taken + clen)
          /\ SubSeq(Numbers(taken, sent), clen + 1, sent - taken)
               = Numbers(taken + clen, sent)
      <4>1. taken \in Nat /\ sent \in Nat /\ clen \in Nat /\ taken + clen <= sent
        BY <1>1
      <4> QED
        BY ONLY <4>1, FewerNumbers, Zenon
    <3>4. got' = SubSeq(Mapped, 1, clen)
      BY ONLY <1>2, <3>2, <3>3
    <3>5. Mapped' = SubSeq(Mapped, clen + 1, Len(Mapped))
      BY ONLY <1>2, <1>3, <1>4, <2>1, <3>3
    <3> QED
      BY <2>1, <3>1, <3>4, <3>5 DEF Fifo!Next, Fifo!Dequeue, Mapped
  <2> QED
    BY <2>2, <2>3
<1>8. ASSUME NEW n \in PutLens, PutStart(n) PROVE UNCHANGED <<sent, taken, got>>
  BY <1>8 DEF PutStart
<1>9. CASE PutCopy
  BY <1>5, <1>9 DEF PutCopy
<1>10. ASSUME NEW n \in GetLens, GetStart(n) PROVE UNCHANGED <<sent, taken, got>>
  BY <1>10 DEF GetStart
<1>11. CASE GetCopy
  BY <1>5, <1>11 DEF GetCopy
<1>12. CASE UNCHANGED vars
  BY <1>5, <1>12 DEF vars
<1> QED
  BY <1>5, <1>6, <1>7, <1>8, <1>9, <1>10, <1>11, <1>12 DEF Next, Producer, Consumer

\* The ring is a first-in first-out queue of m_nSize bytes, whatever the two
\* sides do between two accesses to what they share.
THEOREM Refinement == ASSUME SizeOK PROVE Spec => ImplementsFifo
<1>1. Init => Fifo!Init
  BY InitRefines
<1>2. Inv /\ Inv' /\ [Next]_vars => [Fifo!Next]_(Fifo!vars)
  BY NextRefines
<1>3. Spec => []Inv
  BY Invariant
<1> QED
  BY <1>1, <1>2, <1>3, PTL DEF Spec, ImplementsFifo, Fifo!Spec
=============================================================================
