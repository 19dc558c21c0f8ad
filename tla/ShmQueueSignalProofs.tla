------------------------ MODULE ShmQueueSignalProofs ------------------------
(***************************************************************************)
(* What ShmQueueSignal's runs check with two readers and a writer, for any *)
(* number of processes, slots, messages and deaths.                        *)
(***************************************************************************)
EXTENDS ShmQueueSignal, FiniteSetTheorems, TLAPS

(* Type correctness *)

\* Where a process has a slot of the table as its index
SlotPC == {"topoff", "shrink", "restoff", "clear", "fifo", "pid", "bit", "open", "lock",
           "count", "add", "reset", "write", "unlock", "sigoff"}
LoopPC == {"on", "select", "off", "consume", "get"}

\* What the index of a loop holds at a given place, beyond its type, and the number
\* of pids a reader has read
Index(l, c) ==
    /\ l = "top" => c.i \in -1 .. SQ_MAX_READER_PROC_NUM - 1
    /\ l = "rest" => c.i < SQ_MAX_READER_PROC_NUM
    /\ l \in SlotPC => c.i \in Slots
    /\ l \in {"claim", "notify", "look"} => c.i >= 0
    /\ l \in {"oldpid", "grow", "own"} => c.n \in Slots

\* A reader in its loop has a slot.
IndexOK ==
    /\ pc \in [Procs -> ReaderPC \cup WriterPC]
    /\ \A p \in Procs : Index(pc[p], loc[p])
    /\ \A r \in Readers : pc[r] \in LoopPC => sig_idx[r] \in Slots

TypeInv == TypeOK /\ IndexOK

\* The part of the types that a move of one process concerns
PlacesOK ==
    /\ \A r \in Readers : pc[r] \in ReaderPC
    /\ \A w \in Writers : pc[w] \in WriterPC
    /\ loc \in [Procs -> Locals]
    /\ IndexOK

\* What the type invariant says of one process
LEMMA Local ==
    ASSUME TypeInv, NEW p \in Procs
    PROVE  /\ Index(pc[p], loc[p]) /\ loc[p] \in Locals
           /\ p \in Readers => pc[p] \in ReaderPC /\ (pc[p] \in LoopPC => sig_idx[p] \in Slots)
           /\ p \in Writers => pc[p] \in WriterPC
           /\ p \in Readers \/ p \in Writers
BY DEF TypeInv, TypeOK, IndexOK, Procs

\* Where a process may go with its locals, and a reader with its slot
Fits(p, l, c) ==
    /\ c \in Locals /\ Index(l, c)
    /\ p \in Readers => l \in ReaderPC /\ (l \in LoopPC => sig_idx[p] \in Slots)
    /\ p \in Writers => l \in WriterPC

\* A process's locals fit where it goes if its new index does.
LEMMA FitsTurn ==
    ASSUME NEW p \in Procs, NEW c \in Locals, NEW s \in -2 .. SQ_MAX_READER_PROC_NUM,
           NEW l, l \notin LoopPC \cup {"oldpid", "grow", "own"},
           l = "top" => s \in -1 .. SQ_MAX_READER_PROC_NUM - 1,
           l = "rest" => s < SQ_MAX_READER_PROC_NUM,
           l \in SlotPC => s \in Slots,
           l \in {"claim", "notify", "look"} => s >= 0,
           p \in Readers => l \in ReaderPC, p \in Writers => l \in WriterPC
    PROVE  Fits(p, l, [c EXCEPT !.i = s])
<1>1. [c EXCEPT !.i = s] \in Locals /\ [c EXCEPT !.i = s].i = s
  BY DEF Locals
<1> QED
  BY <1>1 DEF Fits, Index

\* A process that goes to a place which its locals fit leaves the others alone.
LEMMA Moves ==
    ASSUME TypeInv, UNCHANGED sig_idx, NEW p \in Procs, NEW l, NEW c, Fits(p, l, c),
           Goto(p, l), loc' = [loc EXCEPT ![p] = c]
    PROVE  PlacesOK'
BY DEF TypeInv, TypeOK, IndexOK, PlacesOK, Fits, Goto, Procs, ReaderPC, WriterPC

\* A process that goes to a place its locals fit keeps the places right.
LEMMA Goes ==
    ASSUME TypeInv, UNCHANGED <<sig_idx, loc>>, NEW p \in Procs, NEW l,
           Fits(p, l, loc[p]), Goto(p, l)
    PROVE  PlacesOK'
<1>1. loc' = [loc EXCEPT ![p] = loc[p]]
  BY DEF TypeInv, TypeOK
<1> QED
  BY <1>1, Moves

\* A process that begins afresh fits anywhere.
LEMMA Forgets ==
    ASSUME TypeInv, UNCHANGED sig_idx, NEW p \in Procs, NEW l, Goto(p, l), Forget(p),
           p \in Readers => l \in ReaderPC /\ (l \in LoopPC => sig_idx[p] \in Slots),
           p \in Writers => l \in WriterPC
    PROVE  PlacesOK'
<1>1. Fresh \in Locals /\ Index(l, Fresh)
  BY SignalAssumption DEF Fresh, Locals, Index, Slots
<1> QED
  BY <1>1, Moves DEF Fits, Forget

\* So does one that turns a loop once more.
LEMMA Turns ==
    ASSUME TypeInv, UNCHANGED sig_idx, NEW p \in Procs, NEW l, NEW s,
           Fits(p, l, [loc[p] EXCEPT !.i = s]), Turn(p, l, s)
    PROVE  PlacesOK'
<1>1. loc' = [loc EXCEPT ![p] = [loc[p] EXCEPT !.i = s]]
  BY DEF Turn
<1> QED
  BY <1>1, Moves DEF Turn

\* A writer that has signalled, or given up, goes on where it was called from.
LEMMA Answers ==
    ASSUME TypeInv, UNCHANGED sig_idx, NEW w \in Writers, pc[w] \in SlotPC, Signalled(w)
    PROVE  PlacesOK'
<1>1. w \in Procs /\ Fits(w, pc[w], loc[w])
  BY Local DEF Fits, Procs
<1>2. CASE Turn(w, "notify", I(w) + 1)
  <2>1. Fits(w, "notify", [loc[w] EXCEPT !.i = I(w) + 1])
    BY SignalAssumption, <1>1 DEF Fits, Index, SlotPC, LoopPC, Slots, Locals, WriterPC, I
  <2> QED
    BY <1>1, <1>2, <2>1, Turns
<1>3. CASE Goto(w, "sigoff") /\ UNCHANGED loc
  <2>1. Fits(w, "sigoff", loc[w])
    BY SignalAssumption, <1>1 DEF Fits, Index, SlotPC, LoopPC, Slots, Locals, WriterPC, I
  <2> QED
    BY <1>1, <1>3, <2>1, Goes
<1> QED
  BY <1>2, <1>3 DEF Signalled

\* The part that the shared variables concern
SharedOK ==
    /\ pidnum \in 0 .. SQ_MAX_READER_PROC_NUM
    /\ pidset \in [Slots -> Readers \cup {NoPid}]
    /\ sigmask \subseteq Slots /\ siglock \subseteq Slots /\ signr \in [Slots -> Nat]
    /\ used \in 0 .. MaxUsed /\ pipe \in [Slots -> 0 .. PipeSize] /\ hup \subseteq Slots
    /\ alive \subseteq Readers /\ deaths \in 0 .. MaxDeaths /\ crashes \in 0 .. MaxCrashes
    /\ sig_idx \in [Readers -> Slots \cup {-1}]
    /\ poll_fdset \in [Writers -> SUBSET Slots] /\ fifo_times \in [Writers -> SUBSET Slots]
    /\ asleep \in [Writers -> SUBSET Readers] /\ missed \subseteq Slots /\ woken \subseteq Slots

\* The types are those of the segment and those of the places.
LEMMA Parts == TypeInv <=> SharedOK /\ PlacesOK
BY Zenon DEF TypeInv, TypeOK, SharedOK, PlacesOK, IndexOK

\* The same after a step.
LEMMA PartsNext == ASSUME SharedOK', PlacesOK' PROVE TypeInv'
BY Zenon DEF TypeInv, TypeOK, SharedOK, PlacesOK, IndexOK

\* A process reads or writes.
LEMMA NotBoth == \A r \in Readers : r \notin Writers
BY SignalAssumption

\* At first the table is empty and no process is born.
LEMMA InitType == Init => TypeInv
<1> SUFFICES ASSUME Init PROVE SharedOK /\ PlacesOK
  BY Parts
<1> USE SignalAssumption DEF Init
<1>1. SharedOK
  BY DEF SharedOK, Slots
<1>2. PlacesOK
  BY DEF PlacesOK, IndexOK, Index, SlotPC, LoopPC, Procs, ReaderPC, WriterPC, Locals, Fresh
<1> QED
  BY <1>1, <1>2

\* No step of a process that registers, sleeps, signals or dies breaks a type.
LEMMA NextType == TypeInv /\ [Next]_vars => TypeInv'
<1> SUFFICES ASSUME TypeInv, [Next]_vars
             PROVE  TypeInv'
  OBVIOUS
<1> USE SignalAssumption DEF At, I
<1>1. ASSUME NEW p \in Procs, VerifyStart(p)
      PROVE  TypeInv'
  <2>1. p \in Procs /\ SharedOK
    BY Parts DEF Procs
  <2>2. Fits(p, pc[p], loc[p])
    BY <2>1, Local DEF Fits
  <2>a. pc[p] = "verify"
    BY <1>1 DEF VerifyStart
  <2>3. SharedOK'
    <3>1. UNCHANGED <<table, sigmask, locks, used, pipes, alive, sig_idx, handles, history, ends>>
      BY <1>1 DEF VerifyStart, table, locks, pipes, handles, history, ends
    <3> QED
      BY <3>1, <2>1 DEF SharedOK, table, locks, pipes, handles, history, ends
  <2>4. PlacesOK'
    <3>1. CASE Turn(p, "top", pidnum - 1) /\ UNCHANGED sig_idx
      <4>1. pidnum - 1 \in -1 .. SQ_MAX_READER_PROC_NUM - 1
        BY <2>1, <2>2, <3>1, <2>a DEF SharedOK, Fits, Index, SlotPC, Slots, Locals
      <4>2. pidnum - 1 \in -2 .. SQ_MAX_READER_PROC_NUM /\ loc[p] \in Locals
        BY <2>2, <4>1 DEF Slots, Fits
      <4>3. Fits(p, "top", [loc[p] EXCEPT !.i = pidnum - 1])
        BY <2>1, <4>1, <4>2, FitsTurn, NotBoth DEF SlotPC, LoopPC, ReaderPC, WriterPC, VerifyPC, JoinPC, Slots
      <4> QED
        BY <2>1, <3>1, <4>3, Turns
    <3> QED
      BY <1>1, <3>1 DEF VerifyStart
  <2> QED
    BY <2>3, <2>4, PartsNext
<1>2. ASSUME NEW p \in Procs, VerifyTop(p)
      PROVE  TypeInv'
  <2>1. p \in Procs /\ SharedOK
    BY Parts DEF Procs
  <2>2. Fits(p, pc[p], loc[p])
    BY <2>1, Local DEF Fits
  <2>a. pc[p] = "top"
    BY <1>2 DEF VerifyTop
  <2>3. SharedOK'
    <3>1. UNCHANGED <<table, sigmask, locks, used, pipes, alive, sig_idx, handles, history, ends>>
      BY <1>2 DEF VerifyTop, table, locks, pipes, handles, history, ends
    <3> QED
      BY <3>1, <2>1 DEF SharedOK, table, locks, pipes, handles, history, ends
  <2>4. PlacesOK'
    <3>1. CASE I(p) >= 0 /\ Goto(p, "topoff") /\ UNCHANGED <<loc, sig_idx>>
      <4>1. Fits(p, "topoff", loc[p])
        BY <2>1, <2>2, <3>1, <2>a DEF SharedOK, Fits, Index, SlotPC, LoopPC, Slots, Locals, ReaderPC, WriterPC, VerifyPC, JoinPC
      <4> QED
        BY <2>1, <3>1, <4>1, Goes
    <3>2. CASE Turn(p, "rest", I(p) - 1) /\ UNCHANGED sig_idx
      <4>1. I(p) - 1 \in -2 .. SQ_MAX_READER_PROC_NUM - 1
        BY <2>1, <2>2, <3>2, <2>a DEF SharedOK, Fits, Index, SlotPC, Slots, Locals
      <4>2. I(p) - 1 \in -2 .. SQ_MAX_READER_PROC_NUM /\ loc[p] \in Locals
        BY <2>2, <4>1 DEF Slots, Fits
      <4>3. Fits(p, "rest", [loc[p] EXCEPT !.i = I(p) - 1])
        BY <2>1, <4>1, <4>2, FitsTurn, NotBoth DEF SlotPC, LoopPC, ReaderPC, WriterPC, VerifyPC, JoinPC, Slots
      <4> QED
        BY <2>1, <3>2, <4>3, Turns
    <3> QED
      BY <1>2, <3>1, <3>2 DEF VerifyTop
  <2> QED
    BY <2>3, <2>4, PartsNext
<1>3. ASSUME NEW p \in Procs, VerifyTopOff(p)
      PROVE  TypeInv'
  <2>1. p \in Procs /\ SharedOK
    BY Parts DEF Procs
  <2>2. Fits(p, pc[p], loc[p])
    BY <2>1, Local DEF Fits
  <2>a. pc[p] = "topoff"
    BY <1>3 DEF VerifyTopOff
  <2>3. SharedOK'
    <3>1. sigmask' \subseteq Slots
      BY <1>3, <2>1, <2>2 DEF VerifyTopOff, WithoutBit, SharedOK, Fits, Index, SlotPC, LoopPC, Slots
    <3>2. UNCHANGED <<table, locks, used, pipes, alive, sig_idx, handles, history, ends>>
      BY <1>3 DEF VerifyTopOff, WithoutBit, table, locks, pipes, handles, history, ends
    <3> QED
      BY <3>1, <3>2, <2>1 DEF SharedOK, table, locks, pipes, handles, history, ends
  <2>4. PlacesOK'
    <3>1. CASE Goto(p, "shrink") /\ UNCHANGED <<loc, sig_idx>>
      <4>1. Fits(p, "shrink", loc[p])
        BY <2>1, <2>2, <3>1, <2>a DEF SharedOK, Fits, Index, SlotPC, LoopPC, Slots, Locals, ReaderPC, WriterPC, VerifyPC, JoinPC
      <4> QED
        BY <2>1, <3>1, <4>1, Goes
    <3> QED
      BY <1>3, <3>1 DEF VerifyTopOff, WithoutBit
  <2> QED
    BY <2>3, <2>4, PartsNext
<1>4. ASSUME NEW p \in Procs, VerifyShrink(p)
      PROVE  TypeInv'
  <2>1. p \in Procs /\ SharedOK
    BY Parts DEF Procs
  <2>2. Fits(p, pc[p], loc[p])
    BY <2>1, Local DEF Fits
  <2>a. pc[p] = "shrink"
    BY <1>4 DEF VerifyShrink
  <2>b. I(p) \in Slots
    BY <2>1, <2>2, <2>a DEF Fits, Index, SlotPC
  <2>3. SharedOK'
    <3>1. pidnum' \in 0 .. SQ_MAX_READER_PROC_NUM
      <4>1. I(p) \in 0 .. SQ_MAX_READER_PROC_NUM /\ pidnum \in 0 .. SQ_MAX_READER_PROC_NUM
        BY <2>1, <2>b DEF SharedOK, Slots
      <4> QED
        BY <1>4, <4>1 DEF VerifyShrink, Removed
    <3>2. UNCHANGED <<pidset, sigmask, locks, used, pipes, alive, sig_idx, handles, history, ends>>
      BY <1>4 DEF VerifyShrink, Removed, table, locks, pipes, handles, history, ends
    <3> QED
      BY <3>1, <3>2, <2>1 DEF SharedOK, table, locks, pipes, handles, history, ends
  <2>4. PlacesOK'
    <3>1. CASE Turn(p, "top", I(p) - 1) /\ UNCHANGED sig_idx
      <4>1. I(p) - 1 \in -1 .. SQ_MAX_READER_PROC_NUM - 1
        BY <2>b DEF Slots
      <4>2. I(p) - 1 \in -2 .. SQ_MAX_READER_PROC_NUM /\ loc[p] \in Locals
        BY <2>2, <4>1 DEF Slots, Fits
      <4>3. Fits(p, "top", [loc[p] EXCEPT !.i = I(p) - 1])
        BY <2>1, <4>1, <4>2, FitsTurn, NotBoth DEF SlotPC, LoopPC, ReaderPC, WriterPC, VerifyPC, JoinPC, Slots
      <4> QED
        BY <2>1, <3>1, <4>3, Turns
    <3>2. CASE Turn(p, "rest", I(p) - 1) /\ UNCHANGED sig_idx
      <4>1. I(p) - 1 \in -2 .. SQ_MAX_READER_PROC_NUM - 1
        BY <2>b DEF Slots
      <4>2. I(p) - 1 \in -2 .. SQ_MAX_READER_PROC_NUM /\ loc[p] \in Locals
        BY <2>2, <4>1 DEF Slots, Fits
      <4>3. Fits(p, "rest", [loc[p] EXCEPT !.i = I(p) - 1])
        BY <2>1, <4>1, <4>2, FitsTurn, NotBoth DEF SlotPC, LoopPC, ReaderPC, WriterPC, VerifyPC, JoinPC, Slots
      <4> QED
        BY <2>1, <3>2, <4>3, Turns
    <3> QED
      BY <1>4, <3>1, <3>2 DEF VerifyShrink, Removed
  <2> QED
    BY <2>3, <2>4, PartsNext
<1>5. ASSUME NEW p \in Procs, VerifyRest(p)
      PROVE  TypeInv'
  <2>1. p \in Procs /\ SharedOK
    BY Parts DEF Procs
  <2>2. Fits(p, pc[p], loc[p])
    BY <2>1, Local DEF Fits
  <2>a. pc[p] = "rest"
    BY <1>5 DEF VerifyRest
  <2>3. SharedOK'
    <3>1. UNCHANGED <<table, sigmask, locks, used, pipes, alive, sig_idx, handles, history, ends>>
      BY <1>5 DEF VerifyRest, table, locks, pipes, handles, history, ends
    <3> QED
      BY <3>1, <2>1 DEF SharedOK, table, locks, pipes, handles, history, ends
  <2>4. PlacesOK'
    <3>1. CASE I(p) >= 0 /\ Goto(p, "restoff") /\ loc' = [loc EXCEPT ![p] = [loc[p] EXCEPT !.old = pidset[I(p)]]] /\ UNCHANGED sig_idx
      <4>1. Fits(p, "restoff", [loc[p] EXCEPT !.old = pidset[I(p)]])
        <5>1. I(p) \in Slots
          BY <2>2, <2>a, <3>1 DEF Fits, Index, Slots, Locals
        <5>2. pidset[I(p)] \in Readers \cup {NoPid}
          BY <2>1, <5>1 DEF SharedOK
        <5>3. [loc[p] EXCEPT !.old = pidset[I(p)]] \in Locals
          BY <2>2, <5>2 DEF Fits, Locals
        <5> QED
          BY <2>2, <5>1, <5>3 DEF Fits, Index, LoopPC, Locals, ReaderPC, WriterPC, VerifyPC
      <4> QED
        BY <2>1, <3>1, <4>1, Moves
    <3>2. CASE I(p) >= 0 /\ Turn(p, "rest", I(p) - 1) /\ UNCHANGED sig_idx
      <4>1. I(p) - 1 \in -2 .. SQ_MAX_READER_PROC_NUM - 1
        BY <2>1, <2>2, <3>2, <2>a, SMTT(30) DEF SharedOK, Fits, Index, SlotPC, Slots, Locals
      <4>2. I(p) - 1 \in -2 .. SQ_MAX_READER_PROC_NUM /\ loc[p] \in Locals
        BY <2>2, <4>1 DEF Slots, Fits
      <4>3. Fits(p, "rest", [loc[p] EXCEPT !.i = I(p) - 1])
        BY <2>1, <4>1, <4>2, FitsTurn, NotBoth DEF SlotPC, LoopPC, ReaderPC, WriterPC, VerifyPC, JoinPC, Slots
      <4> QED
        BY <2>1, <3>2, <4>3, Turns
    <3>3. ASSUME NEW l, l = (IF p \in Readers THEN "scan" ELSE "notify"), Goto(p, l),
                 loc' = [loc EXCEPT ![p] = [loc[p] EXCEPT !.i = 0, !.old = NoPid]], UNCHANGED sig_idx
          PROVE  PlacesOK'
      <4>1. Fits(p, l, [loc[p] EXCEPT !.i = 0, !.old = NoPid])
        <5> DEFINE c == [loc[p] EXCEPT !.i = 0, !.old = NoPid]
        <5>1. loc[p] \in Locals
          BY <2>2 DEF Fits
        <5>a. 0 \in -2 .. SQ_MAX_READER_PROC_NUM
          OBVIOUS
        <5>b. [loc[p] EXCEPT !.i = 0] \in Locals
          BY <5>1, <5>a DEF Locals
        <5>2. c \in Locals
          BY <5>b DEF Locals
        <5>3. c.i = 0
          BY <5>1 DEF Locals
        <5>4. Index(l, c)
          BY <3>3, <5>3 DEF Index, SlotPC
        <5> QED
          BY <2>1, <3>3, <5>2, <5>4, NotBoth DEF Fits, LoopPC, ReaderPC, JoinPC, WriterPC, Procs
      <4> QED
        BY <2>1, <3>3, <4>1, Moves
    <3>4. UNCHANGED sig_idx
      BY <1>5 DEF VerifyRest
    <3>5. (\E l : l = (IF p \in Readers THEN "scan" ELSE "notify") /\ Goto(p, l)
             /\ loc' = [loc EXCEPT ![p] = [loc[p] EXCEPT !.i = 0, !.old = NoPid]])
          => PlacesOK'
      BY <3>3, <3>4
    <3> QED
      BY <1>5, <3>1, <3>2, <3>4, <3>5 DEF VerifyRest
  <2> QED
    BY <2>3, <2>4, PartsNext
<1>6. ASSUME NEW p \in Procs, VerifyRestOff(p)
      PROVE  TypeInv'
  <2>1. p \in Procs /\ SharedOK
    BY Parts DEF Procs
  <2>2. Fits(p, pc[p], loc[p])
    BY <2>1, Local DEF Fits
  <2>a. pc[p] = "restoff"
    BY <1>6 DEF VerifyRestOff
  <2>3. SharedOK'
    <3>1. sigmask' \subseteq Slots
      BY <1>6, <2>1, <2>2 DEF VerifyRestOff, WithoutBit, SharedOK, Fits, Index, SlotPC, LoopPC, Slots
    <3>2. UNCHANGED <<table, locks, used, pipes, alive, sig_idx, handles, history, ends>>
      BY <1>6 DEF VerifyRestOff, WithoutBit, table, locks, pipes, handles, history, ends
    <3> QED
      BY <3>1, <3>2, <2>1 DEF SharedOK, table, locks, pipes, handles, history, ends
  <2>4. PlacesOK'
    <3>1. CASE Goto(p, "clear") /\ UNCHANGED <<loc, sig_idx>>
      <4>1. Fits(p, "clear", loc[p])
        BY <2>1, <2>2, <3>1, <2>a DEF SharedOK, Fits, Index, SlotPC, LoopPC, Slots, Locals, ReaderPC, WriterPC, VerifyPC, JoinPC
      <4> QED
        BY <2>1, <3>1, <4>1, Goes
    <3> QED
      BY <1>6, <3>1 DEF VerifyRestOff, WithoutBit
  <2> QED
    BY <2>3, <2>4, PartsNext
<1>7. ASSUME NEW p \in Procs, VerifyClear(p)
      PROVE  TypeInv'
  <2>1. p \in Procs /\ SharedOK
    BY Parts DEF Procs
  <2>2. Fits(p, pc[p], loc[p])
    BY <2>1, Local DEF Fits
  <2>a. pc[p] = "clear"
    BY <1>7 DEF VerifyClear
  <2>b. I(p) \in Slots
    BY <2>1, <2>2, <2>a DEF Fits, Index, SlotPC
  <2>3. SharedOK'
    <3>1. pidset' \in [Slots -> Readers \cup {NoPid}]
      BY <1>7, <2>1, <2>b DEF VerifyClear, SharedOK
    <3>2. UNCHANGED <<pidnum, sigmask, locks, used, pipes, alive, sig_idx, handles, history, ends>>
      BY <1>7 DEF VerifyClear, table, locks, pipes, handles, history, ends
    <3> QED
      BY <3>1, <3>2, <2>1 DEF SharedOK, table, locks, pipes, handles, history, ends
  <2>4. PlacesOK'
    <3>1. CASE Turn(p, "rest", I(p) - 1) /\ UNCHANGED sig_idx
      <4>1. I(p) - 1 \in -2 .. SQ_MAX_READER_PROC_NUM - 1
        BY <2>b DEF Slots
      <4>2. I(p) - 1 \in -2 .. SQ_MAX_READER_PROC_NUM /\ loc[p] \in Locals
        BY <2>2, <4>1 DEF Slots, Fits
      <4>3. Fits(p, "rest", [loc[p] EXCEPT !.i = I(p) - 1])
        BY <2>1, <4>1, <4>2, FitsTurn, NotBoth DEF SlotPC, LoopPC, ReaderPC, WriterPC, VerifyPC, JoinPC, Slots
      <4> QED
        BY <2>1, <3>1, <4>3, Turns
    <3> QED
      BY <1>7, <3>1 DEF VerifyClear
  <2> QED
    BY <2>3, <2>4, PartsNext
<1>8. ASSUME NEW r \in Readers, Start(r)
      PROVE  TypeInv'
  <2>1. r \in Procs /\ SharedOK
    BY Parts DEF Procs
  <2>2. Fits(r, pc[r], loc[r])
    BY <2>1, Local DEF Fits
  <2>3. SharedOK'
    <3>1. alive' \subseteq Readers
      BY <1>8, <2>1, <2>2 DEF Start, SharedOK, Fits, Index, SlotPC, LoopPC, Slots
    <3>2. UNCHANGED <<table, sigmask, locks, used, pipes, sig_idx, handles, history, ends>>
      BY <1>8 DEF Start, table, locks, pipes, handles, history, ends
    <3> QED
      BY <3>1, <3>2, <2>1 DEF SharedOK, table, locks, pipes, handles, history, ends
  <2>4. PlacesOK'
    <3>1. CASE Goto(r, "verify") /\ UNCHANGED <<loc, sig_idx>>
      <4>1. Fits(r, "verify", loc[r])
        BY <2>1, <2>2, <3>1 DEF SharedOK, Fits, Index, SlotPC, LoopPC, Slots, Locals, ReaderPC, WriterPC, VerifyPC, JoinPC
      <4> QED
        BY <2>1, <3>1, <4>1, Goes
    <3> QED
      BY <1>8, <3>1 DEF Start
  <2> QED
    BY <2>3, <2>4, PartsNext
<1>9. ASSUME NEW r \in Readers, Scan(r)
      PROVE  TypeInv'
  <2>1. r \in Procs /\ SharedOK
    BY Parts DEF Procs
  <2>2. Fits(r, pc[r], loc[r])
    BY <2>1, Local DEF Fits
  <2>a. pc[r] = "scan"
    BY <1>9 DEF Scan
  <2>3. SharedOK'
    <3>1. UNCHANGED <<table, sigmask, locks, used, pipes, alive, sig_idx, handles, history, ends>>
      BY <1>9 DEF Scan, table, locks, pipes, handles, history, ends
    <3> QED
      BY <3>1, <2>1 DEF SharedOK, table, locks, pipes, handles, history, ends
  <2>4. PlacesOK'
    <3>1. ASSUME NEW s \in Slots, Turn(r, "fifo", s), UNCHANGED sig_idx PROVE PlacesOK'
      <4>1. Fits(r, "fifo", [loc[r] EXCEPT !.i = s])
        BY <1>9, <2>1, <2>2, <3>1 DEF Scan, Fits, Index, SlotPC, LoopPC, Slots, Locals, ReaderPC, WriterPC, VerifyPC, JoinPC
      <4> QED
        BY <2>1, <3>1, <4>1, Turns
    <3>2. CASE Turn(r, "claim", 0) /\ UNCHANGED sig_idx
      <4>1. 0 \in 0 .. SQ_MAX_READER_PROC_NUM
        BY <2>1, <2>2, <3>2, <2>a DEF SharedOK, Fits, Index, SlotPC, Slots, Locals
      <4>2. 0 \in -2 .. SQ_MAX_READER_PROC_NUM /\ loc[r] \in Locals
        BY <2>2, <4>1 DEF Slots, Fits
      <4>3. Fits(r, "claim", [loc[r] EXCEPT !.i = 0])
        BY <2>1, <4>1, <4>2, FitsTurn, NotBoth DEF SlotPC, LoopPC, ReaderPC, WriterPC, VerifyPC, JoinPC, Slots
      <4> QED
        BY <2>1, <3>2, <4>3, Turns
    <3> QED
      <4>1. UNCHANGED sig_idx
        BY <1>9 DEF Scan
      <4> QED
        <5>1. CASE \E s \in Slots : Turn(r, "fifo", s)
          BY <3>1, <4>1, <5>1
        <5>2. CASE Turn(r, "claim", 0)
          BY <3>2, <4>1, <5>2
        <5>3. (\E s \in Slots : Turn(r, "fifo", s)) \/ Turn(r, "claim", 0)
          BY <1>9 DEF Scan, Turn, Goto
        <5> QED
          BY <5>1, <5>2, <5>3
  <2> QED
    BY <2>3, <2>4, PartsNext
<1>10. ASSUME NEW r \in Readers, Claim(r)
      PROVE  TypeInv'
  <2>1. r \in Procs /\ SharedOK
    BY Parts DEF Procs
  <2>2. Fits(r, pc[r], loc[r])
    BY <2>1, Local DEF Fits
  <2>a. pc[r] = "claim"
    BY <1>10 DEF Claim
  <2>b. I(r) \in 0 .. SQ_MAX_READER_PROC_NUM
    BY <2>1, <2>2, <2>a DEF Fits, Index, Locals
  <2>3. SharedOK'
    <3>1. pidset' \in [Slots -> Readers \cup {NoPid}]
      <4>1. r \in Readers \cup {NoPid} /\ pidset \in [Slots -> Readers \cup {NoPid}]
        BY <2>1 DEF SharedOK
      <4>2. UNCHANGED pidset \/ pidset' = [pidset EXCEPT ![I(r)] = r]
        BY <1>10 DEF Claim
      <4> QED
        BY <4>1, <4>2
    <3>2. UNCHANGED <<pidnum, sigmask, locks, used, pipes, alive, sig_idx, handles, history, ends>>
      BY <1>10 DEF Claim, table, locks, pipes, handles, history, ends
    <3> QED
      BY <3>1, <3>2, <2>1 DEF SharedOK, table, locks, pipes, handles, history, ends
  <2>4. PlacesOK'
    <3>1. CASE I(r) < pidnum /\ Goto(r, "fifo") /\ UNCHANGED <<loc, sig_idx>>
      <4>1. Fits(r, "fifo", loc[r])
        BY <2>1, <2>2, <3>1, <2>a, <2>b DEF SharedOK, Fits, Index, SlotPC, LoopPC, Slots, Locals, ReaderPC, WriterPC, VerifyPC, JoinPC
      <4> QED
        BY <2>1, <3>1, <4>1, Goes
    <3>2. CASE I(r) < pidnum /\ Turn(r, "claim", I(r) + 1) /\ UNCHANGED sig_idx
      <4>1. I(r) + 1 \in 0 .. SQ_MAX_READER_PROC_NUM
        BY <2>1, <2>2, <3>2, <2>a, <2>b DEF SharedOK, Fits, Index, SlotPC, Slots, Locals
      <4>2. I(r) + 1 \in -2 .. SQ_MAX_READER_PROC_NUM /\ loc[r] \in Locals
        BY <2>2, <4>1 DEF Slots, Fits
      <4>3. Fits(r, "claim", [loc[r] EXCEPT !.i = I(r) + 1])
        BY <2>1, <4>1, <4>2, FitsTurn, NotBoth DEF SlotPC, LoopPC, ReaderPC, WriterPC, VerifyPC, JoinPC, Slots
      <4> QED
        BY <2>1, <3>2, <4>3, Turns
    <3>3. CASE Goto(r, "extend") /\ UNCHANGED <<loc, sig_idx>>
      <4>1. Fits(r, "extend", loc[r])
        BY <2>1, <2>2, <3>3, <2>a, <2>b DEF SharedOK, Fits, Index, SlotPC, LoopPC, Slots, Locals, ReaderPC, WriterPC, VerifyPC, JoinPC
      <4> QED
        BY <2>1, <3>3, <4>1, Goes
    <3> QED
      BY <1>10, <3>1, <3>2, <3>3 DEF Claim
  <2> QED
    BY <2>3, <2>4, PartsNext
<1>11. ASSUME NEW r \in Readers, Extend(r)
      PROVE  TypeInv'
  <2>1. r \in Procs /\ SharedOK
    BY Parts DEF Procs
  <2>2. Fits(r, pc[r], loc[r])
    BY <2>1, Local DEF Fits
  <2>a. pc[r] = "extend"
    BY <1>11 DEF Extend
  <2>3. SharedOK'
    <3>1. UNCHANGED <<table, sigmask, locks, used, pipes, alive, sig_idx, handles, history, ends>>
      BY <1>11 DEF Extend, table, locks, pipes, handles, history, ends
    <3> QED
      BY <3>1, <2>1 DEF SharedOK, table, locks, pipes, handles, history, ends
  <2>4. PlacesOK'
    <3>1. CASE Goto(r, "failed") /\ UNCHANGED <<loc, sig_idx>>
      <4>1. Fits(r, "failed", loc[r])
        BY <2>1, <2>2, <3>1, <2>a DEF SharedOK, Fits, Index, SlotPC, LoopPC, Slots, Locals, ReaderPC, WriterPC, VerifyPC, JoinPC
      <4> QED
        BY <2>1, <3>1, <4>1, Goes
    <3>2. CASE ~(pidnum >= SQ_MAX_READER_PROC_NUM) /\ Goto(r, "oldpid") /\ loc' = [loc EXCEPT ![r] = [loc[r] EXCEPT !.n = pidnum]] /\ UNCHANGED sig_idx
      <4>1. Fits(r, "oldpid", [loc[r] EXCEPT !.n = pidnum])
        <5>1. pidnum \in Slots
          BY <2>1, <3>2 DEF SharedOK, Slots
        <5>2. [loc[r] EXCEPT !.n = pidnum] \in Locals /\ [loc[r] EXCEPT !.n = pidnum].n = pidnum
          BY <2>2, <5>1 DEF Fits, Locals, Slots
        <5> QED
          BY <5>1, <5>2, NotBoth DEF Fits, Index, SlotPC, LoopPC, ReaderPC, JoinPC
      <4> QED
        BY <2>1, <3>2, <4>1, Moves
    <3> QED
      BY <1>11, <3>1, <3>2 DEF Extend
  <2> QED
    BY <2>3, <2>4, PartsNext
<1>12. ASSUME NEW r \in Readers, OldPid(r)
      PROVE  TypeInv'
  <2>1. r \in Procs /\ SharedOK
    BY Parts DEF Procs
  <2>2. Fits(r, pc[r], loc[r])
    BY <2>1, Local DEF Fits
  <2>a. pc[r] = "oldpid"
    BY <1>12 DEF OldPid
  <2>3. SharedOK'
    <3>1. UNCHANGED <<table, sigmask, locks, used, pipes, alive, sig_idx, handles, history, ends>>
      BY <1>12 DEF OldPid, table, locks, pipes, handles, history, ends
    <3> QED
      BY <3>1, <2>1 DEF SharedOK, table, locks, pipes, handles, history, ends
  <2>4. PlacesOK'
    <3>1. CASE Goto(r, "grow") /\ loc' = [loc EXCEPT ![r] = [loc[r] EXCEPT !.old = pidset[loc[r].n]]] /\ UNCHANGED sig_idx
      <4>1. Fits(r, "grow", [loc[r] EXCEPT !.old = pidset[loc[r].n]])
        BY <2>1, <2>2, <3>1, <2>a DEF SharedOK, Fits, Index, SlotPC, LoopPC, Slots, Locals, ReaderPC, WriterPC, VerifyPC, JoinPC
      <4> QED
        BY <2>1, <3>1, <4>1, Moves
    <3> QED
      BY <1>12, <3>1 DEF OldPid
  <2> QED
    BY <2>3, <2>4, PartsNext
<1>13. ASSUME NEW r \in Readers, Grow(r)
      PROVE  TypeInv'
  <2>1. r \in Procs /\ SharedOK
    BY Parts DEF Procs
  <2>2. Fits(r, pc[r], loc[r])
    BY <2>1, Local DEF Fits
  <2>a. pc[r] = "grow"
    BY <1>13 DEF Grow
  <2>b. loc[r].n \in Slots
    BY <2>1, <2>2, <2>a DEF Fits, Index
  <2>3. SharedOK'
    <3>1. pidnum' \in 0 .. SQ_MAX_READER_PROC_NUM
      <4>1. loc[r].n + 1 \in 0 .. SQ_MAX_READER_PROC_NUM /\ pidnum \in 0 .. SQ_MAX_READER_PROC_NUM
        BY <2>1, <2>b DEF SharedOK, Slots
      <4> QED
        BY <1>13, <4>1 DEF Grow
    <3>2. UNCHANGED <<pidset, sigmask, locks, used, pipes, alive, sig_idx, handles, history, ends>>
      BY <1>13 DEF Grow, table, locks, pipes, handles, history, ends
    <3> QED
      BY <3>1, <3>2, <2>1 DEF SharedOK, table, locks, pipes, handles, history, ends
  <2>4. PlacesOK'
    <3>1. CASE Goto(r, "own") /\ UNCHANGED <<loc, sig_idx>>
      <4>1. Fits(r, "own", loc[r])
        BY <2>1, <2>2, <3>1, <2>a, <2>b DEF SharedOK, Fits, Index, SlotPC, LoopPC, Slots, Locals, ReaderPC, WriterPC, VerifyPC, JoinPC
      <4> QED
        BY <2>1, <3>1, <4>1, Goes
    <3>2. CASE Goto(r, "extend") /\ UNCHANGED <<loc, sig_idx>>
      <4>1. Fits(r, "extend", loc[r])
        BY <2>1, <2>2, <3>2, <2>a, <2>b DEF SharedOK, Fits, Index, SlotPC, LoopPC, Slots, Locals, ReaderPC, WriterPC, VerifyPC, JoinPC
      <4> QED
        BY <2>1, <3>2, <4>1, Goes
    <3> QED
      BY <1>13, <3>1, <3>2 DEF Grow
  <2> QED
    BY <2>3, <2>4, PartsNext
<1>14. ASSUME NEW r \in Readers, Own(r)
      PROVE  TypeInv'
  <2>1. r \in Procs /\ SharedOK
    BY Parts DEF Procs
  <2>2. Fits(r, pc[r], loc[r])
    BY <2>1, Local DEF Fits
  <2>a. pc[r] = "own"
    BY <1>14 DEF Own
  <2>b. loc[r].n \in Slots
    BY <2>1, <2>2, <2>a DEF Fits, Index
  <2>3. SharedOK'
    <3>1. pidset' \in [Slots -> Readers \cup {NoPid}]
      BY <1>14, <2>1, <2>b DEF Own, SharedOK
    <3>2. UNCHANGED <<pidnum, sigmask, locks, used, pipes, alive, sig_idx, handles, history, ends>>
      BY <1>14 DEF Own, table, locks, pipes, handles, history, ends
    <3> QED
      BY <3>1, <3>2, <2>1 DEF SharedOK, table, locks, pipes, handles, history, ends
  <2>4. PlacesOK'
    <3>1. CASE Turn(r, "fifo", loc[r].n) /\ UNCHANGED sig_idx
      <4>1. loc[r].n \in Slots
        BY <2>b DEF Slots
      <4>2. loc[r].n \in -2 .. SQ_MAX_READER_PROC_NUM /\ loc[r] \in Locals
        BY <2>2, <4>1 DEF Slots, Fits
      <4>3. Fits(r, "fifo", [loc[r] EXCEPT !.i = loc[r].n])
        BY <2>1, <4>1, <4>2, FitsTurn, NotBoth DEF SlotPC, LoopPC, ReaderPC, WriterPC, VerifyPC, JoinPC, Slots
      <4> QED
        BY <2>1, <3>1, <4>3, Turns
    <3>2. CASE Goto(r, "extend") /\ UNCHANGED <<loc, sig_idx>>
      <4>1. Fits(r, "extend", loc[r])
        BY <2>1, <2>2, <3>2, <2>a, <2>b DEF SharedOK, Fits, Index, SlotPC, LoopPC, Slots, Locals, ReaderPC, WriterPC, VerifyPC, JoinPC
      <4> QED
        BY <2>1, <3>2, <4>1, Goes
    <3> QED
      BY <1>14, <3>1, <3>2 DEF Own
  <2> QED
    BY <2>3, <2>4, PartsNext
<1>15. ASSUME NEW r \in Readers, Fifo(r)
      PROVE  TypeInv'
  <2>1. r \in Procs /\ SharedOK
    BY Parts DEF Procs
  <2>2. Fits(r, pc[r], loc[r])
    BY <2>1, Local DEF Fits
  <2>a. pc[r] = "fifo"
    BY <1>15 DEF Fifo
  <2>3. SharedOK'
    <3>1. sig_idx' \in [Readers -> Slots \cup {-1}]
      BY <1>15, <2>1, <2>2 DEF Fifo, SharedOK, Fits, Index, SlotPC, LoopPC, Slots
    <3>2. hup' \subseteq Slots
      BY <1>15, <2>1, <2>2 DEF Fifo, SharedOK, Fits, Index, SlotPC, LoopPC, Slots
    <3>3. UNCHANGED <<table, sigmask, locks, used, pipe, alive, handles, history, ends>>
      BY <1>15 DEF Fifo, table, locks, pipes, handles, history, ends
    <3> QED
      BY <3>1, <3>2, <3>3, <2>1 DEF SharedOK, table, locks, pipes, handles, history, ends
  <2>4. PlacesOK'
    <3>1. CASE Goto(r, "on") /\ Forget(r) /\ sig_idx' = [sig_idx EXCEPT ![r] = I(r)]
      <4>1. Fresh \in Locals /\ Index("on", Fresh) /\ I(r) \in Slots
        BY <2>2, <2>a DEF Fresh, Locals, Index, SlotPC, Slots, Fits
      <4> QED
        BY <2>1, <3>1, <4>1, NotBoth DEF TypeInv, TypeOK, PlacesOK, IndexOK, Goto, Forget, Procs, ReaderPC
    <3>2. CASE Goto(r, "failed") /\ Forget(r) /\ UNCHANGED sig_idx
      BY <2>1, <3>2, NotBoth, Forgets DEF LoopPC, ReaderPC, VerifyPC
    <3> QED
      BY <1>15, <3>1, <3>2 DEF Fifo
  <2> QED
    BY <2>3, <2>4, PartsNext
<1>16. ASSUME NEW r \in Readers, SigOn(r)
      PROVE  TypeInv'
  <2>1. r \in Procs /\ SharedOK
    BY Parts DEF Procs
  <2>2. Fits(r, pc[r], loc[r])
    BY <2>1, Local DEF Fits
  <2>a. pc[r] = "on"
    BY <1>16 DEF SigOn
  <2>3. SharedOK'
    <3>1. sigmask' \subseteq Slots
      BY <1>16, <2>1, <2>2 DEF SigOn, WithBit, SharedOK, Fits, Index, SlotPC, LoopPC, Slots
    <3>2. missed' \subseteq Slots
      BY <1>16, <2>1, <2>2 DEF SigOn, WithBit, SharedOK, Fits, Index, SlotPC, LoopPC, Slots
    <3>3. woken' \subseteq Slots
      BY <1>16, <2>1, <2>2 DEF SigOn, WithBit, SharedOK, Fits, Index, SlotPC, LoopPC, Slots
    <3>4. UNCHANGED <<table, locks, used, pipes, alive, sig_idx, handles, asleep, ends>>
      BY <1>16 DEF SigOn, WithBit, table, locks, pipes, handles, history, ends
    <3> QED
      BY <3>1, <3>2, <3>3, <3>4, <2>1 DEF SharedOK, table, locks, pipes, handles, history, ends
  <2>4. PlacesOK'
    <3>1. CASE Goto(r, "select") /\ UNCHANGED <<loc, sig_idx>>
      <4>1. Fits(r, "select", loc[r])
        BY <2>1, <2>2, <3>1, <2>a DEF SharedOK, Fits, Index, SlotPC, LoopPC, Slots, Locals, ReaderPC, WriterPC, VerifyPC, JoinPC
      <4> QED
        BY <2>1, <3>1, <4>1, Goes
    <3> QED
      BY <1>16, <3>1 DEF SigOn, WithBit
  <2> QED
    BY <2>3, <2>4, PartsNext
<1>17. ASSUME NEW r \in Readers, Wake(r)
      PROVE  TypeInv'
  <2>1. r \in Procs /\ SharedOK
    BY Parts DEF Procs
  <2>2. Fits(r, pc[r], loc[r])
    BY <2>1, Local DEF Fits
  <2>a. pc[r] = "select"
    BY <1>17 DEF Wake, Select
  <2>3. SharedOK'
    <3>1. asleep' \in [Writers -> SUBSET Readers]
      BY <1>17, <2>1, <2>2 DEF Wake, Select, SharedOK, Fits, Index, SlotPC, LoopPC, Slots
    <3>2. UNCHANGED <<table, sigmask, locks, used, pipes, alive, sig_idx, handles, missed, woken, ends>>
      BY <1>17 DEF Wake, Select, table, locks, pipes, handles, history, ends
    <3> QED
      BY <3>1, <3>2, <2>1 DEF SharedOK, table, locks, pipes, handles, history, ends
  <2>4. PlacesOK'
    <3>1. CASE Goto(r, "off") /\ loc' = [loc EXCEPT ![r] = [loc[r] EXCEPT !.ready = TRUE]] /\ UNCHANGED sig_idx
      <4>1. Fits(r, "off", [loc[r] EXCEPT !.ready = TRUE])
        BY <2>1, <2>2, <3>1, <2>a DEF SharedOK, Fits, Index, SlotPC, LoopPC, Slots, Locals, ReaderPC, WriterPC, VerifyPC, JoinPC
      <4> QED
        BY <2>1, <3>1, <4>1, Moves
    <3> QED
      BY <1>17, <3>1 DEF Wake, Select
  <2> QED
    BY <2>3, <2>4, PartsNext
<1>18. ASSUME NEW r \in Readers, Timeout(r)
      PROVE  TypeInv'
  <2>1. r \in Procs /\ SharedOK
    BY Parts DEF Procs
  <2>2. Fits(r, pc[r], loc[r])
    BY <2>1, Local DEF Fits
  <2>a. pc[r] = "select"
    BY <1>18 DEF Timeout, Select
  <2>3. SharedOK'
    <3>1. asleep' \in [Writers -> SUBSET Readers]
      BY <1>18, <2>1, <2>2 DEF Timeout, Select, SharedOK, Fits, Index, SlotPC, LoopPC, Slots
    <3>2. UNCHANGED <<table, sigmask, locks, used, pipes, alive, sig_idx, handles, missed, woken, ends>>
      BY <1>18 DEF Timeout, Select, table, locks, pipes, handles, history, ends
    <3> QED
      BY <3>1, <3>2, <2>1 DEF SharedOK, table, locks, pipes, handles, history, ends
  <2>4. PlacesOK'
    <3>1. CASE Goto(r, "off") /\ loc' = [loc EXCEPT ![r] = [loc[r] EXCEPT !.ready = FALSE]] /\ UNCHANGED sig_idx
      <4>1. Fits(r, "off", [loc[r] EXCEPT !.ready = FALSE])
        BY <2>1, <2>2, <3>1, <2>a DEF SharedOK, Fits, Index, SlotPC, LoopPC, Slots, Locals, ReaderPC, WriterPC, VerifyPC, JoinPC
      <4> QED
        BY <2>1, <3>1, <4>1, Moves
    <3> QED
      BY <1>18, <3>1 DEF Timeout, Select
  <2> QED
    BY <2>3, <2>4, PartsNext
<1>19. ASSUME NEW r \in Readers, SigOff(r)
      PROVE  TypeInv'
  <2>1. r \in Procs /\ SharedOK
    BY Parts DEF Procs
  <2>2. Fits(r, pc[r], loc[r])
    BY <2>1, Local DEF Fits
  <2>a. pc[r] = "off"
    BY <1>19 DEF SigOff
  <2>3. SharedOK'
    <3>1. sigmask' \subseteq Slots
      BY <1>19, <2>1, <2>2 DEF SigOff, WithoutBit, SharedOK, Fits, Index, SlotPC, LoopPC, Slots
    <3>2. UNCHANGED <<table, locks, used, pipes, alive, sig_idx, handles, history, ends>>
      BY <1>19 DEF SigOff, WithoutBit, table, locks, pipes, handles, history, ends
    <3> QED
      BY <3>1, <3>2, <2>1 DEF SharedOK, table, locks, pipes, handles, history, ends
  <2>4. PlacesOK'
    <3>1. CASE Goto(r, "consume") /\ Forget(r) /\ UNCHANGED sig_idx
      BY <2>1, <2>2, <3>1, NotBoth, Forgets, <2>a DEF Fits, LoopPC, ReaderPC, WriterPC
    <3>2. CASE Goto(r, "get") /\ Forget(r) /\ UNCHANGED sig_idx
      BY <2>1, <2>2, <3>2, NotBoth, Forgets, <2>a DEF Fits, LoopPC, ReaderPC, WriterPC
    <3> QED
      BY <1>19, <3>1, <3>2 DEF SigOff, WithoutBit
  <2> QED
    BY <2>3, <2>4, PartsNext
<1>20. ASSUME NEW r \in Readers, Consume(r)
      PROVE  TypeInv'
  <2>1. r \in Procs /\ SharedOK
    BY Parts DEF Procs
  <2>2. Fits(r, pc[r], loc[r])
    BY <2>1, Local DEF Fits
  <2>a. pc[r] = "consume"
    BY <1>20 DEF Consume
  <2>3. SharedOK'
    <3>1. pipe' \in [Slots -> 0 .. PipeSize]
      BY <1>20, <2>1, <2>2 DEF Consume, SharedOK, Fits, Index, SlotPC, LoopPC, Slots
    <3>2. UNCHANGED <<table, sigmask, locks, used, hup, alive, sig_idx, handles, history, ends>>
      BY <1>20 DEF Consume, table, locks, pipes, handles, history, ends
    <3> QED
      BY <3>1, <3>2, <2>1 DEF SharedOK, table, locks, pipes, handles, history, ends
  <2>4. PlacesOK'
    <3>1. CASE Goto(r, "get") /\ UNCHANGED <<loc, sig_idx>>
      <4>1. Fits(r, "get", loc[r])
        BY <2>1, <2>2, <3>1, <2>a DEF SharedOK, Fits, Index, SlotPC, LoopPC, Slots, Locals, ReaderPC, WriterPC, VerifyPC, JoinPC
      <4> QED
        BY <2>1, <3>1, <4>1, Goes
    <3> QED
      BY <1>20, <3>1 DEF Consume
  <2> QED
    BY <2>3, <2>4, PartsNext
<1>21. ASSUME NEW r \in Readers, Get(r)
      PROVE  TypeInv'
  <2>1. r \in Procs /\ SharedOK
    BY Parts DEF Procs
  <2>2. Fits(r, pc[r], loc[r])
    BY <2>1, Local DEF Fits
  <2>a. pc[r] = "get"
    BY <1>21 DEF Get
  <2>3. SharedOK'
    <3>1. used' \in 0 .. MaxUsed
      BY <1>21, <2>1, <2>2 DEF Get, SharedOK, Fits, Index, SlotPC, LoopPC, Slots
    <3>2. UNCHANGED <<table, sigmask, locks, pipes, alive, sig_idx, handles, history, ends>>
      BY <1>21 DEF Get, table, locks, pipes, handles, history, ends
    <3> QED
      BY <3>1, <3>2, <2>1 DEF SharedOK, table, locks, pipes, handles, history, ends
  <2>4. PlacesOK'
    <3>1. CASE Goto(r, "on") /\ UNCHANGED <<loc, sig_idx>>
      <4>1. Fits(r, "on", loc[r])
        BY <2>1, <2>2, <3>1, <2>a DEF SharedOK, Fits, Index, SlotPC, LoopPC, Slots, Locals, ReaderPC, WriterPC, VerifyPC, JoinPC
      <4> QED
        BY <2>1, <3>1, <4>1, Goes
    <3> QED
      BY <1>21, <3>1 DEF Get
  <2> QED
    BY <2>3, <2>4, PartsNext
<1>22. ASSUME NEW r \in Readers, Die(r)
      PROVE  TypeInv'
  <2>1. r \in Procs /\ SharedOK
    BY Parts DEF Procs
  <2>2. Fits(r, pc[r], loc[r])
    BY <2>1, Local DEF Fits
  <2>3. SharedOK'
    <3>1. alive' \subseteq Readers
      BY <1>22, <2>1, <2>2 DEF Die, SharedOK, Fits, Index, SlotPC, LoopPC, Slots
    <3>2. deaths' \in 0 .. MaxDeaths
      BY <1>22, <2>1, <2>2 DEF Die, SharedOK, Fits, Index, SlotPC, LoopPC, Slots
    <3>3. pipe' \in [Slots -> 0 .. PipeSize]
      BY <1>22, <2>1, <2>2 DEF Die, SharedOK, Fits, Index, SlotPC, LoopPC, Slots
    <3>4. asleep' \in [Writers -> SUBSET Readers]
      BY <1>22, <2>1, <2>2 DEF Die, SharedOK, Fits, Index, SlotPC, LoopPC, Slots
    <3>5. sig_idx' \in [Readers -> Slots \cup {-1}]
      BY <1>22, <2>1, <2>2 DEF Die, SharedOK, Fits, Index, SlotPC, LoopPC, Slots
    <3>6. UNCHANGED <<table, sigmask, locks, used, hup, handles, missed, woken, crashes>>
      BY <1>22 DEF Die, table, locks, pipes, handles, history, ends
    <3> QED
      BY <3>1, <3>2, <3>3, <3>4, <3>5, <3>6, <2>1 DEF SharedOK, table, locks, pipes, handles, history, ends
  <2>4. PlacesOK'
    <3>1. Fresh \in Locals /\ Index("dead", Fresh)
      BY DEF Fresh, Locals, Index, SlotPC, Slots
    <3> QED
      BY <1>22, <2>1, <3>1, NotBoth DEF Die, TypeInv, TypeOK, PlacesOK, IndexOK, Goto, Forget, LoopPC, Procs, ReaderPC
  <2> QED
    BY <2>3, <2>4, PartsNext
<1>23. ASSUME NEW w \in Writers, Create(w)
      PROVE  TypeInv'
  <2>1. w \in Procs /\ SharedOK
    BY Parts DEF Procs
  <2>2. Fits(w, pc[w], loc[w])
    BY <2>1, Local DEF Fits
  <2>a. pc[w] = "new"
    BY <1>23 DEF Create
  <2>3. SharedOK'
    <3>1. UNCHANGED <<table, sigmask, locks, used, pipes, alive, sig_idx, handles, history, ends>>
      BY <1>23 DEF Create, table, locks, pipes, handles, history, ends
    <3> QED
      BY <3>1, <2>1 DEF SharedOK, table, locks, pipes, handles, history, ends
  <2>4. PlacesOK'
    <3>1. CASE Goto(w, "verify") /\ loc' = [loc EXCEPT ![w] = [loc[w] EXCEPT !.create = TRUE]] /\ UNCHANGED sig_idx
      <4>1. Fits(w, "verify", [loc[w] EXCEPT !.create = TRUE])
        BY <2>1, <2>2, <3>1, <2>a DEF SharedOK, Fits, Index, SlotPC, LoopPC, Slots, Locals, ReaderPC, WriterPC, VerifyPC, JoinPC
      <4> QED
        BY <2>1, <3>1, <4>1, Moves
    <3> QED
      BY <1>23, <3>1 DEF Create
  <2> QED
    BY <2>3, <2>4, PartsNext
<1>24. ASSUME NEW w \in Writers, Notify(w)
      PROVE  TypeInv'
  <2>1. w \in Procs /\ SharedOK
    BY Parts DEF Procs
  <2>2. Fits(w, pc[w], loc[w])
    BY <2>1, Local DEF Fits
  <2>a. pc[w] = "notify"
    BY <1>24 DEF Notify
  <2>3. SharedOK'
    <3>1. UNCHANGED <<table, sigmask, locks, used, pipes, alive, sig_idx, handles, history, ends>>
      BY <1>24 DEF Notify, table, locks, pipes, handles, history, ends
    <3> QED
      BY <3>1, <2>1 DEF SharedOK, table, locks, pipes, handles, history, ends
  <2>4. PlacesOK'
    <3>1. CASE I(w) < pidnum /\ Goto(w, "open") /\ UNCHANGED <<loc, sig_idx>>
      <4>1. Fits(w, "open", loc[w])
        BY <2>1, <2>2, <3>1, <2>a DEF SharedOK, Fits, Index, SlotPC, LoopPC, Slots, Locals, ReaderPC, WriterPC, VerifyPC, JoinPC
      <4> QED
        BY <2>1, <3>1, <4>1, Goes
    <3>2. CASE Goto(w, "ready") /\ Forget(w) /\ UNCHANGED sig_idx
      BY <2>1, <2>2, <3>2, NotBoth, Forgets, <2>a DEF Fits, LoopPC, ReaderPC, WriterPC
    <3> QED
      BY <1>24, <3>1, <3>2 DEF Notify
  <2> QED
    BY <2>3, <2>4, PartsNext
<1>25. ASSUME NEW w \in Writers, Put(w)
      PROVE  TypeInv'
  <2>1. w \in Procs /\ SharedOK
    BY Parts DEF Procs
  <2>2. Fits(w, pc[w], loc[w])
    BY <2>1, Local DEF Fits
  <2>a. pc[w] = "ready"
    BY <1>25 DEF Put
  <2>3. SharedOK'
    <3>1. used' \in 0 .. MaxUsed
      BY <1>25, <2>1, <2>2 DEF Put, SharedOK, Fits, Index, SlotPC, LoopPC, Slots
    <3>2. UNCHANGED <<table, sigmask, locks, pipes, alive, sig_idx, handles, history, ends>>
      BY <1>25 DEF Put, table, locks, pipes, handles, history, ends
    <3> QED
      BY <3>1, <3>2, <2>1 DEF SharedOK, table, locks, pipes, handles, history, ends
  <2>4. PlacesOK'
    <3>1. CASE Goto(w, "test") /\ UNCHANGED <<loc, sig_idx>>
      <4>1. Fits(w, "test", loc[w])
        BY <2>1, <2>2, <3>1, <2>a DEF SharedOK, Fits, Index, SlotPC, LoopPC, Slots, Locals, ReaderPC, WriterPC, VerifyPC, JoinPC
      <4> QED
        BY <2>1, <3>1, <4>1, Goes
    <3> QED
      BY <1>25, <3>1 DEF Put
  <2> QED
    BY <2>3, <2>4, PartsNext
<1>26. ASSUME NEW w \in Writers, Test(w)
      PROVE  TypeInv'
  <2>1. w \in Procs /\ SharedOK
    BY Parts DEF Procs
  <2>2. Fits(w, pc[w], loc[w])
    BY <2>1, Local DEF Fits
  <2>a. pc[w] = "test"
    BY <1>26 DEF Test
  <2>3. SharedOK'
    <3>1. asleep' \in [Writers -> SUBSET Readers]
      BY <1>26, <2>1, <2>2 DEF Test, SharedOK, Fits, Index, SlotPC, LoopPC, Slots
    <3>2. /\ UNCHANGED <<table, sigmask, locks, used, pipes, alive, sig_idx, handles, woken, ends>>
          /\ missed' = {}
      BY <1>26 DEF Test, table, locks, pipes, handles, history, ends
    <3> QED
      BY <3>1, <3>2, <2>1 DEF SharedOK, table, locks, pipes, handles, history, ends
  <2>4. PlacesOK'
    <3>1. CASE Goto(w, "look") /\ loc' = [loc EXCEPT ![w] = [loc[w] EXCEPT !.i = 0, !.nr = 0]] /\ UNCHANGED sig_idx
      <4>1. Fits(w, "look", [loc[w] EXCEPT !.i = 0, !.nr = 0])
        <5> DEFINE c == [loc[w] EXCEPT !.i = 0, !.nr = 0]
        <5>1. loc[w] \in Locals
          BY <2>2 DEF Fits
        <5>a. [loc[w] EXCEPT !.i = 0] \in Locals
          BY <5>1 DEF Locals
        <5>2. c \in Locals
          BY <5>a DEF Locals
        <5>2a. c.i >= 0
          BY <5>1 DEF Locals
        <5>3. Index("look", c) /\ w \notin Readers
          BY <5>2, <5>2a, NotBoth DEF Index, SlotPC
        <5> QED
          BY <5>2, <5>2a, <5>3 DEF Fits, WriterPC
      <4> QED
        BY <2>1, <3>1, <4>1, Moves
    <3>2. CASE Goto(w, "ready") /\ UNCHANGED <<loc, sig_idx>>
      <4>1. Fits(w, "ready", loc[w])
        BY <2>1, <2>2, <3>2, <2>a DEF SharedOK, Fits, Index, SlotPC, LoopPC, Slots, Locals, ReaderPC, WriterPC, VerifyPC, JoinPC
      <4> QED
        BY <2>1, <3>2, <4>1, Goes
    <3> QED
      BY <1>26, <3>1, <3>2 DEF Test
  <2> QED
    BY <2>3, <2>4, PartsNext
<1>27. ASSUME NEW w \in Writers, Look(w)
      PROVE  TypeInv'
  <2>1. w \in Procs /\ SharedOK
    BY Parts DEF Procs
  <2>2. Fits(w, pc[w], loc[w])
    BY <2>1, Local DEF Fits
  <2>a. pc[w] = "look"
    BY <1>27 DEF Look
  <2>3. SharedOK'
    <3>1. UNCHANGED <<table, sigmask, locks, used, pipes, alive, sig_idx, handles, history, ends>>
      BY <1>27 DEF Look, table, locks, pipes, handles, history, ends
    <3> QED
      BY <3>1, <2>1 DEF SharedOK, table, locks, pipes, handles, history, ends
  <2>4. PlacesOK'
    <3>1. CASE Goto(w, "ready") /\ Forget(w) /\ UNCHANGED sig_idx
      BY <2>1, <2>2, <3>1, NotBoth, Forgets, <2>a DEF Fits, LoopPC, ReaderPC, WriterPC
    <3>2. CASE More(w) /\ Goto(w, "pid") /\ UNCHANGED <<loc, sig_idx>>
      <4>1. Fits(w, "pid", loc[w])
        BY <2>1, <2>2, <3>2, <2>a DEF SharedOK, Fits, Index, SlotPC, LoopPC, Slots, Locals, ReaderPC, WriterPC, VerifyPC, JoinPC, More
      <4> QED
        BY <2>1, <3>2, <4>1, Goes
    <3> QED
      BY <1>27, <3>1, <3>2 DEF Look, More
  <2> QED
    BY <2>3, <2>4, PartsNext
<1>28. ASSUME NEW w \in Writers, OpenFifo(w)
      PROVE  TypeInv'
  <2>1. w \in Procs /\ SharedOK
    BY Parts DEF Procs
  <2>2. Fits(w, pc[w], loc[w])
    BY <2>1, Local DEF Fits
  <2>a. pc[w] = "open"
    BY <1>28 DEF OpenFifo
  <2>b. I(w) \in Slots
    BY <2>1, <2>2, <2>a DEF Fits, Index, SlotPC
  <2>3. SharedOK'
    <3>1. hup' \subseteq Slots
      BY <1>28, <2>1, <2>b DEF OpenFifo, GivesUp, Signalled, SharedOK
    <3>2. poll_fdset' \in [Writers -> SUBSET Slots]
      <4>1. poll_fdset \in [Writers -> SUBSET Slots]
        BY <2>1 DEF SharedOK
      <4>2. UNCHANGED poll_fdset \/ poll_fdset' = [poll_fdset EXCEPT ![w] = @ \cup {I(w)}]
        BY <1>28 DEF OpenFifo, handles
      <4> QED
        BY <2>b, <4>1, <4>2
    <3>3. fifo_times' \in [Writers -> SUBSET Slots]
      <4>1. fifo_times \in [Writers -> SUBSET Slots]
        BY <2>1 DEF SharedOK
      <4>2. UNCHANGED fifo_times \/ fifo_times' = [fifo_times EXCEPT ![w] = @ \cup {I(w)}]
        BY <1>28 DEF OpenFifo, handles
      <4> QED
        BY <2>b, <4>1, <4>2
    <3>4. missed' \subseteq Slots
      BY <1>28, <2>1, <2>b DEF OpenFifo, GivesUp, Signalled, SharedOK
    <3>5. UNCHANGED <<table, sigmask, locks, used, pipe, alive, sig_idx, asleep, woken, ends>>
      BY <1>28 DEF OpenFifo, GivesUp, Signalled, table, locks, pipes, handles, history, ends
    <3> QED
      BY <3>1, <3>2, <3>3, <3>4, <3>5, <2>1 DEF SharedOK, table, locks, pipes, handles, history, ends
  <2>4. PlacesOK'
    <3>1. CASE Goto(w, "lock") /\ UNCHANGED <<loc, sig_idx>>
      <4>1. Fits(w, "lock", loc[w])
        BY <2>1, <2>2, <3>1, <2>a, <2>b DEF SharedOK, Fits, Index, SlotPC, LoopPC, Slots, Locals, ReaderPC, WriterPC, VerifyPC, JoinPC
      <4> QED
        BY <2>1, <3>1, <4>1, Goes
    <3>2. CASE Signalled(w) /\ UNCHANGED sig_idx
      BY <1>28, <2>1, <2>2, <3>2, Answers DEF OpenFifo, SlotPC
    <3> QED
      BY <1>28, <3>1, <3>2 DEF OpenFifo, GivesUp
  <2> QED
    BY <2>3, <2>4, PartsNext
<1>29. ASSUME NEW w \in Writers, LockPipe(w)
      PROVE  TypeInv'
  <2>1. w \in Procs /\ SharedOK
    BY Parts DEF Procs
  <2>2. Fits(w, pc[w], loc[w])
    BY <2>1, Local DEF Fits
  <2>a. pc[w] = "lock"
    BY <1>29 DEF LockPipe
  <2>3. SharedOK'
    <3>1. siglock' \subseteq Slots
      BY <1>29, <2>1, <2>2 DEF LockPipe, SharedOK, Fits, Index, SlotPC, LoopPC, Slots
    <3>2. UNCHANGED <<table, sigmask, signr, used, pipes, alive, sig_idx, handles, history, ends>>
      BY <1>29 DEF LockPipe, table, locks, pipes, handles, history, ends
    <3> QED
      BY <3>1, <3>2, <2>1 DEF SharedOK, table, locks, pipes, handles, history, ends
  <2>4. PlacesOK'
    <3>1. CASE Goto(w, "count") /\ UNCHANGED <<loc, sig_idx>>
      <4>1. Fits(w, "count", loc[w])
        BY <2>1, <2>2, <3>1, <2>a DEF SharedOK, Fits, Index, SlotPC, LoopPC, Slots, Locals, ReaderPC, WriterPC, VerifyPC, JoinPC
      <4> QED
        BY <2>1, <3>1, <4>1, Goes
    <3>2. CASE Goto(w, "reset") /\ UNCHANGED <<loc, sig_idx>>
      <4>1. Fits(w, "reset", loc[w])
        BY <2>1, <2>2, <3>2, <2>a DEF SharedOK, Fits, Index, SlotPC, LoopPC, Slots, Locals, ReaderPC, WriterPC, VerifyPC, JoinPC
      <4> QED
        BY <2>1, <3>2, <4>1, Goes
    <3> QED
      BY <1>29, <3>1, <3>2 DEF LockPipe
  <2> QED
    BY <2>3, <2>4, PartsNext
<1>30. ASSUME NEW w \in Writers, Count(w)
      PROVE  TypeInv'
  <2>1. w \in Procs /\ SharedOK
    BY Parts DEF Procs
  <2>2. Fits(w, pc[w], loc[w])
    BY <2>1, Local DEF Fits
  <2>a. pc[w] = "count"
    BY <1>30 DEF Count
  <2>3. SharedOK'
    <3>1. UNCHANGED <<table, sigmask, locks, used, pipes, alive, sig_idx, handles, history, ends>>
      BY <1>30 DEF Count, table, locks, pipes, handles, history, ends
    <3> QED
      BY <3>1, <2>1 DEF SharedOK, table, locks, pipes, handles, history, ends
  <2>4. PlacesOK'
    <3>1. CASE Goto(w, "reset") /\ UNCHANGED <<loc, sig_idx>>
      <4>1. Fits(w, "reset", loc[w])
        BY <2>1, <2>2, <3>1, <2>a DEF SharedOK, Fits, Index, SlotPC, LoopPC, Slots, Locals, ReaderPC, WriterPC, VerifyPC, JoinPC
      <4> QED
        BY <2>1, <3>1, <4>1, Goes
    <3>2. CASE Goto(w, "add") /\ UNCHANGED <<loc, sig_idx>>
      <4>1. Fits(w, "add", loc[w])
        BY <2>1, <2>2, <3>2, <2>a DEF SharedOK, Fits, Index, SlotPC, LoopPC, Slots, Locals, ReaderPC, WriterPC, VerifyPC, JoinPC
      <4> QED
        BY <2>1, <3>2, <4>1, Goes
    <3> QED
      BY <1>30, <3>1, <3>2 DEF Count
  <2> QED
    BY <2>3, <2>4, PartsNext
<1>31. ASSUME NEW w \in Writers, Add(w)
      PROVE  TypeInv'
  <2>1. w \in Procs /\ SharedOK
    BY Parts DEF Procs
  <2>2. Fits(w, pc[w], loc[w])
    BY <2>1, Local DEF Fits
  <2>a. pc[w] = "add"
    BY <1>31 DEF Add
  <2>3. SharedOK'
    <3>1. signr' \in [Slots -> Nat]
      BY <1>31, <2>1, <2>2, SMTT(30) DEF Add, GivesUp, Signalled, Counted, SharedOK, Fits, Index, SlotPC, LoopPC, Slots
    <3>2. missed' \subseteq Slots
      BY <1>31, <2>1, <2>2 DEF Add, GivesUp, Signalled, Counted, SharedOK, Fits, Index, SlotPC, LoopPC, Slots
    <3>3. UNCHANGED <<table, sigmask, siglock, used, pipes, alive, sig_idx, handles, asleep, woken, ends>>
      BY <1>31 DEF Add, GivesUp, Signalled, Counted, table, locks, pipes, handles, history, ends
    <3> QED
      BY <3>1, <3>2, <3>3, <2>1 DEF SharedOK, table, locks, pipes, handles, history, ends
  <2>4. PlacesOK'
    <3>1. CASE Signalled(w) /\ UNCHANGED sig_idx
      BY <1>31, <2>1, <2>2, <3>1, Answers DEF Add, SlotPC
    <3> QED
      BY <1>31, <3>1 DEF Add, GivesUp
  <2> QED
    BY <2>3, <2>4, PartsNext
<1>32. ASSUME NEW w \in Writers, Reset(w)
      PROVE  TypeInv'
  <2>1. w \in Procs /\ SharedOK
    BY Parts DEF Procs
  <2>2. Fits(w, pc[w], loc[w])
    BY <2>1, Local DEF Fits
  <2>a. pc[w] = "reset"
    BY <1>32 DEF Reset
  <2>3. SharedOK'
    <3>1. signr' \in [Slots -> Nat]
      BY <1>32, <2>1, <2>2 DEF Reset, SharedOK, Fits, Index, SlotPC, LoopPC, Slots
    <3>2. UNCHANGED <<table, sigmask, siglock, used, pipes, alive, sig_idx, handles, history, ends>>
      BY <1>32 DEF Reset, table, locks, pipes, handles, history, ends
    <3> QED
      BY <3>1, <3>2, <2>1 DEF SharedOK, table, locks, pipes, handles, history, ends
  <2>4. PlacesOK'
    <3>1. CASE Goto(w, "write") /\ UNCHANGED <<loc, sig_idx>>
      <4>1. Fits(w, "write", loc[w])
        BY <2>1, <2>2, <3>1, <2>a DEF SharedOK, Fits, Index, SlotPC, LoopPC, Slots, Locals, ReaderPC, WriterPC, VerifyPC, JoinPC
      <4> QED
        BY <2>1, <3>1, <4>1, Goes
    <3> QED
      BY <1>32, <3>1 DEF Reset
  <2> QED
    BY <2>3, <2>4, PartsNext
<1>33. ASSUME NEW w \in Writers, Write(w)
      PROVE  TypeInv'
  <2>1. w \in Procs /\ SharedOK
    BY Parts DEF Procs
  <2>2. Fits(w, pc[w], loc[w])
    BY <2>1, Local DEF Fits
  <2>a. pc[w] = "write"
    BY <1>33 DEF Write
  <2>b. I(w) \in Slots
    BY <2>1, <2>2, <2>a DEF Fits, Index, SlotPC
  <2>3. SharedOK'
    <3>1. pipe' \in [Slots -> 0 .. PipeSize]
      BY <1>33, <2>1, <2>b DEF Write, Byte, SharedOK
    <3>2. woken' \subseteq Slots
      BY <1>33, <2>1, <2>b DEF Write, SharedOK
    <3>3. UNCHANGED <<table, sigmask, locks, used, hup, alive, sig_idx, handles, asleep, missed, ends>>
      BY <1>33 DEF Write, table, locks, pipes, handles, history, ends
    <3> QED
      BY <3>1, <3>2, <3>3, <2>1 DEF SharedOK, table, locks, pipes, handles, history, ends
  <2>4. PlacesOK'
    <3>1. CASE Goto(w, "unlock") /\ UNCHANGED <<loc, sig_idx>>
      <4>1. Fits(w, "unlock", loc[w])
        BY <2>1, <2>2, <3>1, <2>a, <2>b DEF SharedOK, Fits, Index, SlotPC, LoopPC, Slots, Locals, ReaderPC, WriterPC, VerifyPC, JoinPC
      <4> QED
        BY <2>1, <3>1, <4>1, Goes
    <3> QED
      BY <1>33, <3>1 DEF Write
  <2> QED
    BY <2>3, <2>4, PartsNext
<1>34. ASSUME NEW w \in Writers, Unlock(w)
      PROVE  TypeInv'
  <2>1. w \in Procs /\ SharedOK
    BY Parts DEF Procs
  <2>2. Fits(w, pc[w], loc[w])
    BY <2>1, Local DEF Fits
  <2>a. pc[w] = "unlock"
    BY <1>34 DEF Unlock
  <2>3. SharedOK'
    <3>1. siglock' \subseteq Slots
      BY <1>34, <2>1, <2>2 DEF Unlock, Signalled, SharedOK, Fits, Index, SlotPC, LoopPC, Slots
    <3>2. UNCHANGED <<table, sigmask, signr, used, pipes, alive, sig_idx, handles, history, ends>>
      BY <1>34 DEF Unlock, Signalled, table, locks, pipes, handles, history, ends
    <3> QED
      BY <3>1, <3>2, <2>1 DEF SharedOK, table, locks, pipes, handles, history, ends
  <2>4. PlacesOK'
    <3>1. CASE Signalled(w) /\ UNCHANGED sig_idx
      BY <1>34, <2>1, <2>2, <3>1, Answers DEF Unlock, SlotPC
    <3> QED
      BY <1>34, <3>1 DEF Unlock
  <2> QED
    BY <2>3, <2>4, PartsNext
<1>35. ASSUME NEW w \in Writers, PutSigOff(w)
      PROVE  TypeInv'
  <2>1. w \in Procs /\ SharedOK
    BY Parts DEF Procs
  <2>2. Fits(w, pc[w], loc[w])
    BY <2>1, Local DEF Fits
  <2>a. pc[w] = "sigoff"
    BY <1>35 DEF PutSigOff
  <2>3. SharedOK'
    <3>1. sigmask' \subseteq Slots
      BY <1>35, <2>1, <2>2 DEF PutSigOff, BitOff, WithoutBit, SharedOK, Fits, Index, SlotPC, LoopPC, Slots
    <3>2. UNCHANGED <<table, locks, used, pipes, alive, sig_idx, handles, history, ends>>
      BY <1>35 DEF PutSigOff, BitOff, WithoutBit, table, locks, pipes, handles, history, ends
    <3> QED
      BY <3>1, <3>2, <2>1 DEF SharedOK, table, locks, pipes, handles, history, ends
  <2>4. PlacesOK'
    <3>1. CASE Goto(w, "look") /\ loc' = [loc EXCEPT ![w] = [loc[w] EXCEPT !.i = loc[w].i + 1, !.nr = loc[w].nr + 1]] /\ UNCHANGED sig_idx
      <4>1. Fits(w, "look", [loc[w] EXCEPT !.i = loc[w].i + 1, !.nr = loc[w].nr + 1])
        <5> DEFINE c == [loc[w] EXCEPT !.i = loc[w].i + 1, !.nr = loc[w].nr + 1]
        <5>1. loc[w] \in Locals /\ loc[w].i \in 0 .. SQ_MAX_READER_PROC_NUM - 1
          BY <2>2, <2>a DEF Fits, Index, SlotPC, Slots
        <5>2. loc[w].i + 1 \in -2 .. SQ_MAX_READER_PROC_NUM /\ loc[w].i + 1 >= 0
          BY <5>1
        <5>a. [loc[w] EXCEPT !.i = loc[w].i + 1] \in Locals /\ loc[w].nr + 1 \in Nat
          BY <5>1, <5>2 DEF Locals
        <5>b. c = [[loc[w] EXCEPT !.i = loc[w].i + 1] EXCEPT !.nr = loc[w].nr + 1]
          OBVIOUS
        <5>2a. c \in Locals /\ c.i >= 0
          BY <5>1, <5>2, <5>a, <5>b DEF Locals
        <5>3. Index("look", c) /\ w \notin Readers
          BY <5>2, <5>2a, NotBoth DEF Index, SlotPC
        <5> QED
          BY <5>2, <5>2a, <5>3 DEF Fits, WriterPC
      <4> QED
        BY <2>1, <3>1, <4>1, Moves
    <3> QED
      BY <1>35, <3>1 DEF PutSigOff, BitOff, WithoutBit
  <2> QED
    BY <2>3, <2>4, PartsNext
<1>36. ASSUME NEW w \in Writers, MinuteLater(w)
      PROVE  TypeInv'
  <2>1. w \in Procs /\ SharedOK
    BY Parts DEF Procs
  <2>2. Fits(w, pc[w], loc[w])
    BY <2>1, Local DEF Fits
  <2>3. SharedOK'
    <3>1. fifo_times' \in [Writers -> SUBSET Slots]
      BY <1>36, <2>1, <2>2 DEF MinuteLater, SharedOK, Fits, Index, SlotPC, LoopPC, Slots
    <3>2. UNCHANGED <<table, sigmask, locks, used, pipes, alive, sig_idx, poll_fdset, history, ends>>
      BY <1>36 DEF MinuteLater, table, locks, pipes, handles, history, ends
    <3> QED
      BY <3>1, <3>2, <2>1 DEF SharedOK, table, locks, pipes, handles, history, ends
  <2>4. PlacesOK'
    <3>1. UNCHANGED <<pc, loc, sig_idx>>
      BY <1>36 DEF MinuteLater
    <3> QED
      BY <3>1 DEF TypeInv, TypeOK, PlacesOK, IndexOK, Index
  <2> QED
    BY <2>3, <2>4, PartsNext
<1>37. ASSUME NEW w \in Writers, Crash(w)
      PROVE  TypeInv'
  <2>1. w \in Procs /\ SharedOK
    BY Parts DEF Procs
  <2>2. Fits(w, pc[w], loc[w])
    BY <2>1, Local DEF Fits
  <2>3. SharedOK'
    <3>1. hup' \subseteq Slots
      BY <1>37, <2>1, <2>2 DEF Crash, SharedOK, Fits, Index, SlotPC, LoopPC, Slots
    <3>2. pipe' \in [Slots -> 0 .. PipeSize]
      BY <1>37, <2>1, <2>2 DEF Crash, SharedOK, Fits, Index, SlotPC, LoopPC, Slots
    <3>3. poll_fdset' \in [Writers -> SUBSET Slots]
      BY <1>37, <2>1, <2>2 DEF Crash, SharedOK, Fits, Index, SlotPC, LoopPC, Slots
    <3>4. fifo_times' \in [Writers -> SUBSET Slots]
      BY <1>37, <2>1, <2>2 DEF Crash, SharedOK, Fits, Index, SlotPC, LoopPC, Slots
    <3>5. asleep' \in [Writers -> SUBSET Readers]
      BY <1>37, <2>1, <2>2 DEF Crash, SharedOK, Fits, Index, SlotPC, LoopPC, Slots
    <3>6. woken' \subseteq Slots
      BY <1>37, <2>1, <2>2 DEF Crash, SharedOK, Fits, Index, SlotPC, LoopPC, Slots
    <3>7. crashes' \in 0 .. MaxCrashes
      BY <1>37, <2>1, <2>2 DEF Crash, SharedOK, Fits, Index, SlotPC, LoopPC, Slots
    <3>8. UNCHANGED <<table, sigmask, locks, used, alive, sig_idx, missed, deaths>>
      BY <1>37 DEF Crash, table, locks, pipes, handles, history, ends
    <3> QED
      BY <3>1, <3>2, <3>3, <3>4, <3>5, <3>6, <3>7, <3>8, <2>1 DEF SharedOK, table, locks, pipes, handles, history, ends
  <2>4. PlacesOK'
    <3>1. CASE Goto(w, "new") /\ Forget(w) /\ UNCHANGED sig_idx
      BY <2>1, <2>2, <3>1, NotBoth, Forgets DEF Fits, LoopPC, ReaderPC, WriterPC
    <3> QED
      BY <1>37, <3>1 DEF Crash
  <2> QED
    BY <2>3, <2>4, PartsNext
<1>39. ASSUME NEW w \in Writers, LookPid(w)
      PROVE  TypeInv'
  <2>1. w \in Procs /\ SharedOK
    BY Parts DEF Procs
  <2>2. Fits(w, pc[w], loc[w])
    BY <2>1, Local DEF Fits
  <2>a. pc[w] = "pid"
    BY <1>39 DEF LookPid
  <2>3. SharedOK'
    <3>1. UNCHANGED <<table, sigmask, locks, used, pipes, alive, sig_idx, handles, history, ends>>
      BY <1>39 DEF LookPid, table, locks, pipes, handles, history, ends
    <3> QED
      BY <3>1, <2>1 DEF SharedOK, table, locks, pipes, handles, history, ends
  <2>4. PlacesOK'
    <3>1. CASE Goto(w, "bit") /\ UNCHANGED <<loc, sig_idx>>
      <4>1. Fits(w, "bit", loc[w])
        BY <2>1, <2>2, <3>1, <2>a DEF SharedOK, Fits, Index, SlotPC, LoopPC, Slots, Locals, ReaderPC, WriterPC, VerifyPC, JoinPC
      <4> QED
        BY <2>1, <3>1, <4>1, Goes
    <3>2. CASE Turn(w, "look", I(w) + 1) /\ UNCHANGED sig_idx
      <4>1. I(w) + 1 \in 0 .. SQ_MAX_READER_PROC_NUM
        BY <2>1, <2>2, <3>2, <2>a DEF Fits, Index, SlotPC, Slots, Locals
      <4>2. I(w) + 1 \in -2 .. SQ_MAX_READER_PROC_NUM /\ loc[w] \in Locals
        BY <2>2, <4>1 DEF Slots, Fits
      <4>3. Fits(w, "look", [loc[w] EXCEPT !.i = I(w) + 1])
        BY <2>1, <4>1, <4>2, FitsTurn, NotBoth DEF SlotPC, LoopPC, ReaderPC, WriterPC, VerifyPC, JoinPC, Slots
      <4> QED
        BY <2>1, <3>2, <4>3, Turns
    <3> QED
      BY <1>39, <3>1, <3>2 DEF LookPid
  <2> QED
    BY <2>3, <2>4, PartsNext
<1>40. ASSUME NEW w \in Writers, LookBit(w)
      PROVE  TypeInv'
  <2>1. w \in Procs /\ SharedOK
    BY Parts DEF Procs
  <2>2. Fits(w, pc[w], loc[w])
    BY <2>1, Local DEF Fits
  <2>a. pc[w] = "bit"
    BY <1>40 DEF LookBit
  <2>3. SharedOK'
    <3>1. UNCHANGED <<table, sigmask, locks, used, pipes, alive, sig_idx, handles, history, ends>>
      BY <1>40 DEF LookBit, table, locks, pipes, handles, history, ends
    <3> QED
      BY <3>1, <2>1 DEF SharedOK, table, locks, pipes, handles, history, ends
  <2>4. PlacesOK'
    <3>1. CASE Goto(w, "open") /\ UNCHANGED <<loc, sig_idx>>
      <4>1. Fits(w, "open", loc[w])
        BY <2>1, <2>2, <3>1, <2>a DEF SharedOK, Fits, Index, SlotPC, LoopPC, Slots, Locals, ReaderPC, WriterPC, VerifyPC, JoinPC
      <4> QED
        BY <2>1, <3>1, <4>1, Goes
    <3>2. CASE Turn(w, "look", I(w) + 1) /\ UNCHANGED sig_idx
      <4>1. I(w) + 1 \in 0 .. SQ_MAX_READER_PROC_NUM
        BY <2>1, <2>2, <3>2, <2>a DEF Fits, Index, SlotPC, Slots, Locals
      <4>2. I(w) + 1 \in -2 .. SQ_MAX_READER_PROC_NUM /\ loc[w] \in Locals
        BY <2>2, <4>1 DEF Slots, Fits
      <4>3. Fits(w, "look", [loc[w] EXCEPT !.i = I(w) + 1])
        BY <2>1, <4>1, <4>2, FitsTurn, NotBoth DEF SlotPC, LoopPC, ReaderPC, WriterPC, VerifyPC, JoinPC, Slots
      <4> QED
        BY <2>1, <3>2, <4>3, Turns
    <3> QED
      BY <1>40, <3>1, <3>2 DEF LookBit
  <2> QED
    BY <2>3, <2>4, PartsNext
<1>38. CASE UNCHANGED vars
  BY <1>38 DEF vars, table, locks, pipes, handles, history, ends, TypeInv, TypeOK, IndexOK, Index
<1> QED
  BY <1>1, <1>2, <1>3, <1>4, <1>5, <1>6, <1>7, <1>8, <1>9, <1>10, <1>11, <1>12, <1>13, <1>14, <1>15, <1>16, <1>17, <1>18, <1>19, <1>20, <1>21, <1>22, <1>23, <1>24, <1>25, <1>26, <1>27, <1>28, <1>29, <1>30, <1>31, <1>32, <1>33, <1>34, <1>35, <1>36, <1>37, <1>38, <1>39, <1>40, Zenon
  DEF Next, Join, Loop, Verify, Writer, Signal, Procs

\* The types hold, and a process's index is what the place it is at needs.
THEOREM TypeCorrect == Spec => []TypeOK
<1>1. Spec => []TypeInv
  BY InitType, NextType, PTL DEF Spec
<1>2. TypeInv => TypeOK
  BY DEF TypeInv
<1> QED
  BY <1>1, <1>2, PTL

-----------------------------------------------------------------------------
(* A reader keeps its slot, if processes start one after the other. *)

Joining(p) == pc[p] \in VerifyPC \cup JoinPC

\* One process at a time looks for pids that are gone or for a slot of its own.
Exclusive == \A p, q \in Procs : Joining(p) /\ Joining(q) => p = q

\* A reader that exists is somewhere, and has a slot only when it has registered.
Lives ==
    \A r \in Readers :
        /\ r \in alive <=> pc[r] \notin {"unborn", "dead"}
        /\ Joining(r) \/ pc[r] = "failed" \/ r \notin alive => sig_idx[r] = -1

\* Whoever is about to remove a pid does so because its process is gone.
Gone ==
    \A p \in Procs : pc[p] \in {"topoff", "shrink", "restoff", "clear"} => pidset[I(p)] \notin alive

\* Whoever has made the table longer has its new end to itself, ...
NewEnd ==
    \A r \in Readers : pc[r] = "own" =>
        /\ loc[r].n < pidnum
        /\ \A q \in Readers : Registered(q) => sig_idx[q] # loc[r].n

\* ... and whoever is about to open the pipe of a slot has the slot.
Claimed == \A r \in Readers : pc[r] = "fifo" => I(r) < pidnum /\ pidset[I(r)] = r

Owned == \A r \in Readers : Registered(r) => sig_idx[r] < pidnum /\ pidset[sig_idx[r]] = r

SlotInv == Exclusive /\ Lives /\ Gone /\ NewEnd /\ Claimed /\ Owned

-----------------------------------------------------------------------------
(* A reader's pipe is written to once for each sq_sigon. *)

\* The places of a writer that it passes in sq_put only, and in sq_create only
PutPC    == {"new", "ready", "test", "look", "pid", "bit", "sigoff"}
CreatePC == VerifyPC \cup {"notify"}
Creating ==
    \A w \in Writers : /\ pc[w] \in PutPC => ~loc[w].create
                       /\ pc[w] \in CreatePC => loc[w].create

\* The bits are those of slots in the table; the one of a slot that is about to
\* fall out of it is off.
BitsInside ==
    /\ \A s \in sigmask : s < pidnum
    /\ \A p \in Procs : pc[p] = "shrink" => I(p) \notin sigmask

\* A slot that sq_put has written to has its bit off, or is about to; one that it
\* is about to write to has not been written to.
BeforeWrite == {"open", "lock", "count", "add", "reset", "write"}
AfterWrite  == {"unlock", "sigoff"}
WokenOff ==
    \A w \in Writers :
        /\ \A s \in woken :
              s \in sigmask => pc[w] \in AfterWrite /\ ~loc[w].create /\ I(w) = s
        /\ pc[w] \in BeforeWrite /\ ~loc[w].create => I(w) \notin woken

OnceInv == Creating /\ BitsInside /\ WokenOff

-----------------------------------------------------------------------------
(* A reader that was asleep when sq_put began to look is woken. *)

Sleeping == \A w \in Writers : \A r \in asleep[w] : pc[r] = "select"

\* It has been written to, or given up, or is still ahead of the loop.
Ahead(w, s) == s \in sigmask /\ (I(w) < s \/ (I(w) = s /\ pc[w] \notin AfterWrite))
Reached(w, s) == pipe[s] > 0 \/ s \in missed \/ Ahead(w, s)
Looked ==
    \A w \in Writers :
        pc[w] \in {"look", "pid", "bit"} \cup BeforeWrite \cup AfterWrite /\ ~loc[w].create =>
            \A r \in asleep[w] : Reached(w, sig_idx[r])

SleepInv == Sleeping /\ Looked

-----------------------------------------------------------------------------
(* Whose step it is *)

\* Nobody but p moves.
Only(p) == \A q \in Procs : q # p => pc'[q] = pc[q] /\ loc'[q] = loc[q]

\* A reader's step moves no other process.
LEMMA OnlyReader ==
    ASSUME TypeInv, NEW r \in Readers, Start(r) \/ Join(r) \/ Loop(r) \/ Die(r)
    PROVE  Only(r)
<1> USE DEF TypeInv, TypeOK, IndexOK, Only, Goto, Turn, Forget
<1>1. CASE VerifyStart(r)
  BY <1>1 DEF VerifyStart
<1>2. CASE VerifyTop(r)
  BY <1>2 DEF VerifyTop
<1>3. CASE VerifyTopOff(r)
  BY <1>3 DEF VerifyTopOff
<1>4. CASE VerifyShrink(r)
  BY <1>4 DEF VerifyShrink
<1>5. CASE VerifyRest(r)
  BY <1>5 DEF VerifyRest
<1>6. CASE VerifyRestOff(r)
  BY <1>6 DEF VerifyRestOff
<1>7. CASE VerifyClear(r)
  BY <1>7 DEF VerifyClear
<1>8. CASE Start(r)
  BY <1>8 DEF Start
<1>9. CASE Scan(r)
  BY <1>9 DEF Scan
<1>10. CASE Claim(r)
  BY <1>10 DEF Claim
<1>11. CASE Extend(r)
  BY <1>11 DEF Extend
<1>12. CASE OldPid(r)
  BY <1>12 DEF OldPid
<1>13. CASE Grow(r)
  BY <1>13 DEF Grow
<1>14. CASE Own(r)
  BY <1>14 DEF Own
<1>15. CASE Fifo(r)
  BY <1>15 DEF Fifo
<1>16. CASE SigOn(r)
  BY <1>16 DEF SigOn
<1>17. CASE Wake(r)
  BY <1>17 DEF Wake, Select
<1>18. CASE Timeout(r)
  BY <1>18 DEF Timeout, Select
<1>19. CASE SigOff(r)
  BY <1>19 DEF SigOff
<1>20. CASE Consume(r)
  BY <1>20 DEF Consume
<1>21. CASE Get(r)
  BY <1>21 DEF Get
<1>22. CASE Die(r)
  BY <1>22 DEF Die
<1> QED
  BY <1>1, <1>2, <1>3, <1>4, <1>5, <1>6, <1>7, <1>8, <1>9, <1>10, <1>11, <1>12, <1>13, <1>14, <1>15, <1>16, <1>17, <1>18, <1>19, <1>20, <1>21, <1>22 DEF Join, Loop, Verify

\* Neither does a writer's.
LEMMA OnlyWriter ==
    ASSUME TypeInv, NEW w \in Writers, Writer(w) \/ MinuteLater(w) \/ Crash(w)
    PROVE  Only(w)
<1> USE DEF TypeInv, TypeOK, IndexOK, Only, Goto, Turn, Forget
<1>1. CASE VerifyStart(w)
  BY <1>1 DEF VerifyStart
<1>2. CASE VerifyTop(w)
  BY <1>2 DEF VerifyTop
<1>3. CASE VerifyTopOff(w)
  BY <1>3 DEF VerifyTopOff
<1>4. CASE VerifyShrink(w)
  BY <1>4 DEF VerifyShrink
<1>5. CASE VerifyRest(w)
  BY <1>5 DEF VerifyRest
<1>6. CASE VerifyRestOff(w)
  BY <1>6 DEF VerifyRestOff
<1>7. CASE VerifyClear(w)
  BY <1>7 DEF VerifyClear
<1>8. CASE Create(w)
  BY <1>8 DEF Create
<1>9. CASE Notify(w)
  BY <1>9 DEF Notify
<1>10. CASE Put(w)
  BY <1>10 DEF Put
<1>11. CASE Test(w)
  BY <1>11 DEF Test
<1>12. CASE Look(w)
  BY <1>12 DEF Look
<1>13. CASE OpenFifo(w)
  BY <1>13 DEF OpenFifo, GivesUp, Signalled
<1>14. CASE LockPipe(w)
  BY <1>14 DEF LockPipe
<1>15. CASE Count(w)
  BY <1>15 DEF Count
<1>16. CASE Add(w)
  BY <1>16 DEF Add, GivesUp, Signalled
<1>17. CASE Reset(w)
  BY <1>17 DEF Reset
<1>18. CASE Write(w)
  BY <1>18 DEF Write
<1>19. CASE Unlock(w)
  BY <1>19 DEF Unlock, Signalled
<1>20. CASE PutSigOff(w)
  BY <1>20 DEF PutSigOff
<1>21. CASE MinuteLater(w)
  BY <1>21 DEF MinuteLater
<1>22. CASE Crash(w)
  BY <1>22 DEF Crash
<1>23. CASE LookPid(w)
  BY <1>23 DEF LookPid
<1>24. CASE LookBit(w)
  BY <1>24 DEF LookBit
<1> QED
  BY <1>1, <1>2, <1>3, <1>4, <1>5, <1>6, <1>7, <1>8, <1>9, <1>10, <1>11, <1>12, <1>13, <1>14, <1>15, <1>16, <1>17, <1>18, <1>19, <1>20, <1>21, <1>22, <1>23, <1>24 DEF Writer, Signal, Verify

-----------------------------------------------------------------------------
(* SlotInv is inductive. *)

\* What SlotInv says of a process at l with the locals c
Safe(p, l, c) ==
    /\ l \in {"topoff", "shrink", "restoff", "clear"} => pidset[c.i] \notin alive
    /\ l = "own" => /\ c.n < pidnum
                    /\ \A q \in Readers : Registered(q) => sig_idx[q] # c.n
    /\ l = "fifo" => c.i < pidnum /\ pidset[c.i] = p

\* All of it follows from SlotInv, of readers and of writers that do not join.
LEMMA SafeAll == ASSUME SlotInv, NEW p \in Procs, p \in Readers \/ pc[p] \notin JoinPC
                 PROVE  Safe(p, pc[p], loc[p])
BY DEF SlotInv, Gone, NewEnd, Claimed, Safe, JoinPC, I

\* A step that leaves the table, the readers and their slots alone, by a process
\* that does not begin to join
LEMMA SlotMoves ==
    ASSUME TypeInv, TypeInv', SlotInv, UNCHANGED <<pidnum, pidset, alive, sig_idx>>,
           NEW p \in Procs, Only(p), Safe(p, pc'[p], loc'[p]),
           pc[p] \notin {"unborn", "dead"}, pc'[p] \notin {"unborn", "dead"},
           pc'[p] \in {"failed"} \cup VerifyPC \cup JoinPC => Joining(p)
    PROVE  SlotInv'
<1>1. Exclusive'
  BY DEF SlotInv, Exclusive, Joining, Only
<1>2. Lives'
  BY DEF SlotInv, Lives, Joining, Only, Procs
<1>3. Gone'
  BY DEF SlotInv, Gone, Safe, Only, I
<1>4. NewEnd'
  BY DEF SlotInv, NewEnd, Safe, Only, Procs, Registered
<1>5. Claimed'
  BY DEF SlotInv, Claimed, Safe, Only, Procs, I
<1>6. Owned'
  BY DEF SlotInv, Owned, Registered
<1> QED
  BY <1>1, <1>2, <1>3, <1>4, <1>5, <1>6 DEF SlotInv

\* A step of the one process that joins, which may change the table
LEMMA SlotChanges ==
    ASSUME TypeInv, SlotInv, UNCHANGED <<alive, sig_idx>>,
           NEW p \in Procs, Only(p), Joining(p), Safe(p, pc[p], loc[p])',
           pc'[p] \notin {"unborn", "dead"}, Owned'
    PROVE  SlotInv'
<1>1. \A q \in Procs : q # p => ~Joining(q) /\ ~Joining(q)'
  BY DEF SlotInv, Exclusive, Joining, Only
<1>2. Exclusive'
  BY <1>1 DEF Exclusive
<1>3. Lives'
  BY DEF SlotInv, Lives, Joining, Only, Procs, VerifyPC, JoinPC
<1>4. Gone'
  BY <1>1 DEF Gone, Safe, Joining, VerifyPC, I
<1>5. NewEnd'
  BY <1>1 DEF NewEnd, Safe, Joining, JoinPC, Procs
<1>6. Claimed'
  BY <1>1 DEF Claimed, Safe, Joining, JoinPC, Procs, I
<1> QED
  BY <1>2, <1>3, <1>4, <1>5, <1>6 DEF SlotInv

\* A step of the search for pids that are gone moves nobody else.
LEMMA OnlyVerify == ASSUME TypeInv, NEW p \in Procs, Verify(p) PROVE Only(p)
BY OnlyReader, OnlyWriter DEF Procs, Join, Writer

\* At first nobody has a slot.
LEMMA InitSlot == Init => SlotInv
<1> SUFFICES ASSUME Init PROVE SlotInv
  OBVIOUS
<1>1. \A p \in Procs : pc[p] \in {"unborn", "new"}
  BY DEF Init
<1>2. \A r \in Readers : pc[r] = "unborn" /\ sig_idx[r] = -1 /\ r \notin alive
  BY DEF Init, Procs
<1>3. Exclusive /\ Gone
  BY <1>1 DEF Exclusive, Gone, Joining, VerifyPC, JoinPC
<1>4. Lives /\ NewEnd /\ Claimed /\ Owned
  BY <1>2 DEF Lives, NewEnd, Claimed, Owned, Registered
<1> QED
  BY <1>3, <1>4 DEF SlotInv

\* Every step keeps SlotInv, as long as processes start one after the other.
LEMMA NextSlot == OneAtATime /\ TypeInv /\ TypeInv' /\ SlotInv /\ [Next]_vars => SlotInv'
<1> SUFFICES ASSUME OneAtATime, TypeInv, TypeInv', SlotInv, [Next]_vars
             PROVE  SlotInv'
  OBVIOUS
<1> USE SignalAssumption DEF At, I
<1>1. ASSUME NEW p \in Procs, VerifyStart(p)
      PROVE  SlotInv'
  <2>1. Only(p) /\ p \in Procs
    BY <1>1, OnlyVerify DEF Verify
  <2>2. pc[p] = "verify" /\ pc'[p] \in {"top"}
    BY <1>1, <2>1 DEF VerifyStart, Goto, Turn, TypeInv, IndexOK
  <2>3. UNCHANGED <<pidnum, pidset, alive, sig_idx>>
    BY <1>1 DEF VerifyStart, table
  <2>4. Safe(p, pc'[p], loc'[p])
    BY <2>2 DEF Safe
  <2> QED
    BY <2>1, <2>2, <2>3, <2>4, SlotMoves DEF Joining, VerifyPC, JoinPC
<1>2. ASSUME NEW p \in Procs, VerifyTop(p)
      PROVE  SlotInv'
  <2>1. Only(p) /\ p \in Procs
    BY <1>2, OnlyVerify DEF Verify
  <2>2. pc[p] = "top" /\ pc'[p] \in {"topoff", "rest"}
    BY <1>2, <2>1 DEF VerifyTop, Goto, Turn, TypeInv, IndexOK
  <2>3. UNCHANGED <<pidnum, pidset, alive, sig_idx>>
    BY <1>2 DEF VerifyTop, table
  <2>4. Safe(p, pc'[p], loc'[p])
    <3>1. CASE pc'[p] \in {"topoff", "restoff"}
      <4>1. loc'[p].i = I(p) /\ pidset[I(p)] \notin alive
        BY <1>2, <2>1, <2>2, <3>1 DEF VerifyTop, Goto, Turn, is_pid_valid, TypeInv, TypeOK, IndexOK, Locals
      <4> QED
        BY <2>2, <3>1, <4>1 DEF Safe
    <3>2. CASE pc'[p] \notin {"topoff", "restoff"}
      BY <2>2, <3>2 DEF Safe
    <3> QED
      BY <3>1, <3>2
  <2> QED
    BY <2>1, <2>2, <2>3, <2>4, SlotMoves DEF Joining, VerifyPC, JoinPC
<1>3. ASSUME NEW p \in Procs, VerifyTopOff(p)
      PROVE  SlotInv'
  <2>1. Only(p) /\ p \in Procs
    BY <1>3, OnlyVerify DEF Verify
  <2>2. pc[p] = "topoff" /\ pc'[p] \in {"shrink"}
    BY <1>3, <2>1 DEF VerifyTopOff, Goto, Turn, TypeInv, IndexOK
  <2>3. UNCHANGED <<pidnum, pidset, alive, sig_idx>>
    BY <1>3 DEF VerifyTopOff, table
  <2>4. Safe(p, pc'[p], loc'[p])
    BY <1>3, <2>1, <2>2 DEF VerifyTopOff, Safe, SlotInv, Gone, Procs
  <2> QED
    BY <2>1, <2>2, <2>3, <2>4, SlotMoves DEF Joining, VerifyPC, JoinPC
<1>4. ASSUME NEW p \in Procs, VerifyShrink(p)
      PROVE  SlotInv'
  <2>1. Only(p) /\ p \in Procs
    BY <1>4, OnlyVerify DEF Verify
  <2>2. pc[p] = "shrink" /\ pc'[p] \in {"top", "rest"}
    BY <1>4, <2>1 DEF VerifyShrink, Goto, Turn, TypeInv, IndexOK
  <2>3. UNCHANGED <<alive, sig_idx>> /\ Joining(p)
    BY <1>4, <2>2 DEF VerifyShrink, table, Joining, VerifyPC, JoinPC
  <2>4. Owned /\ \A q \in Readers : Registered(q) => sig_idx[q] \in Slots
    BY DEF SlotInv, TypeInv, TypeOK, Registered
  <2>5. Safe(p, pc[p], loc[p])'
    BY <2>2 DEF Safe
  <2>6. Owned'
    <3>1. pidset[I(p)] \notin alive /\ I(p) \in Slots
      BY <2>1, <2>2, Local DEF SlotInv, Gone, Index, SlotPC
    <3>2. UNCHANGED pidset /\ (UNCHANGED pidnum \/ (pidnum = I(p) + 1 /\ pidnum' = I(p)))
      BY <1>4 DEF VerifyShrink, Removed
    <3>3. ASSUME NEW q \in Readers, Registered(q)
          PROVE  sig_idx[q] < pidnum' /\ pidset[sig_idx[q]] = q
      <4>1. sig_idx[q] \in Slots /\ sig_idx[q] < pidnum /\ pidset[sig_idx[q]] = q /\ sig_idx[q] # I(p)
        BY <2>4, <3>1, <3>3 DEF Owned, Registered
      <4> QED
        BY <3>1, <3>2, <4>1 DEF Slots
    <3> QED
      BY <2>3, <3>2, <3>3 DEF Owned, Registered
  <2> QED
    BY <2>1, <2>2, <2>3, <2>5, <2>6, SlotChanges
<1>5. ASSUME NEW p \in Procs, VerifyRest(p)
      PROVE  SlotInv'
  <2>1. Only(p) /\ p \in Procs
    BY <1>5, OnlyVerify DEF Verify
  <2>2. pc[p] = "rest" /\ pc'[p] \in {"restoff", "rest", "scan", "notify"}
    BY <1>5, <2>1 DEF VerifyRest, Goto, Turn, TypeInv, IndexOK
  <2>3. UNCHANGED <<pidnum, pidset, alive, sig_idx>>
    BY <1>5 DEF VerifyRest, table
  <2>4. Safe(p, pc'[p], loc'[p])
    <3>1. CASE pc'[p] \in {"topoff", "restoff"}
      <4>1. loc'[p].i = I(p) /\ pidset[I(p)] \notin alive
        BY <1>5, <2>1, <2>2, <3>1 DEF VerifyRest, Goto, Turn, is_pid_valid, TypeInv, TypeOK, IndexOK, Locals
      <4> QED
        BY <2>2, <3>1, <4>1 DEF Safe
    <3>2. CASE pc'[p] \notin {"topoff", "restoff"}
      BY <2>2, <3>2 DEF Safe
    <3> QED
      BY <3>1, <3>2
  <2> QED
    BY <2>1, <2>2, <2>3, <2>4, SlotMoves DEF Joining, VerifyPC, JoinPC
<1>6. ASSUME NEW p \in Procs, VerifyRestOff(p)
      PROVE  SlotInv'
  <2>1. Only(p) /\ p \in Procs
    BY <1>6, OnlyVerify DEF Verify
  <2>2. pc[p] = "restoff" /\ pc'[p] \in {"clear"}
    BY <1>6, <2>1 DEF VerifyRestOff, Goto, Turn, TypeInv, IndexOK
  <2>3. UNCHANGED <<pidnum, pidset, alive, sig_idx>>
    BY <1>6 DEF VerifyRestOff, table
  <2>4. Safe(p, pc'[p], loc'[p])
    BY <1>6, <2>1, <2>2 DEF VerifyRestOff, Safe, SlotInv, Gone, Procs
  <2> QED
    BY <2>1, <2>2, <2>3, <2>4, SlotMoves DEF Joining, VerifyPC, JoinPC
<1>7. ASSUME NEW p \in Procs, VerifyClear(p)
      PROVE  SlotInv'
  <2>1. Only(p) /\ p \in Procs
    BY <1>7, OnlyVerify DEF Verify
  <2>2. pc[p] = "clear" /\ pc'[p] \in {"rest"}
    BY <1>7, <2>1 DEF VerifyClear, Goto, Turn, TypeInv, IndexOK
  <2>3. UNCHANGED <<alive, sig_idx>> /\ Joining(p)
    BY <1>7, <2>2 DEF VerifyClear, table, Joining, VerifyPC, JoinPC
  <2>4. Owned /\ \A q \in Readers : Registered(q) => sig_idx[q] \in Slots
    BY DEF SlotInv, TypeInv, TypeOK, Registered
  <2>5. Safe(p, pc[p], loc[p])'
    BY <2>2 DEF Safe
  <2>6. Owned'
    <3>1. pidset[I(p)] \notin alive /\ I(p) \in Slots
      BY <2>1, <2>2, Local DEF SlotInv, Gone, Index, SlotPC
    <3>2. UNCHANGED pidnum /\ \A s \in Slots : s # I(p) => pidset'[s] = pidset[s]
      BY <1>7 DEF VerifyClear, TypeInv, TypeOK
    <3> QED
      BY <2>3, <2>4, <3>1, <3>2 DEF Owned, Registered
  <2> QED
    BY <2>1, <2>2, <2>3, <2>5, <2>6, SlotChanges
<1>8. ASSUME NEW r \in Readers, Start(r)
      PROVE  SlotInv'
  <2>1. Only(r) /\ r \in Procs
    BY <1>8, OnlyReader DEF Join, Loop, Procs
  <2>2. pc'[r] \in {"verify"}
    BY <1>8, <2>1 DEF Start, Goto, Turn, TypeInv, IndexOK
  <2>3. UNCHANGED <<pidnum, pidset, sig_idx>> /\ alive' = alive \cup {r} /\ sig_idx[r] = -1
    BY <1>8 DEF Start, table, SlotInv, Lives
  <2>4. \A q \in Procs : ~Joining(q)
    BY <1>8 DEF Start, Turnstile, Joining
  <2>5. \A q \in Procs : Joining(q)' => q = r /\ pc'[q] = "verify"
    BY <2>1, <2>2, <2>4 DEF Joining, Only
  <2>6. Exclusive' /\ Gone' /\ NewEnd' /\ Claimed'
    BY <2>5 DEF Exclusive, Gone, NewEnd, Claimed, Joining, VerifyPC, JoinPC, Procs
  <2>7. Lives'
    BY <2>1, <2>2, <2>3 DEF SlotInv, Lives, Only, Joining, Procs, VerifyPC
  <2>8. Owned'
    BY <2>3 DEF SlotInv, Owned, Registered
  <2> QED
    BY <2>6, <2>7, <2>8 DEF SlotInv
<1>9. ASSUME NEW r \in Readers, Scan(r)
      PROVE  SlotInv'
  <2>1. Only(r) /\ r \in Procs
    BY <1>9, OnlyReader DEF Join, Loop, Procs
  <2>2. pc[r] = "scan" /\ pc'[r] \in {"fifo", "claim"}
    BY <1>9, <2>1 DEF Scan, Goto, Turn, TypeInv, IndexOK
  <2>3. UNCHANGED <<pidnum, pidset, alive, sig_idx>>
    BY <1>9 DEF Scan, table
  <2>4. Safe(r, pc'[r], loc'[r])
    <3>1. pc'[r] = "fifo" => loc'[r].i < pidnum /\ pidset[loc'[r].i] = r
      BY <1>9, <2>1 DEF Scan, Goto, Turn, TypeInv, TypeOK, IndexOK, Locals
    <3> QED
      BY <2>2, <3>1 DEF Safe
  <2> QED
    BY <2>1, <2>2, <2>3, <2>4, SlotMoves DEF Joining, VerifyPC, JoinPC
<1>10. ASSUME NEW r \in Readers, Claim(r)
      PROVE  SlotInv'
  <2>1. Only(r) /\ r \in Procs
    BY <1>10, OnlyReader DEF Join, Loop, Procs
  <2>2. pc[r] = "claim" /\ pc'[r] \in {"fifo", "claim", "extend"}
    BY <1>10, <2>1 DEF Claim, Goto, Turn, TypeInv, IndexOK
  <2>3. UNCHANGED <<alive, sig_idx>> /\ Joining(r)
    BY <1>10, <2>2 DEF Claim, table, Joining, VerifyPC, JoinPC
  <2>4. Owned /\ \A q \in Readers : Registered(q) => sig_idx[q] \in Slots
    BY DEF SlotInv, TypeInv, TypeOK, Registered
  <2>5. Safe(r, pc[r], loc[r])'
    <3>1. pc'[r] = "fifo" => loc'[r].i < pidnum' /\ pidset'[loc'[r].i] = r
      <4>1. I(r) \in 0 .. SQ_MAX_READER_PROC_NUM /\ pidnum \in 0 .. SQ_MAX_READER_PROC_NUM
        BY <2>1, <2>2, Local DEF Index, Locals, TypeInv, TypeOK
      <4>2. pc'[r] = "fifo" =>
               I(r) < pidnum /\ pidset' = [pidset EXCEPT ![I(r)] = r] /\ UNCHANGED <<loc, pidnum>>
        BY <1>10, <2>1 DEF Claim, Goto, Turn, TypeInv, IndexOK
      <4>3. pc'[r] = "fifo" => I(r) \in Slots
        BY <4>1, <4>2 DEF Slots
      <4> QED
        BY <4>2, <4>3 DEF TypeInv, TypeOK
    <3> QED
      BY <2>2, <3>1 DEF Safe
  <2>6. Owned'
    <3>1. UNCHANGED pidnum /\ \A s \in Slots : pidset[s] # NoPid => pidset'[s] = pidset[s]
      BY <1>10 DEF Claim, TypeInv, TypeOK
    <3> QED
      BY <2>3, <2>4, <3>1 DEF Owned, Registered
  <2> QED
    BY <2>1, <2>2, <2>3, <2>5, <2>6, SlotChanges
<1>11. ASSUME NEW r \in Readers, Extend(r)
      PROVE  SlotInv'
  <2>1. Only(r) /\ r \in Procs
    BY <1>11, OnlyReader DEF Join, Loop, Procs
  <2>2. pc[r] = "extend" /\ pc'[r] \in {"failed", "oldpid"}
    BY <1>11, <2>1 DEF Extend, Goto, Turn, TypeInv, IndexOK
  <2>3. UNCHANGED <<pidnum, pidset, alive, sig_idx>>
    BY <1>11 DEF Extend, table
  <2>4. Safe(r, pc'[r], loc'[r])
    BY <2>2 DEF Safe
  <2> QED
    BY <2>1, <2>2, <2>3, <2>4, SlotMoves DEF Joining, VerifyPC, JoinPC
<1>12. ASSUME NEW r \in Readers, OldPid(r)
      PROVE  SlotInv'
  <2>1. Only(r) /\ r \in Procs
    BY <1>12, OnlyReader DEF Join, Loop, Procs
  <2>2. pc[r] = "oldpid" /\ pc'[r] \in {"grow"}
    BY <1>12, <2>1 DEF OldPid, Goto, Turn, TypeInv, IndexOK
  <2>3. UNCHANGED <<pidnum, pidset, alive, sig_idx>>
    BY <1>12 DEF OldPid, table
  <2>4. Safe(r, pc'[r], loc'[r])
    BY <2>2 DEF Safe
  <2> QED
    BY <2>1, <2>2, <2>3, <2>4, SlotMoves DEF Joining, VerifyPC, JoinPC
<1>13. ASSUME NEW r \in Readers, Grow(r)
      PROVE  SlotInv'
  <2>1. Only(r) /\ r \in Procs
    BY <1>13, OnlyReader DEF Join, Loop, Procs
  <2>2. pc[r] = "grow" /\ pc'[r] \in {"own", "extend"}
    BY <1>13, <2>1 DEF Grow, Goto, Turn, TypeInv, IndexOK
  <2>3. UNCHANGED <<alive, sig_idx>> /\ Joining(r)
    BY <1>13, <2>2 DEF Grow, table, Joining, VerifyPC, JoinPC
  <2>4. Owned /\ \A q \in Readers : Registered(q) => sig_idx[q] \in Slots
    BY DEF SlotInv, TypeInv, TypeOK, Registered
  <2>5. Safe(r, pc[r], loc[r])'
    <3>1. loc[r].n \in Slots /\ UNCHANGED <<loc, pidset>>
      BY <1>13, <2>1, <2>2, Local DEF Grow, Index
    <3>2. pc'[r] = "own" => pidnum = loc[r].n /\ pidnum' = loc[r].n + 1
      BY <1>13, <2>1 DEF Grow, Goto, TypeInv, IndexOK
    <3>3. pc'[r] = "own" => \A q \in Readers : Registered(q) => sig_idx[q] # loc[r].n
      BY <2>4, <3>1, <3>2 DEF Owned, Slots
    <3>4. pc'[r] = "own" => loc[r].n < pidnum'
      BY <3>1, <3>2 DEF Slots
    <3> QED
      BY <2>2, <2>3, <3>1, <3>3, <3>4 DEF Safe, Registered
  <2>6. Owned'
    <3>1. loc[r].n \in Slots /\ UNCHANGED pidset
      BY <1>13, <2>1, <2>2, Local DEF Grow, Index
    <3>2. UNCHANGED pidnum \/ (pidnum = loc[r].n /\ pidnum' = pidnum + 1)
      BY <1>13 DEF Grow
    <3>3. ASSUME NEW q \in Readers, Registered(q)
          PROVE  sig_idx[q] < pidnum' /\ pidset[sig_idx[q]] = q
      <4>1. sig_idx[q] \in Slots /\ sig_idx[q] < pidnum /\ pidset[sig_idx[q]] = q
        BY <2>4, <3>3 DEF Owned
      <4> QED
        BY <3>1, <3>2, <4>1 DEF Slots
    <3> QED
      BY <2>3, <3>1, <3>3 DEF Owned, Registered
  <2> QED
    BY <2>1, <2>2, <2>3, <2>5, <2>6, SlotChanges
<1>14. ASSUME NEW r \in Readers, Own(r)
      PROVE  SlotInv'
  <2>1. Only(r) /\ r \in Procs
    BY <1>14, OnlyReader DEF Join, Loop, Procs
  <2>2. pc[r] = "own" /\ pc'[r] \in {"fifo", "extend"}
    BY <1>14, <2>1 DEF Own, Goto, Turn, TypeInv, IndexOK
  <2>3. UNCHANGED <<alive, sig_idx>> /\ Joining(r)
    BY <1>14, <2>2 DEF Own, table, Joining, VerifyPC, JoinPC
  <2>4. Owned /\ \A q \in Readers : Registered(q) => sig_idx[q] \in Slots
    BY DEF SlotInv, TypeInv, TypeOK, Registered
  <2>5. Safe(r, pc[r], loc[r])'
    <3>1. pc'[r] = "fifo" => loc'[r].i < pidnum' /\ pidset'[loc'[r].i] = r
      <4>1. loc[r].n \in Slots /\ loc[r].n < pidnum
        BY <2>1, <2>2, Local DEF Index, SlotInv, NewEnd
      <4>2. pc'[r] = "fifo" =>
               /\ pidset' = [pidset EXCEPT ![loc[r].n] = r] /\ loc' = [loc EXCEPT ![r].i = loc[r].n]
               /\ UNCHANGED pidnum
        BY <1>14, <2>1 DEF Own, Goto, Turn, TypeInv, IndexOK
      <4>3. pc'[r] = "fifo" => loc'[r].i = loc[r].n
        BY <2>1, <4>2 DEF TypeInv, TypeOK, Locals
      <4> QED
        BY <4>1, <4>2, <4>3 DEF TypeInv, TypeOK
    <3> QED
      BY <2>2, <3>1 DEF Safe
  <2>6. Owned'
    <3>1. UNCHANGED pidnum /\ \A s \in Slots : s # loc[r].n => pidset'[s] = pidset[s]
      BY <1>14 DEF Own, TypeInv, TypeOK
    <3>2. \A q \in Readers : Registered(q) => sig_idx[q] # loc[r].n
      BY <2>2 DEF SlotInv, NewEnd
    <3> QED
      BY <2>3, <2>4, <3>1, <3>2 DEF Owned, Registered
  <2> QED
    BY <2>1, <2>2, <2>3, <2>5, <2>6, SlotChanges
<1>15. ASSUME NEW r \in Readers, Fifo(r)
      PROVE  SlotInv'
  <2>1. Only(r) /\ r \in Procs
    BY <1>15, OnlyReader DEF Join, Loop, Procs
  <2>2. pc[r] = "fifo" /\ pc'[r] \in {"on", "failed"}
    BY <1>15, <2>1 DEF Fifo, Goto, Turn, TypeInv, IndexOK
  <2>3. CASE pc'[r] = "on"
    <3>1. UNCHANGED <<pidnum, pidset, alive>> /\ sig_idx' = [sig_idx EXCEPT ![r] = I(r)]
      BY <1>15, <2>1, <2>3 DEF Fifo, table, Goto, TypeInv, IndexOK
    <3>2. \A q \in Procs : ~Joining(q)'
      BY <2>1, <2>2, <2>3 DEF SlotInv, Exclusive, Joining, Only, JoinPC, VerifyPC
    <3>3. Exclusive' /\ Gone' /\ NewEnd' /\ Claimed'
      BY <3>2 DEF Exclusive, Gone, NewEnd, Claimed, Joining, VerifyPC, JoinPC, Procs
    <3>4. Lives'
      BY <2>1, <2>2, <2>3, <3>1, <3>2 DEF SlotInv, Lives, Only, Joining, Procs, TypeInv, TypeOK
    <3>5. Owned'
      BY <2>2, <3>1 DEF SlotInv, Claimed, Owned, Registered, TypeInv, TypeOK
    <3> QED
      BY <3>3, <3>4, <3>5 DEF SlotInv
  <2>4. CASE pc'[r] = "failed"
    <3>1. UNCHANGED <<pidnum, pidset, alive, sig_idx>>
      BY <1>15, <2>1, <2>4 DEF Fifo, table, Goto, TypeInv, IndexOK
    <3>2. Safe(r, pc'[r], loc'[r])
      BY <2>4 DEF Safe
    <3> QED
      BY <2>1, <2>2, <2>4, <3>1, <3>2, SlotMoves DEF Joining, VerifyPC, JoinPC
  <2> QED
    BY <2>2, <2>3, <2>4
<1>16. ASSUME NEW r \in Readers, SigOn(r)
      PROVE  SlotInv'
  <2>1. Only(r) /\ r \in Procs
    BY <1>16, OnlyReader DEF Join, Loop, Procs
  <2>2. pc[r] = "on" /\ pc'[r] \in {"select"}
    BY <1>16, <2>1 DEF SigOn, Goto, Turn, TypeInv, IndexOK
  <2>3. UNCHANGED <<pidnum, pidset, alive, sig_idx>>
    BY <1>16 DEF SigOn, table
  <2>4. Safe(r, pc'[r], loc'[r])
    BY <2>2 DEF Safe
  <2> QED
    BY <2>1, <2>2, <2>3, <2>4, SlotMoves DEF Joining, VerifyPC, JoinPC
<1>17. ASSUME NEW r \in Readers, Wake(r)
      PROVE  SlotInv'
  <2>1. Only(r) /\ r \in Procs
    BY <1>17, OnlyReader DEF Join, Loop, Procs
  <2>2. pc[r] = "select" /\ pc'[r] \in {"off"}
    BY <1>17, <2>1 DEF Wake, Select, Goto, Turn, TypeInv, IndexOK
  <2>3. UNCHANGED <<pidnum, pidset, alive, sig_idx>>
    BY <1>17 DEF Wake, Select, table
  <2>4. Safe(r, pc'[r], loc'[r])
    BY <2>2 DEF Safe
  <2> QED
    BY <2>1, <2>2, <2>3, <2>4, SlotMoves DEF Joining, VerifyPC, JoinPC
<1>18. ASSUME NEW r \in Readers, Timeout(r)
      PROVE  SlotInv'
  <2>1. Only(r) /\ r \in Procs
    BY <1>18, OnlyReader DEF Join, Loop, Procs
  <2>2. pc[r] = "select" /\ pc'[r] \in {"off"}
    BY <1>18, <2>1 DEF Timeout, Select, Goto, Turn, TypeInv, IndexOK
  <2>3. UNCHANGED <<pidnum, pidset, alive, sig_idx>>
    BY <1>18 DEF Timeout, Select, table
  <2>4. Safe(r, pc'[r], loc'[r])
    BY <2>2 DEF Safe
  <2> QED
    BY <2>1, <2>2, <2>3, <2>4, SlotMoves DEF Joining, VerifyPC, JoinPC
<1>19. ASSUME NEW r \in Readers, SigOff(r)
      PROVE  SlotInv'
  <2>1. Only(r) /\ r \in Procs
    BY <1>19, OnlyReader DEF Join, Loop, Procs
  <2>2. pc[r] = "off" /\ pc'[r] \in {"consume", "get"}
    BY <1>19, <2>1 DEF SigOff, Goto, Turn, TypeInv, IndexOK
  <2>3. UNCHANGED <<pidnum, pidset, alive, sig_idx>>
    BY <1>19 DEF SigOff, table
  <2>4. Safe(r, pc'[r], loc'[r])
    BY <2>2 DEF Safe
  <2> QED
    BY <2>1, <2>2, <2>3, <2>4, SlotMoves DEF Joining, VerifyPC, JoinPC
<1>20. ASSUME NEW r \in Readers, Consume(r)
      PROVE  SlotInv'
  <2>1. Only(r) /\ r \in Procs
    BY <1>20, OnlyReader DEF Join, Loop, Procs
  <2>2. pc[r] = "consume" /\ pc'[r] \in {"get"}
    BY <1>20, <2>1 DEF Consume, Goto, Turn, TypeInv, IndexOK
  <2>3. UNCHANGED <<pidnum, pidset, alive, sig_idx>>
    BY <1>20 DEF Consume, table
  <2>4. Safe(r, pc'[r], loc'[r])
    BY <2>2 DEF Safe
  <2> QED
    BY <2>1, <2>2, <2>3, <2>4, SlotMoves DEF Joining, VerifyPC, JoinPC
<1>21. ASSUME NEW r \in Readers, Get(r)
      PROVE  SlotInv'
  <2>1. Only(r) /\ r \in Procs
    BY <1>21, OnlyReader DEF Join, Loop, Procs
  <2>2. pc[r] = "get" /\ pc'[r] \in {"on"}
    BY <1>21, <2>1 DEF Get, Goto, Turn, TypeInv, IndexOK
  <2>3. UNCHANGED <<pidnum, pidset, alive, sig_idx>>
    BY <1>21 DEF Get, table
  <2>4. Safe(r, pc'[r], loc'[r])
    BY <2>2 DEF Safe
  <2> QED
    BY <2>1, <2>2, <2>3, <2>4, SlotMoves DEF Joining, VerifyPC, JoinPC
<1>22. ASSUME NEW r \in Readers, Die(r)
      PROVE  SlotInv'
  <2>1. Only(r) /\ r \in Procs
    BY <1>22, OnlyReader DEF Join, Loop, Procs
  <2>2. pc'[r] \in {"dead"}
    BY <1>22, <2>1 DEF Die, Goto, Turn, TypeInv, IndexOK
  <2>3. /\ UNCHANGED <<pidnum, pidset>> /\ alive' = alive \ {r}
        /\ sig_idx' = [sig_idx EXCEPT ![r] = -1]
    BY <1>22 DEF Die, table
  <2>4. \A q \in Readers : Registered(q)' => Registered(q) /\ sig_idx'[q] = sig_idx[q]
    BY <2>3 DEF Registered, TypeInv, TypeOK
  <2>5. Exclusive' /\ Gone'
    BY <2>1, <2>2, <2>3 DEF SlotInv, Exclusive, Gone, Joining, Only, VerifyPC, JoinPC
  <2>6. Lives'
    BY <2>1, <2>2, <2>3 DEF SlotInv, Lives, Only, Joining, Procs, TypeInv, TypeOK
  <2>7. NewEnd' /\ Claimed'
    BY <2>1, <2>2, <2>3, <2>4 DEF SlotInv, NewEnd, Claimed, Only, Procs
  <2>8. Owned'
    BY <2>3, <2>4 DEF SlotInv, Owned
  <2> QED
    BY <2>5, <2>6, <2>7, <2>8 DEF SlotInv
<1>23. ASSUME NEW w \in Writers, Create(w)
      PROVE  SlotInv'
  <2>1. Only(w) /\ w \in Procs
    BY <1>23, OnlyWriter DEF Writer, Signal, Procs
  <2>2. pc[w] = "new" /\ pc'[w] \in {"verify"}
    BY <1>23, <2>1 DEF Create, Goto, Turn, TypeInv, IndexOK
  <2>3. UNCHANGED <<pidnum, pidset, sig_idx>> /\ UNCHANGED alive
    BY <1>23 DEF Create, table
  <2>4. \A q \in Procs : ~Joining(q)
    BY <1>23 DEF Create, Turnstile, Joining
  <2>5. \A q \in Procs : Joining(q)' => q = w /\ pc'[q] = "verify"
    BY <2>1, <2>2, <2>4 DEF Joining, Only
  <2>6. Exclusive' /\ Gone' /\ NewEnd' /\ Claimed'
    BY <2>5 DEF Exclusive, Gone, NewEnd, Claimed, Joining, VerifyPC, JoinPC, Procs
  <2>7. Lives' /\ Owned'
    BY <2>1, <2>3, NotBoth DEF SlotInv, Lives, Owned, Registered, Only, Joining, Procs
  <2> QED
    BY <2>6, <2>7 DEF SlotInv
<1>24. ASSUME NEW w \in Writers, Notify(w)
      PROVE  SlotInv'
  <2>1. Only(w) /\ w \in Procs
    BY <1>24, OnlyWriter DEF Writer, Signal, Procs
  <2>2. pc[w] = "notify" /\ pc'[w] \in {"open", "ready"}
    BY <1>24, <2>1 DEF Notify, Goto, Turn, TypeInv, IndexOK
  <2>3. UNCHANGED <<pidnum, pidset, alive, sig_idx>>
    BY <1>24 DEF Notify, table
  <2>4. Safe(w, pc'[w], loc'[w])
    BY <2>2 DEF Safe
  <2> QED
    BY <2>1, <2>2, <2>3, <2>4, SlotMoves DEF Joining, VerifyPC, JoinPC
<1>25. ASSUME NEW w \in Writers, Put(w)
      PROVE  SlotInv'
  <2>1. Only(w) /\ w \in Procs
    BY <1>25, OnlyWriter DEF Writer, Signal, Procs
  <2>2. pc[w] = "ready" /\ pc'[w] \in {"test"}
    BY <1>25, <2>1 DEF Put, Goto, Turn, TypeInv, IndexOK
  <2>3. UNCHANGED <<pidnum, pidset, alive, sig_idx>>
    BY <1>25 DEF Put, table
  <2>4. Safe(w, pc'[w], loc'[w])
    BY <2>2 DEF Safe
  <2> QED
    BY <2>1, <2>2, <2>3, <2>4, SlotMoves DEF Joining, VerifyPC, JoinPC
<1>26. ASSUME NEW w \in Writers, Test(w)
      PROVE  SlotInv'
  <2>1. Only(w) /\ w \in Procs
    BY <1>26, OnlyWriter DEF Writer, Signal, Procs
  <2>2. pc[w] = "test" /\ pc'[w] \in {"look", "ready"}
    BY <1>26, <2>1 DEF Test, Goto, Turn, TypeInv, IndexOK
  <2>3. UNCHANGED <<pidnum, pidset, alive, sig_idx>>
    BY <1>26 DEF Test, table
  <2>4. Safe(w, pc'[w], loc'[w])
    BY <2>2 DEF Safe
  <2> QED
    BY <2>1, <2>2, <2>3, <2>4, SlotMoves DEF Joining, VerifyPC, JoinPC
<1>27. ASSUME NEW w \in Writers, Look(w)
      PROVE  SlotInv'
  <2>1. Only(w) /\ w \in Procs
    BY <1>27, OnlyWriter DEF Writer, Signal, Procs
  <2>2. pc[w] = "look" /\ pc'[w] \in {"ready", "pid"}
    BY <1>27, <2>1 DEF Look, Goto, Turn, TypeInv, IndexOK
  <2>3. UNCHANGED <<pidnum, pidset, alive, sig_idx>>
    BY <1>27 DEF Look, table
  <2>4. Safe(w, pc'[w], loc'[w])
    BY <2>2 DEF Safe
  <2> QED
    BY <2>1, <2>2, <2>3, <2>4, SlotMoves DEF Joining, VerifyPC, JoinPC
<1>28. ASSUME NEW w \in Writers, OpenFifo(w)
      PROVE  SlotInv'
  <2>1. Only(w) /\ w \in Procs
    BY <1>28, OnlyWriter DEF Writer, Signal, Procs
  <2>2. pc[w] = "open" /\ pc'[w] \in {"lock", "sigoff", "notify"}
    BY <1>28, <2>1 DEF OpenFifo, GivesUp, Signalled, Goto, Turn, TypeInv, IndexOK
  <2>3. UNCHANGED <<pidnum, pidset, alive, sig_idx>>
    BY <1>28 DEF OpenFifo, GivesUp, Signalled, table
  <2>4. Safe(w, pc'[w], loc'[w])
    BY <2>2 DEF Safe
  <2> QED
    BY <2>1, <2>2, <2>3, <2>4, SlotMoves DEF Joining, VerifyPC, JoinPC
<1>29. ASSUME NEW w \in Writers, LockPipe(w)
      PROVE  SlotInv'
  <2>1. Only(w) /\ w \in Procs
    BY <1>29, OnlyWriter DEF Writer, Signal, Procs
  <2>2. pc[w] = "lock" /\ pc'[w] \in {"count", "reset"}
    BY <1>29, <2>1 DEF LockPipe, Goto, Turn, TypeInv, IndexOK
  <2>3. UNCHANGED <<pidnum, pidset, alive, sig_idx>>
    BY <1>29 DEF LockPipe, table
  <2>4. Safe(w, pc'[w], loc'[w])
    BY <2>2 DEF Safe
  <2> QED
    BY <2>1, <2>2, <2>3, <2>4, SlotMoves DEF Joining, VerifyPC, JoinPC
<1>30. ASSUME NEW w \in Writers, Count(w)
      PROVE  SlotInv'
  <2>1. Only(w) /\ w \in Procs
    BY <1>30, OnlyWriter DEF Writer, Signal, Procs
  <2>2. pc[w] = "count" /\ pc'[w] \in {"reset", "add"}
    BY <1>30, <2>1 DEF Count, Goto, Turn, TypeInv, IndexOK
  <2>3. UNCHANGED <<pidnum, pidset, alive, sig_idx>>
    BY <1>30 DEF Count, table
  <2>4. Safe(w, pc'[w], loc'[w])
    BY <2>2 DEF Safe
  <2> QED
    BY <2>1, <2>2, <2>3, <2>4, SlotMoves DEF Joining, VerifyPC, JoinPC
<1>31. ASSUME NEW w \in Writers, Add(w)
      PROVE  SlotInv'
  <2>1. Only(w) /\ w \in Procs
    BY <1>31, OnlyWriter DEF Writer, Signal, Procs
  <2>2. pc[w] = "add" /\ pc'[w] \in {"sigoff", "notify"}
    BY <1>31, <2>1 DEF Add, GivesUp, Signalled, Goto, Turn, TypeInv, IndexOK
  <2>3. UNCHANGED <<pidnum, pidset, alive, sig_idx>>
    BY <1>31 DEF Add, GivesUp, Signalled, table
  <2>4. Safe(w, pc'[w], loc'[w])
    BY <2>2 DEF Safe
  <2> QED
    BY <2>1, <2>2, <2>3, <2>4, SlotMoves DEF Joining, VerifyPC, JoinPC
<1>32. ASSUME NEW w \in Writers, Reset(w)
      PROVE  SlotInv'
  <2>1. Only(w) /\ w \in Procs
    BY <1>32, OnlyWriter DEF Writer, Signal, Procs
  <2>2. pc[w] = "reset" /\ pc'[w] \in {"write"}
    BY <1>32, <2>1 DEF Reset, Goto, Turn, TypeInv, IndexOK
  <2>3. UNCHANGED <<pidnum, pidset, alive, sig_idx>>
    BY <1>32 DEF Reset, table
  <2>4. Safe(w, pc'[w], loc'[w])
    BY <2>2 DEF Safe
  <2> QED
    BY <2>1, <2>2, <2>3, <2>4, SlotMoves DEF Joining, VerifyPC, JoinPC
<1>33. ASSUME NEW w \in Writers, Write(w)
      PROVE  SlotInv'
  <2>1. Only(w) /\ w \in Procs
    BY <1>33, OnlyWriter DEF Writer, Signal, Procs
  <2>2. pc[w] = "write" /\ pc'[w] \in {"unlock"}
    BY <1>33, <2>1 DEF Write, Goto, Turn, TypeInv, IndexOK
  <2>3. UNCHANGED <<pidnum, pidset, alive, sig_idx>>
    BY <1>33 DEF Write, table
  <2>4. Safe(w, pc'[w], loc'[w])
    BY <2>2 DEF Safe
  <2> QED
    BY <2>1, <2>2, <2>3, <2>4, SlotMoves DEF Joining, VerifyPC, JoinPC
<1>34. ASSUME NEW w \in Writers, Unlock(w)
      PROVE  SlotInv'
  <2>1. Only(w) /\ w \in Procs
    BY <1>34, OnlyWriter DEF Writer, Signal, Procs
  <2>2. pc[w] = "unlock" /\ pc'[w] \in {"sigoff", "notify"}
    BY <1>34, <2>1 DEF Unlock, Signalled, Goto, Turn, TypeInv, IndexOK
  <2>3. UNCHANGED <<pidnum, pidset, alive, sig_idx>>
    BY <1>34 DEF Unlock, Signalled, table
  <2>4. Safe(w, pc'[w], loc'[w])
    BY <2>2 DEF Safe
  <2> QED
    BY <2>1, <2>2, <2>3, <2>4, SlotMoves DEF Joining, VerifyPC, JoinPC
<1>35. ASSUME NEW w \in Writers, PutSigOff(w)
      PROVE  SlotInv'
  <2>1. Only(w) /\ w \in Procs
    BY <1>35, OnlyWriter DEF Writer, Signal, Procs
  <2>2. pc[w] = "sigoff" /\ pc'[w] \in {"look"}
    BY <1>35, <2>1 DEF PutSigOff, Goto, Turn, TypeInv, IndexOK
  <2>3. UNCHANGED <<pidnum, pidset, alive, sig_idx>>
    BY <1>35 DEF PutSigOff, table
  <2>4. Safe(w, pc'[w], loc'[w])
    BY <2>2 DEF Safe
  <2> QED
    BY <2>1, <2>2, <2>3, <2>4, SlotMoves DEF Joining, VerifyPC, JoinPC
<1>36. ASSUME NEW w \in Writers, MinuteLater(w)
      PROVE  SlotInv'
  <2>1. Only(w) /\ w \in Procs
    BY <1>36, OnlyWriter DEF Writer, Signal, Procs
  <2>2. pc'[w] = pc[w]
    BY <1>36, <2>1 DEF MinuteLater, Goto, Turn, TypeInv, IndexOK
  <2>3. UNCHANGED <<pc, loc, pidnum, pidset, alive, sig_idx>>
    BY <1>36 DEF MinuteLater, table
  <2> QED
    BY <2>3 DEF SlotInv, Exclusive, Lives, Gone, NewEnd, Claimed, Owned, Joining, Registered
<1>37. ASSUME NEW w \in Writers, Crash(w)
      PROVE  SlotInv'
  <2>1. Only(w) /\ w \in Procs
    BY <1>37, OnlyWriter DEF Writer, Signal, Procs
  <2>2. pc'[w] \in {"new"}
    BY <1>37, <2>1 DEF Crash, Goto, Turn, TypeInv, IndexOK
  <2>3. UNCHANGED <<pidnum, pidset, alive, sig_idx>> /\ pc[w] \notin {"unborn", "dead"}
    BY <1>37, <2>1, Local DEF Crash, table, WriterPC, VerifyPC
  <2> QED
    BY <2>1, <2>2, <2>3, SlotMoves DEF Safe, VerifyPC, JoinPC
<1>39. ASSUME NEW w \in Writers, LookPid(w)
      PROVE  SlotInv'
  <2>1. Only(w) /\ w \in Procs
    BY <1>39, OnlyWriter DEF Writer, Signal, Procs
  <2>2. pc[w] = "pid" /\ pc'[w] \in {"bit", "look"}
    BY <1>39, <2>1 DEF LookPid, Goto, Turn, TypeInv, IndexOK
  <2>3. UNCHANGED <<pidnum, pidset, alive, sig_idx>>
    BY <1>39 DEF LookPid, table
  <2>4. Safe(w, pc'[w], loc'[w])
    BY <2>2 DEF Safe
  <2> QED
    BY <2>1, <2>2, <2>3, <2>4, SlotMoves DEF Joining, VerifyPC, JoinPC
<1>40. ASSUME NEW w \in Writers, LookBit(w)
      PROVE  SlotInv'
  <2>1. Only(w) /\ w \in Procs
    BY <1>40, OnlyWriter DEF Writer, Signal, Procs
  <2>2. pc[w] = "bit" /\ pc'[w] \in {"open", "look"}
    BY <1>40, <2>1 DEF LookBit, Goto, Turn, TypeInv, IndexOK
  <2>3. UNCHANGED <<pidnum, pidset, alive, sig_idx>>
    BY <1>40 DEF LookBit, table
  <2>4. Safe(w, pc'[w], loc'[w])
    BY <2>2 DEF Safe
  <2> QED
    BY <2>1, <2>2, <2>3, <2>4, SlotMoves DEF Joining, VerifyPC, JoinPC
<1>38. CASE UNCHANGED vars
  BY <1>38 DEF vars, table, SlotInv, Exclusive, Lives, Gone, NewEnd, Claimed, Owned, Joining, Registered
<1> QED
  BY <1>1, <1>2, <1>3, <1>4, <1>5, <1>6, <1>7, <1>8, <1>9, <1>10, <1>11, <1>12, <1>13, <1>14, <1>15, <1>16, <1>17, <1>18, <1>19, <1>20, <1>21, <1>22, <1>23, <1>24, <1>25, <1>26, <1>27, <1>28, <1>29, <1>30, <1>31, <1>32, <1>33, <1>34, <1>35, <1>36, <1>37, <1>38, <1>39, <1>40, Zenon
  DEF Next, Join, Loop, Verify, Writer, Signal, Procs

-----------------------------------------------------------------------------
(* OwnSlot *)

\* The types, and where processes start one after the other, who has which slot
StartInv == TypeInv /\ (OneAtATime => SlotInv)

\* Types, and slots if processes start one after the other, in every state.
LEMMA StartInvariant == Spec => []StartInv
<1>1. Init => StartInv
  BY InitType, InitSlot DEF StartInv
<1>2. StartInv /\ [Next]_vars => StartInv'
  BY NextType, NextSlot DEF StartInv
<1> QED
  BY <1>1, <1>2, PTL DEF Spec

\* If processes start one after the other a registered reader has its slot to
\* itself, whoever dies and is cleaned up after: verify_and_remove_bad_pids and
\* the two ways of taking a slot in sq_get_eventfd never give it away.
THEOREM SlotIsOwn == Spec => []OwnSlot
<1>1. StartInv => OwnSlot
  BY DEF StartInv, SlotInv, Owned, OwnSlot
<1> QED
  BY <1>1, StartInvariant, PTL

-----------------------------------------------------------------------------
(* OnceInv is inductive. *)

\* Whether a writer is in sq_create depends on its own steps only.
LEMMA CreatingMoves ==
    ASSUME TypeInv, Creating, NEW p \in Procs, Only(p),
           p \in Writers => /\ pc'[p] \in PutPC => ~loc'[p].create
                            /\ pc'[p] \in CreatePC => loc'[p].create
    PROVE  Creating'
BY DEF Creating, Only, Procs

\* At first nobody creates or puts.
LEMMA InitCreating == Init => Creating
BY DEF Init, Creating, Procs, Fresh, PutPC, CreatePC, VerifyPC

\* Whether a writer creates stays in step with where it is.
LEMMA NextCreating == TypeInv /\ Creating /\ [Next]_vars => Creating'
<1> SUFFICES ASSUME TypeInv, Creating, [Next]_vars
             PROVE  Creating'
  OBVIOUS
<1> USE SignalAssumption DEF At, I
<1>1. ASSUME NEW r \in Readers, Start(r) \/ Join(r) \/ Loop(r) \/ Die(r)
      PROVE  Creating'
  BY <1>1, OnlyReader, NotBoth, CreatingMoves DEF Procs
<1>2. ASSUME NEW w \in Writers, VerifyStart(w)
      PROVE  Creating'
  <2>1. Only(w) /\ w \in Procs /\ loc[w] \in Locals
    BY <1>2, OnlyWriter, Local DEF Writer, Verify, Procs
  <2>2. pc[w] = "verify" /\ pc'[w] \in {"top"}
    BY <1>2, <2>1 DEF VerifyStart, Goto, Turn, TypeInv, IndexOK
  <2>3. loc'[w].create = loc[w].create
    BY <1>2, <2>1, <2>2 DEF VerifyStart, Goto, Turn, Forget, TypeInv, TypeOK, IndexOK, Locals, Fresh
  <2> QED
    BY <2>1, <2>2, <2>3, CreatingMoves, NotBoth DEF Creating, PutPC, CreatePC, VerifyPC
<1>3. ASSUME NEW w \in Writers, VerifyTop(w)
      PROVE  Creating'
  <2>1. Only(w) /\ w \in Procs /\ loc[w] \in Locals
    BY <1>3, OnlyWriter, Local DEF Writer, Verify, Procs
  <2>2. pc[w] = "top" /\ pc'[w] \in {"topoff", "rest"}
    BY <1>3, <2>1 DEF VerifyTop, Goto, Turn, TypeInv, IndexOK
  <2>3. loc'[w].create = loc[w].create
    BY <1>3, <2>1, <2>2 DEF VerifyTop, Goto, Turn, Forget, TypeInv, TypeOK, IndexOK, Locals, Fresh
  <2> QED
    BY <2>1, <2>2, <2>3, CreatingMoves, NotBoth DEF Creating, PutPC, CreatePC, VerifyPC
<1>4. ASSUME NEW w \in Writers, VerifyTopOff(w)
      PROVE  Creating'
  <2>1. Only(w) /\ w \in Procs /\ loc[w] \in Locals
    BY <1>4, OnlyWriter, Local DEF Writer, Verify, Procs
  <2>2. pc[w] = "topoff" /\ pc'[w] \in {"shrink"}
    BY <1>4, <2>1 DEF VerifyTopOff, Goto, Turn, TypeInv, IndexOK
  <2>3. loc'[w].create = loc[w].create
    BY <1>4, <2>1, <2>2 DEF VerifyTopOff, Goto, Turn, Forget, TypeInv, TypeOK, IndexOK, Locals, Fresh
  <2> QED
    BY <2>1, <2>2, <2>3, CreatingMoves, NotBoth DEF Creating, PutPC, CreatePC, VerifyPC
<1>5. ASSUME NEW w \in Writers, VerifyShrink(w)
      PROVE  Creating'
  <2>1. Only(w) /\ w \in Procs /\ loc[w] \in Locals
    BY <1>5, OnlyWriter, Local DEF Writer, Verify, Procs
  <2>2. pc[w] = "shrink" /\ pc'[w] \in {"top", "rest"}
    BY <1>5, <2>1 DEF VerifyShrink, Goto, Turn, TypeInv, IndexOK
  <2>3. loc'[w].create = loc[w].create
    BY <1>5, <2>1, <2>2 DEF VerifyShrink, Goto, Turn, Forget, TypeInv, TypeOK, IndexOK, Locals, Fresh
  <2> QED
    BY <2>1, <2>2, <2>3, CreatingMoves, NotBoth DEF Creating, PutPC, CreatePC, VerifyPC
<1>6. ASSUME NEW w \in Writers, VerifyRest(w)
      PROVE  Creating'
  <2>1. Only(w) /\ w \in Procs /\ loc[w] \in Locals
    BY <1>6, OnlyWriter, Local DEF Writer, Verify, Procs
  <2>2. pc[w] = "rest" /\ pc'[w] \in {"restoff", "rest", "scan", "notify"}
    BY <1>6, <2>1 DEF VerifyRest, Goto, Turn, TypeInv, IndexOK
  <2>3. loc'[w].create = loc[w].create
    BY <1>6, <2>1, <2>2 DEF VerifyRest, Goto, Turn, Forget, TypeInv, TypeOK, IndexOK, Locals, Fresh
  <2> QED
    BY <2>1, <2>2, <2>3, CreatingMoves, NotBoth DEF Creating, PutPC, CreatePC, VerifyPC
<1>7. ASSUME NEW w \in Writers, VerifyRestOff(w)
      PROVE  Creating'
  <2>1. Only(w) /\ w \in Procs /\ loc[w] \in Locals
    BY <1>7, OnlyWriter, Local DEF Writer, Verify, Procs
  <2>2. pc[w] = "restoff" /\ pc'[w] \in {"clear"}
    BY <1>7, <2>1 DEF VerifyRestOff, Goto, Turn, TypeInv, IndexOK
  <2>3. loc'[w].create = loc[w].create
    BY <1>7, <2>1, <2>2 DEF VerifyRestOff, Goto, Turn, Forget, TypeInv, TypeOK, IndexOK, Locals, Fresh
  <2> QED
    BY <2>1, <2>2, <2>3, CreatingMoves, NotBoth DEF Creating, PutPC, CreatePC, VerifyPC
<1>8. ASSUME NEW w \in Writers, VerifyClear(w)
      PROVE  Creating'
  <2>1. Only(w) /\ w \in Procs /\ loc[w] \in Locals
    BY <1>8, OnlyWriter, Local DEF Writer, Verify, Procs
  <2>2. pc[w] = "clear" /\ pc'[w] \in {"rest"}
    BY <1>8, <2>1 DEF VerifyClear, Goto, Turn, TypeInv, IndexOK
  <2>3. loc'[w].create = loc[w].create
    BY <1>8, <2>1, <2>2 DEF VerifyClear, Goto, Turn, Forget, TypeInv, TypeOK, IndexOK, Locals, Fresh
  <2> QED
    BY <2>1, <2>2, <2>3, CreatingMoves, NotBoth DEF Creating, PutPC, CreatePC, VerifyPC
<1>9. ASSUME NEW w \in Writers, Create(w)
      PROVE  Creating'
  <2>1. Only(w) /\ w \in Procs /\ loc[w] \in Locals
    BY <1>9, OnlyWriter, Local DEF Writer, Signal, Procs
  <2>2. pc[w] = "new" /\ pc'[w] \in {"verify"}
    BY <1>9, <2>1 DEF Create, Goto, Turn, TypeInv, IndexOK
  <2>3. loc'[w].create
    BY <1>9, <2>1, <2>2 DEF Create, Goto, Turn, Forget, TypeInv, TypeOK, IndexOK, Locals, Fresh
  <2> QED
    BY <2>1, <2>2, <2>3, CreatingMoves, NotBoth DEF Creating, PutPC, CreatePC, VerifyPC
<1>10. ASSUME NEW w \in Writers, Notify(w)
      PROVE  Creating'
  <2>1. Only(w) /\ w \in Procs /\ loc[w] \in Locals
    BY <1>10, OnlyWriter, Local DEF Writer, Signal, Procs
  <2>2. pc[w] = "notify" /\ pc'[w] \in {"open", "ready"}
    BY <1>10, <2>1 DEF Notify, Goto, Turn, TypeInv, IndexOK
  <2>3. (pc'[w] = "ready" => ~loc'[w].create) /\ (pc'[w] # "ready" => loc'[w].create = loc[w].create)
    BY <1>10, <2>1, <2>2 DEF Notify, Goto, Turn, Forget, TypeInv, TypeOK, IndexOK, Locals, Fresh
  <2> QED
    BY <2>1, <2>2, <2>3, CreatingMoves, NotBoth DEF Creating, PutPC, CreatePC, VerifyPC
<1>11. ASSUME NEW w \in Writers, Put(w)
      PROVE  Creating'
  <2>1. Only(w) /\ w \in Procs /\ loc[w] \in Locals
    BY <1>11, OnlyWriter, Local DEF Writer, Signal, Procs
  <2>2. pc[w] = "ready" /\ pc'[w] \in {"test"}
    BY <1>11, <2>1 DEF Put, Goto, Turn, TypeInv, IndexOK
  <2>3. loc'[w].create = loc[w].create
    BY <1>11, <2>1, <2>2 DEF Put, Goto, Turn, Forget, TypeInv, TypeOK, IndexOK, Locals, Fresh
  <2> QED
    BY <2>1, <2>2, <2>3, CreatingMoves, NotBoth DEF Creating, PutPC, CreatePC, VerifyPC
<1>12. ASSUME NEW w \in Writers, Test(w)
      PROVE  Creating'
  <2>1. Only(w) /\ w \in Procs /\ loc[w] \in Locals
    BY <1>12, OnlyWriter, Local DEF Writer, Signal, Procs
  <2>2. pc[w] = "test" /\ pc'[w] \in {"look", "ready"}
    BY <1>12, <2>1 DEF Test, Goto, Turn, TypeInv, IndexOK
  <2>3. loc'[w].create = loc[w].create
    BY <1>12, <2>1, <2>2 DEF Test, Goto, Turn, Forget, TypeInv, TypeOK, IndexOK, Locals, Fresh
  <2> QED
    BY <2>1, <2>2, <2>3, CreatingMoves, NotBoth DEF Creating, PutPC, CreatePC, VerifyPC
<1>13. ASSUME NEW w \in Writers, Look(w)
      PROVE  Creating'
  <2>1. Only(w) /\ w \in Procs /\ loc[w] \in Locals
    BY <1>13, OnlyWriter, Local DEF Writer, Signal, Procs
  <2>2. pc[w] = "look" /\ pc'[w] \in {"ready", "pid"}
    BY <1>13, <2>1 DEF Look, Goto, Turn, TypeInv, IndexOK
  <2>3. (pc'[w] = "ready" => ~loc'[w].create) /\ (pc'[w] # "ready" => loc'[w].create = loc[w].create)
    BY <1>13, <2>1, <2>2 DEF Look, Goto, Turn, Forget, TypeInv, TypeOK, IndexOK, Locals, Fresh
  <2> QED
    BY <2>1, <2>2, <2>3, CreatingMoves, NotBoth DEF Creating, PutPC, CreatePC, VerifyPC
<1>14. ASSUME NEW w \in Writers, OpenFifo(w)
      PROVE  Creating'
  <2>1. Only(w) /\ w \in Procs /\ loc[w] \in Locals
    BY <1>14, OnlyWriter, Local DEF Writer, Signal, Procs
  <2>2. pc[w] = "open" /\ pc'[w] \in {"lock", "sigoff", "notify"}
    BY <1>14, <2>1 DEF OpenFifo, GivesUp, Signalled, Goto, Turn, TypeInv, IndexOK
  <2>3. loc'[w].create = loc[w].create /\ (pc'[w] = "notify" => loc[w].create) /\ (pc'[w] = "sigoff" => ~loc[w].create)
    BY <1>14, <2>1, <2>2 DEF OpenFifo, GivesUp, Signalled, Goto, Turn, Forget, TypeInv, TypeOK, IndexOK, Locals, Fresh
  <2> QED
    BY <2>1, <2>2, <2>3, CreatingMoves, NotBoth DEF Creating, PutPC, CreatePC, VerifyPC
<1>15. ASSUME NEW w \in Writers, LockPipe(w)
      PROVE  Creating'
  <2>1. Only(w) /\ w \in Procs /\ loc[w] \in Locals
    BY <1>15, OnlyWriter, Local DEF Writer, Signal, Procs
  <2>2. pc[w] = "lock" /\ pc'[w] \in {"count", "reset"}
    BY <1>15, <2>1 DEF LockPipe, Goto, Turn, TypeInv, IndexOK
  <2>3. loc'[w].create = loc[w].create
    BY <1>15, <2>1, <2>2 DEF LockPipe, Goto, Turn, Forget, TypeInv, TypeOK, IndexOK, Locals, Fresh
  <2> QED
    BY <2>1, <2>2, <2>3, CreatingMoves, NotBoth DEF Creating, PutPC, CreatePC, VerifyPC
<1>16. ASSUME NEW w \in Writers, Count(w)
      PROVE  Creating'
  <2>1. Only(w) /\ w \in Procs /\ loc[w] \in Locals
    BY <1>16, OnlyWriter, Local DEF Writer, Signal, Procs
  <2>2. pc[w] = "count" /\ pc'[w] \in {"reset", "add"}
    BY <1>16, <2>1 DEF Count, Goto, Turn, TypeInv, IndexOK
  <2>3. loc'[w].create = loc[w].create
    BY <1>16, <2>1, <2>2 DEF Count, Goto, Turn, Forget, TypeInv, TypeOK, IndexOK, Locals, Fresh
  <2> QED
    BY <2>1, <2>2, <2>3, CreatingMoves, NotBoth DEF Creating, PutPC, CreatePC, VerifyPC
<1>17. ASSUME NEW w \in Writers, Add(w)
      PROVE  Creating'
  <2>1. Only(w) /\ w \in Procs /\ loc[w] \in Locals
    BY <1>17, OnlyWriter, Local DEF Writer, Signal, Procs
  <2>2. pc[w] = "add" /\ pc'[w] \in {"sigoff", "notify"}
    BY <1>17, <2>1 DEF Add, GivesUp, Signalled, Goto, Turn, TypeInv, IndexOK
  <2>3. loc'[w].create = loc[w].create /\ (pc'[w] = "notify" => loc[w].create) /\ (pc'[w] = "sigoff" => ~loc[w].create)
    BY <1>17, <2>1, <2>2 DEF Add, GivesUp, Signalled, Goto, Turn, Forget, TypeInv, TypeOK, IndexOK, Locals, Fresh
  <2> QED
    BY <2>1, <2>2, <2>3, CreatingMoves, NotBoth DEF Creating, PutPC, CreatePC, VerifyPC
<1>18. ASSUME NEW w \in Writers, Reset(w)
      PROVE  Creating'
  <2>1. Only(w) /\ w \in Procs /\ loc[w] \in Locals
    BY <1>18, OnlyWriter, Local DEF Writer, Signal, Procs
  <2>2. pc[w] = "reset" /\ pc'[w] \in {"write"}
    BY <1>18, <2>1 DEF Reset, Goto, Turn, TypeInv, IndexOK
  <2>3. loc'[w].create = loc[w].create
    BY <1>18, <2>1, <2>2 DEF Reset, Goto, Turn, Forget, TypeInv, TypeOK, IndexOK, Locals, Fresh
  <2> QED
    BY <2>1, <2>2, <2>3, CreatingMoves, NotBoth DEF Creating, PutPC, CreatePC, VerifyPC
<1>19. ASSUME NEW w \in Writers, Write(w)
      PROVE  Creating'
  <2>1. Only(w) /\ w \in Procs /\ loc[w] \in Locals
    BY <1>19, OnlyWriter, Local DEF Writer, Signal, Procs
  <2>2. pc[w] = "write" /\ pc'[w] \in {"unlock"}
    BY <1>19, <2>1 DEF Write, Goto, Turn, TypeInv, IndexOK
  <2>3. loc'[w].create = loc[w].create
    BY <1>19, <2>1, <2>2 DEF Write, Goto, Turn, Forget, TypeInv, TypeOK, IndexOK, Locals, Fresh
  <2> QED
    BY <2>1, <2>2, <2>3, CreatingMoves, NotBoth DEF Creating, PutPC, CreatePC, VerifyPC
<1>20. ASSUME NEW w \in Writers, Unlock(w)
      PROVE  Creating'
  <2>1. Only(w) /\ w \in Procs /\ loc[w] \in Locals
    BY <1>20, OnlyWriter, Local DEF Writer, Signal, Procs
  <2>2. pc[w] = "unlock" /\ pc'[w] \in {"sigoff", "notify"}
    BY <1>20, <2>1 DEF Unlock, Signalled, Goto, Turn, TypeInv, IndexOK
  <2>3. loc'[w].create = loc[w].create /\ (pc'[w] = "notify" => loc[w].create) /\ (pc'[w] = "sigoff" => ~loc[w].create)
    BY <1>20, <2>1, <2>2 DEF Unlock, Signalled, Goto, Turn, Forget, TypeInv, TypeOK, IndexOK, Locals, Fresh
  <2> QED
    BY <2>1, <2>2, <2>3, CreatingMoves, NotBoth DEF Creating, PutPC, CreatePC, VerifyPC
<1>21. ASSUME NEW w \in Writers, PutSigOff(w)
      PROVE  Creating'
  <2>1. Only(w) /\ w \in Procs /\ loc[w] \in Locals
    BY <1>21, OnlyWriter, Local DEF Writer, Signal, Procs
  <2>2. pc[w] = "sigoff" /\ pc'[w] \in {"look"}
    BY <1>21, <2>1 DEF PutSigOff, Goto, Turn, TypeInv, IndexOK
  <2>3. loc'[w].create = loc[w].create
    BY <1>21, <2>1, <2>2 DEF PutSigOff, Goto, Turn, Forget, TypeInv, TypeOK, IndexOK, Locals, Fresh
  <2> QED
    BY <2>1, <2>2, <2>3, CreatingMoves, NotBoth DEF Creating, PutPC, CreatePC, VerifyPC
<1>22. ASSUME NEW w \in Writers, MinuteLater(w)
      PROVE  Creating'
  <2>1. Only(w) /\ w \in Procs /\ loc[w] \in Locals
    BY <1>22, OnlyWriter, Local DEF Writer, Signal, Procs
  <2>2. pc'[w] = pc[w]
    BY <1>22, <2>1 DEF MinuteLater, Goto, Turn, TypeInv, IndexOK
  <2>3. loc'[w].create = loc[w].create
    BY <1>22, <2>1, <2>2 DEF MinuteLater, Goto, Turn, Forget, TypeInv, TypeOK, IndexOK, Locals, Fresh
  <2> QED
    BY <2>1, <2>2, <2>3, CreatingMoves, NotBoth DEF Creating, PutPC, CreatePC, VerifyPC
<1>23. ASSUME NEW w \in Writers, Crash(w)
      PROVE  Creating'
  <2>1. Only(w) /\ w \in Procs /\ loc[w] \in Locals
    BY <1>23, OnlyWriter, Local DEF Writer, Signal, Procs
  <2>2. pc'[w] \in {"new"}
    BY <1>23, <2>1 DEF Crash, Goto, Turn, TypeInv, IndexOK
  <2>3. ~loc'[w].create
    BY <1>23, <2>1, <2>2 DEF Crash, Goto, Turn, Forget, TypeInv, TypeOK, IndexOK, Locals, Fresh
  <2> QED
    BY <2>1, <2>2, <2>3, CreatingMoves, NotBoth DEF Creating, PutPC, CreatePC, VerifyPC
<1>25. ASSUME NEW w \in Writers, LookPid(w)
      PROVE  Creating'
  <2>1. Only(w) /\ w \in Procs /\ loc[w] \in Locals
    BY <1>25, OnlyWriter, Local DEF Writer, Signal, Procs
  <2>2. pc[w] = "pid" /\ pc'[w] \in {"bit", "look"}
    BY <1>25, <2>1 DEF LookPid, Goto, Turn, TypeInv, IndexOK
  <2>3. loc'[w].create = loc[w].create
    BY <1>25, <2>1, <2>2 DEF LookPid, Goto, Turn, Forget, TypeInv, TypeOK, IndexOK, Locals, Fresh
  <2> QED
    BY <2>1, <2>2, <2>3, CreatingMoves, NotBoth DEF Creating, PutPC, CreatePC, VerifyPC
<1>26. ASSUME NEW w \in Writers, LookBit(w)
      PROVE  Creating'
  <2>1. Only(w) /\ w \in Procs /\ loc[w] \in Locals
    BY <1>26, OnlyWriter, Local DEF Writer, Signal, Procs
  <2>2. pc[w] = "bit" /\ pc'[w] \in {"open", "look"}
    BY <1>26, <2>1 DEF LookBit, Goto, Turn, TypeInv, IndexOK
  <2>3. loc'[w].create = loc[w].create
    BY <1>26, <2>1, <2>2 DEF LookBit, Goto, Turn, Forget, TypeInv, TypeOK, IndexOK, Locals, Fresh
  <2> QED
    BY <2>1, <2>2, <2>3, CreatingMoves, NotBoth DEF Creating, PutPC, CreatePC, VerifyPC
<1>24. CASE UNCHANGED vars
  BY <1>24 DEF vars, Creating
<1> QED
  BY <1>1, <1>2, <1>3, <1>4, <1>5, <1>6, <1>7, <1>8, <1>9, <1>10, <1>11, <1>12, <1>13, <1>14, <1>15, <1>16, <1>17, <1>18, <1>19, <1>20, <1>21, <1>22, <1>23, <1>24, <1>25, <1>26, Zenon
  DEF Next, Verify, Writer, Signal

\* A step that makes the table no shorter and sets no bit
LEMMA BitsMove ==
    ASSUME TypeInv, TypeInv', BitsInside, NEW p \in Procs, Only(p),
           pidnum' >= pidnum, sigmask' \subseteq sigmask,
           pc'[p] = "shrink" => loc'[p].i \notin sigmask'
    PROVE  BitsInside'
<1>1. \A s \in sigmask' : s < pidnum'
  <2>1. pidnum \in Int /\ pidnum' \in Int /\ \A s \in sigmask : s \in Int
    BY SignalAssumption DEF TypeInv, TypeOK, Slots
  <2> QED
    BY <2>1 DEF BitsInside
<1>2. \A q \in Procs : pc'[q] = "shrink" => loc'[q].i \notin sigmask'
  BY DEF BitsInside, Only, I
<1> QED
  BY <1>1, <1>2 DEF BitsInside, I

\* A reader in its loop has its slot, which nobody is removing.
LEMMA InLoop ==
    ASSUME TypeInv, SlotInv, NEW r \in Readers, pc[r] \in LoopPC
    PROVE  /\ r \in alive /\ Registered(r) /\ sig_idx[r] \in Slots
           /\ sig_idx[r] < pidnum /\ pidset[sig_idx[r]] = r
           /\ \A p \in Procs : pc[p] \in {"topoff", "shrink", "restoff", "clear"} => I(p) # sig_idx[r]
<1>1. r \in alive /\ sig_idx[r] \in Slots
  BY Local DEF SlotInv, Lives, LoopPC, Procs
<1>2. Registered(r)
  BY <1>1 DEF Registered, Slots
<1> QED
  BY <1>1, <1>2 DEF SlotInv, Owned, Gone

\* The mask stays inside the table.
LEMMA NextBits == TypeInv /\ TypeInv' /\ SlotInv /\ BitsInside /\ [Next]_vars => BitsInside'
<1> SUFFICES ASSUME TypeInv, TypeInv', SlotInv, BitsInside, [Next]_vars
             PROVE  BitsInside'
  OBVIOUS
<1> USE SignalAssumption DEF At, I
<1>1. ASSUME NEW p \in Procs, VerifyStart(p)
      PROVE  BitsInside'
  <2>1. Only(p) /\ p \in Procs
    BY <1>1, OnlyVerify DEF Verify
  <2>2. pc[p] = "verify" /\ pc'[p] \in {"top"}
    BY <1>1, <2>1 DEF VerifyStart, Goto, Turn, TypeInv, IndexOK
  <2>3. sigmask' \subseteq sigmask
    BY <1>1 DEF VerifyStart, WithoutBit, BitOff
  <2>4. pidnum' >= pidnum
    BY <1>1 DEF VerifyStart, table, TypeInv, TypeOK
  <2> QED
    BY <2>1, <2>2, <2>3, <2>4, BitsMove
<1>2. ASSUME NEW p \in Procs, VerifyTop(p)
      PROVE  BitsInside'
  <2>1. Only(p) /\ p \in Procs
    BY <1>2, OnlyVerify DEF Verify
  <2>2. pc[p] = "top" /\ pc'[p] \in {"topoff", "rest"}
    BY <1>2, <2>1 DEF VerifyTop, Goto, Turn, TypeInv, IndexOK
  <2>3. sigmask' \subseteq sigmask
    BY <1>2 DEF VerifyTop, WithoutBit, BitOff
  <2>4. pidnum' >= pidnum
    BY <1>2 DEF VerifyTop, table, TypeInv, TypeOK
  <2> QED
    BY <2>1, <2>2, <2>3, <2>4, BitsMove
<1>3. ASSUME NEW p \in Procs, VerifyTopOff(p)
      PROVE  BitsInside'
  <2>1. Only(p) /\ p \in Procs
    BY <1>3, OnlyVerify DEF Verify
  <2>2. pc[p] = "topoff" /\ pc'[p] \in {"shrink"}
    BY <1>3, <2>1 DEF VerifyTopOff, Goto, Turn, TypeInv, IndexOK
  <2>3. sigmask' \subseteq sigmask
    BY <1>3 DEF VerifyTopOff, WithoutBit, BitOff
  <2>4. pidnum' >= pidnum
    BY <1>3 DEF VerifyTopOff, table, TypeInv, TypeOK
  <2>5. loc'[p].i \notin sigmask'
    BY <1>3 DEF VerifyTopOff, WithoutBit, BitsInside
  <2> QED
    BY <2>1, <2>3, <2>4, <2>5, BitsMove
<1>4. ASSUME NEW p \in Procs, VerifyShrink(p)
      PROVE  BitsInside'
  <2>1. Only(p) /\ p \in Procs
    BY <1>4, OnlyVerify DEF Verify
  <2>2. pc[p] = "shrink" /\ pc'[p] \in {"top", "rest"}
    BY <1>4, <2>1 DEF VerifyShrink, Goto, Turn, TypeInv, IndexOK
  <2>3. sigmask' = sigmask /\ (UNCHANGED pidnum \/ (pidnum = I(p) + 1 /\ pidnum' = I(p)))
    BY <1>4 DEF VerifyShrink, Removed
  <2>4. I(p) \in Slots /\ I(p) \notin sigmask
    BY <2>1, <2>2, Local DEF Index, SlotPC, BitsInside
  <2>5. \A s \in sigmask' : s \in Slots /\ s < pidnum /\ s # I(p)
    BY <2>3, <2>4 DEF BitsInside, TypeInv, TypeOK
  <2>6. \A s \in sigmask' : s < pidnum'
    BY <2>3, <2>4, <2>5 DEF Slots
  <2>7. \A q \in Procs : pc'[q] = "shrink" => I(q)' \notin sigmask'
    BY <2>1, <2>2, <2>3 DEF BitsInside, Only
  <2> QED
    BY <2>6, <2>7 DEF BitsInside
<1>5. ASSUME NEW p \in Procs, VerifyRest(p)
      PROVE  BitsInside'
  <2>1. Only(p) /\ p \in Procs
    BY <1>5, OnlyVerify DEF Verify
  <2>2. pc[p] = "rest" /\ pc'[p] \in {"restoff", "rest", "scan", "notify"}
    BY <1>5, <2>1 DEF VerifyRest, Goto, Turn, TypeInv, IndexOK
  <2>3. sigmask' \subseteq sigmask
    BY <1>5 DEF VerifyRest, WithoutBit, BitOff
  <2>4. pidnum' >= pidnum
    BY <1>5 DEF VerifyRest, table, TypeInv, TypeOK
  <2> QED
    BY <2>1, <2>2, <2>3, <2>4, BitsMove
<1>6. ASSUME NEW p \in Procs, VerifyRestOff(p)
      PROVE  BitsInside'
  <2>1. Only(p) /\ p \in Procs
    BY <1>6, OnlyVerify DEF Verify
  <2>2. pc[p] = "restoff" /\ pc'[p] \in {"clear"}
    BY <1>6, <2>1 DEF VerifyRestOff, Goto, Turn, TypeInv, IndexOK
  <2>3. sigmask' \subseteq sigmask
    BY <1>6 DEF VerifyRestOff, WithoutBit, BitOff
  <2>4. pidnum' >= pidnum
    BY <1>6 DEF VerifyRestOff, table, TypeInv, TypeOK
  <2> QED
    BY <2>1, <2>2, <2>3, <2>4, BitsMove
<1>7. ASSUME NEW p \in Procs, VerifyClear(p)
      PROVE  BitsInside'
  <2>1. Only(p) /\ p \in Procs
    BY <1>7, OnlyVerify DEF Verify
  <2>2. pc[p] = "clear" /\ pc'[p] \in {"rest"}
    BY <1>7, <2>1 DEF VerifyClear, Goto, Turn, TypeInv, IndexOK
  <2>3. sigmask' \subseteq sigmask
    BY <1>7 DEF VerifyClear, WithoutBit, BitOff
  <2>4. pidnum' >= pidnum
    BY <1>7 DEF VerifyClear, table, TypeInv, TypeOK
  <2> QED
    BY <2>1, <2>2, <2>3, <2>4, BitsMove
<1>8. ASSUME NEW r \in Readers, Start(r)
      PROVE  BitsInside'
  <2>1. Only(r) /\ r \in Procs
    BY <1>8, OnlyReader DEF Join, Loop, Procs
  <2>2. pc'[r] \in {"verify"}
    BY <1>8, <2>1 DEF Start, Goto, Turn, TypeInv, IndexOK
  <2>3. sigmask' \subseteq sigmask
    BY <1>8 DEF Start, WithoutBit, BitOff
  <2>4. pidnum' >= pidnum
    BY <1>8 DEF Start, table, TypeInv, TypeOK
  <2> QED
    BY <2>1, <2>2, <2>3, <2>4, BitsMove
<1>9. ASSUME NEW r \in Readers, Scan(r)
      PROVE  BitsInside'
  <2>1. Only(r) /\ r \in Procs
    BY <1>9, OnlyReader DEF Join, Loop, Procs
  <2>2. pc[r] = "scan" /\ pc'[r] \in {"fifo", "claim"}
    BY <1>9, <2>1 DEF Scan, Goto, Turn, TypeInv, IndexOK
  <2>3. sigmask' \subseteq sigmask
    BY <1>9 DEF Scan, WithoutBit, BitOff
  <2>4. pidnum' >= pidnum
    BY <1>9 DEF Scan, table, TypeInv, TypeOK
  <2> QED
    BY <2>1, <2>2, <2>3, <2>4, BitsMove
<1>10. ASSUME NEW r \in Readers, Claim(r)
      PROVE  BitsInside'
  <2>1. Only(r) /\ r \in Procs
    BY <1>10, OnlyReader DEF Join, Loop, Procs
  <2>2. pc[r] = "claim" /\ pc'[r] \in {"fifo", "claim", "extend"}
    BY <1>10, <2>1 DEF Claim, Goto, Turn, TypeInv, IndexOK
  <2>3. sigmask' \subseteq sigmask
    BY <1>10 DEF Claim, WithoutBit, BitOff
  <2>4. pidnum' >= pidnum
    BY <1>10 DEF Claim, table, TypeInv, TypeOK
  <2> QED
    BY <2>1, <2>2, <2>3, <2>4, BitsMove
<1>11. ASSUME NEW r \in Readers, Extend(r)
      PROVE  BitsInside'
  <2>1. Only(r) /\ r \in Procs
    BY <1>11, OnlyReader DEF Join, Loop, Procs
  <2>2. pc[r] = "extend" /\ pc'[r] \in {"failed", "oldpid"}
    BY <1>11, <2>1 DEF Extend, Goto, Turn, TypeInv, IndexOK
  <2>3. sigmask' \subseteq sigmask
    BY <1>11 DEF Extend, WithoutBit, BitOff
  <2>4. pidnum' >= pidnum
    BY <1>11 DEF Extend, table, TypeInv, TypeOK
  <2> QED
    BY <2>1, <2>2, <2>3, <2>4, BitsMove
<1>12. ASSUME NEW r \in Readers, OldPid(r)
      PROVE  BitsInside'
  <2>1. Only(r) /\ r \in Procs
    BY <1>12, OnlyReader DEF Join, Loop, Procs
  <2>2. pc[r] = "oldpid" /\ pc'[r] \in {"grow"}
    BY <1>12, <2>1 DEF OldPid, Goto, Turn, TypeInv, IndexOK
  <2>3. sigmask' \subseteq sigmask
    BY <1>12 DEF OldPid, WithoutBit, BitOff
  <2>4. pidnum' >= pidnum
    BY <1>12 DEF OldPid, table, TypeInv, TypeOK
  <2> QED
    BY <2>1, <2>2, <2>3, <2>4, BitsMove
<1>13. ASSUME NEW r \in Readers, Grow(r)
      PROVE  BitsInside'
  <2>1. Only(r) /\ r \in Procs
    BY <1>13, OnlyReader DEF Join, Loop, Procs
  <2>2. pc[r] = "grow" /\ pc'[r] \in {"own", "extend"}
    BY <1>13, <2>1 DEF Grow, Goto, Turn, TypeInv, IndexOK
  <2>3. sigmask' \subseteq sigmask
    BY <1>13 DEF Grow, WithoutBit, BitOff
  <2>4. pidnum' >= pidnum
    <3>1. pidnum \in Int /\ (UNCHANGED pidnum \/ pidnum' = pidnum + 1)
      BY <1>13 DEF Grow, TypeInv, TypeOK
    <3> QED
      BY <3>1
  <2> QED
    BY <2>1, <2>2, <2>3, <2>4, BitsMove
<1>14. ASSUME NEW r \in Readers, Own(r)
      PROVE  BitsInside'
  <2>1. Only(r) /\ r \in Procs
    BY <1>14, OnlyReader DEF Join, Loop, Procs
  <2>2. pc[r] = "own" /\ pc'[r] \in {"fifo", "extend"}
    BY <1>14, <2>1 DEF Own, Goto, Turn, TypeInv, IndexOK
  <2>3. sigmask' \subseteq sigmask
    BY <1>14 DEF Own, WithoutBit, BitOff
  <2>4. pidnum' >= pidnum
    BY <1>14 DEF Own, table, TypeInv, TypeOK
  <2> QED
    BY <2>1, <2>2, <2>3, <2>4, BitsMove
<1>15. ASSUME NEW r \in Readers, Fifo(r)
      PROVE  BitsInside'
  <2>1. Only(r) /\ r \in Procs
    BY <1>15, OnlyReader DEF Join, Loop, Procs
  <2>2. pc[r] = "fifo" /\ pc'[r] \in {"on", "failed"}
    BY <1>15, <2>1 DEF Fifo, Goto, Turn, TypeInv, IndexOK
  <2>3. sigmask' \subseteq sigmask
    BY <1>15 DEF Fifo, WithoutBit, BitOff
  <2>4. pidnum' >= pidnum
    BY <1>15 DEF Fifo, table, TypeInv, TypeOK
  <2> QED
    BY <2>1, <2>2, <2>3, <2>4, BitsMove
<1>16. ASSUME NEW r \in Readers, SigOn(r)
      PROVE  BitsInside'
  <2>1. Only(r) /\ r \in Procs
    BY <1>16, OnlyReader DEF Join, Loop, Procs
  <2>2. pc[r] = "on" /\ pc'[r] \in {"select"}
    BY <1>16, <2>1 DEF SigOn, Goto, Turn, TypeInv, IndexOK
  <2>3. sigmask' \subseteq sigmask \cup {sig_idx[r]} /\ UNCHANGED pidnum
    BY <1>16 DEF SigOn, WithBit, table
  <2>4. pc[r] \in LoopPC
    BY <2>2 DEF LoopPC
  <2>5. \A s \in sigmask' : s < pidnum'
    BY <2>3, <2>4, InLoop DEF BitsInside
  <2>6. \A p \in Procs : pc'[p] = "shrink" => p # r /\ pc[p] = "shrink" /\ loc'[p] = loc[p]
    BY <2>1, <2>2 DEF Only
  <2>7. \A p \in Procs : pc'[p] = "shrink" => I(p)' \notin sigmask'
    BY <2>3, <2>4, <2>6, InLoop DEF BitsInside
  <2> QED
    BY <2>5, <2>7 DEF BitsInside
<1>17. ASSUME NEW r \in Readers, Wake(r)
      PROVE  BitsInside'
  <2>1. Only(r) /\ r \in Procs
    BY <1>17, OnlyReader DEF Join, Loop, Procs
  <2>2. pc[r] = "select" /\ pc'[r] \in {"off"}
    BY <1>17, <2>1 DEF Wake, Select, Goto, Turn, TypeInv, IndexOK
  <2>3. sigmask' \subseteq sigmask
    BY <1>17 DEF Wake, Select, WithoutBit, BitOff
  <2>4. pidnum' >= pidnum
    BY <1>17 DEF Wake, Select, table, TypeInv, TypeOK
  <2> QED
    BY <2>1, <2>2, <2>3, <2>4, BitsMove
<1>18. ASSUME NEW r \in Readers, Timeout(r)
      PROVE  BitsInside'
  <2>1. Only(r) /\ r \in Procs
    BY <1>18, OnlyReader DEF Join, Loop, Procs
  <2>2. pc[r] = "select" /\ pc'[r] \in {"off"}
    BY <1>18, <2>1 DEF Timeout, Select, Goto, Turn, TypeInv, IndexOK
  <2>3. sigmask' \subseteq sigmask
    BY <1>18 DEF Timeout, Select, WithoutBit, BitOff
  <2>4. pidnum' >= pidnum
    BY <1>18 DEF Timeout, Select, table, TypeInv, TypeOK
  <2> QED
    BY <2>1, <2>2, <2>3, <2>4, BitsMove
<1>19. ASSUME NEW r \in Readers, SigOff(r)
      PROVE  BitsInside'
  <2>1. Only(r) /\ r \in Procs
    BY <1>19, OnlyReader DEF Join, Loop, Procs
  <2>2. pc[r] = "off" /\ pc'[r] \in {"consume", "get"}
    BY <1>19, <2>1 DEF SigOff, Goto, Turn, TypeInv, IndexOK
  <2>3. sigmask' \subseteq sigmask
    BY <1>19 DEF SigOff, WithoutBit, BitOff
  <2>4. pidnum' >= pidnum
    BY <1>19 DEF SigOff, table, TypeInv, TypeOK
  <2> QED
    BY <2>1, <2>2, <2>3, <2>4, BitsMove
<1>20. ASSUME NEW r \in Readers, Consume(r)
      PROVE  BitsInside'
  <2>1. Only(r) /\ r \in Procs
    BY <1>20, OnlyReader DEF Join, Loop, Procs
  <2>2. pc[r] = "consume" /\ pc'[r] \in {"get"}
    BY <1>20, <2>1 DEF Consume, Goto, Turn, TypeInv, IndexOK
  <2>3. sigmask' \subseteq sigmask
    BY <1>20 DEF Consume, WithoutBit, BitOff
  <2>4. pidnum' >= pidnum
    BY <1>20 DEF Consume, table, TypeInv, TypeOK
  <2> QED
    BY <2>1, <2>2, <2>3, <2>4, BitsMove
<1>21. ASSUME NEW r \in Readers, Get(r)
      PROVE  BitsInside'
  <2>1. Only(r) /\ r \in Procs
    BY <1>21, OnlyReader DEF Join, Loop, Procs
  <2>2. pc[r] = "get" /\ pc'[r] \in {"on"}
    BY <1>21, <2>1 DEF Get, Goto, Turn, TypeInv, IndexOK
  <2>3. sigmask' \subseteq sigmask
    BY <1>21 DEF Get, WithoutBit, BitOff
  <2>4. pidnum' >= pidnum
    BY <1>21 DEF Get, table, TypeInv, TypeOK
  <2> QED
    BY <2>1, <2>2, <2>3, <2>4, BitsMove
<1>22. ASSUME NEW r \in Readers, Die(r)
      PROVE  BitsInside'
  <2>1. Only(r) /\ r \in Procs
    BY <1>22, OnlyReader DEF Join, Loop, Procs
  <2>2. pc'[r] \in {"dead"}
    BY <1>22, <2>1 DEF Die, Goto, Turn, TypeInv, IndexOK
  <2>3. sigmask' \subseteq sigmask
    BY <1>22 DEF Die, WithoutBit, BitOff
  <2>4. pidnum' >= pidnum
    BY <1>22 DEF Die, table, TypeInv, TypeOK
  <2> QED
    BY <2>1, <2>2, <2>3, <2>4, BitsMove
<1>23. ASSUME NEW w \in Writers, Create(w)
      PROVE  BitsInside'
  <2>1. Only(w) /\ w \in Procs
    BY <1>23, OnlyWriter DEF Writer, Signal, Procs
  <2>2. pc[w] = "new" /\ pc'[w] \in {"verify"}
    BY <1>23, <2>1 DEF Create, Goto, Turn, TypeInv, IndexOK
  <2>3. sigmask' \subseteq sigmask
    BY <1>23 DEF Create, WithoutBit, BitOff
  <2>4. pidnum' >= pidnum
    BY <1>23 DEF Create, table, TypeInv, TypeOK
  <2> QED
    BY <2>1, <2>2, <2>3, <2>4, BitsMove
<1>24. ASSUME NEW w \in Writers, Notify(w)
      PROVE  BitsInside'
  <2>1. Only(w) /\ w \in Procs
    BY <1>24, OnlyWriter DEF Writer, Signal, Procs
  <2>2. pc[w] = "notify" /\ pc'[w] \in {"open", "ready"}
    BY <1>24, <2>1 DEF Notify, Goto, Turn, TypeInv, IndexOK
  <2>3. sigmask' \subseteq sigmask
    BY <1>24 DEF Notify, WithoutBit, BitOff
  <2>4. pidnum' >= pidnum
    BY <1>24 DEF Notify, table, TypeInv, TypeOK
  <2> QED
    BY <2>1, <2>2, <2>3, <2>4, BitsMove
<1>25. ASSUME NEW w \in Writers, Put(w)
      PROVE  BitsInside'
  <2>1. Only(w) /\ w \in Procs
    BY <1>25, OnlyWriter DEF Writer, Signal, Procs
  <2>2. pc[w] = "ready" /\ pc'[w] \in {"test"}
    BY <1>25, <2>1 DEF Put, Goto, Turn, TypeInv, IndexOK
  <2>3. sigmask' \subseteq sigmask
    BY <1>25 DEF Put, WithoutBit, BitOff
  <2>4. pidnum' >= pidnum
    BY <1>25 DEF Put, table, TypeInv, TypeOK
  <2> QED
    BY <2>1, <2>2, <2>3, <2>4, BitsMove
<1>26. ASSUME NEW w \in Writers, Test(w)
      PROVE  BitsInside'
  <2>1. Only(w) /\ w \in Procs
    BY <1>26, OnlyWriter DEF Writer, Signal, Procs
  <2>2. pc[w] = "test" /\ pc'[w] \in {"look", "ready"}
    BY <1>26, <2>1 DEF Test, Goto, Turn, TypeInv, IndexOK
  <2>3. sigmask' \subseteq sigmask
    BY <1>26 DEF Test, WithoutBit, BitOff
  <2>4. pidnum' >= pidnum
    BY <1>26 DEF Test, table, TypeInv, TypeOK
  <2> QED
    BY <2>1, <2>2, <2>3, <2>4, BitsMove
<1>27. ASSUME NEW w \in Writers, Look(w)
      PROVE  BitsInside'
  <2>1. Only(w) /\ w \in Procs
    BY <1>27, OnlyWriter DEF Writer, Signal, Procs
  <2>2. pc[w] = "look" /\ pc'[w] \in {"ready", "pid"}
    BY <1>27, <2>1 DEF Look, Goto, Turn, TypeInv, IndexOK
  <2>3. sigmask' \subseteq sigmask
    BY <1>27 DEF Look
  <2>4. pidnum' >= pidnum
    BY <1>27 DEF Look, table, TypeInv, TypeOK
  <2> QED
    BY <2>1, <2>2, <2>3, <2>4, BitsMove
<1>28. ASSUME NEW w \in Writers, OpenFifo(w)
      PROVE  BitsInside'
  <2>1. Only(w) /\ w \in Procs
    BY <1>28, OnlyWriter DEF Writer, Signal, Procs
  <2>2. pc[w] = "open" /\ pc'[w] \in {"lock", "sigoff", "notify"}
    BY <1>28, <2>1 DEF OpenFifo, GivesUp, Signalled, Goto, Turn, TypeInv, IndexOK
  <2>3. sigmask' \subseteq sigmask
    BY <1>28 DEF OpenFifo, GivesUp, Signalled, WithoutBit, BitOff
  <2>4. pidnum' >= pidnum
    BY <1>28 DEF OpenFifo, GivesUp, Signalled, table, TypeInv, TypeOK
  <2> QED
    BY <2>1, <2>2, <2>3, <2>4, BitsMove
<1>29. ASSUME NEW w \in Writers, LockPipe(w)
      PROVE  BitsInside'
  <2>1. Only(w) /\ w \in Procs
    BY <1>29, OnlyWriter DEF Writer, Signal, Procs
  <2>2. pc[w] = "lock" /\ pc'[w] \in {"count", "reset"}
    BY <1>29, <2>1 DEF LockPipe, Goto, Turn, TypeInv, IndexOK
  <2>3. sigmask' \subseteq sigmask
    BY <1>29 DEF LockPipe, WithoutBit, BitOff
  <2>4. pidnum' >= pidnum
    BY <1>29 DEF LockPipe, table, TypeInv, TypeOK
  <2> QED
    BY <2>1, <2>2, <2>3, <2>4, BitsMove
<1>30. ASSUME NEW w \in Writers, Count(w)
      PROVE  BitsInside'
  <2>1. Only(w) /\ w \in Procs
    BY <1>30, OnlyWriter DEF Writer, Signal, Procs
  <2>2. pc[w] = "count" /\ pc'[w] \in {"reset", "add"}
    BY <1>30, <2>1 DEF Count, Goto, Turn, TypeInv, IndexOK
  <2>3. sigmask' \subseteq sigmask
    BY <1>30 DEF Count, WithoutBit, BitOff
  <2>4. pidnum' >= pidnum
    BY <1>30 DEF Count, table, TypeInv, TypeOK
  <2> QED
    BY <2>1, <2>2, <2>3, <2>4, BitsMove
<1>31. ASSUME NEW w \in Writers, Add(w)
      PROVE  BitsInside'
  <2>1. Only(w) /\ w \in Procs
    BY <1>31, OnlyWriter DEF Writer, Signal, Procs
  <2>2. pc[w] = "add" /\ pc'[w] \in {"sigoff", "notify"}
    BY <1>31, <2>1 DEF Add, GivesUp, Signalled, Goto, Turn, TypeInv, IndexOK
  <2>3. sigmask' \subseteq sigmask
    BY <1>31 DEF Add, GivesUp, Signalled, WithoutBit, BitOff
  <2>4. pidnum' >= pidnum
    BY <1>31 DEF Add, GivesUp, Signalled, table, TypeInv, TypeOK
  <2> QED
    BY <2>1, <2>2, <2>3, <2>4, BitsMove
<1>32. ASSUME NEW w \in Writers, Reset(w)
      PROVE  BitsInside'
  <2>1. Only(w) /\ w \in Procs
    BY <1>32, OnlyWriter DEF Writer, Signal, Procs
  <2>2. pc[w] = "reset" /\ pc'[w] \in {"write"}
    BY <1>32, <2>1 DEF Reset, Goto, Turn, TypeInv, IndexOK
  <2>3. sigmask' \subseteq sigmask
    BY <1>32 DEF Reset, WithoutBit, BitOff
  <2>4. pidnum' >= pidnum
    BY <1>32 DEF Reset, table, TypeInv, TypeOK
  <2> QED
    BY <2>1, <2>2, <2>3, <2>4, BitsMove
<1>33. ASSUME NEW w \in Writers, Write(w)
      PROVE  BitsInside'
  <2>1. Only(w) /\ w \in Procs
    BY <1>33, OnlyWriter DEF Writer, Signal, Procs
  <2>2. pc[w] = "write" /\ pc'[w] \in {"unlock"}
    BY <1>33, <2>1 DEF Write, Goto, Turn, TypeInv, IndexOK
  <2>3. sigmask' \subseteq sigmask
    BY <1>33 DEF Write, WithoutBit, BitOff
  <2>4. pidnum' >= pidnum
    BY <1>33 DEF Write, table, TypeInv, TypeOK
  <2> QED
    BY <2>1, <2>2, <2>3, <2>4, BitsMove
<1>34. ASSUME NEW w \in Writers, Unlock(w)
      PROVE  BitsInside'
  <2>1. Only(w) /\ w \in Procs
    BY <1>34, OnlyWriter DEF Writer, Signal, Procs
  <2>2. pc[w] = "unlock" /\ pc'[w] \in {"sigoff", "notify"}
    BY <1>34, <2>1 DEF Unlock, Signalled, Goto, Turn, TypeInv, IndexOK
  <2>3. sigmask' \subseteq sigmask
    BY <1>34 DEF Unlock, Signalled, WithoutBit, BitOff
  <2>4. pidnum' >= pidnum
    BY <1>34 DEF Unlock, Signalled, table, TypeInv, TypeOK
  <2> QED
    BY <2>1, <2>2, <2>3, <2>4, BitsMove
<1>35. ASSUME NEW w \in Writers, PutSigOff(w)
      PROVE  BitsInside'
  <2>1. Only(w) /\ w \in Procs
    BY <1>35, OnlyWriter DEF Writer, Signal, Procs
  <2>2. pc[w] = "sigoff" /\ pc'[w] \in {"look"}
    BY <1>35, <2>1 DEF PutSigOff, Goto, Turn, TypeInv, IndexOK
  <2>3. sigmask' \subseteq sigmask
    BY <1>35 DEF PutSigOff, WithoutBit, BitOff
  <2>4. pidnum' >= pidnum
    BY <1>35 DEF PutSigOff, table, TypeInv, TypeOK
  <2> QED
    BY <2>1, <2>2, <2>3, <2>4, BitsMove
<1>36. ASSUME NEW w \in Writers, MinuteLater(w)
      PROVE  BitsInside'
  <2>1. Only(w) /\ w \in Procs
    BY <1>36, OnlyWriter DEF Writer, Signal, Procs
  <2> QED
    BY <1>36 DEF MinuteLater, table, BitsInside
<1>37. ASSUME NEW w \in Writers, Crash(w)
      PROVE  BitsInside'
  <2>1. Only(w) /\ w \in Procs
    BY <1>37, OnlyWriter DEF Writer, Signal, Procs
  <2>2. pc'[w] \in {"new"}
    BY <1>37, <2>1 DEF Crash, Goto, Turn, TypeInv, IndexOK
  <2>3. sigmask' \subseteq sigmask
    BY <1>37 DEF Crash, WithoutBit, BitOff
  <2>4. pidnum' >= pidnum
    BY <1>37 DEF Crash, table, TypeInv, TypeOK
  <2> QED
    BY <2>1, <2>2, <2>3, <2>4, BitsMove
<1>39. ASSUME NEW w \in Writers, LookPid(w)
      PROVE  BitsInside'
  <2>1. Only(w) /\ w \in Procs
    BY <1>39, OnlyWriter DEF Writer, Signal, Procs
  <2>2. pc[w] = "pid" /\ pc'[w] \in {"bit", "look"}
    BY <1>39, <2>1 DEF LookPid, Goto, Turn, TypeInv, IndexOK
  <2>3. sigmask' \subseteq sigmask
    BY <1>39 DEF LookPid
  <2>4. pidnum' >= pidnum
    BY <1>39 DEF LookPid, table, TypeInv, TypeOK
  <2> QED
    BY <2>1, <2>2, <2>3, <2>4, BitsMove
<1>40. ASSUME NEW w \in Writers, LookBit(w)
      PROVE  BitsInside'
  <2>1. Only(w) /\ w \in Procs
    BY <1>40, OnlyWriter DEF Writer, Signal, Procs
  <2>2. pc[w] = "bit" /\ pc'[w] \in {"open", "look"}
    BY <1>40, <2>1 DEF LookBit, Goto, Turn, TypeInv, IndexOK
  <2>3. sigmask' \subseteq sigmask
    BY <1>40 DEF LookBit
  <2>4. pidnum' >= pidnum
    BY <1>40 DEF LookBit, table, TypeInv, TypeOK
  <2> QED
    BY <2>1, <2>2, <2>3, <2>4, BitsMove
<1>38. CASE UNCHANGED vars
  BY <1>38 DEF vars, table, BitsInside
<1> QED
  BY <1>1, <1>2, <1>3, <1>4, <1>5, <1>6, <1>7, <1>8, <1>9, <1>10, <1>11, <1>12, <1>13, <1>14, <1>15, <1>16, <1>17, <1>18, <1>19, <1>20, <1>21, <1>22, <1>23, <1>24, <1>25, <1>26, <1>27, <1>28, <1>29, <1>30, <1>31, <1>32, <1>33, <1>34, <1>35, <1>36, <1>37, <1>38, <1>39, <1>40, Zenon
  DEF Next, Join, Loop, Verify, Writer, Signal, Procs

OneWriter == \A v, w \in Writers : v = w

\* A reader's step turns no bit on but one that it takes out of woken.
LEMMA WokenReader ==
    ASSUME TypeInv, WokenOff,
           NEW r \in Readers, Start(r) \/ Join(r) \/ Loop(r) \/ Die(r)
    PROVE  WokenOff'
<1>1. \A w \in Writers : pc'[w] = pc[w] /\ loc'[w] = loc[w]
  BY OnlyReader, NotBoth DEF Only, Procs
<1>2. \A s \in woken' : s \in woken /\ (s \in sigmask' => s \in sigmask)
  <2> USE DEF history, WithBit, WithoutBit
  <2>1. CASE VerifyStart(r)
    BY <2>1 DEF VerifyStart
  <2>2. CASE VerifyTop(r)
    BY <2>2 DEF VerifyTop
  <2>3. CASE VerifyTopOff(r)
    BY <2>3 DEF VerifyTopOff
  <2>4. CASE VerifyShrink(r)
    BY <2>4 DEF VerifyShrink
  <2>5. CASE VerifyRest(r)
    BY <2>5 DEF VerifyRest
  <2>6. CASE VerifyRestOff(r)
    BY <2>6 DEF VerifyRestOff
  <2>7. CASE VerifyClear(r)
    BY <2>7 DEF VerifyClear
  <2>8. CASE Start(r)
    BY <2>8 DEF Start
  <2>9. CASE Scan(r)
    BY <2>9 DEF Scan
  <2>10. CASE Claim(r)
    BY <2>10 DEF Claim
  <2>11. CASE Extend(r)
    BY <2>11 DEF Extend
  <2>12. CASE OldPid(r)
    BY <2>12 DEF OldPid
  <2>13. CASE Grow(r)
    BY <2>13 DEF Grow
  <2>14. CASE Own(r)
    BY <2>14 DEF Own
  <2>15. CASE Fifo(r)
    BY <2>15 DEF Fifo
  <2>16. CASE SigOn(r)
    BY <2>16 DEF SigOn
  <2>17. CASE Wake(r)
    BY <2>17 DEF Wake, Select
  <2>18. CASE Timeout(r)
    BY <2>18 DEF Timeout, Select
  <2>19. CASE SigOff(r)
    BY <2>19 DEF SigOff
  <2>20. CASE Consume(r)
    BY <2>20 DEF Consume
  <2>21. CASE Get(r)
    BY <2>21 DEF Get
  <2>22. CASE Die(r)
    BY <2>22 DEF Die
  <2> QED
    BY <2>1, <2>2, <2>3, <2>4, <2>5, <2>6, <2>7, <2>8, <2>9, <2>10, <2>11, <2>12, <2>13, <2>14, <2>15, <2>16, <2>17, <2>18, <2>19, <2>20, <2>21, <2>22 DEF Join, Loop, Verify
<1> QED
  BY <1>1, <1>2 DEF WokenOff, I

\* A slot that was written to stays off, or its bit is about to be cleared.
LEMMA NextWoken ==
    OneWriter /\ TypeInv /\ Creating /\ BitsInside /\ WokenOff /\ [Next]_vars => WokenOff'
<1> SUFFICES ASSUME OneWriter, TypeInv, Creating, BitsInside, WokenOff, [Next]_vars
             PROVE  WokenOff'
  OBVIOUS
<1> USE SignalAssumption DEF At, I
<1>1. ASSUME NEW r \in Readers, Start(r) \/ Join(r) \/ Loop(r) \/ Die(r)
      PROVE  WokenOff'
  BY <1>1, WokenReader
<1>2. ASSUME NEW w \in Writers, VerifyStart(w)
      PROVE  WokenOff'
  <2>1. w \in Procs /\ loc[w] \in Locals /\ \A v \in Writers : v = w
    BY Local DEF OneWriter, Procs
  <2>2. pc[w] = "verify" /\ pc'[w] \in {"top"}
    BY <1>2, <2>1 DEF VerifyStart, Goto, Turn, TypeInv, IndexOK
  <2>3. sigmask' \subseteq sigmask /\ UNCHANGED woken
    BY <1>2 DEF VerifyStart, history, WithoutBit
  <2> QED
    BY <2>1, <2>2, <2>3 DEF WokenOff, BeforeWrite, AfterWrite
<1>3. ASSUME NEW w \in Writers, VerifyTop(w)
      PROVE  WokenOff'
  <2>1. w \in Procs /\ loc[w] \in Locals /\ \A v \in Writers : v = w
    BY Local DEF OneWriter, Procs
  <2>2. pc[w] = "top" /\ pc'[w] \in {"topoff", "rest"}
    BY <1>3, <2>1 DEF VerifyTop, Goto, Turn, TypeInv, IndexOK
  <2>3. sigmask' \subseteq sigmask /\ UNCHANGED woken
    BY <1>3 DEF VerifyTop, history, WithoutBit
  <2> QED
    BY <2>1, <2>2, <2>3 DEF WokenOff, BeforeWrite, AfterWrite
<1>4. ASSUME NEW w \in Writers, VerifyTopOff(w)
      PROVE  WokenOff'
  <2>1. w \in Procs /\ loc[w] \in Locals /\ \A v \in Writers : v = w
    BY Local DEF OneWriter, Procs
  <2>2. pc[w] = "topoff" /\ pc'[w] \in {"shrink"}
    BY <1>4, <2>1 DEF VerifyTopOff, Goto, Turn, TypeInv, IndexOK
  <2>3. sigmask' \subseteq sigmask /\ UNCHANGED woken
    BY <1>4 DEF VerifyTopOff, history, WithoutBit
  <2> QED
    BY <2>1, <2>2, <2>3 DEF WokenOff, BeforeWrite, AfterWrite
<1>5. ASSUME NEW w \in Writers, VerifyShrink(w)
      PROVE  WokenOff'
  <2>1. w \in Procs /\ loc[w] \in Locals /\ \A v \in Writers : v = w
    BY Local DEF OneWriter, Procs
  <2>2. pc[w] = "shrink" /\ pc'[w] \in {"top", "rest"}
    BY <1>5, <2>1 DEF VerifyShrink, Goto, Turn, TypeInv, IndexOK
  <2>3. sigmask' \subseteq sigmask /\ UNCHANGED woken
    BY <1>5 DEF VerifyShrink, history, WithoutBit
  <2> QED
    BY <2>1, <2>2, <2>3 DEF WokenOff, BeforeWrite, AfterWrite
<1>6. ASSUME NEW w \in Writers, VerifyRest(w)
      PROVE  WokenOff'
  <2>1. w \in Procs /\ loc[w] \in Locals /\ \A v \in Writers : v = w
    BY Local DEF OneWriter, Procs
  <2>2. pc[w] = "rest" /\ pc'[w] \in {"restoff", "rest", "scan", "notify"}
    BY <1>6, <2>1 DEF VerifyRest, Goto, Turn, TypeInv, IndexOK
  <2>3. sigmask' \subseteq sigmask /\ UNCHANGED woken
    BY <1>6 DEF VerifyRest, history, WithoutBit
  <2> QED
    BY <2>1, <2>2, <2>3 DEF WokenOff, BeforeWrite, AfterWrite
<1>7. ASSUME NEW w \in Writers, VerifyRestOff(w)
      PROVE  WokenOff'
  <2>1. w \in Procs /\ loc[w] \in Locals /\ \A v \in Writers : v = w
    BY Local DEF OneWriter, Procs
  <2>2. pc[w] = "restoff" /\ pc'[w] \in {"clear"}
    BY <1>7, <2>1 DEF VerifyRestOff, Goto, Turn, TypeInv, IndexOK
  <2>3. sigmask' \subseteq sigmask /\ UNCHANGED woken
    BY <1>7 DEF VerifyRestOff, history, WithoutBit
  <2> QED
    BY <2>1, <2>2, <2>3 DEF WokenOff, BeforeWrite, AfterWrite
<1>8. ASSUME NEW w \in Writers, VerifyClear(w)
      PROVE  WokenOff'
  <2>1. w \in Procs /\ loc[w] \in Locals /\ \A v \in Writers : v = w
    BY Local DEF OneWriter, Procs
  <2>2. pc[w] = "clear" /\ pc'[w] \in {"rest"}
    BY <1>8, <2>1 DEF VerifyClear, Goto, Turn, TypeInv, IndexOK
  <2>3. sigmask' \subseteq sigmask /\ UNCHANGED woken
    BY <1>8 DEF VerifyClear, history, WithoutBit
  <2> QED
    BY <2>1, <2>2, <2>3 DEF WokenOff, BeforeWrite, AfterWrite
<1>9. ASSUME NEW w \in Writers, Create(w)
      PROVE  WokenOff'
  <2>1. w \in Procs /\ loc[w] \in Locals /\ \A v \in Writers : v = w
    BY Local DEF OneWriter, Procs
  <2>2. pc[w] = "new" /\ pc'[w] \in {"verify"}
    BY <1>9, <2>1 DEF Create, Goto, Turn, TypeInv, IndexOK
  <2>3. sigmask' \subseteq sigmask /\ UNCHANGED woken
    BY <1>9 DEF Create, history, WithoutBit
  <2> QED
    BY <2>1, <2>2, <2>3 DEF WokenOff, BeforeWrite, AfterWrite
<1>10. ASSUME NEW w \in Writers, Notify(w)
      PROVE  WokenOff'
  <2>1. w \in Procs /\ loc[w] \in Locals /\ \A v \in Writers : v = w
    BY Local DEF OneWriter, Procs
  <2>2. pc[w] = "notify" /\ pc'[w] \in {"open", "ready"}
    BY <1>10, <2>1 DEF Notify, Goto, Turn, TypeInv, IndexOK
  <2>3. sigmask' \subseteq sigmask /\ UNCHANGED woken
    BY <1>10 DEF Notify, history, WithoutBit
  <2>4. pc'[w] \in {"open"} => loc'[w] = loc[w]
    BY <1>10, <2>1 DEF Notify, Goto, Turn, TypeInv, IndexOK
  <2> QED
    BY <2>1, <2>2, <2>3, <2>4 DEF WokenOff, Creating, CreatePC, BeforeWrite, AfterWrite
<1>11. ASSUME NEW w \in Writers, Put(w)
      PROVE  WokenOff'
  <2>1. w \in Procs /\ loc[w] \in Locals /\ \A v \in Writers : v = w
    BY Local DEF OneWriter, Procs
  <2>2. pc[w] = "ready" /\ pc'[w] \in {"test"}
    BY <1>11, <2>1 DEF Put, Goto, Turn, TypeInv, IndexOK
  <2>3. sigmask' \subseteq sigmask /\ UNCHANGED woken
    BY <1>11 DEF Put, history, WithoutBit
  <2> QED
    BY <2>1, <2>2, <2>3 DEF WokenOff, BeforeWrite, AfterWrite
<1>12. ASSUME NEW w \in Writers, Test(w)
      PROVE  WokenOff'
  <2>1. w \in Procs /\ loc[w] \in Locals /\ \A v \in Writers : v = w
    BY Local DEF OneWriter, Procs
  <2>2. pc[w] = "test" /\ pc'[w] \in {"look", "ready"}
    BY <1>12, <2>1 DEF Test, Goto, Turn, TypeInv, IndexOK
  <2>3. sigmask' \subseteq sigmask /\ UNCHANGED woken
    BY <1>12 DEF Test, history, WithoutBit
  <2> QED
    BY <2>1, <2>2, <2>3 DEF WokenOff, BeforeWrite, AfterWrite
<1>13. ASSUME NEW w \in Writers, Look(w)
      PROVE  WokenOff'
  <2>1. w \in Procs /\ loc[w] \in Locals /\ \A v \in Writers : v = w
    BY Local DEF OneWriter, Procs
  <2>2. pc[w] = "look" /\ pc'[w] \in {"ready", "pid"}
    BY <1>13, <2>1 DEF Look, Goto, Turn, TypeInv, IndexOK
  <2>3. sigmask' \subseteq sigmask /\ UNCHANGED woken
    BY <1>13 DEF Look, history, WithoutBit
  <2> QED
    BY <2>1, <2>2, <2>3 DEF WokenOff, BeforeWrite, AfterWrite
<1>14. ASSUME NEW w \in Writers, OpenFifo(w)
      PROVE  WokenOff'
  <2>1. w \in Procs /\ loc[w] \in Locals /\ \A v \in Writers : v = w
    BY Local DEF OneWriter, Procs
  <2>2. pc[w] = "open" /\ pc'[w] \in {"lock", "sigoff", "notify"}
    BY <1>14, <2>1 DEF OpenFifo, GivesUp, Signalled, Goto, Turn, TypeInv, IndexOK
  <2>3. sigmask' \subseteq sigmask /\ UNCHANGED woken
    BY <1>14 DEF OpenFifo, GivesUp, Signalled, history, WithoutBit
  <2>4. pc'[w] \in {"lock", "sigoff"} => loc'[w] = loc[w]
    BY <1>14, <2>1 DEF OpenFifo, GivesUp, Signalled, Goto, Turn, TypeInv, IndexOK
  <2>5. pc'[w] = "notify" => loc[w].create
    BY <1>14, <2>1 DEF OpenFifo, GivesUp, Signalled, Goto, Turn, TypeInv, IndexOK
  <2> QED
    BY <2>1, <2>2, <2>3, <2>4, <2>5 DEF WokenOff, Creating, CreatePC, BeforeWrite, AfterWrite
<1>15. ASSUME NEW w \in Writers, LockPipe(w)
      PROVE  WokenOff'
  <2>1. w \in Procs /\ loc[w] \in Locals /\ \A v \in Writers : v = w
    BY Local DEF OneWriter, Procs
  <2>2. pc[w] = "lock" /\ pc'[w] \in {"count", "reset"}
    BY <1>15, <2>1 DEF LockPipe, Goto, Turn, TypeInv, IndexOK
  <2>3. sigmask' \subseteq sigmask /\ UNCHANGED woken
    BY <1>15 DEF LockPipe, history, WithoutBit
  <2>4. pc'[w] \in {"count", "reset"} => loc'[w] = loc[w]
    BY <1>15, <2>1 DEF LockPipe, Goto, Turn, TypeInv, IndexOK
  <2> QED
    BY <2>1, <2>2, <2>3, <2>4 DEF WokenOff, Creating, CreatePC, BeforeWrite, AfterWrite
<1>16. ASSUME NEW w \in Writers, Count(w)
      PROVE  WokenOff'
  <2>1. w \in Procs /\ loc[w] \in Locals /\ \A v \in Writers : v = w
    BY Local DEF OneWriter, Procs
  <2>2. pc[w] = "count" /\ pc'[w] \in {"reset", "add"}
    BY <1>16, <2>1 DEF Count, Goto, Turn, TypeInv, IndexOK
  <2>3. sigmask' \subseteq sigmask /\ UNCHANGED woken
    BY <1>16 DEF Count, history, WithoutBit
  <2>4. pc'[w] \in {"reset", "add"} => loc'[w] = loc[w]
    BY <1>16, <2>1 DEF Count, Goto, Turn, TypeInv, IndexOK
  <2> QED
    BY <2>1, <2>2, <2>3, <2>4 DEF WokenOff, Creating, CreatePC, BeforeWrite, AfterWrite
<1>17. ASSUME NEW w \in Writers, Add(w)
      PROVE  WokenOff'
  <2>1. w \in Procs /\ loc[w] \in Locals /\ \A v \in Writers : v = w
    BY Local DEF OneWriter, Procs
  <2>2. pc[w] = "add" /\ pc'[w] \in {"sigoff", "notify"}
    BY <1>17, <2>1 DEF Add, GivesUp, Signalled, Goto, Turn, TypeInv, IndexOK
  <2>3. sigmask' \subseteq sigmask /\ UNCHANGED woken
    BY <1>17 DEF Add, GivesUp, Signalled, history, WithoutBit
  <2>4. pc'[w] \in {"sigoff"} => loc'[w] = loc[w]
    BY <1>17, <2>1 DEF Add, GivesUp, Signalled, Goto, Turn, TypeInv, IndexOK
  <2>5. pc'[w] = "notify" => loc[w].create
    BY <1>17, <2>1 DEF Add, GivesUp, Signalled, Goto, Turn, TypeInv, IndexOK
  <2> QED
    BY <2>1, <2>2, <2>3, <2>4, <2>5 DEF WokenOff, Creating, CreatePC, BeforeWrite, AfterWrite
<1>18. ASSUME NEW w \in Writers, Reset(w)
      PROVE  WokenOff'
  <2>1. w \in Procs /\ loc[w] \in Locals /\ \A v \in Writers : v = w
    BY Local DEF OneWriter, Procs
  <2>2. pc[w] = "reset" /\ pc'[w] \in {"write"}
    BY <1>18, <2>1 DEF Reset, Goto, Turn, TypeInv, IndexOK
  <2>3. sigmask' \subseteq sigmask /\ UNCHANGED woken
    BY <1>18 DEF Reset, history, WithoutBit
  <2>4. pc'[w] \in {"write"} => loc'[w] = loc[w]
    BY <1>18, <2>1 DEF Reset, Goto, Turn, TypeInv, IndexOK
  <2> QED
    BY <2>1, <2>2, <2>3, <2>4 DEF WokenOff, Creating, CreatePC, BeforeWrite, AfterWrite
<1>19. ASSUME NEW w \in Writers, Write(w)
      PROVE  WokenOff'
  <2>1. w \in Procs /\ loc[w] \in Locals /\ \A v \in Writers : v = w
    BY Local DEF OneWriter, Procs
  <2>2. pc[w] = "write" /\ pc'[w] \in {"unlock"}
    BY <1>19, <2>1 DEF Write, Goto, Turn, TypeInv, IndexOK
  <2>3. UNCHANGED <<sigmask, loc>> /\ woken' = (IF loc[w].create THEN woken ELSE woken \cup {I(w)})
    BY <1>19 DEF Write
  <2> QED
    BY <2>2, <2>3 DEF WokenOff, OneWriter, BeforeWrite, AfterWrite
<1>20. ASSUME NEW w \in Writers, Unlock(w)
      PROVE  WokenOff'
  <2>1. w \in Procs /\ loc[w] \in Locals /\ \A v \in Writers : v = w
    BY Local DEF OneWriter, Procs
  <2>2. pc[w] = "unlock" /\ pc'[w] \in {"sigoff", "notify"}
    BY <1>20, <2>1 DEF Unlock, Signalled, Goto, Turn, TypeInv, IndexOK
  <2>3. sigmask' \subseteq sigmask /\ UNCHANGED woken
    BY <1>20 DEF Unlock, Signalled, history, WithoutBit
  <2>4. pc'[w] \in {"sigoff"} => loc'[w] = loc[w]
    BY <1>20, <2>1 DEF Unlock, Signalled, Goto, Turn, TypeInv, IndexOK
  <2>5. pc'[w] = "notify" => loc[w].create
    BY <1>20, <2>1 DEF Unlock, Signalled, Goto, Turn, TypeInv, IndexOK
  <2> QED
    BY <2>1, <2>2, <2>3, <2>4, <2>5 DEF WokenOff, Creating, CreatePC, BeforeWrite, AfterWrite
<1>21. ASSUME NEW w \in Writers, PutSigOff(w)
      PROVE  WokenOff'
  <2>1. w \in Procs /\ loc[w] \in Locals /\ \A v \in Writers : v = w
    BY Local DEF OneWriter, Procs
  <2>2. pc[w] = "sigoff" /\ pc'[w] \in {"look"}
    BY <1>21, <2>1 DEF PutSigOff, Goto, Turn, TypeInv, IndexOK
  <2>3. sigmask' = WithoutBit(I(w)) /\ UNCHANGED woken
    BY <1>21 DEF PutSigOff, BitOff, history
  <2>4. \A s \in sigmask' : s \in sigmask /\ s # I(w)
    BY <2>3 DEF WithoutBit, BitsInside
  <2> QED
    BY <2>2, <2>3, <2>4 DEF WokenOff, OneWriter, BeforeWrite, AfterWrite
<1>22. ASSUME NEW w \in Writers, MinuteLater(w)
      PROVE  WokenOff'
  <2> QED
    BY <1>22 DEF MinuteLater, history, WokenOff
<1>23. ASSUME NEW w \in Writers, Crash(w)
      PROVE  WokenOff'
  <2>1. w \in Procs /\ loc[w] \in Locals /\ \A v \in Writers : v = w
    BY Local DEF OneWriter, Procs
  <2>2. pc'[w] \in {"new"}
    BY <1>23, <2>1 DEF Crash, Goto, Turn, TypeInv, IndexOK
  <2> QED
    BY <1>23, <2>2 DEF Crash, WokenOff, BeforeWrite
<1>25. ASSUME NEW w \in Writers, LookPid(w)
      PROVE  WokenOff'
  <2>1. w \in Procs /\ loc[w] \in Locals /\ \A v \in Writers : v = w
    BY Local DEF OneWriter, Procs
  <2>2. pc[w] = "pid" /\ pc'[w] \in {"bit", "look"}
    BY <1>25, <2>1 DEF LookPid, Goto, Turn, TypeInv, IndexOK
  <2>3. sigmask' \subseteq sigmask /\ UNCHANGED woken
    BY <1>25 DEF LookPid, history, WithoutBit
  <2> QED
    BY <2>1, <2>2, <2>3 DEF WokenOff, BeforeWrite, AfterWrite
<1>26. ASSUME NEW w \in Writers, LookBit(w)
      PROVE  WokenOff'
  <2>1. w \in Procs /\ loc[w] \in Locals /\ \A v \in Writers : v = w
    BY Local DEF OneWriter, Procs
  <2>2. pc[w] = "bit" /\ pc'[w] \in {"open", "look"}
    BY <1>26, <2>1 DEF LookBit, Goto, Turn, TypeInv, IndexOK
  <2>3. sigmask' \subseteq sigmask /\ UNCHANGED woken
    BY <1>26 DEF LookBit, history, WithoutBit
  <2>4. pc'[w] = "open" => loc'[w] = loc[w] /\ I(w) \in sigmask
    BY <1>26, <2>1 DEF LookBit, Goto, Turn, Forget, TypeInv, IndexOK
  <2> QED
    BY <2>1, <2>2, <2>3, <2>4 DEF WokenOff, BeforeWrite, AfterWrite
<1>24. CASE UNCHANGED vars
  BY <1>24 DEF vars, history, WokenOff
<1> QED
  BY <1>1, <1>2, <1>3, <1>4, <1>5, <1>6, <1>7, <1>8, <1>9, <1>10, <1>11, <1>12, <1>13, <1>14, <1>15, <1>16, <1>17, <1>18, <1>19, <1>20, <1>21, <1>22, <1>23, <1>24, <1>25, <1>26, Zenon
  DEF Next, Verify, Writer, Signal

\* With the types, and who has which slot, the two conditions on bits
OnceStart ==
    StartInv /\ Creating /\ (OneAtATime => BitsInside) /\ (OneAtATime /\ OneWriter => WokenOff)

\* All of it, in every state.
LEMMA OnceInvariant == Spec => []OnceStart
<1>1. Init => OnceStart
  <2> SUFFICES ASSUME Init PROVE OnceStart
    OBVIOUS
  <2>1. BitsInside /\ WokenOff
    BY DEF Init, BitsInside, WokenOff, BeforeWrite, Procs
  <2> QED
    BY <2>1, InitType, InitSlot, InitCreating DEF OnceStart, StartInv
<1>2. OnceStart /\ [Next]_vars => OnceStart'
  BY NextType, NextSlot, NextCreating, NextBits, NextWoken DEF OnceStart, StartInv, OneWriter
<1> QED
  BY <1>1, <1>2, PTL DEF Spec

\* A set with one element has no two.
LEMMA OneIsOne == Cardinality(Writers) = 1 => OneWriter
BY SignalAssumption, FS_Singleton DEF OneWriter

\* With one writer, and processes that start one after the other, sq_put writes to
\* a reader's pipe at most once for each sq_sigon, whatever else happens between
\* the test of the bit and its being turned off.
THEOREM OncePerSignal == Spec => SignalledOnce
<1>1. OnceStart =>
        (OneAtATime /\ Cardinality(Writers) = 1 =>
           \A w \in Writers :
              pc[w] = "write" /\ pc'[w] = "unlock" /\ ~loc[w].create => I(w) \notin woken)
  BY OneIsOne DEF OnceStart, WokenOff, BeforeWrite
<1> QED
  BY <1>1, OnceInvariant, PTL DEF SignalledOnce

-----------------------------------------------------------------------------
(* SleepInv is inductive. *)

\* A step that takes readers out of asleep, the one that moves unless it sleeps
LEMMA SleepMoves ==
    ASSUME TypeInv, TypeInv', Sleeping, NEW p \in Procs, Only(p),
           \A w \in Writers : /\ asleep'[w] \subseteq asleep[w]
                              /\ p \in asleep'[w] => pc'[p] = "select"
    PROVE  Sleeping'
BY DEF Sleeping, Only, Procs, TypeInv, TypeOK

\* What was so of a slot that had been reached, or was ahead, still is.
Kept(s) == /\ pipe[s] > 0 => pipe'[s] > 0
           /\ s \in missed => s \in missed'
           /\ s \in sigmask => s \in sigmask'

\* A step that keeps the writers, their sleepers' slots and bits keeps what they have seen.
LEMMA LookedMoves ==
    ASSUME Looked,
           \A w \in Writers : /\ pc'[w] = pc[w] /\ loc'[w] = loc[w] /\ asleep'[w] \subseteq asleep[w]
                              /\ \A q \in asleep'[w] : sig_idx'[q] = sig_idx[q] /\ Kept(sig_idx[q])
    PROVE  Looked'
BY DEF Looked, Reached, Ahead, Kept, I

\* Two readers in their loops have different slots.
LEMMA Apart ==
    ASSUME TypeInv, SlotInv, NEW q \in Readers, NEW r \in Readers, q # r,
           pc[q] \in LoopPC, pc[r] \in LoopPC
    PROVE  sig_idx[q] # sig_idx[r]
BY InLoop

\* A reader's step leaves alone what concerns another that sleeps.
LEMMA SleepReader ==
    ASSUME TypeInv, TypeInv', SlotInv, SleepInv,
           NEW r \in Readers, Start(r) \/ Join(r) \/ Loop(r) \/ Die(r)
    PROVE  SleepInv'
<1>0. Only(r) /\ r \in Procs /\ \A w \in Writers : pc'[w] = pc[w] /\ loc'[w] = loc[w]
  BY OnlyReader, NotBoth DEF Only, Procs
<1>1. \A w \in Writers : \A q \in asleep[w] : /\ q \in Readers /\ pc[q] = "select"
                                              /\ pc[q] \in LoopPC /\ sig_idx[q] \in Slots
  BY Local DEF SleepInv, Sleeping, TypeInv, TypeOK, LoopPC, Procs
<1>2. \A w \in Writers :
         /\ asleep'[w] \subseteq asleep[w] /\ r \notin asleep'[w]
         /\ \A q \in asleep'[w] : sig_idx'[q] = sig_idx[q] /\ Kept(sig_idx[q])
  <2> USE DEF history, pipes, At, I
  <2>1. CASE VerifyStart(r)
    <3>1. UNCHANGED <<asleep, sig_idx, pipe, missed, sigmask>> /\ pc[r] = "verify"
      BY <2>1 DEF VerifyStart
    <3> QED
      BY <1>1, <3>1 DEF Kept
  <2>2. CASE VerifyTop(r)
    <3>1. UNCHANGED <<asleep, sig_idx, pipe, missed, sigmask>> /\ pc[r] = "top"
      BY <2>2 DEF VerifyTop
    <3> QED
      BY <1>1, <3>1 DEF Kept
  <2>3. CASE VerifyTopOff(r)
    <3>1. UNCHANGED <<asleep, sig_idx, pipe, missed>> /\ sigmask' = WithoutBit(I(r)) /\ pc[r] = "topoff"
      BY <2>3 DEF VerifyTopOff
    <3>2. ASSUME NEW w \in Writers, NEW q \in asleep[w]
          PROVE  q # r /\ I(r) # sig_idx[q]
      BY <1>0, <1>1, <3>1, InLoop
    <3> QED
      BY <3>1, <3>2 DEF Kept, WithoutBit
  <2>4. CASE VerifyShrink(r)
    <3>1. UNCHANGED <<asleep, sig_idx, pipe, missed, sigmask>> /\ pc[r] = "shrink"
      BY <2>4 DEF VerifyShrink
    <3> QED
      BY <1>1, <3>1 DEF Kept
  <2>5. CASE VerifyRest(r)
    <3>1. UNCHANGED <<asleep, sig_idx, pipe, missed, sigmask>> /\ pc[r] = "rest"
      BY <2>5 DEF VerifyRest
    <3> QED
      BY <1>1, <3>1 DEF Kept
  <2>6. CASE VerifyRestOff(r)
    <3>1. UNCHANGED <<asleep, sig_idx, pipe, missed>> /\ sigmask' = WithoutBit(I(r)) /\ pc[r] = "restoff"
      BY <2>6 DEF VerifyRestOff
    <3>2. ASSUME NEW w \in Writers, NEW q \in asleep[w]
          PROVE  q # r /\ I(r) # sig_idx[q]
      BY <1>0, <1>1, <3>1, InLoop
    <3> QED
      BY <3>1, <3>2 DEF Kept, WithoutBit
  <2>7. CASE VerifyClear(r)
    <3>1. UNCHANGED <<asleep, sig_idx, pipe, missed, sigmask>> /\ pc[r] = "clear"
      BY <2>7 DEF VerifyClear
    <3> QED
      BY <1>1, <3>1 DEF Kept
  <2>8. CASE Start(r)
    <3>1. UNCHANGED <<asleep, sig_idx, pipe, missed, sigmask>> /\ pc[r] \in {"unborn", "dead", "failed"}
      BY <2>8 DEF Start
    <3> QED
      BY <1>1, <3>1 DEF Kept
  <2>9. CASE Scan(r)
    <3>1. UNCHANGED <<asleep, sig_idx, pipe, missed, sigmask>> /\ pc[r] = "scan"
      BY <2>9 DEF Scan
    <3> QED
      BY <1>1, <3>1 DEF Kept
  <2>10. CASE Claim(r)
    <3>1. UNCHANGED <<asleep, sig_idx, pipe, missed, sigmask>> /\ pc[r] = "claim"
      BY <2>10 DEF Claim
    <3> QED
      BY <1>1, <3>1 DEF Kept
  <2>11. CASE Extend(r)
    <3>1. UNCHANGED <<asleep, sig_idx, pipe, missed, sigmask>> /\ pc[r] = "extend"
      BY <2>11 DEF Extend
    <3> QED
      BY <1>1, <3>1 DEF Kept
  <2>12. CASE OldPid(r)
    <3>1. UNCHANGED <<asleep, sig_idx, pipe, missed, sigmask>> /\ pc[r] = "oldpid"
      BY <2>12 DEF OldPid
    <3> QED
      BY <1>1, <3>1 DEF Kept
  <2>13. CASE Grow(r)
    <3>1. UNCHANGED <<asleep, sig_idx, pipe, missed, sigmask>> /\ pc[r] = "grow"
      BY <2>13 DEF Grow
    <3> QED
      BY <1>1, <3>1 DEF Kept
  <2>14. CASE Own(r)
    <3>1. UNCHANGED <<asleep, sig_idx, pipe, missed, sigmask>> /\ pc[r] = "own"
      BY <2>14 DEF Own
    <3> QED
      BY <1>1, <3>1 DEF Kept
  <2>15. CASE Fifo(r)
    <3>1. UNCHANGED <<asleep, pipe, missed, sigmask>> /\ pc[r] = "fifo"
      BY <2>15 DEF Fifo
    <3>2. \A q \in Readers : q # r => sig_idx'[q] = sig_idx[q]
      BY <2>15 DEF Fifo, TypeInv, TypeOK
    <3> QED
      BY <1>1, <3>1, <3>2 DEF Kept
  <2>16. CASE SigOn(r)
    <3>1. /\ UNCHANGED <<asleep, pipe, sig_idx>> /\ pc[r] = "on" /\ sigmask \subseteq sigmask'
          /\ missed' = missed \ {sig_idx[r]}
      BY <2>16 DEF SigOn, WithBit
    <3>2. ASSUME NEW w \in Writers, NEW q \in asleep[w]
          PROVE  q # r /\ sig_idx[r] # sig_idx[q]
      BY <1>1, <3>1, Apart DEF LoopPC
    <3> QED
      BY <3>1, <3>2 DEF Kept
  <2>17. CASE Wake(r)
    <3>1. UNCHANGED <<sigmask, sig_idx, missed, pipe>> /\ asleep' = [w \in Writers |-> asleep[w] \ {r}]
      BY <2>17 DEF Wake, Select
    <3> QED
      BY <3>1 DEF Kept
  <2>18. CASE Timeout(r)
    <3>1. UNCHANGED <<sigmask, sig_idx, missed, pipe>> /\ asleep' = [w \in Writers |-> asleep[w] \ {r}]
      BY <2>18 DEF Timeout, Select
    <3> QED
      BY <3>1 DEF Kept
  <2>19. CASE SigOff(r)
    <3>1. UNCHANGED <<asleep, pipe, sig_idx, missed>> /\ pc[r] = "off" /\ sigmask' = WithoutBit(sig_idx[r])
      BY <2>19 DEF SigOff
    <3>2. ASSUME NEW w \in Writers, NEW q \in asleep[w]
          PROVE  q # r /\ sig_idx[r] # sig_idx[q]
      BY <1>1, <3>1, Apart DEF LoopPC
    <3> QED
      BY <3>1, <3>2 DEF Kept, WithoutBit
  <2>20. CASE Consume(r)
    <3>1. /\ UNCHANGED <<asleep, sigmask, sig_idx, missed>> /\ pc[r] = "consume"
          /\ pipe' = [pipe EXCEPT ![sig_idx[r]] = 0]
      BY <2>20 DEF Consume
    <3>2. ASSUME NEW w \in Writers, NEW q \in asleep[w]
          PROVE  q # r /\ sig_idx[r] # sig_idx[q] /\ sig_idx[q] \in Slots
      BY <1>1, <3>1, Apart DEF LoopPC
    <3> QED
      BY <3>1, <3>2 DEF Kept, TypeInv, TypeOK
  <2>21. CASE Get(r)
    <3>1. UNCHANGED <<asleep, sig_idx, pipe, missed, sigmask>> /\ pc[r] = "get"
      BY <2>21 DEF Get
    <3> QED
      BY <1>1, <3>1 DEF Kept
  <2>22. CASE Die(r)
    <3>1. /\ UNCHANGED <<sigmask, missed>> /\ asleep' = [w \in Writers |-> asleep[w] \ {r}]
          /\ pipe' = [s \in Slots |-> IF Open(s, alive', poll_fdset) THEN pipe[s] ELSE 0]
          /\ alive' = alive \ {r} /\ sig_idx' = [sig_idx EXCEPT ![r] = -1]
      BY <2>22 DEF Die
    <3>2. ASSUME NEW w \in Writers, NEW q \in asleep[w], q # r
          PROVE  sig_idx'[q] = sig_idx[q] /\ sig_idx[q] \in Slots /\ pipe'[sig_idx[q]] = pipe[sig_idx[q]]
      <4>1. q \in Readers /\ q \in alive' /\ sig_idx[q] \in Slots
        BY <1>1, <3>1, <3>2, InLoop
      <4> QED
        BY <3>1, <3>2, <4>1 DEF Open, TypeInv, TypeOK
    <3> QED
      BY <3>1, <3>2 DEF Kept
  <2> QED
    BY <2>1, <2>2, <2>3, <2>4, <2>5, <2>6, <2>7, <2>8, <2>9, <2>10, <2>11, <2>12, <2>13, <2>14, <2>15, <2>16, <2>17, <2>18, <2>19, <2>20, <2>21, <2>22, Zenon DEF Join, Loop, Verify
<1>3. Sleeping'
  BY <1>0, <1>2, SleepMoves DEF SleepInv
<1>4. Looked'
  BY <1>0, <1>2, LookedMoves DEF SleepInv
<1> QED
  BY <1>3, <1>4 DEF SleepInv

\* Nor does a writer's, if there is only one, to the readers that it has to wake.
LEMMA SleepWriter ==
    ASSUME OneWriter, TypeInv, TypeInv', SlotInv, Creating, SleepInv,
           NEW w \in Writers, Writer(w) \/ MinuteLater(w) \/ Crash(w)
    PROVE  SleepInv'
<1> USE SignalAssumption DEF At, I
<1>0. Only(w) /\ w \in Procs /\ loc[w] \in Locals /\ (\A v \in Writers : v = w) /\ w \notin Readers
  BY OnlyWriter, Local, NotBoth DEF Procs, OneWriter
<1>1. \A q \in asleep[w] : /\ q \in Readers /\ pc[q] = "select" /\ pc[q] \in LoopPC
                           /\ sig_idx[q] \in Slots /\ sig_idx[q] \in Int
  <2>1. ASSUME NEW q \in asleep[w]
        PROVE  q \in Readers /\ pc[q] = "select" /\ pc[q] \in LoopPC /\ sig_idx[q] \in Slots
    BY <2>1, Local DEF SleepInv, Sleeping, TypeInv, TypeOK, LoopPC, Procs
  <2>2. \A s \in Slots : s \in Int
    BY DEF Slots
  <2> QED
    BY <2>1, <2>2
<1>2. ASSUME ~Test(w) PROVE Sleeping'
  <2>1. asleep'[w] \subseteq asleep[w]
    <3> USE DEF history
    <3>1. CASE VerifyStart(w)
      BY <3>1 DEF VerifyStart
    <3>2. CASE VerifyTop(w)
      BY <3>2 DEF VerifyTop
    <3>3. CASE VerifyTopOff(w)
      BY <3>3 DEF VerifyTopOff
    <3>4. CASE VerifyShrink(w)
      BY <3>4 DEF VerifyShrink
    <3>5. CASE VerifyRest(w)
      BY <3>5 DEF VerifyRest
    <3>6. CASE VerifyRestOff(w)
      BY <3>6 DEF VerifyRestOff
    <3>7. CASE VerifyClear(w)
      BY <3>7 DEF VerifyClear
    <3>8. CASE Create(w)
      BY <3>8 DEF Create
    <3>9. CASE Notify(w)
      BY <3>9 DEF Notify
    <3>10. CASE Put(w)
      BY <3>10 DEF Put
    <3>11. CASE Look(w)
      BY <3>11 DEF Look
    <3>12. CASE OpenFifo(w)
      BY <3>12 DEF OpenFifo, GivesUp, Signalled
    <3>13. CASE LockPipe(w)
      BY <3>13 DEF LockPipe
    <3>14. CASE Count(w)
      BY <3>14 DEF Count
    <3>15. CASE Add(w)
      BY <3>15 DEF Add, GivesUp, Signalled
    <3>16. CASE Reset(w)
      BY <3>16 DEF Reset
    <3>17. CASE Write(w)
      BY <3>17 DEF Write
    <3>18. CASE Unlock(w)
      BY <3>18 DEF Unlock, Signalled
    <3>19. CASE PutSigOff(w)
      BY <3>19 DEF PutSigOff
    <3>20. CASE MinuteLater(w)
      BY <3>20 DEF MinuteLater
    <3>21. CASE Crash(w)
      BY <3>21 DEF Crash, TypeInv, TypeOK
    <3>22. CASE LookPid(w)
      BY <3>22 DEF LookPid
    <3>23. CASE LookBit(w)
      BY <3>23 DEF LookBit
    <3> QED
      BY <1>2, <3>1, <3>2, <3>3, <3>4, <3>5, <3>6, <3>7, <3>8, <3>9, <3>10, <3>11, <3>12, <3>13, <3>14, <3>15, <3>16, <3>17, <3>18, <3>19, <3>20, <3>21, <3>22, <3>23, Zenon DEF Writer, Signal, Verify
  <2> QED
    BY <1>0, <1>1, <2>1 DEF Sleeping, Only, Procs
<1>3. ASSUME Test(w) PROVE Sleeping'
  <2>1. asleep'[w] \subseteq {r \in alive : pc[r] = "select"}
    BY <1>3 DEF Test, TypeInv, TypeOK
  <2>2. alive \subseteq Readers
    BY DEF TypeInv, TypeOK
  <2> QED
    BY <1>0, <2>1, <2>2 DEF Sleeping, Only, Procs
<1>4. Looked'
  <2>1. CASE VerifyStart(w)
    <3>1. pc[w] = "verify" /\ pc'[w] \in {"top"}
      BY <1>0, <2>1 DEF VerifyStart, Goto, Turn, TypeInv, IndexOK
    <3> QED
      BY <1>0, <3>1 DEF Looked, BeforeWrite, AfterWrite
  <2>2. CASE VerifyTop(w)
    <3>1. pc[w] = "top" /\ pc'[w] \in {"topoff", "rest"}
      BY <1>0, <2>2 DEF VerifyTop, Goto, Turn, TypeInv, IndexOK
    <3> QED
      BY <1>0, <3>1 DEF Looked, BeforeWrite, AfterWrite
  <2>3. CASE VerifyTopOff(w)
    <3>1. pc[w] = "topoff" /\ pc'[w] \in {"shrink"}
      BY <1>0, <2>3 DEF VerifyTopOff, Goto, Turn, TypeInv, IndexOK
    <3> QED
      BY <1>0, <3>1 DEF Looked, BeforeWrite, AfterWrite
  <2>4. CASE VerifyShrink(w)
    <3>1. pc[w] = "shrink" /\ pc'[w] \in {"top", "rest"}
      BY <1>0, <2>4 DEF VerifyShrink, Goto, Turn, TypeInv, IndexOK
    <3> QED
      BY <1>0, <3>1 DEF Looked, BeforeWrite, AfterWrite
  <2>5. CASE VerifyRest(w)
    <3>1. pc[w] = "rest" /\ pc'[w] \in {"restoff", "rest", "scan", "notify"}
      BY <1>0, <2>5 DEF VerifyRest, Goto, Turn, TypeInv, IndexOK
    <3> QED
      BY <1>0, <3>1 DEF Looked, BeforeWrite, AfterWrite
  <2>6. CASE VerifyRestOff(w)
    <3>1. pc[w] = "restoff" /\ pc'[w] \in {"clear"}
      BY <1>0, <2>6 DEF VerifyRestOff, Goto, Turn, TypeInv, IndexOK
    <3> QED
      BY <1>0, <3>1 DEF Looked, BeforeWrite, AfterWrite
  <2>7. CASE VerifyClear(w)
    <3>1. pc[w] = "clear" /\ pc'[w] \in {"rest"}
      BY <1>0, <2>7 DEF VerifyClear, Goto, Turn, TypeInv, IndexOK
    <3> QED
      BY <1>0, <3>1 DEF Looked, BeforeWrite, AfterWrite
  <2>8. CASE Create(w)
    <3>1. pc[w] = "new" /\ pc'[w] \in {"verify"}
      BY <1>0, <2>8 DEF Create, Goto, Turn, TypeInv, IndexOK
    <3> QED
      BY <1>0, <3>1 DEF Looked, BeforeWrite, AfterWrite
  <2>9. CASE Notify(w)
    <3>1. pc[w] = "notify" /\ pc'[w] \in {"open", "ready"}
      BY <1>0, <2>9 DEF Notify, Goto, Turn, TypeInv, IndexOK
    <3>2. UNCHANGED <<asleep, sig_idx, pipe, sigmask>>
      BY <2>9 DEF Notify, pipes, history
    <3>3. pc'[w] \in {"open"} => loc'[w] = loc[w]
      BY <1>0, <2>9 DEF Notify, Goto, Turn, TypeInv, IndexOK
    <3> QED
      BY <1>0, <3>1, <3>3 DEF Looked, Creating, CreatePC, BeforeWrite, AfterWrite
  <2>10. CASE Put(w)
    <3>1. pc[w] = "ready" /\ pc'[w] \in {"test"}
      BY <1>0, <2>10 DEF Put, Goto, Turn, TypeInv, IndexOK
    <3> QED
      BY <1>0, <3>1 DEF Looked, BeforeWrite, AfterWrite
  <2>11. CASE Test(w)
    <3>1. pc[w] = "test" /\ pc'[w] \in {"look", "ready"}
      BY <1>0, <2>11 DEF Test, Goto, Turn, TypeInv, IndexOK
    <3>2. /\ UNCHANGED sig_idx /\ UNCHANGED sigmask
          /\ \A q \in asleep'[w] : q \in alive /\ pc[q] = "select" /\ sig_idx[q] \in sigmask
      BY <2>11 DEF Test, TypeInv, TypeOK
    <3>3. \A q \in asleep'[w] : sig_idx[q] \in Int /\ sig_idx[q] >= 0
      <4>1. \A q \in asleep'[w] : sig_idx[q] \in Slots
        BY <3>2 DEF TypeInv, TypeOK
      <4> QED
        BY <4>1 DEF Slots
    <3>4. pc'[w] = "look" => loc'[w].i = 0
      BY <1>0, <2>11 DEF Test, Goto, TypeInv, TypeOK, IndexOK, Locals
    <3> QED
      BY <1>0, <3>1, <3>2, <3>3, <3>4 DEF Looked, Reached, Ahead, BeforeWrite, AfterWrite
  <2>12. CASE Look(w)
    <3>1. pc[w] = "look" /\ pc'[w] \in {"ready", "pid"}
      BY <1>0, <2>12 DEF Look, Goto, Turn, TypeInv, IndexOK
    <3>2. UNCHANGED <<asleep, sig_idx, pipe, sigmask, missed>>
      BY <2>12 DEF Look, pipes, history
    <3>3. pc'[w] = "pid" => loc'[w] = loc[w]
      BY <1>0, <2>12 DEF Look, Goto, Turn, Forget, TypeInv, IndexOK
    <3>4. \A q \in asleep[w] : ~loc[w].create => Reached(w, sig_idx[q])
      BY <3>1 DEF SleepInv, Looked
    <3> QED
      BY <1>0, <1>1, <3>1, <3>2, <3>3, <3>4 DEF Looked, Reached, Ahead, BeforeWrite, AfterWrite
  <2>13. CASE OpenFifo(w)
    <3>1. pc[w] = "open" /\ pc'[w] \in {"lock", "sigoff", "notify"}
      BY <1>0, <2>13 DEF OpenFifo, GivesUp, Signalled, Goto, Turn, TypeInv, IndexOK
    <3>2. UNCHANGED <<asleep, sig_idx, pipe, sigmask>>
      BY <2>13 DEF OpenFifo, GivesUp, Signalled, pipes, history
    <3>3. pc'[w] \in {"lock", "sigoff"} => loc'[w] = loc[w]
      BY <1>0, <2>13 DEF OpenFifo, GivesUp, Signalled, Goto, Turn, TypeInv, IndexOK
    <3>4. missed \subseteq missed' /\ (pc'[w] = "sigoff" => I(w) \in missed')
      BY <1>0, <2>13 DEF OpenFifo, GivesUp, Signalled, Goto, Turn, TypeInv, IndexOK
    <3> QED
      BY <1>0, <1>1, <3>1, <3>2, <3>3, <3>4 DEF SleepInv, Looked, Reached, Ahead, BeforeWrite, AfterWrite
  <2>14. CASE LockPipe(w)
    <3>1. pc[w] = "lock" /\ pc'[w] \in {"count", "reset"}
      BY <1>0, <2>14 DEF LockPipe, Goto, Turn, TypeInv, IndexOK
    <3>2. UNCHANGED <<asleep, sig_idx, pipe, sigmask>>
      BY <2>14 DEF LockPipe, pipes, history
    <3>3. pc'[w] \in {"count", "reset"} => loc'[w] = loc[w]
      BY <1>0, <2>14 DEF LockPipe, Goto, Turn, TypeInv, IndexOK
    <3>4. UNCHANGED missed
      BY <2>14 DEF LockPipe, history
    <3> QED
      BY <1>0, <1>1, <3>1, <3>2, <3>3, <3>4 DEF SleepInv, Looked, Reached, Ahead, BeforeWrite, AfterWrite
  <2>15. CASE Count(w)
    <3>1. pc[w] = "count" /\ pc'[w] \in {"reset", "add"}
      BY <1>0, <2>15 DEF Count, Goto, Turn, TypeInv, IndexOK
    <3>2. UNCHANGED <<asleep, sig_idx, pipe, sigmask>>
      BY <2>15 DEF Count, pipes, history
    <3>3. pc'[w] \in {"reset", "add"} => loc'[w] = loc[w]
      BY <1>0, <2>15 DEF Count, Goto, Turn, TypeInv, IndexOK
    <3>4. UNCHANGED missed
      BY <2>15 DEF Count, history
    <3> QED
      BY <1>0, <1>1, <3>1, <3>2, <3>3, <3>4 DEF SleepInv, Looked, Reached, Ahead, BeforeWrite, AfterWrite
  <2>16. CASE Add(w)
    <3>1. pc[w] = "add" /\ pc'[w] \in {"sigoff", "notify"}
      BY <1>0, <2>16 DEF Add, GivesUp, Signalled, Goto, Turn, TypeInv, IndexOK
    <3>2. UNCHANGED <<asleep, sig_idx, pipe, sigmask>>
      BY <2>16 DEF Add, GivesUp, Signalled, pipes, history
    <3>3. pc'[w] \in {"sigoff"} => loc'[w] = loc[w]
      BY <1>0, <2>16 DEF Add, GivesUp, Signalled, Goto, Turn, TypeInv, IndexOK
    <3>4. missed \subseteq missed' /\ (pc'[w] = "sigoff" => I(w) \in missed')
      BY <1>0, <2>16 DEF Add, GivesUp, Signalled, Goto, Turn, TypeInv, IndexOK
    <3> QED
      BY <1>0, <1>1, <3>1, <3>2, <3>3, <3>4 DEF SleepInv, Looked, Reached, Ahead, BeforeWrite, AfterWrite
  <2>17. CASE Reset(w)
    <3>1. pc[w] = "reset" /\ pc'[w] \in {"write"}
      BY <1>0, <2>17 DEF Reset, Goto, Turn, TypeInv, IndexOK
    <3>2. UNCHANGED <<asleep, sig_idx, pipe, sigmask>>
      BY <2>17 DEF Reset, pipes, history
    <3>3. pc'[w] \in {"write"} => loc'[w] = loc[w]
      BY <1>0, <2>17 DEF Reset, Goto, Turn, TypeInv, IndexOK
    <3>4. UNCHANGED missed
      BY <2>17 DEF Reset, history
    <3> QED
      BY <1>0, <1>1, <3>1, <3>2, <3>3, <3>4 DEF SleepInv, Looked, Reached, Ahead, BeforeWrite, AfterWrite
  <2>18. CASE Write(w)
    <3>1. pc[w] = "write" /\ pc'[w] \in {"unlock"}
      BY <1>0, <2>18 DEF Write, Goto, Turn, TypeInv, IndexOK
    <3>2. UNCHANGED <<asleep, sig_idx, sigmask, missed, loc>>
      BY <2>18 DEF Write
    <3>3. \A q \in asleep[w] : (pipe[sig_idx[q]] > 0 \/ sig_idx[q] = I(w)) => pipe'[sig_idx[q]] > 0
      <4>1. ASSUME NEW q \in asleep[w]
            PROVE  /\ q \in alive /\ sig_idx[q] \in Slots
                   /\ pipe[sig_idx[q]] \in 0 .. PipeSize /\ PipeSize > 0
        BY <1>1, InLoop DEF TypeInv, TypeOK
      <4>2. pipe' = IF (\E r \in alive : sig_idx[r] = I(w)) /\ pipe[I(w)] < PipeSize
                    THEN [pipe EXCEPT ![I(w)] = @ + 1] ELSE pipe
        BY <2>18 DEF Write, Byte
      <4> QED
        BY <4>1, <4>2 DEF TypeInv, TypeOK
    <3>4. \A q \in asleep[w] : ~loc[w].create => Reached(w, sig_idx[q])
      BY <3>1 DEF SleepInv, Looked, BeforeWrite
    <3>5. \A q \in asleep[w] : ~loc[w].create => Reached(w, sig_idx[q])'
      BY <1>1, <3>1, <3>2, <3>3, <3>4 DEF Reached, Ahead, AfterWrite
    <3> QED
      BY <1>0, <3>2, <3>5 DEF Looked
  <2>19. CASE Unlock(w)
    <3>1. pc[w] = "unlock" /\ pc'[w] \in {"sigoff", "notify"}
      BY <1>0, <2>19 DEF Unlock, Signalled, Goto, Turn, TypeInv, IndexOK
    <3>2. UNCHANGED <<asleep, sig_idx, pipe, sigmask>>
      BY <2>19 DEF Unlock, Signalled, pipes, history
    <3>3. pc'[w] \in {"sigoff"} => loc'[w] = loc[w]
      BY <1>0, <2>19 DEF Unlock, Signalled, Goto, Turn, TypeInv, IndexOK
    <3>4. UNCHANGED missed
      BY <2>19 DEF Unlock, Signalled, history
    <3> QED
      BY <1>0, <1>1, <3>1, <3>2, <3>3, <3>4 DEF SleepInv, Looked, Reached, Ahead, BeforeWrite, AfterWrite
  <2>20. CASE PutSigOff(w)
    <3>1. pc[w] = "sigoff" /\ pc'[w] \in {"look"}
      BY <1>0, <2>20 DEF PutSigOff, Goto, Turn, TypeInv, IndexOK
    <3>2. UNCHANGED <<asleep, sig_idx, pipe, missed>> /\ sigmask' = WithoutBit(I(w))
      BY <2>20 DEF PutSigOff, BitOff, pipes, history
    <3>3. loc'[w].i = loc[w].i + 1 /\ loc'[w].create = loc[w].create /\ loc[w].i \in Int
      BY <1>0, <2>20 DEF PutSigOff, TypeInv, TypeOK, Locals
    <3>4. \A q \in asleep[w] : ~loc[w].create => Reached(w, sig_idx[q])
      BY <3>1 DEF SleepInv, Looked, AfterWrite
    <3>5. ASSUME NEW q \in asleep[w], ~loc[w].create
          PROVE  Reached(w, sig_idx[q])'
      <4>1. Ahead(w, sig_idx[q]) => sig_idx[q] \in sigmask' /\ loc'[w].i <= sig_idx[q]
        BY <1>1, <3>1, <3>2, <3>3 DEF Ahead, AfterWrite, WithoutBit
      <4>2. loc'[w].i <= sig_idx[q] => loc'[w].i < sig_idx[q] \/ loc'[w].i = sig_idx[q]
        BY <1>1, <3>3
      <4> QED
        BY <1>0, <1>1, <3>1, <3>2, <3>4, <3>5, <4>1, <4>2 DEF Reached, Ahead, AfterWrite
    <3> QED
      BY <1>0, <3>2, <3>3, <3>5 DEF Looked
  <2>21. CASE MinuteLater(w)
    <3>1. UNCHANGED <<pc, loc, asleep, sig_idx, pipe, missed, sigmask>>
      BY <2>21 DEF MinuteLater, pipes, history
    <3> QED
      BY <3>1 DEF SleepInv, Looked, Reached, Ahead
  <2>22. CASE Crash(w)
    <3>1. pc'[w] \in {"new"}
      BY <1>0, <2>22 DEF Crash, Goto, Turn, TypeInv, IndexOK
    <3> QED
      BY <1>0, <3>1 DEF Looked, BeforeWrite, AfterWrite
  <2>23. CASE LookPid(w)
    <3>1. pc[w] = "pid" /\ pc'[w] \in {"bit", "look"}
      BY <1>0, <2>23 DEF LookPid, Goto, Turn, TypeInv, IndexOK
    <3>2. UNCHANGED <<asleep, sig_idx, pipe, sigmask, missed>>
      BY <2>23 DEF LookPid, pipes, history
    <3>3. pc'[w] = "bit" => loc'[w] = loc[w]
      BY <1>0, <2>23 DEF LookPid, Goto, Turn, Forget, TypeInv, IndexOK
    <3>4. pc'[w] = "look" => /\ loc'[w] = [loc[w] EXCEPT !.i = I(w) + 1]
                             /\ pidset[I(w)] = NoPid
      BY <1>0, <2>23 DEF LookPid, Goto, Turn, Forget, TypeInv, TypeOK, IndexOK
    <3>5. pc'[w] = "look" => /\ loc'[w].i = loc[w].i + 1 /\ loc'[w].create = loc[w].create
                             /\ loc[w].i \in Int
      BY <1>0, <3>4 DEF Locals
    <3>6. \A q \in asleep[w] : pidset[sig_idx[q]] # NoPid
      BY <1>1, InLoop
    <3>7. \A q \in asleep[w] : ~loc[w].create => Reached(w, sig_idx[q])
      BY <3>1 DEF SleepInv, Looked
    <3>8. CASE pc'[w] = "bit"
      BY <1>0, <1>1, <3>1, <3>2, <3>3, <3>7, <3>8 DEF Looked, Reached, Ahead, BeforeWrite, AfterWrite
    <3>9. CASE pc'[w] = "look"
      <4>1. \A q \in asleep[w] : Ahead(w, sig_idx[q]) => loc'[w].i < sig_idx[q] \/ loc'[w].i = sig_idx[q]
        BY <1>1, <3>4, <3>5, <3>6, <3>9 DEF Ahead
      <4> QED
        BY <1>0, <1>1, <3>2, <3>5, <3>7, <3>9, <4>1 DEF Looked, Reached, Ahead, AfterWrite
    <3> QED
      BY <3>1, <3>8, <3>9
  <2>24. CASE LookBit(w)
    <3>1. pc[w] = "bit" /\ pc'[w] \in {"open", "look"}
      BY <1>0, <2>24 DEF LookBit, Goto, Turn, TypeInv, IndexOK
    <3>2. UNCHANGED <<asleep, sig_idx, pipe, sigmask, missed>>
      BY <2>24 DEF LookBit, pipes, history
    <3>3. pc'[w] = "open" => loc'[w] = loc[w]
      BY <1>0, <2>24 DEF LookBit, Goto, Turn, Forget, TypeInv, IndexOK
    <3>4. pc'[w] = "look" => /\ loc'[w] = [loc[w] EXCEPT !.i = I(w) + 1]
                             /\ I(w) \notin sigmask
      BY <1>0, <2>24 DEF LookBit, Goto, Turn, Forget, TypeInv, TypeOK, IndexOK
    <3>5. pc'[w] = "look" => /\ loc'[w].i = loc[w].i + 1 /\ loc'[w].create = loc[w].create
                             /\ loc[w].i \in Int
      BY <1>0, <3>4 DEF Locals
    <3>6. \A q \in asleep[w] : pidset[sig_idx[q]] # NoPid
      BY <1>1, InLoop
    <3>7. \A q \in asleep[w] : ~loc[w].create => Reached(w, sig_idx[q])
      BY <3>1 DEF SleepInv, Looked
    <3>8. CASE pc'[w] = "open"
      BY <1>0, <1>1, <3>1, <3>2, <3>3, <3>7, <3>8 DEF Looked, Reached, Ahead, BeforeWrite, AfterWrite
    <3>9. CASE pc'[w] = "look"
      <4>1. \A q \in asleep[w] : Ahead(w, sig_idx[q]) => loc'[w].i < sig_idx[q] \/ loc'[w].i = sig_idx[q]
        BY <1>1, <3>4, <3>5, <3>6, <3>9 DEF Ahead
      <4> QED
        BY <1>0, <1>1, <3>2, <3>5, <3>7, <3>9, <4>1 DEF Looked, Reached, Ahead, AfterWrite
    <3> QED
      BY <3>1, <3>8, <3>9
  <2> QED
    BY <2>1, <2>2, <2>3, <2>4, <2>5, <2>6, <2>7, <2>8, <2>9, <2>10, <2>11, <2>12, <2>13, <2>14, <2>15, <2>16, <2>17, <2>18, <2>19, <2>20, <2>21, <2>22, <2>23, <2>24, Zenon DEF Writer, Signal, Verify
<1> QED
  BY <1>2, <1>3, <1>4 DEF SleepInv

\* With what came before, the condition on readers that are asleep
SleepStart == OnceStart /\ (OneAtATime /\ OneWriter => SleepInv)

\* And that no sleeper is passed over, in every state.
LEMMA SleepInvariant == Spec => []SleepStart
<1>1. Init => SleepStart
  <2> SUFFICES ASSUME Init PROVE SleepStart
    OBVIOUS
  <2>1. SleepInv
    BY DEF Init, SleepInv, Sleeping, Looked, BeforeWrite, AfterWrite, Procs
  <2>2. BitsInside /\ WokenOff
    BY DEF Init, BitsInside, WokenOff, BeforeWrite, Procs
  <2> QED
    BY <2>1, <2>2, InitType, InitSlot, InitCreating DEF SleepStart, OnceStart, StartInv
<1>2. SleepStart /\ [Next]_vars => SleepStart'
  <2> SUFFICES ASSUME SleepStart, [Next]_vars PROVE SleepStart'
    OBVIOUS
  <2>1. TypeInv /\ TypeInv' /\ OnceStart'
    BY NextType, NextSlot, NextCreating, NextBits, NextWoken
    DEF SleepStart, OnceStart, StartInv, OneWriter
  <2>2. ASSUME OneAtATime, OneWriter PROVE SleepInv'
    <3>1. SlotInv /\ Creating /\ SleepInv
      BY <2>2 DEF SleepStart, OnceStart, StartInv
    <3>2. ASSUME NEW r \in Readers, Start(r) \/ Join(r) \/ Loop(r) \/ Die(r) PROVE SleepInv'
      BY <2>1, <3>1, <3>2, SleepReader
    <3>3. ASSUME NEW w \in Writers, Writer(w) \/ MinuteLater(w) \/ Crash(w) PROVE SleepInv'
      BY <2>1, <2>2, <3>1, <3>3, SleepWriter
    <3>4. CASE UNCHANGED vars
      BY <3>1, <3>4 DEF vars, pipes, history, SleepInv, Sleeping, Looked, Reached, Ahead, I
    <3> QED
      BY <3>2, <3>3, <3>4, Zenon DEF Next
  <2> QED
    BY <2>1, <2>2 DEF SleepStart, OneWriter
<1> QED
  BY <1>1, <1>2, PTL DEF Spec

\* With one writer, and processes that start one after the other, a sq_put that has
\* reached sig_node_num and signals fewer than sig_process_num readers leaves none
\* of those that were asleep when it began without a byte in its pipe, unless
\* signal_process gave the pipe up: no reader is passed over.
THEOREM NobodyPassedOver == Spec => SleepersSignalled
<1>1. SleepStart /\ [Next]_vars =>
        (OneAtATime /\ Cardinality(Writers) = 1 =>
           \A w \in Writers :
              pc[w] = "look" /\ pc'[w] = "ready" /\ loc[w].nr < sig_process_num =>
                  \A r \in asleep[w] : pipe[sig_idx[r]] > 0 \/ sig_idx[r] \in missed)
  <2> SUFFICES ASSUME SleepStart, [Next]_vars, OneAtATime, Cardinality(Writers) = 1,
                      NEW w \in Writers, pc[w] = "look", pc'[w] = "ready",
                      loc[w].nr < sig_process_num, NEW r \in asleep[w]
               PROVE  pipe[sig_idx[r]] > 0 \/ sig_idx[r] \in missed
    OBVIOUS
  <2>1. TypeInv /\ SlotInv /\ Creating /\ SleepInv /\ OneWriter
    BY OneIsOne DEF SleepStart, OnceStart, StartInv
  <2>2. Reached(w, sig_idx[r])
    BY <2>1 DEF SleepInv, Looked, Creating, PutPC
  <2>3. r \in Readers /\ pc[r] \in LoopPC
    BY <2>1 DEF SleepInv, Sleeping, TypeInv, TypeOK, LoopPC
  <2>4. sig_idx[r] < pidnum /\ sig_idx[r] \in Slots
    BY <2>1, <2>3, InLoop
  <2>5. Look(w)
    <3>1. ~UNCHANGED vars
      BY DEF vars
    <3>2. ASSUME NEW q \in Readers, Start(q) \/ Join(q) \/ Loop(q) \/ Die(q) PROVE FALSE
      BY <2>1, <3>2, OnlyReader, NotBoth DEF Only, Procs
    <3>3. Writer(w) \/ MinuteLater(w) \/ Crash(w)
      BY <2>1, <3>1, <3>2, Zenon DEF Next, OneWriter
    <3>4. ~MinuteLater(w) /\ ~Crash(w)
      BY <2>1 DEF MinuteLater, Crash, Goto, TypeInv, IndexOK, Procs
    <3>5. ~(Create(w) \/ Notify(w) \/ Put(w) \/ Test(w) \/ LookPid(w) \/ LookBit(w) \/ PutSigOff(w))
      BY DEF Create, Notify, Put, Test, LookPid, LookBit, PutSigOff, At
    <3>6. ~Signal(w)
      BY DEF Signal, OpenFifo, LockPipe, Count, Add, Reset, Write, Unlock, At
    <3>7. ~Verify(w)
      BY DEF Verify, VerifyStart, VerifyTop, VerifyTopOff, VerifyShrink, VerifyRest,
             VerifyRestOff, VerifyClear, At
    <3> QED
      BY <3>3, <3>4, <3>5, <3>6, <3>7 DEF Writer
  <2>6. ~(I(w) < pidnum)
    BY <2>1, <2>5 DEF Look, More, Turn, Goto, At, TypeInv, IndexOK, Procs
  <2>7. I(w) \in Int /\ pidnum \in Int /\ sig_idx[r] \in Int
    <3>1. loc[w] \in Locals /\ pidnum \in 0 .. SQ_MAX_READER_PROC_NUM
      BY <2>1, Local DEF Procs, TypeInv, TypeOK
    <3> QED
      BY <2>4, <3>1 DEF Locals, Slots, I
  <2> QED
    BY <2>2, <2>4, <2>6, <2>7 DEF Reached, Ahead
<1> QED
  BY <1>1, SleepInvariant, PTL DEF Spec, SleepersSignalled
=============================================================================
