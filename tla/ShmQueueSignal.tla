--------------------------- MODULE ShmQueueSignal ---------------------------
(***************************************************************************)
(* How readers of the shared-memory queue sleep and are woken: the table   *)
(* of reader processes, their signal bits and pipes, the end of sq_put,    *)
(* and the reader's loop of the test program (shmqueue/shm_queue.c).  The  *)
(* ring itself is ShmQueue; of it, only the number of used blocks remains, *)
(* one to a message.  One action per access to shared memory.              *)
(*                                                                         *)
(* A reader that sleeps is registered in a slot: pidset has its pid, the   *)
(* bit of the slot in sigmask is on, and it waits on the slot's pipe.      *)
(*                                                                         *)
(* A definition that directly precedes another with its parameters and is  *)
(* used nowhere is the other one with a mistake in it, which the           *)
(* properties must notice.                                                 *)
(***************************************************************************)
EXTENDS Integers, FiniteSets, TLC

CONSTANTS
    Readers,                 \* processes that call sq_get, as their pids
    Writers,                 \* processes that call sq_create and sq_put
    NoPid,                   \* 0 in pidset
    SQ_MAX_READER_PROC_NUM,
    sig_node_num, sig_process_num,   \* the arguments of sq_create
    SIGNR_LIMIT,             \* 10: writers turned away before one overwrites
    OneAtATime,              \* whether processes start one after the other
    MaxUsed,                 \* bound: messages in the ring
    PipeSize,                \* bound: bytes in a pipe
    MaxDeaths, MaxCrashes    \* bounds: readers, and writers, that die

ASSUME SignalAssumption ==
    /\ NoPid \notin Readers /\ Readers \cap Writers = {}
    /\ IsFiniteSet(Readers) /\ IsFiniteSet(Writers)
    /\ SQ_MAX_READER_PROC_NUM \in Nat \ {0}
    /\ sig_node_num \in Nat /\ sig_process_num \in Nat /\ SIGNR_LIMIT \in Nat
    /\ OneAtATime \in BOOLEAN
    /\ MaxUsed \in Nat /\ PipeSize \in 1 .. 64
    /\ MaxDeaths \in Nat /\ MaxCrashes \in Nat

\* Readers differ in nothing but their pids.
Symmetry == Permutations(Readers)

Slots == 0 .. SQ_MAX_READER_PROC_NUM - 1
Procs == Readers \cup Writers

VARIABLES
    pidnum, pidset, sigmask, siglock, signr,   \* sq_head_t; sets of slots for
                                               \* sigmask and siglock
    used,            \* SQ_USED_NODES
    pipe, hup,       \* the bytes in the pipes; those whose last writer closed
    alive,           \* the reader processes that exist
    pc, loc,         \* all processes: where they are, and their locals
    sig_idx,         \* readers: the slot, -1 before there is one and a pipe
    poll_fdset,      \* writers: the slots whose pipe is open for writing
    fifo_times,      \* writers: the slots that failed to open within a minute
    asleep,          \* history: readers asleep since this put began to look
    missed,          \* history: slots given up since sq_put began, or sq_sigon
    woken,           \* history: slots sq_put has written to since sq_sigon
    deaths, crashes  \* how many processes have died

table   == <<pidnum, pidset>>
locks   == <<siglock, signr>>
pipes   == <<pipe, hup>>
handles == <<poll_fdset, fifo_times>>
history == <<asleep, missed, woken>>
ends    == <<deaths, crashes>>
vars    == <<table, sigmask, locks, used, pipes, alive, pc, loc, sig_idx,
             handles, history, ends>>

VerifyPC == {"verify", "top", "topoff", "shrink", "rest", "restoff", "clear"}
JoinPC   == {"scan", "claim", "extend", "oldpid", "grow", "own", "fifo"}
ReaderPC == {"unborn", "dead", "failed", "on", "select", "off", "consume", "get"}
              \cup VerifyPC \cup JoinPC
WriterPC == {"new", "notify", "ready", "test", "look", "pid", "bit", "open", "lock", "count",
             "add", "reset", "write", "unlock", "sigoff"} \cup VerifyPC

\* i: the loop's index; n and old: pidnum and a pid as they were read; nr: how
\* many were signalled; create: inside sq_create; ready: select found the pipe
Locals == [i: -2 .. SQ_MAX_READER_PROC_NUM, n: Nat, old: Readers \cup {NoPid},
           nr: Nat, create: BOOLEAN, ready: BOOLEAN]
Fresh == [i |-> 0, n |-> 0, old |-> NoPid, nr |-> 0, create |-> FALSE, ready |-> FALSE]

Init ==
    /\ pidnum = 0 /\ pidset = [s \in Slots |-> NoPid]
    /\ sigmask = {} /\ siglock = {} /\ signr = [s \in Slots |-> 0]
    /\ used = 0 /\ pipe = [s \in Slots |-> 0] /\ hup = {} /\ alive = {}
    /\ pc = [p \in Procs |-> IF p \in Readers THEN "unborn" ELSE "new"]
    /\ loc = [p \in Procs |-> Fresh]
    /\ sig_idx = [r \in Readers |-> -1]
    /\ poll_fdset = [w \in Writers |-> {}] /\ fifo_times = [w \in Writers |-> {}]
    /\ asleep = [w \in Writers |-> {}] /\ missed = {} /\ woken = {}
    /\ deaths = 0 /\ crashes = 0

Goto(p, l) == pc' = [pc EXCEPT ![p] = l]
At(p, l) == pc[p] = l
I(p) == loc[p].i

\* The locals of a function end with it.
Forget(p) == loc' = [loc EXCEPT ![p] = Fresh]

\* Process p goes to l, and on to the slot s
Turn(p, l, s) == Goto(p, l) /\ loc' = [loc EXCEPT ![p].i = s]

\* sq_set_sig_off does nothing for an index that is no longer in the table.
WithoutBit(s) == IF s < pidnum THEN sigmask \ {s} ELSE sigmask
WithBit(s)    == IF s < pidnum THEN sigmask \cup {s} ELSE sigmask

-----------------------------------------------------------------------------
(* verify_and_remove_bad_pids, by a reader that registers and by sq_create *)

is_pid_valid(pid) == pid \in alive

\* pidnum is always in 0 .. SQ_MAX_READER_PROC_NUM: the code's repair of another
\* value never happens.
VerifyStart(p) ==
    /\ At(p, "verify") /\ Turn(p, "top", pidnum - 1)
    /\ UNCHANGED <<table, sigmask, locks, used, pipes, alive, sig_idx, handles, history, ends>>

\* The first loop: is the last of the table invalid?
VerifyTop(p) ==
    /\ At(p, "top")
    /\ \/ I(p) >= 0 /\ ~is_pid_valid(pidset[I(p)]) /\ Goto(p, "topoff") /\ UNCHANGED loc
       \/ I(p) >= 0 /\ is_pid_valid(pidset[I(p)]) /\ Turn(p, "rest", I(p) - 1)
       \/ I(p) < 0 /\ Turn(p, "rest", I(p) - 1)
    /\ UNCHANGED <<table, sigmask, locks, used, pipes, alive, sig_idx, handles, history, ends>>

VerifyTopOff(p) ==
    /\ At(p, "topoff") /\ Goto(p, "shrink") /\ sigmask' = WithoutBit(I(p))
    /\ UNCHANGED <<table, locks, used, pipes, alive, loc, sig_idx, handles, history, ends>>

\* What the number of pids becomes when the one in slot s, the last, is removed
RemovedTwo(s) == IF s = 0 THEN 0 ELSE s - 1
RemovedBelow(s) == s - 1
Removed(s) == s

\* CAS32(&sq->pidnum, i+1, i)
VerifyShrink(p) ==
    /\ At(p, "shrink")
    /\ \/ pidnum = I(p) + 1 /\ pidnum' = Removed(I(p)) /\ Turn(p, "top", I(p) - 1)
       \/ pidnum # I(p) + 1 /\ Turn(p, "rest", I(p) - 1) /\ UNCHANGED pidnum
    /\ UNCHANGED <<pidset, sigmask, locks, used, pipes, alive, sig_idx, handles, history, ends>>

\* The second loop; after it a reader goes on registering, sq_create signals.
VerifyRest(p) ==
    /\ At(p, "rest")
    /\ \/ /\ I(p) >= 0 /\ ~is_pid_valid(pidset[I(p)]) /\ Goto(p, "restoff")
          /\ loc' = [loc EXCEPT ![p].old = pidset[I(p)]]
       \/ I(p) >= 0 /\ is_pid_valid(pidset[I(p)]) /\ Turn(p, "rest", I(p) - 1)
       \/ /\ I(p) < 0 /\ Goto(p, IF p \in Readers THEN "scan" ELSE "notify")
          /\ loc' = [loc EXCEPT ![p].i = 0, ![p].old = NoPid]
    /\ UNCHANGED <<table, sigmask, locks, used, pipes, alive, sig_idx, handles, history, ends>>

VerifyRestOff(p) ==
    /\ At(p, "restoff") /\ Goto(p, "clear") /\ sigmask' = WithoutBit(I(p))
    /\ UNCHANGED <<table, locks, used, pipes, alive, loc, sig_idx, handles, history, ends>>

\* CAS32(&sq->pidset[i], oldpid, 0)
VerifyClear(p) ==
    /\ At(p, "clear")
    /\ pidset' = IF pidset[I(p)] = loc[p].old THEN [pidset EXCEPT ![I(p)] = NoPid] ELSE pidset
    /\ Turn(p, "rest", I(p) - 1)
    /\ UNCHANGED <<pidnum, sigmask, locks, used, pipes, alive, sig_idx, handles, history, ends>>

Verify(p) ==
    \/ VerifyStart(p) \/ VerifyTop(p) \/ VerifyTopOff(p) \/ VerifyShrink(p)
    \/ VerifyRest(p) \/ VerifyRestOff(p) \/ VerifyClear(p)

\* Nobody else is registering or creating, if processes start one by one.
Turnstile == OneAtATime => \A q \in Procs : pc[q] \notin VerifyPC \cup JoinPC

-----------------------------------------------------------------------------
(* sq_get_eventfd, in a reader *)

\* A process begins, perhaps with the pid of one that has died, or calls again
\* what has failed.
Start(r) ==
    /\ pc[r] \in {"unborn", "dead", "failed"} /\ Turnstile
    /\ alive' = alive \cup {r} /\ Goto(r, "verify")
    /\ UNCHANGED <<table, sigmask, locks, used, pipes, loc, sig_idx, handles, history, ends>>

\* Is our pid there?  Nobody else writes it or removes it while we live, so the
\* scan is one step.
Scan(r) ==
    /\ At(r, "scan")
    /\ \/ \E s \in Slots : /\ s < pidnum /\ pidset[s] = r
                           /\ \A t \in Slots : t < s => pidset[t] # r
                           /\ Turn(r, "fifo", s)
       \/ /\ \A s \in Slots : s < pidnum => pidset[s] # r
          /\ Turn(r, "claim", 0)
    /\ UNCHANGED <<table, sigmask, locks, used, pipes, alive, sig_idx, handles, history, ends>>

\* One turn of the search for a slot that is empty, with the CAS32 that takes it
Claim(r) ==
    /\ At(r, "claim")
    /\ \/ /\ I(r) < pidnum /\ pidset[I(r)] = NoPid
          /\ pidset' = [pidset EXCEPT ![I(r)] = r]
          /\ Goto(r, "fifo") /\ UNCHANGED loc
       \/ I(r) < pidnum /\ pidset[I(r)] # NoPid /\ Turn(r, "claim", I(r) + 1) /\ UNCHANGED pidset
       \/ I(r) >= pidnum /\ Goto(r, "extend") /\ UNCHANGED <<pidset, loc>>
    /\ UNCHANGED <<pidnum, sigmask, locks, used, pipes, alive, sig_idx, handles, history, ends>>

\* "pid num exceeds maximum", or go on with pidnum as it is
Extend(r) ==
    /\ At(r, "extend")
    /\ IF pidnum >= SQ_MAX_READER_PROC_NUM
       THEN Goto(r, "failed") /\ UNCHANGED loc
       ELSE Goto(r, "oldpid") /\ loc' = [loc EXCEPT ![r].n = pidnum]
    /\ UNCHANGED <<table, sigmask, locks, used, pipes, alive, sig_idx, handles, history, ends>>

OldPid(r) ==
    /\ At(r, "oldpid") /\ Goto(r, "grow")
    /\ loc' = [loc EXCEPT ![r].old = pidset[loc[r].n]]
    /\ UNCHANGED <<table, sigmask, locks, used, pipes, alive, sig_idx, handles, history, ends>>

\* CAS32(&sq->pidnum, pidnum, pidnum+1)
Grow(r) ==
    /\ At(r, "grow")
    /\ \/ pidnum = loc[r].n /\ pidnum' = loc[r].n + 1 /\ Goto(r, "own")
       \/ pidnum # loc[r].n /\ Goto(r, "extend") /\ UNCHANGED pidnum
    /\ UNCHANGED <<pidset, sigmask, locks, used, pipes, alive, loc, sig_idx, handles, history, ends>>

\* && CAS32(&sq->pidset[pidnum], oldpid, pid)
Own(r) ==
    /\ At(r, "own")
    /\ \/ /\ pidset[loc[r].n] = loc[r].old
          /\ pidset' = [pidset EXCEPT ![loc[r].n] = r]
          /\ Turn(r, "fifo", loc[r].n)
       \/ pidset[loc[r].n] # loc[r].old /\ Goto(r, "extend") /\ UNCHANGED <<pidset, loc>>
    /\ UNCHANGED <<pidnum, sigmask, locks, used, pipes, alive, sig_idx, handles, history, ends>>

\* create_fifo for reading.  Where it fails, the call does, and there is no slot
\* in the handle; the pid stays in the table.
Fifo(r) ==
    /\ At(r, "fifo") /\ Forget(r)
    /\ \/ /\ Goto(r, "on") /\ sig_idx' = [sig_idx EXCEPT ![r] = I(r)]
          /\ hup' = hup \ {I(r)}
       \/ Goto(r, "failed") /\ UNCHANGED <<sig_idx, hup>>
    /\ UNCHANGED <<table, sigmask, locks, used, pipe, alive, handles, history, ends>>

-----------------------------------------------------------------------------
(* The loop of test_get *)

\* sq_sigon: an index that has fallen out of the table is an error nobody reads
SigOn(r) ==
    /\ At(r, "on") /\ Goto(r, "select")
    /\ sigmask' = WithBit(sig_idx[r])
    /\ missed' = missed \ {sig_idx[r]} /\ woken' = woken \ {sig_idx[r]}
    /\ UNCHANGED <<table, locks, used, pipes, alive, loc, sig_idx, handles, asleep, ends>>

\* select returns: there are bytes, or the last writer has closed the pipe, or
\* 100 seconds have passed
Select(r, ready) ==
    /\ At(r, "select") /\ Goto(r, "off")
    /\ ready = (pipe[sig_idx[r]] > 0 \/ sig_idx[r] \in hup)
    /\ loc' = [loc EXCEPT ![r].ready = ready]
    /\ asleep' = [w \in Writers |-> asleep[w] \ {r}]
    /\ UNCHANGED <<table, sigmask, locks, used, pipes, alive, sig_idx, handles, missed, woken, ends>>
Wake(r)     == Select(r, TRUE)
NoTimeout(r) == FALSE
Timeout(r)  == Select(r, FALSE)

SigOff(r) ==
    /\ At(r, "off") /\ Goto(r, IF loc[r].ready THEN "consume" ELSE "get") /\ Forget(r)
    /\ sigmask' = WithoutBit(sig_idx[r])
    /\ UNCHANGED <<table, locks, used, pipes, alive, sig_idx, handles, history, ends>>

\* sq_consume_event reads up to 64 bytes
Consume(r) ==
    /\ At(r, "consume") /\ Goto(r, "get")
    /\ pipe' = [pipe EXCEPT ![sig_idx[r]] = 0]
    /\ UNCHANGED <<table, sigmask, locks, used, hup, alive, loc, sig_idx, handles, history, ends>>

\* sq_get, and back to sleep, whether or not there was a message
Get(r) ==
    /\ At(r, "get") /\ Goto(r, "on")
    /\ used' = IF used > 0 THEN used - 1 ELSE 0
    /\ UNCHANGED <<table, sigmask, locks, pipes, alive, loc, sig_idx, handles, history, ends>>

\* A reader ends, at the end of its loop or anywhere else.  Bytes stay in the
\* pipe as long as somebody has it open.
Open(s, R, fds) == (\E r \in R : sig_idx[r] = s) \/ \E w \in Writers : s \in fds[w]
Die(r) ==
    /\ r \in alive /\ deaths < MaxDeaths /\ deaths' = deaths + 1
    /\ alive' = alive \ {r} /\ Goto(r, "dead") /\ Forget(r)
    /\ sig_idx' = [sig_idx EXCEPT ![r] = -1]
    /\ pipe' = [s \in Slots |-> IF Open(s, alive', poll_fdset) THEN pipe[s] ELSE 0]
    /\ asleep' = [w \in Writers |-> asleep[w] \ {r}]
    /\ UNCHANGED <<table, sigmask, locks, used, hup, handles, missed, woken, crashes>>

Join(r) ==
    \/ Verify(r) \/ Scan(r) \/ Claim(r) \/ Extend(r) \/ OldPid(r) \/ Grow(r)
    \/ Own(r) \/ Fifo(r)
Loop(r) == SigOn(r) \/ Wake(r) \/ Timeout(r) \/ SigOff(r) \/ Consume(r) \/ Get(r)

-----------------------------------------------------------------------------
(* sq_create and sq_put, in a writer *)

\* sq_create, under the lock file: sq_set_sigparam verifies the pids and then
\* signals all of them.
Create(w) ==
    /\ At(w, "new") /\ Turnstile
    /\ \A q \in Writers : ~loc[q].create
    /\ Goto(w, "verify") /\ loc' = [loc EXCEPT ![w].create = TRUE]
    /\ UNCHANGED <<table, sigmask, locks, used, pipes, alive, sig_idx, handles, history, ends>>

Notify(w) ==
    /\ At(w, "notify")
    /\ IF I(w) < pidnum THEN Goto(w, "open") /\ UNCHANGED loc
       ELSE Goto(w, "ready") /\ Forget(w)
    /\ UNCHANGED <<table, sigmask, locks, used, pipes, alive, sig_idx, handles, history, ends>>

\* The message is in the ring.
Put(w) ==
    /\ At(w, "ready") /\ used < MaxUsed
    /\ used' = used + 1 /\ Goto(w, "test")
    /\ UNCHANGED <<table, sigmask, locks, pipes, alive, loc, sig_idx, handles, history, ends>>

\* Element num reached?
Test(w) ==
    /\ At(w, "test")
    /\ IF sig_node_num # 0 /\ used >= sig_node_num
       THEN Goto(w, "look") /\ loc' = [loc EXCEPT ![w].i = 0, ![w].nr = 0]
       ELSE Goto(w, "ready") /\ UNCHANGED loc
    /\ asleep' = [asleep EXCEPT ![w] =
                     {r \in alive : At(r, "select") /\ sig_idx[r] \in sigmask}]
    /\ missed' = {}
    /\ UNCHANGED <<table, sigmask, locks, used, pipes, alive, sig_idx, handles, woken, ends>>

\* One turn of the loop over the pids: is there one more to look at ...
MoreButLast(w) == I(w) + 1 < pidnum /\ loc[w].nr < sig_process_num
More(w) == I(w) < pidnum /\ loc[w].nr < sig_process_num
Look(w) ==
    /\ At(w, "look")
    /\ IF More(w) THEN Goto(w, "pid") /\ UNCHANGED loc ELSE Goto(w, "ready") /\ Forget(w)
    /\ UNCHANGED <<table, sigmask, locks, used, pipes, alive, sig_idx, handles, history, ends>>

\* ... has the slot a pid ...
LookPid(w) ==
    /\ At(w, "pid")
    /\ IF pidset[I(w)] # NoPid THEN Goto(w, "bit") /\ UNCHANGED loc
       ELSE Turn(w, "look", I(w) + 1)
    /\ UNCHANGED <<table, sigmask, locks, used, pipes, alive, sig_idx, handles, history, ends>>

\* ... and its bit on?
LookBit(w) ==
    /\ At(w, "bit")
    /\ IF I(w) \in sigmask THEN Goto(w, "open") /\ UNCHANGED loc
       ELSE Turn(w, "look", I(w) + 1)
    /\ UNCHANGED <<table, sigmask, locks, used, pipes, alive, sig_idx, handles, history, ends>>

\* signal_process returns, to sq_put or to sq_create.
Signalled(w) ==
    IF loc[w].create THEN Turn(w, "notify", I(w) + 1)
                     ELSE Goto(w, "sigoff") /\ UNCHANGED loc

GivesUp(w) == Signalled(w) /\ missed' = missed \cup {I(w)}

\* The pipe is opened for writing the first time, and tried again a minute after
\* it failed: it does as long as no reader has it open.
OpenFifo(w) ==
    /\ At(w, "open")
    /\ \/ /\ I(w) \in poll_fdset[w] /\ Goto(w, "lock")
          /\ UNCHANGED <<loc, hup, handles, missed>>
       \/ /\ I(w) \notin poll_fdset[w] \cup fifo_times[w]
          /\ \E r \in alive : sig_idx[r] = I(w)
          /\ poll_fdset' = [poll_fdset EXCEPT ![w] = @ \cup {I(w)}]
          /\ hup' = hup \ {I(w)} /\ Goto(w, "lock")
          /\ UNCHANGED <<loc, fifo_times, missed>>
       \/ /\ I(w) \notin poll_fdset[w] /\ GivesUp(w)
          /\ I(w) \in fifo_times[w] \/ \A r \in alive : sig_idx[r] # I(w)
          /\ fifo_times' = [fifo_times EXCEPT ![w] = @ \cup {I(w)}]
          /\ UNCHANGED <<hup, poll_fdset>>
    /\ UNCHANGED <<table, sigmask, locks, used, pipe, alive, sig_idx, asleep, woken, ends>>

MinuteLater(w) ==
    /\ fifo_times[w] # {} /\ fifo_times' = [fifo_times EXCEPT ![w] = {}]
    /\ UNCHANGED <<table, sigmask, locks, used, pipes, alive, pc, loc, sig_idx, poll_fdset, history, ends>>

\* CAS32(&sq->head->siglock[sigidx], 0, 1)
LockPipe(w) ==
    /\ At(w, "lock")
    /\ siglock' = siglock \cup {I(w)}
    /\ Goto(w, IF I(w) \in siglock THEN "count" ELSE "reset")
    /\ UNCHANGED <<table, sigmask, signr, used, pipes, alive, loc, sig_idx, handles, history, ends>>

\* "deadlock detection: too many writers waiting, overwrite"
TooMany(s) == signr[s] > SIGNR_LIMIT

Count(w) ==
    /\ At(w, "count") /\ Goto(w, IF TooMany(I(w)) THEN "reset" ELSE "add")
    /\ UNCHANGED <<table, sigmask, locks, used, pipes, alive, loc, sig_idx, handles, history, ends>>

\* __sync_fetch_and_add(&sq->head->signr[sigidx], 1)
Uncounted(s) == signr[s]
Counted(s) == signr[s] + 1

Add(w) ==
    /\ At(w, "add") /\ GivesUp(w)
    /\ signr' = [signr EXCEPT ![I(w)] = Counted(I(w))]
    /\ UNCHANGED <<table, sigmask, siglock, used, pipes, alive, sig_idx, handles, asleep, woken, ends>>

Reset(w) ==
    /\ At(w, "reset") /\ Goto(w, "write")
    /\ signr' = [signr EXCEPT ![I(w)] = 0]
    /\ UNCHANGED <<table, sigmask, siglock, used, pipes, alive, loc, sig_idx, handles, history, ends>>

\* A byte, if somebody has the pipe open for reading and there is room
NoByte(s) == pipe
Byte(s) == IF (\E r \in alive : sig_idx[r] = s) /\ pipe[s] < PipeSize
           THEN [pipe EXCEPT ![s] = @ + 1] ELSE pipe

Write(w) ==
    /\ At(w, "write") /\ Goto(w, "unlock") /\ pipe' = Byte(I(w))
    /\ woken' = IF loc[w].create THEN woken ELSE woken \cup {I(w)}
    /\ UNCHANGED <<table, sigmask, locks, used, hup, alive, loc, sig_idx, handles, asleep, missed, ends>>

Unlock(w) ==
    /\ At(w, "unlock") /\ siglock' = siglock \ {I(w)} /\ Signalled(w)
    /\ UNCHANGED <<table, sigmask, signr, used, pipes, alive, sig_idx, handles, history, ends>>

\* nr++, and sq_set_sig_off, which "avoids being signaled again"
BitLeft(s) == sigmask
BitOff(s) == WithoutBit(s)

PutSigOff(w) ==
    /\ At(w, "sigoff") /\ Goto(w, "look")
    /\ sigmask' = BitOff(I(w))
    /\ loc' = [loc EXCEPT ![w].i = @ + 1, ![w].nr = @ + 1]
    /\ UNCHANGED <<table, locks, used, pipes, alive, sig_idx, handles, history, ends>>

\* A writer dies and is started again: its pipes are closed.
Crash(w) ==
    /\ pc[w] # "new" /\ crashes < MaxCrashes /\ crashes' = crashes + 1
    /\ Goto(w, "new") /\ Forget(w)
    /\ poll_fdset' = [poll_fdset EXCEPT ![w] = {}]
    /\ fifo_times' = [fifo_times EXCEPT ![w] = {}]
    /\ hup' = hup \cup {s \in poll_fdset[w] : ~Open(s, {}, poll_fdset')}
    /\ pipe' = [s \in Slots |-> IF Open(s, alive, poll_fdset') THEN pipe[s] ELSE 0]
    /\ asleep' = [asleep EXCEPT ![w] = {}] /\ woken' = {}
    /\ UNCHANGED <<table, sigmask, locks, used, alive, sig_idx, missed, deaths>>

Signal(w) ==
    \/ OpenFifo(w) \/ LockPipe(w) \/ Count(w) \/ Add(w) \/ Reset(w)
    \/ Write(w) \/ Unlock(w)
Writer(w) ==
    \/ Create(w) \/ Verify(w) \/ Notify(w) \/ Put(w) \/ Test(w)
    \/ Look(w) \/ LookPid(w) \/ LookBit(w) \/ Signal(w) \/ PutSigOff(w)

Next ==
    \/ \E r \in Readers : Start(r) \/ Join(r) \/ Loop(r) \/ Die(r)
    \/ \E w \in Writers : Writer(w) \/ MinuteLater(w) \/ Crash(w)

Spec == Init /\ [][Next]_vars

\* Processes go on with what they have begun, select times out, and time passes;
\* nobody has to start, or to put.
FairSpec ==
    /\ Spec
    /\ \A r \in Readers : WF_vars(Join(r) \/ Loop(r))
    /\ \A w \in Writers : /\ WF_vars(Writer(w) /\ pc[w] \notin {"new", "ready"})
                          /\ WF_vars(MinuteLater(w))

-----------------------------------------------------------------------------
(* Properties *)

TypeOK ==
    /\ pidnum \in 0 .. SQ_MAX_READER_PROC_NUM
    /\ pidset \in [Slots -> Readers \cup {NoPid}]
    /\ sigmask \subseteq Slots /\ siglock \subseteq Slots /\ signr \in [Slots -> Nat]
    /\ used \in 0 .. MaxUsed /\ pipe \in [Slots -> 0 .. PipeSize] /\ hup \subseteq Slots
    /\ alive \subseteq Readers /\ deaths \in 0 .. MaxDeaths /\ crashes \in 0 .. MaxCrashes
    /\ \A r \in Readers : pc[r] \in ReaderPC
    /\ \A w \in Writers : pc[w] \in WriterPC
    /\ loc \in [Procs -> Locals]
    /\ sig_idx \in [Readers -> Slots \cup {-1}]
    /\ poll_fdset \in [Writers -> SUBSET Slots] /\ fifo_times \in [Writers -> SUBSET Slots]
    /\ asleep \in [Writers -> SUBSET Readers] /\ missed \subseteq Slots /\ woken \subseteq Slots

Registered(r) == r \in alive /\ sig_idx[r] # -1

\* "each process has a uniq event fd": no two processes wait on one pipe.
UniqueFd ==
    \A q, r \in Readers :
        Registered(q) /\ Registered(r) /\ sig_idx[q] = sig_idx[r] => q = r

\* As long as processes start one after the other, a reader keeps its slot until
\* it dies, whoever dies meanwhile and at which point of its registration, and
\* the slot stays inside the part of the table that sq_put looks at.
OwnSlot ==
    OneAtATime => \A r \in Readers :
        Registered(r) => sig_idx[r] < pidnum /\ pidset[sig_idx[r]] = r

\* A sq_put that has reached sig_node_num wakes every reader that was asleep and
\* waiting for a signal when it began to look, and still is, or sig_process_num
\* others; but for those whose pipe signal_process gave up.  With one writer:
\* another may clear the bit of a reader that has just gone to sleep again.  And
\* with processes that start one after the other: a slot given away twice may
\* fall out of the table with a reader in it.
SleepersSignalled ==
    [][OneAtATime /\ Cardinality(Writers) = 1 =>
         \A w \in Writers :
            pc[w] = "look" /\ pc'[w] = "ready" /\ loc[w].nr < sig_process_num =>
                \A r \in asleep[w] : pipe[sig_idx[r]] > 0 \/ sig_idx[r] \in missed]_vars

\* sq_put turns the bit off, which "avoids being signaled again": it writes to a
\* reader's pipe once for each time the reader has called sq_sigon.  Again with
\* one writer, as long as it does not die between the two, and with processes
\* that start one after the other: sq_set_sig_off does nothing for a slot that
\* has fallen out of the table, whose bit is on again when the table grows.
SignalledOnce ==
    [][OneAtATime /\ Cardinality(Writers) = 1 =>
         \A w \in Writers :
            pc[w] = "write" /\ pc'[w] = "unlock" /\ ~loc[w].create => I(w) \notin woken]_vars

\* "deadlock detection": a slot whose lock was left behind is not silent for
\* ever: if writers keep trying, one of them gets to write and unlocks it.
LockIsFreed ==
    \A s \in Slots : []<>(\E w \in Writers : pc[w] = "add" /\ I(w) = s)
                          => []<>(s \notin siglock)

\* The messages do not stay in the ring although wakeups are missed: a reader
\* may go to sleep when messages are there, but select times out.
RingDrained ==
    \A n \in 1 .. MaxUsed :
        (used = n /\ \E r \in alive : Registered(r))
            ~> (used # n \/ \A r \in alive : ~Registered(r))
=============================================================================
