----------------------------- MODULE MCPrograms -----------------------------
(***************************************************************************)
(* The programs that are checked under fairness, side by side for TLC: the *)
(* variable program says which of them runs, the others stay as they began, *)
(* and their state spaces add up.  The constants of the byte ring, of the   *)
(* store and of the thread pool are in the .cfg, those of the queue's      *)
(* processes are here.                                                     *)
(***************************************************************************)
EXTENDS UnlockQueue, CondBuffer, ThreadPool

VARIABLES
    program,
    pidnum, pidset, sigmask, siglock, signr, used, pipe, hup,     \* ShmQueueSignal
    alive, pc, loc, sig_idx, poll_fdset, fifo_times, asleep, overlooked, woken,
    deaths, crashes

Sig == INSTANCE ShmQueueSignal WITH
           Readers <- {"r1"}, Writers <- {"w1"}, NoPid <- "none",
           SQ_MAX_READER_PROC_NUM <- 1, sig_node_num <- 1, sig_process_num <- 1,
           SIGNR_LIMIT <- 1, OneAtATime <- TRUE, MaxUsed <- 1, PipeSize <- 1,
           MaxDeaths <- 1, MaxCrashes <- 1, missed <- overlooked

\* UnlockQueue: the buffer's size is the next power of two, for every nSize that the
\* constructor can be called with here; the theorems on the ring start from it.
ASSUME SizeRoundsUp == RoundsUp

Programs == {"ring", "cond", "pool", "signal"}

InitOne == program \in Programs /\ Init /\ CondInit /\ PoolInit /\ Sig!Init

sigVars  == <<pidnum, pidset, sigmask, siglock, signr, used, pipe, hup, alive, pc,
              loc, sig_idx, poll_fdset, fifo_times, asleep, overlooked, woken, deaths,
              crashes>>
allVars  == <<program, vars, condVars, poolVars, sigVars>>

\* A step of one program changes nothing of the others.
Ring(A)  == program = "ring" /\ A /\ UNCHANGED <<program, condVars, poolVars, sigVars>>
Store(A) == program = "cond" /\ A /\ UNCHANGED <<program, vars, poolVars, sigVars>>
Pool(A)  == program = "pool" /\ A /\ UNCHANGED <<program, vars, condVars, sigVars>>
Pipes(A) == program = "signal" /\ A /\ UNCHANGED <<program, vars, condVars, poolVars>>

NextOne == Ring(Next) \/ Store(CondNext) \/ Pool(PoolNext) \/ Pipes(Sig!Next)

\* The fairness of the byte ring, of the store's threads, of the pool's, and of
\* the processes that sleep and wake (FairSpec in their modules)
SpecOne ==
    /\ InitOne /\ [][NextOne]_allVars
    /\ WF_allVars(Ring(Consumer)) /\ WF_allVars(Ring(Producer /\ ppc # "idle"))
    /\ \A t \in CondThreads : WF_allVars(Store(CondRun(t)))
    /\ WF_allVars(Pool(MainStep /\ mpc # "user"))
    /\ \A t \in Threads : WF_allVars(Pool(Thread(t)))
    /\ WF_allVars(Pipes(Sig!Join("r1") \/ Sig!Loop("r1")))
    /\ WF_allVars(Pipes(Sig!Writer("w1") /\ pc["w1"] \notin {"new", "ready"}))
    /\ WF_allVars(Pipes(Sig!MinuteLater("w1")))

-----------------------------------------------------------------------------
(* The properties of the programs, each of which is stated in its module;  *)
(* those of the byte ring, of the store and of the pool have the names     *)
(* they have there.                                                        *)
(* Programs that do not run keep theirs from the initial states on.        *)

\* UnlockQueue: every byte that was accepted is returned in the end; CondBuffer: the
\* three threads of the store end.
ProgramsEnd == AllReturned /\ (program = "cond" ~> Finished)

\* ShmQueueSignal: a lock that was left behind is taken away by writers that keep
\* trying
LockIsFreed == Sig!LockIsFreed
\* messages do not stay in the ring although a wakeup is missed
RingDrained == Sig!RingDrained
=============================================================================
