----------------------------- MODULE ThreadPool -----------------------------
(***************************************************************************)
(* The thread pool of example_thread_pool.cpp: the main thread creates the *)
(* pool, adds tasks and destroys the pool; the pool's threads take tasks   *)
(* from a linked list that queue_lock protects and wait on queue_ready.    *)
(*                                                                         *)
(* What a thread does while it holds queue_lock is one action where only   *)
(* data that the lock protects is touched, and several where `shutdown' is *)
(* read, which pool_destroy writes without the lock.                       *)
(*                                                                         *)
(* A definition that directly precedes another with its parameters and is  *)
(* used nowhere is the other one with a mistake in it, which the           *)
(* properties must notice.                                                 *)
(***************************************************************************)
EXTENDS Integers, Sequences

CONSTANTS max_thread_num,   \* the argument of pool_init
          MaxTasks          \* bound: calls of pool_add_worker

ASSUME PoolAssumption == max_thread_num \in Nat \ {0} /\ MaxTasks \in Nat

Threads == 1 .. max_thread_num
Tasks   == 1 .. MaxTasks       \* numbered in the order they are added
Main    == 0
Free    == -1

VARIABLES
    queue_lock,       \* who holds the mutex
    waiting,          \* the threads asleep in pthread_cond_wait
    queue_head,       \* the list of waiting tasks
    cur_queue_size,
    shutdown,
    mpc, i,           \* main: where it is, its loop counter
    tpc, worker,      \* the pool's threads: where they are, the task they have
    nadded,           \* history: tasks added
    begun,            \* history: tasks taken from the list, in order
    done,             \* history: tasks that have run to their end
    missed            \* history: pool_destroy's broadcast came between a
                      \* thread's last look at `shutdown' and its wait

pool    == <<queue_lock, waiting, queue_head, cur_queue_size, shutdown>>
main    == <<mpc, i>>
threads == <<tpc, worker>>
history == <<nadded, begun, done, missed>>
poolVars    == <<pool, main, threads, history>>

MainPC   == {"create", "user", "signal", "broadcast", "join", "drain", "end"}
ThreadPC == {"new", "lock", "relock", "check", "wait", "waiting", "shut", "take",
             "run", "exited"}

\* pool_init, up to the creation of the threads
PoolInit ==
    /\ queue_lock = Free /\ waiting = {}
    /\ queue_head = << >> /\ cur_queue_size = 0 /\ shutdown = FALSE
    /\ mpc = "create" /\ i = 1
    /\ tpc = [t \in Threads |-> "new"] /\ worker = [t \in Threads |-> 0]
    /\ nadded = 0 /\ begun = << >> /\ done = {} /\ missed = FALSE

-----------------------------------------------------------------------------
(* The main thread *)

\* pthread_create in pool_init: the thread runs from here on
CreateThread ==
    /\ mpc = "create"
    /\ tpc' = [tpc EXCEPT ![i] = "lock"]
    /\ i' = i + 1
    /\ mpc' = IF i = max_thread_num THEN "user" ELSE "create"
    /\ UNCHANGED <<pool, worker, history>>

PushFront(q, task) == <<task>> \o q
PushBack(q, task)  == Append(q, task)

\* pool_add_worker, from lock to unlock
AddTask ==
    /\ mpc = "user" /\ nadded < MaxTasks
    /\ queue_lock = Free
    /\ queue_head' = PushBack(queue_head, nadded + 1)
    /\ cur_queue_size' = cur_queue_size + 1
    /\ nadded' = nadded + 1
    /\ mpc' = "signal"
    /\ UNCHANGED <<queue_lock, waiting, shutdown, i, threads, begun, done, missed>>

\* The threads in S return from waiting and have to lock again
Woken(S) ==
    /\ waiting' = waiting \ S
    /\ tpc' = [t \in Threads |-> IF t \in S THEN "relock" ELSE tpc[t]]

\* pthread_cond_signal: one waiting thread, if there is one
SignalNobody == UNCHANGED <<waiting, tpc>>
SignalOne ==
    \/ waiting = {} /\ UNCHANGED <<waiting, tpc>>
    \/ \E t \in waiting : Woken({t})

AddSignal ==
    /\ mpc = "signal"
    /\ SignalOne
    /\ mpc' = "user"
    /\ UNCHANGED <<queue_lock, queue_head, cur_queue_size, shutdown, i, worker, history>>

\* pool_destroy, whenever main has slept for long enough: no lock is taken
DestroyShutdown ==
    /\ mpc = "user" /\ ~shutdown
    /\ shutdown' = TRUE
    /\ mpc' = "broadcast"
    /\ UNCHANGED <<queue_lock, waiting, queue_head, cur_queue_size, i, threads, history>>

\* pthread_cond_broadcast
WakeNobody == UNCHANGED <<waiting, tpc>>
WakeAll == Woken(waiting)

DestroyBroadcast ==
    /\ mpc = "broadcast"
    /\ WakeAll
    /\ missed' = \E t \in Threads : tpc[t] = "wait"
    /\ mpc' = "join" /\ i' = 1
    /\ UNCHANGED <<queue_lock, queue_head, cur_queue_size, shutdown, worker>>
    /\ UNCHANGED <<nadded, begun, done>>

LastJoinedEarly == i >= max_thread_num - 1
LastJoined == i >= max_thread_num

\* pthread_join of one thread after the other
DestroyJoin ==
    /\ mpc = "join" /\ tpc[i] = "exited"
    /\ i' = i + 1
    /\ mpc' = IF LastJoined THEN "drain" ELSE "join"
    /\ UNCHANGED <<pool, threads, history>>

\* One turn of the loop that frees the waiting tasks; then the mutex, the
\* condition and the pool are destroyed
DestroyDrain ==
    /\ mpc = "drain"
    /\ IF queue_head # << >>
       THEN queue_head' = Tail(queue_head) /\ UNCHANGED mpc
       ELSE mpc' = "end" /\ UNCHANGED queue_head
    /\ UNCHANGED <<queue_lock, waiting, cur_queue_size, shutdown, i, threads, history>>

-----------------------------------------------------------------------------
(* thread_routine *)

Goto(t, l) == tpc' = [tpc EXCEPT ![t] = l]

\* The condition is looked at again after a wait, the loop being a `while'
AfterLockOnce(t) == IF tpc[t] = "relock" THEN "shut" ELSE "check"
AfterLock(t) == "check"

\* pthread_mutex_lock, at the head of the loop or on the return from waiting
Lock(t) ==
    /\ tpc[t] \in {"lock", "relock"} /\ queue_lock = Free
    /\ queue_lock' = t
    /\ Goto(t, AfterLock(t))
    /\ UNCHANGED <<waiting, queue_head, cur_queue_size, shutdown, main, worker, history>>

\* while (pool->cur_queue_size == 0 && !pool->shutdown)
Check(t) ==
    /\ tpc[t] = "check"
    /\ Goto(t, IF cur_queue_size = 0 /\ ~shutdown THEN "wait" ELSE "shut")
    /\ UNCHANGED <<pool, main, worker, history>>

\* pthread_cond_wait: unlock and sleep, in one step
Wait(t) ==
    /\ tpc[t] = "wait"
    /\ waiting' = waiting \cup {t}
    /\ queue_lock' = Free
    /\ Goto(t, "waiting")
    /\ UNCHANGED <<queue_head, cur_queue_size, shutdown, main, worker, history>>

\* pthread_cond_wait may return without a signal
SpuriousWakeup(t) ==
    /\ tpc[t] = "waiting"
    /\ Woken({t})
    /\ UNCHANGED <<queue_lock, queue_head, cur_queue_size, shutdown, main, worker, history>>

\* if (pool->shutdown): unlock and exit
Shut(t) ==
    /\ tpc[t] = "shut"
    /\ IF shutdown
       THEN Goto(t, "exited") /\ queue_lock' = Free
       ELSE Goto(t, "take") /\ UNCHANGED queue_lock
    /\ UNCHANGED <<waiting, queue_head, cur_queue_size, shutdown, main, worker, history>>

DecreasedTwice == cur_queue_size - 2
Decreased == cur_queue_size - 1

\* Take the first task, and unlock
Take(t) ==
    /\ tpc[t] = "take"
    /\ cur_queue_size' = Decreased
    /\ worker' = [worker EXCEPT ![t] = Head(queue_head)]
    /\ queue_head' = Tail(queue_head)
    /\ queue_lock' = Free
    /\ begun' = Append(begun, Head(queue_head))
    /\ Goto(t, "run")
    /\ UNCHANGED <<waiting, shutdown, main, nadded, done, missed>>

\* The task has run to its end
Run(t) ==
    /\ tpc[t] = "run"
    /\ done' = done \cup {worker[t]}
    /\ worker' = [worker EXCEPT ![t] = 0]
    /\ Goto(t, "lock")
    /\ UNCHANGED <<pool, main, nadded, begun, missed>>

Thread(t) ==
    Lock(t) \/ Check(t) \/ Wait(t) \/ Shut(t) \/ Take(t) \/ Run(t)

MainStep ==
    \/ CreateThread \/ AddTask \/ AddSignal
    \/ DestroyShutdown \/ DestroyBroadcast \/ DestroyJoin \/ DestroyDrain

PoolNext == MainStep \/ \E t \in Threads : Thread(t) \/ SpuriousWakeup(t)

PoolSpec == PoolInit /\ [][PoolNext]_poolVars

\* Every thread keeps running, and tasks end.  Main may stay between two calls
\* for ever, but not inside one; nobody counts on spurious wakeups.
PoolFairSpec ==
    /\ PoolSpec
    /\ WF_poolVars(MainStep /\ mpc # "user")
    /\ \A t \in Threads : WF_poolVars(Thread(t))

-----------------------------------------------------------------------------
(* Properties *)

\* Every variable has the values the code can give it.
PoolTypes ==
    /\ queue_lock \in Threads \cup {Free}
    /\ waiting \subseteq Threads
    /\ queue_head \in Seq(Tasks) /\ cur_queue_size \in Nat
    /\ shutdown \in BOOLEAN /\ missed \in BOOLEAN
    /\ mpc \in MainPC /\ i \in 1 .. max_thread_num + 1
    /\ tpc \in [Threads -> ThreadPC] /\ worker \in [Threads -> Tasks \cup {0}]
    /\ nadded \in 0 .. MaxTasks
    /\ begun \in Seq(Tasks) /\ done \subseteq Tasks

\* assert (pool->cur_queue_size != 0) and assert (pool->queue_head != NULL): a
\* thread that goes on to take a task finds one, however many were woken.
AssertsHold ==
    \A t \in Threads :
        tpc[t] = "take" => cur_queue_size # 0 /\ queue_head # << >>

\* The list is first in, first out and loses nothing: the tasks taken, by
\* whichever threads, and those still waiting are the tasks added, in order.
\* In particular no task is ever taken twice.
TasksConserved ==
    mpc \notin {"drain", "end"} => begun \o queue_head = [n \in 1 .. nadded |-> n]

\* Once pool_destroy frees the tasks, the mutex and the pool, no thread will
\* touch them, and every task that was begun has run to its end.
NothingUsedAfterFree ==
    mpc \in {"drain", "end"} =>
        /\ \A t \in Threads : tpc[t] = "exited"
        /\ queue_lock = Free
        /\ \A n \in DOMAIN begun : begun[n] \in done

\* A task that was added runs, unless the pool is destroyed first: no signal is
\* lost between the threads' look at the list and their wait.
EachTaskRuns == \A n \in Tasks : (nadded >= n) ~> (n \in done \/ shutdown)

\* pool_destroy returns, unless its broadcast comes while a thread is on its
\* way to sleep: that is the only case in which it does not.
DestroyReturnsUnlessMissed == shutdown ~> (mpc = "end" \/ missed)

\* "wake all waiting threads, the pool is going to be destroyed": pool_destroy
\* returns.
DestroyReturns == shutdown ~> mpc = "end"
=============================================================================
