-------------------------- MODULE ThreadPoolProofs --------------------------
(***************************************************************************)
(* The safety of the pools: of ThreadPool for any number of threads and    *)
(* tasks, of CondBuffer for any number of producers and letters and any    *)
(* length of the store, and of RedisPool for pools of any size.            *)
(***************************************************************************)
EXTENDS ThreadPool, CondBuffer, RedisPool, FiniteSetTheorems, TLAPS

Locked == {"check", "wait", "shut", "take"}

\* The lock is held by the thread that is between lock and unlock, and a thread
\* sleeps exactly where it waits.
LockInv ==
    /\ \A t \in Threads : tpc[t] \in Locked <=> queue_lock = t
    /\ \A t \in Threads : t \in waiting <=> tpc[t] = "waiting"

\* The counter is the length of the list until the list is freed, and who goes
\* past the loop has seen a task or the shutdown.
SizeInv ==
    /\ mpc \notin {"drain", "end"} => cur_queue_size = Len(queue_head)
    /\ \A t \in Threads : tpc[t] = "shut" => cur_queue_size # 0 \/ shutdown
    /\ \A t \in Threads : tpc[t] = "take" => cur_queue_size # 0

\* A thread that runs has a task, and a task that was begun is being run by a
\* thread or has run.
RunInv ==
    /\ \A t \in Threads : tpc[t] = "run" => worker[t] \in Tasks
    /\ \A n \in DOMAIN begun :
           \/ begun[n] \in done
           \/ \E t \in Threads : tpc[t] = "run" /\ worker[t] = begun[n]

\* Where main is: threads from i on are yet to be created, those before i have
\* been joined.
MainInv ==
    /\ mpc \in {"create", "join"} => i \in Threads
    /\ mpc = "create" => \A t \in Threads : t >= i => tpc[t] = "new"
    /\ mpc = "join" => \A t \in Threads : t < i => tpc[t] = "exited"
    /\ mpc \in {"drain", "end"} => \A t \in Threads : tpc[t] = "exited"

PoolInv == PoolTypes /\ LockInv /\ SizeInv /\ RunInv /\ MainInv /\ TasksConserved

\* Moving the first element of one sequence to the end of another
\* (thread_routine takes a task) changes nothing of the two put together.
LEMMA MoveHeadOver ==
    ASSUME NEW S, NEW s \in Seq(S), NEW q \in Seq(S), q # << >>
    PROVE  /\ Append(s, Head(q)) \o Tail(q) = s \o q
           /\ Head(q) \in S /\ Tail(q) \in Seq(S) /\ Append(s, Head(q)) \in Seq(S)
OBVIOUS

\* Appending to the list (pool_add_worker) appends to the two put together.
LEMMA AppendOver ==
    ASSUME NEW S, NEW s \in Seq(S), NEW q \in Seq(S), NEW e \in S
    PROVE  /\ s \o Append(q, e) = Append(s \o q, e)
           /\ Append(q, e) \in Seq(S)
OBVIOUS

\* The numbers up to n and the next one
LEMMA CountUp ==
    ASSUME NEW n \in Nat
    PROVE  Append([k \in 1 .. n |-> k], n + 1) = [k \in 1 .. n + 1 |-> k]
OBVIOUS

\* A thread that takes a task finds one: both assertions of thread_routine.
LEMMA TakeFinds ==
    ASSUME PoolInv, NEW t \in Threads, tpc[t] = "take"
    PROVE  mpc \notin {"drain", "end"} /\ queue_head # << >> /\ cur_queue_size \in Nat \ {0}
BY DEF PoolInv, PoolTypes, SizeInv, MainInv

\* pool_init establishes the invariant.
LEMMA InitPool == PoolInit => PoolInv
<1> SUFFICES ASSUME PoolInit PROVE PoolInv
  OBVIOUS
<1> USE PoolAssumption DEF PoolInit
<1>1. PoolTypes
  <2>1. queue_head \in Seq(Tasks) /\ begun \in Seq(Tasks)
    OBVIOUS
  <2>2. shutdown \in BOOLEAN /\ missed \in BOOLEAN
    OBVIOUS
  <2> QED
    BY <2>1, <2>2 DEF PoolTypes, Threads, Tasks, Free, MainPC, ThreadPC
<1>2. LockInv /\ SizeInv /\ MainInv
  BY DEF LockInv, SizeInv, MainInv, Threads, Free, Locked
<1>3. RunInv
  BY DEF RunInv
<1>4. TasksConserved
  BY DEF TasksConserved
<1> QED
  BY <1>1, <1>2, <1>3, <1>4 DEF PoolInv

\* The types: in particular there is a first task where thread_routine takes one.
LEMMA TypeNext == PoolInv /\ [PoolNext]_poolVars => PoolTypes'
<1> SUFFICES ASSUME PoolInv, [PoolNext]_poolVars PROVE PoolTypes'
  OBVIOUS
<1> USE PoolAssumption DEF PoolTypes, MainInv, RunInv, Threads, Free, Locked, MainPC, ThreadPC,
      pool, main, threads, history
<1>0. PoolTypes /\ MainInv /\ RunInv
  BY DEF PoolInv
<1>1. CASE CreateThread
  BY <1>0, <1>1 DEF CreateThread
<1>2. CASE AddTask
  <2>1. nadded + 1 \in Tasks /\ queue_head \in Seq(Tasks)
    BY <1>0, <1>2 DEF AddTask, Tasks
  <2>2. queue_head' \in Seq(Tasks)
    BY <1>2, <2>1, AppendOver DEF AddTask, PushBack
  <2> QED
    BY <1>0, <1>2, <2>2 DEF AddTask
<1>3. CASE AddSignal
  BY <1>0, <1>3 DEF AddSignal, SignalOne, Woken
<1>4. CASE DestroyShutdown
  BY <1>0, <1>4 DEF DestroyShutdown
<1>5. CASE DestroyBroadcast
  BY <1>0, <1>5 DEF DestroyBroadcast, WakeAll, Woken
<1>6. CASE DestroyJoin
  BY <1>0, <1>6 DEF DestroyJoin, LastJoined
<1>7. CASE DestroyDrain
  <2>1. queue_head' \in Seq(Tasks)
    <3>1. queue_head \in Seq(Tasks)
      BY <1>0
    <3>2. queue_head' = queue_head \/ (queue_head # << >> /\ queue_head' = Tail(queue_head))
      BY <1>7 DEF DestroyDrain
    <3> QED
      BY ONLY <3>1, <3>2, MoveHeadOver
  <2> QED
    BY <1>0, <1>7, <2>1 DEF DestroyDrain
<1>8. ASSUME NEW t \in Threads, Lock(t) PROVE PoolTypes'
  BY <1>0, <1>8 DEF Lock, Goto, AfterLock
<1>9. ASSUME NEW t \in Threads, Check(t) PROVE PoolTypes'
  BY <1>0, <1>9 DEF Check, Goto
<1>10. ASSUME NEW t \in Threads, Wait(t) PROVE PoolTypes'
  BY <1>0, <1>10 DEF Wait, Goto
<1>11. ASSUME NEW t \in Threads, Shut(t) PROVE PoolTypes'
  BY <1>0, <1>11 DEF Shut, Goto
<1>12. ASSUME NEW t \in Threads, Take(t) PROVE PoolTypes'
  <2>1. queue_head # << >> /\ cur_queue_size \in Nat \ {0}
    BY <1>12, TakeFinds DEF Take
  <2>2. /\ Head(queue_head) \in Tasks /\ queue_head' \in Seq(Tasks)
        /\ begun' \in Seq(Tasks)
    BY <1>0, <1>12, <2>1, MoveHeadOver DEF Take
  <2>3. worker' \in [Threads -> Tasks \cup {0}] /\ tpc' \in [Threads -> ThreadPC]
    BY <1>0, <1>12, <2>2 DEF Take, Goto
  <2>4. cur_queue_size' \in Nat
    BY <1>12, <2>1 DEF Take, Decreased
  <2> QED
    BY <1>0, <1>12, <2>2, <2>3, <2>4 DEF Take
<1>13. ASSUME NEW t \in Threads, Run(t) PROVE PoolTypes'
  <2>1. worker[t] \in Tasks
    BY <1>0, <1>13 DEF Run
  <2> QED
    BY <1>0, <1>13, <2>1 DEF Run, Goto
<1>14. ASSUME NEW t \in Threads, SpuriousWakeup(t) PROVE PoolTypes'
  BY <1>0, <1>14 DEF SpuriousWakeup, Woken
<1>15. CASE UNCHANGED poolVars
  BY <1>0, <1>15 DEF poolVars
<1> QED
  BY <1>1, <1>2, <1>3, <1>4, <1>5, <1>6, <1>7, <1>8,
     <1>9, <1>10, <1>11, <1>12, <1>13, <1>14, <1>15 DEF PoolNext, MainStep, Thread

\* Mutual exclusion by queue_lock, and pthread_cond_wait's set of sleepers.
LEMMA LockNext == PoolInv /\ [PoolNext]_poolVars => LockInv'
<1> SUFFICES ASSUME PoolInv, [PoolNext]_poolVars PROVE LockInv'
  OBVIOUS
<1> USE PoolAssumption DEF LockInv, PoolTypes, MainInv, Threads, Free, Locked, MainPC, ThreadPC,
      pool, main, threads, history
<1>0. LockInv /\ PoolTypes /\ MainInv
  BY DEF PoolInv
<1>1. CASE CreateThread
  BY <1>0, <1>1 DEF CreateThread
<1>2. CASE AddTask
  BY <1>0, <1>2 DEF AddTask, PushBack
<1>3. CASE AddSignal
  BY <1>0, <1>3 DEF AddSignal, SignalOne, Woken
<1>4. CASE DestroyShutdown
  BY <1>0, <1>4 DEF DestroyShutdown
<1>5. CASE DestroyBroadcast
  BY <1>0, <1>5 DEF DestroyBroadcast, WakeAll, Woken
<1>6. CASE DestroyJoin
  BY <1>0, <1>6 DEF DestroyJoin, LastJoined
<1>7. CASE DestroyDrain
  BY <1>0, <1>7 DEF DestroyDrain
<1>8. ASSUME NEW t \in Threads, Lock(t) PROVE LockInv'
  BY <1>0, <1>8 DEF Lock, Goto, AfterLock
<1>9. ASSUME NEW t \in Threads, Check(t) PROVE LockInv'
  BY <1>0, <1>9 DEF Check, Goto
<1>10. ASSUME NEW t \in Threads, Wait(t) PROVE LockInv'
  BY <1>0, <1>10 DEF Wait, Goto
<1>11. ASSUME NEW t \in Threads, Shut(t) PROVE LockInv'
  BY <1>0, <1>11 DEF Shut, Goto
<1>12. ASSUME NEW t \in Threads, Take(t) PROVE LockInv'
  BY <1>0, <1>12 DEF Take, Goto, Decreased
<1>13. ASSUME NEW t \in Threads, Run(t) PROVE LockInv'
  BY <1>0, <1>13 DEF Run, Goto
<1>14. ASSUME NEW t \in Threads, SpuriousWakeup(t) PROVE LockInv'
  BY <1>0, <1>14 DEF SpuriousWakeup, Woken
<1>15. CASE UNCHANGED poolVars
  BY <1>0, <1>15 DEF poolVars
<1> QED
  BY <1>1, <1>2, <1>3, <1>4, <1>5, <1>6, <1>7, <1>8,
     <1>9, <1>10, <1>11, <1>12, <1>13, <1>14, <1>15 DEF PoolNext, MainStep, Thread

\* cur_queue_size counts the list, and nobody takes from an empty one.
LEMMA SizeNext == PoolInv /\ [PoolNext]_poolVars => SizeInv'
<1> SUFFICES ASSUME PoolInv, [PoolNext]_poolVars PROVE SizeInv'
  OBVIOUS
<1> USE PoolAssumption DEF SizeInv, PoolTypes, LockInv, MainInv, Threads, Free, Locked, MainPC, ThreadPC,
      pool, main, threads, history
<1>0. SizeInv /\ PoolTypes /\ LockInv /\ MainInv
  BY DEF PoolInv
<1>1. CASE CreateThread
  BY <1>0, <1>1 DEF CreateThread
<1>2. CASE AddTask
  BY <1>0, <1>2 DEF AddTask, PushBack
<1>3. CASE AddSignal
  BY <1>0, <1>3 DEF AddSignal, SignalOne, Woken
<1>4. CASE DestroyShutdown
  BY <1>0, <1>4 DEF DestroyShutdown
<1>5. CASE DestroyBroadcast
  BY <1>0, <1>5 DEF DestroyBroadcast, WakeAll, Woken
<1>6. CASE DestroyJoin
  BY <1>0, <1>6 DEF DestroyJoin, LastJoined
<1>7. CASE DestroyDrain
  BY <1>0, <1>7 DEF DestroyDrain
<1>8. ASSUME NEW t \in Threads, Lock(t) PROVE SizeInv'
  BY <1>0, <1>8 DEF Lock, Goto, AfterLock
<1>9. ASSUME NEW t \in Threads, Check(t) PROVE SizeInv'
  BY <1>0, <1>9 DEF Check, Goto
<1>10. ASSUME NEW t \in Threads, Wait(t) PROVE SizeInv'
  BY <1>0, <1>10 DEF Wait, Goto
<1>11. ASSUME NEW t \in Threads, Shut(t) PROVE SizeInv'
  BY <1>0, <1>11 DEF Shut, Goto
<1>12. ASSUME NEW t \in Threads, Take(t) PROVE SizeInv'
  BY <1>0, <1>12 DEF Take, Goto, Decreased
<1>13. ASSUME NEW t \in Threads, Run(t) PROVE SizeInv'
  BY <1>0, <1>13 DEF Run, Goto
<1>14. ASSUME NEW t \in Threads, SpuriousWakeup(t) PROVE SizeInv'
  BY <1>0, <1>14 DEF SpuriousWakeup, Woken
<1>15. CASE UNCHANGED poolVars
  BY <1>0, <1>15 DEF poolVars
<1> QED
  BY <1>1, <1>2, <1>3, <1>4, <1>5, <1>6, <1>7, <1>8,
     <1>9, <1>10, <1>11, <1>12, <1>13, <1>14, <1>15 DEF PoolNext, MainStep, Thread

\* A task that thread_routine took is still being run or has run.
LEMMA RunNext == PoolInv /\ [PoolNext]_poolVars => RunInv'
<1> SUFFICES ASSUME PoolInv, [PoolNext]_poolVars PROVE RunInv'
  OBVIOUS
<1> USE PoolAssumption DEF RunInv, PoolTypes, LockInv, MainInv, Threads, Free, Locked, MainPC, ThreadPC,
      pool, main, threads, history
<1>0. RunInv /\ PoolTypes /\ LockInv /\ MainInv
  BY DEF PoolInv
<1>1. CASE CreateThread
  BY <1>0, <1>1 DEF CreateThread
<1>2. CASE AddTask
  BY <1>0, <1>2 DEF AddTask, PushBack
<1>3. CASE AddSignal
  BY <1>0, <1>3 DEF AddSignal, SignalOne, Woken
<1>4. CASE DestroyShutdown
  BY <1>0, <1>4 DEF DestroyShutdown
<1>5. CASE DestroyBroadcast
  BY <1>0, <1>5 DEF DestroyBroadcast, WakeAll, Woken
<1>6. CASE DestroyJoin
  BY <1>0, <1>6 DEF DestroyJoin, LastJoined
<1>7. CASE DestroyDrain
  BY <1>0, <1>7 DEF DestroyDrain
<1>8. ASSUME NEW t \in Threads, Lock(t) PROVE RunInv'
  BY <1>0, <1>8 DEF Lock, Goto, AfterLock
<1>9. ASSUME NEW t \in Threads, Check(t) PROVE RunInv'
  BY <1>0, <1>9 DEF Check, Goto
<1>10. ASSUME NEW t \in Threads, Wait(t) PROVE RunInv'
  BY <1>0, <1>10 DEF Wait, Goto
<1>11. ASSUME NEW t \in Threads, Shut(t) PROVE RunInv'
  BY <1>0, <1>11 DEF Shut, Goto
<1>12. ASSUME NEW t \in Threads, Take(t) PROVE RunInv'
  <2>1. queue_head # << >>
    BY <1>12, TakeFinds DEF Take
  <2>2. /\ Head(queue_head) \in Tasks /\ begun' = Append(begun, Head(queue_head))
        /\ begun \in Seq(Tasks)
    BY <1>0, <1>12, <2>1, MoveHeadOver DEF Take
  <2>3. /\ tpc'[t] = "run" /\ worker'[t] = Head(queue_head)
        /\ \A u \in Threads \ {t} : tpc'[u] = tpc[u] /\ worker'[u] = worker[u]
    BY <1>0, <1>12 DEF Take, Goto
  <2>4. tpc[t] = "take" /\ done' = done
    BY <1>12 DEF Take
  <2>5. \A u \in Threads : tpc'[u] = "run" => worker'[u] \in Tasks
    BY <1>0, <2>2, <2>3
  <2>6. ASSUME NEW n \in DOMAIN begun'
        PROVE  \/ begun'[n] \in done
               \/ \E u \in Threads : tpc'[u] = "run" /\ worker'[u] = begun'[n]
    <3>1. CASE n \in DOMAIN begun
      <4>1. begun'[n] = begun[n]
        BY <2>2, <3>1
      <4> QED
        BY <1>0, <2>3, <2>4, <3>1, <4>1
    <3>2. CASE n \notin DOMAIN begun
      <4>1. begun'[n] = Head(queue_head)
        BY <2>2, <2>6, <3>2
      <4> QED
        BY <2>3, <4>1
    <3> QED
      BY <3>1, <3>2
  <2> QED
    BY <2>4, <2>5, <2>6
<1>13. ASSUME NEW t \in Threads, Run(t) PROVE RunInv'
  BY <1>0, <1>13 DEF Run, Goto
<1>14. ASSUME NEW t \in Threads, SpuriousWakeup(t) PROVE RunInv'
  BY <1>0, <1>14 DEF SpuriousWakeup, Woken
<1>15. CASE UNCHANGED poolVars
  BY <1>0, <1>15 DEF poolVars
<1> QED
  BY <1>1, <1>2, <1>3, <1>4, <1>5, <1>6, <1>7, <1>8,
     <1>9, <1>10, <1>11, <1>12, <1>13, <1>14, <1>15 DEF PoolNext, MainStep, Thread

\* pool_init's and pool_destroy's loops reach every thread.
LEMMA MainNext == PoolInv /\ [PoolNext]_poolVars => MainInv'
<1> SUFFICES ASSUME PoolInv, [PoolNext]_poolVars PROVE MainInv'
  OBVIOUS
<1> USE PoolAssumption DEF MainInv, PoolTypes, LockInv, Threads, Free, Locked, MainPC, ThreadPC,
      pool, main, threads, history
<1>0. MainInv /\ PoolTypes /\ LockInv
  BY DEF PoolInv
<1>1. CASE CreateThread
  BY <1>0, <1>1 DEF CreateThread
<1>2. CASE AddTask
  BY <1>0, <1>2 DEF AddTask, PushBack
<1>3. CASE AddSignal
  BY <1>0, <1>3 DEF AddSignal, SignalOne, Woken
<1>4. CASE DestroyShutdown
  BY <1>0, <1>4 DEF DestroyShutdown
<1>5. CASE DestroyBroadcast
  BY <1>0, <1>5 DEF DestroyBroadcast, WakeAll, Woken
<1>6. CASE DestroyJoin
  BY <1>0, <1>6 DEF DestroyJoin, LastJoined
<1>7. CASE DestroyDrain
  BY <1>0, <1>7 DEF DestroyDrain
<1>8. ASSUME NEW t \in Threads, Lock(t) PROVE MainInv'
  BY <1>0, <1>8 DEF Lock, Goto, AfterLock
<1>9. ASSUME NEW t \in Threads, Check(t) PROVE MainInv'
  BY <1>0, <1>9 DEF Check, Goto
<1>10. ASSUME NEW t \in Threads, Wait(t) PROVE MainInv'
  BY <1>0, <1>10 DEF Wait, Goto
<1>11. ASSUME NEW t \in Threads, Shut(t) PROVE MainInv'
  BY <1>0, <1>11 DEF Shut, Goto
<1>12. ASSUME NEW t \in Threads, Take(t) PROVE MainInv'
  BY <1>0, <1>12 DEF Take, Goto, Decreased
<1>13. ASSUME NEW t \in Threads, Run(t) PROVE MainInv'
  BY <1>0, <1>13 DEF Run, Goto
<1>14. ASSUME NEW t \in Threads, SpuriousWakeup(t) PROVE MainInv'
  BY <1>0, <1>14 DEF SpuriousWakeup, Woken
<1>15. CASE UNCHANGED poolVars
  BY <1>0, <1>15 DEF poolVars
<1> QED
  BY <1>1, <1>2, <1>3, <1>4, <1>5, <1>6, <1>7, <1>8,
     <1>9, <1>10, <1>11, <1>12, <1>13, <1>14, <1>15 DEF PoolNext, MainStep, Thread

\* The list of pool_add_worker and thread_routine keeps order and content.
LEMMA TasksNext == PoolInv /\ [PoolNext]_poolVars => TasksConserved'
<1> SUFFICES ASSUME PoolInv, [PoolNext]_poolVars PROVE TasksConserved'
  OBVIOUS
<1> USE PoolAssumption DEF TasksConserved, PoolTypes, MainInv, SizeInv, Threads, Free, Locked, MainPC, ThreadPC,
      pool, main, threads, history
<1>0. TasksConserved /\ PoolTypes /\ MainInv /\ SizeInv
  BY DEF PoolInv
<1>1. CASE CreateThread
  BY <1>0, <1>1 DEF CreateThread
<1>2. CASE AddTask
  <2>1. /\ nadded \in Nat /\ nadded + 1 \in Tasks
        /\ queue_head \in Seq(Tasks) /\ begun \in Seq(Tasks)
    BY <1>0, <1>2 DEF AddTask, Tasks
  <2>2. begun \o queue_head = [n \in 1 .. nadded |-> n]
    BY <1>0, <1>2 DEF AddTask
  <2>3. begun \o Append(queue_head, nadded + 1) = [n \in 1 .. nadded + 1 |-> n]
    <3>1. begun \o Append(queue_head, nadded + 1) = Append(begun \o queue_head, nadded + 1)
      BY ONLY <2>1, AppendOver
    <3> QED
      BY ONLY <2>1, <2>2, <3>1, CountUp
  <2> QED
    BY <1>2, <2>3 DEF AddTask, PushBack
<1>3. CASE AddSignal
  BY <1>0, <1>3 DEF AddSignal, SignalOne, Woken
<1>4. CASE DestroyShutdown
  BY <1>0, <1>4 DEF DestroyShutdown
<1>5. CASE DestroyBroadcast
  BY <1>0, <1>5 DEF DestroyBroadcast, WakeAll, Woken
<1>6. CASE DestroyJoin
  BY <1>0, <1>6 DEF DestroyJoin, LastJoined
<1>7. CASE DestroyDrain
  BY <1>0, <1>7 DEF DestroyDrain
<1>8. ASSUME NEW t \in Threads, Lock(t) PROVE TasksConserved'
  BY <1>0, <1>8 DEF Lock, Goto, AfterLock
<1>9. ASSUME NEW t \in Threads, Check(t) PROVE TasksConserved'
  BY <1>0, <1>9 DEF Check, Goto
<1>10. ASSUME NEW t \in Threads, Wait(t) PROVE TasksConserved'
  BY <1>0, <1>10 DEF Wait, Goto
<1>11. ASSUME NEW t \in Threads, Shut(t) PROVE TasksConserved'
  BY <1>0, <1>11 DEF Shut, Goto
<1>12. ASSUME NEW t \in Threads, Take(t) PROVE TasksConserved'
  <2>1. queue_head # << >> /\ mpc \notin {"drain", "end"}
    BY <1>12, TakeFinds DEF Take
  <2>2. queue_head \in Seq(Tasks) /\ begun \in Seq(Tasks)
    BY <1>0
  <2>3. Append(begun, Head(queue_head)) \o Tail(queue_head) = begun \o queue_head
    BY ONLY <2>1, <2>2, MoveHeadOver
  <2> QED
    BY <1>0, <1>12, <2>1, <2>3 DEF Take
<1>13. ASSUME NEW t \in Threads, Run(t) PROVE TasksConserved'
  BY <1>0, <1>13 DEF Run, Goto
<1>14. ASSUME NEW t \in Threads, SpuriousWakeup(t) PROVE TasksConserved'
  BY <1>0, <1>14 DEF SpuriousWakeup, Woken
<1>15. CASE UNCHANGED poolVars
  BY <1>0, <1>15 DEF poolVars
<1> QED
  BY <1>1, <1>2, <1>3, <1>4, <1>5, <1>6, <1>7, <1>8,
     <1>9, <1>10, <1>11, <1>12, <1>13, <1>14, <1>15 DEF PoolNext, MainStep, Thread

\* Every step of the main thread and of the pool's threads keeps the invariant.
LEMMA NextPool == PoolInv /\ [PoolNext]_poolVars => PoolInv'
BY TypeNext, LockNext, SizeNext, RunNext, MainNext, TasksNext DEF PoolInv

\* The invariant holds in every run of pool_init, pool_add_worker,
\* pool_destroy and thread_routine.
LEMMA PoolInvariant == PoolSpec => []PoolInv
<1>1. PoolInit => PoolInv
  BY InitPool
<1>2. PoolInv /\ [PoolNext]_poolVars => PoolInv'
  BY NextPool
<1> QED
  BY <1>1, <1>2, PTL DEF PoolSpec

\* The variables of the pool keep their types.
THEOREM TypeCorrect == PoolSpec => []PoolTypes
<1>1. PoolInv => PoolTypes
  BY DEF PoolInv
<1> QED
  BY <1>1, PoolInvariant, PTL

\* The assertions of thread_routine never fail, whatever wakes the threads.
THEOREM AssertionsHold == PoolSpec => []AssertsHold
<1>1. PoolInv => AssertsHold
  BY TakeFinds DEF AssertsHold
<1> QED
  BY <1>1, PoolInvariant, PTL

\* Tasks are neither lost, doubled nor reordered on their way from
\* pool_add_worker to the threads.
THEOREM TasksAreConserved == PoolSpec => []TasksConserved
<1>1. PoolInv => TasksConserved
  BY DEF PoolInv
<1> QED
  BY <1>1, PoolInvariant, PTL

\* pool_destroy frees the pool only when no thread will touch it again and
\* every task that was begun has ended.
THEOREM FreeIsSafe == PoolSpec => []NothingUsedAfterFree
<1>1. PoolInv => NothingUsedAfterFree
  <2> SUFFICES ASSUME PoolInv, mpc \in {"drain", "end"}
               PROVE  /\ \A t \in Threads : tpc[t] = "exited"
                      /\ queue_lock = Free
                      /\ \A n \in DOMAIN begun : begun[n] \in done
    BY DEF NothingUsedAfterFree
  <2>1. \A t \in Threads : tpc[t] = "exited"
    BY DEF PoolInv, MainInv
  <2>2. queue_lock = Free
    BY <2>1 DEF PoolInv, LockInv, PoolTypes, Locked
  <2>3. \A n \in DOMAIN begun : begun[n] \in done
    BY <2>1 DEF PoolInv, RunInv
  <2> QED
    BY <2>1, <2>2, <2>3
<1> QED
  BY <1>1, PoolInvariant, PTL

-----------------------------------------------------------------------------
(* The producers and the customer *)

\* What is in the store, and what the producers have pushed so far
Stored == {store[x] : x \in 0 .. size - 1}
Pushed == {l \in Items : l[2] <= rounds[l[1]]}

\* A place of the store that is in use holds a letter that is in no other one.
Distinct == \A x, y \in 0 .. size - 1 : store[x] = store[y] => x = y

\* A thread sleeps on a condition only while its loop would go on waiting.
SleepsRight == (full # {} => IsFull) /\ (empty # {} => size = 0)

CondInv ==
    /\ CondTypeOK /\ IsFiniteSet(Stored) /\ IsFiniteSet(popped)
    /\ DOMAIN rounds = CondThreads
    /\ Distinct /\ LettersConserved /\ SleepsRight

\* The lengths of the loops: 26 and 52 rounds
LEMMA RoundsNat ==
    /\ Wanted \in Nat
    /\ \A t \in CondThreads : Rounds(t) \in Nat
    /\ IsFiniteSet(Items) /\ Cardinality(Items) = Wanted
<1>1. Cardinality(Producers) \in Nat /\ Letters \in Nat
  BY CondAssumption, FS_CardinalityType
<1>2. Wanted \in Nat
  BY <1>1 DEF Wanted
<1>3. IsFiniteSet(1 .. Letters) /\ Cardinality(1 .. Letters) = Letters
  BY <1>1, FS_Interval, SMTT(30)
<1>4. IsFiniteSet(Items) /\ Cardinality(Items) = Wanted
  BY <1>3, CondAssumption, FS_Product DEF Items, Wanted
<1> QED
  BY <1>1, <1>2, <1>4 DEF Rounds

\* At first the store is empty and nobody waits.
LEMMA CondInitInv == CondInit => CondInv
<1> SUFFICES ASSUME CondInit PROVE CondInv
  OBVIOUS
<1>0. size = 0 /\ rounds = [t \in CondThreads |-> 0] /\ popped = {}
  BY DEF CondInit
<1>1. CondTypeOK
  BY <1>0, RoundsNat, CondAssumption DEF CondInit, CondTypeOK
<1>2. Stored = {} /\ Pushed = {}
  <2>1. Stored = {}
    BY <1>0 DEF Stored
  <2>2. \A l \in Items : l[2] \in 1 .. Letters /\ rounds[l[1]] = 0
    BY <1>0 DEF Items, CondThreads
  <2>3. Pushed = {}
    BY <2>2, CondAssumption DEF Pushed
  <2> QED
    BY <2>1, <2>3
<1>3. Cardinality({}) = 0 /\ IsFiniteSet({})
  BY FS_EmptySet
<1>4. rounds[Customer] = 0
  BY <1>0 DEF CondThreads
<1>5. LettersConserved
  BY <1>0, <1>2, <1>3, <1>4 DEF LettersConserved, Stored, Pushed
<1>6. Distinct /\ SleepsRight /\ DOMAIN rounds = CondThreads
  BY <1>0 DEF CondInit, Distinct, SleepsRight
<1> QED
  BY <1>0, <1>1, <1>2, <1>3, <1>5, <1>6 DEF CondInv

\* What LettersConserved says, part by part
LEMMA LettersParts ==
    LettersConserved <=>
        /\ Stored \cup popped = Pushed /\ Stored \cap popped = {}
        /\ Cardinality(Stored) = size /\ Cardinality(popped) = rounds[Customer]
BY DEF LettersConserved, Stored, Pushed

\* producer: the letter is one more of its own, and it is put where there is none.
LEMMA PushKeeps ==
    ASSUME CondInv, NEW p \in Producers, Push(p)
    PROVE  CondInv'
<1> DEFINE new == <<p, rounds[p] + 1>>
<1>0. /\ p \in CondThreads /\ p # Customer /\ Rounds(p) = Letters
      /\ Capacity \in Nat \ {0} /\ Letters \in Nat
      /\ size \in 0 .. Capacity /\ size # Capacity
      /\ store \in [0 .. Capacity - 1 -> Items \cup {Nothing}]
      /\ DOMAIN rounds = CondThreads
      /\ \A t \in CondThreads : rounds[t] \in 0 .. Rounds(t)
      /\ rounds[p] < Letters
      /\ IsFiniteSet(Stored) /\ Customer \in CondThreads
  BY CondAssumption DEF CondInv, CondTypeOK, CondThreads, Rounds, Push, Ready, IsFull
<1>1. /\ store' = [store EXCEPT ![size] = new] /\ size' = size + 1
      /\ rounds' = [rounds EXCEPT ![p] = @ + 1] /\ empty' = {}
      /\ full' = full /\ popped' = popped
  BY DEF Push, EmptyWoken
<1>2. new \in Items /\ size \in 0 .. Capacity - 1
  BY <1>0 DEF Items
<1>3. CondTypeOK'
  <2>1. store' \in [0 .. Capacity - 1 -> Items \cup {Nothing}]
    BY <1>0, <1>1, <1>2
  <2>2. size' \in 0 .. Capacity
    BY <1>0, <1>1
  <2>3. \A t \in CondThreads : rounds'[t] \in 0 .. Rounds(t)
    BY <1>0, <1>1
  <2> QED
    BY <2>1, <2>2, <2>3, <1>1 DEF CondInv, CondTypeOK, Rounds
<1>4. Stored' = Stored \cup {new}
  <2>1. \A x \in 0 .. size - 1 : store'[x] = store[x]
    BY <1>0, <1>1
  <2>2. store'[size] = new
    BY <1>0, <1>1
  <2>3. 0 .. size' - 1 = (0 .. size - 1) \cup {size}
    BY <1>0, <1>1
  <2> QED
    BY <2>1, <2>2, <2>3 DEF Stored
<1>5. Pushed' = Pushed \cup {new} /\ new \notin Pushed
  <2>1. \A l \in Items : l[1] \in Producers /\ l[2] \in 1 .. Letters /\ l = <<l[1], l[2]>>
    BY DEF Items
  <2>2. \A l \in Items : l[2] <= rounds'[l[1]] <=> l[2] <= rounds[l[1]] \/ l = new
    <3> TAKE l \in Items
    <3>1. CASE l[1] = p
      <4>1. rounds'[l[1]] = rounds[p] + 1
        BY <3>1, <1>0, <1>1
      <4>2. l = new <=> l[2] = rounds[p] + 1
        BY <3>1, <2>1
      <4> QED
        BY <4>1, <4>2, <3>1, <2>1, <1>0
    <3>2. CASE l[1] # p
      <4>1. rounds'[l[1]] = rounds[l[1]] /\ l # new
        BY <3>2, <2>1, <1>0, <1>1 DEF CondThreads
      <4> QED
        BY <4>1
    <3> QED
      BY <3>1, <3>2
  <2>3. new \notin Pushed
    BY <1>0 DEF Pushed
  <2> QED
    BY <2>2, <2>3, <1>2 DEF Pushed
<1>6. /\ Stored \cup popped = Pushed /\ Stored \cap popped = {}
      /\ Cardinality(Stored) = size /\ Cardinality(popped) = rounds[Customer]
  BY LettersParts DEF CondInv
<1>7. new \notin Stored /\ new \notin popped
  BY <1>5, <1>6
<1>8. Cardinality(Stored') = size'
  BY <1>0, <1>1, <1>4, <1>6, <1>7, FS_AddElement
<1>9. rounds'[Customer] = rounds[Customer]
  BY <1>0, <1>1
<1>10. IsFiniteSet(Stored')
  BY <1>0, <1>4, FS_AddElement
<1>11. LettersConserved'
  <2>1. Stored' \cup popped' = Pushed' /\ Stored' \cap popped' = {}
    BY <1>1, <1>4, <1>5, <1>6, <1>7
  <2> QED
    BY <2>1, <1>1, <1>6, <1>8, <1>9 DEF LettersConserved, Stored, Pushed
<1>12. Distinct'
  <2> SUFFICES ASSUME NEW x \in 0 .. size, NEW y \in 0 .. size, store'[x] = store'[y]
               PROVE  x = y
    BY <1>0, <1>1 DEF Distinct
  <2>1. \A z \in 0 .. size : z # size => store'[z] = store[z] /\ store[z] \in Stored
                                         /\ z \in 0 .. size - 1
    BY <1>0, <1>1 DEF Stored
  <2>2. store'[size] = new
    BY <1>0, <1>1
  <2>3. CASE x # size /\ y # size
    BY <2>1, <2>3 DEF CondInv, Distinct
  <2>4. CASE x = size \/ y = size
    BY <2>1, <2>2, <2>4, <1>7
  <2> QED
    BY <2>3, <2>4
<1>13. SleepsRight'
  <2>1. full = {}
    BY <1>0 DEF CondInv, SleepsRight, IsFull
  <2> QED
    BY <2>1, <1>1 DEF SleepsRight
<1> QED
  BY <1>0, <1>1, <1>3, <1>10, <1>11, <1>12, <1>13 DEF CondInv

\* customer: it takes the letter on top, which was in no other place.
LEMMA PopKeeps ==
    ASSUME CondInv, Pop
    PROVE  CondInv'
<1>0. /\ Customer \in CondThreads /\ Customer \notin Producers
      /\ Capacity \in Nat \ {0}
      /\ size \in 0 .. Capacity /\ size # 0
      /\ store \in [0 .. Capacity - 1 -> Items \cup {Nothing}]
      /\ DOMAIN rounds = CondThreads
      /\ \A t \in CondThreads : rounds[t] \in 0 .. Rounds(t)
      /\ rounds[Customer] < Rounds(Customer)
      /\ IsFiniteSet(Stored) /\ IsFiniteSet(popped)
  BY CondAssumption DEF CondInv, CondTypeOK, CondThreads, Pop, Ready
<1>1. /\ store' = store /\ size' = size - 1 /\ popped' = popped \cup {Top}
      /\ rounds' = [rounds EXCEPT ![Customer] = @ + 1]
      /\ full' = {} /\ empty' = empty
  BY DEF Pop, FullWoken
<1>2. /\ Stored \cup popped = Pushed /\ Stored \cap popped = {}
      /\ Cardinality(Stored) = size /\ Cardinality(popped) = rounds[Customer]
  BY LettersParts DEF CondInv
<1>3. Top \in Stored /\ Top \in Pushed /\ Top \notin popped /\ Pushed \subseteq Items
  BY <1>0, <1>2 DEF Top, Stored, Pushed
<1>4. CondTypeOK'
  <2>0. \A t \in CondThreads : Rounds(t) \in Nat
    BY RoundsNat
  <2>1. size' \in 0 .. Capacity
    BY <1>0, <1>1
  <2>2. \A t \in CondThreads : rounds'[t] \in 0 .. Rounds(t)
    <3> TAKE t \in CondThreads
    <3>1. CASE t = Customer
      BY <3>1, <2>0, <1>0, <1>1
    <3>2. CASE t # Customer
      BY <3>2, <1>0, <1>1
    <3> QED
      BY <3>1, <3>2
  <2> QED
    BY <2>1, <2>2, <1>1, <1>3 DEF CondInv, CondTypeOK, Rounds
<1>5. Stored' = Stored \ {Top}
  <2>1. size - 1 \in 0 .. size - 1
    BY <1>0
  <2>2. 0 .. size' - 1 = (0 .. size - 1) \ {size - 1}
    BY <1>0, <1>1
  <2>3. \A x \in 0 .. size - 1 : store[x] = Top => x = size - 1
    BY <2>1 DEF CondInv, Distinct, Top
  <2>4. Stored' = {store[x] : x \in (0 .. size - 1) \ {size - 1}}
    BY <2>2, <1>1 DEF Stored
  <2> QED
    BY ONLY <2>3, <2>4 DEF Stored, Top
<1>6. Pushed' = Pushed
  <2>1. \A l \in Items : rounds'[l[1]] = rounds[l[1]]
    BY <1>0, <1>1 DEF Items, CondThreads
  <2> QED
    BY <2>1 DEF Pushed
<1>7. Cardinality(Stored') = size' /\ IsFiniteSet(Stored')
  BY <1>0, <1>1, <1>2, <1>3, <1>5, FS_RemoveElement
<1>8. Cardinality(popped') = rounds'[Customer] /\ IsFiniteSet(popped')
  BY <1>0, <1>1, <1>2, <1>3, FS_AddElement
<1>9. LettersConserved'
  <2>1. Stored' \cup popped' = Pushed' /\ Stored' \cap popped' = {}
    BY <1>1, <1>2, <1>3, <1>5, <1>6
  <2> QED
    BY <2>1, <1>7, <1>8 DEF LettersConserved, Stored, Pushed
<1>10. Distinct'
  <2>1. \A x \in 0 .. size' - 1 : x \in 0 .. size - 1
    BY <1>0, <1>1
  <2> QED
    BY <2>1, <1>1 DEF CondInv, Distinct
<1>11. SleepsRight'
  <2>1. empty = {}
    BY <1>0 DEF CondInv, SleepsRight
  <2> QED
    BY <2>1, <1>1 DEF SleepsRight
<1> QED
  BY <1>0, <1>1, <1>4, <1>7, <1>8, <1>9, <1>10, <1>11 DEF CondInv

\* Each step of a producer and of the customer keeps the invariant.
LEMMA CondStep == CondInv /\ [CondNext]_condVars => CondInv'
<1> SUFFICES ASSUME CondInv, [CondNext]_condVars PROVE CondInv'
  OBVIOUS
<1>1. ASSUME UNCHANGED <<store, size, rounds, popped>>, CondTypeOK', SleepsRight'
      PROVE  CondInv'
  BY <1>1 DEF CondInv, Stored, Distinct, LettersConserved
<1>2. ASSUME NEW p \in Producers, ProducerWaits(p) PROVE CondInv'
  <2>1. CondTypeOK' /\ SleepsRight'
    BY <1>2 DEF ProducerWaits, CondInv, CondTypeOK, SleepsRight, IsFull, Rounds
  <2> QED
    BY <2>1, <1>1, <1>2 DEF ProducerWaits
<1>3. CASE CustomerWaits
  <2>1. CondTypeOK' /\ SleepsRight'
    BY <1>3 DEF CustomerWaits, CondInv, CondTypeOK, SleepsRight, IsFull, Rounds
  <2> QED
    BY <2>1, <1>1, <1>3 DEF CustomerWaits
<1>4. ASSUME NEW t \in CondThreads, CondSpuriousWakeup(t) PROVE CondInv'
  <2>1. CondTypeOK' /\ SleepsRight'
    BY <1>4 DEF CondSpuriousWakeup, CondInv, CondTypeOK, SleepsRight, IsFull, Rounds
  <2> QED
    BY <2>1, <1>1, <1>4 DEF CondSpuriousWakeup
<1>5. CASE UNCHANGED condVars
  <2>1. CondTypeOK' /\ SleepsRight'
    BY <1>5 DEF condVars, CondInv, CondTypeOK, SleepsRight, IsFull, Rounds
  <2> QED
    BY <2>1, <1>1, <1>5 DEF condVars
<1> QED
  BY <1>2, <1>3, <1>4, <1>5, PushKeeps, PopKeeps
     DEF CondNext, Joined, CondRun, CondThreads

\* So it holds in every state.
LEMMA CondInvKept == CondSpec => []CondInv
BY CondInitInv, CondStep, PTL DEF CondSpec

\* The counters and the two conditions' sleepers keep their types, for any number of
\* producers and letters and any length of the store.
THEOREM CondTypeCorrect == CondSpec => []CondTypeOK
<1>1. CondInv => CondTypeOK
  BY DEF CondInv
<1> QED
  BY <1>1, CondInvKept, PTL

\* producer and customer: every letter pushed is in the store or was popped, none is
\* both or twice.
THEOREM LettersKept == CondSpec => []LettersConserved
<1>1. CondInv => LettersConserved
  BY DEF CondInv
<1> QED
  BY <1>1, CondInvKept, PTL

\* The broadcasts wake everyone a push or a pop has made room or work for: a thread
\* with rounds left can go on.
THEOREM SomeoneCanRun == CondSpec => []SomeoneRuns
<1>1. CondInv => SomeoneRuns
  <2> SUFFICES ASSUME CondInv, \A t \in CondThreads : ~Ready(t) PROVE Finished
    BY DEF SomeoneRuns
  <2>0. /\ \A t \in CondThreads : rounds[t] \in 0 .. Rounds(t) /\ Rounds(t) \in Nat
        /\ Customer \in CondThreads /\ Capacity \in Nat \ {0}
        /\ full \subseteq Producers /\ empty \subseteq {Customer}
        /\ Customer \notin Producers /\ Rounds(Customer) = Wanted
        /\ \A p \in Producers : p \in CondThreads /\ Rounds(p) = Letters
    BY RoundsNat, CondAssumption DEF CondInv, CondTypeOK, CondThreads, Rounds
  <2>1. \A t \in CondThreads : t \in full \cup empty \/ rounds[t] = Rounds(t)
    BY <2>0 DEF Ready
  <2>2. /\ Stored \cup popped = Pushed /\ Cardinality(Stored) = size
        /\ Cardinality(popped) = rounds[Customer] /\ IsFiniteSet(Stored)
        /\ IsFiniteSet(popped)
    BY LettersParts DEF CondInv
  <2>3. CASE full = {}
    <3>1. \A p \in Producers : rounds[p] = Letters
      BY <2>0, <2>1, <2>3
    <3>2. Pushed = Items
      BY <3>1, CondAssumption DEF Pushed, Items
    <3>3. CASE empty = {}
      BY <2>1, <2>3, <3>3 DEF Finished
    <3>4. CASE empty # {}
      <4>1. size = 0
        BY <3>4 DEF CondInv, SleepsRight
      <4>2. Stored = {}
        BY <4>1 DEF Stored
      <4>3. popped = Items
        BY <4>2, <3>2, <2>2
      <4>4. rounds[Customer] = Wanted
        BY <4>3, <2>2, RoundsNat
      <4> QED
        BY <4>4, <3>1, <2>0 DEF Finished, CondThreads
    <3> QED
      BY <3>3, <3>4
  <2>4. CASE full # {}
    <3>1. size = Capacity /\ empty = {}
      BY <2>4, <2>0 DEF CondInv, SleepsRight, IsFull
    <3>2. rounds[Customer] = Wanted
      BY <3>1, <2>0, <2>1
    <3>3. Cardinality(popped) = Cardinality(Items) /\ popped \in SUBSET Items
      BY <3>2, <2>2, RoundsNat DEF CondInv, CondTypeOK
    <3>4. popped = Items
      BY <3>3, RoundsNat, FS_Subset
    <3>5. Stored = {}
      <4>1. Stored \cap popped = {}
        BY LettersParts DEF CondInv
      <4>2. Stored \subseteq Items
        BY <2>2 DEF Pushed
      <4> QED
        BY <4>1, <4>2, <3>4
    <3>6. size = 0
      BY <3>5, <2>2, FS_EmptySet
    <3> QED
      BY <3>1, <3>6, <2>0
  <2> QED
    BY <2>3, <2>4
<1> QED
  BY <1>1, CondInvKept, PTL

-----------------------------------------------------------------------------
(* The connections *)

\* SetEx has a connection exactly while it runs, the queue is as long as connect's
\* loop at most, and only SetEx takes from it.
PoolAt ==
    /\ method = "SetEx" <=> ctx # NoContext
    /\ method = "connect" => Len(m_ctxs) <= round /\ m_useNum = 0 /\ round <= m_poolsize
    /\ method \in {"idle", "SetEx"} => round = 0
    /\ method = "destructor" => round + Len(m_ctxs) <= Most

RedisInv == RedisTypeOK /\ PoolAt /\ Accounted

\* What the parts of a queue are, and that it is as long as before but for one
LEMMA QueueParts ==
    ASSUME NEW S, NEW q \in Seq(S)
    PROVE  /\ \A e \in S : /\ Append(q, e) \in Seq(S) /\ Len(Append(q, e)) = Len(q) + 1
                           /\ DOMAIN Append(q, e) = DOMAIN q \cup {Len(q) + 1}
                           /\ Append(q, e)[Len(q) + 1] = e
                           /\ \A k \in DOMAIN q : Append(q, e)[k] = q[k]
           /\ q # << >> => /\ Head(q) \in S /\ Tail(q) \in Seq(S) /\ Len(Tail(q)) = Len(q) - 1
                           /\ Head(q) = q[1] /\ 1 \in DOMAIN q
                           /\ DOMAIN Tail(q) = 1 .. Len(q) - 1
                           /\ \A k \in DOMAIN Tail(q) : Tail(q)[k] = q[k + 1] /\ k + 1 \in DOMAIN q
           /\ Len(q) \in Nat /\ DOMAIN q = 1 .. Len(q)
           /\ \A k \in DOMAIN q : q[k] \in S
OBVIOUS

\* getConntection makes a context that is not there yet.
LEMMA FreshIsNew ==
    ASSUME live # Contexts, live \subseteq Contexts
    PROVE  Fresh \in Contexts /\ Fresh \notin live /\ Fresh # NoContext
<1>1. \E c \in Contexts : c \notin live
  OBVIOUS
<1>2. Fresh \in Contexts /\ Fresh \notin live
  BY <1>1 DEF Fresh
<1> QED
  BY <1>2, RedisAssumption DEF Contexts, NoContext

\* What is queued once a context, or a NULL, was pushed
LEMMA QueuedAfterPush ==
    ASSUME RedisTypeOK, NEW e \in Contexts \cup {NoContext}, m_ctxs' = Append(m_ctxs, e)
    PROVE  Queued' = Queued \cup ({e} \ {NoContext})
BY QueueParts DEF RedisTypeOK, Queued

\* The front of the queue is in it, once unless it is NULL.
LEMMA QueuedAfterPop ==
    ASSUME RedisTypeOK, Accounted, m_ctxs # << >>, m_ctxs' = Tail(m_ctxs)
    PROVE  /\ Queued' = Queued \ {Head(m_ctxs)}
           /\ Head(m_ctxs) # NoContext => Head(m_ctxs) \in Queued
           /\ \A j, k \in DOMAIN m_ctxs' : m_ctxs'[j] = m_ctxs'[k] /\ m_ctxs'[j] # NoContext => j = k
<1>1. /\ m_ctxs \in Seq(Contexts \cup {NoContext})
      /\ \A j, k \in DOMAIN m_ctxs : m_ctxs[j] = m_ctxs[k] /\ m_ctxs[j] # NoContext => j = k
  BY DEF RedisTypeOK, Accounted
<1>2. /\ Len(m_ctxs) \in Nat /\ DOMAIN m_ctxs = 1 .. Len(m_ctxs) /\ 1 \in DOMAIN m_ctxs
      /\ Head(m_ctxs) = m_ctxs[1]
      /\ DOMAIN m_ctxs' = 1 .. Len(m_ctxs) - 1
      /\ \A k \in DOMAIN m_ctxs' : m_ctxs'[k] = m_ctxs[k + 1] /\ k + 1 \in DOMAIN m_ctxs
  BY <1>1, QueueParts
<1>3. \A k \in DOMAIN m_ctxs : k # 1 => k - 1 \in DOMAIN m_ctxs' /\ (k - 1) + 1 = k
  BY <1>2
<1>4. \A k \in DOMAIN m_ctxs : k # 1 /\ m_ctxs[k] # NoContext => m_ctxs[k] # m_ctxs[1]
  BY <1>1, <1>2
<1>5. \A k \in DOMAIN m_ctxs' : k + 1 # 1
  BY <1>2
<1>6. \A c : c \in Queued' <=> c \in Queued /\ c # Head(m_ctxs)
  <2> TAKE c
  <2>1. ASSUME c \in Queued' PROVE c \in Queued /\ c # Head(m_ctxs)
    <3> PICK k \in DOMAIN m_ctxs' : m_ctxs'[k] = c
      BY <2>1 DEF Queued
    <3> QED
      BY <2>1, <1>2, <1>4, <1>5 DEF Queued
  <2>2. ASSUME c \in Queued, c # Head(m_ctxs) PROVE c \in Queued'
    <3> PICK k \in DOMAIN m_ctxs : m_ctxs[k] = c
      BY <2>2 DEF Queued
    <3>1. k # 1 /\ c # NoContext
      BY <2>2, <1>2 DEF Queued
    <3>2. m_ctxs'[k - 1] = c /\ k - 1 \in DOMAIN m_ctxs'
      BY <3>1, <1>2, <1>3
    <3> QED
      BY <3>1, <3>2 DEF Queued
  <2> QED
    BY <2>1, <2>2
<1>7. \A j, k \in DOMAIN m_ctxs' : m_ctxs'[j] = m_ctxs'[k] /\ m_ctxs'[j] # NoContext => j = k
  <2>1. \A j \in DOMAIN m_ctxs' : j \in Int
    BY <1>2
  <2> QED
    BY <1>1, <1>2, <2>1
<1>8. Head(m_ctxs) # NoContext => Head(m_ctxs) \in Queued
  BY <1>2 DEF Queued
<1> QED
  BY <1>6, <1>7, <1>8

\* Another context, or a NULL, at the end of the queue leaves its contexts distinct.
LEMMA PushDistinct ==
    ASSUME RedisTypeOK, Accounted, NEW e \in Contexts \cup {NoContext},
           e \notin Queued, m_ctxs' = Append(m_ctxs, e)
    PROVE  \A j, k \in DOMAIN m_ctxs' :
               m_ctxs'[j] = m_ctxs'[k] /\ m_ctxs'[j] # NoContext => j = k
<1>1. /\ m_ctxs \in Seq(Contexts \cup {NoContext})
      /\ \A j, k \in DOMAIN m_ctxs : m_ctxs[j] = m_ctxs[k] /\ m_ctxs[j] # NoContext => j = k
      /\ \A k \in DOMAIN m_ctxs : m_ctxs[k] # NoContext => m_ctxs[k] \in Queued
  BY DEF RedisTypeOK, Accounted, Queued
<1>2. /\ DOMAIN m_ctxs' = DOMAIN m_ctxs \cup {Len(m_ctxs) + 1}
      /\ m_ctxs'[Len(m_ctxs) + 1] = e
      /\ \A k \in DOMAIN m_ctxs : m_ctxs'[k] = m_ctxs[k]
  BY <1>1, QueueParts
<1> QED
  BY <1>1, <1>2

\* At first the pool has no connections.
LEMMA RedisInitInv == RedisInit => RedisInv
<1> SUFFICES ASSUME RedisInit PROVE RedisInv
  OBVIOUS
<1>1. Most \in Nat
  BY RedisAssumption DEF Most
<1>2. RedisTypeOK
  BY <1>1 DEF RedisInit, RedisTypeOK
<1>3. PoolAt
  BY RedisAssumption DEF RedisInit, PoolAt
<1>4. Accounted
  BY DEF RedisInit, Accounted, Queued
<1> QED
  BY <1>2, <1>3, <1>4 DEF RedisInv

\* Each step of the loop, of a call and of the destructor keeps the invariant.
LEMMA RedisStep == RedisInv /\ [RedisNext]_redisVars => RedisInv'
<1> SUFFICES ASSUME RedisInv, [RedisNext]_redisVars PROVE RedisInv'
  OBVIOUS
<1>0. /\ Most \in Nat /\ m_poolsize \in Nat /\ m_maxpoolsize \in Nat
      /\ m_poolsize <= Most /\ m_maxpoolsize <= Most
      /\ NoContext \notin Contexts
  BY RedisAssumption DEF Most, Contexts, NoContext
<1>1. RedisTypeOK /\ PoolAt /\ Accounted
  BY DEF RedisInv
<1>2. /\ m_ctxs \in Seq(Contexts \cup {NoContext}) /\ Len(m_ctxs) \in Nat
      /\ m_useNum \in Nat /\ Len(m_ctxs) + m_useNum <= Most
      /\ live \subseteq Contexts /\ lost \subseteq live /\ nulls \in Nat
      /\ ctx \in Contexts \cup {NoContext} /\ round \in 0 .. Most
  BY <1>1 DEF RedisTypeOK
<1>3. /\ m_useNum = nulls + (IF method = "SetEx" THEN 1 ELSE 0)
      /\ \A j, k \in DOMAIN m_ctxs : m_ctxs[j] = m_ctxs[k] /\ m_ctxs[j] # NoContext => j = k
      /\ live = Queued \cup lost \cup ({ctx} \ {NoContext})
      /\ Queued \cap lost = {} /\ ctx \notin Queued \cup lost
  BY <1>1 DEF Accounted
<1>4. method # "SetEx" => ctx = NoContext
  BY <1>1 DEF PoolAt
<1>5. CASE Connect
  <2>0. /\ method = "connect" /\ round < m_poolsize /\ round' = round + 1
        /\ UNCHANGED <<m_useNum, method, ctx, nulls>>
        /\ ctx = NoContext /\ m_useNum = 0 /\ Len(m_ctxs) <= round
    BY <1>5, <1>1, <1>4 DEF Connect, PoolAt
  <2>1. ASSUME live # Contexts, live' = live \cup {Fresh}, m_ctxs' = Append(m_ctxs, Fresh),
               lost' = lost
        PROVE  RedisInv'
    <3>1. Fresh \in Contexts /\ Fresh \notin live /\ Fresh # NoContext
      BY <2>1, <1>2, FreshIsNew
    <3>2. Queued' = Queued \cup {Fresh}
      BY <2>1, <3>1, <1>1, QueuedAfterPush
    <3>3. \A j, k \in DOMAIN m_ctxs' : m_ctxs'[j] = m_ctxs'[k] /\ m_ctxs'[j] # NoContext => j = k
      BY <2>1, <3>1, <1>1, <1>3, PushDistinct
    <3>4. m_ctxs' \in Seq(Contexts \cup {NoContext}) /\ Len(m_ctxs') = Len(m_ctxs) + 1
      BY <2>1, <3>1, <1>2, QueueParts
    <3>5. RedisTypeOK'
      BY <2>0, <2>1, <3>1, <3>4, <1>0, <1>1, <1>2 DEF RedisTypeOK, Most
    <3>6. PoolAt'
      BY <2>0, <3>4, <1>0, <1>2 DEF PoolAt
    <3>7. Accounted'
      <4>1. live' = Queued' \cup lost' \cup ({ctx'} \ {NoContext})
        BY <2>0, <2>1, <3>2, <1>3
      <4>2. Queued' \cap lost' = {} /\ ctx' \notin Queued' \cup lost'
        BY <2>0, <2>1, <3>1, <3>2, <1>3
      <4> QED
        BY <2>0, <3>3, <4>1, <4>2, <1>3 DEF Accounted
    <3> QED
      BY <3>5, <3>6, <3>7 DEF RedisInv
  <2>2. ASSUME live # Contexts, live' = live \cup {Fresh}, lost' = lost \cup {Fresh},
               m_ctxs' = m_ctxs
        PROVE  RedisInv'
    <3>1. Fresh \in Contexts /\ Fresh \notin live /\ Fresh # NoContext
      BY <2>2, <1>2, FreshIsNew
    <3>2. Queued' = Queued
      BY <2>2 DEF Queued
    <3>5. RedisTypeOK'
      BY <2>0, <2>2, <3>1, <1>0, <1>1, <1>2 DEF RedisTypeOK, Most
    <3>6. PoolAt'
      BY <2>0, <2>2, <1>0, <1>2 DEF PoolAt
    <3>7. Accounted'
      <4>1. live' = Queued' \cup lost' \cup ({ctx'} \ {NoContext})
        BY <2>0, <2>2, <3>2, <1>3
      <4>2. Queued' \cap lost' = {} /\ ctx' \notin Queued' \cup lost'
        BY <2>0, <2>2, <3>1, <3>2, <1>3
      <4> QED
        BY <2>0, <2>2, <4>1, <4>2, <1>3 DEF Accounted
    <3> QED
      BY <3>5, <3>6, <3>7 DEF RedisInv
  <2>3. ASSUME m_ctxs' = Append(m_ctxs, NoContext), live' = live, lost' = lost
        PROVE  RedisInv'
    <3>2. Queued' = Queued /\ NoContext \notin Queued
      BY <2>3, <1>1, QueuedAfterPush DEF Queued
    <3>3. \A j, k \in DOMAIN m_ctxs' : m_ctxs'[j] = m_ctxs'[k] /\ m_ctxs'[j] # NoContext => j = k
      BY <2>3, <3>2, <1>1, PushDistinct
    <3>4. m_ctxs' \in Seq(Contexts \cup {NoContext}) /\ Len(m_ctxs') = Len(m_ctxs) + 1
      BY <2>3, <1>2, QueueParts
    <3>5. RedisTypeOK'
      BY <2>0, <2>3, <3>4, <1>0, <1>1, <1>2 DEF RedisTypeOK, Most
    <3>6. PoolAt'
      BY <2>0, <3>4, <1>0, <1>2 DEF PoolAt
    <3>7. Accounted'
      BY <2>0, <2>3, <3>2, <3>3, <1>3 DEF Accounted
    <3> QED
      BY <3>5, <3>6, <3>7 DEF RedisInv
  <2> QED
    BY <1>5, <2>1, <2>2, <2>3 DEF Connect
<1>6. CASE Connected \/ Leave
  <2>1. /\ UNCHANGED <<m_ctxs, m_useNum, ctx, live, lost, nulls>>
        /\ method # "SetEx" /\ round' = 0
        /\ method' \in {"idle", "destructor"} /\ method' # "SetEx"
    BY <1>6, <1>1 DEF Connected, Leave, PoolAt
  <2>2. Queued' = Queued
    BY <2>1 DEF Queued
  <2>3. Accounted'
    BY <2>1, <2>2, <1>3 DEF Accounted
  <2>4. RedisTypeOK'
    BY <2>1, <1>0, <1>1 DEF RedisTypeOK, Most
  <2>5. PoolAt'
    BY <2>1, <1>0, <1>2, <1>4 DEF PoolAt
  <2> QED
    BY <2>3, <2>4, <2>5 DEF RedisInv
<1>7. CASE TakeQueued
  <2>0. /\ method = "idle" /\ m_ctxs # << >> /\ m_useNum' = m_useNum + 1
        /\ m_ctxs' = Tail(m_ctxs) /\ UNCHANGED <<round, live, lost>>
        /\ ctx = NoContext /\ round = 0
    BY <1>7, <1>1, <1>4 DEF TakeQueued, Popped, PoolAt
  <2>1. /\ Head(m_ctxs) \in Contexts \cup {NoContext}
        /\ m_ctxs' \in Seq(Contexts \cup {NoContext})
        /\ Len(m_ctxs') = Len(m_ctxs) - 1 /\ Len(m_ctxs') \in Nat
    BY <2>0, <1>2, QueueParts
  <2>2. /\ Queued' = Queued \ {Head(m_ctxs)}
        /\ Head(m_ctxs) # NoContext => Head(m_ctxs) \in Queued
        /\ \A j, k \in DOMAIN m_ctxs' : m_ctxs'[j] = m_ctxs'[k] /\ m_ctxs'[j] # NoContext => j = k
    BY <2>0, <1>1, QueuedAfterPop
  <2>3. CASE Head(m_ctxs) = NoContext
    <3>1. nulls' = nulls + 1 /\ UNCHANGED <<ctx, method>>
      BY <1>7, <2>3 DEF TakeQueued
    <3>2. Queued' = Queued
      BY <2>2, <2>3 DEF Queued
    <3>3. RedisTypeOK'
      BY <2>0, <2>1, <3>1, <1>0, <1>1, <1>2 DEF RedisTypeOK, Most
    <3>4. PoolAt'
      BY <2>0, <2>1, <3>1 DEF PoolAt
    <3>5. Accounted'
      BY <2>0, <2>2, <3>1, <3>2, <1>2, <1>3 DEF Accounted
    <3> QED
      BY <3>3, <3>4, <3>5 DEF RedisInv
  <2>4. CASE Head(m_ctxs) # NoContext
    <3>1. ctx' = Head(m_ctxs) /\ method' = "SetEx" /\ nulls' = nulls
      BY <1>7, <2>4 DEF TakeQueued
    <3>3. RedisTypeOK'
      BY <2>0, <2>1, <3>1, <1>0, <1>1, <1>2 DEF RedisTypeOK, Most
    <3>4. PoolAt'
      BY <2>0, <2>1, <2>4, <3>1 DEF PoolAt
    <3>5. Accounted'
      <4>1. live' = Queued' \cup lost' \cup ({ctx'} \ {NoContext})
        BY <2>0, <2>2, <2>4, <3>1, <1>3
      <4>2. Queued' \cap lost' = {} /\ ctx' \notin Queued' \cup lost'
        BY <2>0, <2>2, <2>4, <3>1, <1>3
      <4>3. m_useNum' = nulls' + (IF method' = "SetEx" THEN 1 ELSE 0)
        BY <2>0, <3>1, <1>2, <1>3
      <4> QED
        BY <2>2, <4>1, <4>2, <4>3 DEF Accounted
    <3> QED
      BY <3>3, <3>4, <3>5 DEF RedisInv
  <2> QED
    BY <2>3, <2>4
<1>8. CASE TakeNew
  <2>0. /\ method = "idle" /\ m_ctxs = << >> /\ m_useNum < m_maxpoolsize
        /\ live # Contexts /\ live' = live \cup {Fresh} /\ ctx' = Fresh
        /\ method' = "SetEx" /\ m_useNum' = m_useNum + 1
        /\ UNCHANGED <<m_ctxs, round, lost, nulls>> /\ ctx = NoContext /\ round = 0
    BY <1>8, <1>1, <1>4 DEF TakeNew, PoolAt
  <2>1. Fresh \in Contexts /\ Fresh \notin live /\ Fresh # NoContext
    BY <2>0, <1>2, FreshIsNew
  <2>2. Queued' = Queued
    BY <2>0 DEF Queued
  <2>3. RedisTypeOK'
    BY <2>0, <2>1, <1>0, <1>1, <1>2 DEF RedisTypeOK, Most
  <2>4. PoolAt'
    BY <2>0, <2>1 DEF PoolAt
  <2>5. Accounted'
    <3>1. live' = Queued' \cup lost' \cup ({ctx'} \ {NoContext})
      BY <2>0, <2>1, <2>2, <1>3
    <3>2. Queued' \cap lost' = {} /\ ctx' \notin Queued' \cup lost'
      BY <2>0, <2>1, <2>2, <1>3
    <3>3. m_useNum' = nulls' + (IF method' = "SetEx" THEN 1 ELSE 0)
      BY <2>0, <1>2, <1>3
    <3> QED
      BY <2>0, <3>1, <3>2, <3>3, <1>3 DEF Accounted
  <2> QED
    BY <2>3, <2>4, <2>5 DEF RedisInv
<1>9. ASSUME NEW active \in BOOLEAN, Release(active) PROVE RedisInv'
  <2>0. /\ method = "SetEx" /\ m_useNum' = m_useNum - 1 /\ ctx' = NoContext
        /\ method' = "idle" /\ UNCHANGED <<round, lost, nulls>>
        /\ ctx # NoContext /\ ctx \in Contexts /\ round = 0
        /\ m_useNum = nulls + 1
    BY <1>9, <1>1, <1>2, <1>3 DEF Release, PoolAt
  <2>1. CASE active
    <3>0. m_ctxs' = Append(m_ctxs, ctx) /\ live' = live
      BY <1>9, <2>1 DEF Release
    <3>1. Queued' = Queued \cup {ctx}
      BY <2>0, <3>0, <1>1, QueuedAfterPush
    <3>2. \A j, k \in DOMAIN m_ctxs' : m_ctxs'[j] = m_ctxs'[k] /\ m_ctxs'[j] # NoContext => j = k
      BY <2>0, <3>0, <1>1, <1>3, PushDistinct
    <3>3. m_ctxs' \in Seq(Contexts \cup {NoContext}) /\ Len(m_ctxs') = Len(m_ctxs) + 1
      BY <2>0, <3>0, <1>2, QueueParts
    <3>4. RedisTypeOK'
      BY <2>0, <3>0, <3>3, <1>0, <1>1, <1>2 DEF RedisTypeOK, Most
    <3>5. PoolAt'
      BY <2>0 DEF PoolAt
    <3>6. Accounted'
      <4>1. live' = Queued' \cup lost' \cup ({ctx'} \ {NoContext})
        BY <2>0, <3>0, <3>1, <1>3
      <4>2. Queued' \cap lost' = {} /\ ctx' \notin Queued' \cup lost'
        BY <2>0, <3>0, <3>1, <1>0, <1>2, <1>3 DEF Queued
      <4> QED
        BY <2>0, <3>2, <4>1, <4>2, <1>2 DEF Accounted
    <3> QED
      BY <3>4, <3>5, <3>6 DEF RedisInv
  <2>2. CASE ~active
    <3>0. m_ctxs' = m_ctxs /\ live' = live \ {ctx}
      BY <1>9, <2>2 DEF Release
    <3>1. Queued' = Queued
      BY <3>0 DEF Queued
    <3>4. RedisTypeOK'
      BY <2>0, <3>0, <1>0, <1>1, <1>2, <1>3 DEF RedisTypeOK, Most
    <3>5. PoolAt'
      BY <2>0 DEF PoolAt
    <3>6. Accounted'
      <4>1. live' = Queued' \cup lost' \cup ({ctx'} \ {NoContext})
        BY <2>0, <3>0, <3>1, <1>3
      <4>2. Queued' \cap lost' = {} /\ ctx' \notin Queued' \cup lost'
        BY <2>0, <3>0, <3>1, <1>0, <1>2, <1>3 DEF Queued
      <4> QED
        BY <2>0, <3>0, <4>1, <4>2, <1>2, <1>3 DEF Accounted
    <3> QED
      BY <3>4, <3>5, <3>6 DEF RedisInv
  <2> QED
    BY <2>1, <2>2
<1>10. CASE Destruct
  <2>0. /\ method = "destructor" /\ round < Len(m_ctxs) /\ live' = live \ {Head(m_ctxs)}
        /\ m_ctxs' = Tail(m_ctxs) /\ round' = round + 1
        /\ UNCHANGED <<m_useNum, method, ctx, lost, nulls>>
        /\ ctx = NoContext /\ round + Len(m_ctxs) <= Most
    BY <1>10, <1>1, <1>4 DEF Destruct, Popped, PoolAt
  <2>1. m_ctxs # << >>
    BY <2>0, <1>2
  <2>2. /\ Head(m_ctxs) \in Contexts \cup {NoContext}
        /\ m_ctxs' \in Seq(Contexts \cup {NoContext})
        /\ Len(m_ctxs') = Len(m_ctxs) - 1 /\ Len(m_ctxs') \in Nat
    BY <2>0, <2>1, <1>2, QueueParts
  <2>3. /\ Queued' = Queued \ {Head(m_ctxs)}
        /\ Head(m_ctxs) # NoContext => Head(m_ctxs) \in Queued
        /\ \A j, k \in DOMAIN m_ctxs' : m_ctxs'[j] = m_ctxs'[k] /\ m_ctxs'[j] # NoContext => j = k
    BY <2>0, <2>1, <1>1, QueuedAfterPop
  <2>4. Head(m_ctxs) \notin lost
    BY <2>3, <1>0, <1>2, <1>3
  <2>5. RedisTypeOK'
    BY <2>0, <2>2, <2>4, <1>0, <1>1, <1>2 DEF RedisTypeOK, Most
  <2>6. PoolAt'
    BY <2>0, <2>2, <1>0, <1>2, <1>1 DEF PoolAt, Most
  <2>7. Accounted'
    <3>1. live' = Queued' \cup lost' \cup ({ctx'} \ {NoContext})
      BY <2>0, <2>3, <2>4, <1>3
    <3>2. Queued' \cap lost' = {} /\ ctx' \notin Queued' \cup lost'
      BY <2>0, <2>3, <1>3
    <3> QED
      BY <2>0, <2>3, <3>1, <3>2, <1>3 DEF Accounted
  <2> QED
    BY <2>5, <2>6, <2>7 DEF RedisInv
<1>11. CASE Destructed
  <2>0. /\ method = "destructor" /\ method' = "gone" /\ lost' = lost \cup Queued
        /\ m_ctxs' = << >> /\ UNCHANGED <<m_useNum, round, ctx, live, nulls>>
        /\ ctx = NoContext
    BY <1>11, <1>1, <1>4 DEF Destructed, PoolAt
  <2>1. Queued' = {}
    BY <2>0 DEF Queued
  <2>2. RedisTypeOK'
    BY <2>0, <1>0, <1>1, <1>2, <1>3 DEF RedisTypeOK, Most
  <2>3. PoolAt'
    BY <2>0 DEF PoolAt
  <2>4. Accounted'
    BY <2>0, <2>1, <1>3 DEF Accounted
  <2> QED
    BY <2>2, <2>3, <2>4 DEF RedisInv
<1>12. CASE UNCHANGED redisVars
  <2>1. Queued' = Queued /\ RedisTypeOK' /\ PoolAt'
    BY <1>12, <1>1 DEF redisVars, RedisTypeOK, PoolAt, Queued, Most
  <2>2. Accounted'
    BY <1>12, <2>1, <1>3 DEF redisVars, Accounted
  <2> QED
    BY <2>1, <2>2 DEF RedisInv
<1> QED
  BY <1>5, <1>6, <1>7, <1>8, <1>9, <1>10, <1>11, <1>12 DEF RedisNext

\* So it holds in every state.
LEMMA RedisInvKept == RedisSpec => []RedisInv
BY RedisInitInv, RedisStep, PTL DEF RedisSpec

\* The queue and the counter keep their types, and together they stay within the
\* larger of the two sizes.
THEOREM RedisTypeCorrect == RedisSpec => []RedisTypeOK
<1>1. RedisInv => RedisTypeOK
  BY DEF RedisInv
<1> QED
  BY <1>1, RedisInvKept, PTL

\* getConntection, releaseConnection and the destructor: a context is queued, in use
\* or lost and only one of these, and m_useNum counts what was handed out.
THEOREM ConnectionsAccounted == RedisSpec => []Accounted
<1>1. RedisInv => Accounted
  BY DEF RedisInv
<1> QED
  BY <1>1, RedisInvKept, PTL
=============================================================================
