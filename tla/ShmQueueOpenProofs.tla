-------------------------- MODULE ShmQueueOpenProofs --------------------------
(***************************************************************************)
(* Creation and attachment for any number of processes, of segments and of *)
(* pairs of arguments: a queue that sq_create has returned stays as it is. *)
(*                                                                         *)
(* As long as every creator has the lock there is one at a time, and what  *)
(* it has found out about the key holds until it acts on it: a segment it  *)
(* clears is one that it has made, and one that it verifies is one whose   *)
(* creator has returned, unless a creator died or failed on the way.       *)
(***************************************************************************)
EXTENDS ShmQueueOpen, TLAPS

\* Inside sq_create, past the lock
Creators == {"get", "stat", "remove", "make", "attach", "clear", "store", "verify", "return"}
Creating(p) == pc[p] \in Creators

\* Where a process knows a segment
HasSegment == {"stat", "remove", "attach", "clear", "store", "verify", "return",
               "created", "openattach", "opened"}

-----------------------------------------------------------------------------
(* The invariant *)

\* What the locals hold at a line of the call, whoever else is there: arguments
\* have been looked at before anything is made, and created is 1 only for one
\* who has called shmget with IPC_CREAT.
Local(p) ==
    /\ pc[p] \in {"lock"} \cup Creators => arg[p] \in Args
    /\ Creating(p) => ~BadArgument(arg[p])
    /\ pc[p] \in HasSegment => shmid[p] \in 1 .. made
    /\ pc[p] \in {"idle", "lock", "get", "stat", "remove", "make", "verify",
                  "openattach", "opened"} => ~created[p]
    /\ pc[p] \in {"clear", "store"} => created[p]

\* The key names one of the segments made, and only those are returned.
Numbered == shm_key \in 0 .. made /\ DOMAIN ready \subseteq 1 .. made

\* A creator has the lock, so it is alone, ...
Alone == \A p \in Procs : Creating(p) => lock = p

\* ... the key is as it has seen it, or made it, ...
KeySeen(p) ==
    /\ pc[p] \in {"stat", "remove"} => shm_key = shmid[p]
    /\ pc[p] = "make" => shm_key = NONE
    /\ pc[p] = "attach" /\ created[p] => shm_key = shmid[p]

\* ... the segment that it will clear is its own, and has its parameters at the
\* end.
OwnSegment(p) ==
    /\ pc[p] \in {"attach", "clear", "store"} /\ created[p] => shmid[p] \notin DOMAIN ready
    /\ pc[p] = "return" => params[shmid[p]] = Given(arg[p])

\* What was returned keeps its parameters, which are not those of a segment full
\* of zeros.
ReadyKept == \A s \in DOMAIN ready : params[s] = ready[s] /\ params[s] # Cleared

\* As long as nobody has died or failed, a segment has been returned or is being
\* made by the process that has the lock, ...
NoneLeft ==
    faults > 0 \/ \A s \in 1 .. made :
        s \in DOMAIN ready \/ \E p \in Procs : Creating(p) /\ created[p] /\ shmid[p] = s

\* ... and who was refused has found the parameters of another queue.
RightlyRefused == faults > 0 \/ \A r \in refused : r[1] # r[2] /\ r[1] # Cleared

Locked ==
    /\ Alone /\ \A p \in Procs : KeySeen(p) /\ OwnSegment(p)
    /\ ReadyKept /\ NoneLeft /\ RightlyRefused

\* What every reachable state has
Basic == OpenTypeOK /\ (\A p \in Procs : Local(p)) /\ Numbered

OpenInv == Basic /\ (unlocked \/ Locked)

-----------------------------------------------------------------------------
(* Types *)

\* What is stored in a segment, and how large it is made: positive numbers
LEMMA GivenSize ==
    ASSUME NEW a \in Args, ~BadArgument(a)
    PROVE  /\ Given(a) \in Nat \X Nat /\ Given(a) # Cleared
           /\ AllocateSize(a) \in Nat
<1>1. /\ a[1] \in Int /\ a[2] \in Int /\ a[1] > 0
      /\ a[2] > RESERVE_BLOCK_COUNT /\ RESERVE_BLOCK_COUNT \in Nat
  BY OpenAssumption DEF BadArgument
<1>2. /\ ((a[1] + 7) \div 8) * 8 \in Nat /\ a[2] \in Nat /\ a[2] # 0
  BY ONLY <1>1
<1>3. Given(a) \in Nat \X Nat /\ Given(a) # Cleared
  BY <1>2 DEF Given, Cleared
<1>4. Given(a)[1] \in Nat
  BY <1>3
<1>5. \A x, y \in Nat : x * y \in Nat
  OBVIOUS
<1>6. (NODE_HEAD + Given(a)[1]) * (a[2] + 1) \in Nat
  <2>1. NODE_HEAD + Given(a)[1] \in Nat /\ a[2] + 1 \in Nat
    BY <1>2, <1>4 DEF NODE_HEAD
  <2> QED
    BY <1>5, <2>1
<1>7. \A x \in Nat : ((HEAD + x + MB4 - 1) \div MB4) * MB4 \in Nat
  BY DEF HEAD, MB4
<1> QED
  BY <1>3, <1>6, <1>7 DEF AllocateSize

\* A process that leaves a call
LEMMA GoneType ==
    ASSUME OpenTypeOK, NEW p \in Procs, Gone(p)
    PROVE  /\ pc' \in [Procs -> PC] /\ arg' \in [Procs -> Args \cup {Cleared}]
           /\ shmid' \in [Procs -> Segments \cup {NONE}] /\ created' \in [Procs -> BOOLEAN]
           /\ lock' \in Procs \cup {NONE}
           /\ pc'[p] = "idle" /\ ~created'[p]
           /\ \A q \in Procs \ {p} : pc'[q] = pc[q] /\ arg'[q] = arg[q]
                                     /\ shmid'[q] = shmid[q] /\ created'[q] = created[q]
BY DEF OpenTypeOK, Gone, Goto, PC

\* The shared variables keep their types, and no segment is forgotten.
SharedStep ==
    /\ made' \in 0 .. MaxSegments /\ made <= made'
    /\ shm_key' \in 0 .. made' /\ DOMAIN ready' \subseteq 1 .. made'
    /\ size' \in [Segments -> Nat] /\ params' \in [Segments -> Nat \X Nat]
    /\ lock' \in Procs \cup {NONE}
    /\ faults' \in 0 .. MaxFaults /\ unlocked' \in BOOLEAN

\* What is left of the types are the locals.
LEMMA SharedType ==
    ASSUME Basic, SharedStep, pc' \in [Procs -> PC],
           arg' \in [Procs -> Args \cup {Cleared}],
           shmid' \in [Procs -> Segments \cup {NONE}], created' \in [Procs -> BOOLEAN]
    PROVE  OpenTypeOK'
<1>1. made' \in 0 .. MaxSegments /\ MaxSegments \in Nat
  BY OpenAssumption DEF SharedStep
<1>2. \A s \in 0 .. made' : s \in Segments \cup {NONE}
  BY <1>1 DEF Segments, NONE
<1>3. \A s \in 1 .. made' : s \in Segments
  BY <1>1 DEF Segments
<1>4. shm_key' \in Segments \cup {NONE} /\ DOMAIN ready' \subseteq Segments
  BY <1>2, <1>3 DEF SharedStep
<1> QED
  BY <1>4 DEF SharedStep, OpenTypeOK

\* A process leaves a call.
LEMMA LeaveBasic ==
    ASSUME Basic, NEW p \in Procs, Gone(p), SharedStep
    PROVE  Basic'
<1>1. OpenTypeOK'
  BY GoneType, SharedType DEF Basic
<1>2. \A q \in Procs : Local(q)'
  <2>1. Local(p)'
    BY GoneType DEF Basic, Local, Creating, Creators, HasSegment
  <2>2. ASSUME NEW q \in Procs \ {p} PROVE Local(q)'
    <3>1. pc'[q] = pc[q] /\ arg'[q] = arg[q] /\ shmid'[q] = shmid[q] /\ created'[q] = created[q]
      BY GoneType DEF Basic
    <3>2. 1 .. made \subseteq 1 .. made'
      BY DEF SharedStep, Basic, OpenTypeOK
    <3> QED
      BY <3>1, <3>2 DEF Basic, Local, Creating, BadArgument
  <2> QED
    BY <2>1, <2>2
<1> QED
  BY <1>1, <1>2 DEF Basic, SharedStep, Numbered

\* A process goes on to line l, with segment s.
LEMMA GoOnBasic ==
    ASSUME Basic, NEW p \in Procs, NEW l \in PC, Goto(p, l), SharedStep,
           \A q \in Procs \ {p} : /\ arg'[q] = arg[q] /\ shmid'[q] = shmid[q]
                                  /\ created'[q] = created[q],
           arg' \in [Procs -> Args \cup {Cleared}],
           shmid' \in [Procs -> Segments \cup {NONE}],
           created' \in [Procs -> BOOLEAN],
           Local(p)'
    PROVE  Basic'
<1>1. OpenTypeOK'
  <2>1. pc' \in [Procs -> PC]
    BY DEF Basic, OpenTypeOK, Goto
  <2> QED
    BY <2>1, SharedType
<1>2. ASSUME NEW q \in Procs \ {p} PROVE Local(q)'
  <2>1. pc'[q] = pc[q] /\ arg'[q] = arg[q] /\ shmid'[q] = shmid[q] /\ created'[q] = created[q]
    BY DEF Basic, OpenTypeOK, Goto
  <2>2. 1 .. made \subseteq 1 .. made'
    BY DEF SharedStep, Basic, OpenTypeOK
  <2> QED
    BY <2>1, <2>2 DEF Basic, Local, Creating, BadArgument
<1> QED
  BY <1>1, <1>2 DEF Basic, SharedStep, Numbered

\* Every step keeps the types, what a process knows by where it is, and the numbers
\* of the segments.
LEMMA BasicStep ==
    ASSUME Basic, [OpenNext]_openVars
    PROVE  Basic'
<1> USE DEF segments, locals, history
<1>1. ASSUME NEW p \in Procs, Process(p) \/ ShmMakeFails(p) \/ Fault(p) PROVE Basic'
  <2>a. /\ pc \in [Procs -> PC] /\ arg \in [Procs -> Args \cup {Cleared}]
        /\ shmid \in [Procs -> Segments \cup {NONE}] /\ created \in [Procs -> BOOLEAN]
        /\ size \in [Segments -> Nat] /\ params \in [Segments -> Nat \X Nat]
        /\ lock \in Procs \cup {NONE}
        /\ MaxSegments \in Nat /\ MaxFaults \in Nat
        /\ made \in 0 .. MaxSegments /\ shm_key \in 0 .. made /\ DOMAIN ready \subseteq 1 .. made
        /\ faults \in 0 .. MaxFaults /\ unlocked \in BOOLEAN
    BY OpenAssumption DEF Basic, OpenTypeOK, Numbered
  <2>l. Local(p)
    BY DEF Basic
  <2>n. shm_key \in Segments \cup {NONE} /\ MaxSegments \in Nat /\ 1 .. made \subseteq Segments
    BY <2>a DEF Basic, OpenTypeOK, Segments
  <2>u. ASSUME UNCHANGED <<segments, ready>>,
               faults' \in 0 .. MaxFaults, unlocked' \in BOOLEAN, lock' \in Procs \cup {NONE}
        PROVE  SharedStep
    BY <2>a, <2>u DEF SharedStep
  <2>g. ASSUME Gone(p) PROVE lock' \in Procs \cup {NONE}
    BY <2>a, <2>g DEF Gone
  <2>1. ASSUME NEW a \in Args, SqCreate(p, a) PROVE Basic'
    <3>1. SharedStep
      BY <2>a, <2>u, <2>1 DEF SqCreate
    <3>2. Local(p)'
      BY <2>a, <2>l, <2>1 DEF Local, Goto, Creating, Creators, HasSegment, PC, BadArgument,
         NONE, SqCreate
    <3> QED
      BY <2>a, <2>1, <3>1, <3>2, GoOnBasic DEF Goto, PC, Segments, NONE, SqCreate
  <2>2. CASE Lock(p) /\ Gone(p)
    BY <2>a, <2>u, <2>g, <2>2, LeaveBasic DEF Lock
  <2>3. CASE Lock(p) /\ ~Gone(p)
    <3>1. SharedStep
      BY <2>a, <2>u, <2>3 DEF Lock
    <3>2. Local(p)'
      BY <2>a, <2>l, <2>3 DEF Local, Goto, Creating, Creators, HasSegment, PC, BadArgument,
         NONE, Lock
    <3> QED
      BY <2>a, <2>3, <3>1, <3>2, GoOnBasic DEF Goto, PC, Segments, NONE, Lock
  <2>4. CASE LockFails(p)
    <3>1. SharedStep
      BY <2>a, <2>u, <2>4 DEF LockFails
    <3>2. Local(p)'
      BY <2>a, <2>l, <2>4 DEF Local, Goto, Creating, Creators, HasSegment, PC, BadArgument,
         NONE, LockFails
    <3> QED
      BY <2>a, <2>4, <3>1, <3>2, GoOnBasic DEF Goto, PC, Segments, NONE, LockFails
  <2>5. CASE ShmGet(p)
    <3>1. SharedStep
      BY <2>a, <2>u, <2>5 DEF ShmGet
    <3>2. Local(p)'
      BY <2>a, <2>l, <2>5 DEF Local, Goto, Creating, Creators, HasSegment, PC, BadArgument,
         NONE, ShmGet
    <3>3. shmid' \in [Procs -> Segments \cup {NONE}]
      BY <2>a, <2>n, <2>5 DEF ShmGet
    <3>4. \A q \in Procs \ {p} : shmid'[q] = shmid[q]
      BY <2>a, <2>5 DEF ShmGet
    <3>5. \E l \in PC : Goto(p, l)
      BY <2>5 DEF ShmGet, PC
    <3> QED
      BY <2>a, <2>5, <3>1, <3>2, <3>3, <3>4, <3>5, GoOnBasic DEF ShmGet
  <2>6. CASE ShmStat(p) /\ Gone(p)
    BY <2>a, <2>u, <2>g, <2>6, LeaveBasic DEF ShmStat
  <2>7. CASE ShmStat(p) /\ ~Gone(p)
    <3>1. SharedStep
      BY <2>a, <2>u, <2>7 DEF ShmStat
    <3>2. Local(p)'
      BY <2>a, <2>l, <2>7 DEF Local, Goto, Creating, Creators, HasSegment, PC, BadArgument,
         NONE, ShmStat
    <3> QED
      BY <2>a, <2>7, <3>1, <3>2, GoOnBasic DEF Goto, PC, Segments, NONE, ShmStat
  <2>8. CASE ShmRemove(p) /\ Gone(p)
    <3>1. SharedStep
      BY <2>a, <2>g, <2>8 DEF SharedStep, ShmRemove, NONE
    <3> QED
      BY <2>8, <3>1, LeaveBasic
  <2>9. CASE ShmRemove(p) /\ ~Gone(p)
    <3>1. SharedStep
      BY <2>a, <2>9 DEF SharedStep, ShmRemove, NONE
    <3>2. Local(p)'
      BY <2>a, <2>l, <2>9 DEF Local, Goto, Creating, Creators, HasSegment, PC, BadArgument,
         NONE, ShmRemove
    <3> QED
      BY <2>a, <2>9, <3>1, <3>2, GoOnBasic DEF Goto, PC, Segments, NONE, ShmRemove
  <2>10. CASE ShmMake(p)
    <3>0. AllocateSize(arg[p]) \in Nat
      BY <2>l, <2>10, GivenSize DEF Local, ShmMake, Creating, Creators
    <3>1. SharedStep /\ shm_key' \in Segments
      <4>1. CASE shm_key = NONE /\ made < MaxSegments /\ made' = made + 1 /\ shm_key' = made'
                 /\ size' = [size EXCEPT ![shm_key'] = AllocateSize(arg[p])]
        <5>1. made' \in 1 .. MaxSegments /\ made <= made' /\ shm_key' \in 0 .. made'
              /\ 1 .. made \subseteq 1 .. made' /\ shm_key' \in Segments
          BY <2>a, <4>1 DEF Segments
        <5>2. size' \in [Segments -> Nat]
          BY <2>a, <3>0, <4>1
        <5> QED
          BY <2>a, <2>10, <5>1, <5>2 DEF SharedStep, ShmMake
      <4>2. CASE shm_key # NONE /\ UNCHANGED <<shm_key, made, size>>
        BY <2>a, <2>n, <2>10, <4>2 DEF SharedStep, ShmMake
      <4> QED
        BY <2>10, <4>1, <4>2 DEF ShmMake
    <3>2. Local(p)'
      <4>1. shmid'[p] = shm_key' /\ shm_key' \in 1 .. made'
        BY <2>a, <2>10, <3>1 DEF ShmMake, SharedStep, Segments, NONE
      <4> QED
        BY <2>a, <2>l, <2>10, <4>1 DEF Local, Goto, Creating, Creators, HasSegment, PC,
           BadArgument, ShmMake
    <3>3. shmid' \in [Procs -> Segments \cup {NONE}] /\ created' \in [Procs -> BOOLEAN]
      BY <2>a, <2>10, <3>1 DEF ShmMake
    <3>4. \A q \in Procs \ {p} : shmid'[q] = shmid[q] /\ created'[q] = created[q]
      BY <2>a, <2>10 DEF ShmMake
    <3> QED
      BY <2>a, <2>10, <3>1, <3>2, <3>3, <3>4, GoOnBasic DEF ShmMake, PC
  <2>11. CASE ShmAttach(p) /\ Gone(p)
    BY <2>a, <2>u, <2>g, <2>11, LeaveBasic DEF ShmAttach
  <2>12. CASE ShmAttach(p) /\ ~Gone(p)
    <3>1. SharedStep
      BY <2>a, <2>u, <2>12 DEF ShmAttach
    <3>2. Local(p)'
      BY <2>a, <2>l, <2>12 DEF Local, Goto, Creating, Creators, HasSegment, PC, BadArgument,
         NONE, ShmAttach
    <3> QED
      BY <2>a, <2>12, <3>1, <3>2, GoOnBasic DEF Goto, PC, Segments, NONE, ShmAttach
  <2>13. CASE Memset(p)
    <3>1. SharedStep
      <4>1. Cleared \in Nat \X Nat
        BY DEF Cleared
      <4>2. ASSUME NEW x \in Nat \X Nat PROVE [params EXCEPT ![shmid[p]] = x] \in [Segments -> Nat \X Nat]
        BY <2>a
      <4>3. params' \in [Segments -> Nat \X Nat]
        BY <2>13, <4>1, <4>2 DEF Memset
      <4> QED
        BY <2>a, <2>13, <4>3 DEF SharedStep, Memset
    <3>2. Local(p)'
      BY <2>a, <2>l, <2>13 DEF Local, Goto, Creating, Creators, HasSegment, PC, BadArgument,
         NONE, Memset
    <3> QED
      BY <2>a, <2>13, <3>1, <3>2, GoOnBasic DEF Goto, PC, Segments, NONE, Memset
  <2>14. CASE Store(p)
    <3>1. SharedStep
      <4>1. Given(arg[p]) \in Nat \X Nat
        BY <2>l, <2>14, GivenSize DEF Store, Local, Creating, Creators
      <4>2. ASSUME NEW x \in Nat \X Nat PROVE [params EXCEPT ![shmid[p]] = x] \in [Segments -> Nat \X Nat]
        BY <2>a
      <4>3. params' \in [Segments -> Nat \X Nat]
        BY <2>14, <4>1, <4>2 DEF Store
      <4> QED
        BY <2>a, <2>14, <4>3 DEF SharedStep, Store
    <3>2. Local(p)'
      BY <2>a, <2>l, <2>14 DEF Local, Goto, Creating, Creators, HasSegment, PC, BadArgument,
         NONE, Store
    <3> QED
      BY <2>a, <2>14, <3>1, <3>2, GoOnBasic DEF Goto, PC, Segments, NONE, Store
  <2>15. CASE Verify(p) /\ Gone(p)
    BY <2>a, <2>u, <2>g, <2>15, LeaveBasic DEF Verify
  <2>16. CASE Verify(p) /\ ~Gone(p)
    <3>1. SharedStep
      BY <2>a, <2>u, <2>16 DEF Verify
    <3>2. Local(p)'
      BY <2>a, <2>l, <2>16 DEF Local, Goto, Creating, Creators, HasSegment, PC, BadArgument,
         NONE, Verify
    <3> QED
      BY <2>a, <2>16, <3>1, <3>2, GoOnBasic DEF Goto, PC, Segments, NONE, Verify
  <2>17. CASE ReturnQueue(p)
    <3>1. SharedStep
      BY <2>a, <2>l, <2>17 DEF SharedStep, ReturnQueue, Local, HasSegment
    <3>2. Local(p)'
      BY <2>a, <2>l, <2>17 DEF Local, Goto, Creating, Creators, HasSegment, PC, BadArgument,
         NONE, ReturnQueue
    <3> QED
      BY <2>a, <2>17, <3>1, <3>2, GoOnBasic DEF Goto, PC, Segments, NONE, ReturnQueue
  <2>18. CASE SqOpen(p)
    <3>1. SharedStep
      BY <2>a, <2>u, <2>18 DEF SqOpen
    <3>2. Local(p)'
      BY <2>a, <2>l, <2>18 DEF Local, Goto, Creating, Creators, HasSegment, PC, BadArgument,
         NONE, SqOpen
    <3>3. shmid' \in [Procs -> Segments \cup {NONE}]
      BY <2>a, <2>n, <2>18 DEF SqOpen
    <3>4. \A q \in Procs \ {p} : shmid'[q] = shmid[q]
      BY <2>a, <2>18 DEF SqOpen
    <3> QED
      BY <2>a, <2>18, <3>1, <3>2, <3>3, <3>4, GoOnBasic DEF SqOpen, PC
  <2>19. CASE SqOpenAttach(p) /\ Gone(p)
    BY <2>a, <2>u, <2>g, <2>19, LeaveBasic DEF SqOpenAttach
  <2>20. CASE SqOpenAttach(p) /\ ~Gone(p)
    <3>1. SharedStep
      BY <2>a, <2>u, <2>20 DEF SqOpenAttach
    <3>2. Local(p)'
      BY <2>a, <2>l, <2>20 DEF Local, Goto, Creating, Creators, HasSegment, PC, BadArgument,
         NONE, SqOpenAttach
    <3> QED
      BY <2>a, <2>20, <3>1, <3>2, GoOnBasic DEF Goto, PC, Segments, NONE, SqOpenAttach
  <2>21. CASE SqDestroy(p) \/ ShmMakeFails(p)
    BY <2>a, <2>u, <2>g, <2>21, LeaveBasic DEF SqDestroy, ShmMakeFails
  <2>22. CASE Fault(p)
    BY <2>a, <2>u, <2>g, <2>22, LeaveBasic DEF Fault
  <2> QED
    BY <1>1, <2>1, <2>2, <2>3, <2>4, <2>5, <2>6, <2>7, <2>8, <2>9, <2>10, <2>11, <2>12, <2>13,
       <2>14, <2>15, <2>16, <2>17, <2>18, <2>19, <2>20, <2>21, <2>22 DEF Process
<1>2. CASE UNCHANGED openVars
  BY <1>2 DEF openVars, Basic, OpenTypeOK, Local, Numbered, Creating, BadArgument
<1> QED
  BY <1>1, <1>2 DEF OpenNext

-----------------------------------------------------------------------------
(* The lock *)

\* A step of p leaves the locals of the others alone, and nobody gets a lock back
\* that was gone without it.
Others(p) ==
    \A q \in Procs \ {p} : /\ pc'[q] = pc[q] /\ arg'[q] = arg[q]
                           /\ shmid'[q] = shmid[q] /\ created'[q] = created[q]

\* A process leaves what the others know to them.
LEMMA OthersStep ==
    ASSUME Basic, NEW p \in Procs, Process(p) \/ ShmMakeFails(p) \/ Fault(p)
    PROVE  Others(p) /\ (unlocked => unlocked')
<1> USE DEF segments, locals, history
<1>t. /\ pc \in [Procs -> PC] /\ arg \in [Procs -> Args \cup {Cleared}]
      /\ shmid \in [Procs -> Segments \cup {NONE}] /\ created \in [Procs -> BOOLEAN]
  BY DEF Basic, OpenTypeOK
<1>g. ASSUME Gone(p) PROVE Others(p)
  BY <1>t, <1>g DEF Gone, Goto, Others
<1>1. CASE ShmMakeFails(p) \/ Fault(p) \/ SqDestroy(p)
  BY <1>g, <1>1 DEF ShmMakeFails, Fault, SqDestroy
<1>2. CASE (\E a \in Args : SqCreate(p, a)) \/ LockFails(p) \/ ShmGet(p) \/ ShmMake(p)
  BY <1>t, <1>2 DEF SqCreate, LockFails, ShmGet, ShmMake, Goto, Others
<1>3. CASE Memset(p) \/ Store(p) \/ ReturnQueue(p) \/ SqOpen(p)
  BY <1>t, <1>3 DEF Memset, Store, ReturnQueue, SqOpen, Goto, Others
<1>4. CASE Lock(p) \/ ShmStat(p) \/ ShmRemove(p)
  <2>1. CASE Gone(p)
    BY <1>4, <1>g, <2>1 DEF Lock, ShmStat, ShmRemove
  <2>2. CASE ~Gone(p)
    BY <1>t, <1>4, <2>2 DEF Lock, ShmStat, ShmRemove, Goto, Others
  <2> QED
    BY <2>1, <2>2
<1>5. CASE ShmAttach(p) \/ Verify(p) \/ SqOpenAttach(p)
  <2>1. CASE Gone(p)
    BY <1>5, <1>g, <2>1 DEF ShmAttach, Verify, SqOpenAttach
  <2>2. CASE ~Gone(p)
    BY <1>t, <1>5, <2>2 DEF ShmAttach, Verify, SqOpenAttach, Goto, Others
  <2> QED
    BY <2>1, <2>2
<1> QED
  BY <1>1, <1>2, <1>3, <1>4, <1>5 DEF Process

\* The process that has the lock is the only creator.
LEMMA OnlyCreator ==
    ASSUME Alone, NEW p \in Procs, Creating(p)
    PROVE  lock = p /\ \A q \in Procs \ {p} : ~Creating(q)
BY DEF Alone

\* A step of the only creator: what has to be shown is about it alone.
LEMMA CreatorLocked ==
    ASSUME NEW p \in Procs, Others(p), \A q \in Procs \ {p} : ~Creating(q),
           Creating(p)' => lock' = p,
           KeySeen(p)', OwnSegment(p)', ReadyKept', RightlyRefused',
           faults' > 0 \/ \A s \in 1 .. made' :
               s \in DOMAIN ready' \/ (Creating(p)' /\ created'[p] /\ shmid'[p] = s)
    PROVE  Locked'
<1>1. \A q \in Procs \ {p} : ~Creating(q)'
  BY DEF Others, Creating
<1>2. ASSUME NEW q \in Procs \ {p} PROVE KeySeen(q)' /\ OwnSegment(q)'
  BY <1>1 DEF KeySeen, OwnSegment, Creating, Creators
<1>3. Alone'
  BY <1>1 DEF Alone
<1>4. NoneLeft'
  BY DEF NoneLeft
<1> QED
  BY <1>2, <1>3, <1>4 DEF Locked

\* A step of a process that creates nothing leaves the creator its lock.
LEMMA OutsiderLocked ==
    ASSUME Basic, Basic', Locked, NEW p \in Procs, Others(p), ~Creating(p), ~Creating(p)',
           UNCHANGED <<segments, ready>>, faults <= faults',
           lock' = lock \/ (lock = p /\ lock' = NONE),
           refused' \subseteq refused
    PROVE  Locked'
<1> USE DEF segments
<1>1. ASSUME NEW q \in Procs \ {p} PROVE (Creating(q)' <=> Creating(q)) /\ KeySeen(q)' /\ OwnSegment(q)'
  BY DEF Locked, Others, Creating, KeySeen, OwnSegment, Given
<1>2. KeySeen(p)' /\ OwnSegment(p)'
  BY DEF KeySeen, OwnSegment, Creating, Creators
<1>3. Alone'
  BY <1>1 DEF Locked, Alone
<1>4. ReadyKept'
  BY DEF Locked, ReadyKept
<1>5. NoneLeft' /\ RightlyRefused'
  <2>1. faults > 0 => faults' > 0
    <3>1. faults \in Int /\ faults' \in Int
      BY OpenAssumption DEF Basic, OpenTypeOK
    <3> QED
      BY ONLY <3>1, faults <= faults'
  <2>2. RightlyRefused'
    BY <2>1 DEF Locked, RightlyRefused
  <2>3. NoneLeft'
    BY <1>1, <2>1 DEF Locked, NoneLeft, Others
  <2> QED
    BY <2>2, <2>3
<1> QED
  BY <1>1, <1>2, <1>3, <1>4, <1>5 DEF Locked

\* A step that does not go on without the lock keeps what the lock gives.
LEMMA LockedStep ==
    ASSUME Basic, Basic', Locked, [OpenNext]_openVars, ~unlocked'
    PROVE  Locked'
<1> USE DEF segments, locals, history
<1>a. /\ pc \in [Procs -> PC] /\ arg \in [Procs -> Args \cup {Cleared}]
      /\ shmid \in [Procs -> Segments \cup {NONE}] /\ created \in [Procs -> BOOLEAN]
      /\ size \in [Segments -> Nat] /\ params \in [Segments -> Nat \X Nat]
      /\ lock \in Procs \cup {NONE} /\ NONE \notin Procs
      /\ MaxFaults \in Nat /\ faults \in 0 .. MaxFaults
      /\ DOMAIN ready \subseteq 1 .. made /\ 1 .. made \subseteq Segments
  <2>1. made \in 0 .. MaxSegments /\ MaxSegments \in Nat
    BY OpenAssumption DEF Basic, OpenTypeOK
  <2>2. 1 .. made \subseteq Segments
    BY <2>1 DEF Segments
  <2> QED
    BY <2>2, OpenAssumption DEF Basic, OpenTypeOK, Numbered
<1>m. made \in Nat /\ shm_key \in 0 .. made
  BY OpenAssumption DEF Basic, OpenTypeOK, Numbered
<1>l. Alone /\ ReadyKept /\ NoneLeft /\ RightlyRefused
  BY DEF Locked
<1>1. ASSUME NEW p \in Procs, Process(p) \/ ShmMakeFails(p) \/ Fault(p) PROVE Locked'
  <2>o. Others(p)
    BY <1>1, OthersStep
  <2>p. Local(p) /\ KeySeen(p) /\ OwnSegment(p)
    BY DEF Basic, Locked
  <2>q. Creating(p) => lock = p /\ \A q \in Procs \ {p} : ~Creating(q)
    BY <1>l, OnlyCreator
  \* Only the process that creates can have made what is not returned yet.
  <2>n. ASSUME Creating(p), faults = 0
        PROVE  \A s \in 1 .. made : s \in DOMAIN ready \/ (created[p] /\ shmid[p] = s)
    BY <1>l, <2>q, <2>n DEF NoneLeft
  <2>g. ASSUME Gone(p), UNCHANGED <<segments, faults, history>>, Creating(p) => ~created[p]
        PROVE  Locked'
    <3>1. pc'[p] = "idle" /\ ~Creating(p)'
      BY <1>a, <2>g DEF Gone, Goto, Creating, Creators
    <3>2. CASE Creating(p)
      <4>1. KeySeen(p)' /\ OwnSegment(p)'
        BY <3>1 DEF KeySeen, OwnSegment
      <4>2. ReadyKept' /\ RightlyRefused'
        BY <1>l, <2>g DEF ReadyKept, RightlyRefused
      <4>3. faults > 0 \/ \A s \in 1 .. made : s \in DOMAIN ready
        BY <1>a, <2>g, <2>n, <3>2
      <4> QED
        BY <2>g, <2>o, <2>q, <3>1, <3>2, <4>1, <4>2, <4>3, CreatorLocked
    <3>3. CASE ~Creating(p)
      BY <1>a, <2>g, <2>o, <3>1, <3>3, OutsiderLocked DEF Gone
    <3> QED
      BY <3>2, <3>3
  <2>1. ASSUME NEW a \in Args, SqCreate(p, a) PROVE Locked'
    <3>1. ~Creating(p) /\ ~Creating(p)'
      BY <1>a, <2>1 DEF SqCreate, Goto, Creating, Creators
    <3> QED
      BY <1>a, <2>1, <2>o, <3>1, OutsiderLocked DEF SqCreate
  <2>2. CASE Lock(p) /\ BadArgument(arg[p])
    BY <2>2, <2>g DEF Lock, Creating, Creators
  <2>3. CASE Lock(p) /\ ~BadArgument(arg[p])
    <3>1. \A q \in Procs : ~Creating(q)
      BY <1>a, <1>l, <2>3 DEF Lock, LockFree, Alone
    <3>2. pc'[p] = "get" /\ lock' = p
      BY <1>a, <2>3 DEF Lock, Goto
    <3>3. KeySeen(p)' /\ OwnSegment(p)'
      BY <3>2 DEF KeySeen, OwnSegment
    <3>4. ReadyKept' /\ RightlyRefused'
      BY <1>l, <2>3 DEF ReadyKept, RightlyRefused, Lock
    <3>5. faults > 0 \/ \A s \in 1 .. made : s \in DOMAIN ready
      BY <1>l, <3>1 DEF NoneLeft
    <3> QED
      BY <2>3, <2>o, <3>1, <3>2, <3>3, <3>4, <3>5, CreatorLocked DEF Lock
  <2>4. CASE LockFails(p)
    BY <2>4 DEF LockFails
  <2>5. CASE ShmGet(p)
    <3>1. Creating(p)
      BY <2>5 DEF ShmGet, Creating, Creators
    <3>2. pc'[p] = (IF shm_key = NONE THEN "make" ELSE "stat") /\ shmid'[p] = shm_key /\ ~created'[p]
      BY <1>a, <2>5, <2>p DEF ShmGet, Goto, Local
    <3>3. KeySeen(p)' /\ OwnSegment(p)'
      BY <2>5, <3>2 DEF KeySeen, OwnSegment, ShmGet
    <3>4. ReadyKept' /\ RightlyRefused'
      BY <1>l, <2>5 DEF ReadyKept, RightlyRefused, ShmGet
    <3>5. faults > 0 \/ \A s \in 1 .. made : s \in DOMAIN ready
      BY <1>a, <2>5, <2>n, <2>p, <3>1 DEF Local, ShmGet
    <3> QED
      BY <2>5, <2>o, <2>q, <3>1, <3>3, <3>4, <3>5, CreatorLocked DEF ShmGet
  <2>6. CASE ShmStat(p)
    <3>1. Creating(p) /\ ~created[p]
      BY <2>6, <2>p DEF ShmStat, Creating, Creators, Local
    <3>2. CASE Gone(p)
      BY <2>6, <2>g, <3>1, <3>2 DEF ShmStat
    <3>3. CASE ~Gone(p)
      <4>1. pc'[p] \in {"attach", "remove"} /\ UNCHANGED <<segments, lock, arg, shmid, created, faults, history>>
        BY <1>a, <2>6, <3>3 DEF ShmStat, Goto
      <4>2. KeySeen(p)' /\ OwnSegment(p)'
        BY <2>6, <2>p, <3>1, <4>1 DEF KeySeen, OwnSegment, ShmStat
      <4>3. ReadyKept' /\ RightlyRefused'
        BY <1>l, <4>1 DEF ReadyKept, RightlyRefused
      <4>4. faults > 0 \/ \A s \in 1 .. made : s \in DOMAIN ready
        BY <1>a, <2>n, <3>1
      <4> QED
        BY <2>o, <2>q, <3>1, <4>1, <4>2, <4>3, <4>4, CreatorLocked
    <3> QED
      BY <3>2, <3>3
  <2>7. CASE ShmRemove(p)
    <3>1. Creating(p) /\ ~created[p] /\ shm_key = shmid[p]
      BY <2>7, <2>p DEF ShmRemove, Creating, Creators, Local, KeySeen
    <3>2. pc'[p] \in {"make", "idle"} /\ (Creating(p)' => lock' = p) /\ shm_key' = NONE
      BY <1>a, <2>7, <2>q, <3>1 DEF ShmRemove, Goto, Gone, Creating, Creators
    <3>3. KeySeen(p)' /\ OwnSegment(p)'
      BY <3>2 DEF KeySeen, OwnSegment
    <3>4. ReadyKept' /\ RightlyRefused'
      BY <1>l, <2>7 DEF ReadyKept, RightlyRefused, ShmRemove
    <3>5. faults > 0 \/ \A s \in 1 .. made : s \in DOMAIN ready
      BY <1>a, <2>n, <3>1
    <3> QED
      BY <2>7, <2>o, <2>q, <3>1, <3>2, <3>3, <3>4, <3>5, CreatorLocked DEF ShmRemove
  <2>8. CASE ShmMake(p)
    <3>1. Creating(p) /\ ~created[p] /\ shm_key = NONE
      BY <2>8, <2>p DEF ShmMake, Creating, Creators, Local, KeySeen
    <3>2. made' = made + 1 /\ shm_key' = made' /\ UNCHANGED <<params, lock, arg, faults, history>>
      BY <2>8, <3>1 DEF ShmMake
    <3>3. pc'[p] = "attach" /\ created'[p] /\ shmid'[p] = shm_key'
      BY <1>a, <2>8 DEF ShmMake, Goto
    <3>4. shm_key' \notin DOMAIN ready
      BY <1>a, <1>m, <3>2
    <3>5. KeySeen(p)' /\ OwnSegment(p)'
      BY <3>2, <3>3, <3>4 DEF KeySeen, OwnSegment
    <3>6. ReadyKept' /\ RightlyRefused'
      BY <1>l, <3>2 DEF ReadyKept, RightlyRefused
    <3>7. faults > 0 \/ \A s \in 1 .. made : s \in DOMAIN ready
      BY <1>a, <2>n, <3>1
    <3>8. \A s \in 1 .. made' : s \in 1 .. made \/ s = made'
      BY <1>m, <3>2
    <3>9. Creating(p)' /\ lock' = p
      BY <2>q, <3>1, <3>2, <3>3 DEF Creating, Creators
    <3>10. faults' > 0 \/ \A s \in 1 .. made' :
               s \in DOMAIN ready' \/ (Creating(p)' /\ created'[p] /\ shmid'[p] = s)
      BY <3>2, <3>3, <3>7, <3>8, <3>9
    <3> QED
      BY <2>o, <2>q, <3>1, <3>5, <3>6, <3>9, <3>10, CreatorLocked
  <2>9. CASE ShmAttach(p)
    <3>1. Creating(p)
      BY <2>9 DEF ShmAttach, Creating, Creators
    <3>2. CASE ~Exists(shmid[p])
      <4>1. ~created[p]
        BY <2>9, <2>p, <3>2 DEF ShmAttach, KeySeen, Exists
      <4> QED
        BY <2>9, <2>g, <3>2, <4>1 DEF ShmAttach
    <3>3. CASE Exists(shmid[p])
      <4>1. /\ pc'[p] = (IF created[p] THEN "clear" ELSE "verify")
            /\ UNCHANGED <<segments, lock, arg, shmid, created, faults, history>>
        BY <1>a, <2>9, <3>3 DEF ShmAttach, Goto
      <4>2. KeySeen(p)' /\ OwnSegment(p)'
        BY <2>9, <2>p, <4>1 DEF KeySeen, OwnSegment, ShmAttach
      <4>3. ReadyKept' /\ RightlyRefused'
        BY <1>l, <4>1 DEF ReadyKept, RightlyRefused
      <4>4. Creating(p)'
        BY <4>1 DEF Creating, Creators
      <4>5. faults > 0 \/ \A s \in 1 .. made : s \in DOMAIN ready \/ (created[p] /\ shmid[p] = s)
        BY <1>a, <2>n, <3>1
      <4> QED
        BY <2>o, <2>q, <3>1, <4>1, <4>2, <4>3, <4>4, <4>5, CreatorLocked
    <3> QED
      BY <3>2, <3>3
  <2>10. CASE Memset(p) \/ Store(p)
    <3>1. Creating(p) /\ created[p] /\ shmid[p] \in 1 .. made /\ shmid[p] \notin DOMAIN ready
      BY <2>10, <2>p DEF Memset, Store, Creating, Creators, Local, HasSegment, OwnSegment
    <3>2. /\ UNCHANGED <<shm_key, made, size, lock, arg, shmid, created, faults, history>>
          /\ \A s \in Segments \ {shmid[p]} : params'[s] = params[s]
      BY <1>a, <2>10 DEF Memset, Store
    <3>3. pc'[p] = "store" \/ (pc'[p] = "return" /\ params'[shmid[p]] = Given(arg[p]))
      BY <1>a, <2>10, <3>1 DEF Memset, Store, Goto
    <3>4. KeySeen(p)' /\ OwnSegment(p)'
      BY <3>1, <3>2, <3>3 DEF KeySeen, OwnSegment, Given
    <3>5. ReadyKept' /\ RightlyRefused'
      BY <1>a, <1>l, <3>1, <3>2 DEF ReadyKept, RightlyRefused
    <3>6. Creating(p)'
      BY <3>3 DEF Creating, Creators
    <3>7. faults > 0 \/ \A s \in 1 .. made : s \in DOMAIN ready \/ (created[p] /\ shmid[p] = s)
      BY <1>a, <2>n, <3>1
    <3> QED
      BY <2>o, <2>q, <3>1, <3>2, <3>4, <3>5, <3>6, <3>7, CreatorLocked
  <2>11. CASE Verify(p)
    <3>1. Creating(p) /\ ~created[p] /\ shmid[p] \in 1 .. made
      BY <2>11, <2>p DEF Verify, Creating, Creators, Local, HasSegment
    <3>2. faults > 0 \/ \A s \in 1 .. made : s \in DOMAIN ready
      BY <1>a, <2>n, <3>1
    <3>3. CASE params[shmid[p]] = Given(arg[p])
      <4>1. pc'[p] = "return" /\ UNCHANGED <<segments, lock, arg, shmid, created, faults, history>>
        BY <1>a, <2>11, <3>3 DEF Verify, Goto
      <4>2. KeySeen(p)' /\ OwnSegment(p)'
        BY <3>3, <4>1 DEF KeySeen, OwnSegment, Given
      <4>3. ReadyKept' /\ RightlyRefused'
        BY <1>l, <4>1 DEF ReadyKept, RightlyRefused
      <4> QED
        BY <2>o, <2>q, <3>1, <3>2, <4>1, <4>2, <4>3, CreatorLocked
    <3>4. CASE params[shmid[p]] # Given(arg[p])
      <4>1. pc'[p] = "idle" /\ UNCHANGED <<segments, faults, ready, unlocked>>
            /\ refused' = {<<params[shmid[p]], Given(arg[p])>>}
        BY <1>a, <2>11, <3>4 DEF Verify, Goto, Gone
      <4>2. KeySeen(p)' /\ OwnSegment(p)' /\ ~Creating(p)'
        BY <4>1 DEF KeySeen, OwnSegment, Creating, Creators
      <4>3. ReadyKept'
        BY <1>l, <4>1 DEF ReadyKept
      <4>4. faults > 0 \/ params[shmid[p]] # Cleared
        BY <1>l, <3>1, <3>2 DEF ReadyKept
      <4>5. RightlyRefused'
        BY <3>4, <4>1, <4>4 DEF RightlyRefused
      <4> QED
        BY <2>o, <2>q, <3>1, <3>2, <4>1, <4>2, <4>3, <4>5, CreatorLocked
    <3> QED
      BY <3>3, <3>4
  <2>12. CASE ReturnQueue(p)
    <3>1. Creating(p) /\ arg[p] \in Args /\ ~BadArgument(arg[p])
          /\ params[shmid[p]] = Given(arg[p])
      BY <2>12, <2>p DEF ReturnQueue, Creating, Creators, Local, OwnSegment
    <3>2. pc'[p] = "created" /\ UNCHANGED <<segments, arg, shmid, created, faults, refused>>
      BY <1>a, <2>12 DEF ReturnQueue, Goto
    <3>3. KeySeen(p)' /\ OwnSegment(p)' /\ ~Creating(p)'
      BY <3>2 DEF KeySeen, OwnSegment, Creating, Creators
    <3>4. Given(arg[p]) # Cleared
      BY <3>1, GivenSize
    <3>5. ready' = [s \in DOMAIN ready \cup {shmid[p]} |->
                       IF s = shmid[p] THEN Given(arg[p]) ELSE ready[s]]
      BY <2>12 DEF ReturnQueue
    <3>6. ReadyKept'
      BY <1>l, <3>1, <3>2, <3>4, <3>5 DEF ReadyKept
    <3>7. RightlyRefused'
      BY <1>l, <3>2 DEF RightlyRefused
    <3>8. faults > 0 \/ \A s \in 1 .. made : s \in DOMAIN ready'
      BY <1>a, <2>n, <3>1, <3>5
    <3> QED
      BY <2>o, <2>q, <3>1, <3>2, <3>3, <3>6, <3>7, <3>8, CreatorLocked
  <2>13. CASE SqOpen(p)
    <3>1. ~Creating(p) /\ ~Creating(p)'
      BY <1>a, <2>13 DEF SqOpen, Goto, Creating, Creators
    <3> QED
      BY <1>a, <2>13, <2>o, <3>1, OutsiderLocked DEF SqOpen
  <2>14. CASE SqOpenAttach(p)
    <3>1. ~Creating(p)
      BY <2>14 DEF SqOpenAttach, Creating, Creators
    <3>2. CASE Gone(p)
      BY <2>14, <2>g, <3>1, <3>2 DEF SqOpenAttach
    <3>3. CASE ~Gone(p)
      <4>1. ~Creating(p)' /\ UNCHANGED <<segments, lock, faults, history>>
        BY <1>a, <2>14, <3>3 DEF SqOpenAttach, Goto, Creating, Creators
      <4> QED
        BY <1>a, <2>o, <3>1, <4>1, OutsiderLocked
    <3> QED
      BY <3>2, <3>3
  <2>15. CASE SqDestroy(p)
    BY <2>15, <2>g DEF SqDestroy, Creating, Creators
  <2>16. CASE ShmMakeFails(p)
    BY <2>16, <2>g, <2>p DEF ShmMakeFails, Local
  <2>17. CASE Fault(p)
    <3>1. pc'[p] = "idle" /\ ~Creating(p)' /\ faults' = faults + 1 /\ UNCHANGED <<segments, history>>
      BY <1>a, <2>17 DEF Fault, Gone, Goto, Creating, Creators
    <3>2. faults' > 0 /\ faults <= faults'
      BY <1>a, <3>1
    <3>3. CASE Creating(p)
      <4>1. KeySeen(p)' /\ OwnSegment(p)'
        BY <3>1 DEF KeySeen, OwnSegment
      <4>2. ReadyKept' /\ RightlyRefused'
        BY <1>l, <3>1, <3>2 DEF ReadyKept, RightlyRefused
      <4> QED
        BY <2>o, <2>q, <3>1, <3>2, <3>3, <4>1, <4>2, CreatorLocked
    <3>4. CASE ~Creating(p)
      BY <1>a, <2>17, <2>o, <3>1, <3>2, <3>4, OutsiderLocked DEF Fault, Gone
    <3> QED
      BY <3>3, <3>4
  <2> QED
    BY <1>1, <2>1, <2>2, <2>3, <2>4, <2>5, <2>6, <2>7, <2>8, <2>9, <2>10, <2>11, <2>12, <2>13,
       <2>14, <2>15, <2>16, <2>17 DEF Process
<1>2. CASE UNCHANGED openVars
  BY <1>2 DEF openVars, Locked, Alone, KeySeen, OwnSegment, Given, ReadyKept, NoneLeft,
     RightlyRefused,
             Creating
<1> QED
  BY <1>1, <1>2 DEF OpenNext

\* Every action maintains it.
LEMMA OpenInvInductive ==
    /\ OpenInit => OpenInv
    /\ OpenInv /\ [OpenNext]_openVars => OpenInv'
<1>1. ASSUME OpenInit PROVE OpenInv
  <2>1. /\ pc = [p \in Procs |-> "idle"] /\ arg = [p \in Procs |-> Cleared]
        /\ shmid = [p \in Procs |-> NONE] /\ created = [p \in Procs |-> FALSE]
        /\ shm_key = 0 /\ made = 0 /\ lock = NONE /\ faults = 0 /\ unlocked = FALSE
        /\ DOMAIN ready = {} /\ refused = {} /\ 1 .. made = {}
        /\ MaxSegments \in Nat /\ MaxFaults \in Nat
    BY <1>1, OpenAssumption DEF OpenInit, NONE
  <2>2. OpenTypeOK
    <3>1. Cleared \in Nat \X Nat
      BY DEF Cleared
    <3>2. params \in [Segments -> Nat \X Nat] /\ size \in [Segments -> Nat]
      BY <1>1, <3>1 DEF OpenInit
    <3>3. 0 \in Segments \cup {NONE} /\ 0 \in 0 .. MaxSegments /\ 0 \in 0 .. MaxFaults
      BY <2>1 DEF NONE
    <3>4. DOMAIN ready \subseteq Segments
      BY <2>1
    <3>5. /\ pc \in [Procs -> PC] /\ arg \in [Procs -> Args \cup {Cleared}]
          /\ shmid \in [Procs -> Segments \cup {NONE}] /\ created \in [Procs -> BOOLEAN]
      BY <2>1 DEF PC
    <3> QED
      BY <2>1, <3>2, <3>3, <3>4, <3>5 DEF OpenTypeOK
  <2>3. \A p \in Procs : Local(p)
    BY <2>1 DEF Local, Creating, Creators, HasSegment
  <2>4. Numbered
    BY <2>1 DEF Numbered
  <2>5. Locked
    BY <2>1 DEF Locked, Alone, KeySeen, OwnSegment, ReadyKept, NoneLeft, RightlyRefused,
               Creating, Creators
  <2> QED
    BY <2>2, <2>3, <2>4, <2>5 DEF OpenInv, Basic
<1>2. ASSUME OpenInv, [OpenNext]_openVars PROVE OpenInv'
  <2>1. Basic'
    BY <1>2, BasicStep DEF OpenInv
  <2>2. unlocked => unlocked'
    BY <1>2, OthersStep DEF OpenInv, OpenNext, openVars, history
  <2> QED
    BY <1>2, <2>1, <2>2, LockedStep DEF OpenInv
<1> QED
  BY <1>1, <1>2

\* The types, and what every process knows by where it is, whoever has the lock and
\* whatever fails.
THEOREM OpenTypeCorrect == OpenSpec => []OpenTypeOK
<1>1. OpenInv => OpenTypeOK
  BY DEF OpenInv, Basic
<1> QED
  BY <1>1, OpenInvInductive, PTL DEF OpenSpec

\* A queue that sq_create has returned is never cleared or given other dimensions
\* by a later sq_create, which refuses only where it finds another queue.
THEOREM QueueKept == OpenSpec => []QueueStays
<1>1. OpenInv => QueueStays
  BY DEF OpenInv, Locked, ReadyKept, RightlyRefused, QueueStays
<1> QED
  BY <1>1, OpenInvInductive, PTL DEF OpenSpec
=============================================================================
