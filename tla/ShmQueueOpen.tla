---------------------------- MODULE ShmQueueOpen ----------------------------
(***************************************************************************)
(* Creation and attachment of the shared-memory queue: sq_create, sq_open  *)
(* and sq_destroy of shmqueue/shm_queue.c, one action per system call and  *)
(* per access to the segment.  A creator holds the lock file for the whole *)
(* call, unless the file cannot be opened or locked, which it ignores; a   *)
(* process that opens does not.                                            *)
(*                                                                         *)
(* A segment is named by the number under which the kernel made it.  One   *)
(* that was removed lives as long as somebody is attached to it.           *)
(*                                                                         *)
(* A definition that directly precedes another with its parameters and is  *)
(* used nowhere is the other one with a mistake in it, which the           *)
(* properties must notice.                                                 *)
(***************************************************************************)
EXTENDS Integers, FiniteSets

CONSTANTS
    Procs,
    Args,                  \* <<ele_size, ele_count>>, as given to sq_create
    RESERVE_BLOCK_COUNT,
    MaxSegments,           \* bound: segments made
    MaxFaults              \* bound: system calls that fail, processes that die

NONE == 0

\* A process is not NONE, and the arguments are integers of any sign.
ASSUME OpenAssumption ==
    /\ NONE \notin Procs
    /\ Args \subseteq Int \X Int
    /\ RESERVE_BLOCK_COUNT \in Nat
    /\ MaxSegments \in Nat /\ MaxFaults \in Nat

Segments == 1 .. MaxSegments
Cleared == <<0, 0>>        \* ele_size and ele_count of a segment full of zeros

VARIABLES
    shm_key,               \* the segment that it names, or NONE
    made,                  \* how many there have been
    size, params,          \* of each segment; params are in the segment
    lock,                  \* who holds the lock file, or NONE
    pc, arg, shmid, created,   \* where a process is, and its locals
    faults,
    ready,                 \* history: a segment's parameters, once a sq_create
                           \* has returned it
    refused,               \* history: <<parameters found, parameters asked for>>
                           \* where they made the last sq_create return NULL
    unlocked               \* history: a creator went on without the lock

segments == <<shm_key, made, size, params>>
locals   == <<pc, arg, shmid, created>>
history  == <<ready, refused, unlocked>>
openVars == <<segments, lock, locals, faults, history>>

PC == {"idle", "lock", "get", "stat", "remove", "make", "attach", "clear",
       "store", "verify", "return", "created", "openget", "openattach", "opened"}

Attached(p) == pc[p] \in {"clear", "store", "verify", "return", "created", "opened"}
Exists(s)   == s = shm_key \/ \E p \in Procs : Attached(p) /\ shmid[p] = s

MB4  == 4194304
HEAD == 804 + MB4          \* sizeof(struct sq_head_t)
NODE_HEAD == 16

\* What ele_size and ele_count become in the segment
Given(a) == <<((a[1] + 7) \div 8) * 8, a[2]>>

\* The header and ele_count + 1 nodes, up to a boundary of 4 MB
AllocateSize(a) ==
    LET bytes == HEAD + (NODE_HEAD + Given(a)[1]) * (a[2] + 1)
    IN  ((bytes + MB4 - 1) \div MB4) * MB4

BadArgument(a) == a[1] <= 0 \/ a[2] <= RESERVE_BLOCK_COUNT

OpenInit ==
    /\ shm_key = NONE /\ made = 0
    /\ size = [s \in Segments |-> 0] /\ params = [s \in Segments |-> Cleared]
    /\ lock = NONE
    /\ pc = [p \in Procs |-> "idle"]
    /\ arg = [p \in Procs |-> Cleared] /\ shmid = [p \in Procs |-> NONE]
    /\ created = [p \in Procs |-> FALSE]
    /\ faults = 0
    /\ ready = [s \in {} |-> Cleared] /\ refused = {} /\ unlocked = FALSE

Goto(p, l) == pc' = [pc EXCEPT ![p] = l]

\* The call returns NULL, or the process dies: its locals are gone, and so is
\* the lock if it has it
Gone(p) ==
    /\ Goto(p, "idle")
    /\ arg' = [arg EXCEPT ![p] = Cleared] /\ shmid' = [shmid EXCEPT ![p] = NONE]
    /\ created' = [created EXCEPT ![p] = FALSE]
    /\ lock' = IF lock = p THEN NONE ELSE lock

-----------------------------------------------------------------------------
(* sq_create *)

SqCreate(p, a) ==
    /\ pc[p] = "idle"
    /\ Goto(p, "lock") /\ arg' = [arg EXCEPT ![p] = a]
    /\ refused' = {}
    /\ UNCHANGED <<segments, lock, shmid, created, faults, ready, unlocked>>

\* flock(*fd, LOCK_EX) lets a process through
Unlocked == TRUE
LockFree == lock = NONE

\* A bad argument gives the lock back at once.
Lock(p) ==
    /\ pc[p] = "lock" /\ LockFree
    /\ IF BadArgument(arg[p])
       THEN Gone(p)
       ELSE Goto(p, "get") /\ lock' = p /\ UNCHANGED <<arg, shmid, created>>
    /\ UNCHANGED <<segments, faults, history>>

\* The lock file cannot be opened, or not locked: "if failed, printf and ignore".
LockFails(p) ==
    /\ pc[p] = "lock" /\ faults < MaxFaults /\ ~BadArgument(arg[p])
    /\ faults' = faults + 1 /\ unlocked' = TRUE
    /\ Goto(p, "get")
    /\ UNCHANGED <<segments, lock, arg, shmid, created, ready, refused>>

\* shmget(iKey, 0, 0): is there a segment?
ShmGet(p) ==
    /\ pc[p] = "get"
    /\ Goto(p, IF shm_key = NONE THEN "make" ELSE "stat")
    /\ shmid' = [shmid EXCEPT ![p] = shm_key]
    /\ UNCHANGED <<segments, lock, arg, created, faults, history>>

\* shmctl(IPC_STAT): is it as large as it would be made?
ShmStat(p) ==
    /\ pc[p] = "stat"
    /\ IF ~Exists(shmid[p])
       THEN Gone(p)
       ELSE /\ Goto(p, IF size[shmid[p]] = AllocateSize(arg[p]) THEN "attach" ELSE "remove")
            /\ UNCHANGED <<lock, arg, shmid, created>>
    /\ UNCHANGED <<segments, faults, history>>

\* shmctl(IPC_RMID)
ShmRemove(p) ==
    /\ pc[p] = "remove"
    /\ shm_key' = IF shm_key = shmid[p] THEN NONE ELSE shm_key
    /\ IF Exists(shmid[p])
       THEN Goto(p, "make") /\ UNCHANGED <<lock, arg, shmid, created>>
       ELSE Gone(p)
    /\ UNCHANGED <<made, size, params, faults, history>>

\* shmget(iKey, iSize, 0666|IPC_CREAT): a new one, full of zeros, or one that
\* somebody made since; created is 1 in both cases
ShmMake(p) ==
    /\ pc[p] = "make"
    /\ \/ /\ shm_key = NONE /\ made < MaxSegments
          /\ made' = made + 1 /\ shm_key' = made'
          /\ size' = [size EXCEPT ![shm_key'] = AllocateSize(arg[p])]
       \/ /\ shm_key # NONE /\ size[shm_key] >= AllocateSize(arg[p])
          /\ UNCHANGED <<shm_key, made, size>>
    /\ shmid' = [shmid EXCEPT ![p] = shm_key']
    /\ created' = [created EXCEPT ![p] = TRUE]
    /\ Goto(p, "attach")
    /\ UNCHANGED <<params, lock, arg, faults, history>>

\* shmat, by a creator
ShmAttach(p) ==
    /\ pc[p] = "attach"
    /\ IF Exists(shmid[p])
       THEN /\ Goto(p, IF created[p] THEN "clear" ELSE "verify")
            /\ UNCHANGED <<lock, arg, shmid, created>>
       ELSE Gone(p)
    /\ UNCHANGED <<segments, faults, history>>

\* memset
Memset(p) ==
    /\ pc[p] = "clear"
    /\ params' = [params EXCEPT ![shmid[p]] = Cleared]
    /\ Goto(p, "store")
    /\ UNCHANGED <<shm_key, made, size, lock, arg, shmid, created, faults, history>>

\* The stores of ele_size and ele_count.  A process that dies between the two
\* leaves what nobody asks for, like one before them.
Store(p) ==
    /\ pc[p] = "store"
    /\ params' = [params EXCEPT ![shmid[p]] = Given(arg[p])]
    /\ Goto(p, "return")
    /\ UNCHANGED <<shm_key, made, size, lock, arg, shmid, created, faults, history>>

\* A segment that was there must have the parameters asked for.
Verify(p) ==
    /\ pc[p] = "verify"
    /\ LET found == params[shmid[p]]
       IN  IF found = Given(arg[p])
           THEN Goto(p, "return") /\ UNCHANGED <<lock, arg, shmid, created, refused>>
           ELSE Gone(p) /\ refused' = {<<found, Given(arg[p])>>}
    /\ UNCHANGED <<segments, faults, ready, unlocked>>

\* Unlock, and return the queue
ReturnQueue(p) ==
    /\ pc[p] = "return"
    /\ lock' = IF lock = p THEN NONE ELSE lock
    /\ Goto(p, "created")
    /\ ready' = [s \in DOMAIN ready \cup {shmid[p]} |->
                    IF s = shmid[p] THEN Given(arg[p]) ELSE ready[s]]
    /\ UNCHANGED <<segments, arg, shmid, created, faults, refused, unlocked>>

-----------------------------------------------------------------------------
(* sq_open, sq_destroy, and what goes wrong *)

\* shmget(iKey, 0, 0)
SqOpen(p) ==
    /\ pc[p] = "idle" /\ shm_key # NONE
    /\ Goto(p, "openattach")
    /\ shmid' = [shmid EXCEPT ![p] = shm_key]
    /\ UNCHANGED <<segments, lock, arg, created, faults, history>>

\* shmat: a segment removed meanwhile may be gone
SqOpenAttach(p) ==
    /\ pc[p] = "openattach"
    /\ IF Exists(shmid[p])
       THEN Goto(p, "opened") /\ UNCHANGED <<lock, arg, shmid, created>>
       ELSE Gone(p)
    /\ UNCHANGED <<segments, faults, history>>

SqDestroy(p) ==
    /\ pc[p] \in {"created", "opened"}
    /\ Gone(p)
    /\ UNCHANGED <<segments, faults, history>>

\* The process dies, or calloc, shmget, shmctl or shmat returns an error: the
\* call returns NULL.
Fault(p) ==
    /\ pc[p] # "idle" /\ faults < MaxFaults
    /\ faults' = faults + 1
    /\ Gone(p)
    /\ UNCHANGED <<segments, history>>

Process(p) ==
    \/ \E a \in Args : SqCreate(p, a)
    \/ Lock(p) \/ LockFails(p) \/ ShmGet(p) \/ ShmStat(p) \/ ShmRemove(p) \/ ShmMake(p)
    \/ ShmAttach(p) \/ Memset(p) \/ Store(p) \/ Verify(p) \/ ReturnQueue(p)
    \/ SqOpen(p) \/ SqOpenAttach(p) \/ SqDestroy(p)

\* The kernel has no room for another segment, or somebody has made a smaller one:
\* shmget fails.
ShmMakeFails(p) ==
    /\ pc[p] = "make"
    /\ IF shm_key = NONE THEN made = MaxSegments ELSE size[shm_key] < AllocateSize(arg[p])
    /\ Gone(p)
    /\ UNCHANGED <<segments, faults, history>>

OpenNext == \E p \in Procs : Process(p) \/ ShmMakeFails(p) \/ Fault(p)
OpenSpec == OpenInit /\ [][OpenNext]_openVars

-----------------------------------------------------------------------------
\* A process is at a line of a call, and segments are numbered in the order of their making.
OpenTypeOK ==
    /\ shm_key \in Segments \cup {NONE} /\ made \in 0 .. MaxSegments
    /\ size \in [Segments -> Nat] /\ params \in [Segments -> Nat \X Nat]
    /\ lock \in Procs \cup {NONE}
    /\ pc \in [Procs -> PC] /\ arg \in [Procs -> Args \cup {Cleared}]
    /\ shmid \in [Procs -> Segments \cup {NONE}] /\ created \in [Procs -> BOOLEAN]
    /\ faults \in 0 .. MaxFaults /\ unlocked \in BOOLEAN
    /\ DOMAIN ready \subseteq Segments

\* A queue that sq_create has returned is never cleared, nor given other
\* dimensions, by a later sq_create; and sq_create refuses its parameters only
\* where it finds those of another queue, unless a creator has died or failed
\* between making the segment and storing them, which nothing repairs.  All this
\* needs the lock, which a creator that cannot have it does without.
QueueStays ==
    unlocked \/
        /\ \A s \in DOMAIN ready : params[s] = ready[s]
        /\ faults > 0 \/ \A r \in refused : r[1] # r[2] /\ r[1] # Cleared
=============================================================================
