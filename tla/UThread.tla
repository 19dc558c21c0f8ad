------------------------------- MODULE UThread -------------------------------
(***************************************************************************)
(* src/example_test.cpp: coroutines with a stack of their own, and the     *)
(* check of a server, checkServer, that they run.  Only the main program   *)
(* creates and resumes; at says whose code runs.  A call of select,        *)
(* getsockopt, connect and the like has any of its outcomes.               *)
(*                                                                         *)
(* coroutine_resume of a suspended coroutine sets neither its state nor    *)
(* running_coroutine, so that it can yield no more: a later                *)
(* coroutine_yield returns at once and the loop around it polls.  The loop *)
(* that waits for the connection goes on when there is one.                *)
(*                                                                         *)
(* A definition that directly precedes another with its parameters and is  *)
(* used nowhere is the other one with a mistake in it.                     *)
(***************************************************************************)
EXTENDS Integers, FiniteSets

CONSTANT MAX_COROUTINE_SIZE    \* 1024 in the code, where nobody looks at it

VARIABLES
    state, running_coroutine, max_index,
    at,                        \* whose code runs: a coroutine's or Main
    line,                      \* where checkServer is
    isConnect,
    sockets,                   \* coroutines whose socket is open
    leaked,                    \* sockets that nobody will close
    yields                     \* how often a coroutine gave control back

uthreadVars == <<state, running_coroutine, max_index, at, line, isConnect, sockets, leaked, yields>>

ASSUME UthreadAssumption == MAX_COROUTINE_SIZE \in Nat

Ids == 0 .. MAX_COROUTINE_SIZE - 1
Main == -1
MaxLeaked == 2                 \* bound: create is not called with as many

\* A coroutine is free, runs or is suspended, and checkServer is at one of its lines.
UthreadTypeOK ==
    /\ state \in [Ids -> {"FREE", "RUNNABLE", "SUSPEND"}]
    /\ running_coroutine \in Ids \cup {-1}
    /\ max_index \in 0 .. MAX_COROUTINE_SIZE
    /\ at \in Ids \cup {Main}
    /\ line \in [Ids -> {"none", "start", "connecting", "connected", "reading", "returned"}]
    /\ isConnect \in [Ids -> BOOLEAN]
    /\ sockets \subseteq Ids /\ leaked \in 0 .. MaxLeaked
    /\ yields \in [Ids -> 0 .. 2]

UthreadInit ==
    /\ state = [id \in Ids |-> "FREE"] /\ running_coroutine = -1 /\ max_index = 0
    /\ at = Main
    /\ line = [id \in Ids |-> "none"] /\ isConnect = [id \in Ids |-> FALSE]
    /\ sockets = {} /\ leaked = 0 /\ yields = [id \in Ids |-> 0]

-----------------------------------------------------------------------------
(* The scheduler                                                           *)

\* The first free place below max_index, or the one behind it; it runs at once.
coroutine_create ==
    LET free == { id \in Ids : id < max_index /\ state[id] = "FREE" }
        id   == IF free = {} THEN max_index ELSE CHOOSE i \in free : \A j \in free : i <= j
    IN  /\ at = Main /\ leaked < MaxLeaked
        /\ id \in Ids
        /\ max_index' = IF id = max_index THEN max_index + 1 ELSE max_index
        /\ state' = [state EXCEPT ![id] = "RUNNABLE"]
        /\ running_coroutine' = id /\ at' = id
        /\ line' = [line EXCEPT ![id] = "start"]
        /\ isConnect' = [isConnect EXCEPT ![id] = FALSE]
        /\ yields' = [yields EXCEPT ![id] = 0]
        /\ UNCHANGED <<sockets, leaked>>

\* With none marked as running there is no yield.
coroutine_yield(id) ==
    IF running_coroutine = -1
    THEN UNCHANGED <<state, running_coroutine, at, yields>>
    ELSE /\ state' = [state EXCEPT ![running_coroutine] = "SUSPEND"]
         /\ yields' = [yields EXCEPT ![running_coroutine] = @ + 1]
         /\ running_coroutine' = -1 /\ at' = Main

coroutine_resume(id) ==
    /\ at = Main /\ id < max_index /\ state[id] = "SUSPEND"
    /\ at' = id
    /\ UNCHANGED <<state, running_coroutine, max_index, line, isConnect, sockets, leaked, yields>>

\* coroute_body after the coroutine's function has returned
coroute_body(id) ==
    /\ at = id /\ line[id] = "returned"
    /\ line' = [line EXCEPT ![id] = "none"]
    /\ state' = [state EXCEPT ![id] = "FREE"] /\ running_coroutine' = -1 /\ at' = Main
    /\ UNCHANGED <<max_index, isConnect, sockets, leaked, yields>>

finishedButLast ==
    running_coroutine = -1 /\ \A id \in Ids : id < max_index - 1 => state[id] = "FREE"
schedule_finished ==
    running_coroutine = -1 /\ \A id \in Ids : id < max_index => state[id] = "FREE"

-----------------------------------------------------------------------------
(* checkServer                                                             *)

Stays == UNCHANGED <<state, running_coroutine, max_index, at, yields>>
Go(id, l) == line' = [line EXCEPT ![id] = l]
CloseSocket(id) == Go(id, "returned") /\ sockets' = sockets \ {id}

\* It opens a socket, and returns without closing it when inet_aton or fcntl
\* fails; the connection begins, or is there or refused at once.
Begin(id) ==
    /\ at = id /\ line[id] = "start"
    /\ \/ Go(id, "returned") /\ leaked' = leaked + 1 /\ UNCHANGED sockets
       \/ Go(id, "returned") /\ UNCHANGED <<sockets, leaked>>
       \/ Go(id, "connecting") /\ sockets' = sockets \cup {id} /\ UNCHANGED leaked
    /\ Stays /\ UNCHANGED isConnect

\* select: the socket is not ready
NotReady(id) ==
    /\ at = id /\ line[id] \in {"connecting", "reading"}
    /\ coroutine_yield(id)
    /\ UNCHANGED <<max_index, line, isConnect, sockets, leaked>>

\* It is ready: connected, and once more around the loop, or an error
Ready(id) ==
    /\ at = id /\ line[id] = "connecting"
    /\ \/ isConnect' = [isConnect EXCEPT ![id] = TRUE] /\ UNCHANGED line
       \/ Go(id, "connected") /\ UNCHANGED isConnect
    /\ Stays /\ UNCHANGED <<sockets, leaked>>

\* With a connection the request is written; without, all is over.
Request(id) ==
    /\ at = id /\ line[id] = "connected"
    /\ IF isConnect[id] THEN Go(id, "reading") /\ UNCHANGED sockets ELSE CloseSocket(id)
    /\ Stays /\ UNCHANGED <<isConnect, leaked>>

\* select fails or the answer is there
Answer(id) ==
    /\ at = id /\ line[id] = "reading"
    /\ CloseSocket(id)
    /\ Stays /\ UNCHANGED <<isConnect, leaked>>

UthreadNext ==
    \/ coroutine_create
    \/ \E id \in Ids : \/ coroutine_resume(id) \/ coroute_body(id)
                       \/ Begin(id) \/ NotReady(id) \/ Ready(id) \/ Request(id) \/ Answer(id)

UthreadSpec == UthreadInit /\ [][UthreadNext]_uthreadVars

-----------------------------------------------------------------------------

\* While the main program runs, schedule_finished tells whether every function has
\* returned, the rest are suspended, and their sockets are the open ones.
\* No coroutine gives control back twice before it ends, and none that was resumed.
Scheduled ==
    /\ (at = Main) =>
          /\ schedule_finished <=> (\A id \in Ids : line[id] = "none")
          /\ \A id \in Ids : (state[id] = "SUSPEND") <=> (line[id] # "none")
          /\ sockets = { id \in Ids : line[id] # "none" }
    /\ \A id \in Ids : (at = id) => ((running_coroutine = id) <=> (yields[id] = 0))
    /\ \A id \in Ids : yields[id] <= 1
=============================================================================
