----------------------------- MODULE CheckClients -----------------------------
(***************************************************************************)
(* src/example_check_alot_server2.cpp: two coroutines of coroutine.cpp     *)
(* that each ask a server, and the loop that resumes both in turn for as   *)
(* long as both live.  A call of select, getsockopt, connect and the like  *)
(* has any of its outcomes.  coroutine_close frees a coroutine that has    *)
(* not ended, and its socket stays open.                                   *)
(*                                                                         *)
(* A definition that directly precedes another with its parameters and is  *)
(* used nowhere is the other one with a mistake in it.                     *)
(***************************************************************************)
EXTENDS Integers

VARIABLES
    status,
    at,                        \* whose code runs, or the loop of test
    line,                      \* where foo is
    isConnect,
    sockets,                   \* clients whose socket is open
    leaked,                    \* clients that returned without closing it
    closed                     \* coroutine_close was called

vars == <<status, at, line, isConnect, sockets, leaked, closed>>

co1 == 1
co2 == 2
Clients == {co1, co2}
Loop == 0

\* A client has a status of the scheduler's, and foo is at one of its lines.
TypeOK ==
    /\ status \in [Clients -> {"READY", "RUNNING", "SUSPEND", "DEAD"}]
    /\ at \in Clients \cup {Loop}
    /\ line \in [Clients -> {"start", "connecting", "connected", "reading", "returned"}]
    /\ isConnect \in [Clients -> BOOLEAN]
    /\ sockets \subseteq Clients /\ leaked \subseteq Clients /\ closed \in BOOLEAN

Init ==
    /\ status = [c \in Clients |-> "READY"] /\ at = Loop
    /\ line = [c \in Clients |-> "start"] /\ isConnect = [c \in Clients |-> FALSE]
    /\ sockets = {} /\ leaked = {} /\ closed = FALSE

-----------------------------------------------------------------------------
(* The loop                                                                *)

BothLive == \A c \in Clients : status[c] # "DEAD"

Resume ==
    /\ at = Loop /\ ~closed /\ BothLive
    /\ at' = co1 /\ status' = [status EXCEPT ![co1] = "RUNNING"]
    /\ UNCHANGED <<line, isConnect, sockets, leaked, closed>>

Close ==
    /\ at = Loop /\ ~closed /\ ~BothLive
    /\ closed' = TRUE
    /\ UNCHANGED <<status, at, line, isConnect, sockets, leaked>>

\* A client gives control back: the first one's turn is followed by the second's.
Leaves(c, s) ==
    IF c = co1
    THEN at' = co2 /\ status' = [status EXCEPT ![co1] = s, ![co2] = "RUNNING"]
    ELSE at' = Loop /\ status' = [status EXCEPT ![co2] = s]

-----------------------------------------------------------------------------
(* foo                                                                     *)

Stays == UNCHANGED <<at, status, closed>>
Go(c, l) == line' = [line EXCEPT ![c] = l]

Begin(c) ==
    /\ at = c /\ line[c] = "start"
    /\ \/ Go(c, "returned") /\ leaked' = leaked \cup {c} /\ UNCHANGED sockets
       \/ Go(c, "returned") /\ UNCHANGED <<sockets, leaked>>
       \/ Go(c, "connecting") /\ sockets' = sockets \cup {c} /\ UNCHANGED leaked
    /\ Stays /\ UNCHANGED isConnect

NotReady(c) ==
    /\ at = c /\ line[c] \in {"connecting", "reading"}
    /\ Leaves(c, "SUSPEND")
    /\ UNCHANGED <<line, isConnect, sockets, leaked, closed>>

Ready(c) ==
    /\ at = c /\ line[c] = "connecting"
    /\ Go(c, "connected")
    /\ \E ok \in BOOLEAN : isConnect' = [isConnect EXCEPT ![c] = ok]
    /\ Stays /\ UNCHANGED <<sockets, leaked>>

\* close(sock)
ClosedNot(c) == sockets
Closed(c) == sockets \ {c}

Request(c) ==
    /\ at = c /\ line[c] = "connected"
    /\ IF isConnect[c] THEN Go(c, "reading") /\ UNCHANGED sockets
       ELSE Go(c, "returned") /\ sockets' = Closed(c)
    /\ Stays /\ UNCHANGED <<isConnect, leaked>>

Answer(c) ==
    /\ at = c /\ line[c] = "reading"
    /\ Go(c, "returned") /\ sockets' = Closed(c)
    /\ Stays /\ UNCHANGED <<isConnect, leaked>>

Return(c) ==
    /\ at = c /\ line[c] = "returned"
    /\ Leaves(c, "DEAD")
    /\ UNCHANGED <<line, isConnect, sockets, leaked, closed>>

Next ==
    \/ Resume \/ Close
    \/ \E c \in Clients : \/ Begin(c) \/ NotReady(c) \/ Ready(c)
                          \/ Request(c) \/ Answer(c) \/ Return(c)

-----------------------------------------------------------------------------

\* One client at most is given up unfinished, the scheduler's status of each is that
\* of its function, and in the end the open sockets are those of a client given up
\* and of those whose check failed before it began.
ClientsChecked ==
    /\ \A c \in Clients : (status[c] = "DEAD") => (line[c] = "returned")
    /\ \A c \in Clients : (at = c) <=> (status[c] = "RUNNING")
    /\ closed => /\ \E c \in Clients : line[c] = "returned"
                 /\ sockets = { c \in Clients : status[c] # "DEAD" }
=============================================================================
