----------------------------- MODULE Coroutine -----------------------------
(***************************************************************************)
(* The coroutine scheduler of coroutine.cpp: a table of coroutines that    *)
(* grows, and one stack on which all of them run.  A coroutine that yields *)
(* has what it left on the stack copied to a buffer of its own, and copied *)
(* back when it is resumed.                                                *)
(*                                                                         *)
(* The stack is a number of frames, counted from its base; what is in a    *)
(* frame is <<c, x>>: its owner, and the value of its locals.  The first   *)
(* frame of a coroutine is mainfunc's, whose locals are its C and id.      *)
(*                                                                         *)
(* A definition that directly precedes another with its parameters and is  *)
(* used nowhere is the other one with a mistake in it, which the           *)
(* properties must notice.                                                 *)
(***************************************************************************)
EXTENDS Integers, Sequences, FiniteSets

CONSTANTS
    DEFAULT_COROUTINE,
    STACK_SIZE,        \* in frames
    Locals,            \* values of the locals of a coroutine's functions
    MaxLive            \* bound: coroutines that exist at a time

\* The table and the stack are not empty.
ASSUME CoroutineAssumption ==
    /\ DEFAULT_COROUTINE \in Nat \ {0} /\ STACK_SIZE \in Nat \ {0}
    /\ MaxLive \in Nat

NULL == 0
Coroutines == 1 .. MaxLive
Contents == (Coroutines \cup {NULL}) \X (Nat \cup Locals)

VARIABLES
    co, nco, running,  \* the schedule; its cap is the length of co
    stack,             \* its stack
    heap,              \* struct coroutine: the coroutines that are allocated
    current, sp,       \* who is executing (NULL: the caller of the scheduler),
                       \* and how many frames it has on the stack
    opened,            \* whether there is a schedule
    frames             \* history: what a coroutine has on its stack

vars == <<co, nco, running, stack, heap, current, sp, opened, frames>>

cap == Cardinality(DOMAIN co)
Status == {"READY", "RUNNING", "SUSPEND"}
Empty == [status |-> "READY", size |-> 0, sp |-> 0, stack |-> << >>]

\* coroutine_open; the stack is not initialized
OpenTable == [id \in 0 .. DEFAULT_COROUTINE - 1 |-> NULL]
Init ==
    /\ co = OpenTable /\ nco = 0 /\ running = -1
    /\ stack = [d \in 1 .. STACK_SIZE |-> <<NULL, 0>>]
    /\ heap = << >>
    /\ current = NULL /\ sp = 0 /\ opened = TRUE /\ frames = << >>

Without(f, c) == [x \in DOMAIN f \ {c} |-> f[x]]
With(f, c, y) == [x \in DOMAIN f \cup {c} |-> IF x = c THEN y ELSE f[x]]

-----------------------------------------------------------------------------
(* coroutine_new, by a coroutine or by the caller of the scheduler *)

\* The first empty place from nco on, round the table
Place == LET At(i) == (i + nco) % cap
         IN  At(CHOOSE i \in 0 .. cap - 1 :
                    co[At(i)] = NULL /\ \A j \in 0 .. i - 1 : co[At(j)] # NULL)

GrownAnew(c) == [id \in 0 .. 2 * cap - 1 |-> IF id = 0 THEN c ELSE NULL]
Grown(c) ==
    [id \in 0 .. 2 * cap - 1 |-> IF id < cap THEN co[id] ELSE IF id = cap THEN c ELSE NULL]

New(c) ==
    /\ opened /\ c \notin DOMAIN heap
    /\ heap' = With(heap, c, Empty) /\ frames' = With(frames, c, << >>)
    /\ co' = IF nco >= cap THEN Grown(c) ELSE [co EXCEPT ![Place] = c]
    /\ nco' = nco + 1
    /\ UNCHANGED <<running, stack, current, sp, opened>>

-----------------------------------------------------------------------------
(* coroutine_resume, by the caller of the scheduler: inside a coroutine it  *)
(* stops the program, as does an id that is not in the table.  The id of an *)
(* empty place changes nothing.                                             *)

Running(C) == [C EXCEPT !.status = "RUNNING"]

Switch(id) ==
    /\ opened /\ running = -1 /\ id \in DOMAIN co /\ co[id] # NULL
    /\ running' = id /\ current' = co[id]
    /\ UNCHANGED <<co, nco, opened>>

\* A coroutine that runs for the first time enters mainfunc.
ResumeReady(id) ==
    /\ Switch(id) /\ heap[co[id]].status = "READY"
    /\ heap' = [heap EXCEPT ![co[id]] = Running(@)]
    /\ sp' = 1 /\ stack' = [stack EXCEPT ![1] = <<co[id], id>>]
    /\ frames' = [frames EXCEPT ![co[id]] = <<stack'[1]>>]

\* The saved bytes begin with the lowest address: with the last frame.
SavedAt(n, j) == n + 1 - j

RestoredCap(C) ==
    LET n == Len(C.stack)
    IN  [d \in 1 .. STACK_SIZE |-> IF d <= n THEN C.stack[SavedAt(n, d)] ELSE stack[d]]
Restored(C) ==
    [d \in 1 .. STACK_SIZE |-> IF d <= C.size THEN C.stack[SavedAt(C.size, d)] ELSE stack[d]]

ResumeSuspended(id) ==
    /\ Switch(id) /\ heap[co[id]].status = "SUSPEND"
    /\ heap' = [heap EXCEPT ![co[id]] = Running(@)]
    /\ sp' = heap[co[id]].sp
    /\ stack' = Restored(heap[co[id]])
    /\ UNCHANGED frames

-----------------------------------------------------------------------------
(* What a coroutine does *)

\* It calls a function, or returns from one.
Call(x) ==
    /\ current # NULL /\ sp < STACK_SIZE
    /\ sp' = sp + 1 /\ stack' = [stack EXCEPT ![sp + 1] = <<current, x>>]
    /\ frames' = [frames EXCEPT ![current] = Append(@, <<current, x>>)]
    /\ UNCHANGED <<co, nco, running, heap, current, opened>>

Return ==
    /\ current # NULL /\ sp > 1 /\ sp' = sp - 1
    /\ frames' = [frames EXCEPT ![current] = SubSeq(@, 1, sp - 1)]
    /\ UNCHANGED <<co, nco, running, stack, heap, current, opened>>

\* _save_stack: a larger buffer when this one is too small; bytes of an earlier
\* save stay behind the end of a smaller one.
Saved(C) ==
    LET n == IF Len(C.stack) < sp THEN sp ELSE Len(C.stack)
    IN  [C EXCEPT !.size = sp,
                  !.stack = [j \in 1 .. n |-> IF j <= sp THEN stack[SavedAt(sp, j)] ELSE C.stack[j]]]

\* coroutine_yield; swapcontext keeps the stack pointer
Yield ==
    /\ current # NULL /\ running >= 0
    /\ heap' = [heap EXCEPT ![co[running]] =
                   [Saved(@) EXCEPT !.status = "SUSPEND", !.sp = sp]]
    /\ running' = -1 /\ current' = NULL /\ sp' = 0
    /\ UNCHANGED <<co, nco, stack, opened, frames>>

\* The end of mainfunc, with the C and id that are on its stack
EmptiedNot(id) == co
Emptied(id)    == [co EXCEPT ![id] = NULL]
TwoLess == nco - 2
OneLess == nco - 1

End ==
    /\ current # NULL /\ sp = 1
    /\ LET C == stack[1][1]
           id == stack[1][2]
       IN  /\ heap' = Without(heap, C) /\ frames' = Without(frames, C)
           /\ co' = Emptied(id)
    /\ nco' = OneLess /\ running' = -1
    /\ current' = NULL /\ sp' = 0
    /\ UNCHANGED <<stack, opened>>

-----------------------------------------------------------------------------

\* coroutine_close frees the coroutines in the table.
Close ==
    /\ opened /\ current = NULL /\ opened' = FALSE
    /\ LET Left == DOMAIN heap \ {co[id] : id \in DOMAIN co}
       IN  /\ heap' = [c \in Left |-> heap[c]] /\ frames' = [c \in Left |-> frames[c]]
    /\ UNCHANGED <<co, nco, running, stack, current, sp>>

Open ==
    /\ ~opened /\ opened' = TRUE
    /\ co' = OpenTable /\ nco' = 0 /\ running' = -1
    /\ UNCHANGED <<stack, heap, current, sp, frames>>

Next ==
    \/ \E c \in Coroutines : New(c)
    \/ \E id \in DOMAIN co : ResumeReady(id) \/ ResumeSuspended(id)
    \/ (\E x \in Locals : Call(x)) \/ Return \/ Yield \/ End
    \/ Close \/ Open

Spec == Init /\ [][Next]_vars

-----------------------------------------------------------------------------
(* Properties *)

TypeOK ==
    /\ nco \in Nat /\ running \in DOMAIN co \cup {-1}
    /\ co \in [0 .. cap - 1 -> Coroutines \cup {NULL}]
    /\ stack \in [1 .. STACK_SIZE -> Contents]
    /\ DOMAIN heap \subseteq Coroutines /\ DOMAIN frames = DOMAIN heap
    /\ \A c \in DOMAIN heap :
          /\ heap[c].status \in Status
          /\ heap[c].size \in 0 .. STACK_SIZE /\ heap[c].sp \in 0 .. STACK_SIZE
          /\ heap[c].stack \in Seq(Contents) /\ heap[c].size <= Len(heap[c].stack)
    /\ current \in DOMAIN heap \cup {NULL} /\ sp \in 0 .. STACK_SIZE
    /\ opened \in BOOLEAN

\* A coroutine finds its locals as it left them, whatever the other coroutines
\* have put on the stack since: mainfunc's too, which say what to free.
StackKept == current # NULL =>
    /\ sp = Len(frames[current])
    /\ \A d \in 1 .. sp : stack[d] = frames[current][d]

\* nco counts the coroutines in the table: where it is below cap there is a place
\* for another, and coroutine_new does not reach its assert(0).  Each coroutine
\* has one place, and once the schedule is closed none is left over.
TableCounts ==
    IF opened
    THEN /\ nco = Cardinality({id \in DOMAIN co : co[id] # NULL})
         /\ \A c \in DOMAIN heap : Cardinality({id \in DOMAIN co : co[id] = c}) = 1
    ELSE DOMAIN heap = {}

\* running says who runs, and nobody else has the status of one who does:
\* coroutine_resume does not reach its assert(0).
RunningRuns ==
    /\ running = -1 <=> current = NULL
    /\ opened /\ running # -1 => co[running] = current
    /\ \A c \in DOMAIN heap : heap[c].status = "RUNNING" <=> c = current

\* The schedule's own account of its coroutines, kept for coroutine_new and
\* coroutine_resume, agrees with the coroutines.
ScheduleAgrees == TableCounts /\ RunningRuns

\* An id stands for the same coroutine until that one has ended, also when the
\* table grows: coroutine_status and coroutine_resume get what they were given.
IdsStay ==
    [][opened /\ opened' =>
         \A id \in DOMAIN co :
            co[id] # NULL /\ co[id] \in DOMAIN heap' => id \in DOMAIN co' /\ co'[id] = co[id]]_vars
=============================================================================
