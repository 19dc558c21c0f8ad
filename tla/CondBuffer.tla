----------------------------- MODULE CondBuffer -----------------------------
(***************************************************************************)
(* The producers and the customer of example_pthread_cond1.cpp: a store    *)
(* that is a stack, one mutex, and a condition for each of its limits.     *)
(* What a thread does between lock and unlock is one action, as it only    *)
(* touches what the mutex protects; it ends early where the thread waits.  *)
(*                                                                         *)
(* A definition that directly precedes another with its parameters and is  *)
(* used nowhere is the other one with a mistake in it, which the           *)
(* properties must notice.                                                 *)
(***************************************************************************)
EXTENDS Integers, FiniteSets

CONSTANTS
    Producers, Customer,   \* the threads: t1 and t3, and t2
    Capacity,              \* the length of store: 8
    Letters                \* items of a producer, from 'A' to 'Z': 26

\* The customer is no producer, and the store is not empty.
ASSUME CondAssumption ==
    /\ IsFiniteSet(Producers) /\ Customer \notin Producers
    /\ Capacity \in Nat \ {0} /\ Letters \in Nat

CondThreads == Producers \cup {Customer}
Items   == Producers \X (1 .. Letters)
Wanted  == Cardinality(Producers) * Letters      \* 52
Nothing == <<Customer, 0>>

VARIABLES
    store, size,
    rounds,                \* how often each thread has gone round its loop
    full, empty,           \* who waits on the two conditions
    popped                 \* history: what the customer took

condVars == <<store, size, rounds, full, empty, popped>>

CondInit ==
    /\ store = [x \in 0 .. Capacity - 1 |-> Nothing] /\ size = 0
    /\ rounds = [t \in CondThreads |-> 0]
    /\ full = {} /\ empty = {} /\ popped = {}

Rounds(t) == IF t = Customer THEN Wanted ELSE Letters

\* A thread that may have the mutex next: one that waits must be woken first.
Ready(t) == t \notin full \cup empty /\ rounds[t] < Rounds(t)

\* while(size==8)pthread_cond_wait(&full, &lock)
IsFull == size = Capacity

ProducerWaits(p) ==
    /\ Ready(p) /\ IsFull
    /\ full' = full \cup {p}
    /\ UNCHANGED <<store, size, rounds, empty, popped>>

EmptyNotWoken == empty
EmptyWoken == {}

Push(p) ==
    /\ Ready(p) /\ ~IsFull
    /\ store' = [store EXCEPT ![size] = <<p, rounds[p] + 1>>]
    /\ size' = size + 1
    /\ rounds' = [rounds EXCEPT ![p] = @ + 1]
    /\ empty' = EmptyWoken
    /\ UNCHANGED <<full, popped>>

\* while(size==0)pthread_cond_wait(&empty, &lock)
CustomerWaits ==
    /\ Ready(Customer) /\ size = 0
    /\ empty' = empty \cup {Customer}
    /\ UNCHANGED <<store, size, rounds, full, popped>>

TopAbove == store[size % Capacity]
Top == store[size - 1]

FullWoken == {}

Pop ==
    /\ Ready(Customer) /\ size # 0
    /\ size' = size - 1
    /\ popped' = popped \cup {Top}
    /\ rounds' = [rounds EXCEPT ![Customer] = @ + 1]
    /\ full' = FullWoken
    /\ UNCHANGED <<store, empty>>

CondSpuriousWakeup(t) ==
    /\ t \in full \cup empty
    /\ full' = full \ {t} /\ empty' = empty \ {t}
    /\ UNCHANGED <<store, size, rounds, popped>>

\* main has joined all three.
Finished == \A t \in CondThreads : rounds[t] = Rounds(t)
Joined == Finished /\ UNCHANGED condVars

CondRun(t) == IF t = Customer THEN Pop \/ CustomerWaits ELSE Push(t) \/ ProducerWaits(t)

CondNext == Joined \/ \E t \in CondThreads : CondRun(t) \/ CondSpuriousWakeup(t)

CondSpec == CondInit /\ [][CondNext]_condVars

-----------------------------------------------------------------------------
(* Properties *)

CondTypeOK ==
    /\ store \in [0 .. Capacity - 1 -> Items \cup {Nothing}]
    /\ size \in 0 .. Capacity
    /\ \A t \in CondThreads : rounds[t] \in 0 .. Rounds(t)
    /\ full \subseteq Producers /\ empty \subseteq {Customer}
    /\ popped \subseteq Items

\* Every letter that was pushed is in the store or was popped, and none is both or
\* twice: pushes and pops of three threads on one stack do not lose any.
LettersConserved ==
    LET Stored == {store[x] : x \in 0 .. size - 1}
        Pushed == {i \in Items : i[2] <= rounds[i[1]]}
    IN  /\ Stored \cup popped = Pushed /\ Stored \cap popped = {}
        /\ Cardinality(Stored) = size /\ Cardinality(popped) = rounds[Customer]

\* As long as a thread has rounds left there is one that can go on: not everyone
\* who has is asleep on a condition.
SomeoneRuns == Finished \/ \E t \in CondThreads : Ready(t)

\* The threads end, and main joins them: 52 letters are pushed and popped although
\* threads wait, are all woken at once, and wait again.
AllJoined == <>Finished
=============================================================================
