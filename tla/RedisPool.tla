------------------------------ MODULE RedisPool ------------------------------
(***************************************************************************)
(* src/example_redis_test.cpp: HiredisHelper keeps connections to Redis    *)
(* in a queue; SetEx takes one, sends its command on it and gives it back. *)
(* One thread uses a helper.  The client library is external: it makes a   *)
(* context, makes one with an error set, or returns NULL when memory runs  *)
(* out, and a command has a reply or none.                                 *)
(*                                                                         *)
(* connect drops a context with an error without freeing it and queues a   *)
(* NULL; getConntection counts a connection in m_useNum whatever it takes  *)
(* from the queue, and SetEx does not give back a NULL; the destructor's   *)
(* loop runs to a size that shrinks.  lost and nulls count what this       *)
(* leaves behind.                                                          *)
(*                                                                         *)
(* A definition that directly precedes another with its parameters and is  *)
(* used nowhere is the other one with a mistake in it.                     *)
(***************************************************************************)
EXTENDS Integers, Sequences, FiniteSets

CONSTANTS
    m_poolsize, m_maxpoolsize,
    MaxContexts                \* bound: the contexts there are, open or not

ASSUME RedisAssumption ==
    m_poolsize \in Nat /\ m_maxpoolsize \in Nat /\ MaxContexts \in Nat

VARIABLES
    m_ctxs,                    \* the queue of connections: contexts and NULLs
    m_useNum,
    method,                    \* what the program is in: a method, or "idle"
    round,                     \* connect's and the destructor's loop
    ctx,                       \* SetEx's context
    live,                      \* contexts that exist in the library
    lost,                      \* of those, the ones nobody refers to
    nulls                      \* NULLs SetEx took from the queue

redisVars == <<m_ctxs, m_useNum, method, round, ctx, live, lost, nulls>>

NoContext == 0
Contexts == 1 .. MaxContexts
Fresh == CHOOSE c \in Contexts : c \notin live

Queued == { m_ctxs[k] : k \in DOMAIN m_ctxs } \ {NoContext}

\* The queue and the counter together are no more than one of the sizes allows, and
\* lost contexts are open ones.
Most == IF m_poolsize > m_maxpoolsize THEN m_poolsize ELSE m_maxpoolsize
RedisTypeOK ==
    /\ m_ctxs \in Seq(Contexts \cup {NoContext})
    /\ m_useNum \in Nat /\ Len(m_ctxs) + m_useNum <= Most
    /\ method \in {"connect", "idle", "SetEx", "destructor", "gone"}
    /\ round \in 0 .. Most
    /\ ctx \in Contexts \cup {NoContext}
    /\ live \subseteq Contexts /\ lost \subseteq live
    /\ nulls \in Nat

\* init: the program calls it once, before anything else.
RedisInit ==
    /\ m_ctxs = <<>> /\ m_useNum = 0 /\ method = "connect" /\ round = 0
    /\ ctx = NoContext /\ live = {} /\ lost = {} /\ nulls = 0

-----------------------------------------------------------------------------

\* One round of connect's loop: a good context, one with an error, none
Connect ==
    /\ method = "connect" /\ round < m_poolsize
    /\ round' = round + 1
    /\ \/ live # Contexts /\ live' = live \cup {Fresh}
          /\ m_ctxs' = Append(m_ctxs, Fresh) /\ UNCHANGED lost
       \/ live # Contexts /\ live' = live \cup {Fresh}
          /\ lost' = lost \cup {Fresh} /\ UNCHANGED m_ctxs
       \/ m_ctxs' = Append(m_ctxs, NoContext) /\ UNCHANGED <<live, lost>>
    /\ UNCHANGED <<m_useNum, method, ctx, nulls>>

Connected ==
    /\ method = "connect" /\ round = m_poolsize
    /\ method' = "idle" /\ round' = 0
    /\ UNCHANGED <<m_ctxs, m_useNum, ctx, live, lost, nulls>>

\* m_ctxs.pop()
PoppedNot == m_ctxs
Popped == Tail(m_ctxs)

\* getConntection takes the first of the queue; SetEx returns when that is NULL.
TakeQueued ==
    /\ method = "idle" /\ m_ctxs # <<>>
    /\ m_useNum' = m_useNum + 1
    /\ m_ctxs' = Popped
    /\ IF Head(m_ctxs) = NoContext
       THEN nulls' = nulls + 1 /\ UNCHANGED <<ctx, method>>
       ELSE ctx' = Head(m_ctxs) /\ method' = "SetEx" /\ UNCHANGED nulls
    /\ UNCHANGED <<round, live, lost>>

\* With none queued getConntection makes one; a failed one is freed at once,
\* and with m_maxpoolsize in use it makes none: neither changes anything.
TakeNew ==
    /\ method = "idle" /\ m_ctxs = <<>> /\ m_useNum < m_maxpoolsize
    /\ live # Contexts
    /\ live' = live \cup {Fresh} /\ ctx' = Fresh /\ method' = "SetEx"
    /\ m_useNum' = m_useNum + 1
    /\ UNCHANGED <<m_ctxs, round, lost, nulls>>

\* SetEx with the command's reply (active) or without: releaseConnection
Release(active) ==
    /\ method = "SetEx"
    /\ m_useNum' = m_useNum - 1
    /\ IF active THEN m_ctxs' = Append(m_ctxs, ctx) /\ UNCHANGED live
                 ELSE live' = live \ {ctx} /\ UNCHANGED m_ctxs
    /\ ctx' = NoContext /\ method' = "idle"
    /\ UNCHANGED <<round, lost, nulls>>

\* The helper's scope ends.
Leave ==
    /\ method = "idle" /\ method' = "destructor"
    /\ UNCHANGED <<m_ctxs, m_useNum, round, ctx, live, lost, nulls>>

\* One round of the destructor; redisFree ignores a NULL.
Destruct ==
    /\ method = "destructor" /\ round < Len(m_ctxs)
    /\ live' = live \ {Head(m_ctxs)} /\ m_ctxs' = Popped
    /\ round' = round + 1
    /\ UNCHANGED <<m_useNum, method, ctx, lost, nulls>>

\* The queue goes with the helper, and with it what is still queued.
Destructed ==
    /\ method = "destructor" /\ round >= Len(m_ctxs)
    /\ method' = "gone" /\ lost' = lost \cup Queued /\ m_ctxs' = <<>>
    /\ UNCHANGED <<m_useNum, round, ctx, live, nulls>>

RedisNext ==
    \/ Connect \/ Connected \/ TakeQueued \/ TakeNew
    \/ \E active \in BOOLEAN : Release(active)
    \/ Leave \/ Destruct \/ Destructed

RedisSpec == RedisInit /\ [][RedisNext]_redisVars

-----------------------------------------------------------------------------

\* getConntection, releaseConnection and the destructor: m_useNum is the connection
\* in use and the NULLs it was told of; a context is lost, queued or in use, and only
\* one of these, so none is used after it was freed and none is freed twice.
Accounted ==
    /\ m_useNum = nulls + (IF method = "SetEx" THEN 1 ELSE 0)
    /\ \A j, k \in DOMAIN m_ctxs : m_ctxs[j] = m_ctxs[k] /\ m_ctxs[j] # NoContext => j = k
    /\ live = Queued \cup lost \cup ({ctx} \ {NoContext})
    /\ Queued \cap lost = {} /\ ctx \notin Queued \cup lost
=============================================================================
