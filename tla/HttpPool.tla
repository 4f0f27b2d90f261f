------------------------------ MODULE HttpPool ------------------------------
(***************************************************************************)
(* app/services/http_pool.py: HTTP clients shared by upstream, keyed by    *)
(* origin and timeout, with a reference count per entry.  A task takes a   *)
(* client with acquire, which also evicts idle entries and then awaits     *)
(* the close of each victim, and gives it back with release.               *)
(*                                                                         *)
(* The bodies under the asyncio lock never await, so acquire up to its     *)
(* first close and release up to its close are each one step.              *)
(***************************************************************************)
EXTENDS Integers, FiniteSets

CONSTANTS
    Keys,           \* the (origin, timeout) pairs
    Users,          \* uses of shared_client: one acquire and one release each
    MaxClients,     \* _MAX_CLIENTS
    MaxCreated      \* bound on the clients ever created

ASSUME UsersAssumption == IsFiniteSet(Users)
ASSUME KeysAssumption == IsFiniteSet(Keys) /\ Keys # {}
ASSUME BoundsAssumption == MaxClients \in Nat \ {0} /\ MaxCreated \in Nat

None == 0           \* no client; clients are numbered from 1

VARIABLES
    pool,           \* _entries[k].client, None when there is no entry
    inUse,          \* _entries[k].in_use
    older,          \* the pairs of entries <<j, k>> with j.last_used < k.last_used
    created,        \* clients created so far
    closed,         \* clients on which aclose has been called
    pc,             \* per user: "out", "closing", "using", "closing_own", "done"
    key,            \* the key a user acquired
    client,         \* the client a user was given
    toClose,        \* per user: the victims it has still to close
    up,             \* the lifespan has not closed the pool
    lost            \* history: per key, references taken by an acquire that was cancelled

vars == <<pool, inUse, older, created, closed, pc, key, client, toClose, up, lost>>

Entries == {k \in Keys : pool[k] # None}
Idle    == {k \in Entries : inUse[k] = 0}

\* The users that hold a reference to the entry of k.
Holders(k) == {u \in Users : pc[u] \in {"closing", "using"} /\ key[u] = k}

TypeOK ==
    /\ pool \in [Keys -> Nat] /\ inUse \in [Keys -> Nat]
    /\ older \subseteq Keys \X Keys
    /\ created \in Nat /\ closed \subseteq 1..created
    /\ pc \in [Users -> {"out", "closing", "using", "closing_own", "done"}]
    /\ key \in [Users -> Keys]
    /\ client \in [Users -> Nat]
    /\ toClose \in [Users -> SUBSET Nat]
    /\ up \in BOOLEAN
    /\ lost \in [Keys -> Nat]

Init ==
    /\ pool = [k \in Keys |-> None] /\ inUse = [k \in Keys |-> 0]
    /\ older = {} /\ created = 0 /\ closed = {}
    /\ pc = [u \in Users |-> "out"]
    /\ key = [u \in Users |-> CHOOSE k \in Keys : TRUE]
    /\ client = [u \in Users |-> None]
    /\ toClose = [u \in Users |-> {}]
    /\ up = TRUE /\ lost = [k \in Keys |-> 0]

----------------------------------------------------------------------------
\* The ages R of the entries in S alone, and with k the youngest of them.
Among(R, S) == R \intersect (S \X S)
Touched(R, S, k) == Among(R, S \ {k}) \union ((S \ {k}) \X {k})

\* Slip: eviction looks at age only.
VictimsByAge(E, I, R) ==
    {V \in SUBSET E :
        /\ \A v \in V, w \in E \ V : <<v, w>> \in R
        /\ Cardinality(E \ V) <= MaxClients \/ V = E}

\* _evict_locked over the entries E of which I are idle: the idle ones go
\* oldest first, those past the idle TTL and then as many as the capacity asks.
Victims(E, I, R) ==
    {V \in SUBSET I :
        /\ \A v \in V, w \in I \ V : <<v, w>> \in R
        /\ Cardinality(E \ V) <= MaxClients \/ V = I}

\* acquire under the lock; the user then closes the victims, if any.
Acquire(u, k) ==
    /\ pc[u] = "out"
    /\ pool[k] # None \/ created < MaxCreated
    /\ LET c    == IF pool[k] = None THEN created + 1 ELSE pool[k]
           E    == Entries \union {k}
           seen == Touched(older, E, k)
           I    == Idle \ {k}
       IN \E V \in Victims(E, I, seen) :
            /\ created' = IF pool[k] = None THEN created + 1 ELSE created
            /\ pool' = [j \in Keys |-> IF j \in V THEN None ELSE IF j = k THEN c ELSE pool[j]]
            /\ inUse' = [j \in Keys |-> IF j = k THEN (IF pool[k] = None THEN 1 ELSE inUse[k] + 1)
                                        ELSE inUse[j]]
            /\ older' = Among(seen, E \ V)
            /\ key' = [key EXCEPT ![u] = k]
            /\ client' = [client EXCEPT ![u] = c]
            /\ toClose' = [toClose EXCEPT ![u] = {pool[v] : v \in V}]
            /\ pc' = [pc EXCEPT ![u] = IF V = {} THEN "using" ELSE "closing"]
    /\ UNCHANGED <<closed, up, lost>>

\* for client in victims: await _safe_aclose(client)
CloseVictim(u) ==
    /\ pc[u] = "closing"
    /\ \E c \in toClose[u] :
          /\ closed' = closed \union {c}
          /\ toClose' = [toClose EXCEPT ![u] = @ \ {c}]
          /\ pc' = [pc EXCEPT ![u] = IF toClose[u] = {c} THEN "using" ELSE "closing"]
    /\ UNCHANGED <<pool, inUse, older, created, key, client, up, lost>>

\* The task is cancelled at one of these awaits: acquire never returns, and
\* shared_client has not entered the try that would release.
CancelAcquire(u) ==
    /\ pc[u] = "closing"
    /\ pc' = [pc EXCEPT ![u] = "done"]
    /\ lost' = [lost EXCEPT ![key[u]] = @ + 1]
    /\ UNCHANGED <<pool, inUse, older, created, closed, key, client, toClose, up>>

\* The entry of a user's key, if there is one, goes down to n references and
\* goes at once when it may and is idle.
GiveBack(u, n, mayDrop, next) ==
    /\ pc[u] = "using"
    /\ LET k == key[u]
           drop == mayDrop /\ n = 0
       IN  IF k \notin Entries
           THEN pc' = [pc EXCEPT ![u] = next] /\ UNCHANGED <<pool, inUse, older, toClose>>
           ELSE /\ inUse' = [inUse EXCEPT ![k] = n]
                /\ pool' = IF drop THEN [pool EXCEPT ![k] = None] ELSE pool
                /\ older' = IF drop THEN Among(older, Entries \ {k})
                           ELSE Touched(older, Entries, k)
                /\ toClose' = IF drop THEN [toClose EXCEPT ![u] = {pool[k]}] ELSE toClose
                /\ pc' = [pc EXCEPT ![u] = IF drop THEN "closing_own" ELSE next]
    /\ UNCHANGED <<created, closed, key, client, up, lost>>

OverCapacity == Cardinality(Entries) > MaxClients

OneLess(u) == IF inUse[key[u]] > 0 THEN inUse[key[u]] - 1 ELSE 0

\* Slip: a user may release a second time.
ReleaseTwice(u) == GiveBack(u, OneLess(u), OverCapacity, "using")

\* release: the entry found under the key loses a reference, never below zero,
\* and an idle entry is dropped while the pool is over its limit.
Release(u) == GiveBack(u, OneLess(u), OverCapacity, "done")

\* await _safe_aclose(victim), or its cancellation.
CloseOwn(u) ==
    /\ pc[u] = "closing_own"
    /\ pc' = [pc EXCEPT ![u] = "done"]
    /\ closed' \in {closed, closed \union toClose[u]}
    /\ toClose' = [toClose EXCEPT ![u] = {}]
    /\ UNCHANGED <<pool, inUse, older, created, key, client, up, lost>>

\* aclose_shared_clients, from the lifespan: in_use is deliberately ignored.
Shutdown ==
    /\ up /\ up' = FALSE
    /\ closed' = closed \union {pool[k] : k \in Entries}
    /\ pool' = [k \in Keys |-> None] /\ older' = {}
    /\ inUse' = [k \in Keys |-> 0]
    /\ UNCHANGED <<created, pc, key, client, toClose, lost>>

\* Every use is over (or the bound on clients stops the remaining ones).
Quiet == (\A u \in Users : pc[u] \in {"out", "done"}) /\ UNCHANGED vars

Next == \/ \E u \in Users : \/ \E k \in Keys : Acquire(u, k)
                            \/ CloseVictim(u) \/ CancelAcquire(u)
                            \/ Release(u) \/ CloseOwn(u)
        \/ Shutdown \/ Quiet

Spec == Init /\ [][Next]_vars

----------------------------------------------------------------------------
(* Properties.                                                             *)

\* http_pool.py:12: while the process runs, the client a task holds is never
\* closed by another task's eviction, and is the one pooled under its key.
InUseNeverClosed ==
    up => \A u \in Users : pc[u] \in {"closing", "using"} =>
              client[u] \notin closed /\ pool[key[u]] = client[u]

\* The count of an entry is its holders plus the references of acquires that
\* were cancelled: releases never take a reference that is not theirs.
CountsAreExact ==
    up => \A k \in Keys : k \in Entries => inUse[k] = Cardinality(Holders(k)) + lost[k]

\* The pool exceeds its limit only while each of its clients is in use.
OverflowOnlyInUse ==
    up /\ Cardinality(Entries) > MaxClients => Idle = {}
=============================================================================
