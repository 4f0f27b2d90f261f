-------------------------- MODULE ImageInvocation --------------------------
(***************************************************************************)
(* app/core/image_batch.py with _generate_and_store_cached of              *)
(* app/router/proxy.py: identical image invocations in flight share one    *)
(* generation.  The first caller to claim a key owns it, generates, and    *)
(* completes the future the others wait for; a completed entry serves      *)
(* later callers until it expires, is evicted, or its files are gone.      *)
(*                                                                         *)
(* All callers run on one event loop: between two awaits a caller is       *)
(* alone, so a claim, or a wake-up with the claim it may lead to, is one   *)
(* step.  A future is known by the number of its claim.                    *)
(***************************************************************************)
EXTENDS Integers, FiniteSets

CONSTANTS
    Keys,           \* cache keys: principal, prompt, backend and occurrence
    Callers,        \* calls of _generate_and_store_cached
    MaxEntries,     \* image_generation_idempotency_max_entries
    MaxFutures      \* bound on the claims that become owners

ASSUME KeysAssumption == IsFiniteSet(Keys) /\ Keys # {}
ASSUME CallersAssumption == IsFiniteSet(Callers)
ASSUME BoundsAssumption == MaxEntries \in Nat \ {0} /\ MaxFutures \in Nat

None    == 0        \* no entry, no future
Futures == 1..MaxFutures

VARIABLES
    entry,          \* _entries[k].future, None when there is no entry
    state,          \* of each future
    completedAt,    \* _entries[k].completed_at of a future's entry, in order; 0 in flight
    clock,          \* completions so far
    made,           \* futures created; future f is older than future f + 1
    files,          \* the futures whose stored images are on disk
    pc,             \* of each caller
    key,            \* the key a caller asked for
    claim,          \* the future of its claim
    struck          \* history: the callers whose own task was cancelled

vars == <<entry, state, completedAt, clock, made, files, pc, key, claim, struck>>

Endings == {"generated", "reused", "failed", "cancelled"}

TypeOK ==
    /\ entry \in [Keys -> 0..made]
    /\ state \in [Futures -> {"unborn", "pending", "value", "error", "cancelled"}]
    /\ completedAt \in [Futures -> 0..clock]
    /\ clock \in 0..made /\ made \in 0..MaxFutures
    /\ files \subseteq 1..made
    /\ pc \in [Callers -> {"start", "generating", "waiting"} \union Endings]
    /\ key \in [Callers -> Keys] /\ claim \in [Callers -> 0..made]
    /\ struck \subseteq Callers

Init ==
    /\ entry = [k \in Keys |-> None]
    /\ state = [f \in Futures |-> "unborn"]
    /\ completedAt = [f \in Futures |-> 0]
    /\ clock = 0 /\ made = 0 /\ files = {}
    /\ pc = [u \in Callers |-> "start"]
    /\ key \in [Callers -> Keys]
    /\ claim = [u \in Callers |-> None]
    /\ struck = {}

----------------------------------------------------------------------------
(* claim.                                                                  *)

Completed(E) == {k \in Keys : E[k] # None /\ completedAt[E[k]] # 0}
InFlight(E)  == {k \in Keys : E[k] # None /\ completedAt[E[k]] = 0}
Drop(E, D)   == [k \in Keys |-> IF k \in D THEN None ELSE E[k]]

Size(E) == Cardinality({k \in Keys : E[k] # None})

\* The entries older than the TTL: by completion, some of the oldest.
Expirable(E) == {{k \in Completed(E) : completedAt[E[k]] <= t} : t \in 0..clock}

\* The in-flight entries older than inflight_max_age_seconds, which is read
\* anew at each claim, so that a live owner may be past it.
Abandonable(E) == {{k \in InFlight(E) : E[k] <= f} : f \in 0..made}

\* The completed entries evicted, oldest first, until there is room for one more.
Evicted(E) ==
    LET younger(k) == {j \in Completed(E) : completedAt[E[j]] < completedAt[E[k]]}
    IN  {k \in Completed(E) : Size(E) - Cardinality(younger(k)) >= MaxEntries}

\* u's claim on the cache E, with the futures in S.
Claim(u, E, S) ==
    \E expired \in Expirable(E), abandoned \in Abandonable(E) :
        LET F     == Drop(E, expired \union abandoned)
            T     == [f \in Futures |-> IF \E k \in abandoned : E[k] = f /\ S[f] = "pending"
                                        THEN "error" ELSE S[f]]
            G     == Drop(F, Evicted(F))
        IN  IF F[key[u]] # None
            THEN /\ pc' = [pc EXCEPT ![u] = "waiting"]
                 /\ claim' = [claim EXCEPT ![u] = F[key[u]]]
                 /\ entry' = F /\ state' = T /\ UNCHANGED made
            ELSE IF Size(G) >= MaxEntries
            THEN /\ pc' = [pc EXCEPT ![u] = "failed"]
                 /\ entry' = G /\ state' = T /\ UNCHANGED <<claim, made>>
            ELSE /\ made < MaxFutures /\ made' = made + 1
                 /\ pc' = [pc EXCEPT ![u] = "generating"]
                 /\ claim' = [claim EXCEPT ![u] = made + 1]
                 /\ entry' = [G EXCEPT ![key[u]] = made + 1]
                 /\ state' = [T EXCEPT ![made + 1] = "pending"]

Arrive(u) ==
    /\ pc[u] = "start"
    /\ Claim(u, entry, state)
    /\ UNCHANGED <<completedAt, clock, files, key, struck>>

----------------------------------------------------------------------------
(* The owner.                                                              *)

IsCurrent(u) == entry[key[u]] = claim[u]

SetOnce(f, s) == [state EXCEPT ![f] = IF @ = "pending" THEN s ELSE @]

\* resolve: nothing happens when the entry is not the claim's any more.
Resolve(u) ==
    IF IsCurrent(u)
    THEN /\ completedAt' = [completedAt EXCEPT ![claim[u]] = clock + 1]
         /\ clock' = clock + 1
         /\ state' = SetOnce(claim[u], "value")
    ELSE UNCHANGED <<completedAt, clock, state>>

\* Slip: reject drops the entry it finds under the key.
RejectFound(u) ==
    /\ entry' = [entry EXCEPT ![key[u]] = None]
    /\ state' = SetOnce(claim[u], "error")

\* reject, also for a cancelled owner.
Reject(u) ==
    /\ entry' = IF IsCurrent(u) THEN [entry EXCEPT ![key[u]] = None] ELSE entry
    /\ state' = SetOnce(claim[u], "error")

\* The images are generated and stored.
OwnerSucceeds(u) ==
    /\ pc[u] = "generating" /\ pc' = [pc EXCEPT ![u] = "generated"]
    /\ files' = files \union {claim[u]}
    /\ Resolve(u)
    /\ UNCHANGED <<entry, made, key, claim, struck>>

\* The backend or the store fails.
OwnerFails(u) ==
    /\ pc[u] = "generating" /\ pc' = [pc EXCEPT ![u] = "failed"]
    /\ Reject(u)
    /\ UNCHANGED <<completedAt, clock, made, files, key, claim, struck>>

\* Slip: only an Exception is caught, so a cancelled owner does not reject.
OwnerCancelledQuietly(u) ==
    /\ pc[u] = "generating" /\ pc' = [pc EXCEPT ![u] = "cancelled"]
    /\ struck' = struck \union {u}
    /\ UNCHANGED <<entry, state, completedAt, clock, made, files, key, claim>>

\* The owner's client leaves, or its batch reaches its deadline.
OwnerCancelled(u) ==
    /\ pc[u] = "generating" /\ pc' = [pc EXCEPT ![u] = "cancelled"]
    /\ struck' = struck \union {u}
    /\ Reject(u)
    /\ UNCHANGED <<completedAt, clock, made, files, key, claim>>

----------------------------------------------------------------------------
(* The waiters: await wait_for(wrap_future(claim.future), wait_timeout).   *)

\* The future is done: its images, if they are still on disk, or a new claim
\* in place of the entry; its exception; or its cancellation.
WaiterWakes(u) ==
    /\ pc[u] = "waiting"
    /\ LET f == claim[u]
       IN  \/ /\ state[f] = "value" /\ f \in files
              /\ pc' = [pc EXCEPT ![u] = "reused"]
              /\ UNCHANGED <<entry, state, made, claim>>
           \/ /\ state[f] = "value" /\ f \notin files
              /\ Claim(u, Drop(entry, {key[u]}), state)
           \/ /\ state[f] = "error"
              /\ pc' = [pc EXCEPT ![u] = "failed"]
              /\ UNCHANGED <<entry, state, made, claim>>
           \/ /\ state[f] = "cancelled"
              /\ pc' = [pc EXCEPT ![u] = "cancelled"]
              /\ UNCHANGED <<entry, state, made, claim>>
    /\ UNCHANGED <<completedAt, clock, files, key, struck>>

\* Cancelling the wrapper of a pending future cancels the future.
WaiterCancelled(u) ==
    /\ pc[u] = "waiting" /\ pc' = [pc EXCEPT ![u] = "cancelled"]
    /\ struck' = struck \union {u}
    /\ state' = SetOnce(claim[u], "cancelled")
    /\ UNCHANGED <<entry, completedAt, clock, made, files, key, claim>>

\* wait_timeout passes: the wrapper is cancelled likewise and the key dropped.
WaiterTimeout(u) ==
    /\ pc[u] = "waiting" /\ pc' = [pc EXCEPT ![u] = "failed"]
    /\ state[claim[u]] = "pending"
    /\ state' = SetOnce(claim[u], "cancelled")
    /\ entry' = Drop(entry, {key[u]})
    /\ UNCHANGED <<completedAt, clock, made, files, key, claim, struck>>

\* The pruning of stored images (core/image_results.py), or anybody else.
FilesPruned == \E f \in files :
    /\ files' = files \ {f}
    /\ UNCHANGED <<entry, state, completedAt, clock, made, pc, key, claim, struck>>

\* Everybody has an answer, or the bound on futures stops the rest.
Settled == (\A u \in Callers : pc[u] \in Endings \/ made = MaxFutures) /\ UNCHANGED vars

Next == \/ \E u \in Callers :
              \/ Arrive(u) \/ OwnerSucceeds(u) \/ OwnerFails(u) \/ OwnerCancelled(u)
              \/ WaiterWakes(u) \/ WaiterCancelled(u) \/ WaiterTimeout(u)
        \/ FilesPruned \/ Settled

Spec == Init /\ [][Next]_vars

----------------------------------------------------------------------------
(* Properties.                                                             *)

\* An entry in flight has an owner at work: no owner, however it ends, leaves
\* behind an entry that only the age limit could remove (M-24).
InFlightIsOwned ==
    \A k \in InFlight(entry) : \E u \in Callers :
        pc[u] = "generating" /\ key[u] = k /\ claim[u] = entry[k]

\* An entry that counts as completed has a completed future: the outcome of an
\* owner displaced meanwhile never lands on its successor's entry.
CompletedIsDone == \A k \in Completed(entry) : state[entry[k]] \in {"value", "cancelled"}

\* The cache stays within its limit, which counts the entries in flight.
CacheBounded == Cardinality({k \in Keys : entry[k] # None}) <= MaxEntries

\* An entry whose future is still to be completed leaves the cache only by the
\* hand of a waiter of the same key, that gave up waiting or found its files
\* gone: never by the end of a displaced owner and never to make room.
OnlyWaitersDisplace ==
    [][\A k \in Keys :
         entry[k] # None /\ entry'[k] # entry[k] /\ state'[entry[k]] = "pending"
         => \E u \in Callers : /\ pc[u] = "waiting" /\ key[u] = k
                              /\ (pc'[u] # "waiting" \/ claim'[u] # claim[u])]_vars

\* The cache is sound under every race of owners, waiters and expiry: each entry
\* is in flight with an owner at work or holds its own outcome, and it is within
\* its limit, entries in flight included.
CacheSound == TypeOK /\ InFlightIsOwned /\ CompletedIsDone /\ CacheBounded
=============================================================================
