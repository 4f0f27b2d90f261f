---------------------------- MODULE ImageProofs ----------------------------
(***************************************************************************)
(* The image cache and the image budget, for any number of keys, callers,  *)
(* conversations and requests, and any limits.                             *)
(*                                                                         *)
(* ImageInvocation: an entry in flight has its owner at work, a completed  *)
(* entry has its outcome, the cache keeps to its limit, and only a waiter  *)
(* takes an entry from a live owner.  What carries it is that a future is  *)
(* the claim of one owner and the entry of at most one key, that owner's,  *)
(* and that it is completed only while it is.                              *)
(*                                                                         *)
(* ImageBridge: no window of a conversation grants more than its limit,    *)
(* and a bridge that ends has settled each charge once.  What carries it   *)
(* is that the dictionary's entries are in one order, so that evicting the *)
(* oldest of them makes room for the one written, and that a request's     *)
(* open charges are those of its batch.                                    *)
(***************************************************************************)
EXTENDS ImageInvocation, ImageBridge, FiniteSetTheorems, WellFoundedInduction, TLAPS

-----------------------------------------------------------------------------
(* The image cache.                                                          *)

Apart == \A j, k \in Keys : entry[j] # None /\ entry[j] = entry[k] => j = k

Owners == \A u \in Callers : pc[u] = "generating" =>
    /\ claim[u] # None /\ completedAt[claim[u]] = 0
    /\ \A k \in Keys : entry[k] = claim[u] => k = key[u]
    /\ \A v \in Callers : pc[v] = "generating" /\ claim[v] = claim[u] => u = v

Done == {f \in Futures : completedAt[f] # 0}

Outcomes ==
    /\ \A f \in Futures : f > made => completedAt[f] = 0
    /\ \A f \in Done : state[f] \in {"value", "cancelled"}
    /\ \A k \in Keys : entry[k] # None /\ completedAt[entry[k]] = 0 =>
            state[entry[k]] \in {"pending", "cancelled"}

Clocked == clock = Cardinality(Done)

IInv == /\ TypeOK /\ Apart /\ Owners /\ Outcomes /\ Clocked
        /\ InFlightIsOwned /\ CacheBounded

LEMMA Sizes ==
    ASSUME NEW E, NEW F, \A k \in Keys : F[k] # None => E[k] # None
    PROVE  Size(F) \in Nat /\ Size(E) \in Nat /\ Size(F) <= Size(E)
<1> DEFINE S == {k \in Keys : E[k] # None}
           T == {k \in Keys : F[k] # None}
<1>1. IsFiniteSet(S) /\ T \subseteq S
  BY KeysAssumption, FS_Subset
<1>2. IsFiniteSet(T) /\ Cardinality(T) <= Cardinality(S)
  BY <1>1, FS_Subset
<1>3. Cardinality(S) \in Nat /\ Cardinality(T) \in Nat
  BY <1>1, <1>2, FS_CardinalityType
<1> QED BY <1>2, <1>3 DEF Size

\* What a claim does to each entry and future.
LEMMA Claims ==
    ASSUME IInv, NEW u \in Callers, NEW E \in [Keys -> 0..made],
           \A k \in Keys : E[k] # None => E[k] = entry[k],
           Claim(u, E, state)
    PROVE  /\ entry' \in [Keys -> 0..made'] /\ Size(entry') <= MaxEntries
           /\ state' \in [Futures -> {"unborn", "pending", "value", "error", "cancelled"}]
           /\ \A f \in Futures : f <= made =>
                state'[f] = state[f] \/ (state[f] = "pending" /\ state'[f] = "error")
           /\ \A k \in Keys : E[k] # None =>
                IF entry'[k] = E[k]
                THEN completedAt[E[k]] = 0 => state'[E[k]] = state[E[k]]
                ELSE state'[E[k]] # "pending"
           /\ \/ /\ made' = made
                 /\ \A k \in Keys : entry'[k] = None \/ entry'[k] = E[k]
                 /\ \/ /\ E[key[u]] # None /\ pc' = [pc EXCEPT ![u] = "waiting"]
                       /\ claim' = [claim EXCEPT ![u] = E[key[u]]]
                    \/ pc' = [pc EXCEPT ![u] = "failed"] /\ claim' = claim
              \/ /\ made' = made + 1 /\ made + 1 \in Futures
                 /\ entry'[key[u]] = made + 1 /\ state'[made + 1] = "pending"
                 /\ \A k \in Keys : k = key[u] \/ entry'[k] = None \/ entry'[k] = E[k]
                 /\ pc' = [pc EXCEPT ![u] = "generating"]
                 /\ claim' = [claim EXCEPT ![u] = made + 1]
<1>1. PICK expired \in Expirable(E), abandoned \in Abandonable(E) :
        LET F     == Drop(E, expired \union abandoned)
            T     == [f \in Futures |-> IF \E k \in abandoned : E[k] = f /\ state[f] = "pending"
                                        THEN "error" ELSE state[f]]
            G     == Drop(F, Evicted(F))
        IN  IF F[key[u]] # None
            THEN /\ pc' = [pc EXCEPT ![u] = "waiting"]
                 /\ claim' = [claim EXCEPT ![u] = F[key[u]]]
                 /\ entry' = F /\ state' = T /\ UNCHANGED made
            ELSE IF Size(G) >= MaxEntries
            THEN /\ pc' = [pc EXCEPT ![u] = "failed"]
                 /\ entry' = G /\ state' = T /\ UNCHANGED <<claim, made>>
            ELSE /\ made < MaxFutures /\ made' = made + 1
                 /\ pc' = [pc EXCEPT ![u] = "generating"]
                 /\ claim' = [claim EXCEPT ![u] = made + 1]
                 /\ entry' = [G EXCEPT ![key[u]] = made + 1]
                 /\ state' = [T EXCEPT ![made + 1] = "pending"]
  BY DEF Claim
<1> DEFINE F == Drop(E, expired \union abandoned)
           T == [f \in Futures |-> IF \E k \in abandoned : E[k] = f /\ state[f] = "pending"
                                   THEN "error" ELSE state[f]]
           G == Drop(F, Evicted(F))
<1>2. /\ expired \subseteq Completed(E) /\ abandoned \subseteq InFlight(E)
      /\ Evicted(F) \subseteq Completed(F)
  BY DEF Expirable, Abandonable, Evicted
<1>3. /\ made \in 0..MaxFutures /\ MaxFutures \in Nat /\ key \in [Callers -> Keys]
      /\ state \in [Futures -> {"unborn", "pending", "value", "error", "cancelled"}]
  BY BoundsAssumption DEF IInv, TypeOK
<1>4. /\ F \in [Keys -> 0..made] /\ G \in [Keys -> 0..made]
      /\ T \in [Futures -> {"unborn", "pending", "value", "error", "cancelled"}]
  BY <1>3 DEF Drop, None
<1>5. \A k \in Keys : /\ F[k] = None \/ F[k] = E[k]
                      /\ G[k] = None \/ G[k] = F[k]
  BY <1>4 DEF Drop
<1>6. \A f \in Futures :
        T[f] = state[f] \/ (state[f] = "pending" /\ T[f] = "error")
  OBVIOUS
\* Nothing that leaves is pending, and what stays is as it was.
<1>7. ASSUME NEW k \in Keys, E[k] # None
      PROVE  /\ F[k] # E[k] => T[E[k]] # "pending"
             /\ G[k] # E[k] => T[E[k]] # "pending"
             /\ F[k] = E[k] => T[E[k]] = state[E[k]]
  <2>1. E[k] \in Futures /\ E[k] = entry[k]
    BY <1>3, <1>7 DEF Futures, None
  <2>2. completedAt[E[k]] # 0 => state[E[k]] \in {"value", "cancelled"}
    BY <2>1 DEF IInv, Outcomes, Done
  <2>3. k \in Completed(E) => T[E[k]] # "pending"
    BY <2>1, <2>2, <1>6 DEF Completed
  <2>4. k \in abandoned => T[E[k]] # "pending"
    BY <2>1
  <2>5. F[k] # E[k] => k \in expired \union abandoned
    BY DEF Drop
  <2>6. G[k] # F[k] => k \in Completed(F) /\ F[k] = E[k]
    BY <1>2, <1>5 DEF Drop, Completed
  <2>7. F[k] = E[k] => k \notin abandoned
    BY <1>7 DEF Drop
  <2>8. \A j \in abandoned : j \in Keys /\ E[j] # None
    BY <1>2 DEF InFlight
  <2>9. \A j \in abandoned : E[j] = E[k] => j = k
    BY <1>7, <2>1, <2>8 DEF IInv, Apart
  <2>10. F[k] = E[k] => T[E[k]] = state[E[k]]
    BY <2>1, <2>7, <2>9
  <2> HIDE DEF F, G, T
  <2> QED BY <1>2, <2>3, <2>4, <2>5, <2>6, <2>10 DEF Completed
<1>8. Size(F) <= MaxEntries /\ Size(G) <= MaxEntries
  <2>1. Size(entry) <= MaxEntries
    BY DEF IInv, CacheBounded, Size
  <2>2. /\ \A k \in Keys : F[k] # None => entry[k] # None
        /\ \A k \in Keys : G[k] # None => entry[k] # None
    BY <1>5
  <2> HIDE DEF F, G
  <2> QED BY <2>1, <2>2, Sizes, BoundsAssumption
<1>9. \A k \in Keys : E[k] # None => E[k] \in Futures /\ E[k] <= made
  BY <1>3 DEF Futures, None
<1> HIDE DEF F, G, T
<1>10. CASE F[key[u]] # None
  <2>1. /\ pc' = [pc EXCEPT ![u] = "waiting"] /\ claim' = [claim EXCEPT ![u] = F[key[u]]]
        /\ entry' = F /\ state' = T /\ made' = made
    BY <1>1, <1>10 DEF F, T
  <2>2. F[key[u]] = E[key[u]]
    BY <1>3, <1>5, <1>10
  <2> QED BY <1>3, <1>4, <1>5, <1>6, <1>7, <1>8, <1>10, <2>1, <2>2
<1>11. CASE F[key[u]] = None /\ Size(G) >= MaxEntries
  <2>1. /\ pc' = [pc EXCEPT ![u] = "failed"] /\ claim' = claim
        /\ entry' = G /\ state' = T /\ made' = made
    BY <1>1, <1>11 DEF F, G, T
  <2>2. \A k \in Keys : E[k] # None /\ G[k] = E[k] => F[k] = E[k]
    BY <1>5
  <2> QED BY <1>3, <1>4, <1>5, <1>6, <1>7, <1>8, <2>1, <2>2
<1>12. CASE F[key[u]] = None /\ ~(Size(G) >= MaxEntries)
  <2>1. /\ made < MaxFutures /\ made' = made + 1
        /\ pc' = [pc EXCEPT ![u] = "generating"] /\ claim' = [claim EXCEPT ![u] = made + 1]
        /\ entry' = [G EXCEPT ![key[u]] = made + 1]
        /\ state' = [T EXCEPT ![made + 1] = "pending"]
    BY <1>1, <1>12 DEF F, G, T
  <2>2. made + 1 \in Futures /\ made + 1 \in Nat
    BY <1>3, <2>1 DEF Futures
  <2>3. G[key[u]] = None /\ key[u] \in Keys
    BY <1>3, <1>5, <1>12
  <2>4. entry' \in [Keys -> 0..made'] /\ \A k \in Keys : k # key[u] => entry'[k] = G[k]
    BY <1>3, <1>4, <2>1
  <2>5. \A f \in Futures : f <= made => state'[f] = T[f]
    BY <1>3, <1>4, <2>1
  <2>6. entry'[key[u]] = made + 1 /\ state'[made + 1] = "pending"
        /\ state' \in [Futures -> {"unborn", "pending", "value", "error", "cancelled"}]
    BY <1>4, <2>1, <2>2, <2>3
  <2>7. Size(entry') <= MaxEntries
    <3>1. {k \in Keys : entry'[k] # None} = {k \in Keys : G[k] # None} \union {key[u]}
      BY <1>3, <2>3, <2>4, <2>6 DEF None
    <3>2. IsFiniteSet({k \in Keys : G[k] # None})
      BY KeysAssumption, FS_Subset
    <3>3. Cardinality({k \in Keys : G[k] # None}) \in Nat
      BY <3>2, FS_CardinalityType
    <3>4. Size(entry') <= Size(G) + 1 /\ Size(G) \in Nat /\ Size(entry') \in Nat
      <4> DEFINE held == {k \in Keys : G[k] # None}
      <4>1. Size(G) = Cardinality(held) /\ Size(entry') = Cardinality(held \union {key[u]})
        BY <3>1 DEF Size
      <4>2. IsFiniteSet(held) /\ Cardinality(held) \in Nat
        BY <3>2, <3>3
      <4> HIDE DEF held
      <4>3. Cardinality(held \union {key[u]}) = Cardinality(held)
            \/ Cardinality(held \union {key[u]}) = Cardinality(held) + 1
        BY <4>2, FS_AddElement
      <4> QED BY <4>1, <4>2, <4>3
    <3> QED BY <1>12, <3>4, BoundsAssumption
  <2>8. \A k \in Keys : k = key[u] \/ entry'[k] = None \/ entry'[k] = E[k]
    BY <1>5, <2>4
  <2>9. ASSUME NEW k \in Keys, E[k] # None
        PROVE  IF entry'[k] = E[k]
               THEN completedAt[E[k]] = 0 => state'[E[k]] = state[E[k]]
               ELSE state'[E[k]] # "pending"
    <3>1. k # key[u] => entry'[k] = G[k]
      BY <2>4
    <3>2. E[k] <= made /\ state'[E[k]] = T[E[k]] /\ E[k] \in Nat
      BY <1>9, <2>5, <2>9 DEF Futures
    <3>3. CASE k = key[u]
      <4>1. entry'[k] # E[k]
        BY <1>3, <2>6, <3>2, <3>3
      <4> QED BY <1>7, <1>12, <2>9, <3>2, <3>3, <4>1
    <3>4. CASE k # key[u]
      BY <1>5, <1>7, <2>9, <3>1, <3>2, <3>4
    <3> QED BY <3>3, <3>4
  <2>10. \A f \in Futures : f <= made =>
            state'[f] = state[f] \/ (state[f] = "pending" /\ state'[f] = "error")
    BY <1>6, <2>5
  <2> QED BY <2>1, <2>2, <2>4, <2>6, <2>7, <2>8, <2>9, <2>10
<1> QED BY <1>10, <1>11, <1>12

\* A claim on the cache, or on the cache without the claimed key.
LEMMA ClaimKeeps ==
    ASSUME IInv, NEW u \in Callers, pc[u] # "generating",
           NEW E \in [Keys -> 0..made],
           \A k \in Keys : E[k] # None => E[k] = entry[k],
           Claim(u, E, state), UNCHANGED <<completedAt, clock, files, key, struck>>
    PROVE  IInv'
<1>1. /\ entry' \in [Keys -> 0..made'] /\ Size(entry') <= MaxEntries
      /\ state' \in [Futures -> {"unborn", "pending", "value", "error", "cancelled"}]
      /\ \A f \in Futures : f <= made =>
            state'[f] = state[f] \/ (state[f] = "pending" /\ state'[f] = "error")
      /\ \A k \in Keys : E[k] # None =>
            IF entry'[k] = E[k]
            THEN completedAt[E[k]] = 0 => state'[E[k]] = state[E[k]]
            ELSE state'[E[k]] # "pending"
  BY Claims
<1>2. \/ /\ made' = made
         /\ \A k \in Keys : entry'[k] = None \/ entry'[k] = E[k]
         /\ \/ /\ E[key[u]] # None /\ pc' = [pc EXCEPT ![u] = "waiting"]
               /\ claim' = [claim EXCEPT ![u] = E[key[u]]]
            \/ pc' = [pc EXCEPT ![u] = "failed"] /\ claim' = claim
      \/ /\ made' = made + 1 /\ made + 1 \in Futures
         /\ entry'[key[u]] = made + 1 /\ state'[made + 1] = "pending"
         /\ \A k \in Keys : k = key[u] \/ entry'[k] = None \/ entry'[k] = E[k]
         /\ pc' = [pc EXCEPT ![u] = "generating"]
         /\ claim' = [claim EXCEPT ![u] = made + 1]
  BY Claims
<1>3. /\ TypeOK /\ Apart /\ Owners /\ Outcomes /\ Clocked /\ InFlightIsOwned
      /\ made \in 0..MaxFutures /\ MaxFutures \in Nat /\ key \in [Callers -> Keys]
      /\ claim \in [Callers -> 0..made] /\ clock \in 0..made /\ files \subseteq 1..made
      /\ pc \in [Callers -> {"start", "generating", "waiting"} \union Endings]
  BY BoundsAssumption DEF IInv, TypeOK
<1>4. made' \in 0..MaxFutures /\ made <= made'
  BY <1>2, <1>3 DEF Futures
<1>5. TypeOK'
  <2>1. claim' \in [Callers -> 0..made']
    BY <1>2, <1>3, <1>4
  <2>2. pc' \in [Callers -> {"start", "generating", "waiting"} \union Endings]
    BY <1>2, <1>3 DEF Endings
  <2>3. clock' \in 0..made' /\ files' \subseteq 1..made'
    BY <1>3, <1>4
  <2> QED BY <1>1, <1>4, <2>1, <2>2, <2>3 DEF IInv, TypeOK
\* Each entry is an entry of before or the new claim.
<1>6. \A k \in Keys : entry'[k] # None =>
        \/ entry'[k] = entry[k] /\ entry'[k] = E[k] /\ entry'[k] \in Futures /\ entry'[k] <= made
        \/ /\ k = key[u] /\ entry'[k] = made + 1 /\ made' = made + 1 /\ made + 1 \in Futures
           /\ pc'[u] = "generating" /\ claim'[u] = made + 1 /\ state'[made + 1] = "pending"
  BY <1>2, <1>3 DEF Futures, None
<1>7. \A v \in Callers : v # u => pc'[v] = pc[v] /\ claim'[v] = claim[v] /\ claim[v] <= made
  BY <1>2, <1>3
<1>8. pc'[u] = "generating" => claim'[u] = made + 1 /\ made + 1 \in Futures /\ made' = made + 1
  BY <1>2, <1>3
<1>9. Apart'
  BY <1>3, <1>6 DEF Apart, None
<1>10. Owners'
  <2>1. \A v \in Callers : v # u /\ pc[v] = "generating" =>
            claim[v] # made + 1 /\ claim[v] # None /\ completedAt[claim[v]] = 0
            /\ \A k \in Keys : entry[k] = claim[v] => k = key[v]
    BY <1>3, <1>7 DEF Owners
  <2>2. made + 1 \in Futures => completedAt[made + 1] = 0
    BY <1>3 DEF Outcomes
  <2>3. \A v \in Callers : pc'[v] = "generating" => claim'[v] # None /\ completedAt'[claim'[v]] = 0
    BY <1>3, <1>7, <1>8, <2>1, <2>2 DEF None
  <2>4. \A v \in Callers : pc'[v] = "generating" => \A k \in Keys : entry'[k] = claim'[v] => k = key'[v]
    BY <1>3, <1>6, <1>7, <1>8, <2>1, <2>3
  <2>5. \A v, w \in Callers :
            pc'[v] = "generating" /\ pc'[w] = "generating" /\ claim'[w] = claim'[v] => v = w
    BY <1>3, <1>7, <1>8, <2>1 DEF Owners
  <2> QED BY <2>3, <2>4, <2>5 DEF Owners
<1>11. Outcomes'
  <2>1. \A f \in Futures : f > made' => completedAt'[f] = 0
    BY <1>3, <1>4 DEF Outcomes, Futures
  <2>2. ASSUME NEW f \in Futures, completedAt[f] # 0 PROVE state'[f] \in {"value", "cancelled"}
    <3>1. f <= made /\ state[f] \in {"value", "cancelled"}
      BY <1>3, <2>2 DEF Outcomes, Done, Futures
    <3> QED BY <1>1, <3>1
  <2>3. ASSUME NEW k \in Keys, entry'[k] # None, completedAt[entry'[k]] = 0
        PROVE  state'[entry'[k]] \in {"pending", "cancelled"}
    BY <1>1, <1>3, <1>6, <2>3 DEF Outcomes
  <2> QED BY <2>1, <2>2, <2>3 DEF Outcomes, Done
<1>12. InFlightIsOwned'
  <2>1. ASSUME NEW k \in Keys, entry'[k] # None, completedAt[entry'[k]] = 0
        PROVE  \E v \in Callers : pc'[v] = "generating" /\ key[v] = k /\ claim'[v] = entry'[k]
    <3>1. CASE entry'[k] = entry[k]
      <4>1. PICK v \in Callers : pc[v] = "generating" /\ key[v] = k /\ claim[v] = entry[k]
        BY <1>3, <2>1, <3>1 DEF InFlightIsOwned, InFlight
      <4> QED BY <1>7, <3>1, <4>1
    <3>2. CASE entry'[k] # entry[k]
      BY <1>6, <2>1, <3>2
    <3> QED BY <3>1, <3>2
  <2> QED BY <2>1 DEF InFlightIsOwned, InFlight
<1>13. Clocked' /\ CacheBounded'
  BY <1>1, <1>3 DEF Clocked, Done, CacheBounded, Size
<1> QED BY <1>5, <1>9, <1>10, <1>11, <1>12, <1>13 DEF IInv

\* An owner that is done, its entry out of flight.
LEMMA OwnerEnds ==
    ASSUME IInv, NEW u \in Callers, pc[u] = "generating", UNCHANGED <<made, key, claim>>,
           NEW e \in Endings, pc' = [pc EXCEPT ![u] = e], struck' \subseteq Callers,
           \/ OwnerSucceeds(u)
           \/ Reject(u) /\ UNCHANGED <<completedAt, clock, files>>
    PROVE  IInv'
<1>1. /\ TypeOK /\ Apart /\ Owners /\ Outcomes /\ Clocked /\ InFlightIsOwned
      /\ made \in 0..MaxFutures /\ MaxFutures \in Nat /\ key \in [Callers -> Keys]
      /\ claim \in [Callers -> 0..made] /\ clock \in 0..made /\ files \subseteq 1..made
      /\ pc \in [Callers -> {"start", "generating", "waiting"} \union Endings]
      /\ entry \in [Keys -> 0..made] /\ completedAt \in [Futures -> 0..clock]
      /\ state \in [Futures -> {"unborn", "pending", "value", "error", "cancelled"}]
  BY BoundsAssumption DEF IInv, TypeOK
<1>2. /\ claim[u] \in Futures /\ claim[u] \in 1..made /\ completedAt[claim[u]] = 0
      /\ \A k \in Keys : entry[k] = claim[u] => k = key[u]
  BY <1>1 DEF Owners, Futures, None
<1>3. \A v \in Callers : pc'[v] = "generating" =>
        pc[v] = "generating" /\ v # u /\ claim[v] # claim[u] /\ claim[v] # None
  BY <1>1 DEF Owners, Endings
<1>4. pc' \in [Callers -> {"start", "generating", "waiting"} \union Endings]
  BY <1>1
<1>5. CASE OwnerSucceeds(u) /\ IsCurrent(u)
  <2>1. /\ completedAt' = [completedAt EXCEPT ![claim[u]] = clock + 1] /\ clock' = clock + 1
        /\ state' = SetOnce(claim[u], "value") /\ entry' = entry
        /\ files' = files \union {claim[u]}
    BY <1>5 DEF OwnerSucceeds, Resolve
  <2>2. state[claim[u]] \in {"pending", "cancelled"}
    BY <1>1, <1>2, <1>5 DEF Outcomes, IsCurrent, None
  <2>3. /\ \A f \in Futures : f # claim[u] => state'[f] = state[f] /\ completedAt'[f] = completedAt[f]
        /\ state'[claim[u]] \in {"value", "cancelled"} /\ completedAt'[claim[u]] = clock + 1
        /\ state' \in [Futures -> {"unborn", "pending", "value", "error", "cancelled"}]
    BY <1>1, <1>2, <2>1, <2>2 DEF SetOnce
  <2>4. Done' = Done \union {claim[u]} /\ claim[u] \notin Done /\ Done' \subseteq 1..made
    <3>1. Done' = Done \union {claim[u]} /\ claim[u] \notin Done
      BY <1>1, <1>2, <2>3 DEF Done
    <3>2. Done \subseteq 1..made
      BY <1>1 DEF Done, Outcomes, Futures
    <3> QED BY <1>2, <3>1, <3>2
  <2>5. Clocked' /\ clock' \in 0..made
    <3>1. IsFiniteSet(1..made) /\ Cardinality(1..made) = made
      BY <1>1, FS_Interval
    <3>2. /\ IsFiniteSet(Done') /\ IsFiniteSet(Done) /\ Cardinality(Done') <= made
      BY <2>4, <3>1, FS_Subset
    <3>3. Cardinality(Done') = Cardinality(Done) + 1
      BY <2>4, <3>2, FS_AddElement
    <3> QED BY <1>1, <2>1, <3>2, <3>3 DEF Clocked
  <2>6. completedAt' \in [Futures -> 0..clock']
    BY <1>1, <1>2, <2>1
  <2>7. TypeOK'
    BY <1>1, <1>2, <1>4, <2>1, <2>3, <2>5, <2>6 DEF TypeOK
  <2>8. Apart' /\ CacheBounded'
    BY <2>1 DEF IInv, Apart, CacheBounded
  <2>9. Owners'
    BY <1>1, <1>3, <2>1, <2>3 DEF Owners, Futures, None
  <2>10. Outcomes'
    <3>1. \A f \in Futures : f > made => completedAt'[f] = 0
      BY <1>1, <1>2, <2>3 DEF Outcomes
    <3>2. \A f \in Done' : state'[f] \in {"value", "cancelled"}
      BY <1>1, <2>3, <2>4 DEF Outcomes, Done
    <3>3. ASSUME NEW k \in Keys, entry[k] # None, completedAt'[entry[k]] = 0
          PROVE  state'[entry[k]] \in {"pending", "cancelled"}
      <4>1. entry[k] \in Futures /\ entry[k] # claim[u]
        BY <1>1, <2>3, <3>3 DEF Futures, None
      <4> QED BY <1>1, <2>3, <3>3, <4>1 DEF Outcomes
    <3> QED BY <2>1, <3>1, <3>2, <3>3 DEF Outcomes
  <2>11. ASSUME NEW k \in Keys, entry[k] # None, completedAt'[entry[k]] = 0
         PROVE  \E v \in Callers : pc'[v] = "generating" /\ key[v] = k /\ claim[v] = entry[k]
    <3>1. entry[k] \in Futures /\ entry[k] # claim[u] /\ completedAt[entry[k]] = 0
      BY <1>1, <2>3, <2>11 DEF Futures, None
    <3>2. PICK v \in Callers : pc[v] = "generating" /\ key[v] = k /\ claim[v] = entry[k]
      BY <1>1, <2>11, <3>1 DEF InFlightIsOwned, InFlight
    <3>3. pc'[v] = "generating"
      BY <1>1, <3>1, <3>2
    <3> QED BY <3>2, <3>3
  <2>12. InFlightIsOwned'
    BY <2>1, <2>11 DEF InFlightIsOwned, InFlight
  <2> QED BY <2>5, <2>7, <2>8, <2>9, <2>10, <2>12 DEF IInv
\* Otherwise nothing is completed, and u's own entry, if any, goes.
<1>6. ASSUME UNCHANGED <<completedAt, clock>>, files' \subseteq 1..made,
             state' = state \/ state' = SetOnce(claim[u], "error"),
             \A k \in Keys : entry'[k] = entry[k] \/ entry'[k] = None,
             \A k \in Keys : entry'[k] # claim[u], entry' \in [Keys -> 0..made]
      PROVE  IInv'
  <2>1. /\ \A f \in Futures : f # claim[u] => state'[f] = state[f]
        /\ \A f \in Futures : completedAt[f] # 0 => state'[f] = state[f]
        /\ state' \in [Futures -> {"unborn", "pending", "value", "error", "cancelled"}]
    BY <1>1, <1>2, <1>6 DEF SetOnce
  <2>2. TypeOK' /\ Clocked'
    BY <1>1, <1>4, <1>6, <2>1 DEF TypeOK, Clocked, Done
  <2>3. Apart' /\ Owners'
    BY <1>1, <1>3, <1>6 DEF Apart, Owners
  <2>4. \A k \in Keys : entry'[k] # None => entry[k] = entry'[k] /\ entry[k] \in Futures
    BY <1>1, <1>6 DEF Futures, None
  <2>5. Outcomes'
    <3>1. \A f \in Done' : state'[f] \in {"value", "cancelled"}
      BY <1>1, <1>6, <2>1 DEF Outcomes, Done
    <3>2. \A k \in Keys : entry'[k] # None /\ completedAt'[entry'[k]] = 0 =>
            state'[entry'[k]] \in {"pending", "cancelled"}
      BY <1>1, <1>6, <2>1, <2>4 DEF Outcomes
    <3> QED BY <1>1, <1>6, <3>1, <3>2 DEF Outcomes
  <2>6. ASSUME NEW k \in Keys, entry'[k] # None, completedAt[entry'[k]] = 0
        PROVE  \E v \in Callers : pc'[v] = "generating" /\ key[v] = k /\ claim[v] = entry'[k]
    <3>1. PICK v \in Callers : pc[v] = "generating" /\ key[v] = k /\ claim[v] = entry[k]
      BY <1>1, <2>4, <2>6 DEF InFlightIsOwned, InFlight
    <3>2. v # u
      BY <1>6, <2>4, <2>6, <3>1
    <3> QED BY <1>1, <2>4, <2>6, <3>1, <3>2
  <2>7. InFlightIsOwned'
    BY <1>6, <2>6 DEF InFlightIsOwned, InFlight
  <2>8. Size(entry') <= Size(entry) /\ Size(entry) <= MaxEntries
        /\ Size(entry) \in Nat /\ Size(entry') \in Nat
    BY <2>4, Sizes DEF IInv, CacheBounded, Size
  <2>9. CacheBounded'
    BY <2>8, BoundsAssumption DEF CacheBounded, Size
  <2> QED BY <2>2, <2>3, <2>5, <2>7, <2>9 DEF IInv
<1>7. CASE OwnerSucceeds(u) /\ ~IsCurrent(u)
  BY <1>1, <1>2, <1>6, <1>7 DEF OwnerSucceeds, Resolve, IsCurrent
<1>8. CASE Reject(u) /\ UNCHANGED <<completedAt, clock, files>>
  BY <1>1, <1>2, <1>6, <1>8 DEF Reject, IsCurrent, None
<1> QED BY <1>5, <1>7, <1>8

\* A waiter that goes without a new claim may cancel its future and drop its key.
LEMMA WaiterEnds ==
    ASSUME IInv, NEW u \in Callers, pc[u] = "waiting", NEW e \in Endings,
           pc' = [pc EXCEPT ![u] = e], struck' \subseteq Callers,
           UNCHANGED <<completedAt, clock, made, files, key, claim>>,
           state' = state \/ state' = SetOnce(claim[u], "cancelled"),
           entry' = entry \/ entry' = Drop(entry, {key[u]})
    PROVE  IInv'
<1>1. /\ TypeOK /\ Apart /\ Owners /\ Outcomes /\ Clocked /\ InFlightIsOwned
      /\ made \in 0..MaxFutures /\ MaxFutures \in Nat
      /\ pc \in [Callers -> {"start", "generating", "waiting"} \union Endings]
      /\ entry \in [Keys -> 0..made]
      /\ state \in [Futures -> {"unborn", "pending", "value", "error", "cancelled"}]
  BY BoundsAssumption DEF IInv, TypeOK
<1>2. \A v \in Callers : pc'[v] = "generating" <=> pc[v] = "generating"
  BY <1>1 DEF Endings
<1>3. /\ entry' \in [Keys -> 0..made]
      /\ \A k \in Keys : entry'[k] # None => entry[k] = entry'[k] /\ entry[k] \in Futures
  BY <1>1 DEF Drop, Futures, None
<1>4. /\ \A f \in Futures : state'[f] = state[f] \/ (state[f] = "pending" /\ state'[f] = "cancelled")
      /\ state' \in [Futures -> {"unborn", "pending", "value", "error", "cancelled"}]
  BY <1>1 DEF SetOnce
<1>5. TypeOK' /\ Clocked'
  BY <1>1, <1>3, <1>4 DEF TypeOK, Clocked, Done
<1>6. Apart' /\ Owners'
  BY <1>1, <1>2, <1>3 DEF Apart, Owners
<1>7. Outcomes'
  BY <1>1, <1>3, <1>4 DEF Outcomes, Done
<1>8. InFlightIsOwned'
  BY <1>1, <1>2, <1>3 DEF InFlightIsOwned, InFlight
<1>9. Size(entry') <= Size(entry) /\ Size(entry) <= MaxEntries
      /\ Size(entry) \in Nat /\ Size(entry') \in Nat
  BY <1>3, Sizes DEF IInv, CacheBounded, Size
<1>10. CacheBounded'
  BY <1>9, BoundsAssumption DEF CacheBounded, Size
<1> QED BY <1>5, <1>6, <1>7, <1>8, <1>10 DEF IInv

-----------------------------------------------------------------------------
LEMMA InitKeeps == Init => IInv
<1> SUFFICES ASSUME Init PROVE IInv
  OBVIOUS
<1>1. TypeOK
  BY BoundsAssumption DEF Init, TypeOK, None, Futures
<1>2. Apart /\ Owners /\ Outcomes /\ InFlightIsOwned
  BY DEF Init, Apart, Owners, Outcomes, Done, InFlightIsOwned, InFlight
<1>3. Clocked
  BY FS_EmptySet DEF Init, Clocked, Done
<1>4. CacheBounded
  <2>1. {k \in Keys : entry[k] # None} = {}
    BY DEF Init
  <2> QED BY <2>1, FS_EmptySet, BoundsAssumption DEF CacheBounded
<1> QED BY <1>1, <1>2, <1>3, <1>4 DEF IInv

\* What a waiter that finds its files gone claims from.
LEMMA Invalidated ==
    ASSUME IInv, NEW D
    PROVE  /\ entry \in [Keys -> 0..made]
           /\ Drop(entry, D) \in [Keys -> 0..made]
           /\ \A k \in Keys : Drop(entry, D)[k] # None => Drop(entry, D)[k] = entry[k]
BY BoundsAssumption DEF IInv, TypeOK, Drop, None

LEMMA WaiterKeeps ==
    ASSUME IInv, NEW u \in Callers, WaiterWakes(u) \/ WaiterCancelled(u) \/ WaiterTimeout(u)
    PROVE  IInv'
<1>1. pc[u] = "waiting" /\ struck \subseteq Callers
  BY DEF WaiterWakes, WaiterCancelled, WaiterTimeout, IInv, TypeOK
<1>2. {"reused", "failed", "cancelled"} \subseteq Endings
  BY DEF Endings
<1>3. CASE WaiterWakes(u) /\ Claim(u, Drop(entry, {key[u]}), state)
  BY <1>1, <1>3, Invalidated, ClaimKeeps DEF WaiterWakes
<1>4. CASE WaiterWakes(u) /\ ~Claim(u, Drop(entry, {key[u]}), state)
  <2>1. PICK e \in Endings : pc' = [pc EXCEPT ![u] = e]
    BY <1>2, <1>4 DEF WaiterWakes
  <2>2. UNCHANGED <<entry, state, completedAt, clock, made, files, key, claim, struck>>
    BY <1>4 DEF WaiterWakes
  <2> QED BY <1>1, <2>1, <2>2, WaiterEnds
<1>5. CASE WaiterCancelled(u)
  BY <1>1, <1>2, <1>5, WaiterEnds DEF WaiterCancelled
<1>6. CASE WaiterTimeout(u)
  BY <1>1, <1>2, <1>6, WaiterEnds DEF WaiterTimeout
<1> QED BY <1>3, <1>4, <1>5, <1>6

LEMMA OwnerKeeps ==
    ASSUME IInv, NEW u \in Callers, OwnerSucceeds(u) \/ OwnerFails(u) \/ OwnerCancelled(u)
    PROVE  IInv'
<1>1. /\ pc[u] = "generating" /\ struck \subseteq Callers /\ UNCHANGED <<made, key, claim>>
  BY DEF OwnerSucceeds, OwnerFails, OwnerCancelled, IInv, TypeOK
<1>2. {"generated", "failed", "cancelled"} \subseteq Endings
  BY DEF Endings
<1>3. CASE OwnerSucceeds(u)
  <2>1. pc' = [pc EXCEPT ![u] = "generated"] /\ struck' = struck
    BY <1>3 DEF OwnerSucceeds
  <2> QED BY <1>1, <1>2, <1>3, <2>1, OwnerEnds
<1>4. CASE OwnerFails(u)
  BY <1>1, <1>2, <1>4, OwnerEnds DEF OwnerFails
<1>5. CASE OwnerCancelled(u)
  BY <1>1, <1>2, <1>5, OwnerEnds DEF OwnerCancelled
<1> QED BY <1>3, <1>4, <1>5

LEMMA NextKeeps == IInv /\ [Next]_vars => IInv'
<1> SUFFICES ASSUME IInv, [Next]_vars PROVE IInv'
  OBVIOUS
<1>1. ASSUME NEW u \in Callers, Arrive(u) PROVE IInv'
  <2>1. entry \in [Keys -> 0..made] /\ pc[u] # "generating"
    BY <1>1 DEF Arrive, IInv, TypeOK
  <2> QED BY <1>1, <2>1, ClaimKeeps DEF Arrive
<1>2. CASE FilesPruned
  BY <1>2 DEF FilesPruned, IInv, TypeOK, Apart, Owners, Outcomes, Done, Clocked, InFlightIsOwned,
              InFlight, CacheBounded
<1>3. CASE UNCHANGED vars
  BY <1>3 DEF vars, IInv, TypeOK, Apart, Owners, Outcomes, Done, Clocked, InFlightIsOwned,
              InFlight, CacheBounded
<1> QED BY <1>1, <1>2, <1>3, OwnerKeeps, WaiterKeeps DEF Next, Settled

\* The invariant holds in every reachable state.
THEOREM CacheInductive == Spec => []IInv
  BY InitKeeps, NextKeeps, PTL DEF Spec

\* Whatever owners, waiters, expiry and eviction do, an entry in flight has an
\* owner at work, a completed entry its outcome, and the limit holds
\* (image_batch.py:34, 100, M-24).
THEOREM CacheSafe == Spec => []CacheSound
<1>1. IInv => CacheSound
  <2> SUFFICES ASSUME IInv PROVE CacheSound
    OBVIOUS
  <2>1. ASSUME NEW k \in Completed(entry) PROVE state[entry[k]] \in {"value", "cancelled"}
    <3>1. entry[k] \in Futures
      BY BoundsAssumption DEF Completed, IInv, TypeOK, Futures, None
    <3> QED BY <2>1, <3>1 DEF Completed, IInv, Outcomes, Done
  <2> QED BY <2>1 DEF IInv, CacheSound, CompletedIsDone
<1> QED BY <1>1, CacheInductive, PTL

-----------------------------------------------------------------------------
(* Displacement.                                                           *)

\* A claim leaves every pending entry of the cache it is made on in place.
LEMMA ClaimDisplaces ==
    ASSUME IInv, NEW u \in Callers, NEW E \in [Keys -> 0..made],
           \A k \in Keys : E[k] # None => E[k] = entry[k], Claim(u, E, state),
           NEW k \in Keys, E[k] # None, entry'[k] # entry[k]
    PROVE  state'[entry[k]] # "pending"
<1>1. IF entry'[k] = E[k]
      THEN completedAt[E[k]] = 0 => state'[E[k]] = state[E[k]]
      ELSE state'[E[k]] # "pending"
  BY Claims
<1> QED BY <1>1

LEMMA OnlyWaiters ==
    ASSUME IInv, [Next]_vars, NEW k \in Keys, entry[k] # None, entry'[k] # entry[k],
           state'[entry[k]] = "pending"
    PROVE  \E u \in Callers : /\ pc[u] = "waiting" /\ key[u] = k
                              /\ (pc'[u] # "waiting" \/ claim'[u] # claim[u])
<1>1. /\ entry \in [Keys -> 0..made] /\ pc \in [Callers -> {"start", "generating", "waiting"} \union Endings]
      /\ claim \in [Callers -> 0..made] /\ entry[k] \in Futures /\ made \in Nat
      /\ state \in [Futures -> {"unborn", "pending", "value", "error", "cancelled"}]
  BY BoundsAssumption DEF IInv, TypeOK, Futures, None
<1>2. ASSUME NEW u \in Callers, Arrive(u) PROVE FALSE
  BY <1>1, <1>2, ClaimDisplaces DEF Arrive
<1>3. ASSUME NEW u \in Callers, OwnerFails(u) \/ OwnerCancelled(u) PROVE FALSE
  <2>1. Reject(u)
    BY <1>3 DEF OwnerFails, OwnerCancelled
  <2>2. entry[k] = claim[u]
    BY <2>1, <1>1 DEF Reject, IsCurrent
  <2> QED BY <1>1, <2>1, <2>2 DEF Reject, SetOnce
<1>4. ASSUME NEW u \in Callers, WaiterWakes(u)
      PROVE  /\ pc[u] = "waiting" /\ key[u] = k
             /\ (pc'[u] # "waiting" \/ claim'[u] # claim[u])
  <2> DEFINE E == Drop(entry, {key[u]})
  <2>1. Claim(u, E, state) /\ pc[u] = "waiting"
    BY <1>4 DEF WaiterWakes
  <2>2. E \in [Keys -> 0..made] /\ \A j \in Keys : E[j] # None => E[j] = entry[j]
    BY Invalidated
  <2>3. E[k] = None
    <3> HIDE DEF E
    <3> QED BY <2>1, <2>2, ClaimDisplaces
  <2>4. key[u] = k /\ E[key[u]] = None
    BY <2>3 DEF Drop
  <2> HIDE DEF E
  <2>5. pc' = [pc EXCEPT ![u] = "failed"] \/ pc' = [pc EXCEPT ![u] = "generating"]
    BY <2>1, <2>2, <2>4, Claims
  <2> QED BY <1>1, <2>1, <2>4, <2>5
<1>5. ASSUME NEW u \in Callers, WaiterTimeout(u)
      PROVE  /\ pc[u] = "waiting" /\ key[u] = k /\ pc'[u] # "waiting"
  BY <1>1, <1>5 DEF WaiterTimeout, Drop
<1>6. ASSUME entry' = entry PROVE FALSE
  BY <1>6
<1> QED
  BY <1>2, <1>3, <1>4, <1>5, <1>6
  DEF Next, OwnerSucceeds, WaiterCancelled, FilesPruned, Settled, vars

\* No end of a displaced owner and no need for room takes the entry of an owner
\* at work: only a waiter of that key, giving up or finding its files gone
\* (proxy.py:418, image_batch.py:100).
THEOREM OwnersStay == Spec => OnlyWaitersDisplace
<1> DEFINE Displaced == \A k \in Keys :
         entry[k] # None /\ entry'[k] # entry[k] /\ state'[entry[k]] = "pending"
         => \E u \in Callers : /\ pc[u] = "waiting" /\ key[u] = k
                              /\ (pc'[u] # "waiting" \/ claim'[u] # claim[u])
<1>1. IInv /\ [Next]_vars => [Displaced]_vars
  BY OnlyWaiters
<1>2. Spec => [][Displaced]_vars
  BY <1>1, CacheInductive, PTL DEF Spec
<1> QED BY <1>2 DEF OnlyWaitersDisplace

-----------------------------------------------------------------------------
(* The dictionary: its entries are in one order, those without an entry have *)
(* no count, and the expired ones are the oldest.                            *)

InOrder(d) ==
    /\ \A x \in d.older : x[1] \in d.held /\ x[2] \in d.held /\ x[1] # x[2]
    /\ \A j, k \in d.held : j # k => <<j, k>> \in d.older \/ <<k, j>> \in d.older
    /\ \A i, j, k \in d.held : <<i, j>> \in d.older /\ <<j, k>> \in d.older => <<i, k>> \in d.older
DictOK(d) ==
    /\ d \in TTLDicts(Convs, MaxSize)
    /\ d.dead \in Oldest(d)
    /\ IsFiniteSet(d.held)
    /\ \A k \in Convs \ d.held : d.val[k] = 0
    /\ InOrder(d)
Fits(d) == Cardinality(d.held) <= d.size

LEMMA DictFields ==
    ASSUME NEW d \in TTLDicts(Convs, MaxSize)
    PROVE  /\ d.val \in [Convs -> Nat] /\ d.held \subseteq Convs /\ d.dead \subseteq Convs
           /\ d.older \subseteq Convs \X Convs /\ d.size \in 1..MaxSize /\ d.size \in Nat \ {0}
BY BridgeAssumption DEF TTLDicts

LEMMA EmptyIsOK ==
    ASSUME NEW size \in 1..MaxSize
    PROVE  /\ DictOK(Empty(Convs, size)) /\ Fits(Empty(Convs, size))
           /\ \A k \in Convs : Empty(Convs, size).val[k] = 0
<1> DEFINE d == Empty(Convs, size)
<1>1. d \in TTLDicts(Convs, MaxSize)
    BY DEF Empty, TTLDicts
<1>2. d.held = {} /\ d.dead = {} /\ d.older = {} /\ d.val = [k \in Convs |-> 0] /\ d.size = size
    BY DEF Empty
<1>3. size \in Nat
    BY BridgeAssumption
<1> HIDE DEF d
<1>4. IsFiniteSet(d.held) /\ Cardinality(d.held) = 0
    BY <1>2, FS_EmptySet
<1>5. d.dead \in Oldest(d) /\ InOrder(d)
    BY <1>2 DEF Oldest, InOrder
<1> QED
    BY <1>1, <1>2, <1>3, <1>4, <1>5 DEF DictOK, Fits, d

LEMMA DropKeeps ==
    ASSUME NEW d, DictOK(d), NEW K, NEW e, e = DropKeys(d, K)
    PROVE  /\ DictOK(e) /\ e.held = d.held \ K /\ e.size = d.size
           /\ \A k \in Convs : e.val[k] = IF k \in K THEN 0 ELSE d.val[k]
           /\ Cardinality(e.held) \in Nat /\ Cardinality(d.held) \in Nat
           /\ Cardinality(e.held) <= Cardinality(d.held)
<1>1. /\ e.val = [k \in DOMAIN d.val |-> IF k \in K THEN 0 ELSE d.val[k]]
      /\ e.held = d.held \ K /\ e.dead = d.dead \ K
      /\ e.older = {x \in d.older : x[1] \notin K /\ x[2] \notin K} /\ e.size = d.size
      /\ e = [val |-> e.val, held |-> e.held, dead |-> e.dead, older |-> e.older, size |-> e.size]
    BY DEF DropKeys
<1>2. /\ d.val \in [Convs -> Nat] /\ d.held \subseteq Convs /\ d.dead \subseteq Convs
      /\ d.older \subseteq Convs \X Convs /\ d.size \in 1..MaxSize
    BY DictFields DEF DictOK
<1>3. e.val \in [Convs -> Nat] /\ \A k \in Convs : e.val[k] = IF k \in K THEN 0 ELSE d.val[k]
    BY <1>1, <1>2
<1>4. e \in TTLDicts(Convs, MaxSize)
    BY <1>1, <1>2, <1>3 DEF TTLDicts
<1>5. IsFiniteSet(e.held) /\ IsFiniteSet(d.held)
      /\ Cardinality(e.held) \in Nat /\ Cardinality(d.held) \in Nat
      /\ Cardinality(e.held) <= Cardinality(d.held)
    BY <1>1, FS_Subset, FS_CardinalityType DEF DictOK
<1>6. e.dead \in Oldest(e)
    BY <1>1 DEF DictOK, Oldest
<1>7. InOrder(e)
    BY <1>1 DEF DictOK, InOrder
<1>8. \A k \in Convs \ e.held : e.val[k] = 0
    BY <1>1, <1>3 DEF DictOK
<1> QED
    BY <1>1, <1>3, <1>4, <1>5, <1>6, <1>7, <1>8 DEF DictOK

\* Of some entries one is the oldest: their order has no infinite descent.
LEMMA OneIsOldest ==
    ASSUME NEW d, DictOK(d), NEW Y \in SUBSET d.held, Y # {}
    PROVE  \E y \in Y : \A k \in Y \ {y} : <<y, k>> \in d.older
<1> DEFINE Elder(y) == {j \in Y : <<j, y>> \in d.older}
           T == {Elder(y) : y \in Y}
           R == StrictSubsetOrdering(d.held)
<1>1. T \subseteq FiniteSubsetsOf(d.held) /\ T # {}
  <2>1. ASSUME NEW y \in Y PROVE Elder(y) \in FiniteSubsetsOf(d.held)
    <3>1. Elder(y) \subseteq d.held
        OBVIOUS
    <3> HIDE DEF Elder
    <3> QED
        BY <3>1, FS_Subset DEF FiniteSubsetsOf, DictOK
  <2> QED
      BY <2>1
<1>2. \E I \in T : \A J \in T : <<J, I>> \notin R
  <2> HIDE DEF T, R
  <2>1. IsWellFoundedOn(R, FiniteSubsetsOf(d.held))
      BY FS_StrictSubsetOrderingWellFounded DEF R
  <2> QED
      BY <1>1, <2>1, WFMin
<1>3. PICK y \in Y : \A j \in Y : <<Elder(j), Elder(y)>> \notin R
    BY <1>2
<1>4. ASSUME NEW j \in Elder(y) PROVE FALSE
  <2>1. j \in Y /\ <<j, y>> \in d.older
      OBVIOUS
  <2>2. Elder(j) \subseteq Elder(y)
      BY <2>1 DEF DictOK, InOrder
  <2>3. j \notin Elder(j)
      BY DEF DictOK, InOrder
  <2>4. Elder(j) \subseteq d.held /\ Elder(y) \subseteq d.held
      OBVIOUS
  <2> HIDE DEF Elder
  <2>5. Elder(j) # Elder(y)
      BY <1>4, <2>3
  <2> QED
      BY <1>3, <2>1, <2>2, <2>4, <2>5 DEF StrictSubsetOrdering
<1>5. \A k \in Y \ {y} : <<k, y>> \notin d.older
    BY <1>4
<1> QED
    BY <1>5 DEF DictOK, InOrder

LEMMA ShrinkFits ==
    ASSUME NEW d, DictOK(d), NEW n \in Nat, NEW e, e = Shrink(d, n)
    PROVE  /\ DictOK(e) /\ e.held \subseteq d.held /\ e.size = d.size
           /\ \A k \in Convs : e.val[k] = IF k \in d.held \ e.held THEN 0 ELSE d.val[k]
           /\ Cardinality(e.held) <= n
<1> DEFINE K == {k \in d.held : Cardinality(Younger(d, k)) >= n}
           Y == d.held \ K
<1>1. e = DropKeys(d, K)
    BY DEF Shrink
<1>2. K \subseteq d.held /\ Y \subseteq d.held
    OBVIOUS
<1>3. DictOK(e) /\ e.held = Y /\ e.size = d.size /\ \A k \in Convs : e.val[k] = IF k \in K THEN 0 ELSE d.val[k]
  <2> HIDE DEF K
  <2> QED
    BY <1>1, DropKeeps
<1>4. \A k \in Convs : k \in K <=> k \in d.held \ e.held
    BY <1>2, <1>3
<1>5. CASE Y = {}
  <2>1. Cardinality(e.held) = 0
    <3> HIDE DEF Y
    <3> QED
      BY <1>3, <1>5, FS_EmptySet
  <2> QED
    <3> HIDE DEF Y, K
    <3> QED
      BY <1>2, <1>3, <1>4, <2>1
<1>6. CASE Y # {}
  <2>1. PICK y \in Y : \A k \in Y \ {y} : <<y, k>> \in d.older
    <3> HIDE DEF Y
    <3> QED
      BY <1>2, <1>6, OneIsOldest
  <2>2. Y \ {y} \subseteq Younger(d, y) /\ Younger(d, y) \subseteq d.held
      BY <2>1 DEF Younger
  <2>3. IsFiniteSet(Younger(d, y)) /\ IsFiniteSet(Y)
    <3> HIDE DEF Y
    <3> QED
      BY <1>2, <2>2, FS_Subset DEF DictOK
  <2>4. Cardinality(Younger(d, y)) \in Nat /\ ~(Cardinality(Younger(d, y)) >= n)
      BY <2>3, FS_CardinalityType
  <2>5. /\ Cardinality(Y \ {y}) = Cardinality(Y) - 1 /\ Cardinality(Y) \in Nat
        /\ Cardinality(Y \ {y}) <= Cardinality(Younger(d, y))
    <3> HIDE DEF Y
    <3> QED
      BY <2>1, <2>2, <2>3, FS_RemoveElement, FS_Subset, FS_CardinalityType
  <2>6. Cardinality(Y) <= n
      BY <2>4, <2>5
  <2> QED
    <3> HIDE DEF Y, K
    <3> QED
      BY <1>2, <1>3, <1>4, <2>6
<1> QED
    BY <1>5, <1>6

LEMMA RoomIs ==
    ASSUME NEW d, DictOK(d), Fits(d), NEW e, e = Room(d)
    PROVE  /\ DictOK(e) /\ e.held \subseteq d.held /\ e.size = d.size
           /\ \A k \in Convs : e.val[k] = IF k \in d.held \ e.held THEN 0 ELSE d.val[k]
           /\ Cardinality(e.held) < d.size
<1>1. d.size \in Nat \ {0} /\ Cardinality(d.held) \in Nat /\ d.dead \subseteq d.held
    BY DictFields, FS_CardinalityType DEF DictOK, Oldest
<1>2. CASE Cardinality(d.held) < d.size
    BY <1>2 DEF Room
<1>3. CASE ~(Cardinality(d.held) < d.size)
  <2>1. PICK p : p = Purge(d)
      OBVIOUS
  <2>2. /\ DictOK(p) /\ p.held = d.held \ d.dead /\ p.size = d.size
        /\ \A k \in Convs : p.val[k] = IF k \in d.dead THEN 0 ELSE d.val[k]
      BY <2>1, DropKeeps DEF Purge
  <2>3. e = Shrink(p, d.size - 1) /\ d.size - 1 \in Nat
      BY <1>1, <1>3, <2>1 DEF Room
  <2>4. /\ DictOK(e) /\ e.held \subseteq p.held /\ e.size = p.size
        /\ \A k \in Convs : e.val[k] = IF k \in p.held \ e.held THEN 0 ELSE p.val[k]
        /\ Cardinality(e.held) <= d.size - 1
      BY <2>2, <2>3, ShrinkFits
  <2>5. Cardinality(e.held) \in Nat
      BY <2>4, FS_CardinalityType DEF DictOK
  <2> QED
      BY <1>1, <2>2, <2>4, <2>5
<1> QED
    BY <1>2, <1>3

LEMMA WrittenIs ==
    ASSUME NEW d, DictOK(d), NEW k \in Convs, NEW v \in Nat, NEW e, e = Written(d, k, v)
    PROVE  /\ DictOK(e) /\ e.held = d.held \cup {k} /\ e.size = d.size
           /\ e.val[k] = v /\ \A j \in Convs \ {k} : e.val[j] = d.val[j]
<1>1. /\ e.val = [d.val EXCEPT ![k] = v]
      /\ e.held = d.held \cup {k} /\ e.dead = d.dead \ {k}
      /\ e.older = {x \in d.older : x[1] # k} \cup {<<j, k>> : j \in d.held \ {k}} /\ e.size = d.size
      /\ e = [val |-> e.val, held |-> e.held, dead |-> e.dead, older |-> e.older, size |-> e.size]
    BY DEF Written
<1>2. /\ d.val \in [Convs -> Nat] /\ d.held \subseteq Convs /\ d.dead \subseteq Convs
      /\ d.older \subseteq Convs \X Convs /\ d.size \in 1..MaxSize
    BY DictFields DEF DictOK
<1>3. e.val \in [Convs -> Nat] /\ e.val[k] = v /\ \A j \in Convs \ {k} : e.val[j] = d.val[j]
    BY <1>1, <1>2
<1>4. e.older \subseteq Convs \X Convs
    BY <1>1, <1>2
<1>5. e \in TTLDicts(Convs, MaxSize)
    BY <1>1, <1>2, <1>3, <1>4 DEF TTLDicts
<1>6. IsFiniteSet(e.held)
    BY <1>1, FS_AddElement DEF DictOK
<1>7. \A i, j : <<i, j>> \in e.older <=>
        \/ <<i, j>> \in d.older /\ i # k
        \/ j = k /\ i \in d.held \ {k}
    BY <1>1
<1>8. e.dead \in Oldest(e)
    BY <1>1, <1>7 DEF DictOK, Oldest
<1>9. \A x \in e.older : x = <<x[1], x[2]>>
    BY <1>4
<1>10. InOrder(e)
  <2>1. \A x \in d.older : x[1] \in d.held /\ x[2] \in d.held /\ x[1] # x[2]
      BY DEF DictOK, InOrder
  <2>2. \A x \in e.older : x[1] \in e.held /\ x[2] \in e.held /\ x[1] # x[2]
      BY <1>1, <2>1
  <2>3. ASSUME NEW i \in e.held, NEW j \in e.held, i # j
        PROVE  <<i, j>> \in e.older \/ <<j, i>> \in e.older
      BY <1>1, <1>7, <2>3 DEF DictOK, InOrder
  <2>4. ASSUME NEW h \in e.held, NEW i \in e.held, NEW j \in e.held, <<h, i>> \in e.older, <<i, j>> \in e.older
        PROVE  <<h, j>> \in e.older
    <3>1. i # k
        BY <1>1, <2>1, <2>4
    <3>2. <<h, i>> \in d.older /\ h # k /\ h \in d.held /\ i \in d.held
        BY <1>7, <2>1, <2>4, <3>1
    <3> QED
        BY <1>7, <2>4, <3>1, <3>2 DEF DictOK, InOrder
  <2> QED
      BY <2>2, <2>3, <2>4 DEF InOrder
<1>11. \A j \in Convs \ e.held : e.val[j] = 0
    BY <1>1, <1>3 DEF DictOK
<1> QED
    BY <1>1, <1>3, <1>5, <1>6, <1>8, <1>10, <1>11 DEF DictOK

\* What a method on the entry of c does to the others is to evict them.
Others(d, b, c) == \A j \in Convs \ {c} : b.val[j] = IF j \in d.held \ b.held THEN 0 ELSE d.val[j]

LEMMA LessIs ==
    ASSUME NEW m \in Nat, NEW n \in Nat
    PROVE  /\ Less(m, n) \in Nat /\ Less(m, n) <= m /\ Less(m, n) = IF m < n THEN 0 ELSE m - n
           /\ Least(m, n) \in Nat /\ Least(m, n) <= m /\ Least(m, n) <= n
BY DEF Less, Least

LEMMA StoreIs ==
    ASSUME NEW d, DictOK(d), Fits(d), NEW k \in Convs, NEW v \in Nat, NEW b, b = Store(d, k, v)
    PROVE  /\ DictOK(b) /\ Fits(b) /\ Others(d, b, k)
           /\ k \in b.held /\ b.val[k] = v
           /\ k \in d.held => b.held = d.held
<1>1. PICK e : e = IF k \in d.held THEN d ELSE Room(d)
    OBVIOUS
<1>2. /\ DictOK(e) /\ e.held \subseteq d.held /\ e.size = d.size
      /\ \A j \in Convs : e.val[j] = IF j \in d.held \ e.held THEN 0 ELSE d.val[j]
      /\ k \in e.held \/ Cardinality(e.held) < d.size
      /\ k \in d.held => e = d
      /\ Cardinality(e.held) <= d.size
  <2>1. CASE k \in d.held
      BY <1>1, <2>1 DEF Fits
  <2>2. CASE k \notin d.held
    <3>1. e = Room(d)
        BY <1>1, <2>2
    <3>2. d.size \in Nat
        BY DictFields DEF DictOK
    <3>3. /\ DictOK(e) /\ e.held \subseteq d.held /\ e.size = d.size
          /\ \A j \in Convs : e.val[j] = IF j \in d.held \ e.held THEN 0 ELSE d.val[j]
          /\ Cardinality(e.held) < d.size
        BY <3>1, RoomIs
    <3>4. Cardinality(e.held) \in Nat
        BY <3>3, FS_CardinalityType DEF DictOK
    <3> QED
        BY <2>2, <3>2, <3>3, <3>4
  <2> QED
      BY <2>1, <2>2
<1>3. b = Written(e, k, v)
    BY <1>1 DEF Store
<1>4. /\ DictOK(b) /\ b.held = e.held \cup {k} /\ b.size = e.size
      /\ b.val[k] = v /\ \A j \in Convs \ {k} : b.val[j] = e.val[j]
    BY <1>2, <1>3, WrittenIs
<1>5. /\ Cardinality(b.held) = IF k \in e.held THEN Cardinality(e.held) ELSE Cardinality(e.held) + 1
      /\ Cardinality(e.held) \in Nat /\ e.size \in Nat
  <2>1. IsFiniteSet(e.held) /\ e.size \in Nat
      BY <1>2, DictFields DEF DictOK
  <2>2. b.held = e.held \cup {k}
      BY <1>4
  <2> QED
      BY <2>1, <2>2, FS_AddElement, FS_CardinalityType
<1>6. Fits(b)
    BY <1>2, <1>4, <1>5 DEF Fits
<1>7. Others(d, b, k)
    BY <1>2, <1>4 DEF Others
<1> QED
    BY <1>2, <1>4, <1>6, <1>7

Used(d, k) == IF Expired(d, k) THEN 0 ELSE d.val[k]

LEMMA FreshIs ==
    ASSUME NEW d, DictOK(d), Fits(d), NEW k \in Convs, NEW e, e = Fresh(d, k)
    PROVE  /\ DictOK(e) /\ Fits(e) /\ Used(d, k) \in Nat
           /\ e.held \subseteq d.held /\ d.held \ e.held = IF Expired(d, k) THEN {k} ELSE {}
           /\ e.val[k] = Used(d, k) /\ \A j \in Convs \ {k} : e.val[j] = d.val[j]
<1>1. d.size \in Nat /\ d.val \in [Convs -> Nat] /\ d.dead \subseteq d.held
    BY DictFields DEF DictOK, Oldest
<1>2. CASE Expired(d, k)
  <2>1. e = DropKeys(d, {k})
      BY <1>2 DEF Fresh
  <2>2. /\ DictOK(e) /\ e.held = d.held \ {k} /\ e.size = d.size
        /\ \A j \in Convs : e.val[j] = IF j \in {k} THEN 0 ELSE d.val[j]
        /\ Cardinality(e.held) \in Nat /\ Cardinality(d.held) \in Nat
        /\ Cardinality(e.held) <= Cardinality(d.held)
      BY <2>1, DropKeeps
  <2>3. Fits(e)
      BY <1>1, <2>2 DEF Fits
  <2>4. k \in d.held
      BY <1>1, <1>2 DEF Expired
  <2> QED
      BY <1>2, <2>2, <2>3, <2>4 DEF Used
<1>3. CASE ~Expired(d, k)
    BY <1>1, <1>3 DEF Fresh, Used
<1> QED
    BY <1>2, <1>3

\* A reservation stays within the limit.
Reserved(d, b, k, limit, n) ==
    \E a \in 0..n, u \in Nat :
       /\ a = Allowed(d, k, limit, n) /\ u = Used(d, k)
       /\ u <= limit => u + a <= limit
       /\ DictOK(b) /\ Fits(b) /\ Others(d, b, k) /\ b.val[k] = u + a
       /\ k \in d.held \ b.held => Expired(d, k) /\ a = 0

LEMMA ReserveIs ==
    ASSUME NEW d, DictOK(d), Fits(d), NEW k \in Convs, NEW limit \in Nat, NEW n \in Nat \ {0},
           NEW b, b = Reserve(d, k, limit, n)
    PROVE  Reserved(d, b, k, limit, n)
<1>1. PICK e : e = Fresh(d, k)
    OBVIOUS
<1>2. /\ DictOK(e) /\ Fits(e) /\ Used(d, k) \in Nat
      /\ e.held \subseteq d.held /\ d.held \ e.held = IF Expired(d, k) THEN {k} ELSE {}
      /\ e.val[k] = Used(d, k) /\ \A j \in Convs \ {k} : e.val[j] = d.val[j]
    BY <1>1, FreshIs
<1>3. PICK u \in Nat : u = Used(d, k)
    BY <1>2
<1>4. PICK a \in 0..n : a = Allowed(d, k, limit, n) /\ (u <= limit => u + a <= limit)
  <2>1. Allowed(d, k, limit, n) = Least(n, Less(limit, u))
      BY <1>1, <1>2, <1>3 DEF Allowed
  <2>2. Least(n, Less(limit, u)) \in 0..n /\ (u <= limit => u + Least(n, Less(limit, u)) <= limit)
      BY DEF Least, Less
  <2> QED
      BY <2>1, <2>2
<1>5. b = IF a = 0 THEN e ELSE Store(e, k, u + a)
    BY <1>1, <1>2, <1>3, <1>4 DEF Reserve
<1>6. CASE a = 0
  <2>1. Others(d, e, k)
      BY <1>2 DEF Others
  <2>2. b = e /\ e.val[k] = u + a
      BY <1>2, <1>3, <1>5, <1>6
  <2> QED
      BY <1>2, <1>3, <1>4, <1>6, <2>1, <2>2 DEF Reserved
<1>7. CASE a # 0
  <2>1. b = Store(e, k, u + a) /\ u + a \in Nat
      BY <1>5, <1>7
  <2>2. DictOK(b) /\ Fits(b) /\ Others(e, b, k) /\ k \in b.held /\ b.val[k] = u + a
      BY <1>2, <2>1, StoreIs
  <2>3. Others(d, b, k)
      BY <1>2, <2>2 DEF Others
  <2> QED
      BY <1>3, <1>4, <2>2, <2>3 DEF Reserved
<1> QED
    BY <1>6, <1>7

LEMMA RefundIs ==
    ASSUME NEW d, DictOK(d), Fits(d), NEW k \in Convs, NEW n \in Nat, NEW b, b = Refund(d, k, n)
    PROVE  /\ DictOK(b) /\ Fits(b) /\ Others(d, b, k)
           /\ IF k \in d.held \ b.held THEN b.val[k] = 0
              ELSE b.val[k] = Less(d.val[k], n)
           /\ d.held \ b.held \subseteq {k}
<1>1. d.size \in Nat /\ d.val \in [Convs -> Nat] /\ d.dead \subseteq d.held
    BY DictFields DEF DictOK, Oldest
<1>2. CASE Expired(d, k)
  <2>1. b = Fresh(d, k)
      BY <1>2 DEF Refund, Fresh
  <2>2. /\ DictOK(b) /\ Fits(b) /\ d.held \ b.held = {k}
        /\ b.val[k] = 0 /\ \A j \in Convs \ {k} : b.val[j] = d.val[j]
      BY <1>2, <2>1, FreshIs DEF Used
  <2> QED
      BY <2>2 DEF Others
<1>3. CASE ~Expired(d, k) /\ d.val[k] = 0
    BY <1>1, <1>3, LessIs DEF Refund, Others
<1>4. CASE ~Expired(d, k) /\ d.val[k] # 0
  <2>1. b = Store(d, k, Less(d.val[k], n)) /\ Less(d.val[k], n) \in Nat
      BY <1>1, <1>4, LessIs DEF Refund
  <2>2. k \in d.held
      BY <1>4 DEF DictOK
  <2> QED
      BY <2>1, <2>2, StoreIs
<1> QED
    BY <1>2, <1>3, <1>4

LEMMA ConfiguredIs ==
    ASSUME NEW d, DictOK(d), Fits(d), NEW size \in 1..MaxSize, NEW dead \in Oldest(d),
           NEW b, b = Configured(d, size, dead)
    PROVE  /\ DictOK(b) /\ Fits(b)
           /\ \A k \in Convs : b.val[k] = IF k \in d.held \ b.held THEN 0 ELSE d.val[k]
<1>1. PICK e : e = [d EXCEPT !.size = size, !.dead = dead]
    OBVIOUS
<1>2. d = [val |-> d.val, held |-> d.held, dead |-> d.dead, older |-> d.older, size |-> d.size]
    BY DEF DictOK, TTLDicts
<1>3. /\ e = [val |-> d.val, held |-> d.held, dead |-> dead, older |-> d.older, size |-> size]
      /\ e.val = d.val /\ e.held = d.held /\ e.dead = dead /\ e.older = d.older /\ e.size = size
    BY <1>1, <1>2
<1>4. DictOK(e)
  <2>1. d.held \subseteq Convs /\ d.val \in [Convs -> Nat] /\ d.older \subseteq Convs \X Convs /\ dead \subseteq d.held
      BY DictFields DEF DictOK, Oldest
  <2>2. e \in TTLDicts(Convs, MaxSize)
      BY <1>3, <2>1 DEF TTLDicts
  <2>3. e.dead \in Oldest(e) /\ InOrder(e)
      BY <1>3 DEF DictOK, InOrder, Oldest
  <2> QED
      BY <1>3, <2>2, <2>3 DEF DictOK
<1>5. size \in Nat /\ Cardinality(e.held) \in Nat
    BY <1>4, BridgeAssumption, FS_CardinalityType DEF DictOK
<1>6. CASE Cardinality(e.held) > size
  <2>1. PICK p : p = Purge(e)
      OBVIOUS
  <2>2. /\ DictOK(p) /\ p.held = e.held \ e.dead /\ p.size = e.size
        /\ \A k \in Convs : p.val[k] = IF k \in e.dead THEN 0 ELSE e.val[k]
      BY <1>4, <2>1, DropKeeps DEF Purge
  <2>3. b = Shrink(p, size)
      BY <1>1, <1>6, <2>1 DEF Configured
  <2>4. /\ DictOK(b) /\ b.held \subseteq p.held /\ b.size = p.size
        /\ \A k \in Convs : b.val[k] = IF k \in p.held \ b.held THEN 0 ELSE p.val[k]
        /\ Cardinality(b.held) <= size
      BY <1>5, <2>2, <2>3, ShrinkFits
  <2>5. dead \subseteq d.held
      BY DEF Oldest
  <2> QED
      BY <1>3, <2>2, <2>4, <2>5 DEF Fits
<1>7. CASE ~(Cardinality(e.held) > size)
  <2>1. b = e
      BY <1>1, <1>7 DEF Configured
  <2> QED
      BY <1>3, <1>4, <1>5, <1>7, <2>1 DEF Fits
<1> QED
    BY <1>6, <1>7

-----------------------------------------------------------------------------
(* The windows.                                                              *)

Windows ==
    /\ DictOK(budget) /\ Fits(budget)
    /\ granted \in [Convs -> Nat] /\ late \in [Convs -> Nat]
    /\ GrantsWithinBudget

LEMMA CountsAre ==
    ASSUME granted \in [Convs -> Nat], late \in [Convs -> Nat],
           NEW gone, NEW c \in Convs, NEW g \in Nat, NEW l \in Nat, Counts(gone, c, g, l)
    PROVE  /\ granted' \in [Convs -> Nat] /\ late' \in [Convs -> Nat]
           /\ \A k \in Convs \ {c} :
                /\ granted'[k] = IF k \in gone THEN 0 ELSE granted[k]
                /\ late'[k] = IF k \in gone THEN 0 ELSE late[k]
           /\ granted'[c] = (IF c \in gone THEN 0 ELSE granted[c]) + g
           /\ late'[c] = (IF c \in gone THEN 0 ELSE late[c]) + l
BY DEF Counts

LEMMA ChargeKeepsWindows ==
    ASSUME Windows, NEW r \in Requests, NEW q, q.conv \in Convs, NEW n \in Nat, Charge(r, q, n)
    PROVE  Windows' /\ Granted(q, n) \in Nat /\ Granted(q, n) <= n
<1>1. PICK c \in Convs : c = q.conv
    OBVIOUS
<1>2. PICK a : a = Granted(q, n)
    OBVIOUS
<1>3. PICK b : b = IF Limit = 0 THEN budget ELSE Reserve(budget, c, Limit, n)
    OBVIOUS
<1>4. PICK gone : gone = (budget.held \ b.held) \union (IF n > 0 /\ Limit > 0 /\ Expired(budget, c) THEN {c} ELSE {})
    OBVIOUS
<1>5. budget' = b /\ Counts(gone, c, IF Limit = 0 THEN 0 ELSE a, 0)
    BY <1>1, <1>2, <1>3, <1>4 DEF Charge, Becomes
<1>6. Limit \in Nat /\ budget.val \in [Convs -> Nat]
    BY BridgeAssumption, DictFields DEF Windows, DictOK
<1>7. CASE Limit = 0
  <2>1. a = n /\ b = budget
      BY <1>2, <1>3, <1>7 DEF Granted
  <2>2. Counts(gone, c, 0, 0)
      BY <1>5, <1>7
  <2>3. granted' \in [Convs -> Nat] /\ late' \in [Convs -> Nat]
      BY <2>2, CountsAre DEF Windows
  <2>4. GrantsWithinBudget'
      BY <1>7 DEF GrantsWithinBudget
  <2> QED
      BY <1>2, <1>5, <2>1, <2>3, <2>4 DEF Windows
<1>8. CASE n = 0
  <2>1. a = 0 /\ b = budget
      BY <1>2, <1>3, <1>8 DEF Granted, Reserve
  <2>2. gone = {}
      BY <1>4, <1>8, <2>1
  <2>3. Counts(gone, c, 0, 0)
      BY <1>5, <2>1
  <2>4. /\ granted' \in [Convs -> Nat] /\ late' \in [Convs -> Nat]
        /\ \A k \in Convs : granted'[k] = granted[k] /\ late'[k] = late[k]
      BY <2>2, <2>3 DEF Counts, Windows
  <2>5. GrantsWithinBudget'
      BY <1>5, <2>1, <2>4 DEF Windows, GrantsWithinBudget
  <2> QED
      BY <1>2, <1>5, <1>8, <2>1, <2>4, <2>5 DEF Windows
<1>9. CASE n # 0 /\ Limit > 0
  <2>1. b = Reserve(budget, c, Limit, n) /\ n \in Nat \ {0}
      BY <1>3, <1>9
  <2>2. PICK x \in 0..n, u \in Nat :
             /\ x = Allowed(budget, c, Limit, n) /\ u = Used(budget, c)
             /\ u <= Limit => u + x <= Limit
             /\ DictOK(b) /\ Fits(b) /\ Others(budget, b, c) /\ b.val[c] = u + x
             /\ c \in budget.held \ b.held => Expired(budget, c) /\ x = 0
    <3>1. DictOK(budget) /\ Fits(budget)
        BY DEF Windows
    <3>2. Reserved(budget, b, c, Limit, n)
        BY <1>6, <2>1, <3>1, ReserveIs
    <3> QED
        BY <3>2 DEF Reserved
  <2>3. a = x /\ x \in Nat
      BY <1>1, <1>2, <1>9, <2>2 DEF Granted
  <2>4. Counts(gone, c, x, 0)
      BY <1>5, <1>9, <2>3
  <2>5. /\ granted' \in [Convs -> Nat] /\ late' \in [Convs -> Nat]
        /\ \A k \in Convs \ {c} :
             /\ granted'[k] = IF k \in gone THEN 0 ELSE granted[k]
             /\ late'[k] = IF k \in gone THEN 0 ELSE late[k]
        /\ granted'[c] = (IF c \in gone THEN 0 ELSE granted[c]) + x
        /\ late'[c] = (IF c \in gone THEN 0 ELSE late[c])
    <3>1. granted \in [Convs -> Nat] /\ late \in [Convs -> Nat]
        BY DEF Windows
    <3> QED
        BY <2>3, <2>4, <3>1 DEF Counts
  <2>6. \A k \in Convs : granted[k] <= budget.val[k] + late[k] /\ budget.val[k] <= Limit
      BY <1>9 DEF Windows, GrantsWithinBudget
  <2>7. ASSUME NEW k \in Convs, k # c PROVE granted'[k] <= b.val[k] + late'[k] /\ b.val[k] <= Limit
    <3>1. k \in gone <=> k \in budget.held \ b.held
        BY <1>4, <2>7
    <3>2. b.val[k] = IF k \in gone THEN 0 ELSE budget.val[k]
        BY <2>2, <2>7, <3>1 DEF Others
    <3> QED
        BY <1>6, <2>5, <2>6, <2>7, <3>2
  <2>8. granted'[c] <= b.val[c] + late'[c] /\ b.val[c] <= Limit
    <3>1. granted[c] \in Nat /\ late[c] \in Nat /\ budget.val[c] \in Nat
        BY <1>6 DEF Windows
    <3>2. c \in gone <=> Expired(budget, c)
        BY <1>4, <1>9, <2>2
    <3>3. u = IF c \in gone THEN 0 ELSE budget.val[c]
        BY <2>2, <3>2 DEF Used
    <3>4. granted[c] <= budget.val[c] + late[c] /\ budget.val[c] <= Limit
        BY <2>6
    <3>5. b.val[c] = u + x /\ (u <= Limit => u + x <= Limit)
        BY <2>2
    <3> QED
        BY <1>6, <2>3, <2>5, <3>1, <3>3, <3>4, <3>5
  <2>9. GrantsWithinBudget'
      BY <1>5, <2>7, <2>8 DEF GrantsWithinBudget
  <2> QED
      BY <1>2, <1>5, <2>2, <2>3, <2>5, <2>9 DEF Windows
<1> QED
    BY <1>6, <1>7, <1>8, <1>9

\* A refund lowers the count of the entry it meets, whosever window that is.
LEMMA RefundKeepsWindows ==
    ASSUME Windows, NEW c \in Convs, NEW n \in Nat,
           NEW b, b = IF n = 0 THEN budget ELSE Refund(budget, c, n), budget' = b,
           NEW gone, gone = budget.held \ b.held,
           \/ c \in gone /\ Counts(gone, c, 0, 0)
           \/ c \notin gone /\ granted' = [granted EXCEPT ![c] = Less(@, n)] /\ UNCHANGED late
           \/ c \notin gone /\ Counts(gone, c, 0, budget.val[c] - b.val[c])
    PROVE  Windows'
<1>1. Limit \in Nat /\ budget.val \in [Convs -> Nat] /\ granted \in [Convs -> Nat] /\ late \in [Convs -> Nat]
    BY BridgeAssumption, DictFields DEF Windows, DictOK
<1>2. /\ DictOK(b) /\ Fits(b) /\ Others(budget, b, c)
      /\ IF c \in gone THEN b.val[c] = 0 ELSE b.val[c] = Less(budget.val[c], n)
      /\ gone \subseteq {c}
  <2>1. CASE n = 0
    <3>1. b = budget /\ gone = {}
        BY <2>1
    <3>2. budget.val[c] \in Nat
        BY <1>1
    <3>3. Less(budget.val[c], n) = budget.val[c]
        BY <2>1, <3>2 DEF Less
    <3> QED
        BY <3>1, <3>3 DEF Windows, Others
  <2>2. CASE n # 0
    <3>1. b = Refund(budget, c, n)
        BY <2>2
    <3> QED
        BY <3>1, RefundIs DEF Windows
  <2> QED
      BY <2>1, <2>2
<1>3. \A k \in Convs \ {c} : b.val[k] = budget.val[k] /\ k \notin gone
    BY <1>2 DEF Others
<1>4. PICK v \in Nat : v = budget.val[c]
    BY <1>1
<1>5. Less(v, n) \in Nat /\ Less(v, n) <= v /\ Less(v, n) = IF v < n THEN 0 ELSE v - n
    BY LessIs
<1>6. PICK g \in Nat : g = granted[c]
    BY <1>1
<1>7. Less(g, n) \in Nat /\ Less(g, n) <= g /\ Less(g, n) = IF g < n THEN 0 ELSE g - n
    BY LessIs
<1>8. PICK l \in Nat : l = late[c]
    BY <1>1
<1>9. /\ granted' \in [Convs -> Nat] /\ late' \in [Convs -> Nat]
      /\ \A k \in Convs \ {c} : granted'[k] = granted[k] /\ late'[k] = late[k]
      /\ g <= v + l => granted'[c] <= b.val[c] + late'[c]
  <2>1. CASE c \in gone
    <3>1. Counts(gone, c, 0, 0)
        BY <2>1
    <3>2. /\ granted' \in [Convs -> Nat] /\ late' \in [Convs -> Nat]
          /\ \A k \in Convs \ {c} : granted'[k] = granted[k] /\ late'[k] = late[k]
          /\ granted'[c] = 0 /\ late'[c] = 0
      <4>1. /\ granted' \in [Convs -> Nat] /\ late' \in [Convs -> Nat]
            /\ \A k \in Convs \ {c} :
                 /\ granted'[k] = IF k \in gone THEN 0 ELSE granted[k]
                 /\ late'[k] = IF k \in gone THEN 0 ELSE late[k]
            /\ granted'[c] = (IF c \in gone THEN 0 ELSE granted[c]) + 0
            /\ late'[c] = (IF c \in gone THEN 0 ELSE late[c]) + 0
          BY <1>1, <3>1 DEF Counts
      <4> QED
          BY <1>3, <2>1, <4>1
    <3> QED
        BY <1>2, <2>1, <3>2
  <2>2. CASE c \notin gone /\ granted' = [granted EXCEPT ![c] = Less(@, n)] /\ UNCHANGED late
    <3>1. granted' = [granted EXCEPT ![c] = Less(g, n)] /\ late' = late
        BY <1>6, <2>2
    <3>2. b.val[c] = Less(v, n)
        BY <1>2, <1>4, <2>2
    <3>3. g <= v + l => Less(g, n) <= Less(v, n) + l
        BY <1>5, <1>7
    <3> QED
        BY <1>1, <1>7, <1>8, <3>1, <3>2, <3>3
  <2>3. CASE c \notin gone /\ Counts(gone, c, 0, budget.val[c] - b.val[c])
    <3>1. b.val[c] = Less(v, n)
        BY <1>2, <1>4, <2>3
    <3>2. PICK t \in Nat : t = v - Less(v, n)
        BY <1>5
    <3>3. Counts(gone, c, 0, t)
        BY <1>4, <2>3, <3>1, <3>2
    <3>4. /\ granted' \in [Convs -> Nat] /\ late' \in [Convs -> Nat]
          /\ \A k \in Convs \ {c} : granted'[k] = granted[k] /\ late'[k] = late[k]
          /\ granted'[c] = g + 0 /\ late'[c] = l + t
      <4>1. /\ granted' \in [Convs -> Nat] /\ late' \in [Convs -> Nat]
            /\ \A k \in Convs \ {c} :
                 /\ granted'[k] = IF k \in gone THEN 0 ELSE granted[k]
                 /\ late'[k] = IF k \in gone THEN 0 ELSE late[k]
            /\ granted'[c] = (IF c \in gone THEN 0 ELSE granted[c]) + 0
            /\ late'[c] = (IF c \in gone THEN 0 ELSE late[c]) + t
          BY <1>1, <3>3 DEF Counts
      <4> QED
          BY <1>3, <1>6, <1>8, <2>3, <4>1
    <3> QED
        BY <1>5, <3>1, <3>2, <3>4
  <2> QED
      BY <2>1, <2>2, <2>3
<1>10. b.val[c] \in Nat /\ b.val[c] <= v
    BY <1>2, <1>4, <1>5
<1>11. GrantsWithinBudget'
  <2> SUFFICES ASSUME Limit > 0, NEW k \in Convs
               PROVE  granted'[k] <= b.val[k] + late'[k] /\ b.val[k] <= Limit
      BY DEF GrantsWithinBudget
  <2>1. granted[k] <= budget.val[k] + late[k] /\ budget.val[k] <= Limit
      BY DEF Windows, GrantsWithinBudget
  <2>2. CASE k = c
      BY <1>1, <1>4, <1>6, <1>8, <1>9, <1>10, <2>1, <2>2
  <2>3. CASE k # c
      BY <1>3, <1>9, <2>1, <2>3
  <2> QED
      BY <2>2, <2>3
<1> QED
    BY <1>2, <1>9, <1>11 DEF Windows

-----------------------------------------------------------------------------
(* The requests.                                                             *)

\* A request's open charges are those of its batch.
Standing(q) ==
    /\ q \in Request
    /\ q.completed + q.batch <= MaxImages
    /\ q.pc = "executing" \/ q.batch = 0
    /\ q.pc = "planning" => q.completed = 0
    /\ q.result = "aborted" \/ q.owed = q.batch
    /\ q.result = "open" \/ q.pc = "over"

LEMMA RequestFields ==
    ASSUME NEW q \in Request
    PROVE  /\ q.conv \in Convs /\ q.pc \in {"planning", "executing", "continuing", "final", "over"}
           /\ q.continues \in BOOLEAN /\ q.mixed \in BOOLEAN /\ q.round \in 0..MaxRounds
           /\ q.batch \in 0..MaxImages /\ q.completed \in 0..MaxImages /\ q.owed \in Int
           /\ q.own \in BOOLEAN /\ q.result \in {"open", "passthrough", "done", "failed", "aborted"}
           /\ MaxImages \in Nat \ {0} /\ MaxRounds \in Nat \ {0}
           /\ 0 \in 0..MaxImages /\ 0 \in 0..MaxRounds /\ 0 \in Int
BY BridgeAssumption DEF Request

LEMMA OwnIsAside ==
    ASSUME NEW q, Standing(q), NEW w \in BOOLEAN
    PROVE  Standing([q EXCEPT !.own = w])
<1> DEFINE e == [q EXCEPT !.own = w]
<1>1. q \in Request /\ e \in Request
    BY Zenon DEF Standing, Request
<1>2. /\ e.completed = q.completed /\ e.batch = q.batch /\ e.pc = q.pc
      /\ e.result = q.result /\ e.owed = q.owed
    BY <1>1 DEF Request
<1> HIDE DEF e
<1>3. Standing(e)
    BY <1>1, <1>2 DEF Standing
<1> QED
    BY <1>3 DEF e

LEMMA BecomesStanding ==
    ASSUME req \in [Requests -> Request], \A u \in Requests : Standing(req[u]),
           NEW r \in Requests, NEW q, Standing(q), NEW b, NEW gone, Becomes(r, q, b, gone)
    PROVE  req' \in [Requests -> Request] /\ \A u \in Requests : Standing(req'[u])
<1>1. PICK new : new = [req EXCEPT ![r] = q]
    OBVIOUS
<1>2. req' = [u \in Requests |->
                 [new[u] EXCEPT !.own = @ /\ (new[u].conv \notin gone \/ (u = r /\ q.batch > 0))]]
    BY <1>1 DEF Becomes
<1>3. \A u \in Requests : Standing(new[u])
    BY <1>1
<1>4. ASSUME NEW u \in Requests PROVE Standing(req'[u])
  <2>1. PICK e : e = new[u]
      OBVIOUS
  <2>2. PICK w \in BOOLEAN : w = (e.own /\ (e.conv \notin gone \/ (u = r /\ q.batch > 0)))
    <3>1. e.own \in BOOLEAN
        BY <1>3, <2>1, RequestFields DEF Standing
    <3> QED
        BY <3>1
  <2>3. req'[u] = [e EXCEPT !.own = w]
      BY Zenon, <1>2, <2>1, <2>2
  <2> QED
      BY <1>3, <2>1, <2>3, OwnIsAside
<1>5. req' \in [Requests -> Request]
  <2>1. req' = [u \in Requests |-> req'[u]]
      BY Zenon, <1>2
  <2> QED
      BY <1>4, <2>1 DEF Standing
<1> QED
    BY <1>4, <1>5

\* What the bridge makes of a request between two batches.
Clear(q) == q \in Request /\ q.owed = 0 /\ q.result = "open"

LEMMA Concluded ==
    ASSUME NEW q \in Request, NEW result \in {"passthrough", "done", "failed", "aborted"},
           result = "aborted" \/ q.owed = 0, NEW e, e = Conclude(q, result)
    PROVE  /\ Standing(e) /\ e.conv = q.conv /\ e.pc = "over" /\ e.result = result
           /\ e.owed = q.owed /\ e.batch = 0 /\ e.completed = 0
<1>1. PICK z : z = Arrived(q.conv)
    OBVIOUS
<1>2. z \in Request
    BY Zenon, <1>1, RequestFields DEF Arrived, Request
<1>3. z.conv = q.conv /\ z.batch = 0 /\ z.completed = 0
    BY <1>1 DEF Arrived
<1>4. e = [z EXCEPT !.pc = "over", !.result = result, !.owed = q.owed]
    BY <1>1 DEF Conclude
<1>5. e \in Request
    BY Zenon, <1>2, <1>4, RequestFields DEF Request
<1>6. /\ e.conv = q.conv /\ e.pc = "over" /\ e.result = result /\ e.owed = q.owed
      /\ e.batch = 0 /\ e.completed = 0
    BY <1>2, <1>3, <1>4 DEF Request
<1>7. MaxImages \in Nat
    BY BridgeAssumption
<1> QED
    BY <1>5, <1>6, <1>7 DEF Standing

LEMMA Called ==
    ASSUME NEW q, Clear(q), NEW p \in {"continuing", "final"}, NEW n \in 0..MaxRounds,
           NEW e, e = [CallModel(q, p) EXCEPT !.round = n] \/ e = CallModel(q, p)
    PROVE  /\ Standing(e) /\ Clear(e) /\ e.conv = q.conv /\ e.pc = p
           /\ e.batch = 0 /\ e.completed = q.completed
<1>1. PICK z : z = CallModel(q, p)
    OBVIOUS
<1>2. z = [q EXCEPT !.pc = p, !.batch = 0, !.mixed = FALSE, !.continues = FALSE]
    BY <1>1 DEF CallModel
<1>3. z \in Request
    BY Zenon, <1>2, RequestFields DEF Request, Clear
<1>4. /\ z.conv = q.conv /\ z.pc = p /\ z.result = "open" /\ z.owed = 0
      /\ z.batch = 0 /\ z.completed = q.completed
    BY <1>2 DEF Request, Clear
<1>5. e = [z EXCEPT !.round = n] \/ e = z
    BY <1>1
<1>6. e \in Request
    BY Zenon, <1>3, <1>5 DEF Request
<1>7. /\ e.conv = q.conv /\ e.pc = p /\ e.result = "open" /\ e.owed = 0
      /\ e.batch = 0 /\ e.completed = q.completed
    BY <1>3, <1>4, <1>5 DEF Request
<1>8. e.completed \in 0..MaxImages /\ MaxImages \in Nat
    BY <1>6, RequestFields
<1> QED
    BY <1>6, <1>7, <1>8 DEF Standing, Clear

LEMMA NextRoundIs ==
    ASSUME NEW q, Clear(q), q.round < MaxRounds, NEW e, e = NextRound(q)
    PROVE  /\ Standing(e) /\ Clear(e) /\ e.conv = q.conv /\ e.pc = "continuing"
           /\ e.batch = 0 /\ e.completed = q.completed
<1>1. q.round \in 0..MaxRounds /\ MaxRounds \in Nat
    BY RequestFields DEF Clear
<1>2. PICK n \in 0..MaxRounds : n = q.round + 1
    BY <1>1
<1>3. PICK z : z = CallModel(q, "continuing")
    OBVIOUS
<1>4. z.round = q.round
    BY <1>3 DEF CallModel, Clear, Request
<1>5. e = [z EXCEPT !.round = n]
    BY Zenon, <1>2, <1>3, <1>4 DEF NextRound
<1> QED
    BY <1>3, <1>5, Called

\* A charge of a images leaves the request with them to make.
LEMMA Charged ==
    ASSUME NEW q \in Request, q.owed = 0, q.pc # "planning", q.result # "aborted", q.result = "open" \/ q.pc = "over",
           NEW a \in Nat, q.completed + a <= MaxImages, a = 0 \/ q.pc = "executing",
           NEW e, e = [q EXCEPT !.batch = a, !.owed = @ + a, !.own = a > 0 /\ Limit > 0]
    PROVE  Standing(e)
<1>1. q.completed \in Nat /\ MaxImages \in Nat
    BY RequestFields
<1>2. a \in 0..MaxImages /\ a \in Int
    BY <1>1
<1>3. PICK w \in BOOLEAN : w = (a > 0 /\ Limit > 0)
    OBVIOUS
<1>4. q.owed + a = a
    BY <1>2
<1>5. e = [q EXCEPT !.batch = a, !.owed = a, !.own = w]
    BY Zenon, <1>3, <1>4
<1>6. e \in Request
    BY Zenon, <1>2, <1>5 DEF Request
<1>7. /\ e.batch = a /\ e.owed = a /\ e.pc = q.pc /\ e.result = q.result /\ e.completed = q.completed
    BY <1>5 DEF Request
<1> QED
    BY <1>6, <1>7 DEF Standing

RequestsStand == req \in [Requests -> Request] /\ \A u \in Requests : Standing(req[u])
BInv == Windows /\ RequestsStand

LEMMA ChargeKeeps ==
    ASSUME BInv, NEW r \in Requests, NEW q \in Request, NEW n \in Nat, Charge(r, q, n),
           q.owed = 0, q.pc # "planning", q.result \in {"open", "passthrough", "done"}, q.result = "open" \/ q.pc = "over",
           q.completed + n <= MaxImages, Granted(q, n) = 0 \/ q.pc = "executing"
    PROVE  BInv'
<1>1. Windows' /\ Granted(q, n) \in Nat /\ Granted(q, n) <= n
    BY RequestFields, ChargeKeepsWindows DEF BInv
<1>2. PICK a \in Nat : a = Granted(q, n) /\ a <= n
    BY <1>1
<1>3. PICK e : e = [q EXCEPT !.batch = a, !.owed = @ + a, !.own = a > 0 /\ Limit > 0]
    OBVIOUS
<1>4. PICK b, gone : Becomes(r, e, b, gone)
    BY <1>2, <1>3 DEF Charge
<1>5. q.completed \in Nat /\ MaxImages \in Nat
    BY RequestFields
<1>6. q.completed + a <= MaxImages
    BY <1>2, <1>5
<1>7. Standing(e)
    BY <1>2, <1>3, <1>6, Charged
<1> QED
    BY <1>1, <1>4, <1>7, BecomesStanding DEF BInv, RequestsStand

LEMMA PlanKeeps == ASSUME BInv, NEW r \in Requests, Plan(r) PROVE BInv'
<1>1. PICK n \in 0..MaxAsks, continues \in BOOLEAN :
         Charge(r, IF Granted(req[r], Least(n, MaxImages)) = 0 THEN Conclude(req[r], "passthrough")
                   ELSE [req[r] EXCEPT !.pc = "executing", !.continues = continues], Least(n, MaxImages))
    BY DEF Plan
<1>2. PICK q : q = req[r]
    OBVIOUS
<1>3. q \in Request /\ Standing(q) /\ q.pc = "planning"
    BY <1>2 DEF BInv, RequestsStand, Plan, At
<1>4. q.result = "open" /\ q.owed = 0 /\ q.completed = 0
    BY <1>3 DEF Standing
<1>5. n \in Nat /\ MaxImages \in Nat
    BY BridgeAssumption
<1>6. PICK asked \in Nat : asked = Least(n, MaxImages) /\ asked <= MaxImages
    BY <1>5, LessIs
<1>7. CASE Granted(q, asked) = 0
  <2>1. PICK e : e = Conclude(q, "passthrough")
      OBVIOUS
  <2>2. Standing(e) /\ e.conv = q.conv /\ e.pc = "over" /\ e.result = "passthrough" /\ e.owed = 0 /\ e.completed = 0
      BY <1>3, <1>4, <2>1, Concluded
  <2>3. Granted(e, asked) = 0
      BY <1>7, <2>2 DEF Granted
  <2>4. Charge(r, e, asked)
      BY <1>1, <1>2, <1>6, <1>7, <2>1
  <2>5. e \in Request
      BY <2>2 DEF Standing
  <2> QED
      BY <1>5, <1>6, <2>2, <2>3, <2>4, <2>5, ChargeKeeps
<1>8. CASE Granted(q, asked) # 0
  <2>1. PICK e : e = [q EXCEPT !.pc = "executing", !.continues = continues]
      OBVIOUS
  <2>2. e \in Request
      BY Zenon, <1>3, <2>1 DEF Request
  <2>3. e.pc = "executing" /\ e.result = "open" /\ e.owed = 0 /\ e.completed = 0
      BY <1>3, <1>4, <2>1 DEF Request
  <2>4. Charge(r, e, asked)
      BY <1>1, <1>2, <1>6, <1>8, <2>1
  <2> QED
      BY <1>5, <1>6, <2>2, <2>3, <2>4, ChargeKeeps
<1> QED
    BY <1>7, <1>8

LEMMA ContinuedKeeps == ASSUME BInv, NEW r \in Requests, Continued(r) PROVE BInv'
<1>0. PICK pending \in 1..MaxAsks, mixed \in BOOLEAN : \E fresh \in 0..pending :
         LET q == [req[r] EXCEPT !.mixed = mixed]
             n == Least(fresh, Remaining(q))
         IN  Charge(r, IF Granted(q, n) > 0 THEN [q EXCEPT !.pc = "executing"]
                       ELSE IF mixed THEN Conclude(q, "done")
                       ELSE IF Remaining(q) = 0 \/ q.round = MaxRounds
                            THEN CallModel(q, "final")
                            ELSE NextRound(q), n)
    BY Zenon DEF Continued
<1>1. PICK fresh \in 0..pending :
         LET q == [req[r] EXCEPT !.mixed = mixed]
             n == Least(fresh, Remaining(q))
         IN  Charge(r, IF Granted(q, n) > 0 THEN [q EXCEPT !.pc = "executing"]
                       ELSE IF mixed THEN Conclude(q, "done")
                       ELSE IF Remaining(q) = 0 \/ q.round = MaxRounds
                            THEN CallModel(q, "final")
                            ELSE NextRound(q), n)
    BY <1>0
<1>2. PICK q : q = [req[r] EXCEPT !.mixed = mixed]
    OBVIOUS
<1>3. req[r] \in Request /\ Standing(req[r]) /\ req[r].pc = "continuing"
    BY DEF BInv, RequestsStand, Continued, At
<1>4. q \in Request
    BY Zenon, <1>2, <1>3 DEF Request
<1>5. /\ q.pc = "continuing" /\ q.result = "open" /\ q.owed = 0
      /\ q.completed = req[r].completed /\ Clear(q)
  <2>1. q.pc = req[r].pc /\ q.result = req[r].result /\ q.owed = req[r].owed /\ q.completed = req[r].completed
      BY <1>2, <1>3 DEF Request
  <2> QED
      BY <1>3, <1>4, <2>1 DEF Standing, Clear
<1>6. PICK left \in Nat : left = Remaining(q) /\ q.completed + left = MaxImages
  <2>1. q.completed \in 0..MaxImages /\ MaxImages \in Nat
      BY <1>4, RequestFields
  <2> QED
      BY <2>1 DEF Remaining
<1>7. PICK n \in Nat : n = Least(fresh, left) /\ n <= left
  <2>1. fresh \in Nat
      BY BridgeAssumption
  <2> QED
      BY <2>1, LessIs
<1>8. q.completed + n <= MaxImages
  <2>1. q.completed \in Nat /\ MaxImages \in Nat
      BY <1>4, RequestFields
  <2> QED
      BY <1>6, <1>7, <2>1
<1>9. Charge(r, IF Granted(q, n) > 0 THEN [q EXCEPT !.pc = "executing"]
                ELSE IF mixed THEN Conclude(q, "done")
                ELSE IF left = 0 \/ q.round = MaxRounds
                     THEN CallModel(q, "final")
                     ELSE NextRound(q), n)
    BY Zenon, <1>1, <1>2, <1>6, <1>7
<1>10. CASE Granted(q, n) > 0
  <2>1. PICK e : e = [q EXCEPT !.pc = "executing"]
      OBVIOUS
  <2>2. e \in Request
      BY Zenon, <1>4, <2>1 DEF Request
  <2>3. e.pc = "executing" /\ e.result = "open" /\ e.owed = 0 /\ e.completed = q.completed
      BY <1>4, <1>5, <2>1 DEF Request
  <2>4. Charge(r, e, n)
      BY <1>9, <1>10, <2>1
  <2> QED
      BY <1>8, <2>2, <2>3, <2>4, ChargeKeeps
<1>11. ASSUME ~(Granted(q, n) > 0), NEW e, Standing(e), e.conv = q.conv, e.owed = 0,
              e.pc \in {"over", "final", "continuing"}, e.result \in {"open", "done"},
              e.completed + n <= MaxImages, Charge(r, e, n)
       PROVE  BInv'
  <2>1. Granted(q, n) \in Nat
    <3>1. Granted(e, n) \in Nat
        BY <1>11, RequestFields, ChargeKeepsWindows DEF BInv, Standing
    <3> QED
        BY <1>11, <3>1 DEF Granted
  <2>2. Granted(e, n) = 0
      BY <1>11, <2>1 DEF Granted
  <2>3. e \in Request /\ (e.result = "open" \/ e.pc = "over")
      BY <1>11 DEF Standing
  <2> QED
      BY <1>11, <2>2, <2>3, ChargeKeeps
<1>12. CASE ~(Granted(q, n) > 0) /\ mixed
  <2>1. PICK e : e = Conclude(q, "done")
      OBVIOUS
  <2>2. Standing(e) /\ e.conv = q.conv /\ e.pc = "over" /\ e.result = "done" /\ e.owed = 0 /\ e.completed = 0
      BY <1>4, <1>5, <2>1, Concluded
  <2>3. e.completed + n <= MaxImages
    <3>1. q.completed \in Nat /\ MaxImages \in Nat
        BY <1>4, RequestFields
    <3> QED
        BY <1>8, <2>2, <3>1
  <2>4. Charge(r, e, n)
      BY <1>9, <1>12, <2>1
  <2> QED
      BY <1>11, <1>12, <2>2, <2>3, <2>4
<1>13. CASE ~(Granted(q, n) > 0) /\ ~mixed /\ (left = 0 \/ q.round = MaxRounds)
  <2>1. PICK e : e = CallModel(q, "final")
      OBVIOUS
  <2>2. Standing(e) /\ Clear(e) /\ e.conv = q.conv /\ e.pc = "final" /\ e.completed = q.completed
    <3>1. 0 \in 0..MaxRounds
        BY BridgeAssumption
    <3> QED
        BY <1>5, <2>1, <3>1, Called
  <2>3. Charge(r, e, n)
      BY <1>9, <1>13, <2>1
  <2> QED
      BY <1>8, <1>11, <1>13, <2>2, <2>3 DEF Clear
<1>14. CASE ~(Granted(q, n) > 0) /\ ~mixed /\ ~(left = 0 \/ q.round = MaxRounds)
  <2>1. PICK e : e = NextRound(q)
      OBVIOUS
  <2>2. q.round < MaxRounds
    <3>1. q.round \in 0..MaxRounds /\ MaxRounds \in Nat
        BY <1>4, RequestFields
    <3> QED
        BY <1>14, <3>1
  <2>3. Standing(e) /\ Clear(e) /\ e.conv = q.conv /\ e.pc = "continuing" /\ e.completed = q.completed
      BY <1>5, <2>1, <2>2, NextRoundIs
  <2>4. Charge(r, e, n)
      BY <1>9, <1>14, <2>1
  <2> QED
      BY <1>8, <1>11, <1>14, <2>3, <2>4 DEF Clear
<1> QED
    BY <1>10, <1>12, <1>13, <1>14

LEMMA AfterBatchStands ==
    ASSUME NEW q, Clear(q), NEW e, e = AfterBatch(q)
    PROVE  Standing(e)
<1>1. q \in Request /\ q.owed = 0 /\ q.round \in 0..MaxRounds /\ MaxRounds \in Nat \ {0} /\ 0 \in 0..MaxRounds
    BY RequestFields DEF Clear
<1>2. CASE e = Conclude(q, "failed") \/ e = Conclude(q, "done")
    BY <1>1, <1>2, Concluded
<1>3. CASE e = CallModel(q, "final")
    BY <1>1, <1>3, Called
<1>4. CASE e = NextRound(q) /\ q.round < MaxRounds
    BY <1>4, NextRoundIs
<1>5. \/ e = Conclude(q, "failed") \/ e = Conclude(q, "done")
      \/ e = CallModel(q, "final")
      \/ e = NextRound(q) /\ q.round < MaxRounds
    BY <1>1 DEF AfterBatch
<1> QED
    BY <1>2, <1>3, <1>4, <1>5

LEMMA ExecutedKeeps == ASSUME BInv, NEW r \in Requests, Executed(r) PROVE BInv'
<1>1. PICK q : q = req[r]
    OBVIOUS
<1>2. q \in Request /\ Standing(q) /\ q.pc = "executing"
    BY <1>1 DEF BInv, RequestsStand, Executed, At
<1>3. /\ q.batch \in Nat /\ q.completed \in Nat /\ q.owed = q.batch /\ q.result = "open"
      /\ q.completed + q.batch <= MaxImages /\ MaxImages \in Nat /\ q.conv \in Convs
    BY <1>2, RequestFields DEF Standing
<1> DEFINE Batch(f, m) ==
     LET fin == q.batch - f - m
         n == f
         b == IF n = 0 THEN budget ELSE Refund(budget, q.conv, n)
         gone == budget.held \ b.held
         new == AfterBatch([q EXCEPT !.completed = @ + fin, !.owed = @ - (fin + n + m)])
         taken == budget.val[q.conv] - b.val[q.conv]
     IN  /\ Becomes(r, [new EXCEPT !.own = FALSE], b, gone)
         /\ IF q.conv \in gone THEN Counts(gone, q.conv, 0, 0)
            ELSE IF q.own
                 THEN /\ granted' = [granted EXCEPT ![q.conv] = Less(@, n)]
                      /\ UNCHANGED late
                 ELSE Counts(gone, q.conv, 0, taken)
<1>4. PICK f \in 0..q.batch : \E m \in 0..(q.batch - f) : Batch(f, m)
    BY Zenon, <1>1 DEF Executed, Refunds
<1>5. PICK m \in 0..(q.batch - f) : Batch(f, m)
    BY <1>4
<1>6. PICK b, gone, new :
        /\ b = (IF f = 0 THEN budget ELSE Refund(budget, q.conv, f))
        /\ gone = budget.held \ b.held
        /\ new = AfterBatch([q EXCEPT !.completed = @ + (q.batch - f - m), !.owed = @ - ((q.batch - f - m) + f + m)])
        /\ Becomes(r, [new EXCEPT !.own = FALSE], b, gone)
        /\ IF q.conv \in gone THEN Counts(gone, q.conv, 0, 0)
           ELSE IF q.own
                THEN granted' = [granted EXCEPT ![q.conv] = Less(@, f)] /\ UNCHANGED late
                ELSE Counts(gone, q.conv, 0, budget.val[q.conv] - b.val[q.conv])
    BY Zenon, <1>5
<1>7. Windows'
  <2>1. budget' = b
      BY <1>6 DEF Becomes
  <2>2. f \in Nat
      BY <1>3
  <2>3. \/ q.conv \in gone /\ Counts(gone, q.conv, 0, 0)
        \/ q.conv \notin gone /\ granted' = [granted EXCEPT ![q.conv] = Less(@, f)] /\ UNCHANGED late
        \/ q.conv \notin gone /\ Counts(gone, q.conv, 0, budget.val[q.conv] - b.val[q.conv])
      BY Zenon, <1>6
  <2>4. PICK c \in Convs : c = q.conv
      BY <1>3
  <2>5. b = (IF f = 0 THEN budget ELSE Refund(budget, c, f)) /\ gone = budget.held \ b.held
      BY <1>6, <2>4
  <2>6. \/ c \in gone /\ Counts(gone, c, 0, 0)
        \/ c \notin gone /\ granted' = [granted EXCEPT ![c] = Less(@, f)] /\ UNCHANGED late
        \/ c \notin gone /\ Counts(gone, c, 0, budget.val[c] - b.val[c])
      BY Zenon, <2>3, <2>4
  <2> QED
      BY <2>1, <2>2, <2>5, <2>6, RefundKeepsWindows DEF BInv
<1>8. PICK fin \in Nat : fin = q.batch - f - m /\ fin <= q.batch /\ q.owed - (fin + f + m) = 0
    BY <1>3
<1>9. PICK done \in 0..MaxImages : done = q.completed + fin
    BY <1>3, <1>8
<1>10. PICK e : e = [q EXCEPT !.completed = done, !.owed = 0]
    OBVIOUS
<1>11. new = AfterBatch(e)
  <2>1. e = [q EXCEPT !.completed = @ + (q.batch - f - m), !.owed = @ - ((q.batch - f - m) + f + m)]
      BY Zenon, <1>8, <1>9, <1>10
  <2> QED
      BY Zenon, <1>6, <2>1
<1>12. Clear(e)
  <2>1. e \in Request
      BY Zenon, <1>2, <1>10, RequestFields DEF Request
  <2>2. e.owed = 0 /\ e.result = "open"
      BY <1>2, <1>3, <1>10 DEF Request
  <2> QED
      BY <2>1, <2>2 DEF Clear
<1>13. Standing([new EXCEPT !.own = FALSE])
    BY <1>11, <1>12, AfterBatchStands, OwnIsAside
<1>14. RequestsStand'
  <2>1. Becomes(r, [new EXCEPT !.own = FALSE], b, gone)
      BY <1>6
  <2> QED
      BY <1>13, <2>1, BecomesStanding DEF BInv, RequestsStand
<1> QED
    BY <1>7, <1>14 DEF BInv

\* An answer that takes no image, and a request that is cancelled.
LEMMA ConcludedKeeps ==
    ASSUME BInv, NEW r \in Requests, Answered(r) \/ Aborted(r)
    PROVE  BInv'
<1>1. PICK q : q = req[r]
    OBVIOUS
<1>2. q \in Request /\ Standing(q)
    BY <1>1 DEF BInv, RequestsStand
<1>3. PICK result \in {"done", "aborted"} :
        /\ req' = [req EXCEPT ![r] = Conclude(@, result)] /\ UNCHANGED <<budget, granted, late>>
        /\ result = "aborted" \/ q.pc \in {"continuing", "final"}
    BY <1>1 DEF Answered, Aborted
<1>4. result = "aborted" \/ q.owed = 0
    BY <1>2, <1>3 DEF Standing
<1>5. PICK e : e = Conclude(q, result)
    OBVIOUS
<1>6. Standing(e)
    BY <1>2, <1>4, <1>5, Concluded
<1>7. req' = [req EXCEPT ![r] = e]
    BY <1>1, <1>3, <1>5
<1>8. RequestsStand'
    BY <1>6, <1>7 DEF BInv, RequestsStand, Standing
<1>9. Windows'
    BY <1>3 DEF BInv, Windows, GrantsWithinBudget
<1> QED
    BY <1>8, <1>9 DEF BInv

LEMMA LapseKeeps == ASSUME BInv, Lapse PROVE BInv'
<1>1. PICK k \in budget.held : budget.dead \cup {k} \in Oldest(budget) /\ budget' = [budget EXCEPT !.dead = @ \cup {k}]
    BY DEF Lapse
<1>2. PICK dead \in Oldest(budget) : dead = budget.dead \cup {k}
    BY <1>1
<1>3. DictOK(budget) /\ Fits(budget)
    BY DEF BInv, Windows
<1>4. budget = [val |-> budget.val, held |-> budget.held, dead |-> budget.dead, older |-> budget.older, size |-> budget.size]
    BY <1>3 DEF DictOK, TTLDicts
<1>5. budget' = [val |-> budget.val, held |-> budget.held, dead |-> dead, older |-> budget.older, size |-> budget.size]
    BY Zenon, <1>1, <1>2, <1>4
<1>6. PICK b : b = budget'
    OBVIOUS
<1>7. /\ b = [val |-> budget.val, held |-> budget.held, dead |-> dead, older |-> budget.older, size |-> budget.size]
      /\ b.val = budget.val /\ b.held = budget.held /\ b.dead = dead /\ b.older = budget.older /\ b.size = budget.size
    BY <1>5, <1>6
<1>8. DictOK(b) /\ Fits(b)
  <2>1. /\ budget.held \subseteq Convs /\ budget.val \in [Convs -> Nat] /\ budget.older \subseteq Convs \X Convs
        /\ dead \subseteq budget.held /\ budget.size \in 1..MaxSize
      BY <1>3, DictFields DEF DictOK, Oldest
  <2>2. b \in TTLDicts(Convs, MaxSize)
      BY <1>7, <2>1 DEF TTLDicts
  <2>3. b.dead \in Oldest(b) /\ InOrder(b)
      BY <1>3, <1>7 DEF DictOK, InOrder, Oldest
  <2> QED
      BY <1>3, <1>7, <2>2, <2>3 DEF DictOK, Fits
<1>9. req' = req /\ granted' = granted /\ late' = late
    BY DEF Lapse
<1>10. GrantsWithinBudget'
    BY <1>6, <1>7, <1>9 DEF BInv, Windows, GrantsWithinBudget
<1> QED
    BY <1>6, <1>8, <1>9, <1>10 DEF BInv, Windows, RequestsStand

LEMMA ConfigureKeeps == ASSUME BInv, Configure PROVE BInv'
<1>1. PICK size \in 1..MaxSize, dead \in Oldest(budget) :
         LET b == Configured(budget, size, dead)
             gone == budget.held \ b.held
         IN  /\ budget' = b
             /\ req' = [u \in Requests |-> [req[u] EXCEPT !.own = @ /\ req[u].conv \notin gone]]
             /\ granted' = [k \in Convs |-> IF k \in gone THEN 0 ELSE granted[k]]
             /\ late' = [k \in Convs |-> IF k \in gone THEN 0 ELSE late[k]]
    BY Zenon DEF Configure
<1>2. PICK b, gone : b = Configured(budget, size, dead) /\ gone = budget.held \ b.held
    OBVIOUS
<1>3. /\ budget' = b
      /\ req' = [u \in Requests |-> [req[u] EXCEPT !.own = @ /\ req[u].conv \notin gone]]
      /\ granted' = [k \in Convs |-> IF k \in gone THEN 0 ELSE granted[k]]
      /\ late' = [k \in Convs |-> IF k \in gone THEN 0 ELSE late[k]]
    BY Zenon, <1>1, <1>2
<1>4. /\ DictOK(b) /\ Fits(b)
      /\ \A k \in Convs : b.val[k] = IF k \in gone THEN 0 ELSE budget.val[k]
    BY <1>2, ConfiguredIs DEF BInv, Windows
<1>5. granted \in [Convs -> Nat] /\ late \in [Convs -> Nat] /\ Limit \in Nat
    BY BridgeAssumption DEF BInv, Windows
<1>6. granted' \in [Convs -> Nat] /\ late' \in [Convs -> Nat]
    BY <1>3, <1>5
<1>7. GrantsWithinBudget'
  <2> SUFFICES ASSUME Limit > 0, NEW k \in Convs
               PROVE  granted'[k] <= b.val[k] + late'[k] /\ b.val[k] <= Limit
      BY <1>3 DEF GrantsWithinBudget
  <2>1. granted[k] <= budget.val[k] + late[k] /\ budget.val[k] <= Limit
      BY DEF BInv, Windows, GrantsWithinBudget
  <2>2. /\ granted'[k] = (IF k \in gone THEN 0 ELSE granted[k])
        /\ late'[k] = (IF k \in gone THEN 0 ELSE late[k])
        /\ b.val[k] = (IF k \in gone THEN 0 ELSE budget.val[k])
      BY <1>3, <1>4
  <2> QED
      BY <1>5, <2>1, <2>2
<1>8. ASSUME NEW u \in Requests PROVE Standing(req'[u])
  <2>1. PICK e : e = req[u]
      OBVIOUS
  <2>2. Standing(e)
      BY <2>1 DEF BInv, RequestsStand
  <2>3. PICK w \in BOOLEAN : w = (e.own /\ e.conv \notin gone)
    <3>1. e.own \in BOOLEAN
        BY <2>2, RequestFields DEF Standing
    <3> QED
        BY <3>1
  <2>4. req'[u] = [e EXCEPT !.own = w]
      BY Zenon, <1>3, <2>1, <2>3
  <2> QED
      BY <2>2, <2>4, OwnIsAside
<1>9. RequestsStand'
  <2>1. req' = [u \in Requests |-> req'[u]]
      BY Zenon, <1>3
  <2> QED
      BY <1>8, <2>1 DEF Standing, RequestsStand
<1> QED
    BY <1>3, <1>4, <1>6, <1>7, <1>9 DEF BInv, Windows

LEMMA InitStands == BridgeInit => BInv
<1> SUFFICES ASSUME BridgeInit PROVE BInv
    OBVIOUS
<1>1. PICK size \in 1..MaxSize : budget = Empty(Convs, size)
    BY DEF BridgeInit
<1>2. DictOK(budget) /\ Fits(budget) /\ \A k \in Convs : budget.val[k] = 0
    BY <1>1, EmptyIsOK
<1>3. Limit \in Nat /\ MaxImages \in Nat
    BY BridgeAssumption
<1>4. Windows
    BY <1>2, <1>3 DEF BridgeInit, Windows, GrantsWithinBudget
<1>5. ASSUME NEW u \in Requests PROVE Standing(req[u])
  <2>1. PICK c \in Convs : req[u] = Arrived(c)
      BY DEF BridgeInit
  <2>2. PICK z : z = Arrived(c)
      OBVIOUS
  <2>3. z \in Request
      BY BridgeAssumption, <2>2 DEF Arrived, Request
  <2>4. z.completed = 0 /\ z.batch = 0 /\ z.pc = "planning" /\ z.result = "open" /\ z.owed = 0
      BY <2>2 DEF Arrived
  <2> QED
      BY <1>3, <2>1, <2>2, <2>3, <2>4 DEF Standing
<1>6. RequestsStand
  <2>1. req = [u \in Requests |-> req[u]]
      BY DEF BridgeInit
  <2> QED
      BY <1>5, <2>1 DEF RequestsStand, Standing
<1> QED
    BY <1>4, <1>6 DEF BInv

LEMMA BudgetFollows == BInv => BudgetHolds
<1> SUFFICES ASSUME BInv PROVE BudgetHolds
    OBVIOUS
<1>1. BridgeTypeOK
    BY DEF BInv, Windows, RequestsStand, DictOK, Fits, BridgeTypeOK
<1>2. GrantsWithinBudget
    BY DEF BInv, Windows
<1>3. \A u \in Requests : Standing(req[u])
    BY DEF BInv, RequestsStand
<1>4. ChargesSettled
    BY <1>3 DEF ChargesSettled, Standing
<1>5. ImagesCapped
    BY <1>3 DEF ImagesCapped, Standing
<1> QED
    BY <1>1, <1>2, <1>4, <1>5 DEF BudgetHolds

\* The invariant holds in every reachable state.
THEOREM BudgetInductive == BridgeSpec => []BInv
<1>1. BInv /\ [BridgeNext]_bridgeVars => BInv'
  <2> SUFFICES ASSUME BInv, [BridgeNext]_bridgeVars PROVE BInv'
      OBVIOUS
  <2>1. ASSUME NEW r \in Requests, BridgeStep(r) \/ Aborted(r) PROVE BInv'
      BY <2>1, PlanKeeps, ExecutedKeeps, ContinuedKeeps, ConcludedKeeps DEF BridgeStep
  <2>2. CASE UNCHANGED bridgeVars
      BY <2>2 DEF bridgeVars, BInv, Windows, GrantsWithinBudget, RequestsStand
  <2>3. CASE Over
      BY <2>2, <2>3 DEF Over
  <2> QED
      BY <2>1, <2>2, <2>3, LapseKeeps, ConfigureKeeps DEF BridgeNext
<1> QED
    BY <1>1, InitStands, PTL DEF BridgeSpec

\* The image budget of a conversation holds whatever the size of its cache, the
\* limit, the requests on it and their rounds, and whatever expires, is evicted
\* or reconfigured amid a bridge (state.py:230, image_orchestration.py:477).
THEOREM BudgetSafe == BridgeSpec => []BudgetHolds
    BY BudgetInductive, BudgetFollows, PTL
=============================================================================
