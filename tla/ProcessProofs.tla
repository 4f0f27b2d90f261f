---------------------------- MODULE ProcessProofs ---------------------------
(***************************************************************************)
(* Proofs about what lives with the process: the pool of HTTP clients      *)
(* (HttpPool), and the settings, the database upgrade and the request logs *)
(* over all starts (Lifecycle).                                            *)
(*                                                                         *)
(* The pool, for any number of keys, users and clients: the types, the     *)
(* exact count of an entry's references while the process runs, and from   *)
(* them that no eviction closes a client somebody holds.  The safety       *)
(* property alone is not inductive: that an eviction spares a held client  *)
(* follows from the counts, and that a close awaited later spares it       *)
(* follows from where the victims of past evictions are.                   *)
(*                                                                         *)
(* The lifecycle, for any number of starts, releases, columns, requests    *)
(* and rows, in three invariants that need little of one another:          *)
(*  - the settings: memory has, for every key not edited by hand since the *)
(*    last load, what a load would find, in every phase but "down";        *)
(*  - the upgrade: what init_db would still make of the database, as it is *)
(*    on disk and as the connection sees it, is what the administrator has *)
(*    and what was counted, at every statement (an upgrade may die there); *)
(*  - the logs: the log in memory begins like the sequence of what came in *)
(*    and is no longer than its size, and a request that has an id has no  *)
(*    row but the one of that id, one that has none has no row until it is *)
(*    logged.  The last batch of a trimming leaves the newest rows alone.  *)
(***************************************************************************)
EXTENDS HttpPool, Lifecycle, FiniteSetTheorems, SequenceTheorems, WellFoundedInduction, TLAPS

-----------------------------------------------------------------------------
(* The pool.                                                                 *)

\* Clients are numbered in the order of their creation.
Numbered ==
    /\ \A k \in Keys : pool[k] <= created
    /\ \A u \in Users : toClose[u] \subseteq 1..created

\* No client is pooled under two keys.
Distinct == \A j, k \in Entries : pool[j] = pool[k] => j = k

\* A pooled client is open, and nobody is about to close it.
PoolOpen == \A k \in Entries : pool[k] \notin closed /\ \A u \in Users : pool[k] \notin toClose[u]

\* A user's client is the one pooled under its key.
Held == up => \A u \in Users : pc[u] \in {"closing", "using"} =>
                  key[u] \in Entries /\ pool[key[u]] = client[u]

\* An entry with a reference lost to a cancelled acquire stays.
LostStays == up => \A k \in Keys : lost[k] # 0 => k \in Entries

IInv == TypeOK /\ Numbered /\ Distinct /\ PoolOpen /\ Held /\ LostStays /\ CountsAreExact

\* The holders of an entry are finitely many, because the users are.
LEMMA HoldersFinite ==
    ASSUME NEW k \in Keys
    PROVE  IsFiniteSet(Holders(k)) /\ Cardinality(Holders(k)) \in Nat
  <1>1. Holders(k) \subseteq Users  BY DEF Holders
  <1>2. IsFiniteSet(Holders(k))  BY <1>1, FS_Subset, UsersAssumption
  <1> QED  BY <1>2, FS_CardinalityType

\* An idle entry (in_use is 0) has no holder and no lost reference.
LEMMA IdleUnheld ==
    ASSUME TypeOK, CountsAreExact, up, NEW k \in Idle
    PROVE  Holders(k) = {} /\ lost[k] = 0
  <1>1. k \in Keys /\ k \in Entries /\ inUse[k] = 0  BY DEF Idle, Entries
  <1>2. 0 = Cardinality(Holders(k)) + lost[k]  BY <1>1 DEF CountsAreExact
  <1>3. Cardinality(Holders(k)) \in Nat /\ lost[k] \in Nat  BY <1>1, HoldersFinite DEF TypeOK
  <1>4. Cardinality(Holders(k)) = 0 /\ lost[k] = 0  BY <1>2, <1>3
  <1> QED  BY <1>1, <1>4, HoldersFinite, FS_EmptySet

\* Nothing is pooled, held or counted at the start.
LEMMA InitIInv == Init => IInv
  <1> SUFFICES ASSUME Init PROVE IInv  OBVIOUS
  <1>1. (CHOOSE k \in Keys : TRUE) \in Keys  BY KeysAssumption
  <1>2. TypeOK  BY <1>1 DEF Init, TypeOK, None
  <1>3. Entries = {}  BY DEF Init, Entries
  <1>4. Numbered /\ Held /\ LostStays  BY <1>3 DEF Init, Numbered, Held, LostStays, None
  <1> QED  BY <1>2, <1>3, <1>4 DEF IInv, Distinct, PoolOpen, CountsAreExact

----------------------------------------------------------------------------
\* Taking a client, creating it when the key has none, and evicting idle ones.
LEMMA AcquireStep ==
    ASSUME IInv, NEW u \in Users, NEW k \in Keys, Acquire(u, k)
    PROVE  IInv'
  <1> USE DEF None
  <1> DEFINE c == IF pool[k] = None THEN created + 1 ELSE pool[k]
             E == Entries \union {k}
             I == Idle \ {k}
  <1>1. PICK V \in Victims(E, I, Touched(older, E, k)) :
            /\ created' = IF pool[k] = None THEN created + 1 ELSE created
            /\ pool' = [j \in Keys |-> IF j \in V THEN None ELSE IF j = k THEN c ELSE pool[j]]
            /\ inUse' = [j \in Keys |-> IF j = k THEN (IF pool[k] = None THEN 1 ELSE inUse[k] + 1)
                                        ELSE inUse[j]]
            /\ older' = Among(Touched(older, E, k), E \ V)
            /\ key' = [key EXCEPT ![u] = k]
            /\ client' = [client EXCEPT ![u] = c]
            /\ toClose' = [toClose EXCEPT ![u] = {pool[v] : v \in V}]
            /\ pc' = [pc EXCEPT ![u] = IF V = {} THEN "using" ELSE "closing"]
        BY DEF Acquire
  <1>2. pc[u] = "out" /\ UNCHANGED <<closed, up, lost>>  BY DEF Acquire
  <1>3. V \subseteq Idle /\ k \notin V /\ V \subseteq Keys /\ V \subseteq Entries
        BY DEF Victims, Idle, Entries
  <1>4. TypeOK /\ Numbered  BY DEF IInv
  <1>5. c \in Nat /\ c # 0 /\ c <= created' /\ created' \in Nat /\ created <= created'
        BY <1>1, <1>4 DEF TypeOK, Numbered
  <1>6. {pool[v] : v \in V} \subseteq 1..created
        BY <1>3, <1>4 DEF TypeOK, Numbered, Entries
  <1>7. Entries' = E \ V
        BY <1>1, <1>3, <1>5 DEF Entries
  <1>8. TypeOK'
    <2>1. pool' \in [Keys -> Nat] /\ inUse' \in [Keys -> Nat]  BY <1>1, <1>4, <1>5 DEF TypeOK
    <2>2. older' \subseteq Keys \X Keys
          BY <1>1, <1>4 DEF TypeOK, Among, Touched, Entries
    <2>3. closed' \subseteq 1..created'  BY <1>2, <1>4, <1>5 DEF TypeOK
    <2>4. toClose' \in [Users -> SUBSET Nat]
      <3> DEFINE gone == {pool[v] : v \in V}
      <3>1. gone \in SUBSET Nat  BY <1>4, <1>6 DEF TypeOK
      <3>2. toClose' = [toClose EXCEPT ![u] = gone]  BY <1>1
      <3> HIDE DEF gone
      <3> QED  BY <1>4, <3>1, <3>2 DEF TypeOK
    <2>5. pc' \in [Users -> {"out", "closing", "using", "closing_own", "done"}]
          BY <1>1, <1>4 DEF TypeOK
    <2>6. key' \in [Users -> Keys] /\ client' \in [Users -> Nat]  BY <1>1, <1>4, <1>5 DEF TypeOK
    <2> QED  BY <1>2, <1>4, <1>5, <2>1, <2>2, <2>3, <2>4, <2>5, <2>6 DEF TypeOK
  <1>9. Numbered'
    <2>1. \A j \in Keys : pool'[j] <= created'  BY <1>1, <1>4, <1>5 DEF Numbered, TypeOK
    <2>2. ASSUME NEW w \in Users PROVE toClose'[w] \subseteq 1..created'
      <3>1. 1..created \subseteq 1..created'  BY <1>4, <1>5 DEF TypeOK
      <3>2. toClose'[w] = IF w = u THEN {pool[v] : v \in V} ELSE toClose[w]
            BY <1>1, <1>4 DEF TypeOK
      <3>3. toClose[w] \subseteq 1..created  BY <1>4 DEF Numbered
      <3> QED  BY <1>6, <3>1, <3>2, <3>3
    <2> QED  BY <2>1, <2>2 DEF Numbered
  <1>10. \A j \in Entries' : \/ j \in Entries /\ pool'[j] = pool[j]
                             \/ j = k /\ pool[k] = 0 /\ pool'[k] = created + 1
        BY <1>1, <1>3, <1>7 DEF Entries
  <1>11. Distinct'
        BY <1>4, <1>10 DEF IInv, Distinct, Numbered, TypeOK, Entries
  <1>12. PoolOpen'
    <2> SUFFICES ASSUME NEW j \in Entries'
                 PROVE  pool'[j] \notin closed /\ \A w \in Users : pool'[j] \notin toClose'[w]
          BY <1>2 DEF PoolOpen
    <2>1. pool'[j] \notin closed /\ \A w \in Users : pool'[j] \notin toClose[w]
          BY <1>4, <1>10 DEF IInv, PoolOpen, TypeOK, Numbered
    <2>2. pool'[j] \notin {pool[v] : v \in V}
      <3>1. CASE j \in Entries /\ pool'[j] = pool[j]
            BY <1>3, <1>7, <3>1 DEF IInv, Distinct
      <3>2. CASE pool'[j] = created + 1
            BY <1>4, <1>6, <3>2 DEF TypeOK
      <3> QED  BY <1>10, <3>1, <3>2
    <2> QED  BY <1>1, <1>4, <2>1, <2>2 DEF TypeOK
  <1>13. ASSUME up, NEW v \in V PROVE Holders(v) = {} /\ lost[v] = 0
        BY <1>3, <1>13, IdleUnheld DEF IInv
  <1>14. Held'
    <2> SUFFICES ASSUME up, NEW w \in Users, pc'[w] \in {"closing", "using"}
                 PROVE  key'[w] \in Entries' /\ pool'[key'[w]] = client'[w]
          BY <1>2 DEF Held
    <2>1. CASE w = u
      <3>1. key'[w] = k /\ client'[w] = c /\ pool'[k] = c  BY <1>1, <1>3, <1>4, <2>1 DEF TypeOK
      <3> QED  BY <1>3, <1>7, <3>1
    <2>2. CASE w # u
      <3>1. pc[w] \in {"closing", "using"} /\ key'[w] = key[w] /\ client'[w] = client[w]
            BY <1>1, <1>4, <2>2 DEF TypeOK
      <3>2. key[w] \in Entries /\ pool[key[w]] = client[w]  BY <3>1 DEF IInv, Held
      <3>3. w \in Holders(key[w])  BY <3>1 DEF Holders
      <3>4. key[w] \notin V  BY <1>13, <3>3
      <3>5. pool'[key[w]] = pool[key[w]]  BY <1>1, <3>2, <3>4 DEF Entries
      <3> QED  BY <1>7, <3>1, <3>2, <3>4, <3>5
    <2> QED  BY <2>1, <2>2
  <1>15. LostStays'
        BY <1>2, <1>3, <1>7, <1>13 DEF IInv, LostStays
  <1>16. CountsAreExact'
    <2> SUFFICES ASSUME up, NEW j \in Keys, j \in Entries'
                 PROVE  inUse'[j] = Cardinality(Holders(j)') + lost[j]
          BY <1>2 DEF CountsAreExact
    <2>1. CASE j = k
      <3>1. Holders(k)' = Holders(k) \union {u} /\ u \notin Holders(k)
            BY <1>1, <1>2, <1>4 DEF Holders, TypeOK
      <3>2. Cardinality(Holders(k)') = Cardinality(Holders(k)) + 1
            BY <3>1, HoldersFinite, FS_AddElement
      <3>3. Cardinality(Holders(k)) \in Nat /\ lost[k] \in Nat /\ inUse[k] \in Nat
            BY <1>4, HoldersFinite DEF TypeOK
      <3>4. CASE pool[k] = 0
        <4>1. Holders(k) = {} /\ lost[k] = 0
              BY <3>4 DEF IInv, Held, LostStays, Holders, Entries
        <4>2. Cardinality(Holders(k)) = 0  BY <4>1, FS_EmptySet
        <4> QED  BY <1>1, <2>1, <3>2, <3>4, <4>1, <4>2
      <3>5. CASE pool[k] # 0
        <4>1. inUse[k] = Cardinality(Holders(k)) + lost[k]
              BY <3>5 DEF IInv, CountsAreExact, Entries
        <4> QED  BY <1>1, <2>1, <3>2, <3>3, <3>5, <4>1
      <3> QED  BY <3>4, <3>5
    <2>2. CASE j # k
      <3>1. Holders(j)' = Holders(j)  BY <1>1, <1>2, <1>4, <2>2 DEF Holders, TypeOK
      <3>2. j \in Entries /\ inUse'[j] = inUse[j]  BY <1>1, <1>10, <2>2
      <3> QED  BY <3>1, <3>2 DEF IInv, CountsAreExact
    <2> QED  BY <2>1, <2>2
  <1> QED  BY <1>8, <1>9, <1>11, <1>12, <1>14, <1>15, <1>16 DEF IInv

----------------------------------------------------------------------------
\* Closing one of the victims: it is not pooled, so nothing pooled closes.
LEMMA CloseVictimStep ==
    ASSUME IInv, NEW u \in Users, CloseVictim(u)
    PROVE  IInv'
  <1> USE DEF None
  <1>1. PICK c \in toClose[u] :
            /\ closed' = closed \union {c}
            /\ toClose' = [toClose EXCEPT ![u] = @ \ {c}]
            /\ pc' = [pc EXCEPT ![u] = IF toClose[u] = {c} THEN "using" ELSE "closing"]
        BY DEF CloseVictim
  <1>2. pc[u] = "closing" /\ UNCHANGED <<pool, inUse, older, created, key, client, up, lost>>
        BY DEF CloseVictim
  <1>3. TypeOK /\ Numbered  BY DEF IInv
  <1>4. \A w \in Users : toClose'[w] \subseteq toClose[w]  BY <1>1, <1>3 DEF TypeOK
  <1>5. Entries' = Entries /\ \A k \in Keys : Holders(k)' = Holders(k)
        BY <1>1, <1>2, <1>3 DEF Entries, Holders, TypeOK
  <1>6. TypeOK'
    <2>1. closed' \subseteq 1..created'  BY <1>1, <1>2, <1>3 DEF TypeOK, Numbered
    <2>2. toClose' \in [Users -> SUBSET Nat]  BY <1>1, <1>3 DEF TypeOK
    <2>3. pc' \in [Users -> {"out", "closing", "using", "closing_own", "done"}]
          BY <1>1, <1>3 DEF TypeOK
    <2> QED  BY <1>2, <1>3, <2>1, <2>2, <2>3 DEF TypeOK
  <1>7. Numbered' /\ Distinct'
        BY <1>2, <1>3, <1>4, <1>5 DEF IInv, Numbered, Distinct
  <1>8. PoolOpen'
    <2>1. \A k \in Entries : pool[k] # c  BY <1>1 DEF IInv, PoolOpen
    <2> QED  BY <1>1, <1>2, <1>4, <1>5, <2>1 DEF IInv, PoolOpen
  <1>9. Held' /\ LostStays'
        BY <1>1, <1>2, <1>3, <1>5 DEF IInv, Held, LostStays, TypeOK
  <1>10. CountsAreExact'  BY <1>2, <1>5 DEF IInv, CountsAreExact
  <1> QED  BY <1>6, <1>7, <1>8, <1>9, <1>10 DEF IInv

\* Losing a holder with its reference still counted: lost makes up for it.
LEMMA CancelAcquireStep ==
    ASSUME IInv, NEW u \in Users, CancelAcquire(u)
    PROVE  IInv'
  <1>0. PICK h \in Keys : h = key[u]  BY DEF IInv, TypeOK
  <1>1. /\ pc[u] = "closing" /\ pc' = [pc EXCEPT ![u] = "done"]
        /\ lost' = [lost EXCEPT ![h] = @ + 1]
        /\ UNCHANGED <<pool, inUse, older, created, closed, key, client, toClose, up>>
        BY <1>0 DEF CancelAcquire
  <1>2. TypeOK /\ h \in Keys /\ h = key[u]  BY <1>0 DEF IInv
  <1>3. TypeOK'  BY <1>1, <1>2 DEF TypeOK
  <1>4. Entries' = Entries  BY <1>1 DEF Entries
  <1>5. Numbered' /\ Distinct' /\ PoolOpen'
        BY <1>1, <1>4 DEF IInv, Numbered, Distinct, PoolOpen
  <1>6. Held' /\ LostStays'
        BY <1>1, <1>2, <1>4 DEF IInv, Held, LostStays, TypeOK
  <1>7. CountsAreExact'
    <2> SUFFICES ASSUME up, NEW j \in Keys, j \in Entries
                 PROVE  inUse[j] = Cardinality(Holders(j)') + lost'[j]
          BY <1>1, <1>4 DEF CountsAreExact
    <2>1. inUse[j] = Cardinality(Holders(j)) + lost[j]  BY DEF IInv, CountsAreExact
    <2>2. CASE j = h
      <3>1. u \in Holders(h) /\ Holders(h)' = Holders(h) \ {u}
            BY <1>1, <1>2 DEF Holders, TypeOK
      <3>2. Cardinality(Holders(h)') = Cardinality(Holders(h)) - 1
            BY <1>2, <3>1, HoldersFinite, FS_RemoveElement
      <3>3. Cardinality(Holders(h)) \in Nat /\ lost[h] \in Nat /\ lost'[h] = lost[h] + 1
            BY <1>1, <1>2, HoldersFinite DEF TypeOK
      <3> QED  BY <2>1, <2>2, <3>2, <3>3
    <2>3. CASE j # h
      <3>1. Holders(j)' = Holders(j) /\ lost'[j] = lost[j]
            BY <1>1, <1>2, <2>3 DEF Holders, TypeOK
      <3> QED  BY <2>1, <3>1
    <2> QED  BY <2>2, <2>3
  <1> QED  BY <1>3, <1>5, <1>6, <1>7 DEF IInv

\* Giving a reference back, and dropping the entry when that was the last one
\* and the pool is over its capacity.
LEMMA ReleaseStep ==
    ASSUME IInv, NEW u \in Users, Release(u)
    PROVE  IInv'
  <1> USE DEF None
  <1>0. PICK k \in Keys : k = key[u]  BY DEF IInv, TypeOK
  <1> DEFINE n == OneLess(u)
             drop == OverCapacity /\ n = 0
  <1>1. pc[u] = "using" /\ UNCHANGED <<created, closed, key, client, up, lost>>
        BY DEF Release, GiveBack
  <1>2. TypeOK /\ Numbered /\ k \in Keys /\ k = key[u]  BY <1>0 DEF IInv
  <1>3. n \in Nat  BY <1>2 DEF OneLess, TypeOK
  <1>4. CASE k \notin Entries
    <2>1. pc' = [pc EXCEPT ![u] = "done"] /\ UNCHANGED <<pool, inUse, older, toClose>>
          BY <1>2, <1>4 DEF Release, GiveBack
    <2>2. ~up  BY <1>1, <1>2, <1>4 DEF IInv, Held
    <2>3. TypeOK'  BY <1>1, <1>2, <2>1 DEF TypeOK
    <2>4. Entries' = Entries  BY <2>1 DEF Entries
    <2>5. Numbered' /\ Distinct' /\ PoolOpen'
          BY <1>1, <2>1, <2>4 DEF IInv, Numbered, Distinct, PoolOpen
    <2> QED  BY <1>1, <2>2, <2>3, <2>5 DEF IInv, Held, LostStays, CountsAreExact
  <1>5. CASE k \in Entries
    <2>1. /\ inUse' = [inUse EXCEPT ![k] = n]
          /\ pool' = IF drop THEN [pool EXCEPT ![k] = 0] ELSE pool
          /\ older' = IF drop THEN Among(older, Entries \ {k}) ELSE Touched(older, Entries, k)
          /\ toClose' = IF drop THEN [toClose EXCEPT ![u] = {pool[k]}] ELSE toClose
          /\ pc' = [pc EXCEPT ![u] = IF drop THEN "closing_own" ELSE "done"]
          BY <1>2, <1>5 DEF Release, GiveBack
    <2> HIDE DEF n, drop
    <2>2. Entries' = IF drop THEN Entries \ {k} ELSE Entries
          BY <1>2, <2>1 DEF Entries, TypeOK
    <2>3. pool[k] \in 1..created /\ pool[k] \in Nat  BY <1>2, <1>5 DEF TypeOK, Numbered, Entries
    <2>4. TypeOK'
      <3>1. pool' \in [Keys -> Nat] /\ inUse' \in [Keys -> Nat]  BY <1>2, <1>3, <2>1 DEF TypeOK
      <3>2. older' \subseteq Keys \X Keys  BY <1>2, <2>1 DEF TypeOK, Among, Touched, Entries
      <3>3. toClose' \in [Users -> SUBSET Nat]  BY <1>2, <2>1, <2>3 DEF TypeOK
      <3>4. pc' \in [Users -> {"out", "closing", "using", "closing_own", "done"}]
            BY <1>2, <2>1 DEF TypeOK
      <3> QED  BY <1>1, <1>2, <3>1, <3>2, <3>3, <3>4 DEF TypeOK
    <2>5. \A j \in Entries' : j \in Entries /\ pool'[j] = pool[j]  BY <1>2, <2>1, <2>2 DEF TypeOK
    <2>6. Numbered'
      <3>1. \A j \in Keys : pool'[j] <= created'  BY <1>1, <1>2, <2>1 DEF Numbered, TypeOK
      <3>2. \A w \in Users : toClose'[w] \subseteq 1..created'
            BY <1>1, <1>2, <2>1, <2>3 DEF Numbered, TypeOK
      <3> QED  BY <3>1, <3>2 DEF Numbered
    <2>7. Distinct'  BY <2>5 DEF IInv, Distinct
    <2>8. PoolOpen'
      <3>1. \A j \in Entries' : drop => pool[j] # pool[k]
            BY <1>5, <2>2 DEF IInv, Distinct
      <3>2. ASSUME NEW j \in Entries', NEW w \in Users PROVE pool[j] \notin toClose'[w]
        <4>1. toClose'[w] \subseteq toClose[w] \/ (drop /\ toClose'[w] = {pool[k]})
              BY <1>2, <2>1 DEF TypeOK
        <4>2. pool[j] \notin toClose[w]  BY <2>5 DEF IInv, PoolOpen
        <4> QED  BY <3>1, <4>1, <4>2
      <3> QED  BY <1>1, <2>5, <3>2 DEF IInv, PoolOpen
    <2>9. ASSUME up
          PROVE  /\ inUse[k] = Cardinality(Holders(k)) + lost[k]
                 /\ Cardinality(Holders(k)) \in Nat /\ lost[k] \in Nat
                 /\ u \in Holders(k) /\ Holders(k)' = Holders(k) \ {u}
                 /\ Cardinality(Holders(k)') = Cardinality(Holders(k)) - 1
                 /\ Cardinality(Holders(k)) # 0
      <3>1. inUse[k] = Cardinality(Holders(k)) + lost[k]
            BY <1>2, <1>5, <2>9 DEF IInv, CountsAreExact
      <3>2. Cardinality(Holders(k)) \in Nat /\ lost[k] \in Nat
            BY <1>2, HoldersFinite DEF TypeOK
      <3>3. u \in Holders(k) /\ Holders(k)' = Holders(k) \ {u}
            BY <1>1, <1>2, <2>1 DEF Holders, TypeOK
      <3>4. Cardinality(Holders(k)') = Cardinality(Holders(k)) - 1
            BY <1>2, <3>3, HoldersFinite, FS_RemoveElement
      <3>5. Cardinality(Holders(k)) # 0  BY <1>2, <3>3, HoldersFinite, FS_EmptySet
      <3> QED  BY <3>1, <3>2, <3>3, <3>4, <3>5
    <2>10. up => n = inUse[k] - 1  BY <1>2, <2>9 DEF n, OneLess, TypeOK
    <2>11. up /\ drop => Holders(k) = {u} /\ lost[k] = 0
      <3> SUFFICES ASSUME up, drop PROVE Holders(k) = {u} /\ lost[k] = 0  OBVIOUS
      <3>1. n = 0  BY DEF drop
      <3>2. Cardinality(Holders(k)') = 0 /\ lost[k] = 0  BY <2>9, <2>10, <3>1
      <3>3. IsFiniteSet(Holders(k)')
            BY <1>2, <2>9, HoldersFinite, FS_RemoveElement
      <3>4. Holders(k)' = {}  BY <3>2, <3>3, FS_EmptySet
      <3> QED  BY <2>9, <3>2, <3>4
    <2>12. Held'
      <3> SUFFICES ASSUME up, NEW w \in Users, pc'[w] \in {"closing", "using"}
                   PROVE  key[w] \in Entries' /\ pool'[key[w]] = client[w]
            BY <1>1 DEF Held
      <3>1. w # u /\ pc[w] \in {"closing", "using"}  BY <1>2, <2>1 DEF TypeOK
      <3>2. key[w] \in Entries /\ pool[key[w]] = client[w]  BY <3>1 DEF IInv, Held
      <3>3. drop => key[w] # k  BY <2>11, <3>1 DEF Holders
      <3> QED  BY <2>2, <2>5, <3>2, <3>3
    <2>13. LostStays'  BY <1>1, <2>2, <2>11 DEF IInv, LostStays
    <2>14. CountsAreExact'
      <3> SUFFICES ASSUME up, NEW j \in Keys, j \in Entries'
                   PROVE  inUse'[j] = Cardinality(Holders(j)') + lost[j]
            BY <1>1 DEF CountsAreExact
      <3>1. CASE j = k
            BY <1>2, <2>1, <2>9, <2>10, <3>1 DEF TypeOK
      <3>2. CASE j # k
        <4>1. Holders(j)' = Holders(j)  BY <1>1, <1>2, <2>1, <3>2 DEF Holders, TypeOK
        <4>2. j \in Entries /\ inUse'[j] = inUse[j]  BY <1>2, <2>1, <2>5, <3>2 DEF TypeOK
        <4> QED  BY <4>1, <4>2 DEF IInv, CountsAreExact
      <3> QED  BY <3>1, <3>2
    <2> QED  BY <2>4, <2>6, <2>7, <2>8, <2>12, <2>13, <2>14 DEF IInv
  <1> QED  BY <1>4, <1>5

\* Closing the client of the entry a release dropped: it is not pooled either.
LEMMA CloseOwnStep ==
    ASSUME IInv, NEW u \in Users, CloseOwn(u)
    PROVE  IInv'
  <1>1. /\ pc[u] = "closing_own" /\ pc' = [pc EXCEPT ![u] = "done"]
        /\ closed' \in {closed, closed \union toClose[u]}
        /\ toClose' = [toClose EXCEPT ![u] = {}]
        /\ UNCHANGED <<pool, inUse, older, created, key, client, up, lost>>
        BY DEF CloseOwn
  <1>2. TypeOK /\ Numbered  BY DEF IInv
  <1>3. \A w \in Users : toClose'[w] \subseteq toClose[w]  BY <1>1, <1>2 DEF TypeOK
  <1>4. Entries' = Entries /\ \A k \in Keys : Holders(k)' = Holders(k)
        BY <1>1, <1>2 DEF Entries, Holders, TypeOK
  <1>5. TypeOK'
    <2>1. closed' \subseteq 1..created'  BY <1>1, <1>2 DEF TypeOK, Numbered
    <2> QED  BY <1>1, <1>2, <2>1 DEF TypeOK
  <1>6. Numbered' /\ Distinct' /\ LostStays'
        BY <1>1, <1>2, <1>3, <1>4 DEF IInv, Numbered, Distinct, LostStays
  <1>7. PoolOpen'
    <2>1. \A k \in Entries : pool[k] \notin toClose[u]  BY DEF IInv, PoolOpen
    <2> QED  BY <1>1, <1>3, <1>4, <2>1 DEF IInv, PoolOpen
  <1>8. Held'  BY <1>1, <1>2, <1>4 DEF IInv, Held, TypeOK
  <1>9. CountsAreExact'  BY <1>1, <1>4 DEF IInv, CountsAreExact
  <1> QED  BY <1>5, <1>6, <1>7, <1>8, <1>9 DEF IInv

\* The shutdown empties the pool: what is said of pooled clients holds of none.
LEMMA ShutdownStep == ASSUME IInv, Shutdown PROVE IInv'
  <1> USE DEF None
  <1>1. /\ up' = FALSE /\ pool' = [k \in Keys |-> 0] /\ older' = {}
        /\ inUse' = [k \in Keys |-> 0]
        /\ closed' = closed \union {pool[k] : k \in Entries}
        /\ UNCHANGED <<created, pc, key, client, toClose, lost>>
        BY DEF Shutdown
  <1>2. TypeOK /\ Numbered  BY DEF IInv
  <1>3. Entries' = {}  BY <1>1 DEF Entries
  <1>4. {pool[k] : k \in Entries} \subseteq 1..created
        BY <1>2 DEF Entries, TypeOK, Numbered
  <1>5. TypeOK'
    <2>1. closed' \subseteq 1..created'  BY <1>1, <1>2, <1>4 DEF TypeOK
    <2>2. pool' \in [Keys -> Nat] /\ inUse' \in [Keys -> Nat]  BY <1>1
    <2> QED  BY <1>1, <1>2, <2>1, <2>2 DEF TypeOK
  <1>6. Numbered'  BY <1>1, <1>2 DEF Numbered, TypeOK
  <1> QED  BY <1>1, <1>3, <1>5, <1>6
           DEF IInv, Distinct, PoolOpen, Held, LostStays, CountsAreExact

\* Nothing changes.
LEMMA StutterStep == ASSUME IInv, UNCHANGED vars PROVE IInv'
  <1>1. Entries' = Entries /\ \A k \in Keys : Holders(k)' = Holders(k)
        BY DEF vars, Entries, Holders
  <1> QED  BY <1>1 DEF vars, IInv, TypeOK, Numbered, Distinct, PoolOpen, Held, LostStays,
                       CountsAreExact

----------------------------------------------------------------------------
\* The inductive invariant: every step keeps the types, the distinct and open
\* pooled clients, and the exact counts.
THEOREM Inductive == Spec => []IInv
  <1>1. IInv /\ [Next]_vars => IInv'
    <2> SUFFICES ASSUME IInv, [Next]_vars PROVE IInv'  OBVIOUS
    <2>1. ASSUME NEW u \in Users, NEW k \in Keys, Acquire(u, k) PROVE IInv'
          BY <2>1, AcquireStep
    <2>2. ASSUME NEW u \in Users, CloseVictim(u) PROVE IInv'  BY <2>2, CloseVictimStep
    <2>3. ASSUME NEW u \in Users, CancelAcquire(u) PROVE IInv'  BY <2>3, CancelAcquireStep
    <2>4. ASSUME NEW u \in Users, Release(u) PROVE IInv'  BY <2>4, ReleaseStep
    <2>5. ASSUME NEW u \in Users, CloseOwn(u) PROVE IInv'  BY <2>5, CloseOwnStep
    <2>6. CASE Shutdown  BY <2>6, ShutdownStep
    <2>7. CASE Quiet \/ UNCHANGED vars  BY <2>7, StutterStep DEF Quiet
    <2> QED  BY <2>1, <2>2, <2>3, <2>4, <2>5, <2>6, <2>7 DEF Next
  <1> QED  BY <1>1, InitIInv, PTL DEF Spec

\* acquire, release and the closes keep every variable in its type: no count
\* goes below zero and only clients that exist are closed.
THEOREM TypeCorrect == Spec => []TypeOK
  <1>1. IInv => TypeOK  BY DEF IInv
  <1> QED  BY <1>1, Inductive, PTL

\* While the process runs, in_use is the number of tasks that hold the client
\* plus the acquires that were cancelled before they returned.
THEOREM CountsExact == Spec => []CountsAreExact
  <1>1. IInv => CountsAreExact  BY DEF IInv
  <1> QED  BY <1>1, Inductive, PTL

\* While the process runs, the client a task holds is the one pooled under its
\* key and no eviction or release has closed it.
THEOREM NeverClosedInUse == Spec => []InUseNeverClosed
  <1>1. IInv => InUseNeverClosed
    <2> SUFFICES ASSUME IInv, up, NEW u \in Users, pc[u] \in {"closing", "using"}
                 PROVE  client[u] \notin closed /\ pool[key[u]] = client[u]
          BY DEF InUseNeverClosed
    <2> QED  BY DEF IInv, Held, PoolOpen
  <1> QED  BY <1>1, Inductive, PTL

\* Past its capacity the pool holds only clients in use, so it comes back under
\* it: acquire evicts every idle entry, release drops the one it makes idle.
THEOREM OverflowInUse == Spec => []OverflowOnlyInUse
  <1>1. Init => OverflowOnlyInUse  BY DEF Init, OverflowOnlyInUse, Idle, Entries
  <1>2. IInv /\ OverflowOnlyInUse /\ [Next]_vars => OverflowOnlyInUse'
    <2> SUFFICES ASSUME IInv, OverflowOnlyInUse, [Next]_vars, up, up'
                 PROVE  Cardinality(Entries') > MaxClients => Idle' = {}
          BY DEF OverflowOnlyInUse, Next, vars, Acquire, CloseVictim, CancelAcquire, Release,
                 GiveBack, CloseOwn, Shutdown, Quiet
    <2> USE DEF None
    <2>1. TypeOK  BY DEF IInv
    <2>2. Cardinality(Entries) > MaxClients => Idle = {}  BY DEF OverflowOnlyInUse
    <2>3. ASSUME NEW u \in Users, NEW k \in Keys, Acquire(u, k)
          PROVE  Cardinality(Entries') > MaxClients => Idle' = {}
      <3> DEFINE c == IF pool[k] = None THEN created + 1 ELSE pool[k]
                 E == Entries \union {k}
                 I == Idle \ {k}
      <3>1. PICK V \in Victims(E, I, Touched(older, E, k)) :
              /\ pool' = [j \in Keys |-> IF j \in V THEN None ELSE IF j = k THEN c ELSE pool[j]]
              /\ inUse' = [j \in Keys |-> IF j = k
                                           THEN (IF pool[k] = None THEN 1 ELSE inUse[k] + 1)
                                           ELSE inUse[j]]
            BY <2>3 DEF Acquire
      <3>2. V \subseteq I /\ (Cardinality(E \ V) <= MaxClients \/ V = I)  BY DEF Victims
      <3>3. c # 0 /\ inUse'[k] # 0  BY <2>1, <3>1 DEF TypeOK
      <3>4. Entries' = E \ V  BY <3>1, <3>2, <3>3 DEF Entries, Idle
      <3>5. Idle' \subseteq I \ V  BY <3>1, <3>3, <3>4 DEF Idle, Entries
      <3> QED
        <4>1. CASE V = I  BY <3>5, <4>1
        <4>2. CASE Cardinality(Entries') <= MaxClients
          <5>1. Cardinality(Entries') \in Int
            <6>1. Entries' \subseteq Keys  BY DEF Entries
            <6> QED  BY <6>1, KeysAssumption, FS_Subset, FS_CardinalityType
          <5> QED  BY <4>2, <5>1, BoundsAssumption
        <4> QED  BY <3>2, <3>4, <4>1, <4>2
    <2>4. ASSUME NEW u \in Users, Release(u)
          PROVE  Cardinality(Entries') > MaxClients => Idle' = {}
      <3>1. key[u] \in Entries /\ key[u] \in Keys  BY <2>1, <2>4 DEF IInv, Held, Release, GiveBack, TypeOK
      <3>2. CASE OverCapacity /\ OneLess(u) = 0
        <4>1. Entries' \subseteq Entries /\ Idle' \subseteq Idle \union {key[u]}
                /\ key[u] \notin Entries'
              BY <2>1, <2>4, <3>1, <3>2 DEF Release, GiveBack, Entries, Idle, TypeOK
        <4>2. Idle = {}  BY <2>2, <3>2 DEF OverCapacity
        <4> QED  BY <4>1, <4>2 DEF Idle
      <3>3. CASE ~(OverCapacity /\ OneLess(u) = 0)
        <4>1. Entries' = Entries /\ inUse' = [inUse EXCEPT ![key[u]] = OneLess(u)]
              BY <2>4, <3>1, <3>3 DEF Release, GiveBack, Entries
        <4>2. CASE OverCapacity
          <5>1. OneLess(u) # 0 /\ Idle = {}  BY <2>2, <3>3, <4>2 DEF OverCapacity
          <5> QED  BY <2>1, <3>1, <4>1, <5>1 DEF Idle, TypeOK, Entries
        <4>3. CASE ~OverCapacity  BY <4>1, <4>3 DEF OverCapacity
        <4> QED  BY <4>2, <4>3
      <3> QED  BY <3>2, <3>3
    <2>5. CASE UNCHANGED <<pool, inUse>>  BY <2>2, <2>5 DEF Entries, Idle
    <2> QED  BY <2>3, <2>4, <2>5 DEF Next, vars, CloseVictim, CancelAcquire, CloseOwn, Quiet, Shutdown
  <1> QED  BY <1>1, <1>2, Inductive, PTL DEF Spec

-----------------------------------------------------------------------------
(* The configuration.                                                        *)

Ints(v) == \A k \in DOMAIN v : v[k] \in Int
Form(r) == r = [form |-> r.form, values |-> r.values]

\* What memory has for each setting not edited since the last load.
Live == \A k \in Names \ unseen :
            memory.values[k] = IF k \in DOMAIN wanted THEN wanted[k] ELSE release

CInv ==
    /\ release \in Nat /\ capacity \in Nat
    /\ phase \in {"down", "upgrading", "starting", "serving"}
    /\ Form(file) /\ file.form \in Forms /\ file.values = wanted /\ Ints(wanted)
    /\ Form(memory) /\ memory.form \in {"none", "object", "list"}
    /\ memory.form = "object" => memory.values \in [Names -> Int]
    /\ memory.form = "object" /\ phase # "down" => Live
    /\ phase \in {"upgrading", "starting"} => memory.form = "object"

LEMMA SettingsAre ==
    ASSUME NEW v \in Settings PROVE DOMAIN v \subseteq Names /\ Ints(v)
<1>1. Allowed \subseteq Int /\ -1 \in Int
    BY SettingsAssumption DEF Allowed
<1>2. PICK D \in SUBSET Names : v \in [D -> Allowed \cup {-1}]
    BY DEF Settings, Names
<1> QED
    BY <1>1, <1>2 DEF Ints

LEMMA FilledIs ==
    ASSUME release \in Nat, NEW v, Ints(v), NEW e, e = Filled(v)
    PROVE  /\ e \in [Names -> Int]
           /\ \A k \in Names : e[k] = IF k \in DOMAIN v THEN v[k] ELSE release
BY DEF Filled, Ints, Default

LEMMA NothingIs == Ints(Nothing) /\ DOMAIN Nothing = {}
BY DEF Nothing, Ints

\* e is v without K and with n.
Rewritten(e, v, K, n) ==
    /\ Ints(e) /\ DOMAIN e = (DOMAIN v \ K) \cup DOMAIN n
    /\ \A k \in DOMAIN n : e[k] = n[k]
    /\ \A k \in (DOMAIN v \ K) \ DOMAIN n : e[k] = v[k]

LEMMA UpdatedIs ==
    ASSUME NEW v, Ints(v), NEW K, NEW n, Ints(n), NEW e, e = Updated(Without(v, K), n)
    PROVE  Rewritten(e, v, K, n)
<1>1. PICK w : w = Without(v, K)
    OBVIOUS
<1>2. DOMAIN w = DOMAIN v \ K /\ \A k \in DOMAIN w : w[k] = v[k]
    BY <1>1 DEF Without
<1>3. e = Updated(w, n)
    BY <1>1
<1>4. /\ DOMAIN e = DOMAIN w \cup DOMAIN n
      /\ \A k \in DOMAIN e : e[k] = IF k \in DOMAIN n THEN n[k] ELSE w[k]
    BY <1>3 DEF Updated
<1> QED
    BY <1>2, <1>4 DEF Ints, Rewritten

\* The file, and what of it is in memory.
FileOK == Form(file) /\ file.form \in Forms /\ file.values = wanted /\ Ints(wanted)
MemoryOK ==
    /\ Form(memory) /\ memory.form \in {"none", "object", "list"}
    /\ memory.form = "object" => memory.values \in [Names -> Int]

LEMMA LoadKeeps ==
    ASSUME CInv, Load, release' = release
    PROVE  /\ FileOK' /\ MemoryOK'
           /\ IF LoadFails
              THEN memory'.form = "list" \/ (memory' = memory /\ wanted' = wanted /\ unseen' = unseen)
              ELSE memory'.form = "object" /\ Live'
<1>1. release \in Nat /\ FileOK /\ MemoryOK
    BY DEF CInv, FileOK, MemoryOK
<1>2. CASE file.form = "absent"
  <2>1. PICK e : e = Filled(Nothing)
      OBVIOUS
  <2>2. e \in [Names -> Int] /\ Ints(e) /\ DOMAIN e = Names
      BY <1>1, <2>1, NothingIs, FilledIs DEF Ints
  <2>3. /\ memory' = [form |-> "object", values |-> e]
        /\ file' = [form |-> "object", values |-> e]
        /\ wanted' = e /\ unseen' = {}
      BY <1>2, <2>1 DEF Load
  <2>4. ~LoadFails
      BY <1>2 DEF LoadFails
  <2> QED
      BY <1>1, <2>2, <2>3, <2>4 DEF FileOK, MemoryOK, Form, Forms, Live
<1>3. CASE file.form = "object"
  <2>1. PICK e : e = Filled(file.values)
      OBVIOUS
  <2>2. /\ e \in [Names -> Int]
        /\ \A k \in Names : e[k] = IF k \in DOMAIN wanted THEN wanted[k] ELSE release
      BY <1>1, <2>1, FilledIs DEF FileOK
  <2>3. memory' = [form |-> "object", values |-> e] /\ unseen' = {} /\ file' = file /\ wanted' = wanted
      BY <1>3, <2>1 DEF Load
  <2>4. ~LoadFails
      BY <1>3 DEF LoadFails
  <2> QED
      BY <1>1, <2>2, <2>3, <2>4 DEF FileOK, MemoryOK, Form, Forms, Live
<1>4. CASE file.form = "list"
    BY <1>1, <1>4 DEF Load, LoadFails, FileOK, MemoryOK, Form, Forms
<1>5. CASE file.form = "broken"
    BY <1>1, <1>5 DEF Load, LoadFails, FileOK, MemoryOK, Form, Forms
<1> QED
    BY <1>1, <1>2, <1>3, <1>4, <1>5 DEF FileOK, Forms

LEMMA PatchKeeps ==
    ASSUME CInv, memory.form = "object", Live, NEW new, Ints(new), NEW K, Patch(new, K), release' = release
    PROVE  FileOK' /\ MemoryOK' /\ memory'.form = "object" /\ Live'
<1>1. /\ release \in Nat /\ FileOK /\ Form(memory) /\ memory.values \in [Names -> Int]
    BY DEF CInv, FileOK
<1>2. Ints(memory.values) /\ Ints(file.values) /\ file.values = wanted
    BY <1>1 DEF Ints, FileOK
<1>3. PICK f : f = Updated(Without(wanted, K), new)
    OBVIOUS
<1>4. Rewritten(f, wanted, K, new)
    BY <1>2, <1>3, UpdatedIs
<1>5. PICK m : m = Updated(Without(memory.values, K), new)
    OBVIOUS
<1>6. Rewritten(m, memory.values, K, new)
    BY <1>2, <1>5, UpdatedIs
<1>7. PICK e : e = Filled(m)
    OBVIOUS
<1>8. e \in [Names -> Int] /\ \A k \in Names : e[k] = IF k \in DOMAIN m THEN m[k] ELSE release
    BY <1>1, <1>6, <1>7, FilledIs DEF Rewritten
<1>9. /\ file' = [form |-> "object", values |-> f] /\ wanted' = f
      /\ memory' = [memory EXCEPT !.values = e] /\ unseen' = unseen \ (K \cup DOMAIN new)
    BY <1>2, <1>3, <1>5, <1>7 DEF Patch, PatchedFile, PatchedMemory
<1>10. memory' = [form |-> "object", values |-> e]
    BY <1>1, <1>9 DEF Form
<1>11. ASSUME NEW k \in Names, k \notin unseen'
       PROVE  e[k] = IF k \in DOMAIN f THEN f[k] ELSE release
  <2>1. CASE k \in DOMAIN new
      BY <1>4, <1>6, <1>8, <2>1 DEF Rewritten
  <2>2. CASE k \in K /\ k \notin DOMAIN new
      BY <1>4, <1>6, <1>8, <2>2 DEF Rewritten
  <2>3. CASE k \notin K /\ k \notin DOMAIN new
    <3>1. k \notin unseen /\ k \in DOMAIN memory.values
        BY <1>1, <1>9, <1>11, <2>3
    <3>2. memory.values[k] = IF k \in DOMAIN wanted THEN wanted[k] ELSE release
        BY <3>1 DEF Live
    <3> QED
        BY <1>4, <1>6, <1>8, <2>3, <3>1, <3>2 DEF Rewritten
  <2> QED
      BY <2>1, <2>2, <2>3
<1> QED
    BY <1>4, <1>8, <1>9, <1>10, <1>11 DEF Rewritten, FileOK, MemoryOK, Form, Forms, Live

LEMMA EditKeeps ==
    ASSUME CInv, Edit
    PROVE  FileOK' /\ (memory.form = "object" /\ Live => Live') /\ UNCHANGED <<release, memory, capacity>>
<1>1. FileOK /\ UNCHANGED <<release, memory, capacity>>
    BY DEF CInv, FileOK, Edit
<1>2. ASSUME NEW k \in Names, NEW new \in Settings, DOMAIN new \subseteq {k},
             file' = [file EXCEPT !.values = Updated(Without(@, {k}), new)],
             wanted' = Updated(Without(wanted, {k}), new), unseen' = unseen \cup {k}
      PROVE  FileOK' /\ (memory.form = "object" /\ Live => Live')
  <2>1. Ints(new) /\ Ints(wanted) /\ file.values = wanted
      BY <1>1, SettingsAre DEF FileOK
  <2>2. PICK f : f = Updated(Without(wanted, {k}), new)
      OBVIOUS
  <2>3. Rewritten(f, wanted, {k}, new)
      BY <2>1, <2>2, UpdatedIs
  <2>4. wanted' = f /\ file' = [file EXCEPT !.values = f]
      BY <1>2, <2>1, <2>2
  <2>5. FileOK'
      BY <1>1, <2>3, <2>4 DEF Rewritten, FileOK, Form, Forms
  <2>6. \A j \in Names \ unseen' : (j \in DOMAIN f <=> j \in DOMAIN wanted) /\ (j \in DOMAIN f => f[j] = wanted[j])
      BY <1>2, <2>3 DEF Rewritten
  <2> QED
      BY <1>1, <1>2, <2>4, <2>5, <2>6 DEF Live
<1>3. ASSUME NEW form \in Forms, file' = [file EXCEPT !.form = form], UNCHANGED <<wanted, unseen>>
      PROVE  FileOK' /\ (memory.form = "object" /\ Live => Live')
    BY <1>1, <1>3 DEF FileOK, Form, Live
<1> QED
    BY <1>1, <1>2, <1>3 DEF Edit, Forms

\* What apply_runtime_config leaves in force is no negative size.
LEMMA PushedIs ==
    ASSUME NEW v \in [Names -> Int], NEW old \in Nat PROVE Pushed(v, old) \in Nat
BY DEF Pushed, HookFails, Names

LEMMA ConfigStarts == LifeInit => CInv
<1> SUFFICES ASSUME LifeInit PROVE CInv
    OBVIOUS
<1>1. ConfigInit /\ phase = "down"
    BY DEF LifeInit
<1>2. Ints(wanted)
    BY <1>1, SettingsAre, NothingIs DEF ConfigInit
<1> QED
    BY <1>1, <1>2 DEF ConfigInit, CInv, Form, Forms

LEMMA ConfigKeeps == CInv /\ [LifeNext]_lifeVars => CInv'
<1> SUFFICES ASSUME CInv, [LifeNext]_lifeVars PROVE CInv'
    OBVIOUS
<1>1. /\ release \in Nat /\ capacity \in Nat /\ FileOK /\ MemoryOK
      /\ phase \in {"down", "upgrading", "starting", "serving"}
    BY DEF CInv, FileOK, MemoryOK
<1>2. ASSUME UNCHANGED config, phase' = phase PROVE CInv'
    BY <1>1, <1>2 DEF CInv, config, Live
<1>3. CASE Start
  <2>1. release' = release /\ Load /\ phase = "down"
      BY <1>3 DEF Start
  <2>2. /\ FileOK' /\ MemoryOK'
        /\ ~LoadFails => memory'.form = "object" /\ Live'
      BY <2>1, LoadKeeps
  <2>3. CASE LoadFails \/ memory'.values[Limit] < 0
      BY <1>1, <1>3, <2>1, <2>2, <2>3 DEF Start, CInv, FileOK, MemoryOK
  <2>4. CASE ~(LoadFails \/ memory'.values[Limit] < 0)
    <3>1. memory'.form = "object" /\ Live' /\ memory'.values[Limit] \in Int
        BY <2>2, <2>4 DEF MemoryOK, Names
    <3>2. phase' = "upgrading" /\ capacity' = memory'.values[Limit] /\ capacity' \in Nat
        BY <1>3, <2>4, <3>1 DEF Start
    <3> QED
        BY <1>1, <2>1, <2>2, <3>1, <3>2 DEF CInv, FileOK, MemoryOK
  <2> QED
      BY <2>3, <2>4
<1>4. CASE Migrated
    BY <1>1, <1>4 DEF Migrated, CInv, config, Live
<1>5. CASE Serve
  <2>1. memory.values \in [Names -> Int] /\ memory.form = "object" /\ Live /\ phase = "starting"
      BY <1>5 DEF CInv, Serve
  <2>2. capacity' \in Nat
      BY <1>1, <1>5, <2>1, PushedIs DEF Serve
  <2> QED
      BY <1>1, <1>5, <2>1, <2>2 DEF Serve, CInv, Live, FileOK
<1>6. CASE Die
    BY <1>1, <1>6 DEF Die, CInv, FileOK, Form
<1>7. CASE Install
    BY <1>1, <1>7 DEF Install, CInv, FileOK, MemoryOK
<1>8. CASE EditFile
  <2>1. phase' = phase /\ Edit
      BY <1>8 DEF EditFile
  <2>2. FileOK' /\ (memory.form = "object" /\ Live => Live') /\ UNCHANGED <<release, memory, capacity>>
      BY <2>1, EditKeeps
  <2> QED
      BY <1>1, <2>1, <2>2 DEF CInv, FileOK, MemoryOK
<1>9. ASSUME NEW new, Ints(new), NEW K, Patch(new, K), memory.form = "object", phase = "serving", phase' = phase,
             release' = release, capacity' = Pushed(memory'.values, capacity)
      PROVE  CInv'
  <2>1. FileOK' /\ MemoryOK' /\ memory'.form = "object" /\ Live'
      BY <1>9, PatchKeeps DEF CInv
  <2>2. capacity' \in Nat
      BY <1>1, <1>9, <2>1, PushedIs DEF MemoryOK
  <2> QED
      BY <1>1, <1>9, <2>1, <2>2 DEF CInv, FileOK, MemoryOK
<1>10. CASE UpdateSettings
  <2>1. PICK new \in Settings : Patch(new, {})
      BY <1>10 DEF UpdateSettings
  <2> QED
      BY <1>9, <1>10, <2>1, SettingsAre DEF UpdateSettings, Administer
<1>11. CASE ResetSettings
    BY <1>9, <1>11, NothingIs DEF ResetSettings, Administer
<1>12. CASE ReloadSettings
  <2>1. Load /\ release' = release /\ phase = "serving" /\ phase' = phase /\ memory.form = "object"
      BY <1>12 DEF ReloadSettings, Administer
  <2>2. /\ FileOK' /\ MemoryOK'
        /\ IF LoadFails
           THEN memory'.form = "list" \/ (memory' = memory /\ wanted' = wanted /\ unseen' = unseen)
           ELSE memory'.form = "object" /\ Live'
      BY <2>1, LoadKeeps
  <2>3. capacity' \in Nat
      BY <1>1, <1>12, <2>2, PushedIs DEF ReloadSettings, MemoryOK
  <2>4. memory'.form = "object" => Live'
      BY <2>1, <2>2 DEF CInv, Live
  <2> QED
      BY <1>1, <2>1, <2>2, <2>3, <2>4 DEF CInv, FileOK, MemoryOK
<1>13. CASE Migrate \/ ChangeProvider \/ ResetStats \/ ResetStatsEnd \/ ManageRows \/ Maintain \/ MaintainBatch
    BY <1>2, <1>13 DEF Migrate, ChangeProvider, ResetStats, ResetStatsEnd, ManageRows, Maintain, MaintainBatch,
        Administer, config, life
<1>14. ASSUME NEW r \in Requests, HandleRequest(r) \/ BeginRequest(r) PROVE CInv'
    BY <1>2, <1>14 DEF HandleRequest, BeginRequest, config, life
<1>15. CASE UNCHANGED lifeVars
    BY <1>2, <1>15 DEF lifeVars, config, life
<1> QED
    BY <1>3, <1>4, <1>5, <1>6, <1>7, <1>8, <1>10, <1>11, <1>12, <1>13, <1>14, <1>15 DEF LifeNext

\* Whatever is patched, reset, reloaded, edited by hand or installed, in any
\* order, the file holds what was written there and the gateway goes by it
\* (config.py:132).
THEOREM ConfigSafe == LifeSpec => []ConfigAsWanted
<1>1. CInv => ConfigAsWanted
  <2> SUFFICES ASSUME CInv PROVE ConfigAsWanted
      OBVIOUS
  <2>1. FileIsWanted
      BY DEF CInv, FileIsWanted
  <2>2. ASSUME phase = "serving", memory.form = "object", NEW k \in Names \ unseen
        PROVE  memory.values[k] = Filled(wanted)[k]
      BY <2>2, FilledIs DEF CInv, Live
  <2> QED
      BY <2>1, <2>2 DEF ConfigAsWanted, LiveIsWanted
<1> QED
    BY <1>1, ConfigStarts, ConfigKeeps, PTL DEF LifeSpec

-----------------------------------------------------------------------------
(* The upgrade.                                                              *)

DatabaseOK(db) ==
    /\ db = [version |-> db.version, deepseek |-> db.deepseek, legacyColumn |-> db.legacyColumn,
             legacy |-> db.legacy, splitColumns |-> db.splitColumns, options |-> db.options,
             headers |-> db.headers, columns |-> db.columns, counters |-> db.counters]
    /\ db.version \in 0..1
    /\ db.counters = [c \in DOMAIN db.counters |-> db.counters[c]] /\ DOMAIN db.counters \subseteq Counters

\* The provider's settings as they are, and as the next upgrade leaves them.
Given(db) == [options |-> db.options, headers |-> db.headers]
Due(db) == IF db.version = 0 /\ db.legacyColumn
           THEN [options |-> SplitOptions(db), headers |-> SplitHeaders(db)]
           ELSE Given(db)

\* What the next upgrade makes of a database is what it should be.
DueAs(db, provider, counters, recount) ==
    DatabaseOK(db) /\ Due(db) = provider /\ Seeded(db.counters, recount) = counters
DataOK(db) == DueAs(db, owner, truth, Recount)

Whole(db) == DataOK(db) /\ db.version = 1 /\ DOMAIN db.counters = Counters

UInv ==
    /\ DataOK(disk) /\ DataOK(work)
    /\ open \/ work = disk
    /\ step \in {"idle", "split_columns", "split_row", "drop", "version", "columns", "counters", "commit"}
    /\ step = "idle" => ~open
    /\ step \in {"split_row", "drop"} => work.version = 0
    /\ step = "split_row" => work.legacyColumn
    /\ step \in {"drop", "version"} => Given(work) = owner
    /\ step \in {"columns", "counters", "commit"} => work.version = 1
    /\ step = "commit" => Whole(work)
    /\ phase \in {"down", "upgrading", "starting", "serving"}
    /\ phase # "upgrading" => step = "idle"
    /\ phase \in {"starting", "serving"} => Whole(disk)

\* What is split stays as it is when it is split again.
LEMMA SplitTwice ==
    ASSUME NEW db, DatabaseOK(db), NEW e, e = Split(db)
    PROVE  /\ DatabaseOK(e) /\ e.counters = db.counters /\ e.version = db.version
           /\ e.legacyColumn = db.legacyColumn
           /\ Given(e) = [options |-> SplitOptions(db), headers |-> SplitHeaders(db)]
           /\ SplitOptions(e) = SplitOptions(db) /\ SplitHeaders(e) = SplitHeaders(db)
<1>1. PICK o, h : o = SplitOptions(db) /\ h = SplitHeaders(db)
    OBVIOUS
<1>2. e = [db EXCEPT !.options = o, !.headers = h]
    BY <1>1 DEF Split
<1>3. /\ e = [version |-> db.version, deepseek |-> db.deepseek, legacyColumn |-> db.legacyColumn,
              legacy |-> db.legacy, splitColumns |-> db.splitColumns, options |-> o,
              headers |-> h, columns |-> db.columns, counters |-> db.counters]
    BY <1>2 DEF DatabaseOK
<1>4. SplitOptions(e) = o
    BY <1>1, <1>3 DEF SplitOptions, Options
<1>5. SplitHeaders(e) = h
    BY <1>1, <1>3 DEF SplitHeaders
<1> QED
    BY <1>1, <1>3, <1>4, <1>5 DEF DatabaseOK, Given

\* Counters that are there are not counted again.
LEMMA SeededTwice ==
    ASSUME NEW counters, NEW recount, NEW other, NEW e, e = Seeded(counters, recount)
    PROVE  /\ DOMAIN e = Counters /\ e = [c \in DOMAIN e |-> e[c]]
           /\ Seeded(e, other) = e
BY DEF Seeded

LEMMA SeededWhole ==
    ASSUME NEW counters, counters = [c \in DOMAIN counters |-> counters[c]], DOMAIN counters = Counters, NEW recount
    PROVE  Seeded(counters, recount) = counters
BY DEF Seeded

LEMMA WholeIs ==
    ASSUME NEW db, Whole(db)
    PROVE  /\ DatabaseOK(db) /\ db.version = 1 /\ Given(db) = owner
           /\ db.counters = truth /\ DOMAIN truth = Counters
BY SeededWhole DEF Whole, DataOK, DueAs, DatabaseOK, Due

LEMMA UpgradeStarts == LifeInit => UInv
<1> SUFFICES ASSUME LifeInit PROVE UInv
    OBVIOUS
<1>1. PICK origin \in Origins, counters \in {Uncounted, [c \in {"calls"} |-> 2], [c \in Counters |-> 1]} :
        /\ UpgradeInit(origin, counters)
        /\ truth = IF counters = Uncounted THEN Recount
                   ELSE [c \in Counters |-> IF c \in DOMAIN counters THEN counters[c] ELSE 0]
    BY DEF LifeInit
<1>2. /\ origin = [version |-> 0, deepseek |-> origin.deepseek, legacyColumn |-> origin.legacyColumn,
                   legacy |-> origin.legacy, splitColumns |-> origin.splitColumns, options |-> origin.options,
                   headers |-> origin.headers, columns |-> origin.columns, counters |-> origin.counters]
      /\ origin.version = 0
  <2>1. CASE origin = NewDatabase
      BY <2>1 DEF NewDatabase
  <2>2. CASE origin \in OldDatabases
      BY <2>2 DEF OldDatabases
  <2> QED
      BY <2>1, <2>2 DEF Origins
<1>3. /\ disk = [version |-> 0, deepseek |-> origin.deepseek, legacyColumn |-> origin.legacyColumn,
                 legacy |-> origin.legacy, splitColumns |-> origin.splitColumns, options |-> origin.options,
                 headers |-> origin.headers, columns |-> origin.columns, counters |-> counters]
      /\ work = disk /\ open = FALSE /\ step = "idle"
  <2>1. disk = [origin EXCEPT !.counters = counters] /\ work = disk /\ open = FALSE /\ step = "idle"
      BY <1>1 DEF UpgradeInit
  <2> QED
      BY <1>2, <2>1
<1>4. /\ counters = [c \in DOMAIN counters |-> counters[c]] /\ DOMAIN counters \subseteq Counters
      /\ DOMAIN counters = {} <=> counters = Uncounted
    BY <1>1 DEF Counters, Uncounted
<1>5. Seeded(counters, Recount) = truth
  <2>1. CASE counters = Uncounted
    <3>1. DOMAIN Recount = Counters /\ Recount = [c \in Counters |-> Recount[c]]
        BY DEF Recount, Counters
    <3>2. truth = Recount /\ DOMAIN counters = {}
        BY <1>1, <1>4, <2>1
    <3> HIDE DEF Recount
    <3> QED
        BY <3>1, <3>2 DEF Seeded
  <2>2. CASE counters # Uncounted
    <3>1. truth = [c \in Counters |-> IF c \in DOMAIN counters THEN counters[c] ELSE 0] /\ DOMAIN counters # {}
        BY <1>1, <1>4, <2>2
    <3> QED
        BY <3>1 DEF Seeded
  <2> QED
      BY <2>1, <2>2
<1>6. Due(disk) = owner
  <2>1. owner = IF disk.legacyColumn
               THEN [options |-> SplitOptions(disk), headers |-> SplitHeaders(disk)]
               ELSE [options |-> disk.options, headers |-> disk.headers]
      BY <1>1 DEF UpgradeInit
  <2>2. disk.version = 0
      BY <1>3
  <2> QED
      BY <2>1, <2>2 DEF Due, Given
<1>7. DatabaseOK(disk) /\ disk.counters = counters
    BY <1>3, <1>4 DEF DatabaseOK
<1>8. phase = "down"
    BY DEF LifeInit
<1> QED
    BY <1>3, <1>5, <1>6, <1>7, <1>8 DEF UInv, DataOK, DueAs

\* A gateway that serves has a whole database, whatever the rows are.
LEMMA WholeServes ==
    ASSUME phase' = "serving", step' = "idle", open' = FALSE, work' = disk',
           DatabaseOK(disk)', disk'.version = 1, Given(disk)' = owner', disk'.counters = truth',
           DOMAIN truth' = Counters
    PROVE  UInv'
<1>1. PICK d, rec, t : d = disk' /\ rec = Recount' /\ t = truth'
    OBVIOUS
<1>2. Seeded(d.counters, rec) = t
    BY <1>1, SeededWhole DEF DatabaseOK
<1>3. Due(d) = owner'
    BY <1>1 DEF Due, Given
<1>4. DataOK(disk)'
    BY <1>1, <1>2, <1>3 DEF DataOK, DueAs, Due, Given
<1> QED
    BY <1>1, <1>4 DEF UInv, Whole

LEMMA ServingIs ==
    ASSUME UInv, phase = "serving"
    PROVE  /\ step = "idle" /\ open = FALSE /\ work = disk
           /\ DatabaseOK(disk) /\ disk.version = 1 /\ Given(disk) = owner
           /\ disk.counters = truth /\ DOMAIN truth = Counters
<1>1. Whole(disk) /\ step = "idle" /\ ~open
    BY DEF UInv
<1>2. open \in BOOLEAN => open = FALSE
    BY <1>1
<1> QED
    BY <1>1, WholeIs DEF UInv

\* What leaves the database alone.
LEMMA UntouchedKeeps ==
    ASSUME UInv, UNCHANGED <<disk, work, open, step, owner, truth, rows>>,
           phase' \in {"down", "upgrading", "starting", "serving"},
           phase' # "upgrading" => step = "idle",
           phase' \in {"starting", "serving"} => phase \in {"starting", "serving"}
    PROVE  UInv'
<1>1. Recount' = Recount
    BY DEF Recount, ImageRows
<1>2. PICK d, w, o, t, rec : d = disk /\ w = work /\ o = owner /\ t = truth /\ rec = Recount
    OBVIOUS
<1>3. DueAs(d, o, t, rec) /\ DueAs(w, o, t, rec)
    BY <1>2 DEF UInv, DataOK
<1>4. /\ d = disk' /\ w = work' /\ o = owner' /\ t = truth' /\ rec = Recount'
    BY <1>1, <1>2
<1> QED
    BY <1>2, <1>3, <1>4 DEF UInv, DataOK, Whole, Given

\* A statement of the upgrade, and what of it is durable.
LEMMA StatementKeeps ==
    ASSUME UInv, step # "idle", NEW db, Schema(db) \/ Rows(db), DataOK(db),
           UNCHANGED <<owner, truth, rows, phase>>
    PROVE  /\ DataOK(disk)' /\ DataOK(work)' /\ work' = db /\ (open' \/ work' = disk') /\ Given(db) = Given(work)'
           /\ phase = "upgrading" /\ phase' = "upgrading" /\ step # "idle"
<1>1. Recount' = Recount
    BY DEF Recount, ImageRows
<1>2. PICK d, e, o, t, rec : d = disk /\ e = disk' /\ o = owner /\ t = truth /\ rec = Recount
    OBVIOUS
<1>3. DueAs(d, o, t, rec) /\ DueAs(db, o, t, rec) /\ (e = d \/ e = db)
    BY <1>2 DEF UInv, DataOK, Schema, Rows
<1>4. o = owner' /\ t = truth' /\ rec = Recount' /\ e = disk' /\ db = work'
    BY <1>1, <1>2 DEF Schema, Rows
<1>5. DataOK(disk)' /\ DataOK(work)'
    BY <1>3, <1>4 DEF DataOK
<1>6. open' \/ work' = disk'
    BY DEF UInv, Schema, Rows
<1> QED
    BY <1>4, <1>5, <1>6 DEF UInv, Given

LEMMA MigrateKeeps == UInv /\ Migrate => UInv'
<1> SUFFICES ASSUME UInv, Migrate PROVE UInv'
    OBVIOUS
<1>1. UNCHANGED <<truth, rows, phase>> /\ phase = "upgrading"
    BY DEF Migrate, logs, life
<1>2. PICK w : w = work
    OBVIOUS
<1>3. /\ w = [version |-> w.version, deepseek |-> w.deepseek, legacyColumn |-> w.legacyColumn,
              legacy |-> w.legacy, splitColumns |-> w.splitColumns, options |-> w.options,
              headers |-> w.headers, columns |-> w.columns, counters |-> w.counters]
      /\ w.version \in 0..1 /\ DatabaseOK(w) /\ DueAs(w, owner, truth, Recount)
    BY <1>2 DEF UInv, DataOK, DueAs, DatabaseOK
<1>4. ASSUME NEW o, NEW t, NEW rec, UNCHANGED <<disk, work, open, owner>>, o = owner, t = truth, rec = Recount
      PROVE  DataOK(disk)' /\ DataOK(work)'
  <2>1. PICK d : d = disk
      OBVIOUS
  <2>2. DueAs(d, o, t, rec) /\ DueAs(w, o, t, rec)
      BY <1>2, <1>3, <1>4, <2>1 DEF UInv, DataOK
  <2>3. Recount' = rec
      BY <1>1, <1>4 DEF Recount, ImageRows
  <2>4. d = disk' /\ w = work' /\ o = owner' /\ t = truth'
      BY <1>1, <1>2, <1>4, <2>1
  <2> QED
      BY <2>2, <2>3, <2>4 DEF DataOK
<1>5. CASE Open
  <2>1. PICK d, o, t, rec : d = disk /\ o = owner /\ t = truth /\ rec = Recount
      OBVIOUS
  <2>2. DueAs(d, o, t, rec)
      BY <2>1 DEF UInv, DataOK
  <2>3. Recount' = rec
      BY <1>1, <2>1 DEF Recount, ImageRows
  <2>4. d = disk' /\ d = work' /\ o = owner' /\ t = truth' /\ step' = "split_columns" /\ open' = FALSE
      BY <1>1, <1>5, <2>1 DEF Open, Goto
  <2> QED
      BY <1>1, <2>2, <2>3, <2>4 DEF UInv, DataOK
<1>6. ASSUME Pass, UNCHANGED owner PROVE DataOK(disk)' /\ DataOK(work)' /\ work' = work /\ (open' \/ work' = disk')
    BY <1>4, <1>6 DEF Pass, UInv
<1>7. CASE SplitColumns
  <2>1. PICK db : db = [w EXCEPT !.splitColumns = TRUE]
      OBVIOUS
  <2>2. db = [version |-> w.version, deepseek |-> w.deepseek, legacyColumn |-> w.legacyColumn,
              legacy |-> w.legacy, splitColumns |-> TRUE, options |-> w.options,
              headers |-> w.headers, columns |-> w.columns, counters |-> w.counters]
      BY <1>3, <2>1
  <2>3. DataOK(db)
      BY <1>3, <2>2 DEF DataOK, DueAs, DatabaseOK, Due, Given, SplitOptions, SplitHeaders
  <2>4. CASE AlreadySplit /\ Pass /\ Goto("columns")
      BY <1>1, <1>2, <1>3, <1>6, <2>4 DEF AlreadySplit, Goto, UInv
  <2>5. CASE ~AlreadySplit /\ Schema(db) /\ Goto(IF w.legacyColumn THEN "split_row" ELSE "version")
    <3>1. w.version = 0 /\ owner' = owner
        BY <1>2, <1>3, <2>5 DEF AlreadySplit, Goto
    <3>2. DataOK(disk)' /\ DataOK(work)' /\ work' = db /\ (open' \/ work' = disk') /\ Given(db) = Given(work)'
        BY <1>1, <1>7, <2>3, <2>5, <3>1, StatementKeeps DEF SplitColumns
    <3>3. ~w.legacyColumn => Given(db) = owner
        BY <2>2, <2>3, <3>1 DEF DataOK, DueAs, Due
    <3> QED
        BY <1>1, <2>2, <2>5, <3>1, <3>2, <3>3 DEF Goto, UInv
  <2> QED
      BY <1>2, <1>7, <2>1, <2>4, <2>5 DEF SplitColumns
<1>8. CASE SplitRow
  <2>1. PICK db : db = Split(w)
      OBVIOUS
  <2>2. /\ DatabaseOK(db) /\ db.counters = w.counters /\ db.version = w.version
        /\ db.legacyColumn = w.legacyColumn
        /\ Given(db) = [options |-> SplitOptions(w), headers |-> SplitHeaders(w)]
        /\ SplitOptions(db) = SplitOptions(w) /\ SplitHeaders(db) = SplitHeaders(w)
      BY <1>3, <2>1, SplitTwice
  <2>3. w.version = 0 /\ w.legacyColumn /\ step = "split_row" /\ owner' = owner /\ step' = "drop"
      BY <1>2, <1>8 DEF SplitRow, UInv, Goto
  <2>4. DataOK(db) /\ Given(db) = owner
      BY <1>3, <2>2, <2>3 DEF DataOK, DueAs, Due
  <2>5. CASE Rows(db)
    <3>1. DataOK(disk)' /\ DataOK(work)' /\ work' = db /\ (open' \/ work' = disk') /\ Given(db) = Given(work)'
        BY <1>1, <2>3, <2>4, <2>5, StatementKeeps
    <3> QED
        BY <1>1, <2>2, <2>3, <2>4, <3>1 DEF UInv
  <2>6. CASE Pass /\ ~(db.options # {} \/ db.headers # {})
    <3>1. db.options = w.options /\ db.headers = w.headers
        BY <2>2, <2>6 DEF Given, SplitOptions, SplitHeaders
    <3>2. Given(w) = owner
        BY <2>4, <3>1 DEF Given
    <3> QED
        BY <1>1, <1>2, <1>6, <2>3, <2>6, <3>2 DEF UInv, Given
  <2> QED
      BY <1>2, <1>8, <2>1, <2>5, <2>6 DEF SplitRow
<1>9. CASE DropColumn
  <2>1. PICK db : db = [w EXCEPT !.legacyColumn = FALSE, !.legacy = {}]
      OBVIOUS
  <2>2. db = [version |-> w.version, deepseek |-> w.deepseek, legacyColumn |-> FALSE,
              legacy |-> {}, splitColumns |-> w.splitColumns, options |-> w.options,
              headers |-> w.headers, columns |-> w.columns, counters |-> w.counters]
      BY <1>3, <2>1
  <2>3. w.version = 0 /\ Given(w) = owner /\ step = "drop" /\ owner' = owner /\ step' = "version"
      BY <1>2, <1>9 DEF DropColumn, UInv, Goto
  <2>4. DataOK(db) /\ Given(db) = owner
      BY <1>3, <2>2, <2>3 DEF DataOK, DueAs, DatabaseOK, Due, Given
  <2>5. CASE Schema(db)
    <3>1. DataOK(disk)' /\ DataOK(work)' /\ work' = db /\ (open' \/ work' = disk') /\ Given(db) = Given(work)'
        BY <1>1, <2>3, <2>4, <2>5, StatementKeeps
    <3> QED
        BY <1>1, <2>3, <2>4, <3>1 DEF UInv
  <2>6. CASE Pass
      BY <1>1, <1>2, <1>6, <2>3, <2>6 DEF UInv, Given
  <2> QED
      BY <1>2, <1>9, <2>1, <2>5, <2>6 DEF DropColumn
<1>10. CASE SetVersion
  <2>1. PICK db : db = [w EXCEPT !.version = 1]
      OBVIOUS
  <2>2. db = [version |-> 1, deepseek |-> w.deepseek, legacyColumn |-> w.legacyColumn,
              legacy |-> w.legacy, splitColumns |-> w.splitColumns, options |-> w.options,
              headers |-> w.headers, columns |-> w.columns, counters |-> w.counters]
      BY <1>3, <2>1
  <2>3. Given(w) = owner /\ step = "version" /\ owner' = owner /\ step' = "columns" /\ Schema(db)
      BY <1>2, <1>10, <2>1 DEF SetVersion, UInv, Goto
  <2>4. DataOK(db)
      BY <1>3, <2>2, <2>3 DEF DataOK, DueAs, DatabaseOK, Due, Given
  <2>5. DataOK(disk)' /\ DataOK(work)' /\ work' = db /\ (open' \/ work' = disk')
      BY <1>1, <2>3, <2>4, StatementKeeps
  <2> QED
      BY <1>1, <2>2, <2>3, <2>5 DEF UInv
<1>11. CASE AddColumn
  <2>1. step = "columns" /\ w.version = 1 /\ owner' = owner /\ step' \in {"columns", "counters"}
      BY <1>2, <1>11 DEF AddColumn, UInv, Goto
  <2>2. ASSUME NEW c, NEW db, db = [w EXCEPT !.columns = @ \cup {c}], Schema(db) PROVE UInv'
    <3>1. PICK cs : cs = w.columns \cup {c}
        OBVIOUS
    <3>2. db = [version |-> 1, deepseek |-> w.deepseek, legacyColumn |-> w.legacyColumn,
              legacy |-> w.legacy, splitColumns |-> w.splitColumns, options |-> w.options,
              headers |-> w.headers, columns |-> cs, counters |-> w.counters]
        BY <1>3, <2>1, <2>2, <3>1
    <3>3. DataOK(db)
        BY <1>3, <2>1, <3>2 DEF DataOK, DueAs, DatabaseOK, Due, Given
    <3>4. DataOK(disk)' /\ DataOK(work)' /\ work' = db /\ (open' \/ work' = disk')
        BY <1>1, <2>1, <2>2, <3>3, StatementKeeps
    <3> QED
        BY <1>1, <2>1, <3>2, <3>4 DEF UInv
  <2>3. CASE Pass
      BY <1>1, <1>2, <1>6, <2>1, <2>3 DEF UInv
  <2> QED
      BY <1>2, <1>11, <2>2, <2>3 DEF AddColumn
<1>12. CASE SeedCounters(Recount)
  <2>1. PICK rec : rec = Recount
      OBVIOUS
  <2>2. PICK cs : cs = Seeded(w.counters, rec)
      OBVIOUS
  <2>3. PICK db : db = [w EXCEPT !.counters = cs]
      OBVIOUS
  <2>4. w.version = 1 /\ step = "counters" /\ owner' = owner /\ step' = "commit"
      BY <1>2, <1>12 DEF SeedCounters, UInv, Goto
  <2>5. db = [version |-> 1, deepseek |-> w.deepseek, legacyColumn |-> w.legacyColumn,
              legacy |-> w.legacy, splitColumns |-> w.splitColumns, options |-> w.options,
              headers |-> w.headers, columns |-> w.columns, counters |-> cs]
      BY <1>3, <2>3, <2>4
  <2>6. DOMAIN cs = Counters /\ cs = [c \in DOMAIN cs |-> cs[c]] /\ Seeded(cs, rec) = cs /\ cs = truth
      BY <1>3, <2>1, <2>2, SeededTwice DEF DueAs
  <2>7. DataOK(db)
      BY <1>3, <2>1, <2>4, <2>5, <2>6 DEF DataOK, DueAs, DatabaseOK, Due, Given
  <2>8. CASE Rows(db)
    <3>1. DataOK(disk)' /\ DataOK(work)' /\ work' = db /\ (open' \/ work' = disk')
        BY <1>1, <2>4, <2>7, <2>8, StatementKeeps
    <3> QED
        BY <1>1, <2>4, <2>5, <2>6, <3>1 DEF UInv, Whole
  <2>9. CASE Pass /\ Missing(w.counters) = {}
    <3>1. DOMAIN w.counters = Counters
        BY <1>3, <2>9 DEF Missing, DatabaseOK
    <3> QED
        BY <1>1, <1>2, <1>6, <2>4, <2>9, <3>1 DEF UInv, Whole
  <2> QED
      BY <1>2, <1>12, <2>1, <2>2, <2>3, <2>8, <2>9 DEF SeedCounters
<1> QED
    BY <1>5, <1>7, <1>8, <1>9, <1>10, <1>11, <1>12 DEF Migrate

LEMMA UpgradeKeeps == UInv /\ [LifeNext]_lifeVars => UInv'
<1> SUFFICES ASSUME UInv, [LifeNext]_lifeVars PROVE UInv'
    OBVIOUS
<1>1. phase \in {"down", "upgrading", "starting", "serving"}
    BY DEF UInv
<1>2. CASE Start
    BY <1>2, UntouchedKeeps DEF Start, database, logs, UInv
<1>3. CASE Migrate
    BY <1>3, MigrateKeeps
<1>4. CASE Migrated
  <2>1. PICK w, o, t, rec : w = work /\ o = owner /\ t = truth /\ rec = Recount
      OBVIOUS
  <2>2. step = "commit" /\ disk' = w /\ work' = w /\ o = owner' /\ t = truth' /\ rows' = rows /\ open' = FALSE
        /\ step' = "idle" /\ phase' = "starting"
      BY <1>4, <2>1 DEF Migrated, Commit, Goto, logs
  <2>3. DueAs(w, o, t, rec) /\ w.version = 1 /\ DOMAIN w.counters = Counters
      BY <2>1, <2>2 DEF UInv, Whole, DataOK
  <2>4. Recount' = rec
      BY <2>1, <2>2 DEF Recount, ImageRows
  <2>5. DataOK(disk)' /\ DataOK(work)'
      BY <2>2, <2>3, <2>4 DEF DataOK
  <2> QED
      BY <2>2, <2>3, <2>5 DEF UInv, Whole
<1>5. CASE Serve
    BY <1>5, UntouchedKeeps DEF Serve, database, logs, UInv
<1>6. CASE Die
  <2>1. PICK d, o, t, rec : d = disk /\ o = owner /\ t = truth /\ rec = Recount
      OBVIOUS
  <2>2. DueAs(d, o, t, rec)
      BY <2>1 DEF UInv, DataOK
  <2>3. /\ d = disk' /\ d = work' /\ o = owner' /\ t = truth' /\ rows' = rows /\ open' = FALSE
        /\ step' = "idle" /\ phase' = "down"
      BY <1>6, <2>1 DEF Die, Abandon, Goto, Lost
  <2>4. Recount' = rec
      BY <2>1, <2>3 DEF Recount, ImageRows
  <2> QED
      BY <2>2, <2>3, <2>4 DEF UInv, DataOK
<1>7. CASE Install \/ EditFile
    BY <1>1, <1>7, UntouchedKeeps DEF Install, EditFile, database, logs, UInv
<1>8. CASE UpdateSettings \/ ResetSettings \/ ReloadSettings
    BY <1>1, <1>8, UntouchedKeeps DEF UpdateSettings, ResetSettings, ReloadSettings, Administer, database, UInv
<1>9. ASSUME phase = "serving", phase' = phase, UNCHANGED database, truth' = truth PROVE UInv'
  <2>1. PICK d, o, t : d = disk /\ o = owner /\ t = truth
      OBVIOUS
  <2>2. /\ step = "idle" /\ open = FALSE /\ work = d /\ DatabaseOK(d) /\ d.version = 1 /\ Given(d) = o
        /\ d.counters = t /\ DOMAIN t = Counters
      BY <1>9, <2>1, ServingIs
  <2>3. d = disk' /\ o = owner' /\ t = truth' /\ UNCHANGED <<work, step, open>>
      BY <1>9, <2>1 DEF database
  <2> QED
      BY <1>9, <2>2, <2>3, WholeServes
<1>10. CASE ResetStatsEnd \/ ManageRows \/ Maintain \/ MaintainBatch
    BY <1>9, <1>10 DEF ResetStatsEnd, ManageRows, ClearRows, DeleteRow, ClearRecent, Maintain, StartTrim, MaintainBatch,
        TrimBatch, Administer, life
<1>11. ASSUME phase = "serving", phase' = phase, UNCHANGED <<step, open>>, work' = disk',
              NEW o, NEW h, NEW cs, DOMAIN cs = Counters, cs = [c \in DOMAIN cs |-> cs[c]],
              disk' = [disk EXCEPT !.options = o, !.headers = h, !.counters = cs],
              owner' = [options |-> o, headers |-> h], truth' = cs
       PROVE  UInv'
  <2>1. PICK d : d = disk
      OBVIOUS
  <2>2. step = "idle" /\ open = FALSE /\ DatabaseOK(d) /\ d.version = 1
      BY <1>11, <2>1, ServingIs
  <2>3. PICK e : e = disk'
      OBVIOUS
  <2>4. e = [version |-> 1, deepseek |-> d.deepseek, legacyColumn |-> d.legacyColumn,
              legacy |-> d.legacy, splitColumns |-> d.splitColumns, options |-> o,
              headers |-> h, columns |-> d.columns, counters |-> cs]
      BY <1>11, <2>1, <2>2, <2>3 DEF DatabaseOK
  <2>5. DatabaseOK(e) /\ e.version = 1 /\ Given(e) = owner' /\ e.counters = truth'
      BY <1>11, <2>4 DEF DatabaseOK, Given
  <2> QED
      BY <1>11, <2>2, <2>3, <2>5, WholeServes
<1>12. CASE ChangeProvider
  <2>1. PICK o : EditProvider(o, {})
      BY <1>12 DEF ChangeProvider
  <2>2. phase = "serving" /\ phase' = phase /\ truth' = truth
      BY <1>12 DEF ChangeProvider, Administer, logs
  <2>3. PICK d, cs : d = disk /\ cs = d.counters
      OBVIOUS
  <2>4. /\ DatabaseOK(d) /\ cs = truth /\ DOMAIN cs = Counters /\ cs = [c \in DOMAIN cs |-> cs[c]]
      BY <2>2, <2>3, ServingIs DEF DatabaseOK
  <2>5. disk' = [d EXCEPT !.options = o, !.headers = {}, !.counters = cs]
    <3>1. disk' = [d EXCEPT !.options = o, !.headers = {}]
        BY <2>1, <2>3 DEF EditProvider
    <3> QED
        BY <2>3, <2>4, <3>1 DEF DatabaseOK
  <2> QED
      BY <1>11, <2>1, <2>2, <2>3, <2>4, <2>5 DEF EditProvider
<1>13. ASSUME phase = "serving", phase' = phase, UNCHANGED <<step, open, owner>>, work' = disk',
              NEW cs, DOMAIN cs = Counters, cs = [c \in DOMAIN cs |-> cs[c]],
              disk' = [disk EXCEPT !.counters = cs], truth' = cs
       PROVE  UInv'
  <2>1. PICK d, o, h : d = disk /\ o = d.options /\ h = d.headers
      OBVIOUS
  <2>2. DatabaseOK(d) /\ owner = [options |-> o, headers |-> h]
      BY <1>13, <2>1, ServingIs DEF Given
  <2>3. disk' = [d EXCEPT !.options = o, !.headers = h, !.counters = cs]
      BY <1>13, <2>1, <2>2 DEF DatabaseOK
  <2> QED
      BY <1>11, <1>13, <2>1, <2>2, <2>3
<1>14. CASE ResetStats
  <2>1. PICK cs : cs = [c \in Counters |-> 0]
      OBVIOUS
  <2>2. DOMAIN cs = Counters /\ cs = [c \in DOMAIN cs |-> cs[c]]
      BY <2>1
  <2>3. phase = "serving" /\ phase' = phase /\ DOMAIN truth = Counters
      BY <1>14, ServingIs DEF ResetStats, Administer
  <2> QED
      BY <1>13, <1>14, <2>1, <2>2, <2>3 DEF ResetStats, ResetCounters
<1>15. ASSUME NEW r \in Requests, phase = "serving", CountRequest(r), UNCHANGED life PROVE UInv'
  <2>1. phase' = phase /\ UNCHANGED <<step, open, owner>> /\ Count(r)
      BY <1>15 DEF CountRequest, life
  <2>2. CASE flight[r].image
    <3>1. PICK d, cs : d = disk /\ cs = Plus(d.counters, Outcome(flight[r].ok))
        OBVIOUS
    <3>2. disk.counters = truth /\ work = disk
        BY <1>15, ServingIs
    <3>3. disk' = [disk EXCEPT !.counters = cs] /\ work' = disk' /\ truth' = cs
        BY <1>15, <2>1, <2>2, <3>1, <3>2 DEF CountRequest, Count
    <3>4. DOMAIN cs = Counters /\ cs = [c \in DOMAIN cs |-> cs[c]]
        BY <3>1 DEF Plus, Outcome, Counters
    <3> QED
        BY <1>13, <1>15, <2>1, <3>3, <3>4
  <2>3. CASE ~flight[r].image
      BY <1>9, <1>15, <2>1, <2>3 DEF CountRequest, Count, database
  <2> QED
      BY <2>2, <2>3
<1>16. ASSUME NEW r \in Requests, HandleRequest(r) PROVE UInv'
  <2>1. phase = "serving" /\ phase' = phase /\ UNCHANGED life
      BY <1>16 DEF HandleRequest, life
  <2>2. CASE CountRequest(r)
      BY <1>15, <2>1, <2>2
  <2>3. CASE (AnswerImage(r) \/ Arrive(r, capacity) \/ Finish(r)) /\ UNCHANGED database
      BY <1>9, <2>1, <2>3 DEF AnswerImage, Answered, Arrive, Finish
  <2> QED
      BY <1>16, <2>2, <2>3 DEF HandleRequest
<1>17. ASSUME NEW r \in Requests, BeginRequest(r) PROVE UInv'
    BY <1>9, <1>17 DEF BeginRequest, AnswerText, Answered, StartImage, Progress, Cancel
<1>18. CASE UNCHANGED lifeVars
    BY <1>1, <1>18, UntouchedKeeps DEF lifeVars, database, logs, life, UInv
<1> QED
    BY <1>2, <1>3, <1>4, <1>5, <1>6, <1>7, <1>8, <1>10, <1>12, <1>14, <1>16, <1>17, <1>18 DEF LifeNext

\* However often an upgrade dies on the way and starts over, a provider's
\* settings are split once, and the counters are taken from the rows all at once
\* or not at all (database.py:88, 293).
THEOREM UpgradeSafe == LifeSpec => []UpgradeKeepsData
<1>1. UInv => UpgradeKeepsData
    BY WholeIs DEF UInv, UpgradeKeepsData, UpgradedOnce, CountersAgree, Given
<1> QED
    BY <1>1, UpgradeStarts, UpgradeKeeps, PTL DEF LifeSpec

-----------------------------------------------------------------------------
(* The log in memory and the rows.                                           *)

Flights == [stage : Stages, image : BOOLEAN, row : Nat, ok : BOOLEAN]

\* The rows of one request, whose flight is f.
RowsOK(r, f, rs) ==
    /\ \A i, j \in DOMAIN rs : rs[i].request = r /\ rs[j].request = r => i = j
    /\ f.row # 0 => \A i \in DOMAIN rs : rs[i].request = r => i = f.row
    /\ f.row = 0 /\ f.stage # "logged" => \A i \in DOMAIN rs : rs[i].request # r
    /\ f.stage = "logged" =>
          \A i \in DOMAIN rs : rs[i].request = r => rs[i].status = IF f.ok THEN "ok" ELSE "fail"
    /\ f.stage = "new" => f.row = 0
    /\ f.stage = "running" => f.row # 0

\* s begins with t.
Begins(s, t) == Len(t) <= Len(s) /\ \A k \in 1..Len(t) : t[k] = s[k]

RowsInv ==
    /\ flight \in [Requests -> Flights]
    /\ lastRow \in Nat /\ DOMAIN rows \subseteq 1..lastRow
    /\ \A r \in Requests : RowsOK(r, flight[r], rows)

RecentInv ==
    /\ recent \in Seq(Requests) /\ arrivals \in Seq(Requests)
    /\ Begins(arrivals, recent)
    /\ phase # "serving" => recent = <<>>
    /\ Len(recent) <= capacity

LEMMA FrontIs ==
    ASSUME NEW S, NEW s \in Seq(S), NEW n \in Nat, NEW t, t = Front(s, n)
    PROVE  /\ t \in Seq(S) /\ Len(t) <= n /\ Begins(s, t)
           /\ n <= Len(s) => Len(t) = n
<1>1. PICK m : m = IF Len(s) < n THEN Len(s) ELSE n
    OBVIOUS
<1>2. m \in 0..Len(s) /\ Len(s) \in Nat /\ m <= n /\ (n <= Len(s) => m = n)
    BY <1>1, LenProperties
<1>3. t = SubSeq(s, 1, m)
    BY <1>1 DEF Front
<1>4. t \in Seq(S) /\ Len(t) = m /\ \A k \in 1..m : t[k] = s[k]
    BY <1>2, <1>3
<1> QED
    BY <1>2, <1>4 DEF Begins

\* The front of what came in is what began it.
LEMMA FrontBegins ==
    ASSUME NEW S, NEW s \in Seq(S), NEW t \in Seq(S), Begins(s, t)
    PROVE  t = Front(s, Len(t))
<1>1. PICK e : e = Front(s, Len(t))
    OBVIOUS
<1>2. Len(t) \in Nat /\ Len(t) <= Len(s)
    BY LenProperties DEF Begins
<1>3. e \in Seq(S) /\ Len(e) = Len(t) /\ Begins(s, e)
    BY <1>1, <1>2, FrontIs
<1>4. \A k \in 1..Len(t) : e[k] = t[k]
    BY <1>3 DEF Begins
<1>5. e = t
    BY <1>3, <1>4, SeqEqual
<1> QED
    BY <1>1, <1>5

LEMMA BeginsTwice ==
    ASSUME NEW S, NEW s \in Seq(S), NEW t \in Seq(S), NEW u \in Seq(S), Begins(s, t), Begins(t, u)
    PROVE  Begins(s, u)
<1>1. Len(s) \in Nat /\ Len(t) \in Nat /\ Len(u) \in Nat
    BY LenProperties
<1> QED
    BY <1>1 DEF Begins

LEMMA PutInFront ==
    ASSUME NEW S, NEW r \in S, NEW s \in Seq(S), NEW t \in Seq(S), Begins(s, t), NEW n \in Nat,
           NEW a, a = <<r>> \o s, NEW e, e = Front(<<r>> \o t, n)
    PROVE  a \in Seq(S) /\ e \in Seq(S) /\ Len(e) <= n /\ Begins(a, e)
<1>1. PICK u : u = <<r>> \o t
    OBVIOUS
<1>2. /\ u \in Seq(S) /\ Len(u) = Len(t) + 1 /\ Len(t) \in Nat
      /\ \A k \in 1..Len(u) : u[k] = IF k = 1 THEN r ELSE t[k - 1]
    BY <1>1
<1>3. /\ a \in Seq(S) /\ Len(a) = Len(s) + 1 /\ Len(s) \in Nat
      /\ \A k \in 1..Len(a) : a[k] = IF k = 1 THEN r ELSE s[k - 1]
    OBVIOUS
<1>4. Begins(a, u)
    BY <1>2, <1>3 DEF Begins
<1>5. e \in Seq(S) /\ Len(e) <= n /\ Begins(u, e)
    BY <1>1, <1>2, FrontIs
<1> QED
    BY <1>2, <1>3, <1>4, <1>5, BeginsTwice

LEMMA ResizedIs ==
    ASSUME RecentInv, phase = "serving", phase' = phase, capacity' \in Nat, recent' = Resized(capacity'), arrivals' = arrivals
    PROVE  RecentInv'
<1>1. PICK e, n : e = recent' /\ n = capacity'
    OBVIOUS
<1>2. e \in Seq(Requests) /\ Len(e) <= n /\ Begins(recent, e)
    BY <1>1, FrontIs DEF RecentInv, Resized
<1>3. Begins(arrivals, e)
    BY <1>2, BeginsTwice DEF RecentInv
<1> QED
    BY <1>1, <1>2, <1>3 DEF RecentInv, Begins

LEMMA RecentStarts == LifeInit => RecentInv
BY DEF LifeInit, ConfigInit, LogInit, RecentInv, Begins

LEMMA RecentKeeps == CInv /\ CInv' /\ RecentInv /\ [LifeNext]_lifeVars => RecentInv'
<1> SUFFICES ASSUME CInv, CInv', RecentInv, [LifeNext]_lifeVars PROVE RecentInv'
    OBVIOUS
<1>1. capacity \in Nat /\ capacity' \in Nat
    BY DEF CInv
<1>2. ASSUME UNCHANGED <<recent, arrivals, capacity>>, phase' = "serving" \/ phase # "serving" PROVE RecentInv'
    BY <1>2 DEF RecentInv, Begins
<1>3. ASSUME recent' = <<>>, arrivals' \in Seq(Requests) PROVE RecentInv'
    BY <1>1, <1>3, LenProperties DEF RecentInv, Begins
<1>4. CASE Start \/ Migrated \/ Serve
  <2>1. recent' = <<>> /\ arrivals' = arrivals
      BY <1>4 DEF Start, Migrated, Serve, logs, RecentInv
  <2> QED
      BY <1>3, <2>1 DEF RecentInv
<1>5. CASE Die \/ ResetStatsEnd
  <2>1. recent' = <<>> /\ arrivals' = <<>>
      BY <1>5 DEF Die, Lost, ResetStatsEnd, ClearRecent
  <2>2. arrivals' \in Seq(Requests)
      BY <2>1
  <2> QED
      BY <1>3, <2>1, <2>2
<1>6. CASE Migrate \/ Install \/ EditFile
    BY <1>2, <1>6 DEF Migrate, Install, EditFile, Edit, config, logs, life
<1>7. CASE UpdateSettings \/ ResetSettings \/ ReloadSettings
    BY <1>1, <1>7, ResizedIs DEF UpdateSettings, ResetSettings, ReloadSettings, Administer
<1>8. CASE ChangeProvider \/ ResetStats \/ ManageRows \/ Maintain \/ MaintainBatch
    BY <1>2, <1>8 DEF ChangeProvider, ResetStats, ResetCounters, ManageRows, ClearRows, DeleteRow, Maintain, StartTrim,
        MaintainBatch, TrimBatch, Administer, config, logs, life
<1>9. ASSUME NEW r \in Requests, HandleRequest(r) PROVE RecentInv'
  <2>1. phase = "serving" /\ phase' = phase /\ capacity' = capacity
      BY <1>9 DEF HandleRequest, life, config
  <2>2. CASE Arrive(r, capacity)
    <3>1. PICK a, e : a = arrivals' /\ e = recent'
        OBVIOUS
    <3>2. a = <<r>> \o arrivals /\ e = Front(<<r>> \o recent, capacity)
        BY <2>2, <3>1 DEF Arrive
    <3>3. recent \in Seq(Requests) /\ arrivals \in Seq(Requests) /\ Begins(arrivals, recent)
        BY DEF RecentInv
    <3>4. a \in Seq(Requests) /\ e \in Seq(Requests) /\ Len(e) <= capacity /\ Begins(a, e)
        BY <1>1, <3>2, <3>3, PutInFront
    <3> QED
        BY <2>1, <3>1, <3>4 DEF RecentInv, Begins
  <2>3. CASE AnswerImage(r) \/ Finish(r) \/ CountRequest(r)
      BY <1>2, <2>1, <2>3 DEF AnswerImage, Answered, Finish, CountRequest, Count
  <2> QED
      BY <1>9, <2>2, <2>3 DEF HandleRequest
<1>10. ASSUME NEW r \in Requests, BeginRequest(r) PROVE RecentInv'
    BY <1>2, <1>10 DEF BeginRequest, AnswerText, Answered, StartImage, Progress, Cancel, config
<1>11. CASE UNCHANGED lifeVars
    BY <1>2, <1>11 DEF lifeVars, config, logs, life
<1> QED
    BY <1>4, <1>5, <1>6, <1>7, <1>8, <1>9, <1>10, <1>11 DEF LifeNext

\* Rows that went, or did not change, and a flight that moved on without being
\* logged.
LEMMA RowsStay ==
    ASSUME NEW r, NEW f, NEW rs, RowsOK(r, f, rs), NEW g, NEW qs,
           DOMAIN qs \subseteq DOMAIN rs, \A i \in DOMAIN qs : qs[i] = rs[i],
           g.row = f.row,
           \/ g = f
           \/ f.stage # "logged" /\ g.stage \notin {"logged", "new", "running"}
    PROVE  RowsOK(r, g, qs)
BY DEF RowsOK

\* A row of this request, new or written again.
LEMMA RowsWritten ==
    ASSUME NEW r, NEW f, NEW rs, RowsOK(r, f, rs), NEW g, NEW qs, NEW id, id # 0, NEW row,
           qs = [i \in DOMAIN rs \cup {id} |-> IF i = id THEN row ELSE rs[i]], row.request = r,
           f.row = id \/ (f.row = 0 /\ f.stage # "logged"),
           g.row = f.row \/ g.row = id,
           g.row # 0 \/ g.stage = "logged",
           g.stage = "logged" => row.status = IF g.ok THEN "ok" ELSE "fail",
           g.stage # "new"
    PROVE  RowsOK(r, g, qs)
<1>1. \A i \in DOMAIN rs : rs[i].request = r => i = id
    BY DEF RowsOK
<1>2. \A i \in DOMAIN qs : qs[i].request = r => i = id /\ qs[i] = row
    BY <1>1
<1> QED
    BY <1>2 DEF RowsOK

\* ... and of another request.
LEMMA RowsOfOthers ==
    ASSUME NEW r, NEW f, NEW rs, RowsOK(r, f, rs), NEW qs, NEW id, NEW row,
           qs = [i \in DOMAIN rs \cup {id} |-> IF i = id THEN row ELSE rs[i]], row.request # r
    PROVE  RowsOK(r, f, qs)
<1>1. \A i \in DOMAIN qs : qs[i].request = r => i \in DOMAIN rs /\ qs[i] = rs[i]
    OBVIOUS
<1> QED
    BY <1>1 DEF RowsOK

LEMMA RowsStart == LifeInit => RowsInv
<1> SUFFICES ASSUME LifeInit PROVE RowsInv
    OBVIOUS
<1>1. LogInit
    BY DEF LifeInit
<1>2. PICK n \in 0..Cardinality(Old) :
        \E f \in [1..n -> {[request |-> o, image |-> TRUE, status |-> s] : o \in Old, s \in {"ok", "running"}}] :
            rows = f /\ lastRow = n
    BY <1>1 DEF LogInit
<1>3. Cardinality(Old) \in Nat
    BY LogAssumption, FS_CardinalityType
<1>4. lastRow \in Nat /\ DOMAIN rows = 1..lastRow /\ \A i \in DOMAIN rows : rows[i].request \in Old
    BY <1>2, <1>3
<1>5. Fresh \in Flights
    BY DEF Fresh, Flights, Stages
<1>6. flight = [r \in Requests |-> Fresh]
    BY <1>1 DEF LogInit
<1>7. ASSUME NEW r \in Requests PROVE RowsOK(r, flight[r], rows)
  <2>1. \A i \in DOMAIN rows : rows[i].request # r
      BY <1>4, LogAssumption
  <2> QED
      BY <1>6, <2>1 DEF RowsOK, Fresh
<1> QED
    BY <1>4, <1>5, <1>6, <1>7 DEF RowsInv

\* A step of one request: it leaves the others' flights alone.
LEMMA FlightMoves ==
    ASSUME RowsInv, NEW r \in Requests, NEW g \in Flights, flight' = [flight EXCEPT ![r] = g],
           lastRow' \in Nat, DOMAIN rows' \subseteq 1..lastRow', RowsOK(r, g, rows'),
           \A q \in Requests \ {r} : RowsOK(q, flight[q], rows')
    PROVE  RowsInv'
<1>1. flight' \in [Requests -> Flights] /\ flight'[r] = g /\ \A q \in Requests \ {r} : flight'[q] = flight[q]
    BY DEF RowsInv
<1>2. ASSUME NEW q \in Requests PROVE RowsOK(q, flight'[q], rows')
    BY <1>1, <1>2
<1> QED
    BY <1>1, <1>2 DEF RowsInv

\* Rows that go, whoever takes them.
LEMMA RemoveKeeps ==
    ASSUME RowsInv, NEW ids, Remove(ids), UNCHANGED <<flight, lastRow>>
    PROVE  RowsInv'
<1>1. DOMAIN rows' \subseteq DOMAIN rows /\ \A i \in DOMAIN rows' : rows'[i] = rows[i]
    BY DEF Remove
<1>2. ASSUME NEW r \in Requests PROVE RowsOK(r, flight[r], rows')
    BY <1>1, RowsStay DEF RowsInv
<1> QED
    BY <1>1, <1>2 DEF RowsInv

\* A flight that moves on while the rows stay.
LEMMA StageKeeps ==
    ASSUME RowsInv, NEW r \in Requests, NEW g \in Flights, flight' = [flight EXCEPT ![r] = g],
           g.row = flight[r].row, flight[r].stage # "logged", g.stage \notin {"logged", "new", "running"},
           UNCHANGED <<rows, lastRow>>
    PROVE  RowsInv'
<1>1. RowsOK(r, g, rows) /\ \A q \in Requests : RowsOK(q, flight[q], rows)
    BY RowsStay DEF RowsInv
<1> QED
    BY <1>1, FlightMoves DEF RowsInv

\* _record_request_log, and the step of the request that it belongs to.
LEMMA RecordKeeps ==
    ASSUME RowsInv, NEW r \in Requests, NEW status, Record(r, status), NEW g \in Flights,
           flight' = [flight EXCEPT ![r] = g], g.row = flight[r].row,
           flight[r].stage # "logged", g.stage # "new",
           g.stage = "logged" \/ g.row # 0,
           g.stage = "logged" => status = IF g.ok THEN "ok" ELSE "fail"
    PROVE  RowsInv'
<1>1. /\ lastRow \in Nat /\ DOMAIN rows \subseteq 1..lastRow /\ flight[r] \in Flights
      /\ \A q \in Requests : RowsOK(q, flight[q], rows)
    BY DEF RowsInv
<1>2. PICK f, row : f = flight[r] /\ row = [request |-> r, image |-> flight[r].image, status |-> status]
    OBVIOUS
<1>3. row.request = r /\ row.status = status
    BY <1>2
<1>4. ASSUME NEW id \in Nat \ {0}, Store(id, r, status), f.row = id \/ f.row = 0,
             lastRow' \in Nat, DOMAIN rows \subseteq 1..lastRow', id <= lastRow'
      PROVE  RowsInv'
  <2>1. rows' = [i \in DOMAIN rows \cup {id} |-> IF i = id THEN row ELSE rows[i]]
      BY <1>2, <1>4 DEF Store
  <2>2. RowsOK(r, g, rows')
    <3>1. PICK rs, qs : rs = rows /\ qs = rows'
        OBVIOUS
    <3>2. /\ RowsOK(r, f, rs) /\ f.stage # "logged" /\ g.row = f.row /\ id # 0
          /\ f.row = id \/ (f.row = 0 /\ f.stage # "logged")
        BY <1>1, <1>2, <1>4, <3>1
    <3>3. qs = [i \in DOMAIN rs \cup {id} |-> IF i = id THEN row ELSE rs[i]]
        BY <2>1, <3>1
    <3>4. g.row # 0 \/ g.stage = "logged"
        OBVIOUS
    <3>5. g.stage = "logged" => row.status = IF g.ok THEN "ok" ELSE "fail"
        BY <1>3
    <3>6. RowsOK(r, g, qs)
        BY <1>3, <3>2, <3>3, <3>4, <3>5, RowsWritten
    <3> QED
        BY <3>1, <3>6
  <2>3. ASSUME NEW q \in Requests \ {r} PROVE RowsOK(q, flight[q], rows')
      BY <1>1, <1>3, <2>1, RowsOfOthers
  <2>4. DOMAIN rows' \subseteq 1..lastRow'
      BY <1>4, <2>1
  <2> QED
      BY <1>4, <2>2, <2>3, <2>4, FlightMoves
<1>5. CASE f.row # 0
  <2>1. f.row \in Nat /\ lastRow' = lastRow
      BY <1>1, <1>2, <1>5 DEF Record, Flights
  <2>2. CASE f.row \in DOMAIN rows /\ Store(f.row, r, status)
      BY <1>1, <1>4, <1>5, <2>1, <2>2
  <2>3. CASE f.row \notin DOMAIN rows /\ rows' = rows
    <3>1. \A i \in DOMAIN rows : rows[i].request # r
        BY <1>1, <1>2, <1>5, <2>3 DEF RowsOK
    <3>2. RowsOK(r, g, rows)
        BY <1>2, <1>5, <3>1 DEF RowsOK
    <3> QED
        BY <1>1, <2>1, <2>3, <3>2, FlightMoves
  <2> QED
      BY <1>2, <1>5, <2>2, <2>3 DEF Record
<1>6. CASE f.row = 0
    BY <1>1, <1>2, <1>4, <1>6 DEF Record
<1> QED
    BY <1>5, <1>6

LEMMA StageIs ==
    ASSUME RowsInv, NEW r \in Requests, NEW s \in Stages, Stage(r, s)
    PROVE  \E g \in Flights : /\ flight' = [flight EXCEPT ![r] = g]
                              /\ g.row = flight[r].row /\ g.stage = s /\ g.ok = flight[r].ok
<1>1. PICK f : f = flight[r]
    OBVIOUS
<1>2. f \in Flights
    BY <1>1 DEF RowsInv
<1>3. PICK g : g = [f EXCEPT !.stage = s]
    OBVIOUS
<1>4. g \in Flights
    BY <1>2, <1>3, Zenon DEF Flights
<1>5. g.row = f.row /\ g.stage = s /\ g.ok = f.ok
    BY <1>2, <1>3 DEF Flights
<1>6. flight' = [flight EXCEPT ![r] = g]
    BY <1>1, <1>3 DEF Stage
<1> QED
    BY <1>1, <1>4, <1>5, <1>6

LEMMA StartImageKeeps ==
    ASSUME RowsInv, NEW r \in Requests, StartImage(r)
    PROVE  RowsInv'
<1>1. /\ lastRow \in Nat /\ DOMAIN rows \subseteq 1..lastRow /\ flight[r] \in Flights
      /\ \A q \in Requests : RowsOK(q, flight[q], rows)
    BY DEF RowsInv
<1>2. PICK f, id : f = flight[r] /\ id = lastRow + 1
    OBVIOUS
<1>3. PICK row : row = [request |-> r, image |-> TRUE, status |-> "running"]
    OBVIOUS
<1>4. PICK g : g = [f EXCEPT !.stage = "running", !.image = TRUE, !.row = id]
    OBVIOUS
<1>5. g \in Flights
  <2>1. f \in Flights /\ "running" \in Stages /\ TRUE \in BOOLEAN /\ id \in Nat
      BY <1>1, <1>2 DEF Stages
  <2> QED
      BY <1>4, <2>1, Zenon DEF Flights
<1>6. g.row = id /\ g.stage = "running" /\ f.stage = "new" /\ f.row = 0 /\ row.request = r
    BY <1>1, <1>2, <1>3, <1>4 DEF Flights, StartImage, RowsOK
<1>7. flight' = [flight EXCEPT ![r] = g] /\ lastRow' = id
    BY <1>2, <1>4 DEF StartImage
<1>8. id \notin DOMAIN rows /\ id # 0 /\ id \in Nat /\ DOMAIN rows \subseteq 1..id
    BY <1>1, <1>2
<1>9. rows' = [i \in DOMAIN rows \cup {id} |-> IF i = id THEN row ELSE rows[i]]
    BY <1>2, <1>3, <1>8 DEF StartImage
<1>10. RowsOK(r, g, rows')
  <2>1. PICK rs, qs : rs = rows /\ qs = rows'
      OBVIOUS
  <2>2. RowsOK(r, f, rs)
      BY <1>1, <1>2, <2>1
  <2>3. qs = [i \in DOMAIN rs \cup {id} |-> IF i = id THEN row ELSE rs[i]]
      BY <1>9, <2>1
  <2>4. RowsOK(r, g, qs)
      BY <1>6, <1>8, <2>2, <2>3, RowsWritten
  <2> QED
      BY <2>1, <2>4
<1>11. ASSUME NEW q \in Requests \ {r} PROVE RowsOK(q, flight[q], rows')
    BY <1>1, <1>6, <1>9, RowsOfOthers
<1>12. DOMAIN rows' \subseteq 1..lastRow' /\ lastRow' \in Nat
    BY <1>7, <1>8, <1>9
<1> QED
    BY <1>5, <1>7, <1>10, <1>11, <1>12, FlightMoves

\* What ends with the process.
LEMMA LostKeeps == RowsInv /\ Lost => RowsInv'
<1> SUFFICES ASSUME RowsInv, Lost PROVE RowsInv'
    OBVIOUS
<1>1. UNCHANGED <<rows, lastRow>>
    BY DEF Lost
<1>2. ASSUME NEW r \in Requests PROVE flight'[r] \in Flights /\ RowsOK(r, flight'[r], rows)
  <2>1. PICK f : f = flight[r]
      OBVIOUS
  <2>2. f \in Flights /\ RowsOK(r, f, rows)
      BY <2>1 DEF RowsInv
  <2>3. PICK g : g = [f EXCEPT !.stage = "lost"]
      OBVIOUS
  <2>4. g \in Flights
      BY <2>2, <2>3, Zenon DEF Flights, Stages
  <2>5. g.row = f.row /\ g.stage = "lost"
      BY <2>2, <2>3 DEF Flights
  <2>6. f.stage # "logged" => RowsOK(r, g, rows)
      BY <2>2, <2>5, RowsStay
  <2> QED
      BY <2>1, <2>2, <2>3, <2>4, <2>6 DEF Lost
<1>3. flight' = [r \in Requests |-> flight'[r]]
    BY DEF Lost
<1>4. flight' \in [Requests -> Flights]
    BY <1>2, <1>3
<1> QED
    BY <1>1, <1>2, <1>4 DEF RowsInv

LEMMA RowsKeep == RowsInv /\ [LifeNext]_lifeVars => RowsInv'
<1> SUFFICES ASSUME RowsInv, [LifeNext]_lifeVars PROVE RowsInv'
    OBVIOUS
<1>1. ASSUME UNCHANGED <<flight, rows, lastRow>> PROVE RowsInv'
    BY <1>1 DEF RowsInv
<1>2. CASE Start \/ Migrate \/ Migrated \/ Serve \/ Install \/ EditFile
    BY <1>1, <1>2 DEF Start, Migrate, Migrated, Serve, Install, EditFile, logs
<1>3. CASE Die
    BY <1>3, LostKeeps DEF Die
<1>4. CASE UpdateSettings \/ ResetSettings \/ ReloadSettings
    BY <1>1, <1>4 DEF UpdateSettings, ResetSettings, ReloadSettings
<1>5. CASE ChangeProvider \/ ResetStats \/ ResetStatsEnd \/ Maintain
    BY <1>1, <1>5 DEF ChangeProvider, ResetStats, ResetCounters, ResetStatsEnd, ClearRecent, Maintain, StartTrim, logs
<1>6. CASE ManageRows \/ MaintainBatch
    BY <1>6, RemoveKeeps DEF ManageRows, ClearRows, DeleteRow, MaintainBatch, TrimBatch
<1>7. ASSUME NEW r \in Requests, HandleRequest(r) \/ BeginRequest(r) PROVE RowsInv'
  <2>1. flight[r] \in Flights /\ RowsOK(r, flight[r], rows)
      BY DEF RowsInv
  <2>2. ASSUME NEW s \in Stages, Stage(r, s), s \notin {"logged", "new", "running"}, flight[r].stage # "logged",
               UNCHANGED <<rows, lastRow>>
        PROVE  RowsInv'
      BY <2>2, StageIs, StageKeeps
  <2>3. CASE Arrive(r, capacity)
      BY <2>2, <2>3 DEF Arrive, Stages
  <2>4. CASE CountRequest(r)
      BY <2>2, <2>4 DEF CountRequest, Count, Stages
  <2>5. CASE Cancel(r)
      BY <2>2, <2>5 DEF Cancel, Stages
  <2>6. CASE AnswerText(r) \/ AnswerImage(r)
    <3>1. PICK ok \in BOOLEAN, s \in {"new", "running"} :
             /\ flight[r].stage = s
             /\ flight' = [flight EXCEPT ![r] = [@ EXCEPT !.stage = "answered", !.ok = ok]]
        BY <2>6 DEF AnswerText, AnswerImage, Answered
    <3>2. PICK f, g : f = flight[r] /\ g = [f EXCEPT !.stage = "answered", !.ok = ok]
        OBVIOUS
    <3>3. g \in Flights
        BY <2>1, <3>2, Zenon DEF Flights, Stages
    <3>4. g.row = flight[r].row /\ g.stage = "answered"
        BY <2>1, <3>2 DEF Flights
    <3>5. flight' = [flight EXCEPT ![r] = g] /\ UNCHANGED <<rows, lastRow>> /\ flight[r].stage # "logged"
        BY <2>6, <3>1, <3>2 DEF AnswerText, AnswerImage, Answered
    <3> QED
        BY <3>3, <3>4, <3>5, StageKeeps
  <2>7. CASE StartImage(r)
      BY <2>7, StartImageKeeps
  <2>8. CASE Progress(r)
    <3>1. flight' = [flight EXCEPT ![r] = flight[r]]
        BY <2>8 DEF Progress, RowsInv
    <3>2. flight[r].stage = "running" /\ flight[r].row # 0 /\ Record(r, "running")
        BY <2>1, <2>8 DEF Progress, RowsOK
    <3> QED
        BY <2>1, <3>1, <3>2, RecordKeeps
  <2>9. CASE Finish(r)
    <3>1. Stage(r, "logged") /\ flight[r].stage = "counted" /\ Record(r, IF flight[r].ok THEN "ok" ELSE "fail")
        BY <2>9 DEF Finish
    <3>2. PICK g \in Flights : /\ flight' = [flight EXCEPT ![r] = g]
                               /\ g.row = flight[r].row /\ g.stage = "logged" /\ g.ok = flight[r].ok
        BY <3>1, StageIs DEF Stages
    <3>3. PICK status : status = IF flight[r].ok THEN "ok" ELSE "fail"
        OBVIOUS
    <3>4. Record(r, status) /\ status = IF g.ok THEN "ok" ELSE "fail"
        BY <3>1, <3>2, <3>3
    <3> QED
        BY <3>1, <3>2, <3>4, RecordKeeps
  <2> QED
      BY <1>7, <2>3, <2>4, <2>5, <2>6, <2>7, <2>8, <2>9 DEF HandleRequest, BeginRequest
<1>8. CASE UNCHANGED lifeVars
    BY <1>1, <1>8 DEF lifeVars, logs
<1> QED
    BY <1>2, <1>3, <1>4, <1>5, <1>6, <1>7, <1>8 DEF LifeNext

\* However requests, the trimming, the administrator and restarts come between
\* one another, the log in memory is the front of what came in, and a request has
\* one row, which tells how it ended (proxy.py:158, 4600).
THEOREM LogsSafe == LifeSpec => []LogsAreTrue
<1>1. CInv /\ RecentInv /\ RowsInv => LogsAreTrue
  <2> SUFFICES ASSUME CInv, RecentInv, RowsInv PROVE LogsAreTrue
      OBVIOUS
  <2>1. recent = Front(arrivals, Len(recent))
      BY FrontBegins DEF RecentInv
  <2>2. Len(recent) <= IF phase = "down" THEN 0 ELSE capacity
      BY LenProperties DEF RecentInv
  <2>3. ASSUME NEW r \in Requests, NEW mine, mine = {i \in DOMAIN rows : rows[i].request = r}
        PROVE  /\ Cardinality(mine) <= 1
               /\ flight[r].stage = "logged" =>
                     \A i \in mine : rows[i].status = IF flight[r].ok THEN "ok" ELSE "fail"
    <3>1. RowsOK(r, flight[r], rows)
        BY DEF RowsInv
    <3>2. mine = {} \/ \E i : mine = {i}
        BY <2>3, <3>1 DEF RowsOK
    <3>3. Cardinality(mine) <= 1
      <4>1. CASE mine = {}
          BY <4>1, FS_EmptySet
      <4>2. CASE \E i : mine = {i}
        <5>1. Cardinality(mine) = 1
            BY <4>2, FS_Singleton
        <5> QED
            BY <5>1
      <4> QED
          BY <3>2, <4>1, <4>2
    <3> QED
        BY <2>3, <3>1, <3>3 DEF RowsOK
  <2> QED
      BY <2>1, <2>2, <2>3 DEF LogsAreTrue, NewestShown, OneRowEach
<1> QED
    BY <1>1, ConfigStarts, ConfigKeeps, RecentStarts, RecentKeeps, RowsStart, RowsKeep, PTL DEF LifeSpec

-----------------------------------------------------------------------------
(* Trimming.                                                                 *)

TrimInv == trimmer \in [keep : Int, busy : BOOLEAN] /\ (trimmer.busy => trimmer.keep > 0)

LEMMA TrimKeeps == CInv /\ TrimInv /\ [LifeNext]_lifeVars => TrimInv'
<1> SUFFICES ASSUME CInv, TrimInv, [LifeNext]_lifeVars PROVE TrimInv'
    OBVIOUS
<1>1. ASSUME UNCHANGED trimmer PROVE TrimInv'
    BY <1>1 DEF TrimInv
<1>2. ASSUME trimmer' = Resting PROVE TrimInv'
    BY <1>2 DEF TrimInv, Resting
<1>3. CASE Die
    BY <1>2, <1>3 DEF Die, Lost
<1>4. CASE Maintain
  <2>1. PICK keep : keep = IF memory.form = "object" THEN memory.values[Limit] ELSE Default(Limit)
      OBVIOUS
  <2>2. keep \in Int
      BY <2>1 DEF CInv, Default, Names
  <2>3. trimmer' = [keep |-> keep, busy |-> TRUE] /\ keep > 0
      BY <1>4, <2>1 DEF Maintain, StartTrim
  <2> QED
      BY <2>2, <2>3 DEF TrimInv
<1>5. CASE MaintainBatch
    BY <1>1, <1>2, <1>5 DEF MaintainBatch, TrimBatch
<1>6. CASE Start \/ Migrate \/ Migrated \/ Serve \/ Install \/ EditFile
    BY <1>1, <1>6 DEF Start, Migrate, Migrated, Serve, Install, EditFile, logs
<1>7. CASE UpdateSettings \/ ResetSettings \/ ReloadSettings
    BY <1>1, <1>7 DEF UpdateSettings, ResetSettings, ReloadSettings
<1>8. CASE ChangeProvider \/ ResetStats \/ ResetStatsEnd \/ ManageRows
    BY <1>1, <1>8 DEF ChangeProvider, ResetStats, ResetCounters, ResetStatsEnd, ClearRecent,
                      ManageRows, ClearRows, DeleteRow, logs
<1>9. ASSUME NEW r \in Requests, HandleRequest(r) \/ BeginRequest(r) PROVE TrimInv'
    BY <1>1, <1>9 DEF HandleRequest, BeginRequest, AnswerText, AnswerImage, Answered, Arrive, Finish,
                      CountRequest, Count, StartImage, Progress, Cancel
<1>10. CASE UNCHANGED lifeVars
    BY <1>1, <1>10 DEF lifeVars, logs
<1> QED
    BY <1>3, <1>4, <1>5, <1>6, <1>7, <1>8, <1>9, <1>10 DEF LifeNext

\* The least of a set of numbers, from the well-founded order of finite sets.
LEMMA Least ==
    ASSUME NEW S \in SUBSET Nat, S # {}
    PROVE  \E n \in S : \A m \in S : n <= m
<1> DEFINE Below == {0..n : n \in S}
           R == StrictSubsetOrdering(Nat)
<1>1. Below \subseteq FiniteSubsetsOf(Nat) /\ Below # {}
  <2>1. \A n \in S : 0..n \in FiniteSubsetsOf(Nat)
    BY FS_Interval DEF FiniteSubsetsOf
  <2> QED BY <2>1
<1>2. \E T \in Below : \A U \in Below : <<U, T>> \notin R
  <2> HIDE DEF Below, R
  <2>1. IsWellFoundedOn(R, FiniteSubsetsOf(Nat))
    BY FS_StrictSubsetOrderingWellFounded DEF R
  <2> QED BY <1>1, <2>1, WFMin
<1>3. PICK n \in S : \A m \in S : <<0..m, 0..n>> \notin R
  BY <1>2
<1>4. ASSUME NEW m \in S, m < n PROVE FALSE
  <2>1. /\ 0..m \subseteq 0..n /\ 0..m # 0..n
        /\ 0..m \in SUBSET Nat /\ 0..n \in SUBSET Nat
    BY <1>4
  <2> QED BY <1>3, <2>1 DEF StrictSubsetOrdering
<1> QED BY <1>3, <1>4

\* ... and, of a set of bounded numbers, the greatest.
LEMMA Greatest ==
    ASSUME NEW n \in Nat, NEW S \in SUBSET (1..n), S # {}
    PROVE  \E x \in S : \A y \in S : y <= x
<1> DEFINE T == {n - x : x \in S}
<1>1. T \in SUBSET Nat /\ T # {}
  <2>1. \A x \in S : n - x \in Nat
      OBVIOUS
  <2> QED
      BY <2>1
<1>2. PICK t \in T : \A s \in T : t <= s
  <2> HIDE DEF T
  <2> QED BY <1>1, Least
<1>3. PICK x \in S : t = n - x
    OBVIOUS
<1>4. ASSUME NEW y \in S PROVE y <= x
  <2>1. n - y \in T
      OBVIOUS
  <2>2. n - x <= n - y
      BY <1>2, <1>3, <2>1
  <2> QED
      BY <2>2
<1> QED
    BY <1>4

\* A batch that is not full took all there was.
LEMMA LastBatch ==
    ASSUME NEW n \in Nat, NEW S \in SUBSET (1..n), Cardinality(Batch(S)) < BatchSize
    PROVE  Batch(S) = S
<1> SUFFICES ASSUME S \ Batch(S) # {} PROVE FALSE
    BY DEF Batch
<1>1. PICK x \in S \ Batch(S) : \A y \in S \ Batch(S) : y <= x
  <2>1. S \ Batch(S) \in SUBSET (1..n)
      OBVIOUS
  <2> QED
      BY <2>1, Greatest
<1>2. {j \in S : j > x} \subseteq Batch(S)
  <2> SUFFICES ASSUME NEW j \in S, j > x, j \notin Batch(S) PROVE FALSE
      OBVIOUS
  <2>1. j <= x /\ j \in Nat /\ x \in Nat
      BY <1>1
  <2> QED
      BY <2>1
<1>3. IsFiniteSet(Batch(S))
  <2>1. Batch(S) \in SUBSET (1..n)
      BY DEF Batch
  <2>2. IsFiniteSet(1..n)
      BY FS_Interval
  <2> QED
      BY <2>1, <2>2, FS_Subset
<1>4. Cardinality({j \in S : j > x}) <= Cardinality(Batch(S))
    BY <1>2, <1>3, FS_Subset
<1>5. Cardinality({j \in S : j > x}) \in Nat /\ Cardinality(Batch(S)) \in Nat
    BY <1>2, <1>3, FS_Subset, FS_CardinalityType
<1>6. Cardinality({j \in S : j > x}) < BatchSize
    BY <1>4, <1>5, LogAssumption
<1> QED
    BY <1>1, <1>6 DEF Batch

\* The rows with fewer than keep newer ones are at most keep.
LEMMA NewestAre ==
    ASSUME RowsInv, NEW keep \in Int, keep > 0
    PROVE  Cardinality(DOMAIN rows \ Beyond(keep)) <= keep
<1> DEFINE S == DOMAIN rows \ Beyond(keep)
<1>1. lastRow \in Nat /\ S \in SUBSET (1..lastRow) /\ DOMAIN rows \subseteq 1..lastRow
    BY DEF RowsInv
<1>2. CASE S = {}
    BY <1>2, FS_EmptySet
<1>3. CASE S # {}
  <2>1. PICK x \in S : \A y \in S : x <= y
    <3>1. S \in SUBSET Nat
        BY <1>1
    <3> HIDE DEF S
    <3> QED
        BY <1>3, <3>1, Least
  <2>2. IsFiniteSet(Newer(x))
    <3>1. Newer(x) \in SUBSET (1..lastRow)
        BY <1>1 DEF Newer
    <3>2. IsFiniteSet(1..lastRow)
        BY <1>1, FS_Interval
    <3> QED
        BY <3>1, <3>2, FS_Subset
  <2>3. Cardinality(Newer(x)) < keep /\ Cardinality(Newer(x)) \in Nat
      BY <2>1, <2>2, FS_CardinalityType DEF Beyond
  <2>4. S \subseteq Newer(x) \cup {x}
      BY <1>1, <2>1 DEF Newer
  <2>5. x \notin Newer(x)
      BY <1>1, <2>1 DEF Newer
  <2>6. IsFiniteSet(Newer(x) \cup {x}) /\ Cardinality(Newer(x) \cup {x}) = Cardinality(Newer(x)) + 1
      BY <2>2, <2>5, FS_AddElement
  <2>7. Cardinality(S) <= Cardinality(Newer(x) \cup {x}) /\ Cardinality(S) \in Nat
      BY <2>4, <2>6, FS_Subset, FS_CardinalityType
  <2> QED
      BY <2>3, <2>6, <2>7
<1> QED
    BY <1>2, <1>3

\* However many rows requests and the administrator add, replace and delete
\* between two batches (request_logs.py:235), a batch takes none of the newest
\* rows, and the last batch leaves no more than are to be kept.
THEOREM TrimmingSafe == LifeSpec => NewestKept
<1>1. RowsInv /\ TrimInv /\ [LifeNext]_lifeVars =>
        [TrimBatch => TrimsRight]_lifeVars
  <2> SUFFICES ASSUME RowsInv, TrimInv, TrimBatch PROVE TrimsRight
      OBVIOUS
  <2> DEFINE batch == Batch(Beyond(trimmer.keep))
  <2>1. rows' = [i \in DOMAIN rows \ batch |-> rows[i]] /\ trimmer.busy
      BY DEF TrimBatch, Remove
  <2>2. DOMAIN rows' = DOMAIN rows \ batch
      BY <2>1
  <2>3. batch \subseteq Beyond(trimmer.keep)
      BY DEF Batch
  <2>4. ASSUME NEW i \in DOMAIN rows \ DOMAIN rows' PROVE Cardinality(Newer(i)) >= trimmer.keep
      BY <2>2, <2>3, <2>4 DEF Beyond
  <2>5. ASSUME ~trimmer'.busy PROVE Cardinality(DOMAIN rows') <= trimmer.keep
    <3>1. Cardinality(batch) < BatchSize
        BY <2>1, <2>5 DEF TrimBatch
    <3>2. lastRow \in Nat /\ Beyond(trimmer.keep) \in SUBSET (1..lastRow)
        BY DEF RowsInv, Beyond
    <3>3. batch = Beyond(trimmer.keep)
        BY <3>1, <3>2, LastBatch
    <3>4. trimmer.keep \in Int /\ trimmer.keep > 0
        BY <2>1 DEF TrimInv
    <3> QED
        BY <2>2, <3>3, <3>4, NewestAre
  <2> QED
      BY <2>4, <2>5 DEF TrimsRight
<1>2. LifeInit => TrimInv
    BY DEF LifeInit, LogInit, TrimInv, Resting
<1> QED
    BY <1>1, <1>2, ConfigStarts, ConfigKeeps, RowsStart, RowsKeep, TrimKeeps, PTL DEF LifeSpec, NewestKept
=============================================================================
