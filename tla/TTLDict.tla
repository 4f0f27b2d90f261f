------------------------------- MODULE TTLDict -------------------------------
(***************************************************************************)
(* TTLDict of app/core/state.py with counters for values: the image budget *)
(* is kept in one.  Its lock makes every method one operation, here a      *)
(* function from dictionary to dictionary.                                 *)
(*                                                                         *)
(* Only the order of the timestamps is ever used: older holds <<j, k>> if  *)
(* j was last written before k.  The keys in dead, none of them written    *)
(* after one that is not, are older than the TTL.                          *)
(***************************************************************************)
EXTENDS Naturals, FiniteSets

TTLDicts(Keys, MaxSize) ==
    [val : [Keys -> Nat],  \* _data, 0 without an entry
     held : SUBSET Keys, dead : SUBSET Keys,
     older : SUBSET (Keys \X Keys), size : 1..MaxSize]

Least(a, b) == IF a < b THEN a ELSE b
Less(a, b) == IF a < b THEN 0 ELSE a - b    \* max(0, a - b)

Empty(Keys, size) ==
    [val |-> [k \in Keys |-> 0], held |-> {}, dead |-> {}, older |-> {}, size |-> size]

Expired(d, k) == k \in d.dead

DropKeys(d, K) ==
    [val |-> [k \in DOMAIN d.val |-> IF k \in K THEN 0 ELSE d.val[k]],
     held |-> d.held \ K, dead |-> d.dead \ K,
     older |-> {x \in d.older : x[1] \notin K /\ x[2] \notin K}, size |-> d.size]

Purge(d) == DropKeys(d, d.dead)

\* The oldest entries go until n are left.
Younger(d, k) == {j \in d.held : <<k, j>> \in d.older}
Shrink(d, n) == DropKeys(d, {k \in d.held : Cardinality(Younger(d, k)) >= n})

Room(d) == IF Cardinality(d.held) < d.size THEN d ELSE Shrink(Purge(d), d.size - 1)

Written(d, k, v) ==
    [val |-> [d.val EXCEPT ![k] = v],
     held |-> d.held \cup {k}, dead |-> d.dead \ {k},
     older |-> {x \in d.older : x[1] # k} \cup {<<j, k>> : j \in d.held \ {k}}, size |-> d.size]
Store(d, k, v) == Written(IF k \in d.held THEN d ELSE Room(d), k, v)

\* What get and reserve do with an expired entry.
Fresh(d, k) == IF Expired(d, k) THEN DropKeys(d, {k}) ELSE d

Allowed(d, k, limit, n) == Least(n, Less(limit, Fresh(d, k).val[k]))

Reserve(d, k, limit, n) ==
    LET e == Fresh(d, k)
        a == Allowed(d, k, limit, n)
    IN  IF n = 0 THEN d ELSE IF a = 0 THEN e ELSE Store(e, k, e.val[k] + a)

\* refund_image_generation_budget, under the lock of the dictionary.
Refund(d, k, n) ==
    IF Expired(d, k) THEN DropKeys(d, {k})
    ELSE IF d.val[k] = 0 THEN d ELSE Store(d, k, Less(d.val[k], n))

\* The sets of entries that time, or a new TTL, can make the expired ones.
Oldest(d) == {D \in SUBSET d.held : \A k \in D, j \in d.held : <<j, k>> \in d.older => j \in D}

\* A new TTL may expire or revive entries.
Configured(d, size, dead) ==
    LET e == [d EXCEPT !.size = size, !.dead = dead]
    IN  IF Cardinality(e.held) > size THEN Shrink(Purge(e), size) ELSE e
=============================================================================
