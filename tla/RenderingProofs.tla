-------------------------- MODULE RenderingProofs ---------------------------
(***************************************************************************)
(* Proofs about StreamRendering, for any size of the buffer, any custom    *)
(* tools and any number of chunks, events and retries: the adapters and    *)
(* the renderers keep to their types, a stream that was cut off is never   *)
(* shown as an answer that ended, and the blocks of a Messages stream      *)
(* follow one another.                                                     *)
(*                                                                         *)
(* The loops of the code are functions from a number of rounds to the      *)
(* state of the loop, so what a loop keeps is an induction over its        *)
(* rounds. The library's induction theorems take an operator, so LEMMA     *)
(* Induction gets it from the well-founded order of finite sets.           *)
(***************************************************************************)
EXTENDS StreamRendering, FiniteSetTheorems, SequenceTheorems, WellFoundedInduction, TLAPS

LEMMA Least ==
    ASSUME NEW S \in SUBSET Nat, S # {}
    PROVE  \E n \in S : \A m \in S : n <= m
<1> DEFINE Below == {0..n : n \in S}
           R == StrictSubsetOrdering(Nat)
<1>1. Below \subseteq FiniteSubsetsOf(Nat) /\ Below # {}
  <2>1. \A n \in S : 0..n \in FiniteSubsetsOf(Nat)
    BY FS_Interval DEF FiniteSubsetsOf
  <2> QED BY <2>1
<1>2. \E T \in Below : \A U \in Below : <<U, T>> \notin R
  <2> HIDE DEF Below, R
  <2>1. IsWellFoundedOn(R, FiniteSubsetsOf(Nat))
    BY FS_StrictSubsetOrderingWellFounded DEF R
  <2> QED BY <1>1, <2>1, WFMin
<1>3. PICK n \in S : \A m \in S : <<0..m, 0..n>> \notin R
  BY <1>2
<1>4. ASSUME NEW m \in S, m < n PROVE FALSE
  <2>1. /\ 0..m \subseteq 0..n /\ 0..m # 0..n
        /\ 0..m \in SUBSET Nat /\ 0..n \in SUBSET Nat
    BY <1>4
  <2> QED BY <1>3, <2>1 DEF StrictSubsetOrdering
<1> QED BY <1>3, <1>4

LEMMA Induction ==
    ASSUME NEW S, 0 \in S, \A n \in Nat : n \in S => n + 1 \in S
    PROVE  Nat \subseteq S
<1>1. SUFFICES ASSUME Nat \ S # {} PROVE FALSE
  OBVIOUS
<1>2. PICK n \in Nat \ S : \A m \in Nat \ S : n <= m
  BY <1>1, Least
<1>3. n - 1 \in Nat /\ n - 1 \in S
  BY <1>2
<1> QED BY <1>2, <1>3

(* The loops. A loop is the function from the number of rounds to its state; *)
(* a set that its first state is in and that no round leaves holds them all. *)
LEMMA RoundsIn ==
    ASSUME NEW N \in Nat, NEW S, NEW y, y[0] \in S,
           \A n \in 1..N : y[n - 1] \in S => y[n] \in S
    PROVE  \A n \in 0..N : y[n] \in S
<1> DEFINE Good == {n \in Nat : n <= N => y[n] \in S}
<1>1. 0 \in Good
    OBVIOUS
<1>2. ASSUME NEW n \in Nat, n \in Good PROVE n + 1 \in Good
  <2>1. n + 1 <= N => n + 1 \in 1..N /\ (n + 1) - 1 = n /\ n <= N
      OBVIOUS
  <2> QED
      BY <1>2, <2>1
<1> HIDE DEF Good
<1>3. Nat \subseteq Good
    BY <1>1, <1>2, Induction
<1> QED
    BY <1>3 DEF Good

\* There is such a function for every first state and every round.
Rounds(N, S) == [(1..N) \X S -> S]
Runs(h, N, S, x, g) == h \in [0..N -> S] /\ h[0] = x /\ \A n \in 1..N : h[n] = g[<<n, h[n - 1]>>]

LEMMA RoundsExist ==
    ASSUME NEW N \in Nat, NEW S, NEW x \in S, NEW g \in Rounds(N, S)
    PROVE  \E h : Runs(h, N, S, x, g)
<1> USE DEF Rounds, Runs
<1> DEFINE Run(h, k) == h \in [0..k -> S] /\ h[0] = x /\ \A n \in 1..k : h[n] = g[<<n, h[n - 1]>>]
           Good == {k \in Nat : k <= N => \E h : Run(h, k)}
<1>1. 0 \in Good
  <2>1. Run([n \in 0..0 |-> x], 0)
      OBVIOUS
  <2> QED
      BY <2>1
<1>2. ASSUME NEW k \in Nat, k \in Good PROVE k + 1 \in Good
  <2> SUFFICES ASSUME k + 1 <= N PROVE \E h : Run(h, k + 1)
      OBVIOUS
  <2>1. PICK h : Run(h, k)
      BY <1>2
  <2>2. g[<<k + 1, h[k]>>] \in S
      BY <2>1
  <2> DEFINE f == [n \in 0..(k + 1) |-> IF n <= k THEN h[n] ELSE g[<<k + 1, h[k]>>]]
  <2>3. f \in [0..(k + 1) -> S] /\ f[0] = x
      BY <2>1, <2>2
  <2>4. ASSUME NEW n \in 1..(k + 1) PROVE f[n] = g[<<n, f[n - 1]>>]
    <3>1. f[n - 1] = h[n - 1] /\ f[n] = IF n <= k THEN h[n] ELSE g[<<k + 1, h[k]>>]
        OBVIOUS
    <3> HIDE DEF f
    <3>2. CASE n <= k
      <4>1. n \in 1..k
          BY <3>2
      <4> QED
          BY <2>1, <3>1, <3>2, <4>1
    <3>3. CASE n = k + 1
      <4>1. n - 1 = k
          BY <3>3
      <4> QED
          BY <3>1, <3>3, <4>1
    <3> QED
        BY <3>2, <3>3
  <2> HIDE DEF f
  <2> QED
      BY <2>3, <2>4
<1> HIDE DEF Good
<1>3. N \in Good
    BY <1>1, <1>2, Induction
<1> QED
    BY <1>3 DEF Good

\* The events of a list, rendered one after the other.
LEMMA RendersIn ==
    ASSUME NEW S, NEW r, NEW evs, Len(evs) \in Nat, r \in S,
           \A n \in 1..Len(evs) : \A y \in S : Render(client, y, evs[n]) \in S
    PROVE  /\ \A n \in 0..Len(evs) : Renders(r, evs)[n] \in S
           /\ Renders(r, evs)[0] = r
           /\ \A n \in 1..Len(evs) : Renders(r, evs)[n] = Render(client, Renders(r, evs)[n - 1], evs[n])
<1> DEFINE N == Len(evs)
           k == Renders(r, evs)
           g == [p \in (1..N) \X S |-> Render(client, p[2], evs[p[1]])]
<1>1. g \in Rounds(N, S)
    BY DEF Rounds
<1>2. PICK h : Runs(h, N, S, r, g)
  <2> HIDE DEF g
  <2> QED
      BY <1>1, RoundsExist
<1>3. h = [n \in 0..N |-> IF n = 0 THEN r ELSE Render(client, h[n - 1], evs[n])]
  <2>1. ASSUME NEW n \in 1..N PROVE h[n] = Render(client, h[n - 1], evs[n])
    <3>1. n - 1 \in 0..N
        OBVIOUS
    <3>2. <<n, h[n - 1]>> \in (1..N) \X S
        BY <1>2, <3>1 DEF Runs
    <3> QED
        BY <1>2, <3>2 DEF Runs
  <2>2. \A n \in 0..N : h[n] = IF n = 0 THEN r ELSE Render(client, h[n - 1], evs[n])
    <3> SUFFICES ASSUME NEW n \in 0..N
                 PROVE  h[n] = IF n = 0 THEN r ELSE Render(client, h[n - 1], evs[n])
        OBVIOUS
    <3>1. n = 0 \/ n \in 1..N
        OBVIOUS
    <3>2. h[0] = r
        BY <1>2 DEF Runs
    <3>3. n \in 1..N => n # 0
        OBVIOUS
    <3> QED
        BY Zenon, <2>1, <3>1, <3>2, <3>3
  <2>3. h = [n \in 0..N |-> h[n]]
      BY <1>2 DEF Runs
  <2> QED
      BY Zenon, <2>2, <2>3
<1>4. k = [n \in 0..N |-> IF n = 0 THEN r ELSE Render(client, k[n - 1], evs[n])]
    BY <1>3 DEF Renders
<1> HIDE DEF k, g
<1>5. k[0] = r /\ \A n \in 1..N : k[n] = Render(client, k[n - 1], evs[n])
  <2>1. \A n \in 0..N : k[n] = IF n = 0 THEN r ELSE Render(client, k[n - 1], evs[n])
      BY Zenon, <1>4
  <2>2. 0 \in 0..N /\ \A n \in 1..N : n \in 0..N /\ n # 0
      OBVIOUS
  <2> QED
      BY Zenon, <2>1, <2>2
<1>6. \A n \in 1..N : k[n - 1] \in S => k[n] \in S
    BY <1>5
<1>7. \A n \in 0..N : k[n] \in S
    BY <1>5, <1>6, RoundsIn
<1> QED
    BY <1>5, <1>7 DEF k

\* The calls of a chunk.
LEMMA ToolChunksIn ==
    ASSUME NEW S, NEW x, NEW tcs, Len(tcs) \in Nat, x \in S,
           \A n \in 1..Len(tcs) : \A y \in S : Joins(y, ToolChunk(y.a, tcs[n])) \in S
    PROVE  /\ \A n \in 0..Len(tcs) : ToolChunks(x, tcs)[n] \in S
           /\ ToolChunks(x, tcs)[0] = x
           /\ \A n \in 1..Len(tcs) : ToolChunks(x, tcs)[n] = Joins(ToolChunks(x, tcs)[n - 1], ToolChunk(ToolChunks(x, tcs)[n - 1].a, tcs[n]))
<1> DEFINE N == Len(tcs)
           k == ToolChunks(x, tcs)
           g == [p \in (1..N) \X S |-> Joins(p[2], ToolChunk(p[2].a, tcs[p[1]]))]
<1>1. g \in Rounds(N, S)
    BY DEF Rounds
<1>2. PICK h : Runs(h, N, S, x, g)
  <2> HIDE DEF g
  <2> QED
      BY <1>1, RoundsExist
<1>3. h = [n \in 0..N |-> IF n = 0 THEN x ELSE Joins(h[n - 1], ToolChunk(h[n - 1].a, tcs[n]))]
  <2>1. ASSUME NEW n \in 1..N PROVE h[n] = Joins(h[n - 1], ToolChunk(h[n - 1].a, tcs[n]))
    <3>1. n - 1 \in 0..N
        OBVIOUS
    <3>2. <<n, h[n - 1]>> \in (1..N) \X S
        BY <1>2, <3>1 DEF Runs
    <3> QED
        BY <1>2, <3>2 DEF Runs
  <2>2. \A n \in 0..N : h[n] = IF n = 0 THEN x ELSE Joins(h[n - 1], ToolChunk(h[n - 1].a, tcs[n]))
    <3> SUFFICES ASSUME NEW n \in 0..N
                 PROVE  h[n] = IF n = 0 THEN x ELSE Joins(h[n - 1], ToolChunk(h[n - 1].a, tcs[n]))
        OBVIOUS
    <3>1. n = 0 \/ n \in 1..N
        OBVIOUS
    <3>2. h[0] = x
        BY <1>2 DEF Runs
    <3>3. n \in 1..N => n # 0
        OBVIOUS
    <3> QED
        BY Zenon, <2>1, <3>1, <3>2, <3>3
  <2>3. h = [n \in 0..N |-> h[n]]
      BY <1>2 DEF Runs
  <2> QED
      BY Zenon, <2>2, <2>3
<1>4. k = [n \in 0..N |-> IF n = 0 THEN x ELSE Joins(k[n - 1], ToolChunk(k[n - 1].a, tcs[n]))]
    BY <1>3 DEF ToolChunks
<1> HIDE DEF k, g
<1>5. k[0] = x /\ \A n \in 1..N : k[n] = Joins(k[n - 1], ToolChunk(k[n - 1].a, tcs[n]))
  <2>1. \A n \in 0..N : k[n] = IF n = 0 THEN x ELSE Joins(k[n - 1], ToolChunk(k[n - 1].a, tcs[n]))
      BY Zenon, <1>4
  <2>2. 0 \in 0..N /\ \A n \in 1..N : n \in 0..N /\ n # 0
      OBVIOUS
  <2> QED
      BY Zenon, <2>1, <2>2
<1>6. \A n \in 1..N : k[n - 1] \in S => k[n] \in S
    BY <1>5
<1>7. \A n \in 0..N : k[n] \in S
    BY <1>5, <1>6, RoundsIn
<1> QED
    BY <1>5, <1>7 DEF k

\* The calls that the end of a stream closes.
LEMMA ClosingIn ==
    ASSUME NEW S, NEW x, NEW slots, Len(slots) \in Nat, x \in S,
           \A n \in 1..Len(slots) : \A y \in S : Joins(y, CloseCall(y.a, slots[n])) \in S
    PROVE  /\ \A n \in 0..Len(slots) : Closing(x, slots)[n] \in S
           /\ Closing(x, slots)[0] = x
           /\ \A n \in 1..Len(slots) : Closing(x, slots)[n] = Joins(Closing(x, slots)[n - 1], CloseCall(Closing(x, slots)[n - 1].a, slots[n]))
<1> DEFINE N == Len(slots)
           k == Closing(x, slots)
           g == [p \in (1..N) \X S |-> Joins(p[2], CloseCall(p[2].a, slots[p[1]]))]
<1>1. g \in Rounds(N, S)
    BY DEF Rounds
<1>2. PICK h : Runs(h, N, S, x, g)
  <2> HIDE DEF g
  <2> QED
      BY <1>1, RoundsExist
<1>3. h = [n \in 0..N |-> IF n = 0 THEN x ELSE Joins(h[n - 1], CloseCall(h[n - 1].a, slots[n]))]
  <2>1. ASSUME NEW n \in 1..N PROVE h[n] = Joins(h[n - 1], CloseCall(h[n - 1].a, slots[n]))
    <3>1. n - 1 \in 0..N
        OBVIOUS
    <3>2. <<n, h[n - 1]>> \in (1..N) \X S
        BY <1>2, <3>1 DEF Runs
    <3> QED
        BY <1>2, <3>2 DEF Runs
  <2>2. \A n \in 0..N : h[n] = IF n = 0 THEN x ELSE Joins(h[n - 1], CloseCall(h[n - 1].a, slots[n]))
    <3> SUFFICES ASSUME NEW n \in 0..N
                 PROVE  h[n] = IF n = 0 THEN x ELSE Joins(h[n - 1], CloseCall(h[n - 1].a, slots[n]))
        OBVIOUS
    <3>1. n = 0 \/ n \in 1..N
        OBVIOUS
    <3>2. h[0] = x
        BY <1>2 DEF Runs
    <3>3. n \in 1..N => n # 0
        OBVIOUS
    <3> QED
        BY Zenon, <2>1, <3>1, <3>2, <3>3
  <2>3. h = [n \in 0..N |-> h[n]]
      BY <1>2 DEF Runs
  <2> QED
      BY Zenon, <2>2, <2>3
<1>4. k = [n \in 0..N |-> IF n = 0 THEN x ELSE Joins(k[n - 1], CloseCall(k[n - 1].a, slots[n]))]
    BY <1>3 DEF Closing
<1> HIDE DEF k, g
<1>5. k[0] = x /\ \A n \in 1..N : k[n] = Joins(k[n - 1], CloseCall(k[n - 1].a, slots[n]))
  <2>1. \A n \in 0..N : k[n] = IF n = 0 THEN x ELSE Joins(k[n - 1], CloseCall(k[n - 1].a, slots[n]))
      BY Zenon, <1>4
  <2>2. 0 \in 0..N /\ \A n \in 1..N : n \in 0..N /\ n # 0
      OBVIOUS
  <2> QED
      BY Zenon, <2>1, <2>2
<1>6. \A n \in 1..N : k[n - 1] \in S => k[n] \in S
    BY <1>5
<1>7. \A n \in 0..N : k[n] \in S
    BY <1>5, <1>6, RoundsIn
<1> QED
    BY <1>5, <1>7 DEF k

\* The calls of a response, each done.
LEMMA CallsDoneIn ==
    ASSUME NEW S, NEW r, NEW slots, Len(slots) \in Nat, r \in S,
           \A n \in 1..Len(slots) : \A y \in S : CallDoneAt(y, slots[n]) \in S
    PROVE  /\ \A n \in 0..Len(slots) : CallsDone(r, slots)[n] \in S
           /\ CallsDone(r, slots)[0] = r
           /\ \A n \in 1..Len(slots) : CallsDone(r, slots)[n] = CallDoneAt(CallsDone(r, slots)[n - 1], slots[n])
<1> DEFINE N == Len(slots)
           k == CallsDone(r, slots)
           g == [p \in (1..N) \X S |-> CallDoneAt(p[2], slots[p[1]])]
<1>1. g \in Rounds(N, S)
    BY DEF Rounds
<1>2. PICK h : Runs(h, N, S, r, g)
  <2> HIDE DEF g
  <2> QED
      BY <1>1, RoundsExist
<1>3. h = [n \in 0..N |-> IF n = 0 THEN r ELSE CallDoneAt(h[n - 1], slots[n])]
  <2>1. ASSUME NEW n \in 1..N PROVE h[n] = CallDoneAt(h[n - 1], slots[n])
    <3>1. n - 1 \in 0..N
        OBVIOUS
    <3>2. <<n, h[n - 1]>> \in (1..N) \X S
        BY <1>2, <3>1 DEF Runs
    <3> QED
        BY <1>2, <3>2 DEF Runs
  <2>2. \A n \in 0..N : h[n] = IF n = 0 THEN r ELSE CallDoneAt(h[n - 1], slots[n])
    <3> SUFFICES ASSUME NEW n \in 0..N
                 PROVE  h[n] = IF n = 0 THEN r ELSE CallDoneAt(h[n - 1], slots[n])
        OBVIOUS
    <3>1. n = 0 \/ n \in 1..N
        OBVIOUS
    <3>2. h[0] = r
        BY <1>2 DEF Runs
    <3>3. n \in 1..N => n # 0
        OBVIOUS
    <3> QED
        BY Zenon, <2>1, <3>1, <3>2, <3>3
  <2>3. h = [n \in 0..N |-> h[n]]
      BY <1>2 DEF Runs
  <2> QED
      BY Zenon, <2>2, <2>3
<1>4. k = [n \in 0..N |-> IF n = 0 THEN r ELSE CallDoneAt(k[n - 1], slots[n])]
    BY <1>3 DEF CallsDone
<1> HIDE DEF k, g
<1>5. k[0] = r /\ \A n \in 1..N : k[n] = CallDoneAt(k[n - 1], slots[n])
  <2>1. \A n \in 0..N : k[n] = IF n = 0 THEN r ELSE CallDoneAt(k[n - 1], slots[n])
      BY Zenon, <1>4
  <2>2. 0 \in 0..N /\ \A n \in 1..N : n \in 0..N /\ n # 0
      OBVIOUS
  <2> QED
      BY Zenon, <2>1, <2>2
<1>6. \A n \in 1..N : k[n - 1] \in S => k[n] \in S
    BY <1>5
<1>7. \A n \in 0..N : k[n] \in S
    BY <1>5, <1>6, RoundsIn
<1> QED
    BY <1>5, <1>7 DEF k

\* The items of a response, each done.
LEMMA ItemsDoneIn ==
    ASSUME NEW S, NEW r, NEW items, NEW ats, Len(ats) \in Nat, r \in S,
           \A n \in 1..Len(ats) : \A y \in S : ItemDoneAt(y, items, ats[n]) \in S
    PROVE  /\ \A n \in 0..Len(ats) : ItemsDone(r, items, ats)[n] \in S
           /\ ItemsDone(r, items, ats)[0] = r
           /\ \A n \in 1..Len(ats) : ItemsDone(r, items, ats)[n] = ItemDoneAt(ItemsDone(r, items, ats)[n - 1], items, ats[n])
<1> DEFINE N == Len(ats)
           k == ItemsDone(r, items, ats)
           g == [p \in (1..N) \X S |-> ItemDoneAt(p[2], items, ats[p[1]])]
<1>1. g \in Rounds(N, S)
    BY DEF Rounds
<1>2. PICK h : Runs(h, N, S, r, g)
  <2> HIDE DEF g
  <2> QED
      BY <1>1, RoundsExist
<1>3. h = [n \in 0..N |-> IF n = 0 THEN r ELSE ItemDoneAt(h[n - 1], items, ats[n])]
  <2>1. ASSUME NEW n \in 1..N PROVE h[n] = ItemDoneAt(h[n - 1], items, ats[n])
    <3>1. n - 1 \in 0..N
        OBVIOUS
    <3>2. <<n, h[n - 1]>> \in (1..N) \X S
        BY <1>2, <3>1 DEF Runs
    <3> QED
        BY <1>2, <3>2 DEF Runs
  <2>2. \A n \in 0..N : h[n] = IF n = 0 THEN r ELSE ItemDoneAt(h[n - 1], items, ats[n])
    <3> SUFFICES ASSUME NEW n \in 0..N
                 PROVE  h[n] = IF n = 0 THEN r ELSE ItemDoneAt(h[n - 1], items, ats[n])
        OBVIOUS
    <3>1. n = 0 \/ n \in 1..N
        OBVIOUS
    <3>2. h[0] = r
        BY <1>2 DEF Runs
    <3>3. n \in 1..N => n # 0
        OBVIOUS
    <3> QED
        BY Zenon, <2>1, <3>1, <3>2, <3>3
  <2>3. h = [n \in 0..N |-> h[n]]
      BY <1>2 DEF Runs
  <2> QED
      BY Zenon, <2>2, <2>3
<1>4. k = [n \in 0..N |-> IF n = 0 THEN r ELSE ItemDoneAt(k[n - 1], items, ats[n])]
    BY <1>3 DEF ItemsDone
<1> HIDE DEF k, g
<1>5. k[0] = r /\ \A n \in 1..N : k[n] = ItemDoneAt(k[n - 1], items, ats[n])
  <2>1. \A n \in 0..N : k[n] = IF n = 0 THEN r ELSE ItemDoneAt(k[n - 1], items, ats[n])
      BY Zenon, <1>4
  <2>2. 0 \in 0..N /\ \A n \in 1..N : n \in 0..N /\ n # 0
      OBVIOUS
  <2> QED
      BY Zenon, <2>1, <2>2
<1>6. \A n \in 1..N : k[n - 1] \in S => k[n] \in S
    BY <1>5
<1>7. \A n \in 0..N : k[n] \in S
    BY <1>5, <1>6, RoundsIn
<1> QED
    BY <1>5, <1>7 DEF k

\* The calls of a message, each a block.
LEMMA CallBlocksIn ==
    ASSUME NEW S, NEW r, NEW slots, Len(slots) \in Nat, r \in S,
           \A n \in 1..Len(slots) : \A y \in S : CallBlock(y, slots[n]) \in S
    PROVE  /\ \A n \in 0..Len(slots) : CallBlocks(r, slots)[n] \in S
           /\ CallBlocks(r, slots)[0] = r
           /\ \A n \in 1..Len(slots) : CallBlocks(r, slots)[n] = CallBlock(CallBlocks(r, slots)[n - 1], slots[n])
<1> DEFINE N == Len(slots)
           k == CallBlocks(r, slots)
           g == [p \in (1..N) \X S |-> CallBlock(p[2], slots[p[1]])]
<1>1. g \in Rounds(N, S)
    BY DEF Rounds
<1>2. PICK h : Runs(h, N, S, r, g)
  <2> HIDE DEF g
  <2> QED
      BY <1>1, RoundsExist
<1>3. h = [n \in 0..N |-> IF n = 0 THEN r ELSE CallBlock(h[n - 1], slots[n])]
  <2>1. ASSUME NEW n \in 1..N PROVE h[n] = CallBlock(h[n - 1], slots[n])
    <3>1. n - 1 \in 0..N
        OBVIOUS
    <3>2. <<n, h[n - 1]>> \in (1..N) \X S
        BY <1>2, <3>1 DEF Runs
    <3> QED
        BY <1>2, <3>2 DEF Runs
  <2>2. \A n \in 0..N : h[n] = IF n = 0 THEN r ELSE CallBlock(h[n - 1], slots[n])
    <3> SUFFICES ASSUME NEW n \in 0..N
                 PROVE  h[n] = IF n = 0 THEN r ELSE CallBlock(h[n - 1], slots[n])
        OBVIOUS
    <3>1. n = 0 \/ n \in 1..N
        OBVIOUS
    <3>2. h[0] = r
        BY <1>2 DEF Runs
    <3>3. n \in 1..N => n # 0
        OBVIOUS
    <3> QED
        BY Zenon, <2>1, <3>1, <3>2, <3>3
  <2>3. h = [n \in 0..N |-> h[n]]
      BY <1>2 DEF Runs
  <2> QED
      BY Zenon, <2>2, <2>3
<1>4. k = [n \in 0..N |-> IF n = 0 THEN r ELSE CallBlock(k[n - 1], slots[n])]
    BY <1>3 DEF CallBlocks
<1> HIDE DEF k, g
<1>5. k[0] = r /\ \A n \in 1..N : k[n] = CallBlock(k[n - 1], slots[n])
  <2>1. \A n \in 0..N : k[n] = IF n = 0 THEN r ELSE CallBlock(k[n - 1], slots[n])
      BY Zenon, <1>4
  <2>2. 0 \in 0..N /\ \A n \in 1..N : n \in 0..N /\ n # 0
      OBVIOUS
  <2> QED
      BY Zenon, <2>1, <2>2
<1>6. \A n \in 1..N : k[n - 1] \in S => k[n] \in S
    BY <1>5
<1>7. \A n \in 0..N : k[n] \in S
    BY <1>5, <1>6, RoundsIn
<1> QED
    BY <1>5, <1>7 DEF k

\* What is joined of a list of texts.
LEMMA JoiningIn ==
    ASSUME NEW S, NEW parts, Len(parts) \in Nat, <<>> \in S,
           \A n \in 1..Len(parts) : \A y \in S : y \o parts[n] \in S
    PROVE  /\ \A n \in 0..Len(parts) : Joining(parts)[n] \in S
           /\ Joining(parts)[0] = <<>>
           /\ \A n \in 1..Len(parts) : Joining(parts)[n] = Joining(parts)[n - 1] \o parts[n]
<1> DEFINE N == Len(parts)
           k == Joining(parts)
           g == [p \in (1..N) \X S |-> p[2] \o parts[p[1]]]
<1>1. g \in Rounds(N, S)
    BY DEF Rounds
<1>2. PICK h : Runs(h, N, S, <<>>, g)
  <2> HIDE DEF g
  <2> QED
      BY <1>1, RoundsExist
<1>3. h = [n \in 0..N |-> IF n = 0 THEN <<>> ELSE h[n - 1] \o parts[n]]
  <2>1. ASSUME NEW n \in 1..N PROVE h[n] = h[n - 1] \o parts[n]
    <3>1. n - 1 \in 0..N
        OBVIOUS
    <3>2. <<n, h[n - 1]>> \in (1..N) \X S
        BY <1>2, <3>1 DEF Runs
    <3> QED
        BY <1>2, <3>2 DEF Runs
  <2>2. \A n \in 0..N : h[n] = IF n = 0 THEN <<>> ELSE h[n - 1] \o parts[n]
    <3> SUFFICES ASSUME NEW n \in 0..N
                 PROVE  h[n] = IF n = 0 THEN <<>> ELSE h[n - 1] \o parts[n]
        OBVIOUS
    <3>1. n = 0 \/ n \in 1..N
        OBVIOUS
    <3>2. h[0] = <<>>
        BY <1>2 DEF Runs
    <3>3. n \in 1..N => n # 0
        OBVIOUS
    <3> QED
        BY Zenon, <2>1, <3>1, <3>2, <3>3
  <2>3. h = [n \in 0..N |-> h[n]]
      BY <1>2 DEF Runs
  <2> QED
      BY Zenon, <2>2, <2>3
<1>4. k = [n \in 0..N |-> IF n = 0 THEN <<>> ELSE k[n - 1] \o parts[n]]
    BY <1>3 DEF Joining
<1> HIDE DEF k, g
<1>5. k[0] = <<>> /\ \A n \in 1..N : k[n] = k[n - 1] \o parts[n]
  <2>1. \A n \in 0..N : k[n] = IF n = 0 THEN <<>> ELSE k[n - 1] \o parts[n]
      BY Zenon, <1>4
  <2>2. 0 \in 0..N /\ \A n \in 1..N : n \in 0..N /\ n # 0
      OBVIOUS
  <2> QED
      BY Zenon, <2>1, <2>2
<1>6. \A n \in 1..N : k[n - 1] \in S => k[n] \in S
    BY <1>5
<1>7. \A n \in 0..N : k[n] \in S
    BY <1>5, <1>6, RoundsIn
<1> QED
    BY <1>5, <1>7 DEF k

\* The scan of a block.
LEMMA ScansIn ==
    ASSUME NEW S, NEW text, NEW pos, Len(text) \in Nat, [how |-> "open", at |-> 0, pos |-> pos, depth |-> 1] \in S,
           \A n \in 1..Len(text) : \A y \in S : ScanStep(text, y) \in S
    PROVE  /\ \A n \in 0..Len(text) : Scans(text, pos)[n] \in S
           /\ Scans(text, pos)[0] = [how |-> "open", at |-> 0, pos |-> pos, depth |-> 1]
           /\ \A n \in 1..Len(text) : Scans(text, pos)[n] = ScanStep(text, Scans(text, pos)[n - 1])
<1> DEFINE N == Len(text)
           k == Scans(text, pos)
           g == [p \in (1..N) \X S |-> ScanStep(text, p[2])]
<1>1. g \in Rounds(N, S)
    BY DEF Rounds
<1>2. PICK h : Runs(h, N, S, [how |-> "open", at |-> 0, pos |-> pos, depth |-> 1], g)
  <2> HIDE DEF g
  <2> QED
      BY <1>1, RoundsExist
<1>3. h = [n \in 0..N |-> IF n = 0 THEN [how |-> "open", at |-> 0, pos |-> pos, depth |-> 1] ELSE ScanStep(text, h[n - 1])]
  <2>1. ASSUME NEW n \in 1..N PROVE h[n] = ScanStep(text, h[n - 1])
    <3>1. n - 1 \in 0..N
        OBVIOUS
    <3>2. <<n, h[n - 1]>> \in (1..N) \X S
        BY <1>2, <3>1 DEF Runs
    <3> QED
        BY <1>2, <3>2 DEF Runs
  <2>2. \A n \in 0..N : h[n] = IF n = 0 THEN [how |-> "open", at |-> 0, pos |-> pos, depth |-> 1] ELSE ScanStep(text, h[n - 1])
    <3> SUFFICES ASSUME NEW n \in 0..N
                 PROVE  h[n] = IF n = 0 THEN [how |-> "open", at |-> 0, pos |-> pos, depth |-> 1] ELSE ScanStep(text, h[n - 1])
        OBVIOUS
    <3>1. n = 0 \/ n \in 1..N
        OBVIOUS
    <3>2. h[0] = [how |-> "open", at |-> 0, pos |-> pos, depth |-> 1]
        BY <1>2 DEF Runs
    <3>3. n \in 1..N => n # 0
        OBVIOUS
    <3> QED
        BY Zenon, <2>1, <3>1, <3>2, <3>3
  <2>3. h = [n \in 0..N |-> h[n]]
      BY <1>2 DEF Runs
  <2> QED
      BY Zenon, <2>2, <2>3
<1>4. k = [n \in 0..N |-> IF n = 0 THEN [how |-> "open", at |-> 0, pos |-> pos, depth |-> 1] ELSE ScanStep(text, k[n - 1])]
    BY <1>3 DEF Scans
<1> HIDE DEF k, g
<1>5. k[0] = [how |-> "open", at |-> 0, pos |-> pos, depth |-> 1] /\ \A n \in 1..N : k[n] = ScanStep(text, k[n - 1])
  <2>1. \A n \in 0..N : k[n] = IF n = 0 THEN [how |-> "open", at |-> 0, pos |-> pos, depth |-> 1] ELSE ScanStep(text, k[n - 1])
      BY Zenon, <1>4
  <2>2. 0 \in 0..N /\ \A n \in 1..N : n \in 0..N /\ n # 0
      OBVIOUS
  <2> QED
      BY Zenon, <2>1, <2>2
<1>6. \A n \in 1..N : k[n - 1] \in S => k[n] \in S
    BY <1>5
<1>7. \A n \in 0..N : k[n] \in S
    BY <1>5, <1>6, RoundsIn
<1> QED
    BY <1>5, <1>7 DEF k

\* The blocks of a text.
LEMMA SplitsIn ==
    ASSUME NEW S, NEW text, Len(text) \in Nat, [rest |-> text, text |-> <<>>, think |-> <<>>, over |-> FALSE] \in S,
           \A n \in 1..Len(text) : \A y \in S : SplitStep(y) \in S
    PROVE  /\ \A n \in 0..Len(text) : Splits(text)[n] \in S
           /\ Splits(text)[0] = [rest |-> text, text |-> <<>>, think |-> <<>>, over |-> FALSE]
           /\ \A n \in 1..Len(text) : Splits(text)[n] = SplitStep(Splits(text)[n - 1])
<1> DEFINE N == Len(text)
           k == Splits(text)
           g == [p \in (1..N) \X S |-> SplitStep(p[2])]
<1>1. g \in Rounds(N, S)
    BY DEF Rounds
<1>2. PICK h : Runs(h, N, S, [rest |-> text, text |-> <<>>, think |-> <<>>, over |-> FALSE], g)
  <2> HIDE DEF g
  <2> QED
      BY <1>1, RoundsExist
<1>3. h = [n \in 0..N |-> IF n = 0 THEN [rest |-> text, text |-> <<>>, think |-> <<>>, over |-> FALSE] ELSE SplitStep(h[n - 1])]
  <2>1. ASSUME NEW n \in 1..N PROVE h[n] = SplitStep(h[n - 1])
    <3>1. n - 1 \in 0..N
        OBVIOUS
    <3>2. <<n, h[n - 1]>> \in (1..N) \X S
        BY <1>2, <3>1 DEF Runs
    <3> QED
        BY <1>2, <3>2 DEF Runs
  <2>2. \A n \in 0..N : h[n] = IF n = 0 THEN [rest |-> text, text |-> <<>>, think |-> <<>>, over |-> FALSE] ELSE SplitStep(h[n - 1])
    <3> SUFFICES ASSUME NEW n \in 0..N
                 PROVE  h[n] = IF n = 0 THEN [rest |-> text, text |-> <<>>, think |-> <<>>, over |-> FALSE] ELSE SplitStep(h[n - 1])
        OBVIOUS
    <3>1. n = 0 \/ n \in 1..N
        OBVIOUS
    <3>2. h[0] = [rest |-> text, text |-> <<>>, think |-> <<>>, over |-> FALSE]
        BY <1>2 DEF Runs
    <3>3. n \in 1..N => n # 0
        OBVIOUS
    <3> QED
        BY Zenon, <2>1, <3>1, <3>2, <3>3
  <2>3. h = [n \in 0..N |-> h[n]]
      BY <1>2 DEF Runs
  <2> QED
      BY Zenon, <2>2, <2>3
<1>4. k = [n \in 0..N |-> IF n = 0 THEN [rest |-> text, text |-> <<>>, think |-> <<>>, over |-> FALSE] ELSE SplitStep(k[n - 1])]
    BY <1>3 DEF Splits
<1> HIDE DEF k, g
<1>5. k[0] = [rest |-> text, text |-> <<>>, think |-> <<>>, over |-> FALSE] /\ \A n \in 1..N : k[n] = SplitStep(k[n - 1])
  <2>1. \A n \in 0..N : k[n] = IF n = 0 THEN [rest |-> text, text |-> <<>>, think |-> <<>>, over |-> FALSE] ELSE SplitStep(k[n - 1])
      BY Zenon, <1>4
  <2>2. 0 \in 0..N /\ \A n \in 1..N : n \in 0..N /\ n # 0
      OBVIOUS
  <2> QED
      BY Zenon, <2>1, <2>2
<1>6. \A n \in 1..N : k[n - 1] \in S => k[n] \in S
    BY <1>5
<1>7. \A n \in 0..N : k[n] \in S
    BY <1>5, <1>6, RoundsIn
<1> QED
    BY <1>5, <1>7 DEF k

\* The repair of a whole text.
LEMMA SanitizingIn ==
    ASSUME NEW S, NEW text, Len(text) \in Nat, [i |-> 1, inStr |-> FALSE, out |-> <<>>] \in S,
           \A n \in 1..Len(text) : \A y \in S : SanitizeStep(text, y) \in S
    PROVE  /\ \A n \in 0..Len(text) : Sanitizing(text)[n] \in S
           /\ Sanitizing(text)[0] = [i |-> 1, inStr |-> FALSE, out |-> <<>>]
           /\ \A n \in 1..Len(text) : Sanitizing(text)[n] = SanitizeStep(text, Sanitizing(text)[n - 1])
<1> DEFINE N == Len(text)
           k == Sanitizing(text)
           g == [p \in (1..N) \X S |-> SanitizeStep(text, p[2])]
<1>1. g \in Rounds(N, S)
    BY DEF Rounds
<1>2. PICK h : Runs(h, N, S, [i |-> 1, inStr |-> FALSE, out |-> <<>>], g)
  <2> HIDE DEF g
  <2> QED
      BY <1>1, RoundsExist
<1>3. h = [n \in 0..N |-> IF n = 0 THEN [i |-> 1, inStr |-> FALSE, out |-> <<>>] ELSE SanitizeStep(text, h[n - 1])]
  <2>1. ASSUME NEW n \in 1..N PROVE h[n] = SanitizeStep(text, h[n - 1])
    <3>1. n - 1 \in 0..N
        OBVIOUS
    <3>2. <<n, h[n - 1]>> \in (1..N) \X S
        BY <1>2, <3>1 DEF Runs
    <3> QED
        BY <1>2, <3>2 DEF Runs
  <2>2. \A n \in 0..N : h[n] = IF n = 0 THEN [i |-> 1, inStr |-> FALSE, out |-> <<>>] ELSE SanitizeStep(text, h[n - 1])
    <3> SUFFICES ASSUME NEW n \in 0..N
                 PROVE  h[n] = IF n = 0 THEN [i |-> 1, inStr |-> FALSE, out |-> <<>>] ELSE SanitizeStep(text, h[n - 1])
        OBVIOUS
    <3>1. n = 0 \/ n \in 1..N
        OBVIOUS
    <3>2. h[0] = [i |-> 1, inStr |-> FALSE, out |-> <<>>]
        BY <1>2 DEF Runs
    <3>3. n \in 1..N => n # 0
        OBVIOUS
    <3> QED
        BY Zenon, <2>1, <3>1, <3>2, <3>3
  <2>3. h = [n \in 0..N |-> h[n]]
      BY <1>2 DEF Runs
  <2> QED
      BY Zenon, <2>2, <2>3
<1>4. k = [n \in 0..N |-> IF n = 0 THEN [i |-> 1, inStr |-> FALSE, out |-> <<>>] ELSE SanitizeStep(text, k[n - 1])]
    BY <1>3 DEF Sanitizing
<1> HIDE DEF k, g
<1>5. k[0] = [i |-> 1, inStr |-> FALSE, out |-> <<>>] /\ \A n \in 1..N : k[n] = SanitizeStep(text, k[n - 1])
  <2>1. \A n \in 0..N : k[n] = IF n = 0 THEN [i |-> 1, inStr |-> FALSE, out |-> <<>>] ELSE SanitizeStep(text, k[n - 1])
      BY Zenon, <1>4
  <2>2. 0 \in 0..N /\ \A n \in 1..N : n \in 0..N /\ n # 0
      OBVIOUS
  <2> QED
      BY Zenon, <2>1, <2>2
<1>6. \A n \in 1..N : k[n - 1] \in S => k[n] \in S
    BY <1>5
<1>7. \A n \in 0..N : k[n] \in S
    BY <1>5, <1>6, RoundsIn
<1> QED
    BY <1>5, <1>7 DEF k

\* The repair of a piece.
LEMMA ScanningIn ==
    ASSUME NEW S, NEW buf, NEW inStr, Len(buf) \in Nat, [i |-> 1, inStr |-> inStr, out |-> <<>>, pending |-> <<>>] \in S,
           \A n \in 1..Len(buf) : \A y \in S : ScannedStep(buf, y) \in S
    PROVE  /\ \A n \in 0..Len(buf) : Scanning(buf, inStr)[n] \in S
           /\ Scanning(buf, inStr)[0] = [i |-> 1, inStr |-> inStr, out |-> <<>>, pending |-> <<>>]
           /\ \A n \in 1..Len(buf) : Scanning(buf, inStr)[n] = ScannedStep(buf, Scanning(buf, inStr)[n - 1])
<1> DEFINE N == Len(buf)
           k == Scanning(buf, inStr)
           g == [p \in (1..N) \X S |-> ScannedStep(buf, p[2])]
<1>1. g \in Rounds(N, S)
    BY DEF Rounds
<1>2. PICK h : Runs(h, N, S, [i |-> 1, inStr |-> inStr, out |-> <<>>, pending |-> <<>>], g)
  <2> HIDE DEF g
  <2> QED
      BY <1>1, RoundsExist
<1>3. h = [n \in 0..N |-> IF n = 0 THEN [i |-> 1, inStr |-> inStr, out |-> <<>>, pending |-> <<>>] ELSE ScannedStep(buf, h[n - 1])]
  <2>1. ASSUME NEW n \in 1..N PROVE h[n] = ScannedStep(buf, h[n - 1])
    <3>1. n - 1 \in 0..N
        OBVIOUS
    <3>2. <<n, h[n - 1]>> \in (1..N) \X S
        BY <1>2, <3>1 DEF Runs
    <3> QED
        BY <1>2, <3>2 DEF Runs
  <2>2. \A n \in 0..N : h[n] = IF n = 0 THEN [i |-> 1, inStr |-> inStr, out |-> <<>>, pending |-> <<>>] ELSE ScannedStep(buf, h[n - 1])
    <3> SUFFICES ASSUME NEW n \in 0..N
                 PROVE  h[n] = IF n = 0 THEN [i |-> 1, inStr |-> inStr, out |-> <<>>, pending |-> <<>>] ELSE ScannedStep(buf, h[n - 1])
        OBVIOUS
    <3>1. n = 0 \/ n \in 1..N
        OBVIOUS
    <3>2. h[0] = [i |-> 1, inStr |-> inStr, out |-> <<>>, pending |-> <<>>]
        BY <1>2 DEF Runs
    <3>3. n \in 1..N => n # 0
        OBVIOUS
    <3> QED
        BY Zenon, <2>1, <3>1, <3>2, <3>3
  <2>3. h = [n \in 0..N |-> h[n]]
      BY <1>2 DEF Runs
  <2> QED
      BY Zenon, <2>2, <2>3
<1>4. k = [n \in 0..N |-> IF n = 0 THEN [i |-> 1, inStr |-> inStr, out |-> <<>>, pending |-> <<>>] ELSE ScannedStep(buf, k[n - 1])]
    BY <1>3 DEF Scanning
<1> HIDE DEF k, g
<1>5. k[0] = [i |-> 1, inStr |-> inStr, out |-> <<>>, pending |-> <<>>] /\ \A n \in 1..N : k[n] = ScannedStep(buf, k[n - 1])
  <2>1. \A n \in 0..N : k[n] = IF n = 0 THEN [i |-> 1, inStr |-> inStr, out |-> <<>>, pending |-> <<>>] ELSE ScannedStep(buf, k[n - 1])
      BY Zenon, <1>4
  <2>2. 0 \in 0..N /\ \A n \in 1..N : n \in 0..N /\ n # 0
      OBVIOUS
  <2> QED
      BY Zenon, <2>1, <2>2
<1>6. \A n \in 1..N : k[n - 1] \in S => k[n] \in S
    BY <1>5
<1>7. \A n \in 0..N : k[n] \in S
    BY <1>5, <1>6, RoundsIn
<1> QED
    BY <1>5, <1>7 DEF k

-----------------------------------------------------------------------------
(* Texts.                                                                    *)

\* What texts, names, identifiers, marks and the bodies of frames consist of.
Token ==
    {"", " ", "<", "t", "/", "x", "r", "q", "b", "u", "n", ",", "e", "{", "v", "}",
     "f", "p", "z", "c1", "c2", "fc", "s",
     "stop", "length", "tool_calls", "tool_use", "max_tokens", "end_turn",
     "completed", "incomplete", "message", "reasoning", "call", "text", "thinking"}
Text == Seq(Token)

\* Lists of at most two.
LEMMA Lists ==
    ASSUME NEW S
    PROVE  /\ <<>> \in Seq(S) /\ Len(<<>>) = 0
           /\ \A a \in S : <<a>> \in Seq(S) /\ Len(<<a>>) = 1 /\ <<a>>[1] = a
           /\ \A a, b \in S : <<a, b>> \in Seq(S) /\ Len(<<a, b>>) = 2 /\ <<a, b>>[1] = a /\ <<a, b>>[2] = b
OBVIOUS

LEMMA LastOfTwo ==
    ASSUME NEW S, NEW a \in S, NEW b \in S
    PROVE  <<a, b>> = Append(<<a>>, b)
OBVIOUS

LEMMA MinIs ==
    ASSUME NEW T \in SUBSET Nat, T # {}
    PROVE  Min(T) \in T /\ \A n \in T : Min(T) <= n
<1>1. \E n \in T : \A m \in T : n <= m
    BY Least
<1> QED
    BY <1>1 DEF Min

LEMMA MaxIs ==
    ASSUME NEW N \in Nat, NEW T \in SUBSET (0..N), T # {}
    PROVE  Max(T) \in T /\ \A n \in T : Max(T) >= n
<1> DEFINE Above == {m \in Nat : \A n \in T : n <= m}
<1>1. N \in Above
    OBVIOUS
<1>2. PICK m \in Above : \A k \in Above : m <= k
  <2>1. Above \in SUBSET Nat /\ Above # {}
      BY <1>1
  <2> HIDE DEF Above
  <2> QED
      BY <2>1, Least
<1>3. m \in T
  <2> SUFFICES ASSUME m \notin T PROVE FALSE
      OBVIOUS
  <2>1. PICK t \in T : TRUE
      OBVIOUS
  <2>2. m - 1 \in Nat /\ \A n \in T : n <= m - 1
      BY <1>2, <2>1
  <2> QED
      BY <1>2, <2>2
<1>4. \E x \in T : \A n \in T : x >= n
    BY <1>2, <1>3
<1> QED
    BY <1>4 DEF Max

LEMMA PartIs ==
    ASSUME NEW S, NEW text \in Seq(S), NEW m \in Nat \ {0}, NEW n \in Int, n <= Len(text)
    PROVE  SubSeq(text, m, n) \in Seq(S)
<1>1. \A i \in m..n : text[i] \in S
    OBVIOUS
<1> QED
    BY <1>1, SubSeqProperties

LEMMA DropIs ==
    ASSUME NEW text \in Text, NEW n \in Nat
    PROVE  Drop(text, n) \in Text
BY PartIs DEF Drop, Text

LEMMA FindIs ==
    ASSUME NEW text \in Text, NEW tag, NEW i \in Nat \ {0}
    PROVE  /\ Find(text, tag, i) \in Nat
           /\ Find(text, tag, i) # 0 => Find(text, tag, i) \in i..(Len(text) - 1)
<1> DEFINE at == {k \in i..(Len(text) - 1) : SubSeq(text, k, k + 1) = tag}
<1>1. at \in SUBSET Nat /\ at \subseteq i..(Len(text) - 1)
    BY DEF Text
<1>2. Find(text, tag, i) = IF at = {} THEN 0 ELSE Min(at)
    BY DEF Find
<1> HIDE DEF at
<1>3. at # {} => Min(at) \in at
    BY <1>1, MinIs
<1>4. Len(text) \in Nat
    BY DEF Text
<1>5. CASE at = {}
    BY <1>2, <1>5
<1>6. CASE at # {}
  <2>1. Min(at) \in i..(Len(text) - 1)
      BY <1>1, <1>3, <1>6
  <2> QED
      BY <1>2, <1>4, <1>6, <2>1
<1> QED
    BY <1>5, <1>6

LEMMA StripIs ==
    ASSUME NEW text \in Text
    PROVE  Lstrip(text) \in Text /\ Strip(text) \in Text
<1> DEFINE solid == {k \in 1..Len(text) : text[k] # " "}
<1>0. Len(text) \in Nat
    BY DEF Text
<1>1. solid \subseteq 1..Len(text) /\ solid \in SUBSET (0..Len(text)) /\ solid \in SUBSET Nat
  <2>1. solid \subseteq 1..Len(text)
      OBVIOUS
  <2> HIDE DEF solid
  <2> QED
      BY <1>0, <2>1
<1>2. Lstrip(text) = IF solid = {} THEN <<>> ELSE Drop(text, Min(solid) - 1)
    BY DEF Lstrip
<1>3. Strip(text) = IF solid = {} THEN <<>> ELSE SubSeq(text, Min(solid), Max(solid))
    BY DEF Strip
<1> HIDE DEF solid
<1>4. <<>> \in Text
    BY DEF Text
<1>5. CASE solid # {}
  <2>1. Min(solid) \in 1..Len(text)
      BY <1>0, <1>1, <1>5, MinIs
  <2>2. Max(solid) \in 1..Len(text)
      BY <1>0, <1>1, <1>5, MaxIs
  <2>3. Drop(text, Min(solid) - 1) \in Text
      BY <1>0, <1>1, <2>1, DropIs
  <2>4. SubSeq(text, Min(solid), Max(solid)) \in Text
      BY <1>0, <1>1, <2>1, <2>2, PartIs DEF Text
  <2> QED
      BY <1>2, <1>3, <1>5, <2>3, <2>4
<1> QED
    BY <1>2, <1>3, <1>4, <1>5

LEMMA WithoutOpenIs ==
    ASSUME NEW text \in Text
    PROVE  WithoutOpen(text) \in Text
BY StripIs, DropIs DEF WithoutOpen, Tag

LEMMA JoinedIs ==
    ASSUME NEW a \in Text, NEW b \in Text
    PROVE  Joined(a, b) \in Text
<1>1. " " \in Token
    BY DEF Token
<1>2. <<" ">> \in Text
    BY <1>1, Lists DEF Text
<1>3. a \o <<" ">> \in Text
    BY <1>2, ConcatProperties DEF Text
<1>4. a \o <<" ">> \o b \in Text
    BY <1>3, ConcatProperties DEF Text
<1> QED
    BY <1>4 DEF Joined

ScanState(text) == [how : {"open", "cut", "unclosed", "closed"}, at : 0..Len(text), pos : Nat \ {0}, depth : Int]

LEMMA ScanIs ==
    ASSUME NEW text \in Text, NEW pos \in Nat \ {0}
    PROVE  Scan(text, pos).at \in 0..Len(text)
<1> DEFINE S == ScanState(text)
           first == [how |-> "open", at |-> 0, pos |-> pos, depth |-> 1]
<1>1. Len(text) \in Nat
    BY DEF Text
<1>2. first \in S
    BY <1>1 DEF ScanState
<1>3. ASSUME NEW s \in S PROVE ScanStep(text, s) \in S
  <2> DEFINE opens == Find(text, OpenTag, s.pos)
             closes == Find(text, CloseTag, s.pos)
  <2>1. s.pos \in Nat \ {0} /\ s.at \in 0..Len(text) /\ s.depth \in Int
      BY DEF ScanState
  <2>2. opens \in Nat /\ closes \in Nat /\ closes <= Len(text)
      BY <1>1, <2>1, FindIs
  <2> HIDE DEF opens, closes
  <2>3. /\ [s EXCEPT !.how = "cut"] \in S
        /\ [s EXCEPT !.how = "unclosed"] \in S
      BY DEF ScanState
  <2>4. opens + Tag \in Nat \ {0} /\ closes + Tag \in Nat \ {0} /\ closes \in 0..Len(text)
        /\ s.depth + 1 \in Int /\ s.depth - 1 \in Int
      BY <1>1, <2>1, <2>2 DEF Tag
  <2>5. /\ [s EXCEPT !.pos = opens + Tag, !.depth = @ + 1] \in S
        /\ [s EXCEPT !.how = "closed", !.at = closes] \in S
        /\ [s EXCEPT !.pos = closes + Tag, !.depth = @ - 1] \in S
      BY <2>4 DEF ScanState
  <2>6. \/ ScanStep(text, s) \in {s, [s EXCEPT !.how = "cut"], [s EXCEPT !.how = "unclosed"]}
        \/ ScanStep(text, s) \in {[s EXCEPT !.pos = opens + Tag, !.depth = @ + 1],
                                  [s EXCEPT !.how = "closed", !.at = closes],
                                  [s EXCEPT !.pos = closes + Tag, !.depth = @ - 1]}
      BY DEF ScanStep, opens, closes
  <2> QED
      BY <2>3, <2>5, <2>6
<1> HIDE DEF S, first
<1>4. Scans(text, pos)[Len(text)] \in S
  <2>1. \A n \in 0..Len(text) : Scans(text, pos)[n] \in S
      BY <1>1, <1>2, <1>3, ScansIn DEF first
  <2> QED
      BY <1>1, <2>1
<1> QED
    BY <1>4 DEF Scan, S, ScanState

SplitState == [rest : Text, text : Text, think : Text, over : BOOLEAN]

LEMMA SplitStepIs ==
    ASSUME NEW s \in SplitState
    PROVE  SplitStep(s) \in SplitState
<1> DEFINE start == Find(s.rest, OpenTag, 1)
           block == Scan(s.rest, start + Tag)
           plain == s.text \o SubSeq(s.rest, 1, start - 1)
           tail == Joined(s.think, Drop(s.rest, start + Tag - 1))
           inner == Joined(s.think, SubSeq(s.rest, start + Tag, block.at - 1))
           next == Lstrip(Drop(s.rest, block.at + Tag - 1))
<1>1. s.rest \in Text /\ s.text \in Text /\ s.think \in Text /\ s.over \in BOOLEAN
    BY DEF SplitState
<1>2. start \in Nat /\ start <= Len(s.rest) /\ Len(s.rest) \in Nat
    BY <1>1, FindIs DEF Text
<1>3. block.at \in 0..Len(s.rest)
  <2> HIDE DEF start
  <2>1. start + Tag \in Nat \ {0}
      BY <1>2 DEF Tag
  <2> QED
      BY <1>1, <2>1, ScanIs
<1> HIDE DEF start, block
<1>4. plain \in Text
  <2>1. SubSeq(s.rest, 1, start - 1) \in Seq(Token)
      BY <1>1, <1>2, PartIs DEF Text
  <2> QED
      BY <1>1, <2>1, ConcatProperties DEF Text
<1>5. tail \in Text
  <2>1. start + Tag - 1 \in Nat
      BY <1>2 DEF Tag
  <2> QED
      BY <1>1, <2>1, DropIs, JoinedIs
<1>6. inner \in Text
  <2>1. start + Tag \in Nat \ {0} /\ block.at - 1 \in Int /\ block.at - 1 <= Len(s.rest)
      BY <1>2, <1>3 DEF Tag
  <2>2. SubSeq(s.rest, start + Tag, block.at - 1) \in Text
      BY <1>1, <2>1, PartIs DEF Text
  <2> QED
      BY <1>1, <2>2, JoinedIs
<1>7. next \in Text
  <2>1. block.at + Tag - 1 \in Nat
      BY <1>3 DEF Tag
  <2> QED
      BY <1>1, <2>1, DropIs, StripIs
<1>8. s.text \o s.rest \in Text
    BY <1>1, ConcatProperties DEF Text
<1>9. SplitStep(s) \in {s, [s EXCEPT !.text = s.text \o s.rest, !.over = TRUE],
                        [s EXCEPT !.text = plain, !.over = TRUE],
                        [s EXCEPT !.text = plain, !.over = TRUE, !.think = tail],
                        [s EXCEPT !.text = plain, !.rest = next, !.think = inner]}
    BY DEF SplitStep, SplitState, start, block
<1> HIDE DEF plain, tail, inner, next
<1> QED
    BY <1>1, <1>4, <1>5, <1>6, <1>7, <1>8, <1>9 DEF SplitState

LEMMA SplitIs ==
    ASSUME NEW text \in Text
    PROVE  Split(text).text \in Text /\ Split(text).think \in Text
<1> DEFINE first == [rest |-> text, text |-> <<>>, think |-> <<>>, over |-> FALSE]
<1>1. Len(text) \in Nat /\ <<>> \in Text
    BY DEF Text
<1>2. first \in SplitState
    BY <1>1 DEF SplitState
<1> HIDE DEF first
<1>3. \A n \in 0..Len(text) : Splits(text)[n] \in SplitState
    BY <1>1, <1>2, SplitStepIs, SplitsIn DEF first
<1>4. Splits(text)[Len(text)] \in SplitState
    BY <1>1, <1>3
<1> DEFINE t == Splits(text)[Len(text)]
<1>5. t.text \in Text /\ t.think \in Text
    BY <1>4 DEF SplitState
<1>6. Split(text) = [text |-> Strip(t.text), think |-> t.think]
    BY DEF Split, Parted
<1> HIDE DEF t
<1> QED
    BY <1>5, <1>6, StripIs

-----------------------------------------------------------------------------
(* Arguments.                                                                *)

LEMMA SymbolIs ==
    ASSUME NEW text \in Text, NEW i \in 1..Len(text)
    PROVE  text[i] \in Token
BY DEF Text

LEMMA OneMoreSymbol ==
    ASSUME NEW text \in Text, NEW c \in Token
    PROVE  Append(text, c) \in Text
BY DEF Text

SanitizeState == [i : Nat \ {0}, inStr : BOOLEAN, out : Text]

LEMMA SanitizeArgsIs ==
    ASSUME NEW text \in Text
    PROVE  SanitizeArgs(text) \in Text
<1> DEFINE first == [i |-> 1, inStr |-> FALSE, out |-> <<>>]
<1>1. Len(text) \in Nat /\ <<>> \in Text
    BY DEF Text
<1>2. first \in SanitizeState
    BY <1>1 DEF SanitizeState
<1>3. ASSUME NEW s \in SanitizeState PROVE SanitizeStep(text, s) \in SanitizeState
  <2>1. s.i \in Nat \ {0} /\ s.out \in Text /\ s.inStr \in BOOLEAN
      BY DEF SanitizeState
  <2>2. s.i <= Len(text) => text[s.i] \in Token
      BY <1>1, <2>1, SymbolIs
  <2>3. "q" \in Token /\ "e" \in Token
      BY DEF Token
  <2>4. \A c \in Token, i \in Nat \ {0}, b \in BOOLEAN :
           [i |-> i, inStr |-> b, out |-> Append(s.out, c)] \in SanitizeState
      BY <2>1, OneMoreSymbol DEF SanitizeState
  <2>5. s.i + 1 \in Nat \ {0} /\ s.i + 2 \in Nat \ {0}
      BY <2>1
  <2>6. [s EXCEPT !.i = @ + 2, !.out = Append(@, "e")] \in SanitizeState
      BY <2>1, <2>3, <2>5, OneMoreSymbol DEF SanitizeState
  <2>7. s.i <= Len(text) => [s EXCEPT !.i = @ + 1, !.out = Append(@, text[s.i])] \in SanitizeState
      BY <2>1, <2>2, <2>5, OneMoreSymbol DEF SanitizeState
  <2>8. (s.inStr # ~Escaped(text, s.i)) \in BOOLEAN
      BY Zenon
  <2>9. [i |-> s.i + 1, inStr |-> s.inStr # ~Escaped(text, s.i), out |-> Append(s.out, "q")] \in SanitizeState
      BY Zenon, <2>3, <2>4, <2>5, <2>8
  <2> DEFINE quoted == [i |-> s.i + 1, inStr |-> s.inStr # ~Escaped(text, s.i), out |-> Append(s.out, "q")]
             word == [s EXCEPT !.i = @ + 2, !.out = Append(@, "e")]
             other == [s EXCEPT !.i = @ + 1, !.out = Append(@, text[s.i])]
  <2>10. CASE s.i > Len(text)
    <3>1. ~(s.i <= Len(text))
        BY <1>1, <2>1, <2>10
    <3>2. SanitizeStep(text, s) = s
        BY Zenon, <2>10, <3>1 DEF SanitizeStep
    <3> QED
        BY <3>2
  <2>11. CASE s.i <= Len(text)
    <3>1. ~(s.i > Len(text))
        BY <1>1, <2>1, <2>11
    <3>2. SanitizeStep(text, s) \in {quoted, word, other}
        BY Zenon, <2>11, <3>1 DEF SanitizeStep
    <3> QED
        BY Zenon, <2>6, <2>7, <2>9, <2>11, <3>2
  <2> QED
      BY <1>1, <2>1, <2>10, <2>11
<1> HIDE DEF first
<1>4. \A n \in 0..Len(text) : Sanitizing(text)[n] \in SanitizeState
    BY <1>1, <1>2, <1>3, SanitizingIn DEF first
<1>5. Sanitizing(text)[Len(text)] \in SanitizeState
    BY <1>1, <1>4
<1> QED
    BY <1>5 DEF SanitizeArgs, SanitizeState

ScanningState == [i : Nat \ {0}, inStr : BOOLEAN, out : Text, pending : Text]

LEMMA ScannedIs ==
    ASSUME NEW buf \in Text, NEW inStr \in BOOLEAN
    PROVE  Scanned(buf, inStr) \in ScanningState
<1> DEFINE first == [i |-> 1, inStr |-> inStr, out |-> <<>>, pending |-> <<>>]
<1>1. Len(buf) \in Nat /\ <<>> \in Text
    BY DEF Text
<1>2. first \in ScanningState
    BY <1>1 DEF ScanningState
<1>3. ASSUME NEW s \in ScanningState PROVE ScannedStep(buf, s) \in ScanningState
  <2> DEFINE Passes(out, next, b) == [s EXCEPT !.out = Append(@, out), !.i = next, !.inStr = b]
             held == [s EXCEPT !.pending = SubSeq(buf, s.i, Len(buf)), !.i = Len(buf) + 1]
             c == buf[s.i]
             bit == ~(c = "q" /\ ~Escaped(buf, s.i))
  <2>1. s.i \in Nat \ {0} /\ s.out \in Text /\ s.inStr \in BOOLEAN /\ s.pending \in Text
      BY DEF ScanningState
  <2>2. s.i <= Len(buf) => c \in Token
      BY <1>1, <2>1, SymbolIs
  <2>3. "q" \in Token /\ "e" \in Token
      BY DEF Token
  <2>4. ASSUME NEW x \in Token, NEW n \in Nat \ {0}, NEW b \in BOOLEAN PROVE Passes(x, n, b) \in ScanningState
      BY <2>1, OneMoreSymbol DEF ScanningState
  <2>5. held \in ScanningState
    <3>1. SubSeq(buf, s.i, Len(buf)) \in Text /\ Len(buf) + 1 \in Nat \ {0}
        BY <1>1, <2>1, PartIs DEF Text
    <3> QED
        BY <2>1, <3>1 DEF ScanningState
  <2>6. s.i + 1 \in Nat \ {0} /\ s.i + 2 \in Nat \ {0}
      BY <2>1
  <2>7. bit \in BOOLEAN
      BY Zenon
  <2>9. Passes("q", s.i + 1, TRUE) \in ScanningState /\ Passes("e", s.i + 2, FALSE) \in ScanningState
      BY Zenon, <2>3, <2>4, <2>6
  <2>10. s.i <= Len(buf) => Passes(c, s.i + 1, bit) \in ScanningState /\ Passes(c, s.i + 1, s.inStr) \in ScanningState
      BY Zenon, <2>1, <2>2, <2>4, <2>6, <2>7
  <2>11. CASE s.i > Len(buf)
    <3>1. ~(s.i <= Len(buf))
        BY <1>1, <2>1, <2>11
    <3>2. ScannedStep(buf, s) = s
        BY Zenon, <2>11, <3>1 DEF ScannedStep
    <3> QED
        BY <3>2
  <2>12. CASE s.i <= Len(buf)
    <3>1. ~(s.i > Len(buf))
        BY <1>1, <2>1, <2>12
    <3>2. ScannedStep(buf, s) \in {held, Passes("q", s.i + 1, TRUE), Passes("e", s.i + 2, FALSE),
                                   Passes(c, s.i + 1, bit), Passes(c, s.i + 1, s.inStr)}
        BY Zenon, <2>12, <3>1 DEF ScannedStep
    <3> QED
        BY Zenon, <2>5, <2>9, <2>10, <2>12, <3>2
  <2> QED
      BY <1>1, <2>1, <2>11, <2>12
<1> HIDE DEF first
<1>4. \A n \in 0..Len(buf) : Scanning(buf, inStr)[n] \in ScanningState
    BY <1>1, <1>2, <1>3, ScanningIn DEF first
<1>5. Scanning(buf, inStr)[Len(buf)] \in ScanningState
    BY <1>1, <1>4
<1> QED
    BY <1>5 DEF Scanned

LEMMA TrailingIs ==
    ASSUME NEW text, NEW i \in Nat \ {0}
    PROVE  Trailing(text, i) \in 0..(i - 1)
<1> DEFINE others == {k \in 1..(i - 1) : text[k] # "b"}
<1>1. others \subseteq 1..(i - 1)
    OBVIOUS
<1>2. Trailing(text, i) = i - 1 - (IF others = {} THEN 0 ELSE Max(others))
    BY DEF Trailing
<1> HIDE DEF others
<1>3. others # {} => Max(others) \in others
  <2>1. others \in SUBSET (0..(i - 1)) /\ i - 1 \in Nat
      BY <1>1
  <2> QED
      BY <2>1, MaxIs
<1>4. CASE others = {}
    BY <1>2, <1>4
<1>5. CASE others # {}
  <2>1. Max(others) \in 1..(i - 1)
      BY <1>1, <1>3, <1>5
  <2> QED
      BY <1>2, <1>5, <2>1
<1> QED
    BY <1>4, <1>5

LEMMA FeedIs ==
    ASSUME NEW held \in Text, NEW inStr \in BOOLEAN, NEW chunk \in Text
    PROVE  /\ Feed(held, inStr, chunk).out \in Text
           /\ Feed(held, inStr, chunk).inStr \in BOOLEAN
           /\ Feed(held, inStr, chunk).pending \in Text
<1> DEFINE buf == held \o chunk
           s == Scanned(buf, inStr)
           tail == Trailing(buf, Len(buf) + 1)
           cut == [s EXCEPT !.out = SubSeq(@, 1, Len(@) - tail),
                            !.pending = SubSeq(buf, Len(buf) - tail + 1, Len(buf))]
<1>1. buf \in Text
    BY ConcatProperties DEF Text
<1>2. Feed(held, inStr, chunk) = IF s.inStr /\ s.pending = <<>> THEN cut ELSE s
    BY DEF Feed
<1> HIDE DEF buf
<1>3. s \in ScanningState
    BY <1>1, ScannedIs
<1>4. Len(buf) \in Nat
    BY <1>1 DEF Text
<1>5. tail \in 0..Len(buf)
  <2>1. tail \in 0..((Len(buf) + 1) - 1)
      BY <1>4, TrailingIs
  <2> QED
      BY <1>4, <2>1
<1> HIDE DEF s, tail
<1>6. s.out \in Text /\ s.pending \in Text /\ s.inStr \in BOOLEAN
    BY <1>3 DEF ScanningState
<1>7. SubSeq(s.out, 1, Len(s.out) - tail) \in Text
  <2>1. Len(s.out) - tail \in Int /\ Len(s.out) - tail <= Len(s.out)
      BY <1>4, <1>5, <1>6 DEF Text
  <2> QED
      BY <1>6, <2>1, PartIs DEF Text
<1>8. SubSeq(buf, Len(buf) - tail + 1, Len(buf)) \in Text
  <2>1. Len(buf) - tail + 1 \in Nat \ {0}
      BY <1>4, <1>5
  <2> QED
      BY <1>1, <1>4, <2>1, PartIs DEF Text
<1>9. cut \in ScanningState
    BY <1>3, <1>7, <1>8 DEF ScanningState
<1>10. Feed(held, inStr, chunk) \in ScanningState
    BY <1>2, <1>3, <1>9
<1> QED
    BY <1>10 DEF ScanningState

LEMMA FlushedIs ==
    ASSUME NEW held \in Text, NEW inStr \in BOOLEAN
    PROVE  Flushed(held, inStr) \in Text
<1>1. "e" \in Token
    BY DEF Token
<1>2. <<"e">> \in Text
    BY <1>1, Lists DEF Text
<1>3. Flushed(held, inStr) \in {held, <<"e">>, SanitizeArgs(held)}
    BY Zenon DEF Flushed
<1> QED
    BY <1>2, <1>3, SanitizeArgsIs

LEMMA InputIs ==
    ASSUME NEW args \in Text
    PROVE  CustomInput(args) \in Text /\ ArgumentsToInput(args) \in Text
<1>1. "v" \in Token
    BY DEF Token
<1>2. <<"v">> \in Text /\ <<>> \in Text
    BY <1>1, Lists DEF Text
<1>3. CustomInput(args) \in {<<"v">>, <<>>, args} /\ ArgumentsToInput(args) \in {<<>>, args}
    BY Zenon DEF CustomInput, ArgumentsToInput
<1> QED
    BY <1>2, <1>3

-----------------------------------------------------------------------------
(* Output events, and what is kept by number.                                *)

OutputEvent ==
    [kind : EventKinds, slot : Nat, id : Token, name : Token, body : Text, whole : Text, mark : Token]

\* Functions from finitely many numbers.
Numbers == {D \in SUBSET Nat : IsFiniteSet(D)}
ByNumbers(C) == UNION {[D -> C] : D \in Numbers}

LEMMA ByNumber ==
    ASSUME NEW C, NEW f \in ByNumbers(C)
    PROVE  /\ DOMAIN f \in SUBSET Nat /\ IsFiniteSet(DOMAIN f)
           /\ \A k \in DOMAIN f : f[k] \in C
BY DEF ByNumbers, Numbers

LEMMA NumberedPut ==
    ASSUME NEW C, NEW f \in ByNumbers(C), NEW k \in Nat, NEW v \in C
    PROVE  /\ Put(f, k, v) \in ByNumbers(C)
           /\ DOMAIN Put(f, k, v) = DOMAIN f \cup {k}
           /\ Put(f, k, v)[k] = v
           /\ Put(f, k, v) # <<>>
<1>1. DOMAIN f \in SUBSET Nat /\ IsFiniteSet(DOMAIN f) /\ \A n \in DOMAIN f : f[n] \in C
    BY ByNumber
<1>2. DOMAIN f \cup {k} \in Numbers
    BY <1>1, FS_AddElement DEF Numbers
<1>3. Put(f, k, v) \in [DOMAIN f \cup {k} -> C]
    BY <1>1 DEF Put
<1>4. DOMAIN Put(f, k, v) = DOMAIN f \cup {k} /\ Put(f, k, v)[k] = v
    BY DEF Put
<1>5. DOMAIN <<>> = {}
    OBVIOUS
<1> QED
    BY <1>2, <1>3, <1>4, <1>5 DEF ByNumbers

LEMMA SomethingPut ==
    ASSUME NEW C, NEW f \in ByNumbers(C), NEW k \in Nat, NEW v \in C
    PROVE  Put(f, k, v) # <<>>
<1>1. DOMAIN Put(f, k, v) = DOMAIN f \cup {k}
    BY DEF Put
<1>2. DOMAIN <<>> = {}
    OBVIOUS
<1> HIDE DEF Put
<1> QED
    BY <1>1, <1>2

LEMMA NumberedReplace ==
    ASSUME NEW C, NEW f \in ByNumbers(C), NEW k \in DOMAIN f, NEW v \in C
    PROVE  [f EXCEPT ![k] = v] \in ByNumbers(C) /\ DOMAIN [f EXCEPT ![k] = v] = DOMAIN f
<1>1. DOMAIN f \in Numbers /\ f \in [DOMAIN f -> C]
    BY DEF ByNumbers, Numbers
<1>2. [f EXCEPT ![k] = v] \in [DOMAIN f -> C]
    BY <1>1
<1> QED
    BY <1>1, <1>2 DEF ByNumbers

LEMMA NothingNumbered ==
    ASSUME NEW C
    PROVE  /\ <<>> \in ByNumbers(C)
           /\ \A f \in ByNumbers(C) : f = <<>> <=> DOMAIN f = {}
<1>1. {} \in Numbers /\ DOMAIN <<>> = {}
    BY FS_EmptySet DEF Numbers
<1>2. <<>> \in [{} -> C]
    OBVIOUS
<1>3. ASSUME NEW f \in ByNumbers(C), DOMAIN f = {} PROVE f = <<>>
  <2>1. f = [x \in {} |-> f[x]]
      BY <1>3 DEF ByNumbers
  <2>2. <<>> = [x \in {} |-> f[x]]
      BY <1>1
  <2> QED
      BY <2>1, <2>2
<1> QED
    BY <1>1, <1>2, <1>3 DEF ByNumbers

\* The numbers of a finite set, ascending: each place has one of them.
LEMMA AscendingIs ==
    ASSUME NEW T \in Numbers
    PROVE  /\ Len(Ascending(T)) \in Nat
           /\ T # {} => Len(Ascending(T)) > 0
           /\ \A i \in 1..Len(Ascending(T)) : Ascending(T)[i] \in T
<1> DEFINE Below(n) == {m \in T : m < n}
           rank == [n \in T |-> Cardinality(Below(n))]
           c == Cardinality(T)
<1>1. IsFiniteSet(T) /\ c \in Nat /\ (T # {} => c > 0) /\ T \subseteq Nat
    BY FS_CardinalityType, FS_EmptySet DEF Numbers
<1>2. Ascending(T) = [i \in 1..c |-> CHOOSE n \in T : Cardinality(Below(n)) = i - 1]
    BY DEF Ascending
<1>3. Len(Ascending(T)) = c
    BY <1>1, <1>2
<1>4. ASSUME NEW n \in T PROVE IsFiniteSet(Below(n)) /\ Cardinality(Below(n)) \in 0..(c - 1)
  <2>1. Below(n) \in SUBSET T /\ n \notin Below(n)
      BY <1>1
  <2>2. IsFiniteSet(Below(n)) /\ Cardinality(Below(n)) \in Nat /\ Cardinality(Below(n)) <= c
        /\ (c = Cardinality(Below(n)) => T = Below(n))
      BY <1>1, <2>1, FS_Subset, FS_CardinalityType
  <2> QED
      BY <1>1, <2>1, <2>2
<1>5. ASSUME NEW n \in T, NEW m \in T, n < m PROVE Cardinality(Below(n)) # Cardinality(Below(m))
  <2>1. Below(n) \in SUBSET Below(m) /\ n \in Below(m) /\ n \notin Below(n)
    <3>1. n \in Nat /\ m \in Nat /\ \A x \in T : x \in Nat
        BY <1>1
    <3>2. \A x \in T : x < n => x < m
        BY <1>5, <3>1
    <3>3. Below(n) \in SUBSET Below(m)
        BY Zenon, <3>2
    <3>4. n \in Below(m)
        BY Zenon, <1>5
    <3>5. ~(n < n)
        BY <3>1
    <3>6. n \notin Below(n)
        BY Zenon, <3>5
    <3> QED
        BY <3>3, <3>4, <3>6
  <2>2. Cardinality(Below(m)) = Cardinality(Below(n)) => Below(m) = Below(n)
      BY <1>4, <2>1, FS_Subset
  <2> QED
      BY <2>1, <2>2
<1>6. rank \in Injection(T, 0..(c - 1))
  <2>1. rank \in [T -> 0..(c - 1)]
      BY <1>4
  <2>2. ASSUME NEW n \in T, NEW m \in T, n # m PROVE rank[n] # rank[m]
    <3>1. n < m \/ m < n
        BY <1>1, <2>2
    <3> QED
        BY <1>5, <3>1
  <2> HIDE DEF rank
  <2> QED
      BY <2>1, <2>2 DEF Injection, IsInjective
<1>7. rank \in Surjection(T, 0..(c - 1))
  <2>1. IsFiniteSet(0..(c - 1)) /\ Cardinality(0..(c - 1)) = c
      BY <1>1, FS_Interval
  <2> HIDE DEF rank
  <2> QED
      BY <1>6, <2>1, FS_Injection
<1>8. ASSUME NEW i \in 1..c PROVE Ascending(T)[i] \in T
  <2>1. i - 1 \in 0..(c - 1)
      BY <1>1
  <2>2. PICK n \in T : rank[n] = i - 1
    <3> HIDE DEF rank
    <3> QED
        BY <1>7, <2>1 DEF Surjection
  <2>3. \E k \in T : Cardinality(Below(k)) = i - 1
      BY <2>2
  <2> QED
      BY <1>2, <2>3
<1> QED
    BY <1>1, <1>3, <1>8

-----------------------------------------------------------------------------
(* The adapter of a chat upstream.                                           *)

\* What it says: words, of which a text has at least one, and calls.
Words == {e \in OutputEvent : /\ e.kind \in {"text_delta", "reasoning_delta"}
                              /\ e.kind = "text_delta" => e.body # <<>>}
CallEvents == {e \in OutputEvent : e.kind \in {"tool_call_start", "tool_call_arguments_delta", "tool_call_done"}}
\* What an upstream says before the end: a text says something.
Spoken == {e \in OutputEvent : e.kind # "message_done" /\ (e.kind = "text_delta" => e.body # <<>>)}

LEMMA EventsAre ==
    /\ Blank \in OutputEvent /\ MessageStart \in OutputEvent
    /\ Blank.kind = "usage" /\ MessageStart.kind = "message_start"
    /\ \A t \in Text : /\ t # <<>> => TextDelta(t) \in Words
                       /\ Reasoning(t) \in Words
                       /\ TextDelta(t) \in OutputEvent /\ TextDelta(t).kind = "text_delta" /\ TextDelta(t).body = t
                       /\ Reasoning(t).kind = "reasoning_delta"
    /\ \A m \in Token : /\ MessageDone(m) \in OutputEvent /\ MessageDone(m).kind = "message_done"
                        /\ MessageDone(m).mark = m
                        /\ Signature(m) \in OutputEvent /\ Signature(m).kind = "reasoning_delta"
<1>1. "" \in Token /\ <<>> \in Text /\ 0 \in Nat
    BY DEF Token, Text
<1>2. EventKinds = {"message_start", "text_delta", "reasoning_delta", "tool_call_start",
                    "tool_call_arguments_delta", "tool_call_done", "usage", "message_done"}
    BY DEF EventKinds
<1>3. Blank \in OutputEvent /\ Blank.kind = "usage"
    BY <1>1, <1>2 DEF Blank, OutputEvent
<1>4. MessageStart \in OutputEvent /\ MessageStart.kind = "message_start"
    BY <1>2, <1>3 DEF MessageStart, OutputEvent
<1>5. ASSUME NEW t \in Text
      PROVE  /\ TextDelta(t) \in OutputEvent /\ TextDelta(t).kind = "text_delta" /\ TextDelta(t).body = t
             /\ Reasoning(t) \in OutputEvent /\ Reasoning(t).kind = "reasoning_delta"
    BY <1>2, <1>3 DEF TextDelta, Reasoning, OutputEvent
<1>6. ASSUME NEW m \in Token
      PROVE  /\ MessageDone(m) \in OutputEvent /\ MessageDone(m).kind = "message_done" /\ MessageDone(m).mark = m
             /\ Signature(m) \in OutputEvent /\ Signature(m).kind = "reasoning_delta"
    BY <1>2, <1>3 DEF MessageDone, Signature, OutputEvent
<1> QED
    BY <1>3, <1>4, <1>5, <1>6 DEF Words

LEMMA CallEventsAre ==
    ASSUME NEW slot \in Nat, NEW c, c.id \in Token, c.name \in Token, c.args \in Text, NEW d \in Text
    PROVE  CallStart(slot, c) \in CallEvents /\ ArgumentsDelta(slot, c, d) \in CallEvents
           /\ CallDone(slot, c) \in CallEvents
           /\ CallStart(slot, c).kind = "tool_call_start"
           /\ ArgumentsDelta(slot, c, d).kind = "tool_call_arguments_delta"
           /\ CallDone(slot, c).kind = "tool_call_done"
<1>1. EventKinds = {"message_start", "text_delta", "reasoning_delta", "tool_call_start",
                    "tool_call_arguments_delta", "tool_call_done", "usage", "message_done"}
    BY DEF EventKinds
<1>2. Blank \in OutputEvent /\ <<>> \in Text
    BY EventsAre DEF Text
<1>3. ASSUME NEW k \in EventKinds
      PROVE  Call(k, slot, c) \in OutputEvent /\ Call(k, slot, c).kind = k
    BY <1>2, <1>3 DEF Call, OutputEvent
<1>4. CallStart(slot, c) \in OutputEvent /\ CallStart(slot, c).kind = "tool_call_start"
    BY <1>1, <1>2, <1>3 DEF CallStart, OutputEvent
<1>5. ArgumentsDelta(slot, c, d) \in OutputEvent /\ ArgumentsDelta(slot, c, d).kind = "tool_call_arguments_delta"
    BY <1>1, <1>3 DEF ArgumentsDelta, OutputEvent
<1>6. CallDone(slot, c) \in OutputEvent /\ CallDone(slot, c).kind = "tool_call_done"
    BY <1>1, <1>3 DEF CallDone
<1> QED
    BY <1>4, <1>5, <1>6 DEF CallEvents

LEMMA ToldIs ==
    ASSUME NEW t \in Text
    PROVE  Shown(t) \in Seq(Words) /\ Thought(t) \in Seq(Words)
<1>1. CASE t = <<>>
    BY <1>1, Lists DEF Shown, Thought, Some
<1>2. CASE t # <<>>
    BY <1>2, EventsAre, Lists DEF Shown, Thought, Some
<1> QED
    BY <1>1, <1>2

ToolCall == [id : Token, name : Token, args : Text, inStr : BOOLEAN, pending : Text]
OpenAI ==
    [stripped : BOOLEAN, buf : Text, overflowed : BOOLEAN, calls : ByNumbers(ToolCall),
     finish : Token, output : BOOLEAN, answer : BOOLEAN, thought : BOOLEAN]

\* Is there text among the events?
HasWords(out) == \E i \in 1..Len(out) : out[i].kind = "text_delta"
\* A step of the adapter that only looks at text.
Speaks(a, x) ==
    /\ x \in [a : OpenAI, out : Seq(Words)]
    /\ x.a.finish = a.finish /\ x.a.calls = a.calls
    /\ x.a.answer => a.answer \/ HasWords(x.out)

LEMMA HeldIs ==
    ASSUME NEW a \in OpenAI
    PROVE  /\ Passed(a) \in OpenAI /\ Passed(a).finish = a.finish /\ Passed(a).calls = a.calls
           /\ Passed(a).answer = a.answer
           /\ \A t \in Text, b \in BOOLEAN :
                /\ Held(a, t, b) \in OpenAI /\ Held(a, t, b).finish = a.finish /\ Held(a, t, b).calls = a.calls
                /\ Held(a, t, b).answer = a.answer
<1>1. <<>> \in Text
    BY DEF Text
<1>2. Passed(a) \in OpenAI
    BY Zenon, <1>1 DEF Passed, OpenAI
<1>3. ASSUME NEW t \in Text, NEW b \in BOOLEAN PROVE Held(a, t, b) \in OpenAI
    BY Zenon DEF Held, OpenAI
<1> QED
    BY <1>2, <1>3 DEF Passed, Held, OpenAI

LEMMA InOverflowIs ==
    ASSUME NEW a \in OpenAI, NEW buf \in Text
    PROVE  Speaks(a, InOverflow(a, buf))
<1> DEFINE close == Find(buf, CloseTag, 1)
           last == Len(buf) - Keep
<1>1. /\ close \in Nat /\ (close # 0 => close \in 1..(Len(buf) - 1))
      /\ Len(buf) \in Nat /\ last \in Int /\ last <= Len(buf) /\ Tag = 2
    BY FindIs DEF Text, Keep, Tag
<1> HIDE DEF close, last
<1>2. CASE close > 0
  <2>1. SubSeq(buf, 1, close - 1) \in Text /\ Drop(buf, close + Tag - 1) \in Text
    <3>1. close - 1 \in Int /\ close - 1 <= Len(buf) /\ close + Tag - 1 \in Nat
        BY <1>1
    <3>2. SubSeq(buf, 1, close - 1) \in Text
        BY <3>1, PartIs DEF Text
    <3> QED
        BY <3>1, <3>2, DropIs
  <2>2. Thought(SubSeq(buf, 1, close - 1)) \o Shown(Drop(buf, close + Tag - 1)) \in Seq(Words)
      BY <2>1, ToldIs
  <2>3. InOverflow(a, buf) = [a |-> Passed(a), out |-> Thought(SubSeq(buf, 1, close - 1))
                                                         \o Shown(Drop(buf, close + Tag - 1))]
      BY <1>2 DEF InOverflow, close
  <2> QED
      BY <2>2, <2>3, HeldIs DEF Speaks
<1>3. CASE ~(close > 0) /\ last <= 0
  <2>1. InOverflow(a, buf) = Quiet(Held(a, buf, TRUE))
      BY <1>3 DEF InOverflow, close, last
  <2>2. Speaks(a, Quiet(Held(a, buf, TRUE)))
      BY HeldIs, Lists DEF Speaks, Quiet
  <2> QED
      BY <2>1, <2>2
<1>4. CASE ~(close > 0) /\ ~(last <= 0)
  <2>1. SubSeq(buf, 1, last) \in Text /\ Drop(buf, last) \in Text
    <3>1. last \in Nat
        BY <1>1, <1>4
    <3>2. SubSeq(buf, 1, last) \in Text
        BY <1>1, PartIs DEF Text
    <3> QED
        BY <3>1, <3>2, DropIs
  <2>2. InOverflow(a, buf) = [a |-> Held(a, Drop(buf, last), TRUE), out |-> Thought(SubSeq(buf, 1, last))]
      BY <1>4 DEF InOverflow, close, last
  <2>3. Speaks(a, [a |-> Held(a, Drop(buf, last), TRUE), out |-> Thought(SubSeq(buf, 1, last))])
      BY <2>1, HeldIs, ToldIs DEF Speaks
  <2> QED
      BY <2>2, <2>3
<1> QED
    BY <1>2, <1>3, <1>4

LEMMA BufferedIs ==
    ASSUME NEW a \in OpenAI, NEW buf \in Text, buf # <<>>
    PROVE  Speaks(a, Buffered(a, buf))
<1> DEFINE last == Len(buf) - Keep
           passed == [a |-> Passed(a), out |-> Thought(Split(buf).think) \o Shown(Split(buf).text)]
           plain == [a |-> Passed(a), out |-> <<TextDelta(buf)>>]
           full == [a |-> Held(a, Drop(buf, last), TRUE), out |-> Thought(WithoutOpen(SubSeq(buf, 1, last)))]
           held == Quiet(Held(a, buf, FALSE))
<1>1. Len(buf) \in Nat \ {0} /\ last \in Nat /\ last <= Len(buf)
    BY DEF Text, Keep, Tag
<1>2. SubSeq(buf, 1, last) \in Text /\ Drop(buf, last) \in Text
  <2>1. SubSeq(buf, 1, last) \in Text
      BY <1>1, PartIs DEF Text
  <2> QED
      BY <1>1, <2>1, DropIs
<1>3. Buffered(a, buf) \in {passed, plain, full, held}
  <2> HIDE DEF passed, plain, full, held
  <2> QED
      BY Zenon DEF Buffered, Told, passed, plain, full, held, last
<1>4. Speaks(a, passed)
  <2>1. Split(buf).text \in Text /\ Split(buf).think \in Text
      BY SplitIs
  <2>2. Thought(Split(buf).think) \o Shown(Split(buf).text) \in Seq(Words)
      BY <2>1, ToldIs
  <2> QED
      BY <2>2, HeldIs DEF Speaks
<1>5. Speaks(a, plain)
    BY EventsAre, Lists, HeldIs DEF Speaks
<1>6. Speaks(a, full)
  <2>1. Thought(WithoutOpen(SubSeq(buf, 1, last))) \in Seq(Words)
      BY <1>2, WithoutOpenIs, ToldIs
  <2> QED
      BY <1>2, <2>1, HeldIs DEF Speaks
<1>7. Speaks(a, held)
    BY HeldIs, Lists DEF Speaks, Quiet
<1> HIDE DEF passed, plain, full, held
<1> QED
    BY <1>3, <1>4, <1>5, <1>6, <1>7

LEMMA ContentIs ==
    ASSUME NEW a \in OpenAI, NEW text \in Text
    PROVE  Speaks(a, Content(a, text))
<1> DEFINE plain == [a |-> a, out |-> <<TextDelta(text)>>]
<1>1. a.buf \in Text /\ a.buf \o text \in Text /\ (text # <<>> => a.buf \o text # <<>>)
    BY DEF OpenAI, Text
<1>2. Speaks(a, Quiet(a))
    BY Lists DEF Speaks, Quiet
<1>3. text # <<>> => Speaks(a, plain)
    BY EventsAre, Lists DEF Speaks
<1>4. Speaks(a, InOverflow(a, a.buf \o text))
    BY <1>1, InOverflowIs
<1>5. text # <<>> => Speaks(a, Buffered(a, a.buf \o text))
    BY <1>1, BufferedIs
<1> HIDE DEF plain
<1>6. CASE text = <<>>
  <2>1. Content(a, text) \in {Quiet(a)}
      BY Zenon, <1>6 DEF Content
  <2> QED
      BY <1>2, <2>1
<1>7. CASE text # <<>>
  <2>1. Content(a, text) \in {plain, InOverflow(a, a.buf \o text), Buffered(a, a.buf \o text)}
      BY Zenon, <1>7 DEF Content, plain
  <2> QED
      BY <1>3, <1>4, <1>5, <1>7, <2>1
<1> QED
    BY <1>6, <1>7

LEMMA RemainderIs ==
    ASSUME NEW a \in OpenAI
    PROVE  Speaks(a, Remainder(a))
<1> DEFINE told == IF a.overflowed THEN a.buf ELSE WithoutOpen(a.buf)
           thinks == [a |-> a, out |-> Thought(told)]
           says == [a |-> [a EXCEPT !.answer = TRUE], out |-> <<TextDelta(a.buf)>>]
<1>1. a.buf \in Text
    BY DEF OpenAI
<1>2. Speaks(a, Quiet(a))
    BY Lists DEF Speaks, Quiet
<1>3. Speaks(a, thinks)
  <2>1. WithoutOpen(a.buf) \in Text
      BY <1>1, WithoutOpenIs
  <2>2. told \in Text
      BY Zenon, <1>1, <2>1
  <2> HIDE DEF told
  <2> QED
      BY <2>2, ToldIs DEF Speaks
<1>4. a.buf # <<>> => Speaks(a, says)
  <2>1. [a EXCEPT !.answer = TRUE] \in OpenAI
      BY Zenon DEF OpenAI
  <2>2. [a EXCEPT !.answer = TRUE].finish = a.finish /\ [a EXCEPT !.answer = TRUE].calls = a.calls
      BY DEF OpenAI
  <2>3. a.buf # <<>> => <<TextDelta(a.buf)>> \in Seq(Words) /\ HasWords(<<TextDelta(a.buf)>>)
    <3>1. Len(<<TextDelta(a.buf)>>) = 1 /\ <<TextDelta(a.buf)>>[1] = TextDelta(a.buf)
        OBVIOUS
    <3> QED
        BY <1>1, <3>1, EventsAre, Lists DEF HasWords
  <2> QED
      BY <2>1, <2>2, <2>3 DEF Speaks
<1> HIDE DEF thinks, says
<1>5. CASE a.buf = <<>>
  <2>1. Remainder(a) \in {Quiet(a)}
      BY Zenon, <1>5 DEF Remainder
  <2> QED
      BY <1>2, <2>1
<1>6. CASE a.buf # <<>>
  <2>1. Remainder(a) \in {thinks, says}
      BY Zenon, <1>6 DEF Remainder, thinks, says, told
  <2> QED
      BY <1>3, <1>4, <1>6, <2>1
<1> QED
    BY <1>5, <1>6

\* A finite set of numbers has a greatest.
LEMMA GreatestIs ==
    ASSUME NEW T \in Numbers, T # {}
    PROVE  Max(T) \in T /\ \A n \in T : Max(T) >= n
<1> DEFINE From(n) == {m \in T : m >= n}
           Above == {From(n) : n \in T}
           R == StrictSubsetOrdering(T)
<1>1. IsFiniteSet(T) /\ T \subseteq Nat
    BY DEF Numbers
<1>2. Above \subseteq FiniteSubsetsOf(T) /\ Above # {}
  <2>1. \A n \in T : From(n) \in FiniteSubsetsOf(T)
      BY <1>1, FS_Subset DEF FiniteSubsetsOf
  <2> QED
      BY <2>1
<1>3. \E U \in Above : \A V \in Above : <<V, U>> \notin R
  <2> HIDE DEF Above, R
  <2>1. IsWellFoundedOn(R, FiniteSubsetsOf(T))
      BY FS_StrictSubsetOrderingWellFounded DEF R
  <2> QED
      BY <1>2, <2>1, WFMin
<1>4. PICK n \in T : \A m \in T : <<From(m), From(n)>> \notin R
    BY <1>3
<1>5. ASSUME NEW m \in T PROVE n >= m
  <2>1. SUFFICES ASSUME m > n PROVE FALSE
      BY <1>1
  <2>2. \A x \in T : x >= m => x >= n
      BY <1>1, <2>1
  <2>3. n \in From(n) /\ n \notin From(m) /\ From(m) \subseteq From(n)
    <3>1. n >= n /\ ~(n >= m)
        BY <1>1, <2>1
    <3>2. n \in From(n) /\ n \notin From(m)
        BY Zenon, <3>1
    <3>3. From(m) \subseteq From(n)
        BY Zenon, <2>2
    <3> QED
        BY <3>2, <3>3
  <2>4. From(m) \in SUBSET T /\ From(n) \in SUBSET T
      OBVIOUS
  <2> HIDE DEF From
  <2> QED
      BY <1>4, <2>3, <2>4 DEF StrictSubsetOrdering
<1>6. \E k \in T : \A m \in T : k >= m
    BY <1>5
<1> QED
    BY <1>6 DEF Max

ToolPiece == [at : Int, id : Token, name : Token, args : Text]
\* A step of the adapter that looks at calls.
CallsOf(a, x) ==
    /\ x \in [a : OpenAI, out : Seq(CallEvents)]
    /\ x.a.finish = a.finish /\ x.a.answer = a.answer

\* A call that no one numbered is found, or a number is free for it.
LEMMA SlotIs ==
    ASSUME NEW calls \in ByNumbers(ToolCall), NEW tc \in ToolPiece
    PROVE  SlotOf(calls, tc) \in Int
<1> DEFINE known == {s \in DOMAIN calls : calls[s].id = tc.id}
           count == Cardinality(DOMAIN calls)
           free == (count..(2 * count)) \ DOMAIN calls
<1>1. DOMAIN calls \in Numbers /\ DOMAIN calls \subseteq Nat /\ IsFiniteSet(DOMAIN calls) /\ count \in Nat
    BY ByNumber, FS_CardinalityType DEF Numbers
<1>2. known # {} => Min(known) \in Int
    BY <1>1, MinIs
<1>3. Min(free) \in Int
  <2>1. SUFFICES ASSUME count..(2 * count) \subseteq DOMAIN calls PROVE FALSE
    <3>1. free \in SUBSET Nat /\ (free # {} => Min(free) \in free)
      <4>1. free \in SUBSET Nat
          BY <1>1
      <4> QED
          BY <4>1, MinIs
    <3> QED
        BY <3>1
  <2>2. Cardinality(count..(2 * count)) = count + 1
    <3> HIDE DEF count
    <3>1. 2 * count \in Int /\ count \in Int /\ ~(count > 2 * count)
        BY <1>1
    <3>2. Cardinality(count..(2 * count)) = 2 * count - count + 1
        BY <3>1, FS_Interval
    <3> QED
        BY <1>1, <3>2
  <2>3. Cardinality(count..(2 * count)) <= count
    <3>1. Cardinality(count..(2 * count)) <= Cardinality(DOMAIN calls)
        BY <1>1, <2>1, FS_Subset
    <3> QED
        BY <3>1
  <2> HIDE DEF count
  <2> QED
      BY <1>1, <2>2, <2>3
<1>4. calls # <<>> => Max(DOMAIN calls) \in Int
  <2>1. calls # <<>> => DOMAIN calls # {}
      BY NothingNumbered
  <2>2. DOMAIN calls # {} => Max(DOMAIN calls) \in DOMAIN calls
      BY <1>1, GreatestIs
  <2> QED
      BY <1>1, <2>1, <2>2
<1>5. InferredSlot(calls, tc.id) \in Int
  <2>1. InferredSlot(calls, tc.id) \in {Min(known), Min(free), IF calls = <<>> THEN 0 ELSE Max(DOMAIN calls)}
        /\ (tc.id # "" /\ known = {} => InferredSlot(calls, tc.id) \in {Min(free)})
        /\ (tc.id = "" => InferredSlot(calls, tc.id) \in {IF calls = <<>> THEN 0 ELSE Max(DOMAIN calls)})
    <3> HIDE DEF known, free
    <3> QED
        BY Zenon DEF InferredSlot, known, count, free
  <2>2. (IF calls = <<>> THEN 0 ELSE Max(DOMAIN calls)) \in Int
      BY <1>4
  <2> HIDE DEF known, free
  <2> QED
      BY <1>2, <1>3, <2>1, <2>2
<1> QED
    BY <1>5 DEF SlotOf, ToolPiece

LEMMA ToolChunkIs ==
    ASSUME NEW a \in OpenAI, NEW tc \in ToolPiece
    PROVE  CallsOf(a, ToolChunk(a, tc))
<1> DEFINE s == SlotOf(a.calls, tc)
           first == s \notin DOMAIN a.calls
           was == IF first THEN Opened(tc) ELSE a.calls[s]
           newId == IF tc.id = "" THEN was.id ELSE tc.id
           newName == IF tc.name = "" THEN was.name ELSE tc.name
           named == [was EXCEPT !.id = newId, !.name = newName]
           fed == Feed(was.pending, was.inStr, tc.args)
           longer == named.args \o fed.out
           grown == IF tc.args = <<>> THEN named
                    ELSE [named EXCEPT !.args = longer, !.inStr = fed.inStr, !.pending = fed.pending]
           out == (IF first THEN <<CallStart(s, was)>> ELSE <<>>)
                     \o (IF tc.args = <<>> THEN <<>> ELSE <<ArgumentsDelta(s, grown, fed.out)>>)
           later == [a EXCEPT !.calls = Put(a.calls, s, grown)]
<1>1. a.calls \in ByNumbers(ToolCall) /\ tc.id \in Token /\ tc.name \in Token /\ tc.args \in Text
    BY DEF OpenAI, ToolPiece
<1>2. s \in Int
    BY <1>1, SlotIs
<1>3. was \in ToolCall
  <2>1. Opened(tc) \in ToolCall
    <3>1. "fc" \in Token /\ <<>> \in Text
        BY DEF Token, Text
    <3>2. (IF tc.id = "" THEN "fc" ELSE tc.id) \in Token
        BY <1>1, <3>1
    <3> QED
        BY Zenon, <1>1, <3>1, <3>2 DEF Opened, ToolCall
  <2>2. ~first => a.calls[s] \in ToolCall
      BY <1>1, ByNumber
  <2> HIDE DEF s
  <2> QED
      BY Zenon, <2>1, <2>2
<1> HIDE DEF was, s
<1>4. /\ was.id \in Token /\ was.name \in Token /\ was.args \in Text /\ was.pending \in Text
      /\ was.inStr \in BOOLEAN
  <2>1. was.inStr \in BOOLEAN
      BY Zenon, <1>3 DEF ToolCall
  <2> QED
      BY <1>3, <2>1 DEF ToolCall
<1>5. fed.out \in Text /\ fed.inStr \in BOOLEAN /\ fed.pending \in Text
    BY <1>1, <1>4, FeedIs
<1> HIDE DEF fed
<1>6. named \in ToolCall
  <2>1. newId \in Token /\ newName \in Token
      BY <1>1, <1>4
  <2> HIDE DEF newId, newName
  <2> QED
      BY Zenon, <1>3, <2>1 DEF ToolCall
<1>7. longer \in Text
  <2>1. named.args \in Text
    <3> HIDE DEF named
    <3> QED
        BY <1>6 DEF ToolCall
  <2> HIDE DEF named
  <2> QED
      BY <1>5, <2>1 DEF Text
<1> HIDE DEF named, longer
<1>8. grown \in ToolCall
  <2>1. [named EXCEPT !.args = longer, !.inStr = fed.inStr, !.pending = fed.pending] \in ToolCall
      BY Zenon, <1>5, <1>6, <1>7 DEF ToolCall
  <2> QED
      BY Zenon, <1>6, <2>1
<1>9. /\ grown.id \in Token /\ grown.name \in Token /\ grown.args \in Text
  <2> HIDE DEF grown
  <2> QED
      BY <1>8 DEF ToolCall
<1>10. CASE s < 0
  <2>1. ToolChunk(a, tc) = Quiet(a)
      BY <1>10 DEF ToolChunk, s
  <2>2. CallsOf(a, Quiet(a))
      BY Lists DEF CallsOf, Quiet
  <2> QED
      BY <2>1, <2>2
<1>11. CASE ~(s < 0)
  <2>1. s \in Nat
      BY <1>2, <1>11
  <2>2. CallStart(s, was) \in CallEvents /\ ArgumentsDelta(s, grown, fed.out) \in CallEvents
    <3> HIDE DEF grown
    <3> QED
        BY <1>4, <1>5, <1>9, <2>1, CallEventsAre
  <2>3. out \in Seq(CallEvents)
    <3> DEFINE begun == IF first THEN <<CallStart(s, was)>> ELSE <<>>
               told == IF tc.args = <<>> THEN <<>> ELSE <<ArgumentsDelta(s, grown, fed.out)>>
    <3> HIDE DEF grown
    <3>1. begun \in Seq(CallEvents) /\ told \in Seq(CallEvents)
        BY <2>2, Lists
    <3>2. out = begun \o told
        OBVIOUS
    <3> HIDE DEF begun, told, out
    <3> QED
        BY <3>1, <3>2
  <2>4. Put(a.calls, s, grown) \in ByNumbers(ToolCall)
    <3> HIDE DEF grown
    <3> QED
        BY <1>1, <1>8, <2>1, NumberedPut
  <2>5. later \in OpenAI
    <3> HIDE DEF grown
    <3> QED
        BY Zenon, <2>4 DEF OpenAI
  <2>6. later.finish = a.finish /\ later.answer = a.answer
    <3> HIDE DEF grown
    <3> QED
        BY DEF OpenAI
  <2>7. ToolChunk(a, tc) = [a |-> later, out |-> out]
    <3>1. ~(SlotOf(a.calls, tc) < 0)
        BY <1>11 DEF s
    <3> QED
        BY Zenon, <3>1 DEF ToolChunk, s, was, fed, named, longer
  <2> HIDE DEF later, out
  <2>8. CallsOf(a, [a |-> later, out |-> out])
      BY <2>3, <2>5, <2>6 DEF CallsOf
  <2> QED
      BY <2>7, <2>8
<1> QED
    BY <1>10, <1>11

\* What the adapter makes of a chunk, whatever is in it.
Answers(a) ==
    {x \in [a : OpenAI, out : Seq(Spoken)] :
        x.a.finish = a.finish /\ (x.a.answer => a.answer \/ HasWords(x.out))}

\* The steps of the adapter are pairs.
LEMMA Pairs ==
    ASSUME NEW A, NEW B, NEW C, NEW p \in [a : A, out : B], NEW v \in C
    PROVE  /\ [p EXCEPT !.out = v] \in [a : A, out : C]
           /\ [p EXCEPT !.out = v].a = p.a /\ [p EXCEPT !.out = v].out = v
           /\ [p EXCEPT !.a = v] \in [a : C, out : B]
           /\ [p EXCEPT !.a = v].a = v /\ [p EXCEPT !.a = v].out = p.out
<1>1. [p EXCEPT !.out = v] \in [a : A, out : C]
    BY Zenon
<1>2. [p EXCEPT !.a = v] \in [a : C, out : B]
    BY Zenon
<1> QED
    BY <1>1, <1>2

LEMMA SpokenAre == Seq(Words) \subseteq Seq(Spoken) /\ Seq(CallEvents) \subseteq Seq(Spoken)
<1>1. Words \subseteq Spoken
    BY DEF Words, Spoken
<1>2. CallEvents \subseteq Spoken
    BY DEF CallEvents, Spoken
<1> QED
    BY <1>1, <1>2

LEMMA SpokenOn ==
    ASSUME NEW s \in Seq(Spoken), NEW t \in Seq(Spoken)
    PROVE  s \o t \in Seq(Spoken) /\ (HasWords(s) \/ HasWords(t) => HasWords(s \o t))
<1>1. s \o t \in Seq(Spoken) /\ Len(s \o t) = Len(s) + Len(t) /\ Len(s) \in Nat /\ Len(t) \in Nat
    OBVIOUS
<1>2. ASSUME NEW i \in 1..Len(s) PROVE i \in 1..Len(s \o t) /\ (s \o t)[i] = s[i]
    BY <1>1
<1>3. ASSUME NEW i \in 1..Len(t)
      PROVE  Len(s) + i \in 1..Len(s \o t) /\ (s \o t)[Len(s) + i] = t[i]
    BY <1>1
<1> QED
    BY <1>1, <1>2, <1>3 DEF HasWords

LEMMA ToolChunksAre ==
    ASSUME NEW a \in OpenAI, NEW x \in Answers(a), NEW tcs \in Seq(ToolPiece)
    PROVE  /\ ToolChunks(x, tcs)[Len(tcs)] \in Answers(a)
           /\ tcs = <<>> => ToolChunks(x, tcs)[Len(tcs)] = x
<1>1. Len(tcs) \in Nat
    OBVIOUS
<1>2. ASSUME NEW n \in 1..Len(tcs), NEW y \in Answers(a)
      PROVE  Joins(y, ToolChunk(y.a, tcs[n])) \in Answers(a)
  <2>1. y.a \in OpenAI /\ y.out \in Seq(Spoken) /\ y.a.finish = a.finish
        /\ (y.a.answer => a.answer \/ HasWords(y.out))
      BY DEF Answers
  <2> DEFINE z == ToolChunk(y.a, tcs[n])
  <2>2. CallsOf(y.a, z)
    <3>1. tcs[n] \in ToolPiece
        OBVIOUS
    <3> QED
        BY <2>1, <3>1, ToolChunkIs
  <2> HIDE DEF z
  <2>3. z.a \in OpenAI /\ z.out \in Seq(Spoken) /\ z.a.finish = a.finish /\ z.a.answer = y.a.answer
      BY <2>1, <2>2, SpokenAre DEF CallsOf
  <2>4. y.out \o z.out \in Seq(Spoken) /\ (HasWords(y.out) => HasWords(y.out \o z.out))
      BY <2>1, <2>3, SpokenOn
  <2>5. Joins(y, z) \in Answers(a)
      BY <2>1, <2>3, <2>4 DEF Joins, Answers
  <2> QED
      BY <2>5 DEF z
<1>3. /\ \A n \in 0..Len(tcs) : ToolChunks(x, tcs)[n] \in Answers(a)
      /\ ToolChunks(x, tcs)[0] = x
  <2> HIDE DEF Answers
  <2> QED
      BY <1>1, <1>2, ToolChunksIn
<1> QED
    BY <1>1, <1>3

UpChunk == [content : Text, reasoning : Text, calls : Seq(ToolPiece), finish : Token]

\* What a chunk does to what the adapter remembers of the answer.
LEMMA ChunkIs ==
    ASSUME NEW a \in OpenAI, NEW c \in UpChunk
    PROVE  /\ Chunk(a, c).a \in OpenAI /\ Chunk(a, c).out \in Seq(Spoken)
           /\ Chunk(a, c).a.finish = IF c.finish = "" THEN a.finish ELSE c.finish
           /\ c.calls = <<>> =>
                /\ Chunk(a, c).a.calls = a.calls
                /\ Chunk(a, c).a.answer => a.answer \/ HasWords(Chunk(a, c).out)
<1> DEFINE told == Content(a, c.content)
           thought == [told EXCEPT !.out = @ \o Thought(c.reasoning)]
           x == ToolChunks(thought, c.calls)[Len(c.calls)]
<1>1. c.content \in Text /\ c.reasoning \in Text /\ c.calls \in Seq(ToolPiece) /\ c.finish \in Token
    BY DEF UpChunk
<1>2. Speaks(a, told)
    BY <1>1, ContentIs
<1> HIDE DEF told
<1>3. thought \in [a : OpenAI, out : Seq(Words)] /\ thought.a = told.a
      /\ (HasWords(told.out) => HasWords(thought.out))
  <2>1. told.out \in Seq(Words) /\ Thought(c.reasoning) \in Seq(Words)
      BY <1>1, <1>2, ToldIs DEF Speaks
  <2>2. told.out \o Thought(c.reasoning) \in Seq(Words)
      BY <2>1
  <2>3. HasWords(told.out) => HasWords(told.out \o Thought(c.reasoning))
      BY <2>1, SpokenAre, SpokenOn
  <2>4. told \in [a : OpenAI, out : Seq(Words)]
      BY <1>2 DEF Speaks
  <2>5. /\ [told EXCEPT !.out = told.out \o Thought(c.reasoning)] \in [a : OpenAI, out : Seq(Words)]
        /\ [told EXCEPT !.out = told.out \o Thought(c.reasoning)].a = told.a
        /\ [told EXCEPT !.out = told.out \o Thought(c.reasoning)].out = told.out \o Thought(c.reasoning)
      BY <2>2, <2>4, Pairs
  <2> QED
      BY <2>3, <2>5
<1>4. thought \in Answers(a) /\ thought.a.calls = a.calls /\ thought.out \in Seq(Words)
  <2> HIDE DEF thought
  <2>1. thought.a \in OpenAI /\ thought.out \in Seq(Spoken) /\ thought \in [a : OpenAI, out : Seq(Spoken)]
      BY <1>3, SpokenAre
  <2> QED
      BY <1>2, <1>3, <2>1 DEF Answers, Speaks
<1> HIDE DEF thought
<1>5. x \in Answers(a) /\ (c.calls = <<>> => x = thought)
    BY <1>1, <1>4, ToolChunksAre
<1> HIDE DEF x
<1> DEFINE Heard(K) == \E i \in 1..Len(x.out) : x.out[i].kind \in K
           o == x.a.output \/ Heard(EventKinds \ {"message_start"})
           t == x.a.thought \/ Heard({"reasoning_delta"})
           w == x.a.answer \/ Heard({"text_delta", "tool_call_start", "tool_call_arguments_delta"})
           f == IF c.finish = "" THEN x.a.finish ELSE c.finish
           y == [x.a EXCEPT !.output = o, !.thought = t, !.answer = w, !.finish = f]
<1>6. x \in [a : OpenAI, out : Seq(Spoken)] /\ x.a \in OpenAI /\ x.out \in Seq(Spoken)
      /\ x.a.finish = a.finish /\ (x.a.answer => a.answer \/ HasWords(x.out))
    BY <1>5 DEF Answers
<1>7. Chunk(a, c) = [x EXCEPT !.a = y]
  <2>1. Chunk(a, c) = Noted(x, c)
      BY DEF Chunk, x, thought, told
  <2>2. Noted(x, c) = [x EXCEPT !.a = y]
      BY DEF Noted
  <2> QED
      BY Zenon, <2>1, <2>2
<1>8. o \in BOOLEAN /\ t \in BOOLEAN /\ w \in BOOLEAN
    BY Zenon
<1>9. f \in Token /\ f = IF c.finish = "" THEN a.finish ELSE c.finish
    BY <1>1, <1>6 DEF OpenAI
<1>10. c.calls = <<>> => (w => a.answer \/ HasWords(x.out))
  <2>1. c.calls = <<>> => x.out \in Seq(Words)
      BY <1>4, <1>5
  <2>2. \A e \in Words : e.kind \in {"text_delta", "tool_call_start", "tool_call_arguments_delta"} => e.kind = "text_delta"
      BY DEF Words
  <2>3. ASSUME c.calls = <<>>, NEW i \in 1..Len(x.out) PROVE x.out[i] \in Words
      BY <2>1, <2>3
  <2>4. c.calls = <<>> /\ Heard({"text_delta", "tool_call_start", "tool_call_arguments_delta"}) => HasWords(x.out)
      BY <2>2, <2>3 DEF HasWords
  <2> QED
      BY <1>6, <2>4
<1> HIDE DEF o, t, w, f
<1>11. y \in OpenAI
    BY Zenon, <1>6, <1>8, <1>9 DEF OpenAI
<1>12. y.finish = f /\ y.answer = w /\ y.calls = x.a.calls
    BY <1>6 DEF OpenAI
<1>13. Chunk(a, c).a = y /\ Chunk(a, c).out = x.out
  <2> HIDE DEF y
  <2>1. [x EXCEPT !.a = y].a = y /\ [x EXCEPT !.a = y].out = x.out
      BY <1>6, <1>11, Pairs
  <2> QED
      BY <1>7, <2>1
<1>14. c.calls = <<>> => x.a.calls = a.calls
    BY <1>4, <1>5
<1> HIDE DEF y
<1> QED
    BY <1>6, <1>9, <1>10, <1>11, <1>12, <1>13, <1>14

\* What is left of an answer while its calls are closed.
Endings(a) == {x \in Answers(a) : DOMAIN x.a.calls = DOMAIN a.calls}

LEMMA CloseCallIs ==
    ASSUME NEW a \in OpenAI, NEW s \in DOMAIN a.calls
    PROVE  CallsOf(a, CloseCall(a, s)) /\ DOMAIN CloseCall(a, s).a.calls = DOMAIN a.calls
<1> DEFINE was == a.calls[s]
           tail == Flushed(was.pending, was.inStr)
           longer == was.args \o tail
           c == [was EXCEPT !.args = longer, !.pending = <<>>]
           later == [a EXCEPT !.calls[s] = c]
           out == Some(ArgumentsDelta(s, c, tail), tail) \o <<CallDone(s, c)>>
<1>1. a.calls \in ByNumbers(ToolCall)
    BY DEF OpenAI
<1>2. was \in ToolCall /\ s \in Nat
    BY <1>1, ByNumber
<1> HIDE DEF was
<1>3. was.args \in Text /\ was.pending \in Text /\ was.inStr \in BOOLEAN
  <2>1. was.inStr \in BOOLEAN
      BY Zenon, <1>2 DEF ToolCall
  <2> QED
      BY <1>2, <2>1 DEF ToolCall
<1>4. tail \in Text
    BY <1>3, FlushedIs
<1> HIDE DEF tail
<1>5. longer \in Text /\ <<>> \in Text
    BY <1>3, <1>4 DEF Text
<1> HIDE DEF longer
<1>6. c \in ToolCall
    BY Zenon, <1>2, <1>5 DEF ToolCall
<1> HIDE DEF c
<1>7. c.id \in Token /\ c.name \in Token /\ c.args \in Text
    BY <1>6 DEF ToolCall
<1>8. ArgumentsDelta(s, c, tail) \in CallEvents /\ CallDone(s, c) \in CallEvents
    BY <1>2, <1>4, <1>7, CallEventsAre
<1>9. out \in Seq(CallEvents)
  <2>1. Some(ArgumentsDelta(s, c, tail), tail) \in Seq(CallEvents) /\ <<CallDone(s, c)>> \in Seq(CallEvents)
      BY <1>8, Lists DEF Some
  <2> QED
      BY <2>1
<1>10. [a.calls EXCEPT ![s] = c] \in ByNumbers(ToolCall) /\ DOMAIN [a.calls EXCEPT ![s] = c] = DOMAIN a.calls
    BY <1>1, <1>6, NumberedReplace
<1>11. later = [a EXCEPT !.calls = [a.calls EXCEPT ![s] = c]]
    BY DEF OpenAI
<1>12. later \in OpenAI
  <2> DEFINE calls == [a.calls EXCEPT ![s] = c]
  <2>1. calls \in ByNumbers(ToolCall)
      BY <1>10
  <2> HIDE DEF calls
  <2>2. [a EXCEPT !.calls = calls] \in OpenAI
      BY Zenon, <2>1 DEF OpenAI
  <2> QED
      BY <1>11, <2>2 DEF calls
<1>13. later.finish = a.finish /\ later.answer = a.answer /\ DOMAIN later.calls = DOMAIN a.calls
  <2>1. later.calls = [a.calls EXCEPT ![s] = c]
      BY DEF OpenAI
  <2>2. later.finish = a.finish /\ later.answer = a.answer
      BY DEF OpenAI
  <2> QED
      BY <1>10, <2>1, <2>2
<1>14. CloseCall(a, s) = [a |-> later, out |-> out]
    BY Zenon DEF CloseCall, c, tail, longer, was
<1> HIDE DEF later, out
<1> QED
    BY <1>9, <1>12, <1>13, <1>14 DEF CallsOf

LEMMA ClosedAre ==
    ASSUME NEW a \in OpenAI, NEW x \in Endings(a), NEW slots, Len(slots) \in Nat,
           \A i \in 1..Len(slots) : slots[i] \in DOMAIN a.calls
    PROVE  Closing(x, slots)[Len(slots)] \in Endings(a)
<1>1. ASSUME NEW n \in 1..Len(slots), NEW y \in Endings(a)
      PROVE  Joins(y, CloseCall(y.a, slots[n])) \in Endings(a)
  <2>1. y.a \in OpenAI /\ y.out \in Seq(Spoken) /\ y.a.finish = a.finish
        /\ (y.a.answer => a.answer \/ HasWords(y.out)) /\ DOMAIN y.a.calls = DOMAIN a.calls
      BY DEF Answers, Endings
  <2> DEFINE z == CloseCall(y.a, slots[n])
  <2>2. CallsOf(y.a, z) /\ DOMAIN z.a.calls = DOMAIN a.calls
    <3>1. slots[n] \in DOMAIN y.a.calls
        BY <2>1
    <3> QED
        BY <2>1, <3>1, CloseCallIs
  <2> HIDE DEF z
  <2>3. z.a \in OpenAI /\ z.out \in Seq(Spoken) /\ z.a.finish = a.finish /\ z.a.answer = y.a.answer
      BY <2>1, <2>2, SpokenAre DEF CallsOf
  <2>4. y.out \o z.out \in Seq(Spoken) /\ (HasWords(y.out) => HasWords(y.out \o z.out))
      BY <2>1, <2>3, SpokenOn
  <2>5. Joins(y, z) \in Endings(a)
      BY <2>1, <2>2, <2>3, <2>4 DEF Joins, Answers, Endings
  <2> QED
      BY <2>5 DEF z
<1>2. \A n \in 0..Len(slots) : Closing(x, slots)[n] \in Endings(a)
  <2> HIDE DEF Endings
  <2> QED
      BY <1>1, ClosingIn
<1> QED
    BY <1>2

\* An answer that says it has ended has the end last.
Ends(out) == \E told \in Seq(Spoken), mark \in Token : out = Append(told, MessageDone(mark))
Account == {out \in Seq(OutputEvent) : out \in Seq(Spoken) \/ Ends(out)}

LEMMA EndedAccount ==
    ASSUME NEW told \in Seq(Spoken), NEW mark \in Token
    PROVE  /\ Append(told, MessageDone(mark)) \in Account
           /\ HasWords(told) => HasWords(Append(told, MessageDone(mark)))
<1>1. told \in Seq(OutputEvent) /\ Len(told) \in Nat
    BY DEF Spoken
<1>2. Append(told, MessageDone(mark)) \in Seq(OutputEvent)
    BY <1>1, EventsAre
<1>3. ASSUME NEW i \in 1..Len(told)
      PROVE  i \in 1..Len(Append(told, MessageDone(mark))) /\ Append(told, MessageDone(mark))[i] = told[i]
    BY <1>1
<1> QED
    BY <1>2, <1>3 DEF Account, Ends, HasWords

LEMMA FinishIs ==
    ASSUME NEW a \in OpenAI
    PROVE  /\ Finish(a).a \in OpenAI /\ Finish(a).out \in Account
           /\ Finish(a).a.finish = a.finish
           /\ Finish(a).a.calls # <<>> => a.calls # <<>>
           /\ Finish(a).a.answer => a.answer \/ HasWords(Finish(a).out)
           /\ Truncated(Finish(a).a) => Finish(a).out \in Seq(Spoken)
<1> DEFINE slots == Ascending(DOMAIN a.calls)
           rest == Remainder(a)
           closed == Closing(rest, slots)[Len(slots)]
           reason == IF a.finish = "" THEN "stop" ELSE a.finish
<1>1. a.calls \in ByNumbers(ToolCall) /\ a.finish \in Token
    BY DEF OpenAI
<1>2. rest \in Endings(a)
    BY RemainderIs, SpokenAre DEF Speaks, Answers, Endings
<1>3. Len(slots) \in Nat /\ \A i \in 1..Len(slots) : slots[i] \in DOMAIN a.calls
  <2>1. DOMAIN a.calls \in Numbers
      BY <1>1, ByNumber DEF Numbers
  <2> QED
      BY <2>1, AscendingIs
<1>4. closed \in Endings(a)
  <2> HIDE DEF slots, rest
  <2> QED
      BY <1>2, <1>3, ClosedAre
<1> HIDE DEF closed
<1>5. /\ closed \in [a : OpenAI, out : Seq(Spoken)] /\ closed.a \in OpenAI /\ closed.out \in Seq(Spoken)
      /\ closed.a.finish = a.finish /\ DOMAIN closed.a.calls = DOMAIN a.calls
      /\ closed.a.answer => a.answer \/ HasWords(closed.out)
    BY <1>4 DEF Answers, Endings
<1>6. closed.a.calls # <<>> => a.calls # <<>>
  <2>1. closed.a.calls \in ByNumbers(ToolCall)
      BY <1>5 DEF OpenAI
  <2> QED
      BY <1>1, <1>5, <2>1, NothingNumbered
<1>7. CASE Truncated(closed.a)
  <2>1. Finish(a) = closed
      BY <1>7 DEF Finish, closed, slots, rest
  <2>2. closed.out \in Account
      BY <1>5 DEF Account, Spoken
  <2> QED
      BY <1>5, <1>6, <2>1, <2>2
<1>8. CASE ~Truncated(closed.a)
  <2> DEFINE out == Append(closed.out, MessageDone(reason))
  <2>1. reason \in Token
      BY <1>1 DEF Token
  <2> HIDE DEF reason
  <2>2. out \in Account /\ (HasWords(closed.out) => HasWords(out))
      BY <1>5, <2>1, EndedAccount
  <2>3. Finish(a) = [closed EXCEPT !.out = out]
      BY <1>8 DEF Finish, closed, slots, rest, reason
  <2> HIDE DEF out
  <2>4. Finish(a).a = closed.a /\ Finish(a).out = out
    <3>1. [closed EXCEPT !.out = out].a = closed.a /\ [closed EXCEPT !.out = out].out = out
        BY <1>5, Pairs
    <3> QED
        BY <2>3, <3>1
  <2> QED
      BY <1>5, <1>6, <1>8, <2>2, <2>4
<1> QED
    BY <1>7, <1>8

-----------------------------------------------------------------------------
(* The adapter of an Anthropic upstream.                                     *)
UpBlock == [type : Token, id : Token, name : Token, args : Text]
Slot == Nat
Anthropic ==
    [blocks : ByNumbers(UpBlock), slots : ByNumbers(Slot), finish : Token,
     delta : BOOLEAN, stop : BOOLEAN, emitted : BOOLEAN]
UpEvent ==
    {e \in [kind : {"message_start", "content_block_start", "text_delta", "thinking_delta", "signature_delta",
                    "input_json_delta", "content_block_stop", "message_delta", "message_stop"},
            block : Nat, type : Token, id : Token, name : Token, body : Text, mark : Token] :
        e.kind = "message_delta" => e.mark \in {""} \cup DOMAIN Reasons}

\* n is m with other blocks and slots.
GoesOn(m, n) == n \in Anthropic /\ n.delta = m.delta /\ n.stop = m.stop
ReadsOn(m, x) == GoesOn(m, x.m) /\ x.out \in Seq(Spoken)

LEMMA DoesIs ==
    ASSUME NEW m \in Anthropic, NEW n, GoesOn(m, n), NEW evs \in Seq(Spoken)
    PROVE  ReadsOn(m, Does(n, evs))
<1> DEFINE b == n.emitted \/ evs # <<>>
           y == [n EXCEPT !.emitted = b]
<1>1. n \in Anthropic
    BY DEF GoesOn
<1>2. b \in BOOLEAN
    OBVIOUS
<1>3. Does(n, evs) = [m |-> y, out |-> evs]
    BY DEF Does
<1> HIDE DEF b
<1>4. y \in Anthropic
    BY Zenon, <1>1, <1>2 DEF Anthropic
<1>5. y.delta = n.delta /\ y.stop = n.stop
    BY <1>1 DEF Anthropic
<1> HIDE DEF y
<1> QED
    BY <1>3, <1>4, <1>5 DEF ReadsOn, GoesOn

LEMMA SlottedIs ==
    ASSUME NEW m \in Anthropic, NEW b \in Nat
    PROVE  GoesOn(m, Slotted(m, b)) /\ Slotted(m, b).slots[b] \in Nat
<1>1. m.slots \in ByNumbers(Slot) /\ Cardinality(DOMAIN m.slots) \in Nat
  <2>1. m.slots \in ByNumbers(Slot)
      BY DEF Anthropic
  <2> QED
      BY <2>1, ByNumber, FS_CardinalityType
<1>2. CASE b \in DOMAIN m.slots
  <2>1. Slotted(m, b) = m
      BY <1>2 DEF Slotted
  <2>2. m.slots[b] \in Nat
      BY <1>1, <1>2, ByNumber DEF Slot
  <2> QED
      BY <2>1, <2>2 DEF GoesOn
<1>3. CASE b \notin DOMAIN m.slots
  <2> DEFINE slots == Put(m.slots, b, Cardinality(DOMAIN m.slots))
             n == [m EXCEPT !.slots = slots]
  <2>1. slots \in ByNumbers(Slot) /\ slots[b] \in Nat
    <3> DEFINE c == Cardinality(DOMAIN m.slots)
    <3>1. c \in Slot /\ c \in Nat
        BY <1>1 DEF Slot
    <3> HIDE DEF c
    <3>2. m.slots \in ByNumbers(Slot)
        BY <1>1
    <3>3. ASSUME NEW f \in ByNumbers(Slot), NEW v \in Slot
          PROVE  Put(f, b, v) \in ByNumbers(Slot) /\ Put(f, b, v)[b] = v
      <4>1. Put(f, b, v) \in ByNumbers(Slot)
          BY NumberedPut
      <4>2. Put(f, b, v)[b] = v
          BY DEF Put
      <4> QED
          BY <4>1, <4>2
    <3>4. Put(m.slots, b, c) \in ByNumbers(Slot) /\ Put(m.slots, b, c)[b] = c
        BY Zenon, <3>1, <3>2, <3>3
    <3> QED
        BY <3>1, <3>4 DEF c
  <2>2. Slotted(m, b) = n
      BY <1>3 DEF Slotted
  <2> HIDE DEF slots
  <2>3. n \in Anthropic
      BY Zenon, <2>1 DEF Anthropic
  <2>4. n.delta = m.delta /\ n.stop = m.stop /\ n.slots = slots
      BY DEF Anthropic
  <2> QED
      BY <2>1, <2>2, <2>3, <2>4 DEF GoesOn
<1> QED
    BY <1>2, <1>3

LEMMA BlocksPut ==
    ASSUME NEW m \in Anthropic, NEW b \in Nat, NEW block \in UpBlock
    PROVE  /\ GoesOn(m, [m EXCEPT !.blocks = Put(m.blocks, b, block)])
           /\ [m EXCEPT !.blocks = Put(m.blocks, b, block)].slots = m.slots
<1> DEFINE blocks == Put(m.blocks, b, block)
           n == [m EXCEPT !.blocks = blocks]
<1>1. m.blocks \in ByNumbers(UpBlock)
    BY DEF Anthropic
<1>2. blocks \in ByNumbers(UpBlock)
    BY <1>1, NumberedPut
<1> HIDE DEF blocks
<1>3. n \in Anthropic
    BY Zenon, <1>2 DEF Anthropic
<1>4. n.delta = m.delta /\ n.stop = m.stop /\ n.slots = m.slots
    BY DEF Anthropic
<1> QED
    BY <1>3, <1>4 DEF GoesOn, blocks

LEMMA BlockIs ==
    ASSUME NEW m \in Anthropic, NEW b
    PROVE  Block(m, b) \in UpBlock
<1>1. m.blocks \in ByNumbers(UpBlock)
    BY DEF Anthropic
<1>2. UnknownBlock \in UpBlock
    BY DEF UnknownBlock, UpBlock, Token, Text
<1>3. b \in DOMAIN m.blocks => m.blocks[b] \in UpBlock
    BY <1>1, ByNumber
<1> QED
    BY <1>2, <1>3 DEF Block

LEMMA BlockStartIs ==
    ASSUME NEW m \in Anthropic, NEW e \in UpEvent
    PROVE  ReadsOn(m, BlockStart(m, e))
<1> DEFINE block == [type |-> e.type, id |-> e.id, name |-> e.name, args |-> <<>>]
           known == [m EXCEPT !.blocks = Put(m.blocks, e.block, block)]
           n == Slotted(known, e.block)
<1>1. e.block \in Nat /\ e.type \in Token /\ e.id \in Token /\ e.name \in Token /\ <<>> \in Text
  <2>1. <<>> \in Text
      BY DEF Text
  <2> QED
      BY <2>1 DEF UpEvent
<1>2. block \in UpBlock /\ block.id \in Token /\ block.name \in Token /\ block.args \in Text
    BY <1>1 DEF UpBlock
<1> HIDE DEF block
<1>3. GoesOn(m, known)
    BY <1>1, <1>2, BlocksPut
<1> HIDE DEF known
<1>4. GoesOn(m, n) /\ n.slots[e.block] \in Nat
  <2>1. known \in Anthropic
      BY <1>3 DEF GoesOn
  <2>2. GoesOn(known, n) /\ n.slots[e.block] \in Nat
      BY <1>1, <2>1, SlottedIs
  <2> QED
      BY <1>3, <2>2 DEF GoesOn
<1> HIDE DEF n
<1>5. <<CallStart(n.slots[e.block], block)>> \in Seq(Spoken) /\ <<>> \in Seq(Spoken)
  <2>1. CallStart(n.slots[e.block], block) \in CallEvents
      BY <1>1, <1>2, <1>4, CallEventsAre
  <2> QED
      BY <2>1, SpokenAre, Lists
<1>6. ReadsOn(m, Does(n, <<CallStart(n.slots[e.block], block)>>)) /\ ReadsOn(m, Does(known, <<>>))
    BY <1>3, <1>4, <1>5, DoesIs
<1> QED
    BY <1>6 DEF BlockStart, n, known, block

LEMMA JsonOfIs ==
    ASSUME NEW m \in Anthropic, NEW e \in UpEvent
    PROVE  ReadsOn(m, JsonOf(m, e))
<1> DEFINE was == Block(m, e.block)
           args == was.args \o e.body
           block == [was EXCEPT !.args = args]
           slotted == Slotted(m, e.block)
           n == [slotted EXCEPT !.blocks = Put(slotted.blocks, e.block, block)]
<1>1. e.block \in Nat /\ e.body \in Text
    BY DEF UpEvent
<1>2. was \in UpBlock
    BY BlockIs
<1> HIDE DEF was
<1>3. args \in Text
  <2>1. was.args \in Text
      BY <1>2 DEF UpBlock
  <2> QED
      BY <1>1, <2>1 DEF Text
<1> HIDE DEF args
<1>4. block \in UpBlock
    BY Zenon, <1>2, <1>3 DEF UpBlock
<1> HIDE DEF block
<1>5. block.id \in Token /\ block.name \in Token /\ block.args \in Text
    BY <1>4 DEF UpBlock
<1>6. GoesOn(m, slotted) /\ slotted.slots[e.block] \in Nat
    BY <1>1, SlottedIs
<1> HIDE DEF slotted
<1>7. GoesOn(m, n) /\ n.slots[e.block] \in Nat
  <2>1. slotted \in Anthropic
      BY <1>6 DEF GoesOn
  <2>2. GoesOn(slotted, n) /\ n.slots = slotted.slots
      BY <1>1, <1>4, <2>1, BlocksPut
  <2> HIDE DEF n
  <2> QED
      BY <1>6, <2>2 DEF GoesOn
<1> HIDE DEF n
<1>8. <<ArgumentsDelta(n.slots[e.block], block, e.body)>> \in Seq(Spoken) /\ <<>> \in Seq(Spoken)
  <2>1. ArgumentsDelta(n.slots[e.block], block, e.body) \in CallEvents
      BY <1>1, <1>5, <1>7, CallEventsAre
  <2> QED
      BY <2>1, SpokenAre, Lists
<1>9. ReadsOn(m, Does(n, <<ArgumentsDelta(n.slots[e.block], block, e.body)>>))
    BY <1>7, <1>8, DoesIs
<1>10. ReadsOn(m, Does(m, <<>>))
    BY <1>8, DoesIs DEF GoesOn
<1> QED
    BY <1>9, <1>10 DEF JsonOf, n, slotted, block, args, was

LEMMA BlockStopIs ==
    ASSUME NEW m \in Anthropic, NEW e \in UpEvent
    PROVE  ReadsOn(m, BlockStop(m, e))
<1> DEFINE block == Block(m, e.block)
           n == Slotted(m, e.block)
<1>1. e.block \in Nat
    BY DEF UpEvent
<1>2. block.id \in Token /\ block.name \in Token /\ block.args \in Text
    BY BlockIs DEF UpBlock
<1>3. GoesOn(m, n) /\ n.slots[e.block] \in Nat
    BY <1>1, SlottedIs
<1> HIDE DEF block, n
<1>4. <<CallDone(n.slots[e.block], block)>> \in Seq(Spoken) /\ <<>> \in Seq(Spoken)
  <2>1. CallDone(n.slots[e.block], block) \in CallEvents
      BY <1>2, <1>3, CallEventsAre, Lists
  <2> QED
      BY <2>1, SpokenAre, Lists
<1>5. ReadsOn(m, Does(n, <<CallDone(n.slots[e.block], block)>>)) /\ ReadsOn(m, Does(m, <<>>))
    BY <1>3, <1>4, DoesIs DEF GoesOn
<1> QED
    BY <1>5 DEF BlockStop, n, block

\* What an event does to what the adapter remembers of the message.
LEMMA HandledIs ==
    ASSUME NEW m \in Anthropic, NEW e \in UpEvent
    PROVE  /\ Handled(m, e).m \in Anthropic /\ Handled(m, e).out \in Seq(Spoken)
           /\ e.kind # "message_delta" => Handled(m, e).m.delta = m.delta
           /\ e.kind # "message_stop" => Handled(m, e).m.stop = m.stop
<1>1. e.body \in Text /\ e.mark \in Token
    BY DEF UpEvent
<1>2. GoesOn(m, m) /\ <<>> \in Seq(Spoken)
    BY DEF GoesOn
<1>3. MessageStart \in Spoken /\ Blank \in Spoken
    BY EventsAre DEF Spoken
<1>4. ReadsOn(m, Does(m, <<>>)) /\ ReadsOn(m, Does(m, <<MessageStart>>))
    BY <1>2, <1>3, DoesIs, Lists
<1>5. ReadsOn(m, TextOf(m, e))
  <2>1. e.body # <<>> => TextDelta(e.body) \in Spoken
      BY <1>1, EventsAre DEF Spoken
  <2>2. e.body # <<>> => ReadsOn(m, Does(m, <<TextDelta(e.body)>>))
      BY <1>2, <2>1, DoesIs, Lists
  <2> QED
      BY <1>4, <2>2 DEF TextOf
<1>6. ReadsOn(m, ThinkingOf(m, e))
  <2>1. Reasoning(e.body) \in Spoken
      BY <1>1, EventsAre DEF Spoken, Words
  <2>2. ReadsOn(m, Does(m, <<Reasoning(e.body)>>))
      BY <1>2, <2>1, DoesIs, Lists
  <2> QED
      BY <1>4, <2>2 DEF ThinkingOf
<1>7. ReadsOn(m, SignatureOf(m, e))
  <2>1. Signature(e.mark) \in Spoken
      BY <1>1, EventsAre DEF Spoken
  <2>2. ReadsOn(m, Does(m, <<Signature(e.mark)>>))
      BY <1>2, <2>1, DoesIs, Lists
  <2> QED
      BY <1>4, <2>2 DEF SignatureOf
<1>8. e.kind = "message_delta" =>
        /\ MessageDelta(m, e).m \in Anthropic /\ MessageDelta(m, e).out \in Seq(Spoken)
        /\ MessageDelta(m, e).m.stop = m.stop
  <2> SUFFICES ASSUME e.kind = "message_delta" PROVE
        /\ MessageDelta(m, e).m \in Anthropic /\ MessageDelta(m, e).out \in Seq(Spoken)
        /\ MessageDelta(m, e).m.stop = m.stop
      OBVIOUS
  <2> DEFINE f == IF e.mark = "" THEN m.finish ELSE Reasons[e.mark]
             n == [m EXCEPT !.delta = TRUE, !.finish = f]
  <2>1. f \in Token
    <3>1. e.mark \in {""} \cup {"tool_use", "max_tokens", "end_turn"} /\ m.finish \in Token
        BY DEF UpEvent, Reasons, Anthropic
    <3>2. Reasons["tool_use"] = "tool_calls" /\ Reasons["max_tokens"] = "length" /\ Reasons["end_turn"] = "stop"
        BY DEF Reasons
    <3> QED
        BY <3>1, <3>2 DEF Token
  <2> HIDE DEF f
  <2>2. n \in Anthropic
      BY Zenon, <2>1 DEF Anthropic
  <2>3. n.stop = m.stop
      BY DEF Anthropic
  <2>4. MessageDelta(m, e) = Does(n, <<Blank>>)
      BY DEF MessageDelta, f
  <2> HIDE DEF n
  <2>5. ReadsOn(n, Does(n, <<Blank>>))
      BY <1>3, <2>2, DoesIs, Lists DEF GoesOn
  <2> QED
      BY <2>3, <2>4, <2>5 DEF ReadsOn, GoesOn
<1>9. /\ Does([m EXCEPT !.stop = TRUE], <<>>).m \in Anthropic /\ Does([m EXCEPT !.stop = TRUE], <<>>).out \in Seq(Spoken)
      /\ Does([m EXCEPT !.stop = TRUE], <<>>).m.delta = m.delta
  <2> DEFINE n == [m EXCEPT !.stop = TRUE]
  <2>1. n \in Anthropic
      BY Zenon DEF Anthropic
  <2>2. n.delta = m.delta
      BY DEF Anthropic
  <2> HIDE DEF n
  <2>3. ReadsOn(n, Does(n, <<>>))
      BY <1>2, <2>1, DoesIs DEF GoesOn
  <2>4. Does(n, <<>>).m \in Anthropic /\ Does(n, <<>>).out \in Seq(Spoken) /\ Does(n, <<>>).m.delta = m.delta
      BY <2>2, <2>3 DEF ReadsOn, GoesOn
  <2> QED
      BY <2>4 DEF n
<1>10. ReadsOn(m, BlockStart(m, e)) /\ ReadsOn(m, JsonOf(m, e)) /\ ReadsOn(m, BlockStop(m, e))
    BY BlockStartIs, JsonOfIs, BlockStopIs
<1>11. CASE e.kind = "message_delta"
  <2>1. Handled(m, e) \in {MessageDelta(m, e)}
      BY Zenon, <1>11 DEF Handled
  <2> QED
      BY <1>8, <1>11, <2>1
<1>12. CASE e.kind = "message_stop"
  <2>1. Handled(m, e) = Does([m EXCEPT !.stop = TRUE], <<>>)
      BY <1>12 DEF Handled
  <2> QED
      BY <1>9, <1>12, <2>1
<1>13. CASE e.kind \notin {"message_delta", "message_stop"}
  <2>1. e.kind \in {"message_start", "content_block_start", "text_delta", "thinking_delta", "signature_delta",
                    "input_json_delta", "content_block_stop"}
      BY <1>13 DEF UpEvent
  <2>2. Handled(m, e) \in {Does(m, <<MessageStart>>), BlockStart(m, e), TextOf(m, e), ThinkingOf(m, e),
                          SignatureOf(m, e), JsonOf(m, e), BlockStop(m, e)}
      BY Zenon, <2>1 DEF Handled
  <2>3. ReadsOn(m, Handled(m, e))
      BY <1>4, <1>5, <1>6, <1>7, <1>10, <2>2
  <2> QED
      BY <1>13, <2>3 DEF ReadsOn, GoesOn
<1> QED
    BY <1>11, <1>12, <1>13

-----------------------------------------------------------------------------
(* The renderers.                                                            *)
OpenKinds == {"role", "text", "thinking", "call", "arguments", "added", "done", "item done",
              "signature", "start", "stop", "created", "message_start"}
FrameKinds == OpenKinds \cup EndFrames
Frame == [kind : FrameKinds, at : Int, body : Text]
Item == [id : Token, name : Token, args : Text, at : Nat, sent : Text]
BlockPlaces == Nat \cup {None}
Renderer ==
    [frames : Seq(Frame), over : BOOLEAN, done : BOOLEAN, finish : Token, next : Nat,
     text : Text, think : Text, textAt : BlockPlaces, thinkAt : BlockPlaces,
     sig : Token, headers : SUBSET Nat, calls : ByNumbers(Item)]

\* x has the frames of r and behind them others, of the kinds in K.
Extends(r, x, K) ==
    /\ x \in Renderer
    /\ Len(r.frames) <= Len(x.frames)
    /\ \A i \in 1..Len(r.frames) : x.frames[i] = r.frames[i]
    /\ \A i \in (Len(r.frames) + 1)..Len(x.frames) : x.frames[i].kind \in K
HasText(r) == \E i \in 1..Len(r.frames) : r.frames[i].kind = "text" /\ r.frames[i].body # <<>>
NoEnd(r) == \A i \in 1..Len(r.frames) : r.frames[i].kind \notin EndFrames

LEMMA ExtendsOn ==
    ASSUME NEW r \in Renderer, NEW x, NEW y, NEW K, Extends(r, x, K), Extends(x, y, K)
    PROVE  Extends(r, y, K)
<1>1. Len(r.frames) \in Nat /\ Len(x.frames) \in Nat /\ Len(y.frames) \in Nat
  <2>1. r.frames \in Seq(Frame) /\ x.frames \in Seq(Frame) /\ y.frames \in Seq(Frame)
      BY DEF Extends, Renderer
  <2> QED
      BY <2>1
<1>2. /\ y \in Renderer
      /\ Len(r.frames) <= Len(x.frames) /\ Len(x.frames) <= Len(y.frames)
      /\ \A i \in 1..Len(r.frames) : x.frames[i] = r.frames[i]
      /\ \A i \in 1..Len(x.frames) : y.frames[i] = x.frames[i]
      /\ \A i \in (Len(r.frames) + 1)..Len(x.frames) : x.frames[i].kind \in K
      /\ \A i \in (Len(x.frames) + 1)..Len(y.frames) : y.frames[i].kind \in K
    BY DEF Extends
<1>3. ASSUME NEW i \in 1..Len(r.frames) PROVE y.frames[i] = r.frames[i]
    BY <1>1, <1>2
<1>4. ASSUME NEW i \in (Len(r.frames) + 1)..Len(y.frames) PROVE y.frames[i].kind \in K
  <2>1. CASE i <= Len(x.frames)
      BY <1>1, <1>2, <2>1
  <2>2. CASE ~(i <= Len(x.frames))
      BY <1>1, <1>2, <2>2
  <2> QED
      BY <2>1, <2>2
<1> QED
    BY <1>1, <1>2, <1>3, <1>4 DEF Extends

LEMMA ExtendsMore ==
    ASSUME NEW r, NEW x, NEW K, NEW L, K \subseteq L, Extends(r, x, K)
    PROVE  Extends(r, x, L)
BY DEF Extends

LEMMA ExtendsKeeps ==
    ASSUME NEW r \in Renderer, NEW x, NEW K, Extends(r, x, K)
    PROVE  /\ HasText(r) => HasText(x)
           /\ K = OpenKinds /\ NoEnd(r) => NoEnd(x)
<1>1. Len(r.frames) \in Nat /\ Len(x.frames) \in Nat
  <2>1. r.frames \in Seq(Frame) /\ x.frames \in Seq(Frame)
      BY DEF Extends, Renderer
  <2> QED
      BY <2>1
<1>2. ASSUME NEW i \in 1..Len(r.frames) PROVE i \in 1..Len(x.frames) /\ x.frames[i] = r.frames[i]
    BY <1>1 DEF Extends
<1>3. OpenKinds \cap EndFrames = {}
    BY DEF OpenKinds, EndFrames
<1>4. ASSUME K = OpenKinds, NoEnd(r), NEW i \in 1..Len(x.frames) PROVE x.frames[i].kind \notin EndFrames
  <2>1. i \in 1..Len(r.frames) \/ i \in (Len(r.frames) + 1)..Len(x.frames)
      BY <1>1
  <2> QED
      BY <1>2, <1>3, <1>4, <2>1 DEF Extends, NoEnd
<1>5. HasText(r) => HasText(x)
    BY <1>2 DEF HasText
<1> QED
    BY <1>4, <1>5 DEF NoEnd

LEMMA SameFrames ==
    ASSUME NEW r \in Renderer, NEW x \in Renderer, x.frames = r.frames, NEW K
    PROVE  Extends(r, x, K)
<1>1. Len(r.frames) \in Nat
  <2>1. r.frames \in Seq(Frame)
      BY DEF Renderer
  <2> QED
      BY <2>1
<1> QED
    BY <1>1 DEF Extends

LEMMA EmitIs ==
    ASSUME NEW r \in Renderer, NEW kind \in FrameKinds, NEW at \in Int, NEW body \in Text
    PROVE  LET x == Emit(r, kind, at, body) IN
           /\ x \in Renderer
           /\ \A K : kind \in K => Extends(r, x, K)
           /\ kind = "text" /\ body # <<>> => HasText(x)
           /\ x.over = r.over /\ x.done = r.done /\ x.finish = r.finish /\ x.next = r.next
           /\ x.text = r.text /\ x.think = r.think /\ x.textAt = r.textAt /\ x.thinkAt = r.thinkAt
           /\ x.sig = r.sig /\ x.headers = r.headers /\ x.calls = r.calls
<1> DEFINE f == [kind |-> kind, at |-> at, body |-> body]
           framed == Append(r.frames, f)
           x == [r EXCEPT !.frames = framed]
<1>1. f \in Frame /\ r.frames \in Seq(Frame)
    BY DEF Frame, Renderer
<1>2. f.kind = kind /\ f.body = body
    OBVIOUS
<1> HIDE DEF f
<1>3. /\ framed \in Seq(Frame) /\ Len(r.frames) \in Nat /\ Len(framed) = Len(r.frames) + 1
      /\ framed[Len(r.frames) + 1] = f
      /\ \A i \in 1..Len(r.frames) : framed[i] = r.frames[i]
    BY <1>1
<1>4. x \in Renderer
  <2> HIDE DEF framed
  <2> QED
      BY Zenon, <1>3 DEF Renderer
<1>5. /\ x.frames = framed
      /\ x.over = r.over /\ x.done = r.done /\ x.finish = r.finish /\ x.next = r.next
      /\ x.text = r.text /\ x.think = r.think /\ x.textAt = r.textAt /\ x.thinkAt = r.thinkAt
      /\ x.sig = r.sig /\ x.headers = r.headers /\ x.calls = r.calls
  <2> HIDE DEF framed
  <2> QED
      BY DEF Renderer
<1>6. Emit(r, kind, at, body) = x
    BY DEF Emit, f
<1> HIDE DEF x, framed
<1>7. ASSUME NEW K, kind \in K PROVE Extends(r, x, K)
  <2>1. ASSUME NEW i \in (Len(r.frames) + 1)..Len(x.frames) PROVE x.frames[i].kind \in K
    <3>1. i = Len(r.frames) + 1
        BY <1>3, <1>5
    <3>2. x.frames[i] = f
        BY <1>3, <1>5, <3>1
    <3> QED
        BY <1>2, <1>7, <3>2
  <2> QED
      BY <1>3, <1>4, <1>5, <2>1 DEF Extends
<1>8. kind = "text" /\ body # <<>> => HasText(x)
  <2>1. Len(r.frames) + 1 \in 1..Len(x.frames) /\ x.frames[Len(r.frames) + 1] = f
      BY <1>3, <1>5
  <2> QED
      BY <1>2, <2>1 DEF HasText
<1> QED
    BY <1>4, <1>5, <1>6, <1>7, <1>8

\* While the answer goes on: new frames, none of them an end.
Draws(r, x) == Extends(r, x, OpenKinds) /\ x.over = r.over
\* What a renderer has to do with an event that is not the end.
Draw(r, e, x) == Draws(r, x) /\ (e.kind = "text_delta" => HasText(x))

LEMMA DrawsOn ==
    ASSUME NEW r \in Renderer, NEW x, NEW y, Draws(r, x), Draws(x, y)
    PROVE  Draws(r, y)
BY ExtendsOn DEF Draws

LEMMA DrawsStill ==
    ASSUME NEW r \in Renderer, NEW x \in Renderer, x.frames = r.frames, x.over = r.over
    PROVE  Draws(r, x)
BY SameFrames DEF Draws

LEMMA DrawsOne ==
    ASSUME NEW r \in Renderer, NEW kind \in OpenKinds, NEW at \in Int, NEW body \in Text
    PROVE  LET x == Emit(r, kind, at, body) IN
           /\ Draws(r, x) /\ x \in Renderer
           /\ kind = "text" /\ body # <<>> => HasText(x)
           /\ x.next = r.next
           /\ x.text = r.text /\ x.think = r.think /\ x.textAt = r.textAt /\ x.thinkAt = r.thinkAt
           /\ x.sig = r.sig /\ x.headers = r.headers /\ x.calls = r.calls
<1>1. kind \in FrameKinds
    BY DEF FrameKinds
<1> QED
    BY <1>1, EmitIs DEF Draws

LEMMA SpokenIs ==
    ASSUME NEW e \in Spoken
    PROVE  /\ e.slot \in Nat /\ e.id \in Token /\ e.name \in Token /\ e.mark \in Token
           /\ e.body \in Text /\ e.whole \in Text
           /\ e.kind # "message_done" /\ (e.kind = "text_delta" => e.body # <<>>)
BY DEF Spoken, OutputEvent

\* Frame kinds and short bodies.
LEMMA Bodied ==
    /\ <<>> \in Text /\ \A a \in Token : <<a>> \in Text
    /\ \A a \in Token, b \in Token : <<a, b>> \in Text
    /\ 0 \in Int
BY Lists DEF Text

LEMMA ChatCallIs ==
    ASSUME NEW r \in Renderer, NEW e \in Spoken
    PROVE  Draws(r, ChatCall(r, e))
<1> DEFINE headers == r.headers \cup {e.slot}
           s == [r EXCEPT !.headers = headers]
<1>1. headers \in SUBSET Nat
    BY SpokenIs DEF Renderer
<1> HIDE DEF headers
<1>2. s \in Renderer
    BY Zenon, <1>1 DEF Renderer
<1>3. s.frames = r.frames /\ s.over = r.over
    BY DEF Renderer
<1>4. ChatCall(r, e) = Emit(s, "call", e.slot, <<e.id, e.name>>)
    BY DEF ChatCall, headers
<1> HIDE DEF s
<1>5. <<e.id, e.name>> \in Text /\ e.slot \in Int /\ "call" \in OpenKinds
    BY SpokenIs, Bodied DEF OpenKinds
<1>6. Draws(s, Emit(s, "call", e.slot, <<e.id, e.name>>))
    BY <1>2, <1>5, DrawsOne
<1>7. Draws(r, s)
    BY <1>2, <1>3, DrawsStill
<1> QED
    BY <1>4, <1>6, <1>7, DrawsOn

LEMMA DrawsNothing ==
    ASSUME NEW r \in Renderer
    PROVE  Draws(r, r)
BY DrawsStill

LEMMA ChatIs ==
    ASSUME NEW r \in Renderer, NEW e \in Spoken
    PROVE  Draw(r, e, Chat(r, e))
<1>1. /\ {"role", "text", "thinking", "arguments"} \subseteq OpenKinds /\ 0 \in Int /\ e.slot \in Int
      /\ <<>> \in Text /\ e.body \in Text
    BY SpokenIs, Bodied DEF OpenKinds
<1>2. Draws(r, Emit(r, "role", 0, <<>>)) /\ Draws(r, Emit(r, "thinking", 0, e.body))
    BY <1>1, DrawsOne
<1>3. Draws(r, Emit(r, "text", 0, e.body)) /\ (e.kind = "text_delta" => HasText(Emit(r, "text", 0, e.body)))
    BY <1>1, DrawsOne, SpokenIs
<1>4. Draws(r, ChatCall(r, e))
    BY ChatCallIs
<1>5. Draws(r, ChatArguments(r, e))
  <2> DEFINE s == IF e.slot \in r.headers THEN r ELSE ChatCall(r, e)
  <2>1. Draws(r, s)
      BY <1>4, DrawsNothing
  <2> HIDE DEF s
  <2>2. Draws(s, Emit(s, "arguments", e.slot, e.body))
    <3>1. s \in Renderer
        BY <2>1 DEF Draws, Extends
    <3> QED
        BY <1>1, <3>1, DrawsOne
  <2>3. ChatArguments(r, e) = Emit(s, "arguments", e.slot, e.body)
      BY DEF ChatArguments, s
  <2> QED
      BY <2>1, <2>2, <2>3, DrawsOn
<1>6. CASE e.kind = "text_delta"
  <2>1. Chat(r, e) \in {Emit(r, "text", 0, e.body)}
      BY Zenon, <1>6 DEF Chat
  <2> QED
      BY <1>3, <1>6, <2>1 DEF Draw
<1>7. CASE e.kind # "text_delta"
  <2>1. e.kind # "message_done"
      BY SpokenIs
  <2>2. Chat(r, e) \in {Emit(r, "role", 0, <<>>), Emit(r, "thinking", 0, e.body), ChatCall(r, e),
                        ChatArguments(r, e), r}
      BY Zenon, <1>7, <2>1 DEF Chat
  <2>3. Draws(r, Chat(r, e))
      BY <1>2, <1>4, <1>5, <2>2, DrawsNothing
  <2> QED
      BY <1>7, <2>3 DEF Draw
<1> QED
    BY <1>6, <1>7

LEMMA CompletionsIs ==
    ASSUME NEW r \in Renderer, NEW e \in Spoken
    PROVE  Draw(r, e, Completions(r, e))
<1> DEFINE headers == r.headers \cup {e.slot}
           s == [r EXCEPT !.headers = headers]
<1>1. "text" \in OpenKinds /\ 0 \in Int /\ e.body \in Text
    BY SpokenIs DEF OpenKinds
<1>2. Draws(r, Emit(r, "text", 0, e.body)) /\ (e.kind = "text_delta" => HasText(Emit(r, "text", 0, e.body)))
    BY <1>1, DrawsOne, SpokenIs
<1>3. Draws(r, s)
  <2>1. headers \in SUBSET Nat
      BY SpokenIs DEF Renderer
  <2> HIDE DEF headers
  <2>2. s \in Renderer
      BY Zenon, <2>1 DEF Renderer
  <2>3. s.frames = r.frames /\ s.over = r.over
      BY DEF Renderer
  <2> QED
      BY <2>2, <2>3, DrawsStill
<1>4. e.kind # "message_done" /\ (e.kind = "text_delta" => e.body # <<>>)
    BY SpokenIs
<1>5. CASE e.kind = "text_delta"
  <2>1. Completions(r, e) \in {Emit(r, "text", 0, e.body)}
      BY Zenon, <1>4, <1>5 DEF Completions
  <2> QED
      BY <1>2, <1>5, <2>1 DEF Draw
<1>6. CASE e.kind # "text_delta"
  <2>1. Completions(r, e) \in {s, r}
      BY Zenon, <1>4, <1>6 DEF Completions
  <2>2. Draws(r, Completions(r, e))
      BY <1>3, <2>1, DrawsNothing
  <2> QED
      BY <1>6, <2>2 DEF Draw
<1> QED
    BY <1>5, <1>6

\* A call the renderer knows, with other arguments or more of its input sent.
LEMMA CallGrows ==
    ASSUME NEW r \in Renderer, NEW k \in DOMAIN r.calls, NEW v \in Text
    PROVE  /\ Draws(r, [r EXCEPT !.calls[k].args = v])
           /\ DOMAIN [r EXCEPT !.calls[k].args = v].calls = DOMAIN r.calls
           /\ Draws(r, [r EXCEPT !.calls[k].sent = v])
           /\ DOMAIN [r EXCEPT !.calls[k].sent = v].calls = DOMAIN r.calls
<1> DEFINE c == r.calls[k]
           longer == [c EXCEPT !.args = v]
           further == [c EXCEPT !.sent = v]
<1>1. r.calls \in ByNumbers(Item)
    BY DEF Renderer
<1>2. c \in Item
    BY <1>1, ByNumber
<1> HIDE DEF c
<1>3. longer \in Item /\ further \in Item
    BY Zenon, <1>2 DEF Item
<1>4. /\ [r EXCEPT !.calls[k].args = v] = [r EXCEPT !.calls = [r.calls EXCEPT ![k] = longer]]
      /\ [r EXCEPT !.calls[k].sent = v] = [r EXCEPT !.calls = [r.calls EXCEPT ![k] = further]]
    BY DEF c, Renderer
<1> HIDE DEF longer, further
<1>5. ASSUME NEW d \in Item
      PROVE  LET s == [r EXCEPT !.calls = [r.calls EXCEPT ![k] = d]] IN
             Draws(r, s) /\ DOMAIN s.calls = DOMAIN r.calls
  <2> DEFINE calls == [r.calls EXCEPT ![k] = d]
             s == [r EXCEPT !.calls = calls]
  <2>1. calls \in ByNumbers(Item) /\ DOMAIN calls = DOMAIN r.calls
      BY <1>1, NumberedReplace
  <2> HIDE DEF calls
  <2>2. s \in Renderer
      BY Zenon, <2>1 DEF Renderer
  <2>3. s.frames = r.frames /\ s.over = r.over /\ s.calls = calls
      BY DEF Renderer
  <2> HIDE DEF s
  <2>4. Draws(r, s) /\ DOMAIN s.calls = DOMAIN r.calls
      BY <2>1, <2>2, <2>3, DrawsStill
  <2> QED
      BY <2>4 DEF s, calls
<1> QED
    BY <1>3, <1>4, <1>5

LEMMA StateOfIs ==
    ASSUME NEW r \in Renderer, NEW e \in Spoken
    PROVE  Fresh(r, e) \in Item /\ StateOf(r, e) \in Item
<1>1. Fresh(r, e) \in Item
    BY SpokenIs, Bodied DEF Fresh, Item, Renderer
<1>2. r.calls \in ByNumbers(Item)
    BY DEF Renderer
<1> QED
    BY <1>1, <1>2, ByNumber DEF StateOf

LEMMA AddCallIs ==
    ASSUME NEW r \in Renderer, NEW e \in Spoken
    PROVE  Draws(r, AddCall(r, e)) /\ e.slot \in DOMAIN AddCall(r, e).calls
<1> DEFINE c == StateOf(r, e)
           calls == Put(r.calls, e.slot, c)
           next == r.next + 1
           s == [r EXCEPT !.calls = calls, !.next = next]
<1>1. c \in Item /\ e.slot \in Nat
    BY StateOfIs, SpokenIs
<1>2. c.at \in Int /\ "added" \in OpenKinds /\ <<"call">> \in Text
  <2>1. "call" \in Token
      BY DEF Token
  <2> QED
      BY <1>1, <2>1, Bodied DEF Item, OpenKinds
<1>3. AddCall(r, e) = Emit(s, "added", c.at, <<"call">>)
    BY DEF AddCall
<1> HIDE DEF c
<1>4. calls \in ByNumbers(Item) /\ e.slot \in DOMAIN calls
  <2>1. r.calls \in ByNumbers(Item)
      BY DEF Renderer
  <2>2. calls \in ByNumbers(Item)
      BY <1>1, <2>1, NumberedPut
  <2>3. e.slot \in DOMAIN calls
      BY DEF Put
  <2> QED
      BY <2>2, <2>3
<1>5. next \in Nat
    BY DEF Renderer
<1> HIDE DEF calls, next
<1>6. s \in Renderer
    BY Zenon, <1>4, <1>5 DEF Renderer
<1>7. s.frames = r.frames /\ s.over = r.over /\ s.calls = calls
    BY DEF Renderer
<1> HIDE DEF s
<1>8. Draws(s, Emit(s, "added", c.at, <<"call">>)) /\ Emit(s, "added", c.at, <<"call">>).calls = s.calls
    BY <1>2, <1>6, DrawsOne
<1>9. Draws(r, s)
    BY <1>6, <1>7, DrawsStill
<1> QED
    BY <1>3, <1>4, <1>7, <1>8, <1>9, DrawsOn

LEMMA SendInputIs ==
    ASSUME NEW r \in Renderer, NEW k \in DOMAIN r.calls
    PROVE  Draws(r, SendInput(r, k)) /\ DOMAIN SendInput(r, k).calls = DOMAIN r.calls
<1> DEFINE c == r.calls[k]
           input == CustomInput(c.args)
           sent == [r EXCEPT !.calls[k].sent = input]
<1>1. c \in Item
  <2>1. r.calls \in ByNumbers(Item)
      BY DEF Renderer
  <2> QED
      BY <2>1, ByNumber
<1> HIDE DEF c
<1>2. c.args \in Text /\ c.sent \in Text /\ c.at \in Int
    BY <1>1 DEF Item
<1>3. input \in Text
    BY <1>2, InputIs
<1>4. InputDelta(c) \in Text
  <2>1. Len(c.sent) \in Nat /\ Len(input) \in Nat
    <3> HIDE DEF input
    <3> QED
        BY <1>2, <1>3 DEF Text
  <2>2. SubSeq(input, Len(c.sent) + 1, Len(input)) \in Text
    <3> HIDE DEF input
    <3>1. Len(c.sent) + 1 \in Nat \ {0} /\ Len(input) \in Int /\ Len(input) <= Len(input) /\ input \in Seq(Token)
        BY <1>3, <2>1 DEF Text
    <3> QED
        BY <3>1, PartIs DEF Text
  <2>3. InputDelta(c) = IF IsPrefix(c.sent, input) THEN SubSeq(input, Len(c.sent) + 1, Len(input)) ELSE input
      BY DEF InputDelta
  <2> HIDE DEF input
  <2> QED
      BY <1>3, <2>2, <2>3
<1> HIDE DEF input
<1>5. Draws(r, sent) /\ DOMAIN sent.calls = DOMAIN r.calls
    BY <1>3, CallGrows
<1>6. SendInput(r, k) = IF InputDelta(c) = <<>> THEN sent ELSE Emit(sent, "arguments", c.at, InputDelta(c))
    BY DEF SendInput, c, input
<1> HIDE DEF sent
<1>7. sent \in Renderer
    BY <1>5 DEF Draws, Extends
<1>8. /\ Draws(sent, Emit(sent, "arguments", c.at, InputDelta(c)))
      /\ Emit(sent, "arguments", c.at, InputDelta(c)).calls = sent.calls
  <2>1. "arguments" \in OpenKinds
      BY DEF OpenKinds
  <2> QED
      BY <1>2, <1>4, <1>7, <2>1, DrawsOne
<1> QED
    BY <1>5, <1>6, <1>8, DrawsOn

LEMMA ResponsesArgumentsIs ==
    ASSUME NEW r \in Renderer, NEW e \in Spoken
    PROVE  Draws(r, ResponsesArguments(r, e))
<1> DEFINE added == IF e.slot \in DOMAIN r.calls THEN r ELSE AddCall(r, e)
           args == IF e.whole # <<>> THEN e.whole ELSE added.calls[e.slot].args \o e.body
           grown == [added EXCEPT !.calls[e.slot].args = args]
           c == grown.calls[e.slot]
<1>1. Draws(r, added) /\ e.slot \in DOMAIN added.calls
    BY AddCallIs, DrawsNothing
<1> HIDE DEF added
<1>2. added \in Renderer
    BY <1>1 DEF Draws, Extends
<1>3. args \in Text
  <2>1. added.calls[e.slot] \in Item
    <3>1. added.calls \in ByNumbers(Item)
        BY <1>2 DEF Renderer
    <3> QED
        BY <1>1, <3>1, ByNumber
  <2>2. added.calls[e.slot].args \in Text /\ e.body \in Text /\ e.whole \in Text
      BY <2>1, SpokenIs DEF Item
  <2>3. added.calls[e.slot].args \o e.body \in Text
      BY <2>2 DEF Text
  <2> QED
      BY <2>2, <2>3
<1> HIDE DEF args
<1>4. Draws(added, grown) /\ DOMAIN grown.calls = DOMAIN added.calls
    BY <1>1, <1>2, <1>3, CallGrows
<1> HIDE DEF grown
<1>5. grown \in Renderer /\ Draws(r, grown)
  <2>1. grown \in Renderer
      BY <1>4 DEF Draws, Extends
  <2> QED
      BY <1>1, <1>4, <2>1, DrawsOn
<1>6. c.at \in Int
  <2>1. grown.calls \in ByNumbers(Item)
      BY <1>5 DEF Renderer
  <2>2. c \in Item
      BY <1>1, <1>4, <2>1, ByNumber
  <2> QED
      BY <2>2 DEF Item
<1>7. Draws(grown, SendInput(grown, e.slot))
    BY <1>1, <1>4, <1>5, SendInputIs
<1>8. Draws(grown, Emit(grown, "arguments", c.at, e.body))
  <2>1. "arguments" \in OpenKinds /\ e.body \in Text
      BY SpokenIs DEF OpenKinds
  <2> HIDE DEF c
  <2> QED
      BY <1>5, <1>6, <2>1, DrawsOne
<1>9. ResponsesArguments(r, e) \in {SendInput(grown, e.slot), Emit(grown, "arguments", c.at, e.body)}
    BY DEF ResponsesArguments, added, args, grown
<1> HIDE DEF c
<1> QED
    BY <1>5, <1>7, <1>8, <1>9, DrawsOn

LEMMA ResponsesTextIs ==
    ASSUME NEW r \in Renderer, NEW e \in Spoken, e.body # <<>>
    PROVE  Draws(r, ResponsesText(r, e)) /\ HasText(ResponsesText(r, e))
<1> DEFINE next == r.next + 1
           place == r.next
           s == [r EXCEPT !.textAt = place, !.next = next]
           begun == Emit(s, "added", r.next, <<"message">>)
           added == IF r.textAt # None THEN r ELSE begun
           longer == added.text \o e.body
           grown == [added EXCEPT !.text = longer]
<1>1. r.next \in Nat /\ r.next \in Int /\ r.textAt \in BlockPlaces /\ e.body \in Text
      /\ {"text", "added"} \subseteq OpenKinds /\ <<"message">> \in Text
  <2>1. "message" \in Token
      BY DEF Token
  <2>2. r.next \in Nat /\ r.textAt \in BlockPlaces
      BY DEF Renderer
  <2> QED
      BY <2>1, <2>2, SpokenIs, Bodied DEF OpenKinds
<1>2. Draws(r, begun) /\ begun.textAt = r.next
  <2>1. next \in Nat /\ place \in BlockPlaces
      BY <1>1 DEF BlockPlaces
  <2> HIDE DEF next, place
  <2>2. s \in Renderer
      BY Zenon, <2>1 DEF Renderer
  <2>3. s.frames = r.frames /\ s.over = r.over /\ s.textAt = place
      BY DEF Renderer
  <2> HIDE DEF s
  <2>4. Draws(s, begun) /\ begun.textAt = s.textAt
      BY <1>1, <2>2, DrawsOne
  <2>5. Draws(r, s)
      BY <2>2, <2>3, DrawsStill
  <2> QED
      BY <2>2, <2>3, <2>4, <2>5, DrawsOn DEF place
<1>3. ResponsesText(r, e) = Emit(grown, "text", added.textAt, e.body)
    BY DEF ResponsesText
<1> HIDE DEF begun
<1>4. Draws(r, added) /\ added.textAt \in Int
    BY <1>1, <1>2, DrawsNothing DEF BlockPlaces, None
<1> HIDE DEF added
<1>5. added \in Renderer
    BY <1>4 DEF Draws, Extends
<1>6. longer \in Text
  <2>1. added.text \in Text
      BY <1>5 DEF Renderer
  <2> QED
      BY <1>1, <2>1 DEF Text
<1> HIDE DEF longer
<1>7. grown \in Renderer
    BY Zenon, <1>5, <1>6 DEF Renderer
<1>8. grown.frames = added.frames /\ grown.over = added.over
    BY <1>5 DEF Renderer
<1> HIDE DEF grown
<1>9. Draws(added, grown)
    BY <1>5, <1>7, <1>8, DrawsStill
<1>10. Draws(grown, Emit(grown, "text", added.textAt, e.body)) /\ HasText(Emit(grown, "text", added.textAt, e.body))
    BY <1>1, <1>4, <1>7, DrawsOne
<1>11. Draws(r, grown)
    BY <1>4, <1>9, DrawsOn
<1> QED
    BY <1>3, <1>10, <1>11, DrawsOn

LEMMA ResponsesReasoningIs ==
    ASSUME NEW r \in Renderer, NEW e \in Spoken
    PROVE  Draws(r, ResponsesReasoning(r, e))
<1> DEFINE longer == r.think \o e.body
           noted == [r EXCEPT !.think = longer]
           next == noted.next + 1
           place == noted.next
           s == [noted EXCEPT !.thinkAt = place, !.next = next]
           begun == Emit(s, "added", r.next, <<"reasoning">>)
<1>1. r.next \in Int /\ e.body \in Text /\ r.think \in Text /\ "added" \in OpenKinds /\ <<"reasoning">> \in Text
  <2>1. "reasoning" \in Token
      BY DEF Token
  <2>2. r.next \in Nat /\ r.think \in Text
      BY DEF Renderer
  <2> QED
      BY <2>1, <2>2, SpokenIs, Bodied DEF OpenKinds
<1>2. longer \in Text
    BY <1>1 DEF Text
<1> HIDE DEF longer
<1>3. noted \in Renderer
    BY Zenon, <1>2 DEF Renderer
<1>4. noted.frames = r.frames /\ noted.over = r.over /\ noted.next = r.next
    BY DEF Renderer
<1>5. ResponsesReasoning(r, e) \in {noted, begun}
    BY <1>4 DEF ResponsesReasoning, longer
<1> HIDE DEF noted
<1>6. next \in Nat /\ place \in BlockPlaces
    BY <1>3 DEF Renderer, BlockPlaces
<1> HIDE DEF next, place
<1>7. s \in Renderer
    BY Zenon, <1>3, <1>6 DEF Renderer
<1>8. s.frames = noted.frames /\ s.over = noted.over
    BY <1>3 DEF Renderer
<1> HIDE DEF s
<1>9. Draws(s, begun)
    BY <1>1, <1>7, DrawsOne
<1>10. Draws(r, noted) /\ Draws(r, s)
    BY <1>3, <1>4, <1>7, <1>8, DrawsStill
<1> HIDE DEF begun
<1> QED
    BY <1>5, <1>9, <1>10, DrawsOn

LEMMA ResponsesIs ==
    ASSUME NEW r \in Renderer, NEW e \in Spoken
    PROVE  Draw(r, e, Responses(r, e))
<1>1. e.kind # "message_done" /\ (e.kind = "text_delta" => e.body # <<>>)
    BY SpokenIs
<1>2. CASE e.kind = "text_delta"
  <2>1. Responses(r, e) \in {ResponsesText(r, e)}
      BY Zenon, <1>1, <1>2 DEF Responses
  <2> QED
      BY <1>1, <1>2, <2>1, ResponsesTextIs DEF Draw
<1>3. CASE e.kind # "text_delta"
  <2>1. Responses(r, e) \in {ResponsesReasoning(r, e), AddCall(r, e), ResponsesArguments(r, e), r}
      BY Zenon, <1>1, <1>3 DEF Responses
  <2>2. Draws(r, Responses(r, e))
      BY <2>1, ResponsesReasoningIs, AddCallIs, ResponsesArgumentsIs, DrawsNothing
  <2> QED
      BY <1>3, <2>2 DEF Draw
<1> QED
    BY <1>2, <1>3

LEMMA StopThinkingIs ==
    ASSUME NEW r \in Renderer
    PROVE  Draws(r, StopThinking(r)) /\ StopThinking(r).calls = r.calls
<1>1. r.thinkAt \in Int /\ r.sig \in Token /\ <<r.sig>> \in Text /\ <<>> \in Text
      /\ {"signature", "stop"} \subseteq OpenKinds
  <2>1. r.thinkAt \in BlockPlaces /\ r.sig \in Token
      BY DEF Renderer
  <2> QED
      BY <2>1, Bodied DEF OpenKinds, BlockPlaces, None
<1> DEFINE signed == Sign(r)
           stopped == Emit(signed, "stop", r.thinkAt, <<>>)
           x == [stopped EXCEPT !.thinkAt = None]
<1>2. Draws(r, signed) /\ signed.calls = r.calls
    BY <1>1, DrawsOne, DrawsNothing DEF Sign
<1>3. StopThinking(r) = IF r.thinkAt = None THEN r ELSE x
    BY DEF StopThinking
<1> HIDE DEF signed
<1>4. signed \in Renderer
    BY <1>2 DEF Draws, Extends
<1>5. Draws(signed, stopped) /\ stopped \in Renderer /\ stopped.calls = signed.calls
    BY <1>1, <1>4, DrawsOne
<1> HIDE DEF stopped
<1>6. None \in BlockPlaces
    BY DEF BlockPlaces
<1>7. x \in Renderer
    BY Zenon, <1>5, <1>6 DEF Renderer
<1>8. x.frames = stopped.frames /\ x.over = stopped.over /\ x.calls = stopped.calls
    BY <1>5 DEF Renderer
<1> HIDE DEF x
<1>9. Draws(stopped, x)
    BY <1>5, <1>7, <1>8, DrawsStill
<1>10. Draws(r, stopped)
    BY <1>2, <1>5, DrawsOn
<1>11. Draws(r, x)
    BY <1>9, <1>10, DrawsOn
<1> QED
    BY <1>2, <1>3, <1>5, <1>8, <1>11, DrawsNothing

LEMMA StopTextIs ==
    ASSUME NEW r \in Renderer
    PROVE  Draws(r, StopText(r)) /\ StopText(r).calls = r.calls
<1>1. r.textAt \in Int /\ <<>> \in Text /\ "stop" \in OpenKinds
  <2>1. r.textAt \in BlockPlaces
      BY DEF Renderer
  <2> QED
      BY <2>1, Bodied DEF OpenKinds, BlockPlaces, None
<1> DEFINE stopped == Emit(r, "stop", r.textAt, <<>>)
           x == [stopped EXCEPT !.textAt = None]
<1>2. Draws(r, stopped) /\ stopped \in Renderer /\ stopped.calls = r.calls
    BY <1>1, DrawsOne
<1>3. StopText(r) = IF r.textAt = None THEN r ELSE x
    BY DEF StopText
<1> HIDE DEF stopped
<1>4. None \in BlockPlaces
    BY DEF BlockPlaces
<1>5. x \in Renderer
    BY Zenon, <1>2, <1>4 DEF Renderer
<1>6. x.frames = stopped.frames /\ x.over = stopped.over /\ x.calls = stopped.calls
    BY <1>2 DEF Renderer
<1> HIDE DEF x
<1>7. Draws(stopped, x)
    BY <1>2, <1>5, <1>6, DrawsStill
<1>8. Draws(r, x)
    BY <1>2, <1>7, DrawsOn
<1> QED
    BY <1>2, <1>3, <1>6, <1>8, DrawsNothing

LEMMA MessagesTextIs ==
    ASSUME NEW r \in Renderer, NEW e \in Spoken, e.body # <<>>
    PROVE  Draws(r, MessagesText(r, e)) /\ HasText(MessagesText(r, e))
<1> DEFINE closed == StopThinking(r)
           next == closed.next + 1
           place == r.next
           s == [closed EXCEPT !.textAt = place, !.next = next]
           begun == Emit(s, "start", r.next, <<"text">>)
           open == IF closed.textAt # None THEN closed ELSE begun
<1>1. e.body \in Text /\ {"text", "start"} \subseteq OpenKinds /\ r.next \in Int /\ r.next \in Nat
      /\ <<"text">> \in Text
  <2>1. "text" \in Token
      BY DEF Token
  <2>2. r.next \in Nat
      BY DEF Renderer
  <2> QED
      BY <2>1, <2>2, SpokenIs, Bodied DEF OpenKinds
<1>2. MessagesText(r, e) = Emit(open, "text", open.textAt, e.body)
    BY DEF MessagesText
<1>3. Draws(r, closed)
    BY StopThinkingIs
<1> HIDE DEF closed
<1>4. closed \in Renderer
    BY <1>3 DEF Draws, Extends
<1>5. Draws(closed, begun) /\ begun.textAt = r.next
  <2>1. next \in Nat /\ place \in BlockPlaces
      BY <1>1, <1>4 DEF BlockPlaces, Renderer
  <2> HIDE DEF next, place
  <2>2. s \in Renderer
      BY Zenon, <1>4, <2>1 DEF Renderer
  <2>3. s.frames = closed.frames /\ s.over = closed.over /\ s.textAt = place
      BY <1>4 DEF Renderer
  <2> HIDE DEF s
  <2>4. Draws(s, begun) /\ begun.textAt = s.textAt
      BY <1>1, <2>2, DrawsOne
  <2>5. Draws(closed, s)
      BY <1>4, <2>2, <2>3, DrawsStill
  <2> QED
      BY <1>4, <2>2, <2>3, <2>4, <2>5, DrawsOn DEF place
<1> HIDE DEF begun
<1>6. Draws(closed, open) /\ open.textAt \in Int
  <2>1. closed.textAt \in Int
      BY <1>4 DEF Renderer, BlockPlaces, None
  <2>2. Draws(closed, closed)
      BY <1>4, DrawsNothing
  <2> QED
      BY <1>1, <1>5, <2>1, <2>2
<1> HIDE DEF open
<1>7. open \in Renderer
    BY <1>6 DEF Draws, Extends
<1>8. Draws(open, Emit(open, "text", open.textAt, e.body)) /\ HasText(Emit(open, "text", open.textAt, e.body))
    BY <1>1, <1>6, <1>7, DrawsOne
<1>9. Draws(r, open)
    BY <1>3, <1>6, DrawsOn
<1> QED
    BY <1>2, <1>8, <1>9, DrawsOn

LEMMA MessagesThinkingIs ==
    ASSUME NEW r \in Renderer, NEW e \in Spoken
    PROVE  Draws(r, MessagesThinking(r, e))
<1> DEFINE mark == e.mark
           marked == [r EXCEPT !.sig = mark]
           signed == IF e.mark = "" THEN r ELSE marked
           closed == StopText(signed)
           next == closed.next + 1
           place == r.next
           s == [closed EXCEPT !.thinkAt = place, !.next = next]
           begun == Emit(s, "start", r.next, <<"thinking">>)
           open == IF r.thinkAt # None THEN signed ELSE begun
<1>1. e.body \in Text /\ {"thinking", "start"} \subseteq OpenKinds /\ r.next \in Int /\ r.next \in Nat
      /\ <<"thinking">> \in Text /\ e.mark \in Token
  <2>1. "thinking" \in Token
      BY DEF Token
  <2>2. r.next \in Nat
      BY DEF Renderer
  <2> QED
      BY <2>1, <2>2, SpokenIs, Bodied DEF OpenKinds
<1>2. MessagesThinking(r, e) = IF e.body = <<>> THEN signed ELSE Emit(open, "thinking", open.thinkAt, e.body)
    BY DEF MessagesThinking
<1>3. Draws(r, signed) /\ signed.thinkAt = r.thinkAt
  <2> HIDE DEF mark
  <2>1. mark \in Token
      BY <1>1 DEF mark
  <2>2. marked \in Renderer
      BY Zenon, <2>1 DEF Renderer
  <2>3. marked.frames = r.frames /\ marked.over = r.over /\ marked.thinkAt = r.thinkAt
      BY DEF Renderer
  <2> HIDE DEF marked
  <2> QED
      BY <2>2, <2>3, DrawsStill, DrawsNothing
<1> HIDE DEF signed
<1>4. signed \in Renderer
    BY <1>3 DEF Draws, Extends
<1>5. Draws(signed, closed)
    BY <1>4, StopTextIs
<1> HIDE DEF closed
<1>6. closed \in Renderer
    BY <1>5 DEF Draws, Extends
<1>7. Draws(closed, begun) /\ begun.thinkAt = r.next
  <2>1. next \in Nat /\ place \in BlockPlaces
      BY <1>1, <1>6 DEF BlockPlaces, Renderer
  <2> HIDE DEF next, place
  <2>2. s \in Renderer
      BY Zenon, <1>6, <2>1 DEF Renderer
  <2>3. s.frames = closed.frames /\ s.over = closed.over /\ s.thinkAt = place
      BY <1>6 DEF Renderer
  <2> HIDE DEF s
  <2>4. Draws(s, begun) /\ begun.thinkAt = s.thinkAt
      BY <1>1, <2>2, DrawsOne
  <2>5. Draws(closed, s)
      BY <1>6, <2>2, <2>3, DrawsStill
  <2> QED
      BY <1>6, <2>2, <2>3, <2>4, <2>5, DrawsOn DEF place
<1>8. Draws(signed, begun)
    BY <1>4, <1>5, <1>7, DrawsOn
<1> HIDE DEF begun
<1>9. Draws(signed, open) /\ open.thinkAt \in Int
  <2>1. r.thinkAt \in Int
      BY DEF Renderer, BlockPlaces, None
  <2>2. Draws(signed, signed)
      BY <1>4, DrawsNothing
  <2> QED
      BY <1>1, <1>3, <1>7, <1>8, <2>1, <2>2
<1> HIDE DEF open
<1>10. open \in Renderer
    BY <1>9 DEF Draws, Extends
<1>11. Draws(open, Emit(open, "thinking", open.thinkAt, e.body))
    BY <1>1, <1>9, <1>10, DrawsOne
<1>12. Draws(r, open)
    BY <1>3, <1>9, DrawsOn
<1>13. Draws(r, Emit(open, "thinking", open.thinkAt, e.body))
    BY <1>11, <1>12, DrawsOn
<1> QED
    BY <1>2, <1>3, <1>13

LEMMA CallsPut ==
    ASSUME NEW r \in Renderer, NEW k \in Nat, NEW c \in Item
    PROVE  Draws(r, [r EXCEPT !.calls = Put(r.calls, k, c)])
<1> DEFINE calls == Put(r.calls, k, c)
           s == [r EXCEPT !.calls = calls]
<1>1. calls \in ByNumbers(Item)
  <2>1. r.calls \in ByNumbers(Item)
      BY DEF Renderer
  <2> QED
      BY <2>1, NumberedPut
<1> HIDE DEF calls
<1>2. s \in Renderer
    BY Zenon, <1>1 DEF Renderer
<1>3. s.frames = r.frames /\ s.over = r.over
    BY DEF Renderer
<1> HIDE DEF s
<1>4. Draws(r, s)
    BY <1>2, <1>3, DrawsStill
<1> QED
    BY <1>4 DEF s, calls

LEMMA MessagesArgumentsIs ==
    ASSUME NEW r \in Renderer, NEW e \in Spoken
    PROVE  Draws(r, MessagesArguments(r, e)) /\ Draws(r, MessagesCall(r, e))
<1> DEFINE c == StateOf(r, e)
           args == IF e.whole # <<>> THEN e.whole ELSE c.args \o e.body
           grown == [c EXCEPT !.args = args]
<1>1. c \in Item /\ Fresh(r, e) \in Item /\ e.slot \in Nat
    BY StateOfIs, SpokenIs
<1>2. MessagesArguments(r, e) = [r EXCEPT !.calls = Put(r.calls, e.slot, grown)]
    BY DEF MessagesArguments
<1>3. MessagesCall(r, e) = [r EXCEPT !.calls = Put(r.calls, e.slot, Fresh(r, e))]
    BY DEF MessagesCall
<1> HIDE DEF c
<1>4. args \in Text
  <2>1. c.args \in Text /\ e.body \in Text /\ e.whole \in Text
      BY <1>1, SpokenIs DEF Item
  <2>2. c.args \o e.body \in Text
      BY <2>1 DEF Text
  <2> QED
      BY <2>1, <2>2
<1> HIDE DEF args
<1>5. grown \in Item
    BY Zenon, <1>1, <1>4 DEF Item
<1> HIDE DEF grown
<1> QED
    BY <1>1, <1>2, <1>3, <1>5, CallsPut

LEMMA MessagesIs ==
    ASSUME NEW r \in Renderer, NEW e \in Spoken
    PROVE  Draw(r, e, Messages(r, e))
<1>1. e.kind # "message_done" /\ (e.kind = "text_delta" => e.body # <<>>)
    BY SpokenIs
<1>2. CASE e.kind = "text_delta"
  <2>1. Messages(r, e) \in {MessagesText(r, e)}
      BY Zenon, <1>1, <1>2 DEF Messages
  <2> QED
      BY <1>1, <1>2, <2>1, MessagesTextIs DEF Draw
<1>3. CASE e.kind # "text_delta"
  <2>1. Messages(r, e) \in {MessagesThinking(r, e), MessagesCall(r, e), MessagesArguments(r, e), r}
      BY Zenon, <1>1, <1>3 DEF Messages
  <2>2. Draws(r, Messages(r, e))
      BY <2>1, MessagesThinkingIs, MessagesArgumentsIs, DrawsNothing
  <2> QED
      BY <1>3, <2>2 DEF Draw
<1> QED
    BY <1>2, <1>3

Endpoint == {"chat", "completions", "responses", "messages"}

\* While the loop goes on every renderer only adds frames, and shows every text.
LEMMA RenderIs ==
    ASSUME NEW c \in Endpoint, NEW r \in Renderer, ~r.over, NEW e \in Spoken
    PROVE  Draw(r, e, Render(c, r, e))
<1>1. Render(c, r, e) \in {Chat(r, e), Completions(r, e), Responses(r, e), Messages(r, e)}
    BY Zenon DEF Render, Endpoint
<1> QED
    BY <1>1, ChatIs, CompletionsIs, ResponsesIs, MessagesIs

LEMMA LeaveIs ==
    ASSUME NEW r \in Renderer, NEW e \in OutputEvent
    PROVE  Leave(r, e) \in Renderer /\ Leave(r, e).frames = r.frames
<1> DEFINE f == IF e.mark = "" THEN r.finish ELSE e.mark
           s == [r EXCEPT !.over = TRUE, !.done = TRUE, !.finish = f]
<1>1. f \in Token
    BY DEF Renderer, OutputEvent
<1>2. Leave(r, e) = s
    BY DEF Leave
<1> HIDE DEF f
<1>3. s \in Renderer
    BY Zenon, <1>1 DEF Renderer
<1>4. s.frames = r.frames
    BY DEF Renderer
<1> QED
    BY <1>2, <1>3, <1>4

\* The end of the events: two renderers show one at once.
LEMMA RenderDoneIs ==
    ASSUME NEW c \in Endpoint, NEW r \in Renderer, ~r.over, NEW e \in OutputEvent, e.kind = "message_done"
    PROVE  /\ Extends(r, Render(c, r, e), FrameKinds)
           /\ c \in {"responses", "messages"} => Extends(r, Render(c, r, e), OpenKinds)
<1> DEFINE s == Leave(r, e)
           finished == Emit(s, "finish", 0, <<ChatReason(r, e)>>)
<1>1. s \in Renderer /\ s.frames = r.frames
    BY LeaveIs
<1>2. Extends(r, s, FrameKinds) /\ Extends(r, s, OpenKinds)
    BY <1>1, SameFrames
<1>3. Extends(r, finished, FrameKinds)
  <2>1. e.mark \in Token
      BY DEF OutputEvent
  <2>2. ChatReason(r, e) \in Token
      BY <2>1 DEF ChatReason, Token
  <2>3. <<ChatReason(r, e)>> \in Text /\ "finish" \in FrameKinds /\ 0 \in Int
      BY <2>2, Bodied DEF FrameKinds, EndFrames
  <2> HIDE DEF s
  <2>4. Extends(s, finished, FrameKinds)
      BY <1>1, <2>3, EmitIs
  <2> QED
      BY <1>2, <2>4, ExtendsOn
<1>4. CASE c \in {"chat", "completions"}
  <2>1. Render(c, r, e) \in {Chat(r, e), Completions(r, e)}
      BY Zenon, <1>4 DEF Render
  <2>2. Chat(r, e) \in {finished}
      BY Zenon DEF Chat
  <2>3. Completions(r, e) \in {finished}
      BY Zenon DEF Completions
  <2> HIDE DEF finished
  <2> QED
      BY <1>3, <1>4, <2>1, <2>2, <2>3
<1>5. CASE c \in {"responses", "messages"}
  <2>1. Render(c, r, e) \in {Responses(r, e), Messages(r, e)}
      BY Zenon, <1>5 DEF Render
  <2>2. Responses(r, e) \in {s}
      BY Zenon DEF Responses
  <2>3. Messages(r, e) \in {s}
      BY Zenon DEF Messages
  <2> HIDE DEF s
  <2> QED
      BY <1>2, <2>1, <2>2, <2>3
<1> QED
    BY <1>4, <1>5 DEF Endpoint

LEMMA AccountIs ==
    ASSUME NEW out \in Account
    PROVE  /\ Len(out) \in Nat
           /\ \A i \in 1..Len(out) : out[i] \in OutputEvent
           /\ \A i \in 1..Len(out) : out[i] \notin Spoken => i = Len(out) /\ out[i].kind = "message_done"
<1>1. out \in Seq(OutputEvent) /\ (out \in Seq(Spoken) \/ Ends(out))
    BY DEF Account
<1>2. CASE out \in Seq(Spoken)
    BY <1>1, <1>2
<1>3. CASE Ends(out)
  <2>1. PICK told \in Seq(Spoken), mark \in Token : out = Append(told, MessageDone(mark))
      BY <1>3 DEF Ends
  <2>2. MessageDone(mark).kind = "message_done"
      BY EventsAre
  <2>3. ASSUME NEW i \in 1..Len(out), out[i] \notin Spoken PROVE i = Len(out) /\ out[i].kind = "message_done"
    <3>1. Len(told) \in Nat /\ Len(out) = Len(told) + 1 /\ out[Len(told) + 1] = MessageDone(mark)
        BY <2>1
    <3>2. i <= Len(told) => out[i] = told[i] /\ told[i] \in Spoken
        BY <2>1, <3>1
    <3> QED
        BY <2>2, <2>3, <3>1, <3>2
  <2> QED
      BY <1>1, <2>3
<1> QED
    BY <1>1, <1>2, <1>3

\* The loop over the events of an account.
LEMMA RendersAre ==
    ASSUME client \in Endpoint, NEW r \in Renderer, NEW out \in Account
    PROVE  /\ \A n \in 0..Len(out) : Renders(r, out)[n] \in Renderer
           /\ Renders(r, out)[0] = r
           /\ \A n \in 1..Len(out) : Renders(r, out)[n] = Render(client, Renders(r, out)[n - 1], out[n])
<1>1. /\ Len(out) \in Nat
      /\ \A i \in 1..Len(out) : out[i] \in OutputEvent
      /\ \A i \in 1..Len(out) : out[i] \notin Spoken => i = Len(out) /\ out[i].kind = "message_done"
    BY AccountIs
<1>2. ASSUME NEW n \in 1..Len(out), NEW y \in Renderer
      PROVE  Render(client, y, out[n]) \in Renderer
  <2>1. CASE y.over
    <3>1. Render(client, y, out[n]) \in {y}
        BY Zenon, <2>1 DEF Render
    <3> QED
        BY <3>1
  <2>2. CASE ~y.over /\ out[n] \in Spoken
      BY <2>2, RenderIs DEF Draw, Draws, Extends
  <2>3. CASE ~y.over /\ out[n] \notin Spoken
    <3>1. out[n] \in OutputEvent /\ out[n].kind = "message_done"
        BY <1>1, <2>3
    <3> QED
        BY <2>3, <3>1, RenderDoneIs DEF Extends
  <2> QED
      BY <2>1, <2>2, <2>3
<1> QED
    BY <1>1, <1>2, RendersIn

LEMMA RendersFar ==
    ASSUME client \in Endpoint, NEW r \in Renderer, ~r.over, NEW out \in Account,
           NEW k \in 0..Len(out), \A i \in 1..k : out[i] \in Spoken
    PROVE  /\ Draws(r, Renders(r, out)[k])
           /\ (\E i \in 1..k : out[i].kind = "text_delta") => HasText(Renders(r, out)[k])
<1> DEFINE x == Renders(r, out)
<1>1. Len(out) \in Nat
    BY AccountIs
<1>2. /\ \A n \in 0..Len(out) : x[n] \in Renderer
      /\ x[0] = r
      /\ \A n \in 1..Len(out) : x[n] = Render(client, x[n - 1], out[n])
    BY RendersAre
<1> HIDE DEF x
<1>3. k \in Nat /\ k <= Len(out)
    BY <1>1
<1> DEFINE Drawn == {y \in Renderer : Draws(r, y)}
<1>4. \A n \in 0..k : x[n] \in Drawn
  <2>1. x[0] \in Drawn
      BY <1>2, DrawsNothing
  <2>2. ASSUME NEW n \in 1..k, x[n - 1] \in Drawn PROVE x[n] \in Drawn
    <3>1. n \in 1..Len(out) /\ x[n] = Render(client, x[n - 1], out[n]) /\ x[n] \in Renderer
        BY <1>1, <1>2, <1>3
    <3>2. x[n - 1] \in Renderer /\ Draws(r, x[n - 1]) /\ ~x[n - 1].over
        BY <2>2 DEF Draws
    <3>3. Draws(x[n - 1], x[n])
        BY <3>1, <3>2, RenderIs DEF Draw
    <3> QED
        BY <3>1, <3>2, <3>3, DrawsOn
  <2> HIDE DEF Drawn
  <2> QED
      BY <1>3, <2>1, <2>2, RoundsIn
<1>5. ASSUME NEW n \in 1..k
      PROVE  Draw(x[n - 1], out[n], x[n]) /\ x[n - 1] \in Renderer /\ x[n] \in Renderer
  <2>1. n - 1 \in 0..k /\ n \in 0..k /\ n \in 1..Len(out)
      BY <1>1, <1>3
  <2>2. x[n - 1] \in Renderer /\ ~x[n - 1].over /\ x[n] \in Renderer
      BY <1>4, <2>1 DEF Draws
  <2>3. x[n] = Render(client, x[n - 1], out[n])
      BY <1>2, <2>1
  <2> QED
      BY <2>2, <2>3, RenderIs
<1>6. ASSUME NEW i \in 1..k, out[i].kind = "text_delta" PROVE HasText(x[k])
  <2> DEFINE y == [n \in 0..(k - i) |-> x[i + n]]
             Shows == {z \in Renderer : HasText(z)}
  <2>1. k - i \in Nat /\ i \in Nat
      BY <1>3
  <2>2. y[0] \in Shows
    <3>1. 0 \in 0..(k - i) /\ i + 0 = i
        BY <2>1
    <3>2. y[0] = x[i]
        BY <3>1
    <3> QED
        BY <1>5, <1>6, <3>2 DEF Draw
  <2>3. ASSUME NEW n \in 1..(k - i), y[n - 1] \in Shows PROVE y[n] \in Shows
    <3>1. n - 1 \in 0..(k - i) /\ n \in 0..(k - i) /\ i + n \in 1..k /\ i + (n - 1) = (i + n) - 1
        BY <2>1
    <3>2. y[n] = x[i + n] /\ y[n - 1] = x[(i + n) - 1]
        BY <3>1
    <3>3. Draw(x[(i + n) - 1], out[i + n], x[i + n]) /\ x[(i + n) - 1] \in Renderer /\ x[i + n] \in Renderer
        BY <1>5, <3>1
    <3> HIDE DEF y
    <3>4. HasText(x[(i + n) - 1])
        BY <2>3, <3>2
    <3>5. HasText(x[i + n])
        BY <3>3, <3>4, ExtendsKeeps DEF Draw, Draws
    <3> QED
        BY <3>2, <3>3, <3>5
  <2>4. \A n \in 0..(k - i) : y[n] \in Shows
    <3> HIDE DEF y, Shows
    <3> QED
        BY <2>1, <2>2, <2>3, RoundsIn
  <2>5. k - i \in 0..(k - i) /\ y[k - i] = x[k]
      BY <1>3, <2>1
  <2> HIDE DEF y
  <2> QED
      BY <2>4, <2>5
<1>7. Draws(r, x[k])
    BY <1>3, <1>4
<1> QED
    BY <1>6, <1>7 DEF x

\* The renderer behind an account of events.
LEMMA RenderingIs ==
    ASSUME client \in Endpoint, NEW r \in Renderer, ~r.over, NEW out \in Account
    PROVE  /\ Rendering(r, out) \in Renderer
           /\ HasText(r) \/ HasWords(out) => HasText(Rendering(r, out))
           /\ out \in Seq(Spoken) => Draws(r, Rendering(r, out))
           /\ client \in {"responses", "messages"} /\ NoEnd(r) => NoEnd(Rendering(r, out))
<1> DEFINE x == Renders(r, out)
           N == Len(out)
<1>1. /\ N \in Nat
      /\ \A i \in 1..N : out[i] \in OutputEvent
      /\ \A i \in 1..N : out[i] \notin Spoken => i = N /\ out[i].kind = "message_done"
    BY AccountIs
<1>2. /\ \A n \in 0..N : x[n] \in Renderer
      /\ x[0] = r
      /\ \A n \in 1..N : x[n] = Render(client, x[n - 1], out[n])
    BY RendersAre
<1>3. Rendering(r, out) = x[N] /\ x[N] \in Renderer
    BY <1>1, <1>2 DEF Rendering
<1>4. ASSUME NEW k \in 0..N, \A i \in 1..k : out[i] \in Spoken
      PROVE  /\ Draws(r, x[k])
             /\ (\E i \in 1..k : out[i].kind = "text_delta") => HasText(x[k])
    BY <1>4, RendersFar
<1> HIDE DEF x
<1>5. CASE \A i \in 1..N : out[i] \in Spoken
  <2>1. Draws(r, x[N]) /\ (HasWords(out) => HasText(x[N]))
      BY <1>1, <1>4, <1>5 DEF HasWords
  <2>2. (HasText(r) => HasText(x[N])) /\ (NoEnd(r) => NoEnd(x[N]))
      BY <2>1, ExtendsKeeps DEF Draws
  <2> QED
      BY <1>3, <2>1, <2>2
<1>6. CASE ~(\A i \in 1..N : out[i] \in Spoken)
  <2>1. N \in 1..N /\ out[N] \notin Spoken /\ out[N].kind = "message_done" /\ out[N] \in OutputEvent
      BY <1>1, <1>6
  <2>2. N - 1 \in 0..N /\ \A i \in 1..(N - 1) : out[i] \in Spoken
      BY <1>1, <2>1
  <2>3. Draws(r, x[N - 1]) /\ ((\E i \in 1..(N - 1) : out[i].kind = "text_delta") => HasText(x[N - 1]))
      BY <1>4, <2>2
  <2>4. x[N - 1] \in Renderer /\ ~x[N - 1].over
      BY <1>2, <2>2, <2>3 DEF Draws
  <2>5. x[N] = Render(client, x[N - 1], out[N])
      BY <1>2, <2>1
  <2>6. Extends(x[N - 1], x[N], FrameKinds)
        /\ (client \in {"responses", "messages"} => Extends(x[N - 1], x[N], OpenKinds))
      BY <2>1, <2>4, <2>5, RenderDoneIs
  <2>7. HasText(r) => HasText(x[N - 1])
      BY <2>3, ExtendsKeeps DEF Draws
  <2>8. HasText(x[N - 1]) => HasText(x[N])
      BY <2>4, <2>6, ExtendsKeeps
  <2>9. HasWords(out) => HasText(x[N - 1])
    <3>1. ASSUME NEW i \in 1..N, out[i].kind = "text_delta" PROVE i \in 1..(N - 1)
        BY <1>1, <2>1, <3>1
    <3> QED
        BY <2>3, <3>1 DEF HasWords
  <2>10. NoEnd(r) => NoEnd(x[N - 1])
      BY <2>3, ExtendsKeeps DEF Draws
  <2>11. client \in {"responses", "messages"} /\ NoEnd(x[N - 1]) => NoEnd(x[N])
      BY <2>4, <2>6, ExtendsKeeps
  <2>12. out \notin Seq(Spoken)
      BY <2>1
  <2> QED
      BY <1>3, <2>7, <2>8, <2>9, <2>10, <2>11, <2>12
<1> QED
    BY <1>5, <1>6

-----------------------------------------------------------------------------
(* What the renderers add behind the last event.                             *)
LEMMA CallDoneAtIs ==
    ASSUME NEW r \in Renderer, NEW k \in DOMAIN r.calls
    PROVE  Draws(r, CallDoneAt(r, k)) /\ DOMAIN CallDoneAt(r, k).calls = DOMAIN r.calls
<1> DEFINE y == IF r.calls[k].name \in CustomTools THEN SendInput(r, k) ELSE r
           c == y.calls[k]
           body == IF c.name \in CustomTools THEN CustomInput(c.args) ELSE c.args
<1>1. Draws(r, y) /\ DOMAIN y.calls = DOMAIN r.calls
    BY SendInputIs, DrawsNothing
<1>2. CallDoneAt(r, k) = Emit(y, "done", c.at, body)
    BY DEF CallDoneAt
<1> HIDE DEF y
<1>3. y \in Renderer
    BY <1>1 DEF Draws, Extends
<1>4. c \in Item
  <2>1. y.calls \in ByNumbers(Item)
      BY <1>3 DEF Renderer
  <2> QED
      BY <1>1, <2>1, ByNumber
<1> HIDE DEF c
<1>5. c.at \in Int /\ c.args \in Text
    BY <1>4 DEF Item
<1>6. body \in Text /\ "done" \in OpenKinds
    BY <1>5, InputIs DEF OpenKinds
<1> HIDE DEF body
<1>7. Draws(y, Emit(y, "done", c.at, body)) /\ Emit(y, "done", c.at, body).calls = y.calls
    BY <1>3, <1>5, <1>6, DrawsOne
<1> QED
    BY <1>1, <1>2, <1>7, DrawsOn

LEMMA CloseCallsIs ==
    ASSUME NEW r \in Renderer
    PROVE  Draws(r, CloseCalls(r))
<1> DEFINE slots == Ascending(DOMAIN r.calls)
           Drawn == {y \in Renderer : Draws(r, y) /\ DOMAIN y.calls = DOMAIN r.calls}
<1>1. Len(slots) \in Nat /\ \A i \in 1..Len(slots) : slots[i] \in DOMAIN r.calls
  <2>1. r.calls \in ByNumbers(Item)
      BY DEF Renderer
  <2>2. DOMAIN r.calls \in Numbers
      BY <2>1, ByNumber DEF Numbers
  <2> QED
      BY <2>2, AscendingIs
<1> HIDE DEF slots
<1>2. r \in Drawn
    BY DrawsNothing
<1>3. ASSUME NEW n \in 1..Len(slots), NEW y \in Drawn PROVE CallDoneAt(y, slots[n]) \in Drawn
  <2>1. slots[n] \in DOMAIN y.calls
      BY <1>1
  <2>2. Draws(y, CallDoneAt(y, slots[n])) /\ DOMAIN CallDoneAt(y, slots[n]).calls = DOMAIN y.calls
      BY <2>1, CallDoneAtIs
  <2>3. CallDoneAt(y, slots[n]) \in Renderer
      BY <2>2 DEF Draws, Extends
  <2> QED
      BY <2>2, <2>3, DrawsOn
<1>4. \A n \in 0..Len(slots) : CallsDone(r, slots)[n] \in Drawn
  <2> HIDE DEF Drawn
  <2> QED
      BY <1>1, <1>2, <1>3, CallsDoneIn
<1>5. CloseCalls(r) = CallsDone(r, slots)[Len(slots)]
    BY DEF CloseCalls, slots
<1> QED
    BY <1>1, <1>4, <1>5

OutputItem == [at : Nat, type : Token, name : Token, body : Text]

LEMMA ItemsAre ==
    ASSUME NEW r \in Renderer
    PROVE  Items(r) \subseteq OutputItem /\ {i.at : i \in Items(r)} \in Numbers
<1> DEFINE thinking == {[at |-> r.thinkAt, type |-> "reasoning", name |-> "", body |-> r.think]}
           message == {[at |-> r.textAt, type |-> "message", name |-> "", body |-> r.text]}
           first == IF r.thinkAt = None THEN {} ELSE thinking
           second == IF r.textAt = None THEN {} ELSE message
           Filled(s) == IF r.calls[s].name \in CustomTools THEN CustomInput(r.calls[s].args) ELSE r.calls[s].args
           CallItem(s) == [at |-> r.calls[s].at, type |-> "call", name |-> r.calls[s].name, body |-> Filled(s)]
           calls == {CallItem(s) : s \in DOMAIN r.calls}
<1>1. Items(r) = first \cup second \cup calls
    BY DEF Items
<1>2. /\ r.thinkAt \in BlockPlaces /\ r.textAt \in BlockPlaces /\ r.think \in Text /\ r.text \in Text
      /\ r.calls \in ByNumbers(Item)
    BY DEF Renderer
<1>3. "" \in Token /\ "reasoning" \in Token /\ "message" \in Token /\ "call" \in Token
    BY DEF Token
<1>4. first \subseteq OutputItem
  <2>1. r.thinkAt # None => r.thinkAt \in Nat
      BY <1>2 DEF BlockPlaces
  <2>2. r.thinkAt # None => [at |-> r.thinkAt, type |-> "reasoning", name |-> "", body |-> r.think] \in OutputItem
      BY <1>2, <1>3, <2>1 DEF OutputItem
  <2> QED
      BY Zenon, <2>2
<1>5. second \subseteq OutputItem
  <2>1. r.textAt # None => r.textAt \in Nat
      BY <1>2 DEF BlockPlaces
  <2>2. r.textAt # None => [at |-> r.textAt, type |-> "message", name |-> "", body |-> r.text] \in OutputItem
      BY <1>2, <1>3, <2>1 DEF OutputItem
  <2> QED
      BY Zenon, <2>2
<1>6. ASSUME NEW s \in DOMAIN r.calls PROVE CallItem(s) \in OutputItem
  <2>1. r.calls[s] \in Item
      BY <1>2, ByNumber
  <2>2. r.calls[s].args \in Text /\ r.calls[s].name \in Token /\ r.calls[s].at \in Nat
      BY <2>1 DEF Item
  <2>3. Filled(s) \in Text
      BY <2>2, InputIs
  <2> HIDE DEF Filled
  <2> QED
      BY <1>3, <2>2, <2>3 DEF OutputItem
<1>7. IsFiniteSet(first) /\ IsFiniteSet(second)
    BY FS_EmptySet, FS_Singleton
<1>8. IsFiniteSet(calls)
  <2>1. IsFiniteSet(DOMAIN r.calls)
      BY <1>2, ByNumber
  <2> DEFINE f == [s \in DOMAIN r.calls |-> CallItem(s)]
  <2>2. f \in Surjection(DOMAIN r.calls, calls)
      BY DEF Surjection
  <2> HIDE DEF f, calls
  <2> QED
      BY <2>1, <2>2, FS_Surjection
<1>9. Items(r) \subseteq OutputItem
  <2>1. calls \subseteq OutputItem
    <3> HIDE DEF CallItem
    <3> QED
        BY <1>6
  <2> HIDE DEF first, second, calls
  <2> QED
      BY <1>1, <1>4, <1>5, <2>1
<1>10. IsFiniteSet(Items(r))
  <2> HIDE DEF first, second, calls
  <2>1. IsFiniteSet(first \cup second)
      BY <1>7, FS_Union
  <2> QED
      BY <1>1, <1>8, <2>1, FS_Union
<1>11. IsFiniteSet({i.at : i \in Items(r)})
  <2> DEFINE g == [i \in Items(r) |-> i.at]
             ats == {i.at : i \in Items(r)}
  <2>1. g \in Surjection(Items(r), ats)
      BY DEF Surjection
  <2> HIDE DEF g, ats
  <2>2. IsFiniteSet(ats)
      BY <1>10, <2>1, FS_Surjection
  <2> QED
      BY <2>2 DEF ats
<1>12. \A i \in Items(r) : i.at \in Nat
    BY <1>9 DEF OutputItem
<1> QED
    BY <1>9, <1>11, <1>12 DEF Numbers

LEMMA ItemDoneAtIs ==
    ASSUME NEW r \in Renderer, NEW items \in SUBSET OutputItem, NEW at \in {i.at : i \in items}
    PROVE  Draws(r, ItemDoneAt(r, items, at))
<1> DEFINE i == CHOOSE i \in items : i.at = at
<1>1. i \in items /\ i.at = at
    OBVIOUS
<1>2. ItemDoneAt(r, items, at) = Emit(r, "item done", at, <<i.type, i.name>> \o i.body)
    BY DEF ItemDoneAt
<1> HIDE DEF i
<1>3. i.type \in Token /\ i.name \in Token /\ i.body \in Text /\ at \in Int
    BY <1>1 DEF OutputItem
<1>4. <<i.type, i.name>> \o i.body \in Text
  <2>1. <<i.type, i.name>> \in Text
      BY <1>3, Bodied
  <2> QED
      BY <1>3, <2>1 DEF Text
<1>5. "item done" \in OpenKinds
    BY DEF OpenKinds
<1> QED
    BY <1>2, <1>3, <1>4, <1>5, DrawsOne

LEMMA CloseItemsIs ==
    ASSUME NEW r \in Renderer
    PROVE  Draws(r, CloseItems(r))
<1> DEFINE T == {i.at : i \in Items(r)}
           ats == Ascending(T)
           Drawn == {y \in Renderer : Draws(r, y)}
<1>1. Items(r) \in SUBSET OutputItem /\ T \in Numbers
    BY ItemsAre
<1>2. Len(ats) \in Nat /\ \A i \in 1..Len(ats) : ats[i] \in T
  <2> HIDE DEF T
  <2> QED
      BY <1>1, AscendingIs
<1>3. CloseItems(r) = ItemsDone(r, Items(r), ats)[Len(ats)]
    BY DEF CloseItems
<1> HIDE DEF ats
<1>4. r \in Drawn
    BY DrawsNothing
<1>5. ASSUME NEW n \in 1..Len(ats), NEW y \in Drawn PROVE ItemDoneAt(y, Items(r), ats[n]) \in Drawn
  <2>1. Draws(y, ItemDoneAt(y, Items(r), ats[n]))
      BY <1>1, <1>2, ItemDoneAtIs
  <2>2. ItemDoneAt(y, Items(r), ats[n]) \in Renderer
      BY <2>1 DEF Draws, Extends
  <2> QED
      BY <2>1, <2>2, DrawsOn
<1>6. \A n \in 0..Len(ats) : ItemsDone(r, Items(r), ats)[n] \in Drawn
  <2> HIDE DEF Drawn
  <2> QED
      BY <1>2, <1>4, <1>5, ItemsDoneIn
<1> QED
    BY <1>2, <1>3, <1>6

LEMMA CallBlockIs ==
    ASSUME NEW r \in Renderer, NEW k \in DOMAIN r.calls
    PROVE  Draws(r, CallBlock(r, k)) /\ CallBlock(r, k).calls = r.calls
<1> DEFINE c == r.calls[k]
           at == r.next
           next == r.next + 1
           s == [r EXCEPT !.next = next]
           begun == Emit(s, "start", at, <<"tool_use", c.name>>)
           filled == Emit(begun, "arguments", at, ArgumentsToInput(c.args))
           closed == Emit(filled, "stop", at, <<>>)
<1>1. CallBlock(r, k) = closed
    BY DEF CallBlock
<1>2. c \in Item
  <2>1. r.calls \in ByNumbers(Item)
      BY DEF Renderer
  <2> QED
      BY <2>1, ByNumber
<1> HIDE DEF c
<1>3. at \in Int /\ next \in Nat /\ {"start", "arguments", "stop"} \subseteq OpenKinds
    BY DEF Renderer, OpenKinds
<1>4. <<"tool_use", c.name>> \in Text /\ ArgumentsToInput(c.args) \in Text /\ <<>> \in Text
  <2>1. "tool_use" \in Token /\ c.name \in Token /\ c.args \in Text
      BY <1>2 DEF Token, Item
  <2> QED
      BY <2>1, Bodied, InputIs
<1> HIDE DEF at, next
<1>5. s \in Renderer
    BY Zenon, <1>3 DEF Renderer
<1>6. s.frames = r.frames /\ s.over = r.over /\ s.calls = r.calls
    BY DEF Renderer
<1> HIDE DEF s
<1>7. Draws(r, s)
    BY <1>5, <1>6, DrawsStill
<1>8. Draws(s, begun) /\ begun \in Renderer /\ begun.calls = s.calls
    BY <1>3, <1>4, <1>5, DrawsOne
<1> HIDE DEF begun
<1>9. Draws(begun, filled) /\ filled \in Renderer /\ filled.calls = begun.calls
    BY <1>3, <1>4, <1>8, DrawsOne
<1> HIDE DEF filled
<1>10. Draws(filled, closed) /\ closed.calls = filled.calls
    BY <1>3, <1>4, <1>9, DrawsOne
<1> HIDE DEF closed
<1>11. Draws(r, begun)
    BY <1>7, <1>8, DrawsOn
<1>12. Draws(r, filled)
    BY <1>9, <1>11, DrawsOn
<1>13. Draws(r, closed)
    BY <1>10, <1>12, DrawsOn
<1> QED
    BY <1>1, <1>6, <1>8, <1>9, <1>10, <1>13

LEMMA CallBlocksAre ==
    ASSUME NEW r \in Renderer, NEW slots, Len(slots) \in Nat, \A i \in 1..Len(slots) : slots[i] \in DOMAIN r.calls
    PROVE  Draws(r, CallBlocks(r, slots)[Len(slots)])
<1> DEFINE Drawn == {y \in Renderer : Draws(r, y) /\ y.calls = r.calls}
<1>1. r \in Drawn
    BY DrawsNothing
<1>2. ASSUME NEW n \in 1..Len(slots), NEW y \in Drawn PROVE CallBlock(y, slots[n]) \in Drawn
  <2>1. slots[n] \in DOMAIN y.calls
      OBVIOUS
  <2>2. Draws(y, CallBlock(y, slots[n])) /\ CallBlock(y, slots[n]).calls = y.calls
      BY <2>1, CallBlockIs
  <2>3. CallBlock(y, slots[n]) \in Renderer
      BY <2>2 DEF Draws, Extends
  <2> QED
      BY <2>2, <2>3, DrawsOn
<1>3. \A n \in 0..Len(slots) : CallBlocks(r, slots)[n] \in Drawn
  <2> HIDE DEF Drawn
  <2> QED
      BY <1>1, <1>2, CallBlocksIn
<1> QED
    BY <1>3

\* The text the client has seen is there to the end.
LEMMA EndIs ==
    ASSUME NEW c \in Endpoint, NEW r \in Renderer
    PROVE  Extends(r, End(c, r), FrameKinds)
<1>1. /\ 0 \in Int /\ <<>> \in Text /\ {"finish", "[DONE]", "completed", "message_stop"} \subseteq FrameKinds
      /\ OpenKinds \subseteq FrameKinds
    BY Bodied DEF FrameKinds, EndFrames
<1>2. ASSUME NEW x, Draws(r, x) PROVE x \in Renderer /\ Extends(r, x, FrameKinds)
    BY <1>1, <1>2, ExtendsMore DEF Draws, Extends
<1>3. Extends(r, ChatEnd(r), FrameKinds)
    BY <1>1, EmitIs DEF ChatEnd
<1>4. Extends(r, ResponsesEnd(r), FrameKinds)
  <2> DEFINE told == CloseText(r)
             called == CloseCalls(told)
             x == CloseItems(called)
             status == IF r.finish = "length" THEN "incomplete" ELSE "completed"
             completed == Emit(x, "completed", 0, <<status>>)
  <2>1. Draws(r, told)
    <3>1. r.textAt \in Int /\ r.text \in Text /\ "done" \in OpenKinds
        BY DEF Renderer, BlockPlaces, None, OpenKinds
    <3> QED
        BY <3>1, DrawsOne, DrawsNothing DEF CloseText
  <2>2. <<status>> \in Text
    <3>1. "incomplete" \in Token /\ "completed" \in Token
        BY DEF Token
    <3> QED
        BY <3>1, Bodied
  <2>3. ResponsesEnd(r) = Emit(completed, "[DONE]", 0, <<>>)
      BY DEF ResponsesEnd
  <2> HIDE DEF told
  <2>4. told \in Renderer
      BY <1>2, <2>1
  <2>5. Draws(told, called)
      BY <2>4, CloseCallsIs
  <2> HIDE DEF called
  <2>6. called \in Renderer /\ Draws(r, called)
      BY <1>2, <2>1, <2>5, DrawsOn
  <2>7. Draws(called, x)
      BY <2>6, CloseItemsIs
  <2> HIDE DEF x, status
  <2>8. x \in Renderer /\ Extends(r, x, FrameKinds)
      BY <1>2, <2>6, <2>7, DrawsOn
  <2>9. completed \in Renderer /\ Extends(x, completed, FrameKinds)
      BY <1>1, <2>2, <2>8, EmitIs
  <2> HIDE DEF completed
  <2>10. Extends(completed, Emit(completed, "[DONE]", 0, <<>>), FrameKinds)
      BY <1>1, <2>9, EmitIs
  <2>11. Extends(r, completed, FrameKinds)
      BY <2>8, <2>9, ExtendsOn
  <2> QED
      BY <2>3, <2>10, <2>11, ExtendsOn
<1>5. Extends(r, MessagesEnd(r), FrameKinds)
  <2> DEFINE slots == Ascending(DOMAIN r.calls)
             thought == StopThinking(r)
             closed == StopText(thought)
             x == CallBlocks(closed, slots)[Len(slots)]
             reason == StopReason(r.finish)
             finished == Emit(x, "finish", 0, <<reason>>)
  <2>1. Len(slots) \in Nat /\ \A i \in 1..Len(slots) : slots[i] \in DOMAIN r.calls
    <3>1. r.calls \in ByNumbers(Item)
        BY DEF Renderer
    <3>2. DOMAIN r.calls \in Numbers
        BY <3>1, ByNumber DEF Numbers
    <3> QED
        BY <3>2, AscendingIs
  <2>2. Draws(r, thought) /\ thought.calls = r.calls
      BY StopThinkingIs
  <2>3. MessagesEnd(r) \in {Emit(Emit(x, "finish", 0, <<StopReason(x.finish)>>), "message_stop", 0, <<>>),
                            Emit(finished, "message_stop", 0, <<>>)}
      BY DEF MessagesEnd
  <2> HIDE DEF slots, thought
  <2>4. thought \in Renderer
      BY <1>2, <2>2
  <2>5. Draws(thought, closed) /\ closed.calls = thought.calls
      BY <2>4, StopTextIs
  <2> HIDE DEF closed
  <2>6. closed \in Renderer /\ Draws(r, closed)
      BY <1>2, <2>2, <2>5, DrawsOn
  <2>7. Draws(closed, x)
      BY <2>1, <2>2, <2>5, <2>6, CallBlocksAre
  <2> HIDE DEF x
  <2>8. x \in Renderer /\ Extends(r, x, FrameKinds)
      BY <1>2, <2>6, <2>7, DrawsOn
  <2>9. ASSUME NEW f PROVE <<StopReason(f)>> \in Text
    <3>1. StopReason(f) \in Token
        BY DEF StopReason, Token
    <3> QED
        BY <3>1, Bodied
  <2>10. ASSUME NEW f
         PROVE  Extends(r, Emit(Emit(x, "finish", 0, <<StopReason(f)>>), "message_stop", 0, <<>>), FrameKinds)
    <3> DEFINE y == Emit(x, "finish", 0, <<StopReason(f)>>)
    <3>1. y \in Renderer /\ Extends(x, y, FrameKinds)
        BY <1>1, <2>8, <2>9, EmitIs
    <3> HIDE DEF y
    <3>2. Extends(y, Emit(y, "message_stop", 0, <<>>), FrameKinds)
        BY <1>1, <3>1, EmitIs
    <3>3. Extends(r, y, FrameKinds)
        BY <2>8, <3>1, ExtendsOn
    <3>4. Extends(r, Emit(y, "message_stop", 0, <<>>), FrameKinds)
        BY <3>2, <3>3, ExtendsOn
    <3> QED
        BY <3>4 DEF y
  <2> QED
      BY <2>3, <2>10
<1>6. End(c, r) \in {ChatEnd(r), ResponsesEnd(r), MessagesEnd(r)}
    BY Zenon DEF End
<1> QED
    BY <1>3, <1>4, <1>5, <1>6

-----------------------------------------------------------------------------
(* One streamed answer.                                                      *)
\* What the upstream has sent; the calls of a message are numbered from one.
Upstream ==
    [n : Nat, text : Text, think : Text, calls : ByNumbers(Text), finish : Token,
     style : Styles, open : Token, blocks : Nat]

\* Every part of the answer is what its component takes it for.
RenderingTypes ==
    /\ focus \in DOMAIN Clients /\ client \in Endpoint
    /\ up \in Upstream
    /\ focus = "blocks" => up.calls \in Seq(Text)
    /\ openai \in OpenAI /\ anthropic \in Anthropic /\ renderer \in Renderer
    /\ attempt \in Nat /\ phase \in {"streaming", "ended", "raised"}

(* How the answer ended, as far as it depends on what was sent: nothing of   *)
(* the renderer's end is there before, what a chat's adapter remembers was   *)
(* sent or is shown, and a message that may end has said why.                *)
SoFar ==
    /\ phase = "streaming" => ~renderer.over
    /\ phase # "ended" => NoEnd(renderer)
    /\ focus # "blocks" =>
         /\ openai.finish = up.finish
         /\ openai.calls # <<>> => up.calls # <<>>
         /\ openai.answer => up.calls # <<>> \/ HasText(renderer)
    /\ focus = "blocks" /\ phase = "streaming" =>
         /\ ~anthropic.stop
         /\ anthropic.delta => up.n > 0 /\ up.open = "" /\ up.finish # ""
         /\ up.open # "" => up.blocks > 0
    /\ phase = "ended" =>
         /\ focus # "blocks" => up.finish # "" \/ up.calls # <<>> \/ HasText(renderer)
         /\ focus = "blocks" => up.n > 0 /\ up.open = ""

LEMMA BeginIs ==
    ASSUME NEW c \in Endpoint
    PROVE  Begin(c) \in Renderer /\ ~Begin(c).over /\ NoEnd(Begin(c))
<1>1. NewRenderer \in Renderer /\ NewRenderer.over = FALSE /\ NewRenderer.frames = <<>>
  <2>1. <<>> \in Seq(Frame) /\ "stop" \in Token /\ "" \in Token /\ <<>> \in Text /\ None \in BlockPlaces
        /\ {} \in SUBSET Nat /\ 0 \in Nat
      BY DEF Token, Text, BlockPlaces
  <2>2. <<>> \in ByNumbers(Item)
      BY NothingNumbered
  <2>3. NewRenderer \in Renderer
      BY Zenon, <2>1, <2>2 DEF NewRenderer, Renderer
  <2> QED
      BY <2>3 DEF NewRenderer
<1>2. NoEnd(NewRenderer)
    BY <1>1 DEF NoEnd
<1>3. /\ Draws(NewRenderer, Emit(NewRenderer, "created", 0, <<>>))
      /\ Draws(NewRenderer, Emit(NewRenderer, "message_start", 0, <<>>))
  <2>1. {"created", "message_start"} \subseteq OpenKinds
      BY DEF OpenKinds
  <2> QED
      BY <1>1, <2>1, Bodied, DrawsOne
<1>4. Draws(NewRenderer, Begin(c))
  <2>1. Begin(c) \in {Emit(NewRenderer, "created", 0, <<>>), Emit(NewRenderer, "message_start", 0, <<>>), NewRenderer}
      BY Zenon DEF Begin
  <2> QED
      BY <1>1, <1>3, <2>1, DrawsNothing
<1>5. Begin(c) \in Renderer /\ Begin(c).over = NewRenderer.over
    BY <1>4 DEF Draws, Extends
<1>6. NoEnd(Begin(c))
    BY <1>1, <1>2, <1>4, ExtendsKeeps DEF Draws
<1> QED
    BY <1>1, <1>5, <1>6

LEMMA NewAdaptersAre ==
    /\ NewAdapter \in OpenAI /\ NewAdapter.finish = "" /\ NewAdapter.calls = <<>> /\ NewAdapter.answer = FALSE
    /\ NewMessage \in Anthropic /\ NewMessage.delta = FALSE /\ NewMessage.stop = FALSE
<1>1. <<>> \in Text /\ "" \in Token /\ "stop" \in Token
    BY DEF Text, Token
<1>2. <<>> \in ByNumbers(ToolCall) /\ <<>> \in ByNumbers(UpBlock) /\ <<>> \in ByNumbers(Slot)
    BY NothingNumbered
<1>3. NewAdapter \in OpenAI
    BY Zenon, <1>1, <1>2 DEF NewAdapter, OpenAI
<1>4. NewMessage \in Anthropic
    BY Zenon, <1>1, <1>2 DEF NewMessage, Anthropic
<1> QED
    BY <1>3, <1>4 DEF NewAdapter, NewMessage

LEMMA NothingSentIs ==
    /\ NothingSent \in Upstream /\ NothingSent.calls = <<>> /\ NothingSent.finish = "" /\ NothingSent.open = ""
    /\ \A s \in Styles : LET u == [NothingSent EXCEPT !.style = s] IN
         u \in Upstream /\ u.calls = <<>> /\ u.finish = "" /\ u.open = ""
<1>1. <<>> \in Text /\ "" \in Token /\ <<0, 1>> \in Styles /\ 0 \in Nat
    BY DEF Text, Token, Styles
<1>2. <<>> \in ByNumbers(Text)
    BY NothingNumbered
<1>3. NothingSent \in Upstream
    BY Zenon, <1>1, <1>2 DEF NothingSent, Upstream
<1>4. ASSUME NEW s \in Styles PROVE [NothingSent EXCEPT !.style = s] \in Upstream
    BY Zenon, <1>3 DEF Upstream
<1> QED
    BY <1>3, <1>4 DEF NothingSent

LEMMA RenderingStarts ==
    RenderingInit => RenderingTypes /\ SoFar
<1> SUFFICES ASSUME RenderingInit PROVE RenderingTypes /\ SoFar
    OBVIOUS
<1>1. focus \in DOMAIN Clients /\ client \in Clients[focus] /\ openai = NewAdapter /\ anthropic = NewMessage
      /\ phase = "streaming"
    BY DEF RenderingInit
<1>2. client \in Endpoint
  <2>1. focus \in {"think", "args", "chunks", "blocks"}
      BY <1>1 DEF Clients
  <2> QED
      BY <1>1, <2>1 DEF Clients, Endpoint
<1>3. up \in Upstream /\ up.calls = <<>> /\ up.finish = "" /\ up.open = ""
    BY NothingSentIs DEF RenderingInit
<1>4. renderer \in Renderer /\ ~renderer.over /\ NoEnd(renderer)
  <2>1. Begin(client) \in Renderer /\ ~Begin(client).over /\ NoEnd(Begin(client))
      BY <1>2, BeginIs
  <2>2. MessageStart \in Spoken
      BY EventsAre DEF Spoken
  <2> DEFINE x == Render(client, Begin(client), MessageStart)
  <2>3. Draws(Begin(client), x)
      BY <1>2, <2>1, <2>2, RenderIs DEF Draw
  <2>4. x \in Renderer /\ ~x.over /\ NoEnd(x)
      BY <2>1, <2>3, ExtendsKeeps DEF Draws, Extends
  <2>5. renderer \in {Begin(client), x}
      BY DEF RenderingInit
  <2> QED
      BY <2>1, <2>4, <2>5
<1>5. RenderingTypes
  <2>1. up.calls \in Seq(Text)
      BY <1>3, Lists
  <2>2. openai \in OpenAI /\ anthropic \in Anthropic
      BY <1>1, NewAdaptersAre
  <2>3. attempt \in Nat
      BY DEF RenderingInit
  <2> QED
      BY <1>1, <1>2, <1>3, <1>4, <2>1, <2>2, <2>3 DEF RenderingTypes
<1>6. /\ openai.finish = up.finish /\ openai.calls = <<>> /\ ~openai.answer
      /\ ~anthropic.stop /\ ~anthropic.delta
    BY <1>1, <1>3, NewAdaptersAre
<1>7. SoFar
    BY <1>1, <1>3, <1>4, <1>6 DEF SoFar
<1> QED
    BY <1>5, <1>7

\* What a step does to the renderer: nothing, or the events of some answer
\* are rendered, with its end behind them when the answer ends.
Rendered ==
    \/ renderer' = renderer /\ phase' \in {phase, "raised"}
    \/ \E out \in Account :
         \/ renderer' = Rendering(renderer, out) /\ phase' # "ended"
         \/ renderer' = End(client, Rendering(renderer, out)) /\ phase' = "ended"

\* A chunk that the upstream sends, and what it has sent then.
Fits(c, s) == (c.calls = <<>> /\ s.calls = up.calls) \/ s.calls # <<>>
SendsChunk == \E c \in UpChunk, s \in Upstream : Fits(c, s) /\ Send(c, s)

LEMMA SendsChunkKeeps ==
    ASSUME RenderingTypes, SoFar, SendsChunk
    PROVE  RenderingTypes' /\ SoFar' /\ Rendered
<1>1. PICK c \in UpChunk, s \in Upstream : Fits(c, s) /\ Send(c, s)
    BY DEF SendsChunk
<1> DEFINE x == Chunk(openai, c)
           n == s.n + 1
           f == c.finish
           sent == [s EXCEPT !.n = n, !.finish = f]
<1>2. /\ phase = "streaming" /\ focus # "blocks" /\ up.finish = ""
      /\ up' = sent /\ openai' = x.a /\ renderer' = Rendering(renderer, x.out)
      /\ focus' = focus /\ client' = client /\ anthropic' = anthropic /\ attempt' = attempt /\ phase' = phase
    BY <1>1 DEF Send, Underway, setup
<1>3. /\ focus \in DOMAIN Clients /\ client \in Endpoint /\ openai \in OpenAI /\ anthropic \in Anthropic
      /\ renderer \in Renderer /\ attempt \in Nat
    BY DEF RenderingTypes
<1>4. /\ ~renderer.over /\ NoEnd(renderer) /\ openai.finish = ""
      /\ openai.calls # <<>> => up.calls # <<>>
      /\ openai.answer => up.calls # <<>> \/ HasText(renderer)
    BY <1>2 DEF SoFar
<1>5. sent \in Upstream /\ sent.finish = c.finish /\ sent.calls = s.calls
  <2>1. n \in Nat /\ f \in Token
      BY DEF Upstream, UpChunk
  <2> HIDE DEF n, f
  <2>2. sent \in Upstream
      BY Zenon, <2>1 DEF Upstream
  <2>3. sent.finish = f /\ sent.calls = s.calls
      BY DEF Upstream
  <2> QED
      BY <2>2, <2>3 DEF f
<1>6. /\ x.a \in OpenAI /\ x.out \in Seq(Spoken) /\ x.a.finish = c.finish
      /\ c.calls = <<>> =>
           /\ x.a.calls = openai.calls
           /\ x.a.answer => openai.answer \/ HasWords(x.out)
  <2>1. /\ x.a \in OpenAI /\ x.out \in Seq(Spoken)
        /\ c.calls = <<>> =>
             /\ x.a.calls = openai.calls
             /\ x.a.answer => openai.answer \/ HasWords(x.out)
      BY <1>3, ChunkIs
  <2>2. x.a.finish = IF c.finish = "" THEN openai.finish ELSE c.finish
      BY <1>3, ChunkIs
  <2> HIDE DEF x
  <2>3. x.a.finish = c.finish
      BY <1>4, <2>2
  <2> QED
      BY <2>1, <2>3
<1> HIDE DEF x, sent
<1>7. x.out \in Account
  <2>1. Spoken \subseteq OutputEvent
      BY DEF Spoken
  <2> QED
      BY <1>6, <2>1 DEF Account
<1>8. /\ Draws(renderer, Rendering(renderer, x.out))
      /\ HasText(renderer) \/ HasWords(x.out) => HasText(Rendering(renderer, x.out))
    BY <1>3, <1>4, <1>6, <1>7, RenderingIs
<1>9. renderer' \in Renderer /\ ~renderer'.over /\ NoEnd(renderer')
      /\ (HasText(renderer) \/ HasWords(x.out) => HasText(renderer'))
  <2>1. NoEnd(Rendering(renderer, x.out))
      BY <1>3, <1>4, <1>8, ExtendsKeeps DEF Draws
  <2> QED
      BY <1>2, <1>4, <1>8, <2>1 DEF Draws, Extends
<1>10. RenderingTypes'
    BY <1>2, <1>3, <1>5, <1>6, <1>9 DEF RenderingTypes
<1>11. openai'.finish = up'.finish
    BY <1>2, <1>5, <1>6
<1>12. (openai'.calls # <<>> => up'.calls # <<>>) /\ (openai'.answer => up'.calls # <<>> \/ HasText(renderer'))
  <2>1. CASE s.calls # <<>>
      BY <1>2, <1>5, <2>1
  <2>2. CASE c.calls = <<>> /\ s.calls = up.calls
      BY <1>2, <1>4, <1>5, <1>6, <1>9, <2>2
  <2> QED
      BY <1>1, <2>1, <2>2 DEF Fits
<1>13. SoFar'
    BY <1>2, <1>9, <1>11, <1>12 DEF SoFar, HasText, NoEnd
<1>14. Rendered
    BY <1>2, <1>7 DEF Rendered
<1> QED
    BY <1>10, <1>13, <1>14

\* The events are over: the renderer ends, or fails with nothing of an end shown.
LEMMA ConcludeIs ==
    ASSUME client \in Endpoint, NEW r \in Renderer, Conclude(r),
           client \in {"responses", "messages"} => NoEnd(r)
    PROVE  /\ renderer' \in Renderer /\ (HasText(r) => HasText(renderer'))
           /\ \/ phase' = "raised" /\ NoEnd(renderer') /\ renderer' = r
              \/ phase' = "ended" /\ renderer' = End(client, r)
<1>1. CASE client = "responses" /\ NothingCame(r)
    BY <1>1 DEF Conclude
<1>2. CASE ~(client = "responses" /\ NothingCame(r))
  <2>1. renderer' = End(client, r) /\ phase' = "ended"
      BY <1>2 DEF Conclude
  <2>2. Extends(r, End(client, r), FrameKinds)
      BY EndIs
  <2>3. End(client, r) \in Renderer /\ (HasText(r) => HasText(End(client, r)))
      BY <2>2, ExtendsKeeps DEF Extends
  <2> QED
      BY <2>1, <2>3
<1> QED
    BY <1>1, <1>2

LEMMA EndOfChunksKeeps ==
    ASSUME RenderingTypes, SoFar, phase = "streaming", focus # "blocks", EndOfChunks
    PROVE  RenderingTypes' /\ SoFar' /\ Rendered
<1> DEFINE x == Finish(openai)
           r == Rendering(renderer, x.out)
<1>1. /\ focus \in DOMAIN Clients /\ client \in Endpoint /\ openai \in OpenAI /\ anthropic \in Anthropic
      /\ renderer \in Renderer /\ up \in Upstream /\ attempt \in Nat
    BY DEF RenderingTypes
<1>2. /\ ~renderer.over /\ NoEnd(renderer) /\ openai.finish = up.finish
      /\ openai.calls # <<>> => up.calls # <<>>
      /\ openai.answer => up.calls # <<>> \/ HasText(renderer)
    BY DEF SoFar
<1>3. /\ openai' = x.a
      /\ IF Truncated(x.a) THEN renderer' = r /\ phase' = "raised" ELSE Conclude(r)
      /\ focus' = focus /\ client' = client /\ up' = up /\ anthropic' = anthropic /\ attempt' = attempt
    BY DEF EndOfChunks, setup
<1>4. /\ x.a \in OpenAI /\ x.out \in Account /\ x.a.finish = up.finish
      /\ x.a.calls # <<>> => up.calls # <<>>
      /\ x.a.answer => openai.answer \/ HasWords(x.out)
      /\ Truncated(x.a) => x.out \in Seq(Spoken)
    BY <1>1, <1>2, FinishIs
<1> HIDE DEF x
<1>5. /\ r \in Renderer
      /\ HasText(renderer) \/ HasWords(x.out) => HasText(r)
      /\ Truncated(x.a) => NoEnd(r)
      /\ client \in {"responses", "messages"} => NoEnd(r)
  <2>1. x.out \in Seq(Spoken) => Draws(renderer, r)
      BY <1>1, <1>2, <1>4, RenderingIs
  <2>2. Draws(renderer, r) => NoEnd(r)
      BY <1>1, <1>2, ExtendsKeeps DEF Draws
  <2> QED
      BY <1>1, <1>2, <1>4, <2>1, <2>2, RenderingIs
<1>r. r = Rendering(renderer, x.out)
    OBVIOUS
<1> HIDE DEF r
<1>6. x.a.answer => up.calls # <<>> \/ HasText(r)
    BY <1>2, <1>4, <1>5
<1>7. /\ renderer' \in Renderer /\ (HasText(r) => HasText(renderer'))
      /\ \/ phase' = "raised" /\ NoEnd(renderer') /\ renderer' = r
         \/ phase' = "ended" /\ ~Truncated(x.a) /\ renderer' = End(client, r)
  <2>1. CASE Truncated(x.a)
      BY <1>3, <1>5, <2>1
  <2>2. CASE ~Truncated(x.a)
      BY <1>1, <1>3, <1>5, <2>2, ConcludeIs
  <2> QED
      BY <2>1, <2>2
<1>8. RenderingTypes'
    BY <1>1, <1>3, <1>4, <1>7 DEF RenderingTypes
<1>9. openai'.finish = up'.finish /\ (openai'.calls # <<>> => up'.calls # <<>>)
      /\ (openai'.answer => up'.calls # <<>> \/ HasText(renderer'))
    BY <1>3, <1>4, <1>6, <1>7
<1>10. ~Truncated(x.a) => up.finish # "" \/ up.calls # <<>> \/ HasText(renderer')
    BY <1>4, <1>6, <1>7 DEF Truncated
<1>11. SoFar'
    BY <1>3, <1>7, <1>9, <1>10 DEF SoFar, HasText, NoEnd
<1>12. Rendered
    BY <1>4, <1>7, <1>r DEF Rendered
<1> QED
    BY <1>8, <1>11, <1>12

\* An event of a message, and what the upstream has sent then.
Follows(e, s) ==
    /\ s.calls \in Seq(Text)
    /\ e.kind # "message_stop"
    /\ e.kind # "message_delta" => ~anthropic.delta
    /\ e.kind = "message_delta" => s.open = "" /\ s.finish # ""
    /\ s.open # "" => s.blocks > 0
ReceivesEvent == \E e \in UpEvent, s \in Upstream : Follows(e, s) /\ Receive(e, s)

LEMMA ReceivesEventKeeps ==
    ASSUME RenderingTypes, SoFar, ReceivesEvent
    PROVE  RenderingTypes' /\ SoFar' /\ Rendered
<1>1. PICK e \in UpEvent, s \in Upstream : Follows(e, s) /\ Receive(e, s)
    BY DEF ReceivesEvent
<1> DEFINE x == Handled(anthropic, e)
           n == s.n + 1
           sent == [s EXCEPT !.n = n]
<1>2. /\ phase = "streaming" /\ focus = "blocks"
      /\ up' = sent /\ anthropic' = x.m /\ renderer' = Rendering(renderer, x.out)
      /\ focus' = focus /\ client' = client /\ openai' = openai /\ attempt' = attempt /\ phase' = phase
    BY <1>1 DEF Receive, Underway, setup
<1>3. /\ focus \in DOMAIN Clients /\ client \in Endpoint /\ openai \in OpenAI /\ anthropic \in Anthropic
      /\ renderer \in Renderer /\ attempt \in Nat
    BY DEF RenderingTypes
<1>4. ~renderer.over /\ NoEnd(renderer) /\ ~anthropic.stop
    BY <1>2 DEF SoFar
<1>5. sent \in Upstream /\ sent.n > 0 /\ sent.open = s.open /\ sent.finish = s.finish /\ sent.blocks = s.blocks
      /\ sent.calls = s.calls
  <2>1. n \in Nat /\ n > 0
      BY DEF Upstream
  <2> HIDE DEF n
  <2>2. sent \in Upstream
      BY Zenon, <2>1 DEF Upstream
  <2> QED
      BY <2>1, <2>2 DEF Upstream
<1>6. /\ x.m \in Anthropic /\ x.out \in Seq(Spoken)
      /\ e.kind # "message_delta" => x.m.delta = anthropic.delta
      /\ e.kind # "message_stop" => x.m.stop = anthropic.stop
    BY <1>3, HandledIs
<1> HIDE DEF x, sent
<1>7. x.out \in Account
  <2>1. Spoken \subseteq OutputEvent
      BY DEF Spoken
  <2> QED
      BY <1>6, <2>1 DEF Account
<1>8. Draws(renderer, Rendering(renderer, x.out))
    BY <1>3, <1>4, <1>6, <1>7, RenderingIs
<1>9. renderer' \in Renderer /\ ~renderer'.over /\ NoEnd(renderer')
  <2>1. NoEnd(Rendering(renderer, x.out))
      BY <1>3, <1>4, <1>8, ExtendsKeeps DEF Draws
  <2> QED
      BY <1>2, <1>4, <1>8, <2>1 DEF Draws, Extends
<1>10. RenderingTypes'
    BY <1>1, <1>2, <1>3, <1>5, <1>6, <1>9 DEF RenderingTypes, Follows
<1>11. ~anthropic'.stop /\ (anthropic'.delta => e.kind = "message_delta")
    BY <1>1, <1>2, <1>4, <1>6 DEF Follows
<1>12. anthropic'.delta => up'.n > 0 /\ up'.open = "" /\ up'.finish # ""
    BY <1>1, <1>2, <1>5, <1>11 DEF Follows
<1>13. up'.open # "" => up'.blocks > 0
    BY <1>1, <1>2, <1>5 DEF Follows
<1>14. SoFar'
    BY <1>2, <1>9, <1>11, <1>12, <1>13 DEF SoFar, HasText, NoEnd
<1>15. Rendered
    BY <1>2, <1>7 DEF Rendered
<1> QED
    BY <1>10, <1>14, <1>15

\* A message ends: it was begun, and no block of it is open.
LEMMA EndOfMessageKeeps ==
    ASSUME RenderingTypes, SoFar, phase = "streaming", focus = "blocks", up.n > 0, up.open = "",
           NEW m \in Anthropic, Conclude(Rendering(renderer, Ending(m))), anthropic' \in Anthropic,
           UNCHANGED <<focus, client, up, openai, attempt>>
    PROVE  RenderingTypes' /\ SoFar' /\ Rendered
<1> DEFINE out == Ending(m)
           r == Rendering(renderer, out)
<1>1. /\ focus \in DOMAIN Clients /\ client \in Endpoint /\ openai \in OpenAI
      /\ renderer \in Renderer /\ up \in Upstream /\ up.calls \in Seq(Text) /\ attempt \in Nat
    BY DEF RenderingTypes
<1>2. ~renderer.over /\ NoEnd(renderer)
    BY DEF SoFar
<1>3. out \in Account
  <2>1. m.finish \in Token
      BY DEF Anthropic
  <2>2. <<Blank>> \in Seq(Spoken)
    <3>1. Blank \in Spoken
        BY EventsAre DEF Spoken
    <3> QED
        BY <3>1, Lists
  <2>3. Append(<<Blank>>, MessageDone(m.finish)) \in Account
      BY <2>1, <2>2, EndedAccount
  <2>4. out = Append(<<Blank>>, MessageDone(m.finish))
    <3> DEFINE b == Blank
               d == MessageDone(m.finish)
    <3>1. out = <<b, d>>
        BY DEF Ending
    <3>2. b \in {b, d} /\ d \in {b, d}
        OBVIOUS
    <3> HIDE DEF b, d
    <3>3. <<b, d>> = Append(<<b>>, d)
        BY <3>2, LastOfTwo
    <3>4. out = Append(<<b>>, d)
        BY <3>1, <3>3
    <3> QED
        BY <3>4 DEF b, d
  <2> QED
      BY <2>3, <2>4
<1> HIDE DEF out
<1>4. r \in Renderer /\ (client \in {"responses", "messages"} => NoEnd(r))
    BY <1>1, <1>2, <1>3, RenderingIs
<1>5. Conclude(r) /\ r = Rendering(renderer, out)
    BY DEF out
<1> HIDE DEF r
<1>6. /\ renderer' \in Renderer
      /\ \/ phase' = "raised" /\ NoEnd(renderer') /\ renderer' = r
         \/ phase' = "ended" /\ renderer' = End(client, r)
    BY <1>1, <1>4, <1>5, ConcludeIs
<1>7. RenderingTypes'
    BY <1>1, <1>6 DEF RenderingTypes
<1>8. SoFar'
    BY <1>6 DEF SoFar, NoEnd, HasText
<1>9. Rendered
    BY <1>3, <1>5, <1>6 DEF Rendered
<1> QED
    BY <1>7, <1>8, <1>9

----------------------------------------------------------------------------
(* What each upstream sends.                                                 *)
LEMMA EmptyIs ==
    /\ Empty \in UpChunk /\ Empty.calls = <<>>
    /\ \A v \in Text, f \in Token : LET c == [Empty EXCEPT !.content = v, !.finish = f] IN
         c \in UpChunk /\ c.calls = <<>>
    /\ \A v, w \in Text, f \in Token :
         LET c == [Empty EXCEPT !.content = v, !.reasoning = w, !.finish = f] IN
         c \in UpChunk /\ c.calls = <<>>
    /\ \A v \in Seq(ToolPiece) : [Empty EXCEPT !.calls = v] \in UpChunk
    /\ \A v \in Seq(ToolPiece), f \in Token : [Empty EXCEPT !.calls = v, !.finish = f] \in UpChunk
<1>1. <<>> \in Text /\ "" \in Token /\ <<>> \in Seq(ToolPiece)
    BY DEF Text, Token
<1>2. Empty \in UpChunk
    BY Zenon, <1>1 DEF Empty, UpChunk
<1>3. ASSUME NEW v \in Text, NEW w \in Text, NEW f \in Token
      PROVE  /\ [Empty EXCEPT !.content = v, !.finish = f] \in UpChunk
             /\ [Empty EXCEPT !.content = v, !.reasoning = w, !.finish = f] \in UpChunk
    BY Zenon, <1>2 DEF UpChunk
<1>4. ASSUME NEW v \in Seq(ToolPiece), NEW f \in Token
      PROVE  [Empty EXCEPT !.calls = v] \in UpChunk /\ [Empty EXCEPT !.calls = v, !.finish = f] \in UpChunk
    BY Zenon, <1>2 DEF UpChunk
<1>5. Empty.calls = <<>>
    BY DEF Empty
<1>6. ASSUME NEW v \in Text, NEW w \in Text, NEW f \in Token
      PROVE  /\ [Empty EXCEPT !.content = v, !.finish = f].calls = Empty.calls
             /\ [Empty EXCEPT !.content = v, !.reasoning = w, !.finish = f].calls = Empty.calls
    BY <1>2 DEF UpChunk
<1> HIDE DEF Empty
<1>7. \A v \in Text, f \in Token : LET c == [Empty EXCEPT !.content = v, !.finish = f] IN
         c \in UpChunk /\ c.calls = <<>>
    BY <1>1, <1>3, <1>5, <1>6
<1>8. \A v, w \in Text, f \in Token :
         LET c == [Empty EXCEPT !.content = v, !.reasoning = w, !.finish = f] IN
         c \in UpChunk /\ c.calls = <<>>
    BY <1>3, <1>5, <1>6
<1>9. /\ \A v \in Seq(ToolPiece) : [Empty EXCEPT !.calls = v] \in UpChunk
      /\ \A v \in Seq(ToolPiece), f \in Token : [Empty EXCEPT !.calls = v, !.finish = f] \in UpChunk
    BY <1>1, <1>4
<1> QED
    BY Zenon, <1>2, <1>5, <1>7, <1>8, <1>9

LEMMA LongerList ==
    ASSUME NEW S, NEW v \in Seq(S), NEW w \in Seq(S)
    PROVE  v \o w \in Seq(S)
OBVIOUS

LEMMA ReplacedIn ==
    ASSUME NEW S, NEW s \in Seq(S), NEW k, NEW v \in S
    PROVE  [s EXCEPT ![k] = v] \in Seq(S)
<1>1. Len(s) \in Nat /\ s \in [1..Len(s) -> S]
    OBVIOUS
<1>2. [s EXCEPT ![k] = v] \in [1..Len(s) -> S]
    BY <1>1
<1> QED
    BY <1>1, <1>2, IsASeq

LEMMA Longer ==
    ASSUME NEW v \in Text, NEW w \in Text
    PROVE  v \o w \in Text
BY DEF Text

\* Every piece of text or of arguments is one of these.
LEMMA PiecesAre ==
    /\ TextPieces \subseteq Text /\ ArgumentPieces \subseteq Text /\ CallPieces \subseteq Text
    /\ Plausible \subseteq Text
<1>1. ASSUME NEW a \in Token, NEW b \in Token, NEW c \in Token, NEW d \in Token
      PROVE  <<>> \in Text /\ <<a>> \in Text /\ <<a, b>> \in Text /\ <<a, b, c>> \in Text /\ <<a, b, c, d>> \in Text
    BY DEF Text
<1>2. /\ " " \in Token /\ "<" \in Token /\ "t" \in Token /\ "/" \in Token /\ "x" \in Token /\ "q" \in Token
      /\ "b" \in Token /\ "u" \in Token /\ "n" \in Token /\ "," \in Token /\ "{" \in Token
      /\ "v" \in Token /\ "}" \in Token
    BY DEF Token
<1> HIDE DEF Token, Text
<1>3. TextPieces \subseteq Text
  <2>1. /\ <<"<">> \in Text /\ <<"t">> \in Text /\ <<"/">> \in Text /\ <<"x">> \in Text /\ <<" ">> \in Text
        /\ <<"<", "t">> \in Text /\ <<"<", "/">> \in Text /\ <<"<", "/", "x", " ">> \in Text
        /\ <<"t", "x">> \in Text /\ <<"x", "<">> \in Text
      BY Zenon, <1>1, <1>2
  <2> QED
      BY Zenon, <2>1 DEF TextPieces
<1>4. ArgumentPieces \subseteq Text
  <2>1. /\ <<"q">> \in Text /\ <<"b">> \in Text /\ <<"u">> \in Text /\ <<"n">> \in Text /\ <<",">> \in Text
        /\ <<"x">> \in Text /\ <<"u", "n">> \in Text /\ <<"b", "q">> \in Text /\ <<"q", ",">> \in Text
      BY Zenon, <1>1, <1>2
  <2> QED
      BY Zenon, <2>1 DEF ArgumentPieces
<1>5. <<>> \in Text /\ <<"{", "v">> \in Text /\ <<"}">> \in Text /\ <<"v">> \in Text /\ <<"v", "v">> \in Text
  <2>1. <<>> \in Text
      BY DEF Text
  <2>2. <<"{", "v">> \in Text /\ <<"v", "v">> \in Text
      BY Zenon, <1>1, <1>2
  <2>3. <<"}">> \in Text /\ <<"v">> \in Text
      BY Zenon, <1>1, <1>2
  <2> QED
      BY <2>1, <2>2, <2>3
<1>6. CallPieces \subseteq Text
    BY Zenon, <1>5 DEF CallPieces
<1>7. Object \in Text
  <2>1. <<"{", "v", "}">> \in Text
      BY Zenon, <1>1, <1>2
  <2> QED
      BY Zenon, <2>1 DEF Object
<1>8. Plausible \subseteq Text
    BY Zenon, <1>5, <1>7 DEF Plausible
<1> QED
    BY <1>3, <1>4, <1>6, <1>8

LEMMA SendTextSends ==
    ASSUME RenderingTypes, SendText PROVE SendsChunk
<1>1. PICK piece \in TextPieces, finish \in {"", "stop"} :
        Send([Empty EXCEPT !.content = piece, !.finish = finish], [up EXCEPT !.text = @ \o piece])
    BY DEF SendText
<1> DEFINE c == [Empty EXCEPT !.content = piece, !.finish = finish]
           s == [up EXCEPT !.text = @ \o piece]
<1>2. piece \in Text /\ finish \in Token
    BY PiecesAre DEF Token
<1>3. up \in Upstream /\ up.text \in Text
    BY DEF RenderingTypes, Upstream
<1>4. c \in UpChunk /\ c.calls = <<>>
    BY <1>2, EmptyIs
<1>5. s \in Upstream /\ s.calls = up.calls
  <2>1. up.text \o piece \in Text
      BY <1>2, <1>3, Longer
  <2>2. s \in Upstream
      BY Zenon, <1>3, <2>1 DEF Upstream
  <2>3. s.calls = up.calls
      BY <1>3 DEF Upstream
  <2> QED
      BY <2>2, <2>3
<1>6. Send(c, s)
    BY <1>1
<1> HIDE DEF c, s
<1> QED
    BY <1>4, <1>5, <1>6 DEF SendsChunk, Fits

LEMMA SendWordsSends ==
    ASSUME RenderingTypes, SendWords PROVE SendsChunk
<1>1. PICK content \in {<<>>, <<"x">>}, reasoning \in {<<>>, <<"r">>}, finish \in {"", "stop", "length"} :
        Send([Empty EXCEPT !.content = content, !.reasoning = reasoning, !.finish = finish],
             [up EXCEPT !.text = @ \o content, !.think = @ \o reasoning])
    BY DEF SendWords
<1> DEFINE c == [Empty EXCEPT !.content = content, !.reasoning = reasoning, !.finish = finish]
           s == [up EXCEPT !.text = @ \o content, !.think = @ \o reasoning]
<1>2. content \in Text /\ reasoning \in Text /\ finish \in Token
  <2>1. "x" \in Token /\ "r" \in Token
      BY DEF Token
  <2>2. <<>> \in Text /\ <<"x">> \in Text /\ <<"r">> \in Text
      BY <2>1, Lists DEF Text
  <2>3. finish \in Token
      BY DEF Token
  <2> QED
      BY <2>1, <2>2, <2>3
<1>3. up \in Upstream /\ up.text \in Text /\ up.think \in Text
    BY DEF RenderingTypes, Upstream
<1>4. c \in UpChunk /\ c.calls = <<>>
    BY <1>2, EmptyIs
<1>5. s \in Upstream /\ s.calls = up.calls
  <2>1. up.text \o content \in Text /\ up.think \o reasoning \in Text
      BY <1>2, <1>3, Longer
  <2>2. s \in Upstream
      BY Zenon, <1>3, <2>1 DEF Upstream
  <2>3. s.calls = up.calls
      BY <1>3 DEF Upstream
  <2> QED
      BY <2>2, <2>3
<1>6. Send(c, s)
    BY <1>1
<1> HIDE DEF c, s
<1> QED
    BY <1>4, <1>5, <1>6 DEF SendsChunk, Fits

\* A chunk with calls, and the calls as they are then.
LEMMA SendsCalls ==
    ASSUME RenderingTypes, NEW c \in UpChunk, NEW calls \in ByNumbers(Text), calls # <<>>,
           Send(c, [up EXCEPT !.calls = calls])
    PROVE  SendsChunk
<1> DEFINE s == [up EXCEPT !.calls = calls]
<1>1. up \in Upstream
    BY DEF RenderingTypes
<1>2. s \in Upstream
    BY Zenon, <1>1 DEF Upstream
<1>3. s.calls = calls
    BY <1>1 DEF Upstream
<1> HIDE DEF s
<1>4. Send(c, s)
    BY DEF s
<1> QED
    BY <1>2, <1>3, <1>4 DEF SendsChunk, Fits

LEMMA SaidIs ==
    ASSUME RenderingTypes, NEW k \in 1..2
    PROVE  Said(k) \in Text
<1>1. up.calls \in ByNumbers(Text)
    BY DEF RenderingTypes, Upstream
<1>2. <<>> \in Text
    BY DEF Text
<1>3. k \in DOMAIN up.calls => up.calls[k] \in Text
    BY <1>1, ByNumber
<1> QED
    BY <1>2, <1>3 DEF Said

LEMMA PieceIs ==
    ASSUME NEW k \in 1..2, NEW at \in Int, NEW id \in Token, NEW args \in Text
    PROVE  PieceOf(k, at, id, args) \in ToolPiece /\ PieceOf(k, at, id, args).args = args
<1> DEFINE name == IF k \in DOMAIN up.calls THEN "" ELSE Names[k]
<1>1. name \in Token
  <2>1. "" \in Token /\ "f" \in Token /\ "p" \in Token
      BY DEF Token
  <2>2. Names[k] \in {"f", "p"}
      BY DEF Names
  <2> QED
      BY <2>1, <2>2
<1>2. PieceOf(k, at, id, args) = [at |-> at, id |-> id, args |-> args, name |-> name]
    BY DEF PieceOf
<1> HIDE DEF name
<1> QED
    BY <1>1, <1>2 DEF ToolPiece

\* What a call has said with one more piece of arguments.
LEMMA SaidMore ==
    ASSUME RenderingTypes, NEW k \in 1..2, NEW piece \in Text
    PROVE  Put(up.calls, k, Said(k) \o piece) \in ByNumbers(Text) /\ Put(up.calls, k, Said(k) \o piece) # <<>>
<1>1. up.calls \in ByNumbers(Text)
    BY DEF RenderingTypes, Upstream
<1>2. k \in Nat /\ Said(k) \in Text
    BY SaidIs
<1> DEFINE v == Said(k) \o piece
<1>3. v \in Text
    BY <1>2, Longer
<1> HIDE DEF v
<1>4. Put(up.calls, k, v) \in ByNumbers(Text)
    BY <1>1, <1>2, <1>3, NumberedPut
<1>5. Put(up.calls, k, v) # <<>>
    BY <1>1, <1>2, <1>3, SomethingPut
<1> QED
    BY <1>4, <1>5 DEF v

LEMMA SendArgumentsSends ==
    ASSUME RenderingTypes, SendArguments PROVE SendsChunk
<1>1. PICK piece \in ArgumentPieces :
        Send([Empty EXCEPT !.calls = <<PieceOf(1, 0, "c1", piece)>>], [up EXCEPT !.calls = Put(@, 1, Said(1) \o piece)])
    BY DEF SendArguments
<1> DEFINE c == [Empty EXCEPT !.calls = <<PieceOf(1, 0, "c1", piece)>>]
           calls == Put(up.calls, 1, Said(1) \o piece)
<1>2. piece \in Text
    BY PiecesAre
<1>3. c \in UpChunk
  <2>1. 0 \in Int /\ "c1" \in Token /\ 1 \in 1..2
      BY DEF Token
  <2>2. PieceOf(1, 0, "c1", piece) \in ToolPiece
      BY <1>2, <2>1, PieceIs
  <2>3. <<PieceOf(1, 0, "c1", piece)>> \in Seq(ToolPiece)
      BY <2>2, Lists
  <2> QED
      BY <2>3, EmptyIs
<1>4. calls \in ByNumbers(Text) /\ calls # <<>>
  <2>1. 1 \in 1..2
      OBVIOUS
  <2> QED
      BY <1>2, <2>1, SaidMore
<1>5. Send(c, [up EXCEPT !.calls = calls])
    BY <1>1
<1> HIDE DEF c, calls
<1> QED
    BY <1>3, <1>4, <1>5, SendsCalls

LEMMA OneOrTwo == \A k \in 1..2 : k = 1 \/ k = 2
OBVIOUS

LEMMA StylesAre == \A style \in Styles, k \in 1..2 : style[k] \in Int
<1>1. ASSUME NEW a \in Int, NEW b \in Int PROVE \A k \in 1..2 : <<a, b>>[k] \in Int
    OBVIOUS
<1>2. 0 \in Int /\ 1 \in Int /\ 3 \in Int /\ Absent \in Int
    BY DEF Absent
<1> HIDE DEF Absent
<1>3. ASSUME NEW style \in Styles PROVE \E a, b \in Int : style = <<a, b>>
    BY <1>2 DEF Styles
<1> QED
    BY <1>1, <1>3

LEMMA CallChunkIs ==
    ASSUME RenderingTypes, NEW k \in 1..2, NEW c \in CallChunks(k)
    PROVE  c \in ToolPiece /\ c.args \in Text
<1>1. PICK id \in Addresses(k), args \in Continuations(k) : c = PieceOf(k, up.style[k], id, args)
    BY DEF CallChunks
<1>0. (id = "" \/ id = Ids[k]) /\ args \in CallPieces
  <2>1. id = "" \/ id = Ids[k]
      BY DEF Addresses
  <2>2. args \in CallPieces
      BY DEF Continuations
  <2> QED
      BY <2>1, <2>2
<1>2. up.style[k] \in Int
  <2>1. up.style \in Styles
      BY DEF RenderingTypes, Upstream
  <2> QED
      BY <2>1, StylesAre
<1>3. id \in Token
  <2>1. "" \in Token /\ "c1" \in Token /\ "c2" \in Token
      BY DEF Token
  <2>2. Ids[1] = "c1" /\ Ids[2] = "c2"
      BY DEF Ids
  <2> QED
      BY <1>0, <2>1, <2>2, OneOrTwo
<1>4. args \in Text
    BY <1>0, PiecesAre
<1>5. PieceOf(k, up.style[k], id, args) \in ToolPiece /\ PieceOf(k, up.style[k], id, args).args = args
    BY <1>2, <1>3, <1>4, PieceIs
<1> QED
    BY <1>1, <1>4, <1>5

LEMMA SpuriousIs == Spurious \in ToolPiece
<1>1. "z" \in Token /\ "v" \in Token
    BY DEF Token
<1>2. <<"v">> \in Text
    BY <1>1, Lists DEF Text
<1>3. 0 - 1 \in Int
    OBVIOUS
<1> QED
    BY Zenon, <1>1, <1>2, <1>3 DEF Spurious, ToolPiece

LEMMA SendCallSends ==
    ASSUME RenderingTypes, SendCall PROVE SendsChunk
<1> DEFINE SentThen(k, finish, tail, c) ==
             Send([Empty EXCEPT !.calls = <<c>> \o tail, !.finish = finish],
                  [up EXCEPT !.calls = Put(@, k, Said(k) \o c.args)])
<1>0. PICK k \in 1..2, finish \in {"", "tool_calls"}, tail \in {<<>>, <<Spurious>>} :
        \E c \in CallChunks(k) : SentThen(k, finish, tail, c)
    BY DEF SendCall
<1>1. PICK c \in CallChunks(k) : SentThen(k, finish, tail, c)
    BY <1>0
<1> DEFINE chunk == [Empty EXCEPT !.calls = <<c>> \o tail, !.finish = finish]
           calls == Put(up.calls, k, Said(k) \o c.args)
<1>2. c \in ToolPiece /\ c.args \in Text
    BY CallChunkIs
<1>3. chunk \in UpChunk
  <2>1. Spurious \in ToolPiece
      BY SpuriousIs
  <2>2. <<c>> \in Seq(ToolPiece) /\ <<Spurious>> \in Seq(ToolPiece) /\ <<>> \in Seq(ToolPiece)
      BY <1>2, <2>1, Lists
  <2>3. tail \in Seq(ToolPiece)
      BY <2>2
  <2>5. <<c>> \o tail \in Seq(ToolPiece)
      BY <2>2, <2>3, LongerList
  <2>4. finish \in Token
      BY DEF Token
  <2> QED
      BY <2>4, <2>5, EmptyIs
<1>4. calls \in ByNumbers(Text) /\ calls # <<>>
    BY <1>2, SaidMore
<1>5. Send(chunk, [up EXCEPT !.calls = calls])
    BY <1>1
<1> HIDE DEF chunk, calls
<1> QED
    BY <1>3, <1>4, <1>5, SendsCalls

\* The calls of a message, in their order.
LEMMA CallsInOrder ==
    Seq(Text) \subseteq ByNumbers(Text)
<1> SUFFICES ASSUME NEW s \in Seq(Text) PROVE s \in ByNumbers(Text)
    OBVIOUS
<1>1. DOMAIN s = 1..Len(s) /\ Len(s) \in Nat /\ s \in [1..Len(s) -> Text]
    OBVIOUS
<1>2. 1..Len(s) \in SUBSET Nat /\ IsFiniteSet(1..Len(s))
    BY <1>1, FS_Interval
<1> QED
    BY <1>1, <1>2 DEF ByNumbers, Numbers

LEMMA SendBothCallsSends ==
    ASSUME RenderingTypes, SendBothCalls PROVE SendsChunk
<1>1. PICK c \in CallChunks(1), d \in CallChunks(2) :
        Send([Empty EXCEPT !.calls = <<c, d>>], [up EXCEPT !.calls = <<c.args, d.args>>])
    BY DEF SendBothCalls
<1> DEFINE chunk == [Empty EXCEPT !.calls = <<c, d>>]
           calls == <<c.args, d.args>>
<1>2. c \in ToolPiece /\ c.args \in Text /\ d \in ToolPiece /\ d.args \in Text
  <2>1. 1 \in 1..2 /\ 2 \in 1..2
      OBVIOUS
  <2> QED
      BY <2>1, CallChunkIs
<1>3. chunk \in UpChunk
  <2>1. <<c, d>> \in Seq(ToolPiece)
      BY <1>2, Lists
  <2> QED
      BY <2>1, EmptyIs
<1>4. calls \in ByNumbers(Text) /\ calls # <<>>
  <2>0. c.args \in Text /\ d.args \in Text
      BY <1>2
  <2>1. calls \in Seq(Text) /\ Len(calls) = 2
      BY <2>0
  <2> HIDE DEF calls
  <2>2. calls # <<>>
      BY <2>1
  <2>3. calls \in ByNumbers(Text)
      BY <2>1, CallsInOrder
  <2> QED
      BY <2>2, <2>3
<1>5. Send(chunk, [up EXCEPT !.calls = calls])
    BY <1>1
<1> HIDE DEF chunk, calls
<1> QED
    BY <1>3, <1>4, <1>5, SendsCalls

\* An event is put together from the one that says nothing.
SentKinds ==
    {"message_start", "content_block_start", "text_delta", "thinking_delta", "signature_delta",
     "input_json_delta", "content_block_stop", "message_delta", "message_stop"}
AnyEvent ==
    [kind : SentKinds, block : Nat, type : Token, id : Token, name : Token, body : Text, mark : Token]

LEMMA AnyEventIs ==
    ASSUME NEW e \in AnyEvent, e.kind = "message_delta" => e.mark \in DOMAIN Reasons
    PROVE  e \in UpEvent
BY DEF AnyEvent, UpEvent, SentKinds

LEMMA NoteIs ==
    /\ Note \in AnyEvent /\ Note.kind = "message_start"
    /\ \A k \in SentKinds, m \in Token :
         LET e == [Note EXCEPT !.kind = k, !.mark = m] IN e \in AnyEvent /\ e.kind = k /\ e.mark = m
<1>1. <<>> \in Text /\ "" \in Token /\ 0 \in Nat
    BY DEF Text, Token
<1>2. Note \in AnyEvent
  <2>1. "message_start" \in SentKinds
      BY DEF SentKinds
  <2> QED
      BY Zenon, <1>1, <2>1 DEF Note, AnyEvent
<1>3. ASSUME NEW k \in SentKinds, NEW m \in Token
      PROVE  [Note EXCEPT !.kind = k, !.mark = m] \in AnyEvent
    BY Zenon, <1>2 DEF AnyEvent
<1>5. ASSUME NEW k, NEW m
      PROVE  [Note EXCEPT !.kind = k, !.mark = m].kind = k /\ [Note EXCEPT !.kind = k, !.mark = m].mark = m
    BY DEF Note
<1>7. Note.kind = "message_start"
    BY DEF Note
<1> HIDE DEF Note
<1>8. \A k \in SentKinds, m \in Token :
         LET e == [Note EXCEPT !.kind = k, !.mark = m] IN e \in AnyEvent /\ e.kind = k /\ e.mark = m
    BY <1>3, <1>5
<1> QED
    BY Zenon, <1>2, <1>7, <1>8

\* An event of the block that was begun last.
LEMMA DeltaIs ==
    ASSUME NEW k \in SentKinds, up.blocks - 1 \in Nat
    PROVE  /\ Delta(k) \in AnyEvent /\ Delta(k).kind = k
           /\ \A v \in Text : LET e == [Delta(k) EXCEPT !.body = v] IN e \in AnyEvent /\ e.kind = k
           /\ \A m \in Token : LET e == [Delta(k) EXCEPT !.mark = m] IN e \in AnyEvent /\ e.kind = k
<1> DEFINE b == up.blocks - 1
           d == [Note EXCEPT !.kind = k, !.block = b]
<1>1. b \in Nat
    OBVIOUS
<1>2. Delta(k) = d
    BY DEF Delta
<1> HIDE DEF b
<1>3. d \in AnyEvent
  <2>1. Note \in AnyEvent
      BY NoteIs
  <2> QED
      BY Zenon, <1>1, <2>1 DEF AnyEvent
<1>4. d.kind = k
    BY DEF Note
<1> HIDE DEF d
<1>5. ASSUME NEW v \in Text PROVE [d EXCEPT !.body = v] \in AnyEvent
    BY Zenon, <1>3 DEF AnyEvent
<1>6. ASSUME NEW m \in Token PROVE [d EXCEPT !.mark = m] \in AnyEvent
    BY Zenon, <1>3 DEF AnyEvent
<1>7. ASSUME NEW v PROVE [d EXCEPT !.body = v].kind = k /\ [d EXCEPT !.mark = v].kind = k
    BY <1>3, <1>4 DEF AnyEvent
<1> QED
    BY <1>2, <1>3, <1>4, <1>5, <1>6, <1>7

LEMMA ReceivesThat ==
    ASSUME NEW e \in AnyEvent, e.kind \notin {"message_delta", "message_stop"},
           NEW s \in Upstream, s.calls \in Seq(Text), s.open # "" => s.blocks > 0, ~anthropic.delta,
           Receive(e, s)
    PROVE  ReceivesEvent
<1>1. e \in UpEvent
    BY AnyEventIs
<1>2. e.kind # "message_delta" /\ e.kind # "message_stop"
    OBVIOUS
<1>3. Follows(e, s)
    BY Zenon, <1>2 DEF Follows
<1> QED
    BY <1>1, <1>3 DEF ReceivesEvent

\* What the upstream of blocks has sent before an event.
LEMMA SentIs ==
    ASSUME RenderingTypes, SoFar, focus = "blocks", phase = "streaming"
    PROVE  /\ up \in Upstream /\ up.calls \in Seq(Text) /\ up.blocks \in Nat /\ up.text \in Text /\ up.think \in Text
           /\ up.open # "" => up.blocks > 0 /\ up.blocks - 1 \in Nat
           /\ up.finish = "" \/ up.n = 0 => ~anthropic.delta
<1>1. up \in Upstream /\ up.calls \in Seq(Text)
    BY DEF RenderingTypes
<1>2. up.blocks \in Nat /\ up.text \in Text /\ up.think \in Text
    BY <1>1 DEF Upstream
<1>3. (up.open # "" => up.blocks > 0) /\ (up.finish = "" \/ up.n = 0 => ~anthropic.delta)
  <2>1. ~(up.n = 0 /\ up.n > 0)
      BY <1>1 DEF Upstream
  <2>2. (up.open # "" => up.blocks > 0) /\ (anthropic.delta => up.n > 0 /\ up.finish # "")
      BY DEF SoFar
  <2> QED
      BY Zenon, <2>1, <2>2
<1>4. up.open # "" => up.blocks - 1 \in Nat
  <2>1. \A n \in Nat : n > 0 => n - 1 \in Nat
      OBVIOUS
  <2> QED
      BY <1>2, <1>3, <2>1
<1> QED
    BY <1>1, <1>2, <1>3, <1>4

LEMMA ReceiveStartReceives ==
    ASSUME RenderingTypes, SoFar, ReceiveStart PROVE ReceivesEvent
<1>1. Receive(Note, up)
    BY DEF ReceiveStart
<1>2. focus = "blocks" /\ phase = "streaming" /\ up.n = 0
    BY <1>1 DEF Receive, Underway, ReceiveStart
<1>3. Note \in AnyEvent /\ Note.kind = "message_start"
    BY NoteIs
<1>4. Note.kind \notin {"message_delta", "message_stop"}
    BY <1>3
<1> QED
    BY <1>1, <1>2, <1>3, <1>4, SentIs, ReceivesThat

LEMMA OpenBlockReceives ==
    ASSUME RenderingTypes, SoFar, OpenBlock PROVE ReceivesEvent
<1> DEFINE k == Cardinality(DOMAIN up.calls) + 1
           Opens(type) == [Note EXCEPT !.kind = "content_block_start", !.block = up.blocks, !.type = type,
                             !.id = IF type = "tool_use" THEN Ids[k] ELSE "",
                             !.name = IF type = "tool_use" THEN Names[k] ELSE ""]
           SentThen(type) == [up EXCEPT !.open = type, !.blocks = @ + 1,
                             !.calls = IF type = "tool_use" THEN Append(@, <<>>) ELSE @]
<1>1. PICK type \in {"text", "thinking", "tool_use"} :
        (type = "tool_use" => k <= 2) /\ Receive(Opens(type), SentThen(type))
    BY DEF OpenBlock
<1>2. focus = "blocks" /\ phase = "streaming" /\ up.finish = ""
    BY <1>1 DEF Receive, Underway, OpenBlock, InMessage
<1>3. up \in Upstream /\ up.calls \in Seq(Text) /\ up.blocks \in Nat /\ ~anthropic.delta
    BY <1>2, SentIs
<1> DEFINE id == IF type = "tool_use" THEN Ids[k] ELSE ""
           name == IF type = "tool_use" THEN Names[k] ELSE ""
           blocks == up.blocks + 1
           calls == IF type = "tool_use" THEN Append(up.calls, <<>>) ELSE up.calls
           e == [Note EXCEPT !.kind = "content_block_start", !.block = up.blocks, !.type = type, !.id = id, !.name = name]
           s == [up EXCEPT !.open = type, !.blocks = blocks, !.calls = calls]
<1>4. Receive(e, s)
    BY <1>1
<1>5. type \in Token /\ id \in Token /\ name \in Token
  <2>1. /\ "text" \in Token /\ "thinking" \in Token /\ "tool_use" \in Token /\ "" \in Token
        /\ "c1" \in Token /\ "c2" \in Token /\ "f" \in Token /\ "p" \in Token
      BY DEF Token
  <2>2. type = "tool_use" => k = 1 \/ k = 2
    <3>1. Cardinality(DOMAIN up.calls) \in Nat
      <4>1. DOMAIN up.calls = 1..Len(up.calls) /\ Len(up.calls) \in Nat
          BY <1>3
      <4>2. IsFiniteSet(1..Len(up.calls))
          BY <4>1, FS_Interval
      <4> QED
          BY <4>1, <4>2, FS_CardinalityType
    <3> QED
        BY <1>1, <3>1
  <2> HIDE DEF k
  <2>3. /\ Ids[1] = "c1" /\ Ids[2] = "c2"
        /\ Names[1] = "f" /\ Names[2] = "p"
      BY DEF Ids, Names
  <2>4. type \in Token
      BY <2>1
  <2> HIDE DEF Token
  <2>5. id \in Token
      BY <2>1, <2>2, <2>3
  <2>6. name \in Token
      BY <2>1, <2>2, <2>3
  <2> QED
      BY <2>4, <2>5, <2>6
<1> HIDE DEF id, name
<1>6. e \in AnyEvent /\ e.kind = "content_block_start"
  <2>1. "content_block_start" \in SentKinds
      BY DEF SentKinds
  <2>2. up.blocks \in Nat
      BY <1>3
  <2> DEFINE kind == "content_block_start"
             b == up.blocks
             x == [Note EXCEPT !.kind = kind, !.block = b, !.type = type, !.id = id, !.name = name]
  <2>3. kind \in SentKinds /\ b \in Nat
      BY <2>1, <2>2
  <2> HIDE DEF kind, b
  <2>4. Note \in AnyEvent
      BY NoteIs
  <2>5. x \in AnyEvent
      BY Zenon, <1>5, <2>3, <2>4 DEF AnyEvent
  <2>6. x.kind = kind
      BY <2>4 DEF AnyEvent
  <2> QED
      BY <2>5, <2>6 DEF kind, b
<1> HIDE DEF e
<1>7. calls \in Seq(Text)
  <2>1. <<>> \in Text
      BY DEF Text
  <2> QED
      BY <1>3, <2>1
<1>8. blocks \in Nat /\ blocks > 0
    BY <1>3
<1> HIDE DEF calls, blocks
<1>9. s \in Upstream
  <2>1. calls \in ByNumbers(Text)
      BY <1>7, CallsInOrder
  <2> QED
      BY Zenon, <1>3, <1>5, <1>8, <2>1 DEF Upstream
<1>10. s.calls = calls /\ s.blocks = blocks
    BY <1>3 DEF Upstream
<1> HIDE DEF s
<1>11. e.kind \notin {"message_delta", "message_stop"}
    BY <1>6
<1>12. s.calls \in Seq(Text) /\ (s.open # "" => s.blocks > 0)
    BY <1>7, <1>8, <1>10
<1>13. Receive(e, s) /\ ~anthropic.delta
    BY <1>3, <1>4
<1> QED
    BY <1>6, <1>9, <1>11, <1>12, <1>13, ReceivesThat

LEMMA CloseBlockReceives ==
    ASSUME RenderingTypes, SoFar, CloseBlock PROVE ReceivesEvent
<1> DEFINE e == Delta("content_block_stop")
           s == [up EXCEPT !.open = ""]
<1>1. Receive(e, s) /\ up.open # ""
    BY DEF CloseBlock
<1>2. focus = "blocks" /\ phase = "streaming" /\ up.finish = ""
    BY <1>1 DEF Receive, Underway, CloseBlock, InMessage
<1>3. up \in Upstream /\ up.calls \in Seq(Text) /\ up.blocks - 1 \in Nat /\ ~anthropic.delta
    BY <1>1, <1>2, SentIs
<1>4. e \in AnyEvent /\ e.kind = "content_block_stop"
  <2>1. "content_block_stop" \in SentKinds
      BY DEF SentKinds
  <2> QED
      BY <1>3, <2>1, DeltaIs
<1>5. s \in Upstream
  <2>1. "" \in Token
      BY DEF Token
  <2> QED
      BY Zenon, <1>3, <2>1 DEF Upstream
<1>6. s.calls = up.calls /\ s.open = ""
    BY <1>3 DEF Upstream
<1> HIDE DEF e, s
<1>7. e.kind \notin {"message_delta", "message_stop"}
    BY <1>4
<1>8. s.calls \in Seq(Text) /\ (s.open # "" => s.blocks > 0)
    BY <1>3, <1>6
<1>9. Receive(e, s) /\ ~anthropic.delta
    BY <1>1, <1>3
<1> QED
    BY <1>4, <1>5, <1>7, <1>8, <1>9, ReceivesThat

LEMMA StopMessageReceives ==
    ASSUME RenderingTypes, SoFar, StopMessage PROVE ReceivesEvent
<1>1. PICK reason \in DOMAIN Reasons :
        Receive([Note EXCEPT !.kind = "message_delta", !.mark = reason], [up EXCEPT !.finish = reason])
    BY DEF StopMessage
<1> DEFINE e == [Note EXCEPT !.kind = "message_delta", !.mark = reason]
           s == [up EXCEPT !.finish = reason]
<1>2. focus = "blocks" /\ phase = "streaming" /\ up.open = "" /\ up.finish = ""
    BY <1>1 DEF Receive, Underway, StopMessage, InMessage
<1>3. up \in Upstream /\ up.calls \in Seq(Text) /\ ~anthropic.delta
    BY <1>2, SentIs
<1>4. reason \in Token /\ reason # ""
    BY DEF Reasons, Token
<1>5. e \in AnyEvent /\ e.kind = "message_delta" /\ e.mark = reason
  <2>1. "message_delta" \in SentKinds
      BY DEF SentKinds
  <2> QED
      BY <1>4, <2>1, NoteIs
<1>6. s \in Upstream
    BY Zenon, <1>3, <1>4 DEF Upstream
<1>7. s.calls = up.calls /\ s.open = up.open /\ s.finish = reason
    BY <1>3 DEF Upstream
<1> HIDE DEF e, s
<1>8. e \in UpEvent
    BY <1>5, AnyEventIs
<1>9. Follows(e, s)
    BY <1>2, <1>3, <1>4, <1>5, <1>7 DEF Follows
<1>10. Receive(e, s)
    BY <1>1 DEF e, s
<1> QED
    BY <1>6, <1>8, <1>9, <1>10 DEF ReceivesEvent

LEMMA BlockDeltaReceives ==
    ASSUME RenderingTypes, SoFar, BlockDelta PROVE ReceivesEvent
<1>1. focus = "blocks" /\ phase = "streaming" /\ up.open # "" /\ up.finish = ""
    BY DEF BlockDelta, Receive, Underway, InMessage
<1>2. /\ up \in Upstream /\ up.calls \in Seq(Text) /\ up.text \in Text /\ up.think \in Text
      /\ up.blocks - 1 \in Nat /\ up.blocks > 0 /\ ~anthropic.delta
    BY <1>1, SentIs
<1>3. /\ "x" \in Token /\ "r" \in Token /\ "s" \in Token
    BY DEF Token
<1>4. <<"x">> \in Text /\ <<"r">> \in Text /\ Append(up.text, "x") \in Text /\ Append(up.think, "r") \in Text
    BY <1>2, <1>3, Lists DEF Text
<1>5. {"text_delta", "thinking_delta", "signature_delta", "input_json_delta"} \subseteq SentKinds
    BY DEF SentKinds
<1>6. ASSUME Receive([Delta("text_delta") EXCEPT !.body = <<"x">>], [up EXCEPT !.text = Append(@, "x")])
      PROVE  ReceivesEvent
  <2> DEFINE e == [Delta("text_delta") EXCEPT !.body = <<"x">>]
             text == Append(up.text, "x")
             s == [up EXCEPT !.text = text]
  <2>1. Receive(e, s)
      BY <1>6
  <2>2. e \in AnyEvent /\ e.kind = "text_delta"
      BY <1>2, <1>4, <1>5, DeltaIs
  <2>3. text \in Text
      BY <1>4
  <2> HIDE DEF text
  <2>4. s \in Upstream
      BY Zenon, <1>2, <2>3 DEF Upstream
  <2>5. s.calls = up.calls /\ s.blocks = up.blocks
      BY <1>2 DEF Upstream
  <2> HIDE DEF e, s
  <2>6. e.kind \notin {"message_delta", "message_stop"}
      BY <2>2
  <2> QED
      BY <1>2, <2>1, <2>2, <2>4, <2>5, <2>6, ReceivesThat
<1>7. ASSUME Receive([Delta("thinking_delta") EXCEPT !.body = <<"r">>], [up EXCEPT !.think = Append(@, "r")])
      PROVE  ReceivesEvent
  <2> DEFINE e == [Delta("thinking_delta") EXCEPT !.body = <<"r">>]
             think == Append(up.think, "r")
             s == [up EXCEPT !.think = think]
  <2>1. Receive(e, s)
      BY <1>7
  <2>2. e \in AnyEvent /\ e.kind = "thinking_delta"
      BY <1>2, <1>4, <1>5, DeltaIs
  <2>3. think \in Text
      BY <1>4
  <2> HIDE DEF think
  <2>4. s \in Upstream
      BY Zenon, <1>2, <2>3 DEF Upstream
  <2>5. s.calls = up.calls /\ s.blocks = up.blocks
      BY <1>2 DEF Upstream
  <2> HIDE DEF e, s
  <2>6. e.kind \notin {"message_delta", "message_stop"}
      BY <2>2
  <2> QED
      BY <1>2, <2>1, <2>2, <2>4, <2>5, <2>6, ReceivesThat
<1>8. ASSUME Receive([Delta("signature_delta") EXCEPT !.mark = "s"], up)
      PROVE  ReceivesEvent
  <2> DEFINE e == [Delta("signature_delta") EXCEPT !.mark = "s"]
  <2>1. Receive(e, up)
      BY <1>8
  <2>2. e \in AnyEvent /\ e.kind = "signature_delta"
      BY <1>2, <1>3, <1>5, DeltaIs
  <2> HIDE DEF e
  <2>3. e.kind \notin {"message_delta", "message_stop"}
      BY <2>2
  <2> QED
      BY <1>2, <2>1, <2>2, <2>3, ReceivesThat
<1>9. ASSUME NEW piece \in CallPieces, LET k == Len(up.calls) IN
               /\ up.calls[k] \o piece \in Plausible
               /\ Receive([Delta("input_json_delta") EXCEPT !.body = piece], [up EXCEPT !.calls[k] = @ \o piece])
      PROVE  ReceivesEvent
  <2> DEFINE e == [Delta("input_json_delta") EXCEPT !.body = piece]
             k == Len(up.calls)
             longer == up.calls[k] \o piece
             calls == [up.calls EXCEPT ![k] = longer]
             s == [up EXCEPT !.calls = calls]
  <2>1. Receive(e, s)
      BY <1>9
  <2>2. piece \in Text /\ longer \in Text
      BY <1>9, PiecesAre
  <2> HIDE DEF longer
  <2>3. calls \in Seq(Text)
      BY <1>2, <2>2, ReplacedIn
  <2> HIDE DEF calls
  <2>4. e \in AnyEvent /\ e.kind = "input_json_delta"
      BY <1>2, <1>5, <2>2, DeltaIs
  <2>5. s \in Upstream
    <3>1. calls \in ByNumbers(Text)
        BY <2>3, CallsInOrder
    <3> QED
        BY Zenon, <1>2, <3>1 DEF Upstream
  <2>6. s.calls = calls /\ s.blocks = up.blocks
      BY <1>2 DEF Upstream
  <2> HIDE DEF e, s
  <2>7. e.kind \notin {"message_delta", "message_stop"}
      BY <2>4
  <2> QED
      BY <1>2, <2>1, <2>3, <2>4, <2>5, <2>6, <2>7, ReceivesThat
<1> QED
    BY <1>6, <1>7, <1>8, <1>9 DEF BlockDelta

\* The failure of an attempt: it is made again from nothing, or is the client's.
LEMMA FailKeeps ==
    ASSUME RenderingTypes, SoFar, Fail PROVE RenderingTypes' /\ SoFar' /\ Rendered
<1>1. /\ phase = "streaming" /\ focus = "blocks"
      /\ focus' = focus /\ client' = client /\ openai' = openai /\ renderer' = renderer
    BY DEF Fail, Underway, setup
<1>2. /\ focus \in DOMAIN Clients /\ client \in Endpoint /\ openai \in OpenAI /\ anthropic \in Anthropic
      /\ renderer \in Renderer /\ up \in Upstream /\ up.calls \in Seq(Text) /\ attempt \in Nat
    BY <1>1 DEF RenderingTypes
<1>3. ~renderer.over /\ NoEnd(renderer)
    BY <1>1 DEF SoFar
<1>4. CASE MayRetry(anthropic, attempt, Retries)
  <2>1. attempt' = attempt + 1 /\ anthropic' = NewMessage /\ up' = NothingSent /\ phase' = phase
      BY <1>4 DEF Fail
  <2>2. attempt' \in Nat
      BY <1>2, <2>1
  <2>3. up' \in Upstream /\ up'.calls = <<>> /\ up'.open = ""
      BY <2>1, NothingSentIs
  <2>4. up'.calls \in Seq(Text)
    <3>1. <<>> \in Seq(Text)
        BY Lists
    <3> QED
        BY <2>3, <3>1
  <2>5. anthropic' \in Anthropic /\ ~anthropic'.delta /\ ~anthropic'.stop
      BY <2>1, NewAdaptersAre
  <2>6. RenderingTypes'
      BY <1>1, <1>2, <2>1, <2>2, <2>3, <2>4, <2>5 DEF RenderingTypes
  <2>7. SoFar'
      BY <1>1, <1>3, <2>1, <2>3, <2>5 DEF SoFar, NoEnd, HasText
  <2>8. Rendered
      BY <1>1, <2>1 DEF Rendered
  <2> QED
      BY <2>6, <2>7, <2>8
<1>5. CASE ~MayRetry(anthropic, attempt, Retries)
  <2>1. phase' = "raised" /\ attempt' = attempt /\ anthropic' = anthropic /\ up' = up
      BY <1>5 DEF Fail
  <2>2. RenderingTypes'
      BY <1>1, <1>2, <2>1 DEF RenderingTypes
  <2>3. SoFar'
      BY <1>1, <1>3, <2>1 DEF SoFar, NoEnd, HasText
  <2>4. Rendered
      BY <1>1, <2>1 DEF Rendered
  <2> QED
      BY <2>2, <2>3, <2>4
<1> QED
    BY <1>4, <1>5

LEMMA BreakChunksKeeps ==
    ASSUME RenderingTypes, SoFar, BreakChunks PROVE RenderingTypes' /\ SoFar' /\ Rendered
<1>1. /\ phase = "streaming" /\ focus = "chunks" /\ phase' = "raised"
      /\ focus' = focus /\ client' = client /\ openai' = openai /\ renderer' = renderer /\ up' = up
      /\ anthropic' = anthropic /\ attempt' = attempt
    BY DEF BreakChunks, Underway, setup
<1>2. RenderingTypes'
    BY <1>1 DEF RenderingTypes
<1>3. SoFar'
    BY <1>1 DEF SoFar, NoEnd, HasText
<1>4. Rendered
    BY <1>1 DEF Rendered
<1> QED
    BY <1>2, <1>3, <1>4

LEMMA CloseMessageKeeps ==
    ASSUME RenderingTypes, SoFar, CloseMessage PROVE RenderingTypes' /\ SoFar' /\ Rendered
<1>1. /\ phase = "streaming" /\ focus = "blocks" /\ Complete(anthropic)
      /\ UNCHANGED <<focus, client, up, openai, attempt>> /\ anthropic' = anthropic
    BY DEF CloseMessage, Underway, setup
<1>2. PICK m \in Anthropic : m = anthropic
    BY DEF RenderingTypes
<1>3. Conclude(Rendering(renderer, Ending(m)))
    BY <1>2 DEF CloseMessage
<1>4. ~anthropic.stop /\ (anthropic.delta => up.n > 0 /\ up.open = "")
    BY <1>1 DEF SoFar
<1>5. up.n > 0 /\ up.open = ""
    BY <1>1, <1>4 DEF Complete
<1>6. anthropic' \in Anthropic
    BY <1>1, <1>2
<1> QED
    BY <1>1, <1>3, <1>5, <1>6, EndOfMessageKeeps

LEMMA MessageStopKeeps ==
    ASSUME RenderingTypes, SoFar, MessageStop PROVE RenderingTypes' /\ SoFar' /\ Rendered
<1> DEFINE e == [Note EXCEPT !.kind = "message_stop"]
           x == Handled(anthropic, e)
<1>1. /\ phase = "streaming" /\ focus = "blocks" /\ up.n > 0 /\ up.open = ""
      /\ UNCHANGED <<focus, client, up, openai, attempt>> /\ anthropic' = x.m
    BY DEF MessageStop, Underway, setup
<1>2. e \in UpEvent
  <2>1. Note \in AnyEvent
      BY NoteIs
  <2>2. "message_stop" \in SentKinds
      BY DEF SentKinds
  <2>3. e \in AnyEvent
      BY Zenon, <2>1, <2>2 DEF AnyEvent
  <2>4. e.kind = "message_stop"
      BY <2>1 DEF AnyEvent
  <2> HIDE DEF e
  <2> QED
      BY <2>3, <2>4, AnyEventIs
<1> HIDE DEF e
<1>3. x.m \in Anthropic
  <2>1. anthropic \in Anthropic
      BY DEF RenderingTypes
  <2> QED
      BY <1>2, <2>1, HandledIs
<1> HIDE DEF x
<1>4. PICK m \in Anthropic : m = anthropic'
    BY <1>1, <1>3
<1>5. Conclude(Rendering(renderer, Ending(m)))
    BY <1>4 DEF MessageStop
<1> QED
    BY <1>1, <1>4, <1>5, EndOfMessageKeeps

(* What the types and SoFar say holds after every step.                      *)
LEMMA RenderingKeeps ==
    ASSUME RenderingTypes, SoFar, [RenderingNext]_renderingVars
    PROVE  RenderingTypes' /\ SoFar' /\ Rendered
<1>1. CASE SendText
    BY <1>1, SendTextSends, SendsChunkKeeps
<1>2. CASE SendArguments
    BY <1>2, SendArgumentsSends, SendsChunkKeeps
<1>3. CASE SendWords
    BY <1>3, SendWordsSends, SendsChunkKeeps
<1>4. CASE SendCall
    BY <1>4, SendCallSends, SendsChunkKeeps
<1>5. CASE SendBothCalls
    BY <1>5, SendBothCallsSends, SendsChunkKeeps
<1>6. CASE CloseChunks
    BY <1>6, EndOfChunksKeeps DEF CloseChunks, Underway
<1>7. CASE TailError
  <2>1. phase = "streaming" /\ focus # "blocks" /\ EndOfChunks
      BY <1>7 DEF TailError, Underway
  <2> QED
      BY <2>1, EndOfChunksKeeps
<1>8. CASE BreakChunks
    BY <1>8, BreakChunksKeeps
<1>9. CASE ReceiveStart
    BY <1>9, ReceiveStartReceives, ReceivesEventKeeps
<1>10. CASE OpenBlock
    BY <1>10, OpenBlockReceives, ReceivesEventKeeps
<1>11. CASE BlockDelta
    BY <1>11, BlockDeltaReceives, ReceivesEventKeeps
<1>12. CASE CloseBlock
    BY <1>12, CloseBlockReceives, ReceivesEventKeeps
<1>13. CASE StopMessage
    BY <1>13, StopMessageReceives, ReceivesEventKeeps
<1>14. CASE Fail
    BY <1>14, FailKeeps
<1>15. CASE CloseMessage
    BY <1>15, CloseMessageKeeps
<1>16. CASE MessageStop
    BY <1>16, MessageStopKeeps
<1>17. CASE UNCHANGED renderingVars
  <2>1. /\ focus' = focus /\ client' = client /\ up' = up /\ openai' = openai /\ anthropic' = anthropic
        /\ renderer' = renderer /\ attempt' = attempt /\ phase' = phase
      BY <1>17 DEF renderingVars
  <2>2. RenderingTypes'
      BY <2>1 DEF RenderingTypes
  <2>3. SoFar'
      BY <2>1 DEF SoFar, NoEnd, HasText
  <2>4. Rendered
      BY <2>1 DEF Rendered
  <2> QED
      BY <2>2, <2>3, <2>4
<1> QED
    BY <1>1, <1>2, <1>3, <1>4, <1>5, <1>6, <1>7, <1>8, <1>9, <1>10, <1>11, <1>12, <1>13, <1>14, <1>15,
       <1>16, <1>17 DEF RenderingNext, AnswerOver

LEMMA ClientStays ==
    ASSUME [RenderingNext]_renderingVars PROVE client' = client
<1>1. CASE SendText \/ SendArguments \/ SendWords \/ SendCall \/ SendBothCalls
    BY <1>1 DEF SendText, SendArguments, SendWords, SendCall, SendBothCalls, Send, setup
<1>2. CASE CloseChunks \/ TailError \/ BreakChunks
    BY <1>2 DEF CloseChunks, TailError, BreakChunks, EndOfChunks, setup
<1>3. CASE ReceiveStart \/ OpenBlock \/ BlockDelta \/ CloseBlock \/ StopMessage
    BY <1>3 DEF ReceiveStart, OpenBlock, BlockDelta, CloseBlock, StopMessage, Receive, setup
<1>4. CASE Fail \/ CloseMessage \/ MessageStop
    BY <1>4 DEF Fail, CloseMessage, MessageStop, setup
<1>5. CASE UNCHANGED renderingVars
    BY <1>5 DEF renderingVars
<1> QED
    BY <1>1, <1>2, <1>3, <1>4, <1>5 DEF RenderingNext, AnswerOver

LEMMA SoFarHolds ==
    RenderingSpec => [](RenderingTypes /\ SoFar)
<1>1. RenderingTypes /\ SoFar /\ [RenderingNext]_renderingVars => (RenderingTypes /\ SoFar)'
    BY RenderingKeeps
<1> QED
    BY <1>1, RenderingStarts, PTL DEF RenderingSpec

(* The types of a streamed answer: whatever is sent, in whatever chunks, the *)
(* adapters (openai_streaming.py, anthropic_streaming.py) and the renderer   *)
(* of every endpoint (egress.py) only ever hold what they are made for.      *)
THEOREM RenderingIsTyped == RenderingSpec => []RenderingTypes
    BY SoFarHolds, PTL

\* A frame of text that says something is text the client sees.
LEMMA TextShows ==
    ASSUME renderer \in Renderer, HasText(renderer)
    PROVE  TextSeen # <<>>
<1> DEFINE P == PositionsOf("text")
           parts == Bodies(P)
           N == Len(renderer.frames)
           J == Joining(parts)
<1>1. renderer.frames \in Seq(Frame) /\ N \in Nat /\ DOMAIN renderer.frames = 1..N
    BY DEF Renderer
<1>2. \A i \in 1..N : renderer.frames[i].body \in Text
  <2>1. \A i \in 1..N : renderer.frames[i] \in Frame
      BY <1>1
  <2> QED
      BY <2>1 DEF Frame
<1>3. PICK i \in 1..N : renderer.frames[i].kind = "text" /\ renderer.frames[i].body # <<>>
    BY DEF HasText
<1>4. i \in P
    BY <1>1, <1>3 DEF PositionsOf, Frames
<1>5. /\ DOMAIN parts = 1..N
      /\ \A n \in 1..N : parts[n] = IF n \in P THEN renderer.frames[n].body ELSE <<>>
    BY <1>1 DEF Bodies, Frames
<1> HIDE DEF P
<1>6. <<>> \in Text
    BY DEF Text
<1>7. \A n \in 1..N : parts[n] \in Text
    BY <1>2, <1>5, <1>6
<1>8. parts \in Seq(Text) /\ Len(parts) = N
  <2> HIDE DEF parts, N
  <2>1. parts = [n \in 1..N |-> parts[n]]
      BY <1>5 DEF parts, Bodies
  <2>2. parts \in [1..N -> Text]
      BY <1>7, <2>1
  <2> QED
      BY <1>1, <2>2, IsASeq
<1>9. parts[i] # <<>>
    BY <1>3, <1>4, <1>5
<1> HIDE DEF parts, N
<1>10. /\ \A n \in 0..N : J[n] \in Text
       /\ \A n \in 1..N : J[n] = J[n - 1] \o parts[n]
  <2>1. \A n \in 1..Len(parts) : \A y \in Text : y \o parts[n] \in Text
      BY <1>7, <1>8, Longer
  <2>2. Len(parts) \in Nat
      BY <1>1, <1>8
  <2> HIDE DEF J
  <2> QED
      BY <1>6, <1>8, <2>1, <2>2, JoiningIn DEF J
<1> HIDE DEF J
<1>11. \A v, w \in Text : v # <<>> \/ w # <<>> => v \o w # <<>>
  <2> SUFFICES ASSUME NEW v \in Text, NEW w \in Text, v # <<>> \/ w # <<>> PROVE v \o w # <<>>
      OBVIOUS
  <2>1. Len(v) \in Nat /\ Len(w) \in Nat /\ Len(v \o w) = Len(v) + Len(w)
      BY DEF Text
  <2>2. Len(v) > 0 \/ Len(w) > 0
      BY <2>1 DEF Text
  <2> QED
      BY <2>1, <2>2
<1> DEFINE Full == {n \in Nat : i <= n /\ n <= N => J[n] # <<>>}
<1>12. 0 \in Full
    OBVIOUS
<1>13. ASSUME NEW n \in Nat, n \in Full PROVE n + 1 \in Full
  <2> SUFFICES ASSUME i <= n + 1, n + 1 <= N PROVE J[n + 1] # <<>>
      OBVIOUS
  <2>1. n + 1 \in 1..N /\ n \in 0..N /\ (n + 1) - 1 = n
      BY <1>1
  <2>2. J[n + 1] = J[n] \o parts[n + 1] /\ J[n] \in Text /\ parts[n + 1] \in Text
      BY <1>7, <1>10, <2>1
  <2>3. J[n] # <<>> \/ parts[n + 1] # <<>>
    <3>1. i <= n \/ i = n + 1
        OBVIOUS
    <3>2. i <= n => J[n] # <<>>
        BY <1>13, <2>1
    <3> QED
        BY <1>9, <3>1, <3>2
  <2> QED
      BY <1>11, <2>2, <2>3
<1> HIDE DEF Full
<1>14. Nat \subseteq Full
    BY <1>12, <1>13, Induction
<1>15. J[N] # <<>>
    BY <1>1, <1>14 DEF Full
<1>16. TextSeen = J[N]
    BY DEF TextSeen, Assembled, Frames, J, N, parts, P
<1> QED
    BY <1>15, <1>16

(* TruncationShows, for every limit of the buffer, set of custom tools and   *)
(* number of chunks, events and retries: a stream that was cut off (its      *)
(* connection broke, it said neither a reason nor anything else, its message *)
(* was never begun or has a block open) is never shown as an answer that     *)
(* ended: the error at the end of iter_openai_chat_output_events,            *)
(* _iter_anthropic_stream_once and what the renderers of egress.py add last. *)
THEOREM TruncationAlwaysShows == RenderingSpec => []TruncationShows
<1>1. RenderingTypes /\ SoFar => TruncationShows
  <2> SUFFICES ASSUME RenderingTypes, SoFar PROVE TruncationShows
      OBVIOUS
  <2>1. (\E i \in DOMAIN Frames : Frames[i].kind \in EndFrames) => Ended
    <3>1. DOMAIN renderer.frames = 1..Len(renderer.frames)
        BY DEF RenderingTypes, Renderer
    <3>2. phase # "ended" => \A i \in 1..Len(renderer.frames) : renderer.frames[i].kind \notin EndFrames
        BY DEF SoFar, NoEnd
    <3> QED
        BY <3>1, <3>2 DEF Frames, Ended
  <2>2. Ended /\ focus # "blocks" => up.finish # "" \/ up.calls # <<>> \/ TextSeen # <<>>
    <3>1. HasText(renderer) => TextSeen # <<>>
        BY TextShows DEF RenderingTypes
    <3> QED
        BY <3>1 DEF SoFar, Ended
  <2>3. Ended /\ focus = "blocks" => up.n > 0 /\ up.open = ""
      BY DEF SoFar, Ended
  <2> QED
      BY <2>1, <2>2, <2>3 DEF TruncationShows
<1> QED
    BY <1>1, SoFarHolds, PTL

-----------------------------------------------------------------------------
(* The blocks of a Messages stream.                                          *)
BlockKinds == {"start", "text", "thinking", "signature", "arguments", "stop"}
Begins(F, i, b) ==
    /\ F[i].kind = "start" /\ F[i].at = b
    /\ \A j \in 1..Len(F) : F[j].kind \in BlockKinds /\ F[j].at = b => i <= j
Stops(F, i, b) ==
    /\ F[i].kind = "stop" /\ F[i].at = b
    /\ \A j \in 1..Len(F) : F[j].kind \in BlockKinds /\ F[j].at = b => j <= i

(* n blocks have begun in the frames F and the first m of them are over, one *)
(* after the other.                                                          *)
InBlocks(F, n, m) ==
    /\ \A i \in 1..Len(F) : F[i].kind \in BlockKinds => F[i].at \in 0..(n - 1)
    /\ \A b \in 0..(n - 1) : \E i \in 1..Len(F) : Begins(F, i, b)
    /\ \A i, j \in 1..Len(F) : F[i].kind = "start" /\ F[j].kind = "start" /\ F[i].at = F[j].at => i = j
    /\ \A i, j \in 1..Len(F) :
         F[i].kind \in BlockKinds /\ F[j].kind \in BlockKinds /\ F[i].at < F[j].at => i < j
    /\ \A b \in 0..(m - 1) : \E i \in 1..Len(F) : Stops(F, i, b)

\* What a frame is to the blocks, and how many have begun and are over behind it.
OneMore(F, f, n, m, k, l) ==
    \/ f.kind \notin BlockKinds /\ k = n /\ l = m
    \/ f.kind = "start" /\ f.at = n /\ m = n /\ k = n + 1 /\ l = n
    \/ /\ f.kind \in BlockKinds \ {"start", "stop"} /\ f.at = n - 1
       /\ n > 0 /\ m = n - 1 /\ k = n /\ l = m
    \/ f.kind = "stop" /\ f.at = n - 1 /\ n > 0 /\ m = n - 1 /\ k = n /\ l = n

LEMMA BlocksGoOn ==
    ASSUME NEW F \in Seq(Frame), NEW f \in Frame, NEW n \in Nat, NEW m \in Nat, NEW k, NEW l,
           InBlocks(F, n, m), OneMore(F, f, n, m, k, l)
    PROVE  InBlocks(Append(F, f), k, l)
<1> DEFINE G == Append(F, f)
           N == Len(F)
<1>1. /\ N \in Nat /\ Len(G) = N + 1 /\ G[N + 1] = f
      /\ \A i \in 1..N : G[i] = F[i] /\ F[i].at \in Int /\ i \in 1..Len(G)
      /\ \A i \in 1..Len(G) : i \in 1..N \/ i = N + 1
      /\ f.at \in Int
  <2>1. N \in Nat /\ Len(G) = N + 1 /\ G[N + 1] = f /\ f.at \in Int
      BY DEF Frame
  <2>2. ASSUME NEW i \in 1..N PROVE G[i] = F[i] /\ F[i] \in Frame
      OBVIOUS
  <2> HIDE DEF G, N
  <2> QED
      BY <2>1, <2>2 DEF Frame
<1> HIDE DEF G
<1>2. /\ \A i \in 1..N : F[i].kind \in BlockKinds => F[i].at \in 0..(n - 1)
      /\ \A b \in 0..(n - 1) : \E i \in 1..N : Begins(F, i, b)
      /\ \A i, j \in 1..N : F[i].kind = "start" /\ F[j].kind = "start" /\ F[i].at = F[j].at => i = j
      /\ \A i, j \in 1..N :
           F[i].kind \in BlockKinds /\ F[j].kind \in BlockKinds /\ F[i].at < F[j].at => i < j
      /\ \A b \in 0..(m - 1) : \E i \in 1..N : Stops(F, i, b)
    BY DEF InBlocks
<1> HIDE DEF N
<1>3. k \in Nat /\ l \in Nat /\ n <= k /\ k <= n + 1
    BY DEF OneMore
<1>4. "start" \in BlockKinds /\ "stop" \in BlockKinds
    BY DEF BlockKinds
<1>5. f.kind \in BlockKinds => f.at = k - 1
    BY <1>4 DEF OneMore
<1>6. ASSUME NEW i \in 1..Len(G), G[i].kind \in BlockKinds PROVE G[i].at \in 0..(k - 1)
  <2>1. CASE i \in 1..N
    <3>1. F[i].at \in 0..(n - 1) /\ G[i] = F[i]
        BY <1>1, <1>2, <1>6, <2>1
    <3> QED
        BY <1>3, <3>1
  <2>2. CASE i = N + 1
    <3>1. f.at = k - 1 /\ k > 0
        BY <1>1, <1>4, <1>6, <2>2 DEF OneMore
    <3> QED
        BY <1>1, <1>3, <2>2, <3>1
  <2> QED
      BY <1>1, <2>1, <2>2
<1>7. ASSUME NEW b \in 0..(k - 1) PROVE \E i \in 1..Len(G) : Begins(G, i, b)
  <2>1. CASE b \in 0..(n - 1)
    <3>1. PICK i \in 1..N : Begins(F, i, b)
        BY <1>2, <2>1
    <3>2. ASSUME NEW j \in 1..Len(G), G[j].kind \in BlockKinds, G[j].at = b PROVE i <= j
      <4>1. CASE j \in 1..N
        <5>1. F[j].kind \in BlockKinds /\ F[j].at = b
            BY <1>1, <3>2, <4>1
        <5> QED
            BY <3>1, <4>1, <5>1 DEF Begins, N
      <4>2. CASE j = N + 1
          BY <1>1, <4>2
      <4> QED
          BY <1>1, <4>1, <4>2
    <3>3. i \in 1..Len(G) /\ G[i].kind = "start" /\ G[i].at = b
        BY <1>1, <3>1 DEF Begins
    <3> QED
        BY <3>2, <3>3 DEF Begins
  <2>2. CASE ~(b \in 0..(n - 1))
    <3>1. b = n /\ k = n + 1 /\ f.kind = "start" /\ f.at = n
        BY <1>3, <2>2 DEF OneMore
    <3>2. ASSUME NEW j \in 1..Len(G), G[j].kind \in BlockKinds, G[j].at = b PROVE N + 1 <= j
      <4>1. CASE j \in 1..N
        <5>1. F[j].at \in 0..(n - 1) /\ F[j].at = n
            BY <1>1, <1>2, <3>1, <3>2, <4>1
        <5> QED
            BY <5>1
      <4> QED
          BY <1>1, <4>1
    <3>3. N + 1 \in 1..Len(G) /\ G[N + 1].kind = "start" /\ G[N + 1].at = b
        BY <1>1, <3>1
    <3> QED
        BY <3>2, <3>3 DEF Begins
  <2> QED
      BY <2>1, <2>2
<1>8. ASSUME NEW i \in 1..Len(G), NEW j \in 1..Len(G), G[i].kind = "start", G[j].kind = "start", G[i].at = G[j].at
      PROVE  i = j
  <2>1. CASE i \in 1..N /\ j \in 1..N
      BY <1>1, <1>2, <1>8, <2>1
  <2>2. ASSUME NEW o \in 1..N, G[o].kind = "start", f.kind = "start", G[o].at = f.at PROVE FALSE
    <3>1. f.at = n /\ F[o].kind \in BlockKinds /\ F[o].at = n
        BY <1>1, <1>4, <2>2 DEF OneMore
    <3>2. n \in 0..(n - 1)
        BY <1>2, <3>1
    <3> QED
        BY <3>2
  <2> QED
      BY <1>1, <1>8, <2>1, <2>2
<1>9. ASSUME NEW i \in 1..Len(G), NEW j \in 1..Len(G), G[i].kind \in BlockKinds, G[j].kind \in BlockKinds,
             G[i].at < G[j].at
      PROVE  i < j
  <2>1. CASE i \in 1..N /\ j \in 1..N
      BY <1>1, <1>2, <1>9, <2>1
  <2>2. CASE i = N + 1
    <3>1. G[i].at = k - 1 /\ G[j].at \in 0..(k - 1)
        BY <1>1, <1>5, <1>6, <1>9, <2>2
    <3> QED
        BY <1>3, <1>9, <3>1
  <2>3. CASE i \in 1..N /\ j = N + 1
      BY <1>1, <2>3
  <2> QED
      BY <1>1, <2>1, <2>2, <2>3
<1>10. ASSUME NEW b \in 0..(l - 1) PROVE \E i \in 1..Len(G) : Stops(G, i, b)
  <2>1. CASE b \in 0..(m - 1) /\ (f.kind \in BlockKinds => f.at # b)
    <3>1. PICK i \in 1..N : Stops(F, i, b)
        BY <1>2, <2>1
    <3>2. ASSUME NEW j \in 1..Len(G), G[j].kind \in BlockKinds, G[j].at = b PROVE j <= i
      <4>1. j \in 1..N /\ F[j].kind \in BlockKinds /\ F[j].at = b
          BY <1>1, <2>1, <3>2
      <4> QED
          BY <3>1, <4>1 DEF Stops, N
    <3>3. i \in 1..Len(G) /\ G[i].kind = "stop" /\ G[i].at = b
        BY <1>1, <3>1 DEF Stops
    <3> QED
        BY <3>2, <3>3 DEF Stops
  <2>2. CASE ~(b \in 0..(m - 1) /\ (f.kind \in BlockKinds => f.at # b))
    <3>1. f.kind = "stop" /\ f.at = n - 1 /\ b = n - 1
        BY <1>3, <1>4, <2>2 DEF OneMore
    <3>2. N + 1 \in 1..Len(G) /\ G[N + 1].kind = "stop" /\ G[N + 1].at = b
          /\ \A j \in 1..Len(G) : j <= N + 1
        BY <1>1, <3>1
    <3> QED
        BY <3>2 DEF Stops
  <2> QED
      BY <2>1, <2>2
<1> QED
    BY <1>6, <1>7, <1>8, <1>9, <1>10 DEF InBlocks, G

(* The renderer of egress.py between two events: at most one of a text block  *)
(* and a block of thinking is open, it is the last begun, and all before it   *)
(* are over.                                                                  *)
Row(F, n, t, h) ==
    /\ t = None \/ h = None
    /\ t # None => t = n - 1
    /\ h # None => h = n - 1
    /\ InBlocks(F, n, IF t = None /\ h = None THEN n ELSE n - 1)
InRow(r) == Row(r.frames, r.next, r.textAt, r.thinkAt)

LEMMA RowBegins ==
    ASSUME NEW F \in Seq(Frame), NEW n \in Nat, NEW f \in Frame, f.kind = "start", f.at = n,
           Row(F, n, None, None)
    PROVE  Row(Append(F, f), n + 1, n, None) /\ Row(Append(F, f), n + 1, None, n)
<1>1. InBlocks(F, n, n)
    BY DEF Row
<1>2. OneMore(F, f, n, n, n + 1, n)
    BY DEF OneMore
<1>3. InBlocks(Append(F, f), n + 1, n)
    BY <1>1, <1>2, BlocksGoOn
<1>4. n # None /\ (n + 1) - 1 = n
    BY DEF None
<1> QED
    BY <1>3, <1>4 DEF Row

LEMMA RowGoesOn ==
    ASSUME NEW F \in Seq(Frame), NEW n \in Nat, NEW f \in Frame, NEW t \in BlockPlaces, NEW h \in BlockPlaces,
           f.kind \in BlockKinds \ {"start", "stop"}, f.at \in {t, h} \ {None}, Row(F, n, t, h)
    PROVE  Row(Append(F, f), n, t, h)
<1>1. n > 0 /\ f.at = n - 1 /\ n - 1 \in Nat /\ InBlocks(F, n, n - 1) /\ ~(t = None /\ h = None)
    BY DEF Row, BlockPlaces, None
<1>2. OneMore(F, f, n, n - 1, n, n - 1)
    BY <1>1 DEF OneMore
<1>3. InBlocks(Append(F, f), n, n - 1)
    BY <1>1, <1>2, BlocksGoOn
<1> QED
    BY <1>1, <1>3 DEF Row

LEMMA RowStops ==
    ASSUME NEW F \in Seq(Frame), NEW n \in Nat, NEW f \in Frame, NEW t \in BlockPlaces, NEW h \in BlockPlaces,
           f.kind = "stop", f.at \in {t, h} \ {None}, Row(F, n, t, h)
    PROVE  Row(Append(F, f), n, None, None)
<1>1. n > 0 /\ f.at = n - 1 /\ n - 1 \in Nat /\ InBlocks(F, n, n - 1)
    BY DEF Row, BlockPlaces, None
<1>2. OneMore(F, f, n, n - 1, n, n)
    BY <1>1 DEF OneMore
<1>3. InBlocks(Append(F, f), n, n)
    BY <1>1, <1>2, BlocksGoOn
<1> QED
    BY <1>3 DEF Row

LEMMA RowStays ==
    ASSUME NEW F \in Seq(Frame), NEW n \in Nat, NEW f \in Frame, f.kind \notin BlockKinds, Row(F, n, None, None)
    PROVE  Row(Append(F, f), n, None, None)
<1>1. InBlocks(F, n, n)
    BY DEF Row
<1>2. OneMore(F, f, n, n, n, n)
    BY DEF OneMore
<1>3. InBlocks(Append(F, f), n, n)
    BY <1>1, <1>2, BlocksGoOn
<1> QED
    BY <1>3 DEF Row

LEMMA EmitAppends ==
    ASSUME NEW r \in Renderer, NEW kind \in FrameKinds, NEW at \in Int, NEW body \in Text
    PROVE  LET x == Emit(r, kind, at, body)
               f == [kind |-> kind, at |-> at, body |-> body]
           IN /\ f \in Frame /\ f.kind = kind /\ f.at = at
              /\ x \in Renderer /\ x.frames = Append(r.frames, f)
              /\ x.next = r.next /\ x.textAt = r.textAt /\ x.thinkAt = r.thinkAt /\ x.calls = r.calls
<1> DEFINE f == [kind |-> kind, at |-> at, body |-> body]
           framed == Append(r.frames, f)
           x == [r EXCEPT !.frames = framed]
<1>1. Emit(r, kind, at, body) = x
    BY DEF Emit
<1>2. f \in Frame /\ f.kind = kind /\ f.at = at
    BY DEF Frame
<1>3. x.frames = framed
  <2> HIDE DEF framed
  <2> QED
      BY DEF Renderer
<1> HIDE DEF x, framed
<1> QED
    BY <1>1, <1>2, <1>3, EmitIs DEF framed

\* What r's fields are taken from.
LEMMA RowFields ==
    ASSUME NEW r \in Renderer
    PROVE  /\ r.frames \in Seq(Frame) /\ r.next \in Nat /\ r.textAt \in BlockPlaces /\ r.thinkAt \in BlockPlaces
           /\ r.textAt \in Int /\ r.thinkAt \in Int /\ r.sig \in Token /\ r.calls \in ByNumbers(Item)
<1>1. /\ r.frames \in Seq(Frame) /\ r.next \in Nat /\ r.textAt \in BlockPlaces /\ r.thinkAt \in BlockPlaces
      /\ r.sig \in Token /\ r.calls \in ByNumbers(Item)
    BY DEF Renderer
<1> QED
    BY <1>1 DEF BlockPlaces, None

LEMMA StopThinkingInRow ==
    ASSUME NEW r \in Renderer, InRow(r)
    PROVE  LET x == StopThinking(r) IN
           /\ x \in Renderer /\ InRow(x)
           /\ x.thinkAt = None /\ x.textAt = r.textAt /\ x.next = r.next /\ x.calls = r.calls
<1>1. /\ r.frames \in Seq(Frame) /\ r.next \in Nat /\ r.textAt \in BlockPlaces /\ r.thinkAt \in BlockPlaces
      /\ r.thinkAt \in Int /\ r.sig \in Token
    BY RowFields
<1>2. <<r.sig>> \in Text /\ <<>> \in Text
    BY <1>1, Bodied
<1>3. "signature" \in FrameKinds /\ "stop" \in FrameKinds /\ "signature" \in BlockKinds \ {"start", "stop"}
    BY DEF FrameKinds, OpenKinds, BlockKinds
<1>4. CASE r.thinkAt = None
    BY <1>4 DEF StopThinking
<1>5. CASE r.thinkAt # None
  <2> DEFINE signed == Sign(r)
             stopped == Emit(signed, "stop", r.thinkAt, <<>>)
             x == [stopped EXCEPT !.thinkAt = None]
  <2>1. signed \in Renderer /\ InRow(signed) /\ signed.next = r.next /\ signed.textAt = r.textAt
        /\ signed.thinkAt = r.thinkAt /\ signed.calls = r.calls
    <3>1. CASE r.sig = ""
        BY <3>1 DEF Sign
    <3>2. CASE r.sig # ""
      <4> DEFINE f == [kind |-> "signature", at |-> r.thinkAt, body |-> <<r.sig>>]
      <4>1. signed = Emit(r, "signature", r.thinkAt, <<r.sig>>)
          BY <3>2 DEF Sign
      <4>2. /\ f \in Frame /\ f.kind = "signature" /\ f.at = r.thinkAt
            /\ signed \in Renderer /\ signed.frames = Append(r.frames, f)
            /\ signed.next = r.next /\ signed.textAt = r.textAt /\ signed.thinkAt = r.thinkAt
            /\ signed.calls = r.calls
          BY <1>1, <1>2, <1>3, <4>1, EmitAppends
      <4> HIDE DEF f, signed
      <4>3. Row(Append(r.frames, f), r.next, r.textAt, r.thinkAt)
          BY <1>1, <1>3, <1>5, <4>2, RowGoesOn DEF InRow
      <4> QED
          BY <4>2, <4>3 DEF InRow, signed
    <3> QED
        BY <3>1, <3>2
  <2> HIDE DEF signed
  <2> DEFINE f == [kind |-> "stop", at |-> r.thinkAt, body |-> <<>>]
  <2>2. /\ f \in Frame /\ f.kind = "stop" /\ f.at = r.thinkAt
        /\ stopped \in Renderer /\ stopped.frames = Append(signed.frames, f)
        /\ stopped.next = r.next /\ stopped.textAt = r.textAt /\ stopped.calls = r.calls
      BY <1>1, <1>2, <1>3, <2>1, EmitAppends
  <2> HIDE DEF f, stopped
  <2>3. Row(Append(signed.frames, f), r.next, None, None)
    <3>1. Row(signed.frames, r.next, r.textAt, r.thinkAt) /\ signed.frames \in Seq(Frame)
        BY <2>1, RowFields DEF InRow
    <3> QED
        BY <1>1, <1>5, <2>2, <3>1, RowStops
  <2>4. r.textAt = None
      BY <1>5 DEF InRow, Row
  <2>5. None \in BlockPlaces
      BY DEF BlockPlaces
  <2>6. x \in Renderer
      BY Zenon, <2>2, <2>5 DEF Renderer
  <2>7. x.frames = stopped.frames /\ x.next = stopped.next /\ x.textAt = stopped.textAt /\ x.thinkAt = None
        /\ x.calls = stopped.calls
      BY <2>2 DEF Renderer
  <2>8. StopThinking(r) = x
      BY <1>5 DEF StopThinking, stopped, signed
  <2> HIDE DEF x
  <2>9. InRow(x)
      BY <2>2, <2>3, <2>4, <2>7 DEF InRow
  <2> QED
      BY <2>2, <2>6, <2>7, <2>8, <2>9
<1> QED
    BY <1>4, <1>5

LEMMA StopTextInRow ==
    ASSUME NEW r \in Renderer, InRow(r)
    PROVE  LET x == StopText(r) IN
           /\ x \in Renderer /\ InRow(x)
           /\ x.textAt = None /\ x.thinkAt = r.thinkAt /\ x.next = r.next /\ x.calls = r.calls
<1>1. /\ r.frames \in Seq(Frame) /\ r.next \in Nat /\ r.textAt \in BlockPlaces /\ r.thinkAt \in BlockPlaces
      /\ r.textAt \in Int
    BY RowFields
<1>2. <<>> \in Text
    BY Bodied
<1>3. "stop" \in FrameKinds
    BY DEF FrameKinds, OpenKinds
<1>4. CASE r.textAt = None
    BY <1>4 DEF StopText
<1>5. CASE r.textAt # None
  <2> DEFINE stopped == Emit(r, "stop", r.textAt, <<>>)
             x == [stopped EXCEPT !.textAt = None]
             f == [kind |-> "stop", at |-> r.textAt, body |-> <<>>]
  <2>2. /\ f \in Frame /\ f.kind = "stop" /\ f.at = r.textAt
        /\ stopped \in Renderer /\ stopped.frames = Append(r.frames, f)
        /\ stopped.next = r.next /\ stopped.thinkAt = r.thinkAt /\ stopped.calls = r.calls
      BY <1>1, <1>2, <1>3, EmitAppends
  <2> HIDE DEF f, stopped
  <2>3. Row(Append(r.frames, f), r.next, None, None)
      BY <1>1, <1>5, <2>2, RowStops DEF InRow
  <2>4. r.thinkAt = None
      BY <1>5 DEF InRow, Row
  <2>5. None \in BlockPlaces
      BY DEF BlockPlaces
  <2>6. x \in Renderer
      BY Zenon, <2>2, <2>5 DEF Renderer
  <2>7. x.frames = stopped.frames /\ x.next = stopped.next /\ x.thinkAt = stopped.thinkAt /\ x.textAt = None
        /\ x.calls = stopped.calls
      BY <2>2 DEF Renderer
  <2>8. StopText(r) = x
      BY <1>5 DEF StopText, stopped
  <2> HIDE DEF x
  <2>9. InRow(x)
      BY <2>2, <2>3, <2>4, <2>7 DEF InRow
  <2> QED
      BY <2>2, <2>6, <2>7, <2>8, <2>9
<1> QED
    BY <1>4, <1>5

\* An open block takes more of what it is for.
LEMMA EmitsInRow ==
    ASSUME NEW r \in Renderer, InRow(r), NEW kind \in BlockKinds \ {"start", "stop"}, NEW body \in Text,
           NEW at \in {r.textAt, r.thinkAt}, at # None
    PROVE  InRow(Emit(r, kind, at, body))
<1> DEFINE f == [kind |-> kind, at |-> at, body |-> body]
           x == Emit(r, kind, at, body)
<1>1. /\ r.frames \in Seq(Frame) /\ r.next \in Nat /\ r.textAt \in BlockPlaces /\ r.thinkAt \in BlockPlaces
      /\ at \in Int
    BY RowFields
<1>2. kind \in FrameKinds
    BY DEF BlockKinds, FrameKinds, OpenKinds
<1>3. /\ f \in Frame /\ f.kind = kind /\ f.at = at
      /\ x \in Renderer /\ x.frames = Append(r.frames, f)
      /\ x.next = r.next /\ x.textAt = r.textAt /\ x.thinkAt = r.thinkAt
    BY <1>1, <1>2, EmitAppends
<1> HIDE DEF f, x
<1>4. Row(Append(r.frames, f), r.next, r.textAt, r.thinkAt)
    BY <1>1, <1>3, RowGoesOn DEF InRow
<1>5. InRow(x)
    BY <1>3, <1>4 DEF InRow
<1> QED
    BY <1>5 DEF x

\* Frames of no block stand between blocks.
LEMMA EmitsBetween ==
    ASSUME NEW r \in Renderer, InRow(r), r.textAt = None, r.thinkAt = None,
           NEW kind \in FrameKinds \ BlockKinds, NEW at \in Int, NEW body \in Text
    PROVE  LET x == Emit(r, kind, at, body) IN
           x \in Renderer /\ InRow(x) /\ x.textAt = None /\ x.thinkAt = None
<1> DEFINE f == [kind |-> kind, at |-> at, body |-> body]
           x == Emit(r, kind, at, body)
<1>1. r.frames \in Seq(Frame) /\ r.next \in Nat
    BY RowFields
<1>2. /\ f \in Frame /\ f.kind = kind
      /\ x \in Renderer /\ x.frames = Append(r.frames, f)
      /\ x.next = r.next /\ x.textAt = r.textAt /\ x.thinkAt = r.thinkAt
    BY EmitAppends
<1> HIDE DEF f, x
<1>3. Row(Append(r.frames, f), r.next, None, None)
    BY <1>1, <1>2, RowStays DEF InRow
<1>4. InRow(x)
    BY <1>2, <1>3 DEF InRow
<1> QED
    BY <1>2, <1>4 DEF x

\* The next block begins: of text, of thinking, or of neither.
LEMMA BeginsInRow ==
    ASSUME NEW r \in Renderer, InRow(r), r.textAt = None, r.thinkAt = None, NEW s \in Renderer, NEW body \in Text,
           s.frames = r.frames, s.next = r.next + 1
    PROVE  LET x == Emit(s, "start", r.next, body) IN
           /\ x \in Renderer /\ x.next = r.next + 1 /\ x.calls = s.calls
           /\ x.textAt = s.textAt /\ x.thinkAt = s.thinkAt
           /\ Row(x.frames, x.next, r.next, None) /\ Row(x.frames, x.next, None, r.next)
<1> DEFINE f == [kind |-> "start", at |-> r.next, body |-> body]
           x == Emit(s, "start", r.next, body)
<1>1. r.frames \in Seq(Frame) /\ r.next \in Nat /\ r.next \in Int
    BY RowFields
<1>2. "start" \in FrameKinds
    BY DEF FrameKinds, OpenKinds
<1>3. /\ f \in Frame /\ f.kind = "start" /\ f.at = r.next
      /\ x \in Renderer /\ x.frames = Append(s.frames, f) /\ x.calls = s.calls
      /\ x.next = s.next /\ x.textAt = s.textAt /\ x.thinkAt = s.thinkAt
    BY <1>1, <1>2, EmitAppends
<1> HIDE DEF f, x
<1>4. Row(Append(r.frames, f), r.next + 1, r.next, None) /\ Row(Append(r.frames, f), r.next + 1, None, r.next)
    BY <1>1, <1>3, RowBegins DEF InRow
<1> QED
    BY <1>3, <1>4 DEF x

LEMMA MessagesTextInRow ==
    ASSUME NEW r \in Renderer, InRow(r), NEW e \in OutputEvent
    PROVE  InRow(MessagesText(r, e))
<1> DEFINE closed == StopThinking(r)
           next == closed.next + 1
           place == r.next
           s == [closed EXCEPT !.textAt = place, !.next = next]
           begun == Emit(s, "start", r.next, <<"text">>)
           open == IF closed.textAt # None THEN closed ELSE begun
<1>1. e.body \in Text /\ <<"text">> \in Text
  <2>1. "text" \in Token
      BY DEF Token
  <2> QED
      BY <2>1, Bodied DEF OutputEvent
<1>2. "text" \in BlockKinds \ {"start", "stop"}
    BY DEF BlockKinds
<1>3. MessagesText(r, e) = Emit(open, "text", open.textAt, e.body)
    BY DEF MessagesText
<1>4. closed \in Renderer /\ InRow(closed) /\ closed.thinkAt = None /\ closed.next = r.next
    BY StopThinkingInRow
<1> HIDE DEF closed
<1>5. closed.next \in Nat
    BY <1>4, RowFields
<1>6. ASSUME closed.textAt = None PROVE begun \in Renderer /\ InRow(begun) /\ begun.textAt # None
  <2>1. next \in Nat /\ place \in BlockPlaces /\ place # None
      BY <1>4, <1>5 DEF BlockPlaces, None
  <2>2. s \in Renderer
    <3> HIDE DEF next, place
    <3> QED
        BY Zenon, <1>4, <2>1 DEF Renderer
  <2>3. s.frames = closed.frames /\ s.textAt = place /\ s.thinkAt = closed.thinkAt /\ s.next = next
    <3> HIDE DEF next, place
    <3> QED
        BY <1>4 DEF Renderer
  <2> HIDE DEF s
  <2>4. /\ begun \in Renderer /\ begun.textAt = s.textAt /\ begun.thinkAt = s.thinkAt
        /\ Row(begun.frames, begun.next, r.next, None)
      BY <1>1, <1>4, <1>6, <2>2, <2>3, BeginsInRow
  <2> HIDE DEF begun
  <2> QED
      BY <1>4, <2>1, <2>3, <2>4 DEF InRow
<1> HIDE DEF begun
<1>7. open \in Renderer /\ InRow(open) /\ open.textAt # None
    BY <1>4, <1>6
<1> HIDE DEF open
<1> QED
    BY <1>1, <1>2, <1>3, <1>7, EmitsInRow

LEMMA MessagesThinkingInRow ==
    ASSUME NEW r \in Renderer, InRow(r), NEW e \in OutputEvent
    PROVE  InRow(MessagesThinking(r, e))
<1> DEFINE mark == e.mark
           marked == [r EXCEPT !.sig = mark]
           signed == IF e.mark = "" THEN r ELSE marked
           closed == StopText(signed)
           next == closed.next + 1
           place == r.next
           s == [closed EXCEPT !.thinkAt = place, !.next = next]
           begun == Emit(s, "start", r.next, <<"thinking">>)
           open == IF r.thinkAt # None THEN signed ELSE begun
<1>1. e.body \in Text /\ <<"thinking">> \in Text /\ e.mark \in Token
  <2>1. "thinking" \in Token
      BY DEF Token
  <2> QED
      BY <2>1, Bodied DEF OutputEvent
<1>2. "thinking" \in BlockKinds \ {"start", "stop"}
    BY DEF BlockKinds
<1>3. MessagesThinking(r, e) = IF e.body = <<>> THEN signed ELSE Emit(open, "thinking", open.thinkAt, e.body)
    BY DEF MessagesThinking
<1>4. signed \in Renderer /\ InRow(signed) /\ signed.thinkAt = r.thinkAt /\ signed.next = r.next
  <2> HIDE DEF mark
  <2>1. mark \in Token
      BY <1>1 DEF mark
  <2>2. marked \in Renderer
      BY Zenon, <2>1 DEF Renderer
  <2>3. /\ marked.frames = r.frames /\ marked.thinkAt = r.thinkAt /\ marked.textAt = r.textAt
        /\ marked.next = r.next
      BY DEF Renderer
  <2> HIDE DEF marked
  <2> QED
      BY <2>2, <2>3 DEF InRow
<1> HIDE DEF signed
<1>5. /\ closed \in Renderer /\ InRow(closed) /\ closed.textAt = None /\ closed.thinkAt = r.thinkAt
      /\ closed.next = r.next
    BY <1>4, StopTextInRow
<1> HIDE DEF closed
<1>6. closed.next \in Nat
    BY <1>5, RowFields
<1>7. ASSUME r.thinkAt = None PROVE begun \in Renderer /\ InRow(begun) /\ begun.thinkAt # None
  <2>1. next \in Nat /\ place \in BlockPlaces /\ place # None
      BY <1>5, <1>6 DEF BlockPlaces, None
  <2>2. s \in Renderer
    <3> HIDE DEF next, place
    <3> QED
        BY Zenon, <1>5, <2>1 DEF Renderer
  <2>3. s.frames = closed.frames /\ s.thinkAt = place /\ s.textAt = closed.textAt /\ s.next = next
    <3> HIDE DEF next, place
    <3> QED
        BY <1>5 DEF Renderer
  <2> HIDE DEF s
  <2>4. /\ begun \in Renderer /\ begun.textAt = s.textAt /\ begun.thinkAt = s.thinkAt
        /\ Row(begun.frames, begun.next, None, r.next)
      BY <1>1, <1>5, <1>7, <2>2, <2>3, BeginsInRow
  <2> HIDE DEF begun
  <2> QED
      BY <1>5, <2>1, <2>3, <2>4 DEF InRow
<1> HIDE DEF begun
<1>8. open \in Renderer /\ InRow(open) /\ open.thinkAt # None
    BY <1>4, <1>7
<1> HIDE DEF open
<1>9. InRow(Emit(open, "thinking", open.thinkAt, e.body))
    BY <1>1, <1>2, <1>8, EmitsInRow
<1> QED
    BY <1>3, <1>4, <1>9

\* Calls are only collected, and the end of the events is only noted.
LEMMA CollectsInRow ==
    ASSUME NEW r \in Renderer, InRow(r), NEW calls
    PROVE  InRow([r EXCEPT !.calls = calls])
<1>1. LET s == [r EXCEPT !.calls = calls] IN
      s.frames = r.frames /\ s.next = r.next /\ s.textAt = r.textAt /\ s.thinkAt = r.thinkAt
    BY DEF Renderer
<1> QED
    BY <1>1 DEF InRow

LEMMA LeavesInRow ==
    ASSUME NEW r \in Renderer, InRow(r), NEW e
    PROVE  InRow(Leave(r, e))
<1> DEFINE f == IF e.mark = "" THEN r.finish ELSE e.mark
<1>1. Leave(r, e) = [r EXCEPT !.over = TRUE, !.done = TRUE, !.finish = f]
    BY DEF Leave
<1> HIDE DEF f
<1>2. LET s == [r EXCEPT !.over = TRUE, !.done = TRUE, !.finish = f] IN
      s.frames = r.frames /\ s.next = r.next /\ s.textAt = r.textAt /\ s.thinkAt = r.thinkAt
    BY DEF Renderer
<1> QED
    BY <1>1, <1>2 DEF InRow

LEMMA RendersInRow ==
    ASSUME NEW r \in Renderer, InRow(r), NEW e \in OutputEvent
    PROVE  InRow(Render("messages", r, e))
<1>1. Render("messages", r, e) \in {r, Messages(r, e)}
    BY Zenon DEF Render
<1>2. Messages(r, e) \in {MessagesText(r, e), MessagesThinking(r, e), MessagesCall(r, e),
                          MessagesArguments(r, e), Leave(r, e), r}
    BY Zenon DEF Messages
<1>3. InRow(MessagesCall(r, e)) /\ InRow(MessagesArguments(r, e))
    BY CollectsInRow DEF MessagesCall, MessagesArguments
<1>4. InRow(MessagesText(r, e)) /\ InRow(MessagesThinking(r, e)) /\ InRow(Leave(r, e))
    BY MessagesTextInRow, MessagesThinkingInRow, LeavesInRow
<1> QED
    BY <1>1, <1>2, <1>3, <1>4

LEMMA RenderingInRow ==
    ASSUME client = "messages", NEW r \in Renderer, InRow(r), NEW out \in Account
    PROVE  Rendering(r, out) \in Renderer /\ InRow(Rendering(r, out))
<1> DEFINE x == Renders(r, out)
           Placed == {y \in Renderer : InRow(y)}
<1>1. Len(out) \in Nat /\ \A i \in 1..Len(out) : out[i] \in OutputEvent
    BY AccountIs
<1>2. client \in Endpoint
    BY DEF Endpoint
<1>3. /\ \A n \in 0..Len(out) : x[n] \in Renderer
      /\ x[0] = r
      /\ \A n \in 1..Len(out) : x[n] = Render(client, x[n - 1], out[n])
    BY <1>2, RendersAre
<1>4. Rendering(r, out) = x[Len(out)]
    BY DEF Rendering
<1> HIDE DEF x
<1>5. x[0] \in Placed
    BY <1>3
<1>6. ASSUME NEW n \in 1..Len(out), x[n - 1] \in Placed PROVE x[n] \in Placed
  <2>1. n \in 0..Len(out)
      BY <1>1
  <2>2. InRow(Render("messages", x[n - 1], out[n]))
      BY <1>1, <1>6, RendersInRow
  <2> QED
      BY <1>3, <2>1, <2>2
<1>7. \A n \in 0..Len(out) : x[n] \in Placed
  <2> HIDE DEF Placed
  <2> QED
      BY <1>1, <1>5, <1>6, RoundsIn
<1> QED
    BY <1>1, <1>4, <1>7

\* Between two blocks: none is open.
Rests(r) == r \in Renderer /\ InRow(r) /\ r.textAt = None /\ r.thinkAt = None

LEMMA CallBlockInRow ==
    ASSUME NEW r, Rests(r), NEW k \in DOMAIN r.calls
    PROVE  Rests(CallBlock(r, k)) /\ CallBlock(r, k).calls = r.calls
<1> DEFINE c == r.calls[k]
           at == r.next
           next == r.next + 1
           s == [r EXCEPT !.next = next]
           begun == Emit(s, "start", at, <<"tool_use", c.name>>)
           filled == Emit(begun, "arguments", at, ArgumentsToInput(c.args))
           closed == Emit(filled, "stop", at, <<>>)
           g == [kind |-> "arguments", at |-> at, body |-> ArgumentsToInput(c.args)]
           h == [kind |-> "stop", at |-> at, body |-> <<>>]
<1>1. CallBlock(r, k) = closed
    BY DEF CallBlock
<1>2. r \in Renderer /\ InRow(r) /\ r.textAt = None /\ r.thinkAt = None
    BY DEF Rests
<1>3. r.next \in Nat /\ c \in Item
    BY <1>2, RowFields, ByNumber
<1> HIDE DEF c
<1>4. at \in Int /\ at # None /\ at \in BlockPlaces /\ next \in Nat /\ None \in BlockPlaces
    BY <1>3 DEF BlockPlaces, None
<1>5. <<"tool_use", c.name>> \in Text /\ ArgumentsToInput(c.args) \in Text /\ <<>> \in Text
  <2>1. "tool_use" \in Token /\ c.name \in Token /\ c.args \in Text
      BY <1>3 DEF Token, Item
  <2> QED
      BY <2>1, Bodied, InputIs
<1>6. {"start", "arguments", "stop"} \subseteq FrameKinds /\ "arguments" \in BlockKinds \ {"start", "stop"}
    BY DEF FrameKinds, OpenKinds, BlockKinds
<1>7. s \in Renderer
  <2> HIDE DEF next
  <2> QED
      BY Zenon, <1>2, <1>4 DEF Renderer
<1>8. s.frames = r.frames /\ s.textAt = None /\ s.thinkAt = None /\ s.next = next /\ s.calls = r.calls
  <2> HIDE DEF next
  <2> QED
      BY <1>2 DEF Renderer
<1> HIDE DEF s
<1>9. /\ begun \in Renderer /\ begun.next = next /\ begun.calls = r.calls
      /\ begun.textAt = None /\ begun.thinkAt = None
      /\ Row(begun.frames, next, at, None)
    BY <1>2, <1>5, <1>7, <1>8, BeginsInRow
<1> HIDE DEF begun, at, next
<1>10. /\ g \in Frame /\ g.kind = "arguments" /\ g.at = at
       /\ filled \in Renderer /\ filled.frames = Append(begun.frames, g)
       /\ filled.next = next /\ filled.textAt = None /\ filled.thinkAt = None /\ filled.calls = r.calls
    BY <1>4, <1>5, <1>6, <1>9, EmitAppends
<1>11. begun.frames \in Seq(Frame)
    BY <1>9, RowFields
<1> HIDE DEF filled, g
<1>12. Row(filled.frames, next, at, None)
    BY <1>4, <1>6, <1>9, <1>10, <1>11, RowGoesOn
<1>13. /\ h \in Frame /\ h.kind = "stop" /\ h.at = at
       /\ closed \in Renderer /\ closed.frames = Append(filled.frames, h)
       /\ closed.next = next /\ closed.textAt = None /\ closed.thinkAt = None /\ closed.calls = r.calls
  <2>1. filled \in Renderer /\ "stop" \in FrameKinds /\ at \in Int /\ <<>> \in Text
      BY <1>4, <1>5, <1>6, <1>10
  <2>2. /\ h \in Frame /\ h.kind = "stop" /\ h.at = at
        /\ closed \in Renderer /\ closed.frames = Append(filled.frames, h)
        /\ closed.next = filled.next /\ closed.textAt = filled.textAt /\ closed.thinkAt = filled.thinkAt
        /\ closed.calls = filled.calls
      BY <2>1, EmitAppends
  <2> HIDE DEF closed, h
  <2> QED
      BY <1>10, <2>2
<1>14. filled.frames \in Seq(Frame)
    BY <1>10, RowFields
<1> HIDE DEF closed, h
<1>15. Row(closed.frames, next, None, None)
    BY <1>4, <1>12, <1>13, <1>14, RowStops
<1> QED
    BY <1>1, <1>13, <1>15 DEF Rests, InRow

LEMMA MessagesEndInRow ==
    ASSUME NEW r \in Renderer, InRow(r)
    PROVE  Rests(End("messages", r))
<1> DEFINE slots == Ascending(DOMAIN r.calls)
           x == StopText(StopThinking(r))
           blocks == CallBlocks(x, slots)[Len(slots)]
           reason == StopReason(r.finish)
           last == Emit(blocks, "finish", 0, <<reason>>)
<1>1. End("messages", r) = Emit(last, "message_stop", 0, <<>>)
    BY DEF End, MessagesEnd
<1>2. Rests(x) /\ x.calls = r.calls
  <2>1. StopThinking(r) \in Renderer /\ InRow(StopThinking(r)) /\ StopThinking(r).thinkAt = None
        /\ StopThinking(r).calls = r.calls
      BY StopThinkingInRow
  <2> QED
      BY <2>1, StopTextInRow DEF Rests
<1>3. Len(slots) \in Nat /\ \A i \in 1..Len(slots) : slots[i] \in DOMAIN r.calls
  <2>1. r.calls \in ByNumbers(Item)
      BY RowFields
  <2>2. DOMAIN r.calls \in Numbers
      BY <2>1, ByNumber DEF Numbers
  <2> QED
      BY <2>2, AscendingIs
<1> HIDE DEF x, slots
<1> DEFINE Resting == {y \in Renderer : Rests(y) /\ y.calls = r.calls}
<1>4. x \in Resting
    BY <1>2 DEF Rests
<1>5. ASSUME NEW n \in 1..Len(slots), NEW y \in Resting PROVE CallBlock(y, slots[n]) \in Resting
    BY <1>3, CallBlockInRow DEF Rests
<1>6. \A n \in 0..Len(slots) : CallBlocks(x, slots)[n] \in Resting
  <2> HIDE DEF Resting
  <2> QED
      BY <1>3, <1>4, <1>5, CallBlocksIn
<1>7. Rests(blocks)
    BY <1>3, <1>6
<1> HIDE DEF blocks
<1>8. /\ {"finish", "message_stop"} \subseteq FrameKinds \ BlockKinds
      /\ <<reason>> \in Text /\ <<>> \in Text /\ 0 \in Int
  <2>1. reason \in Token
      BY DEF StopReason, Token
  <2> QED
      BY <2>1, Bodied DEF FrameKinds, EndFrames, OpenKinds, BlockKinds
<1> HIDE DEF reason
<1>9. Rests(last)
    BY <1>7, <1>8, EmitsBetween DEF Rests
<1> HIDE DEF last
<1>10. Rests(Emit(last, "message_stop", 0, <<>>))
    BY <1>8, <1>9, EmitsBetween DEF Rests
<1> QED
    BY <1>1, <1>10

-----------------------------------------------------------------------------
InRowAlways ==
    client = "messages" => InRow(renderer) /\ (phase = "ended" => Rests(renderer))

LEMMA InRowStarts ==
    ASSUME RenderingInit PROVE InRowAlways
<1> DEFINE r == Begin("messages")
<1>1. SUFFICES ASSUME client = "messages" PROVE InRow(renderer) /\ phase # "ended"
    BY DEF InRowAlways
<1>2. r \in Renderer /\ InRow(r)
  <2>1. r = Emit(NewRenderer, "message_start", 0, <<>>)
      BY DEF Begin
  <2>2. NewRenderer \in Renderer
    <3>1. "chat" \in Endpoint /\ Begin("chat") = NewRenderer
        BY DEF Endpoint, Begin
    <3> QED
        BY <3>1, BeginIs
  <2>3. NewRenderer.frames = <<>> /\ NewRenderer.next = 0 /\ NewRenderer.textAt = None /\ NewRenderer.thinkAt = None
      BY DEF NewRenderer
  <2>4. InRow(NewRenderer)
    <3>1. InBlocks(<<>>, 0, 0)
        BY DEF InBlocks
    <3> QED
        BY <2>3, <3>1 DEF InRow, Row
  <2>5. "message_start" \in FrameKinds \ BlockKinds /\ 0 \in Int /\ <<>> \in Text
      BY Bodied DEF FrameKinds, OpenKinds, BlockKinds
  <2> HIDE DEF r
  <2> QED
      BY <2>1, <2>2, <2>3, <2>4, <2>5, EmitsBetween
<1> HIDE DEF r
<1>3. MessageStart \in OutputEvent
    BY EventsAre DEF Spoken
<1>4. InRow(Render("messages", r, MessageStart))
    BY <1>2, <1>3, RendersInRow
<1>5. renderer \in {r, Render("messages", r, MessageStart)} /\ phase = "streaming"
    BY Zenon, <1>1 DEF RenderingInit, r
<1> QED
    BY <1>2, <1>4, <1>5

LEMMA InRowKept ==
    ASSUME RenderingTypes, InRowAlways, Rendered, client' = client PROVE InRowAlways'
<1> SUFFICES ASSUME client' = "messages" PROVE InRow(renderer') /\ (phase' = "ended" => Rests(renderer'))
    BY DEF InRowAlways
<1>1. client = "messages" /\ renderer \in Renderer /\ InRow(renderer) /\ (phase = "ended" => Rests(renderer))
    BY DEF InRowAlways, RenderingTypes
<1>2. CASE renderer' = renderer /\ phase' \in {phase, "raised"}
    BY <1>1, <1>2
<1>3. ASSUME NEW out \in Account, renderer' = Rendering(renderer, out), phase' # "ended"
      PROVE  InRow(renderer')
    BY <1>1, <1>3, RenderingInRow
<1>4. ASSUME NEW out \in Account, renderer' = End(client, Rendering(renderer, out))
      PROVE  InRow(renderer') /\ Rests(renderer')
  <2>1. Rendering(renderer, out) \in Renderer /\ InRow(Rendering(renderer, out))
      BY <1>1, RenderingInRow
  <2>2. Rests(End("messages", Rendering(renderer, out)))
      BY <2>1, MessagesEndInRow
  <2> QED
      BY <1>1, <1>4, <2>2 DEF Rests
<1> QED
    BY <1>2, <1>3, <1>4 DEF Rendered

LEMMA InRowHolds ==
    RenderingSpec => [](RenderingTypes /\ InRowAlways)
<1>1. RenderingInit => InRowAlways
    BY InRowStarts
<1>2. RenderingTypes /\ SoFar /\ InRowAlways /\ [RenderingNext]_renderingVars => InRowAlways'
    BY RenderingKeeps, ClientStays, InRowKept
<1> QED
    BY <1>1, <1>2, SoFarHolds, PTL DEF RenderingSpec

\* Where each block is among the frames.
StartsOf(F) == {i \in DOMAIN F : F[i].kind = "start"}
BlockOf(F, b) == {i \in DOMAIN F : F[i].at = b /\ F[i].kind \in BlockKinds}

LEMMA BlocksSeen ==
    ASSUME NEW F \in Seq(Frame), NEW n \in Nat, NEW m \in Nat, m <= n, n <= m + 1, InBlocks(F, n, m)
    PROVE  /\ {F[i].at : i \in StartsOf(F)} = 0..(n - 1) /\ Cardinality(StartsOf(F)) = n
           /\ \A b \in 0..(n - 1) : F[Min(BlockOf(F, b))].kind = "start" /\ Min(BlockOf(F, b)) \in BlockOf(F, b)
           /\ \A b \in 0..(m - 1) : F[Max(BlockOf(F, b))].kind = "stop" /\ Max(BlockOf(F, b)) \in BlockOf(F, b)
<1> DEFINE starts == {i \in DOMAIN F : F[i].kind = "start"}
           Of(b) == {i \in DOMAIN F : F[i].at = b /\ F[i].kind \in BlockKinds}
           N == Len(F)
           ats == [i \in starts |-> F[i].at]
<1>1. N \in Nat /\ DOMAIN F = 1..N
    OBVIOUS
<1>2. "start" \in BlockKinds /\ "stop" \in BlockKinds
    BY DEF BlockKinds
<1>3. /\ \A i \in 1..N : F[i].kind \in BlockKinds => F[i].at \in 0..(n - 1)
      /\ \A b \in 0..(n - 1) : \E i \in 1..N : Begins(F, i, b)
      /\ \A i, j \in 1..N : F[i].kind = "start" /\ F[j].kind = "start" /\ F[i].at = F[j].at => i = j
      /\ \A b \in 0..(m - 1) : \E i \in 1..N : Stops(F, i, b)
    BY DEF InBlocks
<1> HIDE DEF N
<1>4. {F[i].at : i \in starts} = 0..(n - 1)
  <2>1. ASSUME NEW i \in starts PROVE F[i].at \in 0..(n - 1)
      BY <1>1, <1>2, <1>3
  <2>2. ASSUME NEW b \in 0..(n - 1) PROVE \E i \in starts : F[i].at = b
    <3>1. PICK i \in 1..N : Begins(F, i, b)
        BY <1>3
    <3> QED
        BY <1>1, <3>1 DEF Begins
  <2> QED
      BY <2>1, <2>2
<1>5. Cardinality(starts) = n
  <2>1. ats \in Bijection(starts, 0..(n - 1))
    <3>1. ats \in [starts -> 0..(n - 1)]
        BY <1>4
    <3>2. ASSUME NEW i \in starts, NEW j \in starts, ats[i] = ats[j] PROVE i = j
        BY <1>1, <1>3, <3>2
    <3>3. ASSUME NEW b \in 0..(n - 1) PROVE \E i \in starts : ats[i] = b
        BY <1>4
    <3> HIDE DEF ats, starts
    <3> QED
        BY <3>1, <3>2, <3>3 DEF Bijection, Injection, Surjection, IsInjective
  <2>2. ExistsBijection(starts, 0..(n - 1))
      BY <2>1 DEF ExistsBijection
  <2>3. 0 \in Int /\ n - 1 \in Int
      OBVIOUS
  <2>4. IsFiniteSet(0..(n - 1)) /\ Cardinality(0..(n - 1)) = n
    <3>1. IsFiniteSet(0..(n - 1)) /\ Cardinality(0..(n - 1)) = IF 0 > n - 1 THEN 0 ELSE (n - 1) - 0 + 1
        BY <2>3, FS_Interval
    <3> QED
        BY <3>1
  <2>5. IsFiniteSet(starts)
    <3>1. IsFiniteSet(1..N)
        BY <1>1, FS_Interval
    <3> QED
        BY <1>1, <3>1, FS_Subset
  <2> HIDE DEF starts
  <2> QED
      BY <2>2, <2>4, <2>5, FS_Bijection
<1>6. ASSUME NEW b \in 0..(n - 1) PROVE F[Min(Of(b))].kind = "start" /\ Min(Of(b)) \in Of(b)
  <2>1. PICK i \in 1..N : Begins(F, i, b)
      BY <1>3
  <2>2. i \in Of(b) /\ \A j \in Of(b) : i <= j
      BY <1>1, <1>2, <2>1 DEF Begins
  <2>3. Of(b) \subseteq Nat
      BY <1>1
  <2> HIDE DEF Of
  <2>4. Min(Of(b)) \in Of(b) /\ \A j \in Of(b) : Min(Of(b)) <= j
      BY <2>2, <2>3, MinIs
  <2>5. Min(Of(b)) = i
      BY <2>2, <2>3, <2>4
  <2> QED
      BY <2>1, <2>4, <2>5 DEF Begins
<1>7. ASSUME NEW b \in 0..(m - 1) PROVE F[Max(Of(b))].kind = "stop" /\ Max(Of(b)) \in Of(b)
  <2>1. PICK i \in 1..N : Stops(F, i, b)
      BY <1>3
  <2>2. i \in Of(b) /\ \A j \in Of(b) : j <= i
      BY <1>1, <1>2, <2>1 DEF Stops
  <2>3. Of(b) \subseteq Nat
      BY <1>1
  <2> HIDE DEF Of
  <2>4. Max(Of(b)) = i
      BY <2>2, <2>3 DEF Max
  <2> QED
      BY <2>1, <2>2, <2>4 DEF Stops
<1> QED
    BY Zenon, <1>4, <1>5, <1>6, <1>7 DEF StartsOf, BlockOf

(* What a strict client of /messages relies on: the content blocks are       *)
(* numbered from 0 without a gap, each begins with its start, is over with    *)
(* its stop before the next begins, and none is left open at the end, however *)
(* text, thinking and calls alternate (egress.py,                             *)
(* render_anthropic_messages_sse).                                            *)
THEOREM MessageBlocksFollow == RenderingSpec => []BlocksFollow
<1>1. RenderingTypes /\ InRowAlways => BlocksFollow
  <2> SUFFICES ASSUME RenderingTypes, InRowAlways, client = "messages" PROVE BlocksFollow
      BY DEF BlocksFollow
  <2> DEFINE F == renderer.frames
             n == renderer.next
             m == IF renderer.textAt = None /\ renderer.thinkAt = None THEN n ELSE n - 1
  <2>1. renderer \in Renderer /\ InRow(renderer) /\ (Ended => Rests(renderer))
      BY DEF RenderingTypes, InRowAlways, Ended
  <2>2. /\ F \in Seq(Frame) /\ n \in Nat /\ InBlocks(F, n, m)
        /\ m \in Nat /\ m <= n /\ n <= m + 1 /\ (Ended => m = n)
    <3>1. /\ F \in Seq(Frame) /\ n \in Nat
          /\ renderer.textAt \in BlockPlaces /\ renderer.thinkAt \in BlockPlaces
        BY <2>1, RowFields
    <3>2. Row(F, n, renderer.textAt, renderer.thinkAt)
        BY <2>1 DEF InRow
    <3> QED
        BY <2>1, <3>1, <3>2 DEF Row, Rests, BlockPlaces, None
  <2>4. StartsOf(F) = PositionsOf("start") /\ {F[i].at : i \in StartsOf(F)} = Blocks /\ Frames = F
      BY DEF PositionsOf, Blocks, Frames, StartsOf
  <2>5. ASSUME NEW b PROVE Within(b) = BlockOf(F, b)
      BY DEF Within, Frames, BlockKinds, BlockOf
  <2> HIDE DEF m, n
  <2>6. /\ {F[i].at : i \in StartsOf(F)} = 0..(n - 1) /\ Cardinality(StartsOf(F)) = n
        /\ \A b \in 0..(n - 1) : F[Min(BlockOf(F, b))].kind = "start" /\ Min(BlockOf(F, b)) \in BlockOf(F, b)
        /\ \A b \in 0..(m - 1) : F[Max(BlockOf(F, b))].kind = "stop" /\ Max(BlockOf(F, b)) \in BlockOf(F, b)
    <3> HIDE DEF F
    <3> QED
        BY <2>2, BlocksSeen
  <2>7. ASSUME NEW i \in DOMAIN F, NEW j \in DOMAIN F, F[i].kind \in BlockKinds, F[j].kind \in BlockKinds,
               F[i].at < F[j].at
        PROVE  i < j
    <3>1. DOMAIN F = 1..Len(F)
        BY <2>2
    <3> QED
        BY <2>2, <2>7, <3>1 DEF InBlocks
  <2> HIDE DEF F
  <2>8. Blocks = 0..(n - 1) /\ Cardinality(PositionsOf("start")) = n
      BY <2>4, <2>6
  <2>9. ASSUME NEW b \in Blocks PROVE Frames[Min(Within(b))].kind = "start"
      BY <2>4, <2>5, <2>6, <2>8
  <2>10. ASSUME NEW b \in Blocks, Ended \/ b + 1 \in Blocks PROVE b \in 0..(m - 1)
      BY <2>2, <2>8, <2>10
  <2>11. ASSUME NEW b \in Blocks, Ended \/ b + 1 \in Blocks PROVE Frames[Max(Within(b))].kind = "stop"
      BY <2>4, <2>5, <2>6, <2>10, <2>11
  <2>12. ASSUME NEW b \in Blocks, b + 1 \in Blocks PROVE Max(Within(b)) < Min(Within(b + 1))
    <3>1. Max(BlockOf(F, b)) \in BlockOf(F, b) /\ Min(BlockOf(F, b + 1)) \in BlockOf(F, b + 1)
        BY <2>6, <2>8, <2>10, <2>12
    <3>2. /\ Max(BlockOf(F, b)) \in DOMAIN F /\ F[Max(BlockOf(F, b))].at = b /\ F[Max(BlockOf(F, b))].kind \in BlockKinds
          /\ Min(BlockOf(F, b + 1)) \in DOMAIN F /\ F[Min(BlockOf(F, b + 1))].at = b + 1 /\ F[Min(BlockOf(F, b + 1))].kind \in BlockKinds
        BY <3>1 DEF BlockOf
    <3>3. b < b + 1
        BY <2>2, <2>8
    <3> QED
        BY <2>5, <2>7, <3>2, <3>3
  <2> QED
      BY <2>8, <2>9, <2>11, <2>12 DEF BlocksFollow
<1> QED
    BY <1>1, InRowHolds, PTL
=============================================================================
