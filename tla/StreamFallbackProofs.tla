------------------------ MODULE StreamFallbackProofs ------------------------
(***************************************************************************)
(* For any number of targets, retries and events: the answer is one        *)
(* attempt's, it loses nothing of substance, attempts stay within what the *)
(* settings allow, and the whole is an execution of SingleSourceStream.    *)
(*                                                                         *)
(* What carries it is that a retry happens only before any output, so that *)
(* the client has heard the current attempt alone (OneSpeaker), and that   *)
(* what was received is either withheld or through (Withholding,           *)
(* PassedOn).  Withheld events are never usable: the first text or tool    *)
(* event opens the answer and flushes them.                                *)
(***************************************************************************)
EXTENDS StreamFallback, FiniteSetTheorems, SequenceTheorems, WellFoundedInduction, TLAPS

-----------------------------------------------------------------------------
(* The part of a sequence that lies in a set.  Kept is defined by recursion *)
(* and what holds of it by induction: that of a set of numbers with a least *)
(* element, which comes from the order of the finite sets under inclusion.  *)

\* A number n stands for the finite set 0..n.
LEMMA Least ==
    ASSUME NEW S \in SUBSET Nat, S # {}
    PROVE  \E n \in S : \A m \in S : n <= m
<1> DEFINE Below == {0..n : n \in S}
           R == StrictSubsetOrdering(Nat)
<1>1. Below \subseteq FiniteSubsetsOf(Nat) /\ Below # {}
  <2>1. \A n \in S : 0..n \in FiniteSubsetsOf(Nat)
    BY FS_Interval DEF FiniteSubsetsOf
  <2> QED BY <2>1
<1>2. \E T \in Below : \A U \in Below : <<U, T>> \notin R
  <2> HIDE DEF Below, R
  <2>1. IsWellFoundedOn(R, FiniteSubsetsOf(Nat))
    BY FS_StrictSubsetOrderingWellFounded DEF R
  <2> QED BY <1>1, <2>1, WFMin
<1>3. PICK n \in S : \A m \in S : <<0..m, 0..n>> \notin R
  BY <1>2
<1>4. ASSUME NEW m \in S, m < n PROVE FALSE
  <2>1. /\ 0..m \subseteq 0..n /\ 0..m # 0..n
        /\ 0..m \in SUBSET Nat /\ 0..n \in SUBSET Nat
    BY <1>4
  <2> QED BY <1>3, <2>1 DEF StrictSubsetOrdering
<1> QED BY <1>3, <1>4

LEMMA Induction ==
    ASSUME NEW S, 0 \in S, \A n \in Nat : n \in S => n + 1 \in S
    PROVE  Nat \subseteq S
<1>1. SUFFICES ASSUME Nat \ S # {} PROVE FALSE
  OBVIOUS
<1>2. PICK n \in Nat \ S : \A m \in Nat \ S : n <= m
  BY <1>1, Least
<1>3. n - 1 \in Nat /\ n - 1 \in S
  BY <1>2
<1> QED BY <1>2, <1>3

-----------------------------------------------------------------------------
(* The ends of a sequence.                                                 *)

LEMMA AppendOf ==
    ASSUME NEW T, NEW s \in Seq(T), NEW e \in T
    PROVE  /\ Append(s, e) \in Seq(T) /\ Append(s, e) # <<>>
           /\ Len(s) \in Nat /\ DOMAIN s = 1..Len(s)
           /\ Len(Append(s, e)) = Len(s) + 1 /\ DOMAIN Append(s, e) = 1..(Len(s) + 1)
           /\ \A i \in 1..Len(s) : Append(s, e)[i] = s[i]
           /\ Append(s, e)[Len(s) + 1] = e
<1>1. Len(Append(s, e)) = Len(s) + 1 /\ Len(s) \in Nat
  OBVIOUS
<1>2. Append(s, e) # <<>>
  <2>1. Len(<<>>) = 0 /\ Len(s) + 1 # 0
    BY <1>1
  <2> QED BY <1>1, <2>1
<1> QED BY <1>1, <1>2

LEMMA EmptyIs ==
    ASSUME NEW T, NEW s \in Seq(T)
    PROVE  s = <<>> <=> Len(s) = 0
OBVIOUS

LEMMA TailOf ==
    ASSUME NEW T, NEW s \in Seq(T), s # <<>>
    PROVE  /\ Len(s) \in Nat /\ Len(s) >= 1 /\ DOMAIN s = 1..Len(s)
           /\ Head(s) = s[1] /\ Head(s) \in T /\ Tail(s) \in Seq(T)
           /\ Len(Tail(s)) = Len(s) - 1 /\ DOMAIN Tail(s) = 1..(Len(s) - 1)
           /\ \A i \in 1..(Len(s) - 1) : Tail(s)[i] = s[i + 1]
           /\ Tail(s) = <<>> <=> Len(s) = 1
<1>1. Len(s) \in Nat /\ Len(s) >= 1
  BY EmptyIs
<1>2. Tail(s) \in Seq(T) /\ Len(Tail(s)) = Len(s) - 1
  BY <1>1
<1>3. Tail(s) = <<>> <=> Len(s) = 1
  <2>1. PICK t \in Seq(T) : t = Tail(s)
    BY <1>2
  <2>2. t = <<>> <=> Len(t) = 0
    BY EmptyIs
  <2> QED BY <1>1, <1>2, <2>1, <2>2
<1> QED BY <1>1, <1>2, <1>3

LEMMA MoveHead ==
    ASSUME NEW T, NEW s \in Seq(T), NEW t \in Seq(T), t # <<>>
    PROVE  Append(s, Head(t)) \o Tail(t) = s \o t
<1>1. PICK h \in T : h = Head(t)
  BY HeadTailProperties
<1>2. Tail(t) \in Seq(T)
  BY HeadTailProperties
<1>3. t = <<h>> \o Tail(t)
  <2>1. /\ t = SubSeq(t, 1, Len(t)) /\ Tail(t) = SubSeq(t, 2, Len(t)) /\ h = t[1]
        /\ 1 \in 1..Len(t) /\ Len(t) \in 1..Len(t)
    BY <1>1, SubSeqFull, TailIsSubSeq, EmptySeq
  <2>2. SubSeq(t, 1, Len(t)) = <<t[1]>> \o SubSeq(t, 1 + 1, Len(t))
    BY <2>1, SubSeqRecursiveFirst
  <2> QED BY <2>1, <2>2
<1>4. Append(s, h) = s \o <<h>> /\ <<h>> \in Seq(T)
  BY AppendIsConcat
<1>5. (s \o <<h>>) \o Tail(t) = s \o (<<h>> \o Tail(t))
  BY <1>2, <1>4, ConcatAssociative
<1> QED BY <1>1, <1>3, <1>4, <1>5

-----------------------------------------------------------------------------
(* Kept is what its recursive definition says.                             *)

KeepNext(f, s, S, n) ==
    IF n = 0 THEN <<>>
    ELSE IF s[n] \in S THEN Append(f[n - 1], s[n]) ELSE f[n - 1]

LEMMA KeptExists ==
    ASSUME NEW s, NEW S, NEW n \in Nat
    PROVE  \E f : f = [i \in 0..n |-> KeepNext(f, s, S, i)]
<1> DEFINE Good == {k \in Nat : \E f : f = [i \in 0..k |-> KeepNext(f, s, S, i)]}
<1>1. 0 \in Good
  <2> DEFINE f == [i \in 0..0 |-> <<>>]
  <2>1. f = [i \in 0..0 |-> KeepNext(f, s, S, i)]
    BY DEF KeepNext
  <2> QED BY <2>1
<1>2. ASSUME NEW k \in Nat, k \in Good PROVE k + 1 \in Good
  <2>1. PICK f : f = [i \in 0..k |-> KeepNext(f, s, S, i)]
    BY <1>2
  <2> DEFINE g == [i \in 0..(k + 1) |-> IF i <= k THEN f[i] ELSE KeepNext(f, s, S, i)]
  <2>2. \A i \in 0..(k + 1) : KeepNext(g, s, S, i) = KeepNext(f, s, S, i)
    BY DEF KeepNext
  <2>3. \A i \in 0..k : f[i] = KeepNext(f, s, S, i)
    BY <2>1
  <2>4. \A i \in 0..(k + 1) : g[i] = KeepNext(g, s, S, i)
    BY <2>2, <2>3
  <2>5. g = [i \in 0..(k + 1) |-> g[i]]
    OBVIOUS
  <2> HIDE DEF g
  <2>6. \E h : h = [i \in 0..(k + 1) |-> KeepNext(h, s, S, i)]
    BY <2>4, <2>5
  <2> QED BY <2>6
<1> HIDE DEF Good
<1>3. n \in Good
  BY <1>1, <1>2, Induction
<1> QED BY <1>3 DEF Good

LEMMA KeptIs ==
    ASSUME NEW s, NEW S, Len(s) \in Nat, NEW n \in 0..Len(s)
    PROVE  Kept(s, S)[n] =
               IF n = 0 THEN <<>>
               ELSE IF s[n] \in S THEN Append(Kept(s, S)[n - 1], s[n])
               ELSE Kept(s, S)[n - 1]
<1> DEFINE k == Kept(s, S)
<1>1. \E f : f = [i \in 0..Len(s) |-> KeepNext(f, s, S, i)]
  BY KeptExists
<1>2. k = [i \in 0..Len(s) |-> KeepNext(k, s, S, i)]
  BY <1>1 DEF Kept, KeepNext
<1> HIDE DEF k
<1>3. k[n] = KeepNext(k, s, S, n)
  BY <1>2
<1> QED BY <1>3 DEF k, KeepNext

-----------------------------------------------------------------------------
(* Only.                                                                   *)

LEMMA OnlyNone ==
    ASSUME NEW S
    PROVE  Only(<<>>, S) = <<>>
<1>1. Len(<<>>) = 0
  OBVIOUS
<1> QED BY <1>1, KeptIs DEF Only

LEMMA KeptOfAppend ==
    ASSUME NEW T, NEW S, NEW s \in Seq(T), NEW e \in T, NEW n \in 0..Len(s)
    PROVE  Kept(Append(s, e), S)[n] = Kept(s, S)[n]
<1> DEFINE t == Append(s, e)
           Good == {k \in Nat : k <= Len(s) => Kept(t, S)[k] = Kept(s, S)[k]}
<1>0. Len(s) \in Nat /\ Len(t) = Len(s) + 1 /\ \A i \in 1..Len(s) : t[i] = s[i]
  OBVIOUS
<1> HIDE DEF t
<1>1. 0 \in Good
  BY <1>0, KeptIs
<1>2. ASSUME NEW k \in Nat, k \in Good PROVE k + 1 \in Good
  <2>1. SUFFICES ASSUME k + 1 <= Len(s) PROVE Kept(t, S)[k + 1] = Kept(s, S)[k + 1]
    OBVIOUS
  <2>2. Kept(t, S)[k] = Kept(s, S)[k] /\ t[k + 1] = s[k + 1]
    BY <1>0, <1>2, <2>1
  <2>3. /\ k + 1 \in 0..Len(s) /\ k + 1 \in 0..Len(t) /\ k + 1 # 0 /\ (k + 1) - 1 = k
        /\ Len(t) \in Nat /\ Len(s) \in Nat
    BY <1>0, <2>1
  <2>4. /\ Kept(t, S)[k + 1] =
              IF t[k + 1] \in S THEN Append(Kept(t, S)[k], t[k + 1]) ELSE Kept(t, S)[k]
        /\ Kept(s, S)[k + 1] =
              IF s[k + 1] \in S THEN Append(Kept(s, S)[k], s[k + 1]) ELSE Kept(s, S)[k]
    BY <2>3, KeptIs
  <2> QED BY <2>2, <2>4
<1> HIDE DEF Good
<1>3. n \in Good
  BY <1>1, <1>2, Induction
<1> QED BY <1>3 DEF Good, t

\* Only reads a sequence from left to right.
LEMMA OnlyAppend ==
    ASSUME NEW T, NEW S, NEW s \in Seq(T), NEW e \in T
    PROVE  Only(Append(s, e), S) = IF e \in S THEN Append(Only(s, S), e) ELSE Only(s, S)
<1> DEFINE t == Append(s, e)
<1>0. Len(s) \in Nat /\ Len(t) = Len(s) + 1 /\ t[Len(s) + 1] = e
  OBVIOUS
<1>1. Kept(t, S)[Len(s)] = Kept(s, S)[Len(s)]
  BY KeptOfAppend
<1> HIDE DEF t
<1>2. Kept(t, S)[Len(s) + 1] =
        IF e \in S THEN Append(Kept(t, S)[Len(s)], e) ELSE Kept(t, S)[Len(s)]
  <2>1. /\ Len(s) + 1 \in 0..Len(t) /\ Len(s) + 1 # 0 /\ (Len(s) + 1) - 1 = Len(s)
        /\ Len(t) \in Nat
    BY <1>0
  <2> QED BY <1>0, <2>1, KeptIs
<1> QED BY <1>0, <1>1, <1>2 DEF Only, t

LEMMA OnlyType ==
    ASSUME NEW T, NEW S, NEW s \in Seq(T)
    PROVE  Only(s, S) \in Seq(T \cap S)
<1> DEFINE Good == {k \in Nat : k <= Len(s) => Kept(s, S)[k] \in Seq(T \cap S)}
<1>0. Len(s) \in Nat /\ \A i \in 1..Len(s) : s[i] \in T
  OBVIOUS
<1>1. 0 \in Good
  <2>1. Kept(s, S)[0] = <<>> /\ <<>> \in Seq(T \cap S)
    BY <1>0, KeptIs
  <2> HIDE DEF Good
  <2>2. Kept(s, S)[0] \in Seq(T \cap S)
    BY <2>1
  <2> QED BY <2>2 DEF Good
<1>2. ASSUME NEW k \in Nat, k \in Good PROVE k + 1 \in Good
  <2>1. SUFFICES ASSUME k + 1 <= Len(s) PROVE Kept(s, S)[k + 1] \in Seq(T \cap S)
    OBVIOUS
  <2>2. /\ k + 1 \in 0..Len(s) /\ k + 1 # 0 /\ (k + 1) - 1 = k /\ s[k + 1] \in T
        /\ Kept(s, S)[k] \in Seq(T \cap S)
    BY <1>0, <1>2, <2>1
  <2>3. Kept(s, S)[k + 1] =
          IF s[k + 1] \in S THEN Append(Kept(s, S)[k], s[k + 1]) ELSE Kept(s, S)[k]
    BY <1>0, <2>2, KeptIs
  <2> QED BY <2>2, <2>3
<1> HIDE DEF Good
<1>3. Len(s) \in Good
  BY <1>0, <1>1, <1>2, Induction
<1> QED BY <1>0, <1>3 DEF Good, Only

\* A second selection sees nothing of a first that was wider.
LEMMA OnlyOfOnly ==
    ASSUME NEW T, NEW s \in Seq(T), NEW S, NEW U \in SUBSET S
    PROVE  Only(Only(s, S), U) = Only(s, U)
<1> DEFINE Good == {k \in Nat : k <= Len(s) => /\ Kept(s, S)[k] \in Seq(T)
                                               /\ Only(Kept(s, S)[k], U) = Kept(s, U)[k]}
<1>0. Len(s) \in Nat /\ \A i \in 1..Len(s) : s[i] \in T
  OBVIOUS
<1>1. 0 \in Good
  <2>1. Kept(s, S)[0] = <<>> /\ Kept(s, U)[0] = <<>>
    BY <1>0, KeptIs
  <2>2. Kept(s, S)[0] \in Seq(T) /\ Only(Kept(s, S)[0], U) = Kept(s, U)[0]
    BY <2>1, OnlyNone
  <2> QED BY <2>2
<1>2. ASSUME NEW k \in Nat, k \in Good PROVE k + 1 \in Good
  <2>1. SUFFICES ASSUME k + 1 <= Len(s)
                 PROVE  /\ Kept(s, S)[k + 1] \in Seq(T)
                        /\ Only(Kept(s, S)[k + 1], U) = Kept(s, U)[k + 1]
    OBVIOUS
  <2>2. /\ k + 1 \in 0..Len(s) /\ k + 1 # 0 /\ (k + 1) - 1 = k /\ s[k + 1] \in T
        /\ Kept(s, S)[k] \in Seq(T) /\ Only(Kept(s, S)[k], U) = Kept(s, U)[k]
    BY <1>0, <1>2, <2>1
  <2>3. /\ Kept(s, S)[k + 1] =
              IF s[k + 1] \in S THEN Append(Kept(s, S)[k], s[k + 1]) ELSE Kept(s, S)[k]
        /\ Kept(s, U)[k + 1] =
              IF s[k + 1] \in U THEN Append(Kept(s, U)[k], s[k + 1]) ELSE Kept(s, U)[k]
    BY <1>0, <2>2, KeptIs
  <2>4. Only(Append(Kept(s, S)[k], s[k + 1]), U) =
          IF s[k + 1] \in U THEN Append(Kept(s, U)[k], s[k + 1]) ELSE Kept(s, U)[k]
    <3>1. PICK r \in Seq(T), e \in T : r = Kept(s, S)[k] /\ e = s[k + 1]
      BY <2>2
    <3>2. Only(Append(r, e), U) = IF e \in U THEN Append(Only(r, U), e) ELSE Only(r, U)
      BY OnlyAppend
    <3> HIDE DEF Good
    <3> QED BY <2>2, <3>1, <3>2
  <2> QED BY <2>2, <2>3, <2>4
<1> HIDE DEF Good
<1>3. Len(s) \in Good
  BY <1>0, <1>1, <1>2, Induction
<1> QED BY <1>0, <1>3 DEF Good, Only

-----------------------------------------------------------------------------
(* The invariant.                                                          *)

Attempting == pc \in {"reading", "yielding"}

\* What the client has and what is on its way to it.
Through == Said \o outbox

\* message_done is on its way, or there is nothing left to send.
Ending == pc = "yielding" /\ (outbox = <<>> \/ "done" \in ToSet(outbox))

Body == Kinds \ {"done"}
Seen == Body \ {"dots", "meta"}
Firsts == {"text", "tool"}

Upstreams ==
    /\ opened <= 1
    /\ Attempting => opened = 1
    /\ pc \in {"prepare", "start", "over"} => opened = 0
    /\ pc = "over" <=> outcome # "open"

\* What the targets before the i-th may have cost.
Before(i) == IF i = 0 THEN 0 ELSE AttemptBound(i - 1)

Spent == Before(index) + retries + degenerate

Counted ==
    /\ pc # "over" => index <= chain
    /\ index = 0 => degenerate = 0
    /\ pc \in {"prepare", "start"} => tries <= Spent
    /\ Attempting \/ pc = "handling" => tries >= 1 /\ tries <= Spent + 1
    /\ pc = "over" => tries <= AttemptBound(chain)

\* The caller has heard one attempt, the current one, and not its end.
OneSpeaker ==
    pc # "over" =>
        /\ \A i \in DOMAIN client : client[i].by = tries
        /\ client # <<>> => emitted
        /\ pc \in {"prepare", "start"} => ~emitted
        /\ pc = "yielding" => emitted
        /\ pc # "yielding" => outbox = <<>>
        /\ emitted /\ outbox = <<>> => client # <<>>
        /\ \A i \in DOMAIN client :
              client[i].event = "done" => pc = "yielding" /\ outbox = <<>>
        /\ \A i \in DOMAIN outbox : outbox[i] = "done" => i = Len(outbox)

\* Before any output the pending events are all there was, and not usable.
Withholding ==
    Attempting /\ ~emitted =>
        /\ pending = Only(received, Body)
        /\ Only(received, Firsts) = <<>>
        /\ ToSet(pending) \cap Firsts = {}
        /\ "blank" \in ToSet(pending) => "dots" \in ToSet(pending)

\* After it what went through is what was received, but for a message_done and
\* for punctuation ahead of a tool event.
PassedOn ==
    Attempting =>
        /\ terminal <=> "done" \in ToSet(received)
        /\ emitted =>
            /\ Only(Through, Seen) = Only(received, Seen)
            /\ \/ Only(received, Firsts) # <<>> /\ Only(received, Firsts)[1] = "tool"
               \/ Only(Through, Body) = Only(received, Body)
            /\ IF Ending THEN "done" \in ToSet(Through) <=> terminal
                         ELSE "done" \notin ToSet(Through)

IInv == /\ TypeOK /\ Upstreams /\ Counted /\ OneSpeaker
        /\ Withholding /\ PassedOn /\ NothingOfSubstanceLost

-----------------------------------------------------------------------------
(* Types.                                                                  *)

KindsOfSequences ==
    /\ pending \in Seq(Kinds) /\ outbox \in Seq(Kinds) /\ received \in Seq(Kinds)
    /\ client \in Seq([by : Nat, event : Kinds])

\* The control: every variable but the sequences and the flags.
ControlOK ==
    /\ pc \in {"prepare", "start", "reading", "yielding", "handling", "over"}
    /\ index \in 0..(MaxFallbacks + 1) /\ chain \in 0..MaxFallbacks
    /\ tries \in Nat /\ degenerate \in 0..1 /\ retries \in 0..RetryLimit
    /\ err \in Errors \union {"none"}
    /\ opened \in Nat
    /\ outcome \in {"open", "completed", "failed", "partial", "abandoned"}
    /\ expired \subseteq 0..MaxFallbacks

FlagsOK ==
    /\ budget \in BOOLEAN /\ armedBudget \in BOOLEAN /\ idleOn \in BOOLEAN
    /\ emitted \in BOOLEAN /\ terminal \in BOOLEAN
    /\ clockStarted \in BOOLEAN /\ idleStarted \in BOOLEAN

LEMMA Types == TypeOK <=> ControlOK /\ FlagsOK /\ KindsOfSequences
  BY DEF TypeOK, ControlOK, FlagsOK, KindsOfSequences

LEMMA FlushedType ==
    ASSUME NEW T, pending \in Seq(T), NEW e
    PROVE  Flushed(e) \in Seq(T)
<1>1. Only(pending, Substantial) \in Seq(T \cap Substantial)
  BY OnlyType
<1>2. Only(pending, Substantial) \in Seq(T)
  BY <1>1
<1> QED BY <1>2 DEF Flushed

LEMMA FlagsKeep ==
    ASSUME FlagsOK, [Next]_vars
    PROVE  FlagsOK'
<1>1. CASE \E e \in Kinds : Receive(e)
  BY <1>1 DEF FlagsOK, Receive, requestVars
<1>2. CASE Start \/ FallBack
  BY <1>2 DEF FlagsOK, Start, FallBack, attemptVars
<1>3. CASE UNCHANGED <<budget, armedBudget, idleOn, emitted, terminal, clockStarted, idleStarted>>
  BY <1>3 DEF FlagsOK
<1> QED
  BY <1>1, <1>2, <1>3
  DEF Next, GatewayStep, UpstreamStep, Handling, Prepare, Yield, EndOfStream, Succeed,
      UpstreamFails, FirstOutputTimeout, IdleTimeout, GiveUpPartial, RetryDegenerate,
      RetryTransient, NoPolicy, NextTarget, Abandon, Over, vars, requestVars, attemptVars

LEMMA SequencesKeep ==
    ASSUME KindsOfSequences, tries \in Nat, [Next]_vars
    PROVE  KindsOfSequences'
<1>1. ASSUME NEW e \in Kinds, Receive(e) PROVE KindsOfSequences'
  <2>1. received' \in Seq(Kinds) /\ UNCHANGED client
    BY <1>1 DEF KindsOfSequences, Receive
  <2>2. pending' \in Seq(Kinds) /\ outbox' \in Seq(Kinds)
    <3>1. Flushed(e) \in Seq(Kinds)
      BY FlushedType DEF KindsOfSequences
    <3>2. Append(Flushed(e), e) \in Seq(Kinds) /\ <<e>> \in Seq(Kinds)
          /\ Append(pending, e) \in Seq(Kinds) /\ <<>> \in Seq(Kinds)
      BY <3>1 DEF KindsOfSequences
    <3>3. pending' \in {pending, Append(pending, e), <<>>}
      BY <1>1 DEF Receive
    <3>4. outbox' \in {outbox, <<e>>, Append(Flushed(e), e)}
      BY <1>1 DEF Receive
    <3> QED BY <3>2, <3>3, <3>4 DEF KindsOfSequences
  <2> QED BY <2>1, <2>2 DEF KindsOfSequences
<1>2. CASE Yield
  <2>1. Head(outbox) \in Kinds /\ Tail(outbox) \in Seq(Kinds)
    BY <1>2 DEF KindsOfSequences, Yield
  <2>2. [by |-> tries, event |-> Head(outbox)] \in [by : Nat, event : Kinds]
    BY <2>1
  <2>3. client' \in Seq([by : Nat, event : Kinds])
    BY <1>2, <2>2 DEF KindsOfSequences, Yield
  <2> QED BY <1>2, <2>1, <2>3 DEF KindsOfSequences, Yield, attemptVars
<1>3. CASE EndOfStream
  <2>1. outbox' \in {outbox, <<"done">>, <<>>}
    BY <1>3 DEF EndOfStream
  <2>2. <<"done">> \in Seq(Kinds) /\ <<>> \in Seq(Kinds)
    BY DEF Kinds
  <2> QED BY <1>3, <2>1, <2>2 DEF KindsOfSequences, EndOfStream, attemptVars
<1>4. CASE Start
  BY <1>4 DEF KindsOfSequences, Start
<1>5. CASE UNCHANGED <<pending, outbox, received, client>>
  BY <1>5 DEF KindsOfSequences
<1> QED
  BY <1>1, <1>2, <1>3, <1>4, <1>5
  DEF Next, GatewayStep, UpstreamStep, Handling, Prepare, Succeed,
      UpstreamFails, FirstOutputTimeout, IdleTimeout, GiveUpPartial, RetryDegenerate,
      RetryTransient, FallBack, NoPolicy, NextTarget, Abandon, Over, vars, attemptVars

-----------------------------------------------------------------------------
(* The cost of a request.                                                  *)

LEMMA Products ==
    ASSUME NEW i \in Nat, NEW j \in Nat, NEW k \in Nat, i <= j
    PROVE  i * k \in Nat /\ i * k <= j * k /\ (i + 1) * k = i * k + k
<1>1. i * k \in Nat /\ j * k \in Nat /\ (j - i) * k \in Nat
  OBVIOUS
<1>2. j * k = i * k + (j - i) * k /\ (i + 1) * k = i * k + k
  OBVIOUS
<1> QED BY <1>1, <1>2

\* A target after the primary costs at most RetryLimit + 2 attempts.
LEMMA Bounds ==
    ASSUME NEW i \in Nat, NEW j \in Nat, i <= j
    PROVE  /\ AttemptBound(i) \in Nat /\ AttemptBound(i) <= AttemptBound(j)
           /\ Before(i) \in Nat /\ Before(i) <= AttemptBound(j)
           /\ Before(i + 1) = AttemptBound(i)
           /\ Before(i) + RetryLimit + 1 + (IF i = 0 THEN 0 ELSE 1) = AttemptBound(i)
<1> DEFINE k == 2 + RetryLimit
<1>1. RetryLimit \in Nat /\ k \in Nat
  BY FallbackAssumption
<1>2. i * k \in Nat /\ j * k \in Nat /\ i * k <= j * k /\ 0 * k = 0
  BY <1>1, Products
<1>3. AttemptBound(i) \in Nat /\ AttemptBound(i) <= AttemptBound(j)
  BY <1>1, <1>2 DEF AttemptBound
<1>4. Before(i + 1) = AttemptBound(i)
  BY DEF Before
<1>5. CASE i = 0
  BY <1>1, <1>2, <1>3, <1>5 DEF Before, AttemptBound
<1>6. CASE i # 0
  <2>1. PICK h \in Nat : i = h + 1
    BY <1>6
  <2>2. h * k \in Nat /\ i * k = h * k + k
    BY <1>1, <2>1, Products
  <2>3. Before(i) = AttemptBound(h)
    BY <2>1 DEF Before
  <2> QED BY <1>1, <1>2, <1>3, <1>4, <1>6, <2>2, <2>3 DEF AttemptBound
<1> QED BY <1>3, <1>4, <1>5, <1>6

LEMMA Affordable ==
    ASSUME ControlOK, Counted
    PROVE  tries <= AttemptBound(chain)
<1>1. /\ index \in Nat /\ chain \in Nat /\ retries \in Nat /\ degenerate \in Nat /\ tries \in Nat
      /\ retries <= RetryLimit /\ degenerate <= 1 /\ RetryLimit \in Nat
      /\ pc \in {"prepare", "start", "reading", "yielding", "handling", "over"}
  BY FallbackAssumption DEF ControlOK
<1>2. index <= chain => /\ AttemptBound(index) <= AttemptBound(chain) /\ Before(index) \in Nat
                        /\ AttemptBound(index) \in Nat /\ AttemptBound(chain) \in Nat
                        /\ Before(index) + RetryLimit + 1 + (IF index = 0 THEN 0 ELSE 1)
                              = AttemptBound(index)
  BY <1>1, Bounds
<1>3. pc # "over" => tries <= Spent + 1 /\ index <= chain /\ (index = 0 => degenerate = 0)
  <2>1. Before(index) \in Nat
    BY <1>1, Bounds
  <2> HIDE DEF Before
  <2> QED BY <1>1, <2>1 DEF Counted, Attempting, Spent
<1> HIDE DEF Before, AttemptBound
<1> QED BY <1>1, <1>2, <1>3 DEF Counted, Spent

LEMMA UpstreamsKeep ==
    ASSUME ControlOK, Upstreams, [Next]_vars
    PROVE  Upstreams'
<1>1. CASE \E e \in Kinds : Receive(e)
  BY <1>1 DEF Receive, ControlOK, Upstreams, Attempting, requestVars
<1>2. CASE Prepare \/ Start \/ Yield \/ EndOfStream \/ Succeed
  BY <1>2 DEF Prepare, Start, Yield, EndOfStream, Succeed, ControlOK, Upstreams, Attempting
<1>3. CASE UpstreamFails \/ FirstOutputTimeout \/ IdleTimeout \/ UNCHANGED vars
  BY <1>3 DEF UpstreamFails, FirstOutputTimeout, IdleTimeout, vars, ControlOK, Upstreams, Attempting
<1>4. CASE Handling \/ Abandon
  BY <1>4
  DEF Handling, GiveUpPartial, RetryDegenerate, RetryTransient, FallBack, NoPolicy, NextTarget,
      Abandon, Advance, CloseAttempt, ControlOK, Upstreams, Attempting
<1> QED BY <1>1, <1>2, <1>3, <1>4 DEF Next, GatewayStep, UpstreamStep, Over

LEMMA ControlKeeps ==
    ASSUME ControlOK, Upstreams, Counted, [Next]_vars
    PROVE  ControlOK'
<1>1. CASE (\E e \in Kinds : Receive(e)) \/ Yield \/ EndOfStream \/ UpstreamFails
           \/ FirstOutputTimeout \/ IdleTimeout \/ UNCHANGED vars
  <2>1. UNCHANGED <<index, chain, tries, degenerate, retries, opened, outcome>>
    BY <1>1 DEF Receive, Yield, EndOfStream, UpstreamFails, FirstOutputTimeout, IdleTimeout,
                vars, requestVars
  <2>2. pc' \in {"reading", "yielding", "handling"} \/ UNCHANGED pc
    BY <1>1 DEF Receive, Yield, EndOfStream, UpstreamFails, FirstOutputTimeout, IdleTimeout, vars
  <2>3. err' \in Errors \/ UNCHANGED err
    BY <1>1 DEF Receive, Yield, EndOfStream, UpstreamFails, FirstOutputTimeout, IdleTimeout,
                vars, Errors, TimeoutSeenAs
  <2>4. index \in 0..MaxFallbacks \/ pc # "reading"
    BY FallbackAssumption DEF ControlOK, Counted
  <2>5. expired' \subseteq 0..MaxFallbacks
    BY <1>1, <2>4 DEF Receive, Yield, EndOfStream, UpstreamFails, FirstOutputTimeout, IdleTimeout,
                vars, ControlOK
  <2> QED BY <2>1, <2>2, <2>3, <2>5 DEF ControlOK
<1>2. CASE Prepare \/ Start \/ Succeed \/ Abandon
  <2>1. opened' \in Nat
    BY <1>2 DEF Prepare, Start, Succeed, Abandon, CloseAttempt, ControlOK, Upstreams, Attempting
  <2>2. tries' \in Nat /\ UNCHANGED <<index, chain, degenerate, retries, expired>>
    BY <1>2 DEF Prepare, Start, Succeed, Abandon, requestVars, ControlOK
  <2>3. /\ pc' \in {"start", "reading", "handling", "over"}
        /\ outcome' \in {outcome, "completed", "failed", "abandoned"}
        /\ err' \in {err, "transient", "permanent"}
    BY <1>2 DEF Prepare, Start, Succeed, Abandon
  <2> QED BY <2>1, <2>2, <2>3 DEF ControlOK, Errors
<1>3. CASE GiveUpPartial \/ RetryDegenerate \/ RetryTransient \/ NoPolicy
  <2>1. degenerate' \in 0..1
    BY <1>3
    DEF GiveUpPartial, RetryDegenerate, RetryTransient, NoPolicy, Degenerate, requestVars, ControlOK
  <2>2. retries' \in 0..RetryLimit
    BY <1>3, FallbackAssumption
    DEF GiveUpPartial, RetryDegenerate, RetryTransient, NoPolicy, RetrySameTarget, requestVars,
        ControlOK
  <2>3. /\ pc' \in {"prepare", "over"} /\ outcome' \in {outcome, "partial", "failed"}
        /\ UNCHANGED <<index, chain, tries, err, expired>> /\ CloseAttempt
    BY <1>3 DEF GiveUpPartial, RetryDegenerate, RetryTransient, NoPolicy, requestVars
  <2> QED BY <2>1, <2>2, <2>3 DEF CloseAttempt, ControlOK
<1>4. CASE FallBack \/ NextTarget
  <2>1. index + 1 \in 0..(MaxFallbacks + 1) /\ 0 \in 0..RetryLimit
    BY <1>4, FallbackAssumption DEF ControlOK, Counted, FallBack, NextTarget
  <2>2. chain' \in 0..MaxFallbacks
    BY <1>4 DEF FallBack, NextTarget, ControlOK
  <2>3. /\ index' = index + 1 /\ degenerate' = 0 /\ retries' = 0
        /\ pc' \in {"prepare", "over"} /\ outcome' \in {outcome, "failed"}
        /\ UNCHANGED <<tries, err, expired>>
    BY <1>4 DEF FallBack, NextTarget, Advance
  <2>4. opened' \in Nat
    BY <1>4 DEF FallBack, NextTarget, CloseAttempt, ControlOK
  <2> QED BY <2>1, <2>2, <2>3, <2>4 DEF ControlOK
<1> QED BY <1>1, <1>2, <1>3, <1>4 DEF Next, GatewayStep, UpstreamStep, Handling, Over

\* No step takes the attempts out of the bound.
LEMMA CountedKeeps ==
    ASSUME ControlOK, Counted, [Next]_vars
    PROVE  Counted'
<1>0. /\ index \in Nat /\ chain \in Nat /\ tries \in Nat
      /\ degenerate \in Nat /\ retries \in Nat /\ RetryLimit \in Nat
      /\ degenerate <= 1 /\ retries <= RetryLimit
  BY FallbackAssumption DEF ControlOK
<1>1. /\ Before(index) \in Nat /\ Before(index + 1) = AttemptBound(index)
      /\ Before(index) + RetryLimit + 1 + (IF index = 0 THEN 0 ELSE 1) = AttemptBound(index)
      /\ index <= chain => AttemptBound(index) <= AttemptBound(chain)
      /\ AttemptBound(index) \in Nat /\ AttemptBound(chain) \in Nat
  BY <1>0, Bounds
<1>2. pc # "over" => /\ tries <= Spent + 1 /\ Spent + 1 <= AttemptBound(index)
                     /\ tries <= AttemptBound(chain)
  <2> HIDE DEF AttemptBound, Before
  <2> QED BY <1>0, <1>1 DEF Counted, Spent, Attempting, ControlOK
<1> HIDE DEF AttemptBound, Before
<1>3. CASE UNCHANGED requestVars
  <2>1. CASE pc' = "over"
    BY <1>2, <1>3, <2>1 DEF Counted, Attempting, requestVars
  <2>2. CASE pc' # "over" /\ pc # "over"
    <3>1. /\ pc' \in {"prepare", "start"} => pc \in {"prepare", "start"}
          /\ pc' \in {"reading", "yielding", "handling"} =>
                pc \in {"reading", "yielding", "handling"}
      BY <1>0, <1>3, <2>2
      DEF Next, GatewayStep, UpstreamStep, Handling, Prepare, Start, Receive, Yield, EndOfStream,
          Succeed, UpstreamFails, FirstOutputTimeout, IdleTimeout, GiveUpPartial, RetryDegenerate,
          RetryTransient, FallBack, NoPolicy, NextTarget, Advance, Abandon, Over, vars, requestVars
    <3> QED BY <1>3, <2>2, <3>1 DEF Counted, Spent, Attempting, requestVars
  <2>3. pc = "over" => pc' = "over"
    BY DEF Next, GatewayStep, UpstreamStep, Handling, Prepare, Start, Receive, Yield, EndOfStream,
          Succeed, UpstreamFails, FirstOutputTimeout, IdleTimeout, GiveUpPartial, RetryDegenerate,
          RetryTransient, FallBack, NoPolicy, NextTarget, Abandon, Over, vars
  <2> QED BY <2>1, <2>2, <2>3
<1>4. CASE Start
  <2>1. /\ tries <= Spent /\ tries' = tries + 1 /\ UNCHANGED <<index, chain, degenerate, retries>>
        /\ pc = "start" /\ pc' \in {"reading", "handling"}
    BY <1>4 DEF Start, Counted
  <2> QED BY <1>0, <1>1, <2>1 DEF Counted, Spent, Attempting
<1>5. CASE RetryDegenerate \/ RetryTransient
  <2>1. /\ tries <= Spent + 1 /\ UNCHANGED <<index, chain, tries>> /\ pc = "handling"
        /\ pc' = "prepare" /\ (index = 0 => degenerate' = 0)
        /\ \/ degenerate' = degenerate + 1 /\ retries' = retries
           \/ degenerate' = degenerate /\ retries' = retries + 1
    BY <1>0, <1>5 DEF RetryDegenerate, RetryTransient, Degenerate, Counted
  <2>2. tries' <= Spent'
    BY <1>0, <1>1, <2>1 DEF Spent
  <2>3. index' <= chain'
    BY <2>1 DEF Counted
  <2> QED BY <2>1, <2>2, <2>3 DEF Counted, Attempting
<1>6. CASE FallBack \/ NextTarget
  <2>1. /\ pc = "handling" /\ index' = index + 1 /\ degenerate' = 0 /\ retries' = 0
        /\ pc' = (IF index + 1 <= chain' THEN "prepare" ELSE "over")
        /\ chain' \in Nat /\ index <= chain' /\ UNCHANGED tries
    BY <1>0, <1>6 DEF FallBack, NextTarget, Advance, Counted
  <2>2. tries <= AttemptBound(index) /\ AttemptBound(index) <= AttemptBound(chain')
        /\ AttemptBound(chain') \in Nat
    BY <1>0, <1>1, <1>2, <2>1, Bounds DEF Spent
  <2> QED BY <1>0, <1>1, <2>1, <2>2 DEF Counted, Spent, Attempting
<1> QED
  BY <1>3, <1>4, <1>5, <1>6
  DEF Next, GatewayStep, UpstreamStep, Handling, Prepare, Receive, Yield, EndOfStream, Succeed,
      UpstreamFails, FirstOutputTimeout, IdleTimeout, GiveUpPartial, NoPolicy, Abandon, Over, vars

-----------------------------------------------------------------------------
(* One attempt speaks.                                                     *)

\* What is withheld is neither message_done nor worth sending.
LEMMA NotUsable ==
    ASSUME KindsOfSequences, Withholding, pc = "reading", ~emitted
    PROVE  /\ pending \in Seq(Body)
           /\ ~Usable(ToSet(pending))
<1>1. pending = Only(received, Body) /\ ToSet(pending) \cap Firsts = {}
      /\ ("blank" \in ToSet(pending) => "dots" \in ToSet(pending))
  BY DEF Withholding, Attempting
<1>2. Only(received, Body) \in Seq(Kinds \cap Body) /\ Kinds \cap Body = Body
  BY OnlyType DEF KindsOfSequences, Body
<1>3. ~Usable(ToSet(pending))
  BY <1>1 DEF Usable, PlaceholderOnly, TextKinds, Firsts
<1> QED BY <1>1, <1>2, <1>3

LEMMA SpeakerHears ==
    ASSUME KindsOfSequences, OneSpeaker, Withholding, NEW e \in Kinds, Receive(e)
    PROVE  OneSpeaker'
<1>1. pc = "reading" /\ UNCHANGED <<client, tries>> /\ outbox = <<>>
  BY DEF Receive, requestVars, OneSpeaker
<1>2. CASE UNCHANGED <<pc, outbox, emitted>>
  BY <1>1, <1>2 DEF OneSpeaker
<1>3. CASE /\ e # "done" /\ emitted' = TRUE /\ pc' = "yielding"
           /\ outbox' = IF emitted THEN <<e>> ELSE Append(Flushed(e), e)
  <2>1. PICK s \in Seq(Body) : outbox' = Append(s, e)
    <3>1. CASE emitted
      <4>1. <<>> \in Seq(Body) /\ <<e>> = Append(<<>>, e)
        OBVIOUS
      <4> QED BY <1>3, <3>1, <4>1
    <3>2. CASE ~emitted
      BY <1>1, <1>3, <3>2, NotUsable, FlushedType
    <3> QED BY <3>1, <3>2
  <2>2. e \in Body
    BY <1>3 DEF Body
  <2>3. outbox' \in Seq(Body) /\ outbox' # <<>>
    BY <2>1, <2>2
  <2>4. \A i \in DOMAIN outbox' : outbox'[i] # "done"
    BY <2>3 DEF Body
  <2> QED BY <1>1, <1>3, <2>3, <2>4 DEF OneSpeaker
<1> QED BY <1>2, <1>3 DEF Receive

LEMMA SpeakerSpeaks ==
    ASSUME KindsOfSequences, OneSpeaker, tries \in Nat, Yield
    PROVE  OneSpeaker'
<1>1. /\ pc = "yielding" /\ outbox # <<>> /\ emitted /\ UNCHANGED <<emitted, tries>>
      /\ outbox' = Tail(outbox)
      /\ client' = Append(client, [by |-> tries, event |-> Head(outbox)])
      /\ pc' = IF Len(outbox) = 1 /\ Head(outbox) # "done" THEN "reading" ELSE "yielding"
  BY DEF Yield, OneSpeaker, requestVars, attemptVars
<1>2. /\ Len(outbox) \in Nat /\ Len(outbox) >= 1 /\ Len(outbox') = Len(outbox) - 1
      /\ Head(outbox) = outbox[1] /\ \A i \in 1..Len(outbox') : outbox'[i] = outbox[i + 1]
      /\ DOMAIN outbox = 1..Len(outbox) /\ DOMAIN outbox' = 1..Len(outbox')
      /\ Len(outbox) = 1 => outbox' = <<>>
      /\ outbox' = <<>> => Len(outbox) = 1
  BY <1>1, TailOf DEF KindsOfSequences
<1>3. \A i \in DOMAIN outbox' : outbox'[i] = "done" => i = Len(outbox')
  <2>1. \A i \in 1..Len(outbox) : outbox[i] = "done" => i = Len(outbox)
    BY <1>1, <1>2 DEF OneSpeaker
  <2> QED BY <1>2, <2>1
<1>4. Head(outbox) = "done" => Len(outbox) = 1
  BY <1>1, <1>2 DEF OneSpeaker
<1>5. [by |-> tries, event |-> Head(outbox)] \in [by : Nat, event : Kinds]
  BY <1>1, TailOf DEF KindsOfSequences
<1>6. \A i \in DOMAIN client' : /\ client'[i].by = tries
                                /\ client'[i].event = "done" => Head(outbox) = "done"
  <2>1. DOMAIN client' = 1..(Len(client) + 1) /\ Len(client) \in Nat
        /\ DOMAIN client = 1..Len(client)
        /\ client'[Len(client) + 1] = [by |-> tries, event |-> Head(outbox)]
        /\ \A i \in 1..Len(client) : client'[i] = client[i]
    BY <1>1, <1>5, AppendOf DEF KindsOfSequences
  <2>2. \A i \in 1..Len(client) : client[i].by = tries /\ client[i].event # "done"
    BY <1>1, <2>1 DEF OneSpeaker
  <2> QED BY <2>1, <2>2
<1>7. client' # <<>>
  <2>1. client \in Seq([by : Nat, event : Kinds])
    BY DEF KindsOfSequences
  <2>2. Append(client, [by |-> tries, event |-> Head(outbox)]) # <<>>
    BY <1>5, <2>1, AppendOf
  <2> QED BY <1>1, <2>2
<1> QED BY <1>1, <1>2, <1>3, <1>4, <1>6, <1>7 DEF OneSpeaker

LEMMA SpeakerKeeps ==
    ASSUME KindsOfSequences, tries \in Nat, OneSpeaker, Withholding, Upstreams, [Next]_vars
    PROVE  OneSpeaker'
<1>1. CASE EndOfStream
  <2>1. CASE pc' = "handling" /\ UNCHANGED outbox
    BY <1>1, <2>1 DEF EndOfStream, OneSpeaker, requestVars, attemptVars
  <2>2. CASE pc' = "yielding" /\ outbox' = (IF terminal THEN <<"done">> ELSE <<>>) /\ emitted
    BY <1>1, <2>2 DEF EndOfStream, OneSpeaker, requestVars, attemptVars
  <2>3. emitted \/ ~Usable(ToSet(pending))
    BY <1>1, NotUsable DEF EndOfStream
  <2> QED BY <1>1, <2>1, <2>2, <2>3 DEF EndOfStream
<1>2. CASE Start
  <2>1. pc = "start" /\ client = <<>> /\ outbox = <<>> /\ pc' \in {"reading", "handling"}
        /\ ~emitted' /\ UNCHANGED <<client, outbox>>
    BY <1>2 DEF Start, OneSpeaker
  <2> QED BY <2>1 DEF OneSpeaker
<1>3. CASE pc' = "over"
  BY <1>3 DEF OneSpeaker
<1>4. CASE /\ UNCHANGED <<client, outbox, emitted, tries>> /\ pc \notin {"yielding", "over"}
           /\ pc' \in {"start", "handling"} \/ (pc' = "prepare" /\ ~emitted)
           /\ pc' = "start" => pc = "prepare"
  BY <1>4 DEF OneSpeaker
<1>5. CASE UNCHANGED vars
  BY <1>5 DEF OneSpeaker, vars, requestVars, attemptVars
<1>6. Prepare \/ Succeed \/ UpstreamFails \/ FirstOutputTimeout \/ IdleTimeout \/ Handling \/ Abandon
      => \/ pc' = "over"
         \/ /\ UNCHANGED <<client, outbox, emitted, tries>> /\ pc \notin {"yielding", "over"}
            /\ pc' \in {"start", "handling"} \/ (pc' = "prepare" /\ ~emitted)
            /\ pc' = "start" => pc = "prepare"
  BY DEF Prepare, Succeed, UpstreamFails, FirstOutputTimeout, IdleTimeout, Handling, GiveUpPartial,
         RetryDegenerate, RetryTransient, FallBack, NoPolicy, NextTarget, Advance, Abandon,
         requestVars, attemptVars
<1> QED
  BY <1>1, <1>2, <1>3, <1>4, <1>5, <1>6, SpeakerHears, SpeakerSpeaks
  DEF Next, GatewayStep, UpstreamStep, Over

-----------------------------------------------------------------------------
(* What was received is what goes through.                                 *)

LEMMA SaidType ==
    ASSUME KindsOfSequences
    PROVE  /\ Said \in Seq(Kinds) /\ Through \in Seq(Kinds)
           /\ outbox = <<>> => Through = Said
           /\ client = <<>> => Said = <<>> /\ Through = outbox
<1>1. DOMAIN client = 1..Len(client) /\ Len(client) \in Nat
      /\ \A i \in 1..Len(client) : client[i].event \in Kinds
  <2>1. /\ DOMAIN client = 1..Len(client) /\ Len(client) \in Nat
        /\ \A i \in 1..Len(client) : client[i] \in [by : Nat, event : Kinds]
    BY LenProperties, ElementOfSeq DEF KindsOfSequences
  <2> QED BY <2>1
<1>2. Said \in Seq(Kinds) /\ Len(Said) = Len(client)
  BY <1>1 DEF Said
<1>3. client = <<>> => Said = <<>>
  BY <1>2
<1> HIDE DEF Said
<1>4. \A s \in Seq(Kinds) : s \o <<>> = s /\ <<>> \o s = s
  OBVIOUS
<1> QED BY <1>2, <1>3, <1>4 DEF Through, KindsOfSequences

\* A yield moves an event from what is on its way to what is said.
LEMMA ThroughKeeps ==
    ASSUME KindsOfSequences, tries \in Nat, Yield
    PROVE  Through' = Through
<1>1. outbox # <<>> /\ outbox' = Tail(outbox)
      /\ client' = Append(client, [by |-> tries, event |-> Head(outbox)])
  BY DEF Yield
<1>2. PICK e \in Kinds : e = Head(outbox)
  BY <1>1, TailOf DEF KindsOfSequences
<1>3. Said' = Append(Said, e)
  <2> DEFINE r == [by |-> tries, event |-> e]
  <2>1. r \in [by : Nat, event : Kinds] /\ r.event = e
    BY <1>2
  <2> HIDE DEF r
  <2>2. client' = Append(client, r)
    BY <1>1, <1>2 DEF r
  <2>3. /\ DOMAIN client' = 1..(Len(client) + 1) /\ Len(client) \in Nat
        /\ DOMAIN client = 1..Len(client)
        /\ client'[Len(client) + 1] = r
        /\ \A i \in 1..Len(client) : client'[i] = client[i]
    BY <2>1, <2>2, AppendOf DEF KindsOfSequences
  <2>4. Said \in Seq(Kinds) /\ Len(Said) = Len(client)
    BY <2>3, SaidType DEF Said
  <2>5. \A i \in 1..(Len(client) + 1) :
          Said'[i] = (IF i = Len(client) + 1 THEN e ELSE Said[i]) /\ Said'[i] \in Kinds
    <3>1. \A i \in 1..Len(client) : Said[i] \in Kinds /\ Said[i] = client[i].event
      BY <2>3, <2>4 DEF Said
    <3> QED BY <2>1, <2>3, <3>1 DEF Said
  <2>6. Said' \in Seq(Kinds) /\ Len(Said') = Len(client) + 1
    <3>1. Said' = [i \in 1..(Len(client) + 1) |-> Said'[i]]
      BY <2>3 DEF Said
    <3> HIDE DEF Said
    <3> QED BY <2>3, <2>5, <3>1
  <2>7. \A i \in 1..(Len(client) + 1) : Said'[i] = Append(Said, e)[i]
    BY <2>3, <2>4, <2>5, AppendOf
  <2>8. Append(Said, e) \in Seq(Kinds) /\ Len(Append(Said, e)) = Len(client) + 1
    BY <2>4, AppendOf
  <2> QED BY <2>6, <2>7, <2>8, SeqEqual
<1>4. Append(Said, Head(outbox)) \o Tail(outbox) = Said \o outbox
  BY <1>1, MoveHead, SaidType DEF KindsOfSequences
<1> QED BY <1>1, <1>2, <1>3, <1>4 DEF Through

LEMMA ToSetOfAppend ==
    ASSUME NEW T, NEW s \in Seq(T), NEW e \in T
    PROVE  ToSet(Append(s, e)) = ToSet(s) \cup {e} /\ ToSet(s) \subseteq T
<1>1. /\ \A i \in DOMAIN Append(s, e) : Append(s, e)[i] \in ToSet(s) \cup {e}
      /\ \A i \in DOMAIN s : i \in DOMAIN Append(s, e) /\ Append(s, e)[i] = s[i]
      /\ Len(s) + 1 \in DOMAIN Append(s, e) /\ Append(s, e)[Len(s) + 1] = e
  BY AppendOf DEF ToSet
<1>2. ToSet(s) \subseteq T
  BY AppendOf DEF ToSet
<1> QED BY <1>1, <1>2 DEF ToSet

LEMMA FirstStays ==
    ASSUME NEW s \in Seq(Kinds), s # <<>>, NEW e \in Kinds
    PROVE  Append(s, e) # <<>> /\ Append(s, e)[1] = s[1]
  BY AppendOf, EmptyIs

\* An event is held back, or is message_done.
LEMMA HeldBack ==
    ASSUME KindsOfSequences, OneSpeaker, Withholding, PassedOn, NEW e \in Kinds, Receive(e),
           UNCHANGED <<pc, outbox, emitted>>
    PROVE  Withholding' /\ PassedOn'
<1>1. /\ pc = "reading" /\ received' = Append(received, e) /\ UNCHANGED client /\ outbox = <<>>
      /\ received \in Seq(Kinds) /\ pending \in Seq(Kinds)
  BY DEF Receive, OneSpeaker, KindsOfSequences
<1>2. \A S : Only(received', S) = IF e \in S THEN Append(Only(received, S), e) ELSE Only(received, S)
  BY <1>1, OnlyAppend
<1>3. ToSet(received') = ToSet(received) \cup {e}
  BY <1>1, ToSetOfAppend
<1>4. CASE e = "done"
  <2>1. terminal' = TRUE /\ UNCHANGED pending
    BY <1>4 DEF Receive
  <2>2. \A S \in SUBSET Body : Only(received', S) = Only(received, S)
    BY <1>2, <1>4 DEF Body
  <2>3. Firsts \in SUBSET Body /\ Seen \in SUBSET Body /\ Body \in SUBSET Body
    BY DEF Firsts, Seen, Body, Kinds
  <2>4. Withholding'
    BY <1>1, <2>1, <2>2, <2>3 DEF Withholding, Attempting
  <2>5. UNCHANGED Through /\ ~Ending /\ ~Ending'
    BY <1>1 DEF Through, Said, Ending
  <2> QED BY <1>1, <1>3, <1>4, <2>1, <2>2, <2>3, <2>4, <2>5 DEF PassedOn, Attempting
<1>5. CASE e # "done"
  <2>1. /\ pending' = Append(pending, e) /\ UNCHANGED terminal /\ ~emitted
        /\ Withheld(e) \/ ~ClientVisible(e)
    <3>1. Withheld(e) \/ (~ClientVisible(e) /\ ~emitted)
      <4>1. pc' # "yielding"
        BY <1>1
      <4> QED BY <4>1, <1>5, Zenon DEF Receive
    <3>2. pending' = Append(pending, e) /\ UNCHANGED terminal
      BY <1>5, <3>1, Zenon DEF Receive
    <3>3. ~emitted
      BY <3>1, Zenon DEF Withheld
    <3> QED BY <3>1, <3>2, <3>3
  <2>2. e \in Body /\ e \notin Firsts /\ (e = "blank" => "dots" \in ToSet(pending))
    BY <1>5, <2>1 DEF Withheld, PlaceholderOnly, ClientVisible, TextKinds, Body, Firsts
  <2>3. ToSet(pending') = ToSet(pending) \cup {e}
    BY <1>1, <2>1, ToSetOfAppend
  <2>4. /\ pending = Only(received, Body) /\ Only(received, Firsts) = <<>>
        /\ ToSet(pending) \cap Firsts = {}
        /\ "blank" \in ToSet(pending) => "dots" \in ToSet(pending)
    BY <1>1, <2>1 DEF Withholding, Attempting
  <2>5. Only(received', Body) = Append(Only(received, Body), e) /\ Only(received', Firsts) = <<>>
    BY <1>2, <2>2, <2>4
  <2>6. Withholding'
    BY <2>1, <2>2, <2>3, <2>4, <2>5 DEF Withholding
  <2>7. terminal' <=> "done" \in ToSet(received')
    BY <1>1, <1>3, <1>5, <2>1 DEF PassedOn, Attempting
  <2> QED BY <1>1, <2>1, <2>6, <2>7 DEF PassedOn
<1> QED BY <1>4, <1>5

\* An event goes through, with the pending ones if it is the first.
LEMMA LetThrough ==
    ASSUME KindsOfSequences, OneSpeaker, Withholding, PassedOn, NEW e \in Kinds, Receive(e),
           e # "done", pc' = "yielding", emitted' = TRUE, UNCHANGED terminal,
           outbox' = IF emitted THEN <<e>> ELSE Append(Flushed(e), e),
           ClientVisible(e) \/ emitted
    PROVE  Withholding' /\ PassedOn'
<1>1. /\ pc = "reading" /\ received' = Append(received, e) /\ UNCHANGED client /\ outbox = <<>>
      /\ received \in Seq(Kinds) /\ pending \in Seq(Kinds)
  BY DEF Receive, OneSpeaker, KindsOfSequences
<1>2. \A S : Only(received', S) = IF e \in S THEN Append(Only(received, S), e) ELSE Only(received, S)
  BY <1>1, OnlyAppend
<1>3. e \in Body /\ Seen \subseteq Body /\ Seen \subseteq Substantial /\ Body \subseteq Kinds
  BY DEF Body, Seen, Substantial, PlaceholderOnly
<1>4. terminal' <=> "done" \in ToSet(received')
  BY <1>1, ToSetOfAppend DEF PassedOn, Attempting
<1>5. PICK before \in Seq(Body) :
        /\ Through' = Append(before, e)
        /\ Only(before, Seen) = Only(received, Seen)
        /\ \/ e = "tool" /\ Only(received, Firsts) = <<>>
           \/ Only(received, Firsts) # <<>> /\ Only(received, Firsts)[1] = "tool"
           \/ Only(before, Body) = Only(received, Body)
  <2>1. CASE emitted
    <3>1. Through = Said /\ Said \in Seq(Kinds) /\ UNCHANGED Said
      BY <1>1, SaidType DEF Said
    <3>2. Through' = Append(Said, e)
      BY <2>1, <3>1, AppendIsConcat DEF Through
    <3>3. Said \in Seq(Body)
      <4>1. "done" \notin ToSet(Said)
        BY <1>1, <2>1, <3>1 DEF PassedOn, Attempting, Ending
      <4>2. \A i \in 1..Len(Said) : Said[i] \in Body
        BY <3>1, <4>1, LenProperties DEF ToSet, Body
      <4> QED BY <3>1, <4>2
    <3> QED BY <1>1, <2>1, <3>1, <3>2, <3>3 DEF PassedOn, Attempting
  <2>2. CASE ~emitted
    <3>1. Through' = Append(Flushed(e), e)
      <4>1. client = <<>>
        BY <1>1, <2>2 DEF OneSpeaker
      <4>2. Said' = <<>>
        BY <1>1, <4>1, SaidType DEF Said
      <4>3. outbox' \in Seq(Kinds) /\ outbox' = Append(Flushed(e), e)
        BY <1>1, <2>2, FlushedType, AppendOf
      <4> QED BY <4>2, <4>3, ConcatEmptySeq DEF Through
    <3>2. Flushed(e) \in Seq(Body)
      BY <1>1, <2>2, NotUsable, FlushedType
    <3>3. pending = Only(received, Body) /\ Only(received, Firsts) = <<>>
      BY <1>1, <2>2 DEF Withholding, Attempting
    <3>4. Only(pending, Seen) = Only(received, Seen) /\ Only(pending, Body) = Only(received, Body)
      BY <1>1, <1>3, <3>3, OnlyOfOnly
    <3>5. Only(Only(pending, Substantial), Seen) = Only(pending, Seen)
      BY <1>1, <1>3, OnlyOfOnly
    <3>6. CASE e \in TextKinds
      BY <3>1, <3>2, <3>4, <3>6 DEF Flushed
    <3>7. CASE e = "tool"
      BY <3>1, <3>2, <3>3, <3>4, <3>5, <3>7 DEF Flushed, TextKinds
    <3> QED BY <2>2, <3>6, <3>7 DEF ClientVisible
  <2> QED BY <2>1, <2>2
<1>6. \A S : Only(Through', S) = IF e \in S THEN Append(Only(before, S), e) ELSE Only(before, S)
  BY <1>3, <1>5, OnlyAppend
<1>7. Only(Through', Seen) = Only(received', Seen)
  BY <1>2, <1>5, <1>6
<1>8. \/ Only(received', Firsts) # <<>> /\ Only(received', Firsts)[1] = "tool"
      \/ Only(Through', Body) = Only(received', Body)
  <2>1. CASE e = "tool" /\ Only(received, Firsts) = <<>>
    BY <1>2, <2>1 DEF Firsts
  <2>2. CASE Only(received, Firsts) # <<>> /\ Only(received, Firsts)[1] = "tool"
    <3>1. PICK s \in Seq(Kinds) : s = Only(received, Firsts)
      <4>1. Only(received, Firsts) \in Seq(Kinds \cap Firsts)
        BY <1>1, OnlyType
      <4> QED BY <4>1
    <3> QED BY <1>2, <2>2, <3>1, FirstStays
  <2>3. CASE Only(before, Body) = Only(received, Body)
    BY <1>2, <1>3, <1>6, <2>3
  <2> QED BY <1>5, <2>1, <2>2, <2>3
<1>9. "done" \notin ToSet(Through') /\ ~Ending'
  <2>1. Through' \in Seq(Body)
    BY <1>3, <1>5, AppendOf
  <2>2. ToSet(Through') \subseteq Body
    BY <2>1, LenProperties DEF ToSet
  <2>3. outbox' # <<>> /\ ToSet(outbox') \subseteq Body
    <3>1. PICK s \in Seq(Body) : outbox' = Append(s, e)
      <4>1. CASE emitted
        <5>1. <<>> \in Seq(Body) /\ <<e>> = Append(<<>>, e)
          OBVIOUS
        <5> QED BY <4>1, <5>1
      <4>2. CASE ~emitted
        BY <1>1, <4>2, NotUsable, FlushedType
      <4> QED BY <4>1, <4>2
    <3>2. Append(s, e) \in Seq(Body) /\ Append(s, e) # <<>>
      BY <1>3, AppendOf
    <3> QED BY <1>3, <3>1, <3>2, ToSetOfAppend
  <2> QED BY <2>2, <2>3 DEF Ending, Body
<1> QED BY <1>4, <1>7, <1>8, <1>9 DEF Withholding, PassedOn

LEMMA YieldKeeps ==
    ASSUME KindsOfSequences, OneSpeaker, tries \in Nat, PassedOn, Yield
    PROVE  Withholding' /\ PassedOn'
<1>1. /\ pc = "yielding" /\ emitted /\ UNCHANGED <<emitted, terminal, received>>
      /\ outbox # <<>> /\ outbox' = Tail(outbox) /\ Through' = Through
      /\ pc' = IF Len(outbox) = 1 /\ Head(outbox) # "done" THEN "reading" ELSE "yielding"
  BY ThroughKeeps DEF Yield, OneSpeaker, attemptVars
<1>2. /\ Len(outbox) \in Nat /\ Len(outbox) >= 1 /\ Head(outbox) = outbox[1]
      /\ DOMAIN outbox = 1..Len(outbox) /\ DOMAIN outbox' = 1..(Len(outbox) - 1)
      /\ \A i \in 1..(Len(outbox) - 1) : outbox'[i] = outbox[i + 1]
      /\ outbox' = <<>> <=> Len(outbox) = 1
  BY <1>1, TailOf DEF KindsOfSequences
<1>3. \A i \in 1..Len(outbox) : outbox[i] = "done" => i = Len(outbox)
  BY <1>1, <1>2 DEF OneSpeaker
<1>4. "done" \in ToSet(outbox) <=> outbox[Len(outbox)] = "done"
  <2>1. ASSUME "done" \in ToSet(outbox) PROVE outbox[Len(outbox)] = "done"
    <3>1. PICK i \in 1..Len(outbox) : outbox[i] = "done"
      BY <1>2, <2>1 DEF ToSet
    <3> QED BY <1>3, <3>1
  <2>2. Len(outbox) \in DOMAIN outbox
    BY <1>2
  <2> QED BY <2>1, <2>2 DEF ToSet
<1>5. Ending' <=> Ending
  <2>1. CASE Len(outbox) = 1
    BY <1>1, <1>2, <1>4, <2>1 DEF Ending
  <2>2. CASE Len(outbox) > 1
    <3>1. outbox'[Len(outbox) - 1] = outbox[Len(outbox)]
      BY <1>2, <2>2
    <3>2. ASSUME NEW i \in 1..(Len(outbox) - 1), outbox'[i] = "done"
          PROVE  outbox[Len(outbox)] = "done"
      <4>1. i + 1 \in 1..Len(outbox) /\ outbox[i + 1] = "done"
        BY <1>2, <3>2
      <4> QED BY <1>3, <4>1
    <3>3. "done" \in ToSet(outbox') <=> outbox[Len(outbox)] = "done"
      BY <1>2, <2>2, <3>1, <3>2 DEF ToSet
    <3> QED BY <1>1, <1>2, <1>4, <2>2, <3>3 DEF Ending
  <2> QED BY <1>2, <2>1, <2>2
<1>6. PassedOn
  OBVIOUS
<1> QED BY <1>1, <1>5, <1>6 DEF Withholding, PassedOn, Attempting

LEMMA EndKeeps ==
    ASSUME KindsOfSequences, OneSpeaker, Withholding, PassedOn, EndOfStream
    PROVE  Withholding' /\ PassedOn'
<1>1. CASE pc' = "handling"
  BY <1>1 DEF Withholding, PassedOn, Attempting
<1>2. CASE pc' # "handling"
  <2>1. /\ pc = "reading" /\ pc' = "yielding" /\ outbox = <<>> /\ UNCHANGED <<client, received>>
        /\ outbox' = (IF terminal THEN <<"done">> ELSE <<>>)
    BY <1>2 DEF EndOfStream, OneSpeaker, attemptVars
  <2>2. UNCHANGED terminal /\ UNCHANGED emitted /\ emitted
    BY <1>2, <2>1, NotUsable DEF EndOfStream, attemptVars
  <2>3. Through = Said /\ Said \in Seq(Kinds) /\ UNCHANGED Said
    BY <2>1, SaidType DEF Said
  <2>4. "done" \notin ToSet(Said)
    BY <2>1, <2>2, <2>3 DEF PassedOn, Attempting, Ending
  <2>5. Through' = (IF terminal THEN Append(Said, "done") ELSE Said)
    BY <2>1, <2>3, AppendIsConcat, ConcatEmptySeq DEF Through, Kinds
  <2>6. "done" \in ToSet(Append(Said, "done"))
        /\ \A S \in {Seen, Body} : Only(Append(Said, "done"), S) = Only(Said, S)
    BY <2>3, ToSetOfAppend, OnlyAppend DEF Kinds, Seen, Body
  <2>7. Ending' /\ ("done" \in ToSet(Through') <=> terminal)
    BY <2>1, <2>4, <2>5, <2>6 DEF Ending, ToSet
  <2>8. Only(Through', Seen) = Only(Through, Seen) /\ Only(Through', Body) = Only(Through, Body)
    BY <2>3, <2>5, <2>6
  <2> QED BY <2>1, <2>2, <2>7, <2>8 DEF Withholding, PassedOn, Attempting
<1> QED BY <1>1, <1>2

LEMMA ContentKeeps ==
    ASSUME KindsOfSequences, tries \in Nat, OneSpeaker, Withholding, PassedOn, [Next]_vars
    PROVE  Withholding' /\ PassedOn'
<1>1. ASSUME NEW e \in Kinds, Receive(e) PROVE Withholding' /\ PassedOn'
  <2>1. CASE UNCHANGED <<pc, outbox, emitted>>
    BY <1>1, <2>1, HeldBack
  <2>2. CASE /\ e # "done" /\ pc' = "yielding" /\ emitted' = TRUE /\ UNCHANGED terminal
             /\ outbox' = IF emitted THEN <<e>> ELSE Append(Flushed(e), e)
             /\ ClientVisible(e) \/ emitted
    BY <1>1, <2>2, LetThrough
  <2> QED BY <1>1, <2>1, <2>2, Zenon DEF Receive
<1>2. CASE Start
  <2>1. Only(<<>>, Body) = <<>> /\ Only(<<>>, Firsts) = <<>> /\ ToSet(<<>>) = {}
    BY OnlyNone DEF ToSet
  <2> QED BY <1>2, <2>1 DEF Start, Withholding, PassedOn, Attempting
<1>3. CASE pc' \notin {"reading", "yielding"}
  BY <1>3 DEF Withholding, PassedOn, Attempting
<1>4. CASE UNCHANGED vars
  BY <1>4 DEF vars, attemptVars, Withholding, PassedOn, Attempting, Ending, Through, Said
<1> QED
  BY <1>1, <1>2, <1>3, <1>4, YieldKeeps, EndKeeps
  DEF Next, GatewayStep, UpstreamStep, Handling, Prepare, Succeed, UpstreamFails,
      FirstOutputTimeout, IdleTimeout, GiveUpPartial, RetryDegenerate, RetryTransient, FallBack,
      NoPolicy, NextTarget, Advance, Abandon, Over

LEMMA NothingLostKeeps ==
    ASSUME KindsOfSequences, OneSpeaker, PassedOn, Upstreams, NothingOfSubstanceLost, [Next]_vars
    PROVE  NothingOfSubstanceLost'
<1>1. CASE outcome' # "completed"
  BY <1>1 DEF NothingOfSubstanceLost
<1>2. CASE UNCHANGED vars
  BY <1>2 DEF NothingOfSubstanceLost, vars, attemptVars, Said
<1>3. CASE Succeed
  <2>1. pc = "yielding" /\ outbox = <<>> /\ emitted /\ Ending /\ UNCHANGED <<client, received>>
    BY <1>3 DEF Succeed, OneSpeaker, Ending, attemptVars
  <2>2. Through = Said /\ UNCHANGED Said
    BY <2>1, SaidType DEF Said
  <2>3. /\ Only(Said, Seen) = Only(received, Seen)
        /\ \/ Only(received, Firsts) # <<>> /\ Only(received, Firsts)[1] = "tool"
           \/ Only(Said, Body) = Only(received, Body)
        /\ "done" \in ToSet(received) <=> "done" \in ToSet(Said)
    BY <2>1, <2>2 DEF PassedOn, Attempting
  <2> HIDE DEF Said
  <2> QED BY <2>1, <2>2, <2>3 DEF NothingOfSubstanceLost, Seen, Body, Firsts
<1>4. outcome' = "completed" => Succeed \/ UNCHANGED vars
  BY DEF Next, GatewayStep, UpstreamStep, Handling, Prepare, Start, Receive, Yield, EndOfStream,
      UpstreamFails, FirstOutputTimeout, IdleTimeout, GiveUpPartial, RetryDegenerate,
      RetryTransient, FallBack, NoPolicy, NextTarget, Advance, Abandon, Over, Upstreams
<1> QED BY <1>1, <1>2, <1>3, <1>4

-----------------------------------------------------------------------------
(* The invariant.                                                          *)

LEMMA InitKeeps == Init => IInv
<1> SUFFICES ASSUME Init PROVE IInv
  OBVIOUS
<1>1. ControlOK
  BY FallbackAssumption DEF Init, ControlOK
<1>2. FlagsOK /\ KindsOfSequences
  <2>1. FlagsOK
    BY DEF Init, FlagsOK
  <2>2. pending = <<>> /\ outbox = <<>> /\ received = <<>> /\ client = <<>>
    BY DEF Init
  <2> QED BY <2>1, <2>2 DEF KindsOfSequences
<1>3. Upstreams /\ Withholding /\ PassedOn /\ NothingOfSubstanceLost
  BY DEF Init, Upstreams, Withholding, PassedOn, Attempting, NothingOfSubstanceLost
<1>4. Counted /\ OneSpeaker
  BY <1>1 DEF Init, Counted, Before, Spent, Attempting, OneSpeaker
<1> QED BY <1>1, <1>2, <1>3, <1>4, Types DEF IInv

LEMMA NextKeeps == IInv /\ [Next]_vars => IInv'
<1> SUFFICES ASSUME IInv, [Next]_vars PROVE IInv'
  OBVIOUS
<1>1. ControlOK /\ FlagsOK /\ KindsOfSequences /\ tries \in Nat
  BY Types DEF IInv, ControlOK
<1>2. ControlOK' /\ FlagsOK' /\ KindsOfSequences'
  BY <1>1, ControlKeeps, FlagsKeep, SequencesKeep DEF IInv
<1>3. TypeOK'
  BY <1>2 DEF TypeOK, ControlOK, FlagsOK, KindsOfSequences
<1>4. Upstreams' /\ Counted'
  BY <1>1, UpstreamsKeep, CountedKeeps DEF IInv
<1>5. OneSpeaker' /\ Withholding' /\ PassedOn' /\ NothingOfSubstanceLost'
  BY <1>1, SpeakerKeeps, ContentKeeps, NothingLostKeeps DEF IInv
<1> QED BY <1>3, <1>4, <1>5 DEF IInv

\* The invariant holds in every reachable state.
THEOREM Inductive == Spec => []IInv
  BY InitKeeps, NextKeeps, PTL DEF Spec

\* However many targets a chain has and however often each is retried, the
\* attempts of a request follow one another, each closes its upstream, and
\* they add up to at most AttemptBound (proxy.py:2185).
THEOREM AttemptsFollow == Spec => []AttemptsInTurn
<1>1. IInv => AttemptsInTurn
  <2> SUFFICES ASSUME IInv PROVE AttemptsInTurn
    OBVIOUS
  <2>1. TypeOK /\ ControlOK /\ UpstreamsReleased
    BY Types DEF IInv, Upstreams, UpstreamsReleased
  <2>2. AttemptsBounded
    BY <2>1, Affordable DEF IInv, AttemptsBounded
  <2> QED BY <2>1, <2>2 DEF AttemptsInTurn
<1> QED BY <1>1, Inductive, PTL

\* Whatever the upstreams send, a completed answer has everything of substance
\* in the attempt that served it, in order (proxy.py:2069, M-16).
THEOREM NothingLost == Spec => []NothingOfSubstanceLost
  BY Inductive, PTL DEF IInv

-----------------------------------------------------------------------------
(* One voice.                                                              *)

LEMMA StepSpeaks ==
    ASSUME IInv, [Next]_vars
    PROVE  [Promise!Next]_(Promise!vars)
<1>0. ControlOK /\ KindsOfSequences /\ Upstreams /\ OneSpeaker
  BY Types DEF IInv
<1>1. CASE UNCHANGED <<client, outcome>>
  BY <1>1 DEF Promise!vars
<1>2. CASE Yield
  <2>1. PICK e \in Kinds : e = Head(outbox)
    BY <1>0, <1>2, TailOf DEF Yield, KindsOfSequences
  <2>2. tries \in 1..AttemptBound(MaxFallbacks)
    <3>1. pc = "yielding" /\ chain \in Nat /\ MaxFallbacks \in Nat /\ chain <= MaxFallbacks
      BY <1>0, <1>2, FallbackAssumption DEF Yield, ControlOK
    <3>2. tries <= AttemptBound(chain) /\ tries \in Nat /\ tries >= 1
      BY <1>0, <1>2, <3>1, Affordable DEF IInv, Counted, Attempting, ControlOK
    <3>3. AttemptBound(chain) <= AttemptBound(MaxFallbacks)
          /\ AttemptBound(chain) \in Nat /\ AttemptBound(MaxFallbacks) \in Nat
      BY <3>1, Bounds
    <3> HIDE DEF AttemptBound
    <3> QED BY <3>2, <3>3
  <2>3. /\ outcome = "open" /\ UNCHANGED outcome
        /\ \A i \in DOMAIN client : client[i].by = tries /\ client[i].event # "done"
        /\ client' = Append(client, [by |-> tries, event |-> e])
    BY <1>0, <1>2, <2>1 DEF Yield, Upstreams, OneSpeaker
  <2>4. Promise!Say(tries, e)
    BY <2>3 DEF Promise!Say
  <2> QED BY <2>1, <2>2, <2>4 DEF Promise!Next
<1>3. CASE Succeed
  <2>1. outcome = "open" /\ client # <<>> /\ outcome' = "completed" /\ UNCHANGED client
    BY <1>0, <1>3 DEF Succeed, Upstreams, OneSpeaker
  <2> QED BY <2>1 DEF Promise!Next, Promise!Complete
<1>4. CASE Abandon
  <2>1. outcome = "open" /\ outcome' = "abandoned" /\ UNCHANGED client
    BY <1>0, <1>4 DEF Abandon, Upstreams
  <2> QED BY <2>1 DEF Promise!Next, Promise!Abandon
<1>5. CASE pc \in {"prepare", "handling"} /\ outcome' \in {"failed", "partial"} /\ UNCHANGED client
  <2>1. outcome = "open" /\ \A i \in DOMAIN client : client[i].event # "done"
    BY <1>0, <1>5 DEF Upstreams, OneSpeaker
  <2> QED BY <1>5, <2>1 DEF Promise!Next, Promise!Fail
<1>6. \/ UNCHANGED <<client, outcome>> \/ Yield \/ Succeed \/ Abandon
      \/ pc \in {"prepare", "handling"} /\ outcome' \in {"failed", "partial"} /\ UNCHANGED client
  BY DEF Next, GatewayStep, UpstreamStep, Handling, Prepare, Start, Receive, EndOfStream,
         UpstreamFails, FirstOutputTimeout, IdleTimeout, GiveUpPartial, RetryDegenerate,
         RetryTransient, FallBack, NoPolicy, NextTarget, Advance, Over, vars
<1> QED BY <1>1, <1>2, <1>3, <1>4, <1>5, <1>6

\* A streamed answer is what SingleSourceStream says it is, whatever the chain
\* and the retries: of one attempt, growing, and concluded once (proxy.py:1968).
THEOREM OneVoice == Spec => SpeaksWithOneVoice
<1>1. Init => Promise!Init
  BY DEF Init, Promise!Init
<1>2. IInv /\ [Next]_vars => [Promise!Next]_(Promise!vars)
  BY StepSpeaks
<1> QED BY <1>1, <1>2, Inductive, PTL DEF Spec, SpeaksWithOneVoice, Promise!Spec
=============================================================================
