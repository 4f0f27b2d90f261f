---------------------------- MODULE StreamProofs ----------------------------
(***************************************************************************)
(* Proofs about the two ends of a request.                                 *)
(*                                                                         *)
(* StreamBridge, for any number of chunks and any queue and batch size:    *)
(* the hand-off is first in, first out and loses nothing while nobody      *)
(* cancels, the wake-up latch never swallows a wake-up, and the worker     *)
(* never returns with the upstream open.                                   *)
(*                                                                         *)
(* Endpoints with StreamAccounting, for any limit of the breaker and any   *)
(* number of turns: the four ledgers agree, nobody is charged for an       *)
(* answer that never came, and the breaker follows the turns.              *)
(***************************************************************************)
EXTENDS StreamBridge, Endpoints, SequenceTheorems, TLAPS

\* The type invariant in two parts: the flags, and the rest.
FlagsOK ==
    /\ error \in BOOLEAN /\ armed \in BOOLEAN /\ dataReady \in BOOLEAN
    /\ producerDone \in BOOLEAN /\ cancel \in BOOLEAN

ValuesOK ==
    /\ ppc \in ProducerPC /\ cpc \in ConsumerPC
    /\ after \in {"pull", "done", "exit"}
    /\ upstream \in {"none", "open", "closed"}
    /\ outcome \in {"running", "ended", "raised", "abandoned"}
    /\ made \in 0..MaxChunks /\ wakes \in Nat /\ drained \in 0..DrainBatch
    /\ queue \in Seq(0..MaxChunks) /\ Len(queue) <= QueueMax
    /\ delivered \in Seq(1..MaxChunks)

\* The two parts are the whole.
LEMMA TypeParts == TypeOK <=> FlagsOK /\ ValuesOK  BY DEF TypeOK, FlagsOK, ValuesOK

\* The places of the worker in its read loop, before its sentinel and after.
PcInv ==
    /\ after = "pull" => ppc \notin {"done", "exit"}
    /\ after = "done" => ppc \in {"offer", "put", "latched", "arm", "call", "done"}
    /\ after = "exit" => ppc \in {"latched", "arm", "call", "exit"}
    /\ producerDone <=> after = "exit"
    /\ cpc = "drain" => drained < DrainBatch

InLoop == after = "pull" /\ ppc \notin {"start", "close", "final"}

\* The upstream is open only while the worker may still read it or close it.
OpenInLoop == upstream = "open" => InLoop \/ (after = "pull" /\ ppc = "close")

\* A wake-up is under way, or has arrived.
Notified == dataReady \/ wakes > 0 \/ ppc \in {"latched", "arm", "call"}

\* Past the disarm the latch stands for a wake-up of its own, and what the
\* consumer has already looked at (the queue, then producer_done) changes only
\* with a wake-up.
WakeInv ==
    /\ armed /\ cpc \in {"recheck", "isdone", "wait"} => dataReady \/ wakes > 0 \/ ppc = "call"
    /\ queue # <<>> /\ cpc \in {"isdone", "wait"} => Notified
    /\ producerDone /\ cpc = "wait" => Notified

\* The sentinel may be in the queue.
Sent == after = "exit" \/ (after = "done" /\ ppc \notin {"offer", "put"})

\* The queue holds the chunks that follow the delivered ones, then perhaps the
\* sentinel; inside its loop the worker has pulled exactly these and the one in
\* its hand.
QueueInv ==
    /\ \A i \in 1..Len(delivered) : delivered[i] = i
    /\ \A i \in 1..Len(queue) : \/ queue[i] = Len(delivered) + i
                                \/ queue[i] = Sentinel /\ i = Len(queue) /\ Sent
    /\ InLoop => Len(delivered) + Len(queue) + InHand = made
    /\ ppc = "start" => made = 0 /\ queue = <<>> /\ delivered = <<>>

IInv == TypeOK /\ PcInv /\ OpenInLoop /\ WakeInv /\ QueueInv /\ Conserved

----------------------------------------------------------------------------
\* Before either thread has moved, everything is empty.
LEMMA InitIInv == Init => IInv
  <1> SUFFICES ASSUME Init PROVE IInv  OBVIOUS
  <1>1. FlagsOK  BY DEF Init, FlagsOK
  <1>4. ValuesOK
        BY MaxChunksAssumption, QueueMaxAssumption, DrainBatchAssumption
        DEF Init, ValuesOK, ProducerPC, ConsumerPC
  <1>2. PcInv /\ OpenInLoop /\ WakeInv
        BY DrainBatchAssumption DEF Init, PcInv, OpenInLoop, InLoop, WakeInv
  <1>3. QueueInv /\ Conserved
        BY DEF Init, QueueInv, InLoop, InHand, Conserved, ChunksIn
  <1> QED  BY <1>1, <1>2, <1>3, <1>4, TypeParts DEF IInv

\* Every operation of the two threads keeps the types: the queue within its
\* bound and a batch within its size.
LEMMA TypeStep == ASSUME IInv, [Next]_vars PROVE TypeOK'
  <1>1. FlagsOK /\ ValuesOK /\ PcInv  BY TypeParts DEF IInv
  <1>2. FlagsOK'
    <2> USE <1>1 DEF FlagsOK, ProducerAt, ConsumerAt, producerVars, consumerVars, wakeVars
    <2>1. CASE POpen \/ PPull  BY <2>1 DEF POpen, PPull
    <2>2. CASE ProducerStep
          BY <2>2 DEF ProducerStep, PCheck, POffer, PPut, PLatched, PArm, PCall, PClose, PFinal, PDone
    <2>3. CASE ConsumerStep
          BY <2>3 DEF ConsumerStep, CDrain, CResume, CBreathe, CDisarm, CRecheck, CIsDone, CWoken,
                 CFinish
    <2>4. CASE CPollTimeout \/ CAbandon \/ LoopTick  BY <2>4 DEF CPollTimeout, CAbandon, LoopTick
    <2>5. CASE Finished \/ UNCHANGED vars  BY <2>5 DEF Finished, vars
    <2> QED  BY <2>1, <2>2, <2>3, <2>4, <2>5 DEF Next
  <1>3. ValuesOK'
    <2> USE <1>1, MaxChunksAssumption, QueueMaxAssumption, DrainBatchAssumption
        DEF ValuesOK, ProducerPC, ConsumerPC, ProducerAt, ConsumerAt, producerVars, consumerVars,
            wakeVars
    <2>1. CASE POpen \/ PPull  BY <2>1 DEF POpen, PPull
    <2>2. CASE PPut
      <3> DEFINE item == IF after = "pull" THEN made ELSE Sentinel
      <3>1. item \in 0..MaxChunks  BY DEF Sentinel
      <3>2. /\ queue' = queue \/ (queue' = Append(queue, item) /\ Len(queue) < QueueMax)
            /\ ppc' \in {"latched", "offer"}
            /\ UNCHANGED <<after, made, error, upstream, producerDone, consumerVars, wakeVars>>
            BY <2>2 DEF PPut
      <3> HIDE DEF item
      <3>3. /\ Append(queue, item) \in Seq(0..MaxChunks)
            /\ Len(Append(queue, item)) = Len(queue) + 1
            BY <3>1, AppendProperties
      <3>4. Len(queue) \in Nat /\ Len(queue) < QueueMax => Len(queue) + 1 <= QueueMax
            BY LenProperties
      <3>5. queue' \in Seq(0..MaxChunks) /\ Len(queue') <= QueueMax  BY <3>2, <3>3, <3>4
      <3> QED  BY <3>2, <3>5
    <2>3. CASE ProducerStep /\ ~PPut
          BY <2>3 DEF ProducerStep, PCheck, POffer, PLatched, PArm, PCall, PClose, PFinal, PDone
    <2>4. CASE CDrain
      <3>1. CASE queue = <<>>  BY <2>4, <3>1 DEF CDrain
      <3>2. CASE queue # <<>>
        <4>1. Head(queue) \in 0..MaxChunks /\ Tail(queue) \in Seq(0..MaxChunks)
                /\ Len(Tail(queue)) <= QueueMax
              BY <3>2
        <4>2. queue' = Tail(queue) /\ drained' = drained + 1 /\ drained < DrainBatch
                /\ cpc' \in {"yielded", "finish"}
                /\ UNCHANGED <<outcome, cancel, producerVars, wakeVars>>
              BY <2>4, <3>2 DEF CDrain, PcInv
        <4>3. delivered' = delivered \/ (Head(queue) # 0 /\ delivered' = Append(delivered, Head(queue)))
              BY <2>4, <3>2 DEF CDrain, Sentinel
        <4>4. delivered' \in Seq(1..MaxChunks)
          <5>1. Head(queue) # 0 => Head(queue) \in 1..MaxChunks  BY <4>1
          <5>2. delivered \in Seq(1..MaxChunks)  OBVIOUS
          <5>3. Head(queue) # 0 => Append(delivered, Head(queue)) \in Seq(1..MaxChunks)
                BY <5>1, <5>2, AppendProperties
          <5> QED  BY <4>3, <5>2, <5>3
        <4> QED  BY <4>1, <4>2, <4>4
      <3> QED  BY <3>1, <3>2
    <2>5. CASE ConsumerStep /\ ~CDrain
          BY <2>5 DEF ConsumerStep, CResume, CBreathe, CDisarm, CRecheck, CIsDone, CWoken, CFinish
    <2>6. CASE CPollTimeout \/ CAbandon \/ LoopTick  BY <2>6 DEF CPollTimeout, CAbandon, LoopTick
    <2>7. CASE Finished \/ UNCHANGED vars  BY <2>7 DEF Finished, vars
    <2> QED  BY <2>1, <2>2, <2>3, <2>4, <2>5, <2>6, <2>7 DEF Next
  <1> QED  BY <1>2, <1>3 DEF TypeOK, FlagsOK, ValuesOK

\* The worker goes through its loop, the close, the sentinel and the end in
\* this order, and has closed what it opened before the sentinel.
LEMMA PcStep == ASSUME IInv, [Next]_vars PROVE PcInv' /\ OpenInLoop'
  <1>1. TypeOK /\ PcInv /\ OpenInLoop  BY DEF IInv
  <1> USE <1>1, DrainBatchAssumption
      DEF TypeOK, ProducerPC, ConsumerPC, PcInv, OpenInLoop, InLoop, ProducerAt, ConsumerAt,
          producerVars, consumerVars, wakeVars
  <1>2. CASE POpen  BY <1>2 DEF POpen
  <1>3. CASE PPull  BY <1>3 DEF PPull
  <1>4. CASE ProducerStep
    <2>1. CASE PCheck  BY <2>1 DEF PCheck
    <2>2. CASE POffer  BY <2>2 DEF POffer
    <2>3. CASE PPut  BY <2>3 DEF PPut
    <2>4. CASE PLatched  BY <2>4 DEF PLatched
    <2>5. CASE PArm \/ PCall  BY <2>5 DEF PArm, PCall
    <2>6. CASE PClose \/ PFinal \/ PDone  BY <2>6 DEF PClose, PFinal, PDone
    <2> QED  BY <1>4, <2>1, <2>2, <2>3, <2>4, <2>5, <2>6 DEF ProducerStep
  <1>5. CASE ConsumerStep
    <2>1. CASE CDrain  BY <2>1 DEF CDrain
    <2>2. CASE CResume \/ CBreathe \/ CDisarm  BY <2>2 DEF CResume, CBreathe, CDisarm
    <2>3. CASE CRecheck \/ CIsDone  BY <2>3 DEF CRecheck, CIsDone
    <2>4. CASE CWoken \/ CFinish  BY <2>4 DEF CWoken, CFinish
    <2> QED  BY <1>5, <2>1, <2>2, <2>3, <2>4 DEF ConsumerStep
  <1>6. CASE CPollTimeout \/ CAbandon  BY <1>6 DEF CPollTimeout, CAbandon
  <1>7. CASE LoopTick  BY <1>7 DEF LoopTick
  <1>8. CASE Finished \/ UNCHANGED vars  BY <1>8 DEF Finished, vars
  <1> QED  BY <1>2, <1>3, <1>4, <1>5, <1>6, <1>7, <1>8 DEF Next

\* The latch: what the producer skips because the latch is set is a wake-up
\* that somebody else has already sent.
LEMMA WakeStep == ASSUME IInv, [Next]_vars PROVE WakeInv'
  <1>1. TypeOK /\ PcInv /\ WakeInv  BY DEF IInv
  <1> USE <1>1 DEF TypeOK, PcInv, WakeInv, Notified, ProducerAt, ConsumerAt, producerVars,
          consumerVars, wakeVars
  <1>2. CASE POpen  BY <1>2 DEF POpen
  <1>3. CASE PPull  BY <1>3 DEF PPull
  <1>4. CASE ProducerStep
    <2>1. CASE PCheck \/ POffer  BY <2>1 DEF PCheck, POffer
    <2>2. CASE PPut  BY <2>2 DEF PPut
    <2>3. CASE PLatched  BY <2>3 DEF PLatched
    <2>4. CASE PArm \/ PCall  BY <2>4 DEF PArm, PCall
    <2>5. CASE PClose \/ PFinal  BY <2>5 DEF PClose, PFinal
    <2>6. CASE PDone  BY <2>6 DEF PDone
    <2> QED  BY <1>4, <2>1, <2>2, <2>3, <2>4, <2>5, <2>6 DEF ProducerStep
  <1>5. CASE ConsumerStep
    <2>1. CASE CDrain  BY <2>1 DEF CDrain
    <2>2. CASE CResume \/ CBreathe \/ CDisarm  BY <2>2 DEF CResume, CBreathe, CDisarm
    <2>3. CASE CRecheck  BY <2>3 DEF CRecheck
    <2>4. CASE CIsDone  BY <2>4 DEF CIsDone
    <2>5. CASE CWoken \/ CFinish  BY <2>5 DEF CWoken, CFinish
    <2> QED  BY <1>5, <2>1, <2>2, <2>3, <2>4, <2>5 DEF ConsumerStep
  <1>6. CASE CPollTimeout \/ CAbandon  BY <1>6 DEF CPollTimeout, CAbandon
  <1>7. CASE LoopTick  BY <1>7 DEF LoopTick
  <1>8. CASE Finished \/ UNCHANGED vars  BY <1>8 DEF Finished, vars
  <1> QED  BY <1>2, <1>3, <1>4, <1>5, <1>6, <1>7, <1>8 DEF Next

----------------------------------------------------------------------------
\* Storing an item: in the loop it is the next chunk, after it the sentinel.
LEMMA PutOrder == ASSUME IInv, PPut PROVE QueueInv' /\ Conserved'
  <1>1. TypeOK /\ PcInv /\ QueueInv /\ Conserved  BY DEF IInv
  <1>2. /\ ppc = "put"
        /\ UNCHANGED <<after, made, delivered, cancel>>
        BY DEF PPut, ProducerAt, consumerVars
  <1>3. Len(delivered) \in Nat /\ Len(queue) \in Nat /\ made \in Nat  BY <1>1 DEF TypeOK
  <1>4. CASE ppc' = "offer" /\ queue' = queue
        BY <1>1, <1>2, <1>4 DEF QueueInv, InLoop, InHand, Conserved, Sent, ChunksIn
  <1>5. CASE ppc' = "latched" /\ queue' = Append(queue, IF after = "pull" THEN made ELSE Sentinel)
    <2>1. ~Sent /\ \A i \in 1..Len(queue) : queue[i] = Len(delivered) + i
          BY <1>1, <1>2 DEF PcInv, TypeOK, QueueInv, Sent
    <2>2. Len(queue') = Len(queue) + 1 /\ \A i \in 1..Len(queue) : queue'[i] = queue[i]
          BY <1>1, <1>5 DEF TypeOK
    <2>3. ChunksIn(queue) = Len(queue)
          BY <1>1, <1>3, <2>1 DEF ChunksIn, Sentinel, TypeOK
    <2>4. CASE after = "pull"
      <3>1. queue'[Len(queue')] = made /\ made = Len(delivered) + Len(queue) + 1
            BY <1>1, <1>2, <1>3, <1>5, <2>2, <2>4 DEF TypeOK, QueueInv, InLoop, InHand
      <3>2. ChunksIn(queue') = Len(queue) + 1
            BY <1>3, <2>2, <3>1 DEF ChunksIn, Sentinel
      <3>3. InHand' = 0 /\ InHand = 1  BY <1>2, <1>5, <2>4 DEF InHand
      <3>4. Conserved'
            BY <1>1, <1>2, <1>3, <2>3, <3>1, <3>2, <3>3 DEF Conserved
      <3>5. \A i \in 1..Len(queue') : queue'[i] = Len(delivered) + i
            BY <1>3, <2>1, <2>2, <3>1
      <3> QED  BY <1>1, <1>2, <1>3, <1>5, <2>2, <3>1, <3>3, <3>4, <3>5 DEF QueueInv
    <2>5. CASE after # "pull"
      <3>1. queue'[Len(queue')] = Sentinel  BY <1>1, <1>5, <2>5 DEF TypeOK
      <3>2. after = "done" /\ Sent'  BY <1>1, <1>2, <1>5, <2>5 DEF Sent, PcInv, TypeOK
      <3>3. ChunksIn(queue') = Len(queue)
            BY <1>3, <2>2, <3>1 DEF ChunksIn
      <3>4. Conserved'
            BY <1>1, <1>2, <1>3, <1>5, <2>3, <2>5, <3>3 DEF Conserved, InHand
      <3>5. QueueInv'
            BY <1>1, <1>2, <1>3, <1>5, <2>1, <2>2, <2>5, <3>1, <3>2
            DEF QueueInv, InLoop
      <3> QED  BY <3>4, <3>5
    <2> QED  BY <2>4, <2>5
  <1> QED  BY <1>4, <1>5 DEF PPut, ProducerAt

\* Taking an item: the head is the next chunk, or the sentinel alone.
LEMMA DrainOrder == ASSUME IInv, CDrain PROVE QueueInv' /\ Conserved'
  <1>1. TypeOK /\ QueueInv /\ Conserved  BY DEF IInv
  <1>2. UNCHANGED <<ppc, after, made, cancel>>  BY DEF CDrain, producerVars
  <1>3. Len(delivered) \in Nat /\ Len(queue) \in Nat /\ made \in Nat  BY <1>1 DEF TypeOK
  <1>4. InHand' = InHand /\ (Sent' <=> Sent) /\ (InLoop' <=> InLoop)  BY <1>2 DEF InHand, Sent, InLoop
  <1>5. CASE queue = <<>>
    <2>1. UNCHANGED <<queue, delivered>>  BY <1>5 DEF CDrain
    <2> QED  BY <1>1, <1>2, <1>4, <2>1 DEF QueueInv, Conserved, ChunksIn
  <1>6. CASE queue # <<>>
    <2>1. /\ queue' = Tail(queue) /\ Len(queue') = Len(queue) - 1
          /\ \A i \in 1..Len(queue') : queue'[i] = queue[i + 1]
      <3>1. queue' = Tail(queue)  BY <1>6 DEF CDrain
      <3>2. queue \in Seq(0..MaxChunks)  BY <1>1 DEF TypeOK
      <3> QED  BY <1>6, <3>1, <3>2, HeadTailProperties
    <2>2. Len(queue) > 0 /\ queue[1] = Head(queue)  BY <1>1, <1>6 DEF TypeOK
    <2>3. CASE Head(queue) # Sentinel
      <3>1. delivered' = Append(delivered, Head(queue))  BY <1>6, <2>3 DEF CDrain
      <3>2. Head(queue) = Len(delivered) + 1  BY <1>1, <2>2, <2>3 DEF QueueInv
      <3>3. Len(delivered') = Len(delivered) + 1
              /\ \A i \in 1..Len(delivered') : delivered'[i] = i
            BY <1>1, <1>3, <3>1, <3>2 DEF TypeOK, QueueInv
      <3>4. ChunksIn(queue') = ChunksIn(queue) - 1
        <4>1. CASE Len(queue) = 1
          <5>1. queue' = <<>>  BY <1>1, <2>1, <4>1 DEF TypeOK
          <5>2. queue[Len(queue)] # Sentinel  BY <2>2, <2>3, <4>1
          <5> QED  BY <1>6, <4>1, <5>1, <5>2 DEF ChunksIn
        <4>2. CASE Len(queue) > 1
          <5>1. queue' # <<>> /\ queue'[Len(queue')] = queue[Len(queue)]
                BY <1>3, <2>1, <4>2
          <5> QED  BY <1>3, <1>6, <2>1, <5>1 DEF ChunksIn
        <4>3. \A n \in Nat : n > 0 => n = 1 \/ n > 1  OBVIOUS
        <4> QED  BY <1>3, <2>2, <4>1, <4>2, <4>3
      <3>5. \A i \in 1..Len(queue') : \/ queue'[i] = Len(delivered') + i
                                      \/ queue'[i] = Sentinel /\ i = Len(queue') /\ Sent'
        <4> TAKE i \in 1..Len(queue')
        <4>1. i + 1 \in 1..Len(queue) /\ queue'[i] = queue[i + 1]  BY <1>3, <2>1
        <4>2. \/ queue[i + 1] = Len(delivered) + (i + 1)
              \/ queue[i + 1] = Sentinel /\ i + 1 = Len(queue) /\ Sent
              BY <1>1, <4>1 DEF QueueInv
        <4> QED  BY <1>3, <1>4, <2>1, <3>3, <4>1, <4>2
      <3>6. Conserved'
        <4>1. ChunksIn(queue) \in Int /\ InHand \in Int  BY <1>3 DEF ChunksIn, InHand
        <4> QED  BY <1>1, <1>2, <1>3, <1>4, <3>3, <3>4, <4>1 DEF Conserved
      <3>7. InLoop' => Len(delivered') + Len(queue') + InHand' = made'
        <4>1. InHand \in Int  BY DEF InHand
        <4>2. InLoop => Len(delivered) + Len(queue) + InHand = made  BY <1>1 DEF QueueInv
        <4>3. \A m, n \in Nat : (m + 1) + (n - 1) = m + n  OBVIOUS
        <4> QED  BY <1>2, <1>3, <1>4, <2>1, <3>3, <4>2, <4>3
      <3> QED  BY <1>1, <1>2, <1>6, <3>3, <3>5, <3>6, <3>7 DEF QueueInv
    <2>4. CASE Head(queue) = Sentinel
      <3>1. UNCHANGED delivered  BY <1>6, <2>4 DEF CDrain
      <3>2. Len(queue) = 1 /\ Sent
        <4>1. 1 \in 1..Len(queue)  BY <1>3, <2>2
        <4>2. \/ queue[1] = Len(delivered) + 1
              \/ queue[1] = Sentinel /\ 1 = Len(queue) /\ Sent
              BY <1>1, <4>1 DEF QueueInv
        <4>3. Len(delivered) + 1 # 0  BY <1>3
        <4> QED  BY <2>2, <2>4, <4>2, <4>3 DEF Sentinel
      <3>3. queue' = <<>> /\ ChunksIn(queue) = 0 /\ ChunksIn(queue') = 0
            BY <1>1, <1>6, <2>1, <2>2, <2>4, <3>2 DEF TypeOK, ChunksIn
      <3>4. ~InLoop  BY <3>2 DEF Sent, InLoop
      <3> QED  BY <1>1, <1>2, <1>4, <1>6, <3>1, <3>3, <3>4 DEF QueueInv, Conserved
    <2> QED  BY <2>3, <2>4
  <1> QED  BY <1>5, <1>6

\* Every other operation leaves the queue and the delivered chunks alone.
LEMMA OrderStep == ASSUME IInv, [Next]_vars PROVE QueueInv' /\ Conserved'
  <1>1. TypeOK /\ PcInv /\ QueueInv /\ Conserved  BY DEF IInv
  <1>2. Len(delivered) \in Nat /\ Len(queue) \in Nat /\ ChunksIn(queue) \in Int /\ made \in Nat
        BY <1>1 DEF TypeOK, ChunksIn
  <1> USE <1>1, <1>2 DEF PcInv, QueueInv, Conserved, Sent, InLoop, InHand, ProducerAt, ConsumerAt,
          producerVars, consumerVars, wakeVars
  <1>3. CASE POpen
    <2>1. UNCHANGED <<queue, delivered, made, after, cancel>>  BY <1>3 DEF POpen
    <2>2. ppc = "start" /\ ppc' \in {"pull", "final"}  BY <1>3 DEF POpen
    <2>3. ChunksIn(queue) = 0 /\ Len(queue) = 0 /\ Len(delivered) = 0  BY <2>2 DEF ChunksIn
    <2> QED  BY <2>1, <2>2, <2>3
  <1>4. CASE PPull
    <2>1. UNCHANGED <<queue, delivered, after, cancel>> /\ ppc = "pull"  BY <1>4 DEF PPull
    <2>2. after = "pull"  BY <2>1 DEF TypeOK
    <2>3. \A i \in 1..Len(queue) : queue[i] = Len(delivered) + i  BY <2>1, <2>2
    <2>4. ChunksIn(queue) = Len(queue)  BY <2>3 DEF ChunksIn, Sentinel, TypeOK
    <2>5. made = Len(delivered) + Len(queue)  BY <2>1, <2>2
    <2>6. (ppc' = "check" /\ made' = made + 1) \/ (ppc' = "close" /\ made' = made)  BY <1>4 DEF PPull
    <2> QED  BY <2>1, <2>2, <2>3, <2>4, <2>5, <2>6
  <1>5. CASE ProducerStep
    <2>1. CASE PCheck \/ POffer
      <3>1. UNCHANGED <<queue, delivered, made, after, cancel>> /\ ppc \in {"check", "offer"}
            BY <2>1 DEF PCheck, POffer
      <3>2. (~cancel /\ ppc' \in {"offer", "put"} /\ (ppc = "check" => ppc' = "offer")
               /\ (ppc = "offer" => ppc' = "put"))
            \/ (cancel /\ ppc' = "close" /\ after = "pull")
            \/ (cancel /\ ppc' = "latched" /\ after # "pull")
            BY <2>1 DEF PCheck, POffer, TypeOK
      <3>3. ppc = "check" => after = "pull"  BY DEF TypeOK
      <3> QED  BY <3>1, <3>2, <3>3
    <2>2. CASE PPut  BY <2>2, PutOrder
    <2>3. CASE PLatched \/ PArm \/ PCall
      <3>1. UNCHANGED <<queue, delivered, made, after, cancel>>
              /\ ppc \in {"latched", "arm", "call"} /\ ppc' \in {"arm", "call", after}
            BY <2>3 DEF PLatched, PArm, PCall
      <3>2. after \in {"pull", "done", "exit"}  BY DEF TypeOK
      <3> QED  BY <3>1, <3>2
    <2>4. CASE PClose
          BY <2>4 DEF PClose
    <2>5. CASE PFinal
      <3>1. UNCHANGED <<queue, delivered, made, cancel>> /\ ppc = "final" /\ after' = "done"
              /\ ppc' \in {"done", "offer"}
            BY <2>5 DEF PFinal
      <3>2. after = "pull"  BY <3>1 DEF TypeOK
      <3>3. \A i \in 1..Len(queue) : queue[i] = Len(delivered) + i  BY <3>1, <3>2
      <3> QED  BY <3>1, <3>2, <3>3
    <2>6. CASE PDone
          BY <2>6 DEF PDone, TypeOK
    <2> QED  BY <1>5, <2>1, <2>2, <2>3, <2>4, <2>5, <2>6 DEF ProducerStep
  <1>6. CASE CDrain  BY <1>6, DrainOrder
  <1>7. CASE UNCHANGED <<producerVars, queue, delivered>> /\ (cancel' = cancel \/ cancel')
    <2>1. ChunksIn(queue') = ChunksIn(queue)  BY <1>7
    <2> QED  BY <1>7, <2>1
  <1>8. CASE ConsumerStep /\ ~CDrain
        BY <1>7, <1>8 DEF ConsumerStep, CResume, CBreathe, CDisarm, CRecheck, CIsDone, CWoken, CFinish
  <1>9. CASE CPollTimeout \/ CAbandon \/ LoopTick
        BY <1>7, <1>9 DEF CPollTimeout, CAbandon, LoopTick
  <1>10. CASE Finished \/ UNCHANGED vars  BY <1>7, <1>10 DEF Finished, vars
  <1> QED  BY <1>3, <1>4, <1>5, <1>6, <1>8, <1>9, <1>10 DEF Next

----------------------------------------------------------------------------
\* The inductive invariant of the two threads and the loop.
THEOREM Inductive == Spec => []IInv
  <1>1. IInv /\ [Next]_vars => IInv'
        BY TypeStep, PcStep, WakeStep, OrderStep DEF IInv
  <1> QED  BY <1>1, InitIInv, PTL DEF Spec

\* iter_stream_async keeps its types: the hand-off queue within its maximum
\* size, a batch within its limit.
THEOREM TypeCorrect == Spec => []TypeOK
  <1>1. IInv => TypeOK  BY DEF IInv
  <1> QED  BY <1>1, Inductive, PTL

\* The caller gets the upstream's chunks in order, none skipped or repeated.
THEOREM Fifo == Spec => []InOrder
  <1>1. IInv => InOrder
    <2> SUFFICES ASSUME IInv PROVE InOrder  OBVIOUS
    <2>1. TypeOK /\ QueueInv  BY DEF IInv
    <2>2. Len(queue) \in Nat  BY <2>1 DEF TypeOK
    <2>3. \A i \in 1..ChunksIn(queue) : /\ i \in 1..Len(queue)
                                         /\ ~(queue[i] = Sentinel /\ i = Len(queue))
          BY <2>2 DEF ChunksIn
    <2> QED  BY <2>1, <2>3 DEF InOrder, QueueInv
  <1> QED  BY <1>1, Inductive, PTL

\* While nobody cancels, the hand-off loses no chunk.
THEOREM NothingLost == Spec => []Conserved
  <1>1. IInv => Conserved  BY DEF IInv
  <1> QED  BY <1>1, Inductive, PTL

\* A coroutine asleep with something to collect has a wake-up under way.
THEOREM WakeupsKept == Spec => []NoLostWakeup
  <1>1. IInv => NoLostWakeup  BY DEF IInv, WakeInv, NoLostWakeup, Notified
  <1> QED  BY <1>1, Inductive, PTL

\* The worker never reports its end with the upstream still open.
THEOREM Released == Spec => []ReleasedAtExit
  <1>1. IInv => ReleasedAtExit  BY DEF IInv, PcInv, OpenInLoop, InLoop, ReleasedAtExit
  <1> QED  BY <1>1, Inductive, PTL

----------------------------------------------------------------------------
(* Endpoints.                                                               *)

\* The values; the flags are told apart from them.
Turns == [text : BOOLEAN, reasoning : BOOLEAN, toolStarted : BOOLEAN,
          toolDone : BOOLEAN, messageDone : BOOLEAN, ended : BOOLEAN]
Reqs == [endpoint : {"none", "chat", "completions", "messages", "responses", "images"},
         stream : BOOLEAN, image : {"no", "bridge", "explicit", "native"}, tools : BOOLEAN]

EType ==
    /\ pc \in {"streaming", "log", "record", "settle", "error_frame", "closing", "over"}
    /\ stage \in {"idle", "routed", "calling", "bridging", "booking", "failing", "refused",
                  "streaming", "over"}
    /\ path \in {"none", "success", "closed", "cancel", "fail", "rejected"}
    /\ todo \in {<<>>, LogFirst, RecordFirst, <<"log">>, <<"record">>}
    /\ turn \in Turns /\ req \in Reqs
    /\ toolOnly \in Nat /\ streak \in Nat /\ since \in Nat

Flags ==
    /\ fallbackUsed \in BOOLEAN /\ billed \in BOOLEAN /\ tracked \in BOOLEAN
    /\ row \in BOOLEAN /\ scope \in BOOLEAN
    /\ stopping \in BOOLEAN /\ cancelled \in BOOLEAN /\ dbFailed \in BOOLEAN /\ stripped \in BOOLEAN

\* Before the request has been answered.
Asking == {"routed", "calling", "bridging"}

\* Where a handler or a stream may be.
Places ==
    /\ stage = "streaming" <=> pc # "over"
    /\ stage \in {"idle"} \cup Asking \cup {"refused", "streaming"} => todo = <<>>
    /\ stage \notin {"streaming", "over"} => ~scope /\ ~cancelled
    /\ scope => cancelled
    /\ stage = "idle" => /\ req = Unread /\ path = "none" /\ turn = Silence
                         /\ ~row /\ ~dbFailed /\ ~stripped
    /\ stage \notin {"idle", "over"} => req.endpoint # "none"
    /\ stage \in Asking => \/ turn = Silence /\ path = "none"
                           \/ ~req.stream /\ path = "success" /\ turn = Answered(FALSE, FALSE) /\ dbFailed
    /\ stage = "routed" => req.endpoint = "responses"
    /\ stage = "calling" => req.image # "native"
    /\ stage = "bridging" => req.image = "bridge" /\ (req.stream => req.endpoint = "responses")
    /\ stage = "booking" => path = "success" /\ turn.ended
    /\ stage = "booking" /\ req.image = "native" =>
          turn = Answered(FALSE, FALSE) /\ ~req.stream /\ req.endpoint = "responses"
    /\ stage = "failing" => path = "fail"
    /\ stage = "refused" => path \in {"rejected", "fail"}
    /\ stage = "streaming" => req.stream /\ path \in {"success", "closed", "cancel", "fail"}
    /\ pc = "streaming" => path = "success" /\ ~turn.ended
    /\ pc \in {"log", "record", "settle"} /\ path = "success" => turn.ended
    /\ pc = "error_frame" => path = "fail"
    /\ path = "closed" => ClosedAfterOutput

\* What a user has been charged.
Charged ==
    usage # <<>> => /\ usage = <<Charge(path)>>
                    /\ stage \in {"streaming", "over"} /\ pc \in {"error_frame", "closing", "over"}
                    /\ path \in {"success", "closed"} => turn.ended \/ turn.messageDone \/ turn.toolDone

\* Before the counters.
Uncounted == stage \notin {"streaming", "over"} \/ pc \in {"streaming", "log", "record", "settle"}

\* The counters and the closing frames.
Once ==
    ~dbFailed =>
        /\ counted \in {<<>>, <<Status(path)>>} /\ frames \in {<<>>, <<"done">>, <<"error">>}
        /\ Uncounted => counted = <<>>
        /\ stage \notin {"streaming", "over"} => frames = <<>>
        /\ pc = "streaming" => frames = <<>>
        /\ path = "fail" /\ pc \in {"log", "record", "settle", "error_frame"} => frames = <<>>

\* The ledgers before and after the entry of a request.
Begun == IF row THEN <<"running">> ELSE <<>>
Entry == <<Status(path)>>
RowLeft == req.image = "bridge" /\ (req.stream => req.endpoint = "responses")
LeftBefore == logs = <<>> \/ (logs = <<"running">> /\ RowLeft)
LeftAfter == logs = Entry \/ (logs = <<"running", Status(path)>> /\ RowLeft)
Due(ledger) == todo \in {LogFirst, RecordFirst, <<ledger>>}
Usage == IF billed /\ req.endpoint # "none" THEN <<Charge(path)>> ELSE <<>>

Entered ==
    ~dbFailed /\ ~cancelled =>
        /\ stage \in {"idle", "routed", "calling"} => records = <<>> /\ logs = <<>> /\ ~row
        /\ stage = "bridging" => records = <<>> /\ logs = <<"running">> /\ ~row
        /\ stage = "booking" => /\ records = IF Due("record") THEN <<>> ELSE Entry
                                /\ logs = IF Due("log") THEN Begun ELSE Entry
        /\ stage = "failing" => /\ records = IF Due("record") THEN <<>> ELSE Entry
                                /\ IF Due("log") THEN LeftBefore ELSE LeftAfter
                                /\ ~row
        /\ stage = "refused" => records = <<>> /\ LeftBefore
        /\ pc \in {"streaming", "log"} => records = <<>> /\ logs = Begun
        /\ pc = "record" => records = Entry /\ logs = Begun
        /\ pc = "settle" => records = Entry /\ logs = Entry
        /\ pc \in {"error_frame", "closing"} =>
              records = Entry /\ logs = Entry /\ counted = Entry /\ usage = Usage
        /\ stage = "over" =>
              \/ path = "none" /\ ledgers = << <<>>, <<>>, <<>>, <<>> >>
              \/ /\ path # "none" /\ records = Entry /\ counted = Entry /\ usage = Usage
                 /\ logs = Entry \/ (LeftAfter /\ path \in {"rejected", "fail"})

\* The breaker: before the turn has been counted, and what the next turn makes of it.
Before == streak <= toolOnly /\ toolOnly <= since
OnlyTools == turn.toolStarted /\ ~turn.text
Numbered == IF OnlyTools THEN streak + 1 <= toolOnly /\ toolOnly <= since + 1 ELSE toolOnly = 0
NextStreak == IF EndedWell /\ OnlyTools THEN streak + 1 ELSE 0
NextSince == IF EndedWell /\ turn.text THEN 0 ELSE IF Told /\ OnlyTools THEN since + 1 ELSE since
Ahead == NextStreak <= toolOnly /\ toolOnly <= NextSince

Breaker ==
    /\ stripped => since >= Limit
    /\ stage \in {"idle"} \cup Asking => Before
    /\ stage = "booking" /\ req.image = "native" => Before
    /\ stage \in {"booking", "failing", "refused", "over"} => Ahead
    /\ stage = "calling" /\ req.endpoint \in {"chat", "responses"} /\ req.tools /\ streak >= Limit => stripped
    /\ stage = "streaming" =>
          /\ tracked <=> req.endpoint \in {"chat", "responses"}
          /\ ~tracked => Before
          /\ tracked => \/ IF turn.messageDone \/ turn.ended THEN Numbered ELSE Before
                        \/ path # "success" /\ toolOnly = 0

----------------------------------------------------------------------------
(* The steps of a handler, by what they do to the invariant.                *)

\* A request is read.
Reads ==
    /\ stage = "idle" /\ stage' \in {"routed", "calling"}
    /\ req' \in Reqs /\ req'.endpoint # "none" /\ req'.image # "native"
    /\ stage' = "routed" => req'.endpoint = "responses"
    /\ stripped' = stripped \/ stripped' = Strips(req'.tools)
    /\ stage' = "calling" /\ req'.endpoint = "chat" => stripped' = Strips(req'.tools)
    /\ stage' = "calling" => req'.endpoint # "responses"
    /\ UNCHANGED <<calm, turn, path, row, ledgers, toolOnly, cancelled, dbFailed, todo>>

\* Nothing is entered any more, or a native stream takes over.
Leaves ==
    /\ stage \in {"idle", "routed", "calling"} /\ stage' = "over"
    /\ UNCHANGED <<calm, turn, path, row, ledgers, toolOnly, cancelled, dbFailed, todo, req, stripped>>

\* A request is turned away and entered.
Refuses ==
    /\ stage = "idle" /\ req' \in Reqs
    /\ \E known \in BOOLEAN : Refused(known) /\ (known <=> req'.endpoint # "none")

\* The model is asked after /responses has looked for something else.
AsksModel ==
    /\ stage = "routed" /\ stage' = "calling"
    /\ stripped' = Strips(req.tools)
    /\ req' \in {req, [req EXCEPT !.image = "no"]} /\ req'.image # "native"
    /\ UNCHANGED <<calm, turn, path, row, ledgers, toolOnly, cancelled, dbFailed, todo>>

\* The answer is streamed.
BeginsStream ==
    /\ stage = "calling" /\ req.stream /\ stage' = "streaming"
    /\ BeginStream(req.endpoint \in {"chat", "responses"})
    /\ UNCHANGED <<req, todo, stripped, streak, since, turns>>

\* An answer that the breaker does not hear of.
AnswersUnheard ==
    /\ stage \in {"routed", "calling"}
    /\ \E x, t \in BOOLEAN, p \in {"success", "fail"}, order \in {LogFirst, RecordFirst} :
          /\ Enters(Answered(x, t), p, order)
          /\ \/ req' = req /\ (~Told \/ (~x /\ ~t)) /\ req.image # "native"
             \/ req' = [req EXCEPT !.image = "native"] /\ ~x /\ ~t /\ ~req.stream /\ req.endpoint = "responses"
    /\ UNCHANGED <<row, toolOnly, stripped>>

\* An answer that the breaker hears of.
AnswersHeard ==
    /\ stage = "calling" /\ Told /\ ~req.stream /\ req.image # "native"
    /\ \E x, t \in BOOLEAN, order \in {LogFirst, RecordFirst} :
          Enters(Answered(x, t), "success", order) /\ Counts(Answered(x, t))
    /\ UNCHANGED <<row, req, stripped>>

\* The upstream has failed.
RaisesSome == stage \in Asking /\ Raises({"rejected", "fail"})

\* Each action of the endpoints is one of these moves.
LEMMA ReadsIs ==
    ASSUME EType, Places, ChatEnters \/ CompletionsEnter \/ MessagesEnter \/ ResponsesEnter \/ Images
    PROVE  Reads
<1>1. PICK e \in {"chat", "completions", "messages", "responses", "images"}, s \in BOOLEAN,
           i \in {"no", "bridge", "explicit"}, t \in BOOLEAN : Asks(e, s, i, t)
    BY DEF ChatEnters, CompletionsEnter, MessagesEnter, ResponsesEnter, Images
<1>2. req' \in Reqs
    BY <1>1, Zenon DEF Asks, Reqs
<1>3. req'.endpoint = e /\ req'.image = i /\ req'.tools = t
    BY <1>1 DEF Asks
<1>4. CASE ChatEnters
    BY <1>2, <1>4 DEF ChatEnters, Asks, Goes, Reads
<1>5. CASE CompletionsEnter \/ MessagesEnter \/ Images
    BY <1>2, <1>5 DEF CompletionsEnter, MessagesEnter, Images, Asks, Goes, Reads
<1>6. CASE ResponsesEnter
    BY <1>2, <1>6 DEF ResponsesEnter, Asks, Goes, Reads
<1> QED
    BY <1>4, <1>5, <1>6

LEMMA RefusesIs ==
    ASSUME EType, Places, RefuseUnread \/ RefuseModel
    PROVE  Refuses
<1>1. CASE RefuseUnread
  <2>1. req' \in Reqs /\ req'.endpoint = "none" /\ Refused(FALSE) /\ stage = "idle"
    <3>1. stage = "idle" /\ Refused(FALSE) /\ req' = req
        BY <1>1 DEF RefuseUnread
    <3>2. req = Unread
        BY <3>1 DEF Places
    <3> QED
        BY <3>1, <3>2 DEF EType, Unread
  <2>2. FALSE <=> req'.endpoint # "none"
      BY <2>1
  <2> QED
      BY <2>1, <2>2 DEF Refuses
<1>2. CASE RefuseModel
  <2>1. PICK e \in {"chat", "completions", "messages", "responses"} : req' = [Unread EXCEPT !.endpoint = e]
      BY <1>2 DEF RefuseModel
  <2>2. req' = [endpoint |-> e, stream |-> FALSE, image |-> "no", tools |-> FALSE]
      BY <2>1 DEF Unread
  <2>3. req' \in Reqs /\ req'.endpoint # "none"
      BY <2>2 DEF Reqs
  <2> QED
      BY <1>2, <2>3 DEF RefuseModel, Refuses
<1> QED
    BY <1>1, <1>2

LEMMA StreamsIs ==
    ASSUME EType, Places, NEW c \in BOOLEAN, Streams(c), req.stream, stage = "calling", c <=> req.endpoint \in {"chat", "responses"}
    PROVE  BeginsStream \/ Leaves
BY DEF Streams, BeginsStream, BeginStream, Goes, Leaves

LEMMA AnswersIs ==
    ASSUME EType, Places, ChatPassesThrough \/ CompletionsAnswer \/ MessagesAnswer \/ ExplicitImages \/ ImagesAnswer
                          \/ (ResponsesPassThrough /\ ~req.stream) \/ NativeServes
    PROVE  AnswersUnheard \/ Leaves
<1>1. CASE ChatPassesThrough
    BY <1>1 DEF ChatPassesThrough, Calling, AnswersUnheard, Told, Plain
<1>2. CASE CompletionsAnswer \/ MessagesAnswer
    BY <1>2 DEF CompletionsAnswer, MessagesAnswer, Calling, AnswersUnheard, Told, Places
<1>3. CASE ExplicitImages
    BY <1>3 DEF ExplicitImages, Routed, Goes, AnswersUnheard, Leaves
<1>4. CASE ImagesAnswer
    BY <1>4 DEF ImagesAnswer, Calling, AnswersUnheard, Places
<1>5. CASE ResponsesPassThrough /\ ~req.stream
    BY <1>5 DEF ResponsesPassThrough, Calling, AnswersUnheard, Told, Plain
<1>6. CASE NativeServes
    BY <1>6 DEF NativeServes, Routed, Goes, AnswersUnheard, Leaves
<1> QED
    BY <1>1, <1>2, <1>3, <1>4, <1>5, <1>6

LEMMA HeardIs ==
    ASSUME EType, Places, ChatAnswers \/ ResponsesAnswer
    PROVE  AnswersHeard
BY DEF ChatAnswers, ResponsesAnswer, Calling, AnswersHeard, Told, Plain, Places

LEMMA RaisesIs ==
    ASSUME EType, Places, ChatRaises \/ CompletionsRaise \/ MessagesRaise \/ ResponsesRaise
    PROVE  RaisesSome
BY DEF ChatRaises, CompletionsRaise, MessagesRaise, ResponsesRaise, Calling, RaisesSome, Raises, Asking

LEMMA AsksModelIs ==
    ASSUME EType, Places, ResponsesBridge \/ ResponsesTranslated
    PROVE  AsksModel
BY DEF EType, Reqs, ResponsesBridge, ResponsesTranslated, Routed, Goes, AsksModel

\* What the policy does to the tools, and the turns the operators make.
LEMMA StripsIs ==
    ASSUME NEW t, stripped' = Strips(t)
    PROVE  stripped' <=> (t /\ toolOnly >= Limit)
BY Zenon DEF Strips

LEMMA AnsweredIs ==
    ASSUME NEW x \in BOOLEAN, NEW t \in BOOLEAN, NEW a, a = Answered(x, t)
    PROVE  /\ a \in Turns /\ a.text = x /\ a.toolStarted = t /\ a.ended = TRUE
           /\ a.reasoning = FALSE /\ a.toolDone = FALSE /\ a.messageDone = FALSE
<1>1. a = [text |-> x, reasoning |-> FALSE, toolStarted |-> t, toolDone |-> FALSE, messageDone |-> FALSE, ended |-> TRUE]
    BY DEF Answered, Silence
<1>2. x \in BOOLEAN /\ t \in BOOLEAN /\ TRUE \in BOOLEAN /\ FALSE \in BOOLEAN
    OBVIOUS
<1>3. a \in Turns
    BY <1>1, <1>2, SMT DEF Turns
<1> QED
    BY <1>1, <1>3

LEMMA SilenceIs ==
    /\ Silence \in Turns /\ Silence.text = FALSE /\ Silence.toolStarted = FALSE /\ Silence.ended = FALSE
    /\ Silence.reasoning = FALSE /\ Silence.toolDone = FALSE /\ Silence.messageDone = FALSE
<1>1. Silence \in Turns
    BY Zenon DEF Silence, Turns
<1> QED
    BY <1>1 DEF Silence

\* The invariant.
EndpointsInv == EType /\ Flags /\ Places /\ Charged /\ Once /\ Entered /\ Breaker

\* The moves keep the invariant.
LEMMA ReadsKeeps ==
    ASSUME EndpointsInv, Reads
    PROVE  EndpointsInv'
<1>1. EType'
    BY DEF EndpointsInv, Reads, EType, calm
<1>2. Flags'
  <2>1. Strips(req'.tools) \in BOOLEAN
      BY DEF Reads, Reqs, Strips
  <2> QED
      BY <2>1 DEF EndpointsInv, Reads, Flags, calm, settings
<1>3. Places'
    BY DEF EndpointsInv, Reads, Places, Asking, calm, settings, Unread, Answered, Silence,
           ClosedAfterOutput
<1>4. Charged'
    BY DEF EndpointsInv, Reads, Charged, Charge, Status, Places, calm, settings, ledgers
<1>5. Once'
    BY DEF EndpointsInv, Reads, Once, Uncounted, Status, Places, calm, settings, ledgers
<1>6. Entered'
    BY DEF EndpointsInv, Reads, Entered, Places, calm, settings, ledgers
<1>7. Breaker'
  <2>1. Before /\ UNCHANGED <<toolOnly, streak, since>> /\ toolOnly \in Nat /\ streak \in Nat /\ since \in Nat
      BY DEF EndpointsInv, Reads, Breaker, EType, calm
  <2>2. stage' \in {"routed", "calling"}
      BY DEF Reads
  <2>3. ~stripped
      BY DEF EndpointsInv, Places, Reads
  <2>4. \/ ~stripped'
        \/ stripped' <=> (req'.tools /\ toolOnly >= Limit)
      BY <2>3, StripsIs DEF Reads
  <2>5. stage' = "calling" /\ req'.endpoint \in {"chat", "responses"} =>
           (stripped' <=> (req'.tools /\ toolOnly >= Limit))
      BY StripsIs DEF Reads
  <2> QED
      BY <2>1, <2>2, <2>4, <2>5, EndpointsAssumption DEF Breaker, Before
<1> QED
    BY <1>1, <1>2, <1>3, <1>4, <1>5, <1>6, <1>7 DEF EndpointsInv

LEMMA LeavesKeeps ==
    ASSUME EndpointsInv, Leaves
    PROVE  EndpointsInv'
<1>1. EType'
    BY DEF EndpointsInv, Leaves, EType, calm
<1>2. Flags'
    BY DEF EndpointsInv, Leaves, Flags, calm, settings
<1>3. Places'
    BY DEF EndpointsInv, Leaves, Places, Asking, calm, settings, Answered, Silence, ClosedAfterOutput
<1>4. Charged'
    BY DEF EndpointsInv, Leaves, Charged, Charge, Status, Places, calm, settings, ledgers
<1>5. Once'
    BY DEF EndpointsInv, Leaves, Once, Uncounted, Status, Places, calm, settings, ledgers
<1>6. Entered'
    BY DEF EndpointsInv, Leaves, Entered, Places, calm, settings, ledgers, Asking, Charged, Once,
           Uncounted
<1>7. Breaker'
  <2>1. Before /\ turn.text = FALSE /\ turn.toolStarted = FALSE
      BY SilenceIs, AnsweredIs DEF EndpointsInv, Leaves, Breaker, Places, Asking
  <2> QED
      BY <2>1 DEF EndpointsInv, Leaves, Breaker, Before, Ahead, NextStreak, NextSince, OnlyTools,
             EType, Asking, calm, settings
<1> QED
    BY <1>1, <1>2, <1>3, <1>4, <1>5, <1>6, <1>7 DEF EndpointsInv

\* The first entry of a ledger.
LEMMA FirstEntry ==
    ASSUME NEW s, s = <<>>, NEW v
    PROVE  Append(s, v) = <<v>>
OBVIOUS

LEMMA RefusesKeeps ==
    ASSUME EndpointsInv, Refuses
    PROVE  EndpointsInv'
<1>0. PICK known \in BOOLEAN : Refused(known) /\ req' \in Reqs /\ (known <=> req'.endpoint # "none")
    BY DEF Refuses
<1>1. EType'
    BY <1>0 DEF EndpointsInv, Refuses, Refused, EType, calm
<1>2. Flags'
  <2>1. dbFailed' \in BOOLEAN
      BY <1>0, Zenon DEF EndpointsInv, Flags, Refused, AllAt, CountedWell, CountedInPart, Fails
  <2> QED
      BY <1>0, <2>1 DEF EndpointsInv, Flags, Refused, calm, settings
<1>3. Places'
    BY <1>0 DEF EndpointsInv, Refuses, Refused, Places, Asking, calm, settings, Answered, Silence,
           ClosedAfterOutput
<1>4. Charged'
  <2>1. usage = <<>> /\ pc' = "over" /\ stage' = "over" /\ path' = "rejected"
      BY <1>0 DEF EndpointsInv, Refuses, Refused, Charged, Places, calm
  <2>2. usage' = <<>> \/ usage' = <<Charge("rejected")>>
      BY <1>0, <2>1, FirstEntry DEF Refused, AllAt, CountedWell, CountedInPart
  <2>3. Charge("rejected")' = Charge("rejected")
      BY <1>0 DEF Refused, calm, settings, Charge, Status
  <2> QED
      BY <2>1, <2>2, <2>3 DEF Charged
<1>5. Once'
    BY <1>0 DEF EndpointsInv, Refuses, Refused, AllAt, CountedWell, CountedInPart, Fails, Once,
           Uncounted, Status, Places, calm, settings
<1>6. Entered'
  <2> SUFFICES ASSUME ~dbFailed'
      PROVE    Entered'
      BY DEF Entered
  <2>1. ~dbFailed /\ ~cancelled /\ stage = "idle" /\ pc = "over"
      BY <1>0 DEF EndpointsInv, Refuses, Places
  <2>2. records = <<>> /\ logs = <<>> /\ counted = <<>> /\ usage = <<>>
      BY <2>1 DEF EndpointsInv, Entered, Once, Uncounted, Charged
  <2>3. pc' = "over" /\ stage' = "over" /\ path' = "rejected" /\ UNCHANGED <<billed, fallbackUsed>>
      BY <1>0, <2>1 DEF Refused, calm, settings
  <2>4. /\ records' = Append(records, Status("rejected")) /\ logs' = Append(logs, Status("rejected"))
        /\ CountedWell("rejected", known)
      BY <1>0 DEF Refused, AllAt, CountedInPart, Fails
  <2>5. records' = Entry' /\ logs' = Entry' /\ counted' = Entry'
      BY <2>2, <2>3, <2>4, FirstEntry DEF CountedWell, Entry, Status
  <2>6. usage' = Usage'
    <3>1. usage' = IF billed /\ known THEN <<Charge("rejected")>> ELSE <<>>
        BY <2>2, <2>4, FirstEntry DEF CountedWell, Known
    <3>2. Charge("rejected")' = Charge("rejected")
        BY <2>3 DEF Charge, Status
    <3> QED
        BY <1>0, <2>3, <3>1, <3>2 DEF Usage
  <2> QED
      BY <2>3, <2>5, <2>6 DEF Entered
<1>7. Breaker'
  <2>1. Before /\ turn.text = FALSE /\ turn.toolStarted = FALSE
      BY SilenceIs DEF EndpointsInv, Refuses, Breaker, Places
  <2> QED
      BY <1>0, <2>1 DEF EndpointsInv, Refuses, Refused, Breaker, Before, Ahead, NextStreak,
             NextSince, OnlyTools, EType, Asking, calm, settings
<1> QED
    BY <1>1, <1>2, <1>3, <1>4, <1>5, <1>6, <1>7 DEF EndpointsInv

LEMMA AsksModelKeeps ==
    ASSUME EndpointsInv, AsksModel
    PROVE  EndpointsInv'
<1>0. req' \in Reqs /\ req'.endpoint = req.endpoint /\ req'.stream = req.stream /\ req'.tools = req.tools /\ req'.image \in {"no", req.image}
    BY DEF EndpointsInv, EType, AsksModel, Reqs
<1>1. EType'
    BY <1>0 DEF EndpointsInv, AsksModel, EType, calm
<1>2. Flags'
  <2>1. Strips(req.tools) \in BOOLEAN
      BY DEF EndpointsInv, EType, Reqs, Strips
  <2> QED
      BY <2>1 DEF EndpointsInv, AsksModel, Flags, calm, settings
<1>3. Places'
  <2>1. (turn = Silence /\ path = "none") \/ (~req.stream /\ path = "success" /\ turn = Answered(FALSE, FALSE) /\ dbFailed)
      BY DEF EndpointsInv, AsksModel, Places, Asking
  <2>2. Answered(FALSE, FALSE)' = Answered(FALSE, FALSE)
      BY DEF Answered, Silence
  <2> QED
    BY <1>0, <2>1, <2>2 DEF EndpointsInv, AsksModel, Places, Asking, calm, settings, Answered,
           Silence, ClosedAfterOutput
<1>4. Charged'
    BY DEF EndpointsInv, AsksModel, Charged, Charge, Status, Places, calm, settings, ledgers
<1>5. Once'
    BY DEF EndpointsInv, AsksModel, Once, Uncounted, Status, Places, calm, settings, ledgers
<1>6. Entered'
    BY DEF EndpointsInv, AsksModel, Entered, Places, calm, settings, ledgers
<1>7. Breaker'
  <2>1. Before /\ UNCHANGED <<toolOnly, streak, since>> /\ toolOnly \in Nat /\ streak \in Nat /\ since \in Nat
      BY DEF EndpointsInv, AsksModel, Breaker, EType, calm, Asking
  <2>2. stripped' <=> (req'.tools /\ toolOnly >= Limit)
      BY <1>0, StripsIs DEF AsksModel
  <2> QED
      BY <1>0, <2>1, <2>2, EndpointsAssumption DEF Breaker, Before, AsksModel
<1> QED
    BY <1>1, <1>2, <1>3, <1>4, <1>5, <1>6, <1>7 DEF EndpointsInv

LEMMA BeginsStreamKeeps ==
    ASSUME EndpointsInv, BeginsStream
    PROVE  EndpointsInv'
<1>1. EType'
    BY DEF EndpointsInv, BeginsStream, BeginStream, EType
<1>2. Flags'
  <2>1. tracked' \in BOOLEAN
      BY DEF BeginsStream, BeginStream
  <2> QED
      BY <2>1 DEF EndpointsInv, BeginsStream, BeginStream, Flags
<1>3. Places'
    BY DEF EndpointsInv, BeginsStream, BeginStream, Places, Asking, Answered, Silence, ClosedAfterOutput
<1>4. Charged'
    BY DEF EndpointsInv, BeginsStream, BeginStream, Charged, ledgers
<1>5. Once'
    BY DEF EndpointsInv, BeginsStream, BeginStream, Once, Uncounted, Status, Places, ledgers
<1>6. Entered'
    BY DEF EndpointsInv, BeginsStream, BeginStream, Entered, Begun, Places, ledgers
<1>7. Breaker'
  <2>1. Before /\ turn.messageDone = FALSE /\ turn.ended = FALSE
      BY SilenceIs DEF EndpointsInv, BeginsStream, Breaker, Places, Asking
  <2> QED
      BY <2>1 DEF EndpointsInv, BeginsStream, BeginStream, Breaker, Before, EType, Asking
<1> QED
    BY <1>1, <1>2, <1>3, <1>4, <1>5, <1>6, <1>7 DEF EndpointsInv

LEMMA AnswersUnheardKeeps ==
    ASSUME EndpointsInv, AnswersUnheard
    PROVE  EndpointsInv'
<1>0. PICK x \in BOOLEAN, t \in BOOLEAN, p \in {"success", "fail"}, order \in {LogFirst, RecordFirst} :
          /\ Enters(Answered(x, t), p, order)
          /\ \/ req' = req /\ (~Told \/ (~x /\ ~t)) /\ req.image # "native"
             \/ req' = [req EXCEPT !.image = "native"] /\ ~x /\ ~t /\ ~req.stream /\ req.endpoint = "responses"
    BY DEF AnswersUnheard
<1>a. /\ stage \in {"routed", "calling"} /\ UNCHANGED <<calm, row, toolOnly, stripped, ledgers, cancelled, dbFailed>>
      /\ turn' = Answered(x, t) /\ path' = p /\ todo' = order /\ order \in {LogFirst, RecordFirst}
      /\ stage' = IF p = "success" THEN "booking" ELSE "failing"
    BY <1>0 DEF AnswersUnheard, Enters
<1>b. turn' \in Turns /\ turn'.text = x /\ turn'.toolStarted = t /\ turn'.ended = TRUE
    BY <1>a, AnsweredIs
<1>c. /\ req' \in Reqs /\ req'.endpoint = req.endpoint /\ req'.stream = req.stream
      /\ req'.image = "native" => ~x /\ ~t /\ ~req.stream /\ req.endpoint = "responses"
    BY <1>0 DEF EndpointsInv, EType, Reqs
<1>1. EType'
    BY <1>a, <1>b, <1>c DEF EndpointsInv, EType, calm
<1>2. Flags'
    BY <1>a DEF EndpointsInv, Flags, calm, settings
<1>3. Places'
  <2>1. req'.image = "native" => turn' = Answered(FALSE, FALSE)
    <3> SUFFICES ASSUME req'.image = "native"
        PROVE    turn' = Answered(FALSE, FALSE)
        OBVIOUS
    <3>1. x = FALSE /\ t = FALSE
        BY <1>c
    <3>2. Answered(x, t) = Answered(FALSE, FALSE)
        BY <3>1, Zenon
    <3> QED
        BY <1>a, <3>2
  <2> QED
      BY <1>a, <1>b, <1>c, <2>1 DEF EndpointsInv, Places, Asking, calm
<1>4. Charged'
    BY <1>a DEF EndpointsInv, Charged, Places, ledgers
<1>5. Once'
    BY <1>a DEF EndpointsInv, Once, Uncounted, Places, calm, settings, ledgers
<1>6. Entered'
    BY <1>a DEF EndpointsInv, Entered, Due, LogFirst, RecordFirst, Begun, LeftBefore, Places, calm,
           settings, ledgers
<1>7. Breaker'
  <2>1. Before /\ Before'
      BY <1>a DEF EndpointsInv, Breaker, Asking, Before, calm
  <2>2. (Told' => ~x /\ ~t) /\ turn'.text = x /\ turn'.toolStarted = t
      BY <1>0, <1>b, <1>c DEF Told, Plain
  <2>3. Ahead'
      BY <2>1, <2>2, <1>a DEF EndpointsInv, EType, Before, Ahead, NextStreak, NextSince, OnlyTools,
             EndedWell, calm
  <2> QED
      BY <1>a, <2>1, <2>3 DEF EndpointsInv, Breaker, Asking, calm
<1> QED
    BY <1>1, <1>2, <1>3, <1>4, <1>5, <1>6, <1>7 DEF EndpointsInv

LEMMA AnswersHeardKeeps ==
    ASSUME EndpointsInv, AnswersHeard
    PROVE  EndpointsInv'
<1>0. PICK x \in BOOLEAN, t \in BOOLEAN, order \in {LogFirst, RecordFirst} :
          Enters(Answered(x, t), "success", order) /\ Counts(Answered(x, t))
    BY DEF AnswersHeard
<1>a. /\ stage = "calling" /\ UNCHANGED <<calm, row, req, stripped, ledgers, cancelled, dbFailed>>
      /\ turn' = Answered(x, t) /\ path' = "success" /\ todo' = order /\ order \in {LogFirst, RecordFirst}
      /\ stage' = "booking" /\ Told /\ ~req.stream /\ req.image # "native"
    BY <1>0 DEF AnswersHeard, Enters
<1>b. turn' \in Turns /\ turn'.text = x /\ turn'.toolStarted = t /\ turn'.ended = TRUE
    BY <1>a, AnsweredIs
<1>c. toolOnly' = IF t /\ ~x THEN toolOnly + 1 ELSE 0
    BY <1>0, AnsweredIs DEF Counts
<1>1. EType'
    BY <1>a, <1>b, <1>c DEF EndpointsInv, EType, calm
<1>2. Flags'
    BY <1>a DEF EndpointsInv, Flags, calm, settings
<1>3. Places'
    BY <1>a, <1>b DEF EndpointsInv, Places, Asking, calm
<1>4. Charged'
    BY <1>a DEF EndpointsInv, Charged, Places, ledgers
<1>5. Once'
    BY <1>a DEF EndpointsInv, Once, Uncounted, Places, calm, settings, ledgers
<1>6. Entered'
    BY <1>a DEF EndpointsInv, Entered, Due, LogFirst, RecordFirst, Begun, LeftBefore, Places, calm,
           settings, ledgers
<1>7. Breaker'
  <2>1. Before
      BY <1>a DEF EndpointsInv, Breaker, Asking
  <2>2. Told'
      BY <1>a DEF Told, Plain
  <2>3. Ahead'
      BY <2>1, <2>2, <1>a, <1>b, <1>c DEF EndpointsInv, EType, Before, Ahead, NextStreak,
             NextSince, OnlyTools, EndedWell, calm
  <2> QED
      BY <1>a, <2>3 DEF EndpointsInv, Breaker, Asking, calm
<1> QED
    BY <1>1, <1>2, <1>3, <1>4, <1>5, <1>6, <1>7 DEF EndpointsInv

LEMMA RaisesSomeKeeps ==
    ASSUME EndpointsInv, RaisesSome
    PROVE  EndpointsInv'
<1>a. /\ stage \in Asking /\ UNCHANGED <<calm, turn, row, ledgers, toolOnly, cancelled, dbFailed, req, stripped>>
      /\ \/ stage' = "refused" /\ path' \in {"rejected", "fail"} /\ todo' = todo
         \/ stage' = "failing" /\ path' = "fail" /\ todo' = RecordFirst
    BY DEF RaisesSome, Raises, Enters
<1>1. EType'
    BY <1>a DEF EndpointsInv, EType, calm
<1>2. Flags'
    BY <1>a DEF EndpointsInv, Flags, calm, settings
<1>3. Places'
    BY <1>a DEF EndpointsInv, Places, Asking, calm
<1>4. Charged'
    BY <1>a DEF EndpointsInv, Charged, Places, Asking, ledgers
<1>5. Once'
    BY <1>a DEF EndpointsInv, Once, Uncounted, Places, Asking, calm, settings, ledgers
<1>6. Entered'
    BY <1>a DEF EndpointsInv, Entered, Due, LogFirst, RecordFirst, LeftBefore, RowLeft, Places,
           Asking, calm, settings, ledgers
<1>7. Breaker'
  <2>1. Before
      BY <1>a DEF EndpointsInv, Breaker, Asking
  <2>2. turn'.text = FALSE /\ turn'.toolStarted = FALSE
      BY <1>a, SilenceIs, AnsweredIs DEF EndpointsInv, Places
  <2>3. Ahead'
      BY <2>1, <2>2, <1>a DEF EndpointsInv, EType, Before, Ahead, NextStreak, NextSince, OnlyTools,
             EndedWell, calm
  <2> QED
      BY <1>a, <2>3 DEF EndpointsInv, Breaker, Asking, calm
<1> QED
    BY <1>1, <1>2, <1>3, <1>4, <1>5, <1>6, <1>7 DEF EndpointsInv

\* The image bridge, in an answer and in a stream.
LEMMA BridgeBeginsKeeps ==
    ASSUME EndpointsInv, BridgeBegins
    PROVE  EndpointsInv'
<1>a. /\ stage = "calling" /\ stage' = "bridging" /\ req.image = "bridge" /\ (~req.stream \/ req.endpoint = "responses")
      /\ UNCHANGED <<calm, turn, path, todo, row, records, counted, usage, toolOnly, cancelled, req, stripped>>
      /\ \/ logs' = Append(logs, "running") /\ dbFailed' = dbFailed
         \/ logs' = logs /\ dbFailed' = TRUE
    BY DEF BridgeBegins, Works, Fails
<1>b. \/ dbFailed' = dbFailed /\ logs' = Append(logs, "running")
      \/ dbFailed' = TRUE
    BY <1>a
<1>d. (dbFailed => dbFailed') /\ (~dbFailed' => logs' = Append(logs, "running"))
  <2>1. CASE dbFailed' = dbFailed /\ logs' = Append(logs, "running")
      BY <2>1
  <2>2. CASE dbFailed' = TRUE
      BY <2>2
  <2> QED
      BY <1>b, <2>1, <2>2
<1>e. (turn = Silence /\ path = "none") \/ (~req.stream /\ path = "success" /\ turn = Answered(FALSE, FALSE) /\ dbFailed)
    BY <1>a DEF EndpointsInv, Places, Asking
<1>1. EType'
    BY <1>a DEF EndpointsInv, EType, calm
<1>2. Flags'
  <2>1. dbFailed' \in BOOLEAN
      BY <1>a, Zenon DEF EndpointsInv, Flags
  <2> QED
      BY <1>a, <2>1 DEF EndpointsInv, Flags, calm, settings
<1>3. Places'
  <2>1. stage' = "bridging" /\ stage' \in Asking /\ pc' = "over"
    BY <1>a DEF EndpointsInv, Places, Asking, calm
  <2>2. ((turn = Silence /\ path = "none") \/ (~req.stream /\ path = "success" /\ turn = Answered(FALSE, FALSE) /\ dbFailed))'
    BY <1>a, <1>d, <1>e
  <2>3. ~scope /\ ~cancelled /\ todo = <<>> /\ req.endpoint # "none" /\ (path = "closed" => ClosedAfterOutput)
    BY <1>a DEF EndpointsInv, Places, Asking, calm
  <2> QED
    BY <1>a, <2>1, <2>2, <2>3 DEF Places, Asking, calm, ClosedAfterOutput
<1>4. Charged'
    BY <1>a DEF EndpointsInv, Charged, Places, Asking
<1>5. Once'
    BY <1>a DEF EndpointsInv, Once, Uncounted, Places, Asking, calm, settings, Status
<1>6. Entered'
    BY <1>a, <1>d, FirstEntry DEF EndpointsInv, Entered, Places, Asking, calm, settings
<1>7. Breaker'
    BY <1>a DEF EndpointsInv, Breaker, Before, Asking, calm
<1> QED
    BY <1>1, <1>2, <1>3, <1>4, <1>5, <1>6, <1>7 DEF EndpointsInv

LEMMA BridgeAnswersKeeps ==
    ASSUME EndpointsInv, BridgeAnswers, req.endpoint \in {"chat", "responses"}
    PROVE  EndpointsInv'
<1>a. /\ stage = "bridging" /\ stage' = "booking" /\ turn' = Answered(FALSE, FALSE) /\ path' = "success" /\ todo' = RecordFirst
      /\ row' = ("running" \in {logs[i] : i \in DOMAIN logs})
      /\ UNCHANGED <<calm, ledgers, cancelled, dbFailed, toolOnly, req, stripped>>
    BY DEF BridgeAnswers, Enters
<1>b. turn' \in Turns /\ turn'.text = FALSE /\ turn'.toolStarted = FALSE /\ turn'.ended = TRUE
    BY <1>a, AnsweredIs
<1>c. req.image = "bridge"
    BY <1>a DEF EndpointsInv, Places
<1>1. EType'
    BY <1>a, <1>b DEF EndpointsInv, EType, calm
<1>2. Flags'
  <2>1. row' \in BOOLEAN
      BY <1>a
  <2> QED
      BY <1>a, <2>1 DEF EndpointsInv, Flags, calm, settings
<1>3. Places'
    BY <1>a, <1>b, <1>c DEF EndpointsInv, Places, Asking, calm
<1>4. Charged'
    BY <1>a DEF EndpointsInv, Charged, Places, Asking, ledgers
<1>5. Once'
    BY <1>a DEF EndpointsInv, Once, Uncounted, Places, Asking, calm, settings, Status, ledgers
<1>6. Entered'
  <2> SUFFICES ASSUME ~dbFailed', ~cancelled'
      PROVE    Entered'
      BY DEF Entered
  <2>1. records = <<>> /\ logs = <<"running">> /\ pc = "over"
      BY <1>a DEF EndpointsInv, Entered, Places
  <2>2. "running" \in {logs[i] : i \in DOMAIN logs}
      BY <2>1
  <2>3. row' = TRUE
      BY <1>a, <2>2, Zenon
  <2> QED
      BY <1>a, <2>1, <2>3 DEF Entered, Begun, Due, RecordFirst, ledgers, calm
<1>7. Breaker'
  <2>1. Before
      BY <1>a DEF EndpointsInv, Breaker, Asking
  <2>2. Ahead'
    <3>1. ~OnlyTools' /\ ~turn'.text
        BY <1>b DEF OnlyTools
    <3>2. NextStreak' = 0 /\ NextSince' = since'
        BY <3>1 DEF NextStreak, NextSince
    <3> QED
        BY <1>a, <2>1, <3>2 DEF EndpointsInv, EType, Before, Ahead, calm
  <2> QED
      BY <1>a, <1>c, <2>2 DEF EndpointsInv, Breaker, Asking, calm
<1> QED
    BY <1>1, <1>2, <1>3, <1>4, <1>5, <1>6, <1>7 DEF EndpointsInv

LEMMA ChatBridgeStreamsKeeps ==
    ASSUME EndpointsInv, ChatBridgeStreams
    PROVE  EndpointsInv'
<1>a. /\ stage = "streaming" /\ pc = "streaming" /\ req.image = "bridge" /\ ~row /\ ~dbFailed
      /\ UNCHANGED <<calm, turn, path, records, counted, usage, toolOnly, cancelled, stage, req, todo, stripped>>
      /\ \/ row' = TRUE /\ logs' = Append(logs, "running") /\ dbFailed' = dbFailed
         \/ row' = row /\ logs' = logs /\ dbFailed' = TRUE
    BY DEF ChatBridgeStreams, Works, Fails
<1>1. EType'
    BY <1>a DEF EndpointsInv, EType, calm
<1>2. Flags'
  <2>1. dbFailed' \in BOOLEAN /\ row' \in BOOLEAN
      BY <1>a, Zenon DEF EndpointsInv, Flags
  <2> QED
      BY <1>a, <2>1 DEF EndpointsInv, Flags, calm, settings
<1>3. Places'
    BY <1>a DEF EndpointsInv, Places, Asking, calm, ClosedAfterOutput
<1>4. Charged'
    BY <1>a DEF EndpointsInv, Charged, Places, Asking, calm
<1>5. Once'
    BY <1>a DEF EndpointsInv, Once, Uncounted, Places, Asking, calm, settings, Status
<1>6. Entered'
    BY <1>a, FirstEntry DEF EndpointsInv, Entered, Begun, Places, Asking, calm, settings
<1>7. Breaker'
    BY <1>a DEF EndpointsInv, Breaker, Before, Numbered, OnlyTools, Asking, calm, settings
<1> QED
    BY <1>1, <1>2, <1>3, <1>4, <1>5, <1>6, <1>7 DEF EndpointsInv

\* What is still due, read off the ledgers to be written.
LEMMA DueIs ==
    ASSUME NEW t
    PROVE  /\ t \in {LogFirst, RecordFirst} => t \in {LogFirst, RecordFirst, <<"log">>} /\ t \in {LogFirst, RecordFirst, <<"record">>}
           /\ t = <<"log">> => t \in {LogFirst, RecordFirst, <<"log">>} /\ t \notin {LogFirst, RecordFirst, <<"record">>}
           /\ t = <<"record">> => t \in {LogFirst, RecordFirst, <<"record">>} /\ t \notin {LogFirst, RecordFirst, <<"log">>}
           /\ t = <<>> => t \notin {LogFirst, RecordFirst, <<"record">>} /\ t \notin {LogFirst, RecordFirst, <<"log">>}
BY DEF LogFirst, RecordFirst

\* One entry, two entries, and what is left of two.
LEMMA ShortLedger ==
    ASSUME NEW s, NEW v
    PROVE  (s = <<>> => Len(s) <= 1) /\ (s = <<v>> => Len(s) <= 1)
<1>1. s = <<>> => Len(s) <= 1
    OBVIOUS
<1>2. s = <<v>> => Len(s) <= 1
    OBVIOUS
<1> QED
    BY <1>1, <1>2

LEMMA TwoEntries ==
    ASSUME NEW a, NEW s
    PROVE  Append(<<a>>, s) = <<a, s>>
<1> DEFINE S == {a, s}
           q == Append(<<a>>, s)
           r == <<a, s>>
<1>1. <<a>> \in Seq(S) /\ s \in S /\ r \in Seq(S)
    OBVIOUS
<1>2. q \in Seq(S) /\ Len(q) = 2 /\ q[1] = a /\ q[2] = s
    BY <1>1, AppendProperties
<1>3. Len(r) = 2 /\ r[1] = a /\ r[2] = s
    OBVIOUS
<1>4. Len(q) = Len(r) /\ \A i \in 1 .. Len(q) : q[i] = r[i]
    BY <1>2, <1>3
<1> HIDE DEF S, q, r
<1>5. q = r
    BY <1>1, <1>2, <1>4, SeqEqual
<1> QED
    BY <1>5 DEF q, r

LEMMA TailOfTwo ==
    ASSUME NEW a, NEW b, NEW t, t = <<a, b>>
    PROVE  Tail(t) = <<b>> /\ Head(t) = a
OBVIOUS

LEMMA TailOfOne ==
    ASSUME NEW a, NEW t, t = <<a>>
    PROVE  Tail(t) = <<>> /\ Head(t) = a
OBVIOUS

LEMMA NextDue ==
    ASSUME NEW t \in {LogFirst, RecordFirst, <<"log">>, <<"record">>}
    PROVE  \/ t = LogFirst /\ Head(t) = "log" /\ Tail(t) = <<"record">>
           \/ t = RecordFirst /\ Head(t) = "record" /\ Tail(t) = <<"log">>
           \/ t = <<"log">> /\ Head(t) = "log" /\ Tail(t) = <<>>
           \/ t = <<"record">> /\ Head(t) = "record" /\ Tail(t) = <<>>
BY TailOfTwo, TailOfOne DEF LogFirst, RecordFirst

\* The row of an image request is written over, any other entry is a row of its own.
LEMMA LoggedIs ==
    ASSUME NEW s, row \in BOOLEAN, logs = Begun
    PROVE  Logged(s) = <<s>>
<1>1. CASE row
  <2>1. logs = <<"running">> /\ Len(logs) = 1
      BY <1>1 DEF Begun
  <2>2. [logs EXCEPT ![1] = s] = <<s>>
      BY <2>1
  <2> QED
      BY <1>1, <2>1, <2>2 DEF Logged
<1>2. CASE ~row
    BY <1>2, FirstEntry DEF Logged, Begun
<1> QED
    BY <1>1, <1>2

\* The log of a failure, behind the row a failed bridge may leave.
LEMMA LeftWritten ==
    ASSUME NEW s, s = Status(path), stage = "failing", ~row, LeftBefore
    PROVE  Written(s) = <<s>> \/ (Written(s) = <<"running", s>> /\ RowLeft)
<1>1. Written(s) = Append(logs, s)
    BY DEF Written, Logged
<1>2. CASE logs = <<>>
    BY <1>1, <1>2
<1>3. CASE logs = <<"running">> /\ RowLeft
  <2>1. Append(<<"running">>, s) = <<"running", s>>
      BY TwoEntries
  <2> QED
      BY <1>1, <1>3, <2>1
<1> QED
    BY <1>2, <1>3 DEF LeftBefore

LEMMA BookKeeps ==
    ASSUME EndpointsInv, Book
    PROVE  EndpointsInv'
<1>a. /\ stage \in {"booking", "failing"} /\ todo # <<>> /\ todo' = Tail(todo)
      /\ UNCHANGED <<calm, stage, turn, path, row, counted, usage, toolOnly, cancelled, req, stripped>>
      /\ \/ (RecordWritten \/ LogWritten) /\ dbFailed' = dbFailed
         \/ dbFailed' = TRUE
    BY DEF Book, Works, Fails
<1>b. \/ todo = LogFirst /\ Head(todo) = "log" /\ todo' = <<"record">>
      \/ todo = RecordFirst /\ Head(todo) = "record" /\ todo' = <<"log">>
      \/ todo = <<"log">> /\ Head(todo) = "log" /\ todo' = <<>>
      \/ todo = <<"record">> /\ Head(todo) = "record" /\ todo' = <<>>
    BY <1>a, NextDue DEF EndpointsInv, EType
<1>1. EType'
    BY <1>a, <1>b DEF EndpointsInv, EType, calm
<1>2. Flags'
  <2>1. dbFailed' \in BOOLEAN
      BY <1>a, Zenon DEF EndpointsInv, Flags
  <2> QED
      BY <1>a, <2>1 DEF EndpointsInv, Flags, calm, settings
<1>3. Places'
    BY <1>a DEF EndpointsInv, Places, Asking, calm, ClosedAfterOutput
<1>4. Charged'
    BY <1>a DEF EndpointsInv, Charged, Places, Asking
<1>d. dbFailed => dbFailed'
  <2>1. CASE dbFailed' = dbFailed
      BY <2>1
  <2>2. CASE dbFailed' = TRUE
      BY <2>2
  <2> QED
      BY <1>a, <2>1, <2>2
<1>5. Once'
    BY <1>a, <1>d DEF EndpointsInv, Once, Uncounted, Places, Asking, calm, settings, Status
<1>6. Entered'
  <2> SUFFICES ASSUME ~dbFailed', ~cancelled'
      PROVE    Entered'
      BY DEF Entered
  <2>1. ~dbFailed /\ ~cancelled /\ pc = "over" /\ (RecordWritten \/ LogWritten)
      BY <1>a, <1>d DEF EndpointsInv, Places
  <2>2. Entry' = Entry /\ Begun' = Begun /\ RowLeft' = RowLeft /\ Status(path)' = Status(path)
      BY <1>a DEF Entry, Begun, Status, RowLeft, calm, settings
  <2>3. CASE Head(todo) = "record"
    <3>1. records' = Append(records, Status(path)) /\ logs' = logs
        BY <2>1, <2>3 DEF RecordWritten, LogWritten
    <3>2. Due("record") /\ ~Due("record")' /\ (Due("log")' <=> Due("log"))
        BY <1>b, <2>3, DueIs DEF Due
    <3>3. records' = Entry
        BY <3>1, <3>2, <2>1, <1>a, FirstEntry DEF EndpointsInv, Entered, Entry
    <3> QED
        BY <1>a, <2>1, <2>2, <3>1, <3>2, <3>3 DEF EndpointsInv, Entered, LeftBefore, LeftAfter, calm
  <2>4. CASE Head(todo) = "log"
    <3>1. records' = records /\ logs' = Written(Status(path))
        BY <2>1, <2>4 DEF RecordWritten, LogWritten
    <3>2. Due("log") /\ ~Due("log")' /\ (Due("record")' <=> Due("record"))
        BY <1>b, <2>4, DueIs DEF Due
    <3>3. CASE stage = "booking"
      <4>1. logs' = Entry
          BY <3>1, <3>2, <3>3, <2>1, LoggedIs DEF EndpointsInv, Flags, Entered, Entry, Written
      <4> QED
          BY <1>a, <2>1, <2>2, <3>1, <3>2, <3>3, <4>1 DEF EndpointsInv, Entered, calm
    <3>4. CASE stage = "failing"
      <4>1. LeftAfter'
        <5>1. ~row /\ LeftBefore
            BY <3>2, <3>4, <2>1 DEF EndpointsInv, Entered
        <5>2. logs' = Entry \/ (logs' = <<"running", Status(path)>> /\ RowLeft)
            BY <3>1, <3>4, <5>1, LeftWritten DEF Entry
        <5> QED
            BY <2>2, <5>2 DEF LeftAfter
      <4> QED
          BY <1>a, <2>1, <2>2, <3>1, <3>2, <3>4, <4>1 DEF EndpointsInv, Entered, calm
    <3> QED
        BY <1>a, <3>3, <3>4
  <2> QED
      BY <1>b, <2>3, <2>4
<1>7. Breaker'
    BY <1>a DEF EndpointsInv, Breaker, Before, Ahead, NextStreak, NextSince, OnlyTools, EndedWell,
           Told, Plain, Asking, calm
<1> QED
    BY <1>1, <1>2, <1>3, <1>4, <1>5, <1>6, <1>7 DEF EndpointsInv

\* The counters after a count that works, and after one that fails in between.
LEMMA CountedWellIs ==
    ASSUME NEW p, NEW known \in BOOLEAN, usage = <<>>, CountedWell(p, known)
    PROVE  /\ usage' = IF billed /\ known THEN <<Charge(p)>> ELSE <<>>
           /\ counted = <<>> => counted' = <<Status(p)>>
BY FirstEntry DEF CountedWell, Known

LEMMA CountSuccessKeeps ==
    ASSUME EndpointsInv, CountSuccess
    PROVE  EndpointsInv'
<1>a. /\ stage = "booking" /\ todo = <<>> /\ path = "success" /\ pc = "over" /\ usage = <<>>
      /\ UNCHANGED <<calm, turn, row, records, logs, toolOnly, cancelled, req, stripped>>
      /\ \/ CountedWell("success", TRUE) /\ dbFailed' = dbFailed /\ stage' = "over" /\ UNCHANGED <<path, todo>>
         \/ /\ usage' = usage /\ dbFailed' = TRUE
            /\ \/ stage' = "failing" /\ path' = "fail" /\ todo' = RecordFirst
               \/ req.image = "native" /\ stage' = "routed" /\ UNCHANGED <<path, todo>>
               \/ stage' = "over" /\ UNCHANGED <<path, todo>>
    BY DEF CountSuccess, CountedInPart, Works, Fails, EndpointsInv, Places, Charged
<1>1. EType'
    BY <1>a DEF EndpointsInv, EType, calm
<1>2. Flags'
  <2>1. dbFailed' \in BOOLEAN
      BY <1>a, Zenon DEF EndpointsInv, Flags
  <2> QED
      BY <1>a, <2>1 DEF EndpointsInv, Flags, calm, settings
<1>3. Places'
  <2>1. CASE stage' = "routed"
    <3>1. dbFailed' = TRUE /\ req.image = "native" /\ path' = path /\ todo' = todo
        BY <1>a, <2>1
    <3> QED
        BY <1>a, <2>1, <3>1 DEF EndpointsInv, Places, Asking, calm, ClosedAfterOutput
  <2>2. CASE stage' # "routed"
      BY <1>a, <2>2 DEF EndpointsInv, Places, Asking, calm, ClosedAfterOutput
  <2> QED
      BY <2>1, <2>2
<1>4. Charged'
  <2>1. CASE CountedWell("success", TRUE) /\ stage' = "over" /\ path' = path
    <3>1. usage' \in {<<>>, <<Charge("success")>>}
        BY <1>a, <2>1, CountedWellIs
    <3>2. Charge(path)' = Charge("success")
        BY <1>a, <2>1 DEF Charge, Status, calm, settings
    <3> QED
        BY <1>a, <2>1, <3>1, <3>2 DEF EndpointsInv, Places, Charged, calm
  <2>2. CASE usage' = usage
      BY <1>a, <2>2 DEF Charged
  <2> QED
      BY <1>a, <2>1, <2>2
<1>b. SUFFICES Once' /\ Entered' /\ Breaker'
    BY <1>1, <1>2, <1>3, <1>4 DEF EndpointsInv
<1>c. CASE ~dbFailed'
  <2>1. CountedWell("success", TRUE) /\ ~dbFailed /\ stage' = "over" /\ path' = path /\ todo' = todo
    <3>1. CASE CountedWell("success", TRUE) /\ dbFailed' = dbFailed /\ stage' = "over" /\ UNCHANGED <<path, todo>>
        BY <1>c, <3>1
    <3>2. CASE dbFailed' = TRUE
        BY <1>c, <3>2
    <3> QED
        BY <1>a, <3>1, <3>2
  <2>2. counted = <<>> /\ frames = <<>>
      BY <1>a, <2>1 DEF EndpointsInv, Once, Uncounted
  <2>3. counted' = <<Status("success")>> /\ usage' = IF billed THEN <<Charge("success")>> ELSE <<>>
      BY <1>a, <2>1, <2>2, CountedWellIs
  <2>4. /\ Entry' = <<Status("success")>> /\ Entry = <<Status("success")>> /\ Charge(path)' = Charge("success")
        /\ <<Status(path)>>' = <<Status("success")>>
      BY <1>a, <2>1 DEF Entry, Status, Charge, calm, settings
  <2>5. Once'
      BY <1>a, <2>1, <2>2, <2>3, <2>4 DEF Once, Uncounted, calm
  <2>6. Entered'
    <3> SUFFICES ASSUME ~cancelled'
        PROVE    Entered'
        BY DEF Entered
    <3>1. ~Due("record") /\ ~Due("log")
        BY <1>a, DueIs DEF Due
    <3>2. records = Entry /\ logs = Entry /\ req.endpoint # "none"
        BY <1>a, <2>1, <3>1 DEF EndpointsInv, Entered, Places
    <3>3. usage' = Usage'
        BY <1>a, <2>3, <2>4, <3>2 DEF Usage, calm, settings
    <3> QED
        BY <1>a, <2>1, <2>3, <2>4, <3>2, <3>3 DEF Entered, calm
  <2> QED
      BY <1>a, <2>1, <2>5, <2>6 DEF EndpointsInv, Breaker, Before, Ahead, NextStreak, NextSince,
             OnlyTools, EndedWell, Told, Plain, Asking, calm
<1>d. CASE dbFailed'
  <2>1. Once' /\ Entered'
      BY <1>d DEF Once, Entered
  <2>2. stage' = "over" => Ahead'
      BY <1>a DEF EndpointsInv, Breaker, Ahead, NextStreak, NextSince, OnlyTools, EndedWell, Told,
             Plain, calm
  <2>3. stage' = "failing" => Ahead'
      BY <1>a DEF EndpointsInv, Breaker, EType, Ahead, NextStreak, NextSince, OnlyTools, EndedWell,
             Told, Plain, calm
  <2>4. stage' = "routed" => Before'
      BY <1>a DEF EndpointsInv, Breaker, Before, calm
  <2> QED
      BY <1>a, <2>1, <2>2, <2>3, <2>4 DEF EndpointsInv, Breaker, Asking, calm
<1> QED
    BY <1>c, <1>d

LEMMA CountFailureKeeps ==
    ASSUME EndpointsInv, CountFailure
    PROVE  EndpointsInv'
<1>a. /\ stage = "failing" /\ todo = <<>> /\ path = "fail" /\ pc = "over" /\ usage = <<>> /\ stage' = "over"
      /\ UNCHANGED <<calm, turn, path, todo, row, records, logs, toolOnly, cancelled, req, stripped>>
      /\ \/ CountedWell("fail", TRUE) /\ dbFailed' = dbFailed
         \/ usage' = usage /\ dbFailed' = TRUE
    BY DEF CountFailure, CountedAs, CountedInPart, Works, Fails, EndpointsInv, Places, Charged
<1>1. EType'
    BY <1>a DEF EndpointsInv, EType, calm
<1>2. Flags'
  <2>1. dbFailed' \in BOOLEAN
      BY <1>a, Zenon DEF EndpointsInv, Flags
  <2> QED
      BY <1>a, <2>1 DEF EndpointsInv, Flags, calm, settings
<1>3. Places'
    BY <1>a DEF EndpointsInv, Places, Asking, calm, ClosedAfterOutput
<1>4. Charged'
  <2>1. usage' \in {<<>>, <<Charge("fail")>>}
      BY <1>a, CountedWellIs
  <2>2. Charge(path)' = Charge("fail")
      BY <1>a DEF Charge, Status, calm, settings
  <2> QED
      BY <1>a, <2>1, <2>2 DEF EndpointsInv, Places, Charged, calm
<1>5. Breaker'
    BY <1>a DEF EndpointsInv, Breaker, Before, Ahead, NextStreak, NextSince, OnlyTools, EndedWell,
           Told, Plain, Asking, calm
<1>6. CASE ~dbFailed'
  <2>1. CountedWell("fail", TRUE) /\ ~dbFailed
    <3>1. CASE CountedWell("fail", TRUE) /\ dbFailed' = dbFailed
        BY <1>6, <3>1
    <3>2. CASE dbFailed' = TRUE
        BY <1>6, <3>2
    <3> QED
        BY <1>a, <3>1, <3>2
  <2>2. counted = <<>> /\ frames = <<>>
      BY <1>a, <2>1 DEF EndpointsInv, Once, Uncounted
  <2>3. counted' = <<Status("fail")>> /\ usage' = IF billed THEN <<Charge("fail")>> ELSE <<>>
      BY <1>a, <2>1, <2>2, CountedWellIs
  <2>4. /\ Entry' = <<Status("fail")>> /\ Entry = <<Status("fail")>> /\ Charge(path)' = Charge("fail")
        /\ <<Status(path)>>' = <<Status("fail")>>
      BY <1>a, <2>1 DEF Entry, Status, Charge, calm, settings
  <2>5. Once'
      BY <1>a, <2>1, <2>2, <2>3, <2>4 DEF Once, Uncounted, calm
  <2>6. Entered'
    <3> SUFFICES ASSUME ~cancelled'
        PROVE    Entered'
        BY DEF Entered
    <3>1. ~Due("record") /\ ~Due("log")
        BY <1>a, DueIs DEF Due
    <3>2. records = Entry /\ LeftAfter /\ req.endpoint # "none"
        BY <1>a, <2>1, <3>1 DEF EndpointsInv, Entered, Places
    <3>3. LeftAfter'
        BY <1>a, <3>2 DEF LeftAfter, RowLeft, Entry, Status, calm, settings
    <3>4. usage' = Usage'
        BY <1>a, <2>3, <2>4, <3>2 DEF Usage, calm, settings
    <3> QED
        BY <1>a, <2>1, <2>3, <2>4, <3>2, <3>3, <3>4 DEF Entered, calm
  <2> QED
      BY <1>1, <1>2, <1>3, <1>4, <1>5, <2>5, <2>6 DEF EndpointsInv
<1>7. CASE dbFailed'
  <2>1. Once' /\ Entered'
      BY <1>7 DEF Once, Entered
  <2> QED
      BY <1>1, <1>2, <1>3, <1>4, <1>5, <2>1 DEF EndpointsInv
<1> QED
    BY <1>6, <1>7

\* The four writes in one thread.
LEMMA AllAtIs ==
    ASSUME Flags, NEW p, NEW known \in BOOLEAN, AllAt(p, known), usage = <<>>
    PROVE  /\ usage' \in {<<>>, <<Charge(p)>>} /\ dbFailed' \in BOOLEAN
           /\ ~dbFailed' => /\ ~dbFailed /\ CountedWell(p, known)
                            /\ records' = Append(records, Status(p)) /\ logs' = Append(logs, Status(p))
<1>1. PICK r \in BOOLEAN, l \in BOOLEAN :
         /\ records' = IF r THEN Append(records, Status(p)) ELSE records
         /\ logs' = IF l THEN Append(logs, Status(p)) ELSE logs
         /\ \/ CountedWell(p, known) /\ dbFailed' = (dbFailed \/ ~r \/ ~l)
            \/ usage' = usage /\ dbFailed' = TRUE
    BY DEF AllAt, CountedInPart, Fails
<1>2. CASE CountedWell(p, known) /\ dbFailed' = (dbFailed \/ ~r \/ ~l)
  <2>1. usage' \in {<<>>, <<Charge(p)>>}
      BY <1>2, CountedWellIs
  <2>2. dbFailed' \in BOOLEAN /\ (~dbFailed' => ~dbFailed /\ r /\ l)
      BY <1>2 DEF Flags
  <2> QED
      BY <1>1, <1>2, <2>1, <2>2
<1>3. CASE usage' = usage /\ dbFailed' = TRUE
    BY <1>3
<1> QED
    BY <1>1, <1>2, <1>3

LEMMA BookRefusalKeeps ==
    ASSUME EndpointsInv, BookRefusal
    PROVE  EndpointsInv'
<1>a. /\ stage = "refused" /\ stage' = "over" /\ AllAt(path, TRUE) /\ todo = <<>> /\ pc = "over" /\ usage = <<>>
      /\ path \in {"rejected", "fail"}
      /\ UNCHANGED <<calm, turn, path, todo, row, toolOnly, cancelled, req, stripped>>
    BY DEF BookRefusal, EndpointsInv, Places, Charged
<1>b. /\ usage' \in {<<>>, <<Charge(path)>>} /\ dbFailed' \in BOOLEAN
      /\ ~dbFailed' => /\ ~dbFailed /\ CountedWell(path, TRUE)
                       /\ records' = Append(records, Status(path)) /\ logs' = Append(logs, Status(path))
    BY <1>a, AllAtIs DEF EndpointsInv
<1>1. EType'
    BY <1>a DEF EndpointsInv, EType, calm
<1>2. Flags'
    BY <1>a, <1>b DEF EndpointsInv, Flags, calm, settings
<1>3. Places'
    BY <1>a DEF EndpointsInv, Places, Asking, calm, ClosedAfterOutput
<1>4. Charged'
  <2>1. Charge(path)' = Charge(path)
      BY <1>a DEF Charge, Status, calm, settings
  <2> QED
      BY <1>a, <1>b, <2>1 DEF EndpointsInv, Places, Charged, calm
<1>5. Breaker'
    BY <1>a DEF EndpointsInv, Breaker, Before, Ahead, NextStreak, NextSince, OnlyTools, EndedWell,
           Told, Plain, Asking, calm
<1>6. CASE ~dbFailed'
  <2>1. /\ ~dbFailed /\ CountedWell(path, TRUE)
        /\ records' = Append(records, Status(path)) /\ logs' = Append(logs, Status(path))
      BY <1>b, <1>6
  <2>2. counted = <<>> /\ frames = <<>>
      BY <1>a, <2>1 DEF EndpointsInv, Once, Uncounted
  <2>3. counted' = <<Status(path)>> /\ usage' = IF billed THEN <<Charge(path)>> ELSE <<>>
      BY <1>a, <2>1, <2>2, CountedWellIs
  <2>4. /\ Entry' = <<Status(path)>> /\ Charge(path)' = Charge(path) /\ Status(path)' = Status(path)
      BY <1>a, <2>1 DEF Entry, Status, Charge, calm, settings
  <2>5. Once'
      BY <1>a, <2>1, <2>2, <2>3, <2>4 DEF Once, Uncounted, Entry, calm
  <2>6. Entered'
    <3> SUFFICES ASSUME ~cancelled'
        PROVE    Entered'
        BY DEF Entered
    <3>1. records = <<>> /\ LeftBefore /\ req.endpoint # "none"
        BY <1>a, <2>1 DEF EndpointsInv, Entered, Places
    <3>2. logs' = <<Status(path)>> \/ (logs' = <<"running", Status(path)>> /\ RowLeft)
        BY <2>1, <3>1, FirstEntry, TwoEntries DEF LeftBefore
    <3>3. LeftAfter'
        BY <1>a, <2>4, <3>2 DEF LeftAfter, RowLeft
    <3>4. usage' = Usage'
        BY <1>a, <2>3, <2>4, <3>1 DEF Usage, calm, settings
    <3>5. records' = Entry'
        BY <2>1, <2>4, <3>1, FirstEntry
    <3> QED
        BY <1>a, <2>1, <2>3, <2>4, <3>3, <3>4, <3>5 DEF Entered, calm
  <2> QED
      BY <1>1, <1>2, <1>3, <1>4, <1>5, <2>5, <2>6 DEF EndpointsInv
<1>7. CASE dbFailed'
  <2>1. Once' /\ Entered'
      BY <1>7 DEF Once, Entered
  <2> QED
      BY <1>1, <1>2, <1>3, <1>4, <1>5, <2>1 DEF EndpointsInv
<1> QED
    BY <1>6, <1>7

\* A cancelled handler leaves what it has written; between turns the counter may expire.
LEMMA CancelledKeeps ==
    ASSUME EndpointsInv, Cancelled
    PROVE  EndpointsInv'
<1>a. /\ stage \in Asking \cup {"booking", "failing", "refused"} /\ stage' = "over" /\ cancelled' = TRUE
      /\ pc = "over" /\ usage = <<>> /\ (stage = "booking" => path = "success")
      /\ UNCHANGED <<calm, turn, path, todo, row, toolOnly, req, stripped>>
    BY DEF Cancelled, EndpointsInv, Places, Charged, Asking
<1>b. \/ UNCHANGED <<counted, usage, dbFailed>>
      \/ stage = "booking" /\ CountedWell("success", TRUE) /\ dbFailed' = dbFailed
      \/ usage' = usage /\ dbFailed' = TRUE
      \/ stage = "refused" /\ AllAt(path, TRUE)
    BY DEF Cancelled, CountedAs, CountedInPart, Works, Fails, ledgers
<1>c. /\ usage' \in {<<>>, <<Charge(path)>>} /\ dbFailed' \in BOOLEAN
      /\ ~dbFailed' => ~dbFailed /\ (UNCHANGED counted \/ CountedWell(path, TRUE))
  <2>1. CASE UNCHANGED <<counted, usage, dbFailed>>
      BY <1>a, <2>1 DEF EndpointsInv, Flags
  <2>2. CASE stage = "booking" /\ CountedWell("success", TRUE) /\ dbFailed' = dbFailed
    <3>1. usage' \in {<<>>, <<Charge("success")>>}
        BY <1>a, <2>2, CountedWellIs
    <3>2. dbFailed' \in BOOLEAN /\ (~dbFailed' => ~dbFailed)
        BY <2>2 DEF EndpointsInv, Flags
    <3> QED
        BY <1>a, <2>2, <3>1, <3>2
  <2>3. CASE usage' = usage /\ dbFailed' = TRUE
      BY <1>a, <2>3
  <2>4. CASE stage = "refused" /\ AllAt(path, TRUE)
      BY <1>a, <2>4, AllAtIs DEF EndpointsInv
  <2> QED
      BY <1>b, <2>1, <2>2, <2>3, <2>4
<1>1. EType'
    BY <1>a DEF EndpointsInv, EType, calm
<1>2. Flags'
    BY <1>a, <1>c DEF EndpointsInv, Flags, calm, settings
<1>3. Places'
    BY <1>a DEF EndpointsInv, Places, Asking, calm, ClosedAfterOutput
<1>4. Charged'
  <2>1. Charge(path)' = Charge(path)
      BY <1>a DEF Charge, Status, calm, settings
  <2>2. path = "success" => turn.ended
      BY <1>a, AnsweredIs, SilenceIs DEF EndpointsInv, Places, Asking
  <2>3. path # "closed"
      BY <1>a DEF EndpointsInv, Places, Asking
  <2> QED
      BY <1>a, <1>c, <2>1, <2>2, <2>3 DEF Charged, calm
<1>5. Breaker'
  <2>1. Ahead'
    <3>1. CASE stage \in Asking
      <4>1. Before
          BY <3>1 DEF EndpointsInv, Breaker
      <4>2. ~turn.text /\ ~turn.toolStarted
          BY <3>1, SilenceIs, AnsweredIs DEF EndpointsInv, Places
      <4> QED
          BY <1>a, <4>1, <4>2 DEF EndpointsInv, EType, Before, Ahead, NextStreak, NextSince,
                 OnlyTools, calm
    <3>2. CASE stage \notin Asking
        BY <1>a, <3>2 DEF EndpointsInv, Breaker, Ahead, NextStreak, NextSince, OnlyTools,
               EndedWell, Told, Plain, calm
    <3> QED
        BY <3>1, <3>2
  <2> QED
      BY <1>a, <2>1 DEF EndpointsInv, Breaker, Asking, calm
<1>6. Once'
  <2> SUFFICES ASSUME ~dbFailed'
      PROVE    Once'
      BY DEF Once
  <2>1. counted = <<>> /\ frames = <<>>
      BY <1>a, <1>c DEF EndpointsInv, Once, Uncounted, Asking
  <2>2. counted' \in {<<>>, <<Status(path)>>}
      BY <1>a, <1>c, <2>1, CountedWellIs
  <2>3. <<Status(path)>>' = <<Status(path)>>
      BY <1>a DEF Status, calm, settings
  <2> QED
      BY <1>a, <2>1, <2>2, <2>3 DEF Once, Uncounted, calm
<1>7. Entered'
    BY <1>a DEF Entered
<1> QED
    BY <1>1, <1>2, <1>3, <1>4, <1>5, <1>6, <1>7 DEF EndpointsInv

LEMMA ForgetKeeps ==
    ASSUME EndpointsInv, Forget
    PROVE  EndpointsInv'
<1>a. /\ stage = "idle" /\ stage' = "idle" /\ toolOnly' = 0 /\ streak' = 0 /\ ~stripped
      /\ UNCHANGED <<pc, settings, scope, stopping, frames, since, turns, turn, path, row, ledgers,
                     cancelled, dbFailed, req, todo, stripped>>
    BY DEF Forget, EndpointsInv, Places
<1>1. EType'
    BY <1>a DEF EndpointsInv, EType
<1>2. Flags'
    BY <1>a DEF EndpointsInv, Flags, settings
<1>3. Places'
    BY <1>a DEF EndpointsInv, Places, Asking, ClosedAfterOutput
<1>4. Charged'
    BY <1>a DEF EndpointsInv, Charged, ledgers
<1>5. Once'
    BY <1>a DEF EndpointsInv, Once, Uncounted, Status, settings, ledgers, Places
<1>6. Entered'
    BY <1>a DEF EndpointsInv, Entered, ledgers, Places
<1>7. Breaker'
    BY <1>a DEF EndpointsInv, EType, Breaker, Before, Asking
<1> QED
    BY <1>1, <1>2, <1>3, <1>4, <1>5, <1>6, <1>7 DEF EndpointsInv

LEMMA NextTurnKeeps ==
    ASSUME EndpointsInv, NextTurn
    PROVE  EndpointsInv'
<1>a. /\ stage = "over" /\ stage' = "idle" /\ pc = "over" /\ pc' = "over"
      /\ streak' = NextStreak /\ since' = NextSince
      /\ turn' = Silence /\ path' = "none" /\ row' = FALSE /\ scope' = FALSE
      /\ records' = <<>> /\ logs' = <<>> /\ counted' = <<>> /\ usage' = <<>> /\ frames' = <<>>
      /\ cancelled' = FALSE /\ dbFailed' = FALSE
      /\ req' = Unread /\ todo' = <<>> /\ stripped' = FALSE /\ fallbackUsed' = FALSE
      /\ UNCHANGED <<billed, tracked, stopping, toolOnly>>
    BY DEF NextTurn, OnlyTools, NextStreak, NextSince, EndpointsInv, Places
<1>1. EType'
  <2>1. Unread \in Reqs
      BY DEF Unread, Reqs
  <2>2. NextStreak \in Nat /\ NextSince \in Nat
      BY DEF EndpointsInv, EType, NextStreak, NextSince
  <2> QED
      BY <1>a, <2>1, <2>2, SilenceIs DEF EndpointsInv, EType
<1>2. Flags'
    BY <1>a DEF EndpointsInv, Flags
<1>3. Places'
    BY <1>a DEF Places, Asking
<1>4. Charged'
    BY <1>a DEF Charged
<1>5. Once'
    BY <1>a DEF Once, Uncounted
<1>6. Entered'
    BY <1>a DEF Entered
<1>7. Breaker'
    BY <1>a DEF EndpointsInv, Breaker, Ahead, Before, Asking
<1> QED
    BY <1>1, <1>2, <1>3, <1>4, <1>5, <1>6, <1>7 DEF EndpointsInv

----------------------------------------------------------------------------
(* The steps of a stream.                                                   *)

\* What a step of a stream means for the handler that began it.
Beside ==
    /\ stage = "streaming" /\ stage' = IF pc' = "over" THEN "over" ELSE "streaming"
    /\ UNCHANGED <<req, todo, stripped, streak, since, turns>>

\* What an event does to the turn.
LEMMA SawIs ==
    ASSUME turn \in Turns, NEW e \in Kinds, NEW t, t = Saw(e)
    PROVE  /\ t \in Turns /\ t.ended = turn.ended
           /\ e = "message_done" => t.messageDone /\ t.text = turn.text /\ t.toolStarted = turn.toolStarted
           /\ e # "message_done" => t.messageDone = turn.messageDone
<1>1. CASE e = "text"
  <2>1. t = [turn EXCEPT !.text = TRUE]
      BY <1>1 DEF Saw
  <2>2. t \in Turns
      BY <2>1, Zenon DEF Turns
  <2> QED
      BY <1>1, <2>1, <2>2 DEF Turns
<1>2. CASE e = "reasoning"
  <2>1. t = [turn EXCEPT !.reasoning = TRUE]
      BY <1>2 DEF Saw
  <2>2. t \in Turns
      BY <2>1, Zenon DEF Turns
  <2> QED
      BY <1>2, <2>1, <2>2 DEF Turns
<1>3. CASE e = "tool_start"
  <2>1. t = [turn EXCEPT !.toolStarted = TRUE]
      BY <1>3 DEF Saw
  <2>2. t \in Turns
      BY <2>1, Zenon DEF Turns
  <2> QED
      BY <1>3, <2>1, <2>2 DEF Turns
<1>4. CASE e = "tool_done"
  <2>1. t = [turn EXCEPT !.toolDone = turn.toolStarted]
      BY <1>4 DEF Saw
  <2>2. turn.toolStarted \in BOOLEAN
      BY DEF Turns
  <2>3. t \in Turns
      BY <2>1, <2>2, Zenon DEF Turns
  <2> QED
      BY <1>4, <2>1, <2>3 DEF Turns
<1>5. CASE e = "message_done"
  <2>1. t = [turn EXCEPT !.messageDone = TRUE, !.toolDone = @ \/ turn.toolStarted]
      BY <1>5 DEF Saw
  <2>2. (turn.toolDone \/ turn.toolStarted) \in BOOLEAN
      OBVIOUS
  <2>3. t \in Turns
      BY <2>1, <2>2, Zenon DEF Turns
  <2> QED
      BY <1>5, <2>1, <2>3 DEF Turns
<1> QED
    BY <1>1, <1>2, <1>3, <1>4, <1>5 DEF Kinds

LEMMA EventKeeps ==
    ASSUME EndpointsInv, Beside, NEW e \in Kinds, Event(e)
    PROVE  EndpointsInv'
<1>a. /\ pc = "streaming" /\ pc' = "streaming" /\ stage' = "streaming" /\ path = "success" /\ path' = "success"
      /\ ~turn.messageDone /\ ~turn.ended /\ usage = <<>>
      /\ UNCHANGED <<pc, stage, path, settings, row, scope, stopping, ledgers, frames, cancelled, dbFailed,
                     req, todo, stripped, streak, since, turns>>
    BY DEF Event, Beside, EndpointsInv, Places, Charged
<1>b. /\ turn' \in Turns /\ turn'.ended = turn.ended
      /\ e = "message_done" => turn'.messageDone /\ turn'.text = turn.text /\ turn'.toolStarted = turn.toolStarted
      /\ e # "message_done" => turn'.messageDone = turn.messageDone
    BY SawIs DEF Event, EndpointsInv, EType
<1>c. toolOnly' = IF e = "message_done" THEN Finalize(turn) ELSE toolOnly
    BY DEF Event
<1>1. EType'
    BY <1>a, <1>b, <1>c DEF EndpointsInv, EType, Finalize
<1>2. Flags'
    BY <1>a DEF EndpointsInv, Flags, settings
<1>3. Places'
    BY <1>a, <1>b DEF EndpointsInv, Places, Asking
<1>4. Charged'
    BY <1>a DEF Charged, ledgers
<1>5. Once'
    BY <1>a DEF EndpointsInv, Once, Uncounted, ledgers
<1>6. Entered'
    BY <1>a DEF EndpointsInv, Entered, Begun, ledgers
<1>7. Breaker'
  <2>1. tracked' = tracked
      BY <1>a DEF settings
  <2>2. (tracked <=> req.endpoint \in {"chat", "responses"}) /\ Before
      BY <1>a DEF EndpointsInv, Breaker
  <2>3. CASE e = "message_done"
      BY <1>a, <1>b, <1>c, <2>1, <2>2, <2>3 DEF EndpointsInv, EType, Breaker, Before, Numbered,
             OnlyTools, Finalize, Asking
  <2>4. CASE e # "message_done"
      BY <1>a, <1>b, <1>c, <2>1, <2>2, <2>4 DEF EndpointsInv, EType, Breaker, Before, Asking
  <2> QED
      BY <2>3, <2>4
<1> QED
    BY <1>1, <1>2, <1>3, <1>4, <1>5, <1>6, <1>7 DEF EndpointsInv

LEMMA RenderedKeeps ==
    ASSUME EndpointsInv, Beside, Rendered
    PROVE  EndpointsInv'
<1>a. /\ pc = "streaming" /\ pc' = "log" /\ stage = "streaming" /\ stage' = "streaming" /\ path = "success" /\ path' = "success"
      /\ ~turn.ended /\ usage = <<>> /\ frames' = Append(frames, "done")
      /\ toolOnly' = IF turn.messageDone THEN toolOnly ELSE Finalize(turn)
      /\ UNCHANGED <<settings, row, scope, stopping, ledgers, cancelled, dbFailed,
                     req, todo, stripped, streak, since, turns>>
    BY DEF Rendered, Beside, EndpointsInv, Places, Charged
<1>b. turn' \in Turns /\ turn'.ended = TRUE /\ turn'.text = turn.text /\ turn'.toolStarted = turn.toolStarted
  <2>1. turn' = [turn EXCEPT !.ended = TRUE] /\ turn \in Turns
      BY DEF Rendered, EndpointsInv, EType
  <2>2. turn' \in Turns
      BY <2>1, Zenon DEF Turns
  <2> QED
      BY <2>1, <2>2 DEF Turns
<1>1. EType'
    BY <1>a, <1>b DEF EndpointsInv, EType, Finalize
<1>2. Flags'
    BY <1>a DEF EndpointsInv, Flags, settings
<1>3. Places'
    BY <1>a, <1>b DEF EndpointsInv, Places, Asking
<1>4. Charged'
    BY <1>a DEF Charged, ledgers
<1>5. Once'
  <2>1. ~dbFailed => counted = <<>> /\ frames' = <<"done">>
      BY <1>a, FirstEntry DEF EndpointsInv, Once, Uncounted
  <2> QED
      BY <1>a, <2>1 DEF EndpointsInv, Once, Uncounted, ledgers
<1>6. Entered'
    BY <1>a DEF EndpointsInv, Entered, Begun, ledgers
<1>7. Breaker'
  <2>1. tracked' = tracked /\ (tracked <=> req.endpoint \in {"chat", "responses"})
      BY <1>a DEF EndpointsInv, Breaker, settings
  <2>2. IF turn.messageDone /\ tracked THEN Numbered ELSE Before
      BY <1>a DEF EndpointsInv, Breaker
  <2> QED
      BY <1>a, <1>b, <2>1, <2>2 DEF EndpointsInv, EType, Breaker, Before, Numbered, OnlyTools,
             Finalize, Asking
<1> QED
    BY <1>1, <1>2, <1>3, <1>4, <1>5, <1>6, <1>7 DEF EndpointsInv

\* What ends a stream early: the rendering, or one of its entries.
Interrupts ==
    /\ pc \in {"streaming", "log", "record"} /\ pc' \in {pc, "log", "closing"}
    /\ \/ path' = path /\ (pc' = pc \/ pc' = "closing")
       \/ path' = "fail" /\ pc = "streaming" /\ pc' = "log"
       \/ /\ pc' = "log" /\ path' = (IF ClosedAfterOutput THEN "closed" ELSE "cancel")
          /\ pc = "streaming" \/ cancelled'
    /\ pc' = "closing" => cancelled'
    /\ cancelled' \in BOOLEAN /\ (cancelled => cancelled')
    /\ scope' \in BOOLEAN /\ (scope' => cancelled')
    /\ cancelled' \/ UNCHANGED <<records, logs>>
    /\ UNCHANGED <<turn, settings, row, stopping, counted, usage, toolOnly, frames, dbFailed>>

LEMMA InterruptsIs ==
    ASSUME EndpointsInv, Beside, UpstreamRaises \/ ClientCloses \/ ScopeCancelled \/ AwaitRefused \/ TaskCancelled
    PROVE  Interrupts
<1>1. scope => cancelled
    BY DEF EndpointsInv, Places
<1>2. CASE UpstreamRaises
    BY <1>1, <1>2 DEF UpstreamRaises, Interrupts, ledgers, EndpointsInv, Flags
<1>3. CASE ClientCloses
    BY <1>1, <1>3 DEF ClientCloses, Disconnect, Interrupts, ledgers, EndpointsInv, Flags
<1>4. CASE ScopeCancelled
    BY <1>1, <1>4 DEF ScopeCancelled, Raise, Disconnect, Interrupts, ledgers, EndpointsInv, Flags
<1>5. CASE AwaitRefused
    BY <1>1, <1>5 DEF AwaitRefused, Raise, Disconnect, Interrupts, ledgers, EndpointsInv, Flags
<1>6. CASE TaskCancelled
    BY <1>1, <1>6 DEF TaskCancelled, Raise, Disconnect, Interrupts, ledgers, EndpointsInv, Flags
<1> QED
    BY <1>2, <1>3, <1>4, <1>5, <1>6

LEMMA InterruptsKeeps ==
    ASSUME EndpointsInv, Beside, Interrupts
    PROVE  EndpointsInv'
<1>a. /\ pc \in {"streaming", "log", "record"} /\ pc' \in {"streaming", "log", "record", "closing"}
      /\ stage = "streaming" /\ stage' = "streaming" /\ usage = <<>>
      /\ path' \in {"success", "closed", "cancel", "fail"}
      /\ path = "success" => path' = "success" \/ pc' = "log"
      /\ UNCHANGED <<turn, settings, row, stopping, counted, usage, toolOnly, frames, dbFailed,
                     req, todo, stripped, streak, since, turns>>
    BY DEF Interrupts, Beside, EndpointsInv, Places, Charged
<1>1. EType'
    BY <1>a DEF EndpointsInv, EType
<1>2. Flags'
    BY <1>a DEF EndpointsInv, Flags, settings, Interrupts
<1>3. Places'
    BY <1>a DEF EndpointsInv, Places, Asking, Interrupts, ClosedAfterOutput
<1>4. Charged'
    BY <1>a DEF Charged
<1>5. Once'
    BY <1>a DEF EndpointsInv, Once, Uncounted, Interrupts
<1>6. Entered'
    BY <1>a DEF EndpointsInv, Entered, Begun, Interrupts, Entry, Status, settings
<1>7. Breaker'
  <2>1. path # "success" => path' # "success"
      BY DEF Interrupts
  <2> QED
      BY <1>a, <2>1 DEF EndpointsInv, Breaker, Before, Numbered, OnlyTools, Asking, settings
<1> QED
    BY <1>1, <1>2, <1>3, <1>4, <1>5, <1>6, <1>7 DEF EndpointsInv

LEMMA ServerStopsKeeps ==
    ASSUME EndpointsInv, Beside, ServerStops
    PROVE  EndpointsInv'
<1>a. /\ stopping' = TRUE /\ stage = "streaming" /\ stage' = "streaming"
      /\ UNCHANGED <<pc, turn, path, settings, row, scope, ledgers, toolOnly, frames, cancelled, dbFailed,
                     req, todo, stripped, streak, since, turns>>
    BY DEF ServerStops, Beside, EndpointsInv, Places
<1>1. EType'
    BY <1>a DEF EndpointsInv, EType
<1>2. Flags'
    BY <1>a DEF EndpointsInv, Flags, settings
<1>3. Places'
    BY <1>a DEF EndpointsInv, Places, Asking, ClosedAfterOutput
<1>4. Charged'
    BY <1>a DEF EndpointsInv, Charged, Charge, Status, settings, ledgers
<1>5. Once'
    BY <1>a DEF EndpointsInv, Once, Uncounted, Status, settings, ledgers
<1>6. Entered'
    BY <1>a DEF EndpointsInv, Entered, Begun, Entry, Usage, Charge, Status, settings, ledgers
<1>7. Breaker'
    BY <1>a DEF EndpointsInv, Breaker, Before, Numbered, OnlyTools, Asking, settings
<1> QED
    BY <1>1, <1>2, <1>3, <1>4, <1>5, <1>6, <1>7 DEF EndpointsInv

LEMMA WriteRecordKeeps ==
    ASSUME EndpointsInv, Beside, WriteRecord
    PROVE  EndpointsInv'
<1>a. /\ pc = "log" /\ pc' = "record" /\ stage = "streaming" /\ stage' = "streaming" /\ ~scope /\ usage = <<>>
      /\ UNCHANGED <<turn, path, settings, row, scope, stopping, logs, counted, usage, toolOnly, frames, cancelled,
                     req, todo, stripped, streak, since, turns>>
      /\ \/ records' = Append(records, Status(path)) /\ dbFailed' = dbFailed
         \/ dbFailed' = TRUE
    BY DEF WriteRecord, Beside, EndpointsInv, Places, Charged
<1>b. dbFailed' \in BOOLEAN /\ (~dbFailed' => ~dbFailed /\ records' = Append(records, Status(path)))
  <2>1. CASE records' = Append(records, Status(path)) /\ dbFailed' = dbFailed
      BY <2>1 DEF EndpointsInv, Flags
  <2>2. CASE dbFailed' = TRUE
      BY <2>2
  <2> QED
      BY <1>a, <2>1, <2>2
<1>1. EType'
    BY <1>a DEF EndpointsInv, EType
<1>2. Flags'
    BY <1>a, <1>b DEF EndpointsInv, Flags, settings
<1>3. Places'
    BY <1>a DEF EndpointsInv, Places, Asking, ClosedAfterOutput
<1>4. Charged'
    BY <1>a DEF Charged
<1>5. Once'
    BY <1>a, <1>b DEF EndpointsInv, Once, Uncounted, Status, settings
<1>6. Entered'
  <2> SUFFICES ASSUME ~dbFailed', ~cancelled'
      PROVE    Entered'
      BY DEF Entered
  <2>1. records = <<>> /\ logs = Begun
      BY <1>a, <1>b DEF EndpointsInv, Entered
  <2>2. records' = Entry' /\ logs' = Begun'
      BY <1>a, <1>b, <2>1, FirstEntry DEF Entry, Begun, Status, settings
  <2> QED
      BY <1>a, <2>2 DEF Entered
<1>7. Breaker'
    BY <1>a DEF EndpointsInv, Breaker, Before, Numbered, OnlyTools, Asking, settings
<1> QED
    BY <1>1, <1>2, <1>3, <1>4, <1>5, <1>6, <1>7 DEF EndpointsInv

LEMMA WriteLogKeeps ==
    ASSUME EndpointsInv, Beside, WriteLog
    PROVE  EndpointsInv'
<1>a. /\ pc = "record" /\ pc' = "settle" /\ stage = "streaming" /\ stage' = "streaming" /\ ~scope /\ usage = <<>>
      /\ UNCHANGED <<turn, path, settings, row, scope, stopping, records, counted, usage, toolOnly, frames, cancelled,
                     req, todo, stripped, streak, since, turns>>
      /\ \/ logs' = Logged(Status(path)) /\ dbFailed' = dbFailed
         \/ dbFailed' = TRUE
    BY DEF WriteLog, Beside, EndpointsInv, Places, Charged
<1>b. dbFailed' \in BOOLEAN /\ (~dbFailed' => ~dbFailed /\ logs' = Logged(Status(path)))
  <2>1. CASE logs' = Logged(Status(path)) /\ dbFailed' = dbFailed
      BY <2>1 DEF EndpointsInv, Flags
  <2>2. CASE dbFailed' = TRUE
      BY <2>2
  <2> QED
      BY <1>a, <2>1, <2>2
<1>1. EType'
    BY <1>a DEF EndpointsInv, EType
<1>2. Flags'
    BY <1>a, <1>b DEF EndpointsInv, Flags, settings
<1>3. Places'
    BY <1>a DEF EndpointsInv, Places, Asking, ClosedAfterOutput
<1>4. Charged'
    BY <1>a DEF Charged
<1>5. Once'
    BY <1>a, <1>b DEF EndpointsInv, Once, Uncounted, Status, settings
<1>6. Entered'
  <2> SUFFICES ASSUME ~dbFailed', ~cancelled'
      PROVE    Entered'
      BY DEF Entered
  <2>1. records = Entry /\ logs = Begun /\ row \in BOOLEAN
      BY <1>a, <1>b DEF EndpointsInv, Flags, Entered
  <2>2. logs' = <<Status(path)>>
      BY <1>b, <2>1, LoggedIs
  <2>3. records' = Entry' /\ logs' = Entry'
      BY <1>a, <2>1, <2>2 DEF Entry, Status, settings
  <2> QED
      BY <1>a, <2>3 DEF Entered
<1>7. Breaker'
    BY <1>a DEF EndpointsInv, Breaker, Before, Numbered, OnlyTools, Asking, settings
<1> QED
    BY <1>1, <1>2, <1>3, <1>4, <1>5, <1>6, <1>7 DEF EndpointsInv

LEMMA SettleKeeps ==
    ASSUME EndpointsInv, Beside, Settle
    PROVE  EndpointsInv'
<1>a. /\ pc = "settle" /\ pc' = (IF path = "fail" THEN "error_frame" ELSE "closing")
      /\ stage = "streaming" /\ stage' = "streaming" /\ usage = <<>>
      /\ path \in {"success", "closed", "cancel", "fail"} /\ req.endpoint # "none"
      /\ counted' = Append(counted, Status(path))
      /\ usage' = IF billed THEN Append(usage, Charge(path)) ELSE usage
      /\ toolOnly' = IF path = "success" THEN toolOnly ELSE Reset
      /\ UNCHANGED <<turn, path, settings, row, scope, stopping, records, logs, frames, cancelled, dbFailed,
                     req, todo, stripped, streak, since, turns>>
    BY DEF Settle, Beside, EndpointsInv, Places, Charged
<1>b. usage' = Usage
    BY <1>a, FirstEntry DEF Usage
<1>c. Usage' = Usage /\ Charge(path)' = Charge(path) /\ Status(path)' = Status(path)
    BY <1>a DEF Usage, Charge, Status, settings
<1>1. EType'
    BY <1>a DEF EndpointsInv, EType, Reset
<1>2. Flags'
    BY <1>a DEF EndpointsInv, Flags, settings
<1>3. Places'
    BY <1>a DEF EndpointsInv, Places, Asking, ClosedAfterOutput
<1>4. Charged'
  <2>1. usage' # <<>> => usage' = <<Charge(path)>>
      BY <1>b DEF Usage
  <2>2. path \in {"success", "closed"} => turn.ended \/ turn.messageDone \/ turn.toolDone
      BY <1>a DEF EndpointsInv, Places, ClosedAfterOutput
  <2> QED
      BY <1>a, <1>c, <2>1, <2>2 DEF Charged
<1>5. Once'
  <2>1. ~dbFailed => counted = <<>> /\ frames \in {<<>>, <<"done">>, <<"error">>} /\ (path = "fail" => frames = <<>>)
      BY <1>a DEF EndpointsInv, Once, Uncounted
  <2>2. ~dbFailed => counted' = <<Status(path)>>
      BY <1>a, <2>1, FirstEntry
  <2> QED
      BY <1>a, <1>c, <2>1, <2>2 DEF Once, Uncounted
<1>6. Entered'
  <2> SUFFICES ASSUME ~dbFailed', ~cancelled'
      PROVE    Entered'
      BY DEF Entered
  <2>1. records = Entry /\ logs = Entry /\ counted = <<>>
      BY <1>a DEF EndpointsInv, Entered, Once, Uncounted
  <2>2. counted' = Entry /\ Entry' = Entry
      BY <1>a, <1>c, <2>1, FirstEntry DEF Entry
  <2> QED
      BY <1>a, <1>b, <1>c, <2>1, <2>2 DEF Entered
<1>7. Breaker'
  <2>1. tracked' = tracked /\ Reset = IF tracked THEN 0 ELSE toolOnly
      BY <1>a DEF Reset, settings
  <2> QED
      BY <1>a, <2>1 DEF EndpointsInv, Breaker, Before, Numbered, OnlyTools, Asking
<1> QED
    BY <1>1, <1>2, <1>3, <1>4, <1>5, <1>6, <1>7 DEF EndpointsInv

LEMMA SettleFailsKeeps ==
    ASSUME EndpointsInv, Beside, SettleFails
    PROVE  EndpointsInv'
<1>a. /\ pc = "settle" /\ dbFailed' = TRUE /\ stage = "streaming" /\ stage' = "streaming" /\ usage = <<>>
      /\ path \in {"success", "closed", "cancel", "fail"}
      /\ IF path = "success" THEN pc' = "log" /\ path' = "fail" ELSE pc' = "closing" /\ path' = path
      /\ UNCHANGED <<turn, settings, row, scope, stopping, records, logs, usage, toolOnly, frames, cancelled,
                     req, todo, stripped, streak, since, turns>>
    BY DEF SettleFails, Beside, EndpointsInv, Places, Charged
<1>1. EType'
    BY <1>a DEF EndpointsInv, EType
<1>2. Flags'
    BY <1>a DEF EndpointsInv, Flags, settings
<1>3. Places'
    BY <1>a DEF EndpointsInv, Places, Asking, ClosedAfterOutput
<1>4. Charged' /\ Once' /\ Entered'
    BY <1>a DEF Charged, Once, Entered
<1>5. Breaker'
    BY <1>a DEF EndpointsInv, Breaker, Before, Numbered, OnlyTools, Asking, settings
<1> QED
    BY <1>1, <1>2, <1>3, <1>4, <1>5 DEF EndpointsInv

LEMMA SendErrorFrameKeeps ==
    ASSUME EndpointsInv, Beside, SendErrorFrame
    PROVE  EndpointsInv'
<1>a. /\ pc = "error_frame" /\ pc' = "closing" /\ path = "fail" /\ stage = "streaming" /\ stage' = "streaming"
      /\ frames' \in {frames, Append(frames, "error")}
      /\ UNCHANGED <<turn, path, settings, row, scope, stopping, ledgers, toolOnly, cancelled, dbFailed,
                     req, todo, stripped, streak, since, turns>>
    BY DEF SendErrorFrame, Beside, EndpointsInv, Places
<1>1. EType'
    BY <1>a DEF EndpointsInv, EType
<1>2. Flags'
    BY <1>a DEF EndpointsInv, Flags, settings
<1>3. Places'
    BY <1>a DEF EndpointsInv, Places, Asking, ClosedAfterOutput
<1>4. Charged'
    BY <1>a DEF EndpointsInv, Charged, Charge, Status, settings, ledgers
<1>5. Once'
  <2>1. ~dbFailed => frames' \in {<<>>, <<"error">>}
      BY <1>a, FirstEntry DEF EndpointsInv, Once
  <2> QED
      BY <1>a, <2>1 DEF EndpointsInv, Once, Uncounted, Status, settings, ledgers
<1>6. Entered'
    BY <1>a DEF EndpointsInv, Entered, Entry, Usage, Charge, Status, settings, ledgers
<1>7. Breaker'
    BY <1>a DEF EndpointsInv, Breaker, Before, Numbered, OnlyTools, Asking, settings
<1> QED
    BY <1>1, <1>2, <1>3, <1>4, <1>5, <1>6, <1>7 DEF EndpointsInv

LEMMA CloseKeeps ==
    ASSUME EndpointsInv, Beside, Close
    PROVE  EndpointsInv'
<1>a. /\ pc = "closing" /\ pc' = "over" /\ stage = "streaming" /\ stage' = "over" /\ req.stream
      /\ path \in {"success", "closed", "cancel", "fail"}
      /\ UNCHANGED <<turn, path, settings, row, scope, stopping, ledgers, toolOnly, frames, cancelled, dbFailed,
                     req, todo, stripped, streak, since, turns>>
    BY DEF Close, Beside, EndpointsInv, Places
<1>1. EType'
    BY <1>a DEF EndpointsInv, EType
<1>2. Flags'
    BY <1>a DEF EndpointsInv, Flags, settings
<1>3. Places'
    BY <1>a DEF EndpointsInv, Places, Asking, ClosedAfterOutput
<1>4. Charged'
    BY <1>a DEF EndpointsInv, Charged, Charge, Status, settings, ledgers
<1>5. Once'
    BY <1>a DEF EndpointsInv, Once, Uncounted, Status, settings, ledgers
<1>6. Entered'
    BY <1>a DEF EndpointsInv, Entered, Entry, Usage, Charge, Status, settings, ledgers
<1>7. Breaker'
  <2>1. Told <=> tracked
      BY <1>a DEF EndpointsInv, Breaker, Told
  <2>2. Ahead
    <3>1. CASE ~tracked
        BY <1>a, <2>1, <3>1 DEF EndpointsInv, EType, Breaker, Before, Ahead, NextStreak, NextSince,
               EndedWell
    <3>2. CASE tracked /\ path # "success" /\ toolOnly = 0
        BY <1>a, <2>1, <3>2 DEF EndpointsInv, EType, Breaker, Ahead, NextStreak, NextSince, EndedWell
    <3>3. CASE tracked /\ (turn.messageDone \/ turn.ended) /\ Numbered
        BY <1>a, <2>1, <3>3 DEF EndpointsInv, EType, Breaker, Numbered, Ahead, NextStreak,
               NextSince, EndedWell, OnlyTools
    <3>4. CASE tracked /\ ~turn.ended /\ Before
        BY <1>a, <2>1, <3>4 DEF EndpointsInv, EType, Breaker, Before, Ahead, NextStreak, NextSince,
               EndedWell
    <3> QED
        BY <1>a, <3>1, <3>2, <3>3, <3>4 DEF EndpointsInv, Breaker
  <2>3. Ahead'
      BY <1>a, <2>2 DEF Ahead, NextStreak, NextSince, OnlyTools, EndedWell, Told, Plain
  <2> QED
      BY <1>a, <2>3 DEF EndpointsInv, Breaker, Asking
<1> QED
    BY <1>1, <1>2, <1>3, <1>4, <1>5, <1>6, <1>7 DEF EndpointsInv

LEMMA StreamingKeeps ==
    ASSUME EndpointsInv, Streaming
    PROVE  EndpointsInv'
<1>1. Beside /\ StreamNext
    BY DEF Streaming, Beside
<1>2. CASE \E e \in Kinds : Event(e)
    BY <1>1, <1>2, EventKeeps
<1>3. CASE UpstreamRaises \/ ClientCloses \/ ScopeCancelled \/ AwaitRefused \/ TaskCancelled
    BY <1>1, <1>3, InterruptsIs, InterruptsKeeps
<1>4. CASE Rendered \/ ServerStops \/ WriteRecord \/ WriteLog
    BY <1>1, <1>4, RenderedKeeps, ServerStopsKeeps, WriteRecordKeeps, WriteLogKeeps
<1>5. CASE Settle \/ SettleFails \/ SendErrorFrame \/ Close
    BY <1>1, <1>5, SettleKeeps, SettleFailsKeeps, SendErrorFrameKeeps, CloseKeeps
<1> QED
    BY <1>1, <1>2, <1>3, <1>4, <1>5 DEF StreamNext

----------------------------------------------------------------------------
(* The theorems.                                                            *)

\* The invariant holds initially, and along every step.
LEMMA InvBegins == EndpointsInit => EndpointsInv
<1> SUFFICES ASSUME EndpointsInit
    PROVE    EndpointsInv
    OBVIOUS
<1>1. Unread \in Reqs
    BY DEF Unread, Reqs
<1>2. EType
    BY <1>1, SilenceIs DEF EndpointsInit, EType
<1>3. Flags
    BY DEF EndpointsInit, Flags
<1>4. Places
    BY DEF EndpointsInit, Places, Asking
<1>5. Charged /\ Once /\ Entered
    BY DEF EndpointsInit, Charged, Once, Uncounted, Entered
<1>6. Breaker
    BY DEF EndpointsInit, Breaker, Before, Asking
<1> QED
    BY <1>2, <1>3, <1>4, <1>5, <1>6 DEF EndpointsInv

LEMMA InvStutters ==
    ASSUME EndpointsInv, UNCHANGED endpointVars
    PROVE  EndpointsInv'
<1>a. UNCHANGED <<pc, turn, path, settings, row, scope, stopping, ledgers, toolOnly, frames, cancelled, dbFailed,
                  stage, req, todo, stripped, streak, since, turns>>
    BY DEF endpointVars, streamVars, handlerVars
<1>1. EType'
    BY <1>a DEF EndpointsInv, EType
<1>2. Flags'
    BY <1>a DEF EndpointsInv, Flags, settings
<1>3. Places'
    BY <1>a DEF EndpointsInv, Places, Asking, ClosedAfterOutput
<1>4. Charged'
    BY <1>a DEF EndpointsInv, Charged, Charge, Status, settings, ledgers
<1>5. Once'
    BY <1>a DEF EndpointsInv, Once, Uncounted, Status, settings, ledgers
<1>6. Entered'
    BY <1>a DEF EndpointsInv, Entered, Due, Begun, LeftBefore, LeftAfter, RowLeft, Entry, Usage,
           Charge, Status, settings, ledgers
<1>7. Breaker'
    BY <1>a DEF EndpointsInv, Breaker, Before, Ahead, Numbered, NextStreak, NextSince, EndedWell,
           Told, Plain, OnlyTools, Asking, settings
<1> QED
    BY <1>1, <1>2, <1>3, <1>4, <1>5, <1>6, <1>7 DEF EndpointsInv

LEMMA InvHolds ==
    ASSUME EndpointsInv, EndpointsNext
    PROVE  EndpointsInv'
<1>0. EType /\ Places
    BY DEF EndpointsInv
<1>1. CASE RefuseUnread \/ RefuseModel
    BY <1>0, <1>1, RefusesIs, RefusesKeeps
<1>2. CASE TurnedAway
  <2>1. Leaves
      BY <1>2 DEF TurnedAway, Goes, Leaves
  <2> QED
      BY <2>1, LeavesKeeps
<1>3. CASE ChatEnters \/ CompletionsEnter \/ MessagesEnter \/ ResponsesEnter \/ Images
    BY <1>0, <1>3, ReadsIs, ReadsKeeps
<1>4. CASE ChatStreams \/ ResponsesStream \/ (ResponsesPassThrough /\ req.stream)
  <2>1. Streams(TRUE) /\ req.stream /\ stage = "calling" /\ req.endpoint \in {"chat", "responses"}
      BY <1>4 DEF ChatStreams, ResponsesStream, ResponsesPassThrough, Calling
  <2>2. BeginsStream \/ Leaves
      BY <1>0, <2>1, StreamsIs
  <2> QED
      BY <2>2, BeginsStreamKeeps, LeavesKeeps
<1>5. CASE CompletionsStream \/ MessagesStream
  <2>1. Streams(FALSE) /\ req.stream /\ stage = "calling" /\ req.endpoint \notin {"chat", "responses"}
      BY <1>5 DEF CompletionsStream, MessagesStream, Calling
  <2>2. BeginsStream \/ Leaves
      BY <1>0, <2>1, StreamsIs
  <2> QED
      BY <2>2, BeginsStreamKeeps, LeavesKeeps
<1>6. CASE ChatPassesThrough \/ CompletionsAnswer \/ MessagesAnswer \/ ExplicitImages \/ ImagesAnswer
              \/ (ResponsesPassThrough /\ ~req.stream) \/ NativeServes
    BY <1>0, <1>6, AnswersIs, AnswersUnheardKeeps, LeavesKeeps
<1>7. CASE ChatAnswers \/ ResponsesAnswer
    BY <1>0, <1>7, HeardIs, AnswersHeardKeeps
<1>8. CASE ChatRaises \/ CompletionsRaise \/ MessagesRaise \/ ResponsesRaise
    BY <1>0, <1>8, RaisesIs, RaisesSomeKeeps
<1>9. CASE ResponsesBridge \/ ResponsesTranslated
    BY <1>0, <1>9, AsksModelIs, AsksModelKeeps
<1>10. CASE BridgeBegins \/ ChatBridgeStreams
    BY <1>10, BridgeBeginsKeeps, ChatBridgeStreamsKeeps
<1>11. CASE ChatBridgeAnswers \/ ResponsesBridgeAnswers
    BY <1>11, BridgeAnswersKeeps DEF ChatBridgeAnswers, ResponsesBridgeAnswers
<1>12. CASE Book \/ CountSuccess \/ CountFailure \/ BookRefusal \/ Cancelled
    BY <1>12, BookKeeps, CountSuccessKeeps, CountFailureKeeps, BookRefusalKeeps, CancelledKeeps
<1>13. CASE Streaming \/ Forget \/ NextTurn
    BY <1>13, StreamingKeeps, ForgetKeeps, NextTurnKeeps
<1>14. CASE Over
    BY <1>14, InvStutters DEF Over
<1> QED
    BY <1>1, <1>2, <1>3, <1>4, <1>5, <1>6, <1>7, <1>8, <1>9, <1>10, <1>11, <1>12, <1>13, <1>14
       DEF EndpointsNext

\* The inductive invariant of the endpoints: what has been written at each place
\* of a handler or a stream, and how far the counter of the breaker is.
THEOREM EndpointsSafe == EndpointsSpec => []EndpointsInv
<1>1. EndpointsInit => EndpointsInv
    BY InvBegins
<1>2. EndpointsInv /\ [EndpointsNext]_endpointVars => EndpointsInv'
    BY InvHolds, InvStutters
<1> QED
    BY <1>1, <1>2, PTL DEF EndpointsSpec

\* Every request that is neither cancelled nor met by a failed write is entered
\* once in each of the four ledgers, with one status (_log_request_async,
\* _record_success_metrics, stream_internal_output).
THEOREM LedgersSafe == EndpointsSpec => []LedgersAgree
<1>1. EndpointsInv => LedgersAgree
  <2> SUFFICES ASSUME EndpointsInv
      PROVE    LedgersAgree
      OBVIOUS
  <2>1. ASSUME ~dbFailed
        PROVE  Len(counted) <= 1 /\ Len(usage) <= 1 /\ Len(frames) <= 1
    <3>1. counted \in {<<>>, <<Status(path)>>} /\ frames \in {<<>>, <<"done">>, <<"error">>}
        BY <2>1 DEF EndpointsInv, Once
    <3>2. usage = <<>> \/ usage = <<Charge(path)>>
        BY DEF EndpointsInv, Charged
    <3>3. Len(counted) <= 1
        BY <3>1, ShortLedger
    <3>4. Len(usage) <= 1
        BY <3>2, ShortLedger
    <3>5. Len(frames) <= 1
        BY <3>1, ShortLedger
    <3> QED
        BY <3>3, <3>4, <3>5
  <2>2. ASSUME stage = "over", ~dbFailed, ~cancelled
        PROVE  IF path = "none" THEN ledgers = << <<>>, <<>>, <<>>, <<>> >>
               ELSE LET entry == <<Status(path)>> IN
                    /\ records = entry /\ counted = entry /\ logs \in {entry, <<"running", Status(path)>>}
                    /\ usage = IF billed /\ req.endpoint # "none" THEN <<Charge(path)>> ELSE <<>>
                    /\ logs # entry => path \in {"rejected", "fail"} /\ req.image = "bridge"
                                       /\ (req.stream => req.endpoint = "responses")
      BY <2>2 DEF EndpointsInv, Entered, Entry, Usage, LeftAfter, RowLeft
  <2> QED
      BY <2>1, <2>2 DEF LedgersAgree
<1> QED
    BY <1>1, EndpointsSafe, PTL

\* A user is charged only for an answer there was (closed_after_output,
\* increment_user_usage).
THEOREM ChargesSafe == EndpointsSpec => []ChargedForFinished
<1>1. EndpointsInv => ChargedForFinished
  <2> SUFFICES ASSUME EndpointsInv, NEW i \in DOMAIN usage, usage[i].charged
      PROVE    turn.ended \/ turn.messageDone \/ turn.toolDone
      BY DEF ChargedForFinished
  <2>1. usage = <<Charge(path)>> /\ (path \in {"success", "closed"} => turn.ended \/ turn.messageDone \/ turn.toolDone)
    <3>1. usage # <<>>
        OBVIOUS
    <3> QED
        BY <3>1 DEF EndpointsInv, Charged
  <2>2. usage[i] = Charge(path)
      BY <2>1
  <2>3. Charge(path).charged <=> path \in {"success", "closed"}
      BY DEF Charge
  <2> QED
      BY <2>1, <2>2, <2>3
<1> QED
    BY <1>1, EndpointsSafe, PTL

\* The tools are taken after Limit turns of tools alone, and from every such
\* turn on (tool_only_turns, prepare_request_policy).
THEOREM BreakerSafe == EndpointsSpec => []BreakerFollowsTurns
<1>1. EndpointsInv => BreakerFollowsTurns
    BY DEF EndpointsInv, Breaker, BreakerFollowsTurns
<1> QED
    BY <1>1, EndpointsSafe, PTL
=============================================================================
