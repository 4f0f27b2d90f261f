---------------------------- MODULE StreamBridge ----------------------------
(***************************************************************************)
(* app/adapters/streaming.py, iter_stream_async: a synchronous upstream    *)
(* generator is run by a worker thread (the producer) and its chunks are   *)
(* handed to a coroutine on the event loop (the consumer) over a bounded   *)
(* queue.  The producer wakes the loop with call_soon_threadsafe, at most  *)
(* once per disarm of the latch "armed"; the end of the stream is told     *)
(* twice, by a sentinel in the queue and by the flag "producer_done".      *)
(*                                                                         *)
(* Every step below is one operation on a shared object (Queue, Event) as  *)
(* the two threads perform it: between any two of them the other thread    *)
(* may run.  The event loop is a third actor, but it only runs callbacks   *)
(* while the consumer is suspended.                                        *)
(***************************************************************************)
EXTENDS Integers, Sequences

CONSTANTS
    MaxChunks,      \* bound on the chunks the upstream produces
    QueueMax,       \* _STREAM_QUEUE_MAXSIZE
    DrainBatch      \* _STREAM_DRAIN_BATCH

ASSUME MaxChunksAssumption == MaxChunks \in Nat
ASSUME QueueMaxAssumption == QueueMax \in Nat \ {0}
ASSUME DrainBatchAssumption == DrainBatch \in Nat \ {0}

VARIABLES
    ppc,            \* where the producer thread is
    after,          \* where the producer goes after its current offer or notify
    made,           \* chunks pulled from the upstream so far; the last is chunk number made
    error,          \* the nonlocal "error": the upstream raised
    upstream,       \* "none", "open", "closed": the upstream generator and its transport
    queue,          \* handoff
    armed,          \* the wake-up latch
    wakes,          \* data_ready.set callbacks queued on the loop
    dataReady,      \* the asyncio.Event
    producerDone,
    cancel,
    cpc,            \* where the consumer coroutine is
    drained,        \* chunks moved in this batch
    delivered,      \* history: the chunks yielded to the caller
    outcome         \* how the async generator ended

producerVars == <<ppc, after, made, error, upstream, producerDone>>
consumerVars == <<cpc, drained, delivered, outcome, cancel>>
wakeVars     == <<armed, wakes, dataReady>>
vars         == <<producerVars, consumerVars, wakeVars, queue>>

Sentinel == 0       \* _STREAM_SENTINEL; chunks are numbered from 1

ProducerPC == {"start", "pull", "check", "offer", "put", "latched", "arm", "call",
               "close", "final", "done", "exit"}
ConsumerPC == {"drain", "yielded", "breathe", "disarm", "recheck", "isdone",
               "wait", "finish", "gone"}

TypeOK ==
    /\ ppc \in ProducerPC
    /\ after \in {"pull", "done", "exit"}
    /\ made \in 0..MaxChunks
    /\ error \in BOOLEAN
    /\ upstream \in {"none", "open", "closed"}
    /\ queue \in Seq(0..MaxChunks)
    /\ Len(queue) <= QueueMax
    /\ armed \in BOOLEAN
    /\ wakes \in Nat
    /\ dataReady \in BOOLEAN
    /\ producerDone \in BOOLEAN
    /\ cancel \in BOOLEAN
    /\ cpc \in ConsumerPC
    /\ drained \in 0..DrainBatch
    /\ delivered \in Seq(1..MaxChunks)
    /\ outcome \in {"running", "ended", "raised", "abandoned"}

Init ==
    /\ ppc = "start" /\ after = "pull" /\ made = 0 /\ error = FALSE
    /\ upstream = "none" /\ queue = <<>>
    /\ armed = FALSE /\ wakes = 0 /\ dataReady = FALSE
    /\ producerDone = FALSE /\ cancel = FALSE
    /\ cpc = "drain" /\ drained = 0 /\ delivered = <<>> /\ outcome = "running"

----------------------------------------------------------------------------
(* The producer thread: _run, _offer and _notify.                          *)

ProducerAt(pc, next) == ppc = pc /\ ppc' = next

\* stream_func() returns the generator, or raises before there is one to close.
POpen ==
    /\ \/ ProducerAt("start", "pull") /\ upstream' = "open" /\ UNCHANGED error
       \/ ProducerAt("start", "final") /\ error' = TRUE /\ UNCHANGED upstream
    /\ UNCHANGED <<after, made, producerDone, consumerVars, wakeVars, queue>>

\* The blocking read of the next chunk: a chunk, the end, or an exception.
PPull ==
    /\ \/ /\ made < MaxChunks
          /\ ProducerAt("pull", "check") /\ made' = made + 1
          /\ UNCHANGED error
       \/ ProducerAt("pull", "close") /\ UNCHANGED <<made, error>>
       \/ ProducerAt("pull", "close") /\ error' = TRUE /\ UNCHANGED made
    /\ UNCHANGED <<after, upstream, producerDone, consumerVars, wakeVars, queue>>

\* if cancel.is_set(): break
PCheck ==
    /\ ProducerAt("check", IF cancel THEN "close" ELSE "offer")
    /\ UNCHANGED <<after, made, error, upstream, producerDone, consumerVars, wakeVars, queue>>

\* Slip: the offer does not look at cancel.
POfferDeaf ==
    /\ ProducerAt("offer", "put")
    /\ UNCHANGED <<after, made, error, upstream, producerDone, consumerVars, wakeVars, queue>>

\* while not cancel.is_set(); a refused chunk breaks the loop, a refused
\* sentinel is given up and its notify still runs.
POffer ==
    /\ ProducerAt("offer", IF ~cancel THEN "put"
                           ELSE IF after = "pull" THEN "close" ELSE "latched")
    /\ UNCHANGED <<after, made, error, upstream, producerDone, consumerVars, wakeVars, queue>>

\* Slip: the hand-off is a LIFO queue.
PPutLifo ==
    /\ \/ /\ Len(queue) < QueueMax
          /\ ProducerAt("put", "latched")
          /\ queue' = <<IF after = "pull" THEN made ELSE Sentinel>> \o queue
       \/ /\ Len(queue) = QueueMax
          /\ ProducerAt("put", "offer") /\ UNCHANGED queue
    /\ UNCHANGED <<after, made, error, upstream, producerDone, consumerVars, wakeVars>>

\* handoff.put(item, timeout=poll_interval): stored, or Full and tried again.
PPut ==
    /\ \/ /\ Len(queue) < QueueMax
          /\ ProducerAt("put", "latched")
          /\ queue' = Append(queue, IF after = "pull" THEN made ELSE Sentinel)
       \/ /\ Len(queue) = QueueMax
          /\ ProducerAt("put", "offer") /\ UNCHANGED queue
    /\ UNCHANGED <<after, made, error, upstream, producerDone, consumerVars, wakeVars>>

\* _notify: if armed.is_set(): return
PLatched ==
    /\ ProducerAt("latched", IF armed THEN after ELSE "arm")
    /\ UNCHANGED <<after, made, error, upstream, producerDone, consumerVars, wakeVars, queue>>

\* _notify: armed.set()
PArm ==
    /\ ProducerAt("arm", "call") /\ armed' = TRUE
    /\ UNCHANGED <<after, made, error, upstream, producerDone, consumerVars, wakes, dataReady, queue>>

\* _notify: loop.call_soon_threadsafe(data_ready.set)
PCall ==
    /\ ProducerAt("call", after) /\ wakes' = wakes + 1
    /\ UNCHANGED <<after, made, error, upstream, producerDone, consumerVars, armed, dataReady, queue>>

\* The generator's close() and _close_upstream_transport, in this thread.
PClose ==
    /\ ProducerAt("close", "final") /\ upstream' = "closed"
    /\ UNCHANGED <<after, made, error, producerDone, consumerVars, wakeVars, queue>>

\* if not cancel.is_set(): _offer(SENTINEL); _notify()
PFinal ==
    /\ ProducerAt("final", IF cancel THEN "done" ELSE "offer")
    /\ after' = "done"
    /\ UNCHANGED <<made, error, upstream, producerDone, consumerVars, wakeVars, queue>>

\* producer_done.set(); _notify()
PDone ==
    /\ ProducerAt("done", "latched") /\ producerDone' = TRUE
    /\ after' = "exit"
    /\ UNCHANGED <<made, error, upstream, consumerVars, wakeVars, queue>>

ProducerStep ==     \* everything but the upstream's answers
    PCheck \/ POffer \/ PPut \/ PLatched \/ PArm \/ PCall \/ PClose \/ PFinal \/ PDone

----------------------------------------------------------------------------
(* The consumer coroutine.                                                 *)

ConsumerAt(pc, next) == cpc = pc /\ cpc' = next

\* Slip: the sentinel is looked at, left in the queue and passed over.
CDrainPeeks ==
    /\ \/ /\ queue # <<>> /\ Head(queue) # Sentinel
          /\ ConsumerAt("drain", "yielded")
          /\ drained' = drained + 1
          /\ delivered' = Append(delivered, Head(queue))
          /\ queue' = Tail(queue)
       \/ /\ ~(queue # <<>> /\ Head(queue) # Sentinel)
          /\ ConsumerAt("drain", "disarm") /\ UNCHANGED <<drained, delivered, queue>>
    /\ UNCHANGED <<outcome, cancel, producerVars, wakeVars>>

\* handoff.get_nowait(): a chunk is yielded, the sentinel ends the stream,
\* and an empty queue leads to the disarm.
CDrain ==
    /\ \/ /\ queue # <<>> /\ Head(queue) # Sentinel
          /\ ConsumerAt("drain", "yielded")
          /\ drained' = drained + 1
          /\ delivered' = Append(delivered, Head(queue))
          /\ queue' = Tail(queue)
       \/ /\ queue # <<>> /\ Head(queue) = Sentinel
          /\ ConsumerAt("drain", "finish")
          /\ drained' = drained + 1
          /\ queue' = Tail(queue) /\ UNCHANGED delivered
       \/ /\ queue = <<>>
          /\ ConsumerAt("drain", "disarm") /\ UNCHANGED <<drained, delivered, queue>>
    /\ UNCHANGED <<outcome, cancel, producerVars, wakeVars>>

\* The caller asks for the next chunk; a full batch lets the loop breathe.
CResume ==
    /\ ConsumerAt("yielded", IF drained >= DrainBatch THEN "breathe" ELSE "drain")
    /\ UNCHANGED <<drained, delivered, outcome, cancel, producerVars, wakeVars, queue>>

\* await asyncio.sleep(0); continue
CBreathe ==
    /\ ConsumerAt("breathe", "drain") /\ drained' = 0
    /\ UNCHANGED <<delivered, outcome, cancel, producerVars, wakeVars, queue>>

\* armed.clear()
CDisarm ==
    /\ ConsumerAt("disarm", "recheck") /\ armed' = FALSE
    /\ UNCHANGED <<drained, delivered, outcome, cancel, producerVars, wakes, dataReady, queue>>

\* Slip: the queue is not looked at again once the latch is cleared.
CRecheckSkipped ==
    /\ ConsumerAt("recheck", "isdone")
    /\ UNCHANGED <<drained, delivered, outcome, cancel, producerVars, wakeVars, queue>>

\* if not handoff.empty(): continue
CRecheck ==
    /\ ConsumerAt("recheck", IF queue = <<>> THEN "isdone" ELSE "drain")
    /\ drained' = IF queue = <<>> THEN drained ELSE 0
    /\ UNCHANGED <<delivered, outcome, cancel, producerVars, wakeVars, queue>>

\* if producer_done.is_set(): break
CIsDone ==
    /\ ConsumerAt("isdone", IF producerDone THEN "finish" ELSE "wait")
    /\ UNCHANGED <<drained, delivered, outcome, cancel, producerVars, wakeVars, queue>>

\* data_ready.wait() returns; data_ready.clear() follows with no await between.
CWoken ==
    /\ dataReady
    /\ ConsumerAt("wait", "drain") /\ drained' = 0 /\ dataReady' = FALSE
    /\ UNCHANGED <<delivered, outcome, cancel, producerVars, armed, wakes, queue>>

\* wait_for gives up after poll_interval.
CPollTimeout ==
    /\ ConsumerAt("wait", "drain") /\ drained' = 0 /\ dataReady' = FALSE
    /\ UNCHANGED <<delivered, outcome, cancel, producerVars, armed, wakes, queue>>

\* if error: raise error; and the finally clause sets cancel.
CFinish ==
    /\ ConsumerAt("finish", "gone")
    /\ outcome' = IF error THEN "raised" ELSE "ended"
    /\ cancel' = TRUE
    /\ UNCHANGED <<drained, delivered, producerVars, wakeVars, queue>>

\* The caller closes the generator or its task is cancelled at a suspension point.
CAbandon ==
    /\ cpc \in {"yielded", "breathe", "wait"} /\ cpc' = "gone"
    /\ outcome' = "abandoned" /\ cancel' = TRUE
    /\ UNCHANGED <<drained, delivered, producerVars, wakeVars, queue>>

\* The loop runs a queued data_ready.set while the consumer is suspended.
LoopTick ==
    /\ wakes > 0
    /\ cpc \in {"yielded", "breathe", "wait", "gone"}
    /\ wakes' = wakes - 1 /\ dataReady' = TRUE
    /\ UNCHANGED <<armed, producerVars, consumerVars, queue>>

ConsumerStep ==
    CDrain \/ CResume \/ CBreathe \/ CDisarm \/ CRecheck \/ CIsDone \/ CWoken \/ CFinish

\* The thread has returned and the coroutine is closed: nothing is left to run.
Finished == ppc = "exit" /\ cpc = "gone" /\ wakes = 0 /\ UNCHANGED vars

Next == \/ POpen \/ PPull \/ ProducerStep
        \/ ConsumerStep \/ CPollTimeout \/ CAbandon
        \/ LoopTick \/ Finished

Spec == Init /\ [][Next]_vars

(***************************************************************************)
(* Fairness.  Both threads are scheduled and the loop runs its callbacks.  *)
(* Nothing makes the upstream answer, the caller leave, or the poll expire *)
(* first: FairSpec asks for none of those, so what it promises holds with  *)
(* the wake-ups alone.                                                     *)
(***************************************************************************)
FairSpec == /\ Spec
            /\ WF_vars(ProducerStep) /\ WF_vars(ConsumerStep) /\ WF_vars(LoopTick)

----------------------------------------------------------------------------
(* Properties.                                                             *)

ChunksIn(q) == IF q # <<>> /\ q[Len(q)] = Sentinel THEN Len(q) - 1 ELSE Len(q)

\* The chunk the producer holds: pulled, not yet in the queue.
InHand == IF ppc \in {"check", "offer", "put"} /\ after = "pull"  THEN 1 ELSE 0

\* The caller receives the upstream's chunks in order with none skipped or
\* repeated, and the queue continues exactly where it stopped, whatever the
\* interleaving of full-queue retries, batches and cancellation.
InOrder ==
    /\ \A i \in 1..Len(delivered) : delivered[i] = i
    /\ \A i \in 1..ChunksIn(queue) : queue[i] = Len(delivered) + i

\* As long as nobody cancelled, every pulled chunk is delivered, queued or in
\* the producer's hand: the handoff itself loses nothing.
Conserved ==
    ~cancel => Len(delivered) + ChunksIn(queue) + InHand = made

\* The latch never swallows a wake-up: when the coroutine sleeps on data_ready
\* with something to collect, the event is set, a callback that sets it is on
\* its way, or the producer has still to notify.  (The comment at
\* streaming.py:174; the poll interval is not what saves the stream.)
NoLostWakeup ==
    cpc = "wait" /\ (queue # <<>> \/ producerDone) =>
        dataReady \/ wakes > 0 \/ ppc \in {"latched", "arm", "call"}

\* When the worker thread has returned, the upstream generator it opened and
\* its transport are closed, however the thread left its loop (S5).
ReleasedAtExit == producerDone => upstream # "open"

\* Once the producer has finished, the consumer ends (or was abandoned) with
\* no help from the poll interval.
EndReachesConsumer == producerDone ~> cpc = "gone"

UpstreamAnswers == WF_vars(POpen) /\ WF_vars(PPull)

\* A stream nobody reads any more is released as soon as the upstream answers.
AbandonedIsReleased == UpstreamAnswers => (cancel ~> (ppc = "exit" /\ upstream # "open"))
=============================================================================
