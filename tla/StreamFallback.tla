--------------------------- MODULE StreamFallback ---------------------------
(***************************************************************************)
(* app/router/proxy.py, _stream_events_with_fallbacks: one streamed        *)
(* request tries its primary target and, by policy, the targets of a       *)
(* fallback chain.  Two nested wrappers put clocks on each attempt:        *)
(* _iter_events_with_first_output_timeout until the first output, and      *)
(* iter_output_idle_timeout (core/streaming.py) after it.                  *)
(*                                                                         *)
(* The coroutine is alone; what interleaves with it is the upstream, the   *)
(* two clocks, and the client, which may leave at every yield or await.    *)
(* An event is abstracted to its kind:                                     *)
(*   "dots"   a text delta of placeholder punctuation only                 *)
(*   "blank"  a text delta of white space only                             *)
(*   "text"   any other text delta                                         *)
(*   "tool"   a tool-call or reasoning event, visible and not text         *)
(*   "meta"   an event the client does not see (usage, metadata, ...)      *)
(*   "done"   message_done                                                 *)
(***************************************************************************)
EXTENDS Integers, Sequences, SequencesExt, Subsequences

CONSTANTS
    MaxFallbacks,   \* bound on the targets a chain adds to the primary
    RetryLimit,     \* same_target_retry_limit
    MaxEvents       \* bound on the events one attempt produces

ASSUME FallbackAssumption ==
    MaxFallbacks \in Nat /\ RetryLimit \in 0..3 /\ MaxEvents \in Nat

Kinds == {"dots", "blank", "text", "tool", "meta", "done"}

\* How an attempt fails, as the except branch sees it.
Errors == {"transient", "permanent", "timeout", "attempt_timeout", "idle_timeout", "empty"}

VARIABLES
    pc,             \* "prepare", "start", "reading", "yielding", "handling", "over"
    index,          \* position in targets; 0 is the primary
    chain,          \* Len(targets) - 1 once a policy has extended the targets
    budget,         \* budget.matched: a policy with a chain exists for the primary
    armedBudget,    \* attempt_timeout is set
    idleOn,         \* stream_idle_timeout_seconds > 0
    tries,          \* attempts started; the current one has this number
    degenerate,     \* degenerate_retries[target_identity(targets[index])]
    retries,        \* same_target_retries[target_identity(targets[index])]
    pending,        \* pending_events
    outbox,         \* events of this attempt on their way through yield
    emitted,
    terminal,       \* terminal_event is set
    clockStarted,   \* "emitted" of the first-output wrapper
    idleStarted,    \* "started" of the idle wrapper
    err,            \* the exception being handled
    opened,         \* upstream streams opened and not closed
    client,         \* what the caller has received: records [by, event]
    outcome,        \* "open", "completed", "failed", "partial", "abandoned"
    received,       \* history: the events of the current attempt
    expired         \* history: target positions whose first-output budget ran out

requestVars == <<index, chain, budget, armedBudget, idleOn, tries, degenerate, retries>>
attemptVars == <<pending, emitted, terminal, clockStarted, idleStarted, received>>
vars == <<pc, requestVars, attemptVars, expired, outbox, err, opened, client, outcome>>

TypeOK ==
    /\ pc \in {"prepare", "start", "reading", "yielding", "handling", "over"}
    /\ index \in 0..(MaxFallbacks + 1) /\ chain \in 0..MaxFallbacks
    /\ budget \in BOOLEAN /\ armedBudget \in BOOLEAN /\ idleOn \in BOOLEAN
    /\ tries \in Nat /\ degenerate \in 0..1 /\ retries \in 0..RetryLimit
    /\ pending \in Seq(Kinds) /\ outbox \in Seq(Kinds) /\ received \in Seq(Kinds)
    /\ emitted \in BOOLEAN /\ terminal \in BOOLEAN
    /\ clockStarted \in BOOLEAN /\ idleStarted \in BOOLEAN
    /\ err \in Errors \union {"none"}
    /\ opened \in Nat
    /\ client \in Seq([by : Nat, event : Kinds])
    /\ outcome \in {"open", "completed", "failed", "partial", "abandoned"}
    /\ expired \subseteq 0..MaxFallbacks

Init ==
    /\ pc = "prepare" /\ index = 0 /\ chain = 0
    /\ budget \in BOOLEAN /\ armedBudget = budget /\ idleOn \in BOOLEAN
    /\ tries = 0 /\ degenerate = 0 /\ retries = 0
    /\ pending = <<>> /\ outbox = <<>> /\ received = <<>>
    /\ emitted = FALSE /\ terminal = FALSE
    /\ clockStarted = FALSE /\ idleStarted = FALSE
    /\ err = "none" /\ opened = 0 /\ client = <<>> /\ outcome = "open"
    /\ expired = {}

----------------------------------------------------------------------------
(* What the code asks of an event.                                         *)

TextKinds == {"dots", "blank", "text"}

\* _is_client_visible_stream_event
ClientVisible(e) == e \in TextKinds \union {"tool"}

\* _placeholder_only_stream_text of the concatenated texts, told by the kinds
\* among them: some punctuation and, white space apart, nothing else.
PlaceholderOnly(kinds) == "dots" \in kinds /\ "text" \notin kinds

\* Slip: whatever the upstream sends stops the first-output clock.
StartsClientClockAny(e) == TRUE

\* _stream_output_starts_client_clock
StartsClientClock(e) == ClientVisible(e) /\ ~PlaceholderOnly({e})

\* The test that withholds a text delta: pending texts and this one together.
Withheld(e) == ~emitted /\ e \in TextKinds /\ PlaceholderOnly(ToSet(pending) \union {e})

\* The events that are not placeholders, each judged on its own.
Substantial == {p \in Kinds : ~PlaceholderOnly({p})}

\* Slip (M-16): each pending event is judged on its own even when text follows.
FlushedOneByOne(e) == Only(pending, Substantial)

\* The pending events let through by the first visible event.
Flushed(e) == IF e \in TextKinds THEN pending ELSE Only(pending, Substantial)

\* _pending_stream_has_usable_payload
Usable(kinds) == \/ kinds \intersect TextKinds # {} /\ ~PlaceholderOnly(kinds)
                 \/ "tool" \in kinds

\* is_same_target_retryable; an empty stream or a gateway budget is not.
Retryable(error) == error \in {"transient", "timeout", "idle_timeout"}

\* classify_upstream_error(exc) = "timeout"
TimeoutTrigger(error) == error \in {"timeout", "attempt_timeout", "idle_timeout"}

\* A TimeoutError on its way out through the wrappers: the first-output wrapper
\* renames it while its clock runs, then the idle wrapper renames every one.
TimeoutSeenAs == IF idleOn THEN "idle_timeout"
                 ELSE IF armedBudget /\ ~clockStarted THEN "attempt_timeout"
                 ELSE "timeout"

----------------------------------------------------------------------------
(* One attempt.                                                            *)

\* _internal_for_target_attempt runs outside the try: an error of the image
\* preprocessing of a fallback ends the request at once.
Prepare ==
    /\ pc = "prepare"
    /\ \/ pc' = "start" /\ UNCHANGED outcome
       \/ index > 0 /\ pc' = "over" /\ outcome' = "failed"
    /\ UNCHANGED <<requestVars, attemptVars, expired, outbox, err, opened, client>>

\* The per-attempt locals are reset and the upstream stream is opened, or
\* building it fails.
Start ==
    /\ pc = "start"
    /\ tries' = tries + 1
    /\ emitted' = FALSE /\ pending' = <<>> /\ terminal' = FALSE
    /\ clockStarted' = FALSE /\ idleStarted' = FALSE
    /\ received' = <<>>
    /\ \/ pc' = "reading" /\ opened' = opened + 1 /\ UNCHANGED err
       \/ pc' = "handling" /\ err' \in {"transient", "permanent"} /\ UNCHANGED opened
    /\ UNCHANGED <<index, chain, budget, armedBudget, idleOn, degenerate, retries,
                   expired, outbox, client, outcome>>

\* An event comes through both wrappers and is held, dropped, or passed on.
Receive(e) ==
    /\ pc = "reading" /\ Len(received) < MaxEvents
    /\ received' = Append(received, e)
    /\ clockStarted' = (clockStarted \/ StartsClientClock(e))
    /\ idleStarted' = (idleStarted \/ ClientVisible(e))
    /\ IF e = "done" THEN
            /\ terminal' = TRUE
            /\ UNCHANGED <<pc, pending, outbox, emitted>>
       ELSE IF Withheld(e) \/ (~ClientVisible(e) /\ ~emitted) THEN
            /\ pending' = Append(pending, e)
            /\ UNCHANGED <<pc, outbox, emitted, terminal>>
       ELSE /\ outbox' = IF emitted THEN <<e>> ELSE Append(Flushed(e), e)
            /\ pending' = IF emitted THEN pending ELSE <<>>
            /\ emitted' = TRUE
            /\ pc' = "yielding"
            /\ UNCHANGED terminal
    /\ UNCHANGED <<requestVars, expired, err, opened, client, outcome>>

\* One yield to the caller.  The last yield of a successful attempt is the
\* terminal event, after which the generator returns and closes the upstream.
Yield ==
    /\ pc = "yielding" /\ outbox # <<>>
    /\ client' = Append(client, [by |-> tries, event |-> Head(outbox)])
    /\ outbox' = Tail(outbox)
    /\ pc' = IF Len(outbox) = 1 /\ Head(outbox) # "done" THEN "reading" ELSE "yielding"
    /\ UNCHANGED <<requestVars, attemptVars, expired, err, opened, outcome>>

\* The upstream ends: an attempt with no usable output is an error.
EndOfStream ==
    /\ pc = "reading"
    /\ IF ~emitted /\ ~Usable(ToSet(pending))
       THEN pc' = "handling" /\ err' = "empty" /\ UNCHANGED outbox
       ELSE pc' = "yielding" /\ outbox' = (IF terminal THEN <<"done">> ELSE <<>>)
            /\ UNCHANGED err
    /\ UNCHANGED <<requestVars, attemptVars, expired, opened, client, outcome>>

\* return, with the finally clause.
Succeed ==
    /\ pc = "yielding" /\ outbox = <<>>
    /\ pc' = "over" /\ outcome' = "completed" /\ opened' = opened - 1
    /\ UNCHANGED <<requestVars, attemptVars, expired, outbox, err, client>>

\* The upstream raises.
UpstreamFails ==
    /\ pc = "reading" /\ pc' = "handling"
    /\ \/ err' \in {"transient", "permanent"}
       \/ err' = TimeoutSeenAs
    /\ UNCHANGED <<requestVars, attemptVars, expired, outbox, opened, client, outcome>>

\* The deadline of the first-output wrapper passes.
FirstOutputTimeout ==
    /\ pc = "reading" /\ armedBudget /\ ~clockStarted
    /\ pc' = "handling" /\ err' = TimeoutSeenAs
    /\ expired' = expired \union {index}
    /\ UNCHANGED <<requestVars, attemptVars, outbox, opened, client, outcome>>

\* The upstream stays silent for stream_idle_timeout_seconds.
IdleTimeout ==
    /\ pc = "reading" /\ idleOn /\ idleStarted
    /\ pc' = "handling" /\ err' = "idle_timeout"
    /\ UNCHANGED <<requestVars, attemptVars, expired, outbox, opened, client, outcome>>

----------------------------------------------------------------------------
(* except Exception, then finally: aclose of the attempt's stream.         *)

\* Slip (S5): the abandoned stream is left to the garbage collector.
CloseLeftToGC == UNCHANGED opened

CloseAttempt == opened' = IF opened > 0 THEN opened - 1 ELSE 0

Degenerate == index > 0 /\ err = "empty" /\ degenerate < 1

\* _same_target_retry_limit bounds the in-place retries of a target.
RetrySameTarget == Retryable(err) /\ retries < RetryLimit

\* Output has started: no other attempt may follow, the error is the answer.
GiveUpPartial ==
    /\ pc = "handling" /\ emitted
    /\ pc' = "over" /\ outcome' = "partial" /\ CloseAttempt
    /\ UNCHANGED <<requestVars, attemptVars, expired, outbox, err, client>>

\* A fallback target that answered with nothing gets one more try.
RetryDegenerate ==
    /\ pc = "handling" /\ ~emitted /\ Degenerate
    /\ degenerate' = degenerate + 1
    /\ pc' = "prepare" /\ CloseAttempt
    /\ UNCHANGED <<index, chain, budget, armedBudget, idleOn, tries, retries,
                   attemptVars, expired, outbox, err, client, outcome>>

\* Slip: a transient failure is retried although output has started.
RetryTransientLate ==
    /\ pc = "handling" /\ ~Degenerate /\ RetrySameTarget
    /\ retries' = retries + 1
    /\ pc' = "prepare" /\ CloseAttempt
    /\ UNCHANGED <<index, chain, budget, armedBudget, idleOn, tries, degenerate,
                   attemptVars, expired, outbox, err, client, outcome>>

\* A transient failure before any output is retried in place, up to the limit.
RetryTransient ==
    /\ pc = "handling" /\ ~emitted /\ ~Degenerate /\ RetrySameTarget
    /\ retries' = retries + 1
    /\ pc' = "prepare" /\ CloseAttempt
    /\ UNCHANGED <<index, chain, budget, armedBudget, idleOn, tries, degenerate,
                   attemptVars, expired, outbox, err, client, outcome>>

\* The next target, or the end of the chain.
Advance(n) ==
    /\ index' = index + 1
    /\ degenerate' = 0 /\ retries' = 0
    /\ IF index + 1 <= n THEN pc' = "prepare" /\ UNCHANGED outcome
                         ELSE pc' = "over" /\ outcome' = "failed"

\* apply_fallback_policy for the primary's trigger, with the budget's decision
\* standing in when the trigger is a timeout.  candidate_targets may leave
\* nothing but the primary.
FallBack ==
    /\ pc = "handling" /\ ~emitted /\ ~Degenerate /\ ~RetrySameTarget /\ index = 0
    /\ \E n \in 0..MaxFallbacks :
          chain' = n /\ armedBudget' = TRUE /\ Advance(n)
    /\ CloseAttempt
    /\ UNCHANGED <<budget, idleOn, tries, attemptVars, expired, outbox, err, client>>

NoPolicy ==
    /\ pc = "handling" /\ ~emitted /\ ~Degenerate /\ ~RetrySameTarget /\ index = 0
    /\ ~(budget /\ TimeoutTrigger(err))
    /\ pc' = "over" /\ outcome' = "failed" /\ CloseAttempt
    /\ UNCHANGED <<requestVars, attemptVars, expired, outbox, err, client>>

NextTarget ==
    /\ pc = "handling" /\ ~emitted /\ ~Degenerate /\ ~RetrySameTarget /\ index > 0
    /\ Advance(chain) /\ CloseAttempt
    /\ UNCHANGED <<chain, budget, armedBudget, idleOn, tries, attemptVars, expired,
                   outbox, err, client>>

\* The client leaves: GeneratorExit at a yield, CancelledError at an await.
\* Neither is an Exception, so only the finally clause runs.
Abandon ==
    /\ pc \in {"prepare", "reading", "yielding"}
    /\ pc' = "over" /\ outcome' = "abandoned" /\ CloseAttempt
    /\ UNCHANGED <<requestVars, attemptVars, expired, outbox, err, client>>

Over == pc = "over" /\ UNCHANGED vars

UpstreamStep == (\E e \in Kinds : Receive(e)) \/ EndOfStream \/ UpstreamFails
Handling == \/ GiveUpPartial \/ RetryDegenerate \/ RetryTransient
            \/ FallBack \/ NoPolicy \/ NextTarget
GatewayStep == Prepare \/ Start \/ Yield \/ Succeed \/ Handling

Next == GatewayStep \/ UpstreamStep \/ FirstOutputTimeout \/ IdleTimeout \/ Abandon \/ Over

Spec == Init /\ [][Next]_vars

(* The gateway runs and its clocks expire; the upstream owes nothing.      *)
FairSpec == /\ Spec
            /\ WF_vars(GatewayStep) /\ WF_vars(FirstOutputTimeout) /\ WF_vars(IdleTimeout)

----------------------------------------------------------------------------
(* Properties.                                                             *)

\* What a request may cost when every retry of every target is used.
AttemptBound(fallbacks) == (1 + RetryLimit) + fallbacks * (2 + RetryLimit)

\* The answer is concluded for the client as SingleSourceStream says.
Promise == INSTANCE SingleSourceStream WITH
    Attempts <- 1..AttemptBound(MaxFallbacks), Events <- Kinds, Terminal <- "done", said <- client,
    status <- IF outcome = "partial" THEN "failed" ELSE outcome

\* Retries and fallbacks never mix two attempts in one answer, never speak
\* after message_done, and conclude an answer once (proxy.py:1968).
SpeaksWithOneVoice == Promise!Spec

Said == [i \in DOMAIN client |-> client[i].event]

\* Withholding placeholders loses nothing of substance (M-16): once the answer
\* is complete the client has every event of the attempt that served it in
\* order, except that punctuation ahead of a tool or reasoning event is dropped
\* and message_done comes last; if text came first, nothing is dropped.
NothingOfSubstanceLost ==
    outcome = "completed" =>
        LET body  == Kinds \ {"done"}
            first == Only(received, {"text", "tool"})
        IN  /\ Only(Said, body \ {"dots", "meta"}) = Only(received, body \ {"dots", "meta"})
            /\ first # <<>> /\ first[1] = "text" => Only(Said, body) = Only(received, body)
            /\ "done" \in ToSet(received) <=> "done" \in ToSet(Said)

\* However the request ends, each upstream stream it opened has been closed,
\* and two are never open at once (S5).
UpstreamsReleased ==
    /\ opened <= 1
    /\ pc \in {"prepare", "start", "over"} => opened = 0

\* In-place retries, the degenerate retry and the chain together are finite:
\* a request never costs more attempts than this.
AttemptsBounded == tries <= AttemptBound(chain)

\* With a matching policy and the idle clock on, no silent upstream holds the
\* request forever.
AlwaysConcludes == (budget /\ idleOn) => <>(outcome # "open")

\* The attempts of a request follow one another, and there are only so many: at
\* most one upstream is open, none is left open (S5), and the retries in place,
\* the retry of a degenerate answer and the chain add up to a known number.
AttemptsInTurn == TypeOK /\ UpstreamsReleased /\ AttemptsBounded
=============================================================================
