--------------------------- MODULE NativeResponses ---------------------------
(***************************************************************************)
(* POST /responses of app/router/proxy.py, from the decision between the   *)
(* native Responses protocol and Chat to the answer: the capability rows   *)
(* that steer the decision (app/services/responses_capability.py), the     *)
(* native attempts over a fallback chain (_native_response_with_fallbacks),*)
(* the accounting of a native stream, the downgrade to Chat, and the       *)
(* retries and fallbacks of a Chat answer (_call_nonstream_with_fallbacks).*)
(* A downgraded stream is StreamFallback's and ends here as "delegated".   *)
(*                                                                         *)
(* Requests run as coroutines and interleave at their awaits.  Everything  *)
(* between two awaits is one action: the error of an attempt, the row it   *)
(* writes and the choice of the next target happen together.  Target 0 is  *)
(* the routed primary, the others are its chain; candidate_targets has     *)
(* removed duplicates, so each target has a row of its own.                *)
(***************************************************************************)
EXTENDS Integers, FiniteSets

CONSTANTS
    Requests,
    Fallbacks,      \* targets a policy adds to the primary
    RetryLimit,     \* same_target_retry_limit
    MaxLapses,      \* bound on the rows that expire or are reset
    Fleets,         \* what the targets' providers may be: [Targets -> Kinds]
    Shapes          \* what each request may ask for

Targets == 0..Fallbacks
\* "forced" is an openai provider with force_chat_completions.
Kinds == {"openai", "forced", "other"}
Flags == [stream : BOOLEAN,      \* the client wants SSE
          tools : BOOLEAN,       \* tools are declared
          bound : BOOLEAN,       \* previous_response_id
          nativeOnly : BOOLEAN,  \* requires_native or client_owned_tool_markers
          chatOnly : BOOLEAN,    \* client-owned image namespace or image history
          history : {"paired", "encrypted", "unpaired"}]

ASSUME NativeAssumption ==
    /\ IsFiniteSet(Requests) /\ Fallbacks \in Nat /\ MaxLapses \in Nat
    /\ RetryLimit \in 0..3
    /\ Fleets \in SUBSET [Targets -> Kinds] /\ Shapes \in [Requests -> SUBSET Flags]

VARIABLES
    kind,           \* provider_type and force_chat_completions of each target
    verdict,        \* responses_status while it is fresh, else "none"
    marked,         \* rows whose responses_error is the probe marker
    noTools,        \* rows with a fresh negative for requests with tools
    lapses,         \* expiries and resets so far
    req,            \* the requests
    proven,         \* history: targets that completed a native response
    refused         \* history: targets that rejected the protocol

rows == <<verdict, marked, noTools>>
fixed == <<kind, lapses>>
evidence == <<proven, refused>>
vars == <<fixed, rows, req, evidence>>

Points == {"gate", "probing", "posting", "handed", "relaying", "policy", "calling", "over"}
Request == [
    shape : Flags, pc : Points, idx : Targets,
    chain : 0..Fallbacks,       \* targets has 1 + chain entries
    native : SUBSET Targets,    \* history: asked through native Responses
    chat : SUBSET Targets,      \* history: asked through Chat
    armed : BOOLEAN,            \* attempt_timeout is set: for the primary,
                                \* budget.matched; for a fallback, always
    retries : 0..RetryLimit,    \* same_target_retries of the primary
    named : Targets,            \* internal.target_model, what the logs name
    opened : BOOLEAN,           \* the native upstream stream is open
    head : {"none", "delta", "item", "completed"},  \* buffered first frames
    saw : BOOLEAN,              \* saw_output
    item : BOOLEAN,             \* completed_output_item
    body : {"none", "completed", "failed"},         \* response_body
    failed : BOOLEAN, error : BOOLEAN,              \* terminal_error is set
    result : {"open", "answered", "failed", "left", "unstarted", "delegated"},
    account : {"none", "ok", "degraded", "partial", "fail", "cancelled"}]

TypeOK ==
    /\ kind \in Fleets
    /\ verdict \in [Targets -> {"none", "supported", "unsupported", "unknown"}]
    /\ marked \subseteq Targets /\ noTools \subseteq Targets
    /\ DOMAIN req = Requests /\ \A r \in Requests : req[r] \in Request
    /\ lapses \in 0..MaxLapses
    /\ proven \subseteq Targets /\ refused \subseteq Targets

Arrived(s) ==
    [shape |-> s, pc |-> "gate", idx |-> 0, chain |-> 0, native |-> {}, chat |-> {},
     armed |-> FALSE, retries |-> 0,
     named |-> 0, opened |-> FALSE, head |-> "none", saw |-> FALSE, item |-> FALSE,
     body |-> "none", failed |-> FALSE, error |-> FALSE, result |-> "open",
     account |-> "none"]

Init ==
    /\ kind \in Fleets
    /\ verdict = [t \in Targets |-> "none"] /\ marked = {} /\ noTools = {}
    /\ req \in [Requests -> {Arrived(s) : s \in Flags}]
    /\ \A r \in Requests : req[r].shape \in Shapes[r]
    /\ lapses = 0 /\ proven = {} /\ refused = {}

\* r's coroutine is at point p and becomes q.
At(r, p) == req[r].pc = p
Becomes(r, q) == req' = [req EXCEPT ![r] = q]

----------------------------------------------------------------------------
(* Capability rows.                                                        *)

\* set_model_responses_capability overwrites responses_error, and with it the
\* marker; mark_model_responses_unknown is the case of "unknown".
SetVerdict(t, v, marker) ==
    /\ verdict' = [verdict EXCEPT ![t] = v]
    /\ marked' = IF marker THEN marked \union {t} ELSE marked \ {t}

\* A fresh verdict passes its responses_expires_at; the row keeps its error.
Expire(t) ==
    /\ verdict[t] # "none" /\ verdict' = [verdict EXCEPT ![t] = "none"]
    /\ UNCHANGED <<marked, noTools>>

ExpireTools(t) ==
    /\ t \in noTools /\ noTools' = noTools \ {t}
    /\ UNCHANGED <<verdict, marked>>

\* reset_model_responses_capability, from an administrator's thread.
Reset(t) == SetVerdict(t, "none", FALSE) /\ noTools' = noTools \ {t}

RowStep ==
    /\ lapses < MaxLapses /\ lapses' = lapses + 1
    /\ \E t \in Targets : Expire(t) \/ ExpireTools(t) \/ Reset(t)
    /\ rows' # rows
    /\ UNCHANGED <<kind, req, evidence>>

ToolsBarred(q, t) == q.shape.tools /\ t \in noTools

\* native_capability_for_request: its answer, or the need to ask the upstream.
GateSays(q) ==
    IF kind[0] # "openai" \/ ToolsBarred(q, 0) THEN "chat"
    ELSE CASE verdict[0] = "none" -> "probe"
           [] verdict[0] = "supported" /\ 0 \in marked -> "native"
           [] OTHER -> "chat"

\* native_response_target_supported under the verdicts v, and for a fallback
\* cross_provider_incompatible_reasons.
Eligible(q, v, t) ==
    /\ kind[t] # "other" /\ v[t] # "unsupported" /\ ~ToolsBarred(q, t)
    /\ t = 0 \/ q.shape.history = "paired"

----------------------------------------------------------------------------
(* The native attempts.                                                    *)

\* The coroutine ends; its locals go with it.
Forget(q) == [Arrived(q.shape) EXCEPT !.pc = "over", !.idx = q.idx, !.named = q.named,
                  !.opened = q.opened, !.item = q.item, !.body = q.body]

Conclude(q, result) == [Forget(q) EXCEPT !.result = result, !.opened = FALSE]

\* Without a native attempt: incomplete tool history cannot go to Chat.
NoNative(q) == IF q.shape.history = "unpaired" THEN Conclude(q, "failed")
               ELSE [q EXCEPT !.pc = "policy", !.opened = FALSE]

\* The endpoint's except branch: what only the native protocol can carry fails.
GiveUpNative(q) == IF q.shape.nativeOnly THEN Conclude(q, "failed") ELSE NoNative(q)

Ask(q, t, n) == [q EXCEPT !.pc = "posting", !.idx = t, !.chain = n,
                          !.native = @ \union {t}, !.opened = q.shape.stream]

\* The loop skips the targets it cannot use; with none left the last error,
\* or "capability unavailable", goes to the endpoint.
TryNative(q, v, from, n) ==
    LET usable == {t \in from..n : Eligible(q, v, t)}
    IN  IF usable = {} THEN {GiveUpNative(q)}
        ELSE {Ask(q, t, n) : t \in {s \in usable : \A u \in usable : s <= u}}

\* A primary that cannot serve natively brings in the chain without an attempt.
EnterNative(q, v) == IF Eligible(q, v, 0) THEN TryNative(q, v, 0, 0)
                     ELSE UNION {TryNative(q, v, 1, n) : n \in 0..Fallbacks}

AfterGate(q, v) == IF q.shape.chatOnly THEN {NoNative(q)} ELSE EnterNative(q, v)

Gate(r) ==
    /\ At(r, "gate")
    /\ CASE GateSays(req[r]) = "probe"  -> Becomes(r, [req[r] EXCEPT !.pc = "probing"])
         [] GateSays(req[r]) = "native" -> \E q \in AfterGate(req[r], verdict) : Becomes(r, q)
         [] GateSays(req[r]) = "chat"   -> Becomes(r, NoNative(req[r]))
    /\ UNCHANGED <<fixed, rows, evidence>>

\* probe_model_responses_capability: the primary answers, rejects the
\* protocol (or answers 422), or fails in another way.
ProbeAnswers(r) ==
    /\ At(r, "probing")
    /\ SetVerdict(0, "supported", TRUE) /\ proven' = proven \union {0}
    /\ \E q \in AfterGate(req[r], [verdict EXCEPT ![0] = "supported"]) : Becomes(r, q)
    /\ UNCHANGED <<fixed, noTools, refused>>

ProbeRejected(r) ==
    /\ At(r, "probing")
    /\ SetVerdict(0, "unsupported", FALSE) /\ refused' = refused \union {0}
    /\ Becomes(r, NoNative(req[r]))
    /\ UNCHANGED <<fixed, noTools, proven>>

\* Slip: a probe that fails for a passing reason is asked again at once.
ProbeAgain(r) ==
    /\ At(r, "probing")
    /\ Becomes(r, [req[r] EXCEPT !.pc = "gate"])
    /\ UNCHANGED <<fixed, rows, evidence>>

ProbeFails(r) ==
    /\ At(r, "probing")
    /\ SetVerdict(0, "unknown", FALSE)
    /\ Becomes(r, NoNative(req[r]))
    /\ UNCHANGED <<fixed, noTools, evidence>>

\* A whole native answer with output items is evidence for the row.
NativeAnswers(r) ==
    LET q == req[r] IN
    /\ At(r, "posting") /\ ~q.shape.stream
    /\ SetVerdict(q.idx, "supported", TRUE) /\ proven' = proven \union {q.idx}
    /\ noTools' = IF q.shape.tools THEN noTools \ {q.idx} ELSE noTools
    /\ Becomes(r, [Conclude(q, "answered") EXCEPT !.named = q.idx,
                      !.account = IF q.idx > 0 THEN "degraded" ELSE "ok"])
    /\ UNCHANGED <<fixed, refused>>

\* Slip: the first output already proves the stream supported.
FirstOutputProves(r) ==
    LET q == req[r] IN
    /\ At(r, "posting") /\ q.shape.stream
    /\ SetVerdict(q.idx, "supported", q.idx \in marked)
    /\ \E h \in {"delta", "item", "completed"} :
          Becomes(r, [q EXCEPT !.pc = "handed", !.head = h, !.named = q.idx])
    /\ UNCHANGED <<fixed, noTools, evidence>>

\* _wait_for_native_response_output: the frames up to the first output, or a
\* completed response that carries output, are buffered and the stream goes
\* to the client, whose body iterator has not started yet.
NativeOutput(r) ==
    LET q == req[r] IN
    /\ At(r, "posting") /\ q.shape.stream
    /\ \E h \in {"delta", "item", "completed"} :
          Becomes(r, [q EXCEPT !.pc = "handed", !.head = h, !.named = q.idx])
    /\ UNCHANGED <<fixed, rows, evidence>>

\* Slip: the turn's binding to its provider is not looked at.
AfterPrimaryUnbound(q, v) ==
    {GiveUpNative(q)} \union UNION {TryNative(q, v, 1, n) : n \in 0..Fallbacks}

\* The primary has failed.  Without a policy the error is final; a turn bound
\* to the provider by previous_response_id is not moved.
AfterPrimary(q, v) ==
    {GiveUpNative(q)} \union
    IF q.shape.bound THEN {} ELSE UNION {TryNative(q, v, 1, n) : n \in 0..Fallbacks}

\* An attempt fails before any output: explicit protocol rejection, another
\* 4xx, an empty answer, or anything else.  The upstream stream is closed.
NativeFails(r) ==
    /\ At(r, "posting")
    /\ \E e \in {"refused", "rejected", "empty", "transient"} :
         LET q == req[r]
             v == verdict'
         IN  /\ IF e = "rejected" /\ q.shape.tools
                THEN noTools' = noTools \union {q.idx} /\ UNCHANGED <<verdict, marked>>
                ELSE /\ SetVerdict(q.idx, IF e = "refused" THEN "unsupported" ELSE "unknown", FALSE)
                     /\ UNCHANGED noTools
             /\ refused' = IF e = "refused" THEN refused \union {q.idx} ELSE refused
             /\ \E new \in IF q.idx = 0 THEN AfterPrimary(q, v)
                           ELSE TryNative(q, v, q.idx + 1, q.chain) :
                   Becomes(r, new)
    /\ UNCHANGED <<fixed, proven>>

----------------------------------------------------------------------------
(* _native_responses_stream_with_accounting.                               *)

Frames == {"delta", "item", "completed", "failed", "incomplete", "error", "other"}

\* What a frame does to the account of the stream.
Noted(q, f) ==
    [q EXCEPT !.pc = "relaying", !.head = "none",
        !.saw  = @ \/ f \in {"delta", "item"},
        !.item = @ \/ f = "item",
        !.body = IF f = "completed" THEN "completed"
                 ELSE IF f \in {"failed", "incomplete"} THEN "failed" ELSE @,
        !.failed = IF f = "completed" THEN FALSE
                   ELSE f \in {"failed", "incomplete", "error"} \/ @,
        !.error  = IF f \in {"completed", "incomplete"} THEN FALSE
                   ELSE f \in {"failed", "error"} \/ @]

\* One frame is read, noted and forwarded; the buffered one comes first, and
\* upstreams send nothing behind a terminal frame.
\* response.completed renews the row and leaves its error text alone.
Relay(r, f) ==
    LET q == req[r] IN
    /\ \/ At(r, "handed") /\ f = q.head
       \/ At(r, "relaying") /\ q.body = "none"
    /\ Becomes(r, Noted(q, f))
    /\ IF f = "completed"
       THEN SetVerdict(q.idx, "supported", q.idx \in marked) /\ proven' = proven \union {q.idx}
       ELSE UNCHANGED <<verdict, marked, proven>>
    /\ UNCHANGED <<fixed, noTools, refused>>

\* Slip: any output before the client left makes the turn a finished one.
SettledBySight(q, left) ==
    LET closed == left /\ q.saw /\ ~q.error IN
    IF closed \/ (q.body # "none" /\ ~q.failed /\ q.saw)
    THEN IF q.idx > 0 THEN "degraded" ELSE "ok"
    ELSE IF left THEN "cancelled" ELSE IF q.saw THEN "partial" ELSE "fail"

\* The finally clause: closing the stream after a finished item is no failure.
Settled(q, left) ==
    LET closed == left /\ q.item /\ ~q.error IN
    IF closed \/ (q.body # "none" /\ ~q.failed /\ q.saw)
    THEN IF q.idx > 0 THEN "degraded" ELSE "ok"
    ELSE IF left THEN "cancelled" ELSE IF q.saw THEN "partial" ELSE "fail"

RelayEnds(r) ==
    /\ At(r, "relaying")
    /\ Becomes(r, [Conclude(req[r], "answered") EXCEPT !.account = Settled(req[r], FALSE)])
    /\ UNCHANGED <<fixed, rows, evidence>>

\* The upstream breaks off, or the idle clock does: response.failed is sent.
RelayBreaks(r) ==
    LET q == [req[r] EXCEPT !.failed = TRUE] IN
    /\ At(r, "relaying")
    /\ Becomes(r, [Conclude(q, "failed") EXCEPT !.account = Settled(q, FALSE)])
    /\ UNCHANGED <<fixed, rows, evidence>>

\* The client leaves a running stream.  The finally clause closes the upstream;
\* when it is a cancellation, the awaits of the accounting may be cancelled too.
Leave(r) ==
    LET q == [req[r] EXCEPT !.failed = TRUE] IN
    /\ At(r, "relaying")
    /\ \E a \in {Settled(q, TRUE), "none"} :
          Becomes(r, [Conclude(q, "left") EXCEPT !.account = a])
    /\ UNCHANGED <<fixed, rows, evidence>>

\* The client leaves before the body iterator starts: no finally clause of a
\* generator that never ran, so nothing is accounted and the upstream stream
\* is left to the collector.
LeaveUnstarted(r) ==
    /\ At(r, "handed")
    /\ Becomes(r, [Forget(req[r]) EXCEPT !.result = "unstarted"])
    /\ UNCHANGED <<fixed, rows, evidence>>

----------------------------------------------------------------------------
(* Chat: the full request policy, then _call_nonstream_with_fallbacks.     *)

\* _internal_for_target_attempt hands out a copy or internal itself, which
\* then names the target of the attempt.
Call(q, t) ==
    LET asked == [q EXCEPT !.pc = "calling", !.idx = t, !.chat = @ \union {t}]
    IN  {asked, [asked EXCEPT !.named = t]}

\* The image preprocessing of a fallback runs outside the try.
CallNext(q, t, n) ==
    {Conclude(q, "failed")} \union
    IF t <= n THEN Call([q EXCEPT !.chain = n, !.armed = TRUE], t) ELSE {}

\* A stream is handed to _stream_events_with_fallbacks; for a whole answer
\* _lookup_fallback_budget says whether the primary has a policy.
Downgrade(r) ==
    /\ At(r, "policy")
    /\ \/ Becomes(r, Conclude(req[r], "failed"))
       \/ /\ req[r].shape.stream
          /\ Becomes(r, [Conclude(req[r], "delegated") EXCEPT !.native = req[r].native,
                                                                   !.chat = {0}])
       \/ /\ ~req[r].shape.stream
          /\ \E b \in BOOLEAN :
               \E q \in Call([req[r] EXCEPT !.armed = b], 0) : Becomes(r, q)
    /\ UNCHANGED <<fixed, rows, evidence>>

\* internal.target_model after a successful attempt.
NameServed(q) == IF q.idx > 0 THEN q.idx ELSE q.named

ChatAnswers(r) ==
    LET q == req[r] IN
    /\ At(r, "calling")
    /\ Becomes(r, [Conclude(q, "answered") EXCEPT !.named = NameServed(q),
                      !.account = IF q.idx > 0 THEN "degraded" ELSE "ok"])
    /\ UNCHANGED <<fixed, rows, evidence>>

MayRetry(q) == q.retries < RetryLimit

RetryPrimary(q) == Call([q EXCEPT !.retries = @ + 1], 0)

\* The primary fails, or _await_with_attempt_timeout gives it up.  It is
\* retried in place, unless the gateway's own budget ran out; then the policy
\* decides, the budget standing in for it when the trigger is a timeout.
PrimaryFails(r) ==
    LET q == req[r] IN
    /\ At(r, "calling") /\ q.idx = 0
    /\ \/ MayRetry(q) /\ \E new \in RetryPrimary(q) : Becomes(r, new)
       \/ \E e \in {"transient", "timeout", "permanent", "attempt_timeout"} :
            /\ e = "attempt_timeout" => q.armed
            /\ e \in {"transient", "timeout"} => ~MayRetry(q)
            /\ \/ /\ e \in {"timeout", "attempt_timeout"} => ~q.armed
                  /\ Becomes(r, Conclude(q, "failed"))
               \/ \E n \in 0..Fallbacks : \E new \in CallNext(q, 1, n) : Becomes(r, new)
    /\ UNCHANGED <<fixed, rows, evidence>>

\* A fallback is asked once, whatever its error.
FallbackFails(r) ==
    LET q == req[r] IN
    /\ At(r, "calling") /\ q.idx > 0
    /\ \E new \in CallNext(q, q.idx + 1, q.chain) : Becomes(r, new)
    /\ UNCHANGED <<fixed, rows, evidence>>

----------------------------------------------------------------------------

GatewayStep(r) == Gate(r) \/ Downgrade(r)
UpstreamStep(r) ==
    \/ ProbeAnswers(r) \/ ProbeRejected(r) \/ ProbeFails(r)
    \/ NativeAnswers(r) \/ NativeOutput(r) \/ NativeFails(r)
    \/ ChatAnswers(r) \/ PrimaryFails(r) \/ FallbackFails(r)
StreamStep(r) ==
    \/ \E f \in Frames : Relay(r, f)
    \/ RelayEnds(r) \/ RelayBreaks(r) \/ Leave(r) \/ LeaveUnstarted(r)

Done == (\A r \in Requests : At(r, "over")) /\ UNCHANGED vars

Next == RowStep \/ Done
        \/ \E r \in Requests : GatewayStep(r) \/ UpstreamStep(r) \/ StreamStep(r)

Spec == Init /\ [][Next]_vars

(* The gateway runs; an attempt ends, by an answer, an error or the read   *)
(* timeout of its HTTP client.  The client owes the stream nothing.        *)
FairSpec == Spec /\ \A r \in Requests : WF_vars(GatewayStep(r) \/ UpstreamStep(r))

----------------------------------------------------------------------------
(* Properties.                                                             *)

\* A verdict is never better or worse than what a target has shown: supported
\* after a completed native response, unsupported after a rejection of the
\* protocol (responses_capability.py:118: request-level errors are no verdict).
VerdictsAreEarned ==
    \A t \in Targets : /\ verdict[t] = "supported" => t \in proven
                       /\ verdict[t] = "unsupported" => t \in refused

\* proxy.py:4150: what only native Responses can carry is not sent to Chat
\* behind a failed native attempt.
NoSilentDowngrade ==
    \A r \in Requests :
        req[r].native # {} /\ (req[r].shape.nativeOnly \/ req[r].shape.history = "unpaired")
            => req[r].chat = {}

\* A turn bound to its provider that the primary was asked to serve natively
\* is put natively to no other provider (proxy.py:1046).
BoundTurnStaysNative ==
    \A r \in Requests :
        req[r].shape.bound /\ 0 \in req[r].native => req[r].native = {0}

\* The logs name the target that answered, through retries, fallbacks and
\* attempts that shared or copied the request.
AnswerIsAttributed ==
    \A r \in Requests : req[r].result = "answered" => req[r].named = req[r].idx

\* However a request ends, its native upstream stream is closed, unless the
\* client left before the body iterator began.
UpstreamClosed ==
    \A r \in Requests : req[r].pc = "over" /\ req[r].result # "unstarted" => ~req[r].opened

\* A native stream counted as a success has shown the client a finished item
\* or a completed response.
SuccessWasFinished ==
    \A r \in Requests :
        req[r].shape.stream /\ req[r].account \in {"ok", "degraded"}
            => req[r].item \/ req[r].body = "completed"

\* proxy.py:1046, 4150: neither a failure nor the rows other requests change
\* under way move a turn to where it may not be served.
StaysNative == NoSilentDowngrade /\ BoundTurnStaysNative

\* The end of a request is entered as what it was: under the target that
\* answered, as a success only if the client has seen a finished item, and with
\* the upstream closed.
AnswersAccounted == TypeOK /\ AnswerIsAttributed /\ UpstreamClosed /\ SuccessWasFinished

\* Whatever the rows and the upstreams do, an answer starts or the request ends.
AnswerStarts == \A r \in Requests : <>(req[r].pc \in {"handed", "relaying", "over"})
=============================================================================
