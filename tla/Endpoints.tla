------------------------------- MODULE Endpoints -------------------------------
(***************************************************************************)
(* The model endpoints of app/router/proxy.py: chat_completions,           *)
(* completions, anthropic_messages, responses_endpoint and                 *)
(* _images_generation_request, from the key to the last ledger.  An answer *)
(* that is not streamed is entered in the ledgers by its endpoint; a       *)
(* streamed one is handed to StreamAccounting, and the stream of a native  *)
(* Responses upstream to NativeResponses.                                  *)
(*                                                                         *)
(* The turns of one conversation follow one another; the tool-only counter *)
(* they share is the breaker that takes the tools from a client that loops.*)
(* Every endpoint answers under a try whose except branches enter a        *)
(* failure, so an answer may be entered twice: as itself and as failed.    *)
(***************************************************************************)
EXTENDS StreamAccounting

CONSTANTS
    Limit,          \* tool_only_limit
    MaxTurns        \* bound on the turns of the conversation

ASSUME EndpointsAssumption == Limit \in Nat \ {0} /\ MaxTurns \in Nat

VARIABLES
    stage,          \* of the handler
    req,            \* the request: [endpoint, stream, image, tools the breaker may take]
    todo,           \* the ledgers still to be written before the counters
    stripped,       \* the policy took the tools away
    streak,         \* history: tool-only turns in a row that ended well
    since,          \* history: tool-only turns since the last one with text
    turns

handlerVars == <<stage, req, todo, stripped, streak, since, turns>>
endpointVars == <<streamVars, handlerVars>>

Unread == [endpoint |-> "none", stream |-> FALSE, image |-> "no", tools |-> FALSE]

EndpointsInit ==
    /\ pc = "over" /\ path = "none" /\ turn = Silence
    /\ fallbackUsed \in BOOLEAN /\ billed \in BOOLEAN /\ tracked = FALSE
    /\ row = FALSE /\ scope = FALSE /\ stopping = FALSE
    /\ records = <<>> /\ logs = <<>> /\ counted = <<>> /\ usage = <<>>
    /\ toolOnly = 0 /\ frames = <<>> /\ cancelled = FALSE /\ dbFailed = FALSE
    /\ stage = "idle" /\ req = Unread /\ todo = <<>> /\ stripped = FALSE
    /\ streak = 0 /\ since = 0 /\ turns = 1

----------------------------------------------------------------------------
(* Steps of a handler.  Outside a stream, pc rests at "over".              *)

calm == <<pc, settings, scope, stopping, frames, streak, since, turns>>

\* A step that neither writes nor answers.
Goes(st) ==
    /\ stage' = st
    /\ UNCHANGED <<calm, turn, path, row, ledgers, toolOnly, cancelled, dbFailed, todo>>

\* An answer with or without text and tool calls, in the terms of a stream.
Answered(text, tools) == [Silence EXCEPT !.text = text, !.toolStarted = tools, !.ended = TRUE]

\* The turn t is over; the ledgers in order, then the counters, say p.
Enters(t, p, order) ==
    /\ stage' = IF p = "success" THEN "booking" ELSE "failing"
    /\ turn' = t /\ path' = p /\ todo' = order
    /\ UNCHANGED <<calm, ledgers, cancelled, dbFailed>>

LogFirst == <<"log", "record">>
RecordFirst == <<"record", "log">>

\* Slip: /responses heeds the breaker and never counts (M-18).
CountsNothing(t) == toolOnly' = toolOnly

\* Tool calls without text count, anything else starts the count anew.
Counts(t) == toolOnly' = IF t.toolStarted /\ ~t.text THEN toolOnly + 1 ELSE 0

Strips(tools) == tools /\ toolOnly >= Limit

----------------------------------------------------------------------------
(* The ledgers.                                                            *)

Fails == dbFailed' = TRUE
Works == dbFailed' = dbFailed

\* increment_global_stats and increment_user_usage, each its own transaction.
Known(known) == billed /\ known
CountedWell(p, known) ==
    /\ counted' = Append(counted, Status(p))
    /\ usage' = IF Known(known) THEN Append(usage, Charge(p)) ELSE usage
CountedInPart(p, known) ==
    /\ counted' \in {counted} \cup (IF Known(known) THEN {Append(counted, Status(p))} ELSE {})
    /\ UNCHANGED usage /\ Fails

CountedAs(p, known) == (CountedWell(p, known) /\ Works) \/ CountedInPart(p, known)

\* The four writes in one thread, the first two of which only warn.
AllAt(p, known) ==
    \E r, l \in BOOLEAN :
       /\ records' = IF r THEN Append(records, Status(p)) ELSE records
       /\ logs' = IF l THEN Append(logs, Status(p)) ELSE logs
       /\ \/ CountedWell(p, known) /\ dbFailed' = (dbFailed \/ ~r \/ ~l)
          \/ CountedInPart(p, known)

\* _log_rejected_request, which swallows what fails.
Refused(known) ==
    /\ stage' = "over" /\ path' = "rejected"
    /\ AllAt("rejected", known)
    /\ UNCHANGED <<calm, turn, row, toolOnly, cancelled, todo, stripped>>

\* No key, a wrong key (verify_api_key), or a body that is no object: the
\* rejection is entered under no name.
RefuseUnread == stage = "idle" /\ Refused(FALSE) /\ UNCHANGED req

\* ensure_routed_model_allowed, once the request is routed.
RefuseModel ==
    /\ stage = "idle" /\ Refused(TRUE)
    /\ req' \in {[Unread EXCEPT !.endpoint = e] : e \in {"chat", "completions", "messages", "responses"}}

\* A field is missing, or the policy raises outside the try: no ledger hears of it.
TurnedAway == stage = "idle" /\ Goes("over") /\ UNCHANGED <<req, stripped>>

\* The row an image request began with is written over when it succeeds, and
\* by /responses also when its accounting fails.
Written(s) == IF stage = "booking" \/ req.endpoint = "responses" THEN Logged(s)
              ELSE Append(logs, s)

RecordWritten == Head(todo) = "record" /\ records' = Append(records, Status(path)) /\ UNCHANGED logs
LogWritten == Head(todo) = "log" /\ logs' = Written(Status(path)) /\ UNCHANGED records

\* _log_request_async, _record_request_log_async: a failure is only a warning.
Book ==
    /\ stage \in {"booking", "failing"} /\ todo # <<>>
    /\ todo' = Tail(todo)
    /\ \/ (RecordWritten \/ LogWritten) /\ Works
       \/ Fails /\ UNCHANGED <<records, logs>>
    /\ UNCHANGED <<calm, stage, turn, path, row, counted, usage, toolOnly, cancelled, req, stripped>>

\* Images asked for outright are entered outside the try.
Guarded == req.image # "explicit"

\* _record_success_metrics, in a thread.  What it raises ends in the except
\* branch of the endpoint, which enters the answer as failed; around a native
\* answer it is taken for an error of the upstream, and the request goes on.
CountSuccess ==
    /\ stage = "booking" /\ todo = <<>>
    /\ \/ CountedWell("success", TRUE) /\ Works /\ stage' = "over" /\ UNCHANGED <<path, todo>>
       \/ /\ CountedInPart("success", TRUE)
          /\ \/ Guarded /\ stage' = "failing" /\ path' = "fail" /\ todo' = RecordFirst
             \/ req.image = "native" /\ stage' = "routed" /\ UNCHANGED <<path, todo>>
             \/ ~Guarded /\ stage' = "over" /\ UNCHANGED <<path, todo>>
    /\ UNCHANGED <<calm, turn, row, records, logs, toolOnly, cancelled, req, stripped>>

\* The counters of a failed request; what they raise reaches the client.
CountFailure ==
    /\ stage = "failing" /\ todo = <<>> /\ stage' = "over"
    /\ CountedAs(path, TRUE)
    /\ UNCHANGED <<calm, turn, path, todo, row, records, logs, toolOnly, cancelled, req, stripped>>

\* _log_upstream_http_exception_failure, _record_image_generation_failure.
BookRefusal ==
    /\ stage = "refused" /\ stage' = "over"
    /\ AllAt(path, TRUE)
    /\ UNCHANGED <<calm, turn, path, todo, row, toolOnly, cancelled, req, stripped>>

\* The server cancels the handler: nothing catches that, but a write that is
\* in its thread is finished.
Cancelled ==
    /\ stage \in {"routed", "calling", "bridging", "booking", "failing", "refused"}
    /\ stage' = "over" /\ cancelled' = TRUE
    /\ \/ UNCHANGED <<ledgers, dbFailed>>
       \/ todo # <<>> /\ (RecordWritten \/ LogWritten) /\ UNCHANGED <<counted, usage, dbFailed>>
       \/ stage = "booking" /\ todo = <<>> /\ CountedAs("success", TRUE) /\ UNCHANGED <<records, logs>>
       \/ stage = "refused" /\ AllAt(path, TRUE)
    /\ UNCHANGED <<calm, turn, path, todo, row, toolOnly, req, stripped>>

----------------------------------------------------------------------------
(* What an upstream error becomes: a status of its own is passed on, and   *)
(* below 500 is entered as rejected; anything else is a failure.           *)

Raises(statuses) ==
    \/ /\ stage' = "refused" /\ path' \in statuses
       /\ UNCHANGED <<calm, turn, todo, row, ledgers, toolOnly, cancelled, dbFailed, req, stripped>>
    \/ Enters(turn, "fail", RecordFirst) /\ UNCHANGED <<row, toolOnly, req, stripped>>

\* A stream, once it begins, is StreamAccounting's; the client may be gone before.
Streams(counts) ==
    \/ /\ stage' = "streaming" /\ BeginStream(counts)
       /\ UNCHANGED <<req, todo, stripped, streak, since, turns>>
    \/ Goes("over") /\ UNCHANGED <<req, stripped>>

Asks(e, s, i, t) == req' = [endpoint |-> e, stream |-> s, image |-> i, tools |-> t]
Calling(e) == stage = "calling" /\ req.endpoint = e

----------------------------------------------------------------------------
(* /chat/completions                                                       *)

ChatEnters ==
    /\ stage = "idle"
    /\ \E s, t \in BOOLEAN, i \in {"no", "bridge"} :
          Asks("chat", s, i, t) /\ stripped' = Strips(t)
    /\ Goes("calling")

ChatStreams == Calling("chat") /\ req.stream /\ Streams(TRUE)

\* The model has called for images in a stream: the row that says "running"
\* is the one the end of the stream is written to.
ChatBridgeStreams ==
    /\ stage = "streaming" /\ req.endpoint = "chat" /\ req.image = "bridge"
    /\ pc = "streaming" /\ ~turn.messageDone /\ ~scope /\ ~row /\ ~dbFailed
    /\ \/ row' = TRUE /\ logs' = Append(logs, "running") /\ Works
       \/ Fails /\ UNCHANGED <<row, logs>>
    /\ UNCHANGED <<calm, turn, path, records, counted, usage, toolOnly, cancelled,
                   stage, req, todo, stripped>>

\* Neither a bridged answer nor its passthrough is counted for the breaker.
ChatPassesThrough ==
    /\ Calling("chat") /\ ~req.stream /\ req.image = "bridge"
    /\ \E x, t \in BOOLEAN : Enters(Answered(x, t), "success", RecordFirst)
    /\ UNCHANGED <<row, toolOnly, req, stripped>>

\* record_running of run_image_bridge, for both endpoints with a bridge.
BridgeBegins ==
    /\ stage = "calling" /\ req.image = "bridge" /\ (~req.stream \/ req.endpoint = "responses")
    /\ stage' = "bridging"
    /\ \/ logs' = Append(logs, "running") /\ Works
       \/ Fails /\ UNCHANGED logs
    /\ UNCHANGED <<calm, turn, path, todo, row, records, counted, usage, toolOnly, cancelled,
                   req, stripped>>

\* The outcome comes with the number of the row.
BridgeAnswers ==
    /\ stage = "bridging"
    /\ row' = ("running" \in {logs[i] : i \in DOMAIN logs})
    /\ Enters(Answered(FALSE, FALSE), "success", RecordFirst)
    /\ UNCHANGED <<toolOnly, req, stripped>>

ChatBridgeAnswers == req.endpoint = "chat" /\ BridgeAnswers

ChatAnswers ==
    /\ Calling("chat") /\ ~req.stream /\ req.image = "no"
    /\ \E x, t \in BOOLEAN :
          Enters(Answered(x, t), "success", LogFirst) /\ Counts(Answered(x, t))
    /\ UNCHANGED <<row, req, stripped>>

ChatRaises ==
    /\ stage \in {"calling", "bridging"} /\ req.endpoint = "chat" /\ ~req.stream
    /\ Raises({"rejected", "fail"})

----------------------------------------------------------------------------
(* /completions and /messages: neither heeds the breaker nor counts.       *)

CompletionsEnter ==
    /\ stage = "idle"
    /\ \E s \in BOOLEAN : Asks("completions", s, "no", FALSE)
    /\ Goes("calling") /\ UNCHANGED stripped

CompletionsStream == Calling("completions") /\ req.stream /\ Streams(FALSE)

CompletionsAnswer ==
    /\ Calling("completions") /\ ~req.stream
    /\ \E x, t \in BOOLEAN : Enters(Answered(x, t), "success", RecordFirst)
    /\ UNCHANGED <<row, toolOnly, req, stripped>>

CompletionsRaise == Calling("completions") /\ ~req.stream /\ Raises({"rejected", "fail"})

MessagesEnter ==
    /\ stage = "idle"
    /\ \E s \in BOOLEAN : Asks("messages", s, "no", FALSE)
    /\ Goes("calling") /\ UNCHANGED stripped

MessagesStream == Calling("messages") /\ req.stream /\ Streams(FALSE)

MessagesAnswer ==
    /\ Calling("messages") /\ ~req.stream
    /\ \E x, t \in BOOLEAN : Enters(Answered(x, t), "success", RecordFirst)
    /\ UNCHANGED <<row, toolOnly, req, stripped>>

MessagesRaise == Calling("messages") /\ ~req.stream /\ Raises({"rejected", "fail"})

----------------------------------------------------------------------------
(* /responses                                                              *)

\* The first pass of the policy leaves the tools alone.
ResponsesEnter ==
    /\ stage = "idle"
    /\ \E s, t \in BOOLEAN, i \in {"no", "bridge", "explicit"} : Asks("responses", s, i, t)
    /\ Goes("routed") /\ UNCHANGED stripped

Routed(image) == stage = "routed" /\ req.endpoint = "responses" /\ req.image = image

\* A forced image tool is called at once, its answer entered before it is
\* sent, streamed or not; a request it cannot serve is turned away.
ExplicitImages ==
    /\ Routed("explicit")
    /\ \/ Goes("over") /\ UNCHANGED <<req, stripped>>
       \/ /\ \E p \in {"success", "fail"} :
               Enters(Answered(FALSE, FALSE), p, RecordFirst)
          /\ UNCHANGED <<row, toolOnly, req, stripped>>

\* The second pass of the policy, before the model that may call for images.
ResponsesBridge ==
    /\ Routed("bridge")
    /\ stripped' = Strips(req.tools)
    /\ Goes("calling") /\ UNCHANGED req

\* The outcome is rendered as a stream or not, after it has been entered.
ResponsesBridgeAnswers == req.endpoint = "responses" /\ BridgeAnswers

\* The model has not called for images: the buffered answer is streamed through
\* the usual accounting, or entered here and not counted.
ResponsesPassThrough ==
    /\ Calling("responses") /\ req.image = "bridge"
    /\ IF req.stream THEN Streams(TRUE)
       ELSE /\ \E x, t \in BOOLEAN : Enters(Answered(x, t), "success", RecordFirst)
            /\ UNCHANGED <<row, toolOnly, req, stripped>>

\* A native answer is entered here, the accounting of a native stream is its own.
NativeServes ==
    /\ Routed("no")
    /\ \/ req.stream /\ Goes("over") /\ UNCHANGED <<req, stripped>>
       \/ /\ ~req.stream /\ req' = [req EXCEPT !.image = "native"]
          /\ Enters(Answered(FALSE, FALSE), "success", RecordFirst)
          /\ UNCHANGED <<row, toolOnly, stripped>>

\* Native dispatch is ruled out or failed: the full policy.
ResponsesTranslated ==
    /\ Routed("no") \/ Routed("native")
    /\ stripped' = Strips(req.tools) /\ req' = [req EXCEPT !.image = "no"]
    /\ Goes("calling")

\* The answer of the model itself, in an endpoint that counts.
Plain == req.image \in {"no", "native"}

ResponsesStream == Calling("responses") /\ Plain /\ req.stream /\ Streams(TRUE)

ResponsesAnswer ==
    /\ Calling("responses") /\ Plain /\ ~req.stream
    /\ \E x, t \in BOOLEAN :
          Enters(Answered(x, t), "success", RecordFirst) /\ Counts(Answered(x, t))
    /\ UNCHANGED <<row, req, stripped>>

\* A batch of images that fails as a whole is entered as failed whatever its status.
ResponsesRaise ==
    /\ req.endpoint = "responses" /\ req.image # "explicit"
    /\ \/ stage = "bridging" /\ Raises({"fail"})
       \/ /\ stage = "calling" => (req.image = "bridge" \/ ~req.stream)
          /\ stage \in {"routed", "calling"}
          /\ Raises({"rejected", "fail"})

----------------------------------------------------------------------------
(* /images/generations: no policy; entered outside any try.                *)

Images ==
    /\ stage = "idle"
    /\ Asks("images", FALSE, "explicit", FALSE)
    /\ Goes("calling") /\ UNCHANGED stripped

ImagesAnswer ==
    /\ Calling("images")
    /\ \E p \in {"success", "fail"} : Enters(Answered(FALSE, FALSE), p, RecordFirst)
    /\ UNCHANGED <<row, toolOnly, req, stripped>>

----------------------------------------------------------------------------
(* One turn after the other.                                               *)

\* A stream runs until its generator is closed.
Streaming ==
    /\ stage = "streaming" /\ StreamNext
    /\ stage' = IF pc' = "over" THEN "over" ELSE "streaming"
    /\ UNCHANGED <<req, todo, stripped, streak, since, turns>>

\* The time to live of the conversation's counter has passed, as the next read
\* of it finds out.
Forget ==
    /\ stage = "idle" /\ toolOnly # 0
    /\ toolOnly' = 0 /\ streak' = 0
    /\ UNCHANGED <<pc, settings, scope, stopping, frames, since, turns, turn, path, row, ledgers,
                   cancelled, dbFailed, stage, req, todo, stripped>>

\* The turns of which the endpoint tells the breaker.
Told == req.endpoint \in {"chat", "responses"} /\ (Plain \/ req.stream)
EndedWell == Told /\ path = "success" /\ turn.ended

\* Bound: an unbilled conversation has one turn.
MoreTurns == turns < MaxTurns /\ billed /\ ~stopping

NextTurn ==
    /\ stage = "over" /\ MoreTurns
    /\ turns' = turns + 1 /\ stage' = "idle"
    /\ streak' = IF EndedWell /\ turn.toolStarted /\ ~turn.text THEN streak + 1 ELSE 0
    /\ since' = IF EndedWell /\ turn.text THEN 0
                ELSE IF Told /\ turn.toolStarted /\ ~turn.text THEN since + 1 ELSE since
    /\ turn' = Silence /\ path' = "none" /\ row' = FALSE /\ scope' = FALSE
    /\ records' = <<>> /\ logs' = <<>> /\ counted' = <<>> /\ usage' = <<>> /\ frames' = <<>>
    /\ cancelled' = FALSE /\ dbFailed' = FALSE
    /\ req' = Unread /\ todo' = <<>> /\ stripped' = FALSE
    /\ fallbackUsed' = FALSE      \* bound: a fallback answers the first turn only
    /\ UNCHANGED <<pc, billed, tracked, stopping, toolOnly>>

\* The last turn, or the server, is over.
Over == stage = "over" /\ ~MoreTurns /\ UNCHANGED endpointVars

EndpointsNext ==
    \/ RefuseUnread \/ RefuseModel \/ TurnedAway
    \/ ChatEnters \/ ChatStreams \/ ChatBridgeStreams \/ ChatPassesThrough
    \/ BridgeBegins \/ ChatBridgeAnswers \/ ChatAnswers \/ ChatRaises
    \/ CompletionsEnter \/ CompletionsStream \/ CompletionsAnswer \/ CompletionsRaise
    \/ MessagesEnter \/ MessagesStream \/ MessagesAnswer \/ MessagesRaise
    \/ ResponsesEnter \/ ExplicitImages \/ ResponsesBridge \/ ResponsesBridgeAnswers
    \/ ResponsesPassThrough \/ NativeServes \/ ResponsesTranslated
    \/ ResponsesStream \/ ResponsesAnswer \/ ResponsesRaise
    \/ Images \/ ImagesAnswer
    \/ Book \/ CountSuccess \/ CountFailure \/ BookRefusal \/ Cancelled
    \/ Streaming \/ Forget \/ NextTurn \/ Over

EndpointsSpec == EndpointsInit /\ [][EndpointsNext]_endpointVars

----------------------------------------------------------------------------
(* Properties.                                                             *)

\* While no write fails, a request is counted at most once, for the gateway and
\* for its user, even when it is cancelled amid its accounting.  One that is not
\* cancelled is entered once in each of the four ledgers, with one status,
\* whichever way it ends: as an answer, a stream cut short, a rejection or a
\* failure.  What the end of an image request overwrites is its own "running"
\* row; only a failure outside a stream leaves that row.
LedgersAgree ==
    /\ ~dbFailed => Len(counted) <= 1 /\ Len(usage) <= 1 /\ Len(frames) <= 1
    /\ (stage = "over" /\ ~dbFailed /\ ~cancelled) =>
          IF path = "none" THEN ledgers = << <<>>, <<>>, <<>>, <<>> >>
          ELSE LET entry == <<Status(path)>> IN
               /\ records = entry /\ counted = entry /\ logs \in {entry, <<"running", Status(path)>>}
               /\ usage = IF billed /\ req.endpoint # "none" THEN <<Charge(path)>> ELSE <<>>
               /\ logs # entry => path \in {"rejected", "fail"} /\ req.image = "bridge"
                                  /\ (req.stream => req.endpoint = "responses")

\* A user is charged for an answer only when there was one: a stream that
\* ended, said that it was done, or finished a tool call, or an answer in full.
ChargedForFinished ==
    (\E i \in DOMAIN usage : usage[i].charged) => turn.ended \/ turn.messageDone \/ turn.toolDone

\* The tools are taken from a request only after Limit turns that called tools
\* and said nothing, since the last turn that ended with words; and they are
\* taken from every request for the model's own answer that follows Limit such
\* turns that ended well, streamed or not, in either endpoint that counts them.
BreakerFollowsTurns ==
    /\ stripped => since >= Limit
    /\ (stage = "calling" /\ req.endpoint \in {"chat", "responses"} /\ req.tools /\ streak >= Limit)
          => stripped
=============================================================================
