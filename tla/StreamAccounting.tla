-------------------------- MODULE StreamAccounting --------------------------
(***************************************************************************)
(* app/core/streaming.py, stream_internal_output with                      *)
(* record_streaming_events: the outermost generator of a streamed answer.  *)
(* It renders the events for the client and, when the stream is over,      *)
(* writes four ledgers: the request record and the request log (in worker  *)
(* threads, awaited), the global counters and the user's usage (in line).  *)
(*                                                                         *)
(* The ways out differ in what the awaits of the accounting can still do:  *)
(*   - GeneratorExit (the generator is closed at a yield): awaits work;    *)
(*   - CancelledError of the server's cancel scope, when the client leaves *)
(*     while the generator awaits: every later await is refused too;       *)
(*   - CancelledError of task.cancel(): one await is refused, though the   *)
(*     thread it waited for may finish its write;                          *)
(*   - an exception of the upstream.                                       *)
(* The cancel scope and to_thread.run_sync are anyio's; how they behave    *)
(* here is external to the repository.                                     *)
(***************************************************************************)
EXTENDS Integers, Sequences

Kinds == {"text", "reasoning", "tool_start", "tool_done", "message_done"}

VARIABLES
    pc,             \* "streaming", "log", "record", "settle", "error_frame", "closing", "over"
    turn,           \* what has been streamed or answered, see Silence
    path,           \* which accounting block runs
    fallbackUsed,   \* the answer comes from a fallback target
    billed,         \* username != "legacy"
    tracked,        \* the endpoint passes tool_only_turns
    row,            \* the recorder knows the row of an image request, and replaces it
    scope,          \* the surrounding cancel scope has been cancelled
    stopping,       \* _SHUTTING_DOWN
    records,        \* request_records rows of this stream
    logs,           \* request_logs rows
    counted,        \* increments of global_stats
    usage,          \* increments of the user's usage: records [status, charged]
    toolOnly,       \* the conversation's tool-only counter
    frames,         \* closing frames sent to the client
    cancelled,      \* history: a CancelledError has been raised
    dbFailed        \* history: a database write has failed

ledgers == <<records, logs, counted, usage>>
settings == <<fallbackUsed, billed, tracked>>
streamVars == <<pc, turn, path, settings, row, scope, stopping, ledgers, toolOnly, frames,
                cancelled, dbFailed>>

Silence == [text |-> FALSE, reasoning |-> FALSE, toolStarted |-> FALSE,
            toolDone |-> FALSE, messageDone |-> FALSE, ended |-> FALSE]

\* The endpoint has returned and the server reads the first line.
BeginStream(t) ==
    /\ pc' = "streaming" /\ path' = "success"
    /\ tracked' = t
    /\ UNCHANGED <<turn, fallbackUsed, billed, row, scope, stopping, ledgers, toolOnly, frames,
                   cancelled, dbFailed>>

----------------------------------------------------------------------------
(* What the accounting says of the turn.                                   *)

\* closed_after_output: a finished tool call, or message_done after output.
ClosedAfterOutput == \/ turn.toolDone
                     \/ turn.messageDone /\ (turn.text \/ turn.reasoning)

\* apply_outcome_to_details and stats_counters_for_status.
Status(p) == CASE p \in {"success", "closed"} -> IF fallbackUsed THEN "degraded" ELSE "ok"
               [] p = "cancel" -> "cancelled"
               [] OTHER -> p

\* finalize() of record_streaming_events.
Finalize(t) == IF ~tracked THEN toolOnly
               ELSE IF t.toolStarted /\ ~t.text THEN toolOnly + 1 ELSE 0

\* The counter after a path other than success.
Reset == IF tracked THEN 0 ELSE toolOnly

\* _record_request_log: the row it knows is written over.
Logged(s) == IF row THEN [logs EXCEPT ![Len(logs)] = s] ELSE Append(logs, s)

----------------------------------------------------------------------------
(* Streaming.                                                              *)

Saw(e) ==
    CASE e = "text"         -> [turn EXCEPT !.text = TRUE]
      [] e = "reasoning"    -> [turn EXCEPT !.reasoning = TRUE]
      [] e = "tool_start"   -> [turn EXCEPT !.toolStarted = TRUE]
      [] e = "tool_done"    -> [turn EXCEPT !.toolDone = turn.toolStarted]
      [] e = "message_done" -> [turn EXCEPT !.messageDone = TRUE,
                                            !.toolDone = @ \/ turn.toolStarted]

\* One event of the upstream: metered, counted for the breaker, rendered.
Event(e) ==
    /\ pc = "streaming" /\ ~turn.messageDone /\ ~scope
    /\ turn' = Saw(e)
    /\ toolOnly' = IF e = "message_done" THEN Finalize(turn) ELSE toolOnly
    /\ UNCHANGED <<pc, path, settings, row, scope, stopping, ledgers, frames,
                   cancelled, dbFailed>>

\* The renderer has written its closing frames: after message_done, or when
\* the events ran out without one (then finalize runs at the end of the loop).
Rendered ==
    /\ pc = "streaming" /\ pc' = "log" /\ path' = "success"
    /\ turn' = [turn EXCEPT !.ended = TRUE]
    /\ toolOnly' = IF turn.messageDone THEN toolOnly ELSE Finalize(turn)
    /\ frames' = Append(frames, "done")
    /\ UNCHANGED <<settings, row, scope, stopping, ledgers, cancelled, dbFailed>>

UpstreamRaises ==
    /\ pc = "streaming" /\ ~turn.messageDone
    /\ pc' = "log" /\ path' = "fail"
    /\ UNCHANGED <<turn, settings, row, scope, stopping, ledgers, toolOnly, frames, cancelled, dbFailed>>

----------------------------------------------------------------------------
(* The ways a stream is interrupted.                                       *)

\* Slip: any output at all makes a closed stream a finished one.
DisconnectLenient ==
    /\ pc' = "log"
    /\ path' = IF turn.text \/ turn.reasoning \/ turn.toolStarted THEN "closed" ELSE "cancel"

\* The except branch for a departed client.
Disconnect == pc' = "log" /\ path' = IF ClosedAfterOutput THEN "closed" ELSE "cancel"

\* GeneratorExit at a yield of the rendering loop.
ClientCloses ==
    /\ pc = "streaming" /\ ~scope /\ Disconnect
    /\ UNCHANGED <<turn, settings, row, scope, stopping, ledgers, toolOnly, frames, cancelled, dbFailed>>

\* CancelledError: a departed client unless the server is stopping; inside an
\* except block it simply propagates.
Raise == IF pc = "streaming" \/ path = "success"
         THEN IF stopping THEN pc' = "closing" /\ UNCHANGED path ELSE Disconnect
         ELSE pc' = "closing" /\ UNCHANGED path

\* The client leaves while the generator awaits the upstream or a ledger; a
\* write that has reached its thread is shielded, so it counts as done before.
ScopeCancelled ==
    /\ pc \in {"streaming", "log", "record"} /\ ~scope
    /\ scope' = TRUE /\ cancelled' = TRUE
    /\ IF pc = "streaming" THEN Raise ELSE UNCHANGED <<pc, path>>
    /\ UNCHANGED <<turn, settings, row, stopping, ledgers, toolOnly, frames, dbFailed>>

\* In a cancelled scope the checkpoint of to_thread.run_sync raises again.
AwaitRefused ==
    /\ pc \in {"log", "record"} /\ scope /\ Raise
    /\ UNCHANGED <<turn, settings, row, scope, stopping, ledgers, toolOnly, frames, cancelled, dbFailed>>

\* task.cancel(), once: the awaited write may still be carried out.
TaskCancelled ==
    /\ pc \in {"streaming", "log", "record"} /\ ~cancelled
    /\ cancelled' = TRUE /\ Raise
    /\ records' \in {records} \union
          (IF pc = "log" THEN {Append(records, Status(path))} ELSE {})
    /\ logs' \in {logs} \union
          (IF pc = "record" THEN {Logged(Status(path))} ELSE {})
    /\ UNCHANGED <<turn, settings, row, scope, stopping, counted, usage, toolOnly, frames, dbFailed>>

\* The lifespan sets the flag; the process goes down with it.
ServerStops ==
    /\ ~stopping /\ pc # "over" /\ stopping' = TRUE
    /\ UNCHANGED <<pc, turn, path, settings, row, scope, ledgers, toolOnly, frames, cancelled, dbFailed>>

----------------------------------------------------------------------------
(* The accounting of one path.                                             *)

\* _invoke_log_request: a failed write is only a warning.
WriteRecord ==
    /\ pc = "log" /\ ~scope /\ pc' = "record"
    /\ \/ records' = Append(records, Status(path)) /\ UNCHANGED dbFailed
       \/ dbFailed' = TRUE /\ UNCHANGED records
    /\ UNCHANGED <<turn, path, settings, row, scope, stopping, logs, counted, usage, toolOnly,
                   frames, cancelled>>

\* _invoke_record_request_log: likewise.
WriteLog ==
    /\ pc = "record" /\ ~scope /\ pc' = "settle"
    /\ \/ logs' = Logged(Status(path)) /\ UNCHANGED dbFailed
       \/ dbFailed' = TRUE /\ UNCHANGED logs
    /\ UNCHANGED <<turn, path, settings, row, scope, stopping, records, counted, usage, toolOnly,
                   frames, cancelled>>

Charge(p) == [status |-> Status(p), charged |-> p \in {"success", "closed"}]

\* Slip: a stream closed after its output is counted as cancelled.
SettleAsCancelled ==
    /\ pc = "settle"
    /\ counted' = Append(counted, IF path = "closed" THEN "cancelled" ELSE Status(path))
    /\ usage' = IF billed THEN Append(usage, Charge(path)) ELSE usage
    /\ toolOnly' = IF path = "success" THEN toolOnly ELSE Reset
    /\ pc' = IF path = "fail" THEN "error_frame" ELSE "closing"
    /\ UNCHANGED <<turn, path, settings, row, scope, stopping, records, logs, frames, cancelled, dbFailed>>

\* increment_global_stats and increment_user_usage in line, then the reset of
\* the tool-only counter on every path but success.
Settle ==
    /\ pc = "settle"
    /\ counted' = Append(counted, Status(path))
    /\ usage' = IF billed THEN Append(usage, Charge(path)) ELSE usage
    /\ toolOnly' = IF path = "success" THEN toolOnly ELSE Reset
    /\ pc' = IF path = "fail" THEN "error_frame" ELSE "closing"
    /\ UNCHANGED <<turn, path, settings, row, scope, stopping, records, logs, frames, cancelled, dbFailed>>

\* One of the two raises: in the success block the failure branch takes over,
\* in the other blocks the exception leaves the generator.
SettleFails ==
    /\ pc = "settle" /\ dbFailed' = TRUE
    /\ \/ UNCHANGED counted
       \/ billed /\ counted' = Append(counted, Status(path))
    /\ IF path = "success" THEN pc' = "log" /\ path' = "fail"
                           ELSE pc' = "closing" /\ UNCHANGED path
    /\ UNCHANGED <<turn, settings, row, scope, stopping, records, logs, usage, toolOnly, frames, cancelled>>

\* The failure branch tells the client.
SendErrorFrame ==
    /\ pc = "error_frame" /\ pc' = "closing"
    /\ frames' \in {frames, Append(frames, "error")}     \* closed before it is read, or sent
    /\ UNCHANGED <<turn, path, settings, row, scope, stopping, ledgers, toolOnly, cancelled, dbFailed>>

\* finally: aclose of the rendering chain and of the upstream events.
Close ==
    /\ pc = "closing" /\ pc' = "over"
    /\ UNCHANGED <<turn, path, settings, row, scope, stopping, ledgers, toolOnly, frames,
                   cancelled, dbFailed>>

StreamNext ==
    \/ \E e \in Kinds : Event(e)
    \/ Rendered \/ UpstreamRaises
    \/ ClientCloses \/ ScopeCancelled \/ AwaitRefused \/ TaskCancelled \/ ServerStops
    \/ WriteRecord \/ WriteLog \/ Settle \/ SettleFails \/ SendErrorFrame
    \/ Close
=============================================================================
