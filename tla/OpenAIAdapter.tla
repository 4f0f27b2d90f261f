---------------------------- MODULE OpenAIAdapter ----------------------------
(* adapters/openai_streaming.py: the chunks of a chat completion become      *)
(* output events. A step takes the adapter a and returns it with the events. *)
EXTENDS ThinkTags, ToolArgs, OutputEvents

CONSTANT BufferLimit      \* _THINK_BUFFER_LIMIT, in symbols

Absent == 100             \* a tool call without an index

\* Slip: nothing is held back.
KeepNothing == 0

\* What is held back for a closing tag that is cut in half.
Keep == Tag - 1

NewAdapter ==
    [stripped |-> FALSE, buf |-> <<>>, overflowed |-> FALSE, calls |-> <<>>,
     finish |-> "", output |-> FALSE, answer |-> FALSE, thought |-> FALSE]

Quiet(a) == [a |-> a, out |-> <<>>]
Joins(x, y) == [a |-> y.a, out |-> x.out \o y.out]
Some(ev, text) == IF text = <<>> THEN <<>> ELSE <<ev>>
Shown(text) == Some(TextDelta(text), text)
Thought(text) == Some(Reasoning(text), text)
Told(parted) == Thought(parted.think) \o Shown(parted.text)

Passed(a) == [a EXCEPT !.stripped = TRUE, !.overflowed = FALSE, !.buf = <<>>]
Held(a, text, over) == [a EXCEPT !.buf = text, !.overflowed = over]

(* Past the limit the buffer is thinking for certain: it is handed on, all   *)
(* but the symbols that may begin the closing tag.                           *)
InOverflow(a, buf) ==
    LET close == Find(buf, CloseTag, 1)
        last == Len(buf) - Keep
    IN IF close > 0
       THEN [a |-> Passed(a),
             out |-> Thought(SubSeq(buf, 1, close - 1)) \o Shown(Drop(buf, close + Tag - 1))]
       ELSE IF last <= 0 THEN Quiet(Held(a, buf, TRUE))
       ELSE [a |-> Held(a, Drop(buf, last), TRUE), out |-> Thought(SubSeq(buf, 1, last))]

Buffered(a, buf) ==
    LET last == Len(buf) - Keep
    IN CASE Find(buf, CloseTag, 1) > 0 -> [a |-> Passed(a), out |-> Told(Split(buf))]
         [] Find(buf, CloseTag, 1) = 0 /\ ~MayOpen(buf) ->
              [a |-> Passed(a), out |-> <<TextDelta(buf)>>]
         [] Find(buf, CloseTag, 1) = 0 /\ MayOpen(buf) /\ Len(buf) >= BufferLimit ->
              [a |-> Held(a, Drop(buf, last), TRUE), out |-> Thought(WithoutOpen(SubSeq(buf, 1, last)))]
         [] OTHER -> Quiet(Held(a, buf, FALSE))

Content(a, text) ==
    CASE text = <<>> -> Quiet(a)
      [] text # <<>> /\ a.stripped -> [a |-> a, out |-> <<TextDelta(text)>>]
      [] text # <<>> /\ ~a.stripped /\ a.overflowed -> InOverflow(a, a.buf \o text)
      [] OTHER -> Buffered(a, a.buf \o text)

\* The slot of a call: its index, else the slot that has its id, else a free one.
InferredSlot(calls, id) ==
    LET known == {s \in DOMAIN calls : calls[s].id = id}
        count == Cardinality(DOMAIN calls)
    IN CASE id # "" /\ known # {} -> Min(known)
         [] id # "" /\ known = {} -> Min((count..(2 * count)) \ DOMAIN calls)
         [] OTHER -> IF calls = <<>> THEN 0 ELSE Max(DOMAIN calls)
\* Slip: without an index it is the first.
SlotOrFirst(calls, tc) == IF tc.at = Absent THEN 0 ELSE tc.at
SlotOf(calls, tc) == IF tc.at = Absent THEN InferredSlot(calls, tc.id) ELSE tc.at

\* An id that no one gave is made up.
Opened(tc) == [id |-> IF tc.id = "" THEN "fc" ELSE tc.id, name |-> tc.name,
               args |-> <<>>, inStr |-> FALSE, pending |-> <<>>]

ToolChunk(a, tc) ==
    LET s == SlotOf(a.calls, tc)
        first == s \notin DOMAIN a.calls
        was == IF first THEN Opened(tc) ELSE a.calls[s]
        named == [was EXCEPT !.id = IF tc.id = "" THEN @ ELSE tc.id,
                             !.name = IF tc.name = "" THEN @ ELSE tc.name]
        fed == Feed(was.pending, was.inStr, tc.args)
        grown == IF tc.args = <<>> THEN named
                 ELSE [named EXCEPT !.args = @ \o fed.out, !.inStr = fed.inStr, !.pending = fed.pending]
    IN IF s < 0 THEN Quiet(a)
       ELSE [a |-> [a EXCEPT !.calls = Put(@, s, grown)],
             out |-> (IF first THEN <<CallStart(s, was)>> ELSE <<>>)
                     \o (IF tc.args = <<>> THEN <<>> ELSE <<ArgumentsDelta(s, grown, fed.out)>>)]

\* What the loop over the events of a chunk remembers of them.
Noted(x, chunk) ==
    LET Saw(K) == \E i \in 1..Len(x.out) : x.out[i].kind \in K
        noted == [x.a EXCEPT
            !.output = @ \/ Saw(EventKinds \ {"message_start"}),
            !.thought = @ \/ Saw({"reasoning_delta"}),
            !.answer = @ \/ Saw({"text_delta", "tool_call_start", "tool_call_arguments_delta"}),
            !.finish = IF chunk.finish = "" THEN @ ELSE chunk.finish]
    IN [x EXCEPT !.a = noted]

\* The tool calls of a chunk, one after the other, from what x already did.
ToolChunks(x, tcs) ==
    LET y[n \in 0..Len(tcs)] ==
            IF n = 0 THEN x ELSE Joins(y[n - 1], ToolChunk(y[n - 1].a, tcs[n]))
    IN  y

\* _events_from_openai_chunk: content, reasoning, tool calls, finish reason.
Chunk(a, c) ==
    LET told == Content(a, c.content)
        thought == [told EXCEPT !.out = @ \o Thought(c.reasoning)]
    IN Noted(ToolChunks(thought, c.calls)[Len(c.calls)], c)

\* What is still in the think buffer when the stream ends.
Remainder(a) ==
    CASE a.buf = <<>> -> Quiet(a)
      [] a.buf # <<>> /\ (a.overflowed \/ HasOpen(a.buf)) ->
           [a |-> a, out |-> Thought(IF a.overflowed THEN a.buf ELSE WithoutOpen(a.buf))]
      [] OTHER -> [a |-> [a EXCEPT !.answer = TRUE], out |-> <<TextDelta(a.buf)>>]

CloseCall(a, s) ==
    LET tail == Flushed(a.calls[s].pending, a.calls[s].inStr)
        c == [a.calls[s] EXCEPT !.args = @ \o tail, !.pending = <<>>]
    IN [a |-> [a EXCEPT !.calls[s] = c],
        out |-> Some(ArgumentsDelta(s, c, tail), tail) \o <<CallDone(s, c)>>]

\* Slip: a stream that stops is a stream that ended.
NeverTruncated(a) == FALSE

\* No finish reason, no text, no call: the stream was cut off in silence.
Truncated(a) == a.finish = "" /\ ~a.answer /\ a.calls = <<>>

Closing(x, slots) ==
    LET y[n \in 0..Len(slots)] ==
            IF n = 0 THEN x ELSE Joins(y[n - 1], CloseCall(y[n - 1].a, slots[n]))
    IN  y

Finish(a) ==
    LET slots == Ascending(DOMAIN a.calls)
        closed == Closing(Remainder(a), slots)[Len(slots)]
        reason == IF a.finish = "" THEN "stop" ELSE a.finish
    IN IF Truncated(closed.a) THEN closed
       ELSE [closed EXCEPT !.out = Append(@, MessageDone(reason))]

(* response_to_internal_output: the answer of the caller without a stream,   *)
(* for the same content and the same calls (a set of names and arguments).   *)
WholeAnswer(content, reasoning, calls) ==
    [text |-> Split(content).text, think |-> reasoning,
     calls |-> {<<c[1], SanitizeArgs(c[2])>> : c \in calls}]
=============================================================================
