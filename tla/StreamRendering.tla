--------------------------- MODULE StreamRendering ---------------------------
(* One streamed answer from the upstream to the client: an upstream (chat    *)
(* chunks or Anthropic events) through its adapter (OpenAIAdapter,           *)
(* AnthropicAdapter) and the renderer of the client's endpoint (Egress), as  *)
(* proxy.py and core/streaming.py put them together. up is what the upstream *)
(* has sent so far: the truth the client's answer is compared with.          *)
EXTENDS OpenAIAdapter, AnthropicAdapter, Egress

CONSTANTS
    MaxPieces,            \* pieces of text, or of arguments, of one answer
    MaxCallChunks,        \* chunks of a chat answer with calls
    MaxEvents,            \* events of one Anthropic attempt
    Retries               \* provider_retry_count

VARIABLES focus, client, up, openai, anthropic, renderer, attempt, phase
renderingVars == <<focus, client, up, openai, anthropic, renderer, attempt, phase>>
setup == <<focus, client>>

(* What the upstream is tried on: text with tags in every chunking, the      *)
(* arguments of a call in every chunking, chunks with several calls, or the  *)
(* blocks of an Anthropic message.                                           *)
Clients == [think |-> {"chat"}, args |-> {"responses"},
            chunks |-> {"chat", "completions", "responses", "messages"},
            blocks |-> {"chat", "completions", "responses", "messages"}]
\* How a chat upstream numbers its two calls.
Styles == {<<0, 1>>, <<1, 3>>, <<Absent, Absent>>, <<0, Absent>>}
Names == <<"f", "p">>
Ids == <<"c1", "c2">>

NothingSent == [n |-> 0, text |-> <<>>, think |-> <<>>, calls |-> <<>>, finish |-> "",
                style |-> <<0, 1>>, open |-> "", blocks |-> 0]

RenderingInit ==
    /\ focus \in DOMAIN Clients
    /\ client \in Clients[focus]
    /\ \E s \in Styles :
         /\ focus # "chunks" => s = <<0, 1>>
         /\ up = [NothingSent EXCEPT !.style = s]
    /\ openai = NewAdapter
    /\ anthropic = NewMessage
    /\ renderer = IF focus = "blocks" THEN Begin(client)
                  ELSE Render(client, Begin(client), MessageStart)
    /\ attempt = 0
    /\ phase = "streaming"

\* The renderer after each of the events.
Renders(r, evs) ==
    LET x[n \in 0..Len(evs)] == IF n = 0 THEN r ELSE Render(client, x[n - 1], evs[n]) IN x
Rendering(r, evs) == Renders(r, evs)[Len(evs)]
Underway == phase = "streaming"

\* The events are over: what the renderer adds, or its failure.
Conclude(r) ==
    IF client = "responses" /\ NothingCame(r)
    THEN renderer' = r /\ phase' = "raised"
    ELSE renderer' = End(client, r) /\ phase' = "ended"

----------------------------------------------------------------------------
\* A chat upstream
Send(chunk, sent) ==
    /\ Underway
    /\ focus # "blocks"
    /\ up.finish = ""
    /\ up' = [sent EXCEPT !.n = @ + 1, !.finish = chunk.finish]
    /\ \E x \in {Chunk(openai, chunk)} :
          openai' = x.a /\ renderer' = Rendering(renderer, x.out)
    /\ UNCHANGED <<setup, anthropic, attempt, phase>>

Empty == [content |-> <<>>, reasoning |-> <<>>, calls |-> <<>>, finish |-> ""]

TextPieces == {<<"<">>, <<"t">>, <<"/">>, <<"x">>, <<" ">>, <<"<", "t">>, <<"<", "/">>,
               <<"<", "/", "x", " ">>, <<"t", "x">>, <<"x", "<">>}
SendText ==
    /\ focus = "think" /\ up.n < MaxPieces
    /\ \E piece \in TextPieces, finish \in {"", "stop"} :
         Send([Empty EXCEPT !.content = piece, !.finish = finish],
              [up EXCEPT !.text = @ \o piece])

ArgumentPieces == {<<"q">>, <<"b">>, <<"u">>, <<"n">>, <<",">>, <<"x">>,
                   <<"u", "n">>, <<"b", "q">>, <<"q", ",">>}
PieceOf(k, at, id, args) ==
    [at |-> at, id |-> id, args |-> args,
     name |-> IF k \in DOMAIN up.calls THEN "" ELSE Names[k]]
Said(k) == IF k \in DOMAIN up.calls THEN up.calls[k] ELSE <<>>

SendArguments ==
    /\ focus = "args" /\ up.n < MaxPieces
    /\ \E piece \in ArgumentPieces :
         Send([Empty EXCEPT !.calls = <<PieceOf(1, 0, "c1", piece)>>],
              [up EXCEPT !.calls = Put(@, 1, Said(1) \o piece)])

\* JSON that is whole or not yet whole, or text that is none.
Plausible == {<<>>, <<"{", "v">>, Object, <<"v">>, <<"v", "v">>}
CallPieces == {<<>>, <<"{", "v">>, <<"}">>, <<"v">>}
(* A call begins with its name. Without an index it begins with its id too,  *)
(* and goes on without one only while no other call has begun since.         *)
Addressed(k, id) ==
    \/ up.style[k] # Absent
    \/ id # ""
    \/ k \in DOMAIN up.calls /\ k = Max(DOMAIN up.calls)
Addresses(k) == {id \in {"", Ids[k]} : Addressed(k, id)}
Continuations(k) == {args \in CallPieces : Said(k) \o args \in Plausible}
CallChunks(k) ==
    {PieceOf(k, up.style[k], id, args) : id \in Addresses(k), args \in Continuations(k)}
Spurious == [at |-> 0 - 1, id |-> "z", name |-> "z", args |-> <<"v">>]

SendWords ==
    /\ focus = "chunks" /\ up.n < MaxCallChunks
    /\ \E content \in {<<>>, <<"x">>}, reasoning \in {<<>>, <<"r">>}, finish \in {"", "stop", "length"} :
         /\ content # reasoning
         /\ Send([Empty EXCEPT !.content = content, !.reasoning = reasoning, !.finish = finish],
                 [up EXCEPT !.text = @ \o content, !.think = @ \o reasoning])
SendCall ==
    /\ focus = "chunks" /\ up.n < MaxCallChunks
    /\ \E k \in 1..2, finish \in {"", "tool_calls"}, tail \in {<<>>, <<Spurious>>} :
         \E c \in CallChunks(k) :
            /\ k = 2 => 1 \in DOMAIN up.calls
            /\ Send([Empty EXCEPT !.calls = <<c>> \o tail, !.finish = finish],
                    [up EXCEPT !.calls = Put(@, k, Said(k) \o c.args)])
SendBothCalls ==
    /\ focus = "chunks" /\ up.n < MaxCallChunks
    /\ up.calls = <<>>
    /\ \E c \in CallChunks(1), d \in CallChunks(2) :
         Send([Empty EXCEPT !.calls = <<c, d>>], [up EXCEPT !.calls = <<c.args, d.args>>])

EndOfChunks ==
    /\ \E x \in {Finish(openai)} :
          LET r == Rendering(renderer, x.out) IN
          /\ openai' = x.a
          /\ IF Truncated(x.a) THEN renderer' = r /\ phase' = "raised" ELSE Conclude(r)
    /\ UNCHANGED <<setup, up, anthropic, attempt>>
CloseChunks == Underway /\ focus # "blocks" /\ EndOfChunks

\* liteLLM fails behind its last chunk: an end like any other once something came.
TailError == Underway /\ focus = "chunks" /\ openai.output /\ EndOfChunks

BreakChunks ==
    /\ Underway
    /\ focus = "chunks"
    /\ phase' = "raised"
    /\ UNCHANGED <<setup, up, openai, anthropic, renderer, attempt>>

----------------------------------------------------------------------------
\* An Anthropic upstream: blocks one after the other, numbered from 0.
Note == [kind |-> "message_start", block |-> 0, type |-> "", id |-> "", name |-> "",
         body |-> <<>>, mark |-> ""]

Receive(e, sent) ==
    /\ Underway
    /\ focus = "blocks"
    /\ up.n < MaxEvents
    /\ up' = [sent EXCEPT !.n = @ + 1]
    /\ \E x \in {Handled(anthropic, e)} :
          anthropic' = x.m /\ renderer' = Rendering(renderer, x.out)
    /\ UNCHANGED <<setup, openai, attempt, phase>>

ReceiveStart == up.n = 0 /\ Receive(Note, up)

InMessage == up.n > 0 /\ up.finish = ""
OpenBlock ==
    /\ InMessage /\ up.open = ""
    /\ \E type \in {"text", "thinking", "tool_use"} :
         LET k == Cardinality(DOMAIN up.calls) + 1 IN
         /\ type = "tool_use" => k <= 2
         /\ Receive([Note EXCEPT !.kind = "content_block_start", !.block = up.blocks, !.type = type,
                        !.id = IF type = "tool_use" THEN Ids[k] ELSE "",
                        !.name = IF type = "tool_use" THEN Names[k] ELSE ""],
                    [up EXCEPT !.open = type, !.blocks = @ + 1,
                        !.calls = IF type = "tool_use" THEN Append(@, <<>>) ELSE @])

Delta(kind) == [Note EXCEPT !.kind = kind, !.block = up.blocks - 1]
BlockDelta ==
    /\ InMessage
    /\ \/ /\ up.open = "text"
          /\ Receive([Delta("text_delta") EXCEPT !.body = <<"x">>], [up EXCEPT !.text = Append(@, "x")])
       \/ /\ up.open = "thinking"
          /\ \/ Receive([Delta("thinking_delta") EXCEPT !.body = <<"r">>],
                        [up EXCEPT !.think = Append(@, "r")])
             \/ Receive([Delta("signature_delta") EXCEPT !.mark = "s"], up)
       \/ /\ up.open = "tool_use"
          /\ \E piece \in CallPieces :
               LET k == Len(up.calls) IN
               /\ up.calls[k] \o piece \in Plausible
               /\ Receive([Delta("input_json_delta") EXCEPT !.body = piece],
                          [up EXCEPT !.calls[k] = @ \o piece])

CloseBlock ==
    /\ InMessage /\ up.open # ""
    /\ Receive(Delta("content_block_stop"), [up EXCEPT !.open = ""])

StopMessage ==
    /\ InMessage /\ up.open = ""
    /\ \E reason \in DOMAIN Reasons :
         Receive([Note EXCEPT !.kind = "message_delta", !.mark = reason],
                 [up EXCEPT !.finish = reason])

\* An attempt that failed is made again, or its failure is the client's.
Fail ==
    /\ Underway
    /\ focus = "blocks"
    /\ IF MayRetry(anthropic, attempt, Retries)
       THEN /\ attempt' = attempt + 1
            /\ anthropic' = NewMessage
            /\ up' = NothingSent
            /\ phase' = phase
       ELSE phase' = "raised" /\ UNCHANGED <<attempt, anthropic, up>>
    /\ UNCHANGED <<setup, openai, renderer>>

\* The connection is closed, with a message_stop before it or without.
CloseMessage ==
    /\ Underway
    /\ focus = "blocks"
    /\ Complete(anthropic)
    /\ Conclude(Rendering(renderer, Ending(anthropic)))
    /\ UNCHANGED <<setup, up, openai, anthropic, attempt>>
MessageStop ==
    /\ up.n > 0 /\ up.open = ""
    /\ Underway
    /\ focus = "blocks"
    /\ anthropic' = Handled(anthropic, [Note EXCEPT !.kind = "message_stop"]).m
    /\ Conclude(Rendering(renderer, Ending(anthropic')))
    /\ UNCHANGED <<setup, up, openai, attempt>>

AnswerOver == phase # "streaming" /\ UNCHANGED renderingVars

RenderingNext ==
    \/ SendText \/ SendArguments \/ SendWords \/ SendCall \/ SendBothCalls
    \/ CloseChunks \/ TailError \/ BreakChunks
    \/ ReceiveStart \/ OpenBlock \/ BlockDelta \/ CloseBlock \/ StopMessage
    \/ Fail \/ CloseMessage \/ MessageStop
    \/ AnswerOver

RenderingSpec == RenderingInit /\ [][RenderingNext]_renderingVars

----------------------------------------------------------------------------
(* The client's side: what it puts together from the frames.                 *)
Frames == renderer.frames
PositionsOf(kind) == {i \in DOMAIN Frames : Frames[i].kind = kind}
OfKind(K) == SelectSeq(Frames, LAMBDA f : f.kind \in K)

\* The bodies of the frames at some positions, one after the other.
Bodies(P) == [i \in DOMAIN Frames |-> IF i \in P THEN Frames[i].body ELSE <<>>]
Joining(parts) ==
    LET t[n \in 0..Len(parts)] == IF n = 0 THEN <<>> ELSE t[n - 1] \o parts[n] IN t
Assembled(P) == Joining(Bodies(P))[Len(Frames)]

TextSeen == Assembled(PositionsOf("text"))
\* A response has at most one reasoning item; its body begins with type and name.
ReasoningItems == {i \in PositionsOf("item done") : Frames[i].body[1] = "reasoning"}
ThinkingSeen ==
    IF client = "responses"
    THEN Drop(Assembled(ReasoningItems), 2)
    ELSE Assembled(PositionsOf("thinking"))
\* The calls: where each begins, under which name, and with which arguments.
Beginnings ==
    CASE client = "chat" -> {[at |-> Frames[i].at, name |-> Frames[i].body[2]] : i \in PositionsOf("call")}
      [] client = "messages" ->
           {[at |-> Frames[i].at, name |-> Frames[i].body[2]] :
                i \in {j \in PositionsOf("start") : Frames[j].body[1] = "tool_use"}}
      [] client = "responses" ->
           {[at |-> Frames[i].at, name |-> Frames[i].body[2]] :
                i \in {j \in PositionsOf("item done") : Frames[j].body[1] = "call"}}
      [] OTHER -> {}
CallsSeen == {<<b.name, Assembled({i \in PositionsOf("arguments") : Frames[i].at = b.at})>> : b \in Beginnings}

\* What the endpoint shows of the same answer when it is not streamed.
Whole == WholeAnswer(up.text, up.think, {<<Names[k], up.calls[k]>> : k \in DOMAIN up.calls})
WholeFor ==
    CASE client = "chat"        -> ChatAnswer(Whole)
      [] client = "completions" -> CompletionAnswer(Whole)
      [] client = "messages"    -> MessageAnswer(Whole)
      [] OTHER                  -> ResponseAnswer(Whole)

Ended == phase = "ended"

(* A stream that ends has told the client what the same answer tells it when *)
(* it is not streamed, at every endpoint: no text, reasoning or call is lost,  *)
(* doubled by a retry, or given to another call when calls are interleaved,    *)
(* numbered with gaps or not numbered at all.                                  *)
ToldWhole ==
    (Ended /\ focus \in {"chunks", "blocks"}) =>
        [text |-> TextSeen, think |-> ThinkingSeen, calls |-> CallsSeen] = WholeFor

(* The blocks of a Messages stream follow one another and are numbered        *)
(* without a gap, whatever the order in which text, thinking and calls came:  *)
(* a strict client drops or rejects a block that overlaps another.            *)
Blocks == {Frames[i].at : i \in PositionsOf("start")}
Within(b) == {i \in DOMAIN Frames : Frames[i].at = b
                 /\ Frames[i].kind \in {"start", "text", "thinking", "signature", "arguments", "stop"}}
BlocksFollow ==
    client = "messages" =>
        /\ Blocks = 0..(Cardinality(PositionsOf("start")) - 1)
        /\ \A b \in Blocks :
             /\ Frames[Min(Within(b))].kind = "start"
             /\ (Ended \/ b + 1 \in Blocks) => Frames[Max(Within(b))].kind = "stop"
             /\ b + 1 \in Blocks => Max(Within(b)) < Min(Within(b + 1))

(* The items of a Responses stream: each is added once under the next output  *)
(* index, before its deltas; when the response completes each is done once,   *)
(* in the order of the indices, and its deltas add up to what it holds.       *)
ItemsAddUp ==
    client = "responses" =>
        LET added == OfKind({"added"})
            closed == OfKind({"item done"})
        IN /\ \A i \in DOMAIN added : added[i].at = i - 1
           /\ \A i \in DOMAIN Frames : Frames[i].kind \in {"text", "arguments"} =>
                \E j \in PositionsOf("added") : j < i /\ Frames[j].at = Frames[i].at
           /\ Ended =>
                /\ Len(closed) = Len(added)
                /\ \A i \in DOMAIN closed :
                     /\ closed[i].at = added[i].at
                     /\ closed[i].body[1] # "reasoning" =>
                          Drop(closed[i].body, 2) =
                              Assembled({j \in PositionsOf("text") \cup PositionsOf("arguments") : Frames[j].at = i - 1})

(* A message whose one block of thinking leads it, or that has none, is split  *)
(* as it would be whole, wherever the chunks are cut and however much of it    *)
(* was buffered; white space aside. White space before the block is shorter    *)
(* than the buffer.                                                            *)
OpensAt == {i \in 1..(Len(up.text) - 1) : SubSeq(up.text, i, i + 1) = OpenTag}
ClosesAt == {i \in 1..(Len(up.text) - 1) : SubSeq(up.text, i, i + 1) = CloseTag}
Leading == Len(up.text) - Len(Lstrip(up.text))
OneBlock ==
    /\ Leading + Tag + Keep <= BufferLimit
    /\ OpensAt \subseteq {Leading + 1}
    /\ Cardinality(ClosesAt) <= 1
ThinkingSplit ==
    (Ended /\ focus = "think" /\ OneBlock) =>
        /\ Squeezed(TextSeen) = Squeezed(Whole.text)
        /\ Squeezed(ThinkingSeen) = Squeezed(Split(up.text).think)

(* The arguments that reach the client in pieces are those of a repair of the  *)
(* whole, for every chunking of JSON text: a word inside a string stays, one   *)
(* outside is replaced, also when a chunk ends inside it.                      *)
ArgumentsAsWhole ==
    (Ended /\ focus = "args" /\ up.calls # <<>> /\ IsLegal(up.calls[1])) =>
        CallsSeen = Whole.calls

EndFrames == {"finish", "[DONE]", "completed", "message_stop"}

(* A stream that was cut off is never shown as an answer that ended: the       *)
(* client sees an end only if the upstream said so or has answered, and never  *)
(* behind an error.                                                            *)
TruncationShows ==
    /\ (\E i \in DOMAIN Frames : Frames[i].kind \in EndFrames) => Ended
    /\ Ended => \/ up.finish # "" \/ up.calls # <<>> \/ TextSeen # <<>>
                \/ focus = "blocks"
    /\ (Ended /\ focus = "blocks") => up.n > 0 /\ up.open = ""

(* What a stream tells is complete in the end, and in the one stream that says  *)
(* everything twice (the items of a Responses stream and their deltas) it is    *)
(* complete either way: a client that reads the deltas and one that reads the   *)
(* finished items have the same answer, which is that of no stream at all.      *)
AnswerComplete == ToldWhole /\ ItemsAddUp

(* Where the upstream cuts its text and its arguments into chunks makes no      *)
(* difference to what the client has in the end, white space aside.             *)
ChunksDoNotMatter == ThinkingSplit /\ ArgumentsAsWhole
=============================================================================
