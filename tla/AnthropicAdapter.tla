--------------------------- MODULE AnthropicAdapter ---------------------------
(* adapters/anthropic_streaming.py: the events of an Anthropic message       *)
(* become output events. An upstream event is a record: its kind, the index  *)
(* and the type of its block, the id and name of a tool, its body (text,     *)
(* thinking or partial JSON) and its mark (signature or stop reason).        *)
EXTENDS OutputEvents

NewMessage ==
    [blocks |-> <<>>, slots |-> <<>>, finish |-> "stop",
     delta |-> FALSE, stop |-> FALSE, emitted |-> FALSE]

Does(m, evs) == [m |-> [m EXCEPT !.emitted = @ \/ evs # <<>>], out |-> evs]

(* The blocks of a message share one numbering, the calls of a chat have one *)
(* of their own: the slot of a block is the number of calls before it.       *)
Slotted(m, b) ==
    IF b \in DOMAIN m.slots THEN m ELSE [m EXCEPT !.slots = Put(@, b, Cardinality(DOMAIN @))]

UnknownBlock == [type |-> "", id |-> "", name |-> "", args |-> <<>>]
Block(m, b) == IF b \in DOMAIN m.blocks THEN m.blocks[b] ELSE UnknownBlock

BlockStart(m, e) ==
    LET block == [type |-> e.type, id |-> e.id, name |-> e.name, args |-> <<>>]
        known == [m EXCEPT !.blocks = Put(@, e.block, block)]
        n == Slotted(known, e.block)
    IN IF e.type = "tool_use" THEN Does(n, <<CallStart(n.slots[e.block], block)>>) ELSE Does(known, <<>>)

TextOf(m, e)     == Does(m, IF e.body = <<>> THEN <<>> ELSE <<TextDelta(e.body)>>)
ThinkingOf(m, e) == Does(m, IF e.body = <<>> THEN <<>> ELSE <<Reasoning(e.body)>>)
SignatureOf(m, e) == Does(m, IF e.mark = "" THEN <<>> ELSE <<Signature(e.mark)>>)
JsonOf(m, e) ==
    LET block == [Block(m, e.block) EXCEPT !.args = @ \o e.body]
        n == [Slotted(m, e.block) EXCEPT !.blocks = Put(@, e.block, block)]
    IN IF e.body = <<>> THEN Does(m, <<>>)
       ELSE Does(n, <<ArgumentsDelta(n.slots[e.block], block, e.body)>>)

BlockStop(m, e) ==
    LET n == Slotted(m, e.block) IN
    IF Block(m, e.block).type = "tool_use"
    THEN Does(n, <<CallDone(n.slots[e.block], Block(m, e.block))>>) ELSE Does(m, <<>>)

\* message_delta: the stop reason, in the words of a chat, and the usage.
Reasons == [tool_use |-> "tool_calls", max_tokens |-> "length", end_turn |-> "stop"]
MessageDelta(m, e) ==
    Does([m EXCEPT !.delta = TRUE, !.finish = IF e.mark = "" THEN @ ELSE Reasons[e.mark]], <<Blank>>)

Handled(m, e) ==
    CASE e.kind = "message_start"       -> Does(m, <<MessageStart>>)
      [] e.kind = "content_block_start" -> BlockStart(m, e)
      [] e.kind = "text_delta"          -> TextOf(m, e)
      [] e.kind = "thinking_delta"      -> ThinkingOf(m, e)
      [] e.kind = "signature_delta"     -> SignatureOf(m, e)
      [] e.kind = "input_json_delta"    -> JsonOf(m, e)
      [] e.kind = "content_block_stop"  -> BlockStop(m, e)
      [] e.kind = "message_delta"       -> MessageDelta(m, e)
      [] OTHER                          -> Does([m EXCEPT !.stop = TRUE], <<>>)

\* The connection is closed: without a delta or a stop the message is cut off.
Complete(m) == m.delta \/ m.stop
\* A failed attempt is made again only while nothing of it was handed on.
MayRetry(m, attempt, retries) == ~m.emitted /\ attempt < retries
\* What follows the stream of a complete message.
Ending(m) == <<Blank, MessageDone(m.finish)>>
=============================================================================
