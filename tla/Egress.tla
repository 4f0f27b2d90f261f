-------------------------------- MODULE Egress --------------------------------
(* protocols/egress.py: output events become the frames of the client's      *)
(* protocol. A frame is its kind, the index it carries and its body; usage   *)
(* numbers, identifiers of the response and time stamps are left out. A step *)
(* takes the renderer r and returns it, with its frames appended.            *)
EXTENDS OutputEvents, ToolArgs, SequencesExt

CONSTANT CustomTools      \* names of the Responses request's free-text tools

None == -1

\* next is the next output or block index; over, that the loop was left.
NewRenderer ==
    [frames |-> <<>>, over |-> FALSE, done |-> FALSE, finish |-> "stop", next |-> 0,
     text |-> <<>>, think |-> <<>>, textAt |-> None, thinkAt |-> None,
     sig |-> "", headers |-> {}, calls |-> <<>>]

Emit(r, kind, at, body) ==
    [r EXCEPT !.frames = Append(@, [kind |-> kind, at |-> at, body |-> body])]
Leave(r, e) == [r EXCEPT !.over = TRUE, !.done = TRUE, !.finish = IF e.mark = "" THEN @ ELSE e.mark]

----------------------------------------------------------------------------
\* render_chat_completions_sse
ChatCall(r, e) ==
    Emit([r EXCEPT !.headers = @ \cup {e.slot}], "call", e.slot, <<e.id, e.name>>)
ChatArguments(r, e) ==
    Emit(IF e.slot \in r.headers THEN r ELSE ChatCall(r, e), "arguments", e.slot, e.body)
ChatReason(r, e) ==
    IF e.mark # "" THEN e.mark ELSE IF r.headers # {} THEN "tool_calls" ELSE "stop"
Chat(r, e) ==
    CASE e.kind = "message_start"   -> Emit(r, "role", 0, <<>>)
      [] e.kind = "text_delta"      -> Emit(r, "text", 0, e.body)
      [] e.kind = "reasoning_delta" -> Emit(r, "thinking", 0, e.body)
      [] e.kind = "tool_call_start" -> ChatCall(r, e)
      [] e.kind = "tool_call_arguments_delta" -> ChatArguments(r, e)
      [] e.kind = "message_done"    -> Emit(Leave(r, e), "finish", 0, <<ChatReason(r, e)>>)
      [] OTHER                      -> r
ChatEnd(r) == Emit(r, "[DONE]", 0, <<>>)

\* render_completions_sse: text only; calls are dropped and set the reason.
Completions(r, e) ==
    CASE e.kind = "text_delta" /\ e.body # <<>> -> Emit(r, "text", 0, e.body)
      [] e.kind \in {"tool_call_start", "tool_call_arguments_delta", "tool_call_done"} ->
           [r EXCEPT !.headers = @ \cup {e.slot}]
      [] e.kind = "message_done" -> Emit(Leave(r, e), "finish", 0, <<ChatReason(r, e)>>)
      [] OTHER -> r

----------------------------------------------------------------------------
\* render_responses_sse
ResponsesText(r, e) ==
    LET added == IF r.textAt # None THEN r
                 ELSE Emit([r EXCEPT !.textAt = r.next, !.next = @ + 1], "added", r.next, <<"message">>)
    IN Emit([added EXCEPT !.text = @ \o e.body], "text", added.textAt, e.body)

ResponsesReasoning(r, e) ==
    LET noted == [r EXCEPT !.think = @ \o e.body] IN
    IF r.thinkAt # None \/ e.body = <<>> THEN noted
    ELSE Emit([noted EXCEPT !.thinkAt = r.next, !.next = @ + 1], "added", r.next, <<"reasoning">>)

Fresh(r, e) == [id |-> e.id, name |-> e.name, args |-> <<>>, at |-> r.next, sent |-> <<>>]
StateOf(r, e) == IF e.slot \in DOMAIN r.calls THEN r.calls[e.slot] ELSE Fresh(r, e)
AddCall(r, e) ==
    Emit([r EXCEPT !.calls = Put(@, e.slot, StateOf(r, e)), !.next = @ + 1],
         "added", StateOf(r, e).at, <<"call">>)

\* What of a custom tool's free text is new; when it does not extend what was
\* sent, all of it.
InputDelta(c) ==
    LET input == CustomInput(c.args) IN
    IF IsPrefix(c.sent, input) THEN SubSeq(input, Len(c.sent) + 1, Len(input)) ELSE input
SendInput(r, slot) ==
    LET c == r.calls[slot]
        sent == [r EXCEPT !.calls[slot].sent = CustomInput(c.args)]
    IN IF InputDelta(c) = <<>> THEN sent ELSE Emit(sent, "arguments", c.at, InputDelta(c))

ResponsesArguments(r, e) ==
    LET added == IF e.slot \in DOMAIN r.calls THEN r ELSE AddCall(r, e)
        args == IF e.whole # <<>> THEN e.whole ELSE added.calls[e.slot].args \o e.body
        grown == [added EXCEPT !.calls[e.slot].args = args]
        c == grown.calls[e.slot]
    IN IF c.name \in CustomTools THEN SendInput(grown, e.slot)
       ELSE Emit(grown, "arguments", c.at, e.body)

Responses(r, e) ==
    CASE e.kind = "text_delta" /\ e.body # <<>>     -> ResponsesText(r, e)
      [] e.kind = "reasoning_delta"                 -> ResponsesReasoning(r, e)
      [] e.kind = "tool_call_start"                 -> AddCall(r, e)
      [] e.kind = "tool_call_arguments_delta"       -> ResponsesArguments(r, e)
      [] e.kind = "message_done"                    -> Leave(r, e)
      [] OTHER                                      -> r

\* The items that exist, each with its output index and what it holds whole.
Items(r) ==
    (IF r.thinkAt = None THEN {} ELSE {[at |-> r.thinkAt, type |-> "reasoning", name |-> "", body |-> r.think]})
    \cup (IF r.textAt = None THEN {} ELSE {[at |-> r.textAt, type |-> "message", name |-> "", body |-> r.text]})
    \cup {[at |-> r.calls[s].at, type |-> "call", name |-> r.calls[s].name,
           body |-> IF r.calls[s].name \in CustomTools THEN CustomInput(r.calls[s].args)
                    ELSE r.calls[s].args] : s \in DOMAIN r.calls}

\* Nothing came and no end either: the renderer fails instead of ending.
NothingCame(r) == ~r.done /\ r.text = <<>> /\ r.think = <<>> /\ r.calls = <<>>

CloseText(r) ==
    IF r.textAt = None THEN r ELSE Emit(r, "done", r.textAt, r.text)
CallDoneAt(r, s) ==
    LET y == IF r.calls[s].name \in CustomTools THEN SendInput(r, s) ELSE r
        c == y.calls[s]
    IN Emit(y, "done", c.at, IF c.name \in CustomTools THEN CustomInput(c.args) ELSE c.args)
CallsDone(r, slots) ==
    LET x[n \in 0..Len(slots)] == IF n = 0 THEN r ELSE CallDoneAt(x[n - 1], slots[n]) IN x
CloseCalls(r) == LET slots == Ascending(DOMAIN r.calls) IN CallsDone(r, slots)[Len(slots)]
ItemDoneAt(r, items, at) ==
    LET i == CHOOSE i \in items : i.at = at
    IN Emit(r, "item done", at, <<i.type, i.name>> \o i.body)
ItemsDone(r, items, ats) ==
    LET x[n \in 0..Len(ats)] == IF n = 0 THEN r ELSE ItemDoneAt(x[n - 1], items, ats[n]) IN x
CloseItems(r) ==
    LET ats == Ascending({i.at : i \in Items(r)}) IN ItemsDone(r, Items(r), ats)[Len(ats)]
ResponsesEnd(r) ==
    Emit(Emit(CloseItems(CloseCalls(CloseText(r))), "completed", 0,
              <<IF r.finish = "length" THEN "incomplete" ELSE "completed">>), "[DONE]", 0, <<>>)

----------------------------------------------------------------------------
\* render_anthropic_messages_sse: one block is open at a time.
Sign(r) == IF r.sig = "" THEN r ELSE Emit(r, "signature", r.thinkAt, <<r.sig>>)
StopThinking(r) ==
    IF r.thinkAt = None THEN r
    ELSE [Emit(Sign(r), "stop", r.thinkAt, <<>>) EXCEPT !.thinkAt = None]

\* Slip: the text block stays open.
StopTextLater(r) == r

StopText(r) ==
    IF r.textAt = None THEN r ELSE [Emit(r, "stop", r.textAt, <<>>) EXCEPT !.textAt = None]

MessagesText(r, e) ==
    LET closed == StopThinking(r)
        open == IF closed.textAt # None THEN closed
                ELSE Emit([closed EXCEPT !.textAt = r.next, !.next = @ + 1], "start", r.next, <<"text">>)
    IN Emit(open, "text", open.textAt, e.body)

MessagesThinking(r, e) ==
    LET signed == IF e.mark = "" THEN r ELSE [r EXCEPT !.sig = e.mark]
        closed == StopText(signed)
        open == IF r.thinkAt # None THEN signed
                ELSE Emit([closed EXCEPT !.thinkAt = r.next, !.next = @ + 1], "start", r.next, <<"thinking">>)
    IN IF e.body = <<>> THEN signed ELSE Emit(open, "thinking", open.thinkAt, e.body)

\* A call is only collected: its block is sent when the others are closed.
MessagesCall(r, e) == [r EXCEPT !.calls = Put(@, e.slot, Fresh(r, e))]
MessagesArguments(r, e) ==
    LET c == StateOf(r, e)
        grown == [c EXCEPT !.args = IF e.whole # <<>> THEN e.whole ELSE @ \o e.body]
    IN [r EXCEPT !.calls = Put(@, e.slot, grown)]

Messages(r, e) ==
    CASE e.kind = "text_delta" /\ e.body # <<>>     -> MessagesText(r, e)
      [] e.kind = "reasoning_delta"                 -> MessagesThinking(r, e)
      [] e.kind = "tool_call_start"                 -> MessagesCall(r, e)
      [] e.kind = "tool_call_arguments_delta"       -> MessagesArguments(r, e)
      [] e.kind = "message_done"                    -> Leave(r, e)
      [] OTHER                                      -> r

CallBlock(r, s) ==
    LET c == r.calls[s]
        started == Emit([r EXCEPT !.next = @ + 1], "start", r.next, <<"tool_use", c.name>>)
    IN Emit(Emit(started, "arguments", r.next, ArgumentsToInput(c.args)), "stop", r.next, <<>>)

StopReason(finish) ==
    CASE finish = "length" -> "max_tokens" [] finish = "tool_calls" -> "tool_use" [] OTHER -> "end_turn"
CallBlocks(r, slots) ==
    LET x[n \in 0..Len(slots)] == IF n = 0 THEN r ELSE CallBlock(x[n - 1], slots[n]) IN x
MessagesEnd(r) ==
    LET slots == Ascending(DOMAIN r.calls)
        blocks == CallBlocks(StopText(StopThinking(r)), slots)[Len(slots)]
    IN Emit(Emit(blocks, "finish", 0, <<StopReason(r.finish)>>), "message_stop", 0, <<>>)
----------------------------------------------------------------------------
(* The answers without a stream: what each endpoint shows of an answer.      *)
ChatAnswer(w) == w
CompletionAnswer(w) == [w EXCEPT !.think = <<>>, !.calls = {}]
MessageAnswer(w) == [w EXCEPT !.calls = {<<c[1], ArgumentsToInput(c[2])>> : c \in @}]
ResponseAnswer(w) ==
    [w EXCEPT !.calls =
        {<<c[1], IF c[1] \in CustomTools THEN CustomInput(c[2]) ELSE c[2]>> : c \in @}]
----------------------------------------------------------------------------
\* Which renderer an endpoint uses: before the events, for one, behind the last.
Begin(client) ==
    CASE client = "responses" -> Emit(NewRenderer, "created", 0, <<>>)
      [] client = "messages"  -> Emit(NewRenderer, "message_start", 0, <<>>)
      [] OTHER                -> NewRenderer
Render(client, r, e) ==
    CASE r.over -> r
      [] ~r.over /\ client = "chat"        -> Chat(r, e)
      [] ~r.over /\ client = "completions" -> Completions(r, e)
      [] ~r.over /\ client = "responses"   -> Responses(r, e)
      [] OTHER                             -> Messages(r, e)
End(client, r) ==
    CASE client \in {"chat", "completions"} -> ChatEnd(r)
      [] client = "responses"               -> ResponsesEnd(r)
      [] OTHER                              -> MessagesEnd(r)
=============================================================================
