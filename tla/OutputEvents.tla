---------------------------- MODULE OutputEvents ----------------------------
(* core/output.py, InternalOutputEvent: what the adapters of the upstreams   *)
(* hand to the renderers of the endpoints.                                   *)
EXTENDS Integers, Sequences, FiniteSets

EventKinds == {"message_start", "text_delta", "reasoning_delta", "tool_call_start",
               "tool_call_arguments_delta", "tool_call_done", "usage", "message_done"}

\* body is the text, the reasoning or the delta, whole the arguments so far,
\* mark the signature of a thinking block or the finish reason.
Blank == [kind |-> "usage", slot |-> 0, id |-> "", name |-> "",
          body |-> <<>>, whole |-> <<>>, mark |-> ""]

MessageStart    == [Blank EXCEPT !.kind = "message_start"]
TextDelta(t)    == [Blank EXCEPT !.kind = "text_delta", !.body = t]
Reasoning(t)    == [Blank EXCEPT !.kind = "reasoning_delta", !.body = t]
Signature(s)    == [Blank EXCEPT !.kind = "reasoning_delta", !.mark = s]
MessageDone(f)  == [Blank EXCEPT !.kind = "message_done", !.mark = f]
Call(kind, slot, c) ==
    [Blank EXCEPT !.kind = kind, !.slot = slot, !.id = c.id, !.name = c.name,
                  !.whole = c.args]
CallStart(slot, c)       == [Call("tool_call_start", slot, c) EXCEPT !.whole = <<>>]
ArgumentsDelta(slot, c, d) ==
    [Call("tool_call_arguments_delta", slot, c) EXCEPT !.body = d]
CallDone(slot, c)        == Call("tool_call_done", slot, c)

\* f with the value of k replaced, or k added.
Put(f, k, v) == [x \in DOMAIN f \cup {k} |-> IF x = k THEN v ELSE f[x]]

\* The numbers of a finite set in ascending order.
Ascending(S) ==
    [i \in 1..Cardinality(S) |-> CHOOSE n \in S : Cardinality({m \in S : m < n}) = i - 1]
=============================================================================
