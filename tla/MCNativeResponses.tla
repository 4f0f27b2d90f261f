------------------------- MODULE MCNativeResponses -------------------------
(* An instance of NativeResponses for TLC.                                 *)
EXTENDS NativeResponses

CONSTANT Other  \* the request that shares the rows with the one under study

Plain == [stream |-> FALSE, tools |-> FALSE, bound |-> FALSE, nativeOnly |-> FALSE,
          chatOnly |-> FALSE, history |-> "paired"]

\* A turn bound to its provider, tools that Chat can and cannot carry, the
\* client's own image tool, a history Chat cannot take, and a stream; next to
\* a stream with tools.
MCShapes == [r \in Requests |->
    LET tools == [Plain EXCEPT !.tools = TRUE]
        stream == [Plain EXCEPT !.stream = TRUE]
    IN IF r = Other THEN {[stream EXCEPT !.tools = TRUE]}
       ELSE {[Plain EXCEPT !.bound = TRUE], tools, stream,
             [tools EXCEPT !.nativeOnly = TRUE, !.history = "encrypted"],
             [stream EXCEPT !.chatOnly = TRUE],
             [Plain EXCEPT !.history = "unpaired"]}]

\* Native targets, a primary kept on Chat, a chain that is not native.
MCFleets == {k \in [Targets -> Kinds] :
                /\ k[0] \in {"openai", "forced"}
                /\ \A t \in Targets \ {0} : k[t] \in IF k[0] = "openai" THEN {"openai", "other"} ELSE {"openai"}}
=============================================================================
