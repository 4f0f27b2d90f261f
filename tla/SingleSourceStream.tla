------------------------- MODULE SingleSourceStream -------------------------
(***************************************************************************)
(* What a streamed answer promises to the client, whatever retries and     *)
(* fallbacks produce it: all of it comes from one attempt, it only grows,  *)
(* nothing follows the terminal event, and it is concluded once.           *)
(***************************************************************************)
EXTENDS Sequences

CONSTANTS Attempts,     \* the attempts that may speak
          Events,       \* what they may say
          Terminal      \* the event that ends an answer

VARIABLES said,         \* the client's stream: records [by, event]
          status        \* "open", "completed", "failed", "abandoned"

vars == <<said, status>>

Init == said = <<>> /\ status = "open"

Say(a, e) ==
    /\ status = "open"
    /\ \A i \in DOMAIN said : said[i].by = a /\ said[i].event # Terminal
    /\ said' = Append(said, [by |-> a, event |-> e])
    /\ UNCHANGED status

\* An answer is completed only when something was said.
Complete == status = "open" /\ said # <<>> /\ status' = "completed" /\ UNCHANGED said

\* A failure or a departure concludes an answer that has no terminal event yet,
\* except that the client may leave at any moment.
Fail ==
    /\ status = "open"
    /\ \A i \in DOMAIN said : said[i].event # Terminal
    /\ status' = "failed" /\ UNCHANGED said

Abandon == status = "open" /\ status' = "abandoned" /\ UNCHANGED said

Next == \/ \E a \in Attempts, e \in Events : Say(a, e)
        \/ Complete \/ Fail \/ Abandon

Spec == Init /\ [][Next]_vars
=============================================================================
