---------------------------- MODULE Subsequences ----------------------------
(***************************************************************************)
(* The part of a sequence that lies in a set, in order.  SelectSeq of the  *)
(* Sequences module says the same of an operator; a recursive function and *)
(* a set can also be reasoned about (StreamFallbackProofs).                      *)
(***************************************************************************)
EXTENDS Integers, Sequences

\* What is kept of the first n elements, for each n.
Kept(s, S) ==
    LET kept[n \in 0..Len(s)] ==
            IF n = 0 THEN <<>>
            ELSE IF s[n] \in S THEN Append(kept[n - 1], s[n]) ELSE kept[n - 1]
    IN  kept

Only(s, S) == Kept(s, S)[Len(s)]
=============================================================================
