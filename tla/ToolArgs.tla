------------------------------ MODULE ToolArgs ------------------------------
(* core/tool_args.py: the arguments of a tool call are JSON text in which a  *)
(* model may leave the bare word that means nothing; outside a string it     *)
(* becomes the empty string. Symbols: "q" a quote, "b" a backslash, "u" "n"  *)
(* the word (two symbols, so that a chunk can end inside it), "," a          *)
(* character that ends a value, "x" any other; "e" stands for the two quotes *)
(* that replace the word.                                                    *)
EXTENDS Integers, Sequences, FiniteSetsExt

Word == <<"u", "n">>
Bounds == {","}

\* How many backslashes stand right before position i.
Trailing(text, i) ==
    LET others == {k \in 1..(i - 1) : text[k] # "b"}
    IN i - 1 - (IF others = {} THEN 0 ELSE Max(others))
Escaped(text, i) == Trailing(text, i) % 2 = 1
IsWord(text, i) == i < Len(text) /\ SubSeq(text, i, i + 1) = Word

\* sanitize_args: one round of the scan of a whole text.
SanitizeStep(text, s) ==
    CASE s.i > Len(text) -> s
      [] s.i <= Len(text) /\ text[s.i] = "q" ->
           [i |-> s.i + 1, inStr |-> s.inStr # ~Escaped(text, s.i), out |-> Append(s.out, "q")]
      [] s.i <= Len(text) /\ ~s.inStr /\ IsWord(text, s.i)
           /\ (s.i + 2 > Len(text) \/ text[s.i + 2] \in Bounds) ->
           [s EXCEPT !.i = @ + 2, !.out = Append(@, "e")]
      [] OTHER -> [s EXCEPT !.i = @ + 1, !.out = Append(@, text[s.i])]
Sanitizing(text) ==
    LET s[n \in 0..Len(text)] ==
            IF n = 0 THEN [i |-> 1, inStr |-> FALSE, out |-> <<>>] ELSE SanitizeStep(text, s[n - 1])
    IN  s
SanitizeArgs(text) == Sanitizing(text)[Len(text)].out

(* feed: the same scan over what was held back and the new chunk. What may   *)
(* yet become the word at its end is held back.                              *)
ScannedStep(buf, s) ==
    LET c == buf[s.i]
        ends == s.i + 2 > Len(buf)
        Passes(out, next, inStr) == [s EXCEPT !.out = Append(@, out), !.i = next, !.inStr = inStr]
    IN CASE s.i > Len(buf) -> s
         [] s.i <= Len(buf) /\ s.inStr -> Passes(c, s.i + 1, ~(c = "q" /\ ~Escaped(buf, s.i)))
         [] s.i <= Len(buf) /\ ~s.inStr /\ c = "q" -> Passes("q", s.i + 1, TRUE)
         [] s.i <= Len(buf) /\ ~s.inStr /\ c = "u" /\ (s.i = Len(buf) \/ (IsWord(buf, s.i) /\ ends)) ->
              [s EXCEPT !.pending = SubSeq(buf, s.i, Len(buf)), !.i = Len(buf) + 1]
         [] s.i <= Len(buf) /\ ~s.inStr /\ IsWord(buf, s.i) /\ ~ends /\ buf[s.i + 2] \in Bounds ->
              Passes("e", s.i + 2, FALSE)
         [] OTHER -> Passes(c, s.i + 1, s.inStr)
Scanning(buf, inStr) ==
    LET s[n \in 0..Len(buf)] ==
            IF n = 0 THEN [i |-> 1, inStr |-> inStr, out |-> <<>>, pending |-> <<>>]
            ELSE ScannedStep(buf, s[n - 1])
    IN  s
Scanned(buf, inStr) == Scanning(buf, inStr)[Len(buf)]

(* Inside a string the backslashes at the end are held back too: the next    *)
(* chunk may begin with the quote they escape.                               *)
Feed(held, inStr, chunk) ==
    LET buf == held \o chunk
        s == Scanned(buf, inStr)
        tail == Trailing(buf, Len(buf) + 1)
    IN IF s.inStr /\ s.pending = <<>>
       THEN [s EXCEPT !.out = SubSeq(@, 1, Len(@) - tail),
                      !.pending = SubSeq(buf, Len(buf) - tail + 1, Len(buf))]
       ELSE s

Flushed(held, inStr) ==
    IF inStr \/ held = <<>> THEN held
    ELSE IF held = Word THEN <<"e">> ELSE SanitizeArgs(held)

\* JSON text has no backslash outside its strings.
InString(text) ==
    LET in[i \in 0..Len(text)] ==
            IF i = 0 THEN FALSE ELSE in[i - 1] # (text[i] = "q" /\ ~Escaped(text, i))
    IN  in
IsLegal(text) == \A i \in 1..Len(text) : InString(text)[i - 1] \/ text[i] # "b"

(* A call's arguments as an object: the text parses when it is the object    *)
(* with its one field, whole.                                                *)
Object == <<"{", "v", "}">>
Parses(args) == args = Object
ArgumentsToInput(args) == IF Parses(args) THEN args ELSE <<>>

\* The free text of a custom tool; nothing while the object is incomplete.
CustomInput(args) ==
    CASE args = Object -> <<"v">>
      [] args # Object /\ args # <<>> /\ args[1] \in {"{", "q"} -> <<>>
      [] OTHER -> args
=============================================================================
