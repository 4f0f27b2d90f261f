----------------------------- MODULE ThinkTags -----------------------------
(* core/think.py and the tag tests of adapters/openai_streaming.py. A text   *)
(* is a sequence of symbols: "<t" opens a block of thinking, "</" closes it, *)
(* " " is white space and "x" anything else. A tag has two symbols so that   *)
(* it can be cut in half between two chunks, and the two begin alike.        *)
EXTENDS Integers, Sequences, FiniteSetsExt

OpenTag  == <<"<", "t">>
CloseTag == <<"<", "/">>
Tag   == 2

\* The first occurrence of a tag at or after position i, 0 when there is none.
Find(text, tag, i) ==
    LET at == {k \in i..(Len(text) - 1) : SubSeq(text, k, k + 1) = tag}
    IN IF at = {} THEN 0 ELSE Min(at)

Drop(text, n) == SubSeq(text, n + 1, Len(text))
Lstrip(text) ==
    LET solid == {k \in 1..Len(text) : text[k] # " "}
    IN IF solid = {} THEN <<>> ELSE Drop(text, Min(solid) - 1)
Strip(text) ==
    LET solid == {k \in 1..Len(text) : text[k] # " "}
    IN IF solid = {} THEN <<>> ELSE SubSeq(text, Min(solid), Max(solid))
Squeezed(text) == SelectSeq(text, LAMBDA c : c # " ")

Starts(text, tag) == Len(text) >= Tag /\ SubSeq(text, 1, Tag) = tag

\* Can the buffer still turn out to begin with the opening tag?
MayOpen(text) ==
    LET t == Lstrip(text)
    IN t = <<>> \/ t = <<"<">> \/ Starts(t, OpenTag)
HasOpen(text) == Starts(Lstrip(text), OpenTag)
WithoutOpen(text) ==
    IF HasOpen(text) THEN Drop(Lstrip(text), Tag) ELSE Lstrip(text)

(* The scan of one block, from behind its opening tag: nested tags pair up.  *)
(* "cut" is the text that ends right behind an inner closing tag: the loop   *)
(* leaves without a block and without the mark of an unclosed one.           *)
ScanStep(text, s) ==
    LET opens  == Find(text, OpenTag, s.pos)
        closes == Find(text, CloseTag, s.pos)
    IN CASE s.how # "open" -> s
         [] s.how = "open" /\ s.pos > Len(text) -> [s EXCEPT !.how = "cut"]
         [] s.how = "open" /\ s.pos <= Len(text) /\ closes = 0 -> [s EXCEPT !.how = "unclosed"]
         [] s.how = "open" /\ s.pos <= Len(text) /\ closes # 0 /\ opens # 0 /\ opens < closes ->
              [s EXCEPT !.pos = opens + Tag, !.depth = @ + 1]
         [] OTHER -> IF s.depth = 1 THEN [s EXCEPT !.how = "closed", !.at = closes]
                                    ELSE [s EXCEPT !.pos = closes + Tag, !.depth = @ - 1]
Scans(text, pos) ==
    LET s[n \in 0..Len(text)] ==
            IF n = 0 THEN [how |-> "open", at |-> 0, pos |-> pos, depth |-> 1]
            ELSE ScanStep(text, s[n - 1])
    IN  s
Scan(text, pos) == Scans(text, pos)[Len(text)]

Joined(a, b) == IF a = <<>> THEN b ELSE IF b = <<>> THEN a ELSE a \o <<" ">> \o b

\* One round of the loop over the blocks of a text: s.rest is still to be read.
SplitStep(s) ==
    LET start == Find(s.rest, OpenTag, 1)
        block == Scan(s.rest, start + Tag)
        plain == [s EXCEPT !.text = @ \o SubSeq(s.rest, 1, start - 1)]
        Thinks(part) == Joined(s.think, part)
    IN CASE s.over -> s
         [] ~s.over /\ start = 0 -> [s EXCEPT !.text = @ \o s.rest, !.over = TRUE]
         [] ~s.over /\ start # 0 /\ block.how = "cut" -> [plain EXCEPT !.over = TRUE]
         [] ~s.over /\ start # 0 /\ block.how = "unclosed" ->
              [plain EXCEPT !.over = TRUE, !.think = Thinks(Drop(s.rest, start + Tag - 1))]
         [] OTHER ->
              [plain EXCEPT !.rest = Lstrip(Drop(s.rest, block.at + Tag - 1)),
                            !.think = Thinks(SubSeq(s.rest, start + Tag, block.at - 1))]
Splits(text) ==
    LET s[n \in 0..Len(text)] ==
            IF n = 0 THEN [rest |-> text, text |-> <<>>, think |-> <<>>, over |-> FALSE]
            ELSE SplitStep(s[n - 1])
    IN  s

\* The text and the thinking of a whole message.
Parted(s) == [text |-> Strip(s.text), think |-> s.think]
Split(text) == Parted(Splits(text)[Len(text)])
=============================================================================
