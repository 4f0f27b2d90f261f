------------------------- MODULE ImagePreprocessing -------------------------
(* Images for models that cannot see (app/services/preprocessing.py): those  *)
(* of the current turn are described by a vision model, a few at once, and   *)
(* every image is replaced by words where it stood. With the table of        *)
(* preprocessors, of which at most one is enabled (app/database.py).         *)
(*                                                                           *)
(* A request goes through this before it is routed, and again for a fallback *)
(* target that cannot see.                                                   *)
EXTENDS Naturals, Sequences, FiniteSets, SequencesExt

CONSTANTS
    Pictures,     \* images, as told apart by their hash
    Scenes,       \* requests' messages, as far as images go
    Viewers,      \* requests under way
    Helpers,      \* preprocessor ids
    ImageLimits,  \* max_images of a preprocessor
    CacheSize,
    Slots         \* vision calls of one request at once

SceneMessage == [role : {"system", "user", "assistant", "tool"},
                 kind : {"answer", "marked", "plain"}, pics : Seq(Pictures)]

ASSUME ImagesAssumption ==
    /\ Slots \in Nat \ {0} /\ CacheSize \in Nat \ {0}
    /\ ImageLimits \subseteq Nat \ {0}
    /\ Scenes \subseteq Seq(SceneMessage)

VARIABLES
    preprocessors,\* id -> "absent", "on" or "off"
    viewing,      \* request -> how far it is with its images
    descriptions  \* _cache: images described, oldest first

imageVars == <<preprocessors, viewing, descriptions>>

\* kind: "answer", an assistant's text without calls; "marked", a user's text
\* that looks like one of the replacements; or "plain".
Scene(role, kind, pics) == [role |-> role, kind |-> kind, pics |-> pics]
Blind == [pc |-> "idle"]

ImagesInit ==
    /\ preprocessors = [h \in Helpers |-> "absent"]
    /\ viewing = [v \in Viewers |-> Blind]
    /\ descriptions = <<>>

----------------------------------------------------------------------------
Enabled == {h \in Helpers : preprocessors[h] = "on"}

\* Whichever is enabled by this disables the others.
Upserted(h, enabled) ==
    [g \in Helpers |-> IF g = h THEN (IF enabled THEN "on" ELSE "off")
                       ELSE IF enabled /\ preprocessors[g] = "on" THEN "off" ELSE preprocessors[g]]

UpdatePreprocessor == \E h \in Helpers, enabled \in BOOLEAN :
    /\ preprocessors' = Upserted(h, enabled)
    /\ UNCHANGED <<viewing, descriptions>>
DeletePreprocessor == \E h \in Helpers :
    /\ preprocessors[h] # "absent"
    /\ preprocessors' = [preprocessors EXCEPT ![h] = "absent"]
    /\ UNCHANGED <<viewing, descriptions>>
ImportPreprocessor == \E h \in Helpers, enabled \in BOOLEAN, mode \in {"skip", "merge", "overwrite"} :
    /\ preprocessors[h] # "absent" => mode # "skip"
    /\ preprocessors' = Upserted(h, enabled)
    /\ UNCHANGED <<viewing, descriptions>>

----------------------------------------------------------------------------
\* The current turn begins after the last finished one.
Closes(m) == \/ m.role = "assistant" /\ m.kind = "answer"
             \/ m.role = "user" /\ m.kind = "marked"
TurnStart(ms) == Max({0} \cup {i \in DOMAIN ms : Closes(ms[i])})

(* An image stands at a place: a message, and one of its images.             *)
Places(ms) == UNION {{<<i, k>> : k \in DOMAIN ms[i].pics} : i \in DOMAIN ms}
Picture(ms, x) == ms[x[1]].pics[x[2]]
Precedes(x, y) == x[1] < y[1] \/ (x[1] = y[1] /\ x[2] < y[2])

InTurn(ms) == {x \in Places(ms) : x[1] > TurnStart(ms)}
Collected(ms) == {x \in InTurn(ms) : ms[x[1]].role \in {"user", "tool"}}

(* The first images of the turn, each of them once.                          *)
\* Slip: an image that is shown again counts again.
TargetsByPlace(ms, limit) ==
    {Picture(ms, x) : x \in {y \in Collected(ms) :
        Cardinality({z \in Collected(ms) : Precedes(z, y)}) < limit}}

Shown(ms, x) == {Picture(ms, y) : y \in {z \in Collected(ms) : Precedes(z, x)}}
Targets(ms, limit) ==
    {Picture(ms, x) : x \in {y \in Collected(ms) : Cardinality(Shown(ms, y)) < limit}}

\* Images of the current turn before the one at x.
Before(ms, x) == Cardinality({y \in InTurn(ms) : Precedes(y, x)})

Cached(p) == p \in ToSet(descriptions)
Word(kind, p) == [kind |-> kind, of |-> p]

\* _build_inline_replacement; told is what the vision model said of an image.
\* A turn that shows nothing is treated as one of the past.
Replacement(v, x) ==
    LET ms == viewing[v].scene
        p == Picture(ms, x)
        current == x[1] > TurnStart(ms) /\ Collected(ms) # {}
    IN IF current /\ p \in DOMAIN viewing[v].told THEN viewing[v].told[p]
       ELSE IF current /\ Before(ms, x) >= viewing[v].limit THEN Word("skipped", p)
       ELSE Word(IF Cached(p) THEN "cached" ELSE "removed", p)

----------------------------------------------------------------------------
Views(v, state) == viewing' = [viewing EXCEPT ![v] = state]

(* The request's model has the preprocessor switched on or not, and one may  *)
(* be configured or not; without either the images stay.                     *)
LookAt(v) ==
    /\ viewing[v] = Blind
    /\ \E ms \in Scenes, limit \in ImageLimits, switched \in BOOLEAN :
        Views(v, [pc |-> IF switched /\ Enabled # {} /\ Places(ms) # {} THEN "describing" ELSE "as is",
                  scene |-> ms, limit |-> limit, asked |-> {},
                  told |-> [p \in {} |-> Word("none", p)], words |-> <<>>])
    /\ UNCHANGED <<preprocessors, descriptions>>

Undescribed(v) == Targets(viewing[v].scene, viewing[v].limit) \ DOMAIN viewing[v].told

Heard(told, w) == [p \in DOMAIN told \cup {w.of} |-> IF p = w.of THEN w ELSE told[p]]

\* describe_image, up to its await.
Describe(v, p) ==
    /\ viewing[v].pc = "describing"
    /\ p \in Undescribed(v) \ viewing[v].asked
    /\ Cardinality(viewing[v].asked) < Slots
    /\ IF Cached(p)
       THEN Views(v, [viewing[v] EXCEPT !.told = Heard(@, Word("described", p))])
       ELSE Views(v, [viewing[v] EXCEPT !.asked = @ \cup {p}])
    /\ UNCHANGED <<preprocessors, descriptions>>

\* A full cache loses its oldest entry even to an image that is in it.
Remembered(p) ==
    LET room == IF Len(descriptions) >= CacheSize THEN Tail(descriptions) ELSE descriptions
    IN IF p \in ToSet(room) THEN room ELSE Append(room, p)

\* The vision model answers, or the call fails in one of its ways.
Told(v, p) ==
    /\ viewing[v].pc = "describing"
    /\ p \in viewing[v].asked
    /\ \E kind \in {"described", "failed"} :
        /\ Views(v, [viewing[v] EXCEPT !.told = Heard(@, Word(kind, p)), !.asked = @ \ {p}])
        /\ descriptions' = IF kind = "described" THEN Remembered(p) ELSE descriptions
    /\ UNCHANGED preprocessors

\* All are in, or only earlier turns have images.
ReplaceImages(v) ==
    /\ viewing[v].pc = "describing"
    /\ Undescribed(v) = {}
    /\ Views(v, [viewing[v] EXCEPT !.pc = "replaced",
                    !.words = [i \in DOMAIN viewing[v].scene |->
                                [k \in DOMAIN viewing[v].scene[i].pics |-> Replacement(v, <<i, k>>)]]])
    /\ UNCHANGED <<preprocessors, descriptions>>

ImagesNext ==
    \/ UpdatePreprocessor \/ DeletePreprocessor \/ ImportPreprocessor
    \/ \E v \in Viewers : LookAt(v) \/ ReplaceImages(v)
    \/ \E v \in Viewers, p \in Pictures : Describe(v, p) \/ Told(v, p)

----------------------------------------------------------------------------
(* However many requests describe the same images at once and in whatever    *)
(* order the answers come, an image is replaced by words about itself; every *)
(* image that a user or tool shows in this turn has been looked at, unless   *)
(* as many others as the limit allows came before it; and none of an earlier *)
(* turn is described anew.                                                   *)
ImagesKeepTheirWords ==
    \A v \in Viewers : viewing[v].pc = "replaced" =>
        LET ms == viewing[v].scene
            words == viewing[v].words
        IN \A i \in DOMAIN ms : \A k \in DOMAIN ms[i].pics :
            LET w == words[i][k]
                turn == i > TurnStart(ms)
                earlier == (UNION {ToSet(ms[j].pics) : j \in (TurnStart(ms) + 1)..(i - 1)})
                           \cup ToSet(SubSeq(ms[i].pics, 1, k - 1))
            IN /\ w.of = ms[i].pics[k]
               /\ turn /\ ms[i].role \in {"user", "tool"} =>
                    \/ w.kind \in {"described", "failed"}
                    \/ Cardinality(earlier) >= viewing[v].limit
               /\ ~turn => w.kind \in {"cached", "removed"}
=============================================================================
