---------------------------- MODULE Conversations ----------------------------
(* What the request policy (app/core/policy.py) does to the messages of a    *)
(* request before an upstream sees them: neighbours are merged, the          *)
(* reasoning that clients leave out of their histories is put back from the  *)
(* caches of core/state.py, and tool calls and results without their other   *)
(* half are removed, because strict upstreams refuse them.                   *)
(*                                                                           *)
(* A conversation is an API key and a fingerprint of its first messages.     *)
EXTENDS Naturals, Sequences, FiniteSets, SequencesExt

CONSTANTS
    Principals,   \* API keys
    Prints,       \* fingerprints
    CallIds,      \* ids upstreams give their tool calls; nothing keeps them apart
    Messages,     \* what a client's history may hold
    MaxMessages,
    None,         \* no id, no reasoning
    MaxTurns      \* bound on answers

Role == {"system", "user", "assistant", "tool"}
Id == CallIds \cup {None}
Thoughts == (Principals \X Prints) \X Nat \X SUBSET CallIds
Part(bys) ==
    [kind : {"text"}, words : Seq(STRING)] \cup [kind : {"reasoning"}, by : bys]
    \cup [kind : {"call"}, id : Id, named : BOOLEAN] \cup [kind : {"result"}, id : Id]

VARIABLES
    history,      \* conversation -> the messages its client keeps
    sent,         \* conversation -> the messages of its last request as sent, or Unsent
    turns,        \* conversation -> answers so far
    latest,       \* reasoning_cache: conversation -> reasoning
    byCall,       \* reasoning_tool_cache: conversation -> call id -> reasoning
    byCallOfKey,  \* reasoning_tool_global_cache: <<principal, call id>> -> reasoning
    forgot        \* history: an entry expired or was evicted

conversationVars == <<history, sent, turns, latest, byCall, byCallOfKey, forgot>>

Conversation == Principals \X Prints
Principal(c) == c[1]
Unsent == None

----------------------------------------------------------------------------
\* Messages and parts.

Text(words) == [kind |-> "text", words |-> words]
Reasoning(by) == [kind |-> "reasoning", by |-> by]
Call(id, named) == [kind |-> "call", id |-> id, named |-> named]
Result(id) == [kind |-> "result", id |-> id]
Message(role, parts) == [role |-> role, parts |-> parts]

PartsOf(m, kind) == {i \in DOMAIN m.parts : m.parts[i].kind = kind}
Has(m, kind) == PartsOf(m, kind) # {}
HasText(m) == \E i \in PartsOf(m, "text") : m.parts[i].words # <<>>
IdsOf(m, kind) == {m.parts[i].id : i \in PartsOf(m, kind)} \ {None}
Calls(m) == m.role = "assistant" /\ Has(m, "call")
HasPayload(m) ==
    \E i \in DOMAIN m.parts : m.parts[i].kind # "reasoning"
                              /\ (m.parts[i].kind = "text" => m.parts[i].words # <<>>)
TextOnly(m) == \A i \in DOMAIN m.parts : m.parts[i].kind = "text"

(* Clients know no thought of the gateway's. Messages of calls that hold     *)
(* results too, which no protocol has, are left out.                         *)
ASSUME ConversationsAssumption ==
    /\ None \notin CallIds /\ None \notin Thoughts
    /\ Messages \subseteq [role : Role, parts : Seq(Part({None}))]
    /\ \A m \in Messages : ~(Calls(m) /\ Has(m, "result"))

\* Sequences one after the other, and what a sequence has at some places.
Joining(ss) ==
    LET t[n \in 0..Len(ss)] == IF n = 0 THEN <<>> ELSE t[n - 1] \o ss[n] IN t
Joined(ss) == Joining(ss)[Len(ss)]
Where(s, K) == Joined([i \in DOMAIN s |-> IF i \in K THEN <<s[i]>> ELSE <<>>])

----------------------------------------------------------------------------
\* normalize_messages: system and user messages in a row are one, and so are
\* all system messages, at the front.

Merge(m, n) ==
    [m EXCEPT !.parts =
        IF TextOnly(m) /\ TextOnly(n) /\ m.parts # <<>> /\ n.parts # <<>>
        THEN Front(@) \o <<Text(Last(@).words \o Head(n.parts).words)>> \o Tail(n.parts)
        ELSE @ \o n.parts]

MergedWith(ms, m) ==
    IF ms # <<>> /\ Last(ms).role = m.role /\ m.role \in {"system", "user"}
    THEN Append(Front(ms), Merge(Last(ms), m)) ELSE Append(ms, m)
Merging(h) ==
    LET ms[n \in 0..Len(h)] == IF n = 0 THEN <<>> ELSE MergedWith(ms[n - 1], h[n]) IN ms
Merged(h) == Merging(h)[Len(h)]

Systems(h) == {i \in DOMAIN h : h[i].role = "system"}
Normalized(h) ==
    LET merged == Merged(h)
        systems == Where(merged, Systems(merged))
    IN IF Len(systems) < 2 THEN merged
       ELSE Merged(systems) \o Where(merged, DOMAIN merged \ Systems(merged))

----------------------------------------------------------------------------
\* inject_reasoning_content

(* The call turns since the last answer, or the last turn with reasoning.    *)
Settled(m) == m.role = "assistant" /\ (Has(m, "reasoning") \/ (~Has(m, "call") /\ HasText(m)))
Lacking(h) == {i \in DOMAIN h : Calls(h[i]) /\ \A j \in i..Len(h) : ~Settled(h[j])}

(* What is known of each call: what this conversation remembers, else what   *)
(* another one of the same key does of a call whose result is in the history.*)
Known(c, h) ==
    [id \in CallIds |->
        IF byCall[c][id] # None THEN byCall[c][id]
        ELSE IF \E i \in DOMAIN h : id \in IdsOf(h[i], "result")
             THEN byCallOfKey[<<Principal(c), id>>]
        ELSE None]

Restored(c, h) ==
    LET known == Known(c, h)
        Found(m) == {i \in PartsOf(m, "call") :
                        m.parts[i].id # None /\ known[m.parts[i].id] # None}
        Thought(m) == IF Found(m) # {} THEN known[m.parts[Min(Found(m))].id] ELSE latest[c]
    IN [i \in DOMAIN h |->
            IF i \in Lacking(h) /\ Thought(h[i]) # None
            THEN [h[i] EXCEPT !.parts = <<Reasoning(Thought(h[i]))>> \o @]
            ELSE h[i]]

----------------------------------------------------------------------------
\* sanitize_tool_history

Answering(h, i) == IdsOf(h[i], "result") # {}
(* The message whose calls message i answers: the one before the messages    *)
(* with results that i is one of.                                            *)
CallerAt(h, i) ==
    LET before == {j \in 0..(i - 1) : \A k \in (j + 1)..i : Answering(h, k)}
    IN IF before = {} THEN 0 ELSE Min(before)
Caller(h, i) == LET j == CallerAt(h, i) IN IF j > 0 /\ Calls(h[j]) THEN j ELSE 0
Answers(h, j) == {i \in DOMAIN h : i > j /\ Answering(h, i) /\ Caller(h, i) = j}

(* Calls have a name and a result, results a call.                           *)
\* Slip: nameless calls count.
AcceptedNameless(h, j) ==
    {h[j].parts[i].id : i \in PartsOf(h[j], "call")}
    \cap UNION {IdsOf(h[i], "result") : i \in Answers(h, j)}

Accepted(h, j) ==
    {h[j].parts[i].id : i \in {p \in PartsOf(h[j], "call") : h[j].parts[p].named}}
    \cap UNION {IdsOf(h[i], "result") : i \in Answers(h, j)}

\* No earlier part of that kind has this id, in the messages from..i.
FirstOf(h, from, i, p) ==
    LET part == h[i].parts[p] IN
    \A j \in from..i : \A q \in PartsOf(h[j], part.kind) :
        (j < i \/ q < p) => h[j].parts[q].id # part.id \/ (part.kind = "call" /\ ~h[j].parts[q].named)

Kept(h, i, p) ==
    LET part == h[i].parts[p]
        j == Caller(h, i)
    IN CASE part.kind = "call" /\ Calls(h[i]) ->
                part.named /\ part.id \in Accepted(h, i) /\ FirstOf(h, i, i, p)
         [] part.kind = "result" ->
                j > 0 /\ part.id \in Accepted(h, j) /\ FirstOf(h, j + 1, i, p)
         [] OTHER -> TRUE

Cleaned(h, i) ==
    [h[i] EXCEPT !.parts = Where(@, {p \in DOMAIN h[i].parts : Kept(h, i, p)})]
Stays(h, i) ==
    IF Calls(h[i]) THEN HasPayload(Cleaned(h, i))
                   ELSE Cleaned(h, i).parts # <<>> \/ h[i].parts = <<>>

Sanitized(h) == Where([i \in DOMAIN h |-> Cleaned(h, i)], {i \in DOMAIN h : Stays(h, i)})

----------------------------------------------------------------------------
ConversationsInit ==
    /\ history = [c \in Conversation |-> <<>>]
    /\ sent = [c \in Conversation |-> Unsent]
    /\ turns = [c \in Conversation |-> 0]
    /\ latest = [c \in Conversation |-> None]
    /\ byCall = [c \in Conversation |-> [id \in CallIds |-> None]]
    /\ byCallOfKey = [x \in Principals \X CallIds |-> None]
    /\ forgot = FALSE

\* Whatever a client may have in its history.
Write(c, m) ==
    /\ Len(history[c]) < MaxMessages
    /\ sent[c] = Unsent
    /\ history' = [history EXCEPT ![c] = Append(@, m)]
    /\ UNCHANGED <<sent, turns, latest, byCall, byCallOfKey, forgot>>

(* prepare_request_policy, as far as messages go; chat and completions have  *)
(* them normalized first.                                                    *)
Policy(c, normalize) ==
    /\ history[c] # <<>>
    /\ sent[c] = Unsent
    /\ \E h \in {Restored(c, IF normalize THEN Normalized(history[c]) ELSE history[c])} :
            sent' = [sent EXCEPT ![c] = Sanitized(h)]
    /\ UNCHANGED <<history, turns, latest, byCall, byCallOfKey, forgot>>

(* The upstream answers with calls and their reasoning, the client comes     *)
(* back with their results and, maybe, without the reasoning.                *)
Answer(c, ids, drops) ==
    /\ sent[c] # Unsent
    /\ MapThenSumSet(LAMBDA d : turns[d], Conversation) < MaxTurns
    /\ LET thought == <<c, turns[c] + 1, ToSet(ids)>>
           calls == [i \in DOMAIN ids |-> Call(ids[i], TRUE)]
       IN /\ latest' = [latest EXCEPT ![c] = thought]
          /\ byCall' = [byCall EXCEPT ![c] =
                            [id \in CallIds |-> IF id \in ToSet(ids) THEN thought ELSE @[id]]]
          /\ byCallOfKey' = [x \in DOMAIN byCallOfKey |->
                                IF x[1] = Principal(c) /\ x[2] \in ToSet(ids) THEN thought
                                ELSE byCallOfKey[x]]
          /\ history' = [history EXCEPT ![c] = @ \o
                <<Message("assistant", (IF drops THEN <<>> ELSE <<Reasoning(thought)>>) \o calls),
                  Message("tool", [i \in DOMAIN ids |-> Result(ids[i])])>>]
    /\ turns' = [turns EXCEPT ![c] = @ + 1]
    /\ sent' = [sent EXCEPT ![c] = Unsent]
    /\ UNCHANGED forgot

(* An entry of a cache expires or makes room for others (TTLDict).           *)
Forget ==
    /\ ~forgot
    /\ \/ \E c \in Conversation :
            /\ latest' = [latest EXCEPT ![c] = None]
            /\ UNCHANGED <<byCall, byCallOfKey>>
       \/ \E c \in Conversation :
            /\ byCall' = [byCall EXCEPT ![c] = [id \in CallIds |-> None]]
            /\ UNCHANGED <<latest, byCallOfKey>>
       \/ \E x \in DOMAIN byCallOfKey :
            /\ byCallOfKey' = [byCallOfKey EXCEPT ![x] = None]
            /\ UNCHANGED <<latest, byCall>>
    /\ forgot' = TRUE
    /\ UNCHANGED <<history, sent, turns>>
=============================================================================
