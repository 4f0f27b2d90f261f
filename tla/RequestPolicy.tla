---------------------------- MODULE RequestPolicy ----------------------------
(* A request from its API key to the target it is sent to: authentication    *)
(* (verify_api_key), the request policy (prepare_request_policy of           *)
(* app/core/policy.py), the check of the key's allow list, and the attempt   *)
(* at an upstream, as the endpoints of app/router/proxy.py put them together.*)
(* Accounts and routing tables change while a request awaits; the policy     *)
(* also rewrites its messages (Conversations).                               *)
(*                                                                           *)
(* /responses applies the policy twice: for its native attempt, and, once    *)
(* that failed or was ruled out, for the translated one.                     *)
EXTENDS Accounts, RoutingTables, Conversations, ImagePreprocessing

CONSTANTS
    Requests,
    Anything,     \* an allow list with "*"
    Ask,          \* what a client begins a conversation with
    Answered,     \* call ids of an upstream's answer
    Asked,        \* model names that clients ask for
    Owner,        \* whose the keys are where a run begins with requests
    Thinkers,     \* models known to reason (external: the capability sources)
    MaxChanges,   \* bound on the steps of administrators
    MaxRows       \* bound on the rows of a routing table

ASSUME PolicyAssumption ==
    /\ Asked \subseteq Name /\ Owner \in [ApiKeys -> Users]
    /\ Answered \subseteq Seq(CallIds) \ {<<>>}
    /\ Ask \in Messages /\ Ask.role = "user" /\ TextOnly(Ask)

VARIABLES
    request,      \* request -> what is known of it so far
    changes,      \* the administrators' steps so far
    focus         \* what the run looks at

policyVars == <<request, changes, focus>>
vars == <<accountVars, tableVars, conversationVars, imageVars, policyVars>>

Idle == [pc |-> "idle"]

----------------------------------------------------------------------------
\* The allow list: a bare name stands for that model at any provider.

Lists(allowed, name) ==
    \E a \in allowed : IF Composite(a) THEN a = name ELSE a.model = name.model
Allows(allowed, name) == allowed = Anything \/ Lists(allowed, name)

(* A target that the rules made of a name is admitted as itself or for the   *)
(* name's sake.                                                              *)
\* Slip: the provider a rule names is left out of the comparison.
AdmittedByModel(q) ==
    \/ Allows(q.allowed, q.name)
    \/ \E a \in q.allowed : a.model = q.target.model

Effective(q) == IF Composite(q.target) \/ q.provider = Anywhere THEN q.target
                ELSE [q.target EXCEPT !.provider = q.provider]
Admitted(q) == \/ Allows(q.allowed, q.name)
               \/ /\ q.target # q.name \/ q.provider # Anywhere
                  /\ Allows(q.allowed, Effective(q))

----------------------------------------------------------------------------
\* prepare_request_policy

(* max_tokens: 0 what the gateway gives by default, 1 what it gives to       *)
(* models that reason; a client's own limit is never touched.                *)
Limit(q) == IF q.given THEN q.limit
            ELSE IF q.target.model \in Thinkers /\ q.limit < 1 THEN 1 ELSE q.limit

\* Slip: rules are matched with the model that earlier rules led to.
RoutedFromTarget(q) ==
    LET t == Route(q.user, q.key, q.target, q.target)
        moved == [q EXCEPT !.target = t.name, !.provider = IF t.provider # Anywhere THEN t.provider ELSE @]
    IN [moved EXCEPT !.limit = Limit(moved), !.looks = Append(@, rules)]

Routed(q) ==
    LET t == Route(q.user, q.key, q.name, q.target)
        moved == [q EXCEPT !.target = t.name, !.provider = IF t.provider # Anywhere THEN t.provider ELSE @]
    IN [moved EXCEPT !.limit = Limit(moved), !.looks = Append(@, rules)]

----------------------------------------------------------------------------
\* The endpoints. Between two steps of a request anything else may happen.

Become(r, q) ==
    /\ request' = [request EXCEPT ![r] = q]
    /\ UNCHANGED <<accountVars, tableVars, conversationVars, imageVars, changes, focus>>

(* What the key says is read once, here. The client names a model, and may   *)
(* name a provider beside it (wanted: provider_id of the body). looks is     *)
(* history: the rules as they stood each time the policy looked at them.     *)
Authenticate(r) ==
    /\ request[r] = Idle
    /\ \E k \in ApiKeys, name \in Asked, wanted \in Providers \cup {Anywhere},
         twice \in BOOLEAN, given \in BOOLEAN :
        /\ Authenticates(k)
        /\ Become(r, [pc |-> IF twice THEN "untranslated" ELSE "preprocessing",
                      user |-> keys[k].owner, key |-> k, allowed |-> keys[k].allowed,
                      name |-> name, target |-> name, wanted |-> wanted, provider |-> wanted,
                      given |-> given, limit |-> 0, looks |-> <<>>])

(* /responses first routes without touching the messages.                    *)
RouteNative(r) ==
    /\ request[r].pc = "untranslated"
    /\ LET q == Routed(request[r]) IN
        Become(r, [q EXCEPT !.pc = IF Admitted(q) THEN "native" ELSE "denied"])

(* The native attempt is not made, or fails in a way that another may follow.*)
GoTranslated(r) ==
    /\ request[r].pc = "native"
    /\ Become(r, [request[r] EXCEPT !.pc = "preprocessing again"])

(* Images were described meanwhile; the target is looked up only now. The    *)
(* second time the allow list is not asked again.                            *)
RouteOnce(r) ==
    /\ request[r].pc = "preprocessing"
    /\ LET q == Routed(request[r]) IN
        Become(r, [q EXCEPT !.pc = IF Admitted(q) THEN "sent" ELSE "denied"])

RouteAgain(r) ==
    /\ request[r].pc = "preprocessing again"
    /\ Become(r, [Routed(request[r]) EXCEPT !.pc = "sent"])

Forward(r) == Authenticate(r) \/ RouteNative(r) \/ GoTranslated(r) \/ RouteOnce(r) \/ RouteAgain(r)

----------------------------------------------------------------------------
(* What changes once no request is under way shows nothing.                  *)
Administer ==
    /\ \E r \in Requests : request[r].pc \notin {"sent", "denied"}
    /\ changes < MaxChanges
    /\ changes' = changes + 1
    /\ RulesNext \/ SwitchModel
    /\ Len(rules') <= MaxRows
    /\ UNCHANGED <<accountVars, conversationVars, imageVars, request, focus>>

Accounting ==
    /\ AccountsNext
    /\ UNCHANGED <<tableVars, conversationVars, imageVars, policyVars>>

Tabling ==
    /\ PoliciesNext \/ SwitchModel
    /\ Len(policies') <= MaxRows
    /\ UNCHANGED <<accountVars, conversationVars, imageVars, policyVars>>

First == <<CHOOSE p \in Principals : TRUE, CHOOSE f \in Prints : TRUE>>
Composing ==
    /\ \/ \E m \in Messages : Write(First, m)
       \/ \E normalize \in BOOLEAN : Policy(First, normalize)
    /\ UNCHANGED <<accountVars, tableVars, imageVars, policyVars>>

Conversing ==
    /\ \/ \E c \in Conversation :
            /\ history[c] = <<>>
            /\ \A d, e \in Conversation : history[d] # <<>> /\ history[e] # <<>> => d = e
            /\ Write(c, Ask)
       \/ \E c \in Conversation : Policy(c, FALSE)
       \/ \E c \in Conversation, drops \in BOOLEAN :
            \E ids \in Answered : Answer(c, ids, drops)
       \/ Forget
    /\ UNCHANGED <<accountVars, tableVars, imageVars, policyVars>>

Viewing ==
    /\ ImagesNext
    /\ UNCHANGED <<accountVars, tableVars, conversationVars, policyVars>>

(* Each run begins with something for its focus to work on.                  *)
Init ==
    /\ focus \in {"accounts", "tables", "requests", "messages", "reasoning", "images"}
    /\ IF focus = "requests"
       THEN /\ users = [u \in Users |-> "on"]
            /\ \E allowed \in AllowLists :
                keys = [k \in ApiKeys |-> [owner |-> Owner[k], enabled |-> TRUE, allowed |-> allowed]]
            /\ importing = Nothing
       ELSE AccountsInit
    /\ serving = Providers \X Models
    /\ rules = <<>>
    /\ policies = <<>>
    /\ ConversationsInit
    /\ ImagesInit
    /\ request = [r \in Requests |-> Idle]
    /\ changes = 0

Next ==
    \/ focus = "accounts" /\ Accounting
    \/ focus = "tables" /\ Tabling
    \/ focus = "requests" /\ Administer
    \/ focus = "requests" /\ \E r \in Requests : Forward(r)
    \/ focus = "messages" /\ Composing
    \/ focus = "reasoning" /\ Conversing
    \/ focus = "images" /\ Viewing

Spec == Init /\ [][Next]_vars

----------------------------------------------------------------------------
(* What a table of rules says to a request; one that changes nothing and no  *)
(* rule at all are the same.                                                 *)
NoRule == [target |-> NoTarget, provider |-> Anywhere]
Ruling(q, table) ==
    LET hits == {i \in DOMAIN table : Applies(table[i], q.user, q.key, q.name)} IN
    IF hits = {} THEN NoRule
    ELSE [target |-> table[Min(hits)].target, provider |-> table[Min(hits)].provider]
Initially(q) == Ruling(q, q.looks[1])
Finally(q) == Ruling(q, q.looks[Len(q.looks)])

OrElse(value, none, other) == IF value = none THEN other ELSE value

(* However the rules change while a request awaits, it goes where its final  *)
(* look sends what was asked for. Where that look says nothing it goes where *)
(* the first one sent it, and where neither does, to the model and to the    *)
(* provider_id that the client named. Of "p/m" a rule that only replaces the *)
(* model keeps no p, although policy.py:668 says so: what stays is the body's*)
(* provider_id.                                                              *)
RoutedAsRuled ==
    \A r \in Requests : request[r].pc \in {"native", "preprocessing again", "sent"} =>
        LET q == request[r] IN
        /\ q.target = OrElse(Finally(q).target, NoTarget, OrElse(Initially(q).target, NoTarget, q.name))
        /\ q.provider = OrElse(Finally(q).provider, Anywhere, OrElse(Initially(q).provider, Anywhere, q.wanted))

(* A request goes to a model of a provider that the allow list of its key    *)
(* lists, or where a rule sends a name on that list. The code goes beyond    *)
(* that in two ways, and in no other: only the first named is compared where *)
(* a model names a provider and another one stands beside it, which serves,  *)
(* be it a rule's or the client's own provider_id (proxy.py:2788); and what  *)
(* a rule says only to the second look of /responses is not compared.        *)
Beside(q) ==
    /\ Composite(q.target) /\ q.provider \notin {Anywhere, q.target.provider}
    /\ Allows(q.allowed, q.name) \/ Allows(q.allowed, q.target)
Overruled(q) == Finally(q) \notin {Initially(q), NoRule}

ServedAsAllowed ==
    \A r \in Requests : request[r].pc = "sent" =>
        LET q == request[r]
            to == Upstream([name |-> q.target, provider |-> q.provider])
        IN \/ to[1] = Anywhere
           \/ Allows(q.allowed, [provider |-> to[1], model |-> to[2]])
           \/ Allows(q.allowed, q.name) /\ Initially(q) # NoRule
           \/ Beside(q) \/ Overruled(q)

(* No request is tried twice at one upstream under two spellings, and none   *)
(* that its policy names and that serves is left out.                        *)
EachUpstreamOnce ==
    focus = "tables" =>
        \A name \in Name, p \in Providers \cup {Anywhere}, trigger \in {"timeout", "http_5xx"} :
            LET t == [name |-> name, provider |-> p]
                ts == Attempts(t, trigger)
                at == {i \in DOMAIN ts : Upstream(ts[i]) \in serving}
            IN /\ \A i, j \in at : i # j => Upstream(ts[i]) # Upstream(ts[j])
               /\ \A x \in ToSet(Chain(Foremost(t), trigger)) :
                    Upstream(x) \in serving => \E i \in at : Upstream(ts[i]) = Upstream(x)

(* What is sent pairs every call with one result, between it and the next    *)
(* turn of the assistant, and every result with one call, whatever else the  *)
(* client's history looked like, as long as its results do not stand in      *)
(* messages of the assistant: the code counts them there, too, but a Chat    *)
(* upstream never sees them (protocols/ir.py:620). All words are still there.*)
Proper(h) == \A i \in 1..Len(h) : h[i].role = "assistant" => ~Has(h[i], "result")
Turn(h, i) == {k \in (i + 1)..Len(h) : \A j \in (i + 1)..k : h[j].role # "assistant"}
PartsIn(h, S, kind) == UNION {{<<k, p>> : p \in PartsOf(h[k], kind)} : k \in S}
Paired(h) ==
    /\ \A i \in DOMAIN h : Calls(h[i]) =>
        LET results == PartsIn(h, Turn(h, i), "result")
            calls == PartsOf(h[i], "call")
        IN /\ Cardinality(results) = Cardinality(calls)
           /\ Cardinality(IdsOf(h[i], "call")) = Cardinality(calls)
           /\ \A p \in calls : h[i].parts[p].named
                               /\ \E x \in results : h[x[1]].parts[x[2]].id = h[i].parts[p].id
    /\ \A k \in DOMAIN h : Has(h[k], "result") =>
        \E i \in 1..(k - 1) : Calls(h[i]) /\ k \in Turn(h, i)

WordsIn(parts) ==
    Joined([i \in DOMAIN parts |-> IF parts[i].kind = "text" THEN parts[i].words ELSE <<>>])
Words(h) ==
    Joined([i \in DOMAIN h |-> IF h[i].role = "system" THEN <<>> ELSE WordsIn(h[i].parts)])

HistoryPaired ==
    \A c \in Conversation : sent[c] # Unsent =>
        /\ Proper(history[c]) => Paired(sent[c])
        /\ Words(sent[c]) = Words(history[c])

(* Reasoning put back into a turn is of the same API key, and of that turn's *)
(* own calls or else the conversation's last, however call ids collide.      *)
ReasoningIsOwn ==
    \A c \in Conversation : sent[c] # Unsent => \A i \in DOMAIN sent[c] : \A p \in PartsOf(sent[c][i], "reasoning") :
        LET by == sent[c][i].parts[p].by IN
        by # None => /\ Principal(by[1]) = Principal(c)
                     /\ by = latest[c] \/ IdsOf(sent[c][i], "call") \cap by[3] # {}

(* The history that is sent is one the upstream takes and is the client's own: *)
(* calls and results are paired, no word is lost, and reasoning comes back only *)
(* into the conversation it was made in.                                        *)
HistorySound == HistoryPaired /\ ReasoningIsOwn
=============================================================================
