--------------------------- MODULE MCRequestPolicy ---------------------------
(* RequestPolicy with two providers of two models, rules and policies of     *)
(* each kind, and every sort of message that tells the policy's branches     *)
(* apart.                                                                    *)
EXTENDS RequestPolicy

CONSTANTS k1, k2, i1, i2

N(p, m) == [provider |-> p, model |-> m]
T(p, name) == [name |-> name, provider |-> p]

MCModels == {"m", "n"}
MCAsked == {N(Anywhere, "m"), N(1, "m"), N(2, "n")}
MCAllowLists == {Anything, {N(Anywhere, "m")}, {N(1, "m"), N(2, "n")}, {}}

MCEntries == {[key |-> k1, enabled |-> TRUE, allowed |-> Anything],
              [key |-> k1, enabled |-> FALSE, allowed |-> {}],
              [key |-> k2, enabled |-> TRUE, allowed |-> {}]}

Rule == [id |-> "", enabled |-> TRUE, users |-> {}, keys |-> ApiKeys, scope |-> "any",
         pattern |-> {N(Anywhere, "m")}, target |-> NoTarget, provider |-> Anywhere]
MCOwner == [k \in ApiKeys |-> IF k = k1 THEN "u1" ELSE "u2"]
MCRuleChoices ==
    {[Rule EXCEPT !.target = N(Anywhere, "n")],
     [Rule EXCEPT !.provider = 2],
     [Rule EXCEPT !.target = N(2, "n"), !.scope = "qualified", !.pattern = {N(1, "m")}],
     [Rule EXCEPT !.target = N(Anywhere, "m"), !.pattern = {N(Anywhere, "n")}, !.provider = 1, !.keys = {k1}],
     [Rule EXCEPT !.target = N(Anywhere, "n"), !.scope = "unqualified", !.users = {"u1"}],
     [Rule EXCEPT !.enabled = FALSE]}

Policies == [id |-> "", enabled |-> TRUE, provider |-> Anywhere, pattern |-> Name,
             triggers |-> {"timeout", "http_5xx"}, chain |-> <<>>]
MCPolicyChoices ==
    {[Policies EXCEPT !.chain = <<T(Anywhere, N(1, "m")), T(2, N(Anywhere, "m")), T(Anywhere, N(Anywhere, "n"))>>],
     [Policies EXCEPT !.pattern = {N(Anywhere, "m")}, !.triggers = {"http_5xx"},
                      !.chain = <<T(Anywhere, N(Anywhere, "m")), T(Anywhere, N(2, "m"))>>],
     [Policies EXCEPT !.provider = 1, !.pattern = {N(1, "m"), N(1, "n")},
                      !.chain = <<T(2, N(1, "n")), T(Anywhere, N(2, "n"))>>],
     Policies}

MCAnswered == {<<i1>>, <<i2>>, <<i1, i2>>}

Says(role, words) == Message(role, <<Text(words)>>)
Uses(parts) == Message("assistant", parts)
Gives(parts) == Message("tool", parts)
MCMessages ==
    {Says("system", <<"s">>), Says("user", <<"w">>), Says("assistant", <<"a">>),
     Uses(<<Call(i1, TRUE)>>), Uses(<<Call(i1, TRUE), Call(i2, TRUE)>>),
     Uses(<<Call(i1, TRUE), Call(i1, TRUE)>>), Uses(<<Call(i1, FALSE), Call(i2, TRUE)>>),
     Uses(<<Reasoning(None), Call(i1, FALSE)>>), Uses(<<Text(<<"a">>), Call(None, TRUE)>>),
     Uses(<<Result(i1)>>), Gives(<<Result(i1)>>), Gives(<<Result(i2)>>), Gives(<<Result(None)>>),
     Message("user", <<Result(i1), Text(<<"w">>)>>),
     Message("user", <<Result(i2), Result(i1)>>)}

MCAsk == Says("user", <<"w">>)

MCScenes ==
    {<<Scene("user", "plain", <<"p", "p", "q">>)>>,
     <<Scene("user", "plain", <<"p">>), Scene("assistant", "answer", <<"q">>),
       Scene("user", "plain", <<"q", "p">>)>>,
     <<Scene("user", "plain", <<"q">>), Scene("assistant", "plain", <<"q">>),
       Scene("tool", "plain", <<"r", "p">>)>>,
     <<Scene("user", "marked", <<"p", "q">>)>>,
     <<Scene("user", "plain", <<>>)>>}
=============================================================================
