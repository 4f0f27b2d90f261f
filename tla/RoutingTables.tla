---------------------------- MODULE RoutingTables ----------------------------
(* The tables routing_rules and fallback_policies with what writes them, and *)
(* how a request's target and the targets behind it are found in them        *)
(* (app/core/policy.py, app/services/routing_targets.py, app/db/routing.py,  *)
(* app/db/fallback.py, app/database.py).                                     *)
EXTENDS Naturals, Sequences, SequencesExt

CONSTANTS
    Providers,    \* provider ids, as numbers: they are looked up in order
    Models,       \* what a provider calls its models
    RuleChoices,  \* routing rules an administrator may write; their ids come with the row
    PolicyChoices,\* fallback policies, likewise
    RowIds        \* ids of rows in either table

VARIABLES
    serving,      \* pairs <<provider, model>> that are enabled
    rules,        \* routing_rules, in the order of their rowids
    policies      \* fallback_policies, likewise

tableVars == <<serving, rules, policies>>

(* A model name "m" or "p/m".  A pattern is the set of the names it matches. *)
Anywhere == 0
Name == [provider : Providers \cup {Anywhere}, model : Models]
Composite(name) == name.provider # Anywhere
Bare(name) == [name EXCEPT !.provider = Anywhere]
Matches(pattern, name) == name \in pattern \/ (Composite(name) /\ Bare(name) \in pattern)

(* A target is a name and a provider, either of which may leave the provider *)
(* open; NoTarget stands for a rule that leaves the model as it is.          *)
NoTarget == [provider |-> Anywhere, model |-> "none"]
Target == [name : Name, provider : Providers \cup {Anywhere}]

ASSUME TablesAssumption ==
    /\ Providers \subseteq Nat \ {Anywhere}
    /\ \A r \in RuleChoices :
        /\ {"id", "target", "provider"} \subseteq DOMAIN r
        /\ r.target \in Name \cup {NoTarget} /\ r.provider \in Providers \cup {Anywhere}
    /\ \A p \in PolicyChoices : {"id", "chain"} \subseteq DOMAIN p /\ p.chain \in Seq(Target)

(* The provider a name leads to: the one it names, else the first in order.  *)
Provider(name) ==
    LET able == {p \in Providers : <<p, name.model>> \in serving
                                   /\ name.provider \in {p, Anywhere}}
    IN IF able = {} THEN Anywhere ELSE Min(able)

(* Where an attempt at a target is sent.                                     *)
Upstream(t) == <<IF t.provider # Anywhere THEN t.provider ELSE Provider(t.name), t.name.model>>

----------------------------------------------------------------------------
\* Routing: the first rule that applies.

Scoped(rule, name) ==
    CASE rule.scope = "unqualified" -> ~Composite(name) /\ name \in rule.pattern
      [] rule.scope = "qualified" -> Composite(name) /\ name \in rule.pattern
      [] OTHER -> Matches(rule.pattern, name)

Applies(rule, user, key, name) ==
    /\ rule.enabled
    /\ rule.users = {} \/ user \in rule.users
    /\ key \in rule.keys
    /\ Scoped(rule, name)

Deciding(user, key, name) == {i \in DOMAIN rules : Applies(rules[i], user, key, name)}

(* resolved is the target so far, which a rule without a model keeps.        *)
Route(user, key, requested, resolved) ==
    LET hits == Deciding(user, key, requested) IN
    IF hits = {} THEN [name |-> resolved, provider |-> Anywhere]
    ELSE LET rule == rules[Min(hits)] IN
         [name |-> IF rule.target = NoTarget THEN resolved ELSE rule.target,
          provider |-> rule.provider]

----------------------------------------------------------------------------
\* Fallback: policies for some models come before those for all.

General(policy) == policy.pattern = Name
Suits(policy, t, trigger) ==
    /\ policy.enabled
    /\ policy.provider \in {Anywhere, t.provider}
    /\ Matches(policy.pattern, t.name)
    /\ trigger # "" => trigger \in policy.triggers

(* A policy that suits ends the search even when its chain is empty.         *)
Chain(t, trigger) ==
    LET suiting == {i \in DOMAIN policies : Suits(policies[i], t, trigger)}
        special == {i \in suiting : ~General(policies[i])}
    IN IF suiting = {} THEN <<>>
       ELSE policies[Min(IF special = {} THEN suiting ELSE special)].chain

(* target_identity: the name decides only where no provider is given.        *)
\* Slip: the provider as it is written, not the one it leads to.
WrittenIdentity(t) == <<t.provider, t.name.model>>

Identity(t) ==
    LET named == IF t.provider # Anywhere THEN t.provider ELSE t.name.provider
    IN <<IF named # Anywhere THEN named ELSE Provider(Bare(t.name)), t.name.model>>

\* The targets taken among the first n, for each n.
Taken(ts) ==
    LET taken[n \in 0..Len(ts)] ==
            IF n = 0 THEN <<>>
            ELSE IF \E i \in DOMAIN taken[n - 1] : Identity(taken[n - 1][i]) = Identity(ts[n])
                 THEN taken[n - 1] ELSE Append(taken[n - 1], ts[n])
    IN  taken

Candidates(primary, chain) == LET ts == <<primary>> \o chain IN Taken(ts)[Len(ts)]

(* The attempts of a request: its target, with its provider found, and once  *)
(* that fails, the chain of the policy found for it. The policy whose clock  *)
(* ran out serves even where it does not list timeouts.                      *)
Foremost(t) == [t EXCEPT !.provider = Upstream(t)[1]]
Attempts(t, trigger) ==
    LET first == Foremost(t)
        chain == Chain(first, trigger)
    IN Candidates(first, IF chain = <<>> /\ trigger = "timeout" THEN Chain(first, "") ELSE chain)

----------------------------------------------------------------------------
(* The tables' writers; an import writes row by row, between awaits. Ids are *)
(* primary keys: at most one row has one.                                    *)

Row(id, row) == [row EXCEPT !.id = id]
Position(table, id) == {i \in DOMAIN table : table[i].id = id}
Added(table, id, row) == Append(table, Row(id, row))
Replaced(table, id, row) == [i \in DOMAIN table |-> IF table[i].id = id THEN Row(id, row) ELSE table[i]]
Removed(table, id) == RemoveAt(table, CHOOSE i \in Position(table, id) : TRUE)
Imported(table, id, row, mode) ==
    IF Position(table, id) = {} THEN Added(table, id, row)
    ELSE IF mode = "skip" THEN table ELSE Replaced(table, id, row)

AddRule == \E id \in RowIds, row \in RuleChoices :
    /\ Position(rules, id) = {}
    /\ rules' = Added(rules, id, row)
    /\ UNCHANGED <<serving, policies>>
UpdateRule == \E id \in RowIds, row \in RuleChoices :
    /\ Position(rules, id) # {}
    /\ rules' = Replaced(rules, id, row)
    /\ UNCHANGED <<serving, policies>>
DeleteRule == \E id \in RowIds :
    /\ Position(rules, id) # {}
    /\ rules' = Removed(rules, id)
    /\ UNCHANGED <<serving, policies>>
ImportRule == \E id \in RowIds, row \in RuleChoices, mode \in {"skip", "merge", "overwrite"} :
    /\ rules' = Imported(rules, id, row, mode)
    /\ UNCHANGED <<serving, policies>>

AddPolicy == \E id \in RowIds, row \in PolicyChoices :
    /\ Position(policies, id) = {}
    /\ policies' = Added(policies, id, row)
    /\ UNCHANGED <<serving, rules>>
UpdatePolicy == \E id \in RowIds, row \in PolicyChoices :
    /\ Position(policies, id) # {}
    /\ policies' = Replaced(policies, id, row)
    /\ UNCHANGED <<serving, rules>>
DeletePolicy == \E id \in RowIds :
    /\ Position(policies, id) # {}
    /\ policies' = Removed(policies, id)
    /\ UNCHANGED <<serving, rules>>
ImportPolicy == \E id \in RowIds, row \in PolicyChoices, mode \in {"skip", "merge", "overwrite"} :
    /\ policies' = Imported(policies, id, row, mode)
    /\ UNCHANGED <<serving, rules>>

(* ProviderStore has how models come and go; here only whether one serves.   *)
SwitchModel == \E p \in Providers, m \in Models :
    /\ serving' = IF <<p, m>> \in serving THEN serving \ {<<p, m>>} ELSE serving \cup {<<p, m>>}
    /\ UNCHANGED <<rules, policies>>

RulesNext == AddRule \/ UpdateRule \/ DeleteRule \/ ImportRule
PoliciesNext == AddPolicy \/ UpdatePolicy \/ DeletePolicy \/ ImportPolicy
=============================================================================
