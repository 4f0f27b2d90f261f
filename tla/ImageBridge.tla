----------------------------- MODULE ImageBridge -----------------------------
(***************************************************************************)
(* run_image_bridge of app/core/image_orchestration.py: the images a model *)
(* asks for are charged to the budget of the conversation, generated,      *)
(* refunded where they failed, and the model is called again with what     *)
(* came of them, for a bounded number of rounds.  Requests interleave at   *)
(* the awaits: the model calls and the generation of a batch.              *)
(*                                                                         *)
(* The budget is the TTLDict image_generation_budget: its entries expire,  *)
(* are evicted at capacity and are refreshed by each write, so a charge    *)
(* and its refund may meet different windows of the same conversation.     *)
(***************************************************************************)
EXTENDS Integers, TTLDict

CONSTANTS
    Requests, Convs,
    Limit,          \* image_generation_budget_limit; 0 is no limit
    MaxImages,      \* max_image_invocations
    MaxRounds,      \* max_continuation_rounds
    MaxAsks,        \* bound on the image calls of one answer of the model
    MaxSize         \* bound on image_generation_budget_max_size

ASSUME BridgeAssumption ==
    /\ Limit \in Nat /\ MaxAsks \in Nat
    /\ MaxImages \in Nat \ {0} /\ MaxRounds \in Nat \ {0} /\ MaxSize \in Nat \ {0}

VARIABLES
    budget,     \* image_generation_budget
    req,        \* the requests
    granted,    \* history: images granted in the running window, not refunded
    late        \* history: what refunds of earlier windows took from its count

bridgeVars == <<budget, req, granted, late>>

Request == [
    conv : Convs,
    pc : {"planning", "executing", "continuing", "final", "over"},
    continues : BOOLEAN,    \* all initial calls are images, no client exec tool
    mixed : BOOLEAN,        \* the last continuation has other calls as well
    round : 0..MaxRounds,   \* continuation_round
    batch : 0..MaxImages,   \* invocations being generated
    completed : 0..MaxImages,
    owed : Int,             \* history: charges without a made, failed or lost image so far
    own : BOOLEAN,          \* history: the window of the batch's charge is the running one
    result : {"open", "passthrough", "done", "failed", "aborted"}]

BridgeTypeOK ==
    /\ budget \in TTLDicts(Convs, MaxSize) /\ budget.dead \in Oldest(budget)
    /\ Cardinality(budget.held) <= budget.size
    /\ DOMAIN req = Requests /\ \A r \in Requests : req[r] \in Request
    /\ granted \in [Convs -> Nat] /\ late \in [Convs -> Nat]

Arrived(c) ==
    [conv |-> c, pc |-> "planning", continues |-> FALSE, mixed |-> FALSE, round |-> 0,
     batch |-> 0, completed |-> 0, owed |-> 0, own |-> FALSE, result |-> "open"]

BridgeInit ==
    /\ req \in [Requests -> {Arrived(c) : c \in Convs}]
    /\ \E size \in 1..MaxSize : budget = Empty(Convs, size)
    /\ granted = [c \in Convs |-> 0] /\ late = [c \in Convs |-> 0]

At(r, p) == req[r].pc = p
Conclude(q, result) ==
    [Arrived(q.conv) EXCEPT !.pc = "over", !.result = result, !.owed = q.owed]
CallModel(q, pc) == [q EXCEPT !.pc = pc, !.batch = 0, !.mixed = FALSE, !.continues = FALSE]

\* Request r becomes q, the budget becomes b.  The windows of the entries in
\* gone have ended: what was charged in them is of the past.
Becomes(r, q, b, gone) ==
    LET new == [req EXCEPT ![r] = q] IN
    /\ budget' = b
    /\ req' = [u \in Requests |->
                  [new[u] EXCEPT !.own = @ /\ (new[u].conv \notin gone \/ (u = r /\ q.batch > 0))]]

Counts(gone, c, g, l) ==
    /\ granted' = [k \in Convs |-> (IF k \in gone THEN 0 ELSE granted[k]) + (IF k = c THEN g ELSE 0)]
    /\ late' = [k \in Convs |-> (IF k \in gone THEN 0 ELSE late[k]) + (IF k = c THEN l ELSE 0)]

----------------------------------------------------------------------------
(* Charging.                                                               *)

Granted(q, n) == IF Limit = 0 \/ n = 0 THEN n ELSE Allowed(budget, q.conv, Limit, n)

\* charge_image_generation_budget for n images; q is the request without them.
Charge(r, q, n) ==
    LET c == q.conv
        a == Granted(q, n)
        b == IF Limit = 0 THEN budget ELSE Reserve(budget, c, Limit, n)
        gone == (budget.held \ b.held)
                \union (IF n > 0 /\ Limit > 0 /\ Expired(budget, c) THEN {c} ELSE {})
    IN  /\ Becomes(r, [q EXCEPT !.batch = a, !.owed = @ + a, !.own = a > 0 /\ Limit > 0], b, gone)
        /\ Counts(gone, c, IF Limit = 0 THEN 0 ELSE a, 0)

\* The planner answers with n image calls, of which the first MaxImages are
\* taken.  None granted: the answer passes through.
Plan(r) ==
    /\ At(r, "planning")
    /\ \E n \in 0..MaxAsks, continues \in BOOLEAN :
         LET q == req[r]
             asked == Least(n, MaxImages)
         IN  Charge(r, IF Granted(q, asked) = 0 THEN Conclude(q, "passthrough")
                       ELSE [q EXCEPT !.pc = "executing", !.continues = continues], asked)

----------------------------------------------------------------------------
(* Generating.                                                             *)

\* Slip: the path on which every image failed refunds them once more.
RefundsTwice(q, f) == IF f = q.batch /\ q.round = 0 THEN 2 * f ELSE f

Refunds(q, f) == f

NextRound(q) == [CallModel(q, "continuing") EXCEPT !.round = @ + 1]

\* What follows a batch: the first one decides between failure, an answer and
\* the continuation, a later one between the answer, another round and a last
\* call without the tool.
AfterBatch(q) ==
    IF q.round = 0
    THEN IF q.completed = 0 THEN Conclude(q, "failed")
         ELSE IF q.continues THEN NextRound(q) ELSE Conclude(q, "done")
    ELSE IF q.mixed THEN Conclude(q, "done")
         ELSE IF q.completed >= MaxImages \/ q.round = MaxRounds
              THEN CallModel(q, "final")
              ELSE NextRound(q)

\* The batch is over, at the latest by its deadline: f of its invocations have
\* failed and are refunded, m have no outcome.  A shared future cancelled by
\* another request (proxy.py:413) cancels the task of an invocation and with it the
\* task group, whose unfinished outcomes the batch leaves out.
Executed(r) ==
    /\ At(r, "executing")
    /\ \E f \in 0..req[r].batch : \E m \in 0..(req[r].batch - f) :
         LET q == req[r]
             c == q.conv
             made == q.batch - f - m
             n == Refunds(q, f)
             b == IF n = 0 THEN budget ELSE Refund(budget, c, n)
             gone == budget.held \ b.held
             new == AfterBatch([q EXCEPT !.completed = @ + made, !.owed = @ - (made + n + m)])
             taken == budget.val[c] - b.val[c]
         IN  /\ Becomes(r, [new EXCEPT !.own = FALSE], b, gone)
             /\ IF c \in gone THEN Counts(gone, c, 0, 0)
                ELSE IF q.own
                     THEN /\ granted' = [granted EXCEPT ![c] = Less(@, n)]
                          /\ UNCHANGED late
                     ELSE Counts(gone, c, 0, taken)

\* The batch raises (no backend is enabled any more, a stored file is gone) or
\* the request is cancelled: nothing is refunded.
Aborted(r) ==
    /\ req[r].pc # "over"
    /\ req' = [req EXCEPT ![r] = Conclude(@, "aborted")]
    /\ UNCHANGED <<budget, granted, late>>

----------------------------------------------------------------------------
(* Continuing.                                                             *)

Remaining(q) == MaxImages - q.completed

\* The model answers with pending image calls, fresh of them for new prompts,
\* and perhaps calls of the client's tools.  Without a granted image the calls
\* are answered as done already.
Continued(r) ==
    /\ At(r, "continuing")
    /\ \E pending \in 1..MaxAsks, mixed \in BOOLEAN : \E fresh \in 0..pending :
         LET q == [req[r] EXCEPT !.mixed = mixed]
             n == Least(fresh, Remaining(q))
         IN  Charge(r, IF Granted(q, n) > 0 THEN [q EXCEPT !.pc = "executing"]
                       ELSE IF mixed THEN Conclude(q, "done")
                       ELSE IF Remaining(q) = 0 \/ q.round = MaxRounds
                            THEN CallModel(q, "final")
                            ELSE NextRound(q), n)

\* The model answers without images, or the call fails.
Answered(r) ==
    /\ req[r].pc \in {"continuing", "final"}
    /\ req' = [req EXCEPT ![r] = Conclude(@, "done")]
    /\ UNCHANGED <<budget, granted, late>>

----------------------------------------------------------------------------
(* The budget's own life.                                                  *)

\* The oldest entry that has not expired does.
Lapse ==
    /\ \E k \in budget.held \ budget.dead :
        /\ budget.dead \cup {k} \in Oldest(budget)
        /\ budget' = [budget EXCEPT !.dead = @ \cup {k}]
    /\ UNCHANGED <<req, granted, late>>

\* configure_caches, from the runtime hook of the configuration.
Configure ==
    /\ \E size \in 1..MaxSize, dead \in Oldest(budget) :
         LET b == Configured(budget, size, dead)
             gone == budget.held \ b.held
         IN  /\ budget' = b
             /\ req' = [u \in Requests |-> [req[u] EXCEPT !.own = @ /\ req[u].conv \notin gone]]
             /\ granted' = [k \in Convs |-> IF k \in gone THEN 0 ELSE granted[k]]
             /\ late' = [k \in Convs |-> IF k \in gone THEN 0 ELSE late[k]]
    /\ budget' # budget

Over == (\A r \in Requests : At(r, "over")) /\ UNCHANGED bridgeVars

BridgeStep(r) == Plan(r) \/ Executed(r) \/ Continued(r) \/ Answered(r)
BridgeNext == Lapse \/ Configure \/ Over \/ \E r \in Requests : BridgeStep(r) \/ Aborted(r)

BridgeSpec == BridgeInit /\ [][BridgeNext]_bridgeVars

----------------------------------------------------------------------------
(* Properties.                                                             *)

\* state.py:230: what a window has granted and not taken back is within the
\* count of its entry, and so within the limit, but for what refunds of
\* earlier windows took from that count.
GrantsWithinBudget ==
    Limit > 0 => \A c \in Convs : /\ granted[c] <= budget.val[c] + late[c]
                                  /\ budget.val[c] <= Limit

\* image_orchestration.py:477: a bridge that ends by itself has paid for each
\* image it made, or heard nothing of, and taken back each other charge, once.
ChargesSettled ==
    \A r \in Requests :
        req[r].result \in {"passthrough", "done", "failed"} => req[r].owed = 0

\* However many rounds the model asks for, one answer has at most MaxImages.
ImagesCapped == \A r \in Requests : req[r].completed + req[r].batch <= MaxImages

\* The image budget of a conversation is charged and refunded true to the images
\* made, whatever expires, is evicted or reconfigured amid a bridge: no window
\* grants more than its limit, a bridge that ends has settled each charge once,
\* and one answer has at most the capped number of images.
BudgetHolds == BridgeTypeOK /\ GrantsWithinBudget /\ ChargesSettled /\ ImagesCapped
=============================================================================
