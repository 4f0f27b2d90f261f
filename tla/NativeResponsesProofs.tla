------------------------ MODULE NativeResponsesProofs ------------------------
(***************************************************************************)
(* For any number of requests and of fallbacks, any fleet and any expiry   *)
(* of the rows: a verdict is earned, a turn is not moved to where it may   *)
(* not be served, and an answer is entered as what it was.                 *)
(*                                                                         *)
(* Requests share the rows alone, and no row decides what a request may    *)
(* do, so that what holds of one request holds whatever the others do.     *)
(* What carries it is where a request can stand: named after the primary   *)
(* until a target has answered, past the native attempts only if Chat can  *)
(* carry the turn, and failed as long as its last terminal frame was.      *)
(***************************************************************************)
EXTENDS NativeResponses, TLAPS

ForChat(q) == ~q.shape.nativeOnly /\ q.shape.history # "unpaired"

Open(q) == q.result = "open" /\ q.account = "none" /\ (q.body = "failed" => q.failed)

\* Where a request stands.
Stands(q) ==
    /\ q.pc \in {"gate", "probing"} => q.native = {} /\ q.chat = {} /\ q.named = 0
    /\ q.pc = "posting" =>
        /\ q.chat = {} /\ q.named = 0
        /\ q.shape.bound /\ q.idx # 0 => 0 \notin q.native
    /\ q.pc \in {"handed", "relaying"} => q.chat = {} /\ q.named = q.idx /\ q.shape.stream
    /\ q.pc = "policy" => q.chat = {} /\ q.named = 0
    /\ q.pc = "calling" => ~q.shape.stream /\ (q.idx = 0 => q.named = 0)
    /\ q.pc \in {"policy", "calling"} /\ q.native # {} => ForChat(q)
    /\ q.pc # "over" => Open(q)

\* What the properties say of it.
Fair(q) ==
    /\ q.native # {} /\ ~ForChat(q) => q.chat = {}
    /\ q.shape.bound /\ 0 \in q.native => q.native = {0}
    /\ q.result = "answered" => q.named = q.idx
    /\ q.pc = "over" /\ q.result # "unstarted" => ~q.opened
    /\ q.shape.stream /\ q.account \in {"ok", "degraded"} => q.item \/ q.body = "completed"

Good(q) == q \in Request /\ Stands(q) /\ Fair(q)

RowsOK ==
    /\ kind \in Fleets /\ lapses \in 0..MaxLapses
    /\ verdict \in [Targets -> {"none", "supported", "unsupported", "unknown"}]
    /\ marked \subseteq Targets /\ noTools \subseteq Targets
    /\ proven \subseteq Targets /\ refused \subseteq Targets

RequestsOK ==
    /\ req = [r \in Requests |-> req[r]]
    /\ \A r \in Requests : Good(req[r])

IInv == RowsOK /\ VerdictsAreEarned /\ RequestsOK

-----------------------------------------------------------------------------
(* Types: each way to change a request makes a request.                    *)

Results == {"open", "answered", "failed", "left", "unstarted", "delegated"}
Accounts == {"none", "ok", "degraded", "partial", "fail", "cancelled"}
Bodies == {"none", "completed", "failed"}

LEMMA Numbers == 0 \in Targets /\ 0 \in 0..Fallbacks /\ 0 \in 0..RetryLimit /\ Targets = 0..Fallbacks
BY NativeAssumption DEF Targets

LEMMA Fields ==
    ASSUME NEW q \in Request
    PROVE  /\ q.shape \in Flags /\ q.pc \in Points /\ q.idx \in Targets /\ q.chain \in 0..Fallbacks
           /\ q.native \in SUBSET Targets /\ q.chat \in SUBSET Targets
           /\ q.armed \in BOOLEAN /\ q.retries \in 0..RetryLimit /\ q.named \in Targets
           /\ q.opened \in BOOLEAN /\ q.head \in {"none", "delta", "item", "completed"}
           /\ q.saw \in BOOLEAN /\ q.item \in BOOLEAN /\ q.body \in Bodies
           /\ q.failed \in BOOLEAN /\ q.error \in BOOLEAN
           /\ q.result \in Results /\ q.account \in Accounts
           /\ q.shape.stream \in BOOLEAN /\ q.shape.bound \in BOOLEAN
BY DEF Request, Results, Accounts, Bodies, Flags

LEMMA ArrivedType ==
    ASSUME NEW s \in Flags
    PROVE  Arrived(s) \in Request
BY Zenon, Numbers DEF Arrived, Request, Points

LEMMA OverType ==
    ASSUME NEW d \in Request, NEW i \in Targets, NEW n \in Targets, NEW o \in BOOLEAN,
           NEW m \in BOOLEAN, NEW b \in Bodies
    PROVE  [d EXCEPT !.pc = "over", !.idx = i, !.named = n, !.opened = o, !.item = m, !.body = b]
              \in Request
BY Zenon DEF Request, Points, Bodies

LEMMA ForgetType ==
    ASSUME NEW q \in Request
    PROVE  Forget(q) \in Request
<1>1. Arrived(q.shape) \in Request
  BY Fields, ArrivedType
<1> QED BY Zenon, <1>1, Fields, OverType DEF Forget

LEMMA ConcludeType ==
    ASSUME NEW q \in Request, NEW res \in Results
    PROVE  Conclude(q, res) \in Request
<1>1. ASSUME NEW d \in Request
      PROVE  [d EXCEPT !.result = res, !.opened = FALSE] \in Request
  BY Zenon DEF Request, Results
<1> QED BY Zenon, <1>1, ForgetType DEF Conclude

LEMMA EndType ==
    ASSUME NEW q \in Request, NEW n \in Targets, NEW a \in Accounts
    PROVE  [q EXCEPT !.named = n, !.account = a] \in Request
BY Zenon DEF Request, Accounts

LEMMA AskType ==
    ASSUME NEW q \in Request, NEW t \in Targets, NEW n \in 0..Fallbacks
    PROVE  Ask(q, t, n) \in Request
<1>1. ASSUME NEW N \in SUBSET Targets, NEW b \in BOOLEAN
      PROVE  [q EXCEPT !.pc = "posting", !.idx = t, !.chain = n, !.native = N, !.opened = b] \in Request
  BY Zenon DEF Request, Points
<1>2. PICK N \in SUBSET Targets : N = q.native \union {t}
  BY Fields
<1>3. Ask(q, t, n) = [q EXCEPT !.pc = "posting", !.idx = t, !.chain = n, !.native = N,
                               !.opened = q.shape.stream]
  BY Zenon, <1>2 DEF Ask
<1>4. [q EXCEPT !.pc = "posting", !.idx = t, !.chain = n, !.native = N,
                !.opened = q.shape.stream] \in Request
  BY <1>1, Fields
<1> QED BY <1>3, <1>4

LEMMA NotedType ==
    ASSUME NEW q \in Request, NEW f \in Frames
    PROVE  Noted(q, f) \in Request
<1>1. ASSUME NEW s \in BOOLEAN, NEW i \in BOOLEAN, NEW b \in Bodies, NEW x \in BOOLEAN, NEW e \in BOOLEAN
      PROVE  [q EXCEPT !.pc = "relaying", !.head = "none", !.saw = s, !.item = i, !.body = b,
                       !.failed = x, !.error = e] \in Request
  BY Zenon DEF Request, Points, Bodies
<1>2. PICK s \in BOOLEAN, i \in BOOLEAN, x \in BOOLEAN, e \in BOOLEAN :
        /\ s = (q.saw \/ f \in {"delta", "item"})
        /\ i = (q.item \/ f = "item")
        /\ x = IF f = "completed" THEN FALSE ELSE f \in {"failed", "incomplete", "error"} \/ q.failed
        /\ e = IF f \in {"completed", "incomplete"} THEN FALSE ELSE f \in {"failed", "error"} \/ q.error
  BY Fields
<1>3. PICK b \in Bodies : b = IF f = "completed" THEN "completed"
                             ELSE IF f \in {"failed", "incomplete"} THEN "failed" ELSE q.body
  BY Fields DEF Bodies
<1>4. Noted(q, f) = [q EXCEPT !.pc = "relaying", !.head = "none", !.saw = s, !.item = i, !.body = b,
                              !.failed = x, !.error = e]
  BY Zenon, <1>2, <1>3 DEF Noted
<1>5. [q EXCEPT !.pc = "relaying", !.head = "none", !.saw = s, !.item = i, !.body = b,
                !.failed = x, !.error = e] \in Request
  BY <1>1
<1> QED BY <1>4, <1>5

LEMMA CallType ==
    ASSUME NEW q \in Request, NEW t \in Targets, NEW c \in Call(q, t)
    PROVE  c \in Request
<1>1. ASSUME NEW N \in SUBSET Targets
      PROVE  /\ [q EXCEPT !.pc = "calling", !.idx = t, !.chat = N] \in Request
             /\ [[q EXCEPT !.pc = "calling", !.idx = t, !.chat = N] EXCEPT !.named = t] \in Request
  BY Zenon DEF Request, Points
<1>2. PICK N \in SUBSET Targets : N = q.chat \union {t}
  BY Fields
<1>3. [q EXCEPT !.pc = "calling", !.idx = t, !.chat = @ \union {t}]
        = [q EXCEPT !.pc = "calling", !.idx = t, !.chat = N]
  BY Zenon, <1>2
<1> QED BY Zenon, <1>1, <1>3 DEF Call

-----------------------------------------------------------------------------
(* What becomes of one request.                                            *)

LEMMA Arrives ==
    ASSUME NEW s \in Flags
    PROVE  Good(Arrived(s))
<1>1. Stands(Arrived(s)) /\ Fair(Arrived(s))
  BY DEF Arrived, Stands, Fair, Open
<1> QED BY <1>1, ArrivedType DEF Good

LEMMA Concluded ==
    ASSUME NEW q \in Request, NEW res \in Results \ {"answered"}
    PROVE  Good(Conclude(q, res))
<1>1. Conclude(q, res) \in Request
  BY ConcludeType
<1>2. Stands(Conclude(q, res)) /\ Fair(Conclude(q, res))
  BY DEF Conclude, Forget, Arrived, Stands, Fair
<1> QED BY <1>1, <1>2 DEF Good

\* The end of a request, with its account.
LEMMA Ends ==
    ASSUME NEW q \in Request, NEW res \in Results, NEW n \in Targets, NEW a \in Accounts,
           res = "answered" => n = q.idx,
           q.shape.stream /\ a \in {"ok", "degraded"} => q.item \/ q.body = "completed"
    PROVE  Good([Conclude(q, res) EXCEPT !.named = n, !.account = a])
<1> DEFINE c == [Conclude(q, res) EXCEPT !.named = n, !.account = a]
<1>1. c \in Request
  BY ConcludeType, EndType
<1>2. /\ c.pc = "over" /\ c.native = {} /\ c.chat = {} /\ c.result = res /\ c.named = n
      /\ c.account = a /\ c.idx = q.idx /\ c.shape = q.shape /\ c.item = q.item /\ c.body = q.body
      /\ c.opened = FALSE
  BY DEF Conclude, Forget, Arrived
<1> HIDE DEF c
<1>3. Stands(c) /\ Fair(c)
  BY <1>2 DEF Stands, Fair
<1> QED BY <1>1, <1>3 DEF Good, c

\* The same with the name the request has.
LEMMA EndsNamed ==
    ASSUME NEW q \in Request, NEW res \in Results, NEW a \in Accounts,
           res = "answered" => q.named = q.idx,
           q.shape.stream /\ a \in {"ok", "degraded"} => q.item \/ q.body = "completed"
    PROVE  Good([Conclude(q, res) EXCEPT !.account = a])
<1> DEFINE c == [Conclude(q, res) EXCEPT !.account = a]
<1>1. ASSUME NEW d \in Request
      PROVE  [d EXCEPT !.account = a] \in Request
  BY Zenon DEF Request, Accounts
<1>2. c \in Request
  BY <1>1, ConcludeType
<1>3. /\ c.pc = "over" /\ c.native = {} /\ c.chat = {} /\ c.result = res /\ c.named = q.named
      /\ c.account = a /\ c.idx = q.idx /\ c.shape = q.shape /\ c.item = q.item /\ c.body = q.body
      /\ c.opened = FALSE
  BY DEF Conclude, Forget, Arrived
<1> HIDE DEF c
<1>4. Stands(c) /\ Fair(c)
  BY <1>3 DEF Stands, Fair
<1> QED BY <1>2, <1>4 DEF Good, c

\* A request Chat has not seen goes on to the policy, unless Chat cannot take it.
LEMMA PolicyGood ==
    ASSUME NEW q \in Request, Fair(q), Open(q), q.chat = {}, q.named = 0,
           q.native # {} => ~q.shape.nativeOnly
    PROVE  Good(NoNative(q))
<1>1. CASE q.shape.history = "unpaired"
  BY <1>1, Concluded DEF NoNative, Results
<1>2. CASE q.shape.history # "unpaired"
  <2> DEFINE c == [q EXCEPT !.pc = "policy", !.opened = FALSE]
  <2>1. c \in Request
    BY Zenon DEF Request, Points
  <2>2. /\ c.pc = "policy" /\ c.native = q.native /\ c.chat = {} /\ c.named = 0 /\ c.shape = q.shape
        /\ c.result = q.result /\ c.account = q.account /\ c.body = q.body /\ c.failed = q.failed
    BY DEF Request
  <2> HIDE DEF c
  <2>3. Stands(c) /\ Fair(c)
    BY <1>2, <2>2 DEF Stands, Fair, Open, ForChat
  <2> QED BY <1>2, <2>1, <2>3 DEF Good, NoNative, c
<1> QED BY <1>1, <1>2

LEMMA GiveUpGood ==
    ASSUME NEW q \in Request, Fair(q), Open(q), q.chat = {}, q.named = 0
    PROVE  Good(GiveUpNative(q))
<1>1. CASE q.shape.nativeOnly
  BY <1>1, Concluded DEF GiveUpNative, Results
<1>2. CASE ~q.shape.nativeOnly
  BY <1>2, PolicyGood DEF GiveUpNative
<1> QED BY <1>1, <1>2

\* The next native attempt: the primary first, and a bound turn nowhere behind it.
LEMMA TryGood ==
    ASSUME NEW q \in Request, Fair(q), Open(q), q.chat = {}, q.named = 0,
           NEW v, NEW from \in Nat, NEW n \in 0..Fallbacks,
           IF from = 0 THEN q.native = {} ELSE q.shape.bound => 0 \notin q.native,
           NEW new \in TryNative(q, v, from, n)
    PROVE  Good(new)
<1>1. CASE new = GiveUpNative(q)
  BY <1>1, GiveUpGood
<1>2. ASSUME NEW t \in from..n, new = Ask(q, t, n)
      PROVE  Good(new)
  <2>1. t \in Targets
    BY NativeAssumption DEF Targets
  <2>2. new \in Request
    BY <1>2, <2>1, AskType
  <2>3. /\ new.pc = "posting" /\ new.idx = t /\ new.native = q.native \union {t} /\ new.chat = {}
        /\ new.named = 0 /\ new.shape = q.shape /\ new.result = q.result
        /\ new.account = q.account /\ new.body = q.body /\ new.failed = q.failed
    BY <1>2 DEF Ask, Request
  <2>4. IF t = 0 THEN q.native = {} ELSE q.shape.bound => 0 \notin q.native
    BY <1>2 DEF Fair
  <2>5. Stands(new) /\ Fair(new)
    BY <2>3, <2>4 DEF Stands, Fair, Open
  <2> QED BY <2>2, <2>5 DEF Good
<1>3. new = GiveUpNative(q) \/ \E t \in from..n : new = Ask(q, t, n)
  BY DEF TryNative
<1> QED BY <1>1, <1>2, <1>3

\* The decision at the gate, and the one behind the probe.
LEMMA GateGood ==
    ASSUME NEW q \in Request, Good(q), q.pc \in {"gate", "probing"}, NEW v,
           NEW new \in AfterGate(q, v)
    PROVE  Good(new)
<1>1. Fair(q) /\ Open(q) /\ q.chat = {} /\ q.named = 0 /\ q.native = {}
  BY DEF Good, Stands
<1>2. CASE new = NoNative(q)
  BY <1>1, <1>2, PolicyGood
<1>3. CASE new \in TryNative(q, v, 0, 0)
  BY <1>1, <1>3, TryGood, Numbers
<1>4. ASSUME NEW n \in 0..Fallbacks, new \in TryNative(q, v, 1, n)
      PROVE  Good(new)
  BY <1>1, <1>4, TryGood
<1> QED BY <1>2, <1>3, <1>4 DEF AfterGate, EnterNative

\* The next step behind a failed native attempt.
LEMMA FailGood ==
    ASSUME NEW q \in Request, Good(q), q.pc = "posting", NEW v,
           NEW new \in IF q.idx = 0 THEN AfterPrimary(q, v) ELSE TryNative(q, v, q.idx + 1, q.chain)
    PROVE  Good(new)
<1>1. /\ Fair(q) /\ Open(q) /\ q.chat = {} /\ q.named = 0
      /\ q.shape.bound /\ q.idx # 0 => 0 \notin q.native
  BY DEF Good, Stands
<1>2. CASE new = GiveUpNative(q)
  BY <1>1, <1>2, GiveUpGood
<1>3. ASSUME ~q.shape.bound, NEW n \in 0..Fallbacks, new \in TryNative(q, v, 1, n)
      PROVE  Good(new)
  BY <1>1, <1>3, TryGood
<1>4. CASE q.idx # 0 /\ new \in TryNative(q, v, q.idx + 1, q.chain)
  <2>1. q.idx + 1 \in Nat /\ q.idx + 1 # 0 /\ q.chain \in 0..Fallbacks
    BY Fields, Numbers, NativeAssumption
  <2> QED BY <1>1, <1>4, <2>1, TryGood
<1> QED BY <1>2, <1>3, <1>4 DEF AfterPrimary

LEMMA HandedGood ==
    ASSUME NEW q \in Request, Good(q), q.pc = "posting", q.shape.stream,
           NEW h \in {"delta", "item", "completed"}
    PROVE  Good([q EXCEPT !.pc = "handed", !.head = h, !.named = q.idx])
<1> DEFINE c == [q EXCEPT !.pc = "handed", !.head = h, !.named = q.idx]
<1>1. ASSUME NEW n \in Targets, NEW g \in {"none", "delta", "item", "completed"}
      PROVE  [q EXCEPT !.pc = "handed", !.head = g, !.named = n] \in Request
  BY Zenon DEF Request, Points
<1>2. c \in Request
  BY <1>1, Fields
<1>3. /\ c.pc = "handed" /\ c.native = q.native /\ c.chat = q.chat /\ c.named = q.idx /\ c.idx = q.idx
      /\ c.shape = q.shape /\ c.result = q.result /\ c.account = q.account /\ c.body = q.body
      /\ c.failed = q.failed
  BY DEF Request
<1> HIDE DEF c
<1>4. Stands(c) /\ Fair(c)
  BY <1>3 DEF Good, Stands, Fair, Open
<1> QED BY <1>2, <1>4 DEF Good, c

LEMMA NotedGood ==
    ASSUME NEW q \in Request, Good(q), q.pc \in {"handed", "relaying"}, NEW f \in Frames
    PROVE  Good(Noted(q, f))
<1> DEFINE c == Noted(q, f)
<1>1. c \in Request
  BY NotedType
<1>2. /\ c.pc = "relaying" /\ c.native = q.native /\ c.chat = q.chat /\ c.named = q.named /\ c.idx = q.idx
      /\ c.shape = q.shape /\ c.result = q.result /\ c.account = q.account
  BY DEF Noted, Request
<1>3. /\ c.body = IF f = "completed" THEN "completed"
                  ELSE IF f \in {"failed", "incomplete"} THEN "failed" ELSE q.body
      /\ c.failed = IF f = "completed" THEN FALSE ELSE f \in {"failed", "incomplete", "error"} \/ q.failed
  BY DEF Noted, Request
<1> HIDE DEF c
<1>4. c.body = "failed" => c.failed
  BY <1>3 DEF Good, Stands, Open
<1>5. Stands(c) /\ Fair(c)
  BY <1>2, <1>4 DEF Good, Stands, Fair, Open
<1> QED BY <1>1, <1>5 DEF Good, c

\* The finally clause enters as a success only what was finished.
LEMMA SettledFinished ==
    ASSUME NEW q \in Request, NEW left \in BOOLEAN, q.body = "failed" => q.failed
    PROVE  /\ Settled(q, left) \in Accounts
           /\ Settled(q, left) \in {"ok", "degraded"} => q.item \/ q.body = "completed"
BY Fields DEF Settled, Accounts, Bodies

LEMMA Failed ==
    ASSUME NEW q \in Request
    PROVE  /\ [q EXCEPT !.failed = TRUE] \in Request
           /\ [q EXCEPT !.failed = TRUE].failed = TRUE
           /\ [q EXCEPT !.failed = TRUE].idx = q.idx /\ [q EXCEPT !.failed = TRUE].named = q.named
<1>1. [q EXCEPT !.failed = TRUE] \in Request
  BY Zenon DEF Request
<1>2. /\ [q EXCEPT !.failed = TRUE].failed = TRUE
      /\ [q EXCEPT !.failed = TRUE].idx = q.idx /\ [q EXCEPT !.failed = TRUE].named = q.named
  BY DEF Request
<1> QED BY <1>1, <1>2

LEMMA StreamGood ==
    ASSUME NEW q \in Request, Good(q), q.pc = "relaying"
    PROVE  /\ Good([Conclude(q, "answered") EXCEPT !.account = Settled(q, FALSE)])
           /\ LET d == [q EXCEPT !.failed = TRUE]
              IN  /\ Good([Conclude(d, "failed") EXCEPT !.account = Settled(d, FALSE)])
                  /\ \A a \in {Settled(d, TRUE), "none"} : Good([Conclude(d, "left") EXCEPT !.account = a])
<1> DEFINE d == [q EXCEPT !.failed = TRUE]
<1>1. q.named = q.idx /\ (q.body = "failed" => q.failed)
  BY DEF Good, Stands, Open
<1>2. Good([Conclude(q, "answered") EXCEPT !.account = Settled(q, FALSE)])
  BY <1>1, EndsNamed, SettledFinished DEF Results
<1>3. d \in Request /\ (d.body = "failed" => d.failed)
  BY Failed
<1> HIDE DEF d
<1>4. Good([Conclude(d, "failed") EXCEPT !.account = Settled(d, FALSE)])
  BY <1>3, EndsNamed, SettledFinished DEF Results
<1>5. \A a \in {Settled(d, TRUE), "none"} : Good([Conclude(d, "left") EXCEPT !.account = a])
  BY <1>3, EndsNamed, SettledFinished DEF Results, Accounts
<1> QED BY <1>2, <1>4, <1>5 DEF d

LEMMA UnstartedGood ==
    ASSUME NEW q \in Request
    PROVE  Good([Forget(q) EXCEPT !.result = "unstarted"])
<1> DEFINE c == [Forget(q) EXCEPT !.result = "unstarted"]
<1>1. ASSUME NEW d \in Request
      PROVE  [d EXCEPT !.result = "unstarted"] \in Request
  BY Zenon DEF Request
<1>2. c \in Request
  BY <1>1, ForgetType
<1>3. c.pc = "over" /\ c.native = {} /\ c.chat = {} /\ c.result = "unstarted" /\ c.account = "none"
  BY DEF Forget, Arrived
<1> HIDE DEF c
<1>4. Stands(c) /\ Fair(c)
  BY <1>3 DEF Stands, Fair
<1> QED BY <1>2, <1>4 DEF Good, c

\* Chat is asked.
LEMMA CallGood ==
    ASSUME NEW q \in Request, Fair(q), Open(q), ~q.shape.stream, q.native # {} => ForChat(q),
           NEW t \in Targets, t = 0 => q.named = 0, NEW c \in Call(q, t)
    PROVE  Good(c)
<1>1. c \in Request
  BY CallType
<1>2. /\ c.pc = "calling" /\ c.native = q.native /\ c.named \in {q.named, t} /\ c.idx = t
      /\ c.shape = q.shape /\ c.result = q.result /\ c.account = q.account /\ c.body = q.body
      /\ c.failed = q.failed
  BY DEF Call, Request
<1>3. Stands(c) /\ Fair(c)
  BY <1>2 DEF Stands, Fair, Open, ForChat
<1> QED BY <1>1, <1>3 DEF Good

LEMMA NextCallGood ==
    ASSUME NEW q \in Request, Good(q), q.pc = "calling",
           NEW t \in Nat \ {0}, NEW n \in 0..Fallbacks, NEW new \in CallNext(q, t, n)
    PROVE  Good(new)
<1>1. CASE new = Conclude(q, "failed")
  BY <1>1, Concluded DEF Results
<1>2. CASE t <= n /\ new \in Call([q EXCEPT !.chain = n, !.armed = TRUE], t)
  <2> DEFINE d == [q EXCEPT !.chain = n, !.armed = TRUE]
  <2>1. d \in Request
    BY Zenon DEF Request
  <2>2. /\ d.pc = q.pc /\ d.native = q.native /\ d.chat = q.chat /\ d.named = q.named /\ d.idx = q.idx
        /\ d.shape = q.shape /\ d.result = q.result /\ d.account = q.account /\ d.body = q.body
        /\ d.failed = q.failed /\ d.item = q.item /\ d.opened = q.opened
    BY DEF Request
  <2>3. new \in Call(d, t)
    BY <1>2
  <2> HIDE DEF d
  <2>4. Fair(d) /\ Open(d) /\ ~d.shape.stream /\ (d.native # {} => ForChat(d))
    BY <2>2 DEF Good, Stands, Fair, Open, ForChat
  <2>5. t \in Targets /\ t # 0
    BY <1>2, NativeAssumption DEF Targets
  <2> QED BY <2>1, <2>3, <2>4, <2>5, CallGood
<1> QED BY <1>1, <1>2 DEF CallNext

LEMMA RetryGood ==
    ASSUME NEW q \in Request, Good(q), q.pc = "calling", q.idx = 0, MayRetry(q),
           NEW new \in RetryPrimary(q)
    PROVE  Good(new)
<1> DEFINE d == [q EXCEPT !.retries = @ + 1]
<1>1. d \in Request
  <2>1. PICK k \in 0..RetryLimit : k = q.retries + 1
    BY Fields, NativeAssumption DEF MayRetry
  <2>2. [q EXCEPT !.retries = k] \in Request
    BY Zenon DEF Request
  <2>3. d = [q EXCEPT !.retries = k]
    BY Zenon, <2>1
  <2> QED BY <2>2, <2>3
<1>2. /\ d.pc = q.pc /\ d.native = q.native /\ d.chat = q.chat /\ d.named = q.named /\ d.idx = q.idx
      /\ d.shape = q.shape /\ d.result = q.result /\ d.account = q.account /\ d.body = q.body
      /\ d.failed = q.failed /\ d.item = q.item /\ d.opened = q.opened
  BY DEF Request
<1>3. new \in Call(d, 0)
  BY DEF RetryPrimary
<1> HIDE DEF d
<1>4. Fair(d) /\ Open(d) /\ ~d.shape.stream /\ (d.native # {} => ForChat(d)) /\ d.named = 0
  BY <1>2 DEF Good, Stands, Fair, Open, ForChat
<1> QED BY <1>1, <1>3, <1>4, CallGood, Numbers

LEMMA FirstCallGood ==
    ASSUME NEW q \in Request, Good(q), q.pc = "policy", ~q.shape.stream,
           NEW b \in BOOLEAN, NEW new \in Call([q EXCEPT !.armed = b], 0)
    PROVE  Good(new)
<1> DEFINE d == [q EXCEPT !.armed = b]
<1>1. d \in Request
  BY Zenon DEF Request
<1>2. /\ d.pc = q.pc /\ d.native = q.native /\ d.chat = q.chat /\ d.named = q.named /\ d.idx = q.idx
      /\ d.shape = q.shape /\ d.result = q.result /\ d.account = q.account /\ d.body = q.body
      /\ d.failed = q.failed /\ d.item = q.item /\ d.opened = q.opened
  BY DEF Request
<1>3. new \in Call(d, 0)
  OBVIOUS
<1> HIDE DEF d
<1>4. Fair(d) /\ Open(d) /\ ~d.shape.stream /\ (d.native # {} => ForChat(d)) /\ d.named = 0
  BY <1>2 DEF Good, Stands, Fair, Open, ForChat
<1> QED BY <1>1, <1>3, <1>4, CallGood, Numbers

LEMMA DelegatedGood ==
    ASSUME NEW q \in Request, Good(q), q.pc = "policy"
    PROVE  Good([Conclude(q, "delegated") EXCEPT !.native = q.native, !.chat = {0}])
<1> DEFINE c == [Conclude(q, "delegated") EXCEPT !.native = q.native, !.chat = {0}]
<1>1. ASSUME NEW d \in Request, NEW N \in SUBSET Targets, NEW C \in SUBSET Targets
      PROVE  [d EXCEPT !.native = N, !.chat = C] \in Request
  BY Zenon DEF Request
<1>2. Conclude(q, "delegated") \in Request
  BY ConcludeType DEF Results
<1>3. c \in Request
  BY <1>1, <1>2, Fields, Numbers
<1>4. /\ c.pc = "over" /\ c.native = q.native /\ c.chat = {0} /\ c.result = "delegated"
      /\ c.account = "none" /\ c.shape = q.shape /\ c.opened = FALSE
  BY DEF Conclude, Forget, Arrived
<1> HIDE DEF c
<1>5. Stands(c) /\ Fair(c)
  BY <1>4 DEF Good, Stands, Fair, ForChat
<1> QED BY <1>3, <1>5 DEF Good, c

LEMMA ChatAnsweredGood ==
    ASSUME NEW q \in Request, Good(q), q.pc = "calling"
    PROVE  Good([Conclude(q, "answered") EXCEPT !.named = NameServed(q),
                    !.account = IF q.idx > 0 THEN "degraded" ELSE "ok"])
<1>1. NameServed(q) \in Targets /\ NameServed(q) = q.idx /\ ~q.shape.stream
  BY Fields, Numbers, NativeAssumption DEF Good, Stands, NameServed
<1>2. PICK a \in Accounts : a = IF q.idx > 0 THEN "degraded" ELSE "ok"
  BY DEF Accounts
<1>3. Good([Conclude(q, "answered") EXCEPT !.named = NameServed(q), !.account = a])
  BY <1>1, Ends DEF Results
<1> QED BY <1>2, <1>3

LEMMA NativeAnsweredGood ==
    ASSUME NEW q \in Request, Good(q), q.pc = "posting", ~q.shape.stream
    PROVE  Good([Conclude(q, "answered") EXCEPT !.named = q.idx,
                    !.account = IF q.idx > 0 THEN "degraded" ELSE "ok"])
<1>1. PICK a \in Accounts : a = IF q.idx > 0 THEN "degraded" ELSE "ok"
  BY DEF Accounts
<1>2. Good([Conclude(q, "answered") EXCEPT !.named = q.idx, !.account = a])
  BY Fields, Ends DEF Results
<1> QED BY <1>1, <1>2

LEMMA ProbingGood ==
    ASSUME NEW q \in Request, Good(q), q.pc = "gate"
    PROVE  Good([q EXCEPT !.pc = "probing"])
<1> DEFINE c == [q EXCEPT !.pc = "probing"]
<1>1. c \in Request
  BY Zenon DEF Request, Points
<1>2. /\ c.pc = "probing" /\ c.native = q.native /\ c.chat = q.chat /\ c.named = q.named
      /\ c.shape = q.shape /\ c.result = q.result /\ c.account = q.account /\ c.body = q.body
      /\ c.failed = q.failed
  BY DEF Request
<1> HIDE DEF c
<1>3. Stands(c) /\ Fair(c)
  BY <1>2 DEF Good, Stands, Fair, Open
<1> QED BY <1>1, <1>3 DEF Good, c

-----------------------------------------------------------------------------
(* The rows.                                                               *)

Verdicts == {"none", "supported", "unsupported", "unknown"}

\* A verdict that is written keeps the rows in type, and earned when it has
\* the evidence.
LEMMA RowWritten ==
    ASSUME RowsOK, VerdictsAreEarned, NEW t \in Targets, NEW v \in Verdicts, NEW m \in BOOLEAN,
           SetVerdict(t, v, m), kind' = kind, lapses' \in 0..MaxLapses, noTools' \subseteq Targets,
           proven' \subseteq Targets, refused' \subseteq Targets,
           proven \subseteq proven', refused \subseteq refused',
           v = "supported" => t \in proven', v = "unsupported" => t \in refused'
    PROVE  RowsOK' /\ VerdictsAreEarned'
<1>1. verdict \in [Targets -> Verdicts] /\ verdict' = [verdict EXCEPT ![t] = v]
  BY DEF RowsOK, SetVerdict, Verdicts
<1>2. verdict' \in [Targets -> Verdicts]
  BY <1>1
<1>3. marked' \subseteq Targets
  <2>1. marked' \subseteq marked \union {t}
    BY DEF SetVerdict
  <2> QED BY <2>1 DEF RowsOK
<1>4. RowsOK'
  BY <1>2, <1>3 DEF RowsOK, Verdicts
<1>5. VerdictsAreEarned'
  <2> SUFFICES ASSUME NEW u \in Targets
               PROVE  /\ verdict'[u] = "supported" => u \in proven'
                      /\ verdict'[u] = "unsupported" => u \in refused'
    BY DEF VerdictsAreEarned
  <2>1. CASE u = t
    BY <1>1, <2>1
  <2>2. CASE u # t
    BY <1>1, <2>2 DEF VerdictsAreEarned
  <2> QED BY <2>1, <2>2
<1> QED BY <1>4, <1>5

LEMMA RowsKept ==
    ASSUME RowsOK, VerdictsAreEarned, UNCHANGED <<fixed, rows, evidence>>
    PROVE  RowsOK' /\ VerdictsAreEarned'
<1>1. /\ kind' = kind /\ lapses' = lapses /\ verdict' = verdict /\ marked' = marked
      /\ noTools' = noTools /\ proven' = proven /\ refused' = refused
  BY DEF fixed, rows, evidence
<1> QED BY <1>1 DEF RowsOK, VerdictsAreEarned

LEMMA RequestMoved ==
    ASSUME RequestsOK, NEW r \in Requests, NEW q, Good(q), Becomes(r, q)
    PROVE  RequestsOK'
<1>1. req' = [req EXCEPT ![r] = q] /\ req = [s \in Requests |-> req[s]]
  BY DEF Becomes, RequestsOK
<1>2. DOMAIN req = Requests
  BY <1>1
<1>3. req' = [s \in Requests |-> req'[s]]
  BY <1>1, <1>2
<1>4. ASSUME NEW s \in Requests
      PROVE  Good(req'[s])
  <2>1. CASE s = r
    <3>1. req'[s] = q
      BY <1>1, <1>2, <2>1
    <3> QED BY <3>1
  <2>2. CASE s # r
    <3>1. req'[s] = req[s]
      BY <1>1, <1>2, <2>2
    <3> QED BY <3>1 DEF RequestsOK
  <2> QED BY <2>1, <2>2
<1> QED BY <1>3, <1>4 DEF RequestsOK

-----------------------------------------------------------------------------
(* One step of one request.                                                *)

LEMMA GatewaySafe ==
    ASSUME IInv, NEW r \in Requests, GatewayStep(r)
    PROVE  IInv'
<1>1. req[r] \in Request /\ Good(req[r])
  BY DEF IInv, RequestsOK, Good
<1>2. RowsOK' /\ VerdictsAreEarned'
  BY RowsKept DEF IInv, GatewayStep, Gate, Downgrade
<1> SUFFICES RequestsOK'
  BY <1>2 DEF IInv
<1>3. ASSUME NEW q, Good(q), Becomes(r, q)
      PROVE  RequestsOK'
  BY <1>3, RequestMoved DEF IInv
<1>4. CASE Gate(r)
  <2>1. req[r].pc = "gate"
    BY <1>4 DEF Gate, At
  <2>2. GateSays(req[r]) \in {"probe", "native", "chat"}
    BY DEF GateSays
  <2>3. CASE Becomes(r, [req[r] EXCEPT !.pc = "probing"])
    BY <1>1, <1>3, <2>1, <2>3, ProbingGood
  <2>4. CASE \E q \in AfterGate(req[r], verdict) : Becomes(r, q)
    BY <1>1, <1>3, <2>1, <2>4, GateGood
  <2>5. CASE Becomes(r, NoNative(req[r]))
    <3>1. Good(NoNative(req[r]))
      BY <1>1, <2>1, PolicyGood DEF Good, Stands
    <3> QED BY <1>3, <2>5, <3>1
  <2>6. \/ Becomes(r, [req[r] EXCEPT !.pc = "probing"])
        \/ \E q \in AfterGate(req[r], verdict) : Becomes(r, q)
        \/ Becomes(r, NoNative(req[r]))
    BY Zenon, <1>4, <2>2 DEF Gate
  <2> QED BY <2>3, <2>4, <2>5, <2>6
<1>5. CASE Downgrade(r)
  <2>1. req[r].pc = "policy"
    BY <1>5 DEF Downgrade, At
  <2>2. CASE Becomes(r, Conclude(req[r], "failed"))
    BY <1>1, <1>3, <2>2, Concluded DEF Results
  <2>3. CASE Becomes(r, [Conclude(req[r], "delegated") EXCEPT !.native = req[r].native, !.chat = {0}])
    BY <1>1, <1>3, <2>1, <2>3, DelegatedGood
  <2>4. CASE /\ ~req[r].shape.stream
             /\ \E b \in BOOLEAN : \E q \in Call([req[r] EXCEPT !.armed = b], 0) : Becomes(r, q)
    BY <1>1, <1>3, <2>1, <2>4, FirstCallGood
  <2>5. \/ Becomes(r, Conclude(req[r], "failed"))
        \/ Becomes(r, [Conclude(req[r], "delegated") EXCEPT !.native = req[r].native, !.chat = {0}])
        \/ /\ ~req[r].shape.stream
           /\ \E b \in BOOLEAN : \E q \in Call([req[r] EXCEPT !.armed = b], 0) : Becomes(r, q)
    BY Zenon, <1>5 DEF Downgrade
  <2> QED BY <2>2, <2>3, <2>4, <2>5
<1> QED BY <1>4, <1>5 DEF GatewayStep

LEMMA ProbeSafe ==
    ASSUME IInv, NEW r \in Requests, ProbeAnswers(r) \/ ProbeRejected(r) \/ ProbeFails(r)
    PROVE  IInv'
<1>1. req[r] \in Request /\ Good(req[r]) /\ req[r].pc = "probing"
  BY DEF IInv, RequestsOK, Good, ProbeAnswers, ProbeRejected, ProbeFails, At
<1>2. Good(NoNative(req[r]))
  BY <1>1, PolicyGood DEF Good, Stands
<1>3. RequestsOK'
  <2>1. CASE ProbeAnswers(r)
    <3>1. PICK q \in AfterGate(req[r], [verdict EXCEPT ![0] = "supported"]) : Becomes(r, q)
      BY <2>1 DEF ProbeAnswers
    <3>2. Good(q)
      BY <1>1, GateGood
    <3> QED BY <3>1, <3>2, RequestMoved DEF IInv
  <2>2. CASE ProbeRejected(r) \/ ProbeFails(r)
    BY <1>2, <2>2, RequestMoved DEF IInv, ProbeRejected, ProbeFails
  <2> QED BY <2>1, <2>2
<1>4. RowsOK /\ VerdictsAreEarned /\ 0 \in Targets
  BY Numbers DEF IInv
<1>5. kind' = kind /\ lapses' \in 0..MaxLapses /\ noTools' \subseteq Targets
  BY DEF IInv, RowsOK, ProbeAnswers, ProbeRejected, ProbeFails, fixed
<1>6. proven' \subseteq Targets /\ refused' \subseteq Targets /\ proven \subseteq proven' /\ refused \subseteq refused'
  BY <1>4 DEF RowsOK, ProbeAnswers, ProbeRejected, ProbeFails, evidence
<1>7. CASE ProbeAnswers(r)
  <2>1. SetVerdict(0, "supported", TRUE) /\ 0 \in proven'
    BY <1>7 DEF ProbeAnswers
  <2>2. RowsOK' /\ VerdictsAreEarned'
    BY <1>4, <1>5, <1>6, <2>1, RowWritten DEF Verdicts
  <2> QED BY <1>3, <2>2 DEF IInv
<1>8. CASE ProbeRejected(r)
  <2>1. SetVerdict(0, "unsupported", FALSE) /\ 0 \in refused'
    BY <1>8 DEF ProbeRejected
  <2>2. RowsOK' /\ VerdictsAreEarned'
    BY <1>4, <1>5, <1>6, <2>1, RowWritten DEF Verdicts
  <2> QED BY <1>3, <2>2 DEF IInv
<1>9. CASE ProbeFails(r)
  <2>1. SetVerdict(0, "unknown", FALSE)
    BY <1>9 DEF ProbeFails
  <2>2. RowsOK' /\ VerdictsAreEarned'
    BY <1>4, <1>5, <1>6, <2>1, RowWritten DEF Verdicts
  <2> QED BY <1>3, <2>2 DEF IInv
<1> QED BY <1>7, <1>8, <1>9

LEMMA NativeSafe ==
    ASSUME IInv, NEW r \in Requests, NativeAnswers(r) \/ NativeOutput(r) \/ NativeFails(r)
    PROVE  IInv'
<1>1. req[r] \in Request /\ Good(req[r]) /\ req[r].pc = "posting" /\ req[r].idx \in Targets
  BY Fields DEF IInv, RequestsOK, Good, NativeAnswers, NativeOutput, NativeFails, At
<1>2. RowsOK /\ VerdictsAreEarned
  BY DEF IInv
<1>3. ASSUME NEW q, Good(q), Becomes(r, q)
      PROVE  RequestsOK'
  BY <1>3, RequestMoved DEF IInv
<1>4. CASE NativeAnswers(r)
  <2>1. RequestsOK'
    BY <1>1, <1>3, <1>4, NativeAnsweredGood DEF NativeAnswers
  <2>2. /\ kind' = kind /\ lapses' = lapses /\ refused' = refused
        /\ proven' = proven \union {req[r].idx} /\ noTools' \subseteq noTools
        /\ SetVerdict(req[r].idx, "supported", TRUE)
    BY <1>4 DEF NativeAnswers, fixed
  <2>3. /\ lapses' \in 0..MaxLapses /\ noTools' \subseteq Targets /\ proven' \subseteq Targets
        /\ refused' \subseteq Targets
    BY <1>1, <2>2 DEF IInv, RowsOK
  <2>4. RowsOK' /\ VerdictsAreEarned'
    BY <1>1, <1>2, <2>2, <2>3, RowWritten DEF Verdicts
  <2> QED BY <2>1, <2>4 DEF IInv
<1>5. CASE NativeOutput(r)
  <2>1. PICK h \in {"delta", "item", "completed"} :
          Becomes(r, [req[r] EXCEPT !.pc = "handed", !.head = h, !.named = req[r].idx])
    BY <1>5 DEF NativeOutput
  <2>2. req[r].shape.stream
    BY <1>5 DEF NativeOutput
  <2>3. RequestsOK'
    BY <1>1, <1>3, <2>1, <2>2, HandedGood
  <2>4. RowsOK' /\ VerdictsAreEarned'
    BY <1>2, <1>5, RowsKept DEF NativeOutput
  <2> QED BY <2>3, <2>4 DEF IInv
<1>6. CASE NativeFails(r)
  <2>1. PICK e \in {"refused", "rejected", "empty", "transient"} :
          /\ IF e = "rejected" /\ req[r].shape.tools
             THEN noTools' = noTools \union {req[r].idx} /\ UNCHANGED <<verdict, marked>>
             ELSE /\ SetVerdict(req[r].idx, IF e = "refused" THEN "unsupported" ELSE "unknown", FALSE)
                  /\ UNCHANGED noTools
          /\ refused' = IF e = "refused" THEN refused \union {req[r].idx} ELSE refused
          /\ \E new \in IF req[r].idx = 0 THEN AfterPrimary(req[r], verdict')
                        ELSE TryNative(req[r], verdict', req[r].idx + 1, req[r].chain) :
                Becomes(r, new)
    BY Zenon, <1>6 DEF NativeFails
  <2>2. RequestsOK'
    BY <1>1, <1>3, <2>1, FailGood
  <2>3. kind' = kind /\ lapses' = lapses /\ proven' = proven
    BY <1>6 DEF NativeFails, fixed
  <2>4. refused' \subseteq Targets /\ refused \subseteq refused' /\ (e = "refused" => req[r].idx \in refused')
    BY <1>1, <1>2, <2>1 DEF RowsOK
  <2>5. CASE e = "rejected" /\ req[r].shape.tools
    <3>1. verdict' = verdict /\ marked' = marked /\ noTools' = noTools \union {req[r].idx}
      BY <2>1, <2>5
    <3>2. RowsOK' /\ VerdictsAreEarned'
      BY <1>1, <1>2, <2>3, <2>4, <3>1 DEF RowsOK, VerdictsAreEarned
    <3> QED BY <2>2, <3>2 DEF IInv
  <2>6. CASE ~(e = "rejected" /\ req[r].shape.tools)
    <3>1. PICK v \in {"unsupported", "unknown"} : v = IF e = "refused" THEN "unsupported" ELSE "unknown"
      OBVIOUS
    <3>2. SetVerdict(req[r].idx, v, FALSE) /\ noTools' = noTools
      BY Zenon, <2>1, <2>6, <3>1
    <3>3. v \in Verdicts /\ v # "supported" /\ (v = "unsupported" => req[r].idx \in refused')
      BY <2>4, <3>1 DEF Verdicts
    <3>4. lapses' \in 0..MaxLapses /\ noTools' \subseteq Targets /\ proven' \subseteq Targets
      BY <1>2, <2>3, <3>2 DEF RowsOK
    <3>5. RowsOK' /\ VerdictsAreEarned'
      BY <1>1, <1>2, <2>3, <2>4, <3>2, <3>3, <3>4, RowWritten
    <3> QED BY <2>2, <3>5 DEF IInv
  <2> QED BY <2>5, <2>6
<1> QED BY <1>4, <1>5, <1>6

LEMMA ChatSafe ==
    ASSUME IInv, NEW r \in Requests, ChatAnswers(r) \/ PrimaryFails(r) \/ FallbackFails(r)
    PROVE  IInv'
<1>1. req[r] \in Request /\ Good(req[r]) /\ req[r].pc = "calling"
  BY DEF IInv, RequestsOK, Good, ChatAnswers, PrimaryFails, FallbackFails, At
<1>2. RowsOK' /\ VerdictsAreEarned'
  BY RowsKept DEF IInv, ChatAnswers, PrimaryFails, FallbackFails
<1> SUFFICES RequestsOK'
  BY <1>2 DEF IInv
<1>3. ASSUME NEW q, Good(q), Becomes(r, q)
      PROVE  RequestsOK'
  BY <1>3, RequestMoved DEF IInv
<1>4. CASE ChatAnswers(r)
  BY <1>1, <1>3, <1>4, ChatAnsweredGood DEF ChatAnswers
<1>5. CASE PrimaryFails(r)
  <2>1. \/ MayRetry(req[r]) /\ req[r].idx = 0 /\ \E new \in RetryPrimary(req[r]) : Becomes(r, new)
        \/ Becomes(r, Conclude(req[r], "failed"))
        \/ \E n \in 0..Fallbacks : \E new \in CallNext(req[r], 1, n) : Becomes(r, new)
    BY Zenon, <1>5 DEF PrimaryFails
  <2>2. CASE MayRetry(req[r]) /\ req[r].idx = 0 /\ \E new \in RetryPrimary(req[r]) : Becomes(r, new)
    BY <1>1, <1>3, <2>2, RetryGood
  <2>3. CASE Becomes(r, Conclude(req[r], "failed"))
    BY <1>1, <1>3, <2>3, Concluded DEF Results
  <2>4. CASE \E n \in 0..Fallbacks : \E new \in CallNext(req[r], 1, n) : Becomes(r, new)
    BY <1>1, <1>3, <2>4, NextCallGood
  <2> QED BY <2>1, <2>2, <2>3, <2>4
<1>6. CASE FallbackFails(r)
  <2>1. PICK new \in CallNext(req[r], req[r].idx + 1, req[r].chain) : Becomes(r, new)
    BY <1>6 DEF FallbackFails
  <2>2. req[r].idx + 1 \in Nat \ {0} /\ req[r].chain \in 0..Fallbacks
    BY <1>1, Fields, Numbers, NativeAssumption
  <2>3. Good(new)
    BY <1>1, <2>1, <2>2, NextCallGood
  <2> QED BY <1>3, <2>1, <2>3
<1> QED BY <1>4, <1>5, <1>6

LEMMA RelaySafe ==
    ASSUME IInv, NEW r \in Requests, NEW f \in Frames, Relay(r, f)
    PROVE  IInv'
<1>1. req[r] \in Request /\ Good(req[r]) /\ req[r].pc \in {"handed", "relaying"} /\ req[r].idx \in Targets
  BY Fields DEF IInv, RequestsOK, Good, Relay, At
<1>2. RowsOK /\ VerdictsAreEarned
  BY DEF IInv
<1>3. RequestsOK'
  <2>1. Becomes(r, Noted(req[r], f))
    BY DEF Relay
  <2> QED BY <1>1, <2>1, NotedGood, RequestMoved DEF IInv
<1>4. kind' = kind /\ lapses' = lapses /\ noTools' = noTools /\ refused' = refused
  BY DEF Relay, fixed
<1>5. CASE f = "completed"
  <2>1. /\ SetVerdict(req[r].idx, "supported", req[r].idx \in marked)
        /\ proven' = proven \union {req[r].idx}
    BY <1>5 DEF Relay
  <2>2. \/ SetVerdict(req[r].idx, "supported", TRUE)
        \/ SetVerdict(req[r].idx, "supported", FALSE)
    BY <2>1 DEF SetVerdict
  <2>3. PICK m \in BOOLEAN : SetVerdict(req[r].idx, "supported", m)
    BY Zenon, <2>2
  <2>4. /\ lapses' \in 0..MaxLapses /\ noTools' \subseteq Targets /\ proven' \subseteq Targets
        /\ refused' \subseteq Targets
    BY <1>1, <1>2, <1>4, <2>1 DEF RowsOK
  <2>5. RowsOK' /\ VerdictsAreEarned'
    BY <1>1, <1>2, <1>4, <2>1, <2>3, <2>4, RowWritten DEF Verdicts
  <2> QED BY <1>3, <2>5 DEF IInv
<1>6. CASE f # "completed"
  <2>1. UNCHANGED <<fixed, rows, evidence>>
    BY <1>4, <1>6 DEF Relay, fixed, rows, evidence
  <2> QED BY <1>2, <1>3, <2>1, RowsKept DEF IInv
<1> QED BY <1>5, <1>6

LEMMA StreamSafe ==
    ASSUME IInv, NEW r \in Requests,
           RelayEnds(r) \/ RelayBreaks(r) \/ Leave(r) \/ LeaveUnstarted(r)
    PROVE  IInv'
<1>1. req[r] \in Request /\ Good(req[r])
  BY DEF IInv, RequestsOK, Good
<1>2. RowsOK' /\ VerdictsAreEarned'
  BY RowsKept DEF IInv, RelayEnds, RelayBreaks, Leave, LeaveUnstarted
<1>3. PICK q : Good(q) /\ Becomes(r, q)
  <2>1. CASE RelayEnds(r) \/ RelayBreaks(r) \/ Leave(r)
    <3>1. req[r].pc = "relaying"
      BY <2>1 DEF RelayEnds, RelayBreaks, Leave, At
    <3> QED BY <1>1, <2>1, <3>1, StreamGood DEF RelayEnds, RelayBreaks, Leave
  <2>2. CASE LeaveUnstarted(r)
    BY <1>1, <2>2, UnstartedGood DEF LeaveUnstarted
  <2> QED BY <2>1, <2>2
<1>4. RequestsOK'
  BY <1>3, RequestMoved DEF IInv
<1> QED BY <1>2, <1>4 DEF IInv

\* Rows that lapse or are reset lose verdicts and earn none.
LEMMA RowsSafe ==
    ASSUME IInv, RowStep
    PROVE  IInv'
<1>1. RowsOK /\ VerdictsAreEarned /\ RequestsOK
  BY DEF IInv
<1>2. /\ req' = req /\ kind' = kind /\ proven' = proven /\ refused' = refused
      /\ lapses' = lapses + 1 /\ lapses < MaxLapses
  BY DEF RowStep, evidence
<1>3. lapses' \in 0..MaxLapses
  BY <1>1, <1>2, NativeAssumption DEF RowsOK
<1>4. PICK t \in Targets : Expire(t) \/ ExpireTools(t) \/ Reset(t)
  BY DEF RowStep
<1>5. RequestsOK'
  BY <1>1, <1>2 DEF RequestsOK
<1>6. CASE Expire(t)
  <2>1. /\ verdict' = [verdict EXCEPT ![t] = "none"]
        /\ marked' = marked /\ noTools' = noTools
    BY <1>6 DEF Expire
  <2>2. RowsOK' /\ VerdictsAreEarned'
    BY <1>1, <1>2, <1>3, <2>1 DEF RowsOK, VerdictsAreEarned
  <2> QED BY <1>5, <2>2 DEF IInv
<1>7. CASE ExpireTools(t)
  <2>1. verdict' = verdict /\ marked' = marked /\ noTools' \subseteq noTools
    BY <1>7 DEF ExpireTools
  <2>2. RowsOK' /\ VerdictsAreEarned'
    BY <1>1, <1>2, <1>3, <2>1 DEF RowsOK, VerdictsAreEarned
  <2> QED BY <1>5, <2>2 DEF IInv
<1>8. CASE Reset(t)
  <2>1. SetVerdict(t, "none", FALSE) /\ noTools' \subseteq noTools
    BY <1>8 DEF Reset
  <2>2. noTools' \subseteq Targets /\ proven' \subseteq Targets /\ refused' \subseteq Targets
    BY <1>1, <1>2, <2>1 DEF RowsOK
  <2>3. RowsOK' /\ VerdictsAreEarned'
    BY <1>1, <1>2, <1>3, <2>1, <2>2, RowWritten DEF Verdicts
  <2> QED BY <1>5, <2>3 DEF IInv
<1> QED BY <1>4, <1>6, <1>7, <1>8

LEMMA Initial == Init => IInv
<1> SUFFICES ASSUME Init PROVE IInv
  OBVIOUS
<1>1. RowsOK /\ VerdictsAreEarned
  BY NativeAssumption DEF Init, RowsOK, VerdictsAreEarned
<1>2. RequestsOK
  <2>1. req \in [Requests -> {Arrived(s) : s \in Flags}]
    BY DEF Init
  <2>2. req = [r \in Requests |-> req[r]] /\ \A r \in Requests : req[r] \in {Arrived(s) : s \in Flags}
    BY Zenon, <2>1
  <2> QED BY <2>2, Arrives DEF RequestsOK
<1> QED BY <1>1, <1>2 DEF IInv

-----------------------------------------------------------------------------

\* The inductive invariant: the rows are typed and their verdicts earned, and
\* every request stands where the code may have brought it.
THEOREM Inductive == Spec => []IInv
<1>1. ASSUME IInv, [Next]_vars
      PROVE  IInv'
  <2>1. CASE RowStep
    BY <1>1, <2>1, RowsSafe
  <2>2. ASSUME NEW r \in Requests, GatewayStep(r)
        PROVE  IInv'
    BY <1>1, <2>2, GatewaySafe
  <2>3. ASSUME NEW r \in Requests, UpstreamStep(r)
        PROVE  IInv'
    BY <1>1, <2>3, ProbeSafe, NativeSafe, ChatSafe DEF UpstreamStep
  <2>4. ASSUME NEW r \in Requests, StreamStep(r)
        PROVE  IInv'
    BY <1>1, <2>4, RelaySafe, StreamSafe DEF StreamStep
  <2>5. CASE UNCHANGED vars
    <3>1. UNCHANGED <<fixed, rows, evidence>> /\ req' = req
      BY <2>5 DEF vars
    <3>2. RequestsOK'
      BY <1>1, <3>1 DEF IInv, RequestsOK
    <3> QED BY <1>1, <3>1, <3>2, RowsKept DEF IInv
  <2> QED BY <1>1, <2>1, <2>2, <2>3, <2>4, <2>5 DEF Next, Done
<1> QED BY <1>1, Initial, PTL DEF Spec

\* No row says supported of a target that has not completed a native response,
\* or unsupported of one that has not rejected the protocol, whatever attempts,
\* probes, expiries and resets interleave (responses_capability.py:118).
THEOREM Earned == Spec => []VerdictsAreEarned
<1>1. IInv => VerdictsAreEarned
  BY DEF IInv
<1> QED BY <1>1, Inductive, PTL

\* Neither a failure nor the rows other requests change under way move a turn
\* to where it may not be served (proxy.py:1046, 4150).
THEOREM Native == Spec => []StaysNative
<1>1. IInv => StaysNative
  BY DEF IInv, RequestsOK, Good, Fair, ForChat, StaysNative, NoSilentDowngrade, BoundTurnStaysNative
<1> QED BY <1>1, Inductive, PTL

\* A request is entered under the target that answered, as a success only if
\* the client has seen a finished item, and its upstream is closed when it ends.
THEOREM Accounted == Spec => []AnswersAccounted
<1>1. IInv => AnswersAccounted
  <2> SUFFICES ASSUME IInv PROVE AnswersAccounted
    OBVIOUS
  <2>1. TypeOK
    <3>1. req = [r \in Requests |-> req[r]]
      BY DEF IInv, RequestsOK
    <3>2. DOMAIN req = Requests
      BY <3>1
    <3> QED BY <3>2 DEF IInv, RowsOK, RequestsOK, Good, TypeOK
  <2>2. AnswerIsAttributed /\ UpstreamClosed /\ SuccessWasFinished
    BY DEF IInv, RequestsOK, Good, Fair, AnswerIsAttributed, UpstreamClosed, SuccessWasFinished
  <2> QED BY <2>1, <2>2 DEF AnswersAccounted
<1> QED BY <1>1, Inductive, PTL
=============================================================================
