------------------------- MODULE AdministrationProofs -------------------------
(***************************************************************************)
(* Proofs about what administrators do, for any number of requests in      *)
(* flight.                                                                 *)
(*                                                                         *)
(* AdminAccess: setup makes one account, a changed password leaves no      *)
(* earlier session but its own, and the throttle keeps to its limits.      *)
(* What carries the first two is that a request or a session is always on  *)
(* behalf of an account that exists, so that no login, upgrade or change   *)
(* can add one, and setup finds no session of the user it adds.  What      *)
(* carries the last is that the guesses of a lockout and the logins still  *)
(* in flight for it together never exceed the bound.                       *)
(*                                                                         *)
(* ProviderStore: the variables keep their types, no model outlives its    *)
(* provider, and the marks of overridden capabilities agree with the       *)
(* values.  The three facts about one model row are kept by each operator  *)
(* that builds rows (the lemmas about Sound); the invariant then follows   *)
(* action by action.                                                       *)
(***************************************************************************)
EXTENDS AdminAccess, ProviderStore, FiniteSetTheorems, TLAPS

-----------------------------------------------------------------------------
(* Accounts, sessions and the throttle.                                      *)

Has(u) == admins[u] # None

AdminsOK ==
    /\ admins \in [Users -> Hash \cup {None}]
    /\ chosen \in [Users -> Passwords \cup {None}]

SessionsOK ==
    /\ sessions \in [Tokens -> Session \cup {None}]
    /\ \A t \in Tokens : sessions[t] # None =>
        sessions[t] \in Session /\ Has(sessions[t].user)

\* What a request in flight carries, and whose account it is about.
Carries(q) ==
    /\ q.op # "idle" => q.user \in Users
    /\ q.op \in {"setup", "upgrade", "grant", "change"} => q.password \in Passwords
    /\ q.op = "login" => q.hash \in Hash
    /\ q.op \in {"login", "upgrade", "grant", "verify", "change"} => Has(q.user)

RequestsOK ==
    /\ request = [r \in Requests |-> request[r]]
    /\ \A r \in Requests : Carries(request[r])

Single == \A u, v \in Users : Has(u) /\ Has(v) => u = v

IInv == AdminsOK /\ SessionsOK /\ RequestsOK /\ Single /\ OldSessionsGone

\* A new session, after a step that kept every account.
LEMMA Granted ==
    ASSUME IInv, NEW u \in Users, NEW pw \in Passwords, Has(u)',
           NEW late \in BOOLEAN, Grant(u, pw, late),
           late \/ pw = chosen'[u],
           \A v \in Users : Has(v) => Has(v)' /\ chosen'[v] = chosen[v]
    PROVE  SessionsOK' /\ OldSessionsGone'
<1> DEFINE new == [user |-> u, password |-> pw, late |-> late, kept |-> FALSE]
<1>1. PICK token \in Tokens : sessions' = [sessions EXCEPT ![token] = new]
  BY DEF Grant
<1>2. new \in Session
  BY DEF Session
<1>3. \A t \in Tokens : sessions'[t] = IF t = token THEN new ELSE sessions[t]
  BY <1>1 DEF IInv, SessionsOK
<1>4. new.user = u /\ new.password = pw /\ new.late = late
  OBVIOUS
<1> HIDE DEF new
<1>5. SessionsOK'
  BY <1>1, <1>2, <1>3, <1>4 DEF IInv, SessionsOK, Session
<1>6. OldSessionsGone'
  BY <1>2, <1>3, <1>4 DEF IInv, SessionsOK, OldSessionsGone, Session
<1> QED BY <1>5, <1>6

\* Steps that leave accounts and sessions alone.
LEMMA Unrelated ==
    ASSUME IInv, UNCHANGED <<admins, chosen, sessions>>, RequestsOK'
    PROVE  IInv'
BY DEF IInv, AdminsOK, SessionsOK, Single, OldSessionsGone, Has

\* One request moves on, after a step that kept every account.
LEMMA Moved ==
    ASSUME IInv, NEW r \in Requests, NEW q,
           request' = [request EXCEPT ![r] = q], Carries(q)',
           \A v \in Users : Has(v) => Has(v)'
    PROVE  RequestsOK'
<1>1. \A s \in Requests : request'[s] = IF s = r THEN q ELSE request[s]
  BY DEF IInv, RequestsOK
<1>2. \A s \in Requests : Carries(request[s])'
  BY <1>1 DEF IInv, RequestsOK, Carries
<1> QED BY <1>2 DEF IInv, RequestsOK

LEMMA Idles == Carries(Idle) /\ Carries(Idle)'
  BY DEF Idle, Carries

LEMMA SetupKeeps ==
    ASSUME IInv, NEW r \in Requests, FinishSetup(r)
    PROVE  IInv'
<1>0. /\ request[r].user \in Users /\ request[r].password \in Passwords
  BY DEF FinishSetup, IInv, RequestsOK, Carries
<1>1. PICK u \in Users, pw \in Passwords :
        u = request[r].user /\ pw = request[r].password
  BY <1>0
<1>2. CASE MayAdd(u) /\ admins' = [admins EXCEPT ![u] = [password |-> pw, old |-> FALSE]]
           /\ chosen' = [chosen EXCEPT ![u] = pw] /\ Grant(u, pw, FALSE)
  <2>1. \A v \in Users : ~Has(v)
    BY <1>2 DEF MayAdd, Has
  <2>2. [password |-> pw, old |-> FALSE] \in Hash
    BY <1>1 DEF Hash
  <2>3. AdminsOK' /\ Has(u)' /\ chosen'[u] = pw /\ Single'
    BY Distinct, <1>1, <1>2, <2>1, <2>2 DEF IInv, AdminsOK, Has, Single
  <2>4. RequestsOK'
    BY <2>1, Moved, Idles DEF FinishSetup, Finish, Begin
  <2>5. SessionsOK' /\ OldSessionsGone'
    BY <1>1, <1>2, <2>1, <2>3, Granted
  <2> QED BY <2>3, <2>4, <2>5 DEF IInv
<1>3. CASE UNCHANGED <<admins, chosen, sessions>>
  <2>1. RequestsOK'
    BY <1>3, Moved, Idles DEF FinishSetup, Finish, Begin, Has
  <2> QED BY <1>3, <2>1, Unrelated
<1> QED BY <1>1, <1>2, <1>3 DEF FinishSetup

LEMMA LoginKeeps ==
    ASSUME IInv, NEW r \in Requests, NEW pw \in Passwords,
           Verified(r, pw)
    PROVE  IInv'
<1>0. /\ request[r].user \in Users /\ Has(request[r].user)
      /\ UNCHANGED <<admins, chosen>>
  BY DEF Verified, IInv, RequestsOK, Carries
<1>1. PICK u \in Users : u = request[r].user /\ Has(u) /\ UNCHANGED <<admins, chosen>>
  BY <1>0
<1>2. CASE Finish(r) /\ UNCHANGED sessions
  BY <1>1, <1>2, Moved, Idles, Unrelated DEF Finish, Begin, Has
<1>3. CASE /\ Begin(r, [op |-> "upgrade", user |-> u, password |-> pw])
           /\ UNCHANGED sessions
  <2>1. Carries([op |-> "upgrade", user |-> u, password |-> pw])'
    BY <1>1 DEF Carries, Has
  <2> QED BY <1>1, <1>3, <2>1, Moved, Unrelated DEF Begin, Has
<1>4. CASE Grant(u, pw, pw # chosen[u]) /\ Finish(r)
  <2>1. RequestsOK'
    BY <1>1, <1>4, Moved, Idles DEF Finish, Begin, Has
  <2>2. SessionsOK' /\ OldSessionsGone'
    BY <1>1, <1>4, Granted DEF Has
  <2> QED BY <1>1, <2>1, <2>2 DEF IInv, AdminsOK, Single, Has
<1> QED BY <1>1, <1>2, <1>3, <1>4 DEF Verified

LEMMA UpgradeKeeps ==
    ASSUME IInv, NEW r \in Requests, Upgrade(r)
    PROVE  IInv'
<1>0. /\ request[r].user \in Users /\ Has(request[r].user)
      /\ request[r].password \in Passwords
  BY DEF Upgrade, IInv, RequestsOK, Carries
<1>1. PICK u \in Users, pw \in Passwords :
        u = request[r].user /\ pw = request[r].password /\ Has(u)
  BY <1>0
<1>2. [password |-> pw, old |-> FALSE] \in Hash
  BY <1>1 DEF Hash
<1>3. AdminsOK' /\ \A v \in Users : Has(v) <=> Has(v)'
  BY Distinct, <1>1, <1>2 DEF Upgrade, IInv, AdminsOK, Has
<1>4. Carries([op |-> "grant", user |-> u, password |-> pw])'
  BY <1>1, <1>3 DEF Carries
<1>5. RequestsOK'
  BY <1>1, <1>3, <1>4, Moved DEF Upgrade, Begin
<1>6. SessionsOK' /\ OldSessionsGone' /\ Single'
  BY <1>1, <1>3 DEF Upgrade, IInv, SessionsOK, OldSessionsGone, Single, Session
<1> QED BY <1>3, <1>5, <1>6 DEF IInv

LEMMA ChangeKeeps ==
    ASSUME IInv, NEW r \in Requests, FinishChange(r)
    PROVE  IInv'
<1>0. /\ request[r].user \in Users /\ Has(request[r].user)
      /\ request[r].password \in Passwords
  BY DEF FinishChange, IInv, RequestsOK, Carries
<1>1. PICK u \in Users, pw \in Passwords :
        u = request[r].user /\ pw = request[r].password /\ Has(u)
  BY <1>0
<1>2. [password |-> pw, old |-> FALSE] \in Hash
  BY <1>1 DEF Hash
<1>3. AdminsOK' /\ \A v \in Users : Has(v) <=> Has(v)'
  BY Distinct, <1>1, <1>2 DEF FinishChange, IInv, AdminsOK, Has
<1>4. RequestsOK'
  BY <1>3, Moved, Idles DEF FinishChange, Finish, Begin
<1>5. \A t \in Tokens : sessions'[t] # None =>
        /\ sessions[t] # None
        /\ sessions'[t] \in Session /\ sessions'[t].user = sessions[t].user
        /\ \/ sessions'[t].kept
           \/ sessions'[t] = sessions[t] /\ sessions[t].user # u
  BY <1>1 DEF FinishChange, Revoked, IInv, SessionsOK, Session
<1>6. sessions' \in [Tokens -> Session \cup {None}]
  BY <1>1, <1>5 DEF FinishChange, Revoked
<1>7. SessionsOK'
  BY <1>3, <1>5, <1>6 DEF IInv, SessionsOK, Session
<1>8. \A v \in Users : v # u => chosen'[v] = chosen[v]
  BY <1>1 DEF FinishChange, IInv, AdminsOK
<1>9. OldSessionsGone'
  BY <1>5, <1>8 DEF IInv, SessionsOK, OldSessionsGone, Session
<1> QED BY <1>3, <1>4, <1>7, <1>9 DEF IInv, Single

LEMMA SessionKeeps ==
    ASSUME IInv, (\E t \in Tokens : EndSession(t)) \/ (\E r \in Requests : GrantSession(r))
    PROVE  IInv'
<1>1. CASE \E t \in Tokens : EndSession(t)
  <2>1. \A t \in Tokens : sessions'[t] # None => sessions'[t] = sessions[t]
    BY <1>1 DEF EndSession, IInv, SessionsOK
  <2>2. sessions' \in [Tokens -> Session \cup {None}] /\ UNCHANGED <<admins, chosen, request>>
    BY <1>1 DEF EndSession, IInv, SessionsOK
  <2> QED
    BY <2>1, <2>2
    DEF IInv, AdminsOK, SessionsOK, RequestsOK, Carries, Single, OldSessionsGone, Has
<1>2. ASSUME NEW r \in Requests, GrantSession(r) PROVE IInv'
  <2>0. /\ request[r].user \in Users /\ Has(request[r].user)
        /\ request[r].password \in Passwords /\ UNCHANGED <<admins, chosen>>
    BY <1>2 DEF GrantSession, IInv, RequestsOK, Carries
  <2>1. PICK u \in Users, pw \in Passwords : u = request[r].user /\ pw = request[r].password
    BY <2>0
  <2>2. Has(u)' /\ \A v \in Users : Has(v) => Has(v)' /\ chosen'[v] = chosen[v]
    BY <2>0, <2>1 DEF Has
  <2>3. SessionsOK' /\ OldSessionsGone'
    BY <1>2, <2>0, <2>1, <2>2, Granted DEF GrantSession
  <2>4. RequestsOK'
    BY <1>2, <2>2, Moved, Idles DEF GrantSession, Finish, Begin
  <2> QED BY <2>0, <2>3, <2>4 DEF IInv, AdminsOK, Single, Has
<1> QED BY <1>1, <1>2

LEMMA StartKeeps ==
    ASSUME IInv, NEW r \in Requests,
           \/ StartSetup(r)
           \/ \E c \in Clients, u \in Users : StartLogin(r, c, u)
           \/ \E t \in Tokens : StartChange(r, t)
           \/ VerifiedForChange(r)
    PROVE  IInv'
<1>1. UNCHANGED <<admins, chosen, sessions>>
  BY DEF StartSetup, StartLogin, StartChange, VerifiedForChange
<1>2. \A v \in Users : Has(v) => Has(v)'
  BY <1>1 DEF Has
<1>3. CASE UNCHANGED request
  BY <1>1, <1>3, Unrelated DEF IInv, RequestsOK, Carries, Has
<1>4. CASE StartSetup(r)
  <2>1. PICK u \in Users, pw \in Passwords :
          Begin(r, [op |-> "setup", user |-> u, password |-> pw])
    BY <1>4 DEF StartSetup
  <2>2. Carries([op |-> "setup", user |-> u, password |-> pw])'
    BY DEF Carries
  <2> QED BY <1>1, <1>2, <2>1, <2>2, Moved, Unrelated DEF Begin
<1>5. ASSUME NEW c \in Clients, NEW u \in Users, StartLogin(r, c, u), request' # request
      PROVE  IInv'
  <2>1. Has(u) /\ Begin(r, [op |-> "login", client |-> c, user |-> u, hash |-> admins[u]])
    BY <1>5 DEF StartLogin, Has
  <2>2. PICK hash \in Hash : hash = admins[u]
    BY <2>1 DEF IInv, AdminsOK, Has
  <2>3. Carries([op |-> "login", client |-> c, user |-> u, hash |-> hash])'
    BY <1>2, <2>1 DEF Carries
  <2> QED BY <1>1, <1>2, <2>1, <2>2, <2>3, Moved, Unrelated DEF Begin
<1>6. ASSUME NEW t \in Tokens, StartChange(r, t) PROVE IInv'
  <2>1. PICK u \in Users : u = sessions[t].user /\ Has(u)
    BY <1>6 DEF StartChange, IInv, SessionsOK, Session
  <2>2. Carries([op |-> "verify", user |-> u, token |-> t])'
    BY <1>2, <2>1 DEF Carries
  <2> QED BY <1>1, <1>2, <1>6, <2>1, <2>2, Moved, Unrelated DEF StartChange, Begin
<1>7. CASE VerifiedForChange(r)
  <2>1. CASE Finish(r)
    BY <1>1, <1>2, <2>1, Moved, Idles, Unrelated DEF Finish, Begin
  <2>2. ASSUME NEW pw \in Passwords,
               Begin(r, [op |-> "change", user |-> request[r].user,
                         token |-> request[r].token, password |-> pw])
        PROVE  IInv'
    <3>1. request[r].user \in Users /\ Has(request[r].user)
      BY <1>7 DEF VerifiedForChange, IInv, RequestsOK, Carries
    <3>2. PICK u \in Users, t \in {request[r].token} : u = request[r].user /\ t = request[r].token /\ Has(u)
      BY <3>1
    <3>3. Carries([op |-> "change", user |-> u, token |-> t, password |-> pw])'
      BY <1>2, <3>2 DEF Carries
    <3> QED BY <1>1, <1>2, <2>2, <3>2, <3>3, Moved, Unrelated DEF Begin
  <2> QED BY <1>7, <2>1, <2>2 DEF VerifiedForChange
<1> QED BY <1>3, <1>4, <1>5, <1>6, <1>7

LEMMA RestartKeeps ==
    ASSUME IInv, Restart \/ (\E c \in Clients : Age(c)) \/ UNCHANGED vars
    PROVE  IInv'
<1>1. CASE Restart
  <2>1. /\ UNCHANGED <<admins, chosen>>
        /\ \A t \in Tokens : sessions'[t] = None
        /\ \A r \in Requests : request'[r] = Idle
    BY <1>1 DEF Restart, Nobody
  <2>2. RequestsOK'
    BY <1>1, <2>1, Idles DEF Restart, RequestsOK
  <2>3. sessions' \in [Tokens -> Session \cup {None}]
    BY <1>1 DEF Restart, Nobody
  <2> QED
    BY <2>1, <2>2, <2>3
    DEF IInv, AdminsOK, SessionsOK, Single, OldSessionsGone, Has
<1>2. CASE UNCHANGED <<admins, chosen, sessions, request>>
  BY <1>2, Unrelated DEF IInv, RequestsOK, Carries, Has
<1> QED BY <1>1, <1>2 DEF Age, vars

LEMMA InitKeeps == Init => IInv
<1> SUFFICES ASSUME Init PROVE IInv
  OBVIOUS
<1>1. AdminsOK /\ Single
  BY Distinct DEF Init, Nobody, AdminsOK, Single, Has, Hash
<1>2. SessionsOK /\ OldSessionsGone
  BY DEF Init, Nobody, SessionsOK, OldSessionsGone
<1>3. RequestsOK
  BY Idles DEF Init, RequestsOK
<1> QED BY <1>1, <1>2, <1>3 DEF IInv

LEMMA NextKeeps == IInv /\ [Next]_vars => IInv'
  BY SetupKeeps, LoginKeeps, UpgradeKeeps, ChangeKeeps, SessionKeeps, StartKeeps,
     RestartKeeps
  DEF Next

\* The invariant holds in every reachable state.
THEOREM Inductive == Spec => []IInv
  BY InitKeeps, NextKeeps, PTL DEF Spec

\* However many first requests run at once, setup makes one account
\* (auth.py:68).
THEOREM SetupMakesOne == Spec => []OneAccount
<1>1. Single => OneAccount
  <2> SUFFICES ASSUME Single PROVE OneAccount
    OBVIOUS
  <2>1. CASE \E u \in Users : Has(u)
    <3>1. PICK u \in Users : Has(u)
      BY <2>1
    <3>2. {v \in Users : admins[v] # None} = {u}
      BY <3>1 DEF Single, Has
    <3>3. Cardinality({u}) = 1
      BY FS_Singleton
    <3> QED BY <3>2, <3>3 DEF OneAccount
  <2>2. CASE ~\E u \in Users : Has(u)
    <3>1. {v \in Users : admins[v] # None} = {}
      BY <2>2 DEF Has
    <3> QED BY <3>1, FS_EmptySet DEF OneAccount
  <2> QED BY <2>1, <2>2
<1> QED BY <1>1, Inductive, PTL DEF IInv

\* A changed password leaves only its own session of those granted before it
\* (auth.py:167).
THEOREM ChangesRevoke == Spec => []OldSessionsGone
  BY Inductive, PTL DEF IInv

-----------------------------------------------------------------------------
(* The throttle.                                                           *)

Tries == [Clients -> (0..Limit - 1) \cup {None}]
Bars == [Clients -> {None, "running", "over"}]

Held(a, b) == Counting(a) \cup Locked(b)

\* What there is to say of a throttle: its types and its size.
Fits(t) ==
    /\ t.attempts \in Tries /\ t.blocked \in Bars
    /\ Cardinality(Held(t.attempts, t.blocked)) <= MaxIdentities

LoggingIn(c) == {r \in Requests : request[r].op = "login" /\ request[r].client = c}

LoginsOK ==
    /\ request = [r \in Requests |-> request[r]]
    /\ \A r \in Requests : request[r].op = "login" => request[r].client \in Clients

\* A lockout leaves room for the failures of the logins in flight; without one
\* the guesses are the failures in the window.
Tracked ==
    /\ guesses \in [Clients -> Nat]
    /\ \A c \in Clients :
        IF blocked[c] = "running"
        THEN guesses[c] + Cardinality(LoggingIn(c)) <= Limit + Cardinality(Requests) - 1
        ELSE guesses[c] = IF attempts[c] = None THEN 0 ELSE attempts[c]

TInv == Fits([attempts |-> attempts, blocked |-> blocked]) /\ LoginsOK /\ Tracked

LEMMA HeldFinite ==
    ASSUME NEW a, NEW b
    PROVE  /\ IsFiniteSet(Counting(a)) /\ IsFiniteSet(Locked(b)) /\ IsFiniteSet(Held(a, b))
           /\ Cardinality(Counting(a)) \in Nat /\ Cardinality(Locked(b)) \in Nat
           /\ Cardinality(Held(a, b)) \in Nat
           /\ Cardinality(Held(a, b)) <= Cardinality(Counting(a)) + Cardinality(Locked(b))
<1>1. IsFiniteSet(Counting(a)) /\ IsFiniteSet(Locked(b))
  BY Constants, FS_Subset DEF Counting, Locked
<1>2. /\ IsFiniteSet(Held(a, b)) /\ IsFiniteSet(Counting(a) \cap Locked(b))
      /\ Cardinality(Held(a, b))
            = Cardinality(Counting(a)) + Cardinality(Locked(b))
              - Cardinality(Counting(a) \cap Locked(b))
  BY <1>1, FS_Union, FS_Intersection DEF Held
<1> QED BY <1>1, <1>2, FS_CardinalityType

\* A client in both maps counts twice in what is evicted, so that at least the
\* excess goes.
LEMMA VictimsSuffice ==
    ASSUME NEW a \in Tries, NEW b \in Bars, NEW V \in Victims(a, b)
    PROVE  Fits(Without([attempts |-> a, blocked |-> b], V))
<1> DEFINE t == Without([attempts |-> a, blocked |-> b], V)
           all == Held(a, b)
<1>1. /\ V \subseteq all
      /\ Cardinality(V) = IF Overflow(a, b) <= Cardinality(all) THEN Overflow(a, b)
                          ELSE Cardinality(all)
  BY DEF Victims, Held
<1>2. t.attempts \in Tries /\ t.blocked \in Bars
  BY DEF Without, Tries, Bars
<1>3. Held(t.attempts, t.blocked) = all \ V
  BY DEF Without, Held, Counting, Locked
<1>4. /\ all \cap V = V
      /\ Cardinality(all \ V) = Cardinality(all) - Cardinality(all \cap V)
  BY <1>1, HeldFinite, FS_Difference
<1> HIDE DEF all, t
<1>5. Cardinality(all) - Cardinality(V) <= MaxIdentities
  <2>1. PICK m, k, l \in Nat : /\ m = Cardinality(all) /\ k = Cardinality(Counting(a))
                               /\ l = Cardinality(Locked(b)) /\ m <= k + l
    BY HeldFinite DEF all
  <2> QED BY <1>1, <2>1, Constants DEF Overflow
<1> QED BY <1>2, <1>3, <1>4, <1>5 DEF Fits, t

LEMMA PruneFits ==
    ASSUME NEW a \in Tries, NEW b \in Bars, NEW t \in Pruned(a, b)
    PROVE  /\ Fits(t)
           /\ \A c \in Clients : t.blocked[c] = "running" => b[c] = "running"
<1>1. PICK u \in {[attempts |-> a, blocked |-> b], Expired(a, b)} :
        \E V \in Victims(u.attempts, u.blocked) : t = Without(u, V)
  BY DEF Pruned
<1>2. PICK V \in Victims(u.attempts, u.blocked) : t = Without(u, V)
  BY <1>1
<1>3. /\ u.attempts \in Tries /\ u.blocked \in Bars
      /\ u = [attempts |-> u.attempts, blocked |-> u.blocked]
      /\ \A c \in Clients : u.blocked[c] = "running" => b[c] = "running"
  BY Distinct DEF Expired, Tries, Bars
<1>4. Fits(t)
  BY <1>2, <1>3, VictimsSuffice
<1>5. \A c \in Clients : t.blocked[c] = "running" => u.blocked[c] = "running"
  BY <1>2, Distinct DEF Without
<1> QED BY <1>3, <1>4, <1>5

LEMMA FailureFits ==
    ASSUME NEW a \in Tries, NEW b \in Bars, NEW c \in Clients, NEW f \in Failure(a, b, c)
    PROVE  /\ Fits(f)
           /\ \A d \in Clients : f.blocked[d] = "running" => d = c \/ b[d] = "running"
<1> DEFINE more(t) == IF t.attempts[c] = None THEN 1 ELSE t.attempts[c] + 1
<1>1. PICK t \in Pruned(a, b) :
        f \in IF more(t) >= Limit
              THEN Pruned([t.attempts EXCEPT ![c] = None], [t.blocked EXCEPT ![c] = "running"])
              ELSE Pruned([t.attempts EXCEPT ![c] = more(t)], t.blocked)
  BY DEF Failure
<1>2. /\ t.attempts \in Tries /\ t.blocked \in Bars
      /\ \A d \in Clients : t.blocked[d] = "running" => b[d] = "running"
  BY PruneFits DEF Fits
<1>3. CASE more(t) >= Limit
  <2>1. /\ [t.attempts EXCEPT ![c] = None] \in Tries
        /\ [t.blocked EXCEPT ![c] = "running"] \in Bars
    BY <1>2 DEF Tries, Bars
  <2>2. Fits(f) /\ \A d \in Clients :
            f.blocked[d] = "running" => [t.blocked EXCEPT ![c] = "running"][d] = "running"
    BY <1>1, <1>3, <2>1, PruneFits
  <2> QED BY <1>2, <2>2 DEF Bars
<1>4. CASE ~(more(t) >= Limit)
  <2>1. [t.attempts EXCEPT ![c] = more(t)] \in Tries
    BY <1>2, <1>4, Constants DEF Tries
  <2>2. Fits(f) /\ \A d \in Clients : f.blocked[d] = "running" => t.blocked[d] = "running"
    BY <1>1, <1>2, <1>4, <2>1, PruneFits
  <2> QED BY <1>2, <2>2
<1> QED BY <1>3, <1>4

\* The throttle becomes t.
LEMMA Becomes ==
    ASSUME TInv, NEW t, Fits(t), NEW tried \in [Clients -> Nat], Throttle(t, tried), LoginsOK',
           \A c \in Clients : t.blocked[c] = "running" =>
                tried[c] + Cardinality(LoggingIn(c)') <= Limit + Cardinality(Requests) - 1
    PROVE  TInv'
<1>1. Fits([attempts |-> attempts, blocked |-> blocked])'
  BY DEF Throttle, Fits
<1>2. guesses' \in [Clients -> Nat]
  BY Constants DEF Throttle, Tally, Fits, Tries
<1>3. ASSUME NEW c \in Clients
      PROVE  IF blocked'[c] = "running"
             THEN guesses'[c] + Cardinality(LoggingIn(c)') <= Limit + Cardinality(Requests) - 1
             ELSE guesses'[c] = IF attempts'[c] = None THEN 0 ELSE attempts'[c]
  BY DEF Throttle, Tally
<1> QED BY <1>1, <1>2, <1>3 DEF TInv, Tracked

LEMMA Few ==
    ASSUME NEW c
    PROVE  /\ IsFiniteSet(LoggingIn(c)) /\ Cardinality(LoggingIn(c)) \in Nat
           /\ Cardinality(Requests) \in Nat
BY Constants, FS_Subset, FS_CardinalityType DEF LoggingIn

LEMMA Fewer ==
    ASSUME NEW S, NEW T, IsFiniteSet(T), S \subseteq T
    PROVE  /\ Cardinality(S) \in Nat /\ Cardinality(T) \in Nat
           /\ Cardinality(S) <= Cardinality(T)
           /\ \A x \in T : x \notin S => Cardinality(S) <= Cardinality(T) - 1
<1>1. IsFiniteSet(S) /\ Cardinality(S) <= Cardinality(T)
  BY FS_Subset
<1>2. Cardinality(S) \in Nat /\ Cardinality(T) \in Nat
  BY <1>1, FS_CardinalityType
<1>3. ASSUME NEW x \in T, x \notin S PROVE Cardinality(S) <= Cardinality(T) - 1
  <2>1. /\ S \subseteq T \ {x} /\ IsFiniteSet(T \ {x})
        /\ Cardinality(T \ {x}) = Cardinality(T) - 1
    BY <1>3, FS_RemoveElement
  <2> QED BY <2>1, FS_Subset
<1> QED BY <1>1, <1>2, <1>3

\* A step that starts no lockout.
LEMMA Quiet ==
    ASSUME TInv, NEW t, Fits(t), Throttle(t, guesses), LoginsOK',
           \A c \in Clients : t.blocked[c] = "running" =>
                blocked[c] = "running" /\ LoggingIn(c)' \subseteq LoggingIn(c)
    PROVE  TInv'
<1>1. ASSUME NEW c \in Clients, t.blocked[c] = "running"
      PROVE  guesses[c] + Cardinality(LoggingIn(c)') <= Limit + Cardinality(Requests) - 1
  <2>1. /\ Cardinality(LoggingIn(c)') \in Nat /\ Cardinality(LoggingIn(c)) \in Nat
        /\ Cardinality(LoggingIn(c)') <= Cardinality(LoggingIn(c))
    BY <1>1, Few, Fewer
  <2>2. /\ guesses[c] + Cardinality(LoggingIn(c)) <= Limit + Cardinality(Requests) - 1
        /\ guesses[c] \in Nat
    BY <1>1 DEF TInv, Tracked
  <2> QED BY <2>1, <2>2, Few, Constants
<1>2. guesses \in [Clients -> Nat]
  BY DEF TInv, Tracked
<1> QED BY <1>1, <1>2, Becomes

\* One request goes over to q.
LEMMA LoginsMove ==
    ASSUME LoginsOK, NEW r \in Requests, NEW q, Begin(r, q),
           q.op = "login" => q.client \in Clients
    PROVE  /\ LoginsOK'
           /\ \A c \in Clients : LoggingIn(c)' \subseteq LoggingIn(c) \cup {r}
           /\ \A c \in Clients : q.op # "login" \/ q.client # c => r \notin LoggingIn(c)'
<1>1. \A s \in Requests : request'[s] = IF s = r THEN q ELSE request[s]
  BY DEF Begin, LoginsOK
<1>2. LoginsOK'
  BY <1>1 DEF Begin, LoginsOK
<1> QED BY <1>1, <1>2 DEF LoggingIn

\* Any step that leaves the throttle alone.
LEMMA Elsewhere ==
    ASSUME TInv, UNCHANGED throttle, LoginsOK',
           \A c \in Clients : LoggingIn(c)' \subseteq LoggingIn(c)
    PROVE  TInv'
<1>1. ASSUME NEW c \in Clients, blocked[c] = "running"
      PROVE  guesses[c] + Cardinality(LoggingIn(c)') <= Limit + Cardinality(Requests) - 1
  <2>1. /\ Cardinality(LoggingIn(c)') \in Nat /\ Cardinality(LoggingIn(c)) \in Nat
        /\ Cardinality(LoggingIn(c)') <= Cardinality(LoggingIn(c))
    BY Few, Fewer
  <2>2. /\ guesses[c] + Cardinality(LoggingIn(c)) <= Limit + Cardinality(Requests) - 1
        /\ guesses[c] \in Nat
    BY <1>1 DEF TInv, Tracked
  <2> QED BY <2>1, <2>2, Few, Constants
<1>2. UNCHANGED <<attempts, blocked, guesses>>
  BY DEF throttle
<1> QED BY <1>1, <1>2 DEF TInv, Tracked, Fits

\* A client fails, having tried tried[c] before; its login is not in flight any
\* more, or was not yet.
LEMMA Fails ==
    ASSUME TInv, NEW a \in Tries, NEW b \in Bars, NEW c \in Clients,
           NEW f \in Failure(a, b, c), NEW tried \in [Clients -> Nat],
           Throttle(f, OneMore(tried, c)), LoginsOK',
           \A d \in Clients : b[d] = "running" => blocked[d] = "running" /\ tried[d] = guesses[d],
           \A d \in Clients : LoggingIn(d)' \subseteq LoggingIn(d),
           NEW r \in Requests, r \notin LoggingIn(c)',
           tried[c] < Limit \/ (blocked[c] = "running" /\ tried[c] = guesses[c] /\ r \in LoggingIn(c))
    PROVE  TInv'
<1>1. Fits(f) /\ \A d \in Clients : f.blocked[d] = "running" => d = c \/ b[d] = "running"
  BY FailureFits
<1>2. OneMore(tried, c) \in [Clients -> Nat]
  BY DEF OneMore
<1>3. \A d \in Clients : blocked[d] = "running" =>
        guesses[d] + Cardinality(LoggingIn(d)) <= Limit + Cardinality(Requests) - 1
  BY DEF TInv, Tracked
<1>4. Cardinality(Requests) \in Nat /\ Limit \in Nat /\ guesses \in [Clients -> Nat]
  BY Few, Constants DEF TInv, Tracked
<1>5. ASSUME NEW d \in Clients, d # c, f.blocked[d] = "running"
      PROVE  OneMore(tried, c)[d] + Cardinality(LoggingIn(d)') <= Limit + Cardinality(Requests) - 1
  <2>1. /\ Cardinality(LoggingIn(d)') \in Nat /\ Cardinality(LoggingIn(d)) \in Nat
        /\ Cardinality(LoggingIn(d)') <= Cardinality(LoggingIn(d))
    BY Few, Fewer
  <2>2. OneMore(tried, c)[d] = guesses[d] /\ blocked[d] = "running"
    BY <1>1, <1>5 DEF OneMore
  <2> QED BY <1>3, <1>4, <2>1, <2>2
<1>6. OneMore(tried, c)[c] + Cardinality(LoggingIn(c)') <= Limit + Cardinality(Requests) - 1
  <2>1. OneMore(tried, c)[c] = tried[c] + 1
    BY DEF OneMore
  <2>2. CASE tried[c] < Limit
    <3>1. LoggingIn(c)' \subseteq Requests
      BY DEF LoggingIn
    <3>2. /\ Cardinality(LoggingIn(c)') \in Nat
          /\ Cardinality(LoggingIn(c)') <= Cardinality(Requests) - 1
      BY <3>1, Constants, Fewer
    <3> QED BY <1>4, <2>1, <2>2, <3>2
  <2>3. CASE blocked[c] = "running" /\ tried[c] = guesses[c] /\ r \in LoggingIn(c)
    <3>1. /\ Cardinality(LoggingIn(c)') \in Nat /\ Cardinality(LoggingIn(c)) \in Nat
          /\ Cardinality(LoggingIn(c)') <= Cardinality(LoggingIn(c)) - 1
      BY <2>3, Few, Fewer
    <3> QED BY <1>3, <1>4, <2>1, <2>3, <3>1
  <2> QED BY <2>2, <2>3
<1> QED BY <1>1, <1>2, <1>5, <1>6, Becomes

LEMMA AgeKeeps ==
    ASSUME TInv, NEW c \in Clients, Age(c)
    PROVE  TInv'
<1>1. LoginsOK' /\ \A d \in Clients : LoggingIn(d)' \subseteq LoggingIn(d)
  BY DEF Age, TInv, LoginsOK, LoggingIn
<1>2. /\ attempts \in Tries /\ blocked \in Bars
      /\ Cardinality(Held(attempts, blocked)) <= MaxIdentities
  BY DEF TInv, Fits
<1>3. ASSUME attempts[c] # None, NEW n \in 0..attempts[c] - 1,
             Throttle([attempts |-> [attempts EXCEPT ![c] = n], blocked |-> blocked], guesses)
      PROVE  TInv'
  <2> DEFINE a == [attempts EXCEPT ![c] = n]
  <2>1. a \in Tries
    BY <1>2, <1>3, Constants DEF Tries
  <2>2. Held(a, blocked) = Held(attempts, blocked)
    BY <1>2, <1>3, Distinct DEF Held, Counting, Tries
  <2>3. Fits([attempts |-> a, blocked |-> blocked])
    BY <1>2, <2>1, <2>2 DEF Fits
  <2> HIDE DEF a
  <2>4. Throttle([attempts |-> a, blocked |-> blocked], guesses)
    BY <1>3 DEF a
  <2> QED BY <1>1, <2>3, <2>4, Quiet
<1>4. ASSUME blocked[c] = "running",
             Throttle([attempts |-> attempts, blocked |-> [blocked EXCEPT ![c] = "over"]], guesses)
      PROVE  TInv'
  <2> DEFINE b == [blocked EXCEPT ![c] = "over"]
  <2>1. b \in Bars /\ \A d \in Clients : b[d] = "running" => blocked[d] = "running"
    BY <1>2 DEF Bars
  <2>2. Held(attempts, b) = Held(attempts, blocked)
    BY <1>2, <1>4, Distinct DEF Held, Locked, Bars
  <2>3. Fits([attempts |-> attempts, blocked |-> b])
    BY <1>2, <2>1, <2>2 DEF Fits
  <2> HIDE DEF b
  <2>4. Throttle([attempts |-> attempts, blocked |-> b], guesses)
    BY <1>4 DEF b
  <2> QED BY <1>1, <2>1, <2>3, <2>4, Quiet
<1> QED BY <1>3, <1>4 DEF Age

LEMMA ForgottenFits ==
    ASSUME NEW a \in Tries, NEW b \in Bars, Fits([attempts |-> a, blocked |-> b]), NEW a2 \in Tries,
           NEW b2 \in Bars, Held(a2, b2) \subseteq Held(a, b)
    PROVE  Fits([attempts |-> a2, blocked |-> b2])
<1>1. /\ Cardinality(Held(a2, b2)) <= Cardinality(Held(a, b))
      /\ Cardinality(Held(a2, b2)) \in Nat /\ Cardinality(Held(a, b)) \in Nat
  BY HeldFinite, Fewer
<1>2. Cardinality(Held(a, b)) <= MaxIdentities
  BY DEF Fits
<1>3. Cardinality(Held(a2, b2)) <= MaxIdentities
  BY <1>1, <1>2, Constants
<1> QED BY <1>3 DEF Fits

LEMMA StartKeepsThrottle ==
    ASSUME TInv, NEW r \in Requests, NEW c \in Clients, NEW u \in Users, StartLogin(r, c, u)
    PROVE  TInv'
<1>1. PICK t \in Pruned(attempts, blocked) :
        LET b == [t.blocked EXCEPT ![c] = IF @ = "over" THEN None ELSE @] IN
        \/ ~Admitted(t.blocked, c) /\ Throttle(t, guesses) /\ UNCHANGED request
        \/ /\ Admitted(t.blocked, c)
           /\ \E f \in Failure(t.attempts, b, c) :
                Throttle(f, OneMore(Tally(t, guesses), c))
           /\ UNCHANGED request
        \/ /\ Admitted(t.blocked, c)
           /\ Throttle([attempts |-> t.attempts, blocked |-> b], guesses)
           /\ Begin(r, [op |-> "login", client |-> c, user |-> u, hash |-> admins[u]])
  BY DEF StartLogin
<1> DEFINE b == [t.blocked EXCEPT ![c] = IF @ = "over" THEN None ELSE @]
<1>2. attempts \in Tries /\ blocked \in Bars /\ LoginsOK /\ guesses \in [Clients -> Nat]
  BY DEF TInv, Fits, Tracked
<1>3. Fits(t) /\ \A d \in Clients : t.blocked[d] = "running" => blocked[d] = "running"
  BY <1>2, PruneFits
<1>4. t.attempts \in Tries /\ t.blocked \in Bars /\ b \in Bars
  BY <1>3 DEF Fits, Bars
<1>5. \A d \in Clients : b[d] = "running" => t.blocked[d] = "running"
  BY <1>4, Distinct DEF Bars
<1>6. r \notin LoggingIn(c)
  BY DEF StartLogin, LoggingIn, Idle
<1>7. CASE Throttle(t, guesses) /\ UNCHANGED request
  <2>1. LoginsOK' /\ \A d \in Clients : LoggingIn(d)' = LoggingIn(d)
    BY <1>2, <1>7 DEF LoginsOK, LoggingIn
  <2> QED BY <1>3, <1>7, <2>1, Quiet
<1>8. ASSUME Admitted(t.blocked, c), NEW f \in Failure(t.attempts, b, c),
             Throttle(f, OneMore(Tally(t, guesses), c)), UNCHANGED request
      PROVE  TInv'
  <2>1. LoginsOK' /\ \A d \in Clients : LoggingIn(d)' = LoggingIn(d)
    BY <1>2, <1>8 DEF LoginsOK, LoggingIn
  <2>2. Tally(t, guesses) \in [Clients -> Nat]
    BY <1>2, <1>4, Constants DEF Tally, Tries
  <2>3. Tally(t, guesses)[c] < Limit
    BY <1>4, <1>8, Constants DEF Tally, Tries, Admitted
  <2>4. \A d \in Clients : b[d] = "running" =>
            blocked[d] = "running" /\ Tally(t, guesses)[d] = guesses[d]
    BY <1>3, <1>5 DEF Tally
  <2> HIDE DEF b
  <2> QED BY <1>4, <1>6, <1>8, <2>1, <2>2, <2>3, <2>4, Fails
<1>9. CASE /\ Admitted(t.blocked, c)
           /\ Throttle([attempts |-> t.attempts, blocked |-> b], guesses)
           /\ Begin(r, [op |-> "login", client |-> c, user |-> u, hash |-> admins[u]])
  <2>1. /\ LoginsOK'
        /\ \A d \in Clients : d # c => LoggingIn(d)' \subseteq LoggingIn(d)
    <3> DEFINE q == [op |-> "login", client |-> c, user |-> u, hash |-> admins[u]]
    <3>1. q.client = c /\ Begin(r, q)
      BY <1>9
    <3> HIDE DEF q
    <3> QED BY <1>2, <3>1, LoginsMove
  <2>2. Held(t.attempts, b) \subseteq Held(t.attempts, t.blocked)
    BY <1>4, Distinct DEF Held, Locked, Bars
  <2>3. Fits([attempts |-> t.attempts, blocked |-> t.blocked])
    BY <1>3 DEF Fits
  <2>4. ~ b[c] = "running"
    BY <1>4, <1>9, Distinct DEF Admitted, Bars
  <2> HIDE DEF b
  <2>5. Fits([attempts |-> t.attempts, blocked |-> b])
    BY <1>4, <2>2, <2>3, ForgottenFits
  <2> QED BY <1>3, <1>5, <1>9, <2>1, <2>4, <2>5, Quiet
<1> QED BY <1>1, <1>7, <1>8, <1>9

LEMMA VerifiedKeepsThrottle ==
    ASSUME TInv, NEW r \in Requests, NEW pw \in Passwords, Verified(r, pw)
    PROVE  TInv'
<1>1. PICK c \in Clients : c = request[r].client /\ r \in LoggingIn(c)
  BY DEF Verified, TInv, LoginsOK, LoggingIn
<1>2. PICK q : /\ q.op # "login" /\ Begin(r, q)
              /\ \/ \E f \in Failure(attempts, blocked, c) : Throttle(f, OneMore(guesses, c))
                 \/ Throttle([attempts |-> [attempts EXCEPT ![c] = None],
                              blocked |-> [blocked EXCEPT ![c] = None]], guesses)
  <2>1. Idle.op # "login" /\ \A u : [op |-> "upgrade", user |-> u, password |-> pw].op # "login"
    BY DEF Idle
  <2> QED BY <1>1, <2>1 DEF Verified, Finish
<1>3. /\ attempts \in Tries /\ blocked \in Bars /\ LoginsOK /\ guesses \in [Clients -> Nat]
      /\ Fits([attempts |-> attempts, blocked |-> blocked])
  BY DEF TInv, Fits, Tracked
<1>4. LoginsOK' /\ r \notin LoggingIn(c)' /\ \A d \in Clients : LoggingIn(d)' \subseteq LoggingIn(d)
  BY <1>2, <1>3, LoginsMove DEF LoggingIn
<1>5. ASSUME NEW f \in Failure(attempts, blocked, c), Throttle(f, OneMore(guesses, c))
      PROVE  TInv'
  <2>1. guesses[c] < Limit \/ blocked[c] = "running"
    BY <1>3, Constants DEF TInv, Tracked, Tries
  <2> QED BY <1>1, <1>3, <1>4, <1>5, <2>1, Fails
<1>6. CASE Throttle([attempts |-> [attempts EXCEPT ![c] = None],
                     blocked |-> [blocked EXCEPT ![c] = None]], guesses)
  <2> DEFINE a == [attempts EXCEPT ![c] = None]
             b == [blocked EXCEPT ![c] = None]
  <2>1. a \in Tries /\ b \in Bars /\ Held(a, b) \subseteq Held(attempts, blocked)
    BY <1>3 DEF Tries, Bars, Held, Counting, Locked
  <2>2. \A d \in Clients : b[d] = "running" => blocked[d] = "running"
    BY <1>3, Distinct DEF Bars
  <2>3. Throttle([attempts |-> a, blocked |-> b], guesses)
    BY <1>6
  <2> HIDE DEF a, b
  <2>4. Fits([attempts |-> a, blocked |-> b])
    BY <1>3, <2>1, ForgottenFits
  <2> QED BY <1>4, <2>2, <2>3, <2>4, Quiet
<1> QED BY <1>2, <1>5, <1>6

LEMMA RestartKeepsThrottle ==
    ASSUME TInv, Restart
    PROVE  TInv'
<1> DEFINE a == Nobody(Clients)
<1>1. a \in Tries /\ a \in Bars /\ Held(a, a) = {} /\ \A d \in Clients : a[d] # "running"
  BY Distinct DEF Nobody, Tries, Bars, Held, Counting, Locked
<1>2. Throttle([attempts |-> a, blocked |-> a], guesses)
  BY DEF Restart
<1>3. LoginsOK'
  BY DEF Restart, LoginsOK, Idle
<1> HIDE DEF a
<1>4. Fits([attempts |-> a, blocked |-> a])
  BY <1>1, FS_EmptySet, Constants DEF Fits
<1> QED BY <1>1, <1>2, <1>3, <1>4, Quiet

LEMMA OthersKeepThrottle ==
    ASSUME TInv,
           \/ UNCHANGED vars
           \/ \E t \in Tokens : EndSession(t)
           \/ \E r \in Requests :
                \/ StartSetup(r) \/ FinishSetup(r) \/ Upgrade(r) \/ GrantSession(r)
                \/ \E t \in Tokens : StartChange(r, t)
                \/ VerifiedForChange(r) \/ FinishChange(r)
    PROVE  TInv'
<1>1. UNCHANGED throttle
  BY DEF vars, EndSession, StartSetup, FinishSetup, Upgrade, GrantSession, StartChange,
         VerifiedForChange, FinishChange
<1>2. CASE UNCHANGED request
  <2>1. LoginsOK' /\ \A d \in Clients : LoggingIn(d)' \subseteq LoggingIn(d)
    BY <1>2 DEF TInv, LoginsOK, LoggingIn
  <2> QED BY <1>1, <2>1, Elsewhere
<1>3. ASSUME NEW r \in Requests, NEW q, Begin(r, q), q.op # "login"
      PROVE  TInv'
  <2>1. LoginsOK' /\ \A d \in Clients : LoggingIn(d)' \subseteq LoggingIn(d)
    BY <1>3, LoginsMove DEF TInv, LoggingIn
  <2> QED BY <1>1, <2>1, Elsewhere
<1>4. UNCHANGED request \/ \E r \in Requests : \E q : Begin(r, q) /\ q.op # "login"
  <2>1. Idle.op # "login"
    BY DEF Idle
  <2>2. CASE UNCHANGED vars \/ \E t \in Tokens : EndSession(t)
    BY <2>2 DEF vars, EndSession
  <2>3. ASSUME NEW r \in Requests, FinishSetup(r) \/ GrantSession(r) \/ FinishChange(r)
        PROVE  Begin(r, Idle)
    BY <2>3 DEF FinishSetup, GrantSession, FinishChange, Finish
  <2>4. ASSUME NEW r \in Requests, StartSetup(r)
        PROVE  \E q : Begin(r, q) /\ q.op # "login"
    <3>1. PICK u \in Users, pw \in Passwords : Begin(r, [op |-> "setup", user |-> u, password |-> pw])
      BY <2>4 DEF StartSetup
    <3> QED BY <3>1
  <2>5. ASSUME NEW r \in Requests, Upgrade(r)
        PROVE  \E q : Begin(r, q) /\ q.op # "login"
    <3>1. PICK u, pw : Begin(r, [op |-> "grant", user |-> u, password |-> pw])
      BY <2>5 DEF Upgrade
    <3> QED BY <3>1
  <2>6. ASSUME NEW r \in Requests, NEW t \in Tokens, StartChange(r, t)
        PROVE  \E q : Begin(r, q) /\ q.op # "login"
    <3>1. PICK u : Begin(r, [op |-> "verify", user |-> u, token |-> t])
      BY <2>6 DEF StartChange
    <3> QED BY <3>1
  <2>7. ASSUME NEW r \in Requests, VerifiedForChange(r)
        PROVE  \E q : Begin(r, q) /\ q.op # "login"
    <3>1. PICK u, t, pw : Finish(r) \/ Begin(r, [op |-> "change", user |-> u, token |-> t, password |-> pw])
      BY <2>7 DEF VerifiedForChange
    <3> QED BY <2>1, <3>1 DEF Finish
  <2> QED BY <2>1, <2>2, <2>3, <2>4, <2>5, <2>6, <2>7
<1> QED BY <1>2, <1>3, <1>4

LEMMA ThrottleStarts == Init => TInv
<1> SUFFICES ASSUME Init PROVE TInv
  OBVIOUS
<1> DEFINE a == Nobody(Clients)
<1>1. /\ a \in Tries /\ a \in Bars /\ Held(a, a) = {}
      /\ \A d \in Clients : a[d] # "running" /\ a[d] = None
  BY Distinct DEF Nobody, Tries, Bars, Held, Counting, Locked
<1>2. attempts = a /\ blocked = a /\ guesses = [c \in Clients |-> 0]
  BY DEF Init
<1> HIDE DEF a
<1>3. Fits([attempts |-> attempts, blocked |-> blocked])
  BY <1>1, <1>2, FS_EmptySet, Constants DEF Fits
<1>4. Tracked
  BY <1>1, <1>2 DEF Tracked
<1>5. LoginsOK
  BY DEF Init, LoginsOK, Idle
<1> QED BY <1>3, <1>4, <1>5 DEF TInv

LEMMA ThrottleSteps == TInv /\ [Next]_vars => TInv'
  BY AgeKeeps, StartKeepsThrottle, VerifiedKeepsThrottle, RestartKeepsThrottle, OthersKeepThrottle
  DEF Next

\* For any number of clients and of logins in flight, a lockout admits no guess
\* but those of the logins already verifying, and the throttle never remembers
\* more clients than configured (security.py:38, 200).
THEOREM ThrottleSafe == Spec => []ThrottleHolds
<1>1. TInv => ThrottleHolds
  <2> SUFFICES ASSUME TInv PROVE ThrottleHolds
    OBVIOUS
  <2>1. ThrottleBounded
    BY DEF TInv, Fits, Held, ThrottleBounded
  <2>2. ASSUME NEW c \in Clients PROVE guesses[c] <= Limit + Cardinality(Requests) - 1
    <3>1. /\ Cardinality(LoggingIn(c)) \in Nat /\ Cardinality(Requests) \in Nat
          /\ guesses[c] \in Nat /\ Limit \in Nat \ {0}
      BY Few, Constants DEF TInv, Tracked
    <3>2. CASE blocked[c] = "running"
      BY <3>1, <3>2 DEF TInv, Tracked
    <3>3. CASE blocked[c] # "running"
      <4>1. guesses[c] <= Limit - 1
        BY <3>1, <3>3 DEF TInv, Tracked, Fits, Tries
      <4> QED BY <3>1, <4>1
    <3> QED BY <3>2, <3>3
  <2> QED BY <2>1, <2>2 DEF ThrottleHolds, GuessesBounded
<1> QED BY <1>1, ThrottleStarts, ThrottleSteps, PTL DEF Spec

-----------------------------------------------------------------------------
(* Providers and their models.                                               *)

(* What the invariant says of one entry of provider_models.                *)
Sound(row) ==
    \/ row = NoRow
    \/ row \in ModelRow /\ (row.marked <=> row.cap = "admin")

SoundRows == {row \in ModelRow \cup {NoRow} : Sound(row)}

ProvidersOK == providers \in [Providers -> ProviderRow \cup {NoRow}]
ModelsOK == models \in [Providers -> [Models -> SoundRows]]
WorkOK == job \in [Jobs -> Work] /\ refreshing \subseteq Providers

StoreInv == ProvidersOK /\ ModelsOK /\ WorkOK /\ NoOrphans

-----------------------------------------------------------------------------
(* Rows.                                                                   *)

\* A row made for a new model is sound.
LEMMA NewModelSound ==
    ASSUME NEW flags \in SUBSET Flags, NEW cap \in {"none", "upstream"}
    PROVE  NewModel(flags, cap) \in SoundRows
  BY DEF NewModel, SoundRows, Sound, ModelRow, Status

\* Storing a model list keeps rows sound.
LEMMA ListedSound ==
    ASSUME NEW rows \in [Models -> SoundRows], NEW S \in SUBSET Models,
           NEW list \in [S -> (SUBSET Flags) \cup {Kept}]
    PROVE  Listed(rows, list) \in [Models -> SoundRows]
<1> SUFFICES ASSUME NEW m \in Models PROVE Listed(rows, list)[m] \in SoundRows
  BY DEF Listed
<1>1. CASE m \notin S
  BY <1>1 DEF Listed
<1>2. CASE m \in S /\ rows[m] = NoRow
  <2> DEFINE flags == IF list[m] = Kept THEN {} ELSE list[m]
  <2>1. flags \in SUBSET Flags
    BY <1>2
  <2>2. Listed(rows, list)[m] = NewModel(flags, "none")
    BY <1>2 DEF Listed
  <2> QED BY <2>1, <2>2, NewModelSound
<1>3. CASE m \in S /\ rows[m] # NoRow /\ list[m] = Kept
  BY <1>3 DEF Listed
<1>4. CASE m \in S /\ rows[m] # NoRow /\ list[m] # Kept
  <2>1. list[m] \in SUBSET Flags
    BY <1>4
  <2>2. Listed(rows, list)[m] = [rows[m] EXCEPT !.flags = list[m]]
    BY <1>4 DEF Listed
  <2> QED BY <1>4, <2>1, <2>2 DEF SoundRows, Sound, ModelRow
<1> QED BY <1>1, <1>2, <1>3, <1>4

\* Forgetting the evidence keeps rows sound.
LEMMA UnlearntSound ==
    ASSUME NEW rows \in [Models -> SoundRows]
    PROVE  Unlearnt(rows) \in [Models -> SoundRows]
  BY DEF Unlearnt, SoundRows, Sound, ModelRow, Status

\* A refresh leaves each row sound.
LEMMA DiscoveredSound ==
    ASSUME NEW row \in SoundRows, NEW m, NEW found, NEW described
    PROVE  Discovered(row, m, found, described) \in SoundRows
<1>1. row # NoRow => Merged(row, m \in described) \in SoundRows
  BY DEF Merged, SoundRows, Sound, ModelRow
<1>2. row = NoRow => NewModel({}, IF m \in described THEN "upstream" ELSE "none") \in SoundRows
  BY NewModelSound
<1> QED BY <1>1, <1>2 DEF Discovered, SoundRows, Sound

\* The empty table of a provider.
LEMMA NoRowsSound == [m \in Models |-> NoRow] \in [Models -> SoundRows]
  BY DEF SoundRows, Sound

\* What a request in flight is about is a provider.
LEMMA RequestProvider ==
    ASSUME WorkOK, NEW r \in Jobs, job[r].op \in {"create", "update"}
    PROVE  job[r].provider \in Providers
  BY DEF WorkOK, Work, NoWork

\* The end of a request keeps the type of the activities.
LEMMA FinishType ==
    ASSUME WorkOK, NEW r \in Jobs, PutDown(r), UNCHANGED refreshing
    PROVE  WorkOK'
  BY DEF WorkOK, Work, PutDown

\* A provider row, and the models that belong to it, written together.
LEMMA RowsWritten ==
    ASSUME StoreInv, NEW p \in Providers, NEW row \in ProviderRow,
           NEW rows \in [Models -> SoundRows],
           providers' = [providers EXCEPT ![p] = row],
           models' = [models EXCEPT ![p] = rows]
    PROVE  ProvidersOK' /\ ModelsOK' /\ NoOrphans'
<1>1. ProvidersOK'
  BY DEF StoreInv, ProvidersOK
<1>2. ModelsOK'
  BY DEF StoreInv, ModelsOK
<1>3. NoOrphans'
  <2> SUFFICES ASSUME NEW q \in Providers, NEW m \in Models, ~Exists(q)'
               PROVE  models'[q][m] = NoRow
    BY DEF NoOrphans
  <2>1. q # p
    BY StoreAssumption DEF StoreInv, ProvidersOK, Exists
  <2> QED BY <2>1 DEF StoreInv, ProvidersOK, ModelsOK, NoOrphans, Exists
<1> QED BY <1>1, <1>2, <1>3

\* A model list without switches, or with them left out, is a listing.
LEMMA PlainList ==
    ASSUME NEW S \in SUBSET Models
    PROVE  /\ [m \in S |-> {}] \in [S -> (SUBSET Flags) \cup {Kept}]
           /\ [m \in S |-> Kept] \in [S -> (SUBSET Flags) \cup {Kept}]
  OBVIOUS

\* A change of single rows that keeps them sound keeps the tables.
LEMMA RowsChanged ==
    ASSUME StoreInv, UNCHANGED providers,
           models' \in [Providers -> [Models -> SoundRows]],
           \A p \in Providers, m \in Models :
                models[p][m] = NoRow => models'[p][m] = NoRow
    PROVE  ProvidersOK' /\ ModelsOK' /\ NoOrphans'
  BY DEF StoreInv, ProvidersOK, ModelsOK, NoOrphans, Exists

-----------------------------------------------------------------------------
(* Steps.                                                                  *)

\* update_provider keeps the invariant of the tables.
LEMMA SaveUpdateKeeps ==
    ASSUME StoreInv, NEW p \in Providers, Exists(p), NEW hadKey \in BOOLEAN,
           NEW S \in SUBSET Models, NEW changed \in BOOLEAN,
           SaveUpdate(p, hadKey, S, changed)
    PROVE  ProvidersOK' /\ ModelsOK' /\ NoOrphans'
<1>1. PICK enabled \in BOOLEAN, sent \in Keys \cup {NoKey, Kept} :
        Updated(p, enabled, KeyAfter(p, sent, hadKey), [m \in S |-> Kept], changed)
  BY DEF SaveUpdate
<1> DEFINE row == [enabled |-> enabled, key |-> KeyAfter(p, sent, hadKey)]
           list == [m \in S |-> Kept]
           rows == IF changed THEN Unlearnt(Listed(models[p], list)) ELSE models[p]
<1>2. providers[p] \in ProviderRow
  BY DEF StoreInv, ProvidersOK, Exists
<1>3. row \in ProviderRow
  <2>1. providers[p].key \in Keys \cup {NoKey}
    BY <1>2 DEF ProviderRow
  <2>2. KeyAfter(p, sent, hadKey) \in Keys \cup {NoKey}
    BY <2>1 DEF KeyAfter
  <2> QED BY <2>2 DEF ProviderRow
<1>4. rows \in [Models -> SoundRows]
  <2>1. models[p] \in [Models -> SoundRows]
    BY DEF StoreInv, ModelsOK
  <2>2. Listed(models[p], list) \in [Models -> SoundRows]
    BY <2>1, PlainList, ListedSound
  <2> QED BY <2>1, <2>2, UnlearntSound
<1>5. models' = [models EXCEPT ![p] = rows] /\ providers' = [providers EXCEPT ![p] = row]
  BY <1>1 DEF Updated, StoreInv, ModelsOK
<1> HIDE DEF row, rows
<1> QED BY <1>3, <1>4, <1>5, RowsWritten

LEMMA CreateKeeps ==
    ASSUME StoreInv, NEW r \in Jobs, FinishCreate(r)
    PROVE  StoreInv'
<1> DEFINE p == job[r].provider
<1>1. p \in Providers
  BY RequestProvider DEF FinishCreate, StoreInv
<1>2. WorkOK'
  BY FinishType DEF FinishCreate, StoreInv
<1>3. CASE UNCHANGED <<providers, models>>
  BY <1>2, <1>3 DEF StoreInv, ProvidersOK, ModelsOK, NoOrphans, Exists
<1>4. CASE \E enabled \in BOOLEAN, key \in Keys \cup {NoKey}, S \in SUBSET Models :
             Added(p, enabled, key, [m \in S |-> {}])
  <2>1. PICK enabled \in BOOLEAN, key \in Keys \cup {NoKey}, S \in SUBSET Models :
             Added(p, enabled, key, [m \in S |-> {}])
    BY <1>4
  <2> DEFINE row == [enabled |-> enabled, key |-> key]
             rows == Listed([m \in Models |-> NoRow], [m \in S |-> {}])
  <2>2. row \in ProviderRow
    BY DEF ProviderRow
  <2>3. rows \in [Models -> SoundRows]
    BY NoRowsSound, PlainList, ListedSound
  <2>4. /\ providers' = [providers EXCEPT ![p] = row]
        /\ models' = [models EXCEPT ![p] = rows]
    BY <2>1 DEF Added
  <2> HIDE DEF row, rows
  <2> QED BY <1>1, <1>2, <2>2, <2>3, <2>4, RowsWritten DEF StoreInv
<1> QED BY <1>3, <1>4 DEF FinishCreate

LEMMA UpdateKeeps ==
    ASSUME StoreInv, NEW r \in Jobs, FinishUpdate(r)
    PROVE  StoreInv'
<1> DEFINE p == job[r].provider
<1>1. p \in Providers
  BY RequestProvider DEF FinishUpdate, StoreInv
<1>2. job[r].hadKey \in BOOLEAN
  BY DEF FinishUpdate, StoreInv, WorkOK, Work, NoWork
<1>3. WorkOK'
  BY FinishType DEF FinishUpdate, StoreInv
<1>4. CASE UNCHANGED <<providers, models>>
  BY <1>3, <1>4 DEF StoreInv, ProvidersOK, ModelsOK, NoOrphans, Exists
<1>5. CASE Exists(p) /\ \E S \in SUBSET Models : SaveUpdate(p, job[r].hadKey, S, TRUE)
  <2>1. PICK S \in SUBSET Models : SaveUpdate(p, job[r].hadKey, S, TRUE)
    BY <1>5
  <2> QED BY <1>1, <1>2, <1>3, <1>5, <2>1, SaveUpdateKeeps DEF StoreInv
<1> QED BY <1>4, <1>5 DEF FinishUpdate

LEMMA UpdateAtOnceKeeps ==
    ASSUME StoreInv, NEW p \in Providers, UpdateAtOnce(p)
    PROVE  StoreInv'
<1>1. PICK S \in SUBSET Models, changed \in BOOLEAN :
        SaveUpdate(p, providers[p].key # NoKey, S, changed)
  BY DEF UpdateAtOnce
<1>2. WorkOK'
  BY DEF UpdateAtOnce, StoreInv, WorkOK
<1>3. (providers[p].key # NoKey) \in BOOLEAN
  OBVIOUS
<1> QED BY <1>1, <1>2, <1>3, SaveUpdateKeeps DEF UpdateAtOnce, StoreInv

LEMMA DeleteKeeps ==
    ASSUME StoreInv, NEW p \in Providers, DeleteProvider(p)
    PROVE  StoreInv'
<1>1. WorkOK'
  BY DEF DeleteProvider, StoreInv, WorkOK
<1>2. ProvidersOK'
  BY DEF DeleteProvider, StoreInv, ProvidersOK
<1>3. ModelsOK'
  <2>1. models' = [models EXCEPT ![p] = [m \in Models |-> NoRow]]
    BY DEF DeleteProvider
  <2> QED BY <2>1, NoRowsSound DEF StoreInv, ModelsOK
<1>4. NoOrphans'
  BY DEF DeleteProvider, StoreInv, ProvidersOK, ModelsOK, NoOrphans, Exists
<1> QED BY <1>1, <1>2, <1>3, <1>4 DEF StoreInv

LEMMA RefreshKeeps ==
    ASSUME StoreInv, NEW p \in Providers, FinishRefresh(p)
    PROVE  StoreInv'
<1>1. WorkOK'
  BY DEF FinishRefresh, StoreInv, WorkOK
<1>2. CASE models' = models
  BY <1>1, <1>2 DEF FinishRefresh, StoreInv, ProvidersOK, ModelsOK, NoOrphans, Exists
<1>3. CASE Exists(p) /\ models' # models
  <2>0. PICK found \in (SUBSET Models) \ {{}} : \E described \in SUBSET found :
          models' = [models EXCEPT ![p] =
                        [m \in Models |-> Discovered(@[m], m, found, described)]]
    BY <1>3 DEF FinishRefresh
  <2>1. PICK described \in SUBSET found :
          models' = [models EXCEPT ![p] =
                        [m \in Models |-> Discovered(@[m], m, found, described)]]
    BY <2>0
  <2> DEFINE rows == [m \in Models |-> Discovered(models[p][m], m, found, described)]
  <2>2. rows \in [Models -> SoundRows]
    BY DiscoveredSound DEF StoreInv, ModelsOK
  <2>3. models' = [models EXCEPT ![p] = rows]
    BY <2>1 DEF StoreInv, ModelsOK
  <2>4. providers[p] \in ProviderRow /\ providers' = [providers EXCEPT ![p] = providers[p]]
    BY <1>3 DEF FinishRefresh, StoreInv, ProvidersOK, Exists
  <2> HIDE DEF rows
  <2> QED BY <1>1, <2>2, <2>3, <2>4, RowsWritten DEF StoreInv
<1> QED BY <1>2, <1>3 DEF FinishRefresh

LEMMA ImportKeeps ==
    ASSUME StoreInv, NEW r \in Jobs, FinishImport(r)
    PROVE  StoreInv'
<1>1. WorkOK'
  BY FinishType DEF FinishImport, StoreInv
<1>2. PICK p \in Providers, entry \in Entries, mode \in Modes :
        LET after == Imported(providers[p], models[p], entry, mode) IN
        /\ providers' = [providers EXCEPT ![p] = after.row]
        /\ models' = [models EXCEPT ![p] = after.models]
  BY DEF FinishImport
<1> DEFINE after == Imported(providers[p], models[p], entry, mode)
<1>3. PICK S \in SUBSET Models : entry.list \in [S -> (SUBSET Flags) \cup {Kept}]
  BY DEF Entries, Listing
<1>4. entry.enabled \in BOOLEAN /\ entry.key \in Keys \cup {NoKey}
  BY DEF Entries
<1>5. models[p] \in [Models -> SoundRows]
  BY DEF StoreInv, ModelsOK
<1>6. CASE providers[p] # NoRow /\ mode = "skip"
  <2>1. after.row = providers[p] /\ after.models = models[p]
    BY <1>6 DEF Imported
  <2>2. after.row \in ProviderRow
    BY <1>6, <2>1 DEF StoreInv, ProvidersOK
  <2> HIDE DEF after
  <2> QED BY <1>1, <1>2, <1>5, <2>1, <2>2, RowsWritten DEF StoreInv, after
<1>7. CASE providers[p] = NoRow
  <2>1. /\ after.row = [enabled |-> entry.enabled, key |-> entry.key]
        /\ after.models = Listed([m \in Models |-> NoRow], entry.list)
    BY <1>7 DEF Imported
  <2>2. after.row \in ProviderRow
    BY <1>4, <2>1 DEF ProviderRow
  <2>3. after.models \in [Models -> SoundRows]
    BY <1>3, <2>1, NoRowsSound, ListedSound
  <2> HIDE DEF after
  <2> QED BY <1>1, <1>2, <2>2, <2>3, RowsWritten DEF StoreInv, after
<1>8. CASE providers[p] # NoRow /\ mode # "skip"
  <2> DEFINE key == IF entry.key = NoKey THEN providers[p].key ELSE entry.key
  <2>1. /\ after.row = [enabled |-> entry.enabled, key |-> key]
        /\ after.models = Unlearnt(Listed(models[p], entry.list))
    BY <1>8 DEF Imported
  <2>2. providers[p] \in ProviderRow
    BY <1>8 DEF StoreInv, ProvidersOK
  <2>3. after.row \in ProviderRow
    BY <1>4, <2>1, <2>2 DEF ProviderRow
  <2>4. Listed(models[p], entry.list) \in [Models -> SoundRows]
    BY <1>3, <1>5, ListedSound
  <2>5. after.models \in [Models -> SoundRows]
    BY <2>1, <2>4, UnlearntSound
  <2> HIDE DEF after
  <2> QED BY <1>1, <1>2, <2>3, <2>5, RowsWritten DEF StoreInv, after
<1> QED BY <1>6, <1>7, <1>8

\* The endpoints that change single rows.
LEMMA SettingsKeep ==
    ASSUME StoreInv,
           (\E f \in Flags : ToggleFlag(f)) \/ SetCapabilities
              \/ ResetResponses \/ LearnResponses
    PROVE  StoreInv'
<1>1. WorkOK' /\ UNCHANGED providers
  BY DEF StoreInv, WorkOK, ToggleFlag, SetCapabilities, ResetResponses, LearnResponses
<1>2. \A p \in Providers, m \in Models : models[p][m] = NoRow \/
        (models[p][m] \in ModelRow /\ (models[p][m].marked <=> models[p][m].cap = "admin"))
  BY DEF StoreInv, ModelsOK, SoundRows, Sound
<1>3. /\ models' \in [Providers -> [Models -> SoundRows]]
      /\ \A p \in Providers, m \in Models :
            models[p][m] = NoRow => models'[p][m] = NoRow
  <2>1. CASE \E f \in Flags : ToggleFlag(f)
    <3>1. PICK f \in Flags, P \in OneOrAll(Providers), n \in Models, on \in BOOLEAN :
            models' = [p \in Providers |-> [m \in Models |->
                IF models[p][m] # NoRow /\ p \in P /\ m \in {n}
                THEN Toggled(models[p][m], f, on)
                ELSE models[p][m]]]
      BY <2>1 DEF ToggleFlag, ChangeRows
    <3>2. \A row \in ModelRow : (row.marked <=> row.cap = "admin") =>
            Toggled(row, f, on) \in SoundRows
      BY DEF SoundRows, Sound, ModelRow, Toggled
    <3> QED BY <1>2, <3>1, <3>2 DEF StoreInv, ModelsOK
  <2>2. CASE SetCapabilities
    <3>1. PICK P \in OneOrAll(Providers), n \in Models, set \in BOOLEAN :
            models' = [p \in Providers |-> [m \in Models |->
                IF models[p][m] # NoRow /\ p \in P /\ m \in {n}
                THEN WithCapability(models[p][m], set)
                ELSE models[p][m]]]
      BY <2>2 DEF SetCapabilities, ChangeRows
    <3>2. \A row \in ModelRow :
            WithCapability(row, set) \in SoundRows
      BY DEF SoundRows, Sound, ModelRow, WithCapability
    <3> QED BY <1>2, <3>1, <3>2 DEF StoreInv, ModelsOK
  <2>3. CASE ResetResponses
    <3>1. PICK P \in OneOrAll(Providers), M \in OneOrAll(Models) :
            models' = [p \in Providers |-> [m \in Models |->
                IF models[p][m] # NoRow /\ p \in P /\ m \in M
                THEN WithResponses(models[p][m], "unknown")
                ELSE models[p][m]]]
      BY <2>3 DEF ResetResponses, ChangeRows
    <3>2. \A row \in ModelRow : (row.marked <=> row.cap = "admin") =>
            WithResponses(row, "unknown") \in SoundRows
      BY DEF SoundRows, Sound, ModelRow, WithResponses, Status
    <3> QED BY <1>2, <3>1, <3>2 DEF StoreInv, ModelsOK
  <2>4. CASE LearnResponses
    <3>1. PICK q \in Providers, k \in Models, s \in Status :
            models' = [p \in Providers |-> [m \in Models |->
                IF models[p][m] # NoRow /\ p \in {q} /\ m \in {k}
                THEN WithResponses(models[p][m], s)
                ELSE models[p][m]]]
      BY <2>4 DEF LearnResponses, ChangeRows
    <3>2. \A row \in ModelRow : (row.marked <=> row.cap = "admin") =>
            WithResponses(row, s) \in SoundRows
      BY DEF SoundRows, Sound, ModelRow, WithResponses, Status
    <3> QED BY <1>2, <3>1, <3>2 DEF StoreInv, ModelsOK
  <2> QED BY <2>1, <2>2, <2>3, <2>4
<1> QED BY <1>1, <1>3, RowsChanged DEF StoreInv

\* Requests that begin, end without a write, or ask for a model list.
LEMMA BookkeepingKeeps ==
    ASSUME StoreInv, UNCHANGED <<providers, models>>, WorkOK'
    PROVE  StoreInv'
  BY DEF StoreInv, ProvidersOK, ModelsOK, NoOrphans, Exists

LEMMA StoreStarts == StoreInit => StoreInv
<1> SUFFICES ASSUME StoreInit PROVE StoreInv
  OBVIOUS
<1>1. ProvidersOK /\ WorkOK /\ NoOrphans
  BY DEF StoreInit, ProvidersOK, WorkOK, Work, NoOrphans, Exists
<1>2. ModelsOK
  BY NoRowsSound DEF StoreInit, ModelsOK
<1> QED BY <1>1, <1>2 DEF StoreInv

LEMMA StoreKeeps == StoreInv /\ [StoreNext]_storeVars => StoreInv'
<1> SUFFICES ASSUME StoreInv, [StoreNext]_storeVars PROVE StoreInv'
  OBVIOUS
<1>1. ASSUME NEW r \in Jobs, NEW p \in Providers, StartCreate(r, p) PROVE StoreInv'
  <2>1. WorkOK'
    BY <1>1 DEF StartCreate, TakeUp, StoreInv, WorkOK, Work
  <2> QED BY <1>1, <2>1, BookkeepingKeeps DEF StartCreate
<1>2. ASSUME NEW r \in Jobs, NEW p \in Providers, StartUpdate(r, p) PROVE StoreInv'
  <2> DEFINE hadKey == providers[p].key # NoKey
  <2>1. hadKey \in BOOLEAN
    OBVIOUS
  <2>2. job' = [job EXCEPT ![r] = [op |-> "update", provider |-> p, hadKey |-> hadKey]]
    BY <1>2 DEF StartUpdate, TakeUp
  <2> HIDE DEF hadKey
  <2>3. [op |-> "update", provider |-> p, hadKey |-> hadKey] \in Work
    BY <2>1 DEF Work
  <2>4. WorkOK'
    BY <1>2, <2>2, <2>3 DEF StartUpdate, StoreInv, WorkOK
  <2> QED BY <1>2, <2>4, BookkeepingKeeps DEF StartUpdate
<1>3. ASSUME NEW r \in Jobs, StartImport(r) PROVE StoreInv'
  <2>1. WorkOK'
    BY <1>3 DEF StartImport, TakeUp, StoreInv, WorkOK, Work
  <2> QED BY <1>3, <2>1, BookkeepingKeeps DEF StartImport
<1>4. ASSUME NEW r \in Jobs, Reject(r) PROVE StoreInv'
  <2>1. WorkOK'
    BY <1>4, FinishType DEF Reject, StoreInv
  <2> QED BY <1>4, <2>1, BookkeepingKeeps DEF Reject
<1>5. ASSUME NEW p \in Providers, RefreshFails(p) PROVE StoreInv'
  <2>1. WorkOK'
    BY <1>5 DEF RefreshFails, StoreInv, WorkOK
  <2> QED BY <1>5, <2>1, BookkeepingKeeps DEF RefreshFails
<1>6. ASSUME StartRefresh \/ StartRefreshAll PROVE StoreInv'
  <2>1. WorkOK'
    BY <1>6 DEF StartRefresh, StartRefreshAll, StoreInv, WorkOK
  <2> QED BY <1>6, <2>1, BookkeepingKeeps DEF StartRefresh, StartRefreshAll
<1>7. CASE UNCHANGED storeVars
  <2>1. WorkOK'
    BY <1>7 DEF storeVars, StoreInv, WorkOK
  <2> QED BY <1>7, <2>1, BookkeepingKeeps DEF storeVars
<1> QED
  BY <1>1, <1>2, <1>3, <1>4, <1>5, <1>6, <1>7, CreateKeeps, UpdateKeeps,
     ImportKeeps, UpdateAtOnceKeeps, DeleteKeeps, RefreshKeeps, SettingsKeep
  DEF StoreNext

\* The invariant holds in every reachable state.
THEOREM StoreInductive == StoreSpec => []StoreInv
  BY StoreStarts, StoreKeeps, PTL DEF StoreSpec

\* Every variable keeps its type (database.py, the two tables).
THEOREM TypeCorrect == StoreSpec => []StoreTypeOK
<1>1. StoreInv => StoreTypeOK
  BY DEF StoreInv, ProvidersOK, ModelsOK, WorkOK, StoreTypeOK, SoundRows
<1> QED BY <1>1, StoreInductive, PTL

\* No model outlives its provider, for any number of requests in flight.
THEOREM OwnedModels == StoreSpec => []NoOrphans
<1>1. StoreInv => NoOrphans
  BY DEF StoreInv
<1> QED BY <1>1, StoreInductive, PTL

\* What admin_keys marks is what the administrator wrote.
THEOREM MarksAgree == StoreSpec => []MarkedIsAdmins
<1>1. StoreInv => MarkedIsAdmins
  BY DEF StoreInv, ModelsOK, SoundRows, Sound, MarkedIsAdmins
<1> QED BY <1>1, StoreInductive, PTL

-----------------------------------------------------------------------------
(* Steps that may not do something: first, erase a key.                    *)

Erased(p) == /\ Exists(p) /\ providers[p].key # NoKey
             /\ Exists(p)' /\ providers'[p].key = NoKey
Stale(p) == \E r \in Jobs :
    /\ job[r] = [op |-> "update", provider |-> p, hadKey |-> FALSE]
    /\ job'[r] = NoWork

\* Writing the row of one provider erases that provider's key or none.
LEMMA OtherKeysStay ==
    ASSUME StoreInv, NEW p \in Providers, NEW row, providers' = [providers EXCEPT ![p] = row],
           NEW q \in Providers, Erased(q)
    PROVE  /\ q = p /\ row.key = NoKey
           /\ providers[p] \in ProviderRow /\ providers[p].key # NoKey
<1>1. DOMAIN providers = Providers
  BY DEF StoreInv, ProvidersOK
<1>2. q = p
  <2>1. q # p => providers'[q] = providers[q]
    BY <1>1
  <2> QED BY <2>1 DEF Erased
<1>3. providers'[p] = row
  BY <1>1
<1> QED BY <1>2, <1>3 DEF Erased, Exists, StoreInv, ProvidersOK

\* A saved form erases a key only on the word of a request that read none.
LEMMA SavedKey ==
    ASSUME StoreInv, NEW p \in Providers, NEW hadKey \in BOOLEAN, NEW S, NEW changed,
           SaveUpdate(p, hadKey, S, changed), NEW q \in Providers, Erased(q)
    PROVE  q = p /\ providers[p].key # NoKey /\ ~hadKey
<1>1. PICK enabled \in BOOLEAN, sent \in Keys \cup {NoKey, Kept} :
        Updated(p, enabled, KeyAfter(p, sent, hadKey), [m \in S |-> Kept], changed)
  BY DEF SaveUpdate
<1> DEFINE key == KeyAfter(p, sent, hadKey)
<1>2. q = p /\ key = NoKey /\ providers[p].key # NoKey
  <2>1. providers' = [providers EXCEPT ![p] = [enabled |-> enabled, key |-> key]]
    BY <1>1 DEF Updated
  <2> DEFINE row == [enabled |-> enabled, key |-> key]
  <2>2. row.key = key
    OBVIOUS
  <2> HIDE DEF key, row
  <2>3. providers' = [providers EXCEPT ![p] = row]
    BY <2>1 DEF row
  <2> QED BY <2>2, <2>3, OtherKeysStay
<1>3. key \in Keys \/ ~hadKey \/ key = providers[p].key
  BY DEF KeyAfter
<1> QED BY <1>2, <1>3, StoreAssumption

LEMMA KeysKeep ==
    ASSUME StoreInv, [StoreNext]_storeVars, NEW p \in Providers, Erased(p)
    PROVE  Stale(p)
<1>1. ASSUME UNCHANGED providers PROVE FALSE
  BY <1>1 DEF Erased
<1>2. ASSUME NEW r \in Jobs, FinishCreate(r) PROVE FALSE
  <2> DEFINE q == job[r].provider
  <2>1. q \in Providers
    BY <1>2, RequestProvider DEF FinishCreate, StoreInv
  <2>2. PICK enabled \in BOOLEAN, key \in Keys \cup {NoKey}, S \in SUBSET Models :
          ~Exists(q) /\ Added(q, enabled, key, [m \in S |-> {}])
    BY <1>1, <1>2 DEF FinishCreate
  <2>3. providers' = [providers EXCEPT ![q] = [enabled |-> enabled, key |-> key]]
    BY <2>2 DEF Added
  <2>4. p = q
    BY <2>1, <2>3, OtherKeysStay
  <2> QED BY <2>2, <2>4 DEF Erased
<1>3. ASSUME NEW r \in Jobs, FinishUpdate(r) PROVE Stale(p)
  <2> DEFINE q == job[r].provider
  <2>1. job[r] \in [op : {"update"}, provider : Providers, hadKey : BOOLEAN]
    BY <1>3 DEF FinishUpdate, StoreInv, WorkOK, Work, NoWork
  <2>2. PICK v \in Providers, b \in BOOLEAN :
          job[r] = [op |-> "update", provider |-> v, hadKey |-> b]
    <3>1. job[r] = [op |-> "update", provider |-> job[r].provider, hadKey |-> job[r].hadKey]
          /\ job[r].provider \in Providers /\ job[r].hadKey \in BOOLEAN
      BY <2>1
    <3> QED BY Zenon, <3>1
  <2>3. q = v /\ (job[r].hadKey <=> b)
    BY <2>2
  <2>4. PICK S \in SUBSET Models : SaveUpdate(q, job[r].hadKey, S, TRUE)
    BY <1>1, <1>3 DEF FinishUpdate
  <2>5. job[r].hadKey \in BOOLEAN
    BY <2>1
  <2>6. p = v /\ ~job[r].hadKey
    BY <2>2, <2>3, <2>4, <2>5, SavedKey
  <2>7. b = FALSE
    BY Zenon, <2>3, <2>6, b \in BOOLEAN
  <2>8. job'[r] = NoWork
    BY <1>3 DEF FinishUpdate, PutDown, StoreInv, WorkOK
  <2> QED BY Zenon, <2>2, <2>6, <2>7, <2>8 DEF Stale
<1>4. ASSUME NEW q \in Providers, UpdateAtOnce(q) PROVE FALSE
  <2>1. PICK S \in SUBSET Models, changed \in BOOLEAN :
          SaveUpdate(q, providers[q].key # NoKey, S, changed)
    BY <1>4 DEF UpdateAtOnce
  <2>2. (providers[q].key # NoKey) \in BOOLEAN
    OBVIOUS
  <2> QED BY <2>1, <2>2, SavedKey
<1>5. ASSUME NEW q \in Providers, DeleteProvider(q) PROVE FALSE
  <2>1. p # q => providers'[p] = providers[p]
    BY <1>5 DEF DeleteProvider, StoreInv, ProvidersOK
  <2>2. p = q => ~Exists(p)'
    BY <1>5 DEF DeleteProvider, Exists, StoreInv, ProvidersOK
  <2> QED BY <2>1, <2>2 DEF Erased
<1>6. ASSUME NEW r \in Jobs, FinishImport(r) PROVE FALSE
  <2>1. PICK q \in Providers, entry \in Entries, mode \in Modes :
          providers' = [providers EXCEPT ![q] = Imported(providers[q], models[q], entry, mode).row]
    BY <1>6 DEF FinishImport
  <2> DEFINE row == Imported(providers[q], models[q], entry, mode).row
  <2>2. providers[q] # NoRow => \/ row = providers[q]
                                \/ row.key = IF entry.key = NoKey THEN providers[q].key ELSE entry.key
    BY DEF Imported
  <2> HIDE DEF row
  <2>3. p = q /\ row.key = NoKey /\ providers[q].key # NoKey
    BY <2>1, OtherKeysStay DEF row
  <2> QED BY <2>2, <2>3 DEF Erased, Exists
<1> QED
  BY <1>1, <1>2, <1>3, <1>4, <1>5, <1>6
  DEF StoreNext, storeVars, StartCreate, StartUpdate, Reject, StartImport, FinishRefresh, RefreshFails,
      StartRefresh, StartRefreshAll, ToggleFlag, SetCapabilities, ResetResponses, LearnResponses

\* However many forms, imports and refreshes are in flight, a stored key is
\* erased only by an update that began while there was none (admin.py:60).
THEOREM KeysSurvive == StoreSpec => KeyLostOnlyToStaleUpdate
<1>1. StoreInv /\ [StoreNext]_storeVars =>
        [\A p \in Providers :
            /\ Exists(p) /\ providers[p].key # NoKey
            /\ Exists(p)' /\ providers'[p].key = NoKey
            => \E r \in Jobs :
                /\ job[r] = [op |-> "update", provider |-> p, hadKey |-> FALSE]
                /\ job'[r] = NoWork]_storeVars
  BY KeysKeep DEF Erased, Stale
<1> QED BY <1>1, StoreInductive, PTL DEF StoreSpec, KeyLostOnlyToStaleUpdate

-----------------------------------------------------------------------------
(* Then, touch the switches of a model.                                    *)

\* A row with a switch set that a step keeps with its switches.
Safe(row, new) == row # NoRow /\ row.flags # {} => new # NoRow /\ new.flags = row.flags

\* Storing a model list without switches keeps them.
LEMMA ListedKeeps ==
    ASSUME NEW rows \in [Models -> SoundRows], NEW S \in SUBSET Models, NEW m \in Models
    PROVE  /\ Safe(rows[m], Listed(rows, [n \in S |-> Kept])[m])
           /\ Safe(rows[m], Unlearnt(Listed(rows, [n \in S |-> Kept]))[m])
<1> DEFINE list == [n \in S |-> Kept]
           new == Listed(rows, list)
<1>1. new \in [Models -> SoundRows]
  BY PlainList, ListedSound
<1>2. rows[m] # NoRow => new[m] = rows[m]
  BY DEF Listed
<1> HIDE DEF new
<1>3. rows[m] # NoRow => Unlearnt(new)[m] = [new[m] EXCEPT !.responses = "unknown"]
  BY <1>2 DEF Unlearnt
<1>4. ASSUME NEW row \in SoundRows, row # NoRow
      PROVE  LET after == [row EXCEPT !.responses = "unknown"]
             IN  after # NoRow /\ after.flags = row.flags
  <2>1. row \in ModelRow
    BY <1>4 DEF SoundRows, Sound
  <2> QED BY <2>1, StoreAssumption DEF ModelRow, Status
<1> QED BY <1>1, <1>2, <1>3, <1>4 DEF Safe, new

\* A refresh keeps a row with a switch set, described or not, listed or not.
LEMMA DiscoveredKeeps ==
    ASSUME NEW row \in SoundRows, NEW m, NEW found, NEW described
    PROVE  Safe(row, Discovered(row, m, found, described))
<1> SUFFICES ASSUME row # NoRow, row.flags # {}
             PROVE  LET new == Discovered(row, m, found, described)
                    IN  new # NoRow /\ new.flags = row.flags
  BY DEF Safe
<1>1. row \in ModelRow
  BY DEF SoundRows, Sound
<1>2. LET new == [row EXCEPT !.cap = "upstream"] IN new # NoRow /\ new.flags = row.flags
  BY <1>1, StoreAssumption DEF ModelRow
<1>3. Discovered(row, m, found, described) \in {row, [row EXCEPT !.cap = "upstream"]}
  BY DEF Discovered, Merged, Configured
<1> QED BY <1>2, <1>3

\* A setting of single rows that is no switch keeps the switches of all.
LEMMA SettingKeeps ==
    ASSUME StoreInv, SetCapabilities \/ ResetResponses \/ LearnResponses,
           NEW p \in Providers, NEW m \in Models
    PROVE  Safe(models[p][m], models'[p][m])
<1>1. ASSUME NEW row \in SoundRows, row # NoRow
      PROVE  /\ \A set \in BOOLEAN : Safe(row, WithCapability(row, set))
             /\ \A s \in Status : Safe(row, WithResponses(row, s))
  <2>1. row \in ModelRow
    BY <1>1 DEF SoundRows, Sound
  <2>2. ASSUME NEW set \in BOOLEAN PROVE Safe(row, WithCapability(row, set))
    <3>1. WithCapability(row, set) \in ModelRow /\ WithCapability(row, set).flags = row.flags
      BY <2>1 DEF WithCapability, ModelRow
    <3> QED BY <3>1, StoreAssumption DEF Safe
  <2>3. ASSUME NEW s \in Status PROVE Safe(row, WithResponses(row, s))
    <3>1. WithResponses(row, s) \in ModelRow /\ WithResponses(row, s).flags = row.flags
      BY <2>1 DEF WithResponses, ModelRow
    <3> QED BY <3>1, StoreAssumption DEF Safe
  <2> QED BY <2>2, <2>3
<1>2. models[p][m] \in SoundRows
  BY DEF StoreInv, ModelsOK
<1>3. \/ models'[p][m] = models[p][m]
      \/ /\ models[p][m] # NoRow
         /\ \/ \E set \in BOOLEAN : models'[p][m] = WithCapability(models[p][m], set)
            \/ \E s \in Status : models'[p][m] = WithResponses(models[p][m], s)
  <2>1. "unknown" \in Status
    BY DEF Status
  <2>2. CASE SetCapabilities
    BY <2>2 DEF SetCapabilities, ChangeRows
  <2>3. CASE ResetResponses
    BY <2>1, <2>3 DEF ResetResponses, ChangeRows
  <2>4. CASE LearnResponses
    BY <2>4 DEF LearnResponses, ChangeRows
  <2> QED BY <2>2, <2>3, <2>4
<1> QED BY <1>1, <1>2, <1>3 DEF Safe

\* A saved form keeps the switches of every model.
LEMMA SavedKeeps ==
    ASSUME StoreInv, NEW q \in Providers, NEW hadKey, NEW S \in SUBSET Models, NEW changed,
           SaveUpdate(q, hadKey, S, changed), NEW p \in Providers, NEW m \in Models
    PROVE  Safe(models[p][m], models'[p][m])
<1> DEFINE rows == IF changed THEN Unlearnt(Listed(models[q], [n \in S |-> Kept])) ELSE models[q]
<1>1. models' = [models EXCEPT ![q] = rows]
  BY DEF SaveUpdate, Updated, StoreInv, ModelsOK
<1>2. models[q] \in [Models -> SoundRows]
  BY DEF StoreInv, ModelsOK
<1>3. Safe(models[q][m], rows[m])
  <2>1. Safe(models[q][m], models[q][m])
    BY DEF Safe
  <2> QED BY <1>2, <2>1, ListedKeeps
<1> HIDE DEF rows
<1>4. models'[p] = IF p = q THEN rows ELSE models[p]
  BY <1>1 DEF StoreInv, ModelsOK
<1> QED BY <1>3, <1>4 DEF Safe

LEMMA ConfigKeeps ==
    ASSUME StoreInv, [StoreNext]_storeVars, ~AdminSetsFlags, NEW p \in Providers, NEW m \in Models, Exists(p)'
    PROVE  Safe(models[p][m], models'[p][m])
<1>1. ASSUME models'[p] = models[p] PROVE Safe(models[p][m], models'[p][m])
  BY <1>1 DEF Safe
<1>2. ASSUME NEW r \in Jobs, FinishCreate(r) PROVE Safe(models[p][m], models'[p][m])
  <2> DEFINE q == job[r].provider
  <2>1. CASE UNCHANGED models
    BY <1>1, <2>1
  <2>2. CASE models' # models
    <3>1. PICK enabled \in BOOLEAN, key \in Keys \cup {NoKey}, S \in SUBSET Models :
            ~Exists(q) /\ Added(q, enabled, key, [n \in S |-> {}])
      BY <1>2, <2>2 DEF FinishCreate
    <3>2. p # q => models'[p] = models[p]
      BY <3>1 DEF Added, StoreInv, ModelsOK
    <3>3. p = q => models[p][m] = NoRow
      BY <3>1 DEF StoreInv, NoOrphans
    <3> QED BY <1>1, <3>2, <3>3 DEF Safe
  <2> QED BY <2>1, <2>2
<1>3. ASSUME NEW r \in Jobs, FinishUpdate(r) PROVE Safe(models[p][m], models'[p][m])
  <2> DEFINE q == job[r].provider
  <2>1. q \in Providers
    BY <1>3, RequestProvider DEF FinishUpdate, StoreInv
  <2>2. UNCHANGED models \/ \E S \in SUBSET Models : SaveUpdate(q, job[r].hadKey, S, TRUE)
    BY <1>3 DEF FinishUpdate
  <2> QED BY <1>1, <2>1, <2>2, SavedKeeps
<1>4. ASSUME NEW q \in Providers, UpdateAtOnce(q) PROVE Safe(models[p][m], models'[p][m])
  <2>1. PICK S \in SUBSET Models, changed \in BOOLEAN :
          SaveUpdate(q, providers[q].key # NoKey, S, changed)
    BY <1>4 DEF UpdateAtOnce
  <2> QED BY <2>1, SavedKeeps
<1>5. ASSUME NEW q \in Providers, DeleteProvider(q) PROVE Safe(models[p][m], models'[p][m])
  <2>1. p # q
    BY <1>5 DEF DeleteProvider, Exists, StoreInv, ProvidersOK
  <2>2. models'[p] = models[p]
    BY <1>5, <2>1 DEF DeleteProvider, StoreInv, ModelsOK
  <2> QED BY <1>1, <2>2
<1>6. ASSUME NEW q \in Providers, FinishRefresh(q) PROVE Safe(models[p][m], models'[p][m])
  <2>1. CASE models' = models
    BY <1>1, <2>1
  <2>2. CASE models' # models
    <3>1. PICK found \in (SUBSET Models) \ {{}} : \E described \in SUBSET found :
            models' = [models EXCEPT ![q] = [n \in Models |-> Discovered(@[n], n, found, described)]]
      BY <1>6, <2>2 DEF FinishRefresh
    <3>2. PICK described \in SUBSET found :
            models' = [models EXCEPT ![q] = [n \in Models |-> Discovered(@[n], n, found, described)]]
      BY <3>1
    <3>3. p # q => models'[p] = models[p]
      BY <3>2 DEF StoreInv, ModelsOK
    <3>4. p = q => models'[p][m] = Discovered(models[p][m], m, found, described)
      BY <3>2 DEF StoreInv, ModelsOK
    <3>5. models[p][m] \in SoundRows
      BY DEF StoreInv, ModelsOK
    <3> QED BY <1>1, <3>3, <3>4, <3>5, DiscoveredKeeps
  <2> QED BY <2>1, <2>2
<1>7. ASSUME NEW r \in Jobs, FinishImport(r) PROVE FALSE
  <2>1. job[r].op = "import" /\ job'[r] = NoWork
    BY <1>7 DEF FinishImport, PutDown, StoreInv, WorkOK
  <2> QED BY <2>1 DEF AdminSetsFlags
<1>8. ASSUME NEW f \in Flags, ToggleFlag(f) PROVE FALSE
  BY <1>8 DEF AdminSetsFlags
<1> QED
  BY <1>1, <1>2, <1>3, <1>4, <1>5, <1>6, <1>7, <1>8, SettingKeeps
  DEF StoreNext, storeVars, StartCreate, StartUpdate, Reject, StartImport, RefreshFails, StartRefresh, StartRefreshAll

\* A switch that the administrator set survives every refresh, form and piece
\* of evidence that is in flight, and keeps its model's row (database.py:1834).
THEOREM SwitchesSurvive == StoreSpec => AdminConfigSurvives
<1>1. StoreInv /\ [StoreNext]_storeVars =>
        [\A p \in Providers, m \in Models :
            /\ models[p][m] # NoRow /\ models[p][m].flags # {}
            /\ Exists(p)' /\ models'[p][m] # models[p][m]
            /\ ~AdminSetsFlags
            => models'[p][m] # NoRow /\ models'[p][m].flags = models[p][m].flags]_storeVars
  BY ConfigKeeps DEF Safe
<1> QED BY <1>1, StoreInductive, PTL DEF StoreSpec, AdminConfigSurvives
=============================================================================
