---------------------------- MODULE AdminAccess ----------------------------
(***************************************************************************)
(* Administrator accounts, sessions and the login throttle                 *)
(* (app/router/auth.py, app/security.py, table admins of app/database.py). *)
(*                                                                         *)
(* Accounts are in the database; sessions and throttle are memory of the   *)
(* process.  A handler runs on the event loop until it awaits: PBKDF2 and  *)
(* the write of an upgraded hash run in threads, and other requests run    *)
(* meanwhile.                                                              *)
(***************************************************************************)
EXTENDS Naturals, FiniteSets

CONSTANTS
    Users,          \* administrator names
    Passwords,
    Clients,        \* throttle identities: an address with a user name
    Tokens,         \* session tokens that can be live at once (bound)
    Requests,       \* requests that can be in flight at once (bound)
    Limit,          \* login_attempt_limit
    MaxIdentities,  \* login_attempt_max_identities
    None

ASSUME Constants ==
    /\ Limit \in Nat \ {0} /\ MaxIdentities \in Nat \ {0}
    /\ IsFiniteSet(Clients) /\ IsFiniteSet(Requests)

VARIABLES
    admins,    \* user -> stored hash (whose password, how old), or None
    chosen,    \* user -> password last set by setup or by a change (history)
    sessions,  \* token -> session, or None
    attempts,  \* client -> failures still in the window, or None
    blocked,   \* client -> None, "running" or "over"
    guesses,   \* client -> failures since time, success or eviction last
               \*           touched its entry (history)
    request    \* request -> what it is doing, with what it read

throttle == <<attempts, blocked, guesses>>
vars == <<admins, chosen, sessions, throttle, request>>

\* old: fewer PBKDF2 rounds than PBKDF2_ITERATIONS, or the legacy format.
Hash == [password : Passwords, old : BOOLEAN]

\* What a session was granted on, whether it was so after that password had
\* been changed, and whether it outlived a change as the changer's own.
Session == [user : Users, password : Passwords, late : BOOLEAN, kept : BOOLEAN]

ASSUME Distinct ==
    /\ None \notin Hash /\ None \notin Session
    /\ None \notin Nat /\ None \notin {"running", "over"}

Idle == [op |-> "idle"]

Activity ==
    {Idle}
    \cup [op : {"setup"}, user : Users, password : Passwords]
    \cup [op : {"login"}, client : Clients, user : Users, hash : Hash]
    \cup [op : {"upgrade", "grant"}, user : Users, password : Passwords]
    \cup [op : {"verify"}, user : Users, token : Tokens]
    \cup [op : {"change"}, user : Users, token : Tokens, password : Passwords]

TypeOK ==
    /\ admins \in [Users -> Hash \cup {None}]
    /\ chosen \in [Users -> Passwords \cup {None}]
    /\ sessions \in [Tokens -> Session \cup {None}]
    /\ attempts \in [Clients -> (0..Limit - 1) \cup {None}]
    /\ blocked \in [Clients -> {None, "running", "over"}]
    /\ guesses \in [Clients -> Nat]
    /\ request \in [Requests -> Activity]

Nobody(S) == [x \in S |-> None]

(* A new installation, or the database of an earlier release.               *)
Init ==
    /\ \/ admins = Nobody(Users)
       \/ \E u \in Users, hash \in Hash : admins = [Nobody(Users) EXCEPT ![u] = hash]
    /\ chosen = [u \in Users |-> IF admins[u] = None THEN None ELSE admins[u].password]
    /\ sessions = Nobody(Tokens)
    /\ attempts = Nobody(Clients) /\ blocked = Nobody(Clients)
    /\ guesses = [c \in Clients |-> 0]
    /\ request = [r \in Requests |-> Idle]

Begin(r, activity) == request' = [request EXCEPT ![r] = activity]
Finish(r) == Begin(r, Idle)

-----------------------------------------------------------------------------
(* The throttle.                                                           *)

Counting(a) == {c \in Clients : a[c] # None}
Locked(b) == {c \in Clients : b[c] # None}
Running(b) == {c \in Clients : b[c] = "running"}

(* The time-gated half of _prune_login_throttle_locked: entries whose time  *)
(* is over go.                                                              *)
Expired(a, b) ==
    [attempts |-> [c \in Clients |-> IF a[c] = 0 THEN None ELSE a[c]],
     blocked |-> [c \in Clients |-> IF b[c] = "over" THEN None ELSE b[c]]]

(* The other half: beyond MaxIdentities the oldest go.  A client in both    *)
(* maps counts twice.  A running lockout lies in the future, so it ranks    *)
(* above everything else; the rest goes by time, which is not kept here.    *)
Overflow(a, b) ==
    LET n == Cardinality(Counting(a)) + Cardinality(Locked(b)) IN
    IF n <= MaxIdentities THEN 0 ELSE n - MaxIdentities

\* Slip: nothing is evicted.
VictimsNone(a, b) == {{}}

Victims(a, b) ==
    LET all == Counting(a) \cup Locked(b)
        soft == all \ Running(b)
        n == Overflow(a, b)
        size == IF n <= Cardinality(all) THEN n ELSE Cardinality(all)
    IN  {V \in SUBSET all : Cardinality(V) = size /\ (V \subseteq soft \/ soft \subseteq V)}

Without(t, V) ==
    [attempts |-> [c \in Clients |-> IF c \in V THEN None ELSE t.attempts[c]],
     blocked |-> [c \in Clients |-> IF c \in V THEN None ELSE t.blocked[c]]]

(* _prune_login_throttle_locked leaves one of these.                        *)
Pruned(a, b) ==
    UNION {{Without(t, V) : V \in Victims(t.attempts, t.blocked)} :
            t \in {[attempts |-> a, blocked |-> b], Expired(a, b)}}

\* What a client has tried, with a throttle t, if it had tried tried before: a
\* lockout keeps the number, otherwise the failures in the window are all.
Tally(t, tried) == [c \in Clients |->
    IF t.blocked[c] = "running" THEN tried[c]
    ELSE IF t.attempts[c] = None THEN 0 ELSE t.attempts[c]]

OneMore(tried, c) == [tried EXCEPT ![c] = @ + 1]

(* The throttle becomes t.                                                  *)
Throttle(t, tried) ==
    /\ attempts' = t.attempts
    /\ blocked' = t.blocked
    /\ guesses' = Tally(t, tried)

(* record_login_failure: one more failure; at Limit they become a lockout.  *)
Failure(a, b, c) ==
    UNION {LET n == IF t.attempts[c] = None THEN 1 ELSE t.attempts[c] + 1 IN
           IF n >= Limit
           THEN Pruned([t.attempts EXCEPT ![c] = None], [t.blocked EXCEPT ![c] = "running"])
           ELSE Pruned([t.attempts EXCEPT ![c] = n], t.blocked) : t \in Pruned(a, b)}

(* Time: failures leave the window, a lockout ends.                         *)
Age(c) ==
    /\ \/ /\ attempts[c] # None
          /\ \E n \in 0..attempts[c] - 1 :
                Throttle([attempts |-> [attempts EXCEPT ![c] = n], blocked |-> blocked], guesses)
       \/ /\ blocked[c] = "running"
          /\ Throttle([attempts |-> attempts, blocked |-> [blocked EXCEPT ![c] = "over"]], guesses)
    /\ UNCHANGED <<admins, chosen, sessions, request>>

-----------------------------------------------------------------------------
(* Sessions.                                                               *)

\* create_session, for a password that was found right.
Grant(u, password, late) ==
    \E token \in {t \in Tokens : sessions[t] = None} :
        sessions' = [sessions EXCEPT ![token] =
            [user |-> u, password |-> password, late |-> late, kept |-> FALSE]]

\* Slip: only the session that made the change goes.
RevokedOwn(u, own) == [sessions EXCEPT ![own] = None]

(* revoke_sessions_for_username.                                            *)
Revoked(u, own) ==
    [t \in Tokens |->
        IF t = own /\ sessions[t] # None THEN [sessions[t] EXCEPT !.kept = TRUE]
        ELSE IF sessions[t] # None /\ sessions[t].user = u THEN None
        ELSE sessions[t]]

(* Logout, expiry found at use, the cleanup thread.                         *)
EndSession(t) ==
    /\ sessions[t] # None
    /\ sessions' = [sessions EXCEPT ![t] = None]
    /\ UNCHANGED <<admins, chosen, throttle, request>>

-----------------------------------------------------------------------------
(* POST /auth/setup: the check and the insert are one step, after the hash. *)

StartSetup(r) ==
    /\ request[r] = Idle
    /\ \E u \in Users, pw \in Passwords :
        Begin(r, [op |-> "setup", user |-> u, password |-> pw])
    /\ UNCHANGED <<admins, chosen, sessions, throttle>>

\* Slip: an account is added unless this user has one.
MayAddUnchecked(u) == admins[u] = None

MayAdd(u) == \A v \in Users : admins[v] = None

FinishSetup(r) ==
    /\ request[r].op = "setup"
    /\ LET u == request[r].user  pw == request[r].password IN
        \/ /\ MayAdd(u)
           /\ admins' = [admins EXCEPT ![u] = [password |-> pw, old |-> FALSE]]
           /\ chosen' = [chosen EXCEPT ![u] = pw]
           /\ Grant(u, pw, FALSE)
        \/ ~MayAdd(u) /\ UNCHANGED <<admins, chosen, sessions>>
    /\ Finish(r)
    /\ UNCHANGED throttle

-----------------------------------------------------------------------------
(* POST /auth/login                                                         *)

Admitted(b, c) == b[c] # "running"

(* login_retry_after and the read of the account.                           *)
StartLogin(r, c, u) ==
    /\ request[r] = Idle
    /\ \E t \in Pruned(attempts, blocked) :
        LET b == [t.blocked EXCEPT ![c] = IF @ = "over" THEN None ELSE @] IN
        \/ ~Admitted(t.blocked, c) /\ Throttle(t, guesses) /\ UNCHANGED request
        \/ /\ Admitted(t.blocked, c) /\ admins[u] = None
           /\ \E f \in Failure(t.attempts, b, c) :
                Throttle(f, OneMore(Tally(t, guesses), c))
           /\ UNCHANGED request
        \/ /\ Admitted(t.blocked, c) /\ admins[u] # None
           /\ Throttle([attempts |-> t.attempts, blocked |-> b], guesses)
           /\ Begin(r, [op |-> "login", client |-> c, user |-> u, hash |-> admins[u]])
    /\ UNCHANGED <<admins, chosen, sessions>>

(* verify_password has run in its thread, on the hash that was read.        *)
Verified(r, password) ==
    /\ request[r].op = "login"
    /\ LET c == request[r].client  u == request[r].user  hash == request[r].hash IN
        \/ /\ password # hash.password
           /\ \E f \in Failure(attempts, blocked, c) : Throttle(f, OneMore(guesses, c))
           /\ Finish(r)
           /\ UNCHANGED sessions
        \/ /\ password = hash.password
           /\ Throttle([attempts |-> [attempts EXCEPT ![c] = None],
                        blocked |-> [blocked EXCEPT ![c] = None]], guesses)
           /\ \/ /\ hash.old
                 /\ Begin(r, [op |-> "upgrade", user |-> u, password |-> password])
                 /\ UNCHANGED sessions
              \/ ~hash.old /\ Grant(u, password, password # chosen[u]) /\ Finish(r)
    /\ UNCHANGED <<admins, chosen>>

(* The new hash is stored, or fails to be.                                  *)
Upgrade(r) ==
    /\ request[r].op = "upgrade"
    /\ LET u == request[r].user  pw == request[r].password IN
        /\ \/ admins' = [admins EXCEPT ![u] = [password |-> pw, old |-> FALSE]]
           \/ UNCHANGED admins
        /\ Begin(r, [op |-> "grant", user |-> u, password |-> pw])
    /\ UNCHANGED <<chosen, sessions, throttle>>

(* The login whose upgrade has returned from its thread.                    *)
GrantSession(r) ==
    /\ request[r].op = "grant"
    /\ LET u == request[r].user  pw == request[r].password IN
        Grant(u, pw, pw # chosen[u])
    /\ Finish(r)
    /\ UNCHANGED <<admins, chosen, throttle>>

-----------------------------------------------------------------------------
(* PUT /auth/password                                                       *)

(* The session is checked before the awaits only.                           *)
StartChange(r, t) ==
    /\ request[r] = Idle /\ sessions[t] # None
    /\ Begin(r, [op |-> "verify", user |-> sessions[t].user, token |-> t])
    /\ UNCHANGED <<admins, chosen, sessions, throttle>>

(* The current password was given, or not.                                  *)
VerifiedForChange(r) ==
    /\ request[r].op = "verify"
    /\ \/ Finish(r)
       \/ \E pw \in Passwords :
            Begin(r, [op |-> "change", user |-> request[r].user,
                      token |-> request[r].token, password |-> pw])
    /\ UNCHANGED <<admins, chosen, sessions, throttle>>

FinishChange(r) ==
    /\ request[r].op = "change"
    /\ LET u == request[r].user  pw == request[r].password IN
        /\ admins' = [admins EXCEPT ![u] = [password |-> pw, old |-> FALSE]]
        /\ chosen' = [chosen EXCEPT ![u] = pw]
        /\ sessions' = Revoked(u, request[r].token)
    /\ Finish(r)
    /\ UNCHANGED throttle

-----------------------------------------------------------------------------
(* The process is gone at any point and started again.                      *)
Restart ==
    /\ sessions' = Nobody(Tokens)
    /\ Throttle([attempts |-> Nobody(Clients), blocked |-> Nobody(Clients)], guesses)
    /\ request' = [r \in Requests |-> Idle]
    /\ UNCHANGED <<admins, chosen>>

Next ==
    \/ \E c \in Clients : Age(c)
    \/ \E t \in Tokens : EndSession(t)
    \/ \E r \in Requests :
        \/ StartSetup(r) \/ FinishSetup(r)
        \/ \E c \in Clients, u \in Users : StartLogin(r, c, u)
        \/ \E pw \in Passwords : Verified(r, pw)
        \/ Upgrade(r) \/ GrantSession(r)
        \/ \E t \in Tokens : StartChange(r, t)
        \/ VerifiedForChange(r) \/ FinishChange(r)
    \/ Restart

Spec == Init /\ [][Next]_vars

-----------------------------------------------------------------------------
(* Properties.                                                             *)

\* auth.py:65: however many first requests run at once, setup makes one
\* account.
OneAccount == Cardinality({u \in Users : admins[u] # None}) <= 1

\* auth.py:167 (M-7): a session granted on a password that has since been
\* changed is gone, except the one that made the change; what remains was
\* granted later, by a login that had already verified the old password.
OldSessionsGone ==
    \A t \in Tokens : sessions[t] # None =>
        \/ sessions[t].password = chosen[sessions[t].user]
        \/ sessions[t].late \/ sessions[t].kept

\* security.py:200: logins that verify at once may each fail after the
\* lockout began, but no more than that many guesses are made in one lockout.
GuessesBounded ==
    \A c \in Clients : guesses[c] <= Limit + Cardinality(Requests) - 1

\* security.py:38: the throttle never remembers more clients than configured,
\* also when a client is in both maps.
ThrottleBounded ==
    Cardinality(Counting(attempts) \cup Locked(blocked)) <= MaxIdentities

\* The throttle holds with requests in flight together: neither more guesses nor
\* more remembered clients than its limits say, give or take those in flight.
ThrottleHolds == GuessesBounded /\ ThrottleBounded
=============================================================================
