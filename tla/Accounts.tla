------------------------------ MODULE Accounts ------------------------------
(* The tables users and user_api_keys (app/database.py), the handlers of the *)
(* admin interface and the import of exported users (app/router/admin.py)    *)
(* that write them, and the look-up by which a request authenticates. A      *)
(* database call is one transaction. No handler here awaits after its first  *)
(* write, but the look-up runs in a thread and sees an import half-way.      *)
EXTENDS Naturals, Sequences, FiniteSets

CONSTANTS
    Users,        \* user names
    ApiKeys,      \* API keys, as tokens
    AllowLists,   \* allow lists a key may carry: sets of model names, or Anything
    Entries,      \* what exported entries say of a key
    MaxFile,      \* bound on the keys of an exported entry
    NoRow

VARIABLES
    users,        \* user -> "absent", "on" or "off"
    keys,         \* API key -> its row, or NoRow
    importing     \* the user entry whose keys an import is going through, or Nothing

accountVars == <<users, keys, importing>>

KeyRow == [owner : Users, enabled : BOOLEAN, allowed : AllowLists]
Modes == {"skip", "merge", "overwrite"}
\* What an exported entry says of its user's keys, in its order.
KeyEntry == [key : ApiKeys, enabled : BOOLEAN, allowed : AllowLists]
Nothing == [mode |-> "none"]
Importing == [user : Users, mode : Modes, rest : Seq(KeyEntry)]

Files == UNION {[1..n -> Entries] : n \in 0..MaxFile}

ASSUME AccountsAssumption ==
    /\ Entries \subseteq KeyEntry
    /\ MaxFile \in Nat
    /\ \A r \in KeyRow : NoRow # r

AccountsTypeOK ==
    /\ users \in [Users -> {"absent", "on", "off"}]
    /\ keys \in [ApiKeys -> KeyRow \cup {NoRow}]
    /\ importing \in Importing \cup {Nothing}

AccountsInit ==
    /\ users = [u \in Users |-> "absent"]
    /\ keys = [k \in ApiKeys |-> NoRow]
    /\ importing = Nothing

UserExists(u) == users[u] # "absent"
Held(k) == keys[k] # NoRow
HeldBy(u, k) == Held(k) /\ keys[k].owner = u

\* add_user and update_user, delete_user with its cascade, and the keys' own.
WithUser(u, enabled) == [users EXCEPT ![u] = IF enabled THEN "on" ELSE "off"]
WithoutKeysOf(u) == [k \in ApiKeys |-> IF HeldBy(u, k) THEN NoRow ELSE keys[k]]
WithKey(u, k, enabled, allowed) ==
    [keys EXCEPT ![k] = [owner |-> u, enabled |-> enabled, allowed |-> allowed]]

(* The row by which token k authenticates: both it and its user are enabled. *)
Authenticates(k) ==
    /\ Held(k)
    /\ users[keys[k].owner] = "on"
    /\ keys[k].enabled

----------------------------------------------------------------------------
\* The admin interface; an import in progress keeps the event loop to itself.

AddUser(u, enabled) ==
    /\ importing = Nothing
    /\ ~UserExists(u)
    /\ users' = WithUser(u, enabled)
    /\ UNCHANGED <<keys, importing>>

UpdateUser(u, enabled) ==
    /\ importing = Nothing
    /\ UserExists(u)
    /\ users' = WithUser(u, enabled)
    /\ UNCHANGED <<keys, importing>>

\* The keys go with their user (ON DELETE CASCADE).
DeleteUser(u) ==
    /\ importing = Nothing
    /\ UserExists(u)
    /\ users' = [users EXCEPT ![u] = "absent"]
    /\ keys' = WithoutKeysOf(u)
    /\ UNCHANGED importing

\* The token is drawn at random: never one that is in the table.
AddKey(u, k, allowed) ==
    /\ importing = Nothing
    /\ UserExists(u)
    /\ ~Held(k)
    /\ keys' = WithKey(u, k, TRUE, allowed)
    /\ UNCHANGED <<users, importing>>

UpdateKey(u, k, enabled, allowed) ==
    /\ importing = Nothing
    /\ HeldBy(u, k)
    /\ keys' = WithKey(u, k, enabled, allowed)
    /\ UNCHANGED <<users, importing>>

DeleteKey(u, k) ==
    /\ importing = Nothing
    /\ HeldBy(u, k)
    /\ keys' = [keys EXCEPT ![k] = NoRow]
    /\ UNCHANGED <<users, importing>>

----------------------------------------------------------------------------
(* POST /admin/users/import, one user entry: the user's row first, then its  *)
(* keys one by one. A file with several users is several of these.           *)

ImportUser(mode, u, enabled, entries) ==
    /\ importing = Nothing
    /\ ~(mode = "skip" /\ UserExists(u))
    /\ users' = WithUser(u, enabled)
    /\ importing' = [user |-> u, mode |-> mode, rest |-> entries]
    /\ UNCHANGED keys

(* A key the user has is updated, unless existing ones are to be skipped; a  *)
(* new one is inserted; one that another user holds breaks the primary key   *)
(* and ends the whole import there, with what it wrote so far.               *)
\* Slip: the row found by the token alone is updated, whoever holds it.
ImportKeyByToken ==
    /\ importing # Nothing
    /\ importing.rest # <<>>
    /\ LET e == Head(importing.rest) IN
        keys' = WithKey(importing.user, e.key, e.enabled, e.allowed)
    /\ importing' = [importing EXCEPT !.rest = Tail(@)]
    /\ UNCHANGED users

ImportKey ==
    /\ importing # Nothing
    /\ importing.rest # <<>>
    /\ LET e == Head(importing.rest)
           u == importing.user
       IN \/ /\ Held(e.key) /\ ~HeldBy(u, e.key)
             /\ importing' = Nothing
             /\ UNCHANGED keys
          \/ /\ Held(e.key) => HeldBy(u, e.key)
             /\ keys' = IF Held(e.key) /\ importing.mode = "skip" THEN keys
                        ELSE WithKey(u, e.key, e.enabled, e.allowed)
             /\ importing' = [importing EXCEPT !.rest = Tail(@)]
    /\ UNCHANGED users

ImportDone ==
    /\ importing # Nothing
    /\ importing.rest = <<>>
    /\ importing' = Nothing
    /\ UNCHANGED <<users, keys>>

AccountsNext ==
    \/ \E u \in Users, enabled \in BOOLEAN : AddUser(u, enabled) \/ UpdateUser(u, enabled)
    \/ \E u \in Users : DeleteUser(u)
    \/ \E u \in Users, k \in ApiKeys, allowed \in AllowLists : AddKey(u, k, allowed)
    \/ \E u \in Users, k \in ApiKeys, enabled \in BOOLEAN, allowed \in AllowLists :
        UpdateKey(u, k, enabled, allowed)
    \/ \E u \in Users, k \in ApiKeys : DeleteKey(u, k)
    \/ \E mode \in Modes, u \in Users, enabled \in BOOLEAN, entries \in Files :
        ImportUser(mode, u, enabled, entries)
    \/ ImportKey
    \/ ImportDone

AccountsSpec == AccountsInit /\ [][AccountsNext]_accountVars

----------------------------------------------------------------------------
(* Every key in the table belongs to a user who is there, so that no key     *)
(* comes back to life with a user re-created under the same name; and so     *)
(* does the user whose keys an import is still going through.                *)
KeysHaveOwners ==
    /\ \A k \in ApiKeys : Held(k) => UserExists(keys[k].owner)
    /\ importing # Nothing => UserExists(importing.user)

(* A key never passes from one user to another, whatever a file claims:      *)
(* usage and limits are the owner's.                                         *)
KeysStayPut ==
    [][\A k \in ApiKeys : Held(k) /\ keys'[k] # NoRow => keys'[k].owner = keys[k].owner]_accountVars
=============================================================================
