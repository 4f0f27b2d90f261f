------------------------- MODULE RequestPolicyProofs -------------------------
(* For any users, keys, rules and policies: every key has an owner who       *)
(* exists and keeps it, a request goes where one look at the rules leads and *)
(* where its key may go, and no upstream is asked twice. For any messages    *)
(* and call ids: the history that is sent is paired, has lost no word, and   *)
(* has back only reasoning of its own.                                       *)
(*                                                                           *)
(* Accounts and tables change under a request in any order; what carries     *)
(* the proof is that a request holds all it was judged by, its key's allow   *)
(* list and the rules of its last look, and is judged by nothing else.       *)
EXTENDS RequestPolicy, FiniteSetTheorems, SequenceTheorems, WellFoundedInduction, TLAPS

-----------------------------------------------------------------------------
(* Accounts.                                                                 *)

LEMMA RowsAreRows ==
    ASSUME NEW u \in Users, NEW enabled \in BOOLEAN, NEW allowed \in AllowLists
    PROVE  [owner |-> u, enabled |-> enabled, allowed |-> allowed] \in KeyRow
BY DEF KeyRow

LEMMA RowsAreNotMissing == \A r \in KeyRow : r # NoRow /\ r.owner \in Users
BY AccountsAssumption DEF KeyRow

(* What is left of a file's entries is made of entries.                      *)
LEMMA RestOfFile ==
    ASSUME NEW s \in Seq(KeyEntry), s # <<>>
    PROVE  /\ Head(s) \in KeyEntry
           /\ Tail(s) \in Seq(KeyEntry)
OBVIOUS

LEMMA FilesAreFiles == Files \subseteq Seq(KeyEntry)
<1> SUFFICES ASSUME NEW n \in 0..MaxFile, NEW f \in [1..n -> Entries]
             PROVE  f \in Seq(KeyEntry)
    BY DEF Files
<1>1. n \in Nat
    BY AccountsAssumption
<1>2. f \in [1..n -> KeyEntry]
    BY AccountsAssumption
<1> QED
    BY <1>1, <1>2

LEMMA ImportersAreImporters ==
    ASSUME NEW i \in Importing
    PROVE  /\ i # Nothing
           /\ i.user \in Users
           /\ i.rest \in Seq(KeyEntry)
           /\ \A s \in Seq(KeyEntry) : [i EXCEPT !.rest = s] \in Importing
           /\ \A s \in Seq(KeyEntry) : [i EXCEPT !.rest = s].user = i.user
BY DEF Importing, Nothing, Modes

-----------------------------------------------------------------------------
(* Users, keys and the import in progress have their types.                  *)
UsersOK == users \in [Users -> {"absent", "on", "off"}]
KeysOK == keys \in [ApiKeys -> KeyRow \cup {NoRow}]
ImportOK == importing \in Importing \cup {Nothing}

LEMMA KeysAreWritten ==
    ASSUME KeysOK, NEW u \in Users, NEW k \in ApiKeys, NEW enabled \in BOOLEAN, NEW allowed \in AllowLists
    PROVE  /\ WithKey(u, k, enabled, allowed) \in [ApiKeys -> KeyRow \cup {NoRow}]
           /\ WithKey(u, k, enabled, allowed)[k] # NoRow
           /\ WithKey(u, k, enabled, allowed)[k].owner = u
           /\ \A j \in ApiKeys \ {k} : WithKey(u, k, enabled, allowed)[j] = keys[j]
<1> DEFINE row == [owner |-> u, enabled |-> enabled, allowed |-> allowed]
<1>1. row \in KeyRow /\ row.owner = u
    BY RowsAreRows
<1>2. row # NoRow
    BY <1>1, RowsAreNotMissing
<1>3. WithKey(u, k, enabled, allowed) = [keys EXCEPT ![k] = row]
    BY DEF WithKey
<1> HIDE DEF row
<1> QED
    BY <1>1, <1>2, <1>3 DEF KeysOK

LEMMA UsersAreWritten ==
    ASSUME UsersOK, NEW u \in Users, NEW enabled \in BOOLEAN
    PROVE  /\ WithUser(u, enabled) \in [Users -> {"absent", "on", "off"}]
           /\ WithUser(u, enabled)[u] # "absent"
           /\ \A v \in Users \ {u} : WithUser(u, enabled)[v] = users[v]
<1> DEFINE state == IF enabled THEN "on" ELSE "off"
<1>1. state \in {"on", "off"}
    OBVIOUS
<1>2. WithUser(u, enabled) = [users EXCEPT ![u] = state]
    BY DEF WithUser
<1> HIDE DEF state
<1> QED
    BY <1>1, <1>2 DEF UsersOK

-----------------------------------------------------------------------------
(* The inductive invariant: types, and the property itself, whose second     *)
(* half is what an import's next key needs.                                  *)
AccountsOK == UsersOK /\ KeysOK /\ ImportOK /\ KeysHaveOwners

LEMMA AccountsStart == AccountsInit => AccountsOK
BY RowsAreNotMissing
   DEF AccountsInit, AccountsOK, UsersOK, KeysOK, ImportOK, KeysHaveOwners, Held, UserExists

(* A step that leaves the keys alone and makes no user disappear.            *)
LEMMA UsersGrow ==
    ASSUME AccountsOK, NEW u \in Users, NEW enabled \in BOOLEAN,
           users' = WithUser(u, enabled), UNCHANGED keys,
           importing' \in Importing \cup {Nothing},
           importing' # Nothing => importing'.user = u
    PROVE  AccountsOK'
<1>1. /\ users' \in [Users -> {"absent", "on", "off"}]
      /\ users'[u] # "absent"
      /\ \A v \in Users \ {u} : users'[v] = users[v]
    BY UsersAreWritten DEF AccountsOK
<1>2. UsersOK' /\ KeysOK' /\ ImportOK'
    BY <1>1 DEF AccountsOK, UsersOK, KeysOK, ImportOK
<1>3. ASSUME NEW k \in ApiKeys, keys[k] # NoRow PROVE users'[keys[k].owner] # "absent"
  <2>1. keys[k].owner \in Users
      BY <1>3, RowsAreNotMissing DEF AccountsOK, KeysOK
  <2>2. users[keys[k].owner] # "absent"
      BY <1>3 DEF AccountsOK, KeysHaveOwners, Held, UserExists
  <2> QED
      BY <1>1, <2>1, <2>2
<1>4. KeysHaveOwners'
    BY <1>1, <1>3 DEF KeysHaveOwners, Held, UserExists
<1> QED
    BY <1>2, <1>4 DEF AccountsOK

(* A step that writes the row of one key, for a user who exists.             *)
LEMMA KeyWritten ==
    ASSUME AccountsOK, NEW u \in Users, UserExists(u), NEW k \in ApiKeys,
           NEW enabled \in BOOLEAN, NEW allowed \in AllowLists,
           keys' = WithKey(u, k, enabled, allowed), UNCHANGED users,
           importing' \in Importing \cup {Nothing},
           importing' # Nothing => importing'.user = u
    PROVE  AccountsOK'
<1>1. /\ keys' \in [ApiKeys -> KeyRow \cup {NoRow}]
      /\ keys'[k].owner = u
      /\ \A j \in ApiKeys \ {k} : keys'[j] = keys[j]
    BY KeysAreWritten DEF AccountsOK
<1>2. UsersOK' /\ KeysOK' /\ ImportOK'
    BY <1>1 DEF AccountsOK, UsersOK, KeysOK, ImportOK
<1>3. \A j \in ApiKeys : keys[j] # NoRow => users[keys[j].owner] # "absent"
    BY DEF AccountsOK, KeysHaveOwners, Held, UserExists
<1>4. users[u] # "absent"
    BY DEF UserExists
<1>5. KeysHaveOwners'
    BY <1>1, <1>3, <1>4 DEF KeysHaveOwners, Held, UserExists
<1> QED
    BY <1>2, <1>5 DEF AccountsOK

(* A step that only takes rows away, with or without one user.               *)
LEMMA KeysShrink ==
    ASSUME AccountsOK, importing = Nothing, UNCHANGED importing,
           keys' \in [ApiKeys -> KeyRow \cup {NoRow}],
           \A k \in ApiKeys : keys'[k] \in {NoRow, keys[k]},
           users' \in [Users -> {"absent", "on", "off"}],
           \A k \in ApiKeys : keys'[k] # NoRow => users'[keys[k].owner] = users[keys[k].owner]
    PROVE  AccountsOK'
<1>1. UsersOK' /\ KeysOK' /\ ImportOK'
    BY DEF AccountsOK, UsersOK, KeysOK, ImportOK
<1>2. \A k \in ApiKeys : keys[k] # NoRow => users[keys[k].owner] # "absent"
    BY DEF AccountsOK, KeysHaveOwners, Held, UserExists
<1>3. KeysHaveOwners'
    BY <1>2 DEF KeysHaveOwners, Held, UserExists
<1> QED
    BY <1>1, <1>3 DEF AccountsOK

LEMMA AccountsKeep == AccountsOK /\ [AccountsNext]_accountVars => AccountsOK'
<1> SUFFICES ASSUME AccountsOK, [AccountsNext]_accountVars PROVE AccountsOK'
    OBVIOUS
<1>1. ASSUME NEW u \in Users, NEW enabled \in BOOLEAN, AddUser(u, enabled) \/ UpdateUser(u, enabled)
      PROVE  AccountsOK'
  <2>1. users' = WithUser(u, enabled) /\ UNCHANGED keys /\ importing' = Nothing
      BY <1>1 DEF AddUser, UpdateUser
  <2> QED
      BY <2>1, UsersGrow
<1>2. ASSUME NEW u \in Users, DeleteUser(u) PROVE AccountsOK'
  <2>1. /\ importing = Nothing /\ UNCHANGED importing
        /\ keys' = [k \in ApiKeys |-> IF HeldBy(u, k) THEN NoRow ELSE keys[k]]
        /\ users' = [users EXCEPT ![u] = "absent"]
      BY <1>2 DEF DeleteUser, WithoutKeysOf
  <2>2. /\ keys' \in [ApiKeys -> KeyRow \cup {NoRow}]
        /\ \A k \in ApiKeys : keys'[k] \in {NoRow, keys[k]}
      BY <2>1 DEF AccountsOK, KeysOK
  <2>3. users' \in [Users -> {"absent", "on", "off"}]
      BY <2>1 DEF AccountsOK, UsersOK
  <2>4. ASSUME NEW k \in ApiKeys, keys'[k] # NoRow
        PROVE  users'[keys[k].owner] = users[keys[k].owner]
    <3>1. keys[k] # NoRow /\ ~HeldBy(u, k)
        BY <2>1, <2>4
    <3>2. keys[k].owner # u
        BY <3>1 DEF HeldBy, Held
    <3>3. keys[k].owner \in Users
        BY <3>1, RowsAreNotMissing DEF AccountsOK, KeysOK
    <3> QED
        BY <2>1, <3>2, <3>3 DEF AccountsOK, UsersOK
  <2> QED
      BY <2>1, <2>2, <2>3, <2>4, KeysShrink
<1>3. ASSUME NEW u \in Users, NEW k \in ApiKeys, NEW allowed \in AllowLists, AddKey(u, k, allowed)
      PROVE  AccountsOK'
  <2>1. UserExists(u) /\ keys' = WithKey(u, k, TRUE, allowed) /\ UNCHANGED users /\ importing' = Nothing
      BY <1>3 DEF AddKey
  <2> QED
      BY <2>1, KeyWritten
<1>4. ASSUME NEW u \in Users, NEW k \in ApiKeys, NEW enabled \in BOOLEAN, NEW allowed \in AllowLists,
             UpdateKey(u, k, enabled, allowed)
      PROVE  AccountsOK'
  <2>1. HeldBy(u, k) /\ keys' = WithKey(u, k, enabled, allowed) /\ UNCHANGED users /\ importing' = Nothing
      BY <1>4 DEF UpdateKey
  <2>2. UserExists(u)
      BY <2>1 DEF AccountsOK, KeysHaveOwners, HeldBy
  <2> QED
      BY <2>1, <2>2, KeyWritten
<1>5. ASSUME NEW u \in Users, NEW k \in ApiKeys, DeleteKey(u, k) PROVE AccountsOK'
  <2>1. /\ importing = Nothing /\ UNCHANGED importing
        /\ keys' = [keys EXCEPT ![k] = NoRow]
        /\ UNCHANGED users
      BY <1>5 DEF DeleteKey
  <2>2. /\ keys' \in [ApiKeys -> KeyRow \cup {NoRow}]
        /\ \A j \in ApiKeys : keys'[j] \in {NoRow, keys[j]}
      BY <2>1 DEF AccountsOK, KeysOK
  <2> QED
      BY <2>1, <2>2, KeysShrink DEF AccountsOK, UsersOK
<1>6. ASSUME NEW mode \in Modes, NEW u \in Users, NEW enabled \in BOOLEAN, NEW entries \in Files,
             ImportUser(mode, u, enabled, entries)
      PROVE  AccountsOK'
  <2>1. users' = WithUser(u, enabled) /\ UNCHANGED keys
        /\ importing' = [user |-> u, mode |-> mode, rest |-> entries]
      BY <1>6 DEF ImportUser
  <2>2. importing' \in Importing /\ importing'.user = u
      BY <2>1, FilesAreFiles DEF Importing
  <2> QED
      BY <2>1, <2>2, UsersGrow
<1>7. ASSUME ImportKey PROVE AccountsOK'
  <2> DEFINE e == Head(importing.rest)
             u == importing.user
  <2>1. importing \in Importing /\ importing # Nothing /\ importing.rest # <<>>
      BY <1>7 DEF ImportKey, AccountsOK, ImportOK
  <2>2. u \in Users /\ UserExists(u) /\ importing.rest \in Seq(KeyEntry)
      BY <2>1, ImportersAreImporters DEF AccountsOK, KeysHaveOwners
  <2>3. e \in KeyEntry /\ Tail(importing.rest) \in Seq(KeyEntry)
      BY <2>1, <2>2, RestOfFile
  <2>4. e.key \in ApiKeys /\ e.enabled \in BOOLEAN /\ e.allowed \in AllowLists
      BY <2>3 DEF KeyEntry
  <2>5. LET next == [importing EXCEPT !.rest = Tail(@)]
        IN next \in Importing /\ next.user = u
      BY <2>1, <2>3, ImportersAreImporters
  <2>6. CASE importing' = Nothing /\ UNCHANGED <<keys, users>>
      BY <2>6 DEF AccountsOK, UsersOK, KeysOK, ImportOK, KeysHaveOwners, Held, UserExists
  <2>7. CASE /\ keys' = WithKey(u, e.key, e.enabled, e.allowed)
             /\ importing' = [importing EXCEPT !.rest = Tail(@)]
             /\ UNCHANGED users
      BY <2>2, <2>4, <2>5, <2>7, KeyWritten
  <2>8. CASE importing' = [importing EXCEPT !.rest = Tail(@)] /\ UNCHANGED <<keys, users>>
      BY <2>2, <2>5, <2>8 DEF AccountsOK, UsersOK, KeysOK, ImportOK, KeysHaveOwners, Held, UserExists
  <2> QED
      BY <1>7, <2>6, <2>7, <2>8 DEF ImportKey
<1>8. ASSUME ImportDone PROVE AccountsOK'
    BY <1>8 DEF ImportDone, AccountsOK, UsersOK, KeysOK, ImportOK, KeysHaveOwners, Held, UserExists
<1>9. ASSUME UNCHANGED accountVars PROVE AccountsOK'
    BY <1>9 DEF accountVars, AccountsOK, UsersOK, KeysOK, ImportOK, KeysHaveOwners, Held, UserExists
<1> QED
    BY <1>1, <1>2, <1>3, <1>4, <1>5, <1>6, <1>7, <1>8, <1>9 DEF AccountsNext

(* The tables and the import keep their types.                               *)
THEOREM AccountsTyped == AccountsSpec => []AccountsTypeOK
<1>1. AccountsOK => AccountsTypeOK
    BY DEF AccountsOK, UsersOK, KeysOK, ImportOK, AccountsTypeOK
<1> QED
    BY <1>1, AccountsStart, AccountsKeep, PTL DEF AccountsSpec

(* Every key in the table has an owner who exists (user_api_keys with its    *)
(* foreign key and cascade, and the import of users).                        *)
THEOREM OwnersStay == AccountsSpec => []KeysHaveOwners
<1>1. AccountsOK => KeysHaveOwners
    BY DEF AccountsOK
<1> QED
    BY <1>1, AccountsStart, AccountsKeep, PTL DEF AccountsSpec

(* No step moves a key from one user to another (_import_user_api_key).      *)
Moved == \E k \in ApiKeys : Held(k) /\ keys'[k] # NoRow /\ keys'[k].owner # keys[k].owner

LEMMA NothingMoves == AccountsOK /\ [AccountsNext]_accountVars => ~Moved
<1> SUFFICES ASSUME AccountsOK, [AccountsNext]_accountVars PROVE ~Moved
    OBVIOUS
<1>1. CASE UNCHANGED keys
    BY <1>1 DEF Moved
<1>2. ASSUME NEW u \in Users, NEW k \in ApiKeys, NEW enabled \in BOOLEAN, NEW allowed \in AllowLists,
             keys' = WithKey(u, k, enabled, allowed), Held(k) => HeldBy(u, k)
      PROVE  ~Moved
  <2>1. keys'[k].owner = u /\ \A j \in ApiKeys \ {k} : keys'[j] = keys[j]
      BY <1>2, KeysAreWritten DEF AccountsOK
  <2> QED
      BY <1>2, <2>1 DEF Moved, HeldBy
<1>3. ASSUME \A k \in ApiKeys : keys'[k] \in {NoRow, keys[k]} PROVE ~Moved
    BY <1>3 DEF Moved
<1>4. ASSUME NEW u \in Users, DeleteUser(u) PROVE ~Moved
  <2>1. keys' = [k \in ApiKeys |-> IF HeldBy(u, k) THEN NoRow ELSE keys[k]]
      BY <1>4 DEF DeleteUser, WithoutKeysOf
  <2> QED
      BY <1>3, <2>1
<1>5. ASSUME NEW u \in Users, NEW k \in ApiKeys, DeleteKey(u, k) PROVE ~Moved
  <2>1. keys' = [keys EXCEPT ![k] = NoRow]
      BY <1>5 DEF DeleteKey
  <2>2. \A j \in ApiKeys : keys'[j] \in {NoRow, keys[j]}
      BY <2>1 DEF AccountsOK, KeysOK
  <2> QED
      BY <1>3, <2>2
<1>6. ASSUME NEW u \in Users, NEW k \in ApiKeys, NEW allowed \in AllowLists, AddKey(u, k, allowed)
      PROVE  ~Moved
    BY <1>2, <1>6 DEF AddKey
<1>7. ASSUME NEW u \in Users, NEW k \in ApiKeys, NEW enabled \in BOOLEAN, NEW allowed \in AllowLists,
             UpdateKey(u, k, enabled, allowed)
      PROVE  ~Moved
    BY <1>2, <1>7 DEF UpdateKey
<1>8. ASSUME ImportKey PROVE ~Moved
  <2> DEFINE e == Head(importing.rest)
             u == importing.user
  <2>1. importing \in Importing /\ importing.rest # <<>>
      BY <1>8 DEF ImportKey, AccountsOK, ImportOK
  <2>2. u \in Users /\ importing.rest \in Seq(KeyEntry)
      BY <2>1, ImportersAreImporters
  <2>3. e \in KeyEntry
      BY <2>1, <2>2, RestOfFile
  <2>4. e.key \in ApiKeys /\ e.enabled \in BOOLEAN /\ e.allowed \in AllowLists
      BY <2>3 DEF KeyEntry
  <2>5. \/ UNCHANGED keys
        \/ /\ Held(e.key) => HeldBy(u, e.key)
           /\ keys' = WithKey(u, e.key, e.enabled, e.allowed)
      BY <1>8 DEF ImportKey
  <2> QED
      BY <1>1, <1>2, <2>2, <2>4, <2>5
<1>9. ASSUME UNCHANGED accountVars PROVE ~Moved
    BY <1>1, <1>9 DEF accountVars
<1> QED
    BY <1>1, <1>4, <1>5, <1>6, <1>7, <1>8, <1>9
       DEF AccountsNext, AddUser, UpdateUser, ImportUser, ImportDone

(* A key never passes from one user to another.                              *)
THEOREM OwnersNeverChange == AccountsSpec => KeysStayPut
<1>1. ~Moved => \A k \in ApiKeys : Held(k) /\ keys'[k] # NoRow => keys'[k].owner = keys[k].owner
    BY DEF Moved
<1>2. AccountsOK /\ [AccountsNext]_accountVars =>
        [\A k \in ApiKeys : Held(k) /\ keys'[k] # NoRow => keys'[k].owner = keys[k].owner]_accountVars
    BY <1>1, NothingMoves
<1> QED
    BY <1>2, AccountsStart, AccountsKeep, PTL DEF AccountsSpec, KeysStayPut

-----------------------------------------------------------------------------
(* Numbers: a set of them has a least one, because their finite sets 0..n are *)
(* ordered by inclusion; hence induction.                                    *)

LEMMA Least ==
    ASSUME NEW S \in SUBSET Nat, S # {}
    PROVE  \E n \in S : \A m \in S : n <= m
<1> DEFINE Below == {0..n : n \in S}
           R == StrictSubsetOrdering(Nat)
<1>1. Below \subseteq FiniteSubsetsOf(Nat) /\ Below # {}
  <2>1. \A n \in S : 0..n \in FiniteSubsetsOf(Nat)
      BY FS_Interval DEF FiniteSubsetsOf
  <2> QED
      BY <2>1
<1>2. \E I \in Below : \A J \in Below : <<J, I>> \notin R
  <2> HIDE DEF Below, R
  <2>1. IsWellFoundedOn(R, FiniteSubsetsOf(Nat))
      BY FS_StrictSubsetOrderingWellFounded DEF R
  <2> QED
      BY <1>1, <2>1, WFMin
<1>3. PICK n \in S : \A m \in S : <<0..m, 0..n>> \notin R
    BY <1>2
<1>4. ASSUME NEW m \in S, m < n PROVE FALSE
  <2>1. 0..m \subseteq 0..n /\ 0..m # 0..n /\ 0..m \in SUBSET Nat /\ 0..n \in SUBSET Nat
      BY <1>4
  <2> QED
      BY <1>3, <2>1 DEF StrictSubsetOrdering
<1> QED
    BY <1>3, <1>4

LEMMA MinIs ==
    ASSUME NEW S \in SUBSET Nat, S # {}
    PROVE  Min(S) \in S
BY Least DEF Min

LEMMA Induction ==
    ASSUME NEW S, 0 \in S, \A n \in Nat : n \in S => n + 1 \in S
    PROVE  Nat \subseteq S
<1> SUFFICES ASSUME Nat \ S # {} PROVE FALSE
    OBVIOUS
<1>1. PICK n \in Nat \ S : \A m \in Nat \ S : n <= m
    BY Least
<1>2. n - 1 \in Nat /\ n - 1 \in S
    BY <1>1
<1> QED
    BY <1>1, <1>2

-----------------------------------------------------------------------------
(* The tables of rules and policies keep their types.                        *)

RuleRow == {Row(i, r) : i \in RowIds, r \in RuleChoices}
PolicyRow == {Row(i, p) : i \in RowIds, p \in PolicyChoices}
TablesOK ==
    /\ serving \subseteq Providers \X Models
    /\ rules \in Seq(RuleRow)
    /\ policies \in Seq(PolicyRow)

LEMMA RowsLead ==
    /\ \A r \in RuleRow : r.target \in Name \cup {NoTarget} /\ r.provider \in Providers \cup {Anywhere}
    /\ \A p \in PolicyRow : p.chain \in Seq(Target)
<1>1. ASSUME NEW i \in RowIds, NEW r \in RuleChoices
      PROVE  Row(i, r).target = r.target /\ Row(i, r).provider = r.provider
    BY TablesAssumption DEF Row
<1>2. ASSUME NEW i \in RowIds, NEW p \in PolicyChoices
      PROVE  Row(i, p).chain = p.chain
    BY TablesAssumption DEF Row
<1>3. ASSUME NEW r \in RuleRow
      PROVE  r.target \in Name \cup {NoTarget} /\ r.provider \in Providers \cup {Anywhere}
  <2>1. PICK i \in RowIds, c \in RuleChoices : r = Row(i, c)
      BY DEF RuleRow
  <2> QED
      BY <1>1, <2>1, TablesAssumption
<1>4. ASSUME NEW p \in PolicyRow
      PROVE  p.chain \in Seq(Target)
  <2>1. PICK i \in RowIds, c \in PolicyChoices : p = Row(i, c)
      BY DEF PolicyRow
  <2> QED
      BY <1>2, <2>1, TablesAssumption
<1> QED
    BY <1>3, <1>4

LEMMA TableWritten ==
    ASSUME NEW S, NEW table \in Seq(S), NEW id, NEW row, Row(id, row) \in S
    PROVE  /\ Added(table, id, row) \in Seq(S)
           /\ Replaced(table, id, row) \in Seq(S)
           /\ \A mode : Imported(table, id, row, mode) \in Seq(S)
<1>1. Added(table, id, row) \in Seq(S)
    BY DEF Added
<1>2. Replaced(table, id, row) \in Seq(S)
  <2> DEFINE new == [i \in DOMAIN table |-> IF table[i].id = id THEN Row(id, row) ELSE table[i]]
  <2>1. new \in [1..Len(table) -> S] /\ Len(table) \in Nat
      OBVIOUS
  <2>2. new = Replaced(table, id, row)
      BY DEF Replaced
  <2> HIDE DEF new
  <2>3. new \in Seq(S)
      BY <2>1
  <2> QED
      BY <2>2, <2>3
<1> QED
    BY <1>1, <1>2 DEF Imported

LEMMA RowRemoved ==
    ASSUME NEW S, NEW table \in Seq(S), NEW id, Position(table, id) # {}
    PROVE  Removed(table, id) \in Seq(S)
<1> DEFINE i == CHOOSE j \in Position(table, id) : TRUE
<1>1. i \in 1..Len(table) /\ Removed(table, id) = RemoveAt(table, i)
  <2>1. Position(table, id) \subseteq 1..Len(table)
      BY DEF Position
  <2>2. i \in Position(table, id)
      OBVIOUS
  <2> QED
      BY <2>1, <2>2 DEF Removed
<1> HIDE DEF i
<1>2. SubSeq(table, 1, i - 1) \in Seq(S) /\ SubSeq(table, i + 1, Len(table)) \in Seq(S)
    BY <1>1, SubSeqProperties
<1> QED
    BY <1>1, <1>2 DEF RemoveAt

LEMMA TablesKeep ==
    ASSUME TablesOK, RulesNext \/ PoliciesNext \/ SwitchModel \/ UNCHANGED tableVars
    PROVE  TablesOK'
<1>1. CASE UNCHANGED tableVars
    BY <1>1 DEF TablesOK, tableVars
<1>2. CASE SwitchModel
    BY <1>2 DEF TablesOK, SwitchModel
<1>3. CASE RulesNext
  <2>1. serving' = serving /\ policies' = policies
      BY <1>3 DEF RulesNext, AddRule, UpdateRule, DeleteRule, ImportRule
  <2>2. CASE DeleteRule
      BY <2>1, <2>2, RowRemoved DEF DeleteRule, TablesOK
  <2>3. CASE AddRule \/ UpdateRule \/ ImportRule
    <3>1. PICK id \in RowIds, row \in RuleChoices, mode \in {"skip", "merge", "overwrite"} :
            rules' \in {Added(rules, id, row), Replaced(rules, id, row), Imported(rules, id, row, mode)}
        BY <2>3 DEF AddRule, UpdateRule, ImportRule
    <3>2. Row(id, row) \in RuleRow
        BY DEF RuleRow
    <3> QED
        BY <2>1, <3>1, <3>2, TableWritten DEF TablesOK
  <2> QED
      BY <1>3, <2>2, <2>3 DEF RulesNext
<1>4. CASE PoliciesNext
  <2>1. serving' = serving /\ rules' = rules
      BY <1>4 DEF PoliciesNext, AddPolicy, UpdatePolicy, DeletePolicy, ImportPolicy
  <2>2. CASE DeletePolicy
      BY <2>1, <2>2, RowRemoved DEF DeletePolicy, TablesOK
  <2>3. CASE AddPolicy \/ UpdatePolicy \/ ImportPolicy
    <3>1. PICK id \in RowIds, row \in PolicyChoices, mode \in {"skip", "merge", "overwrite"} :
            policies' \in {Added(policies, id, row), Replaced(policies, id, row), Imported(policies, id, row, mode)}
        BY <2>3 DEF AddPolicy, UpdatePolicy, ImportPolicy
    <3>2. Row(id, row) \in PolicyRow
        BY DEF PolicyRow
    <3> QED
        BY <2>1, <3>1, <3>2, TableWritten DEF TablesOK
  <2> QED
      BY <1>4, <2>2, <2>3 DEF PoliciesNext
<1> QED
    BY <1>1, <1>2, <1>3, <1>4

-----------------------------------------------------------------------------
(* The targets of a chain: one for each upstream they stand for.             *)

TakeNext(f, ts, n) ==
    IF n = 0 THEN <<>>
    ELSE IF \E i \in DOMAIN f[n - 1] : Identity(f[n - 1][i]) = Identity(ts[n])
         THEN f[n - 1] ELSE Append(f[n - 1], ts[n])

LEMMA TakenExists ==
    ASSUME NEW ts, NEW n \in Nat
    PROVE  \E f : f = [i \in 0..n |-> TakeNext(f, ts, i)]
<1> DEFINE Good == {k \in Nat : \E f : f = [i \in 0..k |-> TakeNext(f, ts, i)]}
<1>1. 0 \in Good
  <2> DEFINE f == [i \in 0..0 |-> <<>>]
  <2>1. \A i \in 0..0 : TakeNext(f, ts, i) = <<>>
    <3>1. TakeNext(f, ts, 0) = <<>>
        BY Zenon DEF TakeNext
    <3> QED
        BY <3>1
  <2> QED
      BY <2>1
<1>2. ASSUME NEW k \in Nat, k \in Good PROVE k + 1 \in Good
  <2>1. PICK f : f = [i \in 0..k |-> TakeNext(f, ts, i)]
      BY <1>2
  <2> DEFINE g == [i \in 0..(k + 1) |-> IF i <= k THEN f[i] ELSE TakeNext(f, ts, i)]
  <2>2. ASSUME NEW i \in 0..(k + 1)
        PROVE  TakeNext(g, ts, i) = TakeNext(f, ts, i)
    <3>1. i # 0 => g[i - 1] = f[i - 1]
        OBVIOUS
    <3> HIDE DEF g
    <3> QED
        BY Zenon, <3>1 DEF TakeNext
  <2>3. \A i \in 0..k : f[i] = TakeNext(f, ts, i)
      BY <2>1
  <2>4. \A i \in 0..(k + 1) : g[i] = TakeNext(g, ts, i)
      BY <2>2, <2>3
  <2>5. g = [i \in 0..(k + 1) |-> g[i]]
      OBVIOUS
  <2> HIDE DEF g
  <2>6. \E h : h = [i \in 0..(k + 1) |-> TakeNext(h, ts, i)]
      BY <2>4, <2>5
  <2> QED
      BY <2>6
<1> HIDE DEF Good
<1>3. n \in Good
    BY <1>1, <1>2, Induction
<1> QED
    BY <1>3 DEF Good

LEMMA TakenIs ==
    ASSUME NEW ts, Len(ts) \in Nat, NEW n \in 0..Len(ts)
    PROVE  Taken(ts)[n] = TakeNext(Taken(ts), ts, n)
<1> DEFINE k == Taken(ts)
<1>1. \E f : f = [i \in 0..Len(ts) |-> TakeNext(f, ts, i)]
    BY TakenExists
<1>2. k = [i \in 0..Len(ts) |-> TakeNext(k, ts, i)]
    BY <1>1 DEF Taken, TakeNext
<1> HIDE DEF k
<1>3. k[n] = TakeNext(k, ts, n)
    BY <1>2
<1> QED
    BY <1>3 DEF k

\* What is taken of the first n is theirs, and has each identity of theirs once.
Chosen(ts, n, t) ==
    /\ \A i \in DOMAIN t : \E j \in 1..n : t[i] = ts[j]
    /\ \A i, j \in DOMAIN t : i # j => Identity(t[i]) # Identity(t[j])
    /\ \A j \in 1..n : \E i \in DOMAIN t : Identity(t[i]) = Identity(ts[j])

LEMMA OneMoreTaken ==
    ASSUME NEW S, NEW ts, NEW n \in Nat, NEW t \in Seq(S), ts[n + 1] \in S, Chosen(ts, n, t),
           NEW u, u = IF \E i \in DOMAIN t : Identity(t[i]) = Identity(ts[n + 1])
                      THEN t ELSE Append(t, ts[n + 1])
    PROVE  u \in Seq(S) /\ Chosen(ts, n + 1, u)
<1> DEFINE e == ts[n + 1]
<1>0. e \in S /\ e = ts[n + 1] /\ \A j \in 1..(n + 1) : j \in 1..n \/ j = n + 1
    OBVIOUS
<1>1. 1..n \subseteq 1..(n + 1) /\ n + 1 \in 1..(n + 1)
    OBVIOUS
<1>2. u = IF \E i \in DOMAIN t : Identity(t[i]) = Identity(e) THEN t ELSE Append(t, e)
    OBVIOUS
<1> HIDE DEF e
<1>3. CASE \E i \in DOMAIN t : Identity(t[i]) = Identity(e)
  <2>1. u = t
      BY Zenon, <1>2, <1>3
  <2>2. \A j \in 1..(n + 1) : \E i \in DOMAIN t : Identity(t[i]) = Identity(ts[j])
      BY Zenon, <1>0, <1>3 DEF Chosen
  <2>3. \A i \in DOMAIN t : \E j \in 1..(n + 1) : t[i] = ts[j]
      BY Zenon, <1>1 DEF Chosen
  <2> QED
      BY Zenon, <2>1, <2>2, <2>3 DEF Chosen
<1>4. CASE ~\E i \in DOMAIN t : Identity(t[i]) = Identity(e)
  <2> DEFINE last == Len(t) + 1
  <2>1. u = Append(t, e)
      BY Zenon, <1>2, <1>4
  <2>2. /\ u \in Seq(S) /\ last \in DOMAIN u /\ u[last] = e
        /\ DOMAIN t \subseteq DOMAIN u /\ \A i \in DOMAIN u : i \in DOMAIN t \/ i = last
        /\ \A i \in DOMAIN t : u[i] = t[i]
      BY <1>0, <2>1
  <2> HIDE DEF last
  <2>3. ASSUME NEW i \in DOMAIN u
        PROVE  \E j \in 1..(n + 1) : u[i] = ts[j]
    <3>1. CASE i \in DOMAIN t
      <4>1. PICK j \in 1..n : t[i] = ts[j]
          BY <3>1 DEF Chosen
      <4> QED
          BY Zenon, <1>1, <2>2, <3>1, <4>1
    <3>2. CASE i = last
        BY Zenon, <1>0, <1>1, <2>2, <3>2
    <3> QED
        BY Zenon, <2>2, <3>1, <3>2
  <2>4. ASSUME NEW i \in DOMAIN u, NEW j \in DOMAIN u, i # j
        PROVE  Identity(u[i]) # Identity(u[j])
    <3>1. CASE i \in DOMAIN t /\ j \in DOMAIN t
        BY Zenon, <2>2, <2>4, <3>1 DEF Chosen
    <3>2. CASE i = last /\ j \in DOMAIN t
        BY Zenon, <1>4, <2>2, <3>2
    <3>3. CASE i \in DOMAIN t /\ j = last
        BY Zenon, <1>4, <2>2, <3>3
    <3> QED
        BY Zenon, <2>2, <2>4, <3>1, <3>2, <3>3
  <2>5. \A j \in 1..(n + 1) : \E i \in DOMAIN u : Identity(u[i]) = Identity(ts[j])
      BY Zenon, <1>0, <2>2 DEF Chosen
  <2> QED
      BY Zenon, <2>2, <2>3, <2>4, <2>5 DEF Chosen
<1> QED
    BY <1>3, <1>4

LEMMA CandidatesAre ==
    ASSUME NEW S, NEW primary \in S, NEW chain \in Seq(S)
    PROVE  /\ Candidates(primary, chain) \in Seq(S)
           /\ \A i, j \in DOMAIN Candidates(primary, chain) :
                i # j => Identity(Candidates(primary, chain)[i]) # Identity(Candidates(primary, chain)[j])
           /\ \A j \in DOMAIN chain : \E i \in DOMAIN Candidates(primary, chain) :
                Identity(Candidates(primary, chain)[i]) = Identity(chain[j])
<1> DEFINE ts == <<primary>> \o chain
           Good == {n \in Nat : n <= Len(ts) => /\ Taken(ts)[n] \in Seq(S)
                                               /\ Chosen(ts, n, Taken(ts)[n])}
<1>1. ts \in Seq(S) /\ Len(ts) = Len(chain) + 1 /\ Len(chain) \in Nat
      /\ \A j \in DOMAIN chain : ts[j + 1] = chain[j]
    OBVIOUS
<1> HIDE DEF ts
<1>2. 0 \in Good
  <2>1. Taken(ts)[0] = TakeNext(Taken(ts), ts, 0)
      BY <1>1, TakenIs
  <2>2. Taken(ts)[0] = <<>>
      BY Zenon, <2>1 DEF TakeNext
  <2>3. DOMAIN <<>> = {} /\ 1..0 = {} /\ <<>> \in Seq(S)
      OBVIOUS
  <2>4. Chosen(ts, 0, <<>>)
      BY Zenon, <2>3 DEF Chosen
  <2> QED
      BY <2>2, <2>3, <2>4
<1>3. ASSUME NEW n \in Nat, n \in Good PROVE n + 1 \in Good
  <2> SUFFICES ASSUME n + 1 <= Len(ts)
               PROVE  Taken(ts)[n + 1] \in Seq(S) /\ Chosen(ts, n + 1, Taken(ts)[n + 1])
      OBVIOUS
  <2>1. Taken(ts)[n] \in Seq(S) /\ Chosen(ts, n, Taken(ts)[n]) /\ ts[n + 1] \in S
      BY <1>1, <1>3
  <2>2. n + 1 \in 0..Len(ts) /\ Len(ts) \in Nat /\ n + 1 # 0 /\ (n + 1) - 1 = n
      BY <1>1
  <2>3. Taken(ts)[n + 1] = IF \E i \in DOMAIN Taken(ts)[n] : Identity(Taken(ts)[n][i]) = Identity(ts[n + 1])
                           THEN Taken(ts)[n] ELSE Append(Taken(ts)[n], ts[n + 1])
    <3>1. Taken(ts)[n + 1] = TakeNext(Taken(ts), ts, n + 1)
        BY <2>2, TakenIs
    <3> QED
        BY Zenon, <2>2, <3>1 DEF TakeNext
  <2> QED
      BY <2>1, <2>3, OneMoreTaken
<1> HIDE DEF Good
<1>4. Len(ts) \in Good
    BY <1>1, <1>2, <1>3, Induction
<1>5. Taken(ts)[Len(ts)] \in Seq(S) /\ Chosen(ts, Len(ts), Taken(ts)[Len(ts)])
    BY <1>1, <1>4 DEF Good
<1>6. Candidates(primary, chain) = Taken(ts)[Len(ts)]
    BY DEF Candidates, ts
<1>7. \A j \in DOMAIN chain : j + 1 \in 1..Len(ts)
    BY <1>1
<1> QED
    BY <1>1, <1>5, <1>6, <1>7 DEF Chosen

\* Where a name leads is a provider that serves it, or nowhere.
LEMMA ProviderIs ==
    ASSUME TablesOK, NEW name \in Name
    PROVE  /\ Provider(name) \in Providers \cup {Anywhere}
           /\ Provider(name) # Anywhere => /\ <<Provider(name), name.model>> \in serving
                                         /\ name.provider \in {Provider(name), Anywhere}
           /\ Composite(name) /\ <<name.provider, name.model>> \in serving => Provider(name) = name.provider
<1> DEFINE able == {p \in Providers : <<p, name.model>> \in serving /\ name.provider \in {p, Anywhere}}
<1>1. able \subseteq Nat /\ able \subseteq Providers
    BY TablesAssumption
<1>2. Provider(name) = IF able = {} THEN Anywhere ELSE Min(able)
    BY DEF Provider
<1>3. Composite(name) /\ <<name.provider, name.model>> \in serving => able = {name.provider}
    BY DEF TablesOK, Composite, Anywhere
<1>4. able # {} => Min(able) \in able
  <2> HIDE DEF able
  <2> QED
      BY <1>1, MinIs
<1>5. \A p \in able : p \in Providers /\ <<p, name.model>> \in serving /\ name.provider \in {p, Anywhere}
    OBVIOUS
<1> HIDE DEF able
<1>6. CASE able = {}
    BY <1>2, <1>3, <1>6
<1>7. CASE able # {}
    BY <1>2, <1>3, <1>4, <1>5, <1>7
<1> QED
    BY <1>6, <1>7

\* Where an attempt reaches anything at all, its identity says where.
LEMMA IdentityIsUpstream ==
    ASSUME TablesOK, NEW t \in Target, Upstream(t) \in serving \/ Identity(t) \in serving
    PROVE  Identity(t) = Upstream(t)
<1>1. t.name \in Name /\ t.name.provider \in Providers \cup {Anywhere}
    BY DEF Target, Name
<1>2. \A m : <<Anywhere, m>> \notin serving
    BY TablesAssumption DEF TablesOK, Anywhere
<1>3. CASE t.provider # Anywhere
    BY <1>3 DEF Identity, Upstream
<1>4. CASE t.provider = Anywhere /\ t.name.provider # Anywhere
  <2>1. Upstream(t) = <<Provider(t.name), t.name.model>> /\ Identity(t) = <<t.name.provider, t.name.model>>
      BY <1>4 DEF Identity, Upstream
  <2>2. CASE Identity(t) \in serving
      BY <1>1, <1>4, <2>1, <2>2, ProviderIs DEF Composite
  <2>3. CASE Upstream(t) \in serving
    <3>1. Provider(t.name) # Anywhere
        BY <1>2, <2>1, <2>3
    <3>2. t.name.provider = Provider(t.name)
        BY <1>1, <1>4, <3>1, ProviderIs
    <3> QED
        BY <2>1, <3>2
  <2> QED
      BY <2>2, <2>3
<1>5. CASE t.provider = Anywhere /\ t.name.provider = Anywhere
  <2>1. Bare(t.name) = t.name
      BY <1>1, <1>5 DEF Bare, Name
  <2> QED
      BY <1>5, <2>1 DEF Identity, Upstream
<1> QED
    BY <1>3, <1>4, <1>5

LEMMA ChainIs ==
    ASSUME TablesOK, NEW t, NEW trigger
    PROVE  Chain(t, trigger) \in Seq(Target)
<1> DEFINE suiting == {i \in DOMAIN policies : Suits(policies[i], t, trigger)}
           special == {i \in suiting : ~General(policies[i])}
           found == IF special = {} THEN suiting ELSE special
<1>1. Chain(t, trigger) = IF suiting = {} THEN <<>> ELSE policies[Min(found)].chain
    BY DEF Chain
<1>2. suiting \subseteq DOMAIN policies /\ special \subseteq suiting
    OBVIOUS
<1>3. DOMAIN policies \subseteq Nat /\ \A i \in DOMAIN policies : policies[i] \in PolicyRow
    BY DEF TablesOK
<1>4. suiting # {} => found # {} /\ found \subseteq DOMAIN policies
    BY <1>2
<1> HIDE DEF suiting, found
<1>5. CASE suiting = {}
    BY <1>1, <1>5
<1>6. CASE suiting # {}
  <2>1. Min(found) \in found
      BY <1>3, <1>4, <1>6, MinIs
  <2>2. policies[Min(found)] \in PolicyRow
      BY <1>3, <1>4, <1>6, <2>1
  <2> QED
      BY <1>1, <1>6, <2>2, RowsLead
<1> QED
    BY <1>5, <1>6

LEMMA UpstreamsApart ==
    ASSUME TablesOK
    PROVE  EachUpstreamOnce
<1> SUFFICES ASSUME NEW name \in Name, NEW p \in Providers \cup {Anywhere}, NEW trigger
             PROVE  LET t == [name |-> name, provider |-> p]
                        ts == Attempts(t, trigger)
                        at == {i \in DOMAIN ts : Upstream(ts[i]) \in serving}
                    IN /\ \A i, j \in at : i # j => Upstream(ts[i]) # Upstream(ts[j])
                       /\ \A x \in ToSet(Chain(Foremost(t), trigger)) :
                            Upstream(x) \in serving => \E i \in at : Upstream(ts[i]) = Upstream(x)
    BY DEF EachUpstreamOnce
<1> DEFINE t == [name |-> name, provider |-> p]
           first == Foremost(t)
           named == Chain(first, trigger)
           chain == IF named = <<>> /\ trigger = "timeout" THEN Chain(first, "") ELSE named
           ts == Attempts(t, trigger)
<1>1. first \in Target
  <2>1. t \in Target
      BY DEF Target
  <2>2. Upstream(t)[1] \in Providers \cup {Anywhere}
      BY ProviderIs DEF Upstream
  <2> HIDE DEF t
  <2> QED
      BY <2>1, <2>2 DEF Foremost, Target
<1>2. named \in Seq(Target) /\ chain \in Seq(Target)
    BY ChainIs
<1>3. ts = Candidates(first, chain)
    BY DEF Attempts
<1>4. named # <<>> => chain = named
    OBVIOUS
<1> HIDE DEF first, named, chain, ts
<1>5. /\ ts \in Seq(Target)
      /\ \A i, j \in DOMAIN ts : i # j => Identity(ts[i]) # Identity(ts[j])
      /\ \A j \in DOMAIN chain : \E i \in DOMAIN ts : Identity(ts[i]) = Identity(chain[j])
    BY <1>1, <1>2, <1>3, CandidatesAre
<1>6. \A i \in DOMAIN ts : ts[i] \in Target
    BY <1>5
<1>7. ASSUME NEW i \in DOMAIN ts, NEW j \in DOMAIN ts, i # j, Upstream(ts[i]) \in serving, Upstream(ts[j]) \in serving
      PROVE  Upstream(ts[i]) # Upstream(ts[j])
  <2>1. Identity(ts[i]) = Upstream(ts[i]) /\ Identity(ts[j]) = Upstream(ts[j])
      BY <1>6, <1>7, IdentityIsUpstream
  <2> QED
      BY <1>5, <1>7, <2>1
<1>8. ASSUME NEW x \in ToSet(named), Upstream(x) \in serving
      PROVE  \E i \in DOMAIN ts : Upstream(ts[i]) \in serving /\ Upstream(ts[i]) = Upstream(x)
  <2>1. PICK j \in DOMAIN named : x = named[j]
      BY DEF ToSet
  <2>2. x \in Target /\ named # <<>>
      BY <1>2, <2>1
  <2>3. PICK i \in DOMAIN ts : Identity(ts[i]) = Identity(x)
      BY <1>4, <1>5, <2>1, <2>2
  <2>4. Identity(x) = Upstream(x)
      BY <1>8, <2>2, IdentityIsUpstream
  <2>5. Identity(ts[i]) = Upstream(ts[i])
      BY <1>6, <1>8, <2>3, <2>4, IdentityIsUpstream
  <2> QED
      BY <1>8, <2>3, <2>4, <2>5
<1> QED
    BY <1>7, <1>8 DEF ts, named, first

-----------------------------------------------------------------------------
(* Requests.                                                                 *)

Points == {"untranslated", "native", "preprocessing", "preprocessing again", "sent", "denied"}
Routable == [pc : Points, user : Users, key : ApiKeys, allowed : AllowLists, name : Name, target : Name,
         wanted : Providers \cup {Anywhere}, provider : Providers \cup {Anywhere},
         given : BOOLEAN, limit : {0, 1}, looks : Seq(Seq(RuleRow))]

\* Where the looks a request has had at the rules lead it.
AsRuled(q) ==
    /\ q.target = OrElse(Finally(q).target, NoTarget, OrElse(Initially(q).target, NoTarget, q.name))
    /\ q.provider = OrElse(Finally(q).provider, Anywhere, OrElse(Initially(q).provider, Anywhere, q.wanted))

\* Where a request stands: not yet routed, or routed and admitted as such, but
\* for what a rule says to its second look only.
Stands(q) ==
    /\ q.pc \in {"untranslated", "preprocessing"} =>
        q.looks = <<>> /\ q.target = q.name /\ q.provider = q.wanted
    /\ q.pc \in {"native", "preprocessing again"} =>
        Len(q.looks) = 1 /\ AsRuled(q) /\ Admitted(q)
    /\ q.pc = "sent" => AsRuled(q) /\ (Overruled(q) \/ Admitted(q))

RequestOK(q) == q = Idle \/ (q \in Routable /\ Stands(q))
RequestsOK ==
    /\ request = [r \in Requests |-> request[r]]
    /\ \A r \in Requests : RequestOK(request[r])

LEMMA Fields ==
    ASSUME NEW q \in Routable
    PROVE  /\ q.pc \in Points /\ q.user \in Users /\ q.key \in ApiKeys /\ q.allowed \in AllowLists
           /\ q.name \in Name /\ q.target \in Name
           /\ q.wanted \in Providers \cup {Anywhere} /\ q.provider \in Providers \cup {Anywhere}
           /\ q.given \in BOOLEAN /\ q.limit \in {0, 1} /\ q.looks \in Seq(Seq(RuleRow))
BY DEF Routable

\* Who asks for what: all that the rules are held against.
LEMMA RulingAlike ==
    ASSUME NEW q, NEW d, d.user = q.user, d.key = q.key, d.name = q.name, NEW table
    PROVE  Ruling(d, table) = Ruling(q, table)
BY DEF Ruling

\* What one look at the rules makes of a request.
LEMMA RoutedIs ==
    ASSUME TablesOK, NEW q \in Routable
    PROVE  /\ Routed(q) \in Routable
           /\ Routed(q).looks = Append(q.looks, rules)
           /\ Routed(q).pc = q.pc /\ Routed(q).user = q.user /\ Routed(q).key = q.key
           /\ Routed(q).name = q.name /\ Routed(q).allowed = q.allowed /\ Routed(q).wanted = q.wanted
           /\ Routed(q).target = OrElse(Ruling(q, rules).target, NoTarget, q.target)
           /\ Routed(q).provider = OrElse(Ruling(q, rules).provider, Anywhere, q.provider)
<1> DEFINE hits == Deciding(q.user, q.key, q.name)
           rule == rules[Min(hits)]
           t == Route(q.user, q.key, q.name, q.target)
           target == t.name
           provider == IF t.provider # Anywhere THEN t.provider ELSE q.provider
           moved == [q EXCEPT !.target = target, !.provider = provider]
<1>1. hits # {} => rule \in RuleRow
  <2>1. hits \subseteq DOMAIN rules /\ DOMAIN rules \subseteq Nat
      BY DEF Deciding, TablesOK
  <2> HIDE DEF hits
  <2>2. hits # {} => Min(hits) \in hits
      BY <2>1, MinIs
  <2> QED
      BY <2>1, <2>2 DEF TablesOK
<1>2. t = IF hits = {} THEN [name |-> q.target, provider |-> Anywhere]
          ELSE [name |-> IF rule.target = NoTarget THEN q.target ELSE rule.target, provider |-> rule.provider]
    BY DEF Route
<1>3. Ruling(q, rules) = IF hits = {} THEN NoRule ELSE [target |-> rule.target, provider |-> rule.provider]
    BY DEF Ruling, Deciding
<1> HIDE DEF hits, rule, t
<1>4. /\ target = IF hits = {} \/ rule.target = NoTarget THEN q.target ELSE rule.target
      /\ t.provider = IF hits = {} THEN Anywhere ELSE rule.provider
    BY <1>2
<1>5. target \in Name /\ provider \in Providers \cup {Anywhere}
    BY <1>1, <1>4, RowsLead, Fields
<1>6. /\ target = OrElse(Ruling(q, rules).target, NoTarget, q.target)
      /\ provider = OrElse(Ruling(q, rules).provider, Anywhere, q.provider)
    BY <1>3, <1>4 DEF OrElse, NoRule
<1> HIDE DEF target, provider
<1>7. ASSUME NEW a \in Name, NEW b \in Providers \cup {Anywhere}
      PROVE  [q EXCEPT !.target = a, !.provider = b] \in Routable
    BY Zenon DEF Routable
<1>8. moved \in Routable
    BY <1>5, <1>7
<1>9. /\ moved.pc = q.pc /\ moved.user = q.user /\ moved.key = q.key /\ moved.name = q.name
      /\ moved.allowed = q.allowed /\ moved.wanted = q.wanted /\ moved.looks = q.looks
      /\ moved.target = target /\ moved.provider = provider
    BY DEF Routable
<1>10. Routed(q) = [moved EXCEPT !.limit = Limit(moved), !.looks = Append(moved.looks, rules)]
    BY Zenon DEF Routed, moved, target, provider, t
<1> HIDE DEF moved
<1>11. Limit(moved) \in {0, 1}
    BY <1>8, Fields DEF Limit
<1>12. ASSUME NEW a \in {0, 1}, NEW b \in Seq(Seq(RuleRow))
       PROVE  [moved EXCEPT !.limit = a, !.looks = b] \in Routable
    BY Zenon, <1>8 DEF Routable
<1>13. Append(moved.looks, rules) \in Seq(Seq(RuleRow))
    BY <1>8, Fields DEF TablesOK
<1>14. Routed(q) \in Routable
    BY <1>10, <1>11, <1>12, <1>13
<1>15. /\ Routed(q).pc = q.pc /\ Routed(q).user = q.user /\ Routed(q).key = q.key /\ Routed(q).name = q.name
       /\ Routed(q).allowed = q.allowed /\ Routed(q).wanted = q.wanted
       /\ Routed(q).target = target /\ Routed(q).provider = provider
       /\ Routed(q).looks = Append(q.looks, rules)
    BY <1>8, <1>9, <1>10 DEF Routable
<1> QED
    BY <1>6, <1>14, <1>15

LEMMA Appended ==
    ASSUME NEW S, NEW s \in Seq(S), NEW e \in S, Len(s) = 1
    PROVE  LET t == Append(s, e) IN Len(t) = 2 /\ t[1] = s[1] /\ t[2] = e
<1>1. /\ Len(Append(s, e)) = Len(s) + 1
      /\ \A i \in 1..Len(s) : Append(s, e)[i] = s[i]
      /\ Append(s, e)[Len(s) + 1] = e
    BY AppendProperties
<1>2. PICK t : t = Append(s, e)
    OBVIOUS
<1>3. Len(t) = 2 /\ t[1] = s[1] /\ t[2] = e
    BY <1>1, <1>2
<1> QED
    BY <1>2, <1>3

\* The first look leads where the rules say; the second, too, or else leaves
\* the request where it was.
LEMMA LooksLead ==
    ASSUME TablesOK, NEW q \in Routable
    PROVE  /\ q.looks = <<>> /\ q.target = q.name /\ q.provider = q.wanted =>
                AsRuled(Routed(q)) /\ Len(Routed(q).looks) = 1
           /\ Len(q.looks) = 1 /\ AsRuled(q) =>
                /\ AsRuled(Routed(q))
                /\ Overruled(Routed(q)) \/ (Routed(q).target = q.target /\ Routed(q).provider = q.provider)
<1>1. PICK d : d = Routed(q)
    OBVIOUS
<1>2. /\ d.looks = Append(q.looks, rules) /\ d.user = q.user /\ d.key = q.key /\ d.name = q.name
      /\ d.wanted = q.wanted
      /\ d.target = OrElse(Ruling(q, rules).target, NoTarget, q.target)
      /\ d.provider = OrElse(Ruling(q, rules).provider, Anywhere, q.provider)
    BY <1>1, RoutedIs
<1>3. q.looks \in Seq(Seq(RuleRow)) /\ rules \in Seq(RuleRow)
    BY Fields DEF TablesOK
<1>4. \A table : Ruling(d, table) = Ruling(q, table)
    BY <1>2, RulingAlike
<1>5. ASSUME q.looks = <<>>, q.target = q.name, q.provider = q.wanted
      PROVE  AsRuled(d) /\ Len(d.looks) = 1
  <2>1. Len(d.looks) = 1 /\ d.looks[1] = rules
      BY <1>2, <1>5
  <2>2. Initially(d) = Ruling(q, rules) /\ Finally(d) = Ruling(q, rules)
      BY <1>4, <2>1 DEF Initially, Finally
  <2> QED
      BY <1>2, <1>5, <2>1, <2>2 DEF AsRuled, OrElse
<1>6. ASSUME Len(q.looks) = 1, AsRuled(q)
      PROVE  AsRuled(d) /\ (Overruled(d) \/ (d.target = q.target /\ d.provider = q.provider))
  <2>1. Len(d.looks) = 2 /\ d.looks[1] = q.looks[1] /\ d.looks[2] = rules
      BY <1>2, <1>3, <1>6, Appended
  <2>2. Initially(d) = Initially(q) /\ Finally(d) = Ruling(q, rules)
      BY <1>4, <2>1 DEF Initially, Finally
  <2>3. Finally(q) = Initially(q)
      BY <1>6 DEF Initially, Finally
  <2>4. /\ q.target = OrElse(Initially(d).target, NoTarget, d.name)
        /\ q.provider = OrElse(Initially(d).provider, Anywhere, d.wanted)
      BY <1>2, <1>6, <2>2, <2>3 DEF AsRuled, OrElse
  <2>5. /\ d.target = OrElse(Finally(d).target, NoTarget, q.target)
        /\ d.provider = OrElse(Finally(d).provider, Anywhere, q.provider)
      BY <1>2, <2>2
  <2>6. AsRuled(d)
      BY <2>4, <2>5 DEF AsRuled
  <2>7. Finally(d) \in {Initially(d), NoRule} => d.target = q.target /\ d.provider = q.provider
      BY <2>4, <2>5 DEF OrElse, NoRule
  <2> QED
      BY <2>6, <2>7 DEF Overruled
<1> QED
    BY <1>1, <1>5, <1>6

\* A request is judged by what it holds of its key, its names and the rules.
LEMMA JudgedAlike ==
    ASSUME NEW q, NEW d, d.user = q.user, d.key = q.key, d.allowed = q.allowed, d.name = q.name,
           d.target = q.target, d.provider = q.provider
    PROVE  /\ Admitted(d) <=> Admitted(q)
           /\ d.looks = q.looks /\ d.wanted = q.wanted =>
                (AsRuled(d) <=> AsRuled(q)) /\ (Overruled(d) <=> Overruled(q))
<1>1. Effective(d) = Effective(q)
    BY DEF Effective
<1>2. Admitted(d) <=> Admitted(q)
    BY <1>1 DEF Admitted
<1>3. \A table : Ruling(d, table) = Ruling(q, table)
    BY RulingAlike
<1>4. d.looks = q.looks => Initially(d) = Initially(q) /\ Finally(d) = Finally(q)
    BY <1>3 DEF Initially, Finally
<1> QED
    BY <1>2, <1>4 DEF AsRuled, Overruled

LEMMA AtPoint ==
    ASSUME NEW q \in Routable, NEW pc \in Points
    PROVE  LET d == [q EXCEPT !.pc = pc]
           IN  /\ d \in Routable /\ d.pc = pc /\ d.looks = q.looks
               /\ Admitted(d) <=> Admitted(q)
               /\ AsRuled(d) <=> AsRuled(q)
               /\ Overruled(d) <=> Overruled(q)
<1> DEFINE d == [q EXCEPT !.pc = pc]
<1>1. d \in Routable
    BY Zenon DEF Routable
<1>2. /\ d.pc = pc /\ d.user = q.user /\ d.key = q.key /\ d.allowed = q.allowed /\ d.wanted = q.wanted
      /\ d.name = q.name /\ d.target = q.target /\ d.provider = q.provider /\ d.looks = q.looks
    BY DEF Routable
<1> HIDE DEF d
<1>3. (Admitted(d) <=> Admitted(q)) /\ (AsRuled(d) <=> AsRuled(q)) /\ (Overruled(d) <=> Overruled(q))
    BY <1>2, JudgedAlike
<1>4. /\ d \in Routable /\ d.pc = pc /\ d.looks = q.looks
      /\ Admitted(d) <=> Admitted(q)
      /\ AsRuled(d) <=> AsRuled(q)
      /\ Overruled(d) <=> Overruled(q)
    BY <1>1, <1>2, <1>3
<1> QED
    BY <1>4 DEF d

-----------------------------------------------------------------------------
(* The inductive invariant.                                                  *)
IInv == AccountsOK /\ TablesOK /\ RequestsOK

LEMMA RequestMoved ==
    ASSUME RequestsOK, NEW r \in Requests, NEW q, RequestOK(q), request' = [request EXCEPT ![r] = q]
    PROVE  RequestsOK'
<1>1. request = [s \in Requests |-> request[s]]
    BY DEF RequestsOK
<1>2. DOMAIN request = Requests
    BY <1>1
<1>3. request' = [s \in Requests |-> request'[s]]
    BY <1>2
<1>4. ASSUME NEW s \in Requests PROVE RequestOK(request'[s])
  <2>1. CASE s = r
    <3>1. request'[s] = q
        BY <1>2, <2>1
    <3> QED
        BY <3>1
  <2>2. CASE s # r
    <3>1. request'[s] = request[s]
        BY <1>2, <2>2
    <3> QED
        BY <3>1 DEF RequestsOK
  <2> QED
      BY <2>1, <2>2
<1> QED
    BY <1>3, <1>4 DEF RequestsOK

LEMMA ForwardKeeps ==
    ASSUME IInv, NEW r \in Requests, Forward(r)
    PROVE  IInv'
<1>1. PICK q : Become(r, q)
    BY DEF Forward, Authenticate, RouteNative, GoTranslated, RouteOnce, RouteAgain
<1>2. AccountsOK' /\ TablesOK'
    BY <1>1 DEF IInv, Become, accountVars, tableVars, AccountsOK, UsersOK, KeysOK, ImportOK, KeysHaveOwners,
                Held, UserExists, TablesOK
<1>3. ASSUME NEW d, RequestOK(d), Become(r, d) PROVE RequestsOK'
    BY <1>3, RequestMoved DEF IInv, Become
<1>4. ASSUME NEW pc, pc # "idle", request[r].pc = pc
      PROVE  request[r] \in Routable /\ Stands(request[r])
  <2>1. Idle.pc = "idle"
      BY DEF Idle
  <2> QED
      BY <1>4, <2>1 DEF IInv, RequestsOK, RequestOK
<1> SUFFICES RequestsOK'
    BY <1>2 DEF IInv
<1>5. CASE Authenticate(r)
  <2>1. PICK k \in ApiKeys, name \in Asked, wanted \in Providers \cup {Anywhere},
             twice \in BOOLEAN, given \in BOOLEAN :
        /\ Authenticates(k)
        /\ Become(r, [pc |-> IF twice THEN "untranslated" ELSE "preprocessing",
                      user |-> keys[k].owner, key |-> k, allowed |-> keys[k].allowed,
                      name |-> name, target |-> name, wanted |-> wanted, provider |-> wanted,
                      given |-> given, limit |-> 0, looks |-> <<>>])
      BY <1>5 DEF Authenticate
  <2> DEFINE d == [pc |-> IF twice THEN "untranslated" ELSE "preprocessing",
                   user |-> keys[k].owner, key |-> k, allowed |-> keys[k].allowed,
                   name |-> name, target |-> name, wanted |-> wanted, provider |-> wanted,
                   given |-> given, limit |-> 0, looks |-> <<>>]
  <2>2. keys[k] \in KeyRow
      BY <2>1 DEF Authenticates, Held, IInv, AccountsOK, KeysOK
  <2>3. keys[k].owner \in Users /\ keys[k].allowed \in AllowLists /\ name \in Name
      BY <2>2, PolicyAssumption DEF KeyRow
  <2>4. PICK pc \in {"untranslated", "preprocessing"} : pc = IF twice THEN "untranslated" ELSE "preprocessing"
      OBVIOUS
  <2>5. d.pc = pc /\ d.looks = <<>> /\ d.target = d.name /\ d.provider = d.wanted
      BY <2>4
  <2>6. PICK looks \in Seq(Seq(RuleRow)) : looks = <<>>
    <3> HIDE DEF d
    <3> QED
        BY EmptySeq
  <2>7. d \in Routable
      BY Zenon, <2>3, <2>4, <2>6 DEF Routable, Points
  <2>8. Become(r, d)
      BY <2>1
  <2> HIDE DEF d
  <2>9. RequestOK(d)
      BY <2>4, <2>5, <2>7 DEF RequestOK, Stands
  <2> QED
      BY <1>3, <2>8, <2>9
<1>6. CASE RouteNative(r) \/ RouteOnce(r)
  <2>1. /\ request[r] \in Routable /\ request[r].looks = <<>>
        /\ request[r].target = request[r].name /\ request[r].provider = request[r].wanted
      BY <1>4, <1>6 DEF RouteNative, RouteOnce, Stands
  <2>2. PICK q1 : q1 = Routed(request[r])
      OBVIOUS
  <2>3. q1 \in Routable /\ AsRuled(q1) /\ Len(q1.looks) = 1
      BY <2>1, <2>2, RoutedIs, LooksLead DEF IInv
  <2>4. PICK pc \in {"native", "sent", "denied"} :
          (pc # "denied" => Admitted(q1)) /\ Become(r, [q1 EXCEPT !.pc = pc])
      BY <1>6, <2>2 DEF RouteNative, RouteOnce
  <2>5. pc \in Points
      BY DEF Points
  <2>6. RequestOK([q1 EXCEPT !.pc = pc])
      BY <2>3, <2>4, <2>5, AtPoint DEF RequestOK, Stands
  <2> QED
      BY <1>3, <2>4, <2>6
<1>7. CASE GoTranslated(r)
  <2>1. request[r] \in Routable /\ Len(request[r].looks) = 1 /\ AsRuled(request[r]) /\ Admitted(request[r])
      BY <1>4, <1>7 DEF GoTranslated, Stands
  <2>2. RequestOK([request[r] EXCEPT !.pc = "preprocessing again"])
      BY <2>1, AtPoint DEF RequestOK, Stands, Points
  <2> QED
      BY <1>3, <1>7, <2>2 DEF GoTranslated
<1>8. CASE RouteAgain(r)
  <2>1. request[r] \in Routable /\ Len(request[r].looks) = 1 /\ AsRuled(request[r]) /\ Admitted(request[r])
      BY <1>4, <1>8 DEF RouteAgain, Stands
  <2>2. PICK q1 : q1 = Routed(request[r])
      OBVIOUS
  <2>3. /\ q1 \in Routable
        /\ q1.user = request[r].user /\ q1.key = request[r].key /\ q1.allowed = request[r].allowed
        /\ q1.name = request[r].name
      BY <2>1, <2>2, RoutedIs DEF IInv
  <2>4. /\ AsRuled(q1)
        /\ Overruled(q1) \/ (q1.target = request[r].target /\ q1.provider = request[r].provider)
      BY <2>1, <2>2, LooksLead DEF IInv
  <2>5. Overruled(q1) \/ Admitted(q1)
      BY <2>1, <2>3, <2>4, JudgedAlike
  <2>6. Become(r, [q1 EXCEPT !.pc = "sent"])
      BY <1>8, <2>2 DEF RouteAgain
  <2>7. RequestOK([q1 EXCEPT !.pc = "sent"])
      BY <2>3, <2>4, <2>5, AtPoint DEF RequestOK, Stands, Points
  <2> QED
      BY <1>3, <2>6, <2>7
<1> QED
    BY <1>5, <1>6, <1>7, <1>8 DEF Forward

\* The lists know names, whoever asks: a bare name on them stands for all its providers.
LEMMA ListedAnywhere ==
    ASSUME NEW allowed, NEW name \in Name, ~Composite(name), Allows(allowed, name), NEW p
    PROVE  Allows(allowed, [provider |-> p, model |-> name.model])
<1>1. CASE allowed = Anything
    BY <1>1 DEF Allows
<1>2. CASE Lists(allowed, name)
  <2>1. PICK a \in allowed : IF Composite(a) THEN a = name ELSE a.model = name.model
      BY <1>2 DEF Lists
  <2>2. ~Composite(a) /\ a.model = name.model
      BY <2>1
  <2>3. Lists(allowed, [provider |-> p, model |-> name.model])
      BY <2>2 DEF Lists
  <2> QED
      BY <2>3 DEF Allows
<1> QED
    BY <1>1, <1>2 DEF Allows

\* A request that was admitted where it is led goes to a target its key may have.
LEMMA AdmittedGoes ==
    ASSUME TablesOK, NEW q \in Routable, AsRuled(q), Admitted(q), ~Overruled(q),
           NEW to, to = Upstream([name |-> q.target, provider |-> q.provider]), to[1] # Anywhere
    PROVE  \/ Allows(q.allowed, [provider |-> to[1], model |-> to[2]])
           \/ Allows(q.allowed, q.name) /\ Initially(q) # NoRule
           \/ Beside(q)
<1>1. q.target \in Name /\ q.provider \in Providers \cup {Anywhere}
    BY Fields
<1>2. /\ to[1] = IF q.provider # Anywhere THEN q.provider ELSE Provider(q.target)
      /\ to[2] = q.target.model
    BY DEF Upstream
<1>3. \A p : [provider |-> p, model |-> q.target.model] = [q.target EXCEPT !.provider = p]
    BY <1>1 DEF Name
<1>4. q.target = [provider |-> q.target.provider, model |-> q.target.model]
    BY <1>1 DEF Name
<1>5. Allows(q.allowed, q.name) \/ Allows(q.allowed, Effective(q))
    BY DEF Admitted
<1>6. Initially(q) = NoRule => q.target = q.name
  <2>1. Initially(q) = NoRule => Finally(q) = NoRule
      BY DEF Overruled
  <2> QED
      BY <2>1 DEF AsRuled, OrElse, NoRule
<1>7. Composite(q.target) /\ q.provider \notin {Anywhere, q.target.provider} => Beside(q)
    BY <1>5 DEF Beside, Effective
<1>8. CASE Initially(q) = NoRule /\ Allows(q.allowed, q.name) /\ ~Composite(q.target)
    BY <1>1, <1>2, <1>6, <1>8, ListedAnywhere
<1>9. Initially(q) = NoRule /\ Allows(q.allowed, q.name) /\ Composite(q.target) => Allows(q.allowed, Effective(q))
    BY <1>6 DEF Effective
<1> SUFFICES ASSUME Allows(q.allowed, Effective(q)),
                    ~(Composite(q.target) /\ q.provider \notin {Anywhere, q.target.provider})
             PROVE  Allows(q.allowed, [provider |-> to[1], model |-> to[2]])
    BY <1>5, <1>7, <1>8, <1>9
<1>10. CASE Composite(q.target)
  <2>1. Effective(q) = q.target
      BY <1>10 DEF Effective
  <2>2. to[1] = q.target.provider
    <3>1. CASE q.provider = Anywhere
      <4>1. q.target.provider \in {Provider(q.target), Anywhere}
          BY <1>1, <1>2, <3>1, ProviderIs
      <4> QED
          BY <1>2, <1>10, <3>1, <4>1 DEF Composite
    <3>2. CASE q.provider # Anywhere
        BY <1>2, <1>10, <3>2
    <3> QED
        BY <3>1, <3>2
  <2> QED
      BY <1>2, <1>4, <2>1, <2>2
<1>11. CASE ~Composite(q.target) /\ q.provider = Anywhere
  <2>1. Effective(q) = q.target
      BY <1>11 DEF Effective
  <2> QED
      BY <1>1, <1>2, <1>11, <2>1, ListedAnywhere
<1>12. CASE ~Composite(q.target) /\ q.provider # Anywhere
  <2>1. Effective(q) = [q.target EXCEPT !.provider = q.provider]
      BY <1>12 DEF Effective
  <2> QED
      BY <1>2, <1>3, <1>12, <2>1
<1> QED
    BY <1>10, <1>11, <1>12

-----------------------------------------------------------------------------
(* Images. What a request has been told of an image is of that image, and    *)
(* once it has been rewritten the words it has are those it should have.     *)

ToldOK(told) == \A p \in DOMAIN told : told[p].of = p /\ told[p].kind \in {"described", "failed"}

Earlier(ms, i, k) == (UNION {ToSet(ms[j].pics) : j \in (TurnStart(ms) + 1)..(i - 1)})
                     \cup ToSet(SubSeq(ms[i].pics, 1, k - 1))
WordOK(q, i, k, w) ==
    /\ w.of = q.scene[i].pics[k]
    /\ i > TurnStart(q.scene) /\ q.scene[i].role \in {"user", "tool"} =>
        \/ w.kind \in {"described", "failed"}
        \/ Cardinality(Earlier(q.scene, i, k)) >= q.limit
    /\ ~(i > TurnStart(q.scene)) => w.kind \in {"cached", "removed"}
WordsOK(q) == \A i \in DOMAIN q.scene : \A k \in DOMAIN q.scene[i].pics : WordOK(q, i, k, q.words[i][k])

Looking(q) ==
    /\ q = [pc |-> q.pc, scene |-> q.scene, limit |-> q.limit, asked |-> q.asked, told |-> q.told, words |-> q.words]
    /\ q.scene \in Scenes /\ q.limit \in ImageLimits
    /\ ToldOK(q.told)
    /\ q.pc = "replaced" => WordsOK(q)
ViewsOK ==
    /\ viewing = [v \in Viewers |-> viewing[v]]
    /\ \A v \in Viewers : viewing[v] = Blind \/ Looking(viewing[v])

LEMMA WordsHave ==
    \A kind, p : Word(kind, p).of = p /\ Word(kind, p).kind = kind
BY DEF Word

LEMMA HeardIs ==
    ASSUME NEW told, ToldOK(told), NEW p, NEW kind \in {"described", "failed"}
    PROVE  ToldOK(Heard(told, Word(kind, p)))
<1>1. PICK w : w = Word(kind, p)
    OBVIOUS
<1>2. w.of = p /\ w.kind = kind
    BY <1>1, WordsHave
<1>3. ToldOK(Heard(told, w))
    BY <1>2 DEF ToldOK, Heard
<1> QED
    BY <1>1, <1>3

\* The current turn begins at a message.
LEMMA TurnIs ==
    ASSUME NEW ms \in Scenes
    PROVE  TurnStart(ms) \in Nat
<1> DEFINE S == {0} \cup {i \in DOMAIN ms : Closes(ms[i])}
           R == {Len(ms) - i : i \in S}
<1>1. ms \in Seq(SceneMessage)
    BY ImagesAssumption
<1>2. S \subseteq 0..Len(ms) /\ Len(ms) \in Nat
    BY <1>1
<1>3. R \subseteq Nat /\ Len(ms) \in R
    BY <1>2
<1>4. PICK m \in R : \A n \in R : m <= n
  <2> HIDE DEF R
  <2> QED
    BY <1>3, Least
<1>5. PICK x \in S : m = Len(ms) - x
    BY <1>4
<1>6. ASSUME NEW y \in S PROVE x >= y
  <2>1. Len(ms) - y \in R
      OBVIOUS
  <2>2. m <= Len(ms) - y /\ x \in Nat /\ y \in Nat
    <3> HIDE DEF R
    <3> QED
      BY <1>2, <1>4, <2>1
  <2> QED
      BY <1>2, <1>5, <2>2
<1>7. Max(S) \in S
    BY <1>6 DEF Max
<1> QED
    BY <1>2, <1>7 DEF TurnStart

\* A sequence has finitely many elements.
LEMMA ImagesOfSequences ==
    ASSUME NEW s \in Seq(Pictures)
    PROVE  IsFiniteSet(ToSet(s))
<1> DEFINE T == ToSet(s)
<1>1. s \in Surjection(1..Len(s), T)
    BY DEF ToSet, Surjection
<1>2. IsFiniteSet(1..Len(s))
    BY FS_Interval
<1> HIDE DEF T
<1>3. IsFiniteSet(T)
    BY <1>1, <1>2, FS_Surjection
<1> QED
    BY <1>3 DEF T

\* What was shown before a place in the turn was shown earlier in the turn.
LEMMA ShownIsEarlier ==
    ASSUME NEW ms \in Scenes, NEW i \in DOMAIN ms, NEW k \in DOMAIN ms[i].pics
    PROVE  /\ Shown(ms, <<i, k>>) \subseteq Earlier(ms, i, k)
           /\ Cardinality(Shown(ms, <<i, k>>)) \in Nat
           /\ Cardinality(Earlier(ms, i, k)) \in Nat
           /\ Cardinality(Shown(ms, <<i, k>>)) <= Cardinality(Earlier(ms, i, k))
<1>1. ms \in Seq(SceneMessage) /\ TurnStart(ms) \in Nat
    BY ImagesAssumption, TurnIs
<1>2. \A j \in DOMAIN ms : ms[j].pics \in Seq(Pictures)
  <2> SUFFICES ASSUME NEW j \in DOMAIN ms PROVE ms[j].pics \in Seq(Pictures)
      OBVIOUS
  <2>1. ms[j] \in SceneMessage
      BY <1>1
  <2> QED
      BY <2>1 DEF SceneMessage
<1>3. i \in Nat /\ k \in 1..Len(ms[i].pics) /\ ms[i].pics \in Seq(Pictures) /\ Len(ms[i].pics) \in Nat
    BY <1>1, <1>2
<1>4. Shown(ms, <<i, k>>) \subseteq Earlier(ms, i, k)
  <2> SUFFICES ASSUME NEW z \in Collected(ms), Precedes(z, <<i, k>>)
               PROVE  Picture(ms, z) \in Earlier(ms, i, k)
      BY DEF Shown
  <2>1. PICK j \in DOMAIN ms : \E l \in DOMAIN ms[j].pics : z = <<j, l>>
      BY DEF Collected, InTurn, Places
  <2>9. PICK l \in DOMAIN ms[j].pics : z = <<j, l>>
      BY <2>1
  <2>2. j > TurnStart(ms) /\ (j < i \/ (j = i /\ l < k))
      BY <2>9 DEF Collected, InTurn, Precedes
  <2>3. j \in Nat /\ l \in 1..Len(ms[j].pics) /\ Picture(ms, z) = ms[j].pics[l]
      BY <1>1, <1>2, <2>9 DEF Picture
  <2>4. CASE j < i
    <3>1. j \in (TurnStart(ms) + 1)..(i - 1)
        BY <1>1, <1>3, <2>2, <2>3, <2>4
    <3>2. ms[j].pics[l] \in ToSet(ms[j].pics)
        BY <2>9 DEF ToSet
    <3> QED
        BY <2>3, <3>1, <3>2 DEF Earlier
  <2>5. CASE j = i /\ l < k
    <3>1. l \in 1..(k - 1) /\ k - 1 \in 0..Len(ms[i].pics)
        BY <1>3, <2>3, <2>5
    <3>2. DOMAIN SubSeq(ms[i].pics, 1, k - 1) = 1..(k - 1) /\ SubSeq(ms[i].pics, 1, k - 1)[l] = ms[i].pics[l]
        BY <1>3, <3>1
    <3>3. ms[i].pics[l] \in ToSet(SubSeq(ms[i].pics, 1, k - 1))
        BY <3>1, <3>2 DEF ToSet
    <3> QED
        BY <2>3, <2>5, <3>3 DEF Earlier
  <2> QED
      BY <2>2, <2>4, <2>5
<1>5. IsFiniteSet(Earlier(ms, i, k))
  <2> DEFINE N == (TurnStart(ms) + 1)..(i - 1)
             f == [j \in N |-> ToSet(ms[j].pics)]
             Sets == {ToSet(ms[j].pics) : j \in N}
  <2>1. \A s \in Seq(Pictures) : IsFiniteSet(ToSet(s))
      BY ImagesOfSequences
  <2>2. IsFiniteSet(N)
      BY <1>1, <1>3, FS_Interval
  <2>3. f \in Surjection(N, Sets)
      BY DEF Surjection
  <2>4. IsFiniteSet(Sets)
    <3> HIDE DEF N, f, Sets
    <3> QED
      BY <2>2, <2>3, FS_Surjection
  <2>5. \A T \in Sets : IsFiniteSet(T)
    <3> SUFFICES ASSUME NEW j \in N PROVE IsFiniteSet(ToSet(ms[j].pics))
        OBVIOUS
    <3>1. j \in DOMAIN ms
        BY <1>1, <1>3
    <3> QED
        BY <1>2, <2>1, <3>1
  <2>6. IsFiniteSet(UNION Sets)
    <3> HIDE DEF Sets
    <3> QED
      BY <2>4, <2>5, FS_UNION
  <2>7. SubSeq(ms[i].pics, 1, k - 1) \in Seq(Pictures)
      BY <1>3
  <2>8. IsFiniteSet(ToSet(SubSeq(ms[i].pics, 1, k - 1)))
      BY <2>1, <2>7
  <2>9. Earlier(ms, i, k) = (UNION Sets) \cup ToSet(SubSeq(ms[i].pics, 1, k - 1))
      BY DEF Earlier
  <2> HIDE DEF Sets, f, N
  <2> QED
      BY <2>6, <2>8, <2>9, FS_Union
<1> QED
    BY <1>4, <1>5, FS_Subset, FS_CardinalityType

\* The words that take an image's place are about it, and as many as they should be.
LEMMA ReplacedWell ==
    ASSUME NEW v \in Viewers, Looking(viewing[v]), Undescribed(v) = {},
           NEW i \in DOMAIN viewing[v].scene, NEW k \in DOMAIN viewing[v].scene[i].pics
    PROVE  WordOK(viewing[v], i, k, Replacement(v, <<i, k>>))
<1>1. PICK ms \in Scenes : ms = viewing[v].scene
    BY DEF Looking
<1>2. PICK p : p = ms[i].pics[k]
    OBVIOUS
<1>3. PICK told : told = viewing[v].told /\ ToldOK(told)
    BY DEF Looking
<1>4. PICK limit \in Nat \ {0} : limit = viewing[v].limit
    BY ImagesAssumption DEF Looking
<1>5. PICK x : x = <<i, k>>
    OBVIOUS
<1>6. Picture(ms, x) = p /\ (x[1] > TurnStart(ms) <=> i > TurnStart(ms))
    BY <1>2, <1>5 DEF Picture
<1>7. x \in Places(ms)
    BY <1>1, <1>5 DEF Places
<1>8. i > TurnStart(ms) /\ ms[i].role \in {"user", "tool"} => x \in Collected(ms)
    BY <1>5, <1>7 DEF Collected, InTurn
<1>9. PICK w : w = Replacement(v, x)
    OBVIOUS
<1>10. PICK current \in BOOLEAN : current <=> x[1] > TurnStart(ms) /\ Collected(ms) # {}
    OBVIOUS
<1>11. w = IF current /\ p \in DOMAIN told THEN told[p]
           ELSE IF current /\ Before(ms, x) >= limit THEN Word("skipped", p)
           ELSE Word(IF Cached(p) THEN "cached" ELSE "removed", p)
    BY Zenon, <1>1, <1>3, <1>4, <1>6, <1>9, <1>10 DEF Replacement
<1>12. w.of = p
    BY <1>3, <1>11, WordsHave DEF ToldOK
<1>13. ASSUME ~(i > TurnStart(ms)) PROVE w.kind \in {"cached", "removed"}
    BY <1>6, <1>10, <1>11, <1>13, WordsHave
<1>14. ASSUME x \in Collected(ms), i > TurnStart(ms)
       PROVE  w.kind \in {"described", "failed"} \/ Cardinality(Earlier(ms, i, k)) >= limit
  <2>1. CASE Cardinality(Shown(ms, x)) < limit
    <3>1. p \in Targets(ms, limit)
        BY <1>6, <1>14, <2>1 DEF Targets
    <3>2. p \in DOMAIN told
        BY <1>1, <1>3, <1>4, <3>1 DEF Undescribed
    <3> QED
        BY <1>3, <1>6, <1>10, <1>11, <1>14, <3>2 DEF ToldOK
  <2>2. CASE ~(Cardinality(Shown(ms, x)) < limit)
      BY <1>1, <1>5, <2>2, ShownIsEarlier
  <2> QED
      BY <2>1, <2>2
<1> QED
    BY <1>1, <1>2, <1>4, <1>5, <1>8, <1>9, <1>12, <1>13, <1>14 DEF WordOK

LEMMA ViewMoves ==
    ASSUME ViewsOK, NEW v \in Viewers, NEW q, Looking(q), Views(v, q)
    PROVE  ViewsOK'
<1>1. viewing' = [viewing EXCEPT ![v] = q]
    BY DEF Views
<1>2. viewing' = [u \in Viewers |-> viewing'[u]] /\ viewing'[v] = q /\ \A u \in Viewers \ {v} : viewing'[u] = viewing[u]
    BY <1>1 DEF ViewsOK
<1>3. \A u \in Viewers : viewing'[u] = Blind \/ Looking(viewing'[u])
    BY <1>2 DEF ViewsOK
<1> QED
    BY <1>2, <1>3 DEF ViewsOK

LEMMA ViewsStart == ImagesInit => ViewsOK
BY DEF ImagesInit, ViewsOK

LEMMA ViewsStay ==
    ASSUME ViewsOK, UNCHANGED viewing
    PROVE  ViewsOK'
BY DEF ViewsOK

LEMMA ViewsKeep == ViewsOK /\ [ImagesNext]_imageVars => ViewsOK'
<1> SUFFICES ASSUME ViewsOK, [ImagesNext]_imageVars PROVE ViewsOK'
    OBVIOUS
<1>1. CASE UpdatePreprocessor \/ DeletePreprocessor \/ ImportPreprocessor \/ UNCHANGED imageVars
    BY <1>1, ViewsStay DEF UpdatePreprocessor, DeletePreprocessor, ImportPreprocessor, imageVars
<1>2. ASSUME NEW v \in Viewers, LookAt(v) PROVE ViewsOK'
  <2>1. PICK ms \in Scenes, limit \in ImageLimits, pc \in {"describing", "as is"} :
          Views(v, [pc |-> pc, scene |-> ms, limit |-> limit, asked |-> {},
                    told |-> [p \in {} |-> Word("none", p)], words |-> <<>>])
      BY <1>2 DEF LookAt
  <2>2. PICK told : told = [p \in {} |-> Word("none", p)]
      OBVIOUS
  <2>3. ToldOK(told)
      BY <2>2 DEF ToldOK
  <2>4. Looking([pc |-> pc, scene |-> ms, limit |-> limit, asked |-> {}, told |-> told, words |-> <<>>])
      BY <2>3 DEF Looking
  <2> QED
      BY <2>1, <2>2, <2>4, ViewMoves
<1>3. ASSUME NEW v \in Viewers, viewing[v].pc = "describing"
      PROVE  Looking(viewing[v])
    BY <1>3 DEF ViewsOK, Blind
<1>4. ASSUME NEW q, Looking(q), q.pc = "describing", NEW asked, NEW told, ToldOK(told)
      PROVE  /\ Looking([q EXCEPT !.told = told])
             /\ Looking([q EXCEPT !.asked = asked])
             /\ Looking([q EXCEPT !.told = told, !.asked = asked])
  <2>1. /\ q = [pc |-> q.pc, scene |-> q.scene, limit |-> q.limit, asked |-> q.asked, told |-> q.told, words |-> q.words]
        /\ q.scene \in Scenes /\ q.limit \in ImageLimits /\ ToldOK(q.told)
      BY <1>4 DEF Looking
  <2>2. ASSUME NEW a, NEW t, ToldOK(t)
        PROVE  Looking([pc |-> q.pc, scene |-> q.scene, limit |-> q.limit, asked |-> a, told |-> t, words |-> q.words])
      BY <1>4, <2>1, <2>2 DEF Looking
  <2>3. [q EXCEPT !.told = told]
            = [pc |-> q.pc, scene |-> q.scene, limit |-> q.limit, asked |-> q.asked, told |-> told, words |-> q.words]
      BY <2>1
  <2>4. [q EXCEPT !.asked = asked]
            = [pc |-> q.pc, scene |-> q.scene, limit |-> q.limit, asked |-> asked, told |-> q.told, words |-> q.words]
      BY <2>1
  <2>5. [q EXCEPT !.told = told, !.asked = asked]
            = [pc |-> q.pc, scene |-> q.scene, limit |-> q.limit, asked |-> asked, told |-> told, words |-> q.words]
    <3> DEFINE q2 == [q EXCEPT !.told = told, !.asked = asked]
    <3>1. /\ DOMAIN q = {"pc", "scene", "limit", "asked", "told", "words"}
          /\ DOMAIN q2 = DOMAIN q
        BY <2>1
    <3>2. q2 = [x \in DOMAIN q |-> q2[x]]
        OBVIOUS
    <3>3. /\ q2.asked = asked /\ q2.told = told
          /\ q2.pc = q.pc /\ q2.scene = q.scene /\ q2.limit = q.limit /\ q2.words = q.words
        BY <3>1
    <3> HIDE DEF q2
    <3> QED
        BY <3>1, <3>2, <3>3
  <2> QED
      BY <1>4, <2>1, <2>2, <2>3, <2>4, <2>5
<1>5. ASSUME NEW v \in Viewers, NEW p \in Pictures, Describe(v, p) PROVE ViewsOK'
  <2>1. Looking(viewing[v]) /\ viewing[v].pc = "describing"
      BY <1>3, <1>5 DEF Describe
  <2>2. ToldOK(viewing[v].told)
      BY <2>1 DEF Looking
  <2>3. PICK told : told = Heard(viewing[v].told, Word("described", p)) /\ ToldOK(told)
      BY <2>2, HeardIs
  <2>4. CASE Cached(p)
    <3>1. Views(v, [viewing[v] EXCEPT !.told = told])
        BY <1>5, <2>3, <2>4 DEF Describe
    <3> QED
        BY <1>4, <2>1, <2>3, <3>1, ViewMoves
  <2>5. CASE ~Cached(p)
    <3>1. Views(v, [viewing[v] EXCEPT !.asked = viewing[v].asked \cup {p}])
        BY <1>5, <2>5 DEF Describe
    <3> QED
        BY <1>4, <2>1, <2>2, <3>1, ViewMoves
  <2> QED
      BY <2>4, <2>5
<1>6. ASSUME NEW v \in Viewers, NEW p \in Pictures, Told(v, p) PROVE ViewsOK'
  <2>1. Looking(viewing[v]) /\ viewing[v].pc = "describing"
      BY <1>3, <1>6 DEF Told
  <2>2. ToldOK(viewing[v].told)
      BY <2>1 DEF Looking
  <2>3. PICK kind \in {"described", "failed"} :
          Views(v, [viewing[v] EXCEPT !.told = Heard(viewing[v].told, Word(kind, p)),
                                      !.asked = viewing[v].asked \ {p}])
      BY <1>6 DEF Told
  <2>4. PICK told : told = Heard(viewing[v].told, Word(kind, p)) /\ ToldOK(told)
      BY <2>2, HeardIs
  <2> QED
      BY <1>4, <2>1, <2>3, <2>4, ViewMoves
<1>7. ASSUME NEW v \in Viewers, ReplaceImages(v) PROVE ViewsOK'
  <2>1. Looking(viewing[v]) /\ Undescribed(v) = {}
      BY <1>3, <1>7 DEF ReplaceImages
  <2>2. PICK words : words = [i \in DOMAIN viewing[v].scene |->
                                [k \in DOMAIN viewing[v].scene[i].pics |-> Replacement(v, <<i, k>>)]]
      OBVIOUS
  <2>3. Views(v, [viewing[v] EXCEPT !.pc = "replaced", !.words = words])
      BY Zenon, <1>7, <2>2 DEF ReplaceImages
  <2>4. PICK q : q = [viewing[v] EXCEPT !.pc = "replaced", !.words = words]
      OBVIOUS
  <2>5. /\ q = [pc |-> "replaced", scene |-> viewing[v].scene, limit |-> viewing[v].limit,
                 asked |-> viewing[v].asked, told |-> viewing[v].told, words |-> words]
        /\ viewing[v].scene \in Scenes /\ viewing[v].limit \in ImageLimits /\ ToldOK(viewing[v].told)
      BY <2>1, <2>4 DEF Looking
  <2>6. ASSUME NEW i \in DOMAIN q.scene, NEW k \in DOMAIN q.scene[i].pics
        PROVE  WordOK(q, i, k, q.words[i][k])
    <3>1. WordOK(viewing[v], i, k, Replacement(v, <<i, k>>))
        BY <2>1, <2>5, <2>6, ReplacedWell
    <3>2. q.words[i][k] = Replacement(v, <<i, k>>) /\ q.scene = viewing[v].scene /\ q.limit = viewing[v].limit
        BY <2>2, <2>5
    <3> QED
        BY <3>1, <3>2 DEF WordOK
  <2>7. Looking(q)
      BY <2>5, <2>6 DEF Looking, WordsOK
  <2> QED
      BY <2>3, <2>4, <2>7, ViewMoves
<1> QED
    BY <1>1, <1>2, <1>5, <1>6, <1>7 DEF ImagesNext

LEMMA WordsStand == ViewsOK => ImagesKeepTheirWords
<1> SUFFICES ASSUME ViewsOK, NEW v \in Viewers, viewing[v].pc = "replaced" PROVE WordsOK(viewing[v])
    BY DEF ImagesKeepTheirWords, WordsOK, WordOK, Earlier
<1> QED
    BY DEF ViewsOK, Looking, Blind

-----------------------------------------------------------------------------
(* Whatever a run looks at, the accounts start and move as accounts do.      *)

LEMMA AccountsLed == Init => AccountsOK
<1> SUFFICES ASSUME Init PROVE AccountsOK
    OBVIOUS
<1>1. CASE focus # "requests"
    BY <1>1, AccountsStart DEF Init
<1>2. CASE focus = "requests"
  <2>1. PICK allowed \in AllowLists :
          keys = [k \in ApiKeys |-> [owner |-> Owner[k], enabled |-> TRUE, allowed |-> allowed]]
      BY <1>2 DEF Init
  <2>2. users = [u \in Users |-> "on"] /\ importing = Nothing
      BY <1>2 DEF Init
  <2>3. ASSUME NEW k \in ApiKeys
        PROVE  keys[k] \in KeyRow /\ keys[k].owner = Owner[k] /\ Owner[k] \in Users
    <3>1. keys[k] = [owner |-> Owner[k], enabled |-> TRUE, allowed |-> allowed] /\ Owner[k] \in Users
        BY <2>1, PolicyAssumption
    <3> QED
        BY <3>1 DEF KeyRow
  <2>4. keys \in [ApiKeys -> KeyRow \cup {NoRow}]
    <3>1. keys = [k \in ApiKeys |-> keys[k]]
        BY <2>1
    <3> QED
        BY Zenon, <2>3, <3>1
  <2>5. UsersOK /\ ImportOK
      BY <2>2 DEF UsersOK, ImportOK
  <2>6. KeysHaveOwners
      BY <2>2, <2>3 DEF KeysHaveOwners, UserExists
  <2> QED
      BY <2>4, <2>5, <2>6 DEF AccountsOK, KeysOK
<1> QED
    BY <1>1, <1>2

LEMMA PolicyStarts == Init => IInv
<1> SUFFICES ASSUME Init PROVE IInv
    OBVIOUS
<1>1. AccountsOK
    BY AccountsLed
<1>2. TablesOK
    BY DEF Init, TablesOK
<1>3. RequestsOK
    BY DEF Init, RequestsOK, RequestOK
<1> QED
    BY <1>1, <1>2, <1>3 DEF IInv

LEMMA AccountsLive == [Next]_vars => [AccountsNext]_accountVars
<1> SUFFICES ASSUME [Next]_vars PROVE AccountsNext \/ UNCHANGED accountVars
    OBVIOUS
<1>1. CASE UNCHANGED vars
    BY <1>1 DEF vars
<1>2. ASSUME NEW r \in Requests, Forward(r) PROVE UNCHANGED accountVars
    BY <1>2 DEF Forward, Authenticate, RouteNative, GoTranslated, RouteOnce, RouteAgain, Become
<1>3. CASE Accounting
    BY <1>3 DEF Accounting
<1>4. CASE Administer \/ Tabling \/ Composing \/ Conversing \/ Viewing
    BY <1>4 DEF Administer, Tabling, Composing, Conversing, Viewing
<1> QED
    BY <1>1, <1>2, <1>3, <1>4 DEF Next

LEMMA ImagesLive == [Next]_vars => [ImagesNext]_imageVars
<1> SUFFICES ASSUME [Next]_vars PROVE ImagesNext \/ UNCHANGED imageVars
    OBVIOUS
<1>1. CASE UNCHANGED vars
    BY <1>1 DEF vars
<1>2. ASSUME NEW r \in Requests, Forward(r) PROVE UNCHANGED imageVars
    BY <1>2 DEF Forward, Authenticate, RouteNative, GoTranslated, RouteOnce, RouteAgain, Become
<1>3. CASE Viewing
    BY <1>3 DEF Viewing
<1>4. CASE Administer \/ Accounting \/ Tabling \/ Composing \/ Conversing
    BY <1>4 DEF Administer, Accounting, Tabling, Composing, Conversing
<1> QED
    BY <1>1, <1>2, <1>3, <1>4 DEF Next

LEMMA PolicyKeeps == IInv /\ [Next]_vars => IInv'
<1> SUFFICES ASSUME IInv, [Next]_vars PROVE IInv'
    OBVIOUS
<1>1. AccountsOK'
    BY AccountsLive, AccountsKeep DEF IInv
<1>2. ASSUME RulesNext \/ PoliciesNext \/ SwitchModel \/ UNCHANGED tableVars, UNCHANGED request
      PROVE  IInv'
  <2>1. TablesOK'
      BY <1>2, TablesKeep DEF IInv
  <2>2. RequestsOK'
      BY <1>2 DEF IInv, RequestsOK, RequestOK
  <2> QED
      BY <1>1, <2>1, <2>2 DEF IInv
<1>3. CASE UNCHANGED vars
    BY <1>2, <1>3 DEF vars, policyVars
<1>4. CASE Accounting
    BY <1>2, <1>4 DEF Accounting, policyVars
<1>5. CASE Tabling
    BY <1>2, <1>5 DEF Tabling, policyVars
<1>6. CASE Administer
    BY <1>2, <1>6 DEF Administer
<1>7. CASE Composing
    BY <1>2, <1>7 DEF Composing, policyVars
<1>8. CASE Conversing
    BY <1>2, <1>8 DEF Conversing, policyVars
<1>9. CASE Viewing
    BY <1>2, <1>9 DEF Viewing, policyVars
<1>10. ASSUME NEW r \in Requests, Forward(r) PROVE IInv'
    BY <1>10, ForwardKeeps
<1> QED
    BY <1>3, <1>4, <1>5, <1>6, <1>7, <1>8, <1>9, <1>10 DEF Next

-----------------------------------------------------------------------------
(* At every moment accounts and tables keep their types and every request is *)
(* where the rules it saw lead what its client asked for, with whatever      *)
(* provider_id, admitted by the list its key had or overruled by a rule that *)
(* only its second look saw.                                                 *)
THEOREM Inductive == Spec => []IInv
BY PolicyStarts, PolicyKeeps, PTL DEF Spec

(* A request goes only where its key's allow list lets it or a rule sends    *)
(* what is listed, but for a provider that stands beside a model naming      *)
(* another and for a rule that came between the two looks                    *)
(* (prepare_request_policy and ensure_routed_model_allowed in the endpoints  *)
(* of proxy.py).                                                             *)
THEOREM Served == Spec => []ServedAsAllowed
<1>1. ASSUME IInv PROVE ServedAsAllowed
  <2> SUFFICES ASSUME NEW r \in Requests, request[r].pc = "sent", ~Overruled(request[r]),
                      NEW to, to = Upstream([name |-> request[r].target, provider |-> request[r].provider]),
                      to[1] # Anywhere
               PROVE  \/ Allows(request[r].allowed, [provider |-> to[1], model |-> to[2]])
                      \/ Allows(request[r].allowed, request[r].name) /\ Initially(request[r]) # NoRule
                      \/ Beside(request[r])
      BY DEF ServedAsAllowed
  <2>1. request[r] \in Routable /\ Stands(request[r])
      BY <1>1 DEF IInv, RequestsOK, RequestOK, Idle
  <2>2. AsRuled(request[r]) /\ Admitted(request[r])
      BY <2>1 DEF Stands
  <2> QED
      BY <1>1, <2>1, <2>2, AdmittedGoes DEF IInv
<1> QED
    BY <1>1, Inductive, PTL

(* Whatever rules change while it awaits, a request goes where its final     *)
(* look sends what was asked for, or else its first, or else where its       *)
(* client named (the two looks of /responses).                               *)
THEOREM RoutedInTheEnd == Spec => []RoutedAsRuled
<1>1. ASSUME IInv PROVE RoutedAsRuled
  <2>1. ASSUME NEW r \in Requests, request[r].pc \in {"native", "preprocessing again", "sent"}
        PROVE  AsRuled(request[r])
    <3>1. Idle.pc = "idle"
        BY DEF Idle
    <3>2. request[r] # Idle
        BY <2>1, <3>1
    <3>3. Stands(request[r])
        BY <1>1, <3>2 DEF IInv, RequestsOK, RequestOK
    <3> QED
        BY <2>1, <3>3 DEF Stands
  <2> QED
      BY <2>1 DEF RoutedAsRuled, AsRuled
<1> QED
    BY <1>1, Inductive, PTL

(* The attempts of a request are each at an upstream of its own, and leave   *)
(* none out that serves (candidate_targets over any chain).                  *)
THEOREM Apart == Spec => []EachUpstreamOnce
<1>1. IInv => EachUpstreamOnce
    BY UpstreamsApart DEF IInv
<1> QED
    BY <1>1, Inductive, PTL

(* A key never passes from one user to another, whatever else goes on.       *)
THEOREM KeysStay == Spec => KeysStayPut
<1>1. ~Moved => \A k \in ApiKeys : Held(k) /\ keys'[k] # NoRow => keys'[k].owner = keys[k].owner
    BY DEF Moved
<1>2. IInv /\ [Next]_vars =>
        [\A k \in ApiKeys : Held(k) /\ keys'[k] # NoRow => keys'[k].owner = keys[k].owner]_accountVars
    BY <1>1, NothingMoves, AccountsLive DEF IInv
<1> QED
    BY <1>2, PolicyStarts, PolicyKeeps, PTL DEF Spec, KeysStayPut

(* Each image is replaced by words about itself, and those the turn shows    *)
(* have been looked at, in whatever order the vision model answers however   *)
(* many requests (_strip_images_with_descriptions of preprocessing.py).      *)
THEOREM WordsKept == Spec => []ImagesKeepTheirWords
<1>1. Init => ViewsOK
    BY ViewsStart DEF Init
<1>2. ViewsOK /\ [Next]_vars => ViewsOK'
    BY ImagesLive, ViewsKeep
<1> QED
    BY <1>1, <1>2, WordsStand, PTL DEF Spec
-----------------------------------------------------------------------------
(* Histories. What goes round a sequence is a function from the number of    *)
(* rounds to what they made; a set that its start is in and that no round    *)
(* leaves holds all of it.                                                   *)
LEMMA RoundsIn ==
    ASSUME NEW N \in Nat, NEW S, NEW y, y[0] \in S,
           \A n \in 1..N : y[n - 1] \in S => y[n] \in S
    PROVE  \A n \in 0..N : y[n] \in S
<1> DEFINE Good == {n \in Nat : n <= N => y[n] \in S}
<1>1. 0 \in Good
    OBVIOUS
<1>2. ASSUME NEW n \in Nat, n \in Good PROVE n + 1 \in Good
  <2>1. n + 1 <= N => n + 1 \in 1..N /\ (n + 1) - 1 = n /\ n <= N
      OBVIOUS
  <2> QED
      BY <1>2, <2>1
<1> HIDE DEF Good
<1>3. Nat \subseteq Good
    BY <1>1, <1>2, Induction
<1> QED
    BY <1>3 DEF Good

\* There is such a function for every start and every round.
Rounds(N, S) == [(1..N) \X S -> S]
Runs(h, N, S, x, g) == h \in [0..N -> S] /\ h[0] = x /\ \A n \in 1..N : h[n] = g[<<n, h[n - 1]>>]

LEMMA RoundsExist ==
    ASSUME NEW N \in Nat, NEW S, NEW x \in S, NEW g \in Rounds(N, S)
    PROVE  \E h : Runs(h, N, S, x, g)
<1> USE DEF Rounds, Runs
<1> DEFINE Run(h, k) == h \in [0..k -> S] /\ h[0] = x /\ \A n \in 1..k : h[n] = g[<<n, h[n - 1]>>]
           Good == {k \in Nat : k <= N => \E h : Run(h, k)}
<1>1. 0 \in Good
  <2>1. Run([n \in 0..0 |-> x], 0)
      OBVIOUS
  <2> QED
      BY <2>1
<1>2. ASSUME NEW k \in Nat, k \in Good PROVE k + 1 \in Good
  <2> SUFFICES ASSUME k + 1 <= N PROVE \E h : Run(h, k + 1)
      OBVIOUS
  <2>1. PICK h : Run(h, k)
      BY <1>2
  <2>2. g[<<k + 1, h[k]>>] \in S
      BY <2>1
  <2> DEFINE f == [n \in 0..(k + 1) |-> IF n <= k THEN h[n] ELSE g[<<k + 1, h[k]>>]]
  <2>3. f \in [0..(k + 1) -> S] /\ f[0] = x
      BY <2>1, <2>2
  <2>4. ASSUME NEW n \in 1..(k + 1) PROVE f[n] = g[<<n, f[n - 1]>>]
    <3>1. f[n - 1] = h[n - 1] /\ f[n] = IF n <= k THEN h[n] ELSE g[<<k + 1, h[k]>>]
        OBVIOUS
    <3> HIDE DEF f
    <3>2. CASE n <= k
      <4>1. n \in 1..k
          BY <3>2
      <4> QED
          BY <2>1, <3>1, <3>2, <4>1
    <3>3. CASE n = k + 1
      <4>1. n - 1 = k
          BY <3>3
      <4> QED
          BY <3>1, <3>3, <4>1
    <3> QED
        BY <3>2, <3>3
  <2> HIDE DEF f
  <2> QED
      BY <2>3, <2>4
<1> HIDE DEF Good
<1>3. N \in Good
    BY <1>1, <1>2, Induction
<1> QED
    BY <1>3 DEF Good

\* Sequences joined one after the other.
LEMMA JoiningIn ==
    ASSUME NEW S, NEW parts, Len(parts) \in Nat, <<>> \in S,
           \A n \in 1..Len(parts) : \A y \in S : y \o parts[n] \in S
    PROVE  /\ \A n \in 0..Len(parts) : Joining(parts)[n] \in S
           /\ Joining(parts)[0] = <<>>
           /\ \A n \in 1..Len(parts) : Joining(parts)[n] = Joining(parts)[n - 1] \o parts[n]
<1> DEFINE N == Len(parts)
           k == Joining(parts)
           g == [p \in (1..N) \X S |-> p[2] \o parts[p[1]]]
<1>1. g \in Rounds(N, S)
    BY DEF Rounds
<1>2. PICK h : Runs(h, N, S, <<>>, g)
  <2> HIDE DEF g
  <2> QED
      BY <1>1, RoundsExist
<1>3. h = [n \in 0..N |-> IF n = 0 THEN <<>> ELSE h[n - 1] \o parts[n]]
  <2>1. ASSUME NEW n \in 1..N PROVE h[n] = h[n - 1] \o parts[n]
    <3>1. n - 1 \in 0..N
        OBVIOUS
    <3>2. <<n, h[n - 1]>> \in (1..N) \X S
        BY <1>2, <3>1 DEF Runs
    <3> QED
        BY <1>2, <3>2 DEF Runs
  <2>2. \A n \in 0..N : h[n] = IF n = 0 THEN <<>> ELSE h[n - 1] \o parts[n]
    <3> SUFFICES ASSUME NEW n \in 0..N
                 PROVE  h[n] = IF n = 0 THEN <<>> ELSE h[n - 1] \o parts[n]
        OBVIOUS
    <3>1. n = 0 \/ n \in 1..N
        OBVIOUS
    <3>2. h[0] = <<>>
        BY <1>2 DEF Runs
    <3>3. n \in 1..N => n # 0
        OBVIOUS
    <3> QED
        BY Zenon, <2>1, <3>1, <3>2, <3>3
  <2>3. h = [n \in 0..N |-> h[n]]
      BY <1>2 DEF Runs
  <2> QED
      BY Zenon, <2>2, <2>3
<1>4. k = [n \in 0..N |-> IF n = 0 THEN <<>> ELSE k[n - 1] \o parts[n]]
    BY <1>3 DEF Joining
<1> HIDE DEF k, g
<1>5. k[0] = <<>> /\ \A n \in 1..N : k[n] = k[n - 1] \o parts[n]
  <2>1. \A n \in 0..N : k[n] = IF n = 0 THEN <<>> ELSE k[n - 1] \o parts[n]
      BY Zenon, <1>4
  <2>2. 0 \in 0..N /\ \A n \in 1..N : n \in 0..N /\ n # 0
      OBVIOUS
  <2> QED
      BY Zenon, <2>1, <2>2
<1>6. \A n \in 1..N : k[n - 1] \in S => k[n] \in S
    BY <1>5
<1>7. \A n \in 0..N : k[n] \in S
    BY <1>5, <1>6, RoundsIn
<1> QED
    BY <1>5, <1>7 DEF k

LEMMA JoinedIs ==
    ASSUME NEW S, NEW ss \in Seq(Seq(S))
    PROVE  /\ \A n \in 0..Len(ss) : Joining(ss)[n] \in Seq(S)
           /\ Joining(ss)[0] = <<>>
           /\ \A n \in 1..Len(ss) : Joining(ss)[n] = Joining(ss)[n - 1] \o ss[n]
           /\ Joined(ss) \in Seq(S)
<1>1. Len(ss) \in Nat /\ \A n \in 1..Len(ss) : ss[n] \in Seq(S)
    OBVIOUS
<1>2. <<>> \in Seq(S)
    OBVIOUS
<1>3. \A n \in 1..Len(ss) : \A y \in Seq(S) : y \o ss[n] \in Seq(S)
    BY <1>1
<1>4. /\ \A n \in 0..Len(ss) : Joining(ss)[n] \in Seq(S)
      /\ Joining(ss)[0] = <<>>
      /\ \A n \in 1..Len(ss) : Joining(ss)[n] = Joining(ss)[n - 1] \o ss[n]
    BY <1>1, <1>2, <1>3, JoiningIn
<1>5. Len(ss) \in 0..Len(ss)
    BY <1>1
<1> QED
    BY Zenon, <1>4, <1>5 DEF Joined

\* What sequences have in common at first, they join alike.
LEMMA JoiningSame ==
    ASSUME NEW S, NEW ss \in Seq(Seq(S)), NEW tt \in Seq(Seq(S)),
           NEW k \in Nat, k <= Len(ss), k <= Len(tt), \A i \in 1..k : ss[i] = tt[i]
    PROVE  Joining(ss)[k] = Joining(tt)[k]
<1> DEFINE Good == {n \in Nat : n <= k => Joining(ss)[n] = Joining(tt)[n]}
<1>1. 0 \in Good
    BY JoinedIs
<1>2. ASSUME NEW n \in Nat, n \in Good PROVE n + 1 \in Good
  <2> SUFFICES ASSUME n + 1 <= k PROVE Joining(ss)[n + 1] = Joining(tt)[n + 1]
      OBVIOUS
  <2>1. Joining(ss)[n] = Joining(tt)[n] /\ n + 1 \in 1..Len(ss) /\ n + 1 \in 1..Len(tt) /\ ss[n + 1] = tt[n + 1]
        /\ (n + 1) - 1 = n
      BY <1>2
  <2>2. Joining(ss)[n + 1] = Joining(ss)[(n + 1) - 1] \o ss[n + 1]
      BY <2>1, JoinedIs
  <2>3. Joining(tt)[n + 1] = Joining(tt)[(n + 1) - 1] \o tt[n + 1]
      BY <2>1, JoinedIs
  <2> QED
      BY <2>1, <2>2, <2>3
<1> HIDE DEF Good
<1>3. Nat \subseteq Good
    BY <1>1, <1>2, Induction
<1> QED
    BY <1>3 DEF Good

LEMMA JoinedMore ==
    ASSUME NEW S, NEW ss \in Seq(Seq(S)), NEW u \in Seq(S)
    PROVE  Joined(Append(ss, u)) = Joined(ss) \o u
<1> DEFINE tt == Append(ss, u)
<1>1. tt \in Seq(Seq(S)) /\ Len(tt) = Len(ss) + 1 /\ tt[Len(ss) + 1] = u /\ \A i \in 1..Len(ss) : ss[i] = tt[i]
    OBVIOUS
<1>2. Len(ss) \in Nat /\ Len(tt) \in 1..Len(tt) /\ Len(tt) - 1 = Len(ss)
    BY <1>1
<1> HIDE DEF tt
<1>3. Joining(ss)[Len(ss)] = Joining(tt)[Len(ss)]
  <2>1. Len(ss) <= Len(ss) /\ Len(ss) <= Len(tt)
      BY <1>1, <1>2
  <2> QED
      BY <1>1, <1>2, <2>1, JoiningSame
<1>4. Joining(tt)[Len(tt)] = Joining(tt)[Len(tt) - 1] \o tt[Len(tt)]
    BY <1>1, <1>2, JoinedIs
<1> QED
    BY <1>1, <1>2, <1>3, <1>4 DEF Joined, tt

LEMMA JoinedTwice ==
    ASSUME NEW S, NEW ss \in Seq(Seq(S)), NEW tt \in Seq(Seq(S))
    PROVE  Joined(ss \o tt) = Joined(ss) \o Joined(tt)
<1> DEFINE both == ss \o tt
           L == Len(ss)
           Good == {n \in Nat : n <= Len(tt) => Joining(both)[L + n] = Joined(ss) \o Joining(tt)[n]}
<1>1. /\ both \in Seq(Seq(S)) /\ L \in Nat /\ Len(tt) \in Nat /\ Len(both) = L + Len(tt)
      /\ \A i \in 1..L : ss[i] = both[i]
      /\ \A i \in 1..Len(tt) : both[L + i] = tt[i]
    OBVIOUS
<1>j. Joined(ss) \in Seq(S) /\ Joining(tt)[0] = <<>> /\ \A n \in 0..Len(tt) : Joining(tt)[n] \in Seq(S)
    BY JoinedIs
<1> HIDE DEF both
<1>2. 0 \in Good
  <2>1. L <= Len(ss) /\ L <= Len(both)
      BY <1>1
  <2>2. Joining(ss)[L] = Joining(both)[L]
      BY <1>1, <2>1, JoiningSame
  <2>3. Joined(ss) \o <<>> = Joined(ss)
      BY <1>j
  <2>4. L + 0 = L /\ 0 \in Nat
      BY <1>1
  <2>5. Joining(both)[L] = Joined(ss)
      BY <2>2 DEF Joined
  <2> QED
      BY <1>j, <2>3, <2>4, <2>5
<1>3. ASSUME NEW n \in Nat, n \in Good PROVE n + 1 \in Good
  <2> SUFFICES ASSUME n + 1 <= Len(tt) PROVE Joining(both)[L + (n + 1)] = Joined(ss) \o Joining(tt)[n + 1]
      OBVIOUS
  <2>a. /\ n + 1 \in 1..Len(tt) /\ L + (n + 1) \in 1..Len(both) /\ (n + 1) - 1 = n /\ (L + (n + 1)) - 1 = L + n
        /\ n \in 0..Len(tt)
    <3>1. \A a, b, c \in Nat : c + 1 <= b =>
            /\ c + 1 \in 1..b /\ a + (c + 1) \in 1..(a + b) /\ (c + 1) - 1 = c /\ (a + (c + 1)) - 1 = a + c
            /\ c \in 0..b
        OBVIOUS
    <3>2. L \in Nat /\ Len(tt) \in Nat /\ n \in Nat /\ Len(both) = L + Len(tt) /\ n + 1 <= Len(tt)
        BY Zenon, <1>1
    <3> HIDE DEF L
    <3> QED
        BY Zenon, <3>1, <3>2
  <2>b. both[L + (n + 1)] = tt[n + 1] /\ tt[n + 1] \in Seq(S)
      BY <1>1, <2>a
  <2>c. Joining(both)[L + n] = Joined(ss) \o Joining(tt)[n]
      BY <1>3, <2>a
  <2>1. /\ n + 1 \in 1..Len(tt) /\ L + (n + 1) \in 1..Len(both) /\ (n + 1) - 1 = n /\ (L + (n + 1)) - 1 = L + n
        /\ both[L + (n + 1)] = tt[n + 1] /\ Joining(both)[L + n] = Joined(ss) \o Joining(tt)[n]
        /\ tt[n + 1] \in Seq(S) /\ n \in 0..Len(tt)
      BY <2>a, <2>b, <2>c
  <2>2. Joining(both)[L + (n + 1)] = Joining(both)[(L + (n + 1)) - 1] \o both[L + (n + 1)]
      BY <1>1, <2>1, JoinedIs
  <2>3. Joining(tt)[n + 1] = Joining(tt)[(n + 1) - 1] \o tt[n + 1]
      BY <2>1, JoinedIs
  <2>4. (Joined(ss) \o Joining(tt)[n]) \o tt[n + 1] = Joined(ss) \o (Joining(tt)[n] \o tt[n + 1])
    <3>1. Joined(ss) \in Seq(S) /\ Joining(tt)[n] \in Seq(S) /\ tt[n + 1] \in Seq(S)
        BY <1>j, <2>1
    <3>2. \A s, t, u \in Seq(S) : (s \o t) \o u = s \o (t \o u)
        BY ConcatAssociative
    <3>3. \A u \in Seq(S) : (Joined(ss) \o Joining(tt)[n]) \o u = Joined(ss) \o (Joining(tt)[n] \o u)
        BY <3>1, <3>2
    <3> QED
        BY <3>1, <3>3
  <2> QED
      BY <2>1, <2>2, <2>3, <2>4
<1> HIDE DEF Good
<1>4. Nat \subseteq Good
    BY <1>2, <1>3, Induction
<1>5. Joining(both)[L + Len(tt)] = Joined(ss) \o Joining(tt)[Len(tt)]
    BY <1>1, <1>4 DEF Good
<1> QED
    BY <1>1, <1>5 DEF Joined, both

\* Sequences of nothing join to nothing.
LEMMA JoinedNothing ==
    ASSUME NEW ss, Len(ss) \in Nat, \A i \in 1..Len(ss) : ss[i] = <<>>
    PROVE  Joined(ss) = <<>>
<1>1. \A n \in 1..Len(ss) : \A y \in {<<>>} : y \o ss[n] \in {<<>>}
    OBVIOUS
<1>2. \A n \in 0..Len(ss) : Joining(ss)[n] \in {<<>>}
  <2>1. <<>> \in {<<>>}
      OBVIOUS
  <2> QED
      BY <1>1, <2>1, JoiningIn
<1> QED
    BY <1>2 DEF Joined

LEMMA JoinedOne ==
    ASSUME NEW S, NEW u \in Seq(S)
    PROVE  Joined(<<u>>) = u
<1>1. <<u>> = Append(<<>>, u) /\ <<>> \in Seq(Seq(S)) /\ Len(<<>>) = 0
    OBVIOUS
<1>2. Joined(<<>>) = <<>>
    BY <1>1, JoinedNothing
<1>3. Joined(Append(<<>>, u)) = Joined(<<>>) \o u
    BY <1>1, JoinedMore
<1> QED
    BY <1>1, <1>2, <1>3
-----------------------------------------------------------------------------
\* Sequences by what each of their members contributes.
Contributions(s, w) == [i \in DOMAIN s |-> w[s[i]]]
Weight(s, w) == Joined(Contributions(s, w))

Contributed(c, s, w, S) ==
    c \in Seq(Seq(S)) /\ Len(c) = Len(s) /\ \A i \in 1..Len(s) : c[i] = w[s[i]]

LEMMA ContributionsAre ==
    ASSUME NEW T, NEW S, NEW w \in [T -> Seq(S)], NEW s \in Seq(T)
    PROVE  Contributed(Contributions(s, w), s, w, S)
BY DEF Contributions, Contributed

LEMMA WeightIs ==
    ASSUME NEW T, NEW S, NEW w \in [T -> Seq(S)], NEW s \in Seq(T)
    PROVE  Weight(s, w) \in Seq(S)
<1>0. \A u \in Seq(T) : Contributed(Contributions(u, w), u, w, S)
    BY Zenon, ContributionsAre
<1>1. Contributions(s, w) \in Seq(Seq(S))
    BY <1>0 DEF Contributed
<1> QED
    BY <1>1, JoinedIs DEF Weight

LEMMA WeightTwice ==
    ASSUME NEW T, NEW S, NEW w \in [T -> Seq(S)], NEW s \in Seq(T), NEW t \in Seq(T)
    PROVE  Weight(s \o t, w) = Weight(s, w) \o Weight(t, w)
<1>0. \A u \in Seq(T) : Contributed(Contributions(u, w), u, w, S)
    BY Zenon, ContributionsAre
<1> DEFINE a == Contributions(s, w)
           b == Contributions(t, w)
           c == Contributions(s \o t, w)
<1>1. s \o t \in Seq(T) /\ Len(s \o t) = Len(s) + Len(t) /\ Len(s) \in Nat /\ Len(t) \in Nat
      /\ \A i \in 1..(Len(s) + Len(t)) : (s \o t)[i] = IF i <= Len(s) THEN s[i] ELSE t[i - Len(s)]
    OBVIOUS
<1>2. a \in Seq(Seq(S)) /\ Len(a) = Len(s) /\ \A i \in 1..Len(s) : a[i] = w[s[i]]
    BY <1>0 DEF Contributed
<1>3. b \in Seq(Seq(S)) /\ Len(b) = Len(t) /\ \A i \in 1..Len(t) : b[i] = w[t[i]]
    BY <1>0 DEF Contributed
<1>4. c \in Seq(Seq(S)) /\ Len(c) = Len(s) + Len(t) /\ \A i \in 1..(Len(s) + Len(t)) : c[i] = w[(s \o t)[i]]
    BY <1>0, <1>1 DEF Contributed
<1> HIDE DEF a, b, c
<1>5. a \o b \in Seq(Seq(S)) /\ Len(a \o b) = Len(s) + Len(t)
      /\ \A i \in 1..(Len(s) + Len(t)) : (a \o b)[i] = IF i <= Len(s) THEN a[i] ELSE b[i - Len(s)]
  <2>1. a \in Seq(Seq(S)) /\ b \in Seq(Seq(S))
      BY <1>2, <1>3
  <2>2. a \o b \in Seq(Seq(S)) /\ Len(a \o b) = Len(a) + Len(b)
        /\ \A i \in 1..(Len(a) + Len(b)) : (a \o b)[i] = IF i <= Len(a) THEN a[i] ELSE b[i - Len(a)]
      BY <2>1
  <2> QED
      BY <1>2, <1>3, <2>2
<1>6. ASSUME NEW i \in 1..(Len(s) + Len(t)) PROVE c[i] = (a \o b)[i]
  <2>1. i <= Len(s) => i \in 1..Len(s)
      BY <1>1
  <2>2. ~(i <= Len(s)) => i - Len(s) \in 1..Len(t)
      BY <1>1
  <2>3. CASE i <= Len(s)
    <3>1. c[i] = w[s[i]]
        BY <1>1, <1>4, <2>3
    <3>2. (a \o b)[i] = a[i] /\ a[i] = w[s[i]]
        BY <1>2, <1>5, <2>1, <2>3
    <3> QED
        BY <3>1, <3>2
  <2>4. CASE ~(i <= Len(s))
    <3>1. c[i] = w[t[i - Len(s)]]
        BY <1>1, <1>4, <2>4
    <3>2. (a \o b)[i] = b[i - Len(s)] /\ b[i - Len(s)] = w[t[i - Len(s)]]
        BY <1>3, <1>5, <2>2, <2>4
    <3> QED
        BY <3>1, <3>2
  <2> QED
      BY <2>3, <2>4
<1>7. c = a \o b
  <2>1. \A u, v \in Seq(Seq(S)) : Len(u) = Len(v) /\ (\A i \in 1..Len(u) : u[i] = v[i]) => u = v
      BY SeqEqual
  <2> QED
      BY <1>4, <1>5, <1>6, <2>1
<1>8. Joined(a \o b) = Joined(a) \o Joined(b)
    BY <1>2, <1>3, JoinedTwice
<1> QED
    BY <1>7, <1>8 DEF Weight, a, b, c

LEMMA WeightOne ==
    ASSUME NEW T, NEW S, NEW w \in [T -> Seq(S)], NEW x \in T
    PROVE  Weight(<<x>>, w) = w[x]
<1>0. \A u \in Seq(T) : Contributed(Contributions(u, w), u, w, S)
    BY Zenon, ContributionsAre
<1>1. <<x>> \in Seq(T) /\ Len(<<x>>) = 1 /\ <<x>>[1] = x /\ w[x] \in Seq(S) /\ <<w[x]>> \in Seq(Seq(S))
    OBVIOUS
<1> DEFINE a == Contributions(<<x>>, w)
<1>2. Contributed(a, <<x>>, w, S)
    BY <1>0, <1>1
<1> HIDE DEF a
<1>a. a \in Seq(Seq(S)) /\ Len(a) = 1 /\ a[1] = w[x]
  <2>1. 1 \in 1..Len(<<x>>)
      BY <1>1
  <2> QED
      BY <1>1, <1>2, <2>1 DEF Contributed
<1>3. a = <<w[x]>>
    BY <1>a
<1>4. Joined(<<w[x]>>) = w[x]
    BY <1>1, JoinedOne
<1> QED
    BY <1>3, <1>4 DEF Weight, a

LEMMA WeightNothing ==
    ASSUME NEW T, NEW S, NEW w \in [T -> Seq(S)], NEW s \in Seq(T),
           \A i \in 1..Len(s) : w[s[i]] = <<>>
    PROVE  Weight(s, w) = <<>>
<1>0. \A u \in Seq(T) : Contributed(Contributions(u, w), u, w, S)
    BY Zenon, ContributionsAre
<1>1. Len(Contributions(s, w)) = Len(s) /\ \A i \in 1..Len(s) : Contributions(s, w)[i] = <<>>
    BY <1>0 DEF Contributed
<1> QED
    BY <1>1, JoinedNothing DEF Weight

LEMMA WeightSame ==
    ASSUME NEW T, NEW S, NEW w \in [T -> Seq(S)], NEW s \in Seq(T), NEW t \in Seq(T),
           Len(s) = Len(t), \A i \in 1..Len(s) : w[s[i]] = w[t[i]]
    PROVE  Weight(s, w) = Weight(t, w)
<1>0. \A u \in Seq(T) : Contributed(Contributions(u, w), u, w, S)
    BY Zenon, ContributionsAre
<1>1. Contributions(s, w) \in Seq(Seq(S)) /\ Len(Contributions(s, w)) = Len(s)
      /\ \A i \in 1..Len(s) : Contributions(s, w)[i] = w[s[i]]
    BY <1>0 DEF Contributed
<1>2. Contributions(t, w) \in Seq(Seq(S)) /\ Len(Contributions(t, w)) = Len(t)
      /\ \A i \in 1..Len(t) : Contributions(t, w)[i] = w[t[i]]
    BY <1>0 DEF Contributed
<1>3. Contributions(s, w) = Contributions(t, w)
    BY <1>1, <1>2, SeqEqual
<1> QED
    BY <1>3 DEF Weight

-----------------------------------------------------------------------------
(* What a sequence has at some places: f says where each member of the result *)
(* was.                                                                       *)
Picked(f, w, s, I) ==
    /\ f \in [1..Len(w) -> I]
    /\ \A a, b \in 1..Len(w) : a < b => f[a] < f[b]
    /\ \A i \in I : \E a \in 1..Len(w) : f[a] = i
    /\ \A a \in 1..Len(w) : w[a] = s[f[a]]

Marks(s, K) == [i \in DOMAIN s |-> IF i \in K THEN <<s[i]>> ELSE <<>>]

LEMMA MarksAre ==
    ASSUME NEW T, NEW s \in Seq(T), NEW K
    PROVE  /\ Marks(s, K) \in Seq(Seq(T))
           /\ Len(Marks(s, K)) = Len(s)
           /\ \A i \in 1..Len(s) : Marks(s, K)[i] = IF i \in K THEN <<s[i]>> ELSE <<>>
<1>1. \A i \in 1..Len(s) : (IF i \in K THEN <<s[i]>> ELSE <<>>) \in Seq(T)
    OBVIOUS
<1>2. DOMAIN s = 1..Len(s) /\ Len(s) \in Nat
    OBVIOUS
<1>3. Marks(s, K) \in [1..Len(s) -> Seq(T)]
    BY <1>1, <1>2 DEF Marks
<1> QED
    BY <1>2, <1>3 DEF Marks

LEMMA OnePicked ==
    ASSUME NEW T, NEW s \in Seq(T), NEW w \in Seq(T), NEW n \in Nat, NEW K, n + 1 \in 1..Len(s), n + 1 \in K,
           NEW f, Picked(f, w, s, K \cap (1..n))
    PROVE  \E g : Picked(g, w \o <<s[n + 1]>>, s, K \cap (1..(n + 1)))
<1> DEFINE v == w \o <<s[n + 1]>>
           L == Len(w)
           g == [a \in 1..(L + 1) |-> IF a <= L THEN f[a] ELSE n + 1]
           I == K \cap (1..n)
           J == K \cap (1..(n + 1))
<1>1. v \in Seq(T) /\ L \in Nat /\ Len(v) = L + 1 /\ (\A a \in 1..L : v[a] = w[a]) /\ v[L + 1] = s[n + 1]
  <2>1. s[n + 1] \in T
      OBVIOUS
  <2> QED
      BY <2>1
<1>2. J = I \cup {n + 1} /\ \A i \in I : i < n + 1
    OBVIOUS
<1>3. /\ f \in [1..L -> I] /\ \A a, b \in 1..L : a < b => f[a] < f[b]
      /\ \A i \in I : \E a \in 1..L : f[a] = i
      /\ \A a \in 1..L : w[a] = s[f[a]]
    BY DEF Picked
<1> HIDE DEF v, I, J
<1>4. /\ g \in [1..(L + 1) -> J] /\ g[L + 1] = n + 1
      /\ \A a \in 1..L : g[a] = f[a]
  <2>1. \A a \in 1..(L + 1) : a <= L => a \in 1..L
      BY <1>1
  <2>2. \A a \in 1..L : a \in 1..(L + 1) /\ a <= L
      BY <1>1
  <2>3. L + 1 \in 1..(L + 1) /\ ~(L + 1 <= L)
      BY <1>1
  <2>4. \A a \in 1..(L + 1) : g[a] = IF a <= L THEN f[a] ELSE n + 1
      BY Zenon
  <2>5. \A a \in 1..(L + 1) : (IF a <= L THEN f[a] ELSE n + 1) \in J
      BY <1>2, <1>3, <2>1
  <2>6. g \in [1..(L + 1) -> J]
      BY Zenon, <2>5
  <2> HIDE DEF g
  <2> QED
      BY <2>2, <2>3, <2>4, <2>6
<1>a. \A a \in 1..(L + 1) : a \in 1..L \/ a = L + 1
    BY <1>1
<1> HIDE DEF g
<1>5. ASSUME NEW a \in 1..(L + 1), NEW b \in 1..(L + 1), a < b PROVE g[a] < g[b]
  <2>1. a \in 1..L
      BY <1>1, <1>5
  <2>2. CASE b \in 1..L
      BY <1>3, <1>4, <1>5, <2>1, <2>2
  <2>3. CASE b = L + 1
    <3>1. f[a] \in I
        BY <1>3, <2>1
    <3>2. g[a] = f[a] /\ g[b] = n + 1
        BY <1>4, <2>1, <2>3
    <3> QED
        BY <1>2, <3>1, <3>2
  <2> QED
      BY <1>a, <2>2, <2>3
<1>6. ASSUME NEW i \in J PROVE \E a \in 1..(L + 1) : g[a] = i
  <2>1. CASE i = n + 1
    <3>1. L + 1 \in 1..(L + 1)
        BY <1>1
    <3> QED
        BY <1>4, <2>1, <3>1
  <2>2. CASE i \in I
    <3>1. PICK a \in 1..L : f[a] = i
        BY <1>3, <2>2
    <3>2. a \in 1..(L + 1)
        BY <1>1
    <3> QED
        BY <1>4, <3>1, <3>2
  <2> QED
      BY <1>2, <2>1, <2>2
<1>7. ASSUME NEW a \in 1..(L + 1) PROVE v[a] = s[g[a]]
    BY <1>1, <1>3, <1>4, <1>a
<1>8. Picked(g, v, s, J)
    BY <1>1, <1>4, <1>5, <1>6, <1>7 DEF Picked
<1> QED
    BY <1>8 DEF v, J
LEMMA NonePicked ==
    ASSUME NEW s, NEW w, NEW n \in Nat, NEW K, n + 1 \notin K, NEW f, Picked(f, w, s, K \cap (1..n))
    PROVE  Picked(f, w, s, K \cap (1..(n + 1)))
<1>1. K \cap (1..n) = K \cap (1..(n + 1))
    OBVIOUS
<1> QED
    BY <1>1

LEMMA WhereIs ==
    ASSUME NEW T, NEW s \in Seq(T), NEW K
    PROVE  Where(s, K) \in Seq(T) /\ \E f : Picked(f, Where(s, K), s, K \cap (1..Len(s)))
<1> DEFINE m == Marks(s, K)
           k == Joining(m)
           Good == {n \in Nat : n <= Len(s) => \E f : Picked(f, k[n], s, K \cap (1..n))}
<1>0. Where(s, K) = k[Len(s)] /\ Len(s) \in Nat
  <2>1. Where(s, K) = Joined(m) /\ Len(m) = Len(s)
      BY MarksAre DEF Where, Marks
  <2> QED
      BY <2>1 DEF Joined
<1>1. m \in Seq(Seq(T)) /\ Len(m) = Len(s) /\ \A i \in 1..Len(s) : m[i] = IF i \in K THEN <<s[i]>> ELSE <<>>
    BY MarksAre
<1> HIDE DEF m
<1>2. (\A n \in 0..Len(s) : k[n] \in Seq(T)) /\ k[0] = <<>> /\ \A n \in 1..Len(s) : k[n] = k[n - 1] \o m[n]
    BY <1>1, JoinedIs
<1> HIDE DEF k
<1>3. 0 \in Good
  <2>1. Picked(<<>>, <<>>, s, {})
      BY DEF Picked
  <2>2. K \cap (1..0) = {}
      OBVIOUS
  <2> QED
      BY <1>2, <2>1, <2>2
<1>4. ASSUME NEW n \in Nat, n \in Good PROVE n + 1 \in Good
  <2> SUFFICES ASSUME n + 1 <= Len(s) PROVE \E f : Picked(f, k[n + 1], s, K \cap (1..(n + 1)))
    <3>1. n + 1 \in Nat
        OBVIOUS
    <3> QED
        BY Zenon, <3>1
  <2>1. n <= Len(s) /\ n \in 0..Len(s) /\ n + 1 \in 1..Len(s) /\ (n + 1) - 1 = n
      BY <1>0
  <2>2. PICK f : Picked(f, k[n], s, K \cap (1..n))
      BY <1>4, <2>1
  <2>3. k[n] \in Seq(T) /\ k[n + 1] = k[n] \o m[n + 1]
      BY <1>2, <2>1
  <2>4. CASE n + 1 \in K
    <3>1. k[n + 1] = k[n] \o <<s[n + 1]>>
        BY <1>1, <2>1, <2>3, <2>4
    <3>2. \E g : Picked(g, k[n] \o <<s[n + 1]>>, s, K \cap (1..(n + 1)))
        BY <2>1, <2>2, <2>3, <2>4, OnePicked
    <3> QED
        BY <3>1, <3>2
  <2>5. CASE n + 1 \notin K
    <3>1. m[n + 1] = <<>>
        BY <1>1, <2>1, <2>5
    <3>2. k[n + 1] = k[n]
        BY <2>3, <3>1
    <3>3. Picked(f, k[n], s, K \cap (1..(n + 1)))
        BY Zenon, <2>2, <2>5, NonePicked
    <3> QED
        BY <3>2, <3>3
  <2> QED
      BY <2>4, <2>5
<1> HIDE DEF Good
<1>5. Len(s) \in Good
    BY <1>0, <1>3, <1>4, Induction
<1>6. \E f : Picked(f, k[Len(s)], s, K \cap (1..Len(s)))
  <2>1. Len(s) <= Len(s)
      BY <1>0
  <2> QED
      BY Zenon, <1>5, <2>1 DEF Good
<1>7. k[Len(s)] \in Seq(T)
    BY <1>0, <1>2
<1> QED
    BY <1>0, <1>6, <1>7

\* What is left out of a sequence without weight leaves its weight alone.
LEMMA WhereWeighs ==
    ASSUME NEW T, NEW S, NEW w \in [T -> Seq(S)], NEW s \in Seq(T), NEW K,
           \A i \in 1..Len(s) : i \notin K => w[s[i]] = <<>>
    PROVE  Weight(Where(s, K), w) = Weight(s, w)
<1> DEFINE m == Marks(s, K)
           k == Joining(m)
           c == Contributions(s, w)
           Good == {n \in Nat : n <= Len(s) => Weight(k[n], w) = Joining(c)[n]}
<1>0. Where(s, K) = k[Len(s)] /\ Len(s) \in Nat
  <2>1. Where(s, K) = Joined(m) /\ Len(m) = Len(s)
      BY MarksAre DEF Where, Marks
  <2> QED
      BY <2>1 DEF Joined
<1>1. m \in Seq(Seq(T)) /\ Len(m) = Len(s) /\ \A i \in 1..Len(s) : m[i] = IF i \in K THEN <<s[i]>> ELSE <<>>
    BY MarksAre
<1> HIDE DEF m
<1>2. (\A n \in 0..Len(s) : k[n] \in Seq(T)) /\ k[0] = <<>> /\ \A n \in 1..Len(s) : k[n] = k[n - 1] \o m[n]
    BY <1>1, JoinedIs
<1>3. Contributed(c, s, w, S)
    BY Zenon, ContributionsAre
<1>w. Weight(s, w) = Joining(c)[Len(c)]
    BY DEF Weight, Joined
<1> HIDE DEF k, c
<1>4. c \in Seq(Seq(S)) /\ Len(c) = Len(s) /\ \A i \in 1..Len(s) : c[i] = w[s[i]]
    BY <1>3 DEF Contributed
<1>5. (\A n \in 0..Len(s) : Joining(c)[n] \in Seq(S)) /\ Joining(c)[0] = <<>>
      /\ \A n \in 1..Len(s) : Joining(c)[n] = Joining(c)[n - 1] \o c[n]
    BY <1>4, JoinedIs
<1>6. 0 \in Good
  <2>1. <<>> \in Seq(T) /\ Len(<<>>) = 0
      OBVIOUS
  <2>a. \A i \in 1..Len(<<>>) : w[<<>>[i]] = <<>>
      OBVIOUS
  <2>2. Weight(<<>>, w) = <<>>
      BY Zenon, <2>1, <2>a, WeightNothing
  <2> QED
      BY <1>2, <1>5, <2>2
<1>7. ASSUME NEW n \in Nat, n \in Good PROVE n + 1 \in Good
  <2> SUFFICES ASSUME n + 1 <= Len(s) PROVE Weight(k[n + 1], w) = Joining(c)[n + 1]
      OBVIOUS
  <2>1. n <= Len(s) /\ n \in 0..Len(s) /\ n + 1 \in 1..Len(s) /\ (n + 1) - 1 = n
      BY <1>0
  <2>2. k[n] \in Seq(T) /\ k[n + 1] = k[n] \o m[n + 1] /\ Joining(c)[n + 1] = Joining(c)[n] \o w[s[n + 1]]
      BY <1>2, <1>4, <1>5, <2>1
  <2>3. Weight(k[n], w) = Joining(c)[n] /\ Joining(c)[n] \in Seq(S)
      BY <1>5, <1>7, <2>1
  <2>4. CASE n + 1 \in K
    <3>a. s[n + 1] \in T
        BY <2>1
    <3>b. <<s[n + 1]>> \in Seq(T)
        BY <3>a
    <3>c. m[n + 1] = <<s[n + 1]>>
        BY <1>1, <2>1, <2>4
    <3>1. m[n + 1] = <<s[n + 1]>> /\ s[n + 1] \in T /\ <<s[n + 1]>> \in Seq(T)
        BY <3>a, <3>b, <3>c
    <3>2. Weight(k[n] \o <<s[n + 1]>>, w) = Weight(k[n], w) \o Weight(<<s[n + 1]>>, w)
        BY <2>2, <3>1, WeightTwice
    <3>3. Weight(<<s[n + 1]>>, w) = w[s[n + 1]]
        BY <3>1, WeightOne
    <3> QED
        BY <2>2, <2>3, <3>1, <3>2, <3>3
  <2>5. CASE n + 1 \notin K
    <3>1. m[n + 1] = <<>> /\ w[s[n + 1]] = <<>>
        BY <1>1, <2>1, <2>5
    <3>2. k[n + 1] = k[n] /\ Joining(c)[n + 1] = Joining(c)[n]
        BY <2>2, <2>3, <3>1
    <3> QED
        BY <2>3, <3>2
  <2> QED
      BY <2>4, <2>5
<1> HIDE DEF Good
<1>8. Len(s) \in Good
    BY <1>0, <1>6, <1>7, Induction
<1> QED
    BY <1>0, <1>4, <1>8, <1>w DEF Good
-----------------------------------------------------------------------------
(* Parts and messages. All is what their reasoning may be by.                *)
All == Thoughts \cup {None}
Msg(bys) == [role : Role, parts : Seq(Part(bys))]

LEMMA PartIs ==
    ASSUME NEW bys, NEW x \in Part(bys)
    PROVE  /\ x.kind \in {"text", "reasoning", "call", "result"}
           /\ x.kind = "text" => x.words \in Seq(STRING)
           /\ x.kind = "reasoning" => x.by \in bys
           /\ x.kind = "call" => x.id \in Id /\ x.named \in BOOLEAN
           /\ x.kind = "result" => x.id \in Id
BY DEF Part

LEMMA PartsAre ==
    ASSUME NEW bys
    PROVE  /\ \A ws \in Seq(STRING) : Text(ws) \in Part(bys) /\ Text(ws).kind = "text" /\ Text(ws).words = ws
           /\ \A by \in bys : Reasoning(by) \in Part(bys) /\ Reasoning(by).kind = "reasoning" /\ Reasoning(by).by = by
           /\ \A id \in Id, named \in BOOLEAN :
                /\ Call(id, named) \in Part(bys) /\ Call(id, named).kind = "call"
                /\ Call(id, named).id = id /\ Call(id, named).named = named
           /\ \A id \in Id : Result(id) \in Part(bys) /\ Result(id).kind = "result" /\ Result(id).id = id
BY DEF Part, Text, Reasoning, Call, Result

LEMMA PartsGrow ==
    ASSUME NEW bys, NEW more, bys \subseteq more
    PROVE  /\ Part(bys) \subseteq Part(more)
           /\ Seq(Part(bys)) \subseteq Seq(Part(more))
           /\ Msg(bys) \subseteq Msg(more)
           /\ Seq(Msg(bys)) \subseteq Seq(Msg(more))
<1>1. Part(bys) \subseteq Part(more)
  <2>1. [kind : {"reasoning"}, by : bys] \subseteq [kind : {"reasoning"}, by : more]
      OBVIOUS
  <2> QED
      BY <2>1 DEF Part
<1>2. Seq(Part(bys)) \subseteq Seq(Part(more))
    BY <1>1, SeqMonotonic
<1>3. Msg(bys) \subseteq Msg(more)
    BY <1>2 DEF Msg
<1>4. Seq(Msg(bys)) \subseteq Seq(Msg(more))
    BY <1>3, SeqMonotonic
<1> QED
    BY <1>1, <1>2, <1>3, <1>4

LEMMA MessageIs ==
    ASSUME NEW bys, NEW m \in Msg(bys), NEW ps \in Seq(Part(bys))
    PROVE  /\ m.role \in Role /\ m.parts \in Seq(Part(bys))
           /\ [m EXCEPT !.parts = ps] \in Msg(bys)
           /\ [m EXCEPT !.parts = ps].role = m.role
           /\ [m EXCEPT !.parts = ps].parts = ps
BY DEF Msg

-----------------------------------------------------------------------------
(* The words of a message are those of its parts, those of a history those   *)
(* of its messages.                                                          *)
PartWords == [x \in Part(All) |-> IF x.kind = "text" THEN x.words ELSE <<>>]
MessageWords == [m \in Msg(All) |-> IF m.role = "system" THEN <<>> ELSE WordsIn(m.parts)]

LEMMA PartWordsIs ==
    /\ PartWords \in [Part(All) -> Seq(STRING)]
    /\ \A x \in Part(All) : PartWords[x] = IF x.kind = "text" THEN x.words ELSE <<>>
<1>1. \A x \in Part(All) : (IF x.kind = "text" THEN x.words ELSE <<>>) \in Seq(STRING)
  <2>1. \A x \in Part(All) : x.kind = "text" => x.words \in Seq(STRING)
      BY PartIs
  <2>2. <<>> \in Seq(STRING)
      OBVIOUS
  <2> QED
      BY <2>1, <2>2
<1> QED
    BY <1>1 DEF PartWords

LEMMA WordsInIs ==
    ASSUME NEW ps \in Seq(Part(All))
    PROVE  WordsIn(ps) = Weight(ps, PartWords) /\ WordsIn(ps) \in Seq(STRING)
<1>1. \A i \in DOMAIN ps : PartWords[ps[i]] = IF ps[i].kind = "text" THEN ps[i].words ELSE <<>>
    BY PartWordsIs
<1>2. Contributions(ps, PartWords) = [i \in DOMAIN ps |-> IF ps[i].kind = "text" THEN ps[i].words ELSE <<>>]
    BY <1>1 DEF Contributions
<1>3. Weight(ps, PartWords) \in Seq(STRING)
    BY PartWordsIs, WeightIs
<1> QED
    BY <1>2, <1>3 DEF WordsIn, Weight

LEMMA MessageWordsIs ==
    /\ MessageWords \in [Msg(All) -> Seq(STRING)]
    /\ \A m \in Msg(All) : MessageWords[m] = IF m.role = "system" THEN <<>> ELSE WordsIn(m.parts)
<1>1. \A m \in Msg(All) : (IF m.role = "system" THEN <<>> ELSE WordsIn(m.parts)) \in Seq(STRING)
  <2>1. \A ps \in Seq(Part(All)) : WordsIn(ps) \in Seq(STRING)
      BY WordsInIs
  <2>2. <<>> \in Seq(STRING)
      OBVIOUS
  <2>3. \A m \in Msg(All) : m.parts \in Seq(Part(All))
      BY DEF Msg
  <2> QED
      BY <2>1, <2>2, <2>3
<1> QED
    BY <1>1 DEF MessageWords

LEMMA WordsIs ==
    ASSUME NEW h \in Seq(Msg(All))
    PROVE  Words(h) = Weight(h, MessageWords) /\ Words(h) \in Seq(STRING)
<1>1. \A i \in DOMAIN h : MessageWords[h[i]] = IF h[i].role = "system" THEN <<>> ELSE WordsIn(h[i].parts)
    BY MessageWordsIs
<1>2. Contributions(h, MessageWords) = [i \in DOMAIN h |-> IF h[i].role = "system" THEN <<>> ELSE WordsIn(h[i].parts)]
    BY <1>1 DEF Contributions
<1>3. Weight(h, MessageWords) \in Seq(STRING)
    BY MessageWordsIs, WeightIs
<1> QED
    BY <1>2, <1>3 DEF Words, Weight

LEMMA WordsInTwice ==
    ASSUME NEW ps \in Seq(Part(All)), NEW qs \in Seq(Part(All))
    PROVE  WordsIn(ps \o qs) = WordsIn(ps) \o WordsIn(qs)
<1>1. Weight(ps \o qs, PartWords) = Weight(ps, PartWords) \o Weight(qs, PartWords)
    BY PartWordsIs, WeightTwice
<1>2. \A us \in Seq(Part(All)) : WordsIn(us) = Weight(us, PartWords)
    BY WordsInIs
<1>3. ps \o qs \in Seq(Part(All))
    OBVIOUS
<1> QED
    BY <1>1, <1>2, <1>3

LEMMA WordsInOne ==
    ASSUME NEW x \in Part(All)
    PROVE  WordsIn(<<x>>) = IF x.kind = "text" THEN x.words ELSE <<>>
<1>1. Weight(<<x>>, PartWords) = PartWords[x]
    BY PartWordsIs, WeightOne
<1>2. <<x>> \in Seq(Part(All))
    OBVIOUS
<1> QED
    BY <1>1, <1>2, WordsInIs, PartWordsIs

LEMMA WordsTwice ==
    ASSUME NEW h \in Seq(Msg(All)), NEW k \in Seq(Msg(All))
    PROVE  Words(h \o k) = Words(h) \o Words(k)
<1>1. Weight(h \o k, MessageWords) = Weight(h, MessageWords) \o Weight(k, MessageWords)
    BY MessageWordsIs, WeightTwice
<1>2. \A us \in Seq(Msg(All)) : Words(us) = Weight(us, MessageWords)
    BY WordsIs
<1>3. h \o k \in Seq(Msg(All))
    OBVIOUS
<1> QED
    BY <1>1, <1>2, <1>3

LEMMA WordsOne ==
    ASSUME NEW m \in Msg(All)
    PROVE  Words(<<m>>) = IF m.role = "system" THEN <<>> ELSE WordsIn(m.parts)
<1>1. Weight(<<m>>, MessageWords) = MessageWords[m]
    BY MessageWordsIs, WeightOne
<1>2. <<m>> \in Seq(Msg(All))
    OBVIOUS
<1> QED
    BY <1>1, <1>2, WordsIs, MessageWordsIs
-----------------------------------------------------------------------------
(* normalize_messages: histories stay histories and keep their words.        *)

LEMMA FrontIs ==
    ASSUME NEW T, NEW s \in Seq(T), s # <<>>
    PROVE  /\ Front(s) \in Seq(T) /\ Last(s) \in T /\ Len(s) \in Nat \ {0}
           /\ Len(Front(s)) = Len(s) - 1
           /\ \A i \in 1..(Len(s) - 1) : Front(s)[i] = s[i]
           /\ s = Front(s) \o <<Last(s)>>
<1>1. Len(s) \in Nat /\ Len(s) # 0
    OBVIOUS
<1>a. PICK n \in Nat : Len(s) = n + 1 /\ n = Len(s) - 1
  <2>1. Len(s) - 1 \in Nat /\ Len(s) = (Len(s) - 1) + 1
      BY <1>1
  <2> QED
      BY <2>1
<1>2. Front(s) \in Seq(T) /\ Len(Front(s)) = Len(s) - 1 /\ \A i \in 1..(Len(s) - 1) : Front(s)[i] = s[i]
  <2>1. \A i \in 1..n : s[i] \in T
      BY <1>a
  <2>2. 1 \in Int /\ n \in Int
      OBVIOUS
  <2>3. /\ SubSeq(s, 1, n) \in Seq(T)
        /\ Len(SubSeq(s, 1, n)) = IF 1 <= n THEN n - 1 + 1 ELSE 0
        /\ \A i \in 1..(n - 1 + 1) : SubSeq(s, 1, n)[i] = s[1 + i - 1]
      BY <2>1, <2>2, SubSeqProperties
  <2>4. n - 1 + 1 = n /\ (IF 1 <= n THEN n - 1 + 1 ELSE 0) = n /\ \A i \in 1..n : 1 + i - 1 = i
      OBVIOUS
  <2>5. Front(s) = SubSeq(s, 1, n)
      BY <1>a DEF Front
  <2> HIDE DEF Front
  <2>6. \A i \in 1..n : Front(s)[i] = s[i]
      BY <2>3, <2>4, <2>5
  <2> QED
      BY <1>a, <2>3, <2>4, <2>5, <2>6
<1>3. Last(s) \in T /\ Last(s) = s[Len(s)]
    BY <1>1 DEF Last
<1> DEFINE f == Front(s)
           e == Last(s)
<1> HIDE DEF f, e
<1>4. f \in Seq(T) /\ Len(f) = Len(s) - 1 /\ (\A i \in 1..(Len(s) - 1) : f[i] = s[i]) /\ e \in T /\ e = s[Len(s)]
    BY <1>2, <1>3 DEF f, e
<1>5. s = f \o <<e>>
  <2>1. f \o <<e>> \in Seq(T) /\ Len(f \o <<e>>) = Len(s) /\ (\A i \in 1..(Len(s) - 1) : (f \o <<e>>)[i] = f[i])
        /\ (f \o <<e>>)[Len(s)] = e
      BY <1>1, <1>4
  <2>2. \A i \in 1..Len(s) : i \in 1..(Len(s) - 1) \/ i = Len(s)
      BY <1>1
  <2>3. \A i \in 1..Len(s) : (f \o <<e>>)[i] = s[i]
      BY <1>4, <2>1, <2>2
  <2> QED
      BY <2>1, <2>3
<1> QED
    BY <1>1, <1>2, <1>3, <1>5 DEF f, e

LEMMA HeadIs ==
    ASSUME NEW T, NEW s \in Seq(T), s # <<>>
    PROVE  Head(s) \in T /\ Tail(s) \in Seq(T) /\ s = <<Head(s)>> \o Tail(s) /\ Head(s) = s[1]
<1>1. Head(s) \in T /\ Tail(s) \in Seq(T) /\ Len(Tail(s)) = Len(s) - 1 /\ Head(s) = s[1]
      /\ (\A i \in 1..(Len(s) - 1) : Tail(s)[i] = s[i + 1]) /\ Len(s) \in Nat /\ Len(s) # 0
    OBVIOUS
<1> DEFINE f == Tail(s)
           e == Head(s)
<1> HIDE DEF f, e
<1>2. e \in T /\ f \in Seq(T) /\ Len(f) = Len(s) - 1 /\ e = s[1] /\ \A i \in 1..(Len(s) - 1) : f[i] = s[i + 1]
    BY <1>1 DEF e, f
<1>3. <<e>> \o f \in Seq(T) /\ Len(<<e>> \o f) = Len(s) /\ (<<e>> \o f)[1] = e
      /\ \A i \in 2..Len(s) : (<<e>> \o f)[i] = f[i - 1]
  <2>1. <<e>> \in Seq(T) /\ Len(<<e>>) = 1 /\ <<e>>[1] = e
      BY <1>2
  <2> DEFINE d == <<e>>
  <2> HIDE DEF d
  <2>2. d \in Seq(T) /\ Len(d) = 1 /\ d[1] = e
      BY <2>1 DEF d
  <2>3. d \o f \in Seq(T) /\ Len(d \o f) = Len(s) /\ (d \o f)[1] = e
        /\ \A i \in 2..Len(s) : (d \o f)[i] = f[i - 1]
    <3>1. d \o f \in Seq(T) /\ Len(d \o f) = 1 + Len(f)
          /\ \A i \in 1..(1 + Len(f)) : (d \o f)[i] = IF i <= 1 THEN d[i] ELSE f[i - 1]
      <4>1. d \in Seq(T) /\ f \in Seq(T)
          BY <1>2, <2>2
      <4>2. /\ d \o f \in Seq(T) /\ Len(d \o f) = Len(d) + Len(f)
            /\ \A i \in 1..(Len(d) + Len(f)) : (d \o f)[i] = IF i <= Len(d) THEN d[i] ELSE f[i - Len(d)]
          BY <4>1, ConcatProperties
      <4>3. Len(d) = 1
          BY <2>2
      <4> QED
          BY Zenon, <4>2, <4>3
    <3>2. 1 + Len(f) = Len(s) /\ 1 \in 1..Len(s) /\ \A i \in 2..Len(s) : i \in 1..Len(s) /\ ~(i <= 1)
        BY <1>1, <1>2
    <3> QED
        BY <2>2, <3>1, <3>2
  <2> QED
      BY <2>3 DEF d
<1>4. \A i \in 1..Len(s) : i = 1 \/ (i \in 2..Len(s) /\ i - 1 \in 1..(Len(s) - 1) /\ (i - 1) + 1 = i)
    BY <1>1
<1>5. \A i \in 1..Len(s) : (<<e>> \o f)[i] = s[i]
    BY <1>2, <1>3, <1>4
<1>6. s = <<e>> \o f
    BY <1>3, <1>5
<1> QED
    BY <1>1, <1>6 DEF e, f

\* Texts that meet become one, and nothing becomes a result.
LEMMA PartsMerge ==
    ASSUME NEW bys \in SUBSET All, NEW ps \in Seq(Part(bys)), NEW qs \in Seq(Part(bys)), ps # <<>>, qs # <<>>,
           Last(ps).kind = "text", Head(qs).kind = "text"
    PROVE  LET rs == Front(ps) \o <<Text(Last(ps).words \o Head(qs).words)>> \o Tail(qs)
           IN  rs \in Seq(Part(bys)) /\ WordsIn(rs) = WordsIn(ps) \o WordsIn(qs)
<1> DEFINE f == Front(ps)
           a == Last(ps)
           b == Head(qs)
           t == Tail(qs)
           x == Text(a.words \o b.words)
<1>1. f \in Seq(Part(bys)) /\ a \in Part(bys) /\ ps = f \o <<a>>
    BY FrontIs
<1>2. b \in Part(bys) /\ t \in Seq(Part(bys)) /\ qs = <<b>> \o t
    BY HeadIs
<1>k. a.kind = "text" /\ b.kind = "text"
    OBVIOUS
<1> HIDE DEF f, a, b, t
<1>3. a.words \in Seq(STRING) /\ b.words \in Seq(STRING)
    BY <1>1, <1>2, <1>k, PartIs
<1>4. a.words \o b.words \in Seq(STRING)
    BY <1>3
<1>5. x \in Part(bys) /\ x.kind = "text" /\ x.words = a.words \o b.words
    BY <1>4, PartsAre
<1> HIDE DEF x
<1>6. <<x>> \in Seq(Part(bys)) /\ <<a>> \in Seq(Part(bys)) /\ <<b>> \in Seq(Part(bys))
    BY <1>1, <1>2, <1>5
<1>7. f \o <<x>> \in Seq(Part(bys))
    BY <1>1, <1>6
<1>8. (f \o <<x>>) \o t \in Seq(Part(bys))
    BY <1>2, <1>7
<1>9. Seq(Part(bys)) \subseteq Seq(Part(All)) /\ Part(bys) \subseteq Part(All)
    BY PartsGrow
<1>a. /\ f \in Seq(Part(All)) /\ t \in Seq(Part(All)) /\ <<x>> \in Seq(Part(All)) /\ <<a>> \in Seq(Part(All))
      /\ <<b>> \in Seq(Part(All)) /\ f \o <<x>> \in Seq(Part(All))
    BY <1>1, <1>2, <1>6, <1>7, <1>9
<1>b. \A us, vs \in Seq(Part(All)) : WordsIn(us \o vs) = WordsIn(us) \o WordsIn(vs)
    BY WordsInTwice
<1>c. \A y \in Part(All) : y.kind = "text" => WordsIn(<<y>>) = y.words
    BY WordsInOne
<1>d. WordsIn((f \o <<x>>) \o t) = (WordsIn(f) \o (a.words \o b.words)) \o WordsIn(t)
  <2>1. WordsIn((f \o <<x>>) \o t) = WordsIn(f \o <<x>>) \o WordsIn(t)
      BY Zenon, <1>a, <1>b
  <2>2. WordsIn(f \o <<x>>) = WordsIn(f) \o WordsIn(<<x>>)
      BY Zenon, <1>a, <1>b
  <2>3. WordsIn(<<x>>) = a.words \o b.words
      BY Zenon, <1>5, <1>9, <1>c
  <2> QED
      BY Zenon, <2>1, <2>2, <2>3
<1>e. WordsIn(ps) = WordsIn(f) \o a.words
  <2>1. WordsIn(f \o <<a>>) = WordsIn(f) \o WordsIn(<<a>>)
      BY Zenon, <1>a, <1>b
  <2>2. WordsIn(<<a>>) = a.words
      BY <1>1, <1>9, <1>c, <1>k
  <2> QED
      BY Zenon, <1>1, <2>1, <2>2
<1>f. WordsIn(qs) = b.words \o WordsIn(t)
    BY Zenon, <1>2, <1>9, <1>a, <1>b, <1>c, <1>k
<1>g. (WordsIn(f) \o (a.words \o b.words)) \o WordsIn(t) = (WordsIn(f) \o a.words) \o (b.words \o WordsIn(t))
  <2>1. WordsIn(f) \in Seq(STRING) /\ WordsIn(t) \in Seq(STRING)
      BY <1>a, WordsInIs
  <2>2. \A s, u, v \in Seq(STRING) : (s \o u) \o v = s \o (u \o v)
      BY ConcatAssociative
  <2>3. \A s, u \in Seq(STRING) : s \o u \in Seq(STRING)
      OBVIOUS
  <2> DEFINE wf == WordsIn(f)
             wt == WordsIn(t)
             wa == a.words
             wb == b.words
  <2> HIDE DEF wf, wt, wa, wb
  <2>4. wf \in Seq(STRING) /\ wt \in Seq(STRING) /\ wa \in Seq(STRING) /\ wb \in Seq(STRING)
      BY <1>3, <2>1 DEF wf, wt, wa, wb
  <2>5. wf \o (wa \o wb) = (wf \o wa) \o wb /\ wf \o wa \in Seq(STRING)
    <3>1. (wf \o wa) \o wb = wf \o (wa \o wb)
        BY Zenon, <2>2, <2>4
    <3>2. wf \o wa \in Seq(STRING)
        BY Zenon, <2>3, <2>4
    <3> QED
        BY Zenon, <3>1, <3>2
  <2>6. ((wf \o wa) \o wb) \o wt = (wf \o wa) \o (wb \o wt)
      BY Zenon, <2>2, <2>4, <2>5
  <2>7. (wf \o (wa \o wb)) \o wt = (wf \o wa) \o (wb \o wt)
      BY Zenon, <2>5, <2>6
  <2> QED
      BY <2>7 DEF wf, wt, wa, wb
<1>h. WordsIn((f \o <<x>>) \o t) = WordsIn(ps) \o WordsIn(qs)
    BY Zenon, <1>d, <1>e, <1>f, <1>g
<1> QED
    BY Zenon, <1>8, <1>h DEF f, a, b, t, x

LEMMA MergeIs ==
    ASSUME NEW bys \in SUBSET All, NEW m \in Msg(bys), NEW n \in Msg(bys)
    PROVE  /\ Merge(m, n) \in Msg(bys) /\ Merge(m, n).role = m.role
           /\ WordsIn(Merge(m, n).parts) = WordsIn(m.parts) \o WordsIn(n.parts)
<1> DEFINE met == Front(m.parts) \o <<Text(Last(m.parts).words \o Head(n.parts).words)>> \o Tail(n.parts)
           meets == TextOnly(m) /\ TextOnly(n) /\ m.parts # <<>> /\ n.parts # <<>>
           ps == IF meets THEN met ELSE m.parts \o n.parts
<1>1. m.parts \in Seq(Part(bys)) /\ n.parts \in Seq(Part(bys))
    BY DEF Msg
<1>2. Merge(m, n) = [m EXCEPT !.parts = ps]
    BY Zenon DEF Merge
<1>3. ps \in Seq(Part(bys)) /\ WordsIn(ps) = WordsIn(m.parts) \o WordsIn(n.parts)
  <2>1. CASE meets
    <3>1. Last(m.parts).kind = "text"
      <4>1. Len(m.parts) \in DOMAIN m.parts /\ Last(m.parts) = m.parts[Len(m.parts)]
          BY <1>1, <2>1 DEF Last
      <4> QED
          BY <2>1, <4>1 DEF TextOnly
    <3>2. Head(n.parts).kind = "text"
      <4>1. 1 \in DOMAIN n.parts /\ Head(n.parts) = n.parts[1]
          BY <1>1, <2>1
      <4> QED
          BY <2>1, <4>1 DEF TextOnly
    <3>3. m.parts # <<>> /\ n.parts # <<>>
        BY <2>1
    <3>4. met \in Seq(Part(bys)) /\ WordsIn(met) = WordsIn(m.parts) \o WordsIn(n.parts)
        BY Zenon, <1>1, <3>1, <3>2, <3>3, PartsMerge
    <3> QED
        BY Zenon, <2>1, <3>4
  <2>2. CASE ~meets
    <3>1. m.parts \o n.parts \in Seq(Part(bys))
        BY <1>1
    <3>2. m.parts \in Seq(Part(All)) /\ n.parts \in Seq(Part(All))
        BY <1>1, PartsGrow
    <3>3. WordsIn(m.parts \o n.parts) = WordsIn(m.parts) \o WordsIn(n.parts)
        BY <3>2, WordsInTwice
    <3> QED
        BY Zenon, <2>2, <3>1, <3>3
  <2> QED
      BY <2>1, <2>2
<1> HIDE DEF ps
<1> QED
    BY <1>2, <1>3, MessageIs
LEMMA MessagesMerge ==
    ASSUME NEW bys \in SUBSET All, NEW ms \in Seq(Msg(bys)), NEW m \in Msg(bys)
    PROVE  /\ MergedWith(ms, m) \in Seq(Msg(bys))
           /\ Words(MergedWith(ms, m)) = Words(ms) \o Words(<<m>>)
           /\ Proper(ms) /\ (m.role = "assistant" => ~Has(m, "result")) => Proper(MergedWith(ms, m))
           /\ (\A i \in 1..Len(ms) : ms[i].role = "system") /\ m.role = "system"
                => \A i \in 1..Len(MergedWith(ms, m)) : MergedWith(ms, m)[i].role = "system"
<1>0. Msg(bys) \subseteq Msg(All) /\ Seq(Msg(bys)) \subseteq Seq(Msg(All))
    BY PartsGrow
<1>a. \A us, vs \in Seq(Msg(All)) : Words(us \o vs) = Words(us) \o Words(vs)
    BY WordsTwice
<1>b. \A y \in Msg(All) : Words(<<y>>) = IF y.role = "system" THEN <<>> ELSE WordsIn(y.parts)
    BY WordsOne
<1>c. m \in Msg(All) /\ ms \in Seq(Msg(All))
    BY <1>0
<1>1. CASE ms # <<>> /\ Last(ms).role = m.role /\ m.role \in {"system", "user"}
  <2> DEFINE f == Front(ms)
             l == Last(ms)
             n == Merge(l, m)
             L == Len(ms)
  <2>1. /\ f \in Seq(Msg(bys)) /\ l \in Msg(bys) /\ L \in Nat \ {0} /\ Len(f) = L - 1
        /\ (\A i \in 1..(L - 1) : f[i] = ms[i]) /\ ms = f \o <<l>>
      BY <1>1, FrontIs
  <2>2. MergedWith(ms, m) = Append(f, n)
      BY Zenon, <1>1 DEF MergedWith
  <2>r. l.role = m.role /\ m.role \in {"system", "user"}
      BY <1>1
  <2> HIDE DEF f, l
  <2>3. n \in Msg(bys) /\ n.role = l.role /\ WordsIn(n.parts) = WordsIn(l.parts) \o WordsIn(m.parts)
      BY <2>1, MergeIs
  <2> HIDE DEF n, L
  <2>4. Append(f, n) \in Seq(Msg(bys)) /\ Len(Append(f, n)) = L /\ (\A i \in 1..(L - 1) : Append(f, n)[i] = f[i])
        /\ Append(f, n)[L] = n /\ Append(f, n) = f \o <<n>>
      BY <2>1, <2>3
  <2>5. \A i \in 1..L : i \in 1..(L - 1) \/ i = L
      BY <2>1
  <2>6. Words(f \o <<n>>) = Words(ms) \o Words(<<m>>)
    <3>1. /\ f \in Seq(Msg(All)) /\ l \in Msg(All) /\ n \in Msg(All) /\ <<l>> \in Seq(Msg(All))
          /\ <<n>> \in Seq(Msg(All))
        BY <1>0, <2>1, <2>3
    <3>2. Words(f \o <<n>>) = Words(f) \o Words(<<n>>)
        BY Zenon, <1>a, <3>1
    <3>3. Words(f \o <<l>>) = Words(f) \o Words(<<l>>)
        BY Zenon, <1>a, <3>1
    <3>4. Words(f) \in Seq(STRING)
        BY <3>1, WordsIs
    <3>5. CASE m.role = "system"
      <4>1. Words(<<n>>) = <<>> /\ Words(<<l>>) = <<>> /\ Words(<<m>>) = <<>>
          BY <1>b, <1>c, <2>3, <2>r, <3>1, <3>5
      <4>2. Words(f) \o <<>> = Words(f)
          BY <3>4
      <4> QED
          BY <2>1, <3>2, <3>3, <4>1, <4>2
    <3>6. CASE m.role # "system"
      <4>1. Words(<<n>>) = WordsIn(n.parts)
          BY <1>b, <2>3, <2>r, <3>1, <3>6
      <4>2. Words(<<l>>) = WordsIn(l.parts)
          BY <1>b, <2>r, <3>1, <3>6
      <4>3. Words(<<m>>) = WordsIn(m.parts)
          BY <1>b, <1>c, <3>6
      <4>4. WordsIn(l.parts) \in Seq(STRING) /\ WordsIn(m.parts) \in Seq(STRING)
        <5>1. l.parts \in Seq(Part(All)) /\ m.parts \in Seq(Part(All))
            BY <1>c, <3>1 DEF Msg
        <5> QED
            BY <5>1, WordsInIs
      <4> DEFINE wf == Words(f)
                 wl == WordsIn(l.parts)
                 wm == WordsIn(m.parts)
      <4>5. wf \in Seq(STRING) /\ wl \in Seq(STRING) /\ wm \in Seq(STRING)
          BY <3>4, <4>4
      <4> HIDE DEF wf, wl, wm
      <4>6. (wf \o wl) \o wm = wf \o (wl \o wm)
          BY <4>5, ConcatAssociative
      <4>7. Words(f \o <<n>>) = wf \o (wl \o wm)
          BY Zenon, <2>3, <3>2, <4>1 DEF wf, wl, wm
      <4>8. Words(ms) \o Words(<<m>>) = (wf \o wl) \o wm
          BY Zenon, <2>1, <3>3, <4>2, <4>3 DEF wf, wl, wm
      <4> QED
          BY Zenon, <4>6, <4>7, <4>8
    <3> QED
        BY <3>5, <3>6
  <2>7. Proper(ms) => Proper(Append(f, n))
    <3> SUFFICES ASSUME Proper(ms), NEW i \in 1..L, Append(f, n)[i].role = "assistant"
                 PROVE  ~Has(Append(f, n)[i], "result")
        BY <2>4 DEF Proper
    <3>1. i # L
        BY <2>3, <2>4, <2>r
    <3>2. i \in 1..(L - 1) /\ Append(f, n)[i] = ms[i]
        BY <2>1, <2>4, <2>5, <3>1
    <3> QED
        BY <3>2 DEF Proper, L
  <2>8. (\A i \in 1..L : ms[i].role = "system") /\ m.role = "system"
            => \A i \in 1..L : Append(f, n)[i].role = "system"
      BY <2>1, <2>3, <2>4, <2>5, <2>r
  <2> QED
      BY <2>2, <2>4, <2>6, <2>7, <2>8 DEF L
<1>2. CASE ~(ms # <<>> /\ Last(ms).role = m.role /\ m.role \in {"system", "user"})
  <2> DEFINE as == Append(ms, m)
             L == Len(ms)
  <2>1. MergedWith(ms, m) = as
      BY Zenon, <1>2 DEF MergedWith
  <2>2. as \in Seq(Msg(bys)) /\ L \in Nat /\ Len(as) = L + 1 /\ (\A i \in 1..L : as[i] = ms[i]) /\ as[L + 1] = m
        /\ as = ms \o <<m>>
      OBVIOUS
  <2> HIDE DEF as, L
  <2>3. \A i \in 1..(L + 1) : i \in 1..L \/ i = L + 1
      BY <2>2
  <2>4. Words(as) = Words(ms) \o Words(<<m>>)
    <3>1. <<m>> \in Seq(Msg(All))
        BY <1>c
    <3>2. Words(ms \o <<m>>) = Words(ms) \o Words(<<m>>)
        BY Zenon, <1>a, <1>c, <3>1
    <3> QED
        BY <2>2, <3>2
  <2>5. Proper(ms) /\ (m.role = "assistant" => ~Has(m, "result")) => Proper(as)
      BY <2>2, <2>3 DEF Proper, L
  <2>6. (\A i \in 1..L : ms[i].role = "system") /\ m.role = "system" => \A i \in 1..(L + 1) : as[i].role = "system"
      BY <2>2, <2>3
  <2> QED
      BY <2>1, <2>2, <2>4, <2>5, <2>6 DEF L
<1> QED
    BY <1>1, <1>2
\* Messages merged one after the other.
LEMMA MergingIn ==
    ASSUME NEW S, NEW parts, Len(parts) \in Nat, <<>> \in S,
           \A n \in 1..Len(parts) : \A y \in S : MergedWith(y, parts[n]) \in S
    PROVE  /\ \A n \in 0..Len(parts) : Merging(parts)[n] \in S
           /\ Merging(parts)[0] = <<>>
           /\ \A n \in 1..Len(parts) : Merging(parts)[n] = MergedWith(Merging(parts)[n - 1], parts[n])
<1> DEFINE N == Len(parts)
           k == Merging(parts)
           g == [p \in (1..N) \X S |-> MergedWith(p[2], parts[p[1]])]
<1>1. g \in Rounds(N, S)
    BY DEF Rounds
<1>2. PICK h : Runs(h, N, S, <<>>, g)
  <2> HIDE DEF g
  <2> QED
      BY <1>1, RoundsExist
<1>3. h = [n \in 0..N |-> IF n = 0 THEN <<>> ELSE MergedWith(h[n - 1], parts[n])]
  <2>1. ASSUME NEW n \in 1..N PROVE h[n] = MergedWith(h[n - 1], parts[n])
    <3>1. n - 1 \in 0..N
        OBVIOUS
    <3>2. <<n, h[n - 1]>> \in (1..N) \X S
        BY <1>2, <3>1 DEF Runs
    <3> QED
        BY <1>2, <3>2 DEF Runs
  <2>2. \A n \in 0..N : h[n] = IF n = 0 THEN <<>> ELSE MergedWith(h[n - 1], parts[n])
    <3> SUFFICES ASSUME NEW n \in 0..N
                 PROVE  h[n] = IF n = 0 THEN <<>> ELSE MergedWith(h[n - 1], parts[n])
        OBVIOUS
    <3>1. n = 0 \/ n \in 1..N
        OBVIOUS
    <3>2. h[0] = <<>>
        BY <1>2 DEF Runs
    <3>3. n \in 1..N => n # 0
        OBVIOUS
    <3> QED
        BY Zenon, <2>1, <3>1, <3>2, <3>3
  <2>3. h = [n \in 0..N |-> h[n]]
      BY <1>2 DEF Runs
  <2> QED
      BY Zenon, <2>2, <2>3
<1>4. k = [n \in 0..N |-> IF n = 0 THEN <<>> ELSE MergedWith(k[n - 1], parts[n])]
    BY <1>3 DEF Merging
<1> HIDE DEF k, g
<1>5. k[0] = <<>> /\ \A n \in 1..N : k[n] = MergedWith(k[n - 1], parts[n])
  <2>1. \A n \in 0..N : k[n] = IF n = 0 THEN <<>> ELSE MergedWith(k[n - 1], parts[n])
      BY Zenon, <1>4
  <2>2. 0 \in 0..N /\ \A n \in 1..N : n \in 0..N /\ n # 0
      OBVIOUS
  <2> QED
      BY Zenon, <2>1, <2>2
<1>6. \A n \in 1..N : k[n - 1] \in S => k[n] \in S
    BY <1>5
<1>7. \A n \in 0..N : k[n] \in S
    BY <1>5, <1>6, RoundsIn
<1> QED
    BY <1>5, <1>7 DEF k

LEMMA MergedIs ==
    ASSUME NEW bys \in SUBSET All, NEW h \in Seq(Msg(bys))
    PROVE  /\ Merged(h) \in Seq(Msg(bys))
           /\ Words(Merged(h)) = Words(h)
           /\ Proper(h) => Proper(Merged(h))
           /\ (\A i \in 1..Len(h) : h[i].role = "system")
                => \A i \in 1..Len(Merged(h)) : Merged(h)[i].role = "system"
<1> DEFINE k == Merging(h)
           c == Contributions(h, MessageWords)
           N == Len(h)
           AllSystem(ms) == \A i \in 1..Len(ms) : ms[i].role = "system"
<1>0. N \in Nat /\ \A n \in 1..N : h[n] \in Msg(bys)
    OBVIOUS
<1>a. Msg(bys) \subseteq Msg(All) /\ Seq(Msg(bys)) \subseteq Seq(Msg(All))
    BY PartsGrow
<1>b. \A ms \in Seq(Msg(bys)), m \in Msg(bys) : MergedWith(ms, m) \in Seq(Msg(bys))
    BY MessagesMerge
<1>1. (\A n \in 0..N : k[n] \in Seq(Msg(bys))) /\ k[0] = <<>> /\ \A n \in 1..N : k[n] = MergedWith(k[n - 1], h[n])
  <2>1. <<>> \in Seq(Msg(bys))
      OBVIOUS
  <2>2. \A n \in 1..N : \A y \in Seq(Msg(bys)) : MergedWith(y, h[n]) \in Seq(Msg(bys))
      BY <1>0, <1>b
  <2> QED
      BY <1>0, <2>1, <2>2, MergingIn
<1>2. Merged(h) = k[N]
    BY DEF Merged
<1>3. Contributed(c, h, MessageWords, STRING) /\ Words(h) = Joining(c)[Len(c)]
  <2>1. h \in Seq(Msg(All))
      BY <1>a
  <2>2. Contributed(c, h, MessageWords, STRING)
      BY Zenon, <2>1, MessageWordsIs, ContributionsAre
  <2>3. Words(h) = Weight(h, MessageWords)
      BY <2>1, WordsIs
  <2> QED
      BY <2>2, <2>3 DEF Weight, Joined
<1> HIDE DEF k, c
<1>4. c \in Seq(Seq(STRING)) /\ Len(c) = N /\ \A i \in 1..N : c[i] = MessageWords[h[i]]
    BY <1>3 DEF Contributed
<1>5. (\A n \in 0..N : Joining(c)[n] \in Seq(STRING)) /\ Joining(c)[0] = <<>>
      /\ \A n \in 1..N : Joining(c)[n] = Joining(c)[n - 1] \o c[n]
    BY <1>4, JoinedIs
<1> HIDE DEF N
<1> DEFINE Good == {n \in Nat : n <= N =>
                        /\ Words(k[n]) = Joining(c)[n]
                        /\ Proper(h) => Proper(k[n])
                        /\ AllSystem(h) => AllSystem(k[n])}
<1>6. 0 \in Good
  <2>1. <<>> \in Seq(Msg(All)) /\ Len(<<>>) = 0 /\ \A i \in 1..0 : FALSE
      OBVIOUS
  <2>2. \A i \in 1..Len(<<>>) : MessageWords[<<>>[i]] = <<>>
      BY <2>1
  <2>3. Weight(<<>>, MessageWords) = <<>>
      BY <2>1, <2>2, MessageWordsIs, WeightNothing
  <2>4. Words(<<>>) = <<>>
      BY <2>1, <2>3, WordsIs
  <2>5. Proper(<<>>) /\ AllSystem(<<>>)
      BY <2>1 DEF Proper
  <2> QED
      BY <1>1, <1>5, <2>4, <2>5
<1>7. ASSUME NEW n \in Nat, n \in Good PROVE n + 1 \in Good
  <2> SUFFICES ASSUME n + 1 <= N
               PROVE  /\ Words(k[n + 1]) = Joining(c)[n + 1]
                      /\ Proper(h) => Proper(k[n + 1])
                      /\ AllSystem(h) => AllSystem(k[n + 1])
    <3>1. n + 1 \in Nat
        OBVIOUS
    <3> QED
        BY Zenon, <3>1
  <2>1. n <= N /\ n \in 0..N /\ n + 1 \in 1..N /\ (n + 1) - 1 = n
      BY <1>0
  <2>2. /\ k[n] \in Seq(Msg(bys)) /\ k[n + 1] = MergedWith(k[n], h[n + 1])
        /\ Joining(c)[n + 1] = Joining(c)[n] \o MessageWords[h[n + 1]] /\ h[n + 1] \in Msg(bys)
      BY <1>0, <1>1, <1>4, <1>5, <2>1
  <2>3. /\ Words(k[n]) = Joining(c)[n]
        /\ Proper(h) => Proper(k[n])
        /\ AllSystem(h) => AllSystem(k[n])
      BY Zenon, <1>7, <2>1
  <2>4. /\ Words(k[n + 1]) = Words(k[n]) \o Words(<<h[n + 1]>>)
        /\ Proper(k[n]) /\ (h[n + 1].role = "assistant" => ~Has(h[n + 1], "result")) => Proper(k[n + 1])
        /\ AllSystem(k[n]) /\ h[n + 1].role = "system" => AllSystem(k[n + 1])
    <3>1. /\ MergedWith(k[n], h[n + 1]) \in Seq(Msg(bys))
          /\ Words(MergedWith(k[n], h[n + 1])) = Words(k[n]) \o Words(<<h[n + 1]>>)
          /\ Proper(k[n]) /\ (h[n + 1].role = "assistant" => ~Has(h[n + 1], "result"))
                => Proper(MergedWith(k[n], h[n + 1]))
          /\ (\A i \in 1..Len(k[n]) : k[n][i].role = "system") /\ h[n + 1].role = "system"
                => \A i \in 1..Len(MergedWith(k[n], h[n + 1])) : MergedWith(k[n], h[n + 1])[i].role = "system"
        BY Zenon, <2>2, MessagesMerge
    <3> QED
        BY Zenon, <2>2, <3>1
  <2>5. Words(<<h[n + 1]>>) = MessageWords[h[n + 1]]
    <3>1. h[n + 1] \in Msg(All)
        BY <1>a, <2>2
    <3> QED
        BY <3>1, WordsOne, MessageWordsIs
  <2>6. Proper(h) => (h[n + 1].role = "assistant" => ~Has(h[n + 1], "result"))
      BY <2>1 DEF Proper, N
  <2>7. AllSystem(h) => h[n + 1].role = "system"
      BY <2>1 DEF N
  <2> QED
      BY Zenon, <2>2, <2>3, <2>4, <2>5, <2>6, <2>7
<1> HIDE DEF Good
<1>8. N \in Good
    BY <1>0, <1>6, <1>7, Induction
<1>9. /\ Words(k[N]) = Joining(c)[N]
      /\ Proper(h) => Proper(k[N])
      /\ AllSystem(h) => AllSystem(k[N])
  <2>1. N <= N
      BY <1>0
  <2> QED
      BY Zenon, <1>8, <2>1 DEF Good
<1>w. k[N] \in Seq(Msg(bys))
  <2>1. N \in 0..N
      BY <1>0
  <2> QED
      BY <1>1, <2>1
<1> QED
    BY <1>2, <1>3, <1>4, <1>9, <1>w

(* Merging neighbours and moving system messages to the front loses no word  *)
(* of the others, and puts no result into a message of the assistant, in     *)
(* histories of any length (normalize_messages of policy.py).                *)
THEOREM NormalizedIs ==
    ASSUME NEW bys \in SUBSET All, NEW h \in Seq(Msg(bys))
    PROVE  /\ Normalized(h) \in Seq(Msg(bys)) /\ Words(Normalized(h)) = Words(h)
           /\ Proper(h) => Proper(Normalized(h))
<1> DEFINE merged == Merged(h)
           S == Systems(merged)
           systems == Where(merged, S)
           others == Where(merged, DOMAIN merged \ S)
           front == Merged(systems)
<1>a. Seq(Msg(bys)) \subseteq Seq(Msg(All))
    BY PartsGrow
<1>1. merged \in Seq(Msg(bys)) /\ Words(merged) = Words(h) /\ (Proper(h) => Proper(merged))
    BY MergedIs
<1>d. Normalized(h) = IF Len(systems) < 2 THEN merged ELSE front \o others
    BY Zenon DEF Normalized
<1> HIDE DEF merged
<1>2. DOMAIN merged = 1..Len(merged) /\ Len(merged) \in Nat
    BY <1>1
<1>3. S = {i \in 1..Len(merged) : merged[i].role = "system"}
    BY <1>2 DEF Systems
<1>4. systems \in Seq(Msg(bys)) /\ \E f : Picked(f, systems, merged, S \cap (1..Len(merged)))
    BY <1>1, WhereIs
<1>5. others \in Seq(Msg(bys)) /\ \E f : Picked(f, others, merged, (DOMAIN merged \ S) \cap (1..Len(merged)))
    BY <1>1, WhereIs
<1>6. Weight(others, MessageWords) = Weight(merged, MessageWords)
  <2>1. merged \in Seq(Msg(All))
      BY <1>1, <1>a
  <2>2. ASSUME NEW i \in 1..Len(merged), i \notin DOMAIN merged \ S PROVE MessageWords[merged[i]] = <<>>
    <3>1. merged[i].role = "system" /\ merged[i] \in Msg(All)
        BY <1>2, <1>3, <2>1, <2>2
    <3> QED
        BY <3>1, MessageWordsIs
  <2> QED
      BY <2>1, <2>2, MessageWordsIs, WhereWeighs
<1> HIDE DEF S, systems, others
<1>7. Words(others) = Words(merged)
  <2>1. merged \in Seq(Msg(All)) /\ others \in Seq(Msg(All))
      BY <1>1, <1>5, <1>a
  <2>2. Words(merged) = Weight(merged, MessageWords) /\ Words(others) = Weight(others, MessageWords)
      BY <2>1, WordsIs
  <2> QED
      BY <1>6, <2>2
<1>8. \A i \in 1..Len(systems) : systems[i].role = "system"
  <2>1. PICK f : Picked(f, systems, merged, S \cap (1..Len(merged)))
      BY <1>4
  <2> QED
      BY <1>3, <2>1 DEF Picked
<1>9. front \in Seq(Msg(bys)) /\ \A i \in 1..Len(front) : front[i].role = "system"
    BY <1>4, <1>8, MergedIs
<1>b. Proper(merged) => Proper(others)
  <2>1. PICK f : Picked(f, others, merged, (DOMAIN merged \ S) \cap (1..Len(merged)))
      BY <1>5
  <2>2. \A i \in 1..Len(others) : f[i] \in 1..Len(merged) /\ others[i] = merged[f[i]]
      BY <2>1 DEF Picked
  <2> QED
      BY <1>1, <2>2 DEF Proper
<1> HIDE DEF front
<1>c. Words(front) = <<>>
  <2>1. front \in Seq(Msg(All))
      BY <1>9, <1>a
  <2>2. \A i \in 1..Len(front) : MessageWords[front[i]] = <<>>
      BY <1>9, <2>1, MessageWordsIs
  <2>3. Weight(front, MessageWords) = <<>>
      BY <2>1, <2>2, MessageWordsIs, WeightNothing
  <2> QED
      BY <2>1, <2>3, WordsIs
<1>e. CASE Len(systems) < 2
    BY <1>1, <1>d, <1>e
<1>f. CASE ~(Len(systems) < 2)
  <2>1. front \o others \in Seq(Msg(bys)) /\ Len(front \o others) = Len(front) + Len(others)
        /\ Len(front) \in Nat /\ Len(others) \in Nat
        /\ \A i \in 1..(Len(front) + Len(others)) :
              (front \o others)[i] = IF i <= Len(front) THEN front[i] ELSE others[i - Len(front)]
    <3>1. Len(front) \in Nat /\ Len(others) \in Nat
        BY <1>5, <1>9
    <3>2. front \in Seq(Msg(bys)) /\ others \in Seq(Msg(bys))
        BY <1>5, <1>9
    <3> QED
        BY <3>1, <3>2, ConcatProperties
  <2>2. Words(front \o others) = Words(h)
    <3>1. front \in Seq(Msg(All)) /\ others \in Seq(Msg(All))
        BY <1>5, <1>9, <1>a
    <3>2. Words(front \o others) = Words(front) \o Words(others)
        BY <3>1, WordsTwice
    <3>3. Words(others) \in Seq(STRING)
        BY <3>1, WordsIs
    <3>4. <<>> \o Words(others) = Words(others)
        BY <3>3
    <3> QED
        BY <1>1, <1>7, <1>c, <3>2, <3>4
  <2>3. Proper(others) => Proper(front \o others)
    <3> SUFFICES ASSUME Proper(others), NEW i \in 1..(Len(front) + Len(others)), (front \o others)[i].role = "assistant"
                 PROVE  ~Has((front \o others)[i], "result")
        BY <2>1 DEF Proper
    <3>1. CASE i <= Len(front)
      <4>1. i \in 1..Len(front)
          BY <2>1, <3>1
      <4>2. (front \o others)[i].role = "system"
          BY <1>9, <2>1, <3>1, <4>1
      <4> QED
          BY <4>2
    <3>2. CASE ~(i <= Len(front))
      <4>1. i - Len(front) \in 1..Len(others) /\ (front \o others)[i] = others[i - Len(front)]
          BY <2>1, <3>2
      <4> QED
          BY <4>1 DEF Proper
    <3> QED
        BY <3>1, <3>2
  <2> QED
      BY <1>1, <1>b, <1>d, <1>f, <2>1, <2>2, <2>3
<1> QED
    BY <1>e, <1>f
-----------------------------------------------------------------------------
(* sanitize_tool_history: what it keeps of each message, and which messages. *)
KeptAt(h, i) == {p \in DOMAIN h[i].parts : Kept(h, i, p)}
Drawn(f, s, h) ==
    /\ f \in [1..Len(s) -> 1..Len(h)]
    /\ \A a, b \in 1..Len(s) : a < b => f[a] < f[b]
    /\ \A i \in 1..Len(h) : Stays(h, i) => \E a \in 1..Len(s) : f[a] = i
    /\ \A a \in 1..Len(s) : s[a] = Cleaned(h, f[a])

LEMMA TextsAreKept ==
    ASSUME NEW h, NEW i, NEW p, h[i].parts[p].kind \notin {"call", "result"}
    PROVE  Kept(h, i, p)
BY DEF Kept

LEMMA CleanedIs ==
    ASSUME NEW bys, NEW h \in Seq(Msg(bys)), NEW i \in 1..Len(h)
    PROVE  /\ Cleaned(h, i) \in Msg(bys)
           /\ Cleaned(h, i).role = h[i].role
           /\ Cleaned(h, i).parts = Where(h[i].parts, KeptAt(h, i))
           /\ \E g : Picked(g, Cleaned(h, i).parts, h[i].parts, KeptAt(h, i))
<1> DEFINE ps == h[i].parts
           K == KeptAt(h, i)
           kept == Where(ps, K)
<1>1. h[i] \in Msg(bys)
    OBVIOUS
<1>2. ps \in Seq(Part(bys))
    BY <1>1 DEF Msg
<1>3. K \cap (1..Len(ps)) = K
  <2>1. DOMAIN ps = 1..Len(ps)
      BY <1>2
  <2> HIDE DEF ps
  <2>2. K \subseteq DOMAIN ps
      BY DEF KeptAt, ps
  <2> QED
      BY <2>1, <2>2
<1>4. Cleaned(h, i) = [h[i] EXCEPT !.parts = kept]
    BY Zenon DEF Cleaned, KeptAt
<1> HIDE DEF ps, K
<1>5. kept \in Seq(Part(bys)) /\ \E g : Picked(g, kept, ps, K)
    BY <1>2, <1>3, WhereIs
<1> HIDE DEF kept
<1>6. /\ [h[i] EXCEPT !.parts = kept] \in Msg(bys)
      /\ [h[i] EXCEPT !.parts = kept].role = h[i].role
      /\ [h[i] EXCEPT !.parts = kept].parts = kept
    BY <1>1, <1>5, MessageIs
<1>7. /\ Cleaned(h, i) \in Msg(bys) /\ Cleaned(h, i).role = h[i].role /\ Cleaned(h, i).parts = kept
    BY Zenon, <1>4, <1>6
<1> QED
    BY Zenon, <1>5, <1>7 DEF kept, ps, K

LEMMA CleanedKeepsWords ==
    ASSUME NEW h \in Seq(Msg(All)), NEW i \in 1..Len(h)
    PROVE  WordsIn(Cleaned(h, i).parts) = WordsIn(h[i].parts)
<1> DEFINE ps == h[i].parts
           K == KeptAt(h, i)
<1>1. h[i] \in Msg(All)
    OBVIOUS
<1>2. ps \in Seq(Part(All))
    BY <1>1 DEF Msg
<1>3. \A p \in 1..Len(ps) : p \notin K => PartWords[ps[p]] = <<>>
  <2> SUFFICES ASSUME NEW p \in 1..Len(ps), p \notin K PROVE PartWords[ps[p]] = <<>>
      OBVIOUS
  <2>1. ps[p] \in Part(All) /\ p \in DOMAIN ps
      BY <1>2
  <2>2. ~Kept(h, i, p)
      BY <2>1 DEF KeptAt
  <2>3. ps[p].kind # "text"
      BY <2>2, TextsAreKept
  <2> QED
      BY <2>1, <2>3, PartWordsIs
<1>c. Cleaned(h, i).parts = Where(ps, K) /\ Cleaned(h, i) \in Msg(All)
    BY CleanedIs
<1> HIDE DEF ps, K
<1>4. Weight(Where(ps, K), PartWords) = Weight(ps, PartWords)
    BY <1>2, <1>3, PartWordsIs, WhereWeighs
<1>5. Where(ps, K) \in Seq(Part(All))
    BY <1>2, WhereIs
<1>6. WordsIn(Where(ps, K)) = Weight(Where(ps, K), PartWords) /\ WordsIn(ps) = Weight(ps, PartWords)
    BY <1>2, <1>5, WordsInIs
<1> QED
    BY <1>4, <1>6, <1>c DEF ps

LEMMA SanitizedIs ==
    ASSUME NEW bys, NEW h \in Seq(Msg(bys))
    PROVE  Sanitized(h) \in Seq(Msg(bys)) /\ \E f : Drawn(f, Sanitized(h), h)
<1> DEFINE clean == [i \in DOMAIN h |-> Cleaned(h, i)]
           K == {i \in DOMAIN h : Stays(h, i)}
           s == Where(clean, K)
<1>1. DOMAIN h = 1..Len(h) /\ Len(h) \in Nat
    OBVIOUS
<1>2. \A i \in 1..Len(h) : Cleaned(h, i) \in Msg(bys)
    BY CleanedIs
<1>3. clean \in Seq(Msg(bys)) /\ Len(clean) = Len(h) /\ \A i \in 1..Len(h) : clean[i] = Cleaned(h, i)
    BY <1>1, <1>2
<1>4. Sanitized(h) = s
    BY DEF Sanitized
<1> HIDE DEF clean
<1>5. K \cap (1..Len(clean)) = K /\ K \subseteq 1..Len(h)
    BY <1>1, <1>3
<1>k. \A i \in 1..Len(h) : Stays(h, i) => i \in K
    BY <1>1
<1> HIDE DEF K
<1>6. s \in Seq(Msg(bys)) /\ \E f : Picked(f, s, clean, K)
    BY <1>3, <1>5, WhereIs
<1> HIDE DEF s
<1>7. PICK f : Picked(f, s, clean, K)
    BY <1>6
<1>8. Drawn(f, s, h)
    BY <1>3, <1>5, <1>7, <1>k DEF Drawn, Picked
<1> QED
    BY <1>4, <1>6, <1>8

LEMMA SanitizedKeepsWords ==
    ASSUME NEW h \in Seq(Msg(All))
    PROVE  Words(Sanitized(h)) = Words(h)
<1> DEFINE clean == [i \in DOMAIN h |-> Cleaned(h, i)]
           K == {i \in DOMAIN h : Stays(h, i)}
<1>1. DOMAIN h = 1..Len(h) /\ Len(h) \in Nat
    OBVIOUS
<1>2. \A i \in 1..Len(h) : Cleaned(h, i) \in Msg(All)
    BY CleanedIs
<1>3. clean \in Seq(Msg(All)) /\ Len(clean) = Len(h) /\ \A i \in 1..Len(h) : clean[i] = Cleaned(h, i)
    BY <1>1, <1>2
<1>4. Sanitized(h) = Where(clean, K)
    BY DEF Sanitized
<1> HIDE DEF clean
<1>5. \A i \in 1..Len(h) : MessageWords[clean[i]] = MessageWords[h[i]]
  <2> SUFFICES ASSUME NEW i \in 1..Len(h) PROVE MessageWords[clean[i]] = MessageWords[h[i]]
      OBVIOUS
  <2>1. h[i] \in Msg(All) /\ clean[i] = Cleaned(h, i) /\ Cleaned(h, i) \in Msg(All)
      BY <1>2, <1>3
  <2>2. Cleaned(h, i).role = h[i].role
      BY CleanedIs
  <2>3. WordsIn(Cleaned(h, i).parts) = WordsIn(h[i].parts)
      BY CleanedKeepsWords
  <2>4. /\ MessageWords[h[i]] = IF h[i].role = "system" THEN <<>> ELSE WordsIn(h[i].parts)
        /\ MessageWords[Cleaned(h, i)] = IF Cleaned(h, i).role = "system" THEN <<>> ELSE WordsIn(Cleaned(h, i).parts)
      BY <2>1, MessageWordsIs
  <2> QED
      BY <2>1, <2>2, <2>3, <2>4
<1>6. \A i \in 1..Len(clean) : i \notin K => MessageWords[clean[i]] = <<>>
  <2> SUFFICES ASSUME NEW i \in 1..Len(h), ~Stays(h, i) PROVE MessageWords[clean[i]] = <<>>
      BY <1>1, <1>3
  <2> DEFINE ps == Cleaned(h, i).parts
  <2>1. clean[i] = Cleaned(h, i) /\ Cleaned(h, i) \in Msg(All)
      BY <1>2, <1>3
  <2>2. ps \in Seq(Part(All))
      BY <2>1 DEF Msg
  <2>3. MessageWords[clean[i]] = IF Cleaned(h, i).role = "system" THEN <<>> ELSE WordsIn(ps)
      BY <2>1, MessageWordsIs
  <2>4. \A p \in 1..Len(ps) : ps[p].kind = "text" => ps[p].words = <<>>
    <3>1. CASE Calls(h[i])
      <4>1. ~HasPayload(Cleaned(h, i))
          BY <3>1 DEF Stays
      <4>2. DOMAIN ps = 1..Len(ps)
          BY <2>2
      <4> QED
          BY <4>1, <4>2 DEF HasPayload
    <3>2. CASE ~Calls(h[i])
      <4>1. ps = <<>>
          BY <3>2 DEF Stays
      <4>2. Len(ps) = 0
          BY <4>1
      <4> QED
          BY <4>2
    <3> QED
        BY <3>1, <3>2
  <2> HIDE DEF ps
  <2>5. \A p \in 1..Len(ps) : PartWords[ps[p]] = <<>>
    <3> SUFFICES ASSUME NEW p \in 1..Len(ps) PROVE PartWords[ps[p]] = <<>>
        OBVIOUS
    <3>1. ps[p] \in Part(All)
        BY <2>2
    <3> QED
        BY <2>4, <3>1, PartWordsIs
  <2>6. Weight(ps, PartWords) = <<>>
      BY <2>2, <2>5, PartWordsIs, WeightNothing
  <2>7. WordsIn(ps) = <<>>
      BY <2>2, <2>6, WordsInIs
  <2> QED
      BY <2>3, <2>7
<1> HIDE DEF K
<1>7. Weight(Where(clean, K), MessageWords) = Weight(clean, MessageWords)
    BY <1>3, <1>6, MessageWordsIs, WhereWeighs
<1>8. Weight(clean, MessageWords) = Weight(h, MessageWords)
    BY <1>3, <1>5, MessageWordsIs, WeightSame
<1>9. Where(clean, K) \in Seq(Msg(All))
    BY <1>3, WhereIs
<1>w. Words(Where(clean, K)) = Weight(Where(clean, K), MessageWords) /\ Words(h) = Weight(h, MessageWords)
    BY <1>9, WordsIs
<1> QED
    BY <1>4, <1>7, <1>8, <1>w
-----------------------------------------------------------------------------
(* Whose calls a message's results answer.                                   *)
LEMMA MinLeast ==
    ASSUME NEW S \in SUBSET Nat, S # {}
    PROVE  Min(S) \in S /\ \A n \in S : Min(S) <= n
BY Least DEF Min

LEMMA CallerAtIs ==
    ASSUME NEW h, NEW i \in Nat \ {0}
    PROVE  /\ CallerAt(h, i) \in 0..(i - 1)
           /\ \A j \in 1..(i - 1) :
                CallerAt(h, i) = j <=> (\A k \in (j + 1)..i : Answering(h, k)) /\ ~Answering(h, j)
<1> DEFINE before == {j \in 0..(i - 1) : \A k \in (j + 1)..i : Answering(h, k)}
           c == CallerAt(h, i)
<1>1. c = IF before = {} THEN 0 ELSE Min(before)
    BY Zenon DEF CallerAt
<1> HIDE DEF c
<1>2. before # {} => c \in before /\ \A n \in before : c <= n
  <2>1. before \in SUBSET Nat
      OBVIOUS
  <2> HIDE DEF before
  <2> QED
      BY <1>1, <2>1, MinLeast
<1>3. c \in 0..(i - 1)
    BY <1>1, <1>2
<1>4. ASSUME NEW j \in 1..(i - 1), c = j PROVE (\A k \in (j + 1)..i : Answering(h, k)) /\ ~Answering(h, j)
  <2>1. before # {} /\ c # 0
      BY <1>1, <1>4
  <2>2. \A k \in (j + 1)..i : Answering(h, k)
      BY <1>2, <1>4, <2>1
  <2>3. ASSUME Answering(h, j) PROVE FALSE
    <3>1. j - 1 \in 0..(i - 1) /\ (j - 1) + 1 = j
        OBVIOUS
    <3>2. \A k \in j..i : k = j \/ k \in (j + 1)..i
        OBVIOUS
    <3>3. j - 1 \in before
        BY <2>2, <2>3, <3>1, <3>2
    <3>4. c <= j - 1
        BY <1>2, <2>1, <3>3
    <3> QED
        BY <1>4, <3>4
  <2> QED
      BY <2>2, <2>3
<1>5. ASSUME NEW j \in 1..(i - 1), \A k \in (j + 1)..i : Answering(h, k), ~Answering(h, j) PROVE c = j
  <2>1. j \in before
      BY <1>5
  <2>2. c \in before /\ c <= j
      BY <1>2, <2>1
  <2>3. ASSUME c < j PROVE FALSE
    <3>1. j \in (c + 1)..i
        BY <1>3, <2>3
    <3> QED
        BY <1>5, <2>2, <3>1
  <2> QED
      BY <1>3, <2>2, <2>3
<1> QED
    BY <1>3, <1>4, <1>5 DEF c

LEMMA CallersDoNotAnswer ==
    ASSUME NEW h, Proper(h), NEW i \in 1..Len(h)
    PROVE  /\ h[i].role = "assistant" => ~Answering(h, i)
           /\ Calls(h[i]) => ~Answering(h, i)
BY DEF Proper, Answering, IdsOf, Has, Calls

LEMMA CallerIs ==
    ASSUME NEW h, Proper(h), Len(h) \in Nat, NEW i \in 1..Len(h)
    PROVE  /\ Caller(h, i) \in 0..(i - 1)
           /\ \A j \in 1..(i - 1) :
                Caller(h, i) = j <=> Calls(h[j]) /\ \A k \in (j + 1)..i : Answering(h, k)
<1>1. i \in Nat \ {0}
    OBVIOUS
<1>2. /\ CallerAt(h, i) \in 0..(i - 1)
      /\ \A j \in 1..(i - 1) :
            CallerAt(h, i) = j <=> (\A k \in (j + 1)..i : Answering(h, k)) /\ ~Answering(h, j)
    BY <1>1, CallerAtIs
<1> DEFINE c == CallerAt(h, i)
<1>3. Caller(h, i) = IF c > 0 /\ Calls(h[c]) THEN c ELSE 0
    BY Zenon DEF Caller
<1> HIDE DEF c
<1>4. c \in 0..(i - 1)
    BY <1>2 DEF c
<1>5. ASSUME NEW j \in 1..(i - 1)
      PROVE  Caller(h, i) = j <=> Calls(h[j]) /\ \A k \in (j + 1)..i : Answering(h, k)
  <2>1. c = j <=> (\A k \in (j + 1)..i : Answering(h, k)) /\ ~Answering(h, j)
      BY <1>2 DEF c
  <2>2. Calls(h[j]) => ~Answering(h, j)
    <3>1. j \in 1..Len(h)
        OBVIOUS
    <3> QED
        BY <3>1, CallersDoNotAnswer
  <2>3. Caller(h, i) = j <=> c = j /\ Calls(h[j])
      BY <1>3, <1>4
  <2> QED
      BY <2>1, <2>2, <2>3
<1> QED
    BY <1>3, <1>4, <1>5

-----------------------------------------------------------------------------
(* Of the calls and results with an accepted id the first is kept, and it    *)
(* alone.                                                                    *)
LEMMA KeptIs ==
    ASSUME NEW h, NEW i, NEW p
    PROVE  /\ h[i].parts[p].kind = "call" /\ Calls(h[i]) =>
                (Kept(h, i, p) <=> /\ h[i].parts[p].named /\ h[i].parts[p].id \in Accepted(h, i)
                                   /\ FirstOf(h, i, i, p))
           /\ h[i].parts[p].kind = "result" =>
                (Kept(h, i, p) <=> /\ Caller(h, i) > 0 /\ h[i].parts[p].id \in Accepted(h, Caller(h, i))
                                   /\ FirstOf(h, Caller(h, i) + 1, i, p))
BY DEF Kept

LEMMA FirstIs ==
    ASSUME NEW h, NEW from, NEW i, NEW p
    PROVE  /\ h[i].parts[p].kind = "call" =>
                (FirstOf(h, from, i, p) <=>
                    \A j \in from..i : \A q \in PartsOf(h[j], "call") :
                        (j < i \/ q < p) => h[j].parts[q].id # h[i].parts[p].id \/ ~h[j].parts[q].named)
           /\ h[i].parts[p].kind = "result" =>
                (FirstOf(h, from, i, p) <=>
                    \A j \in from..i : \A q \in PartsOf(h[j], "result") :
                        (j < i \/ q < p) => h[j].parts[q].id # h[i].parts[p].id)
BY DEF FirstOf

\* Places of parts are numbers.
Placed(h, i, kind) == PartsOf(h[i], kind) \in SUBSET Nat /\ \A x \in PartsOf(h[i], kind) : h[i].parts[x].kind = kind

LEMMA PlacesAre ==
    ASSUME NEW bys, NEW h \in Seq(Msg(bys)), NEW i \in 1..Len(h), NEW kind
    PROVE  Placed(h, i, kind)
<1>1. h[i] \in Msg(bys)
    OBVIOUS
<1>2. h[i].parts \in Seq(Part(bys))
    BY <1>1 DEF Msg
<1>3. DOMAIN h[i].parts \subseteq Nat
    BY <1>2
<1> QED
    BY <1>3 DEF PartsOf, Placed

LEMMA CallKept ==
    ASSUME NEW bys, NEW h \in Seq(Msg(bys)), NEW i \in 1..Len(h), Calls(h[i]), NEW id \in Accepted(h, i)
    PROVE  \E p \in PartsOf(h[i], "call") : h[i].parts[p].id = id /\ Kept(h, i, p)
<1>0. PartsOf(h[i], "call") \in SUBSET Nat /\ \A x \in PartsOf(h[i], "call") : h[i].parts[x].kind = "call"
  <2>p. Placed(h, i, "call")
      BY Zenon, PlacesAre
  <2> QED
      BY <2>p DEF Placed
<1> DEFINE S == {p \in PartsOf(h[i], "call") : h[i].parts[p].named /\ h[i].parts[p].id = id}
<1>1. S \in SUBSET Nat
    BY <1>0
<1>2. S # {}
    BY DEF Accepted
<1>3. PICK p \in S : \A q \in S : p <= q
  <2> HIDE DEF S
  <2> QED
      BY <1>1, <1>2, Least
<1>4. p \in PartsOf(h[i], "call") /\ h[i].parts[p].named /\ h[i].parts[p].id = id
    BY <1>3
<1>5. h[i].parts[p].kind = "call"
    BY <1>0, <1>4
<1>6. ASSUME NEW j \in i..i, NEW q \in PartsOf(h[j], "call"), j < i \/ q < p
      PROVE  h[j].parts[q].id # h[i].parts[p].id \/ ~h[j].parts[q].named
  <2>1. j = i
      OBVIOUS
  <2>2. q < p /\ q \in Nat /\ p \in Nat /\ q \in PartsOf(h[i], "call")
      BY <1>0, <1>1, <1>3, <1>6, <2>1
  <2>3. q \notin S
      BY <1>3, <2>2
  <2> QED
      BY <1>4, <2>1, <2>2, <2>3
<1>7. FirstOf(h, i, i, p)
    BY <1>5, <1>6, FirstIs
<1>8. Kept(h, i, p)
    BY <1>4, <1>5, <1>7, KeptIs
<1> QED
    BY <1>4, <1>8

LEMMA CallKeptOnce ==
    ASSUME NEW bys, NEW h \in Seq(Msg(bys)), NEW i \in 1..Len(h), Calls(h[i]),
           NEW p \in PartsOf(h[i], "call"), NEW q \in PartsOf(h[i], "call"),
           Kept(h, i, p), Kept(h, i, q), h[i].parts[p].id = h[i].parts[q].id
    PROVE  p = q
<1>1. p \in Nat /\ q \in Nat /\ h[i].parts[p].kind = "call" /\ h[i].parts[q].kind = "call"
  <2>1. PartsOf(h[i], "call") \in SUBSET Nat /\ \A x \in PartsOf(h[i], "call") : h[i].parts[x].kind = "call"
    <3>p. Placed(h, i, "call")
        BY Zenon, PlacesAre
    <3> QED
        BY <3>p DEF Placed
  <2> QED
      BY <2>1
<1>2. /\ h[i].parts[p].named /\ FirstOf(h, i, i, p)
      /\ h[i].parts[q].named /\ FirstOf(h, i, i, q)
    BY <1>1, KeptIs
<1>3. i \in i..i
    OBVIOUS
<1>4. ~(q < p)
    BY <1>1, <1>2, <1>3, FirstIs
<1>5. ~(p < q)
    BY <1>1, <1>2, <1>3, FirstIs
<1> QED
    BY <1>1, <1>4, <1>5

LEMMA ResultKept ==
    ASSUME NEW bys, NEW h \in Seq(Msg(bys)), Proper(h), NEW j \in 1..Len(h), Calls(h[j]), NEW id \in Accepted(h, j)
    PROVE  \E a \in (j + 1)..Len(h) : \E q \in PartsOf(h[a], "result") :
                h[a].parts[q].id = id /\ Caller(h, a) = j /\ Kept(h, a, q)
<1>0. Len(h) \in Nat /\ DOMAIN h = 1..Len(h)
    OBVIOUS
<1>1. PICK b \in Answers(h, j) : id \in IdsOf(h[b], "result")
    BY DEF Accepted
<1>2. b \in 1..Len(h) /\ b > j /\ Answering(h, b) /\ Caller(h, b) = j
    BY <1>0, <1>1 DEF Answers
<1>3. j \in 1..(b - 1) /\ \A k \in (j + 1)..b : Answering(h, k)
  <2>1. j \in 1..(b - 1)
      BY <1>0, <1>2
  <2> QED
      BY <1>0, <1>2, <2>1, CallerIs
<1> DEFINE A == {a \in (j + 1)..b : \E q \in PartsOf(h[a], "result") : h[a].parts[q].id = id}
<1>4. A \in SUBSET Nat
    BY <1>0
<1>5. b \in A
  <2>1. b \in (j + 1)..b
      BY <1>0, <1>2
  <2>2. \E q \in PartsOf(h[b], "result") : h[b].parts[q].id = id
      BY <1>1 DEF IdsOf
  <2> QED
      BY <2>1, <2>2
<1>6. PICK a \in A : \A c \in A : a <= c
  <2> HIDE DEF A
  <2> QED
      BY <1>4, <1>5, Least
<1>7. a \in (j + 1)..b /\ a \in 1..Len(h) /\ a \in (j + 1)..Len(h) /\ a \in Nat
    BY <1>0, <1>2, <1>6
<1>8. PartsOf(h[a], "result") \in SUBSET Nat /\ \A x \in PartsOf(h[a], "result") : h[a].parts[x].kind = "result"
  <2>p. Placed(h, a, "result")
      BY Zenon, <1>7, PlacesAre
  <2> QED
      BY <2>p DEF Placed
<1> DEFINE Q == {q \in PartsOf(h[a], "result") : h[a].parts[q].id = id}
<1>9. Q \in SUBSET Nat /\ Q # {}
    BY <1>6, <1>8
<1>10. PICK q \in Q : \A c \in Q : q <= c
  <2> HIDE DEF Q
  <2> QED
      BY <1>9, Least
<1>11. q \in PartsOf(h[a], "result") /\ h[a].parts[q].id = id /\ h[a].parts[q].kind = "result" /\ q \in Nat
    BY <1>8, <1>10
<1>12. Caller(h, a) = j
  <2>1. j \in 1..(a - 1)
      BY <1>0, <1>2, <1>7
  <2>2. \A k \in (j + 1)..a : Answering(h, k)
    <3>1. \A k \in (j + 1)..a : k \in (j + 1)..b
        BY <1>0, <1>2, <1>7
    <3> QED
        BY <1>3, <3>1
  <2> QED
      BY <1>0, <1>7, <2>1, <2>2, CallerIs
<1>13. ASSUME NEW c \in (j + 1)..a, NEW x \in PartsOf(h[c], "result"), c < a \/ x < q
       PROVE  h[c].parts[x].id # h[a].parts[q].id
  <2> SUFFICES ASSUME h[c].parts[x].id = id PROVE FALSE
      BY <1>11
  <2>1. c \in A
    <3>1. c \in (j + 1)..b
        BY <1>0, <1>2, <1>7
    <3> QED
        BY <3>1
  <2>2. a <= c
      BY <1>6, <2>1
  <2>3. c = a
      BY <1>0, <1>7, <2>2
  <2>4. x \in Q /\ x \in Nat
      BY <1>8, <2>3
  <2>5. q <= x
      BY <1>10, <2>4
  <2> QED
      BY <1>7, <1>11, <1>13, <2>3, <2>4, <2>5
<1>14. FirstOf(h, j + 1, a, q)
    BY <1>11, <1>13, FirstIs
<1>15. Kept(h, a, q)
  <2>1. Caller(h, a) > 0
      BY <1>12
  <2> QED
      BY <1>11, <1>12, <1>14, <2>1, KeptIs
<1> QED
    BY <1>7, <1>11, <1>12, <1>15

LEMMA ResultKeptOnce ==
    ASSUME NEW bys, NEW h \in Seq(Msg(bys)), Proper(h), NEW j \in 1..Len(h),
           NEW a \in 1..Len(h), NEW b \in 1..Len(h), Caller(h, a) = j, Caller(h, b) = j,
           NEW p \in PartsOf(h[a], "result"), NEW q \in PartsOf(h[b], "result"),
           Kept(h, a, p), Kept(h, b, q), h[a].parts[p].id = h[b].parts[q].id
    PROVE  a = b /\ p = q
<1>0. Len(h) \in Nat
    OBVIOUS
<1>1. PartsOf(h[a], "result") \in SUBSET Nat /\ \A x \in PartsOf(h[a], "result") : h[a].parts[x].kind = "result"
  <2>p. Placed(h, a, "result")
      BY Zenon, PlacesAre
  <2> QED
      BY <2>p DEF Placed
<1>2. PartsOf(h[b], "result") \in SUBSET Nat /\ \A x \in PartsOf(h[b], "result") : h[b].parts[x].kind = "result"
  <2>p. Placed(h, b, "result")
      BY Zenon, PlacesAre
  <2> QED
      BY <2>p DEF Placed
<1>3. p \in Nat /\ q \in Nat /\ h[a].parts[p].kind = "result" /\ h[b].parts[q].kind = "result"
    BY <1>1, <1>2
<1>4. FirstOf(h, j + 1, a, p) /\ FirstOf(h, j + 1, b, q)
    BY <1>3, KeptIs
<1>5. a >= j + 1 /\ b >= j + 1
  <2>1. Caller(h, a) \in 0..(a - 1) /\ Caller(h, b) \in 0..(b - 1)
      BY <1>0, CallerIs
  <2> QED
      BY <2>1
<1>6. ~(a < b \/ (a = b /\ p < q))
  <2> SUFFICES ASSUME a < b \/ (a = b /\ p < q) PROVE FALSE
      OBVIOUS
  <2>1. a \in (j + 1)..b
      BY <1>5
  <2>2. a < b \/ p < q
      OBVIOUS
  <2> QED
      BY <1>3, <1>4, <2>1, <2>2, FirstIs
<1>7. ~(b < a \/ (a = b /\ q < p))
  <2> SUFFICES ASSUME b < a \/ (a = b /\ q < p) PROVE FALSE
      OBVIOUS
  <2>1. b \in (j + 1)..a
      BY <1>5
  <2>2. b < a \/ q < p
      OBVIOUS
  <2> QED
      BY <1>3, <1>4, <2>1, <2>2, FirstIs
<1> QED
    BY <1>3, <1>6, <1>7

-----------------------------------------------------------------------------
(* The same of what is left of the messages: g says where each part was.     *)
From(g, h, i, kind) ==
    /\ \A x \in PartsOf(Cleaned(h, i), kind) :
            /\ g[x] \in PartsOf(h[i], kind) /\ Kept(h, i, g[x])
            /\ Cleaned(h, i).parts[x] = h[i].parts[g[x]]
    /\ \A x, y \in PartsOf(Cleaned(h, i), kind) : g[x] = g[y] => x = y
    /\ \A p \in PartsOf(h[i], kind) : Kept(h, i, p) =>
            \E x \in PartsOf(Cleaned(h, i), kind) : Cleaned(h, i).parts[x] = h[i].parts[p]

LEMMA CleanedFrom ==
    ASSUME NEW bys, NEW h \in Seq(Msg(bys)), NEW i \in 1..Len(h), NEW kind
    PROVE  \E g : From(g, h, i, kind)
<1> DEFINE m == Cleaned(h, i)
           L == Len(m.parts)
<1>1. m \in Msg(bys) /\ \E g : Picked(g, m.parts, h[i].parts, KeptAt(h, i))
    BY CleanedIs
<1>d. Cleaned(h, i) = m
    OBVIOUS
<1> HIDE DEF m
<1>2. PICK g : Picked(g, m.parts, h[i].parts, KeptAt(h, i))
    BY <1>1
<1>3. L \in Nat /\ DOMAIN m.parts = 1..L
    BY <1>1 DEF Msg
<1> HIDE DEF L
<1>4. /\ g \in [1..L -> KeptAt(h, i)]
      /\ \A a, b \in 1..L : a < b => g[a] < g[b]
      /\ \A p \in KeptAt(h, i) : \E a \in 1..L : g[a] = p
      /\ \A a \in 1..L : m.parts[a] = h[i].parts[g[a]]
    BY <1>2 DEF Picked, L
<1>5. \A p \in KeptAt(h, i) : p \in DOMAIN h[i].parts /\ Kept(h, i, p)
    BY DEF KeptAt
<1>6. ASSUME NEW x \in PartsOf(m, kind)
      PROVE  x \in 1..L /\ g[x] \in PartsOf(h[i], kind) /\ Kept(h, i, g[x]) /\ m.parts[x] = h[i].parts[g[x]]
  <2>1. x \in 1..L /\ m.parts[x].kind = kind
      BY <1>3, <1>6 DEF PartsOf
  <2>2. g[x] \in KeptAt(h, i) /\ m.parts[x] = h[i].parts[g[x]]
      BY <1>4, <2>1
  <2>3. g[x] \in DOMAIN h[i].parts /\ Kept(h, i, g[x])
      BY <1>5, <2>2
  <2> QED
      BY <2>1, <2>2, <2>3 DEF PartsOf
<1>7. ASSUME NEW x \in PartsOf(m, kind), NEW y \in PartsOf(m, kind), g[x] = g[y] PROVE x = y
  <2>1. x \in 1..L /\ y \in 1..L /\ g[x] \in PartsOf(h[i], kind)
      BY <1>6
  <2>2. Placed(h, i, kind)
      BY Zenon, PlacesAre
  <2>3. g[x] \in Nat
      BY <2>1, <2>2 DEF Placed
  <2>4. ~(x < y) /\ ~(y < x)
      BY <1>4, <1>7, <2>1, <2>3
  <2> QED
      BY <1>3, <2>1, <2>4
<1>8. ASSUME NEW p \in PartsOf(h[i], kind), Kept(h, i, p)
      PROVE  \E x \in PartsOf(m, kind) : m.parts[x] = h[i].parts[p]
  <2>1. p \in KeptAt(h, i) /\ h[i].parts[p].kind = kind
      BY <1>8 DEF KeptAt, PartsOf
  <2>2. PICK a \in 1..L : g[a] = p
      BY <1>4, <2>1
  <2>3. m.parts[a] = h[i].parts[p]
      BY <1>4, <2>2
  <2>4. a \in PartsOf(m, kind)
      BY <1>3, <2>1, <2>3 DEF PartsOf
  <2> QED
      BY <2>3, <2>4
<1>9. From(g, h, i, kind)
    BY <1>6, <1>7, <1>8, <1>d DEF From
<1> QED
    BY <1>9

CallsAreOnce(h, i) ==
    LET m == Cleaned(h, i) IN
    /\ \A x \in PartsOf(m, "call") : m.parts[x].named /\ m.parts[x].id \in Accepted(h, i)
    /\ \A x, y \in PartsOf(m, "call") : m.parts[x].id = m.parts[y].id => x = y
    /\ \A id \in Accepted(h, i) : \E x \in PartsOf(m, "call") : m.parts[x].id = id

LEMMA CallsOnce ==
    ASSUME NEW bys, NEW h \in Seq(Msg(bys)), NEW i \in 1..Len(h), Calls(h[i])
    PROVE  CallsAreOnce(h, i)
<1>1. \E g : From(g, h, i, "call")
    BY Zenon, CleanedFrom
<1>2. PICK g : From(g, h, i, "call")
    BY <1>1
<1> DEFINE m == Cleaned(h, i)
<1>3. \A x \in PartsOf(m, "call") :
            g[x] \in PartsOf(h[i], "call") /\ Kept(h, i, g[x]) /\ m.parts[x] = h[i].parts[g[x]]
    BY <1>2 DEF From
<1>4. \A x, y \in PartsOf(m, "call") : g[x] = g[y] => x = y
    BY <1>2 DEF From
<1>5. \A p \in PartsOf(h[i], "call") : Kept(h, i, p) => \E x \in PartsOf(m, "call") : m.parts[x] = h[i].parts[p]
    BY <1>2 DEF From
<1>m. m = Cleaned(h, i)
    OBVIOUS
<1> HIDE DEF m
<1>k. \A p \in PartsOf(h[i], "call") : h[i].parts[p].kind = "call"
    BY DEF PartsOf
<1>6. ASSUME NEW x \in PartsOf(m, "call") PROVE m.parts[x].named /\ m.parts[x].id \in Accepted(h, i)
    BY <1>3, <1>k, KeptIs
<1>7. ASSUME NEW x \in PartsOf(m, "call"), NEW y \in PartsOf(m, "call"), m.parts[x].id = m.parts[y].id PROVE x = y
  <2>1. g[x] \in PartsOf(h[i], "call") /\ g[y] \in PartsOf(h[i], "call")
        /\ Kept(h, i, g[x]) /\ Kept(h, i, g[y]) /\ h[i].parts[g[x]].id = h[i].parts[g[y]].id
      BY <1>3, <1>7
  <2>2. g[x] = g[y]
      BY <2>1, CallKeptOnce
  <2> QED
      BY <1>4, <2>2
<1>8. ASSUME NEW id \in Accepted(h, i) PROVE \E x \in PartsOf(m, "call") : m.parts[x].id = id
  <2>1. PICK p \in PartsOf(h[i], "call") : h[i].parts[p].id = id /\ Kept(h, i, p)
      BY CallKept
  <2> QED
      BY <1>5, <2>1
<1> QED
    BY Zenon, <1>6, <1>7, <1>8, <1>m DEF CallsAreOnce

ResultsAnswer(h, a) ==
    \A x \in PartsOf(Cleaned(h, a), "result") :
        Caller(h, a) > 0 /\ Cleaned(h, a).parts[x].id \in Accepted(h, Caller(h, a))

LEMMA ResultsDo ==
    ASSUME NEW bys, NEW h \in Seq(Msg(bys)), NEW a \in 1..Len(h)
    PROVE  ResultsAnswer(h, a)
<1>1. \E g : From(g, h, a, "result")
    BY Zenon, CleanedFrom
<1>2. PICK g : From(g, h, a, "result")
    BY <1>1
<1>3. \A x \in PartsOf(Cleaned(h, a), "result") :
            g[x] \in PartsOf(h[a], "result") /\ Kept(h, a, g[x]) /\ Cleaned(h, a).parts[x] = h[a].parts[g[x]]
    BY <1>2 DEF From
<1>k. \A p \in PartsOf(h[a], "result") : h[a].parts[p].kind = "result"
    BY DEF PartsOf
<1>6. ASSUME NEW x \in PartsOf(Cleaned(h, a), "result")
      PROVE  Caller(h, a) > 0 /\ Cleaned(h, a).parts[x].id \in Accepted(h, Caller(h, a))
    BY <1>3, <1>k, KeptIs
<1> QED
    BY <1>6 DEF ResultsAnswer

LEMMA ResultsOnce ==
    ASSUME NEW bys, NEW h \in Seq(Msg(bys)), Proper(h), NEW j \in 1..Len(h),
           NEW a \in 1..Len(h), NEW b \in 1..Len(h), Caller(h, a) = j, Caller(h, b) = j,
           NEW x \in PartsOf(Cleaned(h, a), "result"), NEW y \in PartsOf(Cleaned(h, b), "result"),
           Cleaned(h, a).parts[x].id = Cleaned(h, b).parts[y].id
    PROVE  a = b /\ x = y
<1>1. (\E g : From(g, h, a, "result")) /\ (\E g : From(g, h, b, "result"))
    BY Zenon, CleanedFrom
<1>2. PICK g : From(g, h, a, "result")
    BY <1>1
<1>3. PICK k : From(k, h, b, "result")
    BY <1>1
<1>4. g[x] \in PartsOf(h[a], "result") /\ Kept(h, a, g[x]) /\ Cleaned(h, a).parts[x] = h[a].parts[g[x]]
    BY <1>2 DEF From
<1>5. k[y] \in PartsOf(h[b], "result") /\ Kept(h, b, k[y]) /\ Cleaned(h, b).parts[y] = h[b].parts[k[y]]
    BY <1>3 DEF From
<1>6. a = b /\ g[x] = k[y]
  <2>1. h[a].parts[g[x]].id = h[b].parts[k[y]].id
      BY <1>4, <1>5
  <2> QED
      BY <1>4, <1>5, <2>1, ResultKeptOnce
<1>7. y \in PartsOf(Cleaned(h, a), "result") /\ Cleaned(h, a).parts[x].id = Cleaned(h, a).parts[y].id
    BY <1>6
<1>8. g[y] \in PartsOf(h[a], "result") /\ Kept(h, a, g[y]) /\ Cleaned(h, a).parts[y] = h[a].parts[g[y]]
    BY <1>2, <1>7 DEF From
<1>9. g[x] = g[y]
  <2>1. h[a].parts[g[x]].id = h[a].parts[g[y]].id
      BY <1>4, <1>7, <1>8
  <2> QED
      BY <1>4, <1>8, <2>1, ResultKeptOnce
<1>10. x = y
    BY <1>2, <1>7, <1>9 DEF From
<1> QED
    BY <1>6, <1>10

LEMMA ResultLeft ==
    ASSUME NEW bys, NEW h \in Seq(Msg(bys)), Proper(h), NEW j \in 1..Len(h), Calls(h[j]), NEW id \in Accepted(h, j)
    PROVE  \E a \in (j + 1)..Len(h) : Caller(h, a) = j /\ Stays(h, a)
                /\ \E x \in PartsOf(Cleaned(h, a), "result") : Cleaned(h, a).parts[x].id = id
<1>0. Len(h) \in Nat
    OBVIOUS
<1>1. PICK a \in (j + 1)..Len(h) : \E q \in PartsOf(h[a], "result") :
                h[a].parts[q].id = id /\ Caller(h, a) = j /\ Kept(h, a, q)
    BY ResultKept
<1>2. PICK q \in PartsOf(h[a], "result") : h[a].parts[q].id = id /\ Caller(h, a) = j /\ Kept(h, a, q)
    BY <1>1
<1>3. a \in 1..Len(h)
    BY <1>0
<1>4. \E g : From(g, h, a, "result")
    BY Zenon, <1>3, CleanedFrom
<1>5. PICK x \in PartsOf(Cleaned(h, a), "result") : Cleaned(h, a).parts[x] = h[a].parts[q]
    BY <1>2, <1>4 DEF From
<1>6. Stays(h, a)
  <2>1. ~Calls(h[a])
      BY <1>2, <1>3 DEF Calls, Proper, Has
  <2>2. Cleaned(h, a) \in Msg(bys)
      BY <1>3, CleanedIs
  <2>3. Cleaned(h, a).parts # <<>>
    <3>1. x \in DOMAIN Cleaned(h, a).parts
        BY <1>5 DEF PartsOf
    <3> QED
        BY <3>1
  <2> QED
      BY <2>1, <2>3 DEF Stays
<1>7. Cleaned(h, a).parts[x].id = id
    BY <1>2, <1>5
<1> QED
    BY <1>2, <1>6, <1>7

\* A message with an accepted call stays, as one with calls.
LEMMA CallerStays ==
    ASSUME NEW bys, NEW h \in Seq(Msg(bys)), NEW j \in 1..Len(h), Calls(h[j]), NEW id \in Accepted(h, j)
    PROVE  Stays(h, j) /\ Calls(Cleaned(h, j))
<1>1. CallsAreOnce(h, j)
    BY Zenon, CallsOnce
<1>2. PICK x \in PartsOf(Cleaned(h, j), "call") : Cleaned(h, j).parts[x].id = id
    BY <1>1 DEF CallsAreOnce
<1>3. x \in DOMAIN Cleaned(h, j).parts /\ Cleaned(h, j).parts[x].kind = "call"
    BY DEF PartsOf
<1>4. HasPayload(Cleaned(h, j))
    BY <1>3 DEF HasPayload
<1>5. Cleaned(h, j).role = h[j].role
    BY CleanedIs
<1> QED
    BY <1>4, <1>5 DEF Stays, Calls, Has

-----------------------------------------------------------------------------
(* What is sent pairs every call with one result.                            *)
LEMMA DrawnInOrder ==
    ASSUME NEW h, NEW s, Len(h) \in Nat, Len(s) \in Nat, NEW f, Drawn(f, s, h),
           NEW a \in 1..Len(s), NEW b \in 1..Len(s)
    PROVE  (f[a] < f[b] => a < b) /\ (f[a] = f[b] => a = b) /\ (a < b => f[a] < f[b])
<1>1. f[a] \in 1..Len(h) /\ f[b] \in 1..Len(h) /\ (a < b => f[a] < f[b]) /\ (b < a => f[b] < f[a])
    BY DEF Drawn
<1> QED
    BY <1>1

\* The results in the turn of a message with calls are those of its calls.
LEMMA TurnAnswers ==
    ASSUME NEW bys, NEW h \in Seq(Msg(bys)), Proper(h), NEW s \in Seq(Msg(bys)), NEW f, Drawn(f, s, h),
           NEW k \in 1..Len(s), Calls(s[k]), NEW l \in Turn(s, k), NEW x \in PartsOf(s[l], "result")
    PROVE  l \in 1..Len(s) /\ Caller(h, f[l]) = f[k] /\ s[l].parts[x].id \in Accepted(h, f[k])
<1>0. Len(h) \in Nat /\ Len(s) \in Nat
    OBVIOUS
<1>1. l \in (k + 1)..Len(s) /\ l \in 1..Len(s) /\ \A j \in (k + 1)..l : s[j].role # "assistant"
    BY <1>0 DEF Turn
<1>2. f[l] \in 1..Len(h) /\ f[k] \in 1..Len(h) /\ s[l] = Cleaned(h, f[l]) /\ s[k] = Cleaned(h, f[k]) /\ f[k] < f[l]
    BY <1>1 DEF Drawn
<1> DEFINE j == Caller(h, f[l])
<1>3. j > 0 /\ s[l].parts[x].id \in Accepted(h, j)
  <2>1. ResultsAnswer(h, f[l])
      BY Zenon, <1>2, ResultsDo
  <2> QED
      BY <1>2, <2>1 DEF ResultsAnswer
<1>4. j \in 0..(f[l] - 1) /\ \A i \in 1..(f[l] - 1) :
            j = i <=> Calls(h[i]) /\ \A n \in (i + 1)..f[l] : Answering(h, n)
    BY <1>0, <1>2, CallerIs
<1> HIDE DEF j
<1>5. j \in 1..Len(h) /\ j < f[l] /\ Calls(h[j]) /\ \A n \in (j + 1)..f[l] : Answering(h, n)
  <2>1. j \in 1..(f[l] - 1)
      BY <1>2, <1>3, <1>4
  <2> QED
      BY <1>0, <1>2, <1>4, <2>1
<1>6. Stays(h, j) /\ Calls(Cleaned(h, j))
    BY <1>3, <1>5, CallerStays
<1>7. PICK m \in 1..Len(s) : f[m] = j
    BY <1>5, <1>6 DEF Drawn
<1>8. s[m].role = "assistant" /\ m < l
  <2>1. s[m] = Cleaned(h, j)
      BY <1>7 DEF Drawn
  <2>2. m < l
      BY <1>0, <1>1, <1>5, <1>7, DrawnInOrder
  <2> QED
      BY <1>6, <2>1, <2>2 DEF Calls
<1>9. m <= k
    BY <1>0, <1>1, <1>8
<1>10. ~(m < k)
  <2> SUFFICES ASSUME m < k PROVE FALSE
      OBVIOUS
  <2>1. j < f[k]
      BY <1>0, <1>7, DrawnInOrder
  <2>2. f[k] \in (j + 1)..f[l]
      BY <1>2, <1>5, <2>1
  <2>3. Answering(h, f[k])
      BY <1>5, <2>2
  <2>4. h[f[k]].role = "assistant"
    <3>1. Cleaned(h, f[k]).role = h[f[k]].role
        BY <1>2, CleanedIs
    <3> QED
        BY <1>2, <3>1 DEF Calls
  <2> QED
      BY <1>2, <2>3, <2>4, CallersDoNotAnswer
<1>11. m = k
    BY <1>0, <1>9, <1>10
<1> QED
    BY <1>1, <1>3, <1>7, <1>11 DEF j
-----------------------------------------------------------------------------
LEMMA SameSize ==
    ASSUME NEW S, NEW T, NEW F \in [S -> T], IsFiniteSet(S),
           \A a, b \in S : F[a] = F[b] => a = b, \A t \in T : \E a \in S : F[a] = t
    PROVE  IsFiniteSet(T) /\ Cardinality(T) = Cardinality(S)
<1>1. F \in Bijection(S, T)
    BY DEF Bijection, Injection, IsInjective, Surjection
<1>2. ExistsBijection(S, T)
    BY <1>1 DEF ExistsBijection
<1> QED
    BY <1>2, FS_Bijection

LEMMA PartsInIs ==
    ASSUME NEW h, NEW S, NEW kind
    PROVE  /\ \A r \in PartsIn(h, S, kind) : \E l \in S : \E x \in PartsOf(h[l], kind) : r = <<l, x>>
           /\ \A l \in S : \A x \in PartsOf(h[l], kind) : <<l, x>> \in PartsIn(h, S, kind)
<1>1. ASSUME NEW r \in PartsIn(h, S, kind)
      PROVE  \E l \in S : \E x \in PartsOf(h[l], kind) : r = <<l, x>>
  <2>1. PICK U \in {{<<l, p>> : p \in PartsOf(h[l], kind)} : l \in S} : r \in U
      BY <1>1 DEF PartsIn
  <2>2. PICK l \in S : U = {<<l, p>> : p \in PartsOf(h[l], kind)}
      BY <2>1
  <2> QED
      BY <2>1, <2>2
<1>2. ASSUME NEW l \in S, NEW x \in PartsOf(h[l], kind) PROVE <<l, x>> \in PartsIn(h, S, kind)
    BY DEF PartsIn
<1> QED
    BY <1>1, <1>2

LEMMA LengthIs ==
    ASSUME NEW T, NEW s \in Seq(T)
    PROVE  Len(s) \in Nat
OBVIOUS

\* Each call of message k, and each result in its turn, has an id of its own.
Sources(h, s, f, k) ==
    /\ f[k] \in 1..Len(h) /\ s[k] = Cleaned(h, f[k]) /\ Calls(h[f[k]])
    /\ CallsAreOnce(h, f[k])
    /\ IsFiniteSet(PartsOf(s[k], "call"))

LEMMA CallsSent ==
    ASSUME NEW bys, NEW h \in Seq(Msg(bys)), NEW s \in Seq(Msg(bys)), NEW f, Drawn(f, s, h),
           NEW k \in 1..Len(s), Calls(s[k])
    PROVE  Sources(h, s, f, k)
<1>1. f[k] \in 1..Len(h) /\ s[k] = Cleaned(h, f[k])
    BY DEF Drawn
<1> DEFINE i == f[k]
<1> HIDE DEF i
<1>2. i \in 1..Len(h) /\ s[k] = Cleaned(h, i)
    BY <1>1 DEF i
<1>3. Cleaned(h, i).role = h[i].role
    BY <1>2, CleanedIs
<1>4. \E g : From(g, h, i, "call")
    BY Zenon, <1>2, CleanedFrom
<1>5. PartsOf(h[i], "call") # {}
    BY <1>2, <1>4 DEF From, Calls, Has
<1>6. Calls(h[i])
    BY <1>2, <1>3, <1>5 DEF Calls, Has
<1>7. CallsAreOnce(h, i)
    BY Zenon, <1>2, <1>6, CallsOnce
<1>8. IsFiniteSet(PartsOf(s[k], "call"))
  <2>1. s[k] \in Msg(bys)
      OBVIOUS
  <2>2. s[k].parts \in Seq(Part(bys))
      BY <2>1 DEF Msg
  <2>3. PartsOf(s[k], "call") \subseteq 1..Len(s[k].parts) /\ Len(s[k].parts) \in Int
      BY <2>2 DEF PartsOf
  <2>4. IsFiniteSet(1..Len(s[k].parts))
    <3>1. 1 \in Int
        OBVIOUS
    <3> QED
        BY Zenon, <2>3, <3>1, FS_Interval
  <2> QED
      BY <2>3, <2>4, FS_Subset
<1> QED
    BY <1>2, <1>6, <1>7, <1>8 DEF Sources, i

LEMMA AcceptedIds ==
    ASSUME NEW h, NEW i
    PROVE  None \notin Accepted(h, i)
BY DEF Accepted, IdsOf

LEMMA IdsSent ==
    ASSUME NEW h, NEW s, NEW f, NEW k, Sources(h, s, f, k)
    PROVE  /\ IdsOf(s[k], "call") = Accepted(h, f[k])
           /\ IsFiniteSet(Accepted(h, f[k]))
           /\ Cardinality(Accepted(h, f[k])) = Cardinality(PartsOf(s[k], "call"))
<1> DEFINE m == s[k]
           S == PartsOf(m, "call")
           A == Accepted(h, f[k])
           F == [x \in S |-> m.parts[x].id]
<1>1. /\ \A x \in S : m.parts[x].id \in A
      /\ \A x, y \in S : m.parts[x].id = m.parts[y].id => x = y
      /\ \A id \in A : \E x \in S : m.parts[x].id = id
    BY Zenon DEF Sources, CallsAreOnce
<1>2. IsFiniteSet(S)
    BY DEF Sources
<1>3. None \notin A
    BY AcceptedIds
<1>4. IdsOf(m, "call") = {m.parts[x].id : x \in S} \ {None}
    BY DEF IdsOf
<1> HIDE DEF m, S, A
<1>5. IdsOf(m, "call") = A
    BY <1>1, <1>3, <1>4
<1>6. /\ F \in [S -> A] /\ (\A a, b \in S : F[a] = F[b] => a = b)
      /\ \A t \in A : \E a \in S : F[a] = t
    BY <1>1
<1> HIDE DEF F
<1>7. IsFiniteSet(A) /\ Cardinality(A) = Cardinality(S)
    BY <1>2, <1>6, SameSize
<1> QED
    BY <1>5, <1>7 DEF m, S, A

LEMMA CallersTurn ==
    ASSUME NEW bys, NEW h \in Seq(Msg(bys)), Proper(h), NEW s \in Seq(Msg(bys)), NEW f, Drawn(f, s, h),
           NEW k \in 1..Len(s), NEW l \in 1..Len(s), Calls(h[f[k]]), Caller(h, f[l]) = f[k]
    PROVE  l \in Turn(s, k) /\ k < l
<1>0. Len(h) \in Nat /\ Len(s) \in Nat
    BY Zenon, LengthIs
<1>1. f[k] \in 1..Len(h) /\ f[l] \in 1..Len(h)
    BY DEF Drawn
<1>2. Caller(h, f[l]) \in 0..(f[l] - 1) /\ \A i \in 1..(f[l] - 1) :
            Caller(h, f[l]) = i <=> Calls(h[i]) /\ \A n \in (i + 1)..f[l] : Answering(h, n)
    BY <1>0, <1>1, CallerIs
<1>3. f[k] \in 1..(f[l] - 1) /\ f[k] < f[l]
    BY <1>0, <1>1, <1>2
<1>4. \A n \in (f[k] + 1)..f[l] : Answering(h, n)
    BY <1>2, <1>3
<1>5. k < l
    BY <1>0, <1>3, DrawnInOrder
<1>6. ASSUME NEW j \in (k + 1)..l PROVE s[j].role # "assistant"
  <2>1. j \in 1..Len(s) /\ k < j /\ (j < l \/ j = l)
      BY <1>0
  <2>2. f[j] \in 1..Len(h) /\ s[j] = Cleaned(h, f[j])
      BY <2>1 DEF Drawn
  <2>3. f[k] < f[j] /\ (j < l => f[j] < f[l])
      BY <1>0, <2>1, DrawnInOrder
  <2>4. f[j] \in (f[k] + 1)..f[l]
      BY <1>1, <2>1, <2>2, <2>3
  <2>5. Answering(h, f[j])
      BY <1>4, <2>4
  <2>6. h[f[j]].role # "assistant"
      BY <2>2, <2>5, CallersDoNotAnswer
  <2>7. Cleaned(h, f[j]).role = h[f[j]].role
      BY <2>2, CleanedIs
  <2> QED
      BY <2>2, <2>6, <2>7
<1> QED
    BY <1>0, <1>5, <1>6 DEF Turn

AllAnswered(h, s, f, k) ==
    /\ Cardinality(PartsIn(s, Turn(s, k), "result")) = Cardinality(PartsOf(s[k], "call"))
    /\ \A id \in Accepted(h, f[k]) : \E r \in PartsIn(s, Turn(s, k), "result") : s[r[1]].parts[r[2]].id = id

LEMMA ResultsSent ==
    ASSUME NEW bys, NEW h \in Seq(Msg(bys)), Proper(h), NEW s \in Seq(Msg(bys)), NEW f, Drawn(f, s, h),
           NEW k \in 1..Len(s), Calls(s[k]), Sources(h, s, f, k)
    PROVE  AllAnswered(h, s, f, k)
<1> DEFINE R == PartsIn(s, Turn(s, k), "result")
           i == f[k]
           A == Accepted(h, i)
           Named(r) == s[r[1]].parts[r[2]].id
<1>0. Len(h) \in Nat /\ Len(s) \in Nat
    OBVIOUS
<1>1. i \in 1..Len(h) /\ Calls(h[i])
    BY DEF Sources
<1>2. ASSUME NEW r \in R
      PROVE  /\ r = <<r[1], r[2]>> /\ r[1] \in 1..Len(s) /\ r[2] \in PartsOf(s[r[1]], "result")
             /\ Caller(h, f[r[1]]) = i /\ Named(r) \in A
             /\ f[r[1]] \in 1..Len(h) /\ s[r[1]] = Cleaned(h, f[r[1]])
  <2>a. PICK l \in Turn(s, k) : \E x \in PartsOf(s[l], "result") : r = <<l, x>>
      BY PartsInIs
  <2>1. PICK x \in PartsOf(s[l], "result") : r = <<l, x>>
      BY <2>a
  <2>2. r[1] = l /\ r[2] = x
      BY <2>1
  <2>3. l \in 1..Len(s) /\ Caller(h, f[l]) = i /\ s[l].parts[x].id \in A
      BY TurnAnswers
  <2>4. f[l] \in 1..Len(h) /\ s[l] = Cleaned(h, f[l])
      BY <2>3 DEF Drawn
  <2> QED
      BY <2>1, <2>2, <2>3, <2>4
<1>3. ASSUME NEW r \in R, NEW t \in R, Named(r) = Named(t) PROVE r = t
  <2>1. f[r[1]] = f[t[1]] /\ r[2] = t[2]
    <3> DEFINE a == f[r[1]]
               b == f[t[1]]
               x == r[2]
               y == t[2]
    <3>1. /\ a \in 1..Len(h) /\ b \in 1..Len(h) /\ Caller(h, a) = i /\ Caller(h, b) = i
          /\ x \in PartsOf(Cleaned(h, a), "result") /\ y \in PartsOf(Cleaned(h, b), "result")
          /\ Cleaned(h, a).parts[x].id = Cleaned(h, b).parts[y].id
        BY <1>2, <1>3
    <3> HIDE DEF a, b, x, y, i
    <3>2. a = b /\ x = y
        BY <1>1, <3>1, ResultsOnce
    <3> QED
        BY <3>2 DEF a, b, x, y
  <2>2. r[1] \in 1..Len(s) /\ t[1] \in 1..Len(s) /\ r = <<r[1], r[2]>> /\ t = <<t[1], t[2]>>
      BY <1>2
  <2>3. r[1] = t[1]
      BY <1>0, <2>1, <2>2, DrawnInOrder
  <2> QED
      BY <2>1, <2>2, <2>3
<1>4. ASSUME NEW id \in A PROVE \E r \in R : Named(r) = id
  <2>1. PICK a \in (i + 1)..Len(h) : Caller(h, a) = i /\ Stays(h, a)
                /\ \E x \in PartsOf(Cleaned(h, a), "result") : Cleaned(h, a).parts[x].id = id
      BY <1>1, ResultLeft
  <2>2. a \in 1..Len(h)
      BY <1>0, <1>1
  <2>3. PICK l \in 1..Len(s) : f[l] = a
      BY <2>1, <2>2 DEF Drawn
  <2>4. s[l] = Cleaned(h, a)
      BY <2>3 DEF Drawn
  <2>5. PICK x \in PartsOf(s[l], "result") : s[l].parts[x].id = id
      BY <2>1, <2>4
  <2>6a. Calls(h[f[k]]) /\ Caller(h, f[l]) = f[k]
      BY <1>1, <2>1, <2>3
  <2>6. l \in Turn(s, k)
      BY Zenon, <2>6a, CallersTurn
  <2>7. <<l, x>> \in R
      BY <2>5, <2>6, PartsInIs
  <2>8. Named(<<l, x>>) = id
      BY <2>5
  <2> QED
      BY <2>7, <2>8
<1>5. IsFiniteSet(A) /\ Cardinality(A) = Cardinality(PartsOf(s[k], "call"))
    BY IdsSent
<1>6. Cardinality(R) = Cardinality(A)
  <2> DEFINE F == [id \in A |-> CHOOSE r \in R : Named(r) = id]
  <2> HIDE DEF R, A
  <2>1. \A id \in A : F[id] \in R /\ Named(F[id]) = id
    <3> HIDE DEF Named
    <3> QED
        BY <1>4
  <2>2. F \in [A -> R]
      BY <2>1
  <2>3. \A a, b \in A : F[a] = F[b] => a = b
    <3> HIDE DEF F, Named
    <3> QED
        BY <2>1
  <2>4. \A r \in R : \E a \in A : F[a] = r
    <3>1. \A r \in R : Named(r) \in A
        BY <1>2
    <3> HIDE DEF F, Named
    <3> QED
        BY <1>3, <2>1, <3>1
  <2> HIDE DEF F
  <2> QED
      BY <1>5, <2>2, <2>3, <2>4, SameSize
<1> QED
    BY <1>4, <1>5, <1>6 DEF AllAnswered

(* Of any history with its results outside messages of the assistant, what   *)
(* sanitize_tool_history keeps has one result for each call, before the      *)
(* assistant's next turn, no call without a name or with the id of another,  *)
(* and no result without its call.                                           *)
THEOREM PairedIs ==
    ASSUME NEW bys, NEW h \in Seq(Msg(bys)), Proper(h)
    PROVE  Paired(Sanitized(h))
<1> DEFINE s == Sanitized(h)
<1>1. s \in Seq(Msg(bys)) /\ \E f : Drawn(f, s, h)
    BY SanitizedIs
<1> HIDE DEF s
<1>2. PICK f : Drawn(f, s, h)
    BY <1>1
<1>1t. s \in Seq(Msg(bys))
    BY <1>1
<1>3. Len(h) \in Nat /\ Len(s) \in Nat /\ DOMAIN s = 1..Len(s)
    BY <1>1
<1>4. ASSUME NEW k \in 1..Len(s), Calls(s[k])
      PROVE  LET results == PartsIn(s, Turn(s, k), "result")
                 calls == PartsOf(s[k], "call")
             IN /\ Cardinality(results) = Cardinality(calls)
                /\ Cardinality(IdsOf(s[k], "call")) = Cardinality(calls)
                /\ \A p \in calls : s[k].parts[p].named
                                    /\ \E x \in results : s[x[1]].parts[x[2]].id = s[k].parts[p].id
  <2>1. Sources(h, s, f, k)
      BY <1>1, <1>2, <1>4, CallsSent
  <2>2. /\ Cardinality(PartsIn(s, Turn(s, k), "result")) = Cardinality(PartsOf(s[k], "call"))
        /\ \A id \in Accepted(h, f[k]) : \E r \in PartsIn(s, Turn(s, k), "result") : s[r[1]].parts[r[2]].id = id
    <3>1. AllAnswered(h, s, f, k)
        BY Zenon, <1>1t, <1>2, <1>4, <2>1, ResultsSent
    <3> QED
        BY <3>1 DEF AllAnswered
  <2>3. Cardinality(IdsOf(s[k], "call")) = Cardinality(PartsOf(s[k], "call"))
      BY <2>1, IdsSent
  <2>4. \A p \in PartsOf(s[k], "call") : s[k].parts[p].named /\ s[k].parts[p].id \in Accepted(h, f[k])
      BY Zenon, <2>1 DEF Sources, CallsAreOnce
  <2> QED
      BY Zenon, <2>2, <2>3, <2>4
<1>5. ASSUME NEW l \in 1..Len(s), Has(s[l], "result")
      PROVE  \E k \in 1..(l - 1) : Calls(s[k]) /\ l \in Turn(s, k)
  <2>1. f[l] \in 1..Len(h) /\ s[l] = Cleaned(h, f[l])
      BY <1>2 DEF Drawn
  <2>2. ResultsAnswer(h, f[l])
      BY Zenon, <2>1, ResultsDo
  <2> DEFINE j == Caller(h, f[l])
  <2>3. PICK x \in PartsOf(s[l], "result") : j > 0 /\ s[l].parts[x].id \in Accepted(h, j)
      BY <1>5, <2>1, <2>2 DEF Has, ResultsAnswer
  <2>4. j \in 0..(f[l] - 1) /\ \A i \in 1..(f[l] - 1) :
            j = i <=> Calls(h[i]) /\ \A n \in (i + 1)..f[l] : Answering(h, n)
      BY <1>3, <2>1, CallerIs
  <2>5. j \in 1..Len(h) /\ Calls(h[j])
    <3> HIDE DEF j
    <3>1. j \in 1..(f[l] - 1)
        BY <2>1, <2>3, <2>4
    <3> QED
        BY <1>3, <2>1, <2>4, <3>1
  <2>6. Stays(h, j) /\ Calls(Cleaned(h, j))
      BY <2>3, <2>5, CallerStays
  <2>7. PICK k \in 1..Len(s) : f[k] = j
      BY <1>2, <2>5, <2>6 DEF Drawn
  <2>8. Calls(s[k])
      BY <1>2, <2>6, <2>7 DEF Drawn
  <2>9. l \in Turn(s, k) /\ k < l
    <3>1. Calls(h[f[k]]) /\ Caller(h, f[l]) = f[k]
        BY <2>5, <2>7
    <3> QED
        BY Zenon, <1>1t, <1>2, <3>1, CallersTurn
  <2>10. k \in 1..(l - 1)
      BY <1>3, <2>9
  <2> QED
      BY <2>8, <2>9, <2>10
<1>6. Paired(s)
    BY Zenon, <1>3, <1>4, <1>5 DEF Paired
<1> QED
    BY <1>6 DEF s
-----------------------------------------------------------------------------
(* Reasoning put back is reasoning and nothing else: roles, words, calls and *)
(* results are those of the client's messages.                               *)
Alike(n, m) ==
    /\ n.role = m.role
    /\ WordsIn(n.parts) = WordsIn(m.parts)
    /\ \A kind \in {"call", "result"} :
         /\ \A p \in PartsOf(n, kind) : \E q \in PartsOf(m, kind) : n.parts[p] = m.parts[q]
         /\ \A q \in PartsOf(m, kind) : \E p \in PartsOf(n, kind) : n.parts[p] = m.parts[q]

LEMMA AlikeIs ==
    ASSUME NEW n, NEW m, Alike(n, m), NEW kind \in {"call", "result"}
    PROVE  IdsOf(n, kind) = IdsOf(m, kind) /\ (Has(n, kind) <=> Has(m, kind))
<1>1. /\ \A p \in PartsOf(n, kind) : \E q \in PartsOf(m, kind) : n.parts[p] = m.parts[q]
      /\ \A q \in PartsOf(m, kind) : \E p \in PartsOf(n, kind) : n.parts[p] = m.parts[q]
    BY DEF Alike
<1>2. Has(n, kind) <=> Has(m, kind)
    BY <1>1 DEF Has
<1>3. {n.parts[p].id : p \in PartsOf(n, kind)} = {m.parts[p].id : p \in PartsOf(m, kind)}
    BY <1>1
<1> QED
    BY <1>2, <1>3 DEF IdsOf

Prefixed(n, m, t) ==
    /\ n \in Msg(All)
    /\ Alike(n, m)
    /\ \A p \in PartsOf(n, "reasoning") :
            n.parts[p].by = t \/ \E q \in PartsOf(m, "reasoning") : n.parts[p] = m.parts[q]

LEMMA AlikeSelf ==
    ASSUME NEW m, NEW t, m \in Msg(All)
    PROVE  Prefixed(m, m, t)
BY DEF Prefixed, Alike

LEMMA PrefixedIs ==
    ASSUME NEW m \in Msg(All), NEW t \in All
    PROVE  Prefixed([m EXCEPT !.parts = <<Reasoning(t)>> \o m.parts], m, t)
<1> DEFINE x == Reasoning(t)
           ps == m.parts
           qs == <<x>> \o ps
           n == [m EXCEPT !.parts = qs]
<1>1. x \in Part(All) /\ x.kind = "reasoning" /\ x.by = t
    BY Zenon, PartsAre
<1>2. ps \in Seq(Part(All)) /\ Len(ps) \in Nat
    BY DEF Msg
<1>n. n = [m EXCEPT !.parts = <<Reasoning(t)>> \o m.parts]
    OBVIOUS
<1>m. ps = m.parts
    OBVIOUS
<1> HIDE DEF x, ps
<1>3. qs \in Seq(Part(All)) /\ Len(qs) = Len(ps) + 1 /\ qs[1] = x
      /\ (\A p \in 1..Len(ps) : qs[p + 1] = ps[p])
    BY <1>1, <1>2
<1>4. WordsIn(qs) = WordsIn(ps)
  <2>1. WordsIn(qs) = WordsIn(<<x>>) \o WordsIn(ps)
    <3>1. <<x>> \in Seq(Part(All))
        BY <1>1
    <3> QED
        BY <1>2, <3>1, WordsInTwice
  <2>2. WordsIn(<<x>>) = <<>>
    <3>1. WordsIn(<<x>>) = IF x.kind = "text" THEN x.words ELSE <<>>
        BY Zenon, <1>1, WordsInOne
    <3> QED
        BY <1>1, <3>1
  <2>3. WordsIn(ps) \in Seq(STRING)
      BY <1>2, WordsInIs
  <2> QED
      BY <2>1, <2>2, <2>3
<1> HIDE DEF qs
<1>5. n \in Msg(All) /\ n.role = m.role /\ n.parts = qs
  <2>1. m \in Msg(All)
      OBVIOUS
  <2> HIDE DEF n
  <2>2. /\ [m EXCEPT !.parts = qs] \in Msg(All)
        /\ [m EXCEPT !.parts = qs].role = m.role
        /\ [m EXCEPT !.parts = qs].parts = qs
      BY <1>3, <2>1, MessageIs
  <2> QED
      BY Zenon, <2>2 DEF n
<1> HIDE DEF n
<1>6. DOMAIN ps = 1..Len(ps) /\ DOMAIN qs = 1..(Len(ps) + 1)
    BY <1>2, <1>3
<1>7. ASSUME NEW kind, NEW p \in PartsOf(n, kind)
      PROVE  (p = 1 /\ kind = "reasoning" /\ n.parts[p].by = t) \/ \E q \in PartsOf(m, kind) : n.parts[p] = m.parts[q]
  <2>1. p \in 1..(Len(ps) + 1) /\ qs[p].kind = kind
      BY <1>5, <1>6 DEF PartsOf
  <2>2. CASE p = 1
      BY <1>1, <1>3, <1>5, <2>1, <2>2
  <2>3. CASE p # 1
    <3>1. p - 1 \in 1..Len(ps) /\ (p - 1) + 1 = p
        BY <1>2, <2>1, <2>3
    <3>2. qs[p] = ps[p - 1]
        BY <1>3, <3>1
    <3>3. p - 1 \in PartsOf(m, kind)
        BY <1>6, <1>m, <2>1, <3>1, <3>2 DEF PartsOf
    <3> QED
        BY <1>5, <1>m, <3>2, <3>3
  <2> QED
      BY <2>2, <2>3
<1>8. ASSUME NEW kind, NEW q \in PartsOf(m, kind) PROVE \E p \in PartsOf(n, kind) : n.parts[p] = m.parts[q]
  <2>1. q \in 1..Len(ps) /\ ps[q].kind = kind
      BY <1>6, <1>m, <1>8 DEF PartsOf
  <2>2. q + 1 \in 1..(Len(ps) + 1) /\ qs[q + 1] = ps[q]
      BY <1>2, <1>3, <2>1
  <2>3. q + 1 \in PartsOf(n, kind)
      BY <1>5, <1>6, <2>1, <2>2 DEF PartsOf
  <2> QED
      BY <1>5, <1>m, <2>2, <2>3
<1>9. Alike(n, m)
  <2>1. \A kind \in {"call", "result"} : kind # "reasoning"
      OBVIOUS
  <2>2. \A kind \in {"call", "result"} :
         /\ \A p \in PartsOf(n, kind) : \E q \in PartsOf(m, kind) : n.parts[p] = m.parts[q]
         /\ \A q \in PartsOf(m, kind) : \E p \in PartsOf(n, kind) : n.parts[p] = m.parts[q]
      BY <1>7, <1>8, <2>1
  <2> QED
      BY <1>4, <1>5, <1>m, <2>2 DEF Alike
<1>10. \A p \in PartsOf(n, "reasoning") :
            n.parts[p].by = t \/ \E q \in PartsOf(m, "reasoning") : n.parts[p] = m.parts[q]
    BY <1>7
<1>11. Prefixed(n, m, t)
    BY <1>5, <1>9, <1>10 DEF Prefixed
<1> QED
    BY Zenon, <1>11, <1>n

-----------------------------------------------------------------------------
(* Whose reasoning may be where: strictly, and as caches that lost entries   *)
(* allow it. A turn of the assistant has calls, each with its result next.   *)
Belongs(t, c, m) == t = None \/ (Principal(t[1]) = Principal(c) /\ t[3] \cap IdsOf(m, "call") # {})
Fitting(t, c, m) == Belongs(t, c, m) \/ (forgot /\ t = latest[c] /\ Principal(t[1]) = Principal(c))

AllBelong(c, h) ==
    \A i \in 1..Len(h) : \A p \in PartsOf(h[i], "reasoning") : Belongs(h[i].parts[p].by, c, h[i])
AllFitting(c, h) ==
    \A i \in 1..Len(h) : \A p \in PartsOf(h[i], "reasoning") : Fitting(h[i].parts[p].by, c, h[i])
WellFormed(h) ==
    \A i \in 1..Len(h) :
        /\ Has(h[i], "reasoning") => h[i].role = "assistant"
        /\ h[i].role = "assistant" =>
             /\ Has(h[i], "call") /\ i + 1 \in 1..Len(h)
             /\ \A p \in PartsOf(h[i], "call") :
                  h[i].parts[p].named /\ h[i].parts[p].id \in IdsOf(h[i + 1], "result")

\* All calls of a well-formed history are accepted.
LEMMA WellFormedCalls ==
    ASSUME NEW bys, NEW h \in Seq(Msg(bys)), Proper(h), WellFormed(h),
           NEW i \in 1..Len(h), h[i].role = "assistant"
    PROVE  Calls(h[i]) /\ IdsOf(h[i], "call") \subseteq Accepted(h, i)
<1>0. Len(h) \in Nat /\ DOMAIN h = 1..Len(h)
    OBVIOUS
<1>1. /\ Has(h[i], "call") /\ i + 1 \in 1..Len(h)
      /\ \A p \in PartsOf(h[i], "call") :
            h[i].parts[p].named /\ h[i].parts[p].id \in IdsOf(h[i + 1], "result")
    BY DEF WellFormed
<1>2. Calls(h[i])
    BY <1>1 DEF Calls
<1>3. Answering(h, i + 1)
    BY <1>1 DEF Answering, Has
<1>4. Caller(h, i + 1) = i
  <2>1. i \in 1..((i + 1) - 1) /\ \A k \in (i + 1)..(i + 1) : k = i + 1
      OBVIOUS
  <2>2. \A k \in (i + 1)..(i + 1) : Answering(h, k)
      BY <1>3, <2>1
  <2> QED
      BY <1>0, <1>1, <1>2, <2>1, <2>2, CallerIs
<1>5. i + 1 \in Answers(h, i)
    BY <1>0, <1>1, <1>3, <1>4 DEF Answers
<1>6. ASSUME NEW p \in PartsOf(h[i], "call") PROVE h[i].parts[p].id \in Accepted(h, i)
  <2>1. h[i].parts[p].named /\ h[i].parts[p].id \in IdsOf(h[i + 1], "result")
      BY <1>1
  <2> QED
      BY <1>5, <2>1 DEF Accepted
<1>7. IdsOf(h[i], "call") \subseteq Accepted(h, i)
    BY <1>6 DEF IdsOf
<1> QED
    BY <1>2, <1>7

LEMMA SanitizedFits ==
    ASSUME NEW c, NEW h \in Seq(Msg(All)), Proper(h), WellFormed(h), AllFitting(c, h)
    PROVE  AllFitting(c, Sanitized(h))
<1> DEFINE s == Sanitized(h)
<1>1. s \in Seq(Msg(All)) /\ \E f : Drawn(f, s, h)
    BY SanitizedIs
<1>s. s = Sanitized(h)
    OBVIOUS
<1> HIDE DEF s
<1>2. PICK f : Drawn(f, s, h)
    BY <1>1
<1> SUFFICES ASSUME NEW k \in 1..Len(s), NEW x \in PartsOf(s[k], "reasoning")
             PROVE  Fitting(s[k].parts[x].by, c, s[k])
    BY <1>s DEF AllFitting
<1> DEFINE i == f[k]
<1>3. i \in 1..Len(h) /\ s[k] = Cleaned(h, i)
    BY <1>2 DEF Drawn
<1> HIDE DEF i
<1>4. \E g : From(g, h, i, "reasoning")
    BY Zenon, <1>3, CleanedFrom
<1>5. PICK p \in PartsOf(h[i], "reasoning") : s[k].parts[x] = h[i].parts[p]
    BY <1>3, <1>4 DEF From
<1> DEFINE t == s[k].parts[x].by
<1>6. Fitting(t, c, h[i])
    BY <1>3, <1>5 DEF AllFitting
<1>7. h[i].role = "assistant"
    BY <1>3, <1>5 DEF WellFormed, Has
<1>8. Calls(h[i]) /\ IdsOf(h[i], "call") \subseteq Accepted(h, i)
    BY <1>3, <1>7, WellFormedCalls
<1>9. CallsAreOnce(h, i)
    BY Zenon, <1>3, <1>8, CallsOnce
<1>10. IdsOf(h[i], "call") \subseteq IdsOf(s[k], "call")
  <2> SUFFICES ASSUME NEW id \in IdsOf(h[i], "call") PROVE id \in IdsOf(s[k], "call")
      OBVIOUS
  <2>1. id \in Accepted(h, i) /\ id # None
      BY <1>8 DEF IdsOf
  <2>2. PICK y \in PartsOf(s[k], "call") : s[k].parts[y].id = id
      BY <1>3, <1>9, <2>1 DEF CallsAreOnce
  <2> QED
      BY <2>1, <2>2 DEF IdsOf
<1> HIDE DEF t
<1>11. Fitting(t, c, s[k])
    BY <1>6, <1>10 DEF Fitting, Belongs
<1> QED
    BY <1>11 DEF t
-----------------------------------------------------------------------------
(* Conversations. Histories and caches are the clients' own; without         *)
(* reasoning in the focus there is none. Only a cache that lost an entry     *)
(* lets a turn have the reasoning of another.                                *)
ChatsTyped ==
    /\ history \in [Conversation -> Seq(Msg(All))]
    /\ sent \in [Conversation -> {Unsent} \cup Seq(Msg(All))]
    /\ turns \in [Conversation -> Nat]
    /\ latest \in [Conversation -> All]
    /\ byCall \in [Conversation -> [CallIds -> All]]
    /\ byCallOfKey \in [Principals \X CallIds -> All]
    /\ forgot \in BOOLEAN

MadeFor(t, p, id) == t # None => Principal(t[1]) = p /\ id \in t[3]
CachesOwn ==
    /\ \A c \in Conversation : latest[c] # None => Principal(latest[c][1]) = Principal(c)
    /\ \A c \in Conversation, id \in CallIds : MadeFor(byCall[c][id], Principal(c), id)
    /\ \A p \in Principals, id \in CallIds : MadeFor(byCallOfKey[<<p, id>>], p, id)
CachesEmpty ==
    /\ \A c \in Conversation : latest[c] = None
    /\ \A c \in Conversation, id \in CallIds : byCall[c][id] = None
    /\ \A x \in Principals \X CallIds : byCallOfKey[x] = None

AllRemembered(c) == \A i \in 1..Len(history[c]) : \A id \in IdsOf(history[c][i], "call") : byCall[c][id] # None
HistoryOK(c) ==
    /\ focus = "reasoning" => /\ Proper(history[c]) /\ WellFormed(history[c]) /\ AllBelong(c, history[c])
                              /\ ~forgot => AllRemembered(c)
    /\ focus # "reasoning" => history[c] \in Seq(Msg({None}))
SentOK(c) ==
    sent[c] # Unsent => /\ Proper(history[c]) => Paired(sent[c])
                        /\ Words(sent[c]) = Words(history[c])
                        /\ AllFitting(c, sent[c])

ChatsOK ==
    /\ ChatsTyped
    /\ CachesOwn
    /\ focus # "reasoning" => CachesEmpty
    /\ \A c \in Conversation : HistoryOK(c) /\ SentOK(c)
-----------------------------------------------------------------------------
(* inject_reasoning_content.                                                 *)
InCaches(t, c) ==
    t = latest[c] \/ \E id \in CallIds : t = byCall[c][id] \/ t = byCallOfKey[<<Principal(c), id>>]
Fetched(t, c, m) ==
    /\ t \in Thoughts /\ InCaches(t, c) /\ Principal(t[1]) = Principal(c)
    /\ Belongs(t, c, m) \/ (t = latest[c] /\ \A id \in IdsOf(m, "call") : byCall[c][id] = None)
Restoring(R, c, h) ==
    /\ R \in Seq(Msg(All)) /\ Len(R) = Len(h)
    /\ \A i \in 1..Len(h) :
         R[i] = h[i] \/ (h[i].role = "assistant" /\ \E t : Fetched(t, c, h[i]) /\ Prefixed(R[i], h[i], t))

KnownOf(k, c) ==
    /\ k \in [CallIds -> All]
    /\ \A id \in CallIds : /\ byCall[c][id] # None => k[id] = byCall[c][id]
                           /\ k[id] # None => InCaches(k[id], c) /\ MadeFor(k[id], Principal(c), id)

LEMMA KnownIs ==
    ASSUME ChatsTyped, CachesOwn, NEW c \in Conversation, NEW h
    PROVE  KnownOf(Known(c, h), c)
<1>1. Principal(c) \in Principals
    BY DEF Conversation, Principal
<1>2. ASSUME NEW id \in CallIds
      PROVE  /\ byCall[c][id] \in All /\ byCallOfKey[<<Principal(c), id>>] \in All
             /\ MadeFor(byCall[c][id], Principal(c), id)
             /\ MadeFor(byCallOfKey[<<Principal(c), id>>], Principal(c), id)
    BY <1>1 DEF ChatsTyped, CachesOwn
<1> DEFINE k == Known(c, h)
           Answers1(id) == \E i \in DOMAIN h : id \in IdsOf(h[i], "result")
<1>3. k = [id \in CallIds |-> IF byCall[c][id] # None THEN byCall[c][id]
                              ELSE IF Answers1(id) THEN byCallOfKey[<<Principal(c), id>>] ELSE None]
    BY Zenon DEF Known
<1> HIDE DEF Answers1
<1>4. ASSUME NEW id \in CallIds
      PROVE  k[id] = IF byCall[c][id] # None THEN byCall[c][id]
                     ELSE IF Answers1(id) THEN byCallOfKey[<<Principal(c), id>>] ELSE None
    BY Zenon, <1>3
<1>5. k \in [CallIds -> All]
  <2>1. \A id \in CallIds : (IF byCall[c][id] # None THEN byCall[c][id]
                     ELSE IF Answers1(id) THEN byCallOfKey[<<Principal(c), id>>] ELSE None) \in All
    <3>1. None \in All
        BY DEF All
    <3> QED
        BY <1>2, <3>1
  <2> QED
      BY <1>3, <2>1
<1>6. ASSUME NEW id \in CallIds
      PROVE  /\ byCall[c][id] # None => k[id] = byCall[c][id]
             /\ k[id] # None => InCaches(k[id], c) /\ MadeFor(k[id], Principal(c), id)
  <2>1. k[id] # None => k[id] = byCall[c][id] \/ k[id] = byCallOfKey[<<Principal(c), id>>]
      BY <1>4
  <2>2. k[id] # None => MadeFor(k[id], Principal(c), id)
      BY Zenon, <1>2, <2>1
  <2>3. k[id] # None => InCaches(k[id], c)
      BY Zenon, <2>1 DEF InCaches
  <2>4. byCall[c][id] # None => k[id] = byCall[c][id]
      BY <1>4
  <2> QED
      BY <2>2, <2>3, <2>4
<1> QED
    BY <1>5, <1>6 DEF KnownOf

LEMMA ElementIs ==
    ASSUME NEW T, NEW s \in Seq(T), NEW p \in DOMAIN s
    PROVE  p \in Nat /\ s[p] \in T
OBVIOUS

LEMMA ElementHas ==
    ASSUME NEW T, NEW s \in Seq(T), NEW i \in 1..Len(s)
    PROVE  s[i] \in T
OBVIOUS

LEMMA FetchedIs ==
    ASSUME ChatsTyped, CachesOwn, NEW c \in Conversation, NEW m \in Msg(All), NEW k, KnownOf(k, c),
           NEW F, F = {p \in PartsOf(m, "call") : m.parts[p].id # None /\ k[m.parts[p].id] # None},
           NEW t, t = (IF F # {} THEN k[m.parts[Min(F)].id] ELSE latest[c]), t # None
    PROVE  Fetched(t, c, m)
<1>1. m.parts \in Seq(Part(All))
    BY DEF Msg
<1>2. ASSUME NEW p \in PartsOf(m, "call"), m.parts[p].id # None
      PROVE  p \in Nat /\ m.parts[p].id \in CallIds /\ m.parts[p].id \in IdsOf(m, "call")
  <2>1. p \in Nat /\ m.parts[p] \in Part(All) /\ m.parts[p].kind = "call"
    <3>1. p \in DOMAIN m.parts /\ m.parts[p].kind = "call"
        BY DEF PartsOf
    <3> DEFINE ps == m.parts
    <3> HIDE DEF ps
    <3>2. ps \in Seq(Part(All)) /\ p \in DOMAIN ps
        BY <1>1, <3>1 DEF ps
    <3>3. p \in Nat /\ ps[p] \in Part(All)
        BY Zenon, <3>2, ElementIs
    <3> QED
        BY <3>1, <3>3 DEF ps
  <2>2. m.parts[p].id \in Id
      BY <2>1, PartIs
  <2> QED
      BY <1>2, <2>1, <2>2 DEF Id, IdsOf
<1>3. CASE F # {}
  <2>1. F \in SUBSET Nat
      BY <1>2
  <2>2. Min(F) \in F
      BY <1>3, <2>1, MinLeast
  <2> DEFINE id == m.parts[Min(F)].id
  <2>3. Min(F) \in PartsOf(m, "call") /\ id # None /\ k[id] # None
      BY <2>2
  <2>4. id \in CallIds /\ id \in IdsOf(m, "call") /\ t = k[id]
      BY <1>2, <1>3, <2>3
  <2> HIDE DEF id
  <2>5. InCaches(t, c) /\ MadeFor(t, Principal(c), id) /\ t \in All
      BY <2>3, <2>4 DEF KnownOf
  <2>6. t \in Thoughts
      BY <2>5 DEF All
  <2>7. Principal(t[1]) = Principal(c) /\ id \in t[3]
      BY <2>5 DEF MadeFor
  <2> QED
      BY <2>4, <2>5, <2>6, <2>7 DEF Fetched, Belongs
<1>4. CASE F = {}
  <2>1. t = latest[c]
      BY <1>4
  <2>2. t \in Thoughts
      BY <2>1 DEF ChatsTyped, All
  <2>3. Principal(t[1]) = Principal(c)
      BY <2>1 DEF CachesOwn
  <2>4. ASSUME NEW id \in IdsOf(m, "call") PROVE byCall[c][id] = None
    <3>1. PICK p \in PartsOf(m, "call") : m.parts[p].id = id /\ id # None
        BY DEF IdsOf
    <3>2. p \notin F
        BY <1>4
    <3>3. k[id] = None
        BY <3>1, <3>2
    <3>4. id \in CallIds
        BY <1>2, <3>1
    <3> QED
        BY <3>3, <3>4 DEF KnownOf
  <2> QED
      BY <2>1, <2>2, <2>3, <2>4 DEF Fetched, InCaches
<1> QED
    BY <1>3, <1>4

LEMMA RestoredIs ==
    ASSUME ChatsTyped, CachesOwn, NEW c \in Conversation, NEW h \in Seq(Msg(All))
    PROVE  Restoring(Restored(c, h), c, h)
<1> DEFINE k == Known(c, h)
           Found(m) == {p \in PartsOf(m, "call") : m.parts[p].id # None /\ k[m.parts[p].id] # None}
           Thought(m) == IF Found(m) # {} THEN k[m.parts[Min(Found(m))].id] ELSE latest[c]
           R == Restored(c, h)
<1>1. DOMAIN h = 1..Len(h) /\ Len(h) \in Nat
    OBVIOUS
<1>2. R = [i \in DOMAIN h |-> IF i \in Lacking(h) /\ Thought(h[i]) # None
                              THEN [h[i] EXCEPT !.parts = <<Reasoning(Thought(h[i]))>> \o h[i].parts]
                              ELSE h[i]]
    BY Zenon DEF Restored
<1>3. KnownOf(k, c)
    BY Zenon, KnownIs
<1> DEFINE Back(i) == i \in Lacking(h) /\ Thought(h[i]) # None
           With(i) == [h[i] EXCEPT !.parts = <<Reasoning(Thought(h[i]))>> \o h[i].parts]
<1>4. ASSUME NEW i \in 1..Len(h), Back(i)
      PROVE  h[i].role = "assistant" /\ Fetched(Thought(h[i]), c, h[i]) /\ Prefixed(With(i), h[i], Thought(h[i]))
  <2>1. h[i] \in Msg(All)
      OBVIOUS
  <2>2. h[i].role = "assistant"
      BY <1>4 DEF Lacking, Calls
  <2> DEFINE m == h[i]
             F == Found(m)
             t == Thought(m)
  <2>3. F = {p \in PartsOf(m, "call") : m.parts[p].id # None /\ k[m.parts[p].id] # None}
        /\ t = (IF F # {} THEN k[m.parts[Min(F)].id] ELSE latest[c]) /\ t # None /\ m \in Msg(All)
      BY <1>4, <2>1
  <2>5. With(i) = [m EXCEPT !.parts = <<Reasoning(t)>> \o m.parts]
      BY Zenon
  <2> HIDE DEF F, t, m, Found, Thought, k, With
  <2>4. Fetched(t, c, m)
      BY Zenon, <1>3, <2>3, FetchedIs
  <2>6. t \in All
      BY <2>4 DEF Fetched, All
  <2>7. Prefixed([m EXCEPT !.parts = <<Reasoning(t)>> \o m.parts], m, t)
      BY Zenon, <2>3, <2>6, PrefixedIs
  <2>8. Prefixed(With(i), m, t)
      BY Zenon, <2>5, <2>7
  <2> QED
      BY Zenon, <2>2, <2>4, <2>8 DEF m, t
<1>5. R = [i \in 1..Len(h) |-> IF Back(i) THEN With(i) ELSE h[i]]
    BY Zenon, <1>1, <1>2
<1> HIDE DEF Back, With, R, Thought, Found, k
<1>6. ASSUME NEW i \in 1..Len(h) PROVE R[i] = IF Back(i) THEN With(i) ELSE h[i]
    BY Zenon, <1>5
<1>7. ASSUME NEW i \in 1..Len(h) PROVE R[i] \in Msg(All)
  <2>1. h[i] \in Msg(All)
      OBVIOUS
  <2>2. Back(i) => With(i) \in Msg(All)
      BY <1>4 DEF Prefixed
  <2> QED
      BY <1>6, <2>1, <2>2
<1>8. R \in Seq(Msg(All)) /\ Len(R) = Len(h)
  <2>1. DOMAIN R = 1..Len(h)
      BY Zenon, <1>5
  <2>2. R \in [1..Len(h) -> Msg(All)]
      BY <1>5, <1>6, <1>7
  <2> QED
      BY <1>1, <2>1, <2>2
<1>9. ASSUME NEW i \in 1..Len(h)
      PROVE  R[i] = h[i] \/ (h[i].role = "assistant" /\ \E t : Fetched(t, c, h[i]) /\ Prefixed(R[i], h[i], t))
    BY Zenon, <1>4, <1>6
<1> QED
    BY <1>8, <1>9 DEF Restoring, R
-----------------------------------------------------------------------------
(* prepare_request_policy: what is sent.                                     *)
LEMMA RestoringIsAlike ==
    ASSUME NEW c, NEW h \in Seq(Msg(All)), NEW R, Restoring(R, c, h), NEW i \in 1..Len(h)
    PROVE  Alike(R[i], h[i]) /\ R[i] \in Msg(All)
<1>1. R[i] = h[i] \/ \E t : Prefixed(R[i], h[i], t)
    BY DEF Restoring
<1>2. Prefixed(h[i], h[i], None)
  <2>1. h[i] \in Msg(All)
      OBVIOUS
  <2> QED
      BY Zenon, <2>1, AlikeSelf
<1>3. \E t : Prefixed(R[i], h[i], t)
    BY Zenon, <1>1, <1>2
<1> QED
    BY <1>3 DEF Prefixed

LEMMA RestoringKeeps ==
    ASSUME NEW c, NEW h \in Seq(Msg(All)), NEW R, Restoring(R, c, h)
    PROVE  (Proper(h) => Proper(R)) /\ Words(R) = Words(h) /\ R \in Seq(Msg(All))
<1>1. R \in Seq(Msg(All)) /\ Len(R) = Len(h)
    BY DEF Restoring
<1>2. ASSUME NEW i \in 1..Len(h) PROVE Alike(R[i], h[i]) /\ R[i] \in Msg(All) /\ h[i] \in Msg(All)
    BY Zenon, RestoringIsAlike, ElementHas
<1>3. Proper(h) => Proper(R)
  <2> SUFFICES ASSUME Proper(h), NEW i \in 1..Len(h), R[i].role = "assistant" PROVE ~Has(R[i], "result")
      BY <1>1 DEF Proper
  <2>1. h[i].role = "assistant"
      BY <1>2 DEF Alike
  <2>2. Has(R[i], "result") <=> Has(h[i], "result")
      BY <1>2, AlikeIs
  <2> QED
      BY <2>1, <2>2 DEF Proper
<1>4. ASSUME NEW i \in 1..Len(h) PROVE MessageWords[R[i]] = MessageWords[h[i]]
  <2>1. R[i].role = h[i].role /\ WordsIn(R[i].parts) = WordsIn(h[i].parts)
      BY <1>2 DEF Alike
  <2>2. /\ MessageWords[R[i]] = IF R[i].role = "system" THEN <<>> ELSE WordsIn(R[i].parts)
        /\ MessageWords[h[i]] = IF h[i].role = "system" THEN <<>> ELSE WordsIn(h[i].parts)
      BY <1>2, MessageWordsIs
  <2> QED
      BY <2>1, <2>2
<1>5. Weight(R, MessageWords) = Weight(h, MessageWords)
    BY <1>1, <1>4, MessageWordsIs, WeightSame
<1>6. Words(R) = Weight(R, MessageWords) /\ Words(h) = Weight(h, MessageWords)
    BY <1>1, WordsIs
<1> QED
    BY <1>1, <1>3, <1>5, <1>6

LEMMA RestoringFits ==
    ASSUME NEW c, NEW h \in Seq(Msg(All)), NEW R, Restoring(R, c, h), WellFormed(h), AllBelong(c, h),
           ~forgot => \A i \in 1..Len(h) : \A id \in IdsOf(h[i], "call") : byCall[c][id] # None
    PROVE  WellFormed(R) /\ AllFitting(c, R)
<1>1. R \in Seq(Msg(All)) /\ Len(R) = Len(h) /\ Len(h) \in Nat
    BY DEF Restoring
<1>2. ASSUME NEW i \in 1..Len(h)
      PROVE  /\ R[i].role = h[i].role /\ IdsOf(R[i], "call") = IdsOf(h[i], "call")
             /\ IdsOf(R[i], "result") = IdsOf(h[i], "result") /\ (Has(R[i], "call") <=> Has(h[i], "call"))
             /\ \A p \in PartsOf(R[i], "call") : \E q \in PartsOf(h[i], "call") : R[i].parts[p] = h[i].parts[q]
  <2>1. Alike(R[i], h[i])
      BY Zenon, RestoringIsAlike
  <2>2. "call" \in {"call", "result"} /\ "result" \in {"call", "result"}
      OBVIOUS
  <2>3. IdsOf(R[i], "call") = IdsOf(h[i], "call") /\ (Has(R[i], "call") <=> Has(h[i], "call"))
      BY Zenon, <2>1, <2>2, AlikeIs
  <2>4. IdsOf(R[i], "result") = IdsOf(h[i], "result")
      BY Zenon, <2>1, <2>2, AlikeIs
  <2> QED
      BY <2>1, <2>3, <2>4 DEF Alike
<1>3. ASSUME NEW i \in 1..Len(h), NEW p \in PartsOf(R[i], "reasoning")
      PROVE  R[i].role = "assistant" /\ Fitting(R[i].parts[p].by, c, R[i])
  <2> DEFINE by == R[i].parts[p].by
  <2>1. ASSUME NEW q \in PartsOf(h[i], "reasoning"), R[i].parts[p] = h[i].parts[q]
        PROVE  h[i].role = "assistant" /\ Belongs(by, c, h[i])
    <3>1. Has(h[i], "reasoning")
        BY DEF Has
    <3>2. Belongs(h[i].parts[q].by, c, h[i])
        BY DEF AllBelong
    <3> QED
        BY <2>1, <3>1, <3>2 DEF WellFormed
  <2>2. ASSUME NEW t, Fetched(t, c, h[i]), h[i].role = "assistant" PROVE Fitting(t, c, h[i])
    <3>1. Has(h[i], "call") /\ \A x \in PartsOf(h[i], "call") : h[i].parts[x].id \in IdsOf(h[i + 1], "result")
        BY <2>2 DEF WellFormed
    <3>2. PICK x \in PartsOf(h[i], "call") : h[i].parts[x].id # None
        BY <3>1 DEF Has, IdsOf
    <3>3. IdsOf(h[i], "call") # {}
        BY <3>2 DEF IdsOf
    <3>4. Belongs(t, c, h[i]) \/ (t = latest[c] /\ forgot)
        BY <2>2, <3>3 DEF Fetched
    <3> QED
        BY <2>2, <3>4 DEF Fitting, Fetched
  <2>3. h[i].role = "assistant" /\ Fitting(by, c, h[i])
    <3>1. CASE R[i] = h[i]
        BY <2>1, <3>1 DEF Fitting
    <3>2. CASE R[i] # h[i]
      <4>1. h[i].role = "assistant"
          BY <3>2 DEF Restoring
      <4>2. PICK t : Fetched(t, c, h[i]) /\ Prefixed(R[i], h[i], t)
          BY <3>2 DEF Restoring
      <4>3. by = t \/ \E q \in PartsOf(h[i], "reasoning") : R[i].parts[p] = h[i].parts[q]
          BY <4>2 DEF Prefixed
      <4> HIDE DEF by
      <4> QED
          BY <2>1, <2>2, <4>1, <4>2, <4>3 DEF Fitting
    <3> QED
        BY <3>1, <3>2
  <2> HIDE DEF by
  <2>4. R[i].role = h[i].role /\ IdsOf(R[i], "call") = IdsOf(h[i], "call")
      BY <1>2
  <2>5. R[i].role = "assistant" /\ Fitting(by, c, R[i])
      BY <2>3, <2>4 DEF Fitting, Belongs
  <2> QED
      BY <2>5 DEF by
<1>4. WellFormed(R)
  <2> SUFFICES ASSUME NEW i \in 1..Len(h)
               PROVE  /\ Has(R[i], "reasoning") => R[i].role = "assistant"
                      /\ R[i].role = "assistant" =>
                           /\ Has(R[i], "call") /\ i + 1 \in 1..Len(h)
                           /\ \A p \in PartsOf(R[i], "call") :
                                R[i].parts[p].named /\ R[i].parts[p].id \in IdsOf(R[i + 1], "result")
      BY <1>1 DEF WellFormed
  <2>1. Has(R[i], "reasoning") => R[i].role = "assistant"
      BY <1>3 DEF Has
  <2>2. ASSUME R[i].role = "assistant"
        PROVE  /\ Has(R[i], "call") /\ i + 1 \in 1..Len(h)
               /\ \A p \in PartsOf(R[i], "call") :
                    R[i].parts[p].named /\ R[i].parts[p].id \in IdsOf(R[i + 1], "result")
    <3>1. /\ Has(h[i], "call") /\ i + 1 \in 1..Len(h)
          /\ \A p \in PartsOf(h[i], "call") :
                h[i].parts[p].named /\ h[i].parts[p].id \in IdsOf(h[i + 1], "result")
        BY <1>2, <2>2 DEF WellFormed
    <3>2. IdsOf(R[i + 1], "result") = IdsOf(h[i + 1], "result")
        BY <1>2, <3>1
    <3>3. \A p \in PartsOf(R[i], "call") : \E q \in PartsOf(h[i], "call") : R[i].parts[p] = h[i].parts[q]
        BY <1>2
    <3>4. Has(R[i], "call")
        BY <1>2, <3>1
    <3> QED
        BY <3>1, <3>2, <3>3, <3>4
  <2> QED
      BY <2>1, <2>2
<1>5. AllFitting(c, R)
    BY <1>1, <1>3 DEF AllFitting
<1> QED
    BY <1>4, <1>5

LEMMA RestoringNothing ==
    ASSUME NEW c \in Conversation, CachesEmpty, None \notin Thoughts,
           NEW h \in Seq(Msg(All)), NEW R, Restoring(R, c, h)
    PROVE  R = h
<1>1. R \in Seq(Msg(All)) /\ Len(R) = Len(h)
    BY DEF Restoring
<1>2. \A id \in CallIds : <<Principal(c), id>> \in Principals \X CallIds
    BY DEF Conversation, Principal
<1>3. ASSUME NEW t, InCaches(t, c) PROVE t = None
  <2>1. /\ latest[c] = None /\ \A id \in CallIds : byCall[c][id] = None
        /\ \A x \in Principals \X CallIds : byCallOfKey[x] = None
      BY DEF CachesEmpty
  <2>2. \A id \in CallIds : byCallOfKey[<<Principal(c), id>>] = None
      BY Zenon, <1>2, <2>1
  <2> QED
      BY Zenon, <1>3, <2>1, <2>2 DEF InCaches
<1>4. ASSUME NEW i \in 1..Len(h) PROVE R[i] = h[i]
    BY <1>3 DEF Restoring, Fetched
<1> QED
    BY <1>1, <1>4

Sound(s, c) ==
    /\ s \in Seq(Msg(All)) /\ Words(s) = Words(history[c]) /\ AllFitting(c, s)
    /\ Proper(history[c]) => Paired(s)

LEMMA PolicySends ==
    ASSUME ChatsOK, NEW c \in Conversation, NEW normalize \in BOOLEAN, focus = "reasoning" => ~normalize,
           NEW h, h = IF normalize THEN Normalized(history[c]) ELSE history[c]
    PROVE  Sound(Sanitized(Restored(c, h)), c)
<1>1. ChatsTyped /\ CachesOwn /\ HistoryOK(c) /\ None \notin Thoughts /\ (focus # "reasoning" => CachesEmpty)
    BY ConversationsAssumption DEF ChatsOK
<1>2. history[c] \in Seq(Msg(All))
    BY <1>1 DEF ChatsTyped
<1> DEFINE R == Restored(c, h)
           s == Sanitized(R)
<1>3. CASE focus = "reasoning"
  <2>1. h = history[c]
      BY <1>3
  <2>2. Proper(h) /\ WellFormed(h) /\ AllBelong(c, h) /\ (~forgot => AllRemembered(c))
      BY <1>1, <1>3, <2>1 DEF HistoryOK
  <2>3. h \in Seq(Msg(All))
      BY <1>2, <2>1
  <2>4. Restoring(R, c, h)
      BY Zenon, <1>1, <2>3, RestoredIs
  <2> HIDE DEF R
  <2>5. Proper(R) /\ Words(R) = Words(h) /\ R \in Seq(Msg(All))
      BY <2>2, <2>3, <2>4, RestoringKeeps
  <2>6. ~forgot => \A i \in 1..Len(h) : \A id \in IdsOf(h[i], "call") : byCall[c][id] # None
      BY <2>1, <2>2 DEF AllRemembered
  <2>7. WellFormed(R) /\ AllFitting(c, R)
      BY <2>2, <2>3, <2>4, <2>6, RestoringFits
  <2>8. AllFitting(c, s)
      BY <2>5, <2>7, SanitizedFits
  <2>9. Paired(s) /\ s \in Seq(Msg(All))
      BY <2>5, PairedIs, SanitizedIs
  <2>10. Words(s) = Words(history[c])
      BY <2>1, <2>5, SanitizedKeepsWords
  <2>11. Sound(s, c)
      BY <2>8, <2>9, <2>10 DEF Sound
  <2> QED
      BY <2>11 DEF R
<1>4. CASE focus # "reasoning"
  <2>1. history[c] \in Seq(Msg({None}))
      BY <1>1, <1>4 DEF HistoryOK
  <2>2. {None} \in SUBSET All /\ {None} \subseteq All
      BY DEF All
  <2>3. Normalized(history[c]) \in Seq(Msg({None})) /\ Words(Normalized(history[c])) = Words(history[c])
        /\ (Proper(history[c]) => Proper(Normalized(history[c])))
    <3> DEFINE bys == {None}
    <3>1. bys \in SUBSET All /\ history[c] \in Seq(Msg(bys))
        BY <2>1, <2>2
    <3> HIDE DEF bys
    <3>2. Normalized(history[c]) \in Seq(Msg(bys)) /\ Words(Normalized(history[c])) = Words(history[c])
          /\ (Proper(history[c]) => Proper(Normalized(history[c])))
        BY <3>1, NormalizedIs
    <3> QED
        BY <3>2 DEF bys
  <2>4. h \in Seq(Msg({None})) /\ Words(h) = Words(history[c]) /\ (Proper(history[c]) => Proper(h))
      BY <2>1, <2>3
  <2>5. h \in Seq(Msg(All))
      BY <2>2, <2>4, PartsGrow
  <2>6. Restoring(R, c, h)
      BY Zenon, <1>1, <2>5, RestoredIs
  <2> HIDE DEF R
  <2>7. R = h
      BY <1>1, <1>4, <2>5, <2>6, RestoringNothing
  <2>8. (Proper(h) => Paired(s)) /\ s \in Seq(Msg({None})) /\ Words(s) = Words(h)
    <3>1. (Proper(h) => Paired(Sanitized(h))) /\ Sanitized(h) \in Seq(Msg({None}))
        BY <2>4, PairedIs, SanitizedIs
    <3>2. Words(Sanitized(h)) = Words(h)
        BY <2>5, SanitizedKeepsWords
    <3> QED
        BY <2>7, <3>1, <3>2
  <2> HIDE DEF s
  <2>9. s \in Seq(Msg(All))
      BY <2>2, <2>8, PartsGrow
  <2>10. AllFitting(c, s)
    <3> SUFFICES ASSUME NEW i \in 1..Len(s), NEW p \in PartsOf(s[i], "reasoning")
                 PROVE  s[i].parts[p].by = None
        BY DEF AllFitting, Fitting, Belongs
    <3>1. s[i] \in Msg({None})
        BY <2>8
    <3>2. s[i].parts \in Seq(Part({None}))
        BY <3>1 DEF Msg
    <3>3. p \in DOMAIN s[i].parts /\ s[i].parts[p].kind = "reasoning"
        BY DEF PartsOf
    <3>4. s[i].parts[p] \in Part({None})
        BY Zenon, <3>2, <3>3, ElementIs
    <3>5. s[i].parts[p].by \in {None}
        BY <3>3, <3>4, PartIs
    <3> QED
        BY <3>5
  <2>11. Sound(s, c)
      BY <2>4, <2>8, <2>9, <2>10 DEF Sound
  <2> QED
      BY <2>11 DEF s, R
<1> QED
    BY <1>3, <1>4
-----------------------------------------------------------------------------
(* What the steps of clients, upstreams and caches leave as it was.          *)
LEMMA SentStays ==
    ASSUME NEW c, SentOK(c), sent'[c] = sent[c], history'[c] = history[c],
           (latest'[c] = latest[c] /\ forgot' = forgot) \/ ~forgot
    PROVE  SentOK(c)'
<1> SUFFICES ASSUME sent[c] # Unsent PROVE AllFitting(c, sent[c])'
    BY DEF SentOK
<1>1. AllFitting(c, sent[c])
    BY DEF SentOK
<1>2. CASE latest'[c] = latest[c] /\ forgot' = forgot
    BY <1>1, <1>2 DEF AllFitting, Fitting, Belongs
<1>3. CASE ~forgot
    BY <1>1, <1>3 DEF AllFitting, Fitting, Belongs
<1> QED
    BY <1>2, <1>3

LEMMA HistoryStays ==
    ASSUME NEW c, HistoryOK(c), history'[c] = history[c], focus' = focus,
           (byCall'[c] = byCall[c] /\ forgot' = forgot) \/ forgot'
    PROVE  HistoryOK(c)'
<1>2. focus' = "reasoning" => Proper(history[c])' /\ WellFormed(history[c])' /\ AllBelong(c, history[c])'
    BY DEF HistoryOK
<1>3. focus' = "reasoning" /\ ~forgot' => AllRemembered(c)'
    BY DEF HistoryOK, AllRemembered
<1>4. focus' # "reasoning" => history'[c] \in Seq(Msg({None}))
    BY DEF HistoryOK
<1> QED
    BY <1>2, <1>3, <1>4 DEF HistoryOK

LEMMA AskIs == /\ Ask \in Msg({None}) /\ Ask.role = "user"
               /\ \A kind \in {"reasoning", "call"} : ~Has(Ask, kind)
<1>1. Ask \in Messages /\ Ask.role = "user" /\ TextOnly(Ask)
    BY PolicyAssumption
<1>2. Ask \in Msg({None})
    BY <1>1, ConversationsAssumption DEF Msg
<1>3. \A kind \in {"reasoning", "call"} : PartsOf(Ask, kind) = {}
    BY <1>1 DEF TextOnly, PartsOf
<1> QED
    BY <1>1, <1>2, <1>3 DEF Has

LEMMA WriteKeeps ==
    ASSUME ChatsOK, NEW c, NEW m \in Msg({None}),
           Write(c, m), focus' = focus, focus = "reasoning" => history[c] = <<>> /\ m = Ask
    PROVE  ChatsOK'
<1>1. /\ sent[c] = Unsent /\ history' = [history EXCEPT ![c] = Append(history[c], m)]
      /\ sent' = sent /\ turns' = turns /\ latest' = latest /\ byCall' = byCall /\ byCallOfKey' = byCallOfKey
      /\ forgot' = forgot
    BY DEF Write
<1>2. ChatsTyped /\ CachesOwn /\ (focus # "reasoning" => CachesEmpty)
      /\ \A d \in Conversation : HistoryOK(d) /\ SentOK(d)
    BY DEF ChatsOK
<1>3. /\ DOMAIN history' = Conversation /\ history' = [d \in Conversation |-> history'[d]]
      /\ \A d \in Conversation : history'[d] = IF d = c THEN Append(history[c], m) ELSE history[d]
    BY <1>1, <1>2 DEF ChatsTyped
<1>4. {None} \subseteq All
    BY DEF All
<1>5. m \in Msg(All)
    BY <1>4, PartsGrow
<1>6. \A d \in Conversation : history[d] \in Seq(Msg(All))
    BY <1>2 DEF ChatsTyped
<1>7. history' \in [Conversation -> Seq(Msg(All))]
  <2>1. \A d \in Conversation : history'[d] \in Seq(Msg(All))
      BY <1>3, <1>5, <1>6
  <2> QED
      BY <1>3, <2>1
<1>8. ChatsTyped'
    BY <1>1, <1>2, <1>7 DEF ChatsTyped
<1>9. CachesOwn' /\ (focus' # "reasoning" => CachesEmpty')
    BY <1>1, <1>2 DEF CachesOwn, MadeFor, CachesEmpty
<1>10. ASSUME NEW d \in Conversation PROVE HistoryOK(d)' /\ SentOK(d)'
  <2>1. CASE d # c
    <3>1. history'[d] = history[d]
        BY <1>3, <2>1
    <3>2. SentOK(d)'
        BY <1>1, <1>2, <3>1, SentStays
    <3>3. HistoryOK(d)'
        BY <1>1, <1>2, <3>1, HistoryStays
    <3> QED
        BY <3>2, <3>3
  <2>2. CASE d = c
    <3> DEFINE h == history[d]
               k == history'[d]
    <3>1. sent'[d] = Unsent
        BY <1>1, <2>2
    <3>2. SentOK(d)'
        BY <3>1 DEF SentOK
    <3>3. k = Append(h, m) /\ h \in Seq(Msg(All)) /\ HistoryOK(d)
        BY <1>2, <1>3, <1>6, <2>2
    <3>4. (focus # "reasoning" => h \in Seq(Msg({None}))) /\ (focus = "reasoning" => h = <<>> /\ m = Ask)
        BY <2>2, <3>3 DEF HistoryOK
    <3>k. k = history'[d]
        OBVIOUS
    <3> HIDE DEF h, k
    <3>5. Len(k) = Len(h) + 1 /\ Len(h) \in Nat /\ (\A i \in 1..Len(h) : k[i] = h[i]) /\ k[Len(h) + 1] = m
        BY <1>5, <3>3
    <3>7. focus # "reasoning" => k \in Seq(Msg({None}))
      <4> HIDE DEF Msg
      <4> QED
          BY <3>3, <3>4
    <3>8. ASSUME focus = "reasoning"
          PROVE  /\ Proper(k) /\ WellFormed(k) /\ AllBelong(d, k)
                 /\ \A i \in 1..Len(k) : IdsOf(k[i], "call") = {}
      <4>1. \A i \in 1..Len(k) : k[i] = Ask
          BY <3>4, <3>5, <3>8
      <4>2. Ask.role # "assistant" /\ ~Has(Ask, "reasoning") /\ ~Has(Ask, "call")
          BY AskIs
      <4>3. PartsOf(Ask, "reasoning") = {} /\ IdsOf(Ask, "call") = {}
          BY <4>2 DEF Has, IdsOf
      <4>4. Proper(k) /\ WellFormed(k)
          BY <4>1, <4>2 DEF Proper, WellFormed
      <4> QED
          BY <4>1, <4>3, <4>4 DEF AllBelong
    <3>9. HistoryOK(d)'
      <4>1. focus' # "reasoning" => history'[d] \in Seq(Msg({None}))
          BY <3>7, <3>k
      <4>2. focus' = "reasoning" => /\ Proper(history[d])' /\ WellFormed(history[d])'
                                    /\ AllBelong(d, history[d])' /\ AllRemembered(d)'
        <5> SUFFICES ASSUME focus = "reasoning"
                     PROVE  /\ Proper(history[d])' /\ WellFormed(history[d])'
                            /\ AllBelong(d, history[d])' /\ AllRemembered(d)'
            OBVIOUS
        <5>1. Proper(history[d])' /\ WellFormed(history[d])' /\ AllBelong(d, history[d])'
            BY <3>8, <3>k
        <5>2. AllRemembered(d)'
            BY <3>8, <3>k DEF AllRemembered
        <5> QED
            BY <5>1, <5>2
      <4> QED
          BY <4>1, <4>2 DEF HistoryOK
    <3> QED
        BY <3>2, <3>9
  <2> QED
      BY <2>1, <2>2
<1> QED
    BY <1>8, <1>9, <1>10 DEF ChatsOK

LEMMA SendingKeeps ==
    ASSUME ChatsOK, NEW c, NEW normalize \in BOOLEAN, Policy(c, normalize), focus' = focus,
           focus = "reasoning" => ~normalize
    PROVE  ChatsOK'
<1> DEFINE k == IF normalize THEN Normalized(history[c]) ELSE history[c]
           s == Sanitized(Restored(c, k))
<1>1. /\ sent' = [sent EXCEPT ![c] = s] /\ history' = history
      /\ turns' = turns /\ latest' = latest /\ byCall' = byCall /\ byCallOfKey' = byCallOfKey
      /\ forgot' = forgot
    BY DEF Policy
<1>2. ChatsTyped /\ CachesOwn /\ (focus # "reasoning" => CachesEmpty)
      /\ \A d \in Conversation : HistoryOK(d) /\ SentOK(d)
    BY DEF ChatsOK
<1>3. c \in Conversation => Sound(s, c)
  <2>1. k = IF normalize THEN Normalized(history[c]) ELSE history[c]
      OBVIOUS
  <2> HIDE DEF k
  <2> QED
      BY Zenon, <2>1, PolicySends
<1> HIDE DEF s
<1>4. /\ sent' = [d \in Conversation |-> sent'[d]]
      /\ \A d \in Conversation : sent'[d] = IF d = c THEN s ELSE sent[d]
    BY <1>1, <1>2 DEF ChatsTyped
<1>5. sent' \in [Conversation -> {Unsent} \cup Seq(Msg(All))]
  <2>1. \A d \in Conversation : sent'[d] \in {Unsent} \cup Seq(Msg(All))
      BY <1>2, <1>3, <1>4 DEF ChatsTyped, Sound
  <2> QED
      BY <1>4, <2>1
<1>6. ChatsTyped'
    BY <1>1, <1>2, <1>5 DEF ChatsTyped
<1>7. CachesOwn' /\ (focus' # "reasoning" => CachesEmpty')
    BY <1>1, <1>2 DEF CachesOwn, MadeFor, CachesEmpty
<1>8. ASSUME NEW d \in Conversation PROVE HistoryOK(d)' /\ SentOK(d)'
  <2>1. HistoryOK(d)'
    <3>1. history'[d] = history[d] /\ byCall'[d] = byCall[d]
        BY <1>1
    <3> QED
        BY <1>1, <1>2, <3>1, HistoryStays
  <2>2. CASE d # c
    <3>1. sent'[d] = sent[d] /\ history'[d] = history[d] /\ latest'[d] = latest[d]
        BY <1>1, <1>4, <2>2
    <3>2. SentOK(d)'
        BY <1>1, <1>2, <3>1, SentStays
    <3> QED
        BY <2>1, <3>2
  <2>3. CASE d = c
    <3>1. sent'[d] = s /\ Sound(s, d)
        BY <1>3, <1>4, <2>3
    <3>2. (Proper(history'[d]) => Paired(s)) /\ Words(s) = Words(history'[d]) /\ AllFitting(d, s)
        BY <1>1, <3>1 DEF Sound
    <3>3. AllFitting(d, sent[d])'
        BY <1>1, <3>1, <3>2 DEF AllFitting, Fitting, Belongs
    <3>4. SentOK(d)'
        BY <3>1, <3>2, <3>3 DEF SentOK
    <3> QED
        BY <2>1, <3>4
  <2> QED
      BY <2>2, <2>3
<1> QED
    BY <1>6, <1>7, <1>8 DEF ChatsOK
-----------------------------------------------------------------------------
(* An upstream's answer, as the client gives it back: calls and, maybe,      *)
(* their reasoning, then their results.                                      *)
Uttered(drops, t, calls) == Message("assistant", (IF drops THEN <<>> ELSE <<Reasoning(t)>>) \o calls)
CallsOf(ids) == [i \in DOMAIN ids |-> Call(ids[i], TRUE)]
ResultsOf(ids) == Message("tool", [i \in DOMAIN ids |-> Result(ids[i])])

Reply(a, r, t, ids) ==
    /\ a \in Msg(All) /\ r \in Msg(All) /\ a.role = "assistant" /\ r.role = "tool"
    /\ ~Has(a, "result") /\ ~Has(r, "reasoning") /\ ~Has(r, "call")
    /\ Has(a, "call") /\ ToSet(ids) \subseteq IdsOf(r, "result")
    /\ \A p \in PartsOf(a, "call") : a.parts[p].named /\ a.parts[p].id \in ToSet(ids)
    /\ \A p \in PartsOf(a, "reasoning") : a.parts[p].by = t
    /\ t[3] \cap IdsOf(a, "call") # {}

LEMMA CallsOfIs ==
    ASSUME NEW ids \in Seq(CallIds), ids # <<>>
    PROVE  /\ CallsOf(ids) \in Seq(Part(All)) /\ Len(CallsOf(ids)) = Len(ids) /\ Len(ids) \in Nat \ {0}
           /\ \A i \in 1..Len(ids) : /\ CallsOf(ids)[i].kind = "call" /\ CallsOf(ids)[i].id = ids[i]
                                     /\ CallsOf(ids)[i].named = TRUE
                                     /\ ids[i] \in ToSet(ids) /\ ids[i] \in CallIds
<1>1. DOMAIN ids = 1..Len(ids) /\ Len(ids) \in Nat /\ Len(ids) # 0
    OBVIOUS
<1>2. ASSUME NEW i \in 1..Len(ids)
      PROVE  /\ Call(ids[i], TRUE) \in Part(All) /\ Call(ids[i], TRUE).kind = "call"
             /\ Call(ids[i], TRUE).id = ids[i] /\ Call(ids[i], TRUE).named = TRUE
             /\ ids[i] \in ToSet(ids) /\ ids[i] \in CallIds
  <2>1. ids[i] \in CallIds
      OBVIOUS
  <2>2. ids[i] \in Id /\ TRUE \in BOOLEAN
      BY <2>1 DEF Id
  <2>3. ids[i] \in ToSet(ids)
      BY <1>1 DEF ToSet
  <2>4. /\ Call(ids[i], TRUE) \in Part(All) /\ Call(ids[i], TRUE).kind = "call"
        /\ Call(ids[i], TRUE).id = ids[i] /\ Call(ids[i], TRUE).named = TRUE
      BY Zenon, <2>2, PartsAre
  <2> QED
      BY <2>1, <2>3, <2>4
<1>3. CallsOf(ids) = [i \in 1..Len(ids) |-> Call(ids[i], TRUE)]
    BY Zenon, <1>1 DEF CallsOf
<1>4. \A i \in 1..Len(ids) : CallsOf(ids)[i] = Call(ids[i], TRUE)
    BY Zenon, <1>3
<1>5. CallsOf(ids) \in Seq(Part(All)) /\ Len(CallsOf(ids)) = Len(ids)
  <2> DEFINE f == [i \in 1..Len(ids) |-> Call(ids[i], TRUE)]
  <2>1. f \in [1..Len(ids) -> Part(All)]
      BY <1>2
  <2> HIDE DEF f
  <2>2. f \in Seq(Part(All)) /\ Len(f) = Len(ids)
      BY <1>1, <2>1
  <2> QED
      BY Zenon, <1>3, <2>2 DEF f
<1> QED
    BY <1>1, <1>2, <1>4, <1>5

LEMMA ResultsOfIs ==
    ASSUME NEW ids \in Seq(CallIds)
    PROVE  /\ ResultsOf(ids) \in Msg(All) /\ ResultsOf(ids).role = "tool"
           /\ \A kind \in {"reasoning", "call"} : ~Has(ResultsOf(ids), kind)
           /\ ToSet(ids) \subseteq IdsOf(ResultsOf(ids), "result")
<1>1. DOMAIN ids = 1..Len(ids) /\ Len(ids) \in Nat
    OBVIOUS
<1>2. ASSUME NEW i \in 1..Len(ids)
      PROVE  /\ Result(ids[i]) \in Part(All) /\ Result(ids[i]).kind = "result" /\ Result(ids[i]).id = ids[i]
             /\ ids[i] # None
  <2>1. ids[i] \in CallIds
      OBVIOUS
  <2>2. ids[i] \in Id /\ ids[i] # None
      BY <2>1, ConversationsAssumption DEF Id
  <2> QED
      BY Zenon, <2>2, PartsAre
<1> DEFINE ps == [i \in DOMAIN ids |-> Result(ids[i])]
           r == ResultsOf(ids)
<1>3. r = [role |-> "tool", parts |-> ps]
    BY Zenon DEF ResultsOf, Message
<1>4. ps = [i \in 1..Len(ids) |-> Result(ids[i])]
    BY Zenon, <1>1
<1> HIDE DEF ps, r
<1>5. \A i \in 1..Len(ids) : ps[i] = Result(ids[i])
    BY Zenon, <1>4
<1>6. ps \in Seq(Part(All)) /\ DOMAIN ps = 1..Len(ids)
    BY <1>1, <1>2, <1>4
<1>7. r \in Msg(All) /\ r.role = "tool" /\ r.parts = ps
  <2>1. "tool" \in Role
      BY DEF Role
  <2> QED
      BY <1>3, <1>6, <2>1 DEF Msg
<1>8. \A kind \in {"reasoning", "call"} : ~Has(r, kind)
    BY <1>2, <1>5, <1>6, <1>7 DEF Has, PartsOf
<1>9. ASSUME NEW id \in ToSet(ids) PROVE id \in IdsOf(r, "result")
  <2>1. PICK i \in 1..Len(ids) : ids[i] = id
      BY <1>1 DEF ToSet
  <2>2. i \in PartsOf(r, "result") /\ r.parts[i].id = id /\ id # None
      BY <1>2, <1>5, <1>6, <1>7, <2>1 DEF PartsOf
  <2> QED
      BY <2>2 DEF IdsOf
<1> QED
    BY <1>7, <1>8, <1>9 DEF r

LEMMA UtteredIs ==
    ASSUME NEW ids \in Seq(CallIds), ids # <<>>, NEW drops \in BOOLEAN, NEW t \in Thoughts, t[3] = ToSet(ids)
    PROVE  Reply(Uttered(drops, t, CallsOf(ids)), ResultsOf(ids), t, ids)
<1> DEFINE cs == CallsOf(ids)
           front == IF drops THEN <<>> ELSE <<Reasoning(t)>>
           ps == front \o cs
           a == Uttered(drops, t, CallsOf(ids))
           F == Len(front)
<1>1. /\ cs \in Seq(Part(All)) /\ Len(cs) = Len(ids) /\ Len(ids) \in Nat \ {0}
      /\ \A i \in 1..Len(ids) : /\ cs[i].kind = "call" /\ cs[i].id = ids[i]
                                /\ cs[i].named = TRUE
                                /\ ids[i] \in ToSet(ids) /\ ids[i] \in CallIds
    BY CallsOfIs
<1>2. a = [role |-> "assistant", parts |-> ps]
    BY Zenon DEF Uttered, Message
<1> HIDE DEF cs, a
<1>3. front \in Seq(Part(All)) /\ \A p \in 1..Len(front) : front[p].kind = "reasoning" /\ front[p].by = t
  <2> DEFINE x == Reasoning(t)
  <2>1. t \in All
      BY DEF All
  <2>2. x \in Part(All) /\ x.kind = "reasoning" /\ x.by = t
      BY Zenon, <2>1, PartsAre
  <2> HIDE DEF x
  <2>3. <<x>> \in Seq(Part(All)) /\ \A p \in 1..Len(<<x>>) : <<x>>[p].kind = "reasoning" /\ <<x>>[p].by = t
      BY <2>2
  <2>4. <<>> \in Seq(Part(All)) /\ \A p \in 1..Len(<<>>) : <<>>[p].kind = "reasoning" /\ <<>>[p].by = t
      OBVIOUS
  <2>5. front = IF drops THEN <<>> ELSE <<x>>
      BY Zenon DEF x
  <2> HIDE DEF front
  <2>6. CASE drops
      BY Zenon, <2>4, <2>5, <2>6
  <2>7. CASE ~drops
      BY Zenon, <2>3, <2>5, <2>7
  <2> QED
      BY <2>6, <2>7
<1> HIDE DEF front
<1>4. /\ ps \in Seq(Part(All)) /\ Len(ps) = F + Len(ids) /\ F \in Nat
      /\ \A p \in 1..F : ps[p] = front[p]
      /\ \A i \in 1..Len(ids) : ps[F + i] = cs[i]
  <2>1. cs \in Seq(Part(All)) /\ front \in Seq(Part(All)) /\ Len(cs) = Len(ids)
      BY <1>1, <1>3
  <2>2. /\ front \o cs \in Seq(Part(All)) /\ Len(front \o cs) = Len(front) + Len(cs) /\ Len(front) \in Nat
        /\ \A p \in 1..Len(front) : (front \o cs)[p] = front[p]
        /\ \A i \in 1..Len(cs) : (front \o cs)[Len(front) + i] = cs[i]
    <3>1. \A s, u \in Seq(Part(All)) :
            /\ s \o u \in Seq(Part(All)) /\ Len(s \o u) = Len(s) + Len(u) /\ Len(s) \in Nat
            /\ \A p \in 1..Len(s) : (s \o u)[p] = s[p]
            /\ \A i \in 1..Len(u) : (s \o u)[Len(s) + i] = u[i]
        OBVIOUS
    <3> QED
        BY Zenon, <2>1, <3>1
  <2> QED
      BY Zenon, <2>1, <2>2
<1> HIDE DEF ps, F
<1>5. a \in Msg(All) /\ a.role = "assistant" /\ a.parts = ps /\ DOMAIN ps = 1..(F + Len(ids))
  <2>1. "assistant" \in Role
      BY DEF Role
  <2>2. DOMAIN ps = 1..(F + Len(ids))
      BY <1>4
  <2> QED
      BY <1>2, <1>4, <2>1, <2>2 DEF Msg
<1>6. ASSUME NEW p \in DOMAIN ps
      PROVE  \/ ps[p].kind = "reasoning" /\ ps[p].by = t
             \/ ps[p].kind = "call" /\ ps[p].named /\ ps[p].id \in ToSet(ids)
  <2>1. CASE p \in 1..F
      BY <1>3, <1>4, <2>1 DEF F
  <2>2. CASE p \notin 1..F
    <3>1. p - F \in 1..Len(ids) /\ F + (p - F) = p
        BY <1>1, <1>4, <1>5, <2>2
    <3>2. ps[p] = cs[p - F]
        BY <1>4, <3>1
    <3> QED
        BY <1>1, <3>1, <3>2
  <2> QED
      BY <2>1, <2>2
<1>7. /\ \A p \in PartsOf(a, "call") : a.parts[p].named /\ a.parts[p].id \in ToSet(ids)
      /\ \A p \in PartsOf(a, "reasoning") : a.parts[p].by = t
      /\ ~Has(a, "result")
    BY <1>5, <1>6 DEF PartsOf, Has
<1>8. F + 1 \in PartsOf(a, "call") /\ a.parts[F + 1].id \in t[3] /\ a.parts[F + 1].id # None
  <2>1. 1 \in 1..Len(ids) /\ F + 1 \in DOMAIN ps
      BY <1>1, <1>4, <1>5
  <2>2. ps[F + 1] = cs[1]
      BY <1>4, <2>1
  <2>3. cs[1].kind = "call" /\ cs[1].id \in ToSet(ids) /\ cs[1].id \in CallIds
      BY <1>1, <2>1
  <2> QED
      BY <1>5, <2>1, <2>2, <2>3, ConversationsAssumption DEF PartsOf
<1>9. Has(a, "call") /\ t[3] \cap IdsOf(a, "call") # {}
    BY <1>8 DEF Has, IdsOf
<1>10. /\ ResultsOf(ids) \in Msg(All) /\ ResultsOf(ids).role = "tool"
       /\ ~Has(ResultsOf(ids), "reasoning") /\ ~Has(ResultsOf(ids), "call")
       /\ ToSet(ids) \subseteq IdsOf(ResultsOf(ids), "result")
    BY ResultsOfIs
<1> QED
    BY <1>5, <1>7, <1>9, <1>10 DEF Reply, a

(* A well-formed history stays one with an answer and its results.           *)
LEMMA AnsweredWell ==
    ASSUME NEW c, NEW h \in Seq(Msg(All)), Proper(h), WellFormed(h), AllBelong(c, h),
           NEW a, NEW r, NEW t, NEW ids, Reply(a, r, t, ids), Principal(t[1]) = Principal(c),
           None \notin ToSet(ids)
    PROVE  /\ h \o <<a, r>> \in Seq(Msg(All)) /\ Proper(h \o <<a, r>>)
           /\ WellFormed(h \o <<a, r>>) /\ AllBelong(c, h \o <<a, r>>)
           /\ \A i \in 1..Len(h \o <<a, r>>) : \A id \in IdsOf((h \o <<a, r>>)[i], "call") :
                id \in ToSet(ids) \/ (i \in 1..Len(h) /\ id \in IdsOf(h[i], "call"))
<1> DEFINE k == h \o <<a, r>>
           n == Len(h)
<1>1. a \in Msg(All) /\ r \in Msg(All)
    BY DEF Reply
<1>2. /\ k \in Seq(Msg(All)) /\ Len(k) = n + 2 /\ n \in Nat
      /\ (\A i \in 1..n : k[i] = h[i]) /\ k[n + 1] = a /\ k[n + 2] = r
    BY <1>1
<1>k. k = h \o <<a, r>>
    OBVIOUS
<1>n. n = Len(h)
    OBVIOUS
<1> HIDE DEF k, n
<1>3. \A i \in 1..Len(k) : i \in 1..n \/ i = n + 1 \/ i = n + 2
    BY <1>2
<1>4. /\ a.role = "assistant" /\ r.role = "tool" /\ ~Has(a, "result") /\ ~Has(r, "reasoning")
      /\ Has(a, "call") /\ ToSet(ids) \subseteq IdsOf(r, "result") /\ ~Has(r, "call")
      /\ \A p \in PartsOf(a, "call") : a.parts[p].named /\ a.parts[p].id \in ToSet(ids)
      /\ \A p \in PartsOf(a, "reasoning") : a.parts[p].by = t
      /\ t[3] \cap IdsOf(a, "call") # {}
    BY DEF Reply
<1>5. Proper(k)
    BY <1>2, <1>3, <1>4, <1>n DEF Proper
<1>6. WellFormed(k)
  <2> SUFFICES ASSUME NEW i \in 1..Len(k)
               PROVE  /\ Has(k[i], "reasoning") => k[i].role = "assistant"
                      /\ k[i].role = "assistant" =>
                           /\ Has(k[i], "call") /\ i + 1 \in 1..Len(k)
                           /\ \A p \in PartsOf(k[i], "call") :
                                k[i].parts[p].named /\ k[i].parts[p].id \in IdsOf(k[i + 1], "result")
      BY DEF WellFormed
  <2>1. CASE i \in 1..n
    <3>1. k[i] = h[i] /\ (i + 1 \in 1..n => k[i + 1] = h[i + 1] /\ i + 1 \in 1..Len(k))
        BY <1>2, <2>1
    <3>2. /\ Has(h[i], "reasoning") => h[i].role = "assistant"
          /\ h[i].role = "assistant" =>
               /\ Has(h[i], "call") /\ i + 1 \in 1..n
               /\ \A p \in PartsOf(h[i], "call") :
                    h[i].parts[p].named /\ h[i].parts[p].id \in IdsOf(h[i + 1], "result")
        BY <1>n, <2>1 DEF WellFormed
    <3>3. CASE h[i].role = "assistant"
      <4>1. i + 1 \in 1..n
          BY <3>2, <3>3
      <4>2. k[i + 1] = h[i + 1] /\ i + 1 \in 1..Len(k)
          BY <3>1, <4>1
      <4> QED
          BY <3>1, <3>2, <3>3, <4>2
    <3>4. CASE h[i].role # "assistant"
        BY <3>1, <3>2, <3>4
    <3> QED
        BY <3>3, <3>4
  <2>2. CASE i = n + 1
    <3>1. k[i] = a /\ i + 1 \in 1..Len(k) /\ k[i + 1] = r
      <4>1. i + 1 = n + 2 /\ n + 2 \in 1..Len(k)
          BY <1>2, <2>2
      <4> QED
          BY <1>2, <2>2, <4>1
    <3> QED
        BY <1>4, <3>1
  <2>3. CASE i = n + 2
    <3>1. k[i] = r
        BY <1>2, <2>3
    <3> QED
        BY <1>4, <3>1
  <2> QED
      BY <1>3, <2>1, <2>2, <2>3
<1>7. AllBelong(c, k)
  <2> SUFFICES ASSUME NEW i \in 1..Len(k), NEW p \in PartsOf(k[i], "reasoning")
               PROVE  Belongs(k[i].parts[p].by, c, k[i])
      BY DEF AllBelong
  <2>1. CASE i \in 1..n
      BY <1>2, <1>n, <2>1 DEF AllBelong
  <2>2. CASE i = n + 1
    <3>1. k[i] = a
        BY <1>2, <2>2
    <3> QED
        BY <1>4, <3>1 DEF Belongs
  <2>3. CASE i = n + 2
    <3>1. k[i] = r
        BY <1>2, <2>3
    <3> QED
        BY <1>4, <3>1 DEF Has
  <2> QED
      BY <1>3, <2>1, <2>2, <2>3
<1>8. ASSUME NEW i \in 1..Len(k), NEW id \in IdsOf(k[i], "call")
      PROVE  id \in ToSet(ids) \/ (i \in 1..n /\ id \in IdsOf(h[i], "call"))
  <2>1. CASE i \in 1..n
      BY <1>2, <1>8, <2>1
  <2>2. CASE i = n + 1
    <3>1. k[i] = a
        BY <1>2, <2>2
    <3> QED
        BY <1>4, <1>8, <3>1 DEF IdsOf
  <2>3. CASE i = n + 2
    <3>1. k[i] = r
        BY <1>2, <2>3
    <3> QED
        BY <1>4, <1>8, <3>1 DEF IdsOf, Has
  <2> QED
      BY <1>3, <2>1, <2>2, <2>3
<1> QED
    BY <1>2, <1>5, <1>6, <1>7, <1>8 DEF k, n
-----------------------------------------------------------------------------
LEMMA AnswerIs ==
    ASSUME NEW c, NEW ids, NEW drops, Answer(c, ids, drops), NEW t, t = <<c, turns[c] + 1, ToSet(ids)>>
    PROVE  /\ latest' = [latest EXCEPT ![c] = t]
           /\ byCall' = [byCall EXCEPT ![c] = [id \in CallIds |-> IF id \in ToSet(ids) THEN t ELSE byCall[c][id]]]
           /\ byCallOfKey' = [x \in DOMAIN byCallOfKey |->
                                IF x[1] = Principal(c) /\ x[2] \in ToSet(ids) THEN t ELSE byCallOfKey[x]]
           /\ history' = [history EXCEPT ![c] =
                            history[c] \o <<Uttered(drops, t, CallsOf(ids)), ResultsOf(ids)>>]
           /\ turns' = [turns EXCEPT ![c] = turns[c] + 1]
           /\ sent' = [sent EXCEPT ![c] = Unsent]
           /\ forgot' = forgot
BY Zenon DEF Answer, Uttered, CallsOf, ResultsOf

LEMMA AnswerKeeps ==
    ASSUME ChatsOK, focus = "reasoning", focus' = focus, NEW c \in Conversation, NEW drops \in BOOLEAN,
           NEW ids \in Answered, Answer(c, ids, drops)
    PROVE  ChatsOK'
<1> DEFINE t == <<c, turns[c] + 1, ToSet(ids)>>
           a == Uttered(drops, t, CallsOf(ids))
           r == ResultsOf(ids)
           h == history[c]
<1>1. ChatsTyped /\ CachesOwn /\ \A d \in Conversation : HistoryOK(d) /\ SentOK(d)
    BY DEF ChatsOK
<1>2. ids \in Seq(CallIds) /\ ids # <<>> /\ ToSet(ids) \in SUBSET CallIds /\ None \notin ToSet(ids)
  <2>1. ids \in Seq(CallIds) /\ ids # <<>>
      BY PolicyAssumption
  <2>2. \A i \in DOMAIN ids : ids[i] \in CallIds
      BY <2>1
  <2>3. ToSet(ids) \in SUBSET CallIds
      BY <2>2 DEF ToSet
  <2> QED
      BY <2>1, <2>3, ConversationsAssumption
<1>3. t \in Thoughts /\ t[1] = c /\ t[3] = ToSet(ids) /\ t \in All /\ t # None
  <2>1. turns[c] + 1 \in Nat
      BY <1>1 DEF ChatsTyped
  <2>2. t \in Thoughts
      BY <1>2, <2>1 DEF Thoughts, Conversation
  <2> QED
      BY <2>2, ConversationsAssumption DEF All
<1>4. /\ latest' = [latest EXCEPT ![c] = t]
      /\ byCall' = [byCall EXCEPT ![c] = [id \in CallIds |-> IF id \in ToSet(ids) THEN t ELSE byCall[c][id]]]
      /\ byCallOfKey' = [x \in DOMAIN byCallOfKey |->
                            IF x[1] = Principal(c) /\ x[2] \in ToSet(ids) THEN t ELSE byCallOfKey[x]]
      /\ history' = [history EXCEPT ![c] = h \o <<a, r>>]
      /\ turns' = [turns EXCEPT ![c] = turns[c] + 1]
      /\ sent' = [sent EXCEPT ![c] = Unsent]
      /\ forgot' = forgot
    BY Zenon, AnswerIs
<1>5. Reply(a, r, t, ids)
  <2> DEFINE e == t
  <2>1. e \in Thoughts /\ e[3] = ToSet(ids)
      BY <1>3
  <2> HIDE DEF e
  <2>2. Reply(Uttered(drops, e, CallsOf(ids)), ResultsOf(ids), e, ids)
      BY Zenon, <1>2, <2>1, UtteredIs
  <2> QED
      BY <2>2 DEF e
<1>t. t[1] = c
    BY <1>3
<1> HIDE DEF t, a, r
<1>6. h \in Seq(Msg(All)) /\ Proper(h) /\ WellFormed(h) /\ AllBelong(c, h) /\ (~forgot => AllRemembered(c))
    BY <1>1 DEF ChatsTyped, HistoryOK
<1> HIDE DEF h
<1>7. /\ h \o <<a, r>> \in Seq(Msg(All)) /\ Proper(h \o <<a, r>>)
      /\ WellFormed(h \o <<a, r>>) /\ AllBelong(c, h \o <<a, r>>)
      /\ \A i \in 1..Len(h \o <<a, r>>) : \A id \in IdsOf((h \o <<a, r>>)[i], "call") :
            id \in ToSet(ids) \/ (i \in 1..Len(h) /\ id \in IdsOf(h[i], "call"))
  <2>1. Principal(t[1]) = Principal(c)
      BY <1>t
  <2> QED
      BY <1>2, <1>5, <1>6, <2>1, AnsweredWell
<1> DEFINE k == h \o <<a, r>>
<1> HIDE DEF k
<1>8. k \in Seq(Msg(All)) /\ Proper(k) /\ WellFormed(k) /\ AllBelong(c, k)
      /\ \A i \in 1..Len(k) : \A id \in IdsOf(k[i], "call") :
            id \in ToSet(ids) \/ (i \in 1..Len(h) /\ id \in IdsOf(h[i], "call"))
    BY <1>7 DEF k
<1>9. history' = [history EXCEPT ![c] = k]
    BY <1>4 DEF k
<1>10. /\ latest' \in [Conversation -> All] /\ turns' \in [Conversation -> Nat]
       /\ history' \in [Conversation -> Seq(Msg(All))]
       /\ sent' \in [Conversation -> {Unsent} \cup Seq(Msg(All))]
       /\ \A d \in Conversation : /\ latest'[d] = IF d = c THEN t ELSE latest[d]
                                  /\ history'[d] = IF d = c THEN k ELSE history[d]
                                  /\ sent'[d] = IF d = c THEN Unsent ELSE sent[d]
  <2>1. latest' \in [Conversation -> All] /\ \A d \in Conversation : latest'[d] = IF d = c THEN t ELSE latest[d]
      BY <1>1, <1>3, <1>4 DEF ChatsTyped
  <2>2. turns' \in [Conversation -> Nat]
      BY <1>1, <1>4 DEF ChatsTyped
  <2>3. history' \in [Conversation -> Seq(Msg(All))] /\ \A d \in Conversation : history'[d] = IF d = c THEN k ELSE history[d]
      BY <1>1, <1>8, <1>9 DEF ChatsTyped
  <2>4. sent' \in [Conversation -> {Unsent} \cup Seq(Msg(All))]
        /\ \A d \in Conversation : sent'[d] = IF d = c THEN Unsent ELSE sent[d]
      BY <1>1, <1>4 DEF ChatsTyped
  <2> QED
      BY <2>1, <2>2, <2>3, <2>4
<1>11. /\ byCall' \in [Conversation -> [CallIds -> All]]
       /\ \A d \in Conversation : d # c => byCall'[d] = byCall[d]
       /\ \A id \in CallIds : byCall'[c][id] = IF id \in ToSet(ids) THEN t ELSE byCall[c][id]
  <2> DEFINE f == [id \in CallIds |-> IF id \in ToSet(ids) THEN t ELSE byCall[c][id]]
  <2>1. f \in [CallIds -> All] /\ \A id \in CallIds : f[id] = IF id \in ToSet(ids) THEN t ELSE byCall[c][id]
      BY <1>1, <1>3 DEF ChatsTyped
  <2>2. byCall' = [byCall EXCEPT ![c] = f]
      BY Zenon, <1>4
  <2> HIDE DEF f
  <2> QED
      BY <1>1, <2>1, <2>2 DEF ChatsTyped
<1>12. /\ byCallOfKey' \in [Principals \X CallIds -> All]
       /\ \A x \in Principals \X CallIds : byCallOfKey'[x] =
            IF x[1] = Principal(c) /\ x[2] \in ToSet(ids) THEN t ELSE byCallOfKey[x]
  <2>1. byCallOfKey' = [x \in Principals \X CallIds |->
                            IF x[1] = Principal(c) /\ x[2] \in ToSet(ids) THEN t ELSE byCallOfKey[x]]
      BY <1>1, <1>4 DEF ChatsTyped
  <2>2. \A x \in Principals \X CallIds :
            (IF x[1] = Principal(c) /\ x[2] \in ToSet(ids) THEN t ELSE byCallOfKey[x]) \in All
      BY <1>1, <1>3 DEF ChatsTyped
  <2> QED
      BY <2>1, <2>2
<1>13. ChatsTyped'
    BY <1>1, <1>4, <1>10, <1>11, <1>12 DEF ChatsTyped
<1>14. CachesOwn'
  <2>1. ASSUME NEW d \in Conversation, latest'[d] # None PROVE Principal(latest'[d][1]) = Principal(d)
      BY <1>1, <1>10, <1>t, <2>1 DEF CachesOwn
  <2>2. ASSUME NEW d \in Conversation, NEW id \in CallIds PROVE MadeFor(byCall'[d][id], Principal(d), id)
    <3>1. MadeFor(byCall[d][id], Principal(d), id)
        BY <1>1 DEF CachesOwn
    <3>2. id \in ToSet(ids) => MadeFor(t, Principal(c), id)
        BY <1>3, <1>t DEF MadeFor
    <3>3. d # c => byCall'[d][id] = byCall[d][id]
        BY <1>11
    <3>4. d = c => byCall'[d][id] = IF id \in ToSet(ids) THEN t ELSE byCall[d][id]
        BY <1>11
    <3> QED
        BY Zenon, <3>1, <3>2, <3>3, <3>4
  <2>3. ASSUME NEW p \in Principals, NEW id \in CallIds PROVE MadeFor(byCallOfKey'[<<p, id>>], p, id)
    <3>1. MadeFor(byCallOfKey[<<p, id>>], p, id)
        BY <1>1 DEF CachesOwn
    <3>2. byCallOfKey'[<<p, id>>] = IF p = Principal(c) /\ id \in ToSet(ids) THEN t ELSE byCallOfKey[<<p, id>>]
      <4>1. <<p, id>> \in Principals \X CallIds /\ <<p, id>>[1] = p /\ <<p, id>>[2] = id
          OBVIOUS
      <4> QED
          BY <1>12, <4>1
    <3>3. p = Principal(c) /\ id \in ToSet(ids) => MadeFor(t, p, id)
        BY <1>3, <1>t DEF MadeFor
    <3> QED
        BY Zenon, <3>1, <3>2, <3>3
  <2> QED
      BY <2>1, <2>2, <2>3 DEF CachesOwn, MadeFor
<1>15. ASSUME NEW d \in Conversation PROVE HistoryOK(d)' /\ SentOK(d)'
  <2>1. CASE d # c
    <3>1. /\ history'[d] = history[d] /\ sent'[d] = sent[d] /\ latest'[d] = latest[d] /\ byCall'[d] = byCall[d]
          /\ forgot' = forgot
        BY <1>4, <1>10, <1>11, <2>1
    <3>2. SentOK(d)'
        BY <1>1, <3>1, SentStays
    <3>3. HistoryOK(d)'
        BY <1>1, <3>1, HistoryStays
    <3> QED
        BY <3>2, <3>3
  <2>2. CASE d = c
    <3>1. history'[d] = k /\ sent'[d] = Unsent
        BY <1>10, <2>2
    <3>2. SentOK(d)'
        BY <3>1 DEF SentOK
    <3>3. Proper(history[d])' /\ WellFormed(history[d])' /\ AllBelong(d, history[d])'
        BY <1>8, <2>2, <3>1
    <3>4. ASSUME ~forgot PROVE AllRemembered(d)'
      <4> SUFFICES ASSUME NEW i \in 1..Len(k), NEW id \in IdsOf(k[i], "call") PROVE byCall'[d][id] # None
          BY <3>1 DEF AllRemembered
      <4>1. CASE id \in ToSet(ids)
        <5>1. id \in CallIds
            BY <1>2, <4>1
        <5> QED
            BY <1>3, <1>11, <2>2, <4>1, <5>1
      <4>2. CASE id \notin ToSet(ids)
        <5>1. i \in 1..Len(h) /\ id \in IdsOf(h[i], "call")
            BY <1>8, <4>2
        <5>2. byCall[c][id] # None
            BY <1>6, <3>4, <5>1 DEF AllRemembered, h
        <5>3. id \in CallIds
          <6>1. PICK p \in PartsOf(h[i], "call") : h[i].parts[p].id = id /\ id # None
              BY <5>1 DEF IdsOf
          <6>2. h[i] \in Msg(All)
              BY Zenon, <1>6, <5>1, ElementHas
          <6>3. h[i].parts \in Seq(Part(All))
              BY <6>2 DEF Msg
          <6>4. p \in DOMAIN h[i].parts /\ h[i].parts[p].kind = "call"
              BY DEF PartsOf
          <6>5. h[i].parts[p] \in Part(All)
              BY Zenon, <6>3, <6>4, ElementIs
          <6>6. h[i].parts[p].id \in Id
              BY <6>4, <6>5, PartIs
          <6> QED
              BY <6>1, <6>6 DEF Id
        <5> QED
            BY <1>11, <2>2, <4>2, <5>2, <5>3
      <4> QED
          BY <4>1, <4>2
    <3>5. HistoryOK(d)'
        BY <1>4, <3>3, <3>4 DEF HistoryOK
    <3> QED
        BY <3>2, <3>5
  <2> QED
      BY <2>1, <2>2
<1> QED
    BY <1>13, <1>14, <1>15 DEF ChatsOK

LEMMA ForgetKeeps ==
    ASSUME ChatsOK, focus = "reasoning", focus' = focus, Forget
    PROVE  ChatsOK'
<1>1. ChatsTyped /\ CachesOwn /\ \A d \in Conversation : HistoryOK(d) /\ SentOK(d)
    BY DEF ChatsOK
<1>2. ~forgot /\ forgot' = TRUE /\ history' = history /\ sent' = sent /\ turns' = turns
    BY DEF Forget
<1>n. None \in All
    BY DEF All
<1>3. /\ latest' \in [Conversation -> All]
      /\ \A d \in Conversation : latest'[d] = latest[d] \/ latest'[d] = None
    BY <1>1, <1>n DEF Forget, ChatsTyped
<1>4. /\ byCall' \in [Conversation -> [CallIds -> All]]
      /\ \A d \in Conversation, id \in CallIds : byCall'[d][id] = byCall[d][id] \/ byCall'[d][id] = None
  <2>1. CASE byCall' = byCall
      BY <1>1, <2>1 DEF ChatsTyped
  <2>2. CASE byCall' # byCall
    <3>1. PICK c \in Conversation : byCall' = [byCall EXCEPT ![c] = [id \in CallIds |-> None]]
        BY <2>2 DEF Forget
    <3> DEFINE f == [id \in CallIds |-> None]
    <3>2. f \in [CallIds -> All] /\ \A id \in CallIds : f[id] = None
        BY <1>n
    <3>3. byCall' = [byCall EXCEPT ![c] = f]
        BY Zenon, <3>1
    <3> HIDE DEF f
    <3> QED
        BY <1>1, <3>2, <3>3 DEF ChatsTyped
  <2> QED
      BY <2>1, <2>2
<1>5. /\ byCallOfKey' \in [Principals \X CallIds -> All]
      /\ \A x \in Principals \X CallIds : byCallOfKey'[x] = byCallOfKey[x] \/ byCallOfKey'[x] = None
    BY <1>1, <1>n DEF Forget, ChatsTyped
<1>6. ChatsTyped'
    BY <1>1, <1>2, <1>3, <1>4, <1>5 DEF ChatsTyped
<1>7. CachesOwn'
  <2>1. ASSUME NEW d \in Conversation, latest'[d] # None PROVE Principal(latest'[d][1]) = Principal(d)
      BY <1>1, <1>3, <2>1 DEF CachesOwn
  <2>2. ASSUME NEW d \in Conversation, NEW id \in CallIds PROVE MadeFor(byCall'[d][id], Principal(d), id)
      BY <1>1, <1>4 DEF CachesOwn, MadeFor
  <2>3. ASSUME NEW p \in Principals, NEW id \in CallIds PROVE MadeFor(byCallOfKey'[<<p, id>>], p, id)
    <3>1. <<p, id>> \in Principals \X CallIds
        OBVIOUS
    <3> QED
        BY <1>1, <1>5, <3>1 DEF CachesOwn, MadeFor
  <2> QED
      BY <2>1, <2>2, <2>3 DEF CachesOwn, MadeFor
<1>8. ASSUME NEW d \in Conversation PROVE HistoryOK(d)' /\ SentOK(d)'
  <2>1. history'[d] = history[d] /\ sent'[d] = sent[d]
      BY <1>2
  <2>2. SentOK(d)'
      BY <1>1, <1>2, <2>1, SentStays
  <2>3. HistoryOK(d)'
      BY <1>1, <1>2, <2>1, HistoryStays
  <2> QED
      BY <2>2, <2>3
<1> QED
    BY <1>6, <1>7, <1>8 DEF ChatsOK
-----------------------------------------------------------------------------
LEMMA ChatsStart == Init => ChatsOK
<1> SUFFICES ASSUME ConversationsInit PROVE ChatsOK
    BY DEF Init
<1>1. /\ history = [c \in Conversation |-> <<>>] /\ sent = [c \in Conversation |-> Unsent]
      /\ turns = [c \in Conversation |-> 0] /\ latest = [c \in Conversation |-> None]
      /\ byCall = [c \in Conversation |-> [id \in CallIds |-> None]]
      /\ byCallOfKey = [x \in Principals \X CallIds |-> None] /\ forgot = FALSE
    BY DEF ConversationsInit
<1>2. None \in All /\ \A bys : <<>> \in Seq(Msg(bys))
    BY DEF All
<1>3. ChatsTyped
    BY <1>1, <1>2 DEF ChatsTyped
<1>4. CachesEmpty
    BY <1>1 DEF CachesEmpty
<1>5. CachesOwn
  <2>1. \A p \in Principals, id \in CallIds : byCallOfKey[<<p, id>>] = None
    <3>1. \A p \in Principals, id \in CallIds : <<p, id>> \in Principals \X CallIds
        OBVIOUS
    <3> QED
        BY <1>4, <3>1 DEF CachesEmpty
  <2> QED
      BY <1>4, <2>1 DEF CachesOwn, CachesEmpty, MadeFor
<1>6. ASSUME NEW c \in Conversation PROVE HistoryOK(c) /\ SentOK(c)
  <2>1. history[c] = <<>> /\ sent[c] = Unsent /\ Len(history[c]) = 0
      BY <1>1
  <2>2. 1..0 = {}
      OBVIOUS
  <2>3. Proper(history[c]) /\ WellFormed(history[c]) /\ AllBelong(c, history[c]) /\ AllRemembered(c)
      BY <2>1, <2>2 DEF Proper, WellFormed, AllBelong, AllRemembered
  <2> QED
      BY <1>2, <2>1, <2>3 DEF HistoryOK, SentOK
<1> QED
    BY <1>3, <1>4, <1>5, <1>6 DEF ChatsOK

LEMMA ChatsLive ==
    [Next]_vars => /\ focus' = focus
                   /\ \/ focus = "messages" /\ Composing
                      \/ focus = "reasoning" /\ Conversing
                      \/ UNCHANGED conversationVars
<1> SUFFICES ASSUME [Next]_vars
             PROVE  focus' = focus /\ (\/ focus = "messages" /\ Composing
                                       \/ focus = "reasoning" /\ Conversing
                                       \/ UNCHANGED conversationVars)
    OBVIOUS
<1>1. CASE focus = "requests" /\ \E r \in Requests : Forward(r)
    BY <1>1 DEF Forward, Authenticate, RouteNative, GoTranslated, RouteOnce, RouteAgain, Become
<1>2. CASE Accounting \/ Tabling \/ Administer \/ Viewing
    BY <1>2 DEF Accounting, Tabling, Administer, Viewing, policyVars
<1>3. CASE focus = "messages" /\ Composing
    BY <1>3 DEF Composing, policyVars
<1>4. CASE focus = "reasoning" /\ Conversing
    BY <1>4 DEF Conversing, policyVars
<1>5. CASE UNCHANGED vars
    BY <1>5 DEF vars, policyVars
<1> QED
    BY <1>1, <1>2, <1>3, <1>4, <1>5 DEF Next

LEMMA ChatsKeep == ChatsOK /\ [Next]_vars => ChatsOK'
<1> SUFFICES ASSUME ChatsOK, [Next]_vars PROVE ChatsOK'
    OBVIOUS
<1>0. /\ focus' = focus
      /\ \/ focus = "messages" /\ Composing
         \/ focus = "reasoning" /\ Conversing
         \/ UNCHANGED conversationVars
    BY Zenon, ChatsLive
<1>1. CASE focus = "messages" /\ Composing
  <2>1. ASSUME NEW m \in Messages, Write(First, m) PROVE ChatsOK'
    <3>1. m \in Msg({None}) /\ focus # "reasoning"
        BY <1>1, ConversationsAssumption DEF Msg
    <3> QED
        BY <1>0, <2>1, <3>1, WriteKeeps
  <2>2. ASSUME NEW normalize \in BOOLEAN, Policy(First, normalize) PROVE ChatsOK'
    <3>1. focus # "reasoning"
        BY <1>1
    <3> QED
        BY <1>0, <2>2, <3>1, SendingKeeps
  <2> QED
      BY <1>1, <2>1, <2>2 DEF Composing
<1>2. CASE focus = "reasoning" /\ Conversing
  <2>1. ASSUME NEW c \in Conversation, history[c] = <<>>, Write(c, Ask) PROVE ChatsOK'
    <3>1. Ask \in Msg({None})
        BY AskIs
    <3> QED
        BY <1>0, <2>1, <3>1, WriteKeeps
  <2>2. ASSUME NEW c \in Conversation, Policy(c, FALSE) PROVE ChatsOK'
    <3>1. FALSE \in BOOLEAN /\ ~FALSE
        OBVIOUS
    <3> QED
        BY <1>0, <2>2, <3>1, SendingKeeps
  <2>3. ASSUME NEW c \in Conversation, NEW drops \in BOOLEAN, NEW ids \in Answered, Answer(c, ids, drops)
        PROVE  ChatsOK'
      BY <1>0, <1>2, <2>3, AnswerKeeps
  <2>4. ASSUME Forget PROVE ChatsOK'
      BY <1>0, <1>2, <2>4, ForgetKeeps
  <2> QED
      BY <1>2, <2>1, <2>2, <2>3, <2>4 DEF Conversing
<1>3. CASE UNCHANGED conversationVars
  <2>1. /\ history' = history /\ sent' = sent /\ turns' = turns /\ latest' = latest /\ byCall' = byCall
        /\ byCallOfKey' = byCallOfKey /\ forgot' = forgot
      BY <1>3 DEF conversationVars
  <2>2. ChatsTyped /\ CachesOwn /\ (focus # "reasoning" => CachesEmpty)
        /\ \A d \in Conversation : HistoryOK(d) /\ SentOK(d)
      BY DEF ChatsOK
  <2>3. ChatsTyped' /\ CachesOwn' /\ (focus' # "reasoning" => CachesEmpty')
      BY <1>0, <2>1, <2>2 DEF ChatsTyped, CachesOwn, MadeFor, CachesEmpty
  <2>4. ASSUME NEW d \in Conversation PROVE HistoryOK(d)' /\ SentOK(d)'
    <3>1. history'[d] = history[d] /\ sent'[d] = sent[d] /\ latest'[d] = latest[d] /\ byCall'[d] = byCall[d]
        BY <2>1
    <3>2. SentOK(d)'
        BY <2>1, <2>2, <3>1, SentStays
    <3>3. HistoryOK(d)'
        BY <1>0, <2>1, <2>2, <3>1, HistoryStays
    <3> QED
        BY <3>2, <3>3
  <2> QED
      BY <2>3, <2>4 DEF ChatsOK
<1> QED
    BY <1>0, <1>1, <1>2, <1>3

LEMMA ChatsSound == ChatsOK => HistorySound
<1> SUFFICES ASSUME ChatsOK PROVE HistorySound
    OBVIOUS
<1>1. sent \in [Conversation -> {Unsent} \cup Seq(Msg(All))] /\ \A c \in Conversation : SentOK(c)
    BY DEF ChatsOK, ChatsTyped
<1>2. HistoryPaired
    BY <1>1 DEF HistoryPaired, SentOK
<1>3. ReasoningIsOwn
  <2> SUFFICES ASSUME NEW c \in Conversation, sent[c] # Unsent, NEW i \in DOMAIN sent[c],
                      NEW p \in PartsOf(sent[c][i], "reasoning"), sent[c][i].parts[p].by # None
               PROVE  LET by == sent[c][i].parts[p].by IN
                      /\ Principal(by[1]) = Principal(c)
                      /\ by = latest[c] \/ IdsOf(sent[c][i], "call") \cap by[3] # {}
      BY Zenon DEF ReasoningIsOwn
  <2> DEFINE s == sent[c]
             by == s[i].parts[p].by
  <2>1. s \in Seq(Msg(All)) /\ AllFitting(c, s)
      BY <1>1 DEF SentOK
  <2> HIDE DEF s
  <2>2. i \in 1..Len(s)
    <3>1. i \in DOMAIN s
        BY DEF s
    <3> QED
        BY <2>1, <3>1
  <2>3. p \in PartsOf(s[i], "reasoning")
      BY DEF s
  <2>4. Fitting(by, c, s[i])
      BY <2>1, <2>2, <2>3 DEF AllFitting
  <2>5. by # None
      BY DEF s
  <2> HIDE DEF by
  <2>6. Principal(by[1]) = Principal(c) /\ (by = latest[c] \/ IdsOf(s[i], "call") \cap by[3] # {})
      BY <2>4, <2>5 DEF Fitting, Belongs
  <2> QED
      BY <2>6 DEF by, s
<1> QED
    BY <1>2, <1>3 DEF HistorySound

(* The history that is sent is one the upstream takes and is the client's    *)
(* own, whatever messages clients keep, caches forget and ids upstreams give *)
(* their calls (prepare_request_policy of policy.py).                        *)
THEOREM HistoriesSound == Spec => []HistorySound
<1>1. Init => ChatsOK
    BY ChatsStart
<1>2. ChatsOK /\ [Next]_vars => ChatsOK'
    BY ChatsKeep
<1> QED
    BY <1>1, <1>2, ChatsSound, PTL DEF Spec
=============================================================================
