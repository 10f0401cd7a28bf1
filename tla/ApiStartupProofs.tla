-------------------------- MODULE ApiStartupProofs --------------------------
(***************************************************************************)
(* Proofs about ApiStartup, for any number of replicas, requests, users    *)
(* and faults.                                                             *)
(***************************************************************************)
EXTENDS ApiStartup, TLAPS

LEMMA FaultsBound == MaxFaults \in Nat
BY StartupAssumption DEF StartupAssumption

UserTable == [Names -> [password : Passwords \cup {"none", "initial"}, admin : BOOLEAN]]

LEMMA SeededType == users \in UserTable => Seeded \in UserTable
<1> DEFINE row == [password |-> "initial", admin |-> TRUE]
<1>1. row \in [password : Passwords \cup {"none", "initial"}, admin : BOOLEAN]
  OBVIOUS
<1> HIDE DEF row
<1>2. users \in UserTable => [users EXCEPT !["admin"] = row] \in UserTable
  BY <1>1 DEF UserTable
<1> QED BY <1>2 DEF Seeded, row

LEMMA TypeInit == Init => TypeOK
BY StartupAssumption DEF Init, TypeOK, Phases, Keyed, Names, NoUser, NoWrite, Tokens

LEMMA TypeStartUp ==
  ASSUME TypeOK, NEW r \in Replicas, StartUp(r)
  PROVE  TypeOK'
<1> USE StartupAssumption DEF TypeOK, Phases, Keyed, Names, startup, accounts, Go
<1>1. CASE Boot(r)
  BY <1>1 DEF Boot
<1>2. CASE Migrate(r)
  BY <1>2 DEF Migrate
<1>3. CASE MigrateDone(r)
  BY <1>3 DEF MigrateDone
<1>4. CASE HasAnyUser(r)
  BY <1>4 DEF HasAnyUser
<1>5. CASE SeedAdmin(r)
  <2>1. users' \in UserTable
    BY <1>5, SeededType DEF SeedAdmin, UserTable
  <2> QED BY <1>5, <2>1 DEF SeedAdmin, UserTable
<1>6. CASE GetKey(r)
  BY <1>6, FaultsBound DEF GetKey
<1>7. CASE CreateKey(r)
  BY <1>7 DEF CreateKey
<1>8. CASE Listen(r)
  BY <1>8 DEF Listen
<1> QED BY <1>1, <1>2, <1>3, <1>4, <1>5, <1>6, <1>7, <1>8 DEF StartUp

LEMMA TypeFail ==
  ASSUME TypeOK, NEW r \in Replicas, Fail(r)
  PROVE  TypeOK'
<1>1. faults' \in 0..MaxFaults
  BY FaultsBound DEF TypeOK, Fail
<1>2. change' \in [Requests -> {NoWrite} \cup [on : SUBSET Replicas, user : Names,
                                             password : Passwords]]
  BY DEF TypeOK, Fail
<1>3. users' \in UserTable
  BY SeededType DEF TypeOK, Fail, UserTable
<1>4. {secret', lastKey'} \subseteq Nat
  BY DEF TypeOK, Fail
<1>5. /\ phase' \in [Replicas -> Phases]
      /\ key' \in [Replicas -> Nat]
      /\ \A s \in Replicas : phase'[s] \in Keyed => key'[s] # 0
  BY DEF TypeOK, Fail, Go, Phases, Keyed
<1> QED BY <1>1, <1>2, <1>3, <1>4, <1>5 DEF TypeOK, Fail, UserTable

LEMMA TypeServe ==
  ASSUME TypeOK, NEW r \in Replicas, Serve(r)
  PROVE  TypeOK'
<1> USE StartupAssumption DEF TypeOK, Phases, Keyed, Names, Tokens, NoUser, startup, Accepts
<1>1. CASE \E u \in Names : Login(r, u)
  BY <1>1 DEF Login
<1>2. CASE \E t \in tokens, q \in Requests, p \in Passwords : ChangePassword(q, r, t, p)
  BY <1>2 DEF ChangePassword
<1>3. CASE \E t \in tokens, u \in Names : DeleteUser(r, t, u)
  BY <1>3 DEF DeleteUser
<1>4. CASE \E t \in tokens, u \in Names, admin \in BOOLEAN : CreateUser(r, t, u, admin)
  BY <1>4 DEF CreateUser
<1> QED BY <1>1, <1>2, <1>3, <1>4 DEF Serve

LEMMA TypeOthers ==
  ASSUME TypeOK,
         \/ \E q \in Requests : UpdatePasswordHash(q)
         \/ \E t \in tokens : Expire(t)
         \/ UNCHANGED vars
  PROVE  TypeOK'
<1> USE StartupAssumption DEF TypeOK, Phases, Keyed, Names, Tokens, startup
<1>1. CASE \E q \in Requests : UpdatePasswordHash(q)
  BY <1>1 DEF UpdatePasswordHash
<1>2. CASE \E t \in tokens : Expire(t)
  BY <1>2 DEF Expire
<1>3. CASE UNCHANGED vars
  BY <1>3 DEF vars
<1> QED BY <1>1, <1>2, <1>3

LEMMA TypeNext == TypeOK /\ [Next]_vars => TypeOK'
BY TypeStartUp, TypeFail, TypeServe, TypeOthers DEF Next

\* Every reachable state of the start-up and of the accounts is well typed, and
\* a replica past loadOrCreateSigningKey has a key.
THEOREM TypeCorrect == Spec => []TypeOK
BY TypeInit, TypeNext, PTL DEF Spec

-----------------------------------------------------------------------------
(***************************************************************************)
(* The inductive invariant.  TokensAccepted needs to know that there is    *)
(* only one key, the Secret's; PasswordKept that the admin's row is never  *)
(* inserted a second time, for which the row must stay, for which in turn  *)
(* the accounts must start with it.                                        *)
(***************************************************************************)
OneKey == \A r \in Replicas : phase[r] \in Keyed => key[r] = secret

TokensOfKey == \A t \in tokens : t.key = secret /\ secret # 0

TokensNeedAdmin == tokens # {} => users["admin"] # NoUser

ChosenStays == chosen["admin"] # "none" => users["admin"] # NoUser

KeyInv     == TypeOK /\ OneKey /\ TokensOfKey
AccountInv == TypeOK /\ AdminStays /\ TokensNeedAdmin /\ ChosenStays /\ PasswordKept

LEMMA KeyInit == Init => KeyInv
BY TypeInit DEF Init, KeyInv, OneKey, TokensOfKey, Keyed

LEMMA KeyNext == KeyInv /\ [Next]_vars => KeyInv'
<1> SUFFICES ASSUME KeyInv, [Next]_vars PROVE KeyInv'
  OBVIOUS
<1>1. TypeOK /\ TypeOK'
  BY TypeNext DEF KeyInv
<1> USE <1>1 DEF KeyInv, OneKey, TokensOfKey, TypeOK, Keyed, Phases, Go, startup, accounts
<1>2. ASSUME NEW r \in Replicas, StartUp(r) PROVE OneKey' /\ TokensOfKey'
  <2>1. CASE Boot(r)
    BY <2>1 DEF Boot
  <2>2. CASE Migrate(r)
    BY <2>2 DEF Migrate
  <2>3. CASE MigrateDone(r)
    BY <2>3 DEF MigrateDone
  <2>4. CASE HasAnyUser(r)
    BY <2>4 DEF HasAnyUser
  <2>5. CASE SeedAdmin(r)
    BY <2>5 DEF SeedAdmin
  <2>6. CASE GetKey(r)
    BY <2>6 DEF GetKey
  <2>7. CASE CreateKey(r)
    BY <2>7 DEF CreateKey
  <2>8. CASE Listen(r)
    BY <2>8 DEF Listen
  <2> QED BY <1>2, <2>1, <2>2, <2>3, <2>4, <2>5, <2>6, <2>7, <2>8 DEF StartUp
<1>3. ASSUME NEW r \in Replicas, Fail(r) PROVE OneKey' /\ TokensOfKey'
  BY <1>3 DEF Fail
<1>4. ASSUME NEW r \in Replicas, Serve(r) PROVE OneKey' /\ TokensOfKey'
  <2>1. CASE \E u \in Names : Login(r, u)
    BY <2>1 DEF Login
  <2>2. CASE \E t \in tokens, q \in Requests, p \in Passwords : ChangePassword(q, r, t, p)
    BY <2>2 DEF ChangePassword
  <2>3. CASE \E t \in tokens, u \in Names : DeleteUser(r, t, u)
    BY <2>3 DEF DeleteUser
  <2>4. CASE \E t \in tokens, u \in Names, admin \in BOOLEAN : CreateUser(r, t, u, admin)
    BY <2>4 DEF CreateUser
  <2> QED BY <1>4, <2>1, <2>2, <2>3, <2>4 DEF Serve
<1>5. CASE \E q \in Requests : UpdatePasswordHash(q)
  BY <1>5 DEF UpdatePasswordHash
<1>6. CASE \E t \in tokens : Expire(t)
  BY <1>6 DEF Expire
<1>7. CASE UNCHANGED vars
  BY <1>7 DEF vars
<1> QED BY <1>2, <1>3, <1>4, <1>5, <1>6, <1>7 DEF Next

\* A token that has not expired is accepted by every replica that serves,
\* however many of them raced in loadOrCreateSigningKey, failed and restarted.
THEOREM OneSigningKey == Spec => []TokensAccepted
<1>1. KeyInv => TokensAccepted
  BY DEF KeyInv, OneKey, TokensOfKey, TokensAccepted, Accepts, Keyed
<1> QED BY <1>1, KeyInit, KeyNext, PTL DEF Spec

-----------------------------------------------------------------------------
LEMMA AccountInit == Init => AccountInv
BY TypeInit DEF Init, AccountInv, AdminStays, TokensNeedAdmin, ChosenStays, PasswordKept,
                Names, NoUser

\* The parts of AccountInv are about users, tokens and chosen only.
LEMMA AccountFrame ==
  ASSUME AccountInv, TypeOK', UNCHANGED <<users, chosen>>, tokens' \subseteq tokens
  PROVE  AccountInv'
BY DEF AccountInv, AdminStays, TokensNeedAdmin, ChosenStays, PasswordKept

LEMMA AccountSeeded ==
  ASSUME AccountInv, TypeOK', users["admin"] = NoUser, users' = Seeded,
         UNCHANGED <<chosen, tokens>>
  PROVE  AccountInv'
<1>1. "admin" \in Names
  BY DEF Names
<1>2. /\ users'["admin"] = [password |-> "initial", admin |-> TRUE]
      /\ \A u \in Names \ {"admin"} : users'[u] = users[u]
  BY <1>1 DEF AccountInv, TypeOK, Seeded
<1>3. users'["admin"] # NoUser /\ users'["admin"].admin
  BY <1>2 DEF NoUser
<1>4. chosen["admin"] = "none"
  BY DEF AccountInv, ChosenStays
<1> QED BY <1>2, <1>3, <1>4
        DEF AccountInv, AdminStays, TokensNeedAdmin, ChosenStays, PasswordKept

LEMMA AccountNext == AccountInv /\ [Next]_vars => AccountInv'
<1> SUFFICES ASSUME AccountInv, [Next]_vars PROVE AccountInv'
  OBVIOUS
<1>1. TypeOK /\ TypeOK'
  BY TypeNext DEF AccountInv
<1>2. "admin" \in Names
  BY DEF Names
<1>3. ASSUME NEW r \in Replicas, StartUp(r) PROVE AccountInv'
  <2>1. CASE SeedAdmin(r)
    BY <1>1, <2>1, AccountFrame, AccountSeeded DEF SeedAdmin
  <2>2. CASE ~ SeedAdmin(r)
    <3>1. UNCHANGED <<users, chosen, tokens>>
      BY <1>3, <2>2 DEF StartUp, Boot, Migrate, MigrateDone, HasAnyUser, GetKey,
                        CreateKey, Listen, accounts
    <3> QED BY <1>1, <3>1, AccountFrame
  <2> QED BY <2>1, <2>2
<1>4. ASSUME NEW r \in Replicas, Fail(r) PROVE AccountInv'
  <2>1. UNCHANGED <<tokens, chosen>> /\ (UNCHANGED users \/ (users["admin"] = NoUser /\ users' = Seeded))
    BY <1>4 DEF Fail
  <2> QED BY <1>1, <2>1, AccountFrame, AccountSeeded
<1>5. ASSUME NEW r \in Replicas, Serve(r) PROVE AccountInv'
  <2>1. ASSUME NEW u \in Names, Login(r, u) PROVE AccountInv'
    <3>1. users[u] # NoUser /\ UNCHANGED <<users, chosen>>
      BY <2>1 DEF Login
    <3> QED BY <1>1, <2>1, <3>1
            DEF AccountInv, AdminStays, TokensNeedAdmin, ChosenStays, PasswordKept
  <2>2. CASE \E t \in tokens, q \in Requests, p \in Passwords : ChangePassword(q, r, t, p)
    BY <1>1, <2>2, AccountFrame DEF ChangePassword
  <2>3. ASSUME NEW t \in tokens, NEW u \in Names, DeleteUser(r, t, u) PROVE AccountInv'
    <3>1. /\ u # "admin"
          /\ users' = [users EXCEPT ![u] = NoUser]
          /\ UNCHANGED <<tokens, chosen>>
      BY <2>3 DEF DeleteUser
    <3>2. users'["admin"] = users["admin"]
      BY <1>1, <1>2, <3>1 DEF TypeOK
    <3>3. \A v \in Names : users'[v] # NoUser => users'[v] = users[v]
      BY <1>1, <3>1 DEF TypeOK
    <3> QED BY <1>1, <3>1, <3>2, <3>3
            DEF AccountInv, AdminStays, TokensNeedAdmin, ChosenStays, PasswordKept
  <2>4. ASSUME NEW t \in tokens, NEW u \in Names, NEW admin \in BOOLEAN,
               CreateUser(r, t, u, admin)
        PROVE  AccountInv'
    <3>1. users["admin"] # NoUser /\ users["admin"].admin
      BY <1>2, <2>4 DEF AccountInv, TokensNeedAdmin, AdminStays
    <3>2. u # "admin" /\ UNCHANGED tokens
      BY <2>4, <3>1 DEF CreateUser
    <3>3. /\ \A v \in Names \ {u} : users'[v] = users[v] /\ chosen'[v] = chosen[v]
          /\ chosen'[u] = "none"
      BY <1>1, <2>4 DEF CreateUser, TypeOK
    <3> QED BY <1>1, <1>2, <3>1, <3>2, <3>3
            DEF AccountInv, AdminStays, TokensNeedAdmin, ChosenStays, PasswordKept
  <2> QED BY <1>5, <2>1, <2>2, <2>3, <2>4 DEF Serve
<1>6. ASSUME NEW q \in Requests, UpdatePasswordHash(q) PROVE AccountInv'
  <2> DEFINE u == change[q].user
             p == change[q].password
  <2>1. CASE users[u] = NoUser
    BY <1>1, <1>6, <2>1, AccountFrame DEF UpdatePasswordHash
  <2>2. CASE users[u] # NoUser
    <3>1. u \in Names /\ p \in Passwords
      BY <1>1, <1>6 DEF TypeOK, UpdatePasswordHash
    <3>2. /\ users' = [users EXCEPT ![u].password = p]
          /\ chosen' = [chosen EXCEPT ![u] = p]
          /\ UNCHANGED tokens
      BY <1>6, <2>2 DEF UpdatePasswordHash
    <3>3. /\ \A v \in Names \ {u} : users'[v] = users[v] /\ chosen'[v] = chosen[v]
          /\ users'[u].password = p /\ users'[u].admin = users[u].admin
          /\ chosen'[u] = p
      BY <1>1, <3>1, <3>2 DEF TypeOK
    <3>4. users'[u] # NoUser
      BY <3>1, <3>3, StartupAssumption DEF NoUser, StartupAssumption
    <3> QED BY <1>1, <1>2, <2>2, <3>1, <3>2, <3>3, <3>4
            DEF AccountInv, AdminStays, TokensNeedAdmin, ChosenStays, PasswordKept
  <2> QED BY <2>1, <2>2
<1>7. CASE \E t \in tokens : Expire(t)
  BY <1>1, <1>7, AccountFrame DEF Expire
<1>8. CASE UNCHANGED vars
  BY <1>1, <1>8, AccountFrame DEF vars
<1> QED BY <1>3, <1>4, <1>5, <1>6, <1>7, <1>8 DEF Next

\* A password its user has set is never seeded over by a replica that starts.
THEOREM PasswordsKept == Spec => []PasswordKept
<1>1. AccountInv => PasswordKept
  BY DEF AccountInv
<1> QED BY <1>1, AccountInit, AccountNext, PTL DEF Spec

\* A platform with users has the admin user, however its replicas started and
\* whatever users were created and deleted.
THEOREM AdminRemains == Spec => []AdminStays
<1>1. AccountInv => AdminStays
  BY DEF AccountInv
<1> QED BY <1>1, AccountInit, AccountNext, PTL DEF Spec
=============================================================================
