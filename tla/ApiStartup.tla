----------------------------- MODULE ApiStartup -----------------------------
(***************************************************************************)
(* How replicas of the API come to serve (main, RunMigrations,             *)
(* migrateAdminFromSecret, loadOrCreateSigningKey), any number of them at  *)
(* the same time, and the accounts they then keep: login, change of        *)
(* password, creation and deletion of users.  A step of the start-up that  *)
(* fails ends the process, which Kubernetes starts again.                  *)
(*                                                                         *)
(* Requests that change nothing (a wrong password, a missing row, a token  *)
(* that is not accepted) are left out.                                     *)
(***************************************************************************)
EXTENDS Integers, FiniteSets

CONSTANTS
  Replicas,   \* API processes
  Requests,   \* ChangePassword requests in progress at a time
  Users,      \* user names besides "admin"
  Passwords,  \* passwords users choose
  MaxTokens,  \* bound: tokens valid at a time
  MaxFaults   \* bound: crashes and failing calls in a behaviour

ASSUME StartupAssumption ==
  /\ IsFiniteSet(Replicas)
  /\ "admin" \notin Users
  /\ {"none", "initial"} \cap Passwords = {}
  /\ {MaxTokens, MaxFaults} \subseteq Nat

VARIABLES
  schema,   \* migration state: "none", "dirty" or "done"
  phase,    \* replica -> the start-up step it is at, "serving" after the last
  secret,   \* the jwt-signing-key Secret, 0 when it does not exist
  key,      \* replica -> its TokenService's key, 0 before it has one
  lastKey,  \* keys generated so far
  users,    \* users table: name -> password and admin flag, NoUser without a row
  tokens,   \* tokens issued and not expired
  change,   \* the ChangePassword requests
  faults,   \* faults so far
  chosen    \* history: name -> the password its user last set, "none" before

vars == <<schema, phase, secret, key, lastKey, users, tokens, change, faults, chosen>>

startup  == <<schema, phase, secret, key, lastKey>>
accounts == <<users, tokens, change, chosen>>

Names   == Users \cup {"admin"}
NoUser  == [password |-> "none", admin |-> FALSE]
NoWrite == [on |-> {}, user |-> "admin", password |-> "initial"]

Phases == {"down", "migrate", "migrating", "check", "insert", "getKey", "createKey",
           "stream", "serving"}
Keyed  == {"stream", "serving"}
Tokens == [user : Names, admin : BOOLEAN, key : Nat]

TypeOK ==
  /\ schema \in {"none", "dirty", "done"}
  /\ phase \in [Replicas -> Phases]
  /\ {secret, lastKey} \subseteq Nat
  /\ key \in [Replicas -> Nat]
  /\ \A r \in Replicas : phase[r] \in Keyed => key[r] # 0
  /\ users \in [Names -> [password : Passwords \cup {"none", "initial"}, admin : BOOLEAN]]
  /\ tokens \subseteq Tokens
  /\ change \in [Requests -> {NoWrite} \cup [on : SUBSET Replicas, user : Names,
                                            password : Passwords]]
  /\ faults \in 0..MaxFaults
  /\ chosen \in [Names -> Passwords \cup {"none"}]

Init ==
  /\ schema = "none"
  /\ phase = [r \in Replicas |-> "down"]
  /\ secret = 0
  /\ key = [r \in Replicas |-> 0]
  /\ lastKey = 0
  /\ users = [u \in Names |-> NoUser]
  /\ tokens = {}
  /\ change = [q \in Requests |-> NoWrite]
  /\ faults = 0
  /\ chosen = [u \in Names |-> "none"]

Go(r, p) == phase' = [phase EXCEPT ![r] = p]

\* The table with the admin's row: the Secret's hash, or that of "admin".
Seeded == [users EXCEPT !["admin"] = [password |-> "initial", admin |-> TRUE]]

-----------------------------------------------------------------------------
(* main, up to ListenAndServe *)

Boot(r) ==
  /\ phase[r] = "down"
  /\ Go(r, "migrate")
  /\ UNCHANGED <<schema, secret, key, lastKey, accounts, faults>>

\* Up takes the migration lock; a dirty schema or the lock's timeout is an error.
Migrate(r) ==
  LET locked == \E s \in Replicas : phase[s] = "migrating" IN
  /\ phase[r] = "migrate"
  /\ \/ ~ locked /\ schema = "none" /\ schema' = "dirty" /\ Go(r, "migrating")
     \/ ~ locked /\ schema = "done" /\ Go(r, "check") /\ UNCHANGED schema
     \/ (locked \/ schema = "dirty") /\ Go(r, "down") /\ UNCHANGED schema
  /\ UNCHANGED <<secret, key, lastKey, accounts, faults>>

MigrateDone(r) ==
  /\ phase[r] = "migrating"
  /\ schema' = "done"
  /\ Go(r, "check")
  /\ UNCHANGED <<secret, key, lastKey, accounts, faults>>

\* Mutant: a table that is seeded already counts as a failure.
MutHasAnyUser(r) ==
  /\ phase[r] = "check"
  /\ Go(r, IF \E u \in Names : users[u] # NoUser THEN "down" ELSE "insert")
  /\ UNCHANGED <<schema, secret, key, lastKey, accounts, faults>>

HasAnyUser(r) ==
  /\ phase[r] = "check"
  /\ Go(r, IF \E u \in Names : users[u] # NoUser THEN "getKey" ELSE "insert")
  /\ UNCHANGED <<schema, secret, key, lastKey, accounts, faults>>

\* Mutant: INSERT ... ON CONFLICT (username) DO UPDATE.
MutSeedAdmin(r) ==
  /\ phase[r] = "insert"
  /\ users' = Seeded
  /\ Go(r, "getKey")
  /\ UNCHANGED <<schema, secret, key, lastKey, tokens, change, faults, chosen>>

\* UNIQUE (username) ends a lost race.
SeedAdmin(r) ==
  /\ phase[r] = "insert"
  /\ \/ /\ users["admin"] = NoUser
        /\ users' = Seeded
        /\ Go(r, "getKey")
     \/ /\ users["admin"] # NoUser
        /\ Go(r, "down")
        /\ UNCHANGED users
  /\ UNCHANGED <<schema, secret, key, lastKey, tokens, change, faults, chosen>>

\* Mutant: the key of a Secret that could not be read is used all the same.
MutGetKey(r) ==
  /\ phase[r] = "getKey"
  /\ key' = [key EXCEPT ![r] = secret]
  /\ Go(r, "stream")
  /\ UNCHANGED <<schema, secret, lastKey, accounts, faults>>

\* Any error of Get, not only NotFound, leads to Create.
GetKey(r) ==
  /\ phase[r] = "getKey"
  /\ \/ /\ secret # 0
        /\ key' = [key EXCEPT ![r] = secret]
        /\ Go(r, "stream")
        /\ UNCHANGED faults
     \/ /\ \/ secret = 0 /\ UNCHANGED faults
           \/ faults < MaxFaults /\ faults' = faults + 1
        /\ Go(r, "createKey")
        /\ UNCHANGED key
  /\ UNCHANGED <<schema, secret, lastKey, accounts>>

\* Mutant: the error of Create is dropped.
MutCreateKey(r) ==
  /\ phase[r] = "createKey"
  /\ lastKey' = lastKey + 1
  /\ key' = [key EXCEPT ![r] = lastKey + 1]
  /\ secret' = IF secret = 0 THEN lastKey + 1 ELSE secret
  /\ Go(r, "stream")
  /\ UNCHANGED <<schema, accounts, faults>>

\* AlreadyExists is an error: the replica finds the winner's key when it restarts.
CreateKey(r) ==
  /\ phase[r] = "createKey"
  /\ \/ /\ secret = 0
        /\ lastKey' = lastKey + 1
        /\ secret' = lastKey + 1
        /\ key' = [key EXCEPT ![r] = lastKey + 1]
        /\ Go(r, "stream")
     \/ /\ secret # 0
        /\ Go(r, "down")
        /\ UNCHANGED <<secret, key, lastKey>>
  /\ UNCHANGED <<schema, accounts, faults>>

\* NATS is connected and EnsureStream creates or updates the stream.
Listen(r) ==
  /\ phase[r] = "stream"
  /\ Go(r, "serving")
  /\ UNCHANGED <<schema, secret, key, lastKey, accounts, faults>>

\* The process ends, by a crash or because a call failed; the write it was at
\* may have taken effect.  Its requests end where they are.
Fail(r) ==
  /\ phase[r] # "down"
  /\ faults < MaxFaults
  /\ faults' = faults + 1
  /\ Go(r, "down")
  /\ key' = [key EXCEPT ![r] = 0]
  /\ change' = [q \in Requests |-> IF r \in change[q].on THEN NoWrite ELSE change[q]]
  /\ users' \in {users} \cup
       (IF phase[r] = "insert" /\ users["admin"] = NoUser
        THEN {Seeded}
        ELSE {})
  /\ \/ UNCHANGED <<secret, lastKey>>
     \/ /\ phase[r] = "createKey" /\ secret = 0
        /\ lastKey' = lastKey + 1
        /\ secret' = lastKey + 1
  /\ UNCHANGED <<schema, tokens, chosen>>

-----------------------------------------------------------------------------
(* The requests of the accounts, at a replica that serves. *)

Accepts(r, t) == phase[r] = "serving" /\ t \in tokens /\ t.key = key[r]

Login(r, u) ==
  /\ phase[r] = "serving"
  /\ users[u] # NoUser
  /\ Cardinality(tokens) < MaxTokens
  /\ tokens' = tokens \cup {[user |-> u, admin |-> users[u].admin, key |-> key[r]]}
  /\ UNCHANGED <<startup, users, change, faults, chosen>>

Expire(t) ==
  /\ t \in tokens
  /\ tokens' = tokens \ {t}
  /\ UNCHANGED <<startup, users, change, faults, chosen>>

\* The current password is compared with the row read here.
ChangePassword(q, r, t, p) ==
  /\ change[q] = NoWrite
  /\ Accepts(r, t)
  /\ users[t.user] # NoUser
  /\ change' = [change EXCEPT ![q] = [on |-> {r}, user |-> t.user, password |-> p]]
  /\ UNCHANGED <<startup, users, tokens, faults, chosen>>

\* The row may be gone, or be that of a new user of this name.
UpdatePasswordHash(q) ==
  LET u == change[q].user
      p == change[q].password
  IN
  /\ change[q] # NoWrite
  /\ IF users[u] = NoUser THEN UNCHANGED <<users, chosen>>
     ELSE /\ users' = [users EXCEPT ![u].password = p]
          /\ chosen' = [chosen EXCEPT ![u] = p]
  /\ change' = [change EXCEPT ![q] = NoWrite]
  /\ UNCHANGED <<startup, tokens, faults>>

CreateUser(r, t, u, admin) ==
  /\ Accepts(r, t) /\ t.admin
  /\ users[u] = NoUser
  /\ users' = [users EXCEPT ![u] = [password |-> "initial", admin |-> admin]]
  /\ chosen' = [chosen EXCEPT ![u] = "none"]
  /\ UNCHANGED <<startup, tokens, change, faults>>

\* Mutant: the admin user can be deleted.
MutDeleteUser(r, t, u) ==
  /\ Accepts(r, t) /\ t.admin
  /\ users[u] # NoUser
  /\ users' = [users EXCEPT ![u] = NoUser]
  /\ UNCHANGED <<startup, tokens, change, faults, chosen>>

DeleteUser(r, t, u) ==
  /\ Accepts(r, t) /\ t.admin
  /\ u # "admin"
  /\ users[u] # NoUser
  /\ users' = [users EXCEPT ![u] = NoUser]
  /\ UNCHANGED <<startup, tokens, change, faults, chosen>>

-----------------------------------------------------------------------------
StartUp(r) ==
  \/ Boot(r) \/ Migrate(r) \/ MigrateDone(r) \/ HasAnyUser(r) \/ SeedAdmin(r)
  \/ GetKey(r) \/ CreateKey(r) \/ Listen(r)

Serve(r) ==
  \/ \E u \in Names : Login(r, u)
  \/ \E t \in tokens :
       \/ \E q \in Requests, p \in Passwords : ChangePassword(q, r, t, p)
       \/ \E u \in Names : DeleteUser(r, t, u)
       \/ \E u \in Names, admin \in BOOLEAN : CreateUser(r, t, u, admin)

Next ==
  \/ \E r \in Replicas : StartUp(r) \/ Fail(r) \/ Serve(r)
  \/ \E q \in Requests : UpdatePasswordHash(q)
  \/ \E t \in tokens : Expire(t)

Spec == Init /\ [][Next]_vars

\* A process runs on and a stopped one is started again.  Nothing is assumed of
\* the clients.
FairSpec == Spec /\ \A r \in Replicas : WF_vars(StartUp(r))

-----------------------------------------------------------------------------
(* Properties. *)

\* A token that has not expired is accepted by every replica that serves,
\* whichever replica issued it, whichever of them raced to create the signing
\* key, and however many were restarted since.
TokensAccepted ==
  \A r \in Replicas, t \in tokens : phase[r] = "serving" => Accepts(r, t)

\* A password its user has set stays: no replica that starts later, and none
\* that had found the table empty before, seeds the admin's row over it.
PasswordKept ==
  \A u \in Names : users[u] # NoUser /\ chosen[u] # "none" => users[u].password = chosen[u]

\* A platform that has users has the admin user: a start that finds any user
\* would not seed the admin's row again.
AdminStays ==
  (\E u \in Names : users[u] # NoUser) => users["admin"] # NoUser /\ users["admin"].admin

\* Every replica comes to serve, after the races it loses and the faults of its
\* calls, unless a migration was interrupted, which leaves the schema dirty.
Interrupted == schema = "dirty" /\ \A r \in Replicas : phase[r] # "migrating"

EventuallyServes ==
  \A r \in Replicas : phase[r] # "serving" ~> phase[r] = "serving" \/ Interrupted
=============================================================================
