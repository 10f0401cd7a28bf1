------------------------------ MODULE Sessions ------------------------------
(***************************************************************************)
(* Who reaches which workspace, and for how long.  A login puts the slug   *)
(* of one of the user's workspaces into a token, requests are let through  *)
(* by the token alone (auth.Middleware, RateLimit, WorkspaceRequired), and *)
(* members come and go meanwhile.  A stream of events or logs is a request *)
(* too, let through once: what it delivers later is not checked again, and *)
(* it ends when the client leaves.  The limiter and its clock are those of *)
(* RateLimiter, the metrics queries those of MetricsQuery.                 *)
(*                                                                         *)
(* Rows of accounts, workspaces and members are named by user name and     *)
(* slug: the cascades leave no member row of an earlier account or         *)
(* workspace of the same name.  Roles are left out: no handler looks at    *)
(* one.  A request other than a stream is one step; a login is two, and    *)
(* any time may pass between them.  The slots of streams are those of      *)
(* EventStreams and are not counted here.                                  *)
(***************************************************************************)
EXTENDS RateLimiter, MetricsQuery

CONSTANTS
  TTL,        \* expiry of a token
  MaxTokens,  \* bound: tokens issued in a behaviour
  MaxChanges, \* bound: changes an admin makes in a behaviour
  MaxStreams  \* bound: streams open at a time

Idle    == "idle"
NoLogin == [slug |-> Idle, read |-> 0]

ASSUME SessionsAssumption ==
  /\ TTL \in Nat \ {0}
  /\ {MaxTokens, MaxChanges, MaxStreams} \subseteq Nat
  /\ Idle \notin Slugs \cup {NoSlug}

VARIABLES
  accounts,   \* the user names in the table users
  spaces,     \* the slugs in the table workspaces
  members,    \* workspace_members: pairs of slug and user name
  login,      \* user -> the slug a login has read and when, Idle when none is
              \* under way
  tokens,     \* the tokens issued; read is a history: when the slug was read
  streams,    \* the streams that are open, as the accesses they were let through as
  changes,    \* changes made by an admin so far
  reached,    \* history: the accesses by which the last step touched a workspace's
              \* data
  left        \* history: <<slug, user>> -> when it last stopped being a
              \* member, -1 if never

limiter     == <<buckets, answer, granted>>
sessionVars == <<vars, accounts, spaces, members, login, tokens,
                 streams, changes, reached, left>>

Claims == Slugs \cup {NoSlug}

\* An access: to which workspace, by whom, when it was let through, and how long
\* the login of its token had taken between reading and issuing.
Accesses(until) == [slug : Slugs, user : Users, at : 0..until, late : 0..until]

SessionsTypeOK ==
  /\ TypeOK
  /\ accounts \subseteq Users
  /\ spaces \subseteq Slugs
  /\ members \subseteq spaces \X accounts
  /\ login \in [Users -> [slug : Claims \cup {Idle}, read : 0..now]]
  /\ tokens \subseteq [user : Users, slug : Claims, read : 0..now, iat : 0..now]
  /\ streams \subseteq Accesses(now)
  /\ changes \in 0..MaxChanges
  /\ reached \subseteq Accesses(now)
  /\ left \in [Slugs \X Users -> -1..now]

SessionsInit ==
  /\ Init
  /\ accounts = {}
  /\ spaces = {}
  /\ members = {}
  /\ login = [u \in Users |-> NoLogin]
  /\ tokens = {}
  /\ streams = {}
  /\ changes = 0
  /\ reached = {}
  /\ left = [p \in Slugs \X Users |-> -1]

Passes ==
  /\ Tick
  /\ reached' = {}
  /\ UNCHANGED <<accounts, spaces, members, login, tokens, streams, changes, left>>

-----------------------------------------------------------------------------
(* The tables, as the statements of db.go change them. *)

Gone(pairs) ==
  /\ members' = members \ pairs
  /\ left' = [p \in Slugs \X Users |-> IF p \in members \cap pairs THEN now ELSE left[p]]

\* Mutant: the row is inserted without looking the two names up.
MutAddWorkspaceMember(s, u) ==
  /\ members' = members \cup {<<s, u>>}
  /\ UNCHANGED left

\* INSERT ... SELECT: without the workspace or the account it inserts nothing.
AddWorkspaceMember(s, u) ==
  /\ members' = members \cup ({<<s, u>>} \cap (spaces \X accounts))
  /\ UNCHANGED left

RemoveWorkspaceMember(s, u) == Gone({<<s, u>>})

\* AdminRoutes and UserHandler, called by an admin whose own bucket is left out.
Administer ==
  /\ changes < MaxChanges
  /\ changes' = changes + 1
  /\ \/ \E u \in Users \ accounts :
          accounts' = accounts \cup {u} /\ UNCHANGED <<spaces, members, left>>
     \/ \E u \in accounts :
          accounts' = accounts \ {u} /\ Gone(Slugs \X {u}) /\ UNCHANGED spaces
     \/ \E s \in Slugs \ spaces :
          spaces' = spaces \cup {s} /\ UNCHANGED <<accounts, members, left>>
     \/ \E s \in spaces :
          spaces' = spaces \ {s} /\ Gone({s} \X Users) /\ UNCHANGED accounts
     \/ \E s \in Slugs, u \in Users :
          /\ AddWorkspaceMember(s, u) \/ RemoveWorkspaceMember(s, u)
          /\ UNCHANGED <<accounts, spaces>>
  /\ reached' = {}
  /\ UNCHANGED <<now, limiter, login, tokens, streams>>

-----------------------------------------------------------------------------
(* AuthHandler.Login *)

Memberships(u) == {s \in Slugs : <<s, u>> \in members}

\* GetUserWorkspace: LIMIT 1 without an order.  Without a membership, or when
\* the query fails, the token names no workspace.
LoginRead(u) ==
  /\ u \in accounts
  /\ login[u].slug = Idle
  /\ Cardinality(tokens) < MaxTokens
  /\ \E s \in Memberships(u) \cup {NoSlug} :
       login' = [login EXCEPT ![u] = [slug |-> s, read |-> now]]
  /\ reached' = {}
  /\ UNCHANGED <<vars, accounts, spaces, members, tokens, streams, changes, left>>

LoginIssue(u) ==
  /\ login[u].slug # Idle
  /\ tokens' = tokens \cup {[user |-> u, slug |-> login[u].slug, read |-> login[u].read,
                             iat |-> now]}
  /\ login' = [login EXCEPT ![u] = NoLogin]
  /\ reached' = {}
  /\ UNCHANGED <<vars, accounts, spaces, members, streams, changes, left>>

-----------------------------------------------------------------------------
(* A request with a token. *)

\* Mutant: a token is still good when it expires.
MutValid(k) == now <= k.iat + TTL

Valid(k) == now < k.iat + TTL

\* The middleware in its order: an expired token costs nothing, a request
\* without a workspace does.  The request goes on to a handler if it is allowed.
Admit(k) ==
  /\ k \in tokens
  /\ Valid(k)
  /\ Allow(k.user)

Denied(k) ==
  /\ Admit(k)
  /\ ~ answer'[k.user].allowed \/ k.slug = NoSlug
  /\ reached' = {}
  /\ UNCHANGED <<accounts, spaces, members, login, tokens, streams, changes, left>>

Served(k) ==
  /\ Admit(k)
  /\ answer'[k.user].allowed
  /\ k.slug # NoSlug
  /\ UNCHANGED <<accounts, spaces, login, tokens, changes>>

Access(k, s) == [slug |-> s, user |-> k.user, at |-> now, late |-> k.iat - k.read]

Touches(k, slugs) == reached' = {Access(k, s) : s \in slugs}

\* A handler that resolves the slug: an error when there is no such workspace.
View(k) ==
  /\ Served(k)
  /\ Touches(k, {k.slug} \cap spaces)
  /\ UNCHANGED <<streams, members, left>>

\* OwnerRoutes: the workspace is the token's, whatever the user's role.
ManageMembers(k) ==
  /\ Served(k)
  /\ \E u \in Users : AddWorkspaceMember(k.slug, u) \/ RemoveWorkspaceMember(k.slug, u)
  /\ Touches(k, {k.slug} \cap spaces)
  /\ UNCHANGED streams

\* What the expressions bring to light with a token of each workspace.
Answers == [slug \in Slugs |-> {Shown(query, slug) : query \in Queries}]

\* QueryRange does not look for the workspace: the series outlive it.
QueryRange(k) ==
  /\ Served(k)
  /\ \E slugs \in Answers[k.slug] : Touches(k, slugs)
  /\ UNCHANGED <<streams, members, left>>

\* The routes of events and logs: the handler looks for the workspace, and for the
\* deployment or the function in it, before it begins to deliver.
OpenStream(k) ==
  /\ Served(k)
  /\ Cardinality(streams) < MaxStreams
  /\ k.slug \in spaces
  /\ streams' = streams \cup {Access(k, k.slug)}
  /\ Touches(k, {k.slug})
  /\ UNCHANGED <<members, left>>

Request ==
  \E k \in tokens :
    Denied(k) \/ View(k) \/ ManageMembers(k) \/ QueryRange(k) \/ OpenStream(k)

-----------------------------------------------------------------------------
(* The streams that are open. *)

\* The next event of the deployment, or the next lines of the logs: neither the
\* token nor the workspace is looked at again.
Delivers(a) ==
  /\ reached' = {a}
  /\ UNCHANGED <<vars, accounts, spaces, members, login, tokens, streams, changes, left>>

\* The client leaves, or the loop ends on an error.
CloseStream(a) ==
  /\ streams' = streams \ {a}
  /\ reached' = {}
  /\ UNCHANGED <<vars, accounts, spaces, members, login, tokens, changes, left>>

-----------------------------------------------------------------------------
SessionsNext ==
  \/ Passes
  \/ Administer
  \/ \E u \in Users : LoginRead(u) \/ LoginIssue(u)
  \/ Request
  \/ \E a \in streams : Delivers(a) \/ CloseStream(a)

SessionsSpec == SessionsInit /\ [][SessionsNext]_sessionVars

-----------------------------------------------------------------------------
(* Properties. *)

\* The user was a member of the workspace less than a token's lifetime, and what
\* the login took, before the access was let through.
InTime(a) ==
  LET p == <<a.slug, a.user>>
  IN  p \in members \/ (left[p] >= 0 /\ a.at < left[p] + TTL + a.late)

\* The tokens carry the membership that their login has read and nobody revokes
\* them; what bounds that staleness is their expiry.  Whoever reaches a workspace's
\* data is a member, or was let through less than a TTL after it last was one,
\* longer only by the time its login took between reading and issuing.  A stream
\* counts from its opening: it delivers for as long as the client stays, past the
\* end of the membership and of the token, but it was opened in time.
AccessExpires == \A a \in reached : InTime(a)

\* Whatever PromQL is sent with a token: what is let through is answered from
\* exactly those of the series it asks for that belong to the token's workspace.
QueriesScoped == \A k \in tokens : k.slug # NoSlug => AllExact[k.slug]
=============================================================================
