------------------------------ MODULE Accounts ------------------------------
(***************************************************************************)
(* Accounts, workspaces, sessions and join requests of web/saaoe_api.py.   *)
(*                                                                         *)
(* Requests are served by threads that share the tables; every statement is *)
(* a transaction of its own.  A session lives in the browser's cookie: each *)
(* answer writes back the session that its request came with or changed, so *)
(* answers of one browser may overwrite each other.                        *)
(*                                                                         *)
(* A request starts with the reads that it decides by, as one step; what it *)
(* writes comes later.  Passwords are right, analysts are viewers here, and *)
(* manage_members stands for the permissions.                              *)
(***************************************************************************)
EXTENDS Integers, Sequences, FiniteSets

CONSTANTS
  Threads, Browsers, Usernames, Names,   \* Names: what workspaces are called
  Requests,          \* what browsers may ask for
  Installations,     \* tables and cookies to start from
  NoUser, Nothing, SignedOut,
  MaxRequests        \* bound for model checking

Roles    == {"admin", "viewer"}
Policies == {"join_with_code", "request_to_join", "admin_invites_only"}

\* Rows of users, and what a cookie holds.
Rows == [org : Nat \ {0}, role : Roles, active : BOOLEAN, version : Nat \ {0},
         manages : BOOLEAN]
Sessions == [username : Usernames, version : Nat \ {0}, seen : Nat]

RequestSet ==
  [op : {"setup", "signup"}, username : Usernames, name : Names]
  \cup [op : {"join"}, username : Usernames, org : Nat \ {0}]
  \cup [op : {"login", "disable", "enable"}, username : Usernames]
  \cup [op : {"create"}, username : Usernames, role : Roles]
  \cup [op : {"permissions"}, username : Usernames, manages : BOOLEAN]
  \cup [op : {"organization"}, name : Names, policy : STRING]
  \cup [op : {"decide"}, id : Nat \ {0}, status : {"approved", "denied"}]

ASSUME ThreadsAreFinite  == IsFiniteSet(Threads) /\ Threads # {}
ASSUME NoneIsNoRow       == NoUser \notin Rows
ASSUME NoneIsNoSession   == SignedOut # Nothing /\ {SignedOut, Nothing} \cap Sessions = {}
ASSUME RequestsAreTyped  == Requests \subseteq RequestSet
ASSUME BoundIsNat        == MaxRequests \in Nat

\* Members belong to workspaces that exist, and no cookie is newer than its account.
ASSUME InstallationsAreSound ==
  \A i \in Installations :
    /\ i.users \in [Usernames -> Rows \cup {NoUser}]
    /\ i.organizations \in Seq([name : Names, policy : Policies])
    /\ \A u \in Usernames :
         i.users[u] # NoUser => i.users[u].org \in DOMAIN i.organizations
    /\ i.cookies \in [Browsers -> Sessions \cup {Nothing}]
    /\ \A b \in Browsers :
         i.cookies[b] # Nothing =>
           /\ i.users[i.cookies[b].username] # NoUser
           /\ i.cookies[b].version <= i.users[i.cookies[b].username].version
           /\ i.cookies[b].seen = 0

VARIABLES
  users,          \* rows by username, which is UNIQUE
  organizations,  \* rows by id; name is UNIQUE
  join_requests,  \* rows by id
  cookies,        \* cookies[b]: the session that b holds, or Nothing
  threads,        \* what each thread is at
  disabled,       \* history: how often each account has been disabled
  sent            \* requests so far

vars == <<users, organizations, join_requests, cookies, threads, disabled, sent>>
tables == <<users, organizations, join_requests>>

Exists(u)   == users[u] # NoUser
NameUsed(n) == \E o \in DOMAIN organizations : organizations[o].name = n
Pending(u)  == {j \in DOMAIN join_requests :
                  join_requests[j].username = u /\ join_requests[j].status = "pending"}

active_admin_exists ==
  \E u \in Usernames : Exists(u) /\ users[u].role = "admin" /\ users[u].active

\* Variant: policies of earlier versions are kept.
KeepPolicy(policy) == policy

normalize_join_policy(policy) ==
  CASE policy \in Policies      -> policy
    [] policy = "invite_only"   -> "admin_invites_only"
    [] OTHER                    -> "join_with_code"

\* seen is history: the times that the account had been disabled by then.
SessionOf(u) ==
  [username |-> u, version |-> users[u].version, seen |-> disabled[u]]

IdleThread == [pc |-> "idle"]

Init ==
  /\ \E i \in Installations :
       /\ users = i.users
       /\ organizations = i.organizations
       /\ cookies = i.cookies
  /\ join_requests = <<>>
  /\ threads = [t \in Threads |-> IdleThread]
  /\ disabled = [u \in Usernames |-> 0]
  /\ sent = 0

At(t, pc) == threads[t].pc = pc
GoTo(t, pc) == threads' = [threads EXCEPT ![t].pc = pc]

\* All that is left is an answer to b, which writes the session back.
AnswerOf(b, session) == [pc |-> "answer", browser |-> b, session |-> session]
Finish(t) ==
  threads' = [threads EXCEPT ![t] = AnswerOf(threads[t].browser, threads[t].session)]

\* Next lets a thread that is idle receive a request.
Receive(t, thread) ==
  /\ sent' = sent + 1
  /\ threads' = [threads EXCEPT ![t] = thread]
  /\ UNCHANGED <<tables, cookies, disabled>>

\* The request r of b is at pc.  It is about the workspace org, and role is that
\* of the user it inserts.
Take(t, b, r, pc, org, role) ==
  Receive(t, [pc |-> pc, browser |-> b, session |-> cookies[b], request |-> r,
              org |-> org, role |-> role])

-----------------------------------------------------------------------------
(* Who is asking: current_user and require_authentication.                  *)

SignedIn(b) ==
  /\ cookies[b] # Nothing
  /\ users[cookies[b].username].active
  /\ users[cookies[b].username].version = cookies[b].version

Actor(b) == users[cookies[b].username]

Authenticated(b) == active_admin_exists /\ SignedIn(b)

IsAdmin(b) == Authenticated(b) /\ Actor(b).role = "admin"
Manages(b) == Authenticated(b) /\ (Actor(b).role = "admin" \/ Actor(b).manages)

\* The session is of a disabled or revoked account, or has been idle too long.
RejectSession(t, b) ==
  /\ active_admin_exists
  /\ cookies[b] # Nothing
  /\ Receive(t, AnswerOf(b, SignedOut))

\* Malformed, not allowed, or about what does not exist.
Refuse(t, b) == Receive(t, AnswerOf(b, cookies[b]))

-----------------------------------------------------------------------------
(* setup, signup, join, login and logout *)

Setup(t, b, r) ==
  /\ r.op = "setup"
  /\ ~active_admin_exists
  /\ Take(t, b, r, "find", 0, "admin")

Signup(t, b, r) ==
  /\ r.op = "signup"
  /\ ~NameUsed(r.name)
  /\ ~Exists(r.username)
  /\ Take(t, b, r, "find", 0, "admin")

\* Variant: whether a request of the user is pending is not looked up.
JoinAgain(t, b, r) ==
  /\ r.op = "join"
  /\ r.org \in DOMAIN organizations
  /\ ~Exists(r.username)
  /\ organizations[r.org].policy # "admin_invites_only"
  /\ Take(t, b, r,
          IF organizations[r.org].policy = "request_to_join"
          THEN "insert_request" ELSE "insert_user",
          r.org, "viewer")

\* The policy is the one that is read here, with the workspace of the code.
Join(t, b, r) ==
  /\ r.op = "join"
  /\ r.org \in DOMAIN organizations
  /\ ~Exists(r.username)
  /\ Pending(r.username) = {}
  /\ organizations[r.org].policy # "admin_invites_only"
  /\ Take(t, b, r,
          IF organizations[r.org].policy = "request_to_join"
          THEN "insert_request" ELSE "insert_user",
          r.org, "viewer")

\* The session is of the row that is read here.
Login(t, b, r) ==
  /\ r.op = "login"
  /\ active_admin_exists
  /\ Exists(r.username) /\ users[r.username].active
  /\ Receive(t, AnswerOf(b, SessionOf(r.username)))

Logout(t, b) == Receive(t, AnswerOf(b, SignedOut))

\* create_organization: a workspace of that name is taken as it is.
FindOrganization(t) ==
  LET q == threads[t]
      found == {o \in DOMAIN organizations : organizations[o].name = q.request.name}
  IN
  /\ At(t, "find")
  /\ \/ \E o \in found :
          threads' = [threads EXCEPT ![t].pc = "insert_user", ![t].org = o]
     \/ found = {} /\ GoTo(t, "create")
  /\ UNCHANGED <<tables, cookies, disabled, sent>>

CreateOrganization(t) ==
  LET q == threads[t] IN
  /\ At(t, "create")
  /\ ~NameUsed(q.request.name)
  /\ organizations' = Append(organizations,
       [name |-> q.request.name, policy |-> "join_with_code"])
  /\ threads' = [threads EXCEPT ![t].pc = "insert_user",
                                ![t].org = Len(organizations) + 1]
  /\ UNCHANGED <<users, join_requests, cookies, disabled, sent>>

\* What follows the insertion of a user.
AfterInsert(t) ==
  CASE threads[t].request.op = "create" -> Finish(t)
    [] threads[t].request.op = "decide" -> GoTo(t, "mark")
    [] OTHER                            -> GoTo(t, "start")

NewUser(q) == [org |-> q.org, role |-> q.role, active |-> TRUE, version |-> 1,
               manages |-> FALSE]

\* Variant: the row of another user of that name is taken for the new one.
InsertOrIgnoreUser(t) ==
  LET q == threads[t]  u == q.request.username IN
  /\ At(t, "insert_user")
  /\ users' = [users EXCEPT ![u] = IF Exists(u) THEN @ ELSE NewUser(q)]
  /\ AfterInsert(t)
  /\ UNCHANGED <<organizations, join_requests, cookies, disabled, sent>>

\* create_user, and the insertion for an approved request.
InsertUser(t) ==
  LET q == threads[t]  u == q.request.username IN
  /\ At(t, "insert_user")
  /\ ~Exists(u)
  /\ users' = [users EXCEPT ![u] = NewUser(q)]
  /\ AfterInsert(t)
  /\ UNCHANGED <<organizations, join_requests, cookies, disabled, sent>>

\* The new row is read again for the session.
StartSession(t) ==
  /\ At(t, "start")
  /\ threads' = [threads EXCEPT ![t] =
       AnswerOf(threads[t].browser, SessionOf(threads[t].request.username))]
  /\ UNCHANGED <<tables, cookies, disabled, sent>>

InsertRequest(t) ==
  LET q == threads[t] IN
  /\ At(t, "insert_request")
  /\ join_requests' = Append(join_requests,
       [org |-> q.org, username |-> q.request.username, status |-> "pending"])
  /\ Finish(t)
  /\ UNCHANGED <<users, organizations, cookies, disabled, sent>>

-----------------------------------------------------------------------------
(* api_users, api_organization and api_join_requests *)

Create(t, b, r) ==
  /\ r.op = "create"
  /\ Manages(b)
  /\ ~Exists(r.username)
  /\ Take(t, b, r, "insert_user", Actor(b).org, r.role)

\* Variant: members of other workspaces are found as well.
Anybody(b, u) == Exists(u)

\* A member of the actor's workspace.
Colleague(b, u) == Exists(u) /\ users[u].org = Actor(b).org

Disable(t, b, r) ==
  /\ r.op = "disable"
  /\ Manages(b)
  /\ Colleague(b, r.username)
  /\ r.username # cookies[b].username
  /\ Take(t, b, r, "disable", Actor(b).org, "viewer")

Enable(t, b, r) ==
  /\ r.op = "enable"
  /\ Manages(b)
  /\ Colleague(b, r.username)
  /\ Take(t, b, r, "enable", Actor(b).org, "viewer")

\* Only what differs from the permissions read here is written.
Permit(t, b, r) ==
  /\ r.op = "permissions"
  /\ IsAdmin(b)
  /\ Colleague(b, r.username)
  /\ r.manages # users[r.username].manages
  /\ Take(t, b, r, "permit", Actor(b).org, "viewer")

\* Variant: sessions are left as they are.
DisabledOnly(row) == [row EXCEPT !.active = FALSE]

\* One UPDATE disables the account and revokes its sessions.
Disabled(row) == [row EXCEPT !.active = FALSE, !.version = @ + 1]

ChangeMember(t) ==
  LET q == threads[t]  u == q.request.username IN
  /\ q.pc \in {"disable", "enable", "permit"}
  /\ users' = [users EXCEPT ![u] =
       CASE q.pc = "disable" -> Disabled(@)
         [] q.pc = "enable"  -> [@ EXCEPT !.active = TRUE]
         [] q.pc = "permit"  -> [@ EXCEPT !.manages = q.request.manages]]
  /\ disabled' = [disabled EXCEPT ![u] = IF q.pc = "disable" THEN @ + 1 ELSE @]
  /\ Finish(t)
  /\ UNCHANGED <<organizations, join_requests, cookies, sent>>

Reorganize(t, b, r) ==
  /\ r.op = "organization"
  /\ IsAdmin(b)
  /\ organizations[Actor(b).org].name = r.name \/ ~NameUsed(r.name)
  /\ Take(t, b, r, "reorganize", Actor(b).org, "viewer")

\* UNIQUE holds for the new name when it is written.
UpdateOrganization(t) ==
  LET q == threads[t] IN
  /\ At(t, "reorganize")
  /\ \A o \in DOMAIN organizations : organizations[o].name = q.request.name => o = q.org
  /\ organizations' = [organizations EXCEPT ![q.org] =
       [name |-> q.request.name, policy |-> normalize_join_policy(q.request.policy)]]
  /\ Finish(t)
  /\ UNCHANGED <<users, join_requests, cookies, disabled, sent>>

\* A username that is taken by now turns an approval into a denial.
Decide(t, b, r) ==
  /\ r.op = "decide"
  /\ IsAdmin(b)
  /\ r.id \in DOMAIN join_requests
  /\ join_requests[r.id].org = Actor(b).org
  /\ join_requests[r.id].status = "pending"
  /\ LET u == join_requests[r.id].username
         approved == r.status = "approved" /\ ~Exists(u)
     IN Take(t, b,
             [op |-> "decide", id |-> r.id, username |-> u,
              status |-> IF approved THEN "approved" ELSE "denied"],
             IF approved THEN "insert_user" ELSE "mark",
             Actor(b).org, "viewer")

\* The status is written whatever it is by now.
MarkRequest(t) ==
  LET q == threads[t] IN
  /\ At(t, "mark")
  /\ join_requests' = [join_requests EXCEPT ![q.request.id].status = q.request.status]
  /\ Finish(t)
  /\ UNCHANGED <<users, organizations, cookies, disabled, sent>>

-----------------------------------------------------------------------------
(* How a request ends. *)

\* A session that is empty and was not touched is not written back.
Answer(t) ==
  LET q == threads[t] IN
  /\ At(t, "answer")
  /\ cookies' = [cookies EXCEPT ![q.browser] =
       CASE q.session = Nothing   -> @
         [] q.session = SignedOut -> Nothing
         [] OTHER                 -> q.session]
  /\ threads' = [threads EXCEPT ![t] = IdleThread]
  /\ UNCHANGED <<tables, disabled, sent>>

\* A statement fails, on a UNIQUE column or in the storage: storage_error.
Fail(t) ==
  /\ threads[t].pc \notin {"idle", "answer"}
  /\ Finish(t)
  /\ UNCHANGED <<tables, cookies, disabled, sent>>

\* The answer is lost, or the process exits.
Lose(t) ==
  /\ ~At(t, "idle")
  /\ threads' = [threads EXCEPT ![t] = IdleThread]
  /\ UNCHANGED <<tables, cookies, disabled, sent>>

-----------------------------------------------------------------------------
Begin(t, b, r) ==
  \/ Setup(t, b, r) \/ Signup(t, b, r) \/ Join(t, b, r)
  \/ Login(t, b, r)
  \/ Create(t, b, r) \/ Disable(t, b, r) \/ Enable(t, b, r) \/ Permit(t, b, r)
  \/ Reorganize(t, b, r) \/ Decide(t, b, r)

Continue(t) ==
  \/ FindOrganization(t) \/ CreateOrganization(t) \/ InsertUser(t)
  \/ StartSession(t) \/ InsertRequest(t) \/ ChangeMember(t)
  \/ UpdateOrganization(t) \/ MarkRequest(t)
  \/ Answer(t) \/ Fail(t) \/ Lose(t)

Next ==
  \E t \in Threads :
    \/ Continue(t)
    \/ /\ At(t, "idle") /\ sent < MaxRequests
       /\ \E b \in Browsers :
            \/ \E r \in Requests : Begin(t, b, r)
            \/ Logout(t, b) \/ RejectSession(t, b) \/ Refuse(t, b)

Spec == Init /\ [][Next]_vars

-----------------------------------------------------------------------------
(* Properties *)

Pcs == {"find", "create", "insert_user", "start", "insert_request", "disable",
        "enable", "permit", "reorganize", "mark", "answer"}

\* The values that rows, cookies and threads take; sessions and rows refer to
\* accounts and workspaces that exist.
TypeOK ==
  /\ users \in [Usernames -> Rows \cup {NoUser}]
  /\ \A u \in Usernames : Exists(u) => users[u].org \in DOMAIN organizations
  /\ organizations \in Seq([name : Names, policy : Policies])
  /\ join_requests \in Seq([org : DOMAIN organizations, username : Usernames,
                            status : {"pending", "approved", "denied"}])
  /\ cookies \in [Browsers -> Sessions \cup {Nothing}]
  /\ \A b \in Browsers : cookies[b] # Nothing => Exists(cookies[b].username)
  /\ \A t \in Threads :
       \/ threads[t] = IdleThread
       \/ /\ threads[t].pc \in Pcs
          /\ threads[t].browser \in Browsers
          /\ threads[t].session \in Sessions \cup {Nothing, SignedOut}
          /\ threads[t].pc # "answer" =>
               /\ threads[t].org \in {0} \cup DOMAIN organizations
               /\ threads[t].role \in Roles
  /\ disabled \in [Usernames -> Nat]
  /\ sent \in 0 .. MaxRequests

\* An approved join request has its account in the workspace that was asked, and
\* is the only approved one of its username, however many administrators decide
\* it, and whoever signs up under that name in between.
ApprovedHasItsUser ==
  \A j \in DOMAIN join_requests :
    join_requests[j].status = "approved" =>
      /\ Exists(join_requests[j].username)
      /\ users[join_requests[j].username].org = join_requests[j].org
      /\ \A k \in DOMAIN join_requests :
           /\ join_requests[k].status = "approved"
           /\ join_requests[k].username = join_requests[j].username
           => k = j

\* No index stands behind the check for a pending request: those that one username
\* has at a time come from requests that were checked at once.
PendingBounded ==
  \A u \in Usernames : Cardinality(Pending(u)) <= Cardinality(Threads)

\* A session that was started from a row read before the account was disabled is
\* never accepted again, also when the account has been enabled since, when the
\* answer that sets the cookie comes late, or restores the cookie after a logout.
RevokedSessionsStayOut ==
  \A b \in Browsers : SignedIn(b) => cookies[b].seen = disabled[cookies[b].username]

\* A thread takes a step for a member of the workspace o.
ActsFor(o) ==
  \E t \in Threads :
    /\ ~At(t, "idle") /\ threads'[t] # threads[t]
    /\ threads[t].session \in Sessions
    /\ users[threads[t].session.username].org = o

\* What a step may do to accounts, to the settings of workspaces and to join requests.
MembersApart ==
  \A u \in Usernames : Exists(u) =>
    /\ Exists(u)' /\ users'[u].org = users[u].org
    /\ users'[u] # users[u] => ActsFor(users[u].org)
    /\ users[u].active /\ ~users'[u].active => users'[u].version > users[u].version
SettingsApart ==
  \A o \in DOMAIN organizations :
    o \in DOMAIN organizations' /\ (organizations'[o] # organizations[o] => ActsFor(o))
JoinRequestsApart ==
  \A j \in DOMAIN join_requests :
    /\ j \in DOMAIN join_requests'
    /\ join_requests'[j] # join_requests[j] => ActsFor(join_requests[j].org)

\* Workspaces are apart: an account, the settings of a workspace and a join request
\* change by a request from a member of the same workspace only, although the request
\* is checked in one transaction and writes in another, by the id of the row alone.
\* No account is lost, moves to another workspace or becomes inactive without its
\* sessions being revoked.
WorkspacesStayApart == [][MembersApart /\ SettingsApart /\ JoinRequestsApart]_vars

\* docs/priority-fixes.md, User Disablement: prevent_last_admin_disable.  As long
\* as the installation has administrators, one of them is active.
LastAdminStays ==
  (\E u \in Usernames : Exists(u) /\ users[u].role = "admin") => active_admin_exists
=============================================================================
