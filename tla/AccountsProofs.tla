---------------------------- MODULE AccountsProofs ----------------------------
(* Theorems about Accounts for every value of its constants. *)
EXTENDS Accounts, TLAPS, FiniteSetTheorems, SequenceTheorems

JoinRows ==
  [org : Nat \ {0}, username : Usernames, status : {"pending", "approved", "denied"}]

\* What a thread works on, Decide's requests with the username it has looked up.
Decisions == [op : {"decide"}, id : Nat \ {0}, username : Usernames,
              status : {"approved", "denied"}]
Works == [pc : Pcs \ {"answer"}, browser : Browsers,
          session : Sessions \cup {Nothing, SignedOut},
          request : RequestSet \cup Decisions, org : Nat, role : Roles]
Answers == [pc : {"answer"}, browser : Browsers,
            session : Sessions \cup {Nothing, SignedOut}]

TablesTyped ==
  /\ users \in [Usernames -> Rows \cup {NoUser}]
  /\ \A u \in Usernames : Exists(u) => users[u].org \in DOMAIN organizations
  /\ organizations \in Seq([name : Names, policy : Policies])
  /\ join_requests \in Seq(JoinRows)
  /\ \A j \in DOMAIN join_requests : join_requests[j].org \in DOMAIN organizations
  /\ disabled \in [Usernames -> Nat]

\* A session is of an account that exists; it is not newer than the account, and of
\* its present version only if the account has not been disabled since.
SessionConsistent(s) ==
  s \in Sessions =>
    /\ Exists(s.username)
    /\ s.version <= users[s.username].version
    /\ s.version = users[s.username].version => s.seen = disabled[s.username]

\* What a thread knows at its step.
ThreadConsistent(t) ==
  LET q == threads[t]  r == q.request IN
  /\ q.pc # "idle" => SessionConsistent(q.session)
  /\ q.pc \in {"find", "create", "insert_user", "insert_request", "start", "mark"} =>
       r.username \in Usernames
  /\ q.pc \in {"find", "create"} => r.op \in {"setup", "signup"} /\ r.name \in Names
  /\ q.pc \in {"insert_user", "insert_request", "reorganize"} =>
       q.org \in DOMAIN organizations
  /\ q.pc = "insert_request" => r.op = "join"
  /\ q.pc = "insert_user" /\ r.op = "decide" =>
       /\ r \in Decisions /\ r.status = "approved"
       /\ r.id \in DOMAIN join_requests
       /\ join_requests[r.id].username = r.username
       /\ join_requests[r.id].org = q.org
  /\ q.pc = "start" => Exists(r.username)
  /\ q.pc \in {"disable", "enable", "permit"} =>
       r.username \in Usernames /\ Exists(r.username)
  /\ q.pc = "permit" => r.manages \in BOOLEAN
  /\ q.pc = "reorganize" => r.name \in Names
  /\ q.pc = "mark" => r \in Decisions /\ r.id \in DOMAIN join_requests
  /\ q.pc \in Pcs \ {"answer"} => q.org \in {0} \cup DOMAIN organizations

IInv ==
  /\ TablesTyped
  /\ cookies \in [Browsers -> Sessions \cup {Nothing}]
  /\ \A b \in Browsers : SessionConsistent(cookies[b])
  /\ threads \in [Threads -> {IdleThread} \cup Works \cup Answers]
  /\ \A t \in Threads : ThreadConsistent(t)
  /\ sent \in 0 .. MaxRequests

\* A thread that is about to report that it has approved a request has inserted the
\* account itself, so nobody else has for that username.
Approving(t) == At(t, "mark") /\ threads[t].request.status = "approved"

ApprovalsConsistent ==
  /\ ApprovedHasItsUser
  /\ \A t \in Threads : Approving(t) =>
       LET r == threads[t].request IN
       /\ join_requests[r.id].username = r.username
       /\ Exists(r.username) /\ users[r.username].org = join_requests[r.id].org
       /\ \A k \in DOMAIN join_requests :
            join_requests[k].username = r.username => join_requests[k].status # "approved"
       /\ \A s \in Threads \ {t} : Approving(s) => threads[s].request.username # r.username

\* Threads that will insert a join request of u.
Inserting(u) ==
  {t \in Threads : At(t, "insert_request") /\ threads[t].request.username = u}

PendingConsistent ==
  \A u \in Usernames :
    Cardinality(Pending(u)) + Cardinality(Inserting(u)) <= Cardinality(Threads)

-----------------------------------------------------------------------------
(* Shapes *)

LEMMA Shapes ==
  ASSUME IInv, NEW t \in Threads
  PROVE  /\ threads[t].pc \in Pcs \ {"answer"} => threads[t] \in Works
         /\ At(t, "answer") => threads[t] \in Answers
         /\ threads[t].pc # "idle" => threads[t].browser \in Browsers
BY DEF IInv, IdleThread, Works, Answers, Pcs, At

LEMMA RowShape ==
  ASSUME TablesTyped, NEW u \in Usernames, Exists(u)
  PROVE  users[u] \in Rows
BY DEF TablesTyped, Exists

LEMMA OrganizationsShape ==
  ASSUME TablesTyped
  PROVE  /\ DOMAIN organizations = 1 .. Len(organizations) /\ Len(organizations) \in Nat
         /\ DOMAIN join_requests = 1 .. Len(join_requests) /\ Len(join_requests) \in Nat
         /\ \A o \in DOMAIN organizations :
              organizations[o] \in [name : Names, policy : Policies]
         /\ \A j \in DOMAIN join_requests : join_requests[j] \in JoinRows
BY LenProperties, ElementOfSeq DEF TablesTyped

LEMMA RequestShapes ==
  ASSUME NEW r \in RequestSet
  PROVE  /\ r.op \in {"setup", "signup"} => r.username \in Usernames /\ r.name \in Names
         /\ r.op \in {"join", "login", "disable", "enable", "create", "permissions"} =>
              r.username \in Usernames
         /\ r.op = "create" => r.role \in Roles
         /\ r.op = "permissions" => r.manages \in BOOLEAN
         /\ r.op = "organization" => r.name \in Names
         /\ r.op = "decide" => r.id \in Nat \ {0} /\ r.status \in {"approved", "denied"}
BY DEF RequestSet

\* A session that is read from a row is consistent with it.
LEMMA NewSession ==
  ASSUME TablesTyped, NEW u \in Usernames, Exists(u)
  PROVE  /\ SessionOf(u) \in Sessions
         /\ SessionOf(u).username = u /\ SessionOf(u).version = users[u].version
         /\ SessionOf(u).seen = disabled[u]
         /\ SessionConsistent(SessionOf(u))
<1>1. users[u] \in Rows /\ disabled[u] \in Nat
  BY RowShape DEF TablesTyped
<1>2. users[u].version \in Nat \ {0}
  BY <1>1 DEF Rows
<1>3. /\ SessionOf(u) \in Sessions
      /\ SessionOf(u).username = u /\ SessionOf(u).version = users[u].version
      /\ SessionOf(u).seen = disabled[u]
  BY <1>1, <1>2 DEF SessionOf, Sessions
<1> QED
  BY <1>2, <1>3 DEF SessionConsistent

LEMMA NoSession ==
  SessionConsistent(Nothing) /\ SessionConsistent(SignedOut)
BY NoneIsNoSession DEF SessionConsistent

\* A thread is set to x.
LEMMA ThreadSet ==
  ASSUME IInv, NEW t \in Threads, NEW x \in {IdleThread} \cup Works \cup Answers,
         threads' = [threads EXCEPT ![t] = x]
  PROVE  /\ threads' \in [Threads -> {IdleThread} \cup Works \cup Answers]
         /\ threads'[t] = x
         /\ \A s \in Threads \ {t} : threads'[s] = threads[s]
BY DEF IInv

LEMMA ThreadGoes ==
  ASSUME IInv, NEW t \in Threads, threads[t] \in Works, NEW pc \in Pcs \ {"answer"},
         GoTo(t, pc)
  PROVE  /\ threads' \in [Threads -> {IdleThread} \cup Works \cup Answers]
         /\ threads'[t].pc = pc
         /\ threads'[t].session = threads[t].session
         /\ threads'[t].request = threads[t].request
         /\ threads'[t].org = threads[t].org
         /\ \A s \in Threads \ {t} : threads'[s] = threads[s]
<1>1. /\ [threads[t] EXCEPT !.pc = pc] \in Works
      /\ [threads[t] EXCEPT !.pc = pc].pc = pc
      /\ [threads[t] EXCEPT !.pc = pc].session = threads[t].session
      /\ [threads[t] EXCEPT !.pc = pc].request = threads[t].request
      /\ [threads[t] EXCEPT !.pc = pc].org = threads[t].org
  BY DEF Works
<1>2. threads' = [threads EXCEPT ![t] = [threads[t] EXCEPT !.pc = pc]]
  BY DEF GoTo
<1> QED
  BY <1>1, <1>2, ThreadSet

LEMMA ThreadGoesToInsert ==
  ASSUME IInv, NEW t \in Threads, threads[t] \in Works, NEW o \in Nat,
         threads' = [threads EXCEPT ![t].pc = "insert_user", ![t].org = o]
  PROVE  /\ threads' \in [Threads -> {IdleThread} \cup Works \cup Answers]
         /\ threads'[t].pc = "insert_user"
         /\ threads'[t].session = threads[t].session
         /\ threads'[t].request = threads[t].request
         /\ threads'[t].org = o
         /\ \A s \in Threads \ {t} : threads'[s] = threads[s]
<1> DEFINE x == [threads[t] EXCEPT !.pc = "insert_user", !.org = o]
<1>1. /\ x \in Works /\ x.pc = "insert_user" /\ x.org = o
      /\ x.session = threads[t].session /\ x.request = threads[t].request
  BY DEF Works, Pcs
<1>2. threads' = [threads EXCEPT ![t] = x]
  BY DEF IInv
<1> HIDE DEF x
<1> QED
  BY <1>1, <1>2, ThreadSet

\* All that is left is the answer.
LEMMA ThreadAnswers ==
  ASSUME IInv, NEW t \in Threads, threads[t].pc # "idle",
         NEW s \in Sessions \cup {Nothing, SignedOut},
         threads' = [threads EXCEPT ![t] = AnswerOf(threads[t].browser, s)]
  PROVE  /\ threads' \in [Threads -> {IdleThread} \cup Works \cup Answers]
         /\ threads'[t].pc = "answer" /\ threads'[t].session = s
         /\ \A v \in Threads \ {t} : threads'[v] = threads[v]
<1> DEFINE x == AnswerOf(threads[t].browser, s)
<1>1. x \in Answers /\ x.pc = "answer" /\ x.session = s
  BY Shapes DEF AnswerOf, Answers
<1> HIDE DEF x
<1> QED
  BY <1>1, ThreadSet DEF x

LEMMA ThreadFinishes ==
  ASSUME IInv, NEW t \in Threads, threads[t] \in Works, Finish(t)
  PROVE  /\ threads' \in [Threads -> {IdleThread} \cup Works \cup Answers]
         /\ threads'[t].pc = "answer" /\ threads'[t].session = threads[t].session
         /\ \A v \in Threads \ {t} : threads'[v] = threads[v]
<1>1. /\ threads[t].session \in Sessions \cup {Nothing, SignedOut}
      /\ threads[t].pc # "idle"
  BY DEF Works, Pcs
<1> QED
  BY <1>1, ThreadAnswers DEF Finish

-----------------------------------------------------------------------------
(* How one step may change the tables *)

Grows ==
  /\ \A u \in Usernames : Exists(u) =>
       /\ Exists(u)'
       /\ users'[u].org = users[u].org
       /\ \/ users'[u].version = users[u].version /\ disabled'[u] = disabled[u]
          \/ users'[u].version = users[u].version + 1
  /\ DOMAIN organizations \subseteq DOMAIN organizations'
  /\ \A j \in DOMAIN join_requests :
       /\ j \in DOMAIN join_requests'
       /\ join_requests'[j].username = join_requests[j].username
       /\ join_requests'[j].org = join_requests[j].org

LEMMA NothingGrows ==
  ASSUME TablesTyped, UNCHANGED <<tables, disabled>>
  PROVE  TablesTyped' /\ Grows
<1>1. UNCHANGED <<users, organizations, join_requests, disabled>>
  BY DEF tables
<1> QED
  BY <1>1 DEF TablesTyped, Grows, Exists

\* One row of users is written.
LEMMA UserWritten ==
  ASSUME TablesTyped, NEW u \in Usernames, NEW row \in Rows,
         users' = [users EXCEPT ![u] = row], row.org \in DOMAIN organizations,
         UNCHANGED <<organizations, join_requests>>,
         disabled' \in [Usernames -> Nat],
         \A v \in Usernames \ {u} : disabled'[v] = disabled[v],
         Exists(u) =>
           /\ row.org = users[u].org
           /\ \/ row.version = users[u].version /\ disabled'[u] = disabled[u]
              \/ row.version = users[u].version + 1
  PROVE  TablesTyped' /\ Grows
<1>1. /\ users' \in [Usernames -> Rows \cup {NoUser}]
      /\ users'[u] = row /\ \A v \in Usernames \ {u} : users'[v] = users[v]
  BY DEF TablesTyped
<1>2. row # NoUser
  BY NoneIsNoRow
<1>3. TablesTyped'
  BY <1>1 DEF TablesTyped, Exists
<1>4. Grows
  BY <1>1, <1>2 DEF Grows, Exists
<1> QED
  BY <1>3, <1>4

LEMMA InsertUserGrows ==
  ASSUME IInv, NEW t \in Threads, InsertUser(t)
  PROVE  TablesTyped' /\ Grows
<1> DEFINE q == threads[t]  u == q.request.username
<1>1. q \in Works /\ u \in Usernames /\ q.org \in DOMAIN organizations
  BY Shapes DEF InsertUser, At, Pcs, IInv, ThreadConsistent
<1>2. q.org \in Nat \ {0} /\ q.role \in Roles
  BY <1>1, OrganizationsShape DEF Works, IInv
<1>3. NewUser(q) \in Rows /\ NewUser(q).org = q.org
  BY <1>2 DEF NewUser, Rows
<1> QED
  BY <1>1, <1>3, UserWritten DEF InsertUser, IInv, TablesTyped

LEMMA ChangeMemberGrows ==
  ASSUME IInv, NEW t \in Threads, ChangeMember(t)
  PROVE  TablesTyped' /\ Grows
<1> DEFINE q == threads[t]  u == q.request.username
<1>1. /\ q.pc \in {"disable", "enable", "permit"} /\ u \in Usernames /\ Exists(u)
      /\ q.pc = "permit" => q.request.manages \in BOOLEAN
  BY DEF ChangeMember, IInv, ThreadConsistent
<1>2. users[u] \in Rows /\ users[u].org \in DOMAIN organizations
  BY <1>1, RowShape DEF IInv, TablesTyped
<1>3. disabled' \in [Usernames -> Nat]
      /\ (\A v \in Usernames \ {u} : disabled'[v] = disabled[v])
      /\ (q.pc # "disable" => disabled' = disabled)
  BY <1>1 DEF ChangeMember, IInv, TablesTyped
<1>4. PICK row \in Rows : /\ users' = [users EXCEPT ![u] = row]
                          /\ row.org = users[u].org
                          /\ IF q.pc = "disable" THEN row.version = users[u].version + 1
                                                 ELSE row.version = users[u].version
  <2>1. CASE q.pc = "disable"
    <3>1. /\ Disabled(users[u]) \in Rows /\ Disabled(users[u]).org = users[u].org
          /\ Disabled(users[u]).version = users[u].version + 1
      <4>1. /\ users[u].version \in Nat \ {0} /\ users[u].version + 1 \in Nat \ {0}
            /\ Disabled(users[u]) = [users[u] EXCEPT !.active = FALSE,
                                                    !.version = users[u].version + 1]
        BY <1>2 DEF Disabled, Rows
      <4>2. \A v \in Nat \ {0} :
              /\ [users[u] EXCEPT !.active = FALSE, !.version = v] \in Rows
              /\ [users[u] EXCEPT !.active = FALSE, !.version = v].org = users[u].org
              /\ [users[u] EXCEPT !.active = FALSE, !.version = v].version = v
        BY <1>2 DEF Rows
      <4> QED
        BY <4>1, <4>2
    <3>2. users' = [users EXCEPT ![u] = Disabled(users[u])]
      BY <2>1 DEF ChangeMember
    <3> QED
      BY <2>1, <3>1, <3>2
  <2>2. CASE q.pc = "enable"
    <3> DEFINE row == [users[u] EXCEPT !.active = TRUE]
    <3>1. row \in Rows /\ row.org = users[u].org /\ row.version = users[u].version
      BY <1>2 DEF Rows
    <3>2. users' = [users EXCEPT ![u] = row]
      BY <2>2 DEF ChangeMember
    <3> QED
      BY <2>2, <3>1, <3>2
  <2>3. CASE q.pc = "permit"
    <3>1. \A m \in BOOLEAN : /\ [users[u] EXCEPT !.manages = m] \in Rows
                             /\ [users[u] EXCEPT !.manages = m].org = users[u].org
                             /\ [users[u] EXCEPT !.manages = m].version = users[u].version
      BY <1>2 DEF Rows
    <3>2. users' = [users EXCEPT ![u] = [users[u] EXCEPT !.manages = q.request.manages]]
      BY <2>3 DEF ChangeMember
    <3> QED
      BY <1>1, <2>3, <3>1, <3>2
  <2> QED
    BY <1>1, <2>1, <2>2, <2>3
<1>5. UNCHANGED <<organizations, join_requests>>
  BY DEF ChangeMember
<1> QED
  BY <1>1, <1>2, <1>3, <1>4, <1>5, UserWritten DEF IInv

LEMMA OrganizationsGrow ==
  ASSUME IInv, NEW t \in Threads, CreateOrganization(t) \/ UpdateOrganization(t)
  PROVE  /\ TablesTyped' /\ Grows
         /\ CreateOrganization(t) => Len(organizations) + 1 \in DOMAIN organizations'
<1> DEFINE q == threads[t]
<1>1. TablesTyped /\ q.request.name \in Names
  BY DEF CreateOrganization, UpdateOrganization, At, IInv, ThreadConsistent
<1>2. /\ organizations' \in Seq([name : Names, policy : Policies])
      /\ DOMAIN organizations \subseteq DOMAIN organizations'
      /\ CreateOrganization(t) => Len(organizations) + 1 \in DOMAIN organizations'
  <2>1. CASE CreateOrganization(t)
    <3>1. [name |-> q.request.name, policy |-> "join_with_code"]
            \in [name : Names, policy : Policies]
      BY <1>1 DEF Policies
    <3> QED
      BY <1>1, <2>1, <3>1, OrganizationsShape DEF CreateOrganization, TablesTyped
  <2>2. CASE UpdateOrganization(t)
    <3> DEFINE new == [name |-> q.request.name,
                       policy |-> normalize_join_policy(q.request.policy)]
    <3>1. new \in [name : Names, policy : Policies]
      BY <1>1 DEF normalize_join_policy, Policies
    <3>2. q.org \in 1 .. Len(organizations)
      BY <1>1, <2>2, OrganizationsShape DEF UpdateOrganization, At, IInv, ThreadConsistent
    <3>3. organizations' = [organizations EXCEPT ![q.org] = new]
      BY <2>2 DEF UpdateOrganization
    <3>4. ~CreateOrganization(t)
      BY <2>2 DEF UpdateOrganization, CreateOrganization, At
    <3> HIDE DEF new
    <3> QED
      BY <1>1, <3>1, <3>2, <3>3, <3>4, ExceptSeq, LenProperties DEF TablesTyped
  <2> QED
    BY <2>1, <2>2
<1>3. UNCHANGED <<users, join_requests, disabled>>
  BY DEF CreateOrganization, UpdateOrganization
<1> QED
  BY <1>1, <1>2, <1>3 DEF TablesTyped, Grows, Exists

LEMMA JoinRequestsGrow ==
  ASSUME IInv, NEW t \in Threads, InsertRequest(t) \/ MarkRequest(t)
  PROVE  TablesTyped' /\ Grows
<1> DEFINE q == threads[t]
<1>1. TablesTyped /\ UNCHANGED <<users, organizations, disabled>>
  BY DEF InsertRequest, MarkRequest, IInv
<1>2. CASE InsertRequest(t)
  <2> DEFINE new == [org |-> q.org, username |-> q.request.username, status |-> "pending"]
  <2>1. /\ q.org \in DOMAIN organizations /\ q.org \in Nat \ {0}
        /\ q.request.username \in Usernames
    BY <1>2, OrganizationsShape DEF InsertRequest, At, IInv, ThreadConsistent
  <2>2. new \in JoinRows /\ new.org \in DOMAIN organizations
    BY <2>1 DEF JoinRows
  <2>3. join_requests' = Append(join_requests, new)
    BY <1>2 DEF InsertRequest
  <2> HIDE DEF new
  <2>4. /\ join_requests' \in Seq(JoinRows)
        /\ DOMAIN join_requests' = DOMAIN join_requests \cup {Len(join_requests) + 1}
        /\ \A j \in DOMAIN join_requests : join_requests'[j] = join_requests[j]
        /\ join_requests'[Len(join_requests) + 1] = new
    BY <1>1, <2>2, <2>3, OrganizationsShape DEF TablesTyped
  <2> QED
    BY <1>1, <2>2, <2>4 DEF TablesTyped, Grows, Exists
<1>3. CASE MarkRequest(t)
  <2> DEFINE id == q.request.id
             new == [join_requests[id] EXCEPT !.status = q.request.status]
  <2>1. id \in 1 .. Len(join_requests) /\ q.request.status \in {"approved", "denied"}
    BY <1>1, <1>3, OrganizationsShape DEF MarkRequest, At, IInv, ThreadConsistent, Decisions
  <2>2. join_requests[id] \in JoinRows
    BY <1>1, <2>1, OrganizationsShape
  <2>3. /\ new \in JoinRows /\ new.org = join_requests[id].org
        /\ new.username = join_requests[id].username
    BY <2>1, <2>2 DEF JoinRows
  <2>4. join_requests' = [join_requests EXCEPT ![id] = new]
    BY <1>3 DEF MarkRequest
  <2> HIDE DEF new, id
  <2>5. /\ join_requests' \in Seq(JoinRows)
        /\ Len(join_requests') = Len(join_requests)
        /\ \A j \in 1 .. Len(join_requests) :
             join_requests'[j] = IF j = id THEN new ELSE join_requests[j]
    BY <1>1, <2>1, <2>3, <2>4, ExceptSeq DEF TablesTyped
  <2>6. DOMAIN join_requests' = DOMAIN join_requests
        /\ DOMAIN join_requests = 1 .. Len(join_requests)
    BY <1>1, <2>5, LenProperties DEF TablesTyped
  <2> QED
    BY <1>1, <2>1, <2>3, <2>5, <2>6 DEF TablesTyped, Grows, Exists
<1> QED
  BY <1>2, <1>3

-----------------------------------------------------------------------------
(* What threads and sessions know stays true *)

LEMMA SessionsStay ==
  ASSUME TablesTyped, TablesTyped', Grows, NEW s \in Sessions, SessionConsistent(s)
  PROVE  /\ users'[s.username] # NoUser
         /\ s.version <= users'[s.username].version
         /\ s.version = users'[s.username].version => s.seen = disabled'[s.username]
<1> DEFINE u == s.username
<1>1. /\ u \in Usernames /\ s.version \in Nat /\ Exists(u)
      /\ s.version <= users[u].version
      /\ s.version = users[u].version => s.seen = disabled[u]
  BY DEF Sessions, SessionConsistent
<1>2. users[u].version \in Nat
  BY <1>1, RowShape DEF Rows
<1>3. /\ users'[u] # NoUser
      /\ \/ users'[u].version = users[u].version /\ disabled'[u] = disabled[u]
         \/ users'[u].version = users[u].version + 1
  BY <1>1 DEF Grows, Exists
<1> QED
  BY <1>1, <1>2, <1>3

LEMMA CookiesStay ==
  ASSUME IInv, TablesTyped', Grows, NEW b \in Browsers, cookies'[b] = cookies[b]
  PROVE  SessionConsistent(cookies[b])'
<1>1. CASE cookies[b] \in Sessions
  <2>1. SessionConsistent(cookies[b])
    BY DEF IInv
  <2> QED
    BY <1>1, <2>1, SessionsStay DEF IInv, SessionConsistent, Exists
<1>2. CASE cookies[b] \notin Sessions
  BY <1>2 DEF SessionConsistent
<1> QED
  BY <1>1, <1>2

\* The session of a thread stays consistent whatever else the thread does.
LEMMA KeptSession ==
  ASSUME IInv, TablesTyped', Grows, NEW t \in Threads, threads[t].pc # "idle",
         threads'[t].session = threads[t].session
  PROVE  SessionConsistent(threads[t].session)'
<1>1. CASE threads[t].session \in Sessions
  <2>1. SessionConsistent(threads[t].session)
    BY DEF IInv, ThreadConsistent
  <2> QED
    BY <1>1, <2>1, SessionsStay DEF IInv, SessionConsistent, Exists
<1>2. CASE threads[t].session \notin Sessions
  BY <1>2 DEF SessionConsistent
<1> QED
  BY <1>1, <1>2

LEMMA ThreadsStay ==
  ASSUME IInv, TablesTyped', Grows, NEW t \in Threads, threads'[t] = threads[t]
  PROVE  ThreadConsistent(t)'
<1>1. ThreadConsistent(t)
  BY DEF IInv
<1>2. threads[t].pc # "idle" => SessionConsistent(threads[t].session)'
  BY KeptSession
<1>3. threads[t].pc = "insert_user" /\ threads[t].request.op = "decide" =>
        LET r == threads[t].request IN
        /\ r \in Decisions /\ r.status = "approved"
        /\ r.id \in DOMAIN join_requests'
        /\ join_requests'[r.id].username = r.username
        /\ join_requests'[r.id].org = threads[t].org
  BY <1>1 DEF ThreadConsistent, Grows
<1>4. threads[t].pc \in {"disable", "enable", "permit", "start"} =>
        threads[t].request.username \in Usernames /\ Exists(threads[t].request.username)
  BY <1>1 DEF ThreadConsistent
<1>5. \A u \in Usernames : Exists(u) => users'[u] # NoUser
  BY DEF Grows, Exists
<1>6. threads[t].pc = "mark" =>
        threads[t].request \in Decisions /\ threads[t].request.id \in DOMAIN join_requests'
  BY <1>1 DEF ThreadConsistent, Grows
<1> QED
  BY <1>1, <1>2, <1>3, <1>4, <1>5, <1>6 DEF ThreadConsistent, Exists, Grows

\* The step of one thread that leaves the cookies alone.
LEMMA OneThread ==
  ASSUME IInv, TablesTyped', Grows, NEW t \in Threads,
         threads' \in [Threads -> {IdleThread} \cup Works \cup Answers],
         \A s \in Threads \ {t} : threads'[s] = threads[s],
         ThreadConsistent(t)', UNCHANGED cookies, sent' \in 0 .. MaxRequests
  PROVE  IInv'
<1>1. \A s \in Threads : ThreadConsistent(s)'
  BY ThreadsStay
<1>2. \A b \in Browsers : SessionConsistent(cookies[b])'
  BY CookiesStay
<1> QED
  BY <1>1, <1>2 DEF IInv

-----------------------------------------------------------------------------
(* A request begins *)

\* A request is answered at once.
LEMMA AnsweredAtOnce ==
  ASSUME IInv, NEW t \in Threads, NEW b \in Browsers, sent < MaxRequests,
         NEW s \in Sessions \cup {Nothing, SignedOut}, SessionConsistent(s),
         Receive(t, AnswerOf(b, s))
  PROVE  IInv'
<1> DEFINE x == AnswerOf(b, s)
<1>1. x \in Answers /\ x.pc = "answer" /\ x.session = s
  BY DEF AnswerOf, Answers
<1>2. UNCHANGED <<tables, disabled>> /\ UNCHANGED cookies
  BY DEF Receive
<1>3. TablesTyped' /\ Grows
  BY <1>2, NothingGrows DEF IInv
<1>4. threads' = [threads EXCEPT ![t] = x]
  BY DEF Receive
<1> HIDE DEF x
<1>5. /\ threads' \in [Threads -> {IdleThread} \cup Works \cup Answers]
      /\ threads'[t] = x /\ \A v \in Threads \ {t} : threads'[v] = threads[v]
  BY <1>1, <1>4, ThreadSet
<1>6. SessionConsistent(threads[t].session)'
  BY <1>1, <1>2, <1>5 DEF SessionConsistent, Exists, tables
<1>7. ThreadConsistent(t)'
  BY <1>1, <1>5, <1>6 DEF ThreadConsistent, Pcs
<1>8. sent' \in 0 .. MaxRequests
  BY BoundIsNat DEF Receive, IInv
<1> QED
  BY <1>2, <1>3, <1>5, <1>7, <1>8, OneThread

\* What pc needs to know of the request r and the workspace org.
Supports(pc, r, org) ==
  /\ pc \in Pcs \ {"answer", "start"}
  /\ r \in RequestSet \cup Decisions
  /\ org \in {0} \cup DOMAIN organizations
  /\ pc \in {"find", "create", "insert_user", "insert_request", "mark"} =>
       r.username \in Usernames
  /\ pc \in {"find", "create"} => r.op \in {"setup", "signup"} /\ r.name \in Names
  /\ pc \in {"insert_user", "insert_request", "reorganize"} =>
       org \in DOMAIN organizations
  /\ pc = "insert_request" => r.op = "join"
  /\ pc = "insert_user" /\ r.op = "decide" =>
       /\ r \in Decisions /\ r.status = "approved"
       /\ r.id \in DOMAIN join_requests
       /\ join_requests[r.id].username = r.username
       /\ join_requests[r.id].org = org
  /\ pc \in {"disable", "enable", "permit"} =>
       r.username \in Usernames /\ Exists(r.username)
  /\ pc = "permit" => r.manages \in BOOLEAN
  /\ pc = "reorganize" => r.name \in Names
  /\ pc = "mark" => r \in Decisions /\ r.id \in DOMAIN join_requests

\* A request is taken to be worked on.
LEMMA Taken ==
  ASSUME IInv, NEW t \in Threads, NEW b \in Browsers, sent < MaxRequests,
         NEW r, NEW pc, NEW org, NEW role \in Roles,
         Take(t, b, r, pc, org, role), Supports(pc, r, org)
  PROVE  /\ IInv'
         /\ threads'[t] = [pc |-> pc, browser |-> b, session |-> cookies[b],
                           request |-> r, org |-> org, role |-> role]
         /\ \A v \in Threads \ {t} : threads'[v] = threads[v]
<1> DEFINE x == [pc |-> pc, browser |-> b, session |-> cookies[b], request |-> r,
                 org |-> org, role |-> role]
<1>1. /\ x.pc = pc /\ x.session = cookies[b] /\ x.request = r /\ x.org = org
      /\ x \in Works
  <2>1. org \in Nat /\ cookies[b] \in Sessions \cup {Nothing, SignedOut}
    BY OrganizationsShape DEF IInv, Supports
  <2> QED
    BY <2>1 DEF Works, Supports
<1>2. UNCHANGED <<tables, disabled>> /\ UNCHANGED cookies
  BY DEF Take, Receive
<1>3. TablesTyped' /\ Grows
  BY <1>2, NothingGrows DEF IInv
<1>4. threads' = [threads EXCEPT ![t] = x]
  BY DEF Take, Receive
<1>a. x = [pc |-> pc, browser |-> b, session |-> cookies[b],
                           request |-> r, org |-> org, role |-> role]
  OBVIOUS
<1> HIDE DEF x
<1>5. /\ threads' \in [Threads -> {IdleThread} \cup Works \cup Answers]
      /\ threads'[t] = x /\ \A v \in Threads \ {t} : threads'[v] = threads[v]
  BY <1>1, <1>4, ThreadSet
<1>6. SessionConsistent(threads[t].session)'
  <2>1. SessionConsistent(cookies[b])
    BY DEF IInv
  <2> QED
    BY <1>1, <1>2, <1>5, <2>1 DEF SessionConsistent, Exists, tables
<1>7. ThreadConsistent(t)'
  BY <1>1, <1>2, <1>5, <1>6 DEF ThreadConsistent, Supports, Exists, tables
<1>8. sent' \in 0 .. MaxRequests
  BY BoundIsNat DEF Take, Receive, IInv
<1> QED
  BY <1>2, <1>3, <1>5, <1>7, <1>8, <1>a, OneThread

\* Who asks belongs to a workspace that exists.
LEMMA ActorsOrganization ==
  ASSUME IInv, NEW b \in Browsers, SignedIn(b)
  PROVE  Actor(b).org \in DOMAIN organizations
<1>1. cookies[b] \in Sessions /\ SessionConsistent(cookies[b])
  BY DEF IInv, SignedIn
<1>2. cookies[b].username \in Usernames /\ Exists(cookies[b].username)
  BY <1>1 DEF SessionConsistent, Sessions
<1> QED
  BY <1>2 DEF IInv, TablesTyped, Actor

LEMMA BeginStep ==
  ASSUME IInv, NEW t \in Threads, NEW b \in Browsers, NEW r \in Requests,
         sent < MaxRequests, Begin(t, b, r)
  PROVE  /\ IInv'
         /\ UNCHANGED <<tables, disabled>>
         /\ \A v \in Threads \ {t} : threads'[v] = threads[v]
         /\ threads'[t].pc = "mark" => threads'[t].request.status = "denied"
         /\ threads'[t].pc = "insert_request" => Pending(threads'[t].request.username) = {}
<1> DEFINE Kept == /\ UNCHANGED <<tables, disabled>>
                   /\ \A v \in Threads \ {t} : threads'[v] = threads[v]
<1>0. r \in RequestSet
  BY RequestsAreTyped
<1>1. ASSUME NEW q, NEW pc, NEW org, NEW role, Take(t, b, q, pc, org, role)
      PROVE  UNCHANGED <<tables, disabled>>
  BY <1>1 DEF Take, Receive
<1>2. CASE Setup(t, b, r) \/ Signup(t, b, r)
  <2>1. /\ Take(t, b, r, "find", 0, "admin") /\ r.op \in {"setup", "signup"}
        /\ r.username \in Usernames /\ r.name \in Names
    BY <1>0, <1>2, RequestShapes DEF Setup, Signup
  <2>2. Supports("find", r, 0) /\ "admin" \in Roles
    BY <1>0, <2>1 DEF Supports, Pcs, Roles
  <2>3. /\ IInv' /\ (\A v \in Threads \ {t} : threads'[v] = threads[v])
        /\ threads'[t] = [pc |-> "find", browser |-> b, session |-> cookies[b],
                          request |-> r, org |-> 0, role |-> "admin"]
    BY <2>1, <2>2, Taken
  <2> QED
    BY <1>1, <2>1, <2>3
<1>3. CASE Join(t, b, r)
  <2> DEFINE pc == IF organizations[r.org].policy = "request_to_join"
                   THEN "insert_request" ELSE "insert_user"
  <2>1. /\ Take(t, b, r, pc, r.org, "viewer") /\ r.op = "join"
        /\ r.username \in Usernames /\ r.org \in DOMAIN organizations
        /\ Pending(r.username) = {}
    BY <1>0, <1>3, RequestShapes DEF Join
  <2>2. Supports(pc, r, r.org) /\ pc \in {"insert_request", "insert_user"}
        /\ "viewer" \in Roles
    BY <1>0, <2>1 DEF Supports, Pcs, Roles
  <2> HIDE DEF pc
  <2>3. /\ IInv' /\ (\A v \in Threads \ {t} : threads'[v] = threads[v])
        /\ threads'[t] = [pc |-> pc, browser |-> b, session |-> cookies[b],
                          request |-> r, org |-> r.org, role |-> "viewer"]
    BY <2>1, <2>2, Taken
  <2> QED
    BY <1>1, <2>1, <2>2, <2>3
<1>4. CASE Login(t, b, r)
  <2>1. r.username \in Usernames /\ Exists(r.username)
        /\ Receive(t, AnswerOf(b, SessionOf(r.username)))
    BY <1>0, <1>4, RequestShapes DEF Login
  <2>2. SessionOf(r.username) \in Sessions /\ SessionConsistent(SessionOf(r.username))
    BY <2>1, NewSession DEF IInv
  <2>3. IInv'
    BY <2>1, <2>2, AnsweredAtOnce
  <2>4. Kept /\ threads'[t].pc = "answer"
    BY <2>1 DEF Receive, AnswerOf, IInv
  <2> QED
    BY <2>3, <2>4
<1>5. CASE Create(t, b, r)
  <2>1. /\ Take(t, b, r, "insert_user", Actor(b).org, r.role) /\ r.op = "create"
        /\ r.username \in Usernames /\ r.role \in Roles /\ SignedIn(b)
    BY <1>0, <1>5, RequestShapes DEF Create, Manages, Authenticated
  <2>2. Supports("insert_user", r, Actor(b).org)
    BY <1>0, <2>1, ActorsOrganization DEF Supports, Pcs
  <2>3. /\ IInv' /\ (\A v \in Threads \ {t} : threads'[v] = threads[v])
        /\ threads'[t] = [pc |-> "insert_user", browser |-> b, session |-> cookies[b],
                          request |-> r, org |-> Actor(b).org, role |-> r.role]
    BY <2>1, <2>2, Taken
  <2> QED
    BY <1>1, <2>1, <2>3
<1>6. CASE Disable(t, b, r) \/ Enable(t, b, r) \/ Permit(t, b, r)
  <2>1. PICK pc \in {"disable", "enable", "permit"} :
          /\ Take(t, b, r, pc, Actor(b).org, "viewer")
          /\ r.username \in Usernames /\ Exists(r.username)
          /\ SignedIn(b)
          /\ pc = "permit" => r.manages \in BOOLEAN
    BY <1>0, <1>6, RequestShapes
       DEF Disable, Enable, Permit, Manages, IsAdmin, Authenticated, Colleague
  <2>2. Supports(pc, r, Actor(b).org) /\ "viewer" \in Roles
    BY <1>0, <2>1, ActorsOrganization DEF Supports, Pcs, Roles
  <2>3. /\ IInv' /\ (\A v \in Threads \ {t} : threads'[v] = threads[v])
        /\ threads'[t] = [pc |-> pc, browser |-> b, session |-> cookies[b],
                          request |-> r, org |-> Actor(b).org, role |-> "viewer"]
    BY <2>1, <2>2, Taken
  <2> QED
    BY <1>1, <2>1, <2>3
<1>7. CASE Reorganize(t, b, r)
  <2>1. /\ Take(t, b, r, "reorganize", Actor(b).org, "viewer")
        /\ r.name \in Names /\ SignedIn(b)
    BY <1>0, <1>7, RequestShapes DEF Reorganize, IsAdmin, Authenticated
  <2>2. Supports("reorganize", r, Actor(b).org) /\ "viewer" \in Roles
    BY <1>0, <2>1, ActorsOrganization DEF Supports, Pcs, Roles
  <2>3. /\ IInv' /\ (\A v \in Threads \ {t} : threads'[v] = threads[v])
        /\ threads'[t] = [pc |-> "reorganize", browser |-> b, session |-> cookies[b],
                          request |-> r, org |-> Actor(b).org, role |-> "viewer"]
    BY <2>1, <2>2, Taken
  <2> QED
    BY <1>1, <2>1, <2>3
<1>8. CASE Decide(t, b, r)
  <2> DEFINE u == join_requests[r.id].username
             approved == r.status = "approved" /\ ~Exists(u)
             q == [op |-> "decide", id |-> r.id, username |-> u,
                   status |-> IF approved THEN "approved" ELSE "denied"]
             pc == IF approved THEN "insert_user" ELSE "mark"
  <2>1. /\ Take(t, b, q, pc, Actor(b).org, "viewer")
        /\ r.id \in DOMAIN join_requests /\ SignedIn(b)
        /\ join_requests[r.id].org = Actor(b).org
    BY <1>8 DEF Decide, IsAdmin, Authenticated
  <2>2. u \in Usernames /\ r.id \in Nat \ {0}
    BY <2>1, OrganizationsShape DEF IInv, JoinRows
  <2>3. /\ q \in Decisions /\ q.username = u /\ q.id = r.id
        /\ pc = "insert_user" => q.status = "approved"
        /\ pc = "mark" => q.status = "denied"
    BY <2>2 DEF Decisions
  <2>4. pc \in {"insert_user", "mark"} /\ "viewer" \in Roles
    BY DEF Roles
  <2> HIDE DEF pc, q
  <2>5. Supports(pc, q, Actor(b).org)
    BY <2>1, <2>2, <2>3, <2>4, ActorsOrganization DEF Supports, Pcs
  <2>6. /\ IInv' /\ (\A v \in Threads \ {t} : threads'[v] = threads[v])
        /\ threads'[t] = [pc |-> pc, browser |-> b, session |-> cookies[b],
                          request |-> q, org |-> Actor(b).org, role |-> "viewer"]
    BY <2>1, <2>4, <2>5, Taken
  <2> QED
    BY <1>1, <2>1, <2>3, <2>4, <2>6
<1> QED
  BY <1>2, <1>3, <1>4, <1>5, <1>6, <1>7, <1>8 DEF Begin

LEMMA RefusedStep ==
  ASSUME IInv, NEW t \in Threads, NEW b \in Browsers, sent < MaxRequests,
         Logout(t, b) \/ RejectSession(t, b) \/ Refuse(t, b)
  PROVE  /\ IInv'
         /\ UNCHANGED <<tables, disabled>>
         /\ \A v \in Threads \ {t} : threads'[v] = threads[v]
         /\ threads'[t].pc = "answer"
<1>1. PICK s \in Sessions \cup {Nothing, SignedOut} :
        SessionConsistent(s) /\ Receive(t, AnswerOf(b, s))
  <2>1. SessionConsistent(cookies[b]) /\ cookies[b] \in Sessions \cup {Nothing}
    BY DEF IInv
  <2> QED
    BY <2>1, NoSession DEF Logout, RejectSession, Refuse
<1>2. IInv'
  BY <1>1, AnsweredAtOnce
<1>3. /\ UNCHANGED <<tables, disabled>>
      /\ \A v \in Threads \ {t} : threads'[v] = threads[v]
      /\ threads'[t].pc = "answer"
  BY <1>1 DEF Receive, AnswerOf, IInv
<1> QED
  BY <1>2, <1>3

-----------------------------------------------------------------------------
(* A request goes on *)

\* A thread that is done with its work, or fails at it.
LEMMA FinishStep ==
  ASSUME IInv, NEW t \in Threads, threads[t] \in Works, Finish(t),
         TablesTyped', Grows, UNCHANGED <<cookies, sent>>
  PROVE  /\ IInv'
         /\ threads'[t].pc = "answer"
         /\ \A v \in Threads \ {t} : threads'[v] = threads[v]
<1>1. /\ threads' \in [Threads -> {IdleThread} \cup Works \cup Answers]
      /\ threads'[t].pc = "answer" /\ threads'[t].session = threads[t].session
      /\ \A v \in Threads \ {t} : threads'[v] = threads[v]
  BY ThreadFinishes
<1>2. threads[t].pc # "idle"
  BY DEF Works, Pcs
<1>3. ThreadConsistent(t)'
  BY <1>1, <1>2, KeptSession DEF ThreadConsistent, Pcs
<1> QED
  BY <1>1, <1>3, OneThread DEF IInv

\* A thread that goes on with what it works on.
LEMMA GoingOnStep ==
  ASSUME IInv, NEW t \in Threads, threads[t] \in Works,
         NEW pc \in {"create", "insert_user", "start", "mark"},
         TablesTyped', Grows, UNCHANGED <<cookies, sent>>,
         threads' \in [Threads -> {IdleThread} \cup Works \cup Answers],
         threads'[t].pc = pc, threads'[t].session = threads[t].session,
         threads'[t].request = threads[t].request,
         threads'[t].org \in {0} \cup DOMAIN organizations',
         \A v \in Threads \ {t} : threads'[v] = threads[v],
         threads[t].request.username \in Usernames,
         pc = "create" => threads[t].request.op \in {"setup", "signup"}
                            /\ threads[t].request.name \in Names,
         pc = "insert_user" => threads'[t].org \in DOMAIN organizations'
                                 /\ threads[t].request.op # "decide",
         pc = "start" => users'[threads[t].request.username] # NoUser,
         pc = "mark" => /\ threads[t].request \in Decisions
                        /\ threads[t].request.id \in DOMAIN join_requests
  PROVE  IInv'
<1>1. threads[t].pc # "idle"
  BY DEF Works, Pcs
<1>2. SessionConsistent(threads[t].session)'
  BY <1>1, KeptSession
<1>3. \A j \in DOMAIN join_requests : j \in DOMAIN join_requests'
  BY DEF Grows
<1>4. ThreadConsistent(t)'
  BY <1>2, <1>3 DEF ThreadConsistent, Exists
<1> QED
  BY <1>4, OneThread DEF IInv

LEMMA WorkingAt ==
  ASSUME IInv, NEW t \in Threads,
         \/ FindOrganization(t) \/ CreateOrganization(t) \/ InsertUser(t)
         \/ StartSession(t) \/ InsertRequest(t) \/ ChangeMember(t)
         \/ UpdateOrganization(t) \/ MarkRequest(t) \/ Fail(t)
  PROVE  threads[t] \in Works /\ threads[t].pc \in Pcs \ {"answer"}
<1>1. CASE Fail(t)
  BY <1>1 DEF Fail, IInv, Works, Answers, IdleThread
<1>2. CASE ~Fail(t)
  BY <1>2, Shapes
     DEF FindOrganization, CreateOrganization, InsertUser, StartSession, InsertRequest,
         ChangeMember, UpdateOrganization, MarkRequest, At, Pcs
<1> QED
  BY <1>1, <1>2

LEMMA FindOrganizationStep ==
  ASSUME IInv, NEW t \in Threads, FindOrganization(t)
  PROVE  /\ IInv' /\ UNCHANGED <<tables, disabled>>
         /\ \A v \in Threads \ {t} : threads'[v] = threads[v]
         /\ threads'[t].pc \in {"insert_user", "create"}
<1>1. /\ threads[t] \in Works /\ threads[t].request.username \in Usernames
      /\ threads[t].request.op \in {"setup", "signup"}
      /\ threads[t].request.name \in Names
      /\ threads[t].org \in {0} \cup DOMAIN organizations
  BY WorkingAt DEF FindOrganization, At, IInv, ThreadConsistent, Pcs
<1>2. UNCHANGED <<tables, disabled>> /\ UNCHANGED <<cookies, sent>>
  BY DEF FindOrganization
<1>3. TablesTyped' /\ Grows /\ organizations' = organizations
  BY <1>2, NothingGrows DEF IInv, tables
<1>4. CASE GoTo(t, "create")
  <2>1. /\ threads' \in [Threads -> {IdleThread} \cup Works \cup Answers]
        /\ threads'[t].pc = "create" /\ threads'[t].session = threads[t].session
        /\ threads'[t].request = threads[t].request
        /\ threads'[t].org = threads[t].org
        /\ \A v \in Threads \ {t} : threads'[v] = threads[v]
    BY <1>1, <1>4, ThreadGoes DEF Pcs
  <2> QED
    BY <1>1, <1>2, <1>3, <2>1, GoingOnStep
<1>5. CASE ~GoTo(t, "create")
  <2>1. PICK o \in DOMAIN organizations :
          threads' = [threads EXCEPT ![t].pc = "insert_user", ![t].org = o]
    BY <1>5 DEF FindOrganization
  <2>2. o \in Nat
    BY OrganizationsShape DEF IInv
  <2>3. /\ threads' \in [Threads -> {IdleThread} \cup Works \cup Answers]
        /\ threads'[t].pc = "insert_user" /\ threads'[t].session = threads[t].session
        /\ threads'[t].request = threads[t].request
        /\ threads'[t].org = o
        /\ \A v \in Threads \ {t} : threads'[v] = threads[v]
    BY <1>1, <2>1, <2>2, ThreadGoesToInsert
  <2> QED
    BY <1>1, <1>2, <1>3, <2>3, GoingOnStep
<1> QED
  BY <1>4, <1>5

LEMMA CreateOrganizationStep ==
  ASSUME IInv, NEW t \in Threads, CreateOrganization(t)
  PROVE  /\ IInv' /\ UNCHANGED <<users, join_requests, disabled>>
         /\ \A v \in Threads \ {t} : threads'[v] = threads[v]
         /\ threads'[t].pc = "insert_user"
<1>1. /\ threads[t] \in Works /\ threads[t].request.username \in Usernames
      /\ threads[t].request.op \in {"setup", "signup"}
  BY WorkingAt DEF CreateOrganization, At, IInv, ThreadConsistent
<1>2. UNCHANGED <<users, join_requests, disabled>> /\ UNCHANGED <<cookies, sent>>
  BY DEF CreateOrganization
<1>3. TablesTyped' /\ Grows /\ Len(organizations) + 1 \in DOMAIN organizations'
  BY OrganizationsGrow
<1>4. Len(organizations) + 1 \in Nat
  BY OrganizationsShape DEF IInv
<1>5. threads' = [threads EXCEPT ![t].pc = "insert_user", ![t].org = Len(organizations) + 1]
  BY DEF CreateOrganization
<1>6. /\ threads' \in [Threads -> {IdleThread} \cup Works \cup Answers]
      /\ threads'[t].pc = "insert_user" /\ threads'[t].session = threads[t].session
      /\ threads'[t].request = threads[t].request
      /\ threads'[t].org = Len(organizations) + 1
      /\ \A v \in Threads \ {t} : threads'[v] = threads[v]
  BY <1>1, <1>4, <1>5, ThreadGoesToInsert
<1> QED
  BY <1>1, <1>2, <1>3, <1>6, GoingOnStep

LEMMA InsertUserStep ==
  ASSUME IInv, NEW t \in Threads, InsertUser(t)
  PROVE  /\ IInv'
         /\ UNCHANGED <<organizations, join_requests, disabled>>
         /\ \A v \in Threads \ {t} : threads'[v] = threads[v]
         /\ threads'[t].pc \in {"answer", "mark", "start"}
         /\ threads'[t].pc = "mark" =>
              /\ threads'[t].request = threads[t].request
              /\ threads[t].request.op = "decide"
<1> DEFINE r == threads[t].request
<1>1. /\ threads[t] \in Works /\ r.username \in Usernames
      /\ threads[t].org \in DOMAIN organizations
      /\ r.op = "decide" => r \in Decisions /\ r.id \in DOMAIN join_requests
  BY WorkingAt DEF InsertUser, At, IInv, ThreadConsistent
<1>2. UNCHANGED <<organizations, join_requests, disabled>> /\ UNCHANGED <<cookies, sent>>
  BY DEF InsertUser
<1>3. TablesTyped' /\ Grows
  BY InsertUserGrows
<1>4. users'[r.username] # NoUser
  <2>1. users'[r.username] = NewUser(threads[t])
    BY <1>1 DEF InsertUser, IInv, TablesTyped
  <2>2. threads[t].org \in Nat \ {0} /\ threads[t].role \in Roles
    BY <1>1, OrganizationsShape DEF Works, IInv
  <2>3. NewUser(threads[t]) \in Rows
    BY <2>2 DEF NewUser, Rows
  <2> QED
    BY <2>1, <2>3, NoneIsNoRow
<1>5. CASE Finish(t)
  BY <1>1, <1>2, <1>3, <1>5, FinishStep
<1>6. ASSUME NEW pc \in {"mark", "start"}, GoTo(t, pc), pc = "mark" => r.op = "decide"
      PROVE  /\ IInv' /\ threads'[t].pc = pc /\ threads'[t].request = r
             /\ \A v \in Threads \ {t} : threads'[v] = threads[v]
  <2>1. /\ threads' \in [Threads -> {IdleThread} \cup Works \cup Answers]
        /\ threads'[t].pc = pc /\ threads'[t].session = threads[t].session
        /\ threads'[t].request = threads[t].request
        /\ threads'[t].org = threads[t].org
        /\ \A v \in Threads \ {t} : threads'[v] = threads[v]
    BY <1>1, <1>6, ThreadGoes DEF Pcs
  <2> QED
    BY <1>1, <1>2, <1>3, <1>4, <1>6, <2>1, GoingOnStep
<1>7. \/ Finish(t) \/ GoTo(t, "start")
      \/ GoTo(t, "mark") /\ r.op = "decide"
  BY DEF InsertUser, AfterInsert
<1> QED
  BY <1>2, <1>3, <1>1, <1>5, <1>6, <1>7, FinishStep

LEMMA StartSessionStep ==
  ASSUME IInv, NEW t \in Threads, StartSession(t)
  PROVE  /\ IInv' /\ UNCHANGED <<tables, disabled>>
         /\ \A v \in Threads \ {t} : threads'[v] = threads[v]
         /\ threads'[t].pc = "answer"
<1> DEFINE u == threads[t].request.username
<1>1. u \in Usernames /\ Exists(u) /\ threads[t].pc # "idle"
  BY DEF StartSession, At, IInv, ThreadConsistent
<1>2. SessionOf(u) \in Sessions /\ SessionConsistent(SessionOf(u))
  BY <1>1, NewSession DEF IInv
<1>3. UNCHANGED <<tables, disabled>> /\ UNCHANGED <<cookies, sent>>
  BY DEF StartSession
<1>4. TablesTyped' /\ Grows /\ UNCHANGED users
  BY <1>3, NothingGrows DEF IInv, tables
<1>5. /\ threads' \in [Threads -> {IdleThread} \cup Works \cup Answers]
      /\ threads'[t].pc = "answer" /\ threads'[t].session = SessionOf(u)
      /\ \A v \in Threads \ {t} : threads'[v] = threads[v]
  <2>1. threads' = [threads EXCEPT ![t] = AnswerOf(threads[t].browser, SessionOf(u))]
    BY DEF StartSession
  <2> QED
    BY <1>1, <1>2, <2>1, ThreadAnswers
<1>6. SessionConsistent(threads[t].session)'
  BY <1>2, <1>3, <1>4, <1>5 DEF SessionConsistent, Exists
<1>7. ThreadConsistent(t)'
  BY <1>5, <1>6 DEF ThreadConsistent, Pcs
<1> QED
  BY <1>3, <1>4, <1>5, <1>7, OneThread DEF IInv

LEMMA WriteStep ==
  ASSUME IInv, NEW t \in Threads,
         \/ InsertRequest(t) \/ ChangeMember(t) \/ UpdateOrganization(t) \/ MarkRequest(t)
         \/ Fail(t)
  PROVE  /\ IInv' /\ Grows
         /\ \A v \in Threads \ {t} : threads'[v] = threads[v]
         /\ threads'[t].pc = "answer"
<1>1. threads[t] \in Works
  BY WorkingAt
<1>2. Finish(t) /\ UNCHANGED <<cookies, sent>>
  BY DEF InsertRequest, ChangeMember, UpdateOrganization, MarkRequest, Fail
<1>3. TablesTyped' /\ Grows
  BY JoinRequestsGrow, ChangeMemberGrows, OrganizationsGrow, NothingGrows DEF Fail, IInv
<1> QED
  BY <1>1, <1>2, <1>3, FinishStep

LEMMA EndStep ==
  ASSUME IInv, NEW t \in Threads, Answer(t) \/ Lose(t)
  PROVE  /\ IInv' /\ UNCHANGED <<tables, disabled>>
         /\ \A v \in Threads \ {t} : threads'[v] = threads[v]
         /\ threads'[t].pc = "idle"
<1>1. /\ UNCHANGED <<tables, disabled>> /\ UNCHANGED sent
      /\ threads' = [threads EXCEPT ![t] = IdleThread]
  BY DEF Answer, Lose
<1>2. TablesTyped' /\ Grows /\ UNCHANGED users
  BY <1>1, NothingGrows DEF IInv, tables
<1>3. /\ threads' \in [Threads -> {IdleThread} \cup Works \cup Answers]
      /\ threads'[t] = IdleThread /\ threads'[t].pc = "idle"
      /\ \A v \in Threads \ {t} : threads'[v] = threads[v]
  BY <1>1, ThreadSet DEF IdleThread
<1>4. ThreadConsistent(t)'
  BY <1>3 DEF ThreadConsistent, Pcs
<1>5. CASE Lose(t)
  <2>1. UNCHANGED cookies
    BY <1>5 DEF Lose
  <2> QED
    BY <1>1, <1>2, <1>3, <1>4, <2>1, OneThread DEF IInv
<1>6. CASE Answer(t)
  <2>1. PICK b \in Browsers, s \in Sessions \cup {Nothing, SignedOut} :
          b = threads[t].browser /\ s = threads[t].session /\ SessionConsistent(s)
    BY <1>6, Shapes DEF Answer, At, Answers, IInv, ThreadConsistent
  <2>2. PICK c \in {cookies[b], Nothing, s} :
          cookies' = [cookies EXCEPT ![b] = c] /\ (c = s => s # SignedOut)
    <3>1. CASE s = Nothing
      BY <1>6, <2>1, <3>1, NoneIsNoSession DEF Answer
    <3>2. CASE s = SignedOut
      <4>1. cookies' = [cookies EXCEPT ![b] = Nothing]
        BY <1>6, <2>1, <3>2, NoneIsNoSession DEF Answer
      <4> QED
        BY <3>2, <4>1, NoneIsNoSession
    <3>3. CASE s \notin {Nothing, SignedOut}
      <4>1. cookies' = [cookies EXCEPT ![b] = s]
        BY <1>6, <2>1, <3>3 DEF Answer
      <4> QED
        BY <3>3, <4>1
    <3> QED
      BY <3>1, <3>2, <3>3
  <2>3. c \in Sessions \cup {Nothing} /\ SessionConsistent(c)
    BY <2>1, <2>2, NoSession DEF IInv
  <2>4. /\ cookies' \in [Browsers -> Sessions \cup {Nothing}] /\ cookies'[b] = c
        /\ \A d \in Browsers \ {b} : cookies'[d] = cookies[d]
    BY <2>1, <2>2, <2>3 DEF IInv
  <2>5. SessionConsistent(cookies[b])'
    BY <1>1, <1>2, <2>3, <2>4 DEF SessionConsistent, Exists
  <2>6. \A d \in Browsers : SessionConsistent(cookies[d])'
    BY <1>2, <2>4, <2>5, CookiesStay
  <2>7. \A v \in Threads : ThreadConsistent(v)'
    BY <1>2, <1>3, <1>4, ThreadsStay
  <2> QED
    BY <1>1, <1>2, <1>3, <2>4, <2>6, <2>7 DEF IInv
<1> QED
  BY <1>1, <1>3, <1>5, <1>6

LEMMA InitIInv == Init => IInv
<1> SUFFICES ASSUME Init PROVE IInv
  OBVIOUS
<1>1. PICK i \in Installations :
        users = i.users /\ organizations = i.organizations /\ cookies = i.cookies
  BY DEF Init
<1>2. TablesTyped
  <2>1. join_requests = <<>> /\ join_requests \in Seq(JoinRows)
    BY EmptySeq DEF Init
  <2>2. disabled \in [Usernames -> Nat]
    BY DEF Init
  <2>3. DOMAIN join_requests = {}
    BY <2>1
  <2> QED
    BY <1>1, <2>1, <2>2, <2>3, InstallationsAreSound DEF TablesTyped, Exists
<1>3. cookies \in [Browsers -> Sessions \cup {Nothing}]
  BY <1>1, InstallationsAreSound
<1>4. ASSUME NEW b \in Browsers PROVE SessionConsistent(cookies[b])
  <2>1. ASSUME cookies[b] \in Sessions PROVE SessionConsistent(cookies[b])
    <3>1. cookies[b] # Nothing /\ cookies[b].username \in Usernames
      BY <2>1, NoneIsNoSession DEF Sessions
    <3>2. /\ users[cookies[b].username] # NoUser
          /\ cookies[b].version <= users[cookies[b].username].version
          /\ cookies[b].seen = 0
      BY <1>1, <3>1, InstallationsAreSound
    <3> QED
      BY <3>1, <3>2 DEF SessionConsistent, Exists, Init
  <2> QED
    BY <2>1 DEF SessionConsistent
<1>5. \A t \in Threads : threads[t] = IdleThread /\ threads[t].pc = "idle"
  BY DEF Init, IdleThread
<1>6. \A t \in Threads : ThreadConsistent(t)
  BY <1>5 DEF ThreadConsistent, Pcs
<1>7. threads \in [Threads -> {IdleThread} \cup Works \cup Answers]
      /\ sent \in 0 .. MaxRequests
  BY BoundIsNat DEF Init
<1> QED
  BY <1>2, <1>3, <1>4, <1>6, <1>7 DEF IInv

LEMMA NextIInv == IInv /\ [Next]_vars => IInv'
<1>1. ASSUME IInv, NEW t \in Threads, Continue(t) PROVE IInv'
  BY <1>1, FindOrganizationStep, CreateOrganizationStep, InsertUserStep,
     StartSessionStep, WriteStep, EndStep DEF Continue
<1>2. ASSUME IInv, NEW t \in Threads, sent < MaxRequests, NEW b \in Browsers,
             \/ \E r \in Requests : Begin(t, b, r)
             \/ Logout(t, b) \/ RejectSession(t, b) \/ Refuse(t, b)
      PROVE  IInv'
  BY <1>2, BeginStep, RefusedStep
<1>3. ASSUME IInv, UNCHANGED vars PROVE IInv'
  BY <1>3 DEF vars, tables, IInv, TablesTyped, SessionConsistent, ThreadConsistent, Exists
<1> QED
  BY <1>1, <1>2, <1>3 DEF Next

LEMMA Consistent == Spec => []IInv
BY InitIInv, NextIInv, PTL DEF Spec

\* Rows, cookies and threads keep their types, and sessions and rows refer to accounts
\* and workspaces that exist, for any number of threads, browsers and names.
THEOREM TypeCorrect == Spec => []TypeOK
<1>1. ASSUME IInv PROVE TypeOK
  <2>1. join_requests \in Seq([org : DOMAIN organizations, username : Usernames,
                               status : {"pending", "approved", "denied"}])
    <3> DEFINE S == [org : DOMAIN organizations, username : Usernames,
                     status : {"pending", "approved", "denied"}]
               n == Len(join_requests)
    <3>1. n \in Nat /\ join_requests \in [1 .. n -> JoinRows]
      BY <1>1, LenProperties DEF IInv, TablesTyped
    <3>2. \A j \in 1 .. n : join_requests[j] \in JoinRows
                              /\ join_requests[j].org \in DOMAIN organizations
      BY <1>1, <3>1 DEF IInv, TablesTyped
    <3>3. \A j \in 1 .. n : join_requests[j] \in S
      BY <3>2 DEF JoinRows
    <3> HIDE DEF S, n
    <3>4. join_requests \in [1 .. n -> S]
      BY <3>1, <3>3
    <3>5. join_requests \in Seq(S)
      BY <3>1, <3>4, SeqDef
    <3> QED
      BY <3>5 DEF S
  <2>2. \A b \in Browsers : cookies[b] # Nothing => Exists(cookies[b].username)
    BY <1>1 DEF IInv, SessionConsistent
  <2>3. ASSUME NEW t \in Threads
        PROVE  \/ threads[t] = IdleThread
               \/ /\ threads[t].pc \in Pcs
                  /\ threads[t].browser \in Browsers
                  /\ threads[t].session \in Sessions \cup {Nothing, SignedOut}
                  /\ threads[t].pc # "answer" =>
                       /\ threads[t].org \in {0} \cup DOMAIN organizations
                       /\ threads[t].role \in Roles
    <3>1. ThreadConsistent(t) /\ threads[t] \in {IdleThread} \cup Works \cup Answers
      BY <1>1 DEF IInv
    <3>2. CASE threads[t] \in Works
      <4>1. /\ threads[t].pc \in Pcs \ {"answer"} /\ threads[t].browser \in Browsers
            /\ threads[t].session \in Sessions \cup {Nothing, SignedOut}
            /\ threads[t].role \in Roles
        BY <3>2 DEF Works
      <4> QED
        BY <3>1, <4>1 DEF ThreadConsistent
    <3>3. CASE threads[t] \in Answers
      BY <3>3 DEF Answers, Pcs
    <3> QED
      BY <3>1, <3>2, <3>3
  <2> QED
    BY <1>1, <2>1, <2>2, <2>3 DEF IInv, TablesTyped, TypeOK
<1> QED
  BY <1>1, Consistent, PTL

\* A session from before an account was disabled is never accepted again.
THEOREM RevokedSessionsAreRefused == Spec => []RevokedSessionsStayOut
<1>1. IInv => RevokedSessionsStayOut
  BY DEF IInv, SessionConsistent, RevokedSessionsStayOut, SignedIn
<1> QED
  BY <1>1, Consistent, PTL

-----------------------------------------------------------------------------
(* Approved join requests *)

\* The write of a status to a join request.
LEMMA Marked ==
  ASSUME IInv, NEW t \in Threads, MarkRequest(t)
  PROVE  /\ threads[t].request \in Decisions
         /\ threads[t].request.id \in DOMAIN join_requests
         /\ UNCHANGED <<users, disabled>>
         /\ DOMAIN join_requests' = DOMAIN join_requests
         /\ \A j \in DOMAIN join_requests :
              /\ join_requests'[j].username = join_requests[j].username
              /\ join_requests'[j].org = join_requests[j].org
              /\ join_requests'[j].status = IF j = threads[t].request.id
                                            THEN threads[t].request.status
                                            ELSE join_requests[j].status
<1> DEFINE id == threads[t].request.id
           new == [join_requests[id] EXCEPT !.status = threads[t].request.status]
<1>1. threads[t].request \in Decisions /\ id \in DOMAIN join_requests
  BY DEF MarkRequest, At, IInv, ThreadConsistent
<1>2. join_requests[id] \in JoinRows
  BY <1>1, OrganizationsShape DEF IInv
<1>3. /\ new.org = join_requests[id].org /\ new.username = join_requests[id].username
      /\ new.status = threads[t].request.status /\ new \in JoinRows
  BY <1>1, <1>2 DEF JoinRows, Decisions
<1>4. join_requests' = [join_requests EXCEPT ![id] = new]
      /\ UNCHANGED <<users, disabled>>
  BY DEF MarkRequest
<1> HIDE DEF new
<1>5. /\ Len(join_requests') = Len(join_requests) /\ join_requests' \in Seq(JoinRows)
      /\ \A j \in 1 .. Len(join_requests) :
           join_requests'[j] = IF j = id THEN new ELSE join_requests[j]
  <2>1. join_requests \in Seq(JoinRows) /\ id \in 1 .. Len(join_requests)
    BY <1>1, OrganizationsShape DEF IInv, TablesTyped
  <2> HIDE DEF id
  <2> QED
    BY <1>3, <1>4, <2>1, ExceptSeq
<1>6. DOMAIN join_requests' = DOMAIN join_requests
      /\ DOMAIN join_requests = 1 .. Len(join_requests)
  BY <1>5, LenProperties DEF IInv, TablesTyped
<1> HIDE DEF id
<1> QED
  BY <1>1, <1>3, <1>4, <1>5, <1>6 DEF id

\* A join request is written for u.
LEMMA Requested ==
  ASSUME IInv, NEW t \in Threads, InsertRequest(t)
  PROVE  LET n == Len(join_requests) + 1 IN
         /\ UNCHANGED <<users, disabled>> /\ n \notin DOMAIN join_requests
         /\ DOMAIN join_requests' = DOMAIN join_requests \cup {n}
         /\ \A j \in DOMAIN join_requests : join_requests'[j] = join_requests[j]
         /\ join_requests'[n].username = threads[t].request.username
         /\ join_requests'[n].status = "pending"
<1> DEFINE q == threads[t]
           new == [org |-> q.org, username |-> q.request.username, status |-> "pending"]
<1>1. join_requests' = Append(join_requests, new) /\ UNCHANGED <<users, disabled>>
  BY DEF InsertRequest
<1>2. /\ join_requests \in Seq(JoinRows) /\ Len(join_requests) \in Nat
      /\ DOMAIN join_requests = 1 .. Len(join_requests)
  BY OrganizationsShape DEF IInv, TablesTyped
<1>3. new.username = q.request.username /\ new.status = "pending"
  OBVIOUS
<1>4. new \in JoinRows
  <2>1. q.org \in DOMAIN organizations /\ q.request.username \in Usernames
    BY DEF InsertRequest, At, IInv, ThreadConsistent
  <2>2. q.org \in Nat \ {0}
    BY <2>1, OrganizationsShape DEF IInv
  <2> QED
    BY <2>1, <2>2 DEF JoinRows
<1> HIDE DEF new
<1> QED
  BY <1>1, <1>2, <1>3, <1>4

\* Nobody begins to approve, and no request becomes approved.
LEMMA NothingApproved ==
  ASSUME IInv, ApprovalsConsistent, Grows,
         \A j \in DOMAIN join_requests' :
           join_requests'[j].status = "approved" =>
             j \in DOMAIN join_requests /\ join_requests[j].status = "approved",
         \A s \in Threads : Approving(s)' => Approving(s) /\ threads'[s] = threads[s]
  PROVE  ApprovalsConsistent'
<1>0. \A j \in DOMAIN join_requests : join_requests[j].username \in Usernames
  BY OrganizationsShape DEF IInv, JoinRows
<1>1. ApprovedHasItsUser'
  BY <1>0 DEF ApprovalsConsistent, ApprovedHasItsUser, Grows, Exists
<1>2. ASSUME NEW s \in Threads, Approving(s)'
      PROVE  LET r == threads'[s].request IN
             /\ join_requests'[r.id].username = r.username
             /\ users'[r.username] # NoUser
             /\ users'[r.username].org = join_requests'[r.id].org
             /\ \A k \in DOMAIN join_requests' :
                  join_requests'[k].username = r.username =>
                    join_requests'[k].status # "approved"
             /\ \A v \in Threads \ {s} :
                  Approving(v)' => threads'[v].request.username # r.username
  <2>1. Approving(s) /\ threads'[s] = threads[s]
    BY <1>2
  <2> DEFINE r == threads[s].request
  <2>2. r.id \in DOMAIN join_requests /\ r.username \in Usernames
    BY <2>1 DEF IInv, ThreadConsistent, Approving, At
  <2>3. /\ join_requests'[r.id].username = join_requests[r.id].username
        /\ join_requests'[r.id].org = join_requests[r.id].org
    BY <2>2 DEF Grows
  <2>4. /\ join_requests[r.id].username = r.username
        /\ Exists(r.username) /\ users[r.username].org = join_requests[r.id].org
        /\ \A k \in DOMAIN join_requests :
             join_requests[k].username = r.username => join_requests[k].status # "approved"
        /\ \A v \in Threads \ {s} : Approving(v) => threads[v].request.username # r.username
    BY <2>1 DEF ApprovalsConsistent
  <2>5. users'[r.username] # NoUser /\ users'[r.username].org = users[r.username].org
    BY <2>2, <2>4 DEF Grows, Exists
  <2>6. \A k \in DOMAIN join_requests' :
          join_requests'[k].username = r.username => join_requests'[k].status # "approved"
    BY <2>4 DEF Grows
  <2>7. \A v \in Threads \ {s} : Approving(v)' => threads'[v].request.username # r.username
    BY <2>4
  <2> HIDE DEF r
  <2> QED
    BY <2>1, <2>3, <2>4, <2>5, <2>6, <2>7 DEF r
<1>3. \A s \in Threads : Approving(s)' =>
        LET r == threads'[s].request IN
        /\ join_requests'[r.id].username = r.username
        /\ users'[r.username] # NoUser
        /\ users'[r.username].org = join_requests'[r.id].org
        /\ \A k \in DOMAIN join_requests' :
             join_requests'[k].username = r.username =>
               join_requests'[k].status # "approved"
        /\ \A v \in Threads \ {s} :
             Approving(v)' => threads'[v].request.username # r.username
  BY <1>2
<1> QED
  BY <1>1, <1>3 DEF ApprovalsConsistent, Exists

\* The account of an approved request is inserted.
LEMMA AccountInserted ==
  ASSUME IInv, ApprovalsConsistent, NEW t \in Threads, InsertUser(t), Grows,
         threads'[t].pc = "mark",
         \A v \in Threads \ {t} : threads'[v] = threads[v],
         threads'[t].request = threads[t].request, threads[t].request.op = "decide"
  PROVE  ApprovalsConsistent'
<1> DEFINE q == threads[t]  r == q.request  u == r.username
<1>1. /\ u \in Usernames /\ ~Exists(u) /\ r.id \in DOMAIN join_requests
      /\ join_requests[r.id].username = u /\ join_requests[r.id].org = q.org
  BY DEF InsertUser, At, IInv, ThreadConsistent
<1>2. /\ UNCHANGED join_requests
      /\ users'[u] = NewUser(q)
      /\ \A v \in Usernames \ {u} : users'[v] = users[v]
  BY <1>1 DEF InsertUser, IInv, TablesTyped
<1>3. users'[u] # NoUser /\ users'[u].org = q.org
  <2>1. q \in Works /\ q.org \in DOMAIN organizations
    BY WorkingAt DEF InsertUser, At, IInv, ThreadConsistent
  <2>2. q.org \in Nat \ {0} /\ q.role \in Roles
    BY <2>1, OrganizationsShape DEF Works, IInv
  <2>3. NewUser(q) \in Rows /\ NewUser(q).org = q.org
    BY <2>2 DEF NewUser, Rows
  <2> QED
    BY <1>2, <2>3, NoneIsNoRow
<1>4. \A k \in DOMAIN join_requests :
        join_requests[k].username = u => join_requests[k].status # "approved"
  BY <1>1 DEF ApprovalsConsistent, ApprovedHasItsUser
<1>5. \A s \in Threads : Approving(s) => threads[s].request.username # u
  BY <1>1 DEF ApprovalsConsistent
<1>6. \A k \in DOMAIN join_requests : join_requests[k].username \in Usernames
  BY OrganizationsShape DEF IInv, JoinRows
<1>7. ApprovedHasItsUser'
  BY <1>2, <1>4, <1>6 DEF ApprovalsConsistent, ApprovedHasItsUser, Exists
<1>8. \A s \in Threads \ {t} : Approving(s)' <=> Approving(s)
  BY DEF Approving, At
<1>9. ASSUME NEW s \in Threads \ {t}, Approving(s)
      PROVE  /\ threads[s].request.username \in Usernames \ {u}
             /\ threads[s].request.id \in DOMAIN join_requests
             /\ join_requests[threads[s].request.id].username = threads[s].request.username
  BY <1>5, <1>9 DEF IInv, ThreadConsistent, Approving, At, ApprovalsConsistent
<1> HIDE DEF u, r, q
<1>10. \A s \in Threads : Approving(s)' =>
         LET x == threads'[s].request IN
         /\ join_requests[x.id].username = x.username
         /\ users'[x.username] # NoUser
         /\ users'[x.username].org = join_requests[x.id].org
         /\ \A k \in DOMAIN join_requests :
              join_requests[k].username = x.username => join_requests[k].status # "approved"
         /\ \A v \in Threads \ {s} :
              Approving(v)' => threads'[v].request.username # x.username
  <2>1. ASSUME NEW s \in Threads, Approving(s)'
        PROVE  LET x == threads'[s].request IN
               /\ join_requests[x.id].username = x.username
               /\ users'[x.username] # NoUser
               /\ users'[x.username].org = join_requests[x.id].org
               /\ \A k \in DOMAIN join_requests :
                    join_requests[k].username = x.username =>
                      join_requests[k].status # "approved"
               /\ \A v \in Threads \ {s} :
                    Approving(v)' => threads'[v].request.username # x.username
    <3>1. CASE s = t
      <4>1. threads'[s].request = r
        BY <3>1 DEF r, q
      <4>2. \A v \in Threads \ {t} : Approving(v)' => threads'[v].request.username # r.username
        BY <1>5, <1>8 DEF u
      <4> QED
        BY <1>1, <1>3, <1>4, <3>1, <4>1, <4>2 DEF u
    <3>2. CASE s # t
      <4>1. Approving(s) /\ threads'[s] = threads[s]
        BY <1>8, <2>1, <3>2
      <4>2. \A v \in Threads \ {s} :
              Approving(v)' => threads'[v].request.username # threads[s].request.username
        <5>1. \A v \in Threads \ {s, t} :
                Approving(v)' => threads'[v].request.username # threads[s].request.username
          BY <1>8, <4>1 DEF ApprovalsConsistent
        <5>2. threads'[t].request.username # threads[s].request.username
          BY <1>9, <3>2, <4>1 DEF u, r, q
        <5> QED
          BY <5>1, <5>2
      <4> QED
        BY <1>2, <1>9, <3>2, <4>1, <4>2 DEF ApprovalsConsistent, Exists
    <3> QED
      BY <3>1, <3>2
  <2> QED
    BY <2>1
<1> QED
  BY <1>2, <1>7, <1>10 DEF ApprovalsConsistent, Exists

\* A request becomes approved.
LEMMA ApprovalMarked ==
  ASSUME IInv, ApprovalsConsistent, NEW t \in Threads, MarkRequest(t),
         threads[t].request.status = "approved", threads'[t].pc = "answer",
         \A v \in Threads \ {t} : threads'[v] = threads[v]
  PROVE  ApprovalsConsistent'
<1> DEFINE r == threads[t].request  u == r.username
<1>1. Approving(t)
  BY DEF MarkRequest, Approving
<1>2. /\ r.id \in DOMAIN join_requests /\ UNCHANGED users
      /\ DOMAIN join_requests' = DOMAIN join_requests
      /\ \A j \in DOMAIN join_requests :
           /\ join_requests'[j].username = join_requests[j].username
           /\ join_requests'[j].org = join_requests[j].org
           /\ join_requests'[j].status = IF j = r.id THEN "approved"
                                                     ELSE join_requests[j].status
  BY Marked
<1>3. /\ join_requests[r.id].username = u
      /\ Exists(u) /\ users[u].org = join_requests[r.id].org
      /\ \A k \in DOMAIN join_requests :
           join_requests[k].username = u => join_requests[k].status # "approved"
      /\ \A s \in Threads \ {t} : Approving(s) => threads[s].request.username # u
  BY <1>1 DEF ApprovalsConsistent
<1> HIDE DEF r, u
<1>4. ApprovedHasItsUser'
  BY <1>2, <1>3 DEF ApprovalsConsistent, ApprovedHasItsUser, Exists
<1>5. \A s \in Threads : Approving(s)' => s # t /\ Approving(s) /\ threads'[s] = threads[s]
  BY DEF Approving, At
<1>6. ASSUME NEW s \in Threads, Approving(s)'
      PROVE  LET x == threads'[s].request IN
             /\ join_requests'[x.id].username = x.username
             /\ users'[x.username] # NoUser
             /\ users'[x.username].org = join_requests'[x.id].org
             /\ \A k \in DOMAIN join_requests' :
                  join_requests'[k].username = x.username =>
                    join_requests'[k].status # "approved"
             /\ \A v \in Threads \ {s} :
                  Approving(v)' => threads'[v].request.username # x.username
  <2>1. s # t /\ Approving(s) /\ threads'[s] = threads[s]
    BY <1>5, <1>6
  <2>2. threads[s].request.id \in DOMAIN join_requests /\ threads[s].request.username # u
    BY <1>3, <2>1 DEF IInv, ThreadConsistent, Approving, At
  <2>3. \A v \in Threads \ {s} :
          Approving(v)' => threads'[v].request.username # threads[s].request.username
    BY <1>5, <2>1 DEF ApprovalsConsistent
  <2> QED
    BY <1>2, <1>3, <2>1, <2>2, <2>3 DEF ApprovalsConsistent, Exists
<1>7. \A s \in Threads : Approving(s)' =>
        LET x == threads'[s].request IN
        /\ join_requests'[x.id].username = x.username
        /\ users'[x.username] # NoUser
        /\ users'[x.username].org = join_requests'[x.id].org
        /\ \A k \in DOMAIN join_requests' :
             join_requests'[k].username = x.username => join_requests'[k].status # "approved"
        /\ \A v \in Threads \ {s} :
             Approving(v)' => threads'[v].request.username # x.username
  BY <1>6
<1> QED
  BY <1>4, <1>7 DEF ApprovalsConsistent, Exists

LEMMA NextApprovals == IInv /\ ApprovalsConsistent /\ [Next]_vars => ApprovalsConsistent'
<1> SUFFICES ASSUME IInv, ApprovalsConsistent, [Next]_vars PROVE ApprovalsConsistent'
  OBVIOUS
<1>1. ASSUME NEW t \in Threads, UNCHANGED join_requests, Grows,
             \A v \in Threads \ {t} : threads'[v] = threads[v],
             threads'[t].pc = "mark" => threads'[t].request.status # "approved"
      PROVE  ApprovalsConsistent'
  <2>1. \A s \in Threads : Approving(s)' => Approving(s) /\ threads'[s] = threads[s]
    BY <1>1 DEF Approving, At
  <2> QED
    BY <1>1, <2>1, NothingApproved
<1>2. ASSUME NEW t \in Threads, Continue(t) PROVE ApprovalsConsistent'
  <2>1. CASE FindOrganization(t) \/ StartSession(t) \/ Answer(t) \/ Lose(t)
    <3>1. /\ UNCHANGED <<tables, disabled>>
          /\ \A v \in Threads \ {t} : threads'[v] = threads[v]
          /\ threads'[t].pc # "mark"
      BY <2>1, FindOrganizationStep, StartSessionStep, EndStep
    <3>2. Grows /\ UNCHANGED join_requests
      BY <3>1, NothingGrows DEF IInv, tables
    <3> QED
      BY <1>1, <3>1, <3>2
  <2>2. CASE CreateOrganization(t)
    BY <1>1, <2>2, CreateOrganizationStep, OrganizationsGrow
  <2>3. CASE InsertUser(t)
    <3>1. Grows
      BY <2>3, InsertUserGrows
    <3>2. CASE threads'[t].pc = "mark"
      BY <2>3, <3>1, <3>2, AccountInserted, InsertUserStep
    <3>3. CASE threads'[t].pc # "mark"
      BY <1>1, <2>3, <3>1, <3>3, InsertUserStep
    <3> QED
      BY <3>2, <3>3
  <2>4. CASE ChangeMember(t) \/ UpdateOrganization(t) \/ Fail(t)
    <3>1. UNCHANGED join_requests
      BY <2>4 DEF ChangeMember, UpdateOrganization, Fail, tables
    <3> QED
      BY <1>1, <2>4, <3>1, WriteStep
  <2>5. CASE InsertRequest(t)
    <3>1. /\ Grows /\ \A v \in Threads \ {t} : threads'[v] = threads[v]
          /\ threads'[t].pc = "answer"
      BY <2>5, WriteStep
    <3>2. \A s \in Threads : Approving(s)' => Approving(s) /\ threads'[s] = threads[s]
      BY <3>1 DEF Approving, At
    <3> QED
      BY <2>5, <3>1, <3>2, Requested, NothingApproved
  <2>6. CASE MarkRequest(t)
    <3>1. /\ Grows /\ \A v \in Threads \ {t} : threads'[v] = threads[v]
          /\ threads'[t].pc = "answer"
      BY <2>6, WriteStep
    <3>2. CASE threads[t].request.status = "approved"
      BY <2>6, <3>1, <3>2, ApprovalMarked
    <3>3. CASE threads[t].request.status # "approved"
      <4>1. \A s \in Threads : Approving(s)' => Approving(s) /\ threads'[s] = threads[s]
        BY <3>1 DEF Approving, At
      <4>2. \A j \in DOMAIN join_requests' :
              join_requests'[j].status = "approved" =>
                j \in DOMAIN join_requests /\ join_requests[j].status = "approved"
        BY <2>6, <3>3, Marked
      <4> QED
        BY <3>1, <4>1, <4>2, NothingApproved
    <3> QED
      BY <3>2, <3>3
  <2> QED
    BY <1>2, <2>1, <2>2, <2>3, <2>4, <2>5, <2>6 DEF Continue
<1>3. ASSUME NEW t \in Threads, sent < MaxRequests, NEW b \in Browsers,
             \/ \E r \in Requests : Begin(t, b, r)
             \/ Logout(t, b) \/ RejectSession(t, b) \/ Refuse(t, b)
      PROVE  ApprovalsConsistent'
  <2>1. /\ UNCHANGED <<tables, disabled>>
        /\ \A v \in Threads \ {t} : threads'[v] = threads[v]
        /\ threads'[t].pc = "mark" => threads'[t].request.status # "approved"
    BY <1>3, BeginStep, RefusedStep
  <2>2. Grows /\ UNCHANGED join_requests
    BY <2>1, NothingGrows DEF IInv, tables
  <2> QED
    BY <1>1, <2>1, <2>2
<1>4. CASE UNCHANGED vars
  <2>1. UNCHANGED <<tables, disabled>> /\ UNCHANGED threads
    BY <1>4 DEF vars, tables
  <2>2. Grows /\ UNCHANGED join_requests
    BY <2>1, NothingGrows DEF IInv, tables
  <2> QED
    BY <2>1, <2>2, NothingApproved DEF Approving, At
<1> QED
  BY <1>2, <1>3, <1>4 DEF Next

\* An approved join request has its account where it was asked for, and no other
\* request of its username is approved.
THEOREM ApprovedRequestsHaveTheirUsers == Spec => []ApprovedHasItsUser
<1>1. Init => ApprovalsConsistent
  <2> SUFFICES ASSUME Init PROVE ApprovalsConsistent
    OBVIOUS
  <2>1. DOMAIN join_requests = {} /\ \A t \in Threads : ~Approving(t)
    BY DEF Init, IdleThread, Approving, At
  <2> QED
    BY <2>1 DEF ApprovalsConsistent, ApprovedHasItsUser
<1>2. ApprovalsConsistent => ApprovedHasItsUser
  BY DEF ApprovalsConsistent
<1> QED
  BY <1>1, <1>2, Consistent, NextApprovals, PTL DEF Spec


-----------------------------------------------------------------------------
(* Pending join requests *)

LEMMA PendingFinite ==
  ASSUME IInv, NEW u \in Usernames
  PROVE  /\ IsFiniteSet(Pending(u)) /\ Cardinality(Pending(u)) \in Nat
         /\ IsFiniteSet(Inserting(u)) /\ Cardinality(Inserting(u)) \in Nat
<1>1. DOMAIN join_requests = 1 .. Len(join_requests) /\ Len(join_requests) \in Nat
  BY OrganizationsShape DEF IInv
<1>2. IsFiniteSet(DOMAIN join_requests)
  BY <1>1, FS_Interval
<1>3. IsFiniteSet(Pending(u))
  <2>1. Pending(u) \in SUBSET DOMAIN join_requests
    BY DEF Pending
  <2> QED
    BY <1>2, <2>1, FS_Subset
<1>4. IsFiniteSet(Inserting(u))
  <2>1. Inserting(u) \in SUBSET Threads
    BY DEF Inserting
  <2> QED
    BY <2>1, ThreadsAreFinite, FS_Subset
<1> QED
  BY <1>3, <1>4, FS_CardinalityType

\* What is pending, and who will insert, does not become more for u.
LEMMA PendingShrinks ==
  ASSUME IInv, NEW u \in Usernames,
         Cardinality(Pending(u)) + Cardinality(Inserting(u)) <= Cardinality(Threads),
         NEW P \in SUBSET Pending(u), NEW I \in SUBSET Inserting(u)
  PROVE  Cardinality(P) + Cardinality(I) <= Cardinality(Threads)
<1>1. Cardinality(P) <= Cardinality(Pending(u)) /\ Cardinality(P) \in Nat
  BY PendingFinite, FS_Subset, FS_CardinalityType
<1>2. Cardinality(I) <= Cardinality(Inserting(u)) /\ Cardinality(I) \in Nat
  BY PendingFinite, FS_Subset, FS_CardinalityType
<1>3. Cardinality(Threads) \in Nat
  BY ThreadsAreFinite, FS_CardinalityType
<1> QED
  BY <1>1, <1>2, <1>3, PendingFinite

\* Nothing becomes pending, and no thread comes to insert a request.
LEMMA PendingStays ==
  ASSUME IInv, PendingConsistent, NEW t \in Threads,
         \A j \in DOMAIN join_requests' :
           join_requests'[j].status = "pending" =>
             /\ j \in DOMAIN join_requests
             /\ join_requests[j].status = "pending"
             /\ join_requests[j].username = join_requests'[j].username,
         \A v \in Threads \ {t} : threads'[v] = threads[v],
         threads'[t].pc # "insert_request"
  PROVE  PendingConsistent'
<1> SUFFICES ASSUME NEW u \in Usernames
             PROVE  Cardinality(Pending(u)') + Cardinality(Inserting(u)')
                      <= Cardinality(Threads)
  BY DEF PendingConsistent
<1>1. PICK P : P = Pending(u)'
  OBVIOUS
<1>2. PICK I : I = Inserting(u)'
  OBVIOUS
<1>3. P \in SUBSET Pending(u)
  BY <1>1 DEF Pending
<1>4. I \in SUBSET Inserting(u)
  BY <1>2 DEF Inserting, At
<1>5. Cardinality(P) + Cardinality(I) <= Cardinality(Threads)
  BY <1>3, <1>4, PendingShrinks DEF PendingConsistent
<1> QED
  BY <1>1, <1>2, <1>5

\* A thread that was counted among the inserting ones becomes a request.
LEMMA PendingInserted ==
  ASSUME IInv, PendingConsistent, NEW t \in Threads, InsertRequest(t),
         \A v \in Threads \ {t} : threads'[v] = threads[v], threads'[t].pc = "answer"
  PROVE  PendingConsistent'
<1> SUFFICES ASSUME NEW u \in Usernames
             PROVE  Cardinality(Pending(u)') + Cardinality(Inserting(u)')
                      <= Cardinality(Threads)
  BY DEF PendingConsistent
<1> DEFINE n == Len(join_requests) + 1
<1>1. PICK P : P = Pending(u)'
  OBVIOUS
<1>2. PICK I : I = Inserting(u)'
  OBVIOUS
<1>3. /\ n \notin DOMAIN join_requests /\ DOMAIN join_requests' = DOMAIN join_requests \cup {n}
      /\ \A j \in DOMAIN join_requests : join_requests'[j] = join_requests[j]
      /\ join_requests'[n].username = threads[t].request.username
      /\ join_requests'[n].status = "pending"
  BY Requested
<1>4. Cardinality(Pending(u)) + Cardinality(Inserting(u)) <= Cardinality(Threads)
  BY DEF PendingConsistent
<1>5. Cardinality(Threads) \in Nat
  BY ThreadsAreFinite, FS_CardinalityType
<1>6. At(t, "insert_request")
  BY DEF InsertRequest
<1> HIDE DEF n
<1>7. CASE threads[t].request.username = u
  <2>1. P = Pending(u) \cup {n} /\ n \notin Pending(u)
    BY <1>1, <1>3, <1>7 DEF Pending
  <2>2. I = Inserting(u) \ {t} /\ t \in Inserting(u)
    BY <1>2, <1>6, <1>7 DEF Inserting, At
  <2>3. Cardinality(P) = Cardinality(Pending(u)) + 1
    BY <2>1, PendingFinite, FS_AddElement
  <2>4. Cardinality(I) = Cardinality(Inserting(u)) - 1
    BY <2>2, PendingFinite, FS_RemoveElement
  <2> QED
    BY <1>1, <1>2, <1>4, <1>5, <2>3, <2>4, PendingFinite
<1>8. CASE threads[t].request.username # u
  <2>1. P \in SUBSET Pending(u)
    BY <1>1, <1>3, <1>8 DEF Pending
  <2>2. I \in SUBSET Inserting(u)
    BY <1>2 DEF Inserting, At
  <2>3. Cardinality(P) + Cardinality(I) <= Cardinality(Threads)
    BY <1>4, <2>1, <2>2, PendingShrinks
  <2> QED
    BY <1>1, <1>2, <2>3
<1> QED
  BY <1>7, <1>8

\* Nothing is pending for the username that a thread will insert a request of.
LEMMA PendingBegun ==
  ASSUME IInv, PendingConsistent, NEW t \in Threads, UNCHANGED join_requests,
         \A v \in Threads \ {t} : threads'[v] = threads[v],
         threads'[t].pc = "insert_request" => Pending(threads'[t].request.username) = {}
  PROVE  PendingConsistent'
<1> SUFFICES ASSUME NEW u \in Usernames
             PROVE  Cardinality(Pending(u)') + Cardinality(Inserting(u)')
                      <= Cardinality(Threads)
  BY DEF PendingConsistent
<1>1. PICK P : P = Pending(u)'
  OBVIOUS
<1>2. PICK I : I = Inserting(u)'
  OBVIOUS
<1>3. P = Pending(u)
  BY <1>1 DEF Pending
<1>4. CASE t \in I
  <2>1. Pending(u) = {}
    BY <1>2, <1>4 DEF Inserting, At
  <2>2. Cardinality(P) = 0
    BY <1>3, <2>1, FS_EmptySet
  <2>3. I \in SUBSET Threads
    BY <1>2 DEF Inserting
  <2>4. Cardinality(I) <= Cardinality(Threads) /\ Cardinality(I) \in Nat
    BY <2>3, ThreadsAreFinite, FS_Subset, FS_CardinalityType
  <2> QED
    BY <1>1, <1>2, <2>2, <2>4
<1>5. CASE t \notin I
  <2>1. I \in SUBSET Inserting(u)
    BY <1>2, <1>5 DEF Inserting, At
  <2>2. Cardinality(P) + Cardinality(I) <= Cardinality(Threads)
    BY <1>3, <2>1, PendingShrinks DEF PendingConsistent
  <2> QED
    BY <1>1, <1>2, <2>2
<1> QED
  BY <1>4, <1>5

LEMMA NextPending == IInv /\ PendingConsistent /\ [Next]_vars => PendingConsistent'
<1> SUFFICES ASSUME IInv, PendingConsistent, [Next]_vars PROVE PendingConsistent'
  OBVIOUS
<1>1. ASSUME NEW t \in Threads, UNCHANGED join_requests,
             \A v \in Threads \ {t} : threads'[v] = threads[v],
             threads'[t].pc # "insert_request"
      PROVE  PendingConsistent'
  BY <1>1, PendingBegun
<1>2. ASSUME NEW t \in Threads, Continue(t) PROVE PendingConsistent'
  <2>1. CASE FindOrganization(t) \/ StartSession(t) \/ Answer(t) \/ Lose(t)
    <3>1. /\ UNCHANGED tables
          /\ \A v \in Threads \ {t} : threads'[v] = threads[v]
          /\ threads'[t].pc # "insert_request"
      BY <2>1, FindOrganizationStep, StartSessionStep, EndStep
    <3> QED
      BY <1>1, <3>1 DEF tables
  <2>2. CASE CreateOrganization(t)
    BY <1>1, <2>2, CreateOrganizationStep
  <2>3. CASE InsertUser(t)
    BY <1>1, <2>3, InsertUserStep
  <2>4. CASE ChangeMember(t) \/ UpdateOrganization(t) \/ Fail(t)
    <3>1. UNCHANGED join_requests
      BY <2>4 DEF ChangeMember, UpdateOrganization, Fail, tables
    <3> QED
      BY <1>1, <2>4, <3>1, WriteStep
  <2>5. CASE InsertRequest(t)
    BY <2>5, WriteStep, PendingInserted
  <2>6. CASE MarkRequest(t)
    <3>1. /\ \A v \in Threads \ {t} : threads'[v] = threads[v]
          /\ threads'[t].pc = "answer"
      BY <2>6, WriteStep
    <3>2. threads[t].request.status # "pending"
      BY <2>6, Marked DEF Decisions
    <3>3. \A j \in DOMAIN join_requests' :
            join_requests'[j].status = "pending" =>
              /\ j \in DOMAIN join_requests
              /\ join_requests[j].status = "pending"
              /\ join_requests[j].username = join_requests'[j].username
      BY <2>6, <3>2, Marked
    <3> QED
      BY <3>1, <3>3, PendingStays
  <2> QED
    BY <1>2, <2>1, <2>2, <2>3, <2>4, <2>5, <2>6 DEF Continue
<1>3. ASSUME NEW t \in Threads, sent < MaxRequests, NEW b \in Browsers,
             \/ \E r \in Requests : Begin(t, b, r)
             \/ Logout(t, b) \/ RejectSession(t, b) \/ Refuse(t, b)
      PROVE  PendingConsistent'
  <2>1. /\ UNCHANGED tables
        /\ \A v \in Threads \ {t} : threads'[v] = threads[v]
        /\ threads'[t].pc = "insert_request" => Pending(threads'[t].request.username) = {}
    BY <1>3, BeginStep, RefusedStep
  <2> QED
    BY <2>1, PendingBegun DEF tables
<1>4. CASE UNCHANGED vars
  BY <1>4 DEF vars, PendingConsistent, Pending, Inserting, At
<1> QED
  BY <1>2, <1>3, <1>4 DEF Next

\* One username has at most as many pending join requests as requests are served
\* at a time.
THEOREM PendingRequestsAreBounded == Spec => []PendingBounded
<1>1. Init => PendingConsistent
  <2> SUFFICES ASSUME Init, NEW u \in Usernames
               PROVE  Cardinality(Pending(u)) + Cardinality(Inserting(u))
                        <= Cardinality(Threads)
    BY DEF PendingConsistent
  <2>1. Pending(u) = {} /\ Inserting(u) = {}
    BY DEF Init, IdleThread, Pending, Inserting, At
  <2>2. Cardinality(Threads) \in Nat
    BY ThreadsAreFinite, FS_CardinalityType
  <2> QED
    BY <2>1, <2>2, FS_EmptySet
<1>2. IInv /\ PendingConsistent => PendingBounded
  <2> SUFFICES ASSUME IInv, PendingConsistent, NEW u \in Usernames
               PROVE  Cardinality(Pending(u)) <= Cardinality(Threads)
    BY DEF PendingBounded
  <2>1. Cardinality(Threads) \in Nat
    BY ThreadsAreFinite, FS_CardinalityType
  <2> QED
    BY <2>1, PendingFinite DEF PendingConsistent
<1> QED
  BY <1>1, <1>2, Consistent, NextPending, PTL DEF Spec

-----------------------------------------------------------------------------
(* Workspaces are apart *)

\* A thread is about to write what belongs to its workspace.
Acting(q) ==
  \/ q.pc \in {"disable", "enable", "permit", "reorganize", "mark"}
  \/ q.pc = "insert_user" /\ q.request.op = "decide"

\* It does so for a member of that workspace, and the row that it names belongs there.
AtHome(t) ==
  LET q == threads[t] IN
  /\ Acting(q) => q.session \in Sessions /\ users[q.session.username].org = q.org
  /\ q.pc \in {"disable", "enable", "permit"} => users[q.request.username].org = q.org
  /\ q.pc = "mark" => join_requests[q.request.id].org = q.org

AllAtHome == \A t \in Threads : AtHome(t)

\* The member that a thread acts for exists and stays in the workspace.
LEMMA MemberStays ==
  ASSUME IInv, Grows, NEW t \in Threads, AtHome(t), Acting(threads[t])
  PROVE  users'[threads[t].session.username].org = threads[t].org
<1>1. threads[t].session \in Sessions /\ threads[t].pc # "idle"
  BY DEF AtHome, Acting
<1>2. /\ threads[t].session.username \in Usernames
      /\ Exists(threads[t].session.username)
  BY <1>1 DEF IInv, ThreadConsistent, SessionConsistent, Sessions
<1> QED
  BY <1>2 DEF AtHome, Grows

LEMMA HomeStays ==
  ASSUME IInv, Grows, NEW t \in Threads, AtHome(t), threads'[t] = threads[t]
  PROVE  AtHome(t)'
<1> DEFINE q == threads[t]
<1>1. Acting(q) => q.session \in Sessions /\ users'[q.session.username].org = q.org
  BY MemberStays DEF AtHome
<1>2. q.pc \in {"disable", "enable", "permit"} => users'[q.request.username].org = q.org
  BY DEF AtHome, IInv, ThreadConsistent, Grows
<1>3. q.pc = "mark" => join_requests'[q.request.id].org = q.org
  BY DEF AtHome, IInv, ThreadConsistent, Grows
<1> HIDE DEF q
<1>4. threads'[t] = q
  BY DEF q
<1> QED
  BY <1>1, <1>2, <1>3, <1>4 DEF AtHome, Acting

\* The step of one thread that is at home after it.
LEMMA OneAtHome ==
  ASSUME IInv, AllAtHome, Grows, NEW t \in Threads, AtHome(t)',
         \A v \in Threads \ {t} : threads'[v] = threads[v]
  PROVE  AllAtHome'
BY HomeStays DEF AllAtHome

\* A request is taken for a signed-in member of the workspace that it is about.
LEMMA TakenAtHome ==
  ASSUME IInv, NEW t \in Threads, NEW b \in Browsers,
         NEW r, NEW pc, NEW org, NEW role, Take(t, b, r, pc, org, role),
         \/ pc \in {"disable", "enable", "permit", "reorganize", "mark"}
         \/ pc = "insert_user" /\ r.op = "decide"
         => SignedIn(b) /\ org = Actor(b).org,
         pc \in {"disable", "enable", "permit"} => users[r.username].org = org,
         pc = "mark" => join_requests[r.id].org = org
  PROVE  AtHome(t)'
<1> DEFINE x == [pc |-> pc, browser |-> b, session |-> cookies[b], request |-> r,
                 org |-> org, role |-> role]
<1>1. /\ x.pc = pc /\ x.session = cookies[b] /\ x.request = r /\ x.org = org
  OBVIOUS
<1>2. threads' = [threads EXCEPT ![t] = x] /\ UNCHANGED <<users, join_requests>>
  BY DEF Take, Receive, tables
<1>3. SignedIn(b) => cookies[b] \in Sessions
  BY DEF SignedIn, IInv
<1> HIDE DEF x
<1>4. threads'[t] = x
  BY <1>2 DEF IInv
<1> QED
  BY <1>1, <1>2, <1>3, <1>4 DEF AtHome, Acting, Actor

LEMMA BegunAtHome ==
  ASSUME IInv, NEW t \in Threads, NEW b \in Browsers, NEW r \in Requests, Begin(t, b, r)
  PROVE  AtHome(t)'
<1>1. CASE Setup(t, b, r) \/ Signup(t, b, r)
  <2>1. Take(t, b, r, "find", 0, "admin")
    BY <1>1 DEF Setup, Signup
  <2> QED
    BY <2>1, TakenAtHome
<1>2. CASE Join(t, b, r)
  <2>1. PICK pc \in {"insert_request", "insert_user"} : Take(t, b, r, pc, r.org, "viewer")
    BY <1>2 DEF Join
  <2>2. r.op = "join"
    BY <1>2 DEF Join
  <2> QED
    BY <2>1, <2>2, TakenAtHome
<1>3. CASE Login(t, b, r)
  <2>1. threads'[t].pc = "answer"
    BY <1>3 DEF Login, Receive, AnswerOf, IInv
  <2> QED
    BY <2>1 DEF AtHome, Acting
<1>4. CASE Create(t, b, r)
  <2>1. Take(t, b, r, "insert_user", Actor(b).org, r.role) /\ r.op = "create"
    BY <1>4 DEF Create
  <2> QED
    BY <2>1, TakenAtHome
<1>5. CASE Disable(t, b, r) \/ Enable(t, b, r) \/ Permit(t, b, r)
  <2>1. PICK pc \in {"disable", "enable", "permit"} :
          Take(t, b, r, pc, Actor(b).org, "viewer")
    BY <1>5 DEF Disable, Enable, Permit
  <2>2. SignedIn(b) /\ users[r.username].org = Actor(b).org
    BY <1>5 DEF Disable, Enable, Permit, Manages, IsAdmin, Authenticated, Colleague
  <2> QED
    BY <2>1, <2>2, TakenAtHome
<1>6. CASE Reorganize(t, b, r)
  <2>1. Take(t, b, r, "reorganize", Actor(b).org, "viewer") /\ SignedIn(b)
    BY <1>6 DEF Reorganize, IsAdmin, Authenticated
  <2> QED
    BY <2>1, TakenAtHome
<1>7. CASE Decide(t, b, r)
  <2> DEFINE u == join_requests[r.id].username
             approved == r.status = "approved" /\ ~Exists(u)
             q == [op |-> "decide", id |-> r.id, username |-> u,
                   status |-> IF approved THEN "approved" ELSE "denied"]
             pc == IF approved THEN "insert_user" ELSE "mark"
  <2>1. /\ Take(t, b, q, pc, Actor(b).org, "viewer") /\ SignedIn(b)
        /\ join_requests[r.id].org = Actor(b).org
    BY <1>7 DEF Decide, IsAdmin, Authenticated
  <2>2. q.id = r.id /\ pc \in {"insert_user", "mark"}
    OBVIOUS
  <2> HIDE DEF q, pc
  <2> QED
    BY <2>1, <2>2, TakenAtHome
<1> QED
  BY <1>1, <1>2, <1>3, <1>4, <1>5, <1>6, <1>7 DEF Begin

\* Who approves a join request goes on to the mark in the same workspace.
LEMMA InsertedAtHome ==
  ASSUME IInv, AllAtHome, NEW t \in Threads, InsertUser(t)
  PROVE  AtHome(t)'
<1> DEFINE q == threads[t]
<1>1. q \in Works /\ At(t, "insert_user") /\ UNCHANGED join_requests
  BY WorkingAt DEF InsertUser
<1>2. CASE q.request.op = "decide"
  <2>1. GoTo(t, "mark")
    BY <1>2 DEF InsertUser, AfterInsert
  <2>2. /\ threads'[t].pc = "mark" /\ threads'[t].session = q.session
        /\ threads'[t].request = q.request /\ threads'[t].org = q.org
    BY <1>1, <2>1, ThreadGoes DEF Pcs
  <2>3. q.session \in Sessions /\ users'[q.session.username].org = q.org
    BY <1>1, <1>2, InsertUserGrows, MemberStays DEF AllAtHome, AtHome, Acting, At
  <2>4. join_requests'[q.request.id].org = q.org
    BY <1>1, <1>2 DEF IInv, ThreadConsistent, At
  <2> QED
    BY <2>2, <2>3, <2>4 DEF AtHome, Acting
<1>3. CASE q.request.op # "decide"
  <2>1. threads'[t].pc \in {"answer", "start"}
    BY <1>3, InsertUserStep
  <2> QED
    BY <2>1 DEF AtHome, Acting
<1> QED
  BY <1>2, <1>3

LEMMA NextAtHome == IInv /\ AllAtHome /\ [Next]_vars => AllAtHome'
<1> SUFFICES ASSUME IInv, AllAtHome, [Next]_vars PROVE AllAtHome'
  OBVIOUS
<1>1. ASSUME NEW t \in Threads, Continue(t) PROVE AllAtHome'
  <2>1. CASE FindOrganization(t) \/ CreateOrganization(t)
    <3>1. /\ Grows /\ \A v \in Threads \ {t} : threads'[v] = threads[v]
          /\ threads'[t].pc \in {"insert_user", "create"}
      BY <2>1, FindOrganizationStep, CreateOrganizationStep, OrganizationsGrow, NothingGrows
         DEF IInv
    <3>2. threads'[t].request = threads[t].request
      <4>1. threads[t] \in Works
        BY <2>1, WorkingAt
      <4>2. GoTo(t, "create") => threads'[t].request = threads[t].request
        BY <4>1, ThreadGoes DEF Pcs
      <4>3. ASSUME NEW o \in Nat,
                   threads' = [threads EXCEPT ![t].pc = "insert_user", ![t].org = o]
            PROVE  threads'[t].request = threads[t].request
        BY <4>1, <4>3, ThreadGoesToInsert
      <4>4. /\ \A o \in DOMAIN organizations : o \in Nat
            /\ Len(organizations) + 1 \in Nat
        BY OrganizationsShape DEF IInv
      <4> QED
        BY <2>1, <4>2, <4>3, <4>4 DEF FindOrganization, CreateOrganization
    <3>3. threads[t].request.op \in {"setup", "signup"}
      BY <2>1 DEF FindOrganization, CreateOrganization, At, IInv, ThreadConsistent
    <3>4. AtHome(t)'
      BY <3>1, <3>2, <3>3 DEF AtHome, Acting
    <3> QED
      BY <3>1, <3>4, OneAtHome
  <2>2. CASE InsertUser(t)
    BY <2>2, InsertUserStep, InsertUserGrows, InsertedAtHome, OneAtHome
  <2>3. CASE \/ StartSession(t) \/ Answer(t) \/ Lose(t)
             \/ InsertRequest(t) \/ ChangeMember(t) \/ UpdateOrganization(t)
             \/ MarkRequest(t) \/ Fail(t)
    <3>1. /\ Grows /\ \A v \in Threads \ {t} : threads'[v] = threads[v]
          /\ threads'[t].pc \in {"answer", "idle"}
      BY <2>3, StartSessionStep, EndStep, WriteStep, NothingGrows DEF IInv
    <3>2. AtHome(t)'
      BY <3>1 DEF AtHome, Acting
    <3> QED
      BY <3>1, <3>2, OneAtHome
  <2> QED
    BY <1>1, <2>1, <2>2, <2>3 DEF Continue
<1>2. ASSUME NEW t \in Threads, sent < MaxRequests, NEW b \in Browsers,
             \/ \E r \in Requests : Begin(t, b, r)
             \/ Logout(t, b) \/ RejectSession(t, b) \/ Refuse(t, b)
      PROVE  AllAtHome'
  <2>1. /\ UNCHANGED <<tables, disabled>>
        /\ \A v \in Threads \ {t} : threads'[v] = threads[v]
    BY <1>2, BeginStep, RefusedStep
  <2>2. AtHome(t)'
    <3>1. CASE \E r \in Requests : Begin(t, b, r)
      BY <3>1, BegunAtHome
    <3>2. CASE ~\E r \in Requests : Begin(t, b, r)
      <4>1. threads'[t].pc = "answer"
        BY <1>2, <3>2, RefusedStep
      <4> QED
        BY <4>1 DEF AtHome, Acting
    <3> QED
      BY <3>1, <3>2
  <2> QED
    BY <2>1, <2>2, NothingGrows, OneAtHome DEF IInv
<1>3. CASE UNCHANGED vars
  BY <1>3 DEF vars, AllAtHome, AtHome, Acting
<1> QED
  BY <1>1, <1>2, <1>3 DEF Next

\* A thread that writes and answers acts for its workspace.
LEMMA ActingIsFor ==
  ASSUME AllAtHome, NEW t \in Threads, Acting(threads[t]), threads'[t].pc = "answer"
  PROVE  ActsFor(threads[t].org)
BY DEF AllAtHome, AtHome, Acting, ActsFor, At

LEMMA UsersApart ==
  ASSUME IInv, AllAtHome, NEW t \in Threads, ChangeMember(t) \/ InsertUser(t)
  PROVE  MembersApart
<1> DEFINE q == threads[t]  u == q.request.username
<1>1. Grows /\ u \in Usernames
  BY ChangeMemberGrows, InsertUserGrows
     DEF ChangeMember, InsertUser, At, IInv, ThreadConsistent
<1>2. \A v \in Usernames \ {u} : users'[v] = users[v]
  BY DEF ChangeMember, InsertUser, IInv, TablesTyped
<1>3. CASE InsertUser(t)
  <2>1. ~Exists(u)
    BY <1>3 DEF InsertUser
  <2> QED
    BY <1>1, <1>2, <2>1 DEF MembersApart, Grows
<1>4. CASE ChangeMember(t)
  <2>1. ActsFor(users[u].org)
    <3>1. threads'[t].pc = "answer" /\ Acting(q)
      BY <1>4, WriteStep DEF ChangeMember, Acting
    <3>2. users[u].org = q.org
      BY <1>4 DEF ChangeMember, AllAtHome, AtHome
    <3> QED
      BY <3>1, <3>2, ActingIsFor
  <2>2. users[u].active /\ ~users'[u].active => users'[u].version > users[u].version
    <3>1. Exists(u)
      BY <1>4 DEF ChangeMember, IInv, ThreadConsistent
    <3>2. users[u] \in Rows /\ users[u].version \in Nat
      BY <1>1, <3>1, RowShape DEF IInv, Rows
    <3>3. CASE q.pc = "disable"
      <4>1. users' = [users EXCEPT ![u] = Disabled(users[u])]
        BY <1>4, <3>3 DEF ChangeMember
      <4>2. users'[u] = Disabled(users[u])
        BY <1>1, <4>1 DEF IInv, TablesTyped
      <4>3. Disabled(users[u]).version = users[u].version + 1
        BY <3>2 DEF Disabled, Rows
      <4> QED
        BY <3>2, <4>2, <4>3
    <3>4. CASE q.pc = "enable"
      <4>1. users' = [users EXCEPT ![u] = [users[u] EXCEPT !.active = TRUE]]
        BY <1>4, <3>4 DEF ChangeMember
      <4>2. users'[u].active = TRUE
        BY <1>1, <3>2, <4>1 DEF IInv, TablesTyped, Rows
      <4> QED
        BY <4>2
    <3>5. CASE q.pc = "permit"
      <4>1. users' = [users EXCEPT ![u] = [users[u] EXCEPT !.manages = q.request.manages]]
        BY <1>4, <3>5 DEF ChangeMember
      <4>2. users'[u].active = users[u].active
        BY <1>1, <3>2, <4>1 DEF IInv, TablesTyped, Rows
      <4> QED
        BY <4>2
    <3> QED
      BY <1>4, <3>3, <3>4, <3>5 DEF ChangeMember
  <2> HIDE DEF u
  <2> QED
    BY <1>1, <1>2, <2>1, <2>2 DEF MembersApart, Grows
<1> QED
  BY <1>3, <1>4

LEMMA OrganizationsApart ==
  ASSUME IInv, AllAtHome, NEW t \in Threads, CreateOrganization(t) \/ UpdateOrganization(t)
  PROVE  SettingsApart
<1> DEFINE q == threads[t]
<1>1. Grows
  BY OrganizationsGrow
<1>2. CASE CreateOrganization(t)
  <2>1. \A o \in DOMAIN organizations : organizations'[o] = organizations[o]
    BY <1>2, OrganizationsShape DEF CreateOrganization, IInv
  <2> QED
    BY <1>1, <2>1 DEF SettingsApart, Grows
<1>3. CASE UpdateOrganization(t)
  <2>1. \A o \in DOMAIN organizations : o # q.org => organizations'[o] = organizations[o]
    BY <1>3 DEF UpdateOrganization
  <2>2. ActsFor(q.org)
    BY <1>3, WriteStep, ActingIsFor DEF UpdateOrganization, Acting, At
  <2> QED
    BY <1>1, <2>1, <2>2 DEF SettingsApart, Grows
<1> QED
  BY <1>2, <1>3

LEMMA DecisionsApart ==
  ASSUME IInv, AllAtHome, NEW t \in Threads, InsertRequest(t) \/ MarkRequest(t)
  PROVE  JoinRequestsApart
<1> DEFINE q == threads[t]
<1>1. Grows
  BY JoinRequestsGrow
<1>2. CASE InsertRequest(t)
  BY <1>1, <1>2, Requested DEF JoinRequestsApart, Grows
<1>3. CASE MarkRequest(t)
  <2>1. \A j \in DOMAIN join_requests :
          j # q.request.id => join_requests'[j] = join_requests[j]
    BY <1>3 DEF MarkRequest
  <2>2. ActsFor(q.org)
    BY <1>3, WriteStep, ActingIsFor DEF MarkRequest, Acting, At
  <2>3. join_requests[q.request.id].org = q.org
    BY <1>3 DEF MarkRequest, At, AllAtHome, AtHome
  <2> QED
    BY <1>1, <2>1, <2>2, <2>3 DEF JoinRequestsApart, Grows
<1> QED
  BY <1>2, <1>3

LEMMA NextApart ==
  IInv /\ AllAtHome /\ [Next]_vars => MembersApart /\ SettingsApart /\ JoinRequestsApart
<1> SUFFICES ASSUME IInv, AllAtHome, [Next]_vars
             PROVE  MembersApart /\ SettingsApart /\ JoinRequestsApart
  OBVIOUS
<1>1. UNCHANGED users => MembersApart
  BY DEF MembersApart, Exists
<1>2. UNCHANGED organizations => SettingsApart
  BY DEF SettingsApart
<1>3. UNCHANGED join_requests => JoinRequestsApart
  BY DEF JoinRequestsApart
<1>4. ASSUME UNCHANGED tables
      PROVE  MembersApart /\ SettingsApart /\ JoinRequestsApart
  BY <1>1, <1>2, <1>3, <1>4 DEF tables
<1>5. ASSUME NEW t \in Threads, Continue(t)
      PROVE  MembersApart /\ SettingsApart /\ JoinRequestsApart
  <2>1. CASE ChangeMember(t) \/ InsertUser(t)
    <3>1. UNCHANGED <<organizations, join_requests>>
      BY <2>1 DEF ChangeMember, InsertUser
    <3> QED
      BY <1>2, <1>3, <2>1, <3>1, UsersApart
  <2>2. CASE CreateOrganization(t) \/ UpdateOrganization(t)
    <3>1. UNCHANGED <<users, join_requests>>
      BY <2>2 DEF CreateOrganization, UpdateOrganization
    <3> QED
      BY <1>1, <1>3, <2>2, <3>1, OrganizationsApart
  <2>3. CASE InsertRequest(t) \/ MarkRequest(t)
    <3>1. UNCHANGED <<users, organizations>>
      BY <2>3 DEF InsertRequest, MarkRequest
    <3> QED
      BY <1>1, <1>2, <2>3, <3>1, DecisionsApart
  <2>4. CASE FindOrganization(t) \/ StartSession(t) \/ Answer(t) \/ Fail(t) \/ Lose(t)
    <3>1. UNCHANGED tables
      BY <2>4 DEF FindOrganization, StartSession, Answer, Fail, Lose
    <3> QED
      BY <1>4, <3>1
  <2> QED
    BY <1>5, <2>1, <2>2, <2>3, <2>4 DEF Continue
<1>6. ASSUME NEW t \in Threads, sent < MaxRequests, NEW b \in Browsers,
             \/ \E r \in Requests : Begin(t, b, r)
             \/ Logout(t, b) \/ RejectSession(t, b) \/ Refuse(t, b)
      PROVE  MembersApart /\ SettingsApart /\ JoinRequestsApart
  <2>1. UNCHANGED tables
    BY <1>6, BeginStep, RefusedStep
  <2> QED
    BY <1>4, <2>1
<1>7. CASE UNCHANGED vars
  BY <1>4, <1>7 DEF vars, tables
<1> QED
  BY <1>5, <1>6, <1>7 DEF Next

\* An account, the settings of a workspace and a join request change for members of the
\* same workspace only, and nobody is disabled with a session left.
THEOREM WorkspacesAreApart == Spec => WorkspacesStayApart
<1>1. Init => AllAtHome
  BY DEF Init, IdleThread, AllAtHome, AtHome, Acting
<1> QED
  BY <1>1, Consistent, NextAtHome, NextApart, PTL DEF Spec, WorkspacesStayApart
=============================================================================
