----------------------------- MODULE MCAccounts -----------------------------
(* A small instance of Accounts for TLC. *)
EXTENDS Accounts, TLC

CONSTANTS b1, b2, alice, bob, carol, local, other

Member(role, manages) ==
  [org |-> 1, role |-> role, active |-> TRUE, version |-> 1, manages |-> manages]

\* An empty database has the workspace that init_db creates.
Fresh ==
  [users |-> [u \in Usernames |-> NoUser],
   organizations |-> <<[name |-> local, policy |-> "join_with_code"]>>,
   cookies |-> [b \in Browsers |-> Nothing]]

\* alice administers the workspace, bob is a member; both are signed in.
InUse(policy, manages) ==
  [users |-> [u \in Usernames |->
     CASE u = alice -> Member("admin", FALSE)
       [] u = bob   -> Member("viewer", manages)
       [] OTHER     -> NoUser],
   organizations |-> <<[name |-> local, policy |-> policy]>>,
   cookies |-> [b \in Browsers |->
     [username |-> IF b = b1 THEN alice ELSE bob, version |-> 1, seen |-> 0]]]

MCInstallations ==
  {Fresh, InUse("request_to_join", FALSE), InUse("join_with_code", TRUE)}

Established == {InUse("join_with_code", TRUE)}

MCRequests ==
  [op : {"setup", "signup"}, username : {alice, carol}, name : {local, other}]
  \cup [op : {"join"}, username : {carol}, org : {1, 2}]
  \cup [op : {"login"}, username : {alice, bob}]
  \cup [op : {"create"}, username : {carol}, role : {"admin"}]
  \cup [op : {"disable", "enable"}, username : {alice, bob}]
  \cup [op : {"permissions"}, username : {bob}, manages : BOOLEAN]
  \cup [op : {"organization"}, name : {local, other}, policy : {"open_with_code", "request_to_join"}]
  \cup [op : {"decide"}, id : {1, 2}, status : {"approved", "denied"}]

Symmetric == Permutations(Threads)
=============================================================================
