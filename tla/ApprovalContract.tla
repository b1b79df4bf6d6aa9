-------------------------- MODULE ApprovalContract --------------------------
(***************************************************************************)
(* What a response approval promises, whatever requests race for it: it is *)
(* opened by one user, decided at most once, granted and used only by      *)
(* somebody else, used at most once, and it reaches the host at most once, *)
(* after it has been used.  ResponseApproval implements this module.       *)
(***************************************************************************)
EXTENDS Naturals

CONSTANTS
  Approvals,  \* identifiers of approval rows
  Users,      \* accounts of one workspace
  NoUser      \* the NULL of a user column

VARIABLES
  status,     \* status[a]: where the approval stands
  requester,  \* requester[a]: who asked for it
  decider,    \* decider[a]: who approved, rejected or cancelled it
  consumer,   \* consumer[a]: who used it
  effects     \* effects[a]: how often its action was handed to an executor

contract == <<status, requester, decider, consumer, effects>>

Init ==
  /\ status    = [a \in Approvals |-> "none"]
  /\ requester = [a \in Approvals |-> NoUser]
  /\ decider   = [a \in Approvals |-> NoUser]
  /\ consumer  = [a \in Approvals |-> NoUser]
  /\ effects   = [a \in Approvals |-> 0]

\* A user asks for an action.
Open(a, u) ==
  /\ status[a] = "none"
  /\ status'    = [status EXCEPT ![a] = "pending"]
  /\ requester' = [requester EXCEPT ![a] = u]
  /\ UNCHANGED <<decider, consumer, effects>>

\* Somebody other than the requester approves.
Grant(a, u) ==
  /\ status[a] = "pending"
  /\ u # requester[a]
  /\ status'  = [status EXCEPT ![a] = "approved"]
  /\ decider' = [decider EXCEPT ![a] = u]
  /\ UNCHANGED <<requester, consumer, effects>>

\* Anyone entitled to, the requester included, rejects or cancels.
Refuse(a, u) ==
  /\ status[a] = "pending"
  /\ \E s \in {"rejected", "cancelled"} : status' = [status EXCEPT ![a] = s]
  /\ decider' = [decider EXCEPT ![a] = u]
  /\ UNCHANGED <<requester, consumer, effects>>

\* The window closes before the decision or before the use.
Expire(a) ==
  /\ status[a] \in {"pending", "approved"}
  /\ status' = [status EXCEPT ![a] = "expired"]
  /\ UNCHANGED <<requester, decider, consumer, effects>>

\* Somebody other than the requester uses the approval up.
Consume(a, u) ==
  /\ status[a] = "approved"
  /\ u # requester[a]
  /\ status'   = [status EXCEPT ![a] = "consumed"]
  /\ consumer' = [consumer EXCEPT ![a] = u]
  /\ UNCHANGED <<requester, decider, effects>>

\* The action reaches its executor.
Perform(a) ==
  /\ status[a] = "consumed"
  /\ effects[a] = 0
  /\ effects' = [effects EXCEPT ![a] = 1]
  /\ UNCHANGED <<status, requester, decider, consumer>>

Next ==
  \E a \in Approvals :
    \/ Expire(a)
    \/ Perform(a)
    \/ \E u \in Users : Open(a, u) \/ Grant(a, u) \/ Refuse(a, u) \/ Consume(a, u)

Spec == Init /\ [][Next]_contract
=============================================================================
