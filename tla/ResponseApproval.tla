-------------------------- MODULE ResponseApproval --------------------------
(***************************************************************************)
(* The response-approval workflow of web/saaoe_api.py: an operator asks    *)
(* for a response action, another one decides, and an execution request    *)
(* uses the approval up before it calls the executor.                      *)
(*                                                                         *)
(* Each HTTP request runs on a worker thread of the WSGI server and is a   *)
(* sequence of SQLite commits; every commit is one action here, so the     *)
(* steps of concurrent requests interleave and a process exit may fall     *)
(* between any two of them.  A request reads the clock and the caller's    *)
(* role once, at its start, and both may be stale when a transaction that  *)
(* waited for the write lock uses them.                                    *)
(*                                                                         *)
(* One workspace is modelled: every query carries organization_id, so rows *)
(* of other workspaces are never read.  A payload stands for its SHA-256   *)
(* digest and a preview for the preview digest (no collisions).            *)
(***************************************************************************)
EXTENDS Naturals

CONSTANTS
  Workers,     \* threads that serve HTTP requests
  Approvals,   \* approval identifiers still unused (RA-<uuid>)
  Users,       \* accounts of the workspace
  NoUser,      \* NULL in a user column
  Actions,     \* keys of RESPONSE_ACTION_REGISTRY
  Subjects,    \* target, incident and anomaly of a request, normalised
  Registries,  \* contents the registry takes in the deployed versions
  TTL,         \* APPROVAL_TTL_SECONDS, in clock units
  MaxClock     \* bound on the clock, for model checking

Viewer  == 1
Analyst == 2
Admin   == 3
ROLES   == {Viewer, Analyst, Admin}

\* A row of RESPONSE_ACTION_REGISTRY.  A role list is its weakest role, for
\* a role is allowed when it ranks at least as high as some listed one.
Metadata ==
  [ request_role : ROLES, required_role : ROLES, execution_role : ROLES,
    enabled : BOOLEAN, host_impacting : BOOLEAN, supported : BOOLEAN ]

ASSUME NoUserIsNotAUser  == NoUser \notin Users
ASSUME RegistriesType    == Registries \subseteq [Actions -> Metadata]
ASSUME TTLIsPositive     == TTL \in Nat \ {0}
ASSUME MaxClockIsNatural == MaxClock \in Nat

VARIABLES
  clock,       \* wall clock of the host; 0 is the NULL of a time column
  registry,    \* RESPONSE_ACTION_REGISTRY of the running process
  approvals,   \* table response_approvals
  requests,    \* requests[w]: what worker w is doing
  audit,       \* audit[a]: success rows of audit_events about approval a
  effects      \* effects[a]: calls of an executor made for approval a

vars == <<clock, registry, approvals, requests, audit, effects>>

Payload == [action : Actions, subject : Subjects, dry_run : BOOLEAN]

Decisions == {"approve", "reject", "cancel"}

Statuses ==
  {"none", "pending", "approved", "rejected", "cancelled", "expired", "consumed"}

-----------------------------------------------------------------------------
(* Rows and requests *)

\* What the approver is shown, and what the preview digest binds.
approval_preview(p) ==
  LET m == registry[p.action] IN
  [ payload        |-> p,
    required_role  |-> m.required_role,
    host_impacting |-> m.host_impacting,
    disabled_host_action |-> m.host_impacting /\ ~p.dry_run /\ ~m.enabled ]

approval_expired(row, now) == now > row.expires_at

\* The command a worker serves; pc names the commit that comes next.
IdleRequest == [pc |-> "idle"]

Serving(w, pc) == requests[w].pc = pc
Goto(w, pc)    == requests' = [requests EXCEPT ![w].pc = pc]
Finish(w)      == requests' = [requests EXCEPT ![w] = IdleRequest]
Log(a, event)  == audit' = [audit EXCEPT ![a] = @ \cup {event}]

NoApproval == [status |-> "none"]

Exists(a) == approvals[a].status # "none"

Init ==
  /\ clock = 1
  /\ registry \in Registries
  /\ approvals = [a \in Approvals |-> NoApproval]
  /\ requests  = [w \in Workers |-> IdleRequest]
  /\ audit     = [a \in Approvals |-> {}]
  /\ effects   = [a \in Approvals |-> 0]

-----------------------------------------------------------------------------
(* POST /api/response_approvals *)

\* The checks of the handler read nothing that another request changes, so
\* they and the INSERT are one step.
RequestApproval(w, a, u, role, p) ==
  /\ Serving(w, "idle")
  /\ ~Exists(a)
  /\ role >= Analyst
  /\ role >= registry[p.action].request_role
  /\ approvals' = [approvals EXCEPT ![a] =
       [ status |-> "pending", payload |-> p, preview |-> approval_preview(p),
         required_role |-> registry[p.action].required_role,
         requested_by |-> u, approved_by |-> NoUser, approver_role |-> 0,
         consumed_by |-> NoUser, expires_at |-> clock + TTL,
         decided_at |-> 0, consumed_at |-> 0, executed_at |-> 0,
         result |-> "preview" ]]
  /\ requests' = [requests EXCEPT ![w] =
       [pc |-> "audit_requested", approval |-> a]]
  /\ UNCHANGED <<clock, registry, audit, effects>>

AuditRequested(w) ==
  /\ Serving(w, "audit_requested")
  /\ Log(requests[w].approval, "requested")
  /\ Finish(w)
  /\ UNCHANGED <<clock, registry, approvals, effects>>

-----------------------------------------------------------------------------
(* POST /api/response_approvals/<id>, command approve, reject or cancel *)

\* Variant: the command word is stored as the status.
CommandAsStatus(command) == command

StatusOf(command) ==
  CASE command = "approve" -> "approved"
    [] command = "reject"  -> "rejected"
    [] command = "cancel"  -> "cancelled"

MayDecide(a, u, role, command) ==
  LET row == approvals[a] IN
  /\ command \in {"approve", "reject"} =>
       role >= registry[row.payload.action].required_role
  /\ command = "approve" => row.requested_by # u
  /\ command = "cancel" => row.requested_by = u \/ role = Admin

\* The clock is read and the row looked up before the transaction begins.
SubmitDecision(w, a, u, role, command) ==
  /\ Serving(w, "idle")
  /\ Exists(a)
  /\ role >= Analyst
  /\ MayDecide(a, u, role, command)
  /\ requests' = [requests EXCEPT ![w] =
       [ pc |-> "decide", approval |-> a, user |-> u, role |-> role,
         status |-> StatusOf(command), now |-> clock ]]
  /\ UNCHANGED <<clock, registry, approvals, audit, effects>>

\* BEGIN IMMEDIATE; another decision was first.
DecisionTooLate(w) ==
  /\ Serving(w, "decide")
  /\ approvals[requests[w].approval].status # "pending"
  /\ Finish(w)
  /\ UNCHANGED <<clock, registry, approvals, audit, effects>>

\* BEGIN IMMEDIATE; _mark_approval_expired; COMMIT.
DecisionExpired(w) ==
  LET q == requests[w]  a == q.approval IN
  /\ Serving(w, "decide")
  /\ approvals[a].status = "pending"
  /\ approval_expired(approvals[a], q.now)
  /\ approvals' = [approvals EXCEPT ![a].status = "expired",
                                    ![a].decided_at = q.now,
                                    ![a].result = "expired"]
  /\ requests' = [requests EXCEPT ![w] =
       [pc |-> "audit_decision", approval |-> a, event |-> "expired"]]
  /\ UNCHANGED <<clock, registry, audit, effects>>

\* Variant: UPDATE without the status in its WHERE clause.
CommitDecisionUnchecked(w) ==
  LET q == requests[w]  a == q.approval IN
  /\ Serving(w, "decide")
  /\ ~approval_expired(approvals[a], q.now)
  /\ approvals' = [approvals EXCEPT ![a].status = q.status,
                                    ![a].approved_by = q.user,
                                    ![a].approver_role = q.role,
                                    ![a].decided_at = q.now,
                                    ![a].result = "decision_reason"]
  /\ requests' = [requests EXCEPT ![w] =
       [pc |-> "audit_decision", approval |-> a, event |-> q.status]]
  /\ UNCHANGED <<clock, registry, audit, effects>>

\* BEGIN IMMEDIATE; UPDATE ... WHERE status = 'pending'; COMMIT.
CommitDecision(w) ==
  LET q == requests[w]  a == q.approval IN
  /\ Serving(w, "decide")
  /\ approvals[a].status = "pending"
  /\ ~approval_expired(approvals[a], q.now)
  /\ approvals' = [approvals EXCEPT ![a].status = q.status,
                                    ![a].approved_by = q.user,
                                    ![a].approver_role = q.role,
                                    ![a].decided_at = q.now,
                                    ![a].result = "decision_reason"]
  /\ requests' = [requests EXCEPT ![w] =
       [pc |-> "audit_decision", approval |-> a, event |-> q.status]]
  /\ UNCHANGED <<clock, registry, audit, effects>>

AuditDecision(w) ==
  /\ Serving(w, "audit_decision")
  /\ Log(requests[w].approval, requests[w].event)
  /\ Finish(w)
  /\ UNCHANGED <<clock, registry, approvals, effects>>

-----------------------------------------------------------------------------
(* POST /api/response_approvals/<id>, command execute *)

\* The client presents the payload it means to execute; the clock is read
\* before the transaction of authorizeApprovedAction begins.
SubmitExecution(w, a, u, role, p) ==
  /\ Serving(w, "idle")
  /\ Exists(a)
  /\ role >= Analyst
  /\ requests' = [requests EXCEPT ![w] =
       [ pc |-> "authorize", approval |-> a, user |-> u, role |-> role,
         payload |-> p, now |-> clock ]]
  /\ UNCHANGED <<clock, registry, approvals, audit, effects>>

\* The row is approved and, by the request's clock reading, still open.
Usable(w) ==
  LET q == requests[w]  row == approvals[q.approval] IN
  row.status = "approved" /\ ~approval_expired(row, q.now)

\* Variant: the requester may execute.
ActorMayExecuteOwn(w) ==
  LET q == requests[w]  row == approvals[q.approval] IN
  /\ q.role >= row.required_role
  /\ q.role >= registry[row.payload.action].execution_role

ActorMayExecute(w) ==
  LET q   == requests[w]
      row == approvals[q.approval]
      m   == registry[row.payload.action]
  IN /\ row.requested_by # q.user
     /\ q.role >= row.required_role
     /\ q.role >= m.execution_role

ActionAvailable(w) ==
  LET m == registry[approvals[requests[w].approval].payload.action] IN
  m.enabled /\ m.supported

\* Variant: the approver's role is not compared with today's contract.
ContractHoldsForAnyApprover(w) ==
  LET q == requests[w]  row == approvals[q.approval] IN
  /\ row.payload = q.payload
  /\ row.preview = approval_preview(q.payload)

\* Approver role, target, payload digest and preview digest, as of now.
ContractHolds(w) ==
  LET q   == requests[w]
      row == approvals[q.approval]
  IN /\ row.approver_role >= registry[row.payload.action].required_role
     /\ row.payload = q.payload
     /\ row.preview = approval_preview(q.payload)

Authorized(w) ==
  Usable(w) /\ ActorMayExecute(w) /\ ActionAvailable(w) /\ ContractHolds(w)

\* Variant: expiry stamps decided_at, as it does for a pending row.
AuthorizeExpiredStamped(w) ==
  LET q == requests[w]  a == q.approval IN
  /\ Serving(w, "authorize")
  /\ approvals[a].status = "approved"
  /\ approval_expired(approvals[a], q.now)
  /\ approvals' = [approvals EXCEPT ![a].status = "expired",
                                    ![a].decided_at = q.now,
                                    ![a].result = "expired"]
  /\ Finish(w)
  /\ UNCHANGED <<clock, registry, audit, effects>>

\* An approved row past its window is expired, and that is committed.
AuthorizeExpired(w) ==
  LET q == requests[w]  a == q.approval IN
  /\ Serving(w, "authorize")
  /\ approvals[a].status = "approved"
  /\ approval_expired(approvals[a], q.now)
  /\ approvals' = [approvals EXCEPT ![a].status = "expired",
                                    ![a].result = "expired"]
  /\ Finish(w)
  /\ UNCHANGED <<clock, registry, audit, effects>>

\* Any other failed check rolls back and leaves the row as it was.
AuthorizeRefused(w) ==
  LET q == requests[w]  a == q.approval IN
  /\ Serving(w, "authorize")
  /\ ~(approvals[a].status = "approved" /\ approval_expired(approvals[a], q.now))
  /\ ~Authorized(w)
  /\ Finish(w)
  /\ UNCHANGED <<clock, registry, approvals, audit, effects>>

\* UPDATE ... SET status = 'consumed' ... WHERE status = 'approved'; COMMIT.
Consume(w) ==
  LET q == requests[w]  a == q.approval IN
  /\ Serving(w, "authorize")
  /\ Authorized(w)
  /\ approvals' = [approvals EXCEPT ![a].status = "consumed",
                                    ![a].consumed_by = q.user,
                                    ![a].consumed_at = q.now,
                                    ![a].result = "consumed"]
  /\ Goto(w, "audit_started")
  /\ UNCHANGED <<clock, registry, audit, effects>>

\* authorizeApprovedAction: one BEGIN IMMEDIATE transaction.
authorizeApprovedAction(w) ==
  AuthorizeExpired(w) \/ AuthorizeRefused(w) \/ Consume(w)

AuditStarted(w) ==
  /\ Serving(w, "audit_started")
  /\ Log(requests[w].approval, "started")
  /\ Goto(w, "execute")
  /\ UNCHANGED <<clock, registry, approvals, effects>>

\* _execute_response_action on a dry run only renders the preview.
DryRun(w) ==
  /\ Serving(w, "execute")
  /\ approvals[requests[w].approval].payload.dry_run
  /\ Goto(w, "record_success")
  /\ UNCHANGED <<clock, registry, approvals, audit, effects>>

\* Variant: what the executor reports is not looked at.
ExecuteActionUnreported(w) ==
  LET a == requests[w].approval IN
  /\ Serving(w, "execute")
  /\ ~approvals[a].payload.dry_run
  /\ \/ effects' = [effects EXCEPT ![a] = @ + 1]
     \/ UNCHANGED effects
  /\ Goto(w, "record_success")
  /\ UNCHANGED <<clock, registry, approvals, audit>>

\* The executor is called.  It may fail or time out having acted on the
\* host (a restart, then the recovery start) or before it acts at all.
ExecuteAction(w) ==
  LET a == requests[w].approval IN
  /\ Serving(w, "execute")
  /\ ~approvals[a].payload.dry_run
  /\ \/ /\ effects' = [effects EXCEPT ![a] = @ + 1]
        /\ \E next \in {"record_success", "record_failure"} : Goto(w, next)
     \/ /\ Goto(w, "record_failure")
        /\ UNCHANGED effects
  /\ UNCHANGED <<clock, registry, approvals, audit>>

\* Variant: a failed execution hands the approval back.
RecordOutcomeReopening(w, pc, outcome, next) ==
  LET q == requests[w]  a == q.approval IN
  /\ Serving(w, pc)
  /\ approvals' = [approvals EXCEPT ![a].executed_at = q.now,
                                    ![a].result = outcome,
                                    ![a].status = IF outcome = "failure"
                                                  THEN "approved" ELSE @]
  /\ Goto(w, next)
  /\ UNCHANGED <<clock, registry, audit, effects>>

\* UPDATE response_approvals SET executed_at, result ... WHERE id = ?
RecordOutcome(w, pc, outcome, next) ==
  LET q == requests[w]  a == q.approval IN
  /\ Serving(w, pc)
  /\ approvals' = [approvals EXCEPT ![a].executed_at = q.now,
                                    ![a].result = outcome]
  /\ Goto(w, next)
  /\ UNCHANGED <<clock, registry, audit, effects>>

RecordSuccess(w) == RecordOutcome(w, "record_success", "success", "audit_succeeded")
RecordFailure(w) == RecordOutcome(w, "record_failure", "failure", "audit_failed")

AuditSucceeded(w) ==
  /\ Serving(w, "audit_succeeded")
  /\ Log(requests[w].approval, "succeeded")
  /\ Goto(w, "audit_executed")
  /\ UNCHANGED <<clock, registry, approvals, effects>>

AuditExecuted(w) ==
  /\ Serving(w, "audit_executed")
  /\ Finish(w)
  /\ UNCHANGED <<clock, registry, approvals, audit, effects>>

AuditFailed(w) ==
  /\ Serving(w, "audit_failed")
  /\ Log(requests[w].approval, "failed")
  /\ Finish(w)
  /\ UNCHANGED <<clock, registry, approvals, effects>>

-----------------------------------------------------------------------------
(* Failures and time *)

\* Commits inside the try block of the execute branch: a storage error there
\* is caught and reported as a failed execution, whatever was done already.
Caught == {"audit_started", "record_success", "audit_succeeded", "audit_executed"}

\* Variant: the execute branch has no handler.
StorageErrorUncaught(w) ==
  /\ requests[w].pc \in Caught
  /\ Finish(w)
  /\ UNCHANGED <<clock, registry, approvals, audit, effects>>

StorageErrorCaught(w) ==
  /\ requests[w].pc \in Caught
  /\ Goto(w, "record_failure")
  /\ UNCHANGED <<clock, registry, approvals, audit, effects>>

\* Everywhere else storage_error answers 500 and the request is over.
StorageErrorAborts(w) ==
  /\ requests[w].pc \in { "audit_requested", "decide", "audit_decision",
                          "authorize", "record_failure", "audit_failed" }
  /\ Finish(w)
  /\ UNCHANGED <<clock, registry, approvals, audit, effects>>

\* The process ends and starts again, perhaps in a version with another
\* registry; requests in flight are gone, the database stays.
Restart ==
  /\ registry' \in Registries
  /\ requests' = [w \in Workers |-> IdleRequest]
  /\ UNCHANGED <<clock, approvals, audit, effects>>

Tick ==
  /\ clock < MaxClock
  /\ clock' = clock + 1
  /\ UNCHANGED <<registry, approvals, requests, audit, effects>>

-----------------------------------------------------------------------------
\* The next step of a request that has begun, in the absence of errors.
Proceed(w) ==
  \/ AuditRequested(w)
  \/ DecisionTooLate(w) \/ DecisionExpired(w) \/ CommitDecision(w)
  \/ AuditDecision(w)
  \/ authorizeApprovedAction(w)
  \/ AuditStarted(w)
  \/ DryRun(w) \/ ExecuteAction(w)
  \/ RecordSuccess(w) \/ RecordFailure(w)
  \/ AuditSucceeded(w) \/ AuditExecuted(w) \/ AuditFailed(w)

Receive(w) ==
  \E a \in Approvals, u \in Users, role \in ROLES :
    \/ \E p \in Payload : RequestApproval(w, a, u, role, p)
    \/ \E command \in Decisions : SubmitDecision(w, a, u, role, command)
    \/ \E p \in Payload : SubmitExecution(w, a, u, role, p)

Next ==
  \/ \E w \in Workers :
       \/ Receive(w)
       \/ Proceed(w)
       \/ StorageErrorCaught(w) \/ StorageErrorAborts(w)
  \/ Restart
  \/ Tick

Spec == Init /\ [][Next]_vars

\* A process that does not end, and storage that fails only where the code
\* still has a step to answer with.
CalmNext ==
  \/ \E w \in Workers : Receive(w) \/ Proceed(w) \/ StorageErrorCaught(w)
  \/ Tick

\* A thread that has begun a request is scheduled until it ends.
CalmSpec ==
  Init /\ [][CalmNext]_vars /\ \A w \in Workers : WF_vars(Proceed(w))

-----------------------------------------------------------------------------
(* Properties *)

\* Steps of a request between the consumption it committed and its end.
Executing ==
  { "audit_started", "execute", "record_success", "record_failure",
    "audit_succeeded", "audit_executed", "audit_failed" }

Row ==
  [ status : Statuses \ {"none"}, payload : Payload,
    preview : [ payload : Payload, required_role : ROLES,
                host_impacting : BOOLEAN, disabled_host_action : BOOLEAN ],
    required_role : ROLES, requested_by : Users,
    approved_by : Users \cup {NoUser}, approver_role : ROLES \cup {0},
    consumed_by : Users \cup {NoUser}, expires_at : Nat,
    decided_at : Nat, consumed_at : Nat, executed_at : Nat,
    result : { "preview", "decision_reason", "expired", "consumed",
               "success", "failure" } ]

DecisionEvents == {"approved", "rejected", "cancelled", "expired"}
Events == DecisionEvents \cup {"requested", "started", "succeeded", "failed"}

CreateRequest == [pc : {"audit_requested"}, approval : Approvals]
DecideRequest ==
  [ pc : {"decide"}, approval : Approvals, user : Users, role : ROLES,
    status : {"approved", "rejected", "cancelled"}, now : Nat ]
DecidedRequest ==
  [pc : {"audit_decision"}, approval : Approvals, event : DecisionEvents]
ExecuteRequest ==
  [ pc : {"authorize"} \cup Executing, approval : Approvals, user : Users,
    role : ROLES, payload : Payload, now : Nat ]
Request ==
  {IdleRequest} \cup CreateRequest \cup DecideRequest \cup DecidedRequest
    \cup ExecuteRequest

\* Every variable keeps its type: rows, worker states and the audit trail.
TypeOK ==
  /\ clock \in Nat
  /\ registry \in Registries
  /\ approvals \in [Approvals -> {NoApproval} \cup Row]
  /\ requests \in [Workers -> Request]
  /\ audit \in [Approvals -> SUBSET Events]
  /\ effects \in [Approvals -> Nat]

Holds(w, a) == requests[w].pc \in Executing /\ requests[w].approval = a

\* Only one request ever gets past authorizeApprovedAction for an approval:
\* two executions racing for it cannot both hold its authority, and whoever
\* holds it works on a consumed row.
ExclusiveAuthority ==
  \A a \in Approvals, v, w \in Workers :
    /\ Holds(w, a) => approvals[a].status = "consumed"
    /\ Holds(v, a) /\ Holds(w, a) => v = w

\* "The consumed approval cannot be replayed after either success or failure":
\* whatever fails, restarts or is retried, an executor runs at most once for
\* an approval, and not at all for a row that is not consumed or is a dry run.
EffectAtMostOnce ==
  \A a \in Approvals :
    /\ effects[a] <= 1
    /\ effects[a] > 0 => /\ approvals[a].status = "consumed"
                         /\ ~approvals[a].payload.dry_run

\* A used approval has the whole chain behind it, across two requests and
\* possibly several deployments: requested by one user, approved by another
\* and used by one who is not the requester, decided and used by clock
\* readings inside the window, under the contract the approver was shown.
AuthorityChain ==
  \A a \in Approvals :
    approvals[a].status = "consumed" =>
      LET row == approvals[a] IN
      /\ row.approved_by \in Users \ {row.requested_by}
      /\ row.consumed_by \in Users \ {row.requested_by}
      /\ row.decided_at <= row.expires_at
      /\ row.consumed_at <= row.expires_at
      /\ row.approver_role >= row.preview.required_role

\* An action that was previewed as disabled ("authorization will be recorded
\* as a no-op") never runs on that approval, even when a later version
\* enables it before the approval is used.
NoOpPreviewNeverRuns ==
  \A a \in Approvals :
    effects[a] > 0 => ~approvals[a].preview.disabled_host_action

\* The success rows of the audit trail tell the truth about the row: at most
\* one decision is reported, a start is reported of consumed rows only, and
\* a success only when the executor ran or the row is a dry run.
AuditTruthful ==
  \A a \in Approvals :
    /\ \A e, f \in DecisionEvents \cap audit[a] : e = f
    /\ "approved" \in audit[a] =>
         approvals[a].status \in {"approved", "expired", "consumed"}
    /\ \A e \in {"rejected", "cancelled", "expired"} \cap audit[a] :
         approvals[a].status = e
    /\ {"started", "succeeded", "failed"} \cap audit[a] # {} =>
         approvals[a].status = "consumed"
    /\ "succeeded" \in audit[a] =>
         effects[a] = 1 \/ approvals[a].payload.dry_run

\* A row that says its action succeeded did run it (or was a dry run); one
\* that says so never belongs to a request that was not authorised.
OutcomeHonest ==
  \A a \in Approvals :
    /\ Exists(a) /\ approvals[a].result = "success" =>
         effects[a] = 1 \/ approvals[a].payload.dry_run
    /\ Exists(a) /\ approvals[a].executed_at # 0 =>
         /\ approvals[a].status = "consumed"
         /\ approvals[a].result \in {"success", "failure"}

\* Once a decision or a use is in the row it stays: no request, late or
\* retried, rewrites who decided, who used it and when.
DecisionIsFinal ==
  [][\A a \in Approvals :
       Exists(a) =>
         /\ approvals[a].approved_by # NoUser =>
              /\ approvals'[a].approved_by = approvals[a].approved_by
              /\ approvals'[a].approver_role = approvals[a].approver_role
              /\ approvals'[a].decided_at = approvals[a].decided_at
         /\ approvals[a].consumed_by # NoUser =>
              /\ approvals'[a].consumed_by = approvals[a].consumed_by
              /\ approvals'[a].consumed_at = approvals[a].consumed_at]_vars

\* A column of a row, or its NULL before the row exists.
Field(a, column, null) == IF Exists(a) THEN approvals[a][column] ELSE null

\* Under CalmSpec a used approval always gets its outcome: whatever the
\* executor does and whichever commit of the request fails, the row ends with
\* executed_at set and does not stay "consumed, outcome unknown".
UseIsSettled ==
  \A a \in Approvals :
    (approvals[a].status = "consumed") ~> (Field(a, "executed_at", 0) # 0)

\* The rows and executor calls are those of the contract the workflow keeps.
Contract == INSTANCE ApprovalContract WITH
  status    <- [a \in Approvals |-> approvals[a].status],
  requester <- [a \in Approvals |-> Field(a, "requested_by", NoUser)],
  decider   <- [a \in Approvals |-> Field(a, "approved_by", NoUser)],
  consumer  <- [a \in Approvals |-> Field(a, "consumed_by", NoUser)],
  effects   <- effects

\* Every step of the workflow is a step the contract allows, or none of its.
ImplementsContract == Contract!Spec

-----------------------------------------------------------------------------
(* The inductive invariant behind the properties *)

\* What the columns of a row say about each other.
RowConsistent(row) ==
  /\ row.status = "pending" =>
       row.approved_by = NoUser /\ row.consumed_by = NoUser
  /\ row.status = "approved" =>
       /\ row.approved_by \in Users \ {row.requested_by}
       /\ row.decided_at <= row.expires_at
       /\ row.consumed_by = NoUser
  /\ row.status = "consumed" =>
       /\ row.approved_by \in Users \ {row.requested_by}
       /\ row.consumed_by \in Users \ {row.requested_by}
       /\ row.decided_at <= row.expires_at
       /\ row.consumed_at <= row.expires_at
       /\ row.approver_role >= row.preview.required_role
       /\ ~row.preview.disabled_host_action
  /\ row.executed_at # 0 =>
       row.status = "consumed" /\ row.result \in {"success", "failure"}
  /\ row.consumed_by # NoUser => row.status = "consumed"
  /\ row.result = "success" => row.status = "consumed"

\* What a worker may rely on about the row it works on.
RequestConsistent(w) ==
  LET q == requests[w]  a == q.approval IN
  /\ ~Serving(w, "idle") => Exists(a)
  /\ Serving(w, "decide") /\ q.status = "approved" =>
       q.user # approvals[a].requested_by
  /\ q.pc \in Executing => approvals[a].status = "consumed"
  /\ q.pc \in {"audit_started", "execute"} => effects[a] = 0
  /\ q.pc \in {"record_success", "audit_succeeded"} =>
       effects[a] = 1 \/ approvals[a].payload.dry_run

\* What an executor call presupposes, and what a reported success means.
EffectConsistent(a) ==
  /\ effects[a] \in {0, 1}
  /\ effects[a] = 1 =>
       approvals[a].status = "consumed" /\ ~approvals[a].payload.dry_run
  /\ Exists(a) /\ approvals[a].result = "success" =>
       effects[a] = 1 \/ approvals[a].payload.dry_run

\* One request at a time has the authority of an approval, and everything a
\* later step trusts without checking was made true by an earlier one.
ApprovalInvariant ==
  /\ \A a \in Approvals : Exists(a) => RowConsistent(approvals[a])
  /\ \A w \in Workers : RequestConsistent(w)
  /\ \A a \in Approvals : EffectConsistent(a)
  /\ ExclusiveAuthority
=============================================================================
