----------------------- MODULE ResponseApprovalProofs -----------------------
(* Theorems about ResponseApproval for every value of its constants. *)
EXTENDS ResponseApproval, TLAPS

\* The kind of record a worker carries is determined by its pc.
LEMMA RequestShape ==
  ASSUME TypeOK, NEW w \in Workers
  PROVE  /\ Serving(w, "audit_requested") => requests[w] \in CreateRequest
         /\ Serving(w, "decide") => requests[w] \in DecideRequest
         /\ Serving(w, "audit_decision") => requests[w] \in DecidedRequest
         /\ requests[w].pc \in {"authorize"} \cup Executing
              => requests[w] \in ExecuteRequest
         /\ ~Serving(w, "idle") => requests[w].approval \in Approvals
BY DEF TypeOK, Serving, Request, IdleRequest, CreateRequest, DecideRequest,
       DecidedRequest, ExecuteRequest, Executing

LEMMA RowShape ==
  ASSUME TypeOK, NEW a \in Approvals, Exists(a)
  PROVE  approvals[a] \in Row
BY DEF TypeOK, Exists, NoApproval

LEMMA PreviewShape ==
  ASSUME TypeOK, NEW p \in Payload
  PROVE  /\ registry[p.action] \in Metadata
         /\ approval_preview(p) \in
              [ payload : Payload, required_role : ROLES,
                host_impacting : BOOLEAN, disabled_host_action : BOOLEAN ]
<1>1. registry[p.action] \in Metadata
  BY RegistriesType DEF TypeOK, Payload
<1> QED
  BY <1>1 DEF approval_preview, Metadata

-----------------------------------------------------------------------------
(* Type correctness *)

LEMMA InitTypeOK == Init => TypeOK
BY TTLIsPositive, MaxClockIsNatural
   DEF Init, TypeOK, Request, IdleRequest, NoApproval

\* How a step changes a worker or the trail without leaving the type.
LEMMA FinishTyped ==
  ASSUME TypeOK, NEW w \in Workers, Finish(w)
  PROVE  requests' \in [Workers -> Request]
BY DEF TypeOK, Finish, Request

LEMMA GotoTyped ==
  ASSUME TypeOK, NEW w \in Workers, NEW pc \in Executing,
         requests[w] \in ExecuteRequest, Goto(w, pc)
  PROVE  requests' \in [Workers -> Request]
<1>1. [requests[w] EXCEPT !.pc = pc] \in ExecuteRequest
  BY DEF ExecuteRequest
<1> QED
  BY <1>1 DEF TypeOK, Goto, Request

LEMMA LogTyped ==
  ASSUME TypeOK, NEW a \in Approvals, NEW e \in Events, Log(a, e)
  PROVE  audit' \in [Approvals -> SUBSET Events]
BY DEF TypeOK, Log

\* The rows that the steps of create, decide and execute write are rows.
LEMMA NewRow ==
  ASSUME TypeOK, NEW w \in Workers, NEW a \in Approvals, NEW u \in Users,
         NEW role \in ROLES, NEW p \in Payload, RequestApproval(w, a, u, role, p)
  PROVE  approvals'[a] \in Row
<1>1. registry[p.action] \in Metadata /\ registry[p.action].required_role \in ROLES
  BY PreviewShape DEF Metadata
<1>2. clock + TTL \in Nat
  BY TTLIsPositive DEF TypeOK
<1> QED
  BY <1>1, <1>2, PreviewShape DEF RequestApproval, TypeOK, Row, Statuses, ROLES

LEMMA DecidedRow ==
  ASSUME TypeOK, NEW w \in Workers, Exists(requests[w].approval),
         DecisionExpired(w) \/ CommitDecision(w)
  PROVE  approvals'[requests[w].approval] \in Row
<1> DEFINE q == requests[w]
           a == q.approval
<1>1. q \in DecideRequest /\ approvals[a] \in Row /\ a \in Approvals
  BY RequestShape, RowShape DEF DecisionExpired, CommitDecision, DecideRequest
<1>2. CASE DecisionExpired(w)
  BY <1>1, <1>2 DEF DecisionExpired, TypeOK, DecideRequest, Row, Statuses
<1>3. CASE CommitDecision(w)
  BY <1>1, <1>3 DEF CommitDecision, TypeOK, DecideRequest, Row, Statuses
<1> QED
  BY <1>2, <1>3

LEMMA ExecutedRow ==
  ASSUME TypeOK, NEW w \in Workers, Exists(requests[w].approval),
         \/ AuthorizeExpired(w) \/ Consume(w)
         \/ RecordSuccess(w) \/ RecordFailure(w)
  PROVE  approvals'[requests[w].approval] \in Row
<1> DEFINE q == requests[w]
           a == q.approval
<1>1. q \in ExecuteRequest /\ approvals[a] \in Row /\ a \in Approvals
  BY RequestShape, RowShape DEF AuthorizeExpired, Consume, RecordSuccess,
     RecordFailure, RecordOutcome, Serving, Executing
<1>2. CASE AuthorizeExpired(w)
  BY <1>1, <1>2 DEF AuthorizeExpired, TypeOK, ExecuteRequest, Row, Statuses
<1>3. CASE Consume(w)
  BY <1>1, <1>3 DEF Consume, TypeOK, ExecuteRequest, Row, Statuses
<1>4. CASE RecordSuccess(w) \/ RecordFailure(w)
  BY <1>1, <1>4 DEF RecordSuccess, RecordFailure, RecordOutcome, TypeOK,
     ExecuteRequest, Row, Statuses
<1> QED
  BY <1>2, <1>3, <1>4

LEMMA StepTypeOK ==
  ASSUME TypeOK, [Next]_vars,
         \A w \in Workers : ~Serving(w, "idle") => Exists(requests[w].approval)
  PROVE  TypeOK'
<1>1. ASSUME NEW w \in Workers, NEW a \in Approvals, NEW u \in Users,
             NEW role \in ROLES, NEW p \in Payload, RequestApproval(w, a, u, role, p)
      PROVE  TypeOK'
  <2>1. approvals'[a] \in Row
    BY <1>1, NewRow
  <2>2. [pc |-> "audit_requested", approval |-> a] \in Request
    BY DEF Request, CreateRequest
  <2> QED
    BY <1>1, <2>1, <2>2 DEF RequestApproval, TypeOK
<1>2. ASSUME NEW w \in Workers, NEW a \in Approvals, NEW u \in Users,
             NEW role \in ROLES, NEW command \in Decisions,
             SubmitDecision(w, a, u, role, command)
      PROVE  TypeOK'
  <2>1. StatusOf(command) \in {"approved", "rejected", "cancelled"}
    BY DEF StatusOf, Decisions
  <2>2. [ pc |-> "decide", approval |-> a, user |-> u, role |-> role,
          status |-> StatusOf(command), now |-> clock ] \in Request
    BY <2>1 DEF Request, DecideRequest, TypeOK
  <2> QED
    BY <1>2, <2>2 DEF SubmitDecision, TypeOK
<1>3. ASSUME NEW w \in Workers, NEW a \in Approvals, NEW u \in Users,
             NEW role \in ROLES, NEW p \in Payload, SubmitExecution(w, a, u, role, p)
      PROVE  TypeOK'
  <2>1. [ pc |-> "authorize", approval |-> a, user |-> u, role |-> role,
          payload |-> p, now |-> clock ] \in Request
    BY DEF Request, ExecuteRequest, TypeOK
  <2> QED
    BY <1>3, <2>1 DEF SubmitExecution, TypeOK
<1>4. ASSUME NEW w \in Workers, DecisionExpired(w) \/ CommitDecision(w)
      PROVE  TypeOK'
  <2>1. requests[w] \in DecideRequest /\ Exists(requests[w].approval)
    BY <1>4, RequestShape DEF DecisionExpired, CommitDecision, Serving
  <2>2. approvals'[requests[w].approval] \in Row
    BY <1>4, <2>1, DecidedRow
  <2>3. \A e \in DecisionEvents :
          [pc |-> "audit_decision", approval |-> requests[w].approval, event |-> e]
            \in Request
    BY <2>1 DEF Request, DecidedRequest, DecideRequest
  <2> QED
    BY <1>4, <2>1, <2>2, <2>3
       DEF DecisionExpired, CommitDecision, TypeOK, DecisionEvents, DecideRequest
<1>5. ASSUME NEW w \in Workers,
             \/ AuthorizeExpired(w) \/ Consume(w)
             \/ RecordSuccess(w) \/ RecordFailure(w)
      PROVE  TypeOK'
  <2>1. requests[w] \in ExecuteRequest /\ Exists(requests[w].approval)
    BY <1>5, RequestShape DEF AuthorizeExpired, Consume, RecordSuccess,
       RecordFailure, RecordOutcome, Serving, Executing
  <2>2. approvals'[requests[w].approval] \in Row
    BY <1>5, <2>1, ExecutedRow
  <2>3. requests' \in [Workers -> Request]
    BY <1>5, <2>1, FinishTyped, GotoTyped DEF AuthorizeExpired, Consume,
       RecordSuccess, RecordFailure, RecordOutcome, Executing
  <2> QED
    BY <1>5, <2>1, <2>2, <2>3 DEF AuthorizeExpired, Consume, RecordSuccess,
       RecordFailure, RecordOutcome, TypeOK, ExecuteRequest
<1>6. ASSUME NEW w \in Workers,
             \/ DecisionTooLate(w) \/ AuthorizeRefused(w) \/ AuditExecuted(w)
             \/ StorageErrorAborts(w)
      PROVE  TypeOK'
  BY <1>6, FinishTyped DEF DecisionTooLate, AuthorizeRefused, AuditExecuted,
     StorageErrorAborts, TypeOK
<1>7. ASSUME NEW w \in Workers, AuditRequested(w) \/ AuditDecision(w) \/ AuditFailed(w)
      PROVE  TypeOK'
  <2>1. requests[w].approval \in Approvals
    BY <1>7, RequestShape DEF AuditRequested, AuditDecision, AuditFailed, Serving
  <2>2. AuditDecision(w) => requests[w].event \in Events
    BY RequestShape DEF AuditDecision, DecidedRequest, Events
  <2> QED
    BY <1>7, <2>1, <2>2, FinishTyped, LogTyped DEF AuditRequested, AuditDecision,
       AuditFailed, TypeOK, Events
<1>8. ASSUME NEW w \in Workers,
             \/ AuditStarted(w) \/ DryRun(w) \/ ExecuteAction(w)
             \/ AuditSucceeded(w) \/ StorageErrorCaught(w)
      PROVE  TypeOK'
  <2>1. requests[w] \in ExecuteRequest /\ requests[w].approval \in Approvals
    BY <1>8, RequestShape DEF AuditStarted, DryRun, ExecuteAction, AuditSucceeded,
       StorageErrorCaught, Caught, Serving, Executing, ExecuteRequest
  <2>2. requests' \in [Workers -> Request]
    BY <1>8, <2>1, GotoTyped DEF AuditStarted, DryRun, ExecuteAction,
       AuditSucceeded, StorageErrorCaught, Executing
  <2>3. audit' \in [Approvals -> SUBSET Events]
    BY <1>8, <2>1, LogTyped DEF AuditStarted, DryRun, ExecuteAction,
       AuditSucceeded, StorageErrorCaught, TypeOK, Events
  <2>4. effects' \in [Approvals -> Nat]
    BY <1>8, <2>1 DEF AuditStarted, DryRun, ExecuteAction,
       AuditSucceeded, StorageErrorCaught, TypeOK
  <2> QED
    BY <1>8, <2>2, <2>3, <2>4 DEF AuditStarted, DryRun, ExecuteAction,
       AuditSucceeded, StorageErrorCaught, TypeOK
<1>9. CASE Restart
  BY <1>9 DEF Restart, TypeOK, Request
<1>10. CASE Tick
  BY <1>10 DEF Tick, TypeOK
<1>11. CASE UNCHANGED vars
  BY <1>11 DEF vars, TypeOK
<1> QED
  BY <1>1, <1>2, <1>3, <1>4, <1>5, <1>6, <1>7, <1>8, <1>9, <1>10, <1>11
     DEF Next, Receive, Proceed, authorizeApprovedAction

-----------------------------------------------------------------------------
(* The invariant *)

Inv == TypeOK /\ ApprovalInvariant

LEMMA InitInvariant == Init => ApprovalInvariant
BY DEF Init, ApprovalInvariant, Exists, NoApproval, RequestConsistent, Serving,
   IdleRequest, EffectConsistent, ExclusiveAuthority, Holds, Executing

\* Steps that only move workers on: rows and executor calls stay, and every
\* worker either stays, ends, or moves to a step its row already supports.
LEMMA WorkerStep ==
  ASSUME Inv, UNCHANGED <<approvals, effects>>,
         \A w \in Workers :
           \/ requests'[w] = requests[w]
           \/ requests'[w] = IdleRequest
           \/ RequestConsistent(w)' /\ \A a \in Approvals : Holds(w, a)' => Holds(w, a)
  PROVE  ApprovalInvariant'
<1>1. \A a \in Approvals : Exists(a)' => RowConsistent(approvals'[a])
  BY DEF Inv, ApprovalInvariant, Exists, RowConsistent
<1>2. \A w \in Workers : RequestConsistent(w)'
  BY DEF Inv, ApprovalInvariant, RequestConsistent, Serving, Exists, IdleRequest,
     Executing
<1>3. \A a \in Approvals : EffectConsistent(a)'
  BY DEF Inv, ApprovalInvariant, EffectConsistent, Exists
<1>4. \A w \in Workers, a \in Approvals : Holds(w, a)' => Holds(w, a)
  BY DEF Holds, IdleRequest, Executing
<1>5. ExclusiveAuthority'
  BY <1>4 DEF Inv, ApprovalInvariant, ExclusiveAuthority
<1> QED
  BY <1>1, <1>2, <1>3, <1>5 DEF ApprovalInvariant

LEMMA CreateStep ==
  ASSUME Inv, NEW w \in Workers, NEW a \in Approvals, NEW u \in Users,
         NEW role \in ROLES, NEW p \in Payload, RequestApproval(w, a, u, role, p)
  PROVE  ApprovalInvariant'
<1>1. /\ approvals'[a].status = "pending"
      /\ approvals'[a].approved_by = NoUser
      /\ approvals'[a].consumed_by = NoUser
      /\ approvals'[a].executed_at = 0
      /\ approvals'[a].result = "preview"
      /\ \A b \in Approvals \ {a} : approvals'[b] = approvals[b]
      /\ requests'[w] = [pc |-> "audit_requested", approval |-> a]
      /\ \A v \in Workers \ {w} : requests'[v] = requests[v]
      /\ ~Exists(a) /\ effects' = effects
  BY DEF RequestApproval, Inv, TypeOK
<1>2. \A b \in Approvals : Exists(b)' => RowConsistent(approvals[b])'
  BY <1>1 DEF Inv, ApprovalInvariant, Exists, RowConsistent
<1>3. \A v \in Workers : RequestConsistent(v)'
  <2>1. RequestConsistent(w)'
    BY <1>1 DEF RequestConsistent, Serving, Exists, Executing
  <2>2. ASSUME NEW v \in Workers \ {w}
        PROVE  RequestConsistent(v)'
    BY <1>1, <2>2, RequestShape
       DEF Inv, ApprovalInvariant, RequestConsistent, Serving, Exists, Executing
  <2> QED
    BY <2>1, <2>2
<1>4. \A b \in Approvals : EffectConsistent(b)'
  BY <1>1 DEF Inv, ApprovalInvariant, EffectConsistent, Exists
<1>5. \A v \in Workers, b \in Approvals : Holds(v, b)' => Holds(v, b) /\ b # a
  BY <1>1, RequestShape
     DEF Inv, ApprovalInvariant, Holds, Executing, RequestConsistent, Serving
<1>6. ExclusiveAuthority'
  BY <1>1, <1>5 DEF Inv, ApprovalInvariant, ExclusiveAuthority
<1> QED
  BY <1>2, <1>3, <1>4, <1>6 DEF ApprovalInvariant

\* A step that writes one existing row and moves one worker, which had no
\* part in an execution: a decision or an expiry.
LEMMA DecideStep ==
  ASSUME Inv, NEW w \in Workers,
         DecisionExpired(w) \/ CommitDecision(w) \/ AuthorizeExpired(w)
  PROVE  ApprovalInvariant'
<1> DEFINE q == requests[w]
           a == q.approval
<1>1. /\ q \in DecideRequest \cup ExecuteRequest /\ a \in Approvals
      /\ Exists(a) /\ approvals[a] \in Row /\ RowConsistent(approvals[a])
      /\ RequestConsistent(w) /\ EffectConsistent(a)
  BY RequestShape, RowShape DEF DecisionExpired, CommitDecision, AuthorizeExpired,
     Serving, Inv, ApprovalInvariant, RequestConsistent
<1> DEFINE Written ==
             /\ approvals'[a].requested_by = approvals[a].requested_by
             /\ approvals'[a].payload = approvals[a].payload
             /\ approvals'[a].expires_at = approvals[a].expires_at
             /\ approvals'[a].consumed_by = approvals[a].consumed_by
             /\ approvals'[a].executed_at = approvals[a].executed_at
             /\ approvals'[a].result \in {"expired", "decision_reason"}
             /\ approvals[a].status \in {"pending", "approved"}
             /\ approvals'[a].status \in {"approved", "rejected", "cancelled", "expired"}
             /\ approvals'[a].status = "approved" =>
                  /\ approvals'[a].approved_by = q.user /\ q.status = "approved"
                  /\ approvals'[a].decided_at <= approvals[a].expires_at
                  /\ Serving(w, "decide") /\ q \in DecideRequest
           Framed ==
             /\ \A b \in Approvals \ {a} : approvals'[b] = approvals[b]
             /\ effects' = effects
<1>2. Written /\ Framed
  <2>1. Framed
    BY <1>1 DEF DecisionExpired, CommitDecision, AuthorizeExpired, Inv, TypeOK
  <2>2. CASE CommitDecision(w)
    <3>1. /\ q \in DecideRequest /\ Serving(w, "decide")
          /\ approvals[a].status = "pending"
      BY <2>2, RequestShape DEF CommitDecision, Inv
    <3>2. approvals'[a] = [approvals[a] EXCEPT !.status = q.status,
                             !.approved_by = q.user, !.approver_role = q.role,
                             !.decided_at = q.now, !.result = "decision_reason"]
      BY <1>1, <2>2 DEF CommitDecision, Inv, TypeOK
    <3>3. q.now \in Nat /\ approvals[a].expires_at \in Nat
          /\ ~(q.now > approvals[a].expires_at)
      BY <1>1, <3>1, <2>2 DEF CommitDecision, approval_expired, Row, DecideRequest
    <3> QED
      BY <2>1, <1>1, <3>1, <3>2, <3>3 DEF Row, DecideRequest
  <2>3. CASE DecisionExpired(w)
    <3>1. approvals'[a] = [approvals[a] EXCEPT !.status = "expired",
                             !.decided_at = q.now, !.result = "expired"]
      BY <1>1, <2>3 DEF DecisionExpired, Inv, TypeOK
    <3>2. approvals[a].status = "pending"
      BY <2>3 DEF DecisionExpired
    <3> QED
      BY <2>1, <1>1, <3>1, <3>2 DEF Row
  <2>4. CASE AuthorizeExpired(w)
    <3>1. approvals'[a] = [approvals[a] EXCEPT !.status = "expired", !.result = "expired"]
      BY <1>1, <2>4 DEF AuthorizeExpired, Inv, TypeOK
    <3>2. approvals[a].status = "approved"
      BY <2>4 DEF AuthorizeExpired
    <3> QED
      BY <2>1, <1>1, <3>1, <3>2 DEF Row
  <2> QED
    BY <2>1, <2>2, <2>3, <2>4
<1>3. /\ requests'[w].pc \in {"audit_decision", "idle"}
      /\ requests'[w].pc = "audit_decision" => requests'[w].approval = a
      /\ \A v \in Workers \ {w} : requests'[v] = requests[v]
  BY <1>1 DEF DecisionExpired, CommitDecision, AuthorizeExpired, Finish,
     IdleRequest, Inv, TypeOK
<1>4. \A b \in Approvals : Exists(b)' => RowConsistent(approvals[b])'
  <2>1. RowConsistent(approvals'[a])
    BY <1>1, <1>2 DEF RowConsistent, RequestConsistent, DecideRequest
  <2>2. \A b \in Approvals \ {a} : Exists(b)' => RowConsistent(approvals[b])'
    BY <1>2 DEF Inv, ApprovalInvariant, Exists, RowConsistent
  <2> QED
    BY <2>1, <2>2
<1>5. \A v \in Workers : RequestConsistent(v)'
  <2>1. RequestConsistent(w)'
    BY <1>1, <1>2, <1>3 DEF RequestConsistent, Serving, Exists, Executing
  <2>2. ASSUME NEW v \in Workers \ {w}
        PROVE  RequestConsistent(v)'
    BY <1>1, <1>2, <1>3, RequestShape
       DEF Inv, ApprovalInvariant, RequestConsistent, Serving, Exists, Executing
  <2> QED
    BY <2>1, <2>2
<1>6. \A b \in Approvals : EffectConsistent(b)'
  BY <1>1, <1>2 DEF Inv, ApprovalInvariant, EffectConsistent, Exists
<1>7. \A v \in Workers, b \in Approvals : Holds(v, b)' => Holds(v, b) /\ b # a
  BY <1>1, <1>2, <1>3
     DEF Inv, ApprovalInvariant, Holds, Executing, RequestConsistent
<1>8. ExclusiveAuthority'
  BY <1>2, <1>7 DEF Inv, ApprovalInvariant, ExclusiveAuthority
<1> QED
  BY <1>4, <1>5, <1>6, <1>8 DEF ApprovalInvariant

\* The boundary itself: whoever consumes the row is alone with it from then on.
LEMMA ConsumeStep ==
  ASSUME Inv, NEW w \in Workers, Consume(w)
  PROVE  ApprovalInvariant'
<1> DEFINE q == requests[w]
           a == q.approval
<1>1. /\ q \in ExecuteRequest /\ a \in Approvals /\ q.pc = "authorize"
      /\ Exists(a) /\ approvals[a] \in Row /\ RowConsistent(approvals[a])
      /\ approvals[a].status = "approved" /\ EffectConsistent(a)
  BY RequestShape, RowShape DEF Consume, Serving, Inv, ApprovalInvariant,
     RequestConsistent, Authorized, Usable
<1>2. /\ approvals'[a] = [approvals[a] EXCEPT !.status = "consumed",
                             !.consumed_by = q.user, !.consumed_at = q.now,
                             !.result = "consumed"]
      /\ requests'[w] = [q EXCEPT !.pc = "audit_started"]
  BY <1>1 DEF Consume, Goto, Inv, TypeOK
<1>3. /\ \A b \in Approvals \ {a} : approvals'[b] = approvals[b]
      /\ effects' = effects
      /\ \A v \in Workers \ {w} : requests'[v] = requests[v]
  BY <1>1 DEF Consume, Goto, Inv, TypeOK
<1>4. /\ q.user \in Users /\ q.user # approvals[a].requested_by
      /\ q.now <= approvals[a].expires_at
      /\ approvals[a].approver_role >= approvals[a].preview.required_role
      /\ ~approvals[a].preview.disabled_host_action
  BY <1>1, RegistriesType DEF Consume, Authorized, Usable, ActorMayExecute,
     ActionAvailable, ContractHolds, approval_expired, approval_preview,
     ExecuteRequest, Row, Payload, Inv, TypeOK
<1>5. /\ approvals'[a].status = "consumed" /\ approvals'[a].result = "consumed"
      /\ approvals'[a].requested_by = approvals[a].requested_by
      /\ approvals'[a].payload = approvals[a].payload
      /\ requests'[w].pc = "audit_started" /\ requests'[w].approval = a
  BY <1>1, <1>2 DEF Row, ExecuteRequest
<1>6. effects[a] = 0
  BY <1>1 DEF EffectConsistent
<1>7. \A b \in Approvals : Exists(b)' => RowConsistent(approvals[b])'
  <2>1. RowConsistent(approvals'[a])
    BY <1>1, <1>2, <1>4 DEF RowConsistent, Row
  <2>2. \A b \in Approvals \ {a} : Exists(b)' => RowConsistent(approvals[b])'
    BY <1>3 DEF Inv, ApprovalInvariant, Exists, RowConsistent
  <2> QED
    BY <2>1, <2>2
<1>8. \A v \in Workers : RequestConsistent(v)'
  <2>1. RequestConsistent(w)'
    BY <1>3, <1>5, <1>6 DEF RequestConsistent, Serving, Exists, Executing
  <2>2. ASSUME NEW v \in Workers \ {w}
        PROVE  RequestConsistent(v)'
    BY <1>1, <1>3, <1>5, RequestShape
       DEF Inv, ApprovalInvariant, RequestConsistent, Serving, Exists, Executing
  <2> QED
    BY <2>1, <2>2
<1>9. \A b \in Approvals : EffectConsistent(b)'
  BY <1>3, <1>5, <1>6 DEF Inv, ApprovalInvariant, EffectConsistent, Exists
<1>10. \A v \in Workers : ~Holds(v, a)
  BY <1>1 DEF Inv, ApprovalInvariant, Holds, RequestConsistent
<1>11. \A v \in Workers, b \in Approvals :
         Holds(v, b)' => Holds(v, b) \/ (v = w /\ b = a)
  BY <1>3, <1>5 DEF Holds
<1>12. ExclusiveAuthority'
  <2>1. \A b \in Approvals :
          approvals[b].status = "consumed" => approvals'[b].status = "consumed"
    BY <1>3, <1>5
  <2>2. ASSUME NEW b \in Approvals, NEW u \in Workers, NEW v \in Workers
        PROVE  /\ Holds(v, b)' => approvals'[b].status = "consumed"
               /\ Holds(u, b)' /\ Holds(v, b)' => u = v
    BY <2>1, <1>5, <1>10, <1>11 DEF Inv, ApprovalInvariant, ExclusiveAuthority
  <2> QED
    BY <2>2 DEF ExclusiveAuthority
<1> QED
  BY <1>7, <1>8, <1>9, <1>12 DEF ApprovalInvariant

\* The executor call of the one worker that holds the approval.
LEMMA ExecuteStep ==
  ASSUME Inv, NEW w \in Workers, ExecuteAction(w)
  PROVE  ApprovalInvariant'
<1> DEFINE q == requests[w]
           a == q.approval
<1>1. /\ q \in ExecuteRequest /\ a \in Approvals /\ q.pc = "execute"
      /\ approvals[a].status = "consumed" /\ effects[a] = 0
      /\ ~approvals[a].payload.dry_run /\ Holds(w, a) /\ Exists(a)
  BY RequestShape DEF ExecuteAction, Serving, Inv, ApprovalInvariant,
     RequestConsistent, Executing, Holds, Exists
<1>2. /\ approvals' = approvals
      /\ \A v \in Workers \ {w} : requests'[v] = requests[v]
      /\ requests'[w].approval = a
      /\ \A b \in Approvals \ {a} : effects'[b] = effects[b]
      /\ \/ requests'[w].pc = "record_failure" /\ effects'[a] \in {0, 1}
         \/ requests'[w].pc = "record_success" /\ effects'[a] = 1
  BY <1>1 DEF ExecuteAction, Goto, Inv, TypeOK, ExecuteRequest
<1>3. \A b \in Approvals : Exists(b)' => RowConsistent(approvals[b])'
  BY <1>2 DEF Inv, ApprovalInvariant, Exists, RowConsistent
<1>4. \A v \in Workers : RequestConsistent(v)'
  <2>1. RequestConsistent(w)'
    BY <1>1, <1>2 DEF RequestConsistent, Serving, Exists, Executing
  <2>2. ASSUME NEW v \in Workers \ {w}
        PROVE  RequestConsistent(v)'
    <3>1. requests[v].pc \in Executing => requests[v].approval # a
      BY <1>1 DEF Inv, ApprovalInvariant, ExclusiveAuthority, Holds
    <3> QED
      BY <1>1, <1>2, <3>1, RequestShape
         DEF Inv, ApprovalInvariant, RequestConsistent, Serving, Exists, Executing
  <2> QED
    BY <2>1, <2>2
<1>5. \A b \in Approvals : EffectConsistent(b)'
  BY <1>1, <1>2 DEF Inv, ApprovalInvariant, EffectConsistent, Exists
<1>6. \A v \in Workers, b \in Approvals : Holds(v, b)' => Holds(v, b)
  BY <1>1, <1>2 DEF Holds
<1>7. ExclusiveAuthority'
  BY <1>2, <1>6 DEF Inv, ApprovalInvariant, ExclusiveAuthority
<1> QED
  BY <1>3, <1>4, <1>5, <1>7 DEF ApprovalInvariant

\* The outcome written into the consumed row.
LEMMA OutcomeStep ==
  ASSUME Inv, NEW w \in Workers, RecordSuccess(w) \/ RecordFailure(w)
  PROVE  ApprovalInvariant'
<1> DEFINE q == requests[w]
           a == q.approval
<1>1. /\ q \in ExecuteRequest /\ a \in Approvals
      /\ q.pc \in {"record_success", "record_failure"}
      /\ approvals[a] \in Row /\ RowConsistent(approvals[a]) /\ Exists(a)
      /\ approvals[a].status = "consumed" /\ Holds(w, a)
      /\ q.pc = "record_success" => effects[a] = 1 \/ approvals[a].payload.dry_run
  BY RequestShape, RowShape DEF RecordSuccess, RecordFailure, RecordOutcome, Serving,
     Inv, ApprovalInvariant, RequestConsistent, Executing, Holds, Exists
<1>2. \E outcome \in {"success", "failure"} :
        /\ approvals'[a] = [approvals[a] EXCEPT !.executed_at = q.now,
                                                !.result = outcome]
        /\ outcome = "success" =>
             q.pc = "record_success" /\ requests'[w].pc = "audit_succeeded"
        /\ outcome = "failure" => requests'[w].pc = "audit_failed"
  BY <1>1 DEF RecordSuccess, RecordFailure, RecordOutcome, Serving, Goto, Inv,
     TypeOK, ExecuteRequest
<1>3. /\ effects' = effects
      /\ \A b \in Approvals \ {a} : approvals'[b] = approvals[b]
      /\ \A v \in Workers \ {w} : requests'[v] = requests[v]
      /\ requests'[w].approval = a
  BY <1>1 DEF RecordSuccess, RecordFailure, RecordOutcome, Goto, Inv, TypeOK,
     ExecuteRequest
<1>4. /\ approvals'[a].status = "consumed"
      /\ approvals'[a].requested_by = approvals[a].requested_by
      /\ approvals'[a].payload = approvals[a].payload
      /\ approvals'[a].result = "success" => q.pc = "record_success"
  BY <1>1, <1>2 DEF Row
<1>5. \A b \in Approvals : Exists(b)' => RowConsistent(approvals[b])'
  <2>1. RowConsistent(approvals'[a])
    BY <1>1, <1>2 DEF RowConsistent, Row
  <2>2. \A b \in Approvals \ {a} : Exists(b)' => RowConsistent(approvals[b])'
    BY <1>3 DEF Inv, ApprovalInvariant, Exists, RowConsistent
  <2> QED
    BY <2>1, <2>2
<1>6. \A v \in Workers : RequestConsistent(v)'
  <2>1. requests'[w].pc = "audit_succeeded" => q.pc = "record_success"
    BY <1>2
  <2>2. requests'[w].pc \in {"audit_succeeded", "audit_failed"}
    BY <1>2
  <2>3. RequestConsistent(w)'
    BY <1>1, <1>3, <1>4, <2>1, <2>2 DEF RequestConsistent, Serving, Exists, Executing
  <2>4. ASSUME NEW v \in Workers \ {w}
        PROVE  RequestConsistent(v)'
    BY <1>3, <1>4, RequestShape
       DEF Inv, ApprovalInvariant, RequestConsistent, Serving, Exists, Executing
  <2> QED
    BY <2>3, <2>4
<1>7. \A b \in Approvals : EffectConsistent(b)'
  BY <1>1, <1>3, <1>4 DEF Inv, ApprovalInvariant, EffectConsistent, Exists
<1>8. \A v \in Workers, b \in Approvals : Holds(v, b)' => Holds(v, b)
  BY <1>1, <1>3 DEF Holds, Executing
<1>9. \A b \in Approvals :
        approvals[b].status = "consumed" => approvals'[b].status = "consumed"
  BY <1>3, <1>4
<1>10. ExclusiveAuthority'
  BY <1>8, <1>9 DEF Inv, ApprovalInvariant, ExclusiveAuthority
<1> QED
  BY <1>5, <1>6, <1>7, <1>10 DEF ApprovalInvariant

\* Receiving a request promises only what the checks before it looked at.
LEMMA SubmitStep ==
  ASSUME Inv, NEW w \in Workers, NEW a \in Approvals, NEW u \in Users,
         NEW role \in ROLES,
         \/ \E command \in Decisions : SubmitDecision(w, a, u, role, command)
         \/ \E p \in Payload : SubmitExecution(w, a, u, role, p)
  PROVE  ApprovalInvariant'
<1>1. /\ UNCHANGED <<approvals, effects>>
      /\ \A v \in Workers \ {w} : requests'[v] = requests[v]
      /\ Exists(a) /\ requests'[w].approval = a
      /\ requests'[w].pc \in {"decide", "authorize"}
  BY DEF SubmitDecision, SubmitExecution, Inv, TypeOK
<1>2. requests'[w].pc = "decide" /\ requests'[w].status = "approved"
        => requests'[w].user # approvals[a].requested_by
  BY DEF SubmitDecision, SubmitExecution, MayDecide, StatusOf, Decisions, Inv, TypeOK
<1>3. RequestConsistent(w)'
  BY <1>1, <1>2 DEF RequestConsistent, Serving, Exists, Executing
<1>4. \A b \in Approvals : Holds(w, b)' => Holds(w, b)
  BY <1>1 DEF Holds, Executing
<1> QED
  BY <1>1, <1>3, <1>4, WorkerStep

\* Moving on inside an execution keeps what the row supports.
LEMMA MoveStep ==
  ASSUME Inv, NEW w \in Workers,
         AuditStarted(w) \/ DryRun(w) \/ AuditSucceeded(w) \/ StorageErrorCaught(w)
  PROVE  ApprovalInvariant'
<1>1. /\ requests[w] \in ExecuteRequest /\ requests[w].pc \in Executing
      /\ RequestConsistent(w)
  BY RequestShape DEF AuditStarted, DryRun, AuditSucceeded, StorageErrorCaught,
     Caught, Serving, Executing, Inv, ApprovalInvariant
<1>2. /\ UNCHANGED <<approvals, effects>>
      /\ \A v \in Workers \ {w} : requests'[v] = requests[v]
      /\ requests'[w].approval = requests[w].approval
      /\ \/ requests[w].pc = "audit_started" /\ requests'[w].pc = "execute"
         \/ /\ approvals[requests[w].approval].payload.dry_run
            /\ requests'[w].pc = "record_success"
         \/ requests'[w].pc \in {"audit_executed", "record_failure"}
  BY <1>1 DEF AuditStarted, DryRun, AuditSucceeded, StorageErrorCaught, Serving,
     Goto, Inv, TypeOK, ExecuteRequest
<1>3. RequestConsistent(w)'
  BY <1>1, <1>2 DEF RequestConsistent, Serving, Exists, Executing
<1>4. \A b \in Approvals : Holds(w, b)' => Holds(w, b)
  BY <1>1, <1>2 DEF Holds
<1> QED
  BY <1>2, <1>3, <1>4, WorkerStep

\* A request that ends leaves the rows to the others.
LEMMA FinishStep ==
  ASSUME Inv, NEW w \in Workers,
         \/ AuditRequested(w) \/ DecisionTooLate(w) \/ AuditDecision(w)
         \/ AuthorizeRefused(w) \/ AuditExecuted(w) \/ AuditFailed(w)
         \/ StorageErrorAborts(w)
  PROVE  ApprovalInvariant'
<1>1. UNCHANGED <<approvals, effects>> /\ Finish(w)
  BY DEF AuditRequested, DecisionTooLate, AuditDecision, AuthorizeRefused,
     AuditExecuted, AuditFailed, StorageErrorAborts
<1>2. \A v \in Workers : requests'[v] = requests[v] \/ requests'[v] = IdleRequest
  BY <1>1 DEF Finish, Inv, TypeOK
<1> QED
  BY <1>1, <1>2, WorkerStep

LEMMA StepInvariant == Inv /\ [Next]_vars => ApprovalInvariant'
<1> SUFFICES ASSUME Inv, [Next]_vars
             PROVE  ApprovalInvariant'
  OBVIOUS
<1>1. ASSUME NEW w \in Workers, Receive(w)
      PROVE  ApprovalInvariant'
  BY <1>1, CreateStep, SubmitStep DEF Receive
<1>2. ASSUME NEW w \in Workers, Proceed(w)
      PROVE  ApprovalInvariant'
  BY <1>2, DecideStep, ConsumeStep, ExecuteStep, OutcomeStep, MoveStep, FinishStep
     DEF Proceed, authorizeApprovedAction
<1>3. ASSUME NEW w \in Workers, StorageErrorCaught(w) \/ StorageErrorAborts(w)
      PROVE  ApprovalInvariant'
  BY <1>3, MoveStep, FinishStep
<1>4. CASE Restart
  BY <1>4, WorkerStep DEF Restart
<1>5. CASE Tick \/ UNCHANGED vars
  BY <1>5, WorkerStep DEF Tick, vars
<1> QED
  BY <1>1, <1>2, <1>3, <1>4, <1>5 DEF Next

\* The invariant holds in every reachable state, for any number of workers,
\* approvals, users and registry versions.
THEOREM InvariantHolds == Spec => []Inv
<1>1. Init => Inv
  BY InitTypeOK, InitInvariant DEF Inv
<1>2. Inv /\ [Next]_vars => Inv'
  BY StepTypeOK, StepInvariant DEF Inv, ApprovalInvariant, RequestConsistent
<1> QED
  BY <1>1, <1>2, PTL DEF Spec

\* Rows, workers and the audit trail keep their types.
THEOREM TypeCorrect == Spec => []TypeOK
BY InvariantHolds, PTL DEF Inv

\* At most one request ever executes on the authority of an approval.
THEOREM AuthorityIsExclusive == Spec => []ExclusiveAuthority
BY InvariantHolds, PTL DEF Inv, ApprovalInvariant

\* "The consumed approval cannot be replayed": an executor is called at most
\* once for an approval, however many requests, failures and restarts occur.
THEOREM NoReplay == Spec => []EffectAtMostOnce
<1>1. Inv => EffectAtMostOnce
  BY DEF Inv, ApprovalInvariant, EffectConsistent, EffectAtMostOnce
<1> QED
  BY <1>1, InvariantHolds, PTL

\* A used approval was granted by another user, inside its window and under
\* the contract it was previewed with.
THEOREM UseIsAuthorized == Spec => [](AuthorityChain /\ NoOpPreviewNeverRuns)
<1>1. Inv => AuthorityChain /\ NoOpPreviewNeverRuns
  BY DEF Inv, ApprovalInvariant, RowConsistent, EffectConsistent, AuthorityChain,
     NoOpPreviewNeverRuns, Exists
<1> QED
  BY <1>1, InvariantHolds, PTL

\* A row that reports success did run its action, or was a dry run.
THEOREM OutcomesAreHonest == Spec => []OutcomeHonest
<1>1. Inv => OutcomeHonest
  BY DEF Inv, ApprovalInvariant, RowConsistent, EffectConsistent, OutcomeHonest
<1> QED
  BY <1>1, InvariantHolds, PTL

-----------------------------------------------------------------------------
(* Decisions stay, and the trail follows the rows *)

\* How one step may change the row of an approval.
RowMovesOn(a) ==
  LET old == approvals[a]  new == approvals'[a] IN
  Exists(a) =>
    /\ Exists(a)'
    /\ new.payload = old.payload
    /\ \/ new.status = old.status
       \/ old.status = "pending"
       \/ old.status = "approved" /\ new.status \in {"expired", "consumed"}
    /\ old.approved_by # NoUser =>
         /\ new.approved_by = old.approved_by
         /\ new.approver_role = old.approver_role
         /\ new.decided_at = old.decided_at
    /\ old.consumed_by # NoUser =>
         new.consumed_by = old.consumed_by /\ new.consumed_at = old.consumed_at

LEMMA RowsMoveOn ==
  ASSUME Inv, [Next]_vars, NEW a \in Approvals
  PROVE  RowMovesOn(a)
<1>1. UNCHANGED approvals => RowMovesOn(a)
  BY DEF RowMovesOn, Exists
<1>2. ASSUME NEW w \in Workers, NEW b \in Approvals, NEW u \in Users,
             NEW role \in ROLES, NEW p \in Payload, RequestApproval(w, b, u, role, p)
      PROVE  RowMovesOn(a)
  <2>1. ~Exists(b) /\ (a # b => approvals'[a] = approvals[a])
    BY <1>2 DEF RequestApproval, Inv, TypeOK
  <2> QED
    BY <2>1 DEF RowMovesOn, Exists
<1>3. ASSUME NEW w \in Workers, DecisionExpired(w) \/ CommitDecision(w)
      PROVE  RowMovesOn(a)
  <2> DEFINE q == requests[w]
             b == q.approval
  <2>1. q \in DecideRequest /\ b \in Approvals /\ approvals[b].status = "pending"
    BY <1>3, RequestShape DEF DecisionExpired, CommitDecision, DecideRequest, Inv
  <2>2. Exists(b) /\ approvals[b] \in Row
    BY <2>1, RowShape DEF Exists, Inv
  <2>3. approvals[b].approved_by = NoUser /\ approvals[b].consumed_by = NoUser
    BY <2>1, <2>2 DEF Inv, ApprovalInvariant, RowConsistent
  <2>4. a # b => approvals'[a] = approvals[a]
    BY <1>3 DEF DecisionExpired, CommitDecision, Inv, TypeOK
  <2>5. approvals'[b].status # "none" /\ approvals'[b].payload = approvals[b].payload
    BY <1>3, <2>1, <2>2 DEF DecisionExpired, CommitDecision, Inv, TypeOK, Row, DecideRequest
  <2> QED
    BY <2>1, <2>3, <2>4, <2>5 DEF RowMovesOn, Exists
<1>4. ASSUME NEW w \in Workers, AuthorizeExpired(w) \/ Consume(w)
      PROVE  RowMovesOn(a)
  <2> DEFINE q == requests[w]
             b == q.approval
  <2>1. q \in ExecuteRequest /\ b \in Approvals /\ approvals[b].status = "approved"
    BY <1>4, RequestShape
       DEF AuthorizeExpired, Consume, Authorized, Usable, Serving, ExecuteRequest, Inv
  <2>2. Exists(b) /\ approvals[b] \in Row
    BY <2>1, RowShape DEF Exists, Inv
  <2>3. approvals[b].consumed_by = NoUser
    BY <2>1, <2>2 DEF Inv, ApprovalInvariant, RowConsistent
  <2>4. a # b => approvals'[a] = approvals[a]
    BY <1>4 DEF AuthorizeExpired, Consume, Inv, TypeOK
  <2>5. /\ approvals'[b].status \in {"expired", "consumed"}
        /\ approvals'[b].payload = approvals[b].payload
        /\ approvals'[b].approved_by = approvals[b].approved_by
        /\ approvals'[b].approver_role = approvals[b].approver_role
        /\ approvals'[b].decided_at = approvals[b].decided_at
    BY <1>4, <2>1, <2>2 DEF AuthorizeExpired, Consume, Inv, TypeOK, Row
  <2> QED
    BY <2>1, <2>3, <2>4, <2>5 DEF RowMovesOn, Exists
<1>5. ASSUME NEW w \in Workers, RecordSuccess(w) \/ RecordFailure(w)
      PROVE  RowMovesOn(a)
  <2> DEFINE b == requests[w].approval
  <2>1. b \in Approvals /\ Exists(b)
    BY <1>5, RequestShape DEF RecordSuccess, RecordFailure, RecordOutcome, Serving, Inv,
       ApprovalInvariant, RequestConsistent
  <2>2. approvals[b] \in Row
    BY <2>1, RowShape DEF Inv
  <2>3. PICK t, r : approvals' = [approvals EXCEPT ![b].executed_at = t, ![b].result = r]
    BY <1>5 DEF RecordSuccess, RecordFailure, RecordOutcome
  <2>4. a # b => approvals'[a] = approvals[a]
    BY <2>3 DEF Inv, TypeOK
  <2>5. approvals'[b] = [approvals[b] EXCEPT !.executed_at = t, !.result = r]
    BY <2>1, <2>3 DEF Inv, TypeOK
  <2>6. /\ approvals'[b].status = approvals[b].status
        /\ approvals'[b].payload = approvals[b].payload
        /\ approvals'[b].approved_by = approvals[b].approved_by
        /\ approvals'[b].approver_role = approvals[b].approver_role
        /\ approvals'[b].decided_at = approvals[b].decided_at
        /\ approvals'[b].consumed_by = approvals[b].consumed_by
        /\ approvals'[b].consumed_at = approvals[b].consumed_at
    BY <2>2, <2>5 DEF Row
  <2> QED
    BY <2>1, <2>4, <2>6 DEF RowMovesOn, Exists
<1>6. ASSUME NEW w \in Workers, Receive(w) PROVE RowMovesOn(a)
  BY <1>1, <1>2, <1>6 DEF Receive, SubmitDecision, SubmitExecution
<1>7. ASSUME NEW w \in Workers, Proceed(w) PROVE RowMovesOn(a)
  <2>1. \/ DecisionExpired(w) \/ CommitDecision(w)
        \/ AuthorizeExpired(w) \/ Consume(w)
        \/ RecordSuccess(w) \/ RecordFailure(w)
        \/ UNCHANGED approvals
    BY <1>7 DEF Proceed, authorizeApprovedAction, AuditRequested, DecisionTooLate,
       AuditDecision, AuthorizeRefused, AuditStarted, DryRun, ExecuteAction,
       AuditSucceeded, AuditExecuted, AuditFailed
  <2> QED
    BY <1>1, <1>3, <1>4, <1>5, <2>1
<1>8. ASSUME NEW w \in Workers, StorageErrorCaught(w) \/ StorageErrorAborts(w)
      PROVE  RowMovesOn(a)
  BY <1>1, <1>8 DEF StorageErrorCaught, StorageErrorAborts
<1>9. Restart \/ Tick \/ UNCHANGED vars => UNCHANGED approvals
  BY DEF Restart, Tick, vars
<1> QED
  BY <1>1, <1>6, <1>7, <1>8, <1>9 DEF Next

\* No request, late or retried, rewrites who decided an approval, who used it and when.
THEOREM DecisionsAreFinal == Spec => DecisionIsFinal
<1>1. Inv /\ [Next]_vars =>
        [\A a \in Approvals :
           Exists(a) =>
             /\ approvals[a].approved_by # NoUser =>
                  /\ approvals'[a].approved_by = approvals[a].approved_by
                  /\ approvals'[a].approver_role = approvals[a].approver_role
                  /\ approvals'[a].decided_at = approvals[a].decided_at
             /\ approvals[a].consumed_by # NoUser =>
                  /\ approvals'[a].consumed_by = approvals[a].consumed_by
                  /\ approvals'[a].consumed_at = approvals[a].consumed_at]_vars
  BY RowsMoveOn DEF RowMovesOn
<1> QED
  BY <1>1, InvariantHolds, PTL DEF Spec, DecisionIsFinal

\* e is a decision that the trail reports of a, or that some worker is about to report.
InTrail(a, e) ==
  /\ e \in DecisionEvents
  /\ \/ e \in audit[a]
     \/ \E w \in Workers : /\ Serving(w, "audit_decision")
                           /\ requests[w].approval = a /\ requests[w].event = e

\* The trail with what is still to be written to it agrees with the row.
TrailConsistent(a) ==
  /\ \A e, f : InTrail(a, e) /\ InTrail(a, f) => e = f
  /\ \A e : InTrail(a, e) =>
       IF e = "approved" THEN approvals[a].status \in {"approved", "expired", "consumed"}
                         ELSE approvals[a].status = e
  /\ {"started", "succeeded", "failed"} \cap audit[a] # {} =>
       approvals[a].status = "consumed"
  /\ "succeeded" \in audit[a] => effects[a] = 1 \/ approvals[a].payload.dry_run

LEMMA EffectsStay ==
  ASSUME Inv, Inv', [Next]_vars, NEW a \in Approvals, effects[a] = 1
  PROVE  effects'[a] = 1
<1>1. effects'[a] \in {effects[a], effects[a] + 1}
  <2>1. ASSUME NEW w \in Workers, ExecuteAction(w) PROVE effects'[a] \in {effects[a], effects[a] + 1}
    BY <2>1 DEF ExecuteAction, Inv, TypeOK
  <2>2. ASSUME NEW w \in Workers, Proceed(w) PROVE UNCHANGED effects \/ ExecuteAction(w)
    BY <2>2 DEF Proceed, authorizeApprovedAction, AuditRequested, DecisionTooLate,
       DecisionExpired, CommitDecision, AuditDecision, AuthorizeExpired,
       AuthorizeRefused, Consume, AuditStarted, DryRun, RecordSuccess, RecordFailure,
       RecordOutcome, AuditSucceeded, AuditExecuted, AuditFailed
  <2>3. ASSUME NEW w \in Workers,
               Receive(w) \/ StorageErrorCaught(w) \/ StorageErrorAborts(w)
        PROVE  UNCHANGED effects
    BY <2>3 DEF Receive, RequestApproval, SubmitDecision, SubmitExecution,
       StorageErrorCaught, StorageErrorAborts
  <2>4. Restart \/ Tick \/ UNCHANGED vars => UNCHANGED effects
    BY DEF Restart, Tick, vars
  <2>5. UNCHANGED effects => effects'[a] \in {effects[a], effects[a] + 1}
    OBVIOUS
  <2> QED
    BY <2>1, <2>2, <2>3, <2>4, <2>5 DEF Next
<1>2. effects'[a] \in {0, 1}
  BY DEF Inv, ApprovalInvariant, EffectConsistent
<1> QED
  BY <1>1, <1>2

\* Nothing is reported that was not decided before, and of an execution only what the
\* row supports.
LEMMA TrailFollows ==
  ASSUME Inv, Inv', [Next]_vars, NEW a \in Approvals, TrailConsistent(a),
         \A e : InTrail(a, e)' => InTrail(a, e),
         \A e \in {"started", "succeeded", "failed"} :
           e \in audit'[a] =>
             \/ e \in audit[a]
             \/ /\ approvals[a].status = "consumed"
                /\ e = "succeeded" => effects[a] = 1 \/ approvals[a].payload.dry_run
  PROVE  TrailConsistent(a)'
<1>1. RowMovesOn(a) /\ (effects[a] = 1 => effects'[a] = 1)
  BY RowsMoveOn, EffectsStay
<1>2. \A e : InTrail(a, e) => approvals[a].status \notin {"pending", "none"}
  BY DEF TrailConsistent, InTrail, DecisionEvents
<1>3. approvals[a].status \notin {"pending", "none"} =>
        /\ approvals'[a].payload = approvals[a].payload
        /\ \/ approvals'[a].status = approvals[a].status
           \/ approvals[a].status = "approved" /\ approvals'[a].status \in {"expired", "consumed"}
  BY <1>1 DEF RowMovesOn, Exists
<1>4. \A e : InTrail(a, e)' =>
        IF e = "approved" THEN approvals'[a].status \in {"approved", "expired", "consumed"}
                          ELSE approvals'[a].status = e
  <2>1. ASSUME NEW e, InTrail(a, e)'
        PROVE  IF e = "approved"
               THEN approvals'[a].status \in {"approved", "expired", "consumed"}
               ELSE approvals'[a].status = e
    <3>1. IF e = "approved" THEN approvals[a].status \in {"approved", "expired", "consumed"}
                            ELSE approvals[a].status = e
      BY <2>1 DEF TrailConsistent
    <3>2. approvals[a].status \notin {"pending", "none"}
      BY <1>2, <2>1
    <3> QED
      BY <1>3, <3>1, <3>2
  <2> QED
    BY <2>1
<1>5. \A e, f : InTrail(a, e)' /\ InTrail(a, f)' => e = f
  BY DEF TrailConsistent
<1>6. {"started", "succeeded", "failed"} \cap audit'[a] # {} => approvals[a].status = "consumed"
  BY DEF TrailConsistent
<1>7. "succeeded" \in audit'[a] => effects[a] = 1 \/ approvals[a].payload.dry_run
  BY DEF TrailConsistent
<1> QED
  BY <1>1, <1>3, <1>4, <1>5, <1>6, <1>7 DEF TrailConsistent

\* The row is decided: its trail begins.
LEMMA TrailBegins ==
  ASSUME Inv, Inv', \A b \in Approvals : TrailConsistent(b), NEW w \in Workers,
         DecisionExpired(w) \/ CommitDecision(w), NEW a \in Approvals
  PROVE  TrailConsistent(a)'
<1> DEFINE b == requests[w].approval
<1>1. requests[w] \in DecideRequest /\ b \in Approvals
  BY RequestShape DEF DecisionExpired, CommitDecision, DecideRequest, Inv
<1>2. PICK e \in DecisionEvents :
        /\ requests'[w] = [pc |-> "audit_decision", approval |-> b, event |-> e]
        /\ approvals'[b].status = e
  <2>1. approvals[b] \in Row
    BY <1>1, RowShape DEF DecisionExpired, CommitDecision, Exists, Inv
  <2>2. ASSUME NEW e, NEW u, NEW r, NEW t, NEW x,
               approvals' = [approvals EXCEPT ![b].status = e, ![b].approved_by = u,
                                              ![b].approver_role = r, ![b].decided_at = t,
                                              ![b].result = x]
        PROVE  approvals'[b].status = e
    <3>1. approvals'[b] = [approvals[b] EXCEPT !.status = e, !.approved_by = u,
                                !.approver_role = r, !.decided_at = t, !.result = x]
      BY <1>1, <2>2 DEF Inv, TypeOK
    <3> QED
      BY <2>1, <3>1 DEF Row
  <2>3. CASE DecisionExpired(w)
    <3>1. approvals'[b] = [approvals[b] EXCEPT !.status = "expired",
                             !.decided_at = requests[w].now, !.result = "expired"]
      BY <1>1, <2>3 DEF DecisionExpired, Inv, TypeOK
    <3>2. approvals'[b].status = "expired"
      BY <2>1, <3>1 DEF Row
    <3>3. requests'[w] = [pc |-> "audit_decision", approval |-> b, event |-> "expired"]
      BY <2>3 DEF DecisionExpired, Inv, TypeOK
    <3> QED
      BY <3>2, <3>3 DEF DecisionEvents
  <2>4. CASE CommitDecision(w)
    <3>1. approvals'[b].status = requests[w].status
      BY <2>2, <2>4 DEF CommitDecision
    <3>2. /\ requests'[w] = [pc |-> "audit_decision", approval |-> b,
                             event |-> requests[w].status]
          /\ requests[w].status \in DecisionEvents
      BY <1>1, <2>4 DEF CommitDecision, Inv, TypeOK, DecideRequest, DecisionEvents
    <3> QED
      BY <3>1, <3>2
  <2> QED
    BY <2>3, <2>4
<1>3. /\ UNCHANGED <<audit, effects>> /\ approvals[b].status = "pending"
      /\ \A v \in Workers \ {w} : requests'[v] = requests[v]
      /\ Next
  <2>1. UNCHANGED <<audit, effects>> /\ approvals[b].status = "pending"
        /\ \A v \in Workers \ {w} : requests'[v] = requests[v]
    BY DEF DecisionExpired, CommitDecision, Inv, TypeOK
  <2> QED
    BY <2>1 DEF Next, Proceed
<1>4. CASE a = b
  <2>1. \A f : ~InTrail(a, f)
    BY <1>3, <1>4 DEF TrailConsistent, InTrail, DecisionEvents
  <2>2. \A f : InTrail(a, f)' => f = e
    BY <1>2, <1>3, <2>1 DEF InTrail, Serving
  <2>3. {"started", "succeeded", "failed"} \cap audit[a] = {}
    BY <1>3, <1>4 DEF TrailConsistent
  <2> QED
    BY <1>2, <1>3, <1>4, <2>2, <2>3 DEF TrailConsistent
<1>5. CASE a # b
  <2>1. \A f : InTrail(a, f)' => InTrail(a, f)
    BY <1>2, <1>3, <1>5 DEF InTrail, Serving
  <2> QED
    BY <1>3, <2>1, TrailFollows
<1> QED
  BY <1>4, <1>5

LEMMA TrailStep ==
  ASSUME Inv, Inv', [Next]_vars, \A b \in Approvals : TrailConsistent(b),
         NEW a \in Approvals
  PROVE  TrailConsistent(a)'
<1>1. ASSUME UNCHANGED audit,
             \A w \in Workers : requests'[w] = requests[w] \/ requests'[w].pc # "audit_decision"
      PROVE  TrailConsistent(a)'
  <2>1. \A e : InTrail(a, e)' => InTrail(a, e)
    BY <1>1 DEF InTrail, Serving
  <2> QED
    BY <1>1, <2>1, TrailFollows
<1>2. ASSUME NEW w \in Workers, NEW pc, Goto(w, pc), pc # "audit_decision",
             UNCHANGED audit, requests[w] \in ExecuteRequest
      PROVE  TrailConsistent(a)'
  <2>1. requests'[w].pc = pc
    BY <1>2 DEF Goto, Inv, TypeOK, ExecuteRequest
  <2>2. \A v \in Workers \ {w} : requests'[v] = requests[v]
    BY <1>2 DEF Goto, Inv, TypeOK
  <2> QED
    BY <1>1, <1>2, <2>1, <2>2
<1>3. ASSUME NEW w \in Workers, Finish(w), UNCHANGED audit PROVE TrailConsistent(a)'
  <2>1. requests'[w].pc # "audit_decision"
    BY <1>3 DEF Finish, Inv, TypeOK, IdleRequest
  <2>2. \A v \in Workers \ {w} : requests'[v] = requests[v]
    BY <1>3 DEF Finish, Inv, TypeOK
  <2> QED
    BY <1>1, <1>3, <2>1, <2>2
<1>4. ASSUME NEW w \in Workers, Receive(w) PROVE TrailConsistent(a)'
  <2>1. /\ requests'[w].pc \in {"audit_requested", "decide", "authorize"}
        /\ \A v \in Workers \ {w} : requests'[v] = requests[v]
        /\ UNCHANGED audit
    BY <1>4 DEF Receive, RequestApproval, SubmitDecision, SubmitExecution, Inv, TypeOK
  <2> QED
    BY <1>1, <2>1
<1>5. ASSUME NEW w \in Workers, AuditDecision(w) PROVE TrailConsistent(a)'
  <2> DEFINE b == requests[w].approval
  <2>1. b \in Approvals /\ requests[w].event \in DecisionEvents
    BY <1>5, RequestShape DEF AuditDecision, DecidedRequest, Inv
  <2>2. /\ audit'[b] = audit[b] \cup {requests[w].event}
        /\ \A c \in Approvals \ {b} : audit'[c] = audit[c]
        /\ requests'[w].pc = "idle"
        /\ \A v \in Workers \ {w} : requests'[v] = requests[v]
    BY <1>5, <2>1 DEF AuditDecision, Log, Finish, Inv, TypeOK, IdleRequest
  <2>3. \A e : InTrail(a, e)' => InTrail(a, e)
    BY <1>5, <2>1, <2>2 DEF InTrail, Serving, AuditDecision
  <2>4. \A e \in {"started", "succeeded", "failed"} : e \in audit'[a] => e \in audit[a]
    BY <2>1, <2>2 DEF DecisionEvents
  <2> QED
    BY <2>3, <2>4, TrailFollows
<1>6. ASSUME NEW w \in Workers,
             \/ AuditRequested(w) \/ AuditStarted(w) \/ AuditSucceeded(w) \/ AuditFailed(w)
      PROVE  TrailConsistent(a)'
  <2> DEFINE b == requests[w].approval
  <2>1. b \in Approvals
    BY <1>6, RequestShape
       DEF AuditRequested, AuditStarted, AuditSucceeded, AuditFailed, Serving, Inv
  <2>2. PICK e \in {"requested", "started", "succeeded", "failed"} :
          /\ Log(b, e)
          /\ e = "requested" => AuditRequested(w)
          /\ e = "started" => AuditStarted(w)
          /\ e = "succeeded" => AuditSucceeded(w)
          /\ e = "failed" => AuditFailed(w)
    BY <1>6 DEF AuditRequested, AuditStarted, AuditSucceeded, AuditFailed
  <2>3. /\ audit'[b] = audit[b] \cup {e}
        /\ \A c \in Approvals \ {b} : audit'[c] = audit[c]
    BY <2>1, <2>2 DEF Log, Inv, TypeOK
  <2>4. /\ requests'[w].pc # "audit_decision"
        /\ \A v \in Workers \ {w} : requests'[v] = requests[v]
    <3>1. CASE Finish(w)
      BY <3>1 DEF Finish, Inv, TypeOK, IdleRequest
    <3>2. CASE AuditStarted(w) \/ AuditSucceeded(w)
      <4>1. requests[w] \in ExecuteRequest
        BY <3>2, RequestShape DEF AuditStarted, AuditSucceeded, Serving, Executing, Inv
      <4> QED
        BY <3>2, <4>1 DEF AuditStarted, AuditSucceeded, Goto, Inv, TypeOK, ExecuteRequest
    <3> QED
      BY <1>6, <3>1, <3>2 DEF AuditRequested, AuditFailed
  <2>5. \A f : InTrail(a, f)' => InTrail(a, f)
    BY <2>1, <2>3, <2>4 DEF InTrail, Serving, DecisionEvents
  <2>6. e # "requested" => approvals[b].status = "consumed"
    BY <2>2 DEF AuditStarted, AuditSucceeded, AuditFailed, Serving, Executing, Inv,
       ApprovalInvariant, RequestConsistent
  <2>7. e = "succeeded" => effects[b] = 1 \/ approvals[b].payload.dry_run
    BY <2>2 DEF AuditSucceeded, Serving, Inv, ApprovalInvariant, RequestConsistent
  <2>8. \A f \in {"started", "succeeded", "failed"} :
          f \in audit'[a] =>
            \/ f \in audit[a]
            \/ /\ approvals[a].status = "consumed"
               /\ f = "succeeded" => effects[a] = 1 \/ approvals[a].payload.dry_run
    BY <2>1, <2>3, <2>6, <2>7
  <2> QED
    BY <2>5, <2>8, TrailFollows
<1>7. ASSUME NEW w \in Workers, DecisionExpired(w) \/ CommitDecision(w)
      PROVE  TrailConsistent(a)'
  BY <1>7, TrailBegins
<1>8. ASSUME NEW w \in Workers,
             \/ DecisionTooLate(w) \/ AuthorizeExpired(w) \/ AuthorizeRefused(w)
             \/ AuditExecuted(w) \/ StorageErrorAborts(w)
      PROVE  TrailConsistent(a)'
  BY <1>3, <1>8 DEF DecisionTooLate, AuthorizeExpired, AuthorizeRefused, AuditExecuted,
     StorageErrorAborts
<1>9. ASSUME NEW w \in Workers,
             \/ Consume(w) \/ DryRun(w) \/ ExecuteAction(w) \/ RecordSuccess(w)
             \/ RecordFailure(w) \/ StorageErrorCaught(w)
      PROVE  TrailConsistent(a)'
  <2>1. requests[w] \in ExecuteRequest
    BY <1>9, RequestShape DEF Consume, DryRun, ExecuteAction, RecordSuccess, RecordFailure,
       RecordOutcome, StorageErrorCaught, Caught, Serving, Executing, Inv
  <2>2. \E pc \in Executing : Goto(w, pc) /\ UNCHANGED audit
    BY <1>9 DEF Consume, DryRun, ExecuteAction, RecordSuccess, RecordFailure,
       RecordOutcome, StorageErrorCaught, Executing
  <2> QED
    BY <1>2, <2>1, <2>2 DEF Executing
<1>10. CASE Restart
  BY <1>1, <1>10 DEF Restart, IdleRequest
<1>11. CASE Tick \/ UNCHANGED vars
  BY <1>1, <1>11 DEF Tick, vars
<1>12. ASSUME NEW w \in Workers, Proceed(w) PROVE TrailConsistent(a)'
  BY <1>5, <1>6, <1>7, <1>8, <1>9, <1>12 DEF Proceed, authorizeApprovedAction
<1> QED
  BY <1>4, <1>8, <1>9, <1>10, <1>11, <1>12 DEF Next

\* The audit trail never reports what the rows and the executor calls do not bear out,
\* although it is written after them, by workers that overtake each other or end.
THEOREM TheTrailIsTruthful == Spec => []AuditTruthful
<1> DEFINE Trail == \A a \in Approvals : TrailConsistent(a)
<1>1. Init => Trail
  BY DEF Init, TrailConsistent, InTrail, Serving, IdleRequest
<1>2. Inv /\ Inv' /\ Trail /\ [Next]_vars => Trail'
  BY TrailStep
<1>3. Trail => AuditTruthful
  <2>1. ASSUME NEW a \in Approvals, Trail
        PROVE  \A e \in DecisionEvents \cap audit[a] : InTrail(a, e)
    BY DEF InTrail
  <2> QED
    BY <2>1 DEF AuditTruthful, TrailConsistent, DecisionEvents
<1> QED
  BY <1>1, <1>2, <1>3, InvariantHolds, PTL DEF Spec

-----------------------------------------------------------------------------
(* Refinement: the workflow keeps the contract *)

\* Steps that leave rows and executor calls alone are stutters.
LEMMA ContractStutter ==
  ASSUME UNCHANGED <<approvals, effects>>
  PROVE  UNCHANGED Contract!contract
BY DEF Contract!contract, Field, Exists

LEMMA ContractOpen ==
  ASSUME Inv, NEW w \in Workers, NEW a \in Approvals, NEW u \in Users,
         NEW role \in ROLES, NEW p \in Payload, RequestApproval(w, a, u, role, p)
  PROVE  Contract!Open(a, u)
<1>1. /\ approvals'[a].status = "pending" /\ approvals'[a].requested_by = u
      /\ approvals'[a].approved_by = NoUser /\ approvals'[a].consumed_by = NoUser
      /\ \A b \in Approvals \ {a} : approvals'[b] = approvals[b]
      /\ approvals[a].status = "none" /\ effects' = effects
  BY DEF RequestApproval, Exists, Inv, TypeOK
<1> QED
  BY <1>1 DEF Contract!Open, Field, Exists

LEMMA ContractDecision ==
  ASSUME Inv, NEW w \in Workers, CommitDecision(w)
  PROVE  \E a \in Approvals, u \in Users : Contract!Grant(a, u) \/ Contract!Refuse(a, u)
<1>1. PICK a \in Approvals : a = requests[w].approval
  BY RequestShape DEF CommitDecision, Serving, Inv
<1>2. PICK u \in Users : u = requests[w].user
  BY RequestShape DEF CommitDecision, DecideRequest, Inv
<1>3. PICK s \in {"approved", "rejected", "cancelled"} : s = requests[w].status
  BY RequestShape DEF CommitDecision, DecideRequest, Inv
<1>4. Exists(a) /\ approvals[a] \in Row /\ approvals[a].status = "pending"
  BY <1>1, RowShape DEF CommitDecision, Exists, Inv
<1>5. /\ approvals'[a] = [approvals[a] EXCEPT !.status = s, !.approved_by = u,
                             !.approver_role = requests[w].role,
                             !.decided_at = requests[w].now,
                             !.result = "decision_reason"]
      /\ \A b \in Approvals \ {a} : approvals'[b] = approvals[b]
      /\ effects' = effects
  BY <1>1, <1>2, <1>3 DEF CommitDecision, Inv, TypeOK
<1>6. /\ approvals'[a].status = s /\ approvals'[a].approved_by = u
      /\ approvals'[a].requested_by = approvals[a].requested_by
      /\ approvals'[a].consumed_by = approvals[a].consumed_by
  BY <1>4, <1>5 DEF Row
<1>7. s = "approved" => u # approvals[a].requested_by
  BY <1>1, <1>2, <1>3
     DEF CommitDecision, Inv, ApprovalInvariant, RequestConsistent
<1>8. s \in Statuses \ {"none"}
  BY DEF Statuses
<1>9. CASE s = "approved"
  <2>1. Contract!Grant(a, u)
    BY <1>4, <1>5, <1>6, <1>7, <1>8, <1>9 DEF Contract!Grant, Field, Exists
  <2> QED
    BY <2>1
<1>10. CASE s # "approved"
  <2>1. s \in {"rejected", "cancelled"}
    BY <1>10
  <2>2. [b \in Approvals |-> approvals'[b].status]
          = [[b \in Approvals |-> approvals[b].status] EXCEPT ![a] = s]
    BY <1>5, <1>6
  <2>3. \A b \in Approvals :
          /\ Field(b, "requested_by", NoUser)' = Field(b, "requested_by", NoUser)
          /\ Field(b, "consumed_by", NoUser)' = Field(b, "consumed_by", NoUser)
          /\ b # a => Field(b, "approved_by", NoUser)' = Field(b, "approved_by", NoUser)
    BY <1>4, <1>5, <1>6, <1>8 DEF Field, Exists
  <2>4. Field(a, "approved_by", NoUser)' = u
    BY <1>6, <1>8 DEF Field, Exists
  <2>5. [b \in Approvals |-> Field(b, "approved_by", NoUser)']
          = [[b \in Approvals |-> Field(b, "approved_by", NoUser)] EXCEPT ![a] = u]
    BY <2>3, <2>4
  <2>6. Contract!Refuse(a, u)
    BY <1>4, <1>5, <2>1, <2>2, <2>3, <2>5 DEF Contract!Refuse
  <2> QED
    BY <2>6
<1> QED
  BY <1>9, <1>10

LEMMA ContractExpire ==
  ASSUME Inv, NEW w \in Workers, DecisionExpired(w) \/ AuthorizeExpired(w)
  PROVE  \E a \in Approvals : Contract!Expire(a)
<1>1. PICK a \in Approvals : a = requests[w].approval
  BY RequestShape DEF DecisionExpired, AuthorizeExpired, Serving, Inv
<1>2. /\ Exists(a) /\ approvals[a] \in Row
      /\ approvals[a].status \in {"pending", "approved"}
  BY <1>1, RowShape DEF DecisionExpired, AuthorizeExpired, Exists, Inv
<1>3. /\ \/ approvals'[a] = [approvals[a] EXCEPT !.status = "expired",
                                                !.decided_at = requests[w].now,
                                                !.result = "expired"]
         \/ approvals'[a] = [approvals[a] EXCEPT !.status = "expired",
                                                !.result = "expired"]
      /\ \A b \in Approvals \ {a} : approvals'[b] = approvals[b]
      /\ effects' = effects
  BY <1>1 DEF DecisionExpired, AuthorizeExpired, Inv, TypeOK
<1>4. /\ approvals'[a].status = "expired"
      /\ approvals'[a].requested_by = approvals[a].requested_by
      /\ approvals'[a].approved_by = approvals[a].approved_by
      /\ approvals'[a].consumed_by = approvals[a].consumed_by
  BY <1>2, <1>3 DEF Row
<1>5. Contract!Expire(a)
  BY <1>2, <1>3, <1>4 DEF Contract!Expire, Field, Exists
<1> QED
  BY <1>5

LEMMA ContractConsume ==
  ASSUME Inv, NEW w \in Workers, Consume(w)
  PROVE  \E a \in Approvals, u \in Users : Contract!Consume(a, u)
<1>1. PICK a \in Approvals : a = requests[w].approval
  BY RequestShape DEF Consume, Serving, Inv
<1>2. PICK u \in Users : u = requests[w].user
  BY RequestShape DEF Consume, ExecuteRequest, Serving, Inv
<1>3. /\ Exists(a) /\ approvals[a] \in Row /\ approvals[a].status = "approved"
      /\ u # approvals[a].requested_by
  BY <1>1, <1>2, RowShape DEF Consume, Authorized, Usable, ActorMayExecute, Exists, Inv
<1>4. /\ approvals'[a] = [approvals[a] EXCEPT !.status = "consumed",
                             !.consumed_by = u, !.consumed_at = requests[w].now,
                             !.result = "consumed"]
      /\ \A b \in Approvals \ {a} : approvals'[b] = approvals[b]
      /\ effects' = effects
  BY <1>1, <1>2 DEF Consume, Inv, TypeOK
<1>5. /\ approvals'[a].status = "consumed" /\ approvals'[a].consumed_by = u
      /\ approvals'[a].requested_by = approvals[a].requested_by
      /\ approvals'[a].approved_by = approvals[a].approved_by
  BY <1>3, <1>4 DEF Row
<1>6. Contract!Consume(a, u)
  BY <1>3, <1>4, <1>5 DEF Contract!Consume, Field, Exists
<1> QED
  BY <1>6

LEMMA ContractPerform ==
  ASSUME Inv, NEW w \in Workers, ExecuteAction(w)
  PROVE  UNCHANGED Contract!contract \/ \E a \in Approvals : Contract!Perform(a)
<1>1. PICK a \in Approvals : a = requests[w].approval
  BY RequestShape DEF ExecuteAction, Serving, Inv
<1>2. /\ approvals' = approvals /\ effects[a] = 0
      /\ approvals[a].status = "consumed"
      /\ effects' = effects \/ effects' = [effects EXCEPT ![a] = 1]
  BY <1>1 DEF ExecuteAction, Serving, Inv, ApprovalInvariant, RequestConsistent,
     Executing, TypeOK
<1>3. CASE effects' = effects
  BY <1>2, <1>3, ContractStutter
<1>4. CASE effects' = [effects EXCEPT ![a] = 1]
  <2>1. Contract!Perform(a)
    BY <1>2, <1>4 DEF Contract!Perform, Field, Exists
  <2> QED
    BY <2>1
<1> QED
  BY <1>2, <1>3, <1>4

LEMMA ContractOutcome ==
  ASSUME Inv, NEW w \in Workers, RecordSuccess(w) \/ RecordFailure(w)
  PROVE  UNCHANGED Contract!contract
<1>1. PICK a \in Approvals : a = requests[w].approval
  BY RequestShape DEF RecordSuccess, RecordFailure, RecordOutcome, Serving, Inv
<1>2. Exists(a) /\ approvals[a] \in Row
  BY <1>1, RowShape DEF RecordSuccess, RecordFailure, RecordOutcome, Serving, Inv,
     ApprovalInvariant, RequestConsistent
<1>3. /\ \E outcome \in {"success", "failure"} :
           approvals'[a] = [approvals[a] EXCEPT !.executed_at = requests[w].now,
                                               !.result = outcome]
      /\ \A b \in Approvals \ {a} : approvals'[b] = approvals[b]
      /\ effects' = effects
  BY <1>1 DEF RecordSuccess, RecordFailure, RecordOutcome, Inv, TypeOK
<1>4. /\ approvals'[a].status = approvals[a].status
      /\ approvals'[a].requested_by = approvals[a].requested_by
      /\ approvals'[a].approved_by = approvals[a].approved_by
      /\ approvals'[a].consumed_by = approvals[a].consumed_by
  BY <1>2, <1>3 DEF Row
<1>5. \A b \in Approvals :
        /\ approvals'[b].status = approvals[b].status
        /\ Field(b, "requested_by", NoUser)' = Field(b, "requested_by", NoUser)
        /\ Field(b, "approved_by", NoUser)' = Field(b, "approved_by", NoUser)
        /\ Field(b, "consumed_by", NoUser)' = Field(b, "consumed_by", NoUser)
  BY <1>2, <1>3, <1>4 DEF Field, Exists
<1> QED
  BY <1>3, <1>5 DEF Contract!contract

LEMMA ContractStep == Inv /\ [Next]_vars => [Contract!Next]_(Contract!contract)
<1> SUFFICES ASSUME Inv, [Next]_vars
             PROVE  Contract!Next \/ UNCHANGED Contract!contract
  OBVIOUS
<1>1. ASSUME NEW w \in Workers, Receive(w)
      PROVE  Contract!Next \/ UNCHANGED Contract!contract
  <2>1. CASE UNCHANGED <<approvals, effects>>
    BY <2>1, ContractStutter
  <2>2. ASSUME NEW a \in Approvals, NEW u \in Users, NEW role \in ROLES,
               NEW p \in Payload, RequestApproval(w, a, u, role, p)
        PROVE  Contract!Next
    BY <2>2, ContractOpen DEF Contract!Next
  <2> QED
    BY <1>1, <2>1, <2>2 DEF Receive, SubmitDecision, SubmitExecution
<1>2. ASSUME NEW w \in Workers, Proceed(w) \/ StorageErrorCaught(w) \/ StorageErrorAborts(w)
      PROVE  Contract!Next \/ UNCHANGED Contract!contract
  <2>1. CASE UNCHANGED <<approvals, effects>>
    BY <2>1, ContractStutter
  <2>2. CASE CommitDecision(w)
    BY <2>2, ContractDecision DEF Contract!Next
  <2>3. CASE DecisionExpired(w) \/ AuthorizeExpired(w)
    BY <2>3, ContractExpire DEF Contract!Next
  <2>4. CASE Consume(w)
    BY <2>4, ContractConsume DEF Contract!Next
  <2>5. CASE ExecuteAction(w)
    BY <2>5, ContractPerform DEF Contract!Next
  <2>6. CASE RecordSuccess(w) \/ RecordFailure(w)
    BY <2>6, ContractOutcome
  <2> QED
    BY <1>2, <2>1, <2>2, <2>3, <2>4, <2>5, <2>6 DEF Proceed, authorizeApprovedAction,
       AuditRequested, DecisionTooLate, AuditDecision, AuthorizeRefused, AuditStarted,
       DryRun, AuditSucceeded, AuditExecuted, AuditFailed, StorageErrorCaught,
       StorageErrorAborts
<1>3. CASE Restart \/ Tick \/ UNCHANGED vars
  BY <1>3, ContractStutter DEF Restart, Tick, vars
<1> QED
  BY <1>1, <1>2, <1>3 DEF Next

\* The workflow implements the abstract contract of an approval.
THEOREM KeepsContract == Spec => ImplementsContract
<1>1. Init => Contract!Init
  BY DEF Init, Contract!Init, NoApproval, Field, Exists
<1> QED
  BY <1>1, ContractStep, InvariantHolds, PTL DEF Spec, ImplementsContract, Contract!Spec
=============================================================================
