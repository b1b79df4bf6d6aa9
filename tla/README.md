# A TLA+ verification project for SysEthic / SAAOE

SAAOE is a single-host security operations dashboard: a Flask application on
SQLite (`web/saaoe_api.py`) behind Waitress's thread pool, a command line that
starts and stops it (`web/saaoe_cli.py`), and scripts that back it up, qualify a
deployment and keep an encrypted copy off the host (`scripts/`). This directory
models the parts in which several actors, crashes or lost messages decide
whether the program is right, checks them with TLC, and proves the results that
matter most with TLAPS.

Everything is translated from the source; `PROJECT.json` names the lines of each
definition. `src/venv` is a vendored virtual environment and no part of the
system.

## 1. Inventory

For each component: the state it keeps, its operations, how it interacts, what
is hard about it, and what makes it correct.

**Response approvals** (`saaoe_api.py` 1525-1760, 3450-3836, 5133-5346).
State: table `response_approvals`, rows of `audit_events`. Operations: request,
approve, reject, cancel, execute (authorise, consume, call the executor, record
the outcome), lazy expiry. It calls the action registry, writes the incident
timeline, and on request moves the incident to `waiting_for_approval`. Hard:
each request is a series of commits on one of several threads; time and role are
read before the transaction that uses them; a failure or exit may fall between
the consumption and its outcome; the registry may change with a new version.
Correct when an approval is decided once, by someone other than its requester,
used once, under the contract that was shown, and its outcome and audit trail
say what happened.

**Action registry and executors** (190-298, 3705-3834). State: none but the
host's. An executor validates, acts (`systemctl restart`, and a recovery start
when the restart fails) and reports. Hard: it may fail having acted. Correct
when it is called only on consumed authority.

**Off-host upload and reconcile** (`saaoe_offhost.py` 297-519). State: the
journal `upload-intent.json`, the receipt, a lock file; versions in a remote
bucket. Operations: `upload`, `reconcile-upload`. Hard: the bucket keeps every
version it is sent, so a request may be sent once only, yet its answer may be
lost, it may land after its sender died, and power loss may undo a rename.
Correct when each object is sent at most once, marker after ciphertext, receipt
after both, and every wreck can be reconciled.

**Seal, retrieve, restore** (same file, and `saaoe_windows_verify.py`). State:
the sealed package, the retrieved one, the directory it is decrypted into.
Operations: `seal`, `retrieve`, `decrypt`, the independent verification. Hard:
each reads files that somebody may change under it, fills a staging directory
and publishes it by a rename; a command or the power may fail at every step.
Correct when what is recovered is what was sealed, and what a command has
reported is there.

**Service start and stop** (`saaoe_cli.py` 275-414). State: the runtime file
`saaoe.pid.json`, the server process, the port. Operations: start, stop, status,
run. Hard: commands overlap, servers die, identifiers are reused. Correct when
only the recorded server is ever ended and none gets lost.

**Incidents** (2456-2602, 4889-5052). State: `incidents`, `incident_events`.
Operations: create from an anomaly, update, assign, close, reopen, note. Hard:
an update reads the old status and writes later; approvals write the status too.
Correct when `closed_at` tells whether the incident is closed, and the timeline
tells every change.

**Anomaly ingestion and playbook runs** (1794-1852, 2471-2626, 3053-3078).
State: `anomalies`, `playbook_runs`, an in-memory list, the notification queue.
Operations: upsert, create incident, create a run per matching playbook, notify.
Hard: the checks precede the inserts; two listings ingest the same anomaly.
Correct when an anomaly has one incident in a workspace and one run per
playbook, notified once.

**Validation events** (5055-5130). State: `validation_events`. One POST is about
ten commits around an ingestion. Correct when a resolved event has its incident.

**Accounts, workspaces, sessions** (2040-2141, 3914-4115, 4177-4620). State:
`users`, `organizations`, `join_requests`, `user_permissions`, `session_version`.
Operations: setup, signup, join, decide a join request, create, disable, enable,
login, logout, revoke. Hard: checks and inserts are separate commits; a request
goes on with the account it has read. Correct when a workspace keeps an
administrator, an approved join request has its account, and a revoked session
ends.

**Playbook store** (1009-1126, 5393-5496) and **rules** (3288-3325, 5614-5711).
State: `playbooks` with version and digest; `anomaly_rules`, `automation_rules`
with in-memory copies and next identifiers; `automation_history`. Hard: lost
updates, memory and table apart, duplicate history rows.

**Sampler and health endpoint** (2684-2768, 5895-5907). State: time series, a
heartbeat. Hard: a dead thread must show. **Notifications** (5659-5667): one
in-process queue that the event streams drain.

**Backup and recovery** (`saaoe_recovery.py`). State: a staging directory and
published bundles. Operations: backup, verify, restore-test. Hard: exits around
the atomic rename, a deployment that changes meanwhile. Correct when a bundle
pairs a database with the release that ran on it, and a report names the bundle
it is shown with. **Qualification** (`saaoe_qualify.py`) examines a bundle and
leaves a report that may be sealed with it.

**Reports, audit queries, pages, restricted terminal, threat intelligence, file
classification, configuration, installer**: read-only, single-step or I/O.

Interaction is by the shared database (one writer at a time, `BEGIN IMMEDIATE`
only in the two approval transactions), by calls inside a request, by the
notification queue, and between processes by files.

`PROJECT.json` lists the components with their status, and under `hazards`, with
its line, every place where order, failure or staleness can go wrong, together
with the properties that cover it or the reason why none does yet.

## 2. Modules

| Module | What it is |
|---|---|
| `ApprovalContract` | what an approval promises, without requests or commits |
| `ResponseApproval` | the approval workflow, one action per commit |
| `ResponseApprovalProofs` | its inductive invariant and the theorems |
| `UploadContract` | what the retry protocol promises of one package |
| `OffhostUpload` | `upload` and `reconcile-upload`, one action per durable step |
| `OffhostUploadProofs` | its inductive invariant and the theorems |
| `IngestionContract` | what ingestion promises of incidents, runs, notifications and validation events |
| `IncidentIngestion` | anomalies, incidents, playbook runs, validation events, automation history; one action per commit |
| `IncidentIngestionProofs` | its inductive invariant and the theorems |
| `ServiceLifecycle` | `start` and `stop`, servers, the runtime file |
| `ServiceLifecycleProofs` | its inductive invariant and the theorems |
| `CustodyContract` | what the recovery scripts promise of bundles, packages and what is recovered |
| `RecoveryBundles` | from backup and its evidence over `seal` to what another host recovers; one action per durable step |
| `RecoveryBundlesProofs` | its inductive invariant and the theorems |
| `CustodyProofs` | the proof that it implements `CustodyContract` |
| `Accounts` | accounts, workspaces, sessions in cookies, join requests; one action per commit |
| `AccountsProofs` | its inductive invariant and the theorems |
| `Workbench` | the status of incidents, and rules in tables and in lists of the process |
| `WorkbenchProofs` | its inductive invariant and the theorems |
| `MC...` | constants, registries and symmetry of the TLC instances |

Operators that are introduced as "Variant" are deliberate bugs: each is a
plausible change of the definition after it that breaks a property, and shows
that the property depends on the code. No specification uses them.

### ResponseApproval

`approvals[a]` is a row with the columns that matter, `requests[w]` what worker
thread `w` is doing (its `pc` names the commit that comes next and its fields
are the handler's local variables), `audit[a]` the success rows of the trail,
`effects[a]` the number of executor calls, `registry` the action registry of the
running version and `clock` the host's time.

- `RequestApproval`, `AuditRequested`: POST `/api/response_approvals`.
- `SubmitDecision` makes the handler's checks outside the transaction and keeps
  the time and the role it read. `DecisionTooLate`, `DecisionExpired` and
  `CommitDecision` are the three ends of the `BEGIN IMMEDIATE` transaction,
  `AuditDecision` the row after it.
- `SubmitExecution` starts an execution. `AuthorizeExpired`, `AuthorizeRefused`
  and `Consume` are the ends of `authorizeApprovedAction`, whose conditions are
  `Usable`, `ActorMayExecute`, `ActionAvailable` and `ContractHolds`.
- `AuditStarted`, `DryRun` or `ExecuteAction`, `RecordSuccess` or
  `RecordFailure`, and `AuditSucceeded`, `AuditExecuted`, `AuditFailed` are the
  commits that follow, in the code's order.
- `StorageErrorCaught`: a failing commit inside the `try` of the execute branch
  is recorded as a failed execution. `StorageErrorAborts`: anywhere else it ends
  the request. `Restart`: the process exits and comes back, perhaps in another
  version. `Tick`: time passes.

Abstractions. One workspace, since every query is restricted to one. A payload
stands for its digest and a preview for the preview digest: no collisions. A
role list is its weakest role. Role and time are read once, when the request
begins, and may be stale afterwards: a role is any role, so a role that was
changed meanwhile is included. The audit rows of denied requests, the incident
timeline and the incident's own status are left out.

### OffhostUpload

`files` is the journal and the receipt as programs see them, `disk` the same as
of the last fsync of the directory; `sent[k]` are the versions of object `k` that
were ever requested, `remote[k]` those the bucket has stored; `procs[p]` is a
command with its position, the copy of the journal in its memory and the object
it is at; `lock` is the holder of the `flock`.

`atomic_json` is two actions, the rename (`save_upload_intent`,
`publish_upload_receipt`) and the fsync (`Sync`); a file's own content is flushed
before the rename, so a survivor is never half a file. `Transmit` is a request
leaving, `Store` its arrival, `Answer` the acknowledgement: `Store` is possible
forever, also when nobody waits. `Fail` ends a command at any step, for a
network error, a failed check or a kill; `PowerLoss` ends all and lets each file
independently be what it was at the last fsync or what was visible.

Abstractions. The package and its destination are fixed: another one is refused
by `upload_package` and the binding check. The ciphertext's content is left out;
the marker's content, the completion record, is modelled, with the time that
makes two records differ. The size, hash and listing checks are reduced to "this
version, with this content, is stored".

### IncidentIngestion

`anomalies[a]` is the row of an anomaly with its workspace (`organization_id`,
possibly NULL), `incidents[a][o]` the number of incidents that anomaly `a` has in
workspace `o` (the n-th is named by workspace and number), `playbook_runs[a][p]`
the run, `validation_events`, `automation_history` and `notified` the rest, and
`requests[w]` what a thread is doing with what it has read.

- `BeginListing`, `BeginLoad`, `BeginTrigger` read what there is to store;
  `PersistDetected` is one upsert. `SelectForListing`, `SelectForLoad` and
  `SelectForTrigger` are what the three kinds of request do with the rows.
- `ReadHistory` and `apply_automation_rules` are the rules' check and its inserts.
- `IngestAnomaly`, `FindIncident` and `InsertIncident` are
  `create_incident_from_anomaly`; `BeginCreation` enters it by hand.
- `CheckRun`, `RecordRun` and `RecordRunConflict` are `_record_playbook_run`, with
  the unique index behind the check; `FindLink` is the trigger's own query.
- `BeginValidation`, `RaiseAlert` and `ResolveEvent` surround an ingestion.
- `StorageErrorAborts` ends a request anywhere.

Abstractions. Every anomaly is high or critical, every playbook is seeded,
enabled and matches, a rule matches every anomaly: the others are stored and
nothing more. Detection finds any subset of the host's anomalies. Filters and
the limits of a listing (the latest 200 anomalies, 100 events, the first 25 for
rules) are left out, so that a validation event that drops out of the latest 200
before any listing has ingested it is beyond `EventIsIngested`. Timeline and
audit rows are left out; the order of anomalies and playbooks is any order. The
notification belongs to the step that records a run: a process that ends between
the two loses its queue anyway.

### ServiceLifecycle

`processes[i]` is the process that has identifier `i` with its creation time,
`port` the one that listens, `PID_FILE` the runtime file (absent, unreadable or
written), `commands[c]` what a command does with what it has read, and
`disturbed` a history variable: two commands have overlapped or one was
interrupted. `write_text` is a truncation and a write. `stop` is read, match,
terminate, perhaps match again and kill, unlink; a failing `start` continues with
these.

Abstractions. Creation times are all different, so the five seconds of tolerance
play no part. An identifier is free as soon as its process has ended; a
terminated child in fact keeps its identifier until it is waited for, so the
model has more reuse than the system. The five-second wait after the forced kill
succeeds, and the matching of the process and its forced kill are one step: the
handle checks the creation time itself. A service manager's
`run --foreground` and `status`, which changes nothing, are left out.

### RecoveryBundles

`disk[n]` says of a directory whether it is staged or final, and what of it has
been flushed; `bundles`, `package`, `unpacked`, `evidence` and `remote` are what
the files say, `damaged` the directories a file of which has changed; `deployment`
and `configuration` are what surrounds the commands; `jobs[a]` is the command an
actor runs.

- `Flush`, `Rename` and `SyncName` are how all commands publish, `Fail` their
  `finally`, or a termination, and `PowerLoss` what becomes of unflushed files and
  names of either host.
- `ReadHead`, `ReadStatus`, `CopyDatabase`, `CompareIdentity` and
  `RecheckDeployment` are `backup`; `VerifyBundle`, `RestoreTest` and `Qualify`
  what makes reports that say that the release started; the one that every backup
  writes says that this was not tested.
- `BeginSeal`, `HashSources`, `ArchiveFile` and `RehashSources` are `seal`;
  `Upload` stands for all of `OffhostUpload`, whose promise it takes: an intact
  package is stored.
- `BeginRetrieve`, `Download`, `CompareDownload`, `BeginUnpacking`, `Unpack` and
  `CheckUnpacked` are `retrieve`, `decrypt` and `verify_archive`.
- `Checkout`, `RestartService`, `EditTracked`, `ReplaceDatabase`,
  `EditConfiguration` and `Damage` are what others do meanwhile.

Abstractions. A hash is the content it stands for, and the hashes an operator
keeps outside the hosts are right. The four files of a bundle are one content, all
configuration files together another. Each actor runs one command at a time; one
package goes off the host, in one of two ways, and nothing begins on the source
host after its upload, since it could not reach the recovery any more. All changes
of the surroundings share one bound, and what no command of the instance will read
again does not change (`DeploymentIsRead`, `ConfigurationIsRead`). Files are damaged only in directories that a
command reads. A database that replaces another is never taken for it (an inode
that is used again is excluded), and a checkout to another commit and back during
a backup is not noticed, in the code as in the model. `decrypt` does not flush the
entries of nested directories and `verify_archive` flushes nothing, so
`FullyFlushed`, the directories that survive a power loss, leaves theirs out.

Evidence. `seal`, `decrypt` and `verify_archive` look at no more of a report than the
commit and the bundle it names, and `seal` at the hash of the manifest if there is one. `BeginSeal`
therefore takes any report that names the bundle, or none, whether or not any test
was made: the bundle's own `verification.json`, whose `application_health` is
`not_tested`, or a file somebody wrote. One report stands for the hundred that a
package may hold, and `tested` says of it whether it claims that the release was
started. The assumption on which `EvidenceIsOfItsBundle` speaks of such claims is that
a report that makes one was written by a restore test or a qualification and not
changed since: no code checks it, and the operator who passes the files answers for
it. Without it, only that the report names the bundle remains. A
restore test may have run a file that changed after the bundle was verified
(`RestoreTest`), and its report is then wrong; `seal` verifies the bundle again and
refuses it.

### Accounts

`users`, `organizations` and `join_requests` are the tables, `cookies[b]` the
session that a browser holds, `threads[t]` what a thread is at with what it has
read, `disabled[u]` a history variable: how often an account has been disabled.

- `SignedIn`, `Authenticated`, `IsAdmin` and `Manages` are `current_user` and the
  decorators; `RejectSession` and `Refuse` end a request at once.
- `Setup`, `Signup`, `Join`, `Login`, `Logout`, `Create`, `Disable`, `Enable`,
  `Permit`, `Reorganize` and `Decide` are the reads and checks that a handler
  begins with, as one step.
- `FindOrganization`, `CreateOrganization`, `InsertUser`, `StartSession`,
  `InsertRequest`, `ChangeMember`, `UpdateOrganization` and `MarkRequest` are the
  commits that follow, each a step of its own.
- `Answer` writes the session back into the browser's cookie, however late; `Fail`
  is a statement that fails, `Lose` an answer that is lost or a process that exits.

Abstractions. Passwords are right; `manage_members` stands for all permissions and
viewer for analyst; a cookie's age is left to `RejectSession`, which may happen at
any time. Installations to start from are sound: members belong to workspaces that
exist and no cookie is newer than its account.

### Workbench

`incidents[i]` is the status of an incident with whether `closed_at` is set;
`stored`, `memory` and `next` are the tables of rules, the lists that detection
reads and the next identifiers; `threads[t]` what a thread is at. `unsettled` and
`unloaded` are history: incidents that something other than closing and reopening
has changed, and lists that a failed reload has left empty.

- `ChangeStatus`, `Close` and `Reopen` read an incident, `WriteUpdate` writes it;
  `RequestApproval` is the statement that ends an approval request.
- `CreateRule`, `InsertRule`, `AppendRule` and `AdvanceNext` are a creation,
  `DeleteRule` and `RemoveRule` a deletion. `ClearList`, `QueryRows`, `FillList`
  and `NumberRules` are `load_persistent_state`, list after list; a change of a
  playbook ends in it as well.
- `StatementFails` and `Restart`, which seeds an empty table.

Abstractions. What a rule or an incident says besides is left out, and so are
order and repetitions in a list. The list of playbooks, which is replaced as a
whole, is not modelled. Updates that leave the status alone, of an owner or a
note, change nothing here.

## 3. Runs

| Run | Question | Bounds |
|---|---|---|
| `approval_races` | do the safety properties and the refinement hold when requests race, commits fail and the process restarts? | 2 workers, 1 approval, 2 users with any role, clock to 3, window of 1 |
| `approval_upgrades` | does authority survive a change of the registry? | 1 worker, 2 subjects, 3 registry versions, restarts between all steps |
| `approval_settles` | does a used approval get its outcome? | 2 workers, fair |
| `upload_crashes` | all safety properties and the refinement, under crashes and power loss; does reconciling end in a receipt? | 2 processes, 3 versions, 2 times, fair |
| `ingestion_events` | does a validation event get its incident and runs in its own workspace, whatever fails? | 2 workers, 2 workspaces, 1 event, 1 playbook, 1 rule, fair |
| `ingestion_shared` | how often can checks be overtaken, and do rows stay? | the same with 1 anomaly of the host |
| `ingestion_conflict_doc` | the documented path of a validation event (violated) | the same with 1 event, no rule, no failures, fair |
| `service_overlaps` | do overlapping and interrupted commands end the right process and lose none? | 2 commands, 2 identifiers, 3 creations |
| `recovery_chain` | is what another host recovers what was backed up, tested and sealed? | 1 backup beside an earlier bundle, 1 package, 2 commits, 2 configurations, 2 changes around the commands |
| `accounts` | do accounts, join requests and sessions stay consistent when requests overlap? | 2 threads, 2 browsers, 3 usernames, 2 names of workspaces, 3 installations, 4 requests |
| `accounts_last_admin_doc` | the documented protection of the last administrator (violated) | the same with 1 installation and 2 requests |
| `desk` | do stamps tell the status and lists follow their tables? | 2 threads, 1 incident, 2 lists, identifiers to 3, 5 requests |

Why the bounds are enough. Approvals do not interact, so one row shows every
race; two workers are the contenders for it, and a third would repeat one of
them. Two users give requester and another; a role is chosen anew for every
request. Clock values 1 to 3 with a window of 1 put readings before, at and
after expiry. For uploads, two objects need two identifiers; a third exists so
that a second version could be sent if the protocol allowed it, and two times so
that two completion records could differ. Anomalies meet only in the batch of a
listing, whose order is free, so one at a time is enough; a second playbook
would meet the first one's races. For the service, two identifiers and three
creations allow two servers and a reused identifier at once. Two changes of the
surroundings are what a file needs to be another one and then itself again
between two readings, and HEAD to leave and come back; a bundle of the past
gives a report that is of another bundle. Four requests about accounts are two
join requests of one username and two decisions about them, or a login, a
disabling, an enabling and one more; five at the desk are a creation and a
deletion beside reloads. Incidents, like approvals, do not interact.

The bounds in guards are `MaxClock`, `MaxBirths`, `MaxHead`, `MaxEdits`, `MaxId`
and `MaxRequests` (of `Accounts` and of `Workbench`). Symmetry is used in the
runs without liveness properties, over sets whose members are only compared.
Deadlock is checked except in `recovery_chain`, the two runs of `Accounts` and
`desk`: where requests are counted, or one package goes one way to its end, the
model stops when all is done. In the others requests and restarts stay possible
at every bound.

What the properties say, beyond types:

- `EffectAtMostOnce`: nothing replays an action.
- `AuthorityChain`: the people, the window and the contract behind a use, across
  deployments.
- `AuditTruthful`, `OutcomeHonest`, `DecisionIsFinal`: the trail and the row tell
  what happened, and go on telling it. `UseIsSettled`: eventually they do.
- `SentOnce`, `MarkerImpliesCiphertext`, `ReceiptTruthful`, `AlwaysReconcilable`,
  `DurableIsFinal`: the promises of `docs/offhost-retry-protocol.md` over every
  journal that may survive. `StoredIsRecovered`: repair ends.
- `RepetitionsBounded`: what no index protects is repeated once per thread at most.
  What the unique index of the runs protects is in `IngestionContract`: a run is
  recorded once, with its notification and about an incident of its anomaly, and
  stays. `NotifiedOnce`, `RunsAreLinked` and `RecordsStay` say parts of it; they are
  proved and, being implied, no run checks them besides.
- `ResolvedIsComplete`, `ValidationStaysHome`: a validation event, what it
  produced and where. `EventIsIngested`: a later listing finishes what the
  request that raised the event could not.
- `OnlyRecordedIsEnded`, `StopIsHonest`, `NoOrphan`: which processes `stop` and a
  failing `start` end, and what the runtime file then says. `NoOrphan` is about
  commands that neither overlap nor are interrupted: there is one server at most,
  and between two commands it is the recorded one and listens; with two overlapping starts a
  server does get lost, for the second runtime file replaces the first.
- `PublishedSurvives`: what is seen under a final name is whole, and what was
  reported stays. `PublishedIsFinal`: nothing is filled again under a final name, no
  report is taken back, and what is off the host is not replaced, also by a retry
  after a failure. `PairedWithItsRelease`: a snapshot was taken from the one database
  while the release of the bundle was checked out. `RecoveredIsSealed`:
  what arrives on another host, through every hand-over. `EvidenceIsOfItsBundle`: a
  report that arrives names the bundle it comes with, and if it claims that the
  release was started, the release does start on the snapshot. It need not claim so:
  that evidence came along does not show that anything was tested.
- `ApprovedHasItsUser`, `PendingBounded`: what join requests and accounts say of
  each other without an index or a transaction behind them.
  `RevokedSessionsStayOut`: disabling an account ends its sessions, also those that
  late answers bring back. `WorkspacesStayApart`: accounts, settings and join
  requests change for members of their own workspace only, although the write comes
  after the check and names a row by its id; none moves, is lost, or is disabled
  with its sessions left. Who may join or found a workspace is not its subject.
- `StampTellsStatus`: by which ways alone a closing stamp outlives the closing.
  `TableIsLoaded`: when nobody is at work on a list, it holds what is stored.
- `ImplementsContract` (three times): the detailed module refines the abstract one.
  That of `RecoveryBundles` is proved and not part of a run (section 4).

### Fairness

`CalmSpec` (approval_settles) assumes weak fairness of `Proceed(w)`: a thread
that has begun a request is scheduled until it ends, as the operating system
does. It has neither `Restart` nor `StorageErrorAborts`, after which the code
has no step left that could record an outcome; `StorageErrorCaught` may happen
at will. `FairSpec` (upload_crashes) assumes weak fairness of a command's steps
and strong fairness of `BeginReconcile`, the operator who tries again although
uploads may hold the lock meanwhile; nothing is assumed of the network. That
crashes cease is a premise of the property: from some point on, commands end
only by steps of their own. `FairSpec` of `IncidentIngestion` assumes weak
fairness of a request's steps and strong fairness of `BeginListing`: the anomaly
page of each workspace is opened again and again. The premise of
`EventIsIngested` is of the same kind; the failures that requests cause each
other do not have to cease. `CalmSpec` (ingestion_conflict_doc) has no failures
but these.

### What the documents say and the code does not

Two disagreements are shown by runs:

1. `docs/priority-fixes.md:511` has each validation event open an incident, record
   its runs and add timeline entries, and line 581 calls the creation of runs
   idempotent; when another request records the same run between the check and the
   insert (line 2515), the unique index ends the request with an error and the
   event stays open (`ingestion_conflict_doc`). A later listing makes up for the
   incident and the runs (`EventIsIngested`), not for the event.
2. `docs/priority-fixes.md:176` has the disabling of a user prevent the last
   administrator from being disabled; the code refuses only to disable oneself
   (line 4464). A delegated member may disable the only administrator, and two
   administrators each other (`accounts_last_admin_doc`); setup then opens again.

Three are plain from the code:

3. `docs/approval-contract.md:50` has disabled actions consumed with a no-op
   result; `authorizeApprovedAction` refuses them (line 3646).
4. `docs/approval-contract.md:48` has expiry validated inside the transaction;
   the time is read before it begins (line 3606).
5. `docs/operational-startup.md:167` has `stop` remove stale metadata; it returns
   before the unlink (line 387 of `saaoe_cli.py`).

## 4. Proofs

The theorems hold for any sets of workers, approvals, users, processes,
identifiers, workspaces, anomalies, playbooks, rules, bundles, browsers and
incidents, and for any value of the bounds, from the named assumptions on the
constants: a null is not a member of what it stands for, `TTL` is positive, the
registries map actions to metadata, the host's anomalies are not those of
validation events, the names of directories differ, requests have the form that
handlers accept, installations are sound, and the threads of `IncidentIngestion`
and `Accounts` are finitely many. Every safety property that a passing run checks
is proved as well.

**ResponseApprovalProofs.** `Inv` is `TypeOK /\ ApprovalInvariant`. The safety
properties are not inductive: that an execution holds a consumed row says
nothing of how the row came to be consumed. `RowConsistent` adds what the
columns say about each other, `RequestConsistent` what a worker trusts without
checking again (an approver in the middle of a decision is not the requester; a
row under execution is consumed and not yet acted on), `EffectConsistent` what
an executor call presupposes, and `ExclusiveAuthority` that only one worker is
between the consumption and the outcome, so that `effects` cannot rise twice.
One lemma per group of actions shows that `Inv` is kept. From it follow
`TypeCorrect`, `AuthorityIsExclusive`, `NoReplay`, `UseIsAuthorized` and
`OutcomesAreHonest`, and `KeepsContract` maps each action to one step of the
contract or to none. `DecisionsAreFinal` follows from `Inv` action by action: a
decided row is written again only by its use and its outcome.
`TheTrailIsTruthful` needs `TrailConsistent` besides: an audit row comes one
commit after what it reports, so a worker that is about to write one has to have
what it reports still in the row, although others use the row meanwhile.

**OffhostUploadProofs.** `Inv` is `TypeOK /\ UploadInvariant`: what each surviving
journal says of the bucket (`JournalConsistent`), that the durable journal is the
visible one or an older one (`Precedes`), what a receipt presupposes, and, by a
command's position, what it may rely on (`CommandConsistent`; the position looks
through an fsync in progress). Only the holder of the lock runs, so the journal
in its memory is the visible one. From it follow all the safety properties of
`upload_crashes`, `DurableStays` and the refinement `KeepsProtocol`.

**IncidentIngestionProofs.** A request acts on what it has read many commits
before, so `Inv` says which of its findings still hold. `RequestConsistent`
states them by its position: what it stores or ingests is met in its own
workspace, its anomaly is stored, its incident is there, the playbooks it is
through with have runs, and what a trigger took from the anomaly's row is still
the event's workspace. `OneRaises` says that an open event has at most the one
request that raised it, so that nobody resolves it twice. No step takes back a
row, the status of a raised event or its workspace (`Evolves`), and this alone
keeps the other workers consistent (`OthersStayConsistent`); one lemma per
action does the rest. From it follow all the safety properties of
`ingestion_events`, `RunsAreLinked` and `RecordsStay`, and the refinement
`KeepsContract`: an upsert of an anomaly, a rule or a step that only reads leaves the
contract's tables alone; an insert of an incident or a run is the contract's, because
`Inv` knows that what the worker acts on is met in its own workspace (`Concerns`) and
that the incident it links exists, for a trigger too (`TriggerConsistent`); and an
event is resolved when the worker that raised it has seen a run of every playbook. `InsertsAreBounded` needs
an argument of its own: `Counted` adds up what is inserted and the threads that
have passed the check and not yet inserted. When a thread passes the check
nothing is inserted, so the sum is at most the number of threads; afterwards
nobody joins, and an insert moves one from the crowd to the table.

**ServiceLifecycleProofs.** `IInv` adds to the types that creation times lie in
the past (`Past`), that only servers listen (`PortConsistent`), and what a
command knows of the process it has matched at its step (`CommandConsistent`):
this gives `OnlyTheRecordedEnds` and `StopsAreHonest`. `NoServerIsLost` holds as
long as commands have neither overlapped nor been interrupted, and needs
`Orderly`: under that premise all commands but one are idle (`Settled`) and the
one at work knows of every server alive (`KnowsOfServers`), by the file it read
or the child it has. Between commands the recorded server is the one that listens,
so a start that finds the port free knows that there is none, and at every step there
is one server at most (`OneServerAtMost`).

**RecoveryBundlesProofs.** `Directories` says which jobs an actor can have
(`Assigned`), where the directory of each step is (`Placed`) and that what was
flushed or reported is kept (`Kept`); it gives `PublicationsSurvive`, since a
power loss takes back only what `Kept` does not speak of. `PublicationsAreFinal`
follows from it step by step: every action that fills a directory works on one that
`Placed` has staged, and a rename goes to a name that is free (`PlacesStay`,
`ContentsStay`, `RecordsStay`). `BackupConsistent`
follows a backup from step to step: if HEAD is not the commit any more it has
moved once, and if it is again, twice; an identity that was different when the
copy was made is different when it is compared, since it only grows.
`RecoveryConsistent` says that what is unpacked was compared with the inventory
that is stored. `EvidenceConsistent` is about reports: a bundle of which one says that
it started is one that nobody is making any more (`Settled`), whose commit and
schema therefore stay, and the release does start unless a file has changed or the
bundle is gone (`Proves`); `seal`, which takes whole bundles only, turns this into
what holds of a package for ever (`Certified`).

**CustodyProofs.** `KeepsCustody` maps each step of `RecoveryBundles` to one of
`CustodyContract`, which knows no staging, hashing, copying or flushing: a rename
publishes, seals, retrieves or recovers, a flush of the directory makes a name
last, a power loss takes away names that do not, and every other step shows
nothing. The step of a rename needs what was established long before it, which
`CustodyConsistent` carries along: the identity is not one of the past and its
snapshot has been copied (`Backed`), the bundle that is being sealed is still there
and no configuration was hashed that was not asked for (`Sealing`), and a package
with configuration is not being unpacked for verification (`Verifying`). With
`EvidenceConsistent` the report in a package names its bundle and is not wrong, with
`RecoveryConsistent` the files are those hashed at the start, and `Unnamed` says that
a name on the disk is a final one. TLC finds no counterexample to
`ImplementsContract` in the place of `PublishedIsFinal` in `recovery_chain` either;
it takes almost five minutes there, so the run checks the shorter property.

**AccountsProofs.** `SessionConsistent` is about a session wherever it is, in a
cookie or in the hands of a thread that will write it back: it is not newer than
its account, and of the present version only if the account has not been
disabled since. Rows only grow (`Grows`), so sessions and threads that a step
does not touch stay consistent; `ThreadConsistent` is what a thread knows at its
step. From it follow `TypeCorrect` and `RevokedSessionsAreRefused`.
`ApprovalsConsistent` adds that a thread about to report an approval has
inserted the account itself: the primary key let one insert through, so no other
thread is about to report one for that username, and no other request of it is
approved. `PendingConsistent` counts the pending requests of a username and the
threads that will insert one: a thread joins them only when nothing is pending,
so the sum never exceeds the threads. `WorkspacesAreApart` needs `AtHome`: from the
check to the write, the account that a thread acts for and the row that it will
change are of one workspace. The check establishes it, and no step of another thread
ends it, since `Grows` lets no account and no join request change its workspace.

**WorkbenchProofs.** `IInv` is the types, `StampTellsStatus` and
`EachIsProvided`: a stored rule of a loaded list is in the list, or in the hands
of a thread that will bring it there: in the rows one has read, before the query
of another, or about to be appended by the one that has inserted it. A thread
leaves such a position by bringing the rule to the list or by a failure that
exempts it, and a list is emptied only by a thread that then comes to its query.

Only model-checked: the liveness properties `UseIsSettled`, `StoredIsRecovered`
and `EventIsIngested`: liveness under fairness, `ENABLED` and induction over
data are out of reach of the installed provers.

## 5. Plan

Done: sections 2 to 4. What would come next, in this order:

1. `PlaybookStore`: definitions with version and digest, the change that is
   computed from a definition read earlier, the snapshot that a run takes of the
   list in memory. Two changes that overlap may give one version to two
   definitions; a property would name these ways and exclude others.
2. `Sampler`: heartbeat, startup grace and what `/healthz` concludes of a thread
   that has ended.
3. Audit rows of denied and failed requests and the incident timeline, as further
   commits of `ResponseApproval` and `Workbench`.
4. A composition of `ResponseApproval` and `Workbench` over the incident that an
   approval names; at present the approval's only effect on it, one statement, is
   an action of `Workbench`.
5. Liveness of `Accounts` and `Workbench` under fair threads.

## 6. Not modelled

Reports, audit queries, pages and the terminal change nothing that another
component reads. Migration and seeding run before the process serves, and appear
as the tables that the models start from. Configuration parsing and the
installer have no state. The telemetry readings are I/O. What age, tar and
SHA-256 compute is taken as right. `status` and `health` only read, and
`run --foreground` is the service itself under a manager. `setup` makes directories,
the environment and the tables before the first start. `bootstrap-admin`, which
`setup` may call, inserts a workspace, the first administrator and an audit row in
one `BEGIN IMMEDIATE` transaction while there are no users at all: an installation
of `Accounts` that starts with an administrator is what it leaves. It may also run
beside a service that has no users yet and then races the setup page, which the
models do not have. The playbook store and the sampler are left for the plan above.
