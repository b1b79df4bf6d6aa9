------------------------- MODULE IncidentIngestion -------------------------
(***************************************************************************)
(* How anomalies become incidents and playbook runs in web/saaoe_api.py:   *)
(* the anomaly listing, validation events, the creation of an incident by  *)
(* hand and the triggering of a playbook.                                  *)
(*                                                                         *)
(* _db_exec commits every statement by itself, so a request is a series    *)
(* of commits and reads, between which others run, and after any of which  *)
(* it may end.  Only the playbook runs have a unique index.                *)
(*                                                                         *)
(* All anomalies are severe enough to be ingested and all playbooks are    *)
(* seeded, enabled and match; a rule matches every anomaly.  Timelines,    *)
(* audit rows and the filters of a listing are left out, and so is a       *)
(* playbook that is triggered without an anomaly.                          *)
(***************************************************************************)
EXTENDS Naturals, FiniteSets

CONSTANTS
  Workers,          \* threads of the server
  Workspaces,
  NoWorkspace,      \* organization_id NULL
  Telemetry,        \* anomalies that detection finds in the host's telemetry
  Validations,      \* anomalies of validation events
  NoAnomaly,
  Playbooks,
  Automatic,        \* the playbooks that run without an approval
  NoPlaybook,
  AutomationRules

Anomalies == Telemetry \cup Validations

ASSUME FiniteWorkers         == IsFiniteSet(Workers)
ASSUME NoWorkspaceIsNone     == NoWorkspace \notin Workspaces
ASSUME NoAnomalyIsNone       == NoAnomaly \notin Anomalies
ASSUME NoPlaybookIsNone      == NoPlaybook \notin Playbooks
ASSUME AutomaticArePlaybooks == Automatic \subseteq Playbooks
ASSUME SourcesDiffer         == Telemetry \cap Validations = {}

VARIABLES
  anomalies,          \* anomalies[a]: the row of a, with its workspace
  incidents,          \* incidents[a][o]: number of incidents of a in o
  playbook_runs,      \* playbook_runs[a][p]: the run of p for a
  validation_events,  \* validation_events[v]: the event that v belongs to
  automation_history, \* automation_history[r][a]: number of rows
  notified,           \* notified[a][p]: notifications queued for a's run of p
  requests            \* requests[w]: what worker w is doing

tables == <<anomalies, incidents, playbook_runs, validation_events,
            automation_history, notified>>
vars == <<tables, requests>>

Row(o) == [stored |-> TRUE, workspace |-> o]
NoRow  == [stored |-> FALSE, workspace |-> NoWorkspace]

\* The n-th incident of an anomaly in a workspace; number 0 is NULL.
Link(o, n) == [workspace |-> o, number |-> n]
NoLink     == Link(NoWorkspace, 0)

Run(o, link) == [recorded |-> TRUE, workspace |-> o, incident |-> link]
NoRun        == [recorded |-> FALSE, workspace |-> NoWorkspace,
                 incident |-> NoLink]

Event(status, o, link) ==
  [status |-> status, workspace |-> o, incident |-> link]
NoEvent == Event("none", NoWorkspace, NoLink)

Idle == [pc |-> "idle"]

\* todo are the anomalies to store, batch the ones to ingest; incident and
\* owner are what a run is recorded with; left are the playbooks to look at
\* and pending the pairs of rule and anomaly to apply.
Request(pc, kind, o) ==
  [pc |-> pc, kind |-> kind, workspace |-> o,
   todo |-> {}, batch |-> {}, pending |-> {},
   anomaly |-> NoAnomaly, incident |-> NoLink, owner |-> NoWorkspace,
   left |-> {}, playbook |-> NoPlaybook]

Init ==
  /\ anomalies = [a \in Anomalies |-> NoRow]
  /\ incidents = [a \in Anomalies |-> [o \in Workspaces |-> 0]]
  /\ playbook_runs = [a \in Anomalies |-> [p \in Playbooks |-> NoRun]]
  /\ validation_events = [v \in Validations |-> NoEvent]
  /\ automation_history = [r \in AutomationRules |-> [a \in Anomalies |-> 0]]
  /\ notified = [a \in Anomalies |-> [p \in Playbooks |-> 0]]
  /\ requests = [w \in Workers |-> Idle]

At(w, pc)  == requests[w].pc = pc
Serve(w, request) == requests' = [requests EXCEPT ![w] = request]
Finish(w)  == Serve(w, Idle)
Raised(v)  == validation_events[v].status # "none"

-----------------------------------------------------------------------------
(* Storing what was detected *)

\* The workspace that the anomaly itself names.
OwnWorkspace(a) ==
  IF a \in Validations THEN validation_events[a].workspace ELSE NoWorkspace

\* Variant: a caller without a workspace takes the anomaly's away.
PersistUnowned(a, o) == anomalies' = [anomalies EXCEPT ![a] = Row(o)]

\* The upsert replaces the workspace too, by the caller's or else by the
\* anomaly's own.
_persist_anomaly(a, o) ==
  anomalies' = [anomalies EXCEPT ![a] =
                  Row(IF o # NoWorkspace THEN o ELSE OwnWorkspace(a))]

\* The anomalies of the validation events of one workspace or of all.
_validation_anomalies(o) ==
  {v \in Validations :
     Raised(v) /\ (o = NoWorkspace \/ validation_events[v].workspace = o)}

\* A trigger looks for its anomaly among those of all workspaces.
LoadWorkspace(w) ==
  IF requests[w].kind = "trigger" THEN NoWorkspace ELSE requests[w].workspace

\* The loader detects anomalies, any of the host's, and adds the validation
\* events.
_load_anomalies(o) ==
  {detected \cup _validation_anomalies(o) : detected \in SUBSET Telemetry}

\* GET /api/anomalies.
BeginListing(w, o) ==
  /\ At(w, "idle")
  /\ \E found \in _load_anomalies(o) :
       Serve(w, [Request("persist", "listing", o) EXCEPT !.todo = found])
  /\ UNCHANGED tables

\* A page that loads the anomalies and ingests none, such as the heatmap of a
\* workspace or the alerts of the host.
BeginLoad(w, o) ==
  /\ At(w, "idle")
  /\ \E found \in _load_anomalies(o) :
       Serve(w, [Request("persist", "load", o) EXCEPT !.todo = found])
  /\ UNCHANGED tables

\* POST /api/playbook_trigger for an anomaly.
BeginTrigger(w, o, a, p) ==
  /\ At(w, "idle")
  /\ \E found \in _load_anomalies(NoWorkspace) :
       Serve(w, [Request("persist", "trigger", o) EXCEPT
                   !.todo = found, !.anomaly = a, !.left = {p}])
  /\ UNCHANGED tables

PersistDetected(w) ==
  /\ At(w, "persist")
  /\ \E a \in requests[w].todo :
       /\ _persist_anomaly(a, LoadWorkspace(w))
       /\ Serve(w, [requests[w] EXCEPT !.todo = @ \ {a}])
  /\ UNCHANGED <<incidents, playbook_runs, validation_events,
                 automation_history, notified>>

_stored_anomalies(o) ==
  {a \in Anomalies :
     anomalies[a].stored /\ (o = NoWorkspace \/ anomalies[a].workspace = o)}

Loaded(w, kind) ==
  At(w, "persist") /\ requests[w].todo = {} /\ requests[w].kind = kind

SelectForListing(w) ==
  /\ Loaded(w, "listing")
  /\ Serve(w, [requests[w] EXCEPT
                 !.pc = "history",
                 !.batch = _stored_anomalies(requests[w].workspace)])
  /\ UNCHANGED tables

SelectForLoad(w) ==
  /\ Loaded(w, "load")
  /\ Finish(w)
  /\ UNCHANGED tables

\* The run will belong to the workspace of the row as it is now.
SelectForTrigger(w) ==
  /\ Loaded(w, "trigger")
  /\ LET a == requests[w].anomaly IN
       IF a \in _stored_anomalies(NoWorkspace)
         THEN Serve(w, [requests[w] EXCEPT
                          !.pc = "link", !.owner = anomalies[a].workspace])
         ELSE Finish(w)
  /\ UNCHANGED tables

-----------------------------------------------------------------------------
(* Automation rules *)

ToApply(pairs) == IF pairs = {} THEN "ingest" ELSE "automate"

\* Variant: the history is not looked at.
ReadNoHistory(w) ==
  /\ At(w, "history")
  /\ LET pending == AutomationRules \X requests[w].batch IN
       Serve(w, [requests[w] EXCEPT !.pc = ToApply(pending),
                                    !.pending = pending])
  /\ UNCHANGED tables

\* The pairs that the history has are read once, before the loop.
ReadHistory(w) ==
  /\ At(w, "history")
  /\ LET pending == {x \in AutomationRules \X requests[w].batch :
                       automation_history[x[1]][x[2]] = 0}
     IN Serve(w, [requests[w] EXCEPT !.pc = ToApply(pending),
                                     !.pending = pending])
  /\ UNCHANGED tables

apply_automation_rules(w) ==
  /\ At(w, "automate")
  /\ \E x \in requests[w].pending :
       LET pending == requests[w].pending \ {x} IN
         /\ automation_history' =
              [automation_history EXCEPT ![x[1]][x[2]] = @ + 1]
         /\ Serve(w, [requests[w] EXCEPT !.pc = ToApply(pending),
                                         !.pending = pending])
  /\ UNCHANGED <<anomalies, incidents, playbook_runs, validation_events,
                 notified>>

-----------------------------------------------------------------------------
(* Incidents *)

\* POST /api/incidents/from_anomaly, for a row of the user's workspace.
BeginCreation(w, o, a) ==
  /\ At(w, "idle")
  /\ anomalies[a] = Row(o)
  /\ Serve(w, [Request("ingest", "creation", o) EXCEPT !.batch = {a}])
  /\ UNCHANGED tables

\* create_incident_from_anomaly begins with an upsert.
IngestAnomaly(w) ==
  /\ At(w, "ingest")
  /\ \E a \in requests[w].batch :
       /\ _persist_anomaly(a, requests[w].workspace)
       /\ Serve(w, [requests[w] EXCEPT !.pc = "find", !.batch = @ \ {a},
                                       !.anomaly = a])
  /\ UNCHANGED <<incidents, playbook_runs, validation_events,
                 automation_history, notified>>

EndListing(w) ==
  /\ At(w, "ingest")
  /\ requests[w].batch = {}
  /\ Finish(w)
  /\ UNCHANGED tables

IncidentsOf(w) == incidents[requests[w].anomaly][requests[w].workspace]

\* Variant: runs are not asked for.
WithIncidentOnly(w, n) ==
  LET o == requests[w].workspace IN
    IF requests[w].kind = "creation" THEN Idle
    ELSE [requests[w] EXCEPT !.pc = "runs", !.incident = Link(o, n),
                             !.owner = o]

\* The incident is there; only ingest_anomaly_workflow goes on to the runs.
WithIncident(w, n) ==
  LET o == requests[w].workspace IN
    IF requests[w].kind = "creation" THEN Idle
    ELSE [requests[w] EXCEPT !.pc = "runs", !.incident = Link(o, n),
                             !.owner = o, !.left = Playbooks]

\* Variant: an incident that exists is not taken.
FindIncidentNever(w) ==
  /\ At(w, "find")
  /\ Serve(w, [requests[w] EXCEPT !.pc = "insert"])
  /\ UNCHANGED tables

\* Variant: an anomaly that has an incident needs nothing more.
FindIncidentEnds(w) ==
  /\ At(w, "find")
  /\ IF IncidentsOf(w) = 0
       THEN Serve(w, [requests[w] EXCEPT !.pc = "insert"])
       ELSE Finish(w)
  /\ UNCHANGED tables

\* The check that no index stands behind; with several incidents the query
\* does not say which comes first.
FindIncident(w) ==
  /\ At(w, "find")
  /\ \/ /\ IncidentsOf(w) = 0
        /\ Serve(w, [requests[w] EXCEPT !.pc = "insert"])
     \/ \E n \in 1 .. IncidentsOf(w) : Serve(w, WithIncident(w, n))
  /\ UNCHANGED tables

InsertIncident(w) ==
  /\ At(w, "insert")
  /\ incidents' = [incidents EXCEPT
                     ![requests[w].anomaly][requests[w].workspace] = @ + 1]
  /\ Serve(w, WithIncident(w, IncidentsOf(w) + 1))
  /\ UNCHANGED <<anomalies, playbook_runs, validation_events,
                 automation_history, notified>>

-----------------------------------------------------------------------------
(* Playbook runs *)

\* The incident of the anomaly in the workspace of the user who triggers.
FindLink(w) ==
  /\ At(w, "link")
  /\ \/ /\ IncidentsOf(w) = 0
        /\ Serve(w, [requests[w] EXCEPT !.pc = "runs"])
     \/ \E n \in 1 .. IncidentsOf(w) :
          Serve(w, [requests[w] EXCEPT
                      !.pc = "runs",
                      !.incident = Link(requests[w].workspace, n)])
  /\ UNCHANGED tables

RunOf(w, p) == playbook_runs[requests[w].anomaly][p]

\* _record_playbook_run looks for the run first.
CheckRun(w) ==
  /\ At(w, "runs")
  /\ \E p \in requests[w].left :
       Serve(w, IF RunOf(w, p).recorded
                  THEN [requests[w] EXCEPT !.left = @ \ {p}]
                  ELSE [requests[w] EXCEPT !.pc = "record", !.playbook = p])
  /\ UNCHANGED tables

\* The columns of the row that this module keeps.
NewRun(w) == Run(requests[w].owner, requests[w].incident)

\* The row of the run and, for an automatic playbook, the notification.
InsertRun(w) ==
  LET a == requests[w].anomaly
      p == requests[w].playbook
  IN /\ playbook_runs' = [playbook_runs EXCEPT ![a][p] = NewRun(w)]
     /\ notified' = [notified EXCEPT ![a][p] =
                       IF p \in Automatic THEN @ + 1 ELSE @]
     /\ Serve(w, [requests[w] EXCEPT !.pc = "runs", !.left = @ \ {p},
                                     !.playbook = NoPlaybook])
     /\ UNCHANGED <<anomalies, incidents, validation_events,
                    automation_history>>

\* Variant: no unique index.
RecordAnyRun(w) == At(w, "record") /\ InsertRun(w)

RecordRun(w) ==
  /\ At(w, "record")
  /\ ~RunOf(w, requests[w].playbook).recorded
  /\ InsertRun(w)

\* Somebody else has recorded the run: the unique index refuses the insert
\* and the request fails.
RecordRunConflict(w) ==
  /\ At(w, "record")
  /\ RunOf(w, requests[w].playbook).recorded
  /\ Finish(w)
  /\ UNCHANGED tables

\* Every playbook has been looked at.
RunsDone(w) ==
  /\ At(w, "runs")
  /\ requests[w].left = {}
  /\ \/ /\ requests[w].kind = "listing"
        /\ Serve(w, [requests[w] EXCEPT
                       !.pc = "ingest", !.anomaly = NoAnomaly,
                       !.incident = NoLink, !.owner = NoWorkspace])
     \/ /\ requests[w].kind = "validation"
        /\ Serve(w, [requests[w] EXCEPT !.pc = "resolve"])
     \/ /\ requests[w].kind = "trigger"
        /\ Finish(w)
  /\ UNCHANGED tables

-----------------------------------------------------------------------------
(* Validation events *)

\* POST /api/validation_events inserts the event, whose anomaly gets a new
\* identifier; from here on listings find it.
BeginValidation(w, o, v) ==
  /\ At(w, "idle")
  /\ ~Raised(v)
  /\ validation_events' = [validation_events EXCEPT ![v] =
                             Event("open", o, NoLink)]
  /\ Serve(w, [Request("alert", "validation", o) EXCEPT !.batch = {v}])
  /\ UNCHANGED <<anomalies, incidents, playbook_runs, automation_history,
                 notified>>

RaiseAlert(w) ==
  /\ At(w, "alert")
  /\ \E v \in requests[w].batch : _persist_anomaly(v, requests[w].workspace)
  /\ Serve(w, [requests[w] EXCEPT !.pc = "ingest"])
  /\ UNCHANGED <<incidents, playbook_runs, validation_events,
                 automation_history, notified>>

\* Variant: the anomaly's identifier is stored where the incident's belongs.
ResolveEventByAnomaly(w) ==
  /\ At(w, "resolve")
  /\ validation_events' =
       [validation_events EXCEPT ![requests[w].anomaly] =
          Event("resolved", @.workspace, requests[w].anomaly)]
  /\ Finish(w)
  /\ UNCHANGED <<anomalies, incidents, playbook_runs, automation_history,
                 notified>>

ResolveEvent(w) ==
  /\ At(w, "resolve")
  /\ validation_events' =
       [validation_events EXCEPT ![requests[w].anomaly] =
          Event("resolved", @.workspace, requests[w].incident)]
  /\ Finish(w)
  /\ UNCHANGED <<anomalies, incidents, playbook_runs, automation_history,
                 notified>>

-----------------------------------------------------------------------------
(* The whole *)

\* A statement fails, or the process ends: the request is over, what it has
\* committed stays.
StorageErrorAborts(w) ==
  /\ ~At(w, "idle")
  /\ Finish(w)
  /\ UNCHANGED tables

Proceed(w) ==
  \/ PersistDetected(w)
  \/ SelectForListing(w) \/ SelectForLoad(w) \/ SelectForTrigger(w)
  \/ ReadHistory(w) \/ apply_automation_rules(w)
  \/ IngestAnomaly(w) \/ EndListing(w)
  \/ FindIncident(w) \/ InsertIncident(w)
  \/ FindLink(w)
  \/ CheckRun(w) \/ RecordRun(w) \/ RecordRunConflict(w) \/ RunsDone(w)
  \/ RaiseAlert(w) \/ ResolveEvent(w)

Begin(w) ==
  \/ \E o \in Workspaces :
       \/ BeginListing(w, o)
       \/ \E v \in Validations : BeginValidation(w, o, v)
       \/ \E a \in Anomalies : BeginCreation(w, o, a)
       \/ \E a \in Anomalies, p \in Playbooks : BeginTrigger(w, o, a, p)
  \/ \E o \in Workspaces \cup {NoWorkspace} : BeginLoad(w, o)

CalmNext == \E w \in Workers : Begin(w) \/ Proceed(w)
Next == CalmNext \/ \E w \in Workers : StorageErrorAborts(w)

Spec == Init /\ [][Next]_vars

\* A request that has begun goes on, and the anomaly page of every workspace
\* is opened again and again.
FairSpec ==
  /\ Spec
  /\ \A w \in Workers : WF_vars(Proceed(w))
  /\ \A o \in Workspaces : SF_vars(\E w \in Workers : BeginListing(w, o))

\* Nothing fails but what other requests make fail.
CalmSpec ==
  /\ Init /\ [][CalmNext]_vars
  /\ \A w \in Workers : WF_vars(Proceed(w))

-----------------------------------------------------------------------------
(* Properties *)

Owners == Workspaces \cup {NoWorkspace}
Links  == [workspace : Owners, number : Nat]

Requests ==
  [pc : {"persist", "history", "automate", "ingest", "find", "insert",
         "link", "runs", "record", "alert", "resolve"},
   kind : {"listing", "load", "trigger", "creation", "validation"},
   workspace : Owners,
   todo : SUBSET Anomalies, batch : SUBSET Anomalies,
   pending : SUBSET (AutomationRules \X Anomalies),
   anomaly : Anomalies \cup {NoAnomaly}, incident : Links, owner : Owners,
   left : SUBSET Playbooks, playbook : Playbooks \cup {NoPlaybook}]

\* The tables and requests have their types.
TypeOK ==
  /\ anomalies \in [Anomalies -> [stored : BOOLEAN, workspace : Owners]]
  /\ incidents \in [Anomalies -> [Workspaces -> Nat]]
  /\ playbook_runs \in
       [Anomalies -> [Playbooks -> [recorded : BOOLEAN, workspace : Owners,
                                    incident : Links]]]
  /\ validation_events \in
       [Validations -> [status : {"none", "open", "resolved"},
                        workspace : Owners, incident : Links]]
  /\ automation_history \in [AutomationRules -> [Anomalies -> Nat]]
  /\ notified \in [Anomalies -> [Playbooks -> Nat]]
  /\ requests \in [Workers -> Requests \cup {Idle}]

\* However many requests ingest an anomaly at once, a run is notified once,
\* when its playbook is automatic, and never without a row of its own.
NotifiedOnce ==
  \A a \in Anomalies, p \in Playbooks :
    notified[a][p] =
      IF playbook_runs[a][p].recorded /\ p \in Automatic THEN 1 ELSE 0

\* Where the code checks before it inserts and no index stands behind, it
\* repeats itself no more often than threads can have checked at once: a
\* thread that looks again finds what is there.  With one thread, an anomaly
\* has one incident in a workspace and a rule acts on it once.
RepetitionsBounded ==
  \A a \in Anomalies :
    /\ \A o \in Workspaces : incidents[a][o] <= Cardinality(Workers)
    /\ \A r \in AutomationRules :
         automation_history[r][a] <= Cardinality(Workers)

IncidentExists(a, link) ==
  /\ link.workspace \in Workspaces
  /\ link.number \in 1 .. incidents[a][link.workspace]

\* A resolved validation event is what it says: its anomaly and its incident
\* are rows of its workspace, and every playbook that matches has a run,
\* whoever has recorded them.
ResolvedIsComplete ==
  \A v \in Validations :
    LET event == validation_events[v] IN
      event.status = "resolved" =>
        /\ anomalies[v] = Row(event.workspace)
        /\ event.incident.workspace = event.workspace
        /\ IncidentExists(v, event.incident)
        /\ \A p \in Playbooks : playbook_runs[v][p].recorded

\* What a validation event leads to stays in its workspace, although pages
\* without a workspace store its anomaly and other workspaces may trigger
\* playbooks for it.
ValidationStaysHome ==
  \A v \in Validations :
    LET home == validation_events[v].workspace IN
      /\ anomalies[v].stored => Raised(v) /\ anomalies[v].workspace = home
      /\ \A o \in Workspaces \ {home} : incidents[v][o] = 0
      /\ \A p \in Playbooks :
           playbook_runs[v][p].recorded =>
             Raised(v) /\ playbook_runs[v][p].workspace = home

\* A run that names an incident names one that is there and about the same
\* anomaly.  Its own workspace may be another one, that of the anomaly's row
\* when the playbook was triggered.
RunsAreLinked ==
  \A a \in Anomalies, p \in Playbooks :
    LET link == playbook_runs[a][p].incident IN
      link.number > 0 => IncidentExists(a, link)

\* A run is a snapshot that nobody replaces, an incident is never lost, and
\* a resolved event stays as it is.
RecordsStay ==
  [][\A a \in Anomalies :
       /\ \A p \in Playbooks :
            playbook_runs[a][p].recorded =>
              playbook_runs'[a][p] = playbook_runs[a][p]
       /\ \A o \in Workspaces : incidents'[a][o] >= incidents[a][o]
       /\ a \in Validations /\ validation_events[a].status = "resolved" =>
            validation_events'[a] = validation_events[a]]_vars

\* The tables that the contract speaks of, as they are; what anomaly rows and
\* the automation history say is no part of it.
Contract == INSTANCE IngestionContract WITH
  runs <- playbook_runs, events <- validation_events

\* Every commit of every request is a step that the contract allows, or none of
\* its: no interleaving records a run twice, notifies without recording, resolves
\* an event early or carries what it leads to into another workspace.
ImplementsContract == Contract!Spec

Ingested(a, o) ==
  incidents[a][o] > 0 /\ \A p \in Playbooks : playbook_runs[a][p].recorded

\* Wherever the request that raised an event has ended: once requests end
\* only by steps of their own, which include the failures that they cause each
\* other, the listings give the anomaly its incident and its runs.
EventIsIngested ==
  (<>[][\A w \in Workers : StorageErrorAborts(w) => Proceed(w)]_vars)
    => \A v \in Validations, o \in Workspaces :
         (Raised(v) /\ validation_events[v].workspace = o) ~> Ingested(v, o)

\* "Each validation event creates a normal anomaly, opens an incident, records
\* matching playbook runs, ... and adds incident timeline entries": without
\* failures, the request that raises an event brings it to its end.
EventIsCompleted ==
  \A v \in Validations :
    (validation_events[v].status = "open")
      ~> (validation_events[v].status = "resolved")
=============================================================================
