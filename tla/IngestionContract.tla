------------------------- MODULE IngestionContract -------------------------
(***************************************************************************)
(* What the ingestion of anomalies promises of the rows it leaves, however *)
(* its requests interleave and wherever they end: a playbook's run for an  *)
(* anomaly is recorded once, with its notification and about an incident   *)
(* of that anomaly; incidents only come; what follows from a validation    *)
(* event stays in its workspace, and the event is resolved once, when all  *)
(* of it is there.  IncidentIngestion implements this module.              *)
(***************************************************************************)
EXTENDS Naturals

CONSTANTS
  Workspaces,
  NoWorkspace,   \* the NULL of a workspace column
  Anomalies,
  Validations,   \* the anomalies of validation events
  Playbooks,
  Automatic      \* the playbooks whose runs are notified

VARIABLES
  incidents,     \* incidents[a][o]: how many incidents of a there are in o
  runs,          \* runs[a][p]: the run of p for a
  events,        \* events[v]: the validation event of v
  notified       \* notified[a][p]: how often the run was notified

contract == <<incidents, runs, events, notified>>

Link(o, n) == [workspace |-> o, number |-> n]
NoLink     == Link(NoWorkspace, 0)
Run(recorded, o, link) ==
  [recorded |-> recorded, workspace |-> o, incident |-> link]
Event(status, o, link) == [status |-> status, workspace |-> o, incident |-> link]

Init ==
  /\ incidents = [a \in Anomalies |-> [o \in Workspaces |-> 0]]
  /\ runs = [a \in Anomalies |-> [p \in Playbooks |-> Run(FALSE, NoWorkspace, NoLink)]]
  /\ events = [v \in Validations |-> Event("none", NoWorkspace, NoLink)]
  /\ notified = [a \in Anomalies |-> [p \in Playbooks |-> 0]]

\* What is done about a may be done in the name of workspace o.
Concerns(a, o) ==
  a \in Validations => events[a].status # "none" /\ events[a].workspace = o

IncidentsOf(a) ==
  UNION {{Link(o, n) : n \in 1 .. incidents[a][o]} : o \in Workspaces}

\* A user of o raises an event, about an anomaly that nothing is known of.
Raise(v, o) ==
  /\ events[v].status = "none"
  /\ \A x \in Workspaces : incidents[v][x] = 0
  /\ \A p \in Playbooks : ~runs[v][p].recorded
  /\ events' = [events EXCEPT ![v] = Event("open", o, NoLink)]
  /\ UNCHANGED <<incidents, runs, notified>>

OpenIncident(a, o) ==
  /\ Concerns(a, o)
  /\ incidents' = [incidents EXCEPT ![a][o] = @ + 1]
  /\ UNCHANGED <<runs, events, notified>>

\* The run names an incident that exists, or none when it was triggered before
\* there was one.
RecordRun(a, p, o, link) ==
  /\ ~runs[a][p].recorded
  /\ Concerns(a, o)
  /\ runs' = [runs EXCEPT ![a][p] = Run(TRUE, o, link)]
  /\ notified' = [notified EXCEPT ![a][p] = IF p \in Automatic THEN 1 ELSE 0]
  /\ UNCHANGED <<incidents, events>>

\* All that the event leads to is there, in its workspace.
Resolve(v, link) ==
  /\ events[v].status = "open"
  /\ link.workspace = events[v].workspace
  /\ \A p \in Playbooks : runs[v][p].recorded
  /\ events' = [events EXCEPT ![v] = Event("resolved", @.workspace, link)]
  /\ UNCHANGED <<incidents, runs, notified>>

Next ==
  \/ \E v \in Validations :
       \/ \E o \in Workspaces : Raise(v, o)
       \/ \E link \in IncidentsOf(v) : Resolve(v, link)
  \/ \E a \in Anomalies :
       \/ \E o \in Workspaces : OpenIncident(a, o)
       \/ \E p \in Playbooks, o \in Workspaces \cup {NoWorkspace},
             link \in IncidentsOf(a) \cup {NoLink} : RecordRun(a, p, o, link)

Spec == Init /\ [][Next]_contract
=============================================================================
