\* A validation event is raised while two workspaces list, load and trigger;
\* any request may fail at any step, and the listings repair what it left.
SPECIFICATION FairSpec
CONSTANTS
  Workers = {w1, w2}
  Workspaces = {acme, northstar}
  NoWorkspace = none
  Telemetry = {}
  Validations = {v1}
  NoAnomaly = no_anomaly
  Playbooks = {p1}
  Automatic = {p1}
  NoPlaybook = no_playbook
  AutomationRules = {r1}
INVARIANTS
  TypeOK
  ResolvedIsComplete
  ValidationStaysHome
PROPERTIES
  EventIsIngested
  ImplementsContract
