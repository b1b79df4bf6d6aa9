\* Two workspaces ingest one anomaly of the host, whose row each takes over.
SPECIFICATION Spec
CONSTANTS
  Workers = {w1, w2}
  Workspaces = {acme, northstar}
  NoWorkspace = none
  Telemetry = {t1}
  Validations = {}
  NoAnomaly = no_anomaly
  Playbooks = {p1}
  Automatic = {p1}
  NoPlaybook = no_playbook
  AutomationRules = {r1}
SYMMETRY Symmetric
INVARIANTS
  RepetitionsBounded
