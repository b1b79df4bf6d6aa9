\* The documented path of a validation event, which another request can end.
SPECIFICATION CalmSpec
CONSTANTS
  Workers = {w1, w2}
  Workspaces = {acme, northstar}
  NoWorkspace = none
  Telemetry = {}
  Validations = {v1}
  NoAnomaly = no_anomaly
  Playbooks = {p1}
  Automatic = {p1}
  NoPlaybook = no_playbook
  AutomationRules = {}
PROPERTIES EventIsCompleted
