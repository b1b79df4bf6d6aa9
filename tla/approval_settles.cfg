\* Liveness under fair scheduling of the worker threads, without process exits.
SPECIFICATION CalmSpec
CONSTANTS
  Workers = {w1, w2}
  Approvals = {a1}
  Users = {alice, bob}
  NoUser = NoUser
  Actions = {create_incident_report}
  Subjects = {s1}
  Registries <- OnlyReport
  TTL = 1
  MaxClock = 1
PROPERTIES UseIsSettled
