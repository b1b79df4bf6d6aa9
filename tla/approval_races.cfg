\* Two workers, three users, one approval of the restart action: every
\* interleaving of create, decide and execute, with storage errors and exits.
SPECIFICATION Spec
CONSTANTS
  Workers = {w1, w2}
  Approvals = {a1}
  Users = {alice, bob}
  NoUser = NoUser
  Actions = {restart_service}
  Subjects = {s1}
  Registries <- OnlyRestart
  TTL = 1
  MaxClock = 3
SYMMETRY Symmetric
INVARIANTS TypeOK EffectAtMostOnce AuditTruthful OutcomeHonest
PROPERTIES DecisionIsFinal ImplementsContract
