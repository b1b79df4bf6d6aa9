\* One worker at a time, but the process restarts in versions whose registry
\* differs: what was previewed and approved under one contract meets another.
SPECIFICATION Spec
CONSTANTS
  Workers = {w1}
  Approvals = {a1}
  Users = {alice, bob}
  NoUser = NoUser
  Actions = {restart_service}
  Subjects = {s1, s2}
  Registries <- Versions
  TTL = 1
  MaxClock = 3
SYMMETRY Symmetric
INVARIANTS AuthorityChain
