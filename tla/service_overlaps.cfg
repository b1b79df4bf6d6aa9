\* Two commands at once, servers that die, identifiers used again.
SPECIFICATION Spec
CONSTANTS
  Commands = {c1, c2}
  Pids = {p1, p2}
  NoPid = NoPid
  MaxBirths = 3
SYMMETRY Symmetric
INVARIANTS TypeOK StopIsHonest NoOrphan
PROPERTIES OnlyRecordedIsEnded
