\* One backup and one package; the files around the commands change twice.
SPECIFICATION Spec
CONSTANTS
  Bundles = {b1, b2}
  Configurations = {k1, k2}
  Earlier = {b2}
  NoBundle = none
  MaxHead = 2
  MaxEdits = 2
SYMMETRY Symmetric
CHECK_DEADLOCK FALSE
INVARIANTS
  TypeOK
  PublishedSurvives
  PairedWithItsRelease
  RecoveredIsSealed
  EvidenceIsOfItsBundle
PROPERTIES
  PublishedIsFinal
