\* Two processes upload and reconcile one package, fail and lose power at any
\* step, and in the end repair what they left.
SPECIFICATION FairSpec
CONSTANTS
  Processes = {p1, p2}
  NoProcess = none
  Ids = {v1, v2, v3}
  NoId = null
  Times = {1, 2}
INVARIANTS
  TypeOK
  SentOnce
  MarkerImpliesCiphertext
  ReceiptTruthful
  AlwaysReconcilable
PROPERTIES
  DurableIsFinal
  ImplementsContract
  StoredIsRecovered
