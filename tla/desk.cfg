\* Two threads, one incident, two lists with identifiers up to 3.
SPECIFICATION Spec
CONSTANTS
  Threads = {t1, t2}
  Incidents = {i1}
  Lists <- MCLists
  RequestedStatuses = {"investigating", "closed", "ignored", "approved", "failed", "else"}
  MaxId = 3
  MaxRequests = 5
SYMMETRY Symmetric
CHECK_DEADLOCK FALSE
INVARIANTS
  TypeOK
  StampTellsStatus
  TableIsLoaded
