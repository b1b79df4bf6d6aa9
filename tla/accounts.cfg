\* Two threads, two browsers and three usernames; a bounded number of requests.
SPECIFICATION Spec
CONSTANTS
  Threads = {t1, t2}
  b1 = b1
  b2 = b2
  Browsers = {b1, b2}
  alice = alice
  bob = bob
  carol = carol
  Usernames = {alice, bob, carol}
  local = local
  other = other
  Names = {local, other}
  Requests <- MCRequests
  Installations <- MCInstallations
  NoUser = nouser
  Nothing = nothing
  SignedOut = signedout
  MaxRequests = 4
SYMMETRY Symmetric
CHECK_DEADLOCK FALSE
INVARIANTS
  TypeOK
  ApprovedHasItsUser
  PendingBounded
  RevokedSessionsStayOut
PROPERTIES
  WorkspacesStayApart
