\* An installation in use, and two requests.
SPECIFICATION Spec
CONSTANTS
  Threads = {t1, t2}
  b1 = b1
  b2 = b2
  Browsers = {b1, b2}
  alice = alice
  bob = bob
  carol = carol
  Usernames = {alice, bob, carol}
  local = local
  other = other
  Names = {local, other}
  Requests <- MCRequests
  Installations <- Established
  NoUser = nouser
  Nothing = nothing
  SignedOut = signedout
  MaxRequests = 2
SYMMETRY Symmetric
CHECK_DEADLOCK FALSE
INVARIANT LastAdminStays
