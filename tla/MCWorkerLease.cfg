\* Two processes that come back to a lease of two ticks, one crash or release.
CONSTANTS
  w1 = w1
  w2 = w2
  Worker <- Processes
  Nobody = Nobody
  Ttl = 2
  LockTimeout = 1
  StaleAfter = 2
  Retention = 2
  MaxLag = 3
  MaxStops = 1
SPECIFICATION FairSpec
INVARIANTS
  ExclusiveGrant
PROPERTIES
  KeepsPromise
  RoleServed
CHECK_DEADLOCK FALSE
