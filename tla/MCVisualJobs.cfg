\* One request beside the worker and the adapter; every start, every answer.
SPECIFICATION FairSpec
CONSTANTS
  RetryLimit = 2
  Named <- MCNamed
  Made <- MCMade
  MaxPlans = 2
  MaxJobs = 3
  MaxRequests = 1
  MaxFaults = 2
INVARIANTS
  PlateSeen
PROPERTIES
  CancelStands
  EverythingSettles
CHECK_DEADLOCK FALSE
