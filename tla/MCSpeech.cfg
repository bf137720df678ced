\* Two versions of one turn, three jobs; the local worker loop.
CONSTANTS
  t1 = t1
  Turn <- OneTurn
  External = FALSE
  MaxVersions = 2
  MaxDecisions = 2
  MaxAssets = 3
  MaxJobs = 3
  MaxRequests = 1
  MaxFaults = 1
SPECIFICATION FairSpec
INVARIANTS
  ReviewDecides
  OneRecording
PROPERTIES
  SpeechSettles
CHECK_DEADLOCK FALSE
