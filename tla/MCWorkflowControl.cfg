\* Operator and worker actions against one worker stage, the loop polling fairly.
CONSTANTS
  MediaStages = {}
  NumStages = 1
  Target <- OneStage
  MaxAttempts = 2
  MaxErrors = 2
  MaxRuns = 1
  MaxEntries = 2
SPECIFICATION FairSpec
INVARIANTS
  AttemptsCumulative
  AutomaticRetryBudget
  ExhaustedFlagGrounded
PROPERTIES
  ScheduledRetryProgress
  OperatorKeepsRunInStep
  CompletionAccounted
CHECK_DEADLOCK FALSE
