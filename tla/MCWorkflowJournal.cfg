\* Replay of up to two runs.
CONSTANTS
  MediaStages = {}
  NumStages = 1
  Target <- OneStage
  MaxAttempts = 2
  MaxErrors = 1
  MaxRuns = 2
  MaxEntries = 1
  MaxJournal = 9
SPECIFICATION JSpec
INVARIANTS
  ActiveRunReplays
  SignalsReplay
  FirstRunHistoryReplays
  CancellationSticks
CHECK_DEADLOCK FALSE
