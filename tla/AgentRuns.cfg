SPECIFICATION FairSpec
CONSTANTS
  Transcripts <- MCTranscripts
  maxTurns = 2
  maxHistory = 3
  MAX_INPUT_PARSE_RETRIES = 2
  MAX_IDENTICAL_TURNS = 1
  MAX_ALL_ERROR_TURNS = 2
  RETRY_DELAYS = 1
  MaxRuns = 2
  MaxResets = 1
  MaxCalls = 2
CHECK_DEADLOCK FALSE
INVARIANTS
  
  OneThing
  EndsOnce
PROPERTIES
  FailedRunLeavesNothing
  StopsAfterCancel
  EveryRunEnds
