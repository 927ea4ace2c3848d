SPECIFICATION FairSpec
CONSTANTS
  Polls = 3
  MaxRevision = 2
  MaxFaults = 2
CHECK_DEADLOCK FALSE
INVARIANTS
  TimelineIsPrefix
  CompleteIsComplete
  DraftOnlyWhileRunning
PROPERTY TimelineCompletes
