SPECIFICATION FairSpec
CONSTANTS
  Workers = {w1}
  Commits = {c1}
  MaxJobs = 2
  MaxTokens = 4
  MaxFaults = 1
  MaxAttempts = 2
  BatchLimit = 1
  MaxRelease = 1
CHECK_DEADLOCK FALSE
PROPERTIES
  ImplementsJobLifecycle
  JobsTerminate
