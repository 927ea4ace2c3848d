SPECIFICATION FairSpec
CONSTANTS
  Workers = {w1}
  MaxJobs = 1
  MaxTokens = 4
  MaxFaults = 1
  MaxAttempts = 2
  BatchLimit = 1
  ChunkCount = 2
  BatchSize = 1
  Budgets = {2, 3}
  MaxSource = 2
  MaxResumes = 1
CHECK_DEADLOCK FALSE
PROPERTIES
  ImplementsJobLifecycle
  PreparationsTerminate
