SPECIFICATION Spec
CONSTANTS
  Workers = {w1, w2}
  MaxJobs = 1
  MaxTokens = 3
  MaxFaults = 1
  MaxAttempts = 2
  BatchLimit = 1
  ChunkCount = 3
  BatchSize = 2
  Budgets = {3, 5}
  MaxSource = 1
  MaxResumes = 1
SYMMETRY WorkerSymmetry
CHECK_DEADLOCK FALSE
INVARIANTS
  SpendWithinBudget
  LedgerMatchesDocuments
