SPECIFICATION Spec
CONSTANTS
  Workers = {w1, w2}
  Commits = {c1, c2}
  MaxJobs = 2
  MaxTokens = 3
  MaxFaults = 1
  MaxAttempts = 2
  BatchLimit = 1
  MaxRelease = 1
SYMMETRY Symmetry
CHECK_DEADLOCK FALSE
INVARIANTS
  QueuedIsClaimable
  RowsOfOneClaim
