SPECIFICATION Spec
CONSTANTS
  Workers = {w1}
  Commits = {c1, c2}
  MaxJobs = 3
  MaxTokens = 3
  MaxFaults = 0
  MaxAttempts = 2
  BatchLimit = 1
  MaxRelease = 2
SYMMETRY Symmetry
CHECK_DEADLOCK FALSE
INVARIANTS
  OneCommit
  OneCurrent
PROPERTIES
  ReadersKeepAnIndex
