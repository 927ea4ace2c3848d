SPECIFICATION FairSpec
CONSTANTS
  Conversations = {c1}
  Workers = {w1}
  Askers = {a1}
  Modes = {"keyword"}
  Usage = {u1}
  MaxRuns = 2
  MaxSource = 1
  MaxMessages = 4
  RunLimit = 2
  ConversationLimit = 1
  MaxRevision = 0
  BatchLimit = 1
CHECK_DEADLOCK FALSE
INVARIANTS
  CompletedIffPublished
  TranscriptIsContiguous
  OneActiveRun
  DeletedStaysDeleted
PROPERTIES
  ImplementsLifecycle
  RunsTerminate
