SPECIFICATION Spec
CONSTANTS
  Conversations = {c1, c2}
  Workers = {w1, w2}
  Askers = {}
  Modes = {"keyword", "hybrid"}
  Usage = {u1, u2}
  MaxRuns = 1
  MaxSource = 2
  MaxMessages = 2
  RunLimit = 1
  ConversationLimit = 2
  MaxRevision = 1
  BatchLimit = 1
SYMMETRY WorkerSymmetry
CHECK_DEADLOCK FALSE
INVARIANTS
  TypeOK
  EventLogMatchesStatus
  OneExecution
  PaidOnce
  UsageIsHonest
  AnswersFromPinnedSource
PROPERTY ReceiptsMoveForward
