SPECIFICATION Spec
CONSTANTS
  Slots = {t1, t2, t3}
  Repositories <- MCRepositories
  Copies = 3
  RepositoryLimit = 2
  ImportLimit = 2
  ConversationLimit = 2
  MaxTransactions = 3
SYMMETRY MCSymmetry
INVARIANTS
  DeadlocksAreKnown
  QuotasHold
CHECK_DEADLOCK FALSE
