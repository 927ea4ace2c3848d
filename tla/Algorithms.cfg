SPECIFICATION Spec
CONSTANTS
  Damping = 4
  CandidateLimit = 3
  Scale = 210
  TopK = 3
  EvidenceBudget = 6
  MaxTurns = 3
  HistoryLimit <- MCHistoryLimit
  PayloadLimit <- MCPayloadLimit
  ExpandedLimit = 8
  StoredLimit = 3
  FileLimit = 2
  MemberLimit = 3
  MaxBytes = 4
  MaxLength = 5
  MaxSymbols = 3
  Pieces = {p, q}
  EventLimit = 4
  TextLimit = 2
SYMMETRY PieceSymmetry
CHECK_DEADLOCK FALSE
INVARIANTS
  ArchiveIsExact
  ChunksAreExact
  AgreementWins
  EvidenceIsFirstFit
  HistoryIsRecentSuffix
  AcceptedIffWhole
  UsageSurvives
