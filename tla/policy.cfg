SPECIFICATION FairSpec
CONSTANTS
  block = block
  slash = slash
  NoAction = NoAction
  Actions <- MCActions
  GuardActions <- MCGuards
  LegalSets <- MCLegalSets
  FallbackMode = "heuristic_guard"
  CorrectionRetry = TRUE
  DecisionTimeout = 2
  CallLimit = 3
  MaxRequests = 2
INVARIANTS
  TypeOK
  DecisionIsLegal
  ReasonTellsCause
  ResolvedInTime
PROPERTIES
  RequestsAreDecided
