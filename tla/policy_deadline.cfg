SPECIFICATION Spec
CONSTANTS
  block = block
  slash = slash
  NoAction = NoAction
  Actions <- MCActions
  GuardActions <- MCGuards
  LegalSets <- MCLegalSets
  FallbackMode = "heuristic_guard"
  CorrectionRetry = TRUE
  DecisionTimeout = 1
  CallLimit = 1
  MaxRequests = 1
INVARIANTS
  ResolvedByDeadline
