SPECIFICATION Spec
CONSTANTS
  block = block
  slash = slash
  NoAction = NoAction
  Actions <- MCActions
  GuardActions <- MCGuards
  LegalSets <- MCLegalSets
  FallbackMode = "last_valid_replayable"
  CorrectionRetry = FALSE
  DecisionTimeout = 1
  CallLimit = 1
  MaxRequests = 2
PROPERTIES
  LastValidReplayed
