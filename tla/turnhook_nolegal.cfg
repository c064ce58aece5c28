SPECIFICATION FairSpec
CONSTANTS
  block = block
  slash = slash
  NoAction = NoAction
  Actions <- MCActions
  GuardActions <- MCGuards
  LegalSets <- MCMaybeNone
  FallbackMode = "heuristic_guard"
  DecisionTimeout = 1
  MatchLength = 2
  MaxTurns = 4
PROPERTY
  DisconnectNeverDeadlocks
