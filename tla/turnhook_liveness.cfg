SPECIFICATION FairSpec
CONSTANTS
  block = block
  slash = slash
  NoAction = NoAction
  Actions <- MCActions
  GuardActions <- MCGuards
  LegalSets <- MCSomeLegal
  FallbackMode = "heuristic_guard"
  DecisionTimeout = 1
  MatchLength = 2
  MaxTurns = 4
PROPERTIES
  MatchCompletes
  RequestsSettle
  RecordingEnds
