SPECIFICATION Spec
CONSTANTS
  block = block
  slash = slash
  NoAction = NoAction
  Actions <- MCActions
  GuardActions <- MCGuards
  LegalSets <- MCLegalSets
  FallbackMode = "last_valid_replayable"
  DecisionTimeout = 1
  MatchLength = 2
  MaxTurns = 3
INVARIANTS
  TypeOK
  PendingIsCurrent
  OneOpenRequest
  HandedActionIsLegal
  AuditTrail
  OutcomesAreTrue
PROPERTIES
  LockedIn
  ImplementsContract
