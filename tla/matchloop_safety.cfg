SPECIFICATION Spec
CONSTANTS
  m1 = m1
  m2 = m2
  h1 = h1
  h2 = h2
  NoMatch = NoMatch
  MatchIds <- MCBothMatches
  Hashes <- MCHashes
  MaxRequests = 3
  MaxExtras = 1
  ReplayCapture = TRUE
SYMMETRY HashSymmetry
INVARIANTS
  TypeOK
  ResultIsFinal
  MatchEndLosesNothing
  AnswersAreUnique
  StopAfterResult
