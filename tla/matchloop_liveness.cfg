SPECIFICATION FairSpec
CONSTANTS
  m1 = m1
  m2 = m2
  h1 = h1
  h2 = h2
  NoMatch = NoMatch
  MatchIds <- MCOneMatch
  Hashes <- MCHashes
  MaxRequests = 2
  MaxExtras = 1
  ReplayCapture = TRUE
PROPERTIES
  MatchEndIsRecorded
  DispatchedIsAnswered
  SessionEnds
