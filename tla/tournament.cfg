SPECIFICATION FairSpec
CONSTANTS
  alice = alice
  bob = bob
  carol = carol
  Policies <- MCPolicies
  Plans <- MCPlans
  Decisions = {3}
  Rating = 1500
  K = 4
  Span = 40
  Gain <- MCGain
  Sizes = {2, 3, 4, 8}
  BestOf = 3
  MaxOdd = 2
INVARIANTS
  TypeOK
  StandingsFollowRecords
  AnalysisFollowsBracket
PROPERTIES
  ImplementsElimination
CHECK_DEADLOCK FALSE
