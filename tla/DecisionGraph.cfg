SPECIFICATION FairSpec
CONSTANTS
  Graphs <- AllGraphs
  Rounds = 2
CHECK_DEADLOCK FALSE
INVARIANTS
  DecidesItsFormula
  RunsWhatIsNeeded
  StartsAnew
  DecisionHasCause
  AskedMeansAnswered
PROPERTIES
  TopsAnswered
