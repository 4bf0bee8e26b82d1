SPECIFICATION Spec
CONSTANTS
  Graphs <- OneAnd
  Rounds = 2
CHECK_DEADLOCK FALSE
INVARIANT AllGoMeansGo
