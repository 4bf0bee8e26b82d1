SPECIFICATION FairSpec
CONSTANTS
  a = a
  b = b
  c = c
  t1 = t1
  t2 = t2
  t3 = t3
  Adder = {a, b}
  Owner = owner
  Task = {t1, t2}
  Holders <- TwoAndNone
  InitialSize = 1
  Rounds = 2
  MaxNodes = 3
  Exception = {failure}
  None = None
CHECK_DEADLOCK FALSE
INVARIANTS
  NothingLeftBehind
  ExecutedOnce
  ResetFindsEmptyList
  NodeAliveWhenUsed
PROPERTIES
  ImplementsTaskGate
  TasksSeeException
  OpenListDrains
