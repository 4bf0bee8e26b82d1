SPECIFICATION Spec
CONSTANTS
  a = a
  b = b
  c = c
  t1 = t1
  t2 = t2
  t3 = t3
  Adder = {a, b}
  Owner = owner
  Task = {t1, t2, t3}
  Holders <- AllHolders
  InitialSize = 0
  Rounds = 1
  MaxNodes = 3
  Exception = {failure}
  None = None
CHECK_DEADLOCK FALSE
SYMMETRY Adders
INVARIANT NoDanglingNode
