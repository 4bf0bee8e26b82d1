SPECIFICATION SpecLifetime
CONSTANTS
  a = a
  b = b
  c = c
  t1 = t1
  t2 = t2
  last = last
  q1 = q1
  g1 = g1
  g2 = g2
  None = None
  Thread = {a, b, c}
  Task = {t1, t2, last}
  Queue = {q1}
  Group = {g1, g2}
  QueueOf <- OneQueue
  GroupOf <- OwnGroupForLast
  LastTask <- LastOfQueue
  MaxPause = 1
INVARIANTS
  NoUseAfterDestruction
CHECK_DEADLOCK FALSE
