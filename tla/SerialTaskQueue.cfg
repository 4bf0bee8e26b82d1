SPECIFICATION FairSpec
CONSTANTS
  a = a
  b = b
  c = c
  t1 = t1
  t2 = t2
  t3 = t3
  q1 = q1
  q2 = q2
  g1 = g1
  g2 = g2
  None = None
  Thread = {a, b, c}
  Task = {t1, t2, t3}
  Queue = {q1}
  Group = {g1, g2}
  QueueOf <- OneQueue
  GroupOf <- TwoGroups
  MaxPause = 2
INVARIANTS
  OneAtATime
  NothingLostNorReordered
  NoStrandedTask
PROPERTIES
  PauseTakesEffect
  KeepsExecutorMoving
  ImplementsSerialExecutor
