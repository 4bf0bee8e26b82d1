SPECIFICATION LimitedFairSpec
CONSTANTS
  a1 = a1
  a2 = a2
  q1 = q1
  q2 = q2
  g1 = g1
  u1 = u1
  u2 = u2
  v1 = v1
  v2 = v2
  None = None
  Thread = {x, y}
  Task = {u1, u2, v1, v2}
  Queue = {q1, q2}
  Group = {g1}
  Action = {a1, a2}
  Pausing = {a1}
  m_queues <- TwoQueues
  LambdaOf <- Lambdas
  QueueOf <- Queues
  GroupOf <- OneGroup
  MaxResumers = 2
  MaxPause = 2
CHECK_DEADLOCK FALSE
INVARIANTS
  PausedByResumers
PROPERTIES
  ImplementsLimitedExecutor
  OneQueueWillDo
