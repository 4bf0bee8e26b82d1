SPECIFICATION ChainFairSpec
CONSTANTS
  a1 = a1
  a2 = a2
  q1 = q1
  q2 = q2
  q3 = q3
  g1 = g1
  u1 = u1
  u2 = u2
  u3 = u3
  v1 = v1
  v2 = v2
  v3 = v3
  d1 = d1
  None = None
  Thread = {x, y}
  Task = {u1, u2, u3, v1, v2, v3, d1}
  Queue = {q1, q2, q3}
  Group = {g1}
  Action = {a1, a2}
  m_queues <- ThreeQueues
  TaskAt <- ThreeLevels
  QueueOf <- QueueOfThree
  GroupOf <- OneGroup
  MaxPause = 2
CHECK_DEADLOCK FALSE
INVARIANTS
  PausedByWhatPassed
  RunsInOrder
PROPERTIES
  ChainDrains
