SPECIFICATION ChainSpec
CONSTANTS
  f1 = f1
  f2 = f2
  last = last
  s = s
  c1 = c1
  c2 = c2
  k1 = k1
  r1 = r1
  None = None
  Thread = {a, b}
  Task = {f1, f2, last}
  Holder = {s, c1, c2, k1, r1}
  ArenaHolder = {r1}
  Exception = {e1}
  Final = last
  Start = s
  Chain <- TwoFunctors
  Capture <- TheirHolders
  Kinds <- SecondMayHandle
  Wishes <- SecondOrNot
INVARIANTS
  HeldWhileReferenced
  SeesReportedException
  WaitsForAll
  StagesInOrder
  FailuresReachWaiter
PROPERTIES
  WaiterReturns
CHECK_DEADLOCK FALSE
