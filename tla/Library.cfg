SPECIFICATION LibrarySpec
CONSTANTS
  Writer = {a, b, c}
  Message = {m1, m2, m3, m4}
  NoMessage = NoMessage
  Maker = {a, b, c}
  Node = {n1, n2, n3, n4}
  NoNode = NoNode
  r1 = r1
  r2 = r2
  p1 = p1
  p2 = p2
  Record = {r1, r2}
  Product = {p1, p2}
  NameOrder <- Names
  Provider <- SomeProviders
  Order <- SomeOrders
  Replica = {0, 1}
  Uninitialized = 255
  Types <- SomeTypes
  Object = {x, y}
  Category = {cat}
  Fragment = {text, more}
  MaxCalls = 4
INVARIANTS
  WrittenInOrder
  ClosedFileIsComplete
  DeletedOnce
  LookupFindsProduct
  DefaultIsFirstInOrder
  NameIsNormal
  NothingSaidIsLost
CHECK_DEADLOCK FALSE
