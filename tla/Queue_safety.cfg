\* Three threads, every operation, two items, queues of length 1 and 2.
SPECIFICATION Spec
CONSTANTS
  t1 = t1
  t2 = t2
  t3 = t3
  a = a
  b = b
  NoItem = NoItem
  NoCall = NoCall
  MaxCapacity = 2
  Thread <- ThreePlayers
  Item <- TwoItems
  Op <- AllOps
SYMMETRY Symmetric
INVARIANTS
  TypeOK
  NoStrandedSender
PROPERTIES
  ImplementsBoundedQueue
