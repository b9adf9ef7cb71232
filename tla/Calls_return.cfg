\* A semaphore with three takers that also give, one pure giver and spurious
\* wake-ups; a queue of length 1 without peekers; one task; two readers of a port.
SPECIFICATION AllFairSpec
CONSTANTS
  t1 = t1
  t2 = t2
  t3 = t3
  g1 = g1
  Taker <- ThreeTakers
  Giver <- WithIsr
  Spurious = TRUE
  s1 = s1
  s2 = s2
  s3 = s3
  item = item
  NoItem = NoItem
  NoCall = NoCall
  u1 = u1
  main = main
  other = other
  Nobody = Nobody
  reader1 = reader1
  reader2 = reader2
INVARIANTS
  TypeOK
  NoLostGive
  NoStrandedReceiver
PROPERTIES
  ImplementsBinarySemaphore
  TakeReturns
  CallReturns
  ResumeFrees
  NotifyReaches
  DeleteReturns
  ReturnsAlone
