\* Two threads, deliveries from callbacks, every function.
SPECIFICATION FairSpec
CONSTANTS
  t1 = t1
  t2 = t2
  c1 = c1
  Thread <- TwoThreads
  Callback <- OneCallback
  NoCallback = NoCallback
  Unlocked = Unlocked
  MaxDepth = 2
INVARIANTS
  TypeOK
  Silenced
  NoSelfDeadlock
PROPERTIES
  CallsReturn
