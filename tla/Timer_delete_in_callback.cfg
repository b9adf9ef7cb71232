\* Callbacks that delete timers: the index of the pass goes stale.
SPECIFICATION Spec
CONSTANTS
  t1 = t1
  t2 = t2
  t3 = t3
  Timer <- ThreeTimers
  CallbackOp <- OnlyDelete
  MaxDepth = 1
PROPERTIES
  OneShotInactiveAfterFiring
