\* Two timers, callbacks that call everything but xTimerDelete, two dispatchers deep.
SPECIFICATION Spec
CONSTANTS
  t1 = t1
  t2 = t2
  t3 = t3
  Timer <- TwoTimers
  CallbackOp <- AllButDelete
  MaxDepth = 2
SYMMETRY Symmetric
INVARIANTS
  TypeOK
  PassServesAll
PROPERTIES
  SettlesItsOwnTimer
