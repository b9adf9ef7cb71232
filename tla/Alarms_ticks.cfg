\* Callbacks that call everything, Alarm.delay included.
SPECIFICATION Spec
CONSTANTS
  MaxAlarms = 2
  Interval <- NowOrLater
  MaxTime = 3
  MaxDepth = 2
  CallbackOp <- Operation
INVARIANTS
  TypeOK
  FreshSlots
  TickServesDue
PROPERTIES
  Spaced
