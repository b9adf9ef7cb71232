\* A one-shot whose callback waits with Alarm.delay.
SPECIFICATION Spec
CONSTANTS
  MaxAlarms = 2
  Interval <- NowOrLater
  MaxTime = 3
  MaxDepth = 2
  CallbackOp <- Operation
INVARIANTS
  OneShotFiresOnce
