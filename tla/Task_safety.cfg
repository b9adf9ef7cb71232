\* Two tasks and main that call each other, every call and every eNotifyAction.
SPECIFICATION Spec
CONSTANTS
  u1 = u1
  u2 = u2
  main = main
  Nobody = Nobody
  Task <- TwoTasks
  Client <- JustMain
  Deleter <- MainAndOne
  Call <- EveryCall
  Notify <- EveryAction
  Width = 1
INVARIANTS
  TypeOK
  NoLostWakeup
PROPERTIES
  StopIsEffective
