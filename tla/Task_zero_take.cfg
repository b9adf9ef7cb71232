\* A pending notification of value 0 is taken without clearing.
SPECIFICATION Spec
CONSTANTS
  u1 = u1
  u2 = u2
  main = main
  Nobody = Nobody
  Task <- OneTask
  Client <- JustMain
  Deleter <- JustMain
  Call <- NotifyOnly
  Notify <- CountOrNone
  Width = 2
PROPERTIES
  PendingOnlyIfCountRemains
