--------------------------- MODULE MCFreeRTOSTask ---------------------------
(* Instances of FreeRTOSTask for TLC: two tasks that call each other, or   *)
(* one that main notifies.                                                 *)
EXTENDS FreeRTOSTask, TLC

CONSTANTS u1, u2, main

OneTask  == {u1}
TwoTasks == {u1, u2}
JustMain == {main}
MainAndOne == {u1, main}

EveryCall   == {"vTaskDelay", "vTaskSuspend", "vTaskResume",
                "xTaskNotify", "ulTaskNotifyTake"}
NotifyOnly  == {"vTaskDelay", "xTaskNotify", "ulTaskNotifyTake"}

EveryAction == {"eNoAction", "eSetBits", "eIncrement",
                "eSetValueWithOverwrite", "eSetValueWithoutOverwrite"}
CountOrNone == {"eIncrement", "eNoAction"}
=============================================================================
