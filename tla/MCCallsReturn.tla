--------------------------- MODULE MCCallsReturn ---------------------------
(* The calls that may block: those of a semaphore, of a queue, of tasks,   *)
(* and the timed reads of a serial port.  Does every one come to its end?  *)
(* The four share no state; part says which of them is in use, and         *)
(* fairness asks nothing of a part that nobody uses.                       *)
EXTENDS SemaphoreContention

CONSTANTS t1, t2, t3, g1,
          s1, s2, s3, item, NoItem, NoCall,
          u1, main, other, Nobody,
          reader1, reader2

ThreeTakers == {t1, t2, t3}
WithIsr     == {t1, t2, t3, g1}

VARIABLES part,
          capacity, q, at, call, late, ret, buf,
          life, cancel, suspended, value, pending, in, step, deadline, target, parked,
          rx, tx, age, _timeout, doing, injected, gone

(* Length 1; no peekers, who would take a notification and leave the item. *)
Queue == INSTANCE FreeRTOSQueue
           WITH Thread <- {s1, s2, s3}, Item <- {item}, MaxCapacity <- 1,
                Op <- {"SendBack", "SendFront", "Receive"}, pc <- at, expired <- late

(* One task, and two threads that suspend, resume, notify and delete it.   *)
Tasks == INSTANCE FreeRTOSTask
           WITH Task <- {u1}, Client <- {main, other}, Deleter <- {main, other},
                Call <- {"vTaskDelay", "vTaskSuspend", "vTaskResume",
                         "xTaskNotify", "ulTaskNotifyTake"},
                Notify <- {"eIncrement"}, Width <- 1, at <- step

Port == INSTANCE SerialPort
          WITH Reader <- {reader1, reader2}, Printer <- {}, Timeouts <- {1}, Terminator <- {1},
               MaxBytes <- 1, MaxTx <- 0, MaxHold <- 1, Width <- 3, call <- doing

AllInit ==
  /\ part \in {"semaphore", "queue", "tasks", "port"}
  /\ HistoryInit /\ Queue!Init /\ Tasks!Init /\ Port!Init

SemaphoreRests == UNCHANGED <<vars, contended>>
QueueRests     == UNCHANGED <<capacity, q, at, call, late, ret, buf>>
TasksRest      == UNCHANGED <<life, cancel, suspended, value, pending, in, step, deadline,
                              target, parked>>
PortRests      == UNCHANGED <<rx, tx, age, _timeout, doing, injected, gone>>

AllNext ==
  /\ UNCHANGED part
  /\ \/ part = "semaphore" /\ HistoryNext /\ QueueRests     /\ TasksRest  /\ PortRests
     \/ part = "queue"     /\ Queue!Next  /\ SemaphoreRests /\ TasksRest  /\ PortRests
     \/ part = "tasks"     /\ Tasks!Next  /\ SemaphoreRests /\ QueueRests /\ PortRests
     \/ part = "port"      /\ Port!Next   /\ SemaphoreRests /\ QueueRests /\ TasksRest

allVars == <<part, vars, contended, capacity, q, at, call, late, ret, buf,
             life, cancel, suspended, value, pending, in, step, deadline, target, parked,
             rx, tx, age, _timeout, doing, injected, gone>>

(* What each of the modules assumes of its threads, and of the bodies of   *)
(* tasks that they pass by vTaskDelay again and again.                     *)
AllFairSpec ==
  /\ AllInit /\ [][AllNext]_allVars
  /\ Fairness /\ Queue!Fairness /\ Port!Fairness
  /\ Tasks!Fairness /\ Tasks!Delaying
-----------------------------------------------------------------------------
(* No receiver sleeps beside an item nobody comes for: see FreeRTOSQueue.  *)
NoStrandedReceiver == Queue!NoStrandedReceiver

(* A call that waits for a queue returns: see FreeRTOSQueue.               *)
CallReturns == Queue!CallReturns

(* A resumed task leaves the suspend gate: see FreeRTOSTask.               *)
ResumeFrees == Tasks!ResumeFrees

(* A notification ends a take: see FreeRTOSTask.                           *)
NotifyReaches == Tasks!NotifyReaches

(* vTaskDelete returns: see FreeRTOSTask.                                  *)
DeleteReturns == Tasks!DeleteReturns

(* A lone timed read comes to its end: see SerialPort.                     *)
ReturnsAlone == Port!ReturnsAlone
=============================================================================
