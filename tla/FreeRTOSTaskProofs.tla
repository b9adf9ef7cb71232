------------------------- MODULE FreeRTOSTaskProofs -------------------------
(* Theorems about FreeRTOSTask, for any tasks, clients and value widths.   *)
EXTENDS FreeRTOSTask, TLAPS

(* A task that is about to sleep in ulTaskNotifyTake has found nothing     *)
(* pending, and nobody can change that before it sleeps: the notification  *)
(* is written under its mutex.                                             *)
ArmedTake ==
  \A t \in Task : at[t] = "armed" /\ in[t] = "take" => ~pending[t]

(* A deleter has its task for itself, cancelled and not yet freed; others  *)
(* only ever call about tasks that are not freed.                          *)
Deletion ==
  \A a \in Actor :
    /\ target[a] # Nobody => life[target[a]] # "none"
    /\ in[a] \in {"deleting", "joining"} =>
         /\ cancel[target[a]]
         /\ \A b \in Actor : target[b] = target[a] => b = a

(* A parked task is suspended and not on its way out of the gate.          *)
Parking ==
  \A t \in parked : suspended[t] /\ at[t] # "leaving" /\ life[t] # "none"

TaskInv == TypeOK /\ NoLostWakeup /\ ArmedTake /\ Deletion /\ Parking

-----------------------------------------------------------------------------
(* What the notifiers write and the takers leave is a notification value.  *)
LEMMA ValueClosed ==
  ASSUME TypeOK, NEW u \in Task
  PROVE  /\ \A action \in Notify : NotifiedValue(u, action) \subseteq Value
         /\ (value[u] + 2^Width - 1) % 2^Width \in Value
         /\ 0 \in Value
<1> DEFINE m == 2^Width
<1>1. m \in Nat \ {0} /\ Value = 0..(m - 1) /\ value[u] \in 0..(m - 1)
  BY TaskAssumption DEF TaskAssumption, Value, TypeOK
<1> HIDE DEF m
<1>2. ASSUME NEW n \in Nat PROVE n % m \in Value
  BY <1>1
<1>3. value[u] + m - 1 \in Nat /\ value[u] + 1 \in Nat
  BY <1>1
<1>4. (value[u] + m - 1) % m \in Value /\ (value[u] + 1) % m \in Value
  BY <1>2, <1>3
<1>7. 0 \in Value
  BY <1>1
<1>5. value[u] \in Value
  BY DEF TypeOK
<1>6. ASSUME NEW action \in Notify PROVE NotifiedValue(u, action) \subseteq Value
  <2>1. action \in {"eNoAction", "eSetBits", "eIncrement",
                    "eSetValueWithOverwrite", "eSetValueWithoutOverwrite"}
    BY TaskAssumption DEF TaskAssumption
  <2>2. (value[u] + 1) % 2^Width \in Value
    BY <1>4 DEF m
  <2> QED BY <2>1, <2>2, <1>5 DEF NotifiedValue
<1> QED BY <1>4, <1>6, <1>7 DEF m

(* The steps a task takes in its own calls keep the types.                 *)
LEMMA OwnStepType ==
  ASSUME TypeOK, NEW t \in Task,
         \/ Return(t) \/ DelayZero(t) \/ vTaskDelay(t) \/ SuspendSelf(t)
         \/ ulTaskNotifyTake(t) \/ Progress(t)
         \/ Deadline(t) \/ TimeOut(t) \/ SpuriousWake(t)
  PROVE  TypeOK'
<1> USE TaskAssumption DEF TaskAssumption, TypeOK, Actor, Running
<1>1. CASE Return(t) \/ DelayZero(t)
  BY <1>1 DEF Return, DelayZero, Exit, Leave, Goto, vars, impl, own
<1>2. CASE vTaskDelay(t) \/ SuspendSelf(t) \/ ulTaskNotifyTake(t)
  <2>1. CASE vTaskDelay(t)
    BY <2>1 DEF vTaskDelay, Goto, impl
  <2>2. CASE SuspendSelf(t)
    BY <2>2 DEF SuspendSelf, Goto
  <2>3. CASE ulTaskNotifyTake(t)
    <3>1. PICK d \in {"never", "ahead"} : deadline' = [deadline EXCEPT ![t] = d]
      BY <2>3 DEF ulTaskNotifyTake
    <3> QED BY <2>3, <3>1 DEF ulTaskNotifyTake, Goto, impl
  <2> QED BY <1>2, <2>1, <2>2, <2>3
<1>3. CASE DelayTest(t)
  BY <1>3 DEF DelayTest, Goto, impl
<1>4. CASE GateTest(t)
  BY <1>4 DEF GateTest, Exit, Leave, Goto, impl
<1>5. CASE GateLeave(t)
  BY <1>5 DEF GateLeave, Exit, Leave, Goto, impl
<1>6. CASE TakeTest(t)
  <2>1. CASE value' = value /\ pending' = pending
    BY <1>6, <2>1 DEF TakeTest, Leave, Goto
  <2>2. ASSUME NEW v \in Value, value' = [value EXCEPT ![t] = v],
               pending' = [pending EXCEPT ![t] = v > 0], Leave(t)
        PROVE  TypeOK'
    <3>1. (v > 0) \in BOOLEAN
      OBVIOUS
    <3> QED BY <1>6, <2>2, <3>1 DEF TakeTest, Leave, Goto
  <2> QED BY <1>6, <2>1, <2>2, ValueClosed DEF TakeTest
<1>7. CASE Sleep(t) \/ Deadline(t) \/ TimeOut(t) \/ SpuriousWake(t)
  BY <1>7 DEF Sleep, Deadline, TimeOut, SpuriousWake, Goto, impl
<1> QED BY <1>1, <1>2, <1>3, <1>4, <1>5, <1>6, <1>7 DEF Progress

(* So do the steps of the calls about some task.                           *)
LEMMA CalleeType ==
  ASSUME TypeOK, NEW a \in Actor,
         NotifyAll(a) \/ NotifyTask(a) \/ Join(a)
  PROVE  TypeOK'
<1> USE TaskAssumption DEF TaskAssumption, TypeOK, Actor
<1>1. target[a] \in Task /\ target[a] # Nobody
  BY DEF NotifyAll, NotifyTask, Join
<1>2. CASE NotifyAll(a)
  BY <1>1, <1>2 DEF NotifyAll, EndCallNotifying, impl
<1>3. CASE NotifyTask(a)
  <2>1. CASE in[a] = "deleting"
    BY <1>1, <1>3, <2>1 DEF NotifyTask, EndCallNotifying, impl
  <2>2. CASE in[a] # "deleting"
    BY <1>1, <1>3, <2>2 DEF NotifyTask, EndCallNotifying, impl
  <2> QED BY <2>1, <2>2
<1>4. CASE Join(a)
  BY <1>1, <1>4 DEF Join, BeginCall
<1> QED BY <1>2, <1>3, <1>4

(* And the calls somebody begins about a task.                             *)
LEMMA CallerType ==
  ASSUME TypeOK, NEW a \in Actor, NEW u \in Task,
         \/ xTaskCreate(a, u) \/ xTaskNotify(a, u)
         \/ vTaskSuspend(a, u) \/ vTaskResume(a, u) \/ vTaskDelete(a, u)
  PROVE  TypeOK'
<1> USE TaskAssumption DEF TaskAssumption, TypeOK, Actor, Running
<1>1. CASE xTaskCreate(a, u)
  BY <1>1, ValueClosed DEF xTaskCreate, own
<1>2. CASE xTaskNotify(a, u)
  <2>1. CASE UNCHANGED <<value, pending, in, target>>
    BY <1>2, <2>1 DEF xTaskNotify
  <2>2. ASSUME NEW v \in Value, value' = [value EXCEPT ![u] = v],
               pending' = [pending EXCEPT ![u] = TRUE], BeginCall(a, "notifying", u)
        PROVE  TypeOK'
    BY <1>2, <2>2 DEF xTaskNotify, BeginCall
  <2> QED BY <1>2, <2>1, <2>2, ValueClosed DEF xTaskNotify
<1>3. CASE vTaskSuspend(a, u)
  BY <1>3 DEF vTaskSuspend, BeginCall
<1>4. CASE vTaskResume(a, u)
  BY <1>4 DEF vTaskResume, BeginCall
<1>5. CASE vTaskDelete(a, u)
  BY <1>5 DEF vTaskDelete, BeginCall
<1> QED BY <1>1, <1>2, <1>3, <1>4, <1>5

(* The type invariant is inductive.                                        *)
LEMMA TypeStep == TypeOK /\ [Next]_vars => TypeOK'
<1> SUFFICES ASSUME TypeOK, [Next]_vars PROVE TypeOK'
  OBVIOUS
<1>1. CASE UNCHANGED vars
  BY <1>1 DEF vars, impl, own, TypeOK
<1> QED BY <1>1, OwnStepType, CalleeType, CallerType DEF Next

(* Every field keeps its type, a task is in a wait exactly when it is in a *)
(* call that waits, and no thread runs that has been joined.               *)
THEOREM TypeCorrect == Spec => []TypeOK
<1>1. Init => TypeOK
  BY TaskAssumption DEF TaskAssumption, Init, TypeOK, Value, Actor
<1> QED BY <1>1, TypeStep, PTL DEF Spec

-----------------------------------------------------------------------------
OwnStep(t) ==
  \/ Return(t) \/ DelayZero(t) \/ vTaskDelay(t) \/ SuspendSelf(t)
  \/ ulTaskNotifyTake(t) \/ Progress(t)
  \/ Deadline(t) \/ TimeOut(t) \/ SpuriousWake(t)

(* A step of t in its own calls leaves the other tasks and everybody's     *)
(* targets alone and frees nobody.                                         *)
LEMMA OwnStepFrame ==
  ASSUME TypeOK, NEW t \in Task, OwnStep(t)
  PROVE  /\ target' = target /\ parked' = parked /\ cancel' = cancel
         /\ in[t] \in {"none", "delay", "take", "gate"}
         /\ in'[t] \in {"none", "delay", "take", "gate"}
         /\ \A a \in Actor \ {t} : in'[a] = in[a]
         /\ \A x \in Task \ {t} : /\ at'[x] = at[x] /\ suspended'[x] = suspended[x]
                                  /\ pending'[x] = pending[x]
         /\ \A x \in Task : life'[x] = "none" <=> life[x] = "none"
<1> USE DEF TypeOK, Actor, Running
<1>1. CASE Return(t) \/ DelayZero(t)
  BY <1>1 DEF Return, DelayZero, Exit, Leave, Goto, vars, impl, own
<1>2. CASE vTaskDelay(t)
  BY <1>2 DEF vTaskDelay, Goto, impl
<1>3. CASE SuspendSelf(t)
  BY <1>3 DEF SuspendSelf, Goto
<1>4. CASE ulTaskNotifyTake(t)
  BY <1>4 DEF ulTaskNotifyTake, Goto, impl
<1>5. CASE DelayTest(t)
  BY <1>5 DEF DelayTest, Goto, impl
<1>6. CASE GateTest(t) \/ GateLeave(t)
  BY <1>6 DEF GateTest, GateLeave, Exit, Leave, Goto, impl
<1>7. CASE TakeTest(t)
  BY <1>7 DEF TakeTest, Leave, Goto
<1>8. CASE Sleep(t) \/ Deadline(t) \/ TimeOut(t) \/ SpuriousWake(t)
  BY <1>8 DEF Sleep, Deadline, TimeOut, SpuriousWake, Goto, impl
<1> QED BY <1>1, <1>2, <1>3, <1>4, <1>5, <1>6, <1>7, <1>8 DEF OwnStep, Progress

(* A task is cancelled as long as vTaskDelete is at work on it.            *)
LEMMA DeletionStep == TypeOK /\ Deletion /\ [Next]_vars => Deletion'
<1> SUFFICES ASSUME TypeOK, Deletion, [Next]_vars PROVE Deletion'
  OBVIOUS
<1>1. ASSUME NEW t \in Task, OwnStep(t) PROVE Deletion'
  BY <1>1, OwnStepFrame, TaskAssumption DEF TaskAssumption, TypeOK, Deletion, Actor
<1> USE TaskAssumption DEF TaskAssumption, TypeOK, Deletion, Actor, Running
<1>2. ASSUME NEW a \in Actor, NotifyAll(a) PROVE Deletion'
  BY <1>2 DEF NotifyAll, EndCallNotifying, impl
<1>3. ASSUME NEW a \in Actor, NotifyTask(a) PROVE Deletion'
  <2>1. CASE in[a] = "deleting"
    BY <1>3, <2>1 DEF NotifyTask, EndCallNotifying, impl
  <2>2. CASE in[a] # "deleting"
    BY <1>3, <2>2 DEF NotifyTask, EndCallNotifying, impl
  <2> QED BY <2>1, <2>2
<1>4. ASSUME NEW a \in Actor, Join(a) PROVE Deletion'
  BY <1>4 DEF Join, BeginCall
<1>5. ASSUME NEW a \in Actor, NEW u \in Task, xTaskCreate(a, u) PROVE Deletion'
  BY <1>5 DEF xTaskCreate, own
<1>6. ASSUME NEW a \in Actor, NEW u \in Task, xTaskNotify(a, u) PROVE Deletion'
  BY <1>6 DEF xTaskNotify, Usable, BeginCall
<1>7. ASSUME NEW a \in Actor, NEW u \in Task, vTaskSuspend(a, u) PROVE Deletion'
  BY <1>7 DEF vTaskSuspend, Usable, BeginCall
<1>8. ASSUME NEW a \in Actor, NEW u \in Task, vTaskResume(a, u) PROVE Deletion'
  BY <1>8 DEF vTaskResume, Usable, BeginCall
<1>9. ASSUME NEW a \in Actor, NEW u \in Task, vTaskDelete(a, u) PROVE Deletion'
  BY <1>9 DEF vTaskDelete, BeginCall
<1>10. CASE UNCHANGED vars
  BY <1>10 DEF vars, impl, own
<1> QED BY <1>1, <1>2, <1>3, <1>4, <1>5, <1>6, <1>7, <1>8, <1>9, <1>10
        DEF Next, OwnStep

(* A parked task stays suspended until it is resumed or freed, so it finds *)
(* the gate closed; who parks it holds its mutex and cannot meet it on its *)
(* way out.                                                                *)
LEMMA ParkingStep == TypeOK /\ Deletion /\ Parking /\ [Next]_vars => Parking'
<1> SUFFICES ASSUME TypeOK, Deletion, Parking, [Next]_vars PROVE Parking'
  OBVIOUS
<1> USE TaskAssumption DEF TaskAssumption, TypeOK, Parking, Actor, Running
<1>1. ASSUME NEW t \in Task, OwnStep(t) PROVE Parking'
  <2>1. \A x \in Task \ {t} : at'[x] = at[x] /\ suspended'[x] = suspended[x]
    BY <1>1, OwnStepFrame
  <2>2. parked' = parked /\ \A x \in Task : life'[x] = "none" <=> life[x] = "none"
    BY <1>1, OwnStepFrame
  <2>3. t \in parked => suspended'[t] /\ at'[t] # "leaving"
    BY <1>1 DEF OwnStep, Return, DelayZero, vTaskDelay, SuspendSelf, ulTaskNotifyTake,
           Progress, DelayTest, GateTest, GateLeave, TakeTest, Sleep, Deadline,
           TimeOut, SpuriousWake, Exit, Leave, Goto, vars, impl, own
  <2> QED BY <2>1, <2>2, <2>3
<1>2. ASSUME NEW a \in Actor, NotifyAll(a) PROVE Parking'
  BY <1>2 DEF NotifyAll, EndCallNotifying, impl
<1>3. ASSUME NEW a \in Actor, NotifyTask(a) PROVE Parking'
  BY <1>3 DEF NotifyTask, EndCallNotifying, Locked, Deletion, impl
<1>4. ASSUME NEW a \in Actor, Join(a) PROVE Parking'
  BY <1>4 DEF Join, BeginCall
<1>5. ASSUME NEW a \in Actor, NEW u \in Task, xTaskCreate(a, u) PROVE Parking'
  BY <1>5 DEF xTaskCreate, own
<1>6. ASSUME NEW a \in Actor, NEW u \in Task, xTaskNotify(a, u) PROVE Parking'
  BY <1>6 DEF xTaskNotify
<1>7. ASSUME NEW a \in Actor, NEW u \in Task,
             vTaskSuspend(a, u) \/ vTaskResume(a, u) \/ vTaskDelete(a, u)
      PROVE  Parking'
  BY <1>7 DEF vTaskSuspend, vTaskResume, vTaskDelete
<1>8. CASE UNCHANGED vars
  BY <1>8 DEF vars, impl, own
<1> QED BY <1>1, <1>2, <1>3, <1>4, <1>5, <1>6, <1>7, <1>8 DEF Next, OwnStep

(* Lost wake-ups.  A task arms itself only when its predicate is false;    *)
(* every store that makes it true is followed by a notification, and a     *)
(* notification that needs the mutex waits until the armed task sleeps.    *)
LEMMA WakeupStep ==
  TypeOK /\ NoLostWakeup /\ ArmedTake /\ Deletion /\ [Next]_vars
    => NoLostWakeup' /\ ArmedTake'
<1> SUFFICES ASSUME TypeOK, NoLostWakeup, ArmedTake, Deletion, [Next]_vars
             PROVE  NoLostWakeup' /\ ArmedTake'
  OBVIOUS
<1> USE TaskAssumption
    DEF TaskAssumption, TypeOK, NoLostWakeup, ArmedTake, Wakes, Actor, Running
<1>1. ASSUME NEW t \in Task, OwnStep(t) PROVE NoLostWakeup' /\ ArmedTake'
  <2> DEFINE Same == /\ in'[t] = in[t] /\ pending'[t] = pending[t]
                    /\ suspended'[t] = suspended[t]
  <2>1. /\ target' = target /\ cancel' = cancel
        /\ in[t] \in {"none", "delay", "take", "gate"}
        /\ \A a \in Actor \ {t} : in'[a] = in[a]
        /\ target[t] = Nobody
        /\ \A x \in Task \ {t} : /\ at'[x] = at[x] /\ suspended'[x] = suspended[x]
                                 /\ pending'[x] = pending[x]
    BY <1>1, OwnStepFrame
  <2>2. /\ at'[t] = "armed" => (at[t] = "armed" /\ Same) \/ ~Wakes(t)'
        /\ at'[t] = "asleep" => at[t] \in {"armed", "asleep"} /\ Same
    <3>1. CASE Return(t) \/ DelayZero(t) \/ vTaskDelay(t)
      BY <3>1 DEF Return, DelayZero, vTaskDelay, Exit, Leave, Goto, vars, impl, own
    <3>2. CASE SuspendSelf(t) \/ ulTaskNotifyTake(t)
      BY <3>2 DEF SuspendSelf, ulTaskNotifyTake, Goto
    <3>3. CASE DelayTest(t)
      BY <3>3 DEF DelayTest, Goto, impl
    <3>4. CASE GateTest(t) \/ GateLeave(t)
      BY <3>4 DEF GateTest, GateLeave, Exit, Leave, Goto, impl
    <3>5. CASE TakeTest(t)
      BY <3>5 DEF TakeTest, Leave, Goto
    <3>6. CASE Sleep(t) \/ Deadline(t) \/ TimeOut(t) \/ SpuriousWake(t)
      BY <3>6 DEF Sleep, Deadline, TimeOut, SpuriousWake, Goto, impl
    <3> QED BY <1>1, <3>1, <3>2, <3>3, <3>4, <3>5, <3>6 DEF OwnStep, Progress
  <2>3. \A x \in Task, a \in Actor :
          target[a] = x => target'[a] = x /\ in'[a] = in[a]
    BY <2>1
  <2>4. \A x \in Task \ {t} : in'[x] = in[x] /\ (Wakes(x)' <=> Wakes(x))
    BY <2>1
  <2>5. ASSUME NEW x \in Task
        PROVE  /\ Wakes(x)' /\ at'[x] = "asleep" =>
                    \E a \in Actor : target'[a] = x /\ in'[a] # "joining"
               /\ Wakes(x)' /\ at'[x] = "armed" =>
                    \E a \in Actor : target'[a] = x /\ in'[a] \notin {"notifying", "joining"}
               /\ at'[x] = "armed" /\ in'[x] = "take" => ~pending'[x]
    <3>1. CASE x = t
      BY <2>1, <2>2, <2>3, <3>1
    <3>2. CASE x # t
      BY <2>1, <2>3, <2>4, <3>2
    <3> QED BY <3>1, <3>2
  <2> QED BY <2>5
<1>2. ASSUME NEW a \in Actor, NotifyAll(a) \/ NotifyTask(a)
      PROVE  NoLostWakeup' /\ ArmedTake'
  <2>1. PICK u \in Task : u = target[a] /\ target[a] # Nobody
    BY <1>2 DEF NotifyAll, NotifyTask
  <2>2. in[a] = "notifying" \/ at[u] # "armed"
    BY <1>2, <2>1 DEF NotifyAll, NotifyTask, Locked
  <2>3. /\ cancel' = cancel /\ suspended' = suspended /\ pending' = pending
        /\ \A b \in Actor \ {a} : in'[b] = in[b] /\ target'[b] = target[b]
        /\ at'[u] = IF at[u] = "asleep" THEN "enter" ELSE at[u]
        /\ \A x \in Task \ {u} : at'[x] = at[x]
    BY <1>2, <2>1 DEF NotifyAll, NotifyTask, EndCallNotifying, impl
  <2>4. a \in Task => at[a] = "out" /\ at'[a] = "out"
    BY <1>2, <2>1, <2>3 DEF NotifyAll, NotifyTask
  <2>5. ASSUME NEW x \in Task
        PROVE  /\ Wakes(x)' /\ at'[x] = "asleep" =>
                    \E b \in Actor : target'[b] = x /\ in'[b] # "joining"
               /\ Wakes(x)' /\ at'[x] = "armed" =>
                    \E b \in Actor : target'[b] = x /\ in'[b] \notin {"notifying", "joining"}
               /\ at'[x] = "armed" /\ in'[x] = "take" => ~pending'[x]
    <3>1. CASE x = a
      BY <2>4, <3>1
    <3>2. CASE x # a /\ x = u
      BY <2>2, <2>3, <3>2
    <3>3. CASE x # a /\ x # u
      BY <2>1, <2>3, <3>3
    <3> QED BY <3>1, <3>2, <3>3
  <2> QED BY <2>5
<1>3. ASSUME NEW a \in Actor, Join(a) PROVE NoLostWakeup' /\ ArmedTake'
  BY <1>3 DEF Join, BeginCall
<1>4. ASSUME NEW a \in Actor, NEW u \in Task, xTaskCreate(a, u)
      PROVE  NoLostWakeup' /\ ArmedTake'
  BY <1>4 DEF xTaskCreate, own
<1>5. ASSUME NEW a \in Actor, NEW u \in Task, xTaskNotify(a, u)
      PROVE  NoLostWakeup' /\ ArmedTake'
  BY <1>5 DEF xTaskNotify, Locked, BeginCall
<1>6. ASSUME NEW a \in Actor, NEW u \in Task, vTaskSuspend(a, u)
      PROVE  NoLostWakeup' /\ ArmedTake'
  BY <1>6 DEF vTaskSuspend, BeginCall
<1>7. ASSUME NEW a \in Actor, NEW u \in Task, vTaskResume(a, u)
      PROVE  NoLostWakeup' /\ ArmedTake'
  BY <1>7 DEF vTaskResume, BeginCall
<1>8. ASSUME NEW a \in Actor, NEW u \in Task, vTaskDelete(a, u)
      PROVE  NoLostWakeup' /\ ArmedTake'
  BY <1>8 DEF vTaskDelete, BeginCall
<1>9. CASE UNCHANGED vars
  BY <1>9 DEF vars, impl, own
<1> QED BY <1>1, <1>2, <1>3, <1>4, <1>5, <1>6, <1>7, <1>8, <1>9 DEF Next, OwnStep

(* The inductive invariant: types, wake-ups, and what is known of a task   *)
(* that is armed, being deleted or parked.                                 *)
THEOREM Invariant == Spec => []TaskInv
<1>1. Init => TaskInv
  <2>1. Init => TypeOK
    BY TaskAssumption DEF TaskAssumption, Init, TypeOK, Value, Actor
  <2>2. Init => NoLostWakeup /\ ArmedTake /\ Deletion /\ Parking
    BY TaskAssumption
       DEF TaskAssumption, Init, NoLostWakeup, ArmedTake, Deletion, Parking, Actor
  <2> QED BY <2>1, <2>2 DEF TaskInv
<1>2. TaskInv /\ [Next]_vars => TaskInv'
  BY TypeStep, DeletionStep, ParkingStep, WakeupStep DEF TaskInv
<1> QED BY <1>1, <1>2, PTL DEF Spec

(* However suspends, resumes, deletes, notifications and time-outs fall    *)
(* between a task's test and its sleep, no task sleeps through the wake-up *)
(* it waits for.                                                           *)
THEOREM WakeupsArrive == Spec => []NoLostWakeup
BY Invariant, PTL DEF TaskInv

(* Once vTaskSuspend has returned, its task does not come back from        *)
(* vTaskDelay before a resume; once vTaskDelete waits to join it, never.   *)
THEOREM StopsAreEffective == Spec => StopIsEffective
<1>1. TaskInv /\ [Next]_vars =>
        [\A t \in Task :
           (in[t] \in {"delay", "gate"} /\ in'[t] = "none" /\ life'[t] = "alive")
             => /\ t \notin parked
                /\ \A a \in Actor : target[a] = t => in[a] # "joining"]_vars
  <2> SUFFICES ASSUME TaskInv, [Next]_vars, NEW x \in Task,
                      in[x] \in {"delay", "gate"}, in'[x] = "none", life'[x] = "alive"
               PROVE  /\ x \notin parked
                      /\ \A a \in Actor : target[a] = x => in[a] # "joining"
    OBVIOUS
  <2> USE TaskAssumption DEF TaskAssumption, TaskInv, TypeOK, Actor, Running
  <2>1. GateLeave(x) /\ ~cancel[x]
    <3>1. ASSUME NEW t \in Task, OwnStep(t), t # x PROVE FALSE
      BY <3>1, OwnStepFrame
    <3>2. CASE OwnStep(x)
      BY <3>2 DEF OwnStep, Return, DelayZero, vTaskDelay, SuspendSelf,
           ulTaskNotifyTake, Progress, DelayTest, GateTest, GateLeave, TakeTest,
           Sleep, Deadline, TimeOut, SpuriousWake, Exit, Leave, Goto, vars, impl, own
    <3>3. ASSUME NEW a \in Actor, NotifyAll(a) \/ NotifyTask(a) \/ Join(a) PROVE FALSE
      BY <3>3 DEF NotifyAll, NotifyTask, Join, EndCallNotifying, BeginCall
    <3>4. ASSUME NEW a \in Actor, NEW u \in Task,
                 \/ xTaskCreate(a, u) \/ xTaskNotify(a, u)
                 \/ vTaskSuspend(a, u) \/ vTaskResume(a, u) \/ vTaskDelete(a, u)
          PROVE  FALSE
      BY <3>4 DEF xTaskCreate, xTaskNotify, vTaskSuspend, vTaskResume, vTaskDelete,
                  BeginCall, own
    <3>5. CASE UNCHANGED vars
      BY <3>5 DEF vars, own
    <3> QED BY <3>1, <3>2, <3>3, <3>4, <3>5 DEF Next, OwnStep
  <2>2. x \notin parked
    BY <2>1 DEF GateLeave, Parking
  <2>3. \A a \in Actor : target[a] = x => in[a] # "joining"
    BY <2>1 DEF Deletion
  <2> QED BY <2>2, <2>3
<1> QED BY <1>1, Invariant, PTL DEF Spec, StopIsEffective
=============================================================================
