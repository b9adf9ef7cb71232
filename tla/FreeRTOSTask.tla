---------------------------- MODULE FreeRTOSTask ----------------------------
(***************************************************************************)
(* src/freertos/task/task.cpp: FreeRTOS tasks as std::threads, each with a *)
(* mutex, a condition variable, two atomic flags and a notification.       *)
(*                                                                         *)
(* The flags cancel and suspended are stored without the mutex, and        *)
(* xTaskNotify notifies after releasing it, so a waiter's test of its      *)
(* predicate ("enter" or "held"), the sleep that follows a failed test     *)
(* ("armed", mutex still held) and the departure after a passed one        *)
(* ("leaving", mutex still held) are separate steps, and so are a caller's *)
(* store and the notify_task that follows it.                              *)
(***************************************************************************)
EXTENDS Naturals

CONSTANTS Task,      (* the handles, one std::thread each                  *)
          Client,    (* other threads that use the API, such as main       *)
          Deleter,   (* those of them that call vTaskDelete on a handle    *)
          Call,      (* the API functions the threads use                  *)
          Notify,    (* the eNotifyActions the notifiers use               *)
          Width,     (* the bits of a notification value, 32 in the code   *)
          Nobody     (* no target                                          *)

Actor == Task \cup Client
Value == 0..(2^Width - 1)

ASSUME TaskAssumption ==
  /\ Width \in Nat /\ 2^Width \in Nat \ {0}
  /\ Task \cap Client = {}
  /\ Deleter \subseteq Actor
  /\ Nobody \notin Actor
  /\ Notify \subseteq {"eNoAction", "eSetBits", "eIncrement",
                      "eSetValueWithOverwrite", "eSetValueWithoutOverwrite"}

VARIABLES
  life,       (* "none", "alive" while the thread runs, "exited" until     *)
              (* vTaskDelete has joined and freed it                       *)
  cancel, suspended, value, pending,  (* the fields of TaskImpl            *)
  in,         (* the API call each actor is in                             *)
  at,         (* where a task is in a call that waits on its own cv        *)
  deadline,   (* of that wait: "never" for portMAX_DELAY, "ahead", "passed"*)
  target,     (* the task an actor's call is about                         *)
  parked      (* history: the tasks some vTaskSuspend has returned for and *)
              (* nobody has begun to resume since                          *)

own  == <<in, at, deadline, target>>
impl == <<life, cancel, suspended, value, pending>>
vars == <<impl, own, parked>>

Init ==
  /\ life = [t \in Task |-> "none"]
  /\ cancel = [t \in Task |-> FALSE]
  /\ suspended = [t \in Task |-> FALSE]
  /\ value = [t \in Task |-> 0]
  /\ pending = [t \in Task |-> FALSE]
  /\ in = [a \in Actor |-> "none"]
  /\ at = [t \in Task |-> "out"]
  /\ deadline = [t \in Task |-> "never"]
  /\ target = [a \in Actor |-> Nobody]
  /\ parked = {}

-----------------------------------------------------------------------------
(* a executes code of its own and is free to call the API.                 *)
Running(a) == in[a] = "none" /\ (a \in Task => life[a] = "alive")

(* The mutex of a task is held across steps only by the task itself.       *)
Locked(t) == at[t] \in {"held", "armed", "leaving"}

(* The predicates of the waits: of wait_for in vTaskDelay, of the wait in  *)
(* ulTaskNotifyTake, and of the suspend gate that ends vTaskDelay and is   *)
(* the body of a self-suspension.                                          *)
Wakes(t) ==
  \/ cancel[t]
  \/ in[t] = "delay" /\ suspended[t]
  \/ in[t] = "take" /\ pending[t]
  \/ in[t] = "gate" /\ ~suspended[t]

(* Others may use a handle from its creation until somebody deletes it.    *)
Usable(u) == /\ life[u] # "none"
             /\ \A b \in Actor :
                  target[b] = u => in[b] \notin {"deleting", "joining"}

BeginCall(a, call, u) ==
  /\ in' = [in EXCEPT ![a] = call]
  /\ target' = [target EXCEPT ![a] = u]

(* cv.notify_all(): only u itself ever waits on the cv of u.               *)
EndCallNotifying(a, next, u) ==
  /\ in' = [in EXCEPT ![a] = next]
  /\ target' = [target EXCEPT ![a] = IF next = "none" THEN Nobody ELSE u]
  /\ at' = [at EXCEPT ![u] = IF at[u] = "asleep" THEN "enter" ELSE at[u]]

(* t waits in call w, or moves on to it; the mutex is still to be locked   *)
(* at "enter".                                                             *)
Goto(t, w, where) ==
  /\ in' = [in EXCEPT ![t] = w]
  /\ at' = [at EXCEPT ![t] = where]

Leave(t) == /\ Goto(t, "none", "out")
            /\ deadline' = [deadline EXCEPT ![t] = "never"]

(* The body returns, or TaskExitException unwinds it and the mutex.        *)
Exit(t) ==
  /\ Leave(t)
  /\ life' = [life EXCEPT ![t] = "exited"]
  /\ UNCHANGED <<cancel, suspended, value, pending, target, parked>>

-----------------------------------------------------------------------------
xTaskCreate(a, t) ==
  /\ Running(a)
  /\ life[t] = "none"
  /\ life' = [life EXCEPT ![t] = "alive"]
  /\ cancel' = [cancel EXCEPT ![t] = FALSE]
  /\ suspended' = [suspended EXCEPT ![t] = FALSE]
  /\ value' = [value EXCEPT ![t] = 0]
  /\ pending' = [pending EXCEPT ![t] = FALSE]
  /\ UNCHANGED <<own, parked>>

(* The task function returns, or calls vTaskDelete(nullptr).               *)
Return(t) == Running(t) /\ Exit(t)

(* vTaskDelay(0) only looks at cancel; it has no suspend gate.             *)
DelayZero(t) ==
  /\ Running(t)
  /\ "vTaskDelay" \in Call
  /\ IF cancel[t] THEN Exit(t) ELSE UNCHANGED vars

vTaskDelay(t) ==
  /\ Running(t)
  /\ "vTaskDelay" \in Call
  /\ Goto(t, "delay", "enter")
  /\ deadline' = [deadline EXCEPT ![t] = "ahead"]
  /\ UNCHANGED <<impl, target, parked>>

(* wait_for returns once its predicate holds or its time is up; cancel and *)
(* the gate are looked at next, under the same lock.                       *)
DelayTest(t) ==
  /\ in[t] = "delay"
  /\ at[t] = "enter"
  /\ IF Wakes(t) \/ deadline[t] = "passed"
       THEN /\ Goto(t, "gate", "held")
            /\ deadline' = [deadline EXCEPT ![t] = "never"]
       ELSE Goto(t, "delay", "armed") /\ UNCHANGED deadline
  /\ UNCHANGED <<impl, target, parked>>

(* Mutant of GateTest: a task lets itself through although suspended.      *)
GateTestOpen(t) ==
  /\ in[t] = "gate"
  /\ at[t] \in {"enter", "held"}
  /\ IF cancel[t]
       THEN Exit(t)
       ELSE /\ Goto(t, "gate", "leaving")
            /\ UNCHANGED <<impl, deadline, target, parked>>

(* The suspend gate: a cancelled task throws, a suspended one sleeps until *)
(* it is resumed.  It has no timeout.                                      *)
GateTest(t) ==
  /\ in[t] = "gate"
  /\ at[t] \in {"enter", "held"}
  /\ IF cancel[t]
       THEN Exit(t)
       ELSE /\ Goto(t, "gate", IF suspended[t] THEN "armed" ELSE "leaving")
            /\ UNCHANGED <<impl, deadline, target, parked>>

(* cancel is looked at once more before the mutex is released.             *)
GateLeave(t) ==
  /\ in[t] = "gate"
  /\ at[t] = "leaving"
  /\ IF cancel[t]
       THEN Exit(t)
       ELSE Leave(t) /\ UNCHANGED <<impl, target, parked>>

(* A task suspends itself (nullptr or its own handle): store, then gate.   *)
SuspendSelf(t) ==
  /\ Running(t)
  /\ "vTaskSuspend" \in Call
  /\ suspended' = [suspended EXCEPT ![t] = TRUE]
  /\ Goto(t, "gate", "enter")
  /\ UNCHANGED <<life, cancel, value, pending, deadline, target, parked>>

ulTaskNotifyTake(t) ==
  /\ Running(t)
  /\ "ulTaskNotifyTake" \in Call
  /\ Goto(t, "take", "enter")
  /\ \E d \in {"never", "ahead"} : deadline' = [deadline EXCEPT ![t] = d]
  /\ UNCHANGED <<impl, target, parked>>

(* A pending notification is consumed even by a cancelled task; the        *)
(* decrement of a pending zero wraps.  Without one the call returns 0 when *)
(* cancelled or out of time, and goes to sleep otherwise.                  *)
TakeTest(t) ==
  /\ in[t] = "take"
  /\ at[t] = "enter"
  /\ \/ /\ pending[t]
        /\ \E v \in {0, (value[t] + 2^Width - 1) % 2^Width} :
             /\ value' = [value EXCEPT ![t] = v]
             /\ pending' = [pending EXCEPT ![t] = v > 0]
        /\ Leave(t)
     \/ /\ ~pending[t]
        /\ cancel[t] \/ deadline[t] = "passed"
        /\ Leave(t)
        /\ UNCHANGED <<value, pending>>
     \/ /\ ~Wakes(t)
        /\ deadline[t] # "passed"
        /\ Goto(t, "take", "armed")
        /\ UNCHANGED <<value, pending, deadline>>
  /\ UNCHANGED <<life, cancel, suspended, target, parked>>

(* The wait releases the mutex and sleeps, in one step.                    *)
Sleep(t) ==
  /\ at[t] = "armed"
  /\ Goto(t, in[t], "asleep")
  /\ UNCHANGED <<impl, deadline, target, parked>>

Deadline(t) ==
  /\ deadline[t] = "ahead"
  /\ deadline' = [deadline EXCEPT ![t] = "passed"]
  /\ UNCHANGED <<impl, in, at, target, parked>>

TimeOut(t) ==
  /\ at[t] = "asleep"
  /\ deadline[t] = "passed"
  /\ Goto(t, in[t], "enter")
  /\ UNCHANGED <<impl, deadline, target, parked>>

SpuriousWake(t) ==
  /\ at[t] = "asleep"
  /\ Goto(t, in[t], "enter")
  /\ UNCHANGED <<impl, deadline, target, parked>>

-----------------------------------------------------------------------------
(* The values one of the actions can leave behind; eSetBits can only add   *)
(* bits to those of the value.                                             *)
Bit(v, i) == (v \div 2^i) % 2
NotifiedValue(u, action) ==
  CASE action = "eNoAction"  -> {value[u]}
    [] action = "eIncrement" -> {(value[u] + 1) % 2^Width}
    [] action = "eSetBits"   -> {v \in Value : \A i \in 0..(Width - 1) :
                                                Bit(value[u], i) <= Bit(v, i)}
    [] action = "eSetValueWithOverwrite"    -> Value
    [] action = "eSetValueWithoutOverwrite" -> IF pending[u] THEN {} ELSE Value

(* xTaskNotify up to the release of the mutex.  A refused overwrite        *)
(* returns pdFALSE and notifies nobody.                                    *)
xTaskNotify(a, u) ==
  /\ Running(a)
  /\ "xTaskNotify" \in Call
  /\ Usable(u)
  /\ ~Locked(u)
  /\ \/ /\ \E action \in Notify : \E v \in NotifiedValue(u, action) :
             value' = [value EXCEPT ![u] = v]
        /\ pending' = [pending EXCEPT ![u] = TRUE]
        /\ BeginCall(a, "notifying", u)
     \/ /\ "eSetValueWithoutOverwrite" \in Notify /\ pending[u]
        /\ UNCHANGED <<value, pending, in, target>>
  /\ UNCHANGED <<life, cancel, suspended, at, deadline, parked>>

(* Mutant of NotifyAll: xTaskNotify returns without it.                    *)
NotifyNobody(a) ==
  /\ in[a] = "notifying"
  /\ BeginCall(a, "none", Nobody)
  /\ UNCHANGED <<impl, at, deadline, parked>>

(* Its notify_all, the mutex released before.                              *)
NotifyAll(a) ==
  /\ in[a] = "notifying"
  /\ EndCallNotifying(a, "none", target[a])
  /\ UNCHANGED <<impl, deadline, parked>>

(* vTaskSuspend, vTaskResume and vTaskDelete of another task: the store.   *)
vTaskSuspend(a, u) ==
  /\ Running(a)
  /\ "vTaskSuspend" \in Call
  /\ a # u /\ Usable(u)
  /\ suspended' = [suspended EXCEPT ![u] = TRUE]
  /\ BeginCall(a, "suspending", u)
  /\ UNCHANGED <<life, cancel, value, pending, at, deadline, parked>>

(* Mutant of vTaskResume: the store without the notify_task.               *)
ResumeSilently(a, u) ==
  /\ Running(a)
  /\ "vTaskResume" \in Call
  /\ Usable(u)
  /\ suspended' = [suspended EXCEPT ![u] = FALSE]
  /\ parked' = parked \ {u}
  /\ UNCHANGED <<life, cancel, value, pending, own>>

vTaskResume(a, u) ==
  /\ Running(a)
  /\ "vTaskResume" \in Call
  /\ Usable(u)
  /\ suspended' = [suspended EXCEPT ![u] = FALSE]
  /\ parked' = parked \ {u}
  /\ BeginCall(a, "resuming", u)
  /\ UNCHANGED <<life, cancel, value, pending, at, deadline>>

(* Mutant of vTaskDelete: the join without the notify_task.                *)
DeleteSilently(a, u) ==
  /\ Running(a)
  /\ a \in Deleter \ {u}
  /\ life[u] # "none"
  /\ \A b \in Actor : target[b] # u
  /\ cancel' = [cancel EXCEPT ![u] = TRUE]
  /\ BeginCall(a, "joining", u)
  /\ UNCHANGED <<life, suspended, value, pending, at, deadline, parked>>

(* Clients delete a task that nobody else is calling about.                *)
vTaskDelete(a, u) ==
  /\ Running(a)
  /\ a \in Deleter \ {u}
  /\ life[u] # "none"
  /\ \A b \in Actor : target[b] # u
  /\ cancel' = [cancel EXCEPT ![u] = TRUE]
  /\ BeginCall(a, "deleting", u)
  /\ UNCHANGED <<life, suspended, value, pending, at, deadline, parked>>

(* Mutant of NotifyTask: notify_all without taking the mutex.              *)
NotifyTaskUnlocked(a) ==
  /\ in[a] \in {"suspending", "resuming", "deleting"}
  /\ EndCallNotifying(a, IF in[a] = "deleting" THEN "joining" ELSE "none",
                      target[a])
  /\ parked' = IF in[a] = "suspending" /\ suspended[target[a]]
                 THEN parked \cup {target[a]} ELSE parked
  /\ UNCHANGED <<impl, deadline>>

(* notify_task: lock, notify_all, unlock.  The suspender and the resumer   *)
(* return, the deleter goes on to join.                                    *)
NotifyTask(a) ==
  /\ in[a] \in {"suspending", "resuming", "deleting"}
  /\ ~Locked(target[a])
  /\ EndCallNotifying(a, IF in[a] = "deleting" THEN "joining" ELSE "none",
                      target[a])
  /\ parked' = IF in[a] = "suspending" /\ suspended[target[a]]
                 THEN parked \cup {target[a]} ELSE parked
  /\ UNCHANGED <<impl, deadline>>

(* Mutant of Join: the task is freed without waiting for its thread.       *)
DetachInstead(a) ==
  /\ in[a] = "joining"
  /\ life' = [life EXCEPT ![target[a]] = "none"]
  /\ parked' = parked \ {target[a]}
  /\ BeginCall(a, "none", Nobody)
  /\ UNCHANGED <<cancel, suspended, value, pending, at, deadline>>

(* The join returns once the thread has ended, and the task is freed.      *)
Join(a) ==
  /\ in[a] = "joining"
  /\ life[target[a]] = "exited"
  /\ life' = [life EXCEPT ![target[a]] = "none"]
  /\ parked' = parked \ {target[a]}
  /\ BeginCall(a, "none", Nobody)
  /\ UNCHANGED <<cancel, suspended, value, pending, at, deadline>>

(* What carries a call that has begun towards its end.                     *)
Progress(t) == \/ DelayTest(t) \/ GateTest(t) \/ GateLeave(t)
               \/ TakeTest(t) \/ Sleep(t)

Next ==
  \/ \E t \in Task : \/ Return(t) \/ DelayZero(t) \/ vTaskDelay(t)
                     \/ SuspendSelf(t) \/ ulTaskNotifyTake(t)
                     \/ Progress(t)
                     \/ Deadline(t) \/ TimeOut(t) \/ SpuriousWake(t)
  \/ \E a \in Actor : NotifyAll(a) \/ NotifyTask(a) \/ Join(a)
  \/ \E a \in Actor, t \in Task :
       \/ xTaskCreate(a, t) \/ xTaskNotify(a, t)
       \/ vTaskSuspend(a, t) \/ vTaskResume(a, t) \/ vTaskDelete(a, t)

Spec == Init /\ [][Next]_vars

(* Threads are scheduled, time passes, and who queues for the mutex of a   *)
(* task gets it in the end, although the task takes it again and again.    *)
Fairness ==
  /\ \A t \in Task : WF_vars(Progress(t)) /\ WF_vars(Deadline(t) \/ TimeOut(t))
  /\ \A a \in Actor :
       /\ WF_vars(NotifyAll(a)) /\ WF_vars(Join(a))
       /\ SF_vars(NotifyTask(a))

FairSpec == Spec /\ Fairness

(* The bodies of the tasks are loops that pass by vTaskDelay again and     *)
(* again, as those of the tests do.                                        *)
Delaying == \A t \in Task : SF_vars(vTaskDelay(t))

DelayingSpec == FairSpec /\ Delaying

-----------------------------------------------------------------------------
TypeOK ==
  /\ life \in [Task -> {"none", "alive", "exited"}]
  /\ cancel \in [Task -> BOOLEAN]
  /\ suspended \in [Task -> BOOLEAN]
  /\ value \in [Task -> Value]
  /\ pending \in [Task -> BOOLEAN]
  /\ in \in [Actor -> {"none", "delay", "take", "gate", "notifying",
                      "suspending", "resuming", "deleting", "joining"}]
  /\ at \in [Task -> {"out", "enter", "held", "armed", "asleep", "leaving"}]
  /\ deadline \in [Task -> {"never", "ahead", "passed"}]
  /\ target \in [Actor -> Task \cup {Nobody}]
  /\ parked \in SUBSET Task
  /\ \A t \in Task :
       /\ at[t] # "out" <=> in[t] \in {"delay", "take", "gate"}
       /\ at[t] \in {"held", "leaving"} => in[t] = "gate"
       /\ deadline[t] # "never" => in[t] \in {"delay", "take"}
       /\ life[t] # "alive" => in[t] = "none"
  /\ \A a \in Actor :
       target[a] = Nobody <=>
         in[a] \in {"none", "delay", "take", "gate"}

(* No wake-up is lost: a task that sleeps although its predicate holds,    *)
(* or is about to, has a notify_all coming.  An armed task still holds its *)
(* mutex, so a notify_task comes too late to be missed; a notify_all made  *)
(* without the mutex could be.                                             *)
NoLostWakeup ==
  \A t \in Task :
    /\ Wakes(t) /\ at[t] = "asleep" =>
         \E a \in Actor : target[a] = t /\ in[a] # "joining"
    /\ Wakes(t) /\ at[t] = "armed" =>
         \E a \in Actor : target[a] = t /\ in[a] \notin {"notifying", "joining"}

(* Once vTaskSuspend has returned, and until a resume begins, the task     *)
(* does not come back from vTaskDelay(n > 0) or from suspending itself;    *)
(* once vTaskDelete has notified it, it never does.                        *)
StopIsEffective ==
  [][\A t \in Task :
       (in[t] \in {"delay", "gate"} /\ in'[t] = "none" /\ life'[t] = "alive")
         => /\ t \notin parked
            /\ \A a \in Actor : target[a] = t => in[a] # "joining"]_vars

(* A take only ever lowers the count, and leaves a notification pending    *)
(* only if part of the count remains: task.cpp:164 "still pending if count *)
(* remains".                                                               *)
PendingOnlyIfCountRemains ==
  [][\A t \in Task :
       (in[t] = "take" /\ in'[t] = "none" /\ pending'[t])
         => 0 < value'[t] /\ value'[t] < value[t]]_vars

(* A resumed task comes through the suspend gate, unless it is suspended   *)
(* again first; the gate has no timeout, so nothing else would free it.    *)
ResumeFrees ==
  \A t \in Task :
    in[t] = "gate" /\ ~suspended[t] ~> in[t] # "gate" \/ suspended[t]

(* A take that waits for ever ends once a notification is pending, even if *)
(* the task is suspended.                                                  *)
NotifyReaches ==
  \A t \in Task : in[t] = "take" /\ pending[t] ~> in[t] # "take"

(* vTaskDelete returns, whatever its task waits for, if the body of the    *)
(* task keeps calling vTaskDelay.                                          *)
DeleteReturns ==
  \A a \in Actor : in[a] = "joining" ~> in[a] = "none"
=============================================================================
