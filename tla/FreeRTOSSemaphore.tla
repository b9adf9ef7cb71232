------------------------- MODULE FreeRTOSSemaphore -------------------------
(***************************************************************************)
(* src/freertos/semaphore/semaphore.cpp: a binary semaphore or mutex built *)
(* from a std::mutex, a std::condition_variable and a bool.                *)
(*                                                                         *)
(* All of a call runs with mtx held except the time asleep in wait_until,  *)
(* so a call is one action, or two when it sleeps.  A sleeper that leaves  *)
(* the condition variable ("woken") must first get mtx back, and others    *)
(* may get it before.                                                      *)
(***************************************************************************)
EXTENDS Naturals, FiniteSets

CONSTANTS Taker,     (* the threads that call xSemaphoreTake               *)
          Giver,     (* the threads that call xSemaphoreGive               *)
          Spurious   (* whether the condition variable may wake a sleeper  *)
                     (* that nobody notified                               *)

ASSUME SemaphoreAssumption ==
  /\ IsFiniteSet(Taker)
  /\ Spurious \in BOOLEAN

VARIABLES kind,      (* "none" while the handle is nullptr, else how the   *)
                     (* semaphore was created                              *)
          available,
          pc,        (* "idle", "waiting" in wait_until, or "woken"        *)
          expired,   (* the sleepers whose deadline has passed             *)
          holders    (* the takers whose last take returned pdTRUE and who *)
                     (* have not given since                               *)

vars == <<kind, available, pc, expired, holders>>

Init ==
  /\ kind = "none"
  /\ available = FALSE
  /\ pc = [t \in Taker |-> "idle"]
  /\ expired = {}
  /\ holders = {}

Waiting == {t \in Taker : pc[t] = "waiting"}
Inside  == {t \in Taker : pc[t] # "idle"}

-----------------------------------------------------------------------------
xSemaphoreCreateBinary ==
  /\ kind = "none"
  /\ kind' = "binary"
  /\ available' = FALSE
  /\ UNCHANGED <<pc, expired, holders>>

xSemaphoreCreateMutex ==
  /\ kind = "none"
  /\ kind' = "mutex"
  /\ available' = TRUE
  /\ UNCHANGED <<pc, expired, holders>>

(* Clients delete a semaphore only while nobody is in a call on it: the    *)
(* call would go on with a destroyed mutex.                                *)
vSemaphoreDelete ==
  /\ kind # "none"
  /\ Inside = {}
  /\ kind' = "none"
  /\ available' = FALSE
  /\ holders' = {}
  /\ UNCHANGED <<pc, expired>>

(* Mutant of xSemaphoreGive: the test of available is the wrong way round, *)
(* so that the give that makes it available notifies nobody.               *)
GiveInverted(t) ==
  /\ kind # "none"
  /\ t \notin Inside
  /\ kind = "mutex" => t \in holders
  /\ available' = TRUE
  /\ holders' = holders \ {t}
  /\ \/ (~available \/ Waiting = {}) /\ UNCHANGED pc
     \/ available /\ \E u \in Waiting : pc' = [pc EXCEPT ![u] = "woken"]
  /\ UNCHANGED <<kind, expired>>

(* A mutex is given by a thread that took it; anybody gives a binary       *)
(* semaphore.  A second give before a take finds the semaphore available   *)
(* and notifies nobody.                                                    *)
xSemaphoreGive(t) ==
  /\ kind # "none"
  /\ t \notin Inside
  /\ kind = "mutex" => t \in holders
  /\ available' = TRUE
  /\ holders' = holders \ {t}
  /\ \/ (available \/ Waiting = {}) /\ UNCHANGED pc
     \/ ~available /\ \E u \in Waiting : pc' = [pc EXCEPT ![u] = "woken"]
  /\ UNCHANGED <<kind, expired>>

(* Mutant of Consume: available is left set.                               *)
ConsumeNothing(t) ==
  /\ pc' = [pc EXCEPT ![t] = "idle"]
  /\ expired' = expired \ {t}
  /\ holders' = holders \cup {t}
  /\ UNCHANGED <<kind, available>>

(* Mutant of Consume: the deadline stays armed for the next call.          *)
ConsumeKeepsDeadline(t) ==
  /\ available' = FALSE
  /\ pc' = [pc EXCEPT ![t] = "idle"]
  /\ holders' = holders \cup {t}
  /\ UNCHANGED <<kind, expired>>

(* The tail of xSemaphoreTake: available is cleared whatever it was.       *)
Consume(t) ==
  /\ available' = FALSE
  /\ pc' = [pc EXCEPT ![t] = "idle"]
  /\ expired' = expired \ {t}
  /\ holders' = holders \cup {t}
  /\ UNCHANGED kind

(* xSemaphoreTake up to its first release of mtx: the token is there, or   *)
(* xTicksToWait = 0 and the call fails, or it goes to sleep.               *)
xSemaphoreTake(t) ==
  /\ kind # "none"
  /\ t \notin Inside
  /\ \/ available /\ Consume(t)
     \/ ~available /\ UNCHANGED vars
     \/ /\ ~available
        /\ pc' = [pc EXCEPT ![t] = "waiting"]
        /\ UNCHANGED <<kind, available, expired, holders>>

(* Mutant of TimedOut: a retry with a new deadline instead of pdFALSE.     *)
TimedOutRetries(t) ==
  /\ pc[t] = "woken"
  /\ t \in expired
  /\ ~available
  /\ pc' = [pc EXCEPT ![t] = "waiting"]
  /\ expired' = expired \ {t}
  /\ UNCHANGED <<kind, available, holders>>

(* Back from wait_until with mtx held: pdFALSE on a timeout that finds the *)
(* semaphore still taken.                                                  *)
TimedOut(t) ==
  /\ pc[t] = "woken"
  /\ t \in expired
  /\ ~available
  /\ pc' = [pc EXCEPT ![t] = "idle"]
  /\ expired' = expired \ {t}
  /\ UNCHANGED <<kind, available, holders>>

(* Otherwise the call consumes and returns pdTRUE.  There is no loop: a    *)
(* return that is not a timeout is not checked against available.          *)
WakeAndConsume(t) ==
  /\ pc[t] = "woken"
  /\ t \in expired => available
  /\ Consume(t)

(* steady_clock passes the deadline of a call that went to sleep.          *)
Deadline(t) ==
  /\ t \in Inside \ expired
  /\ expired' = expired \cup {t}
  /\ UNCHANGED <<kind, available, pc, holders>>

(* wait_until stops waiting, because of the deadline or for no reason.     *)
LeaveWait(t) ==
  /\ pc[t] = "waiting"
  /\ pc' = [pc EXCEPT ![t] = "woken"]
  /\ UNCHANGED <<kind, available, expired, holders>>

TimeOut(t)      == t \in expired /\ LeaveWait(t)
SpuriousWake(t) == Spurious /\ LeaveWait(t)

Next ==
  \/ xSemaphoreCreateBinary \/ xSemaphoreCreateMutex \/ vSemaphoreDelete
  \/ \E t \in Giver : xSemaphoreGive(t)
  \/ \E t \in Taker : \/ xSemaphoreTake(t) \/ TimedOut(t) \/ WakeAndConsume(t)
                      \/ Deadline(t) \/ TimeOut(t) \/ SpuriousWake(t)

Spec == Init /\ [][Next]_vars

(* A sleeper is woken once its deadline has passed, time passes, and who   *)
(* queues for mtx gets it.  Nobody is obliged to give.                     *)
Fairness ==
  \A t \in Taker : /\ WF_vars(TimedOut(t) \/ WakeAndConsume(t))
                   /\ WF_vars(Deadline(t))
                   /\ WF_vars(TimeOut(t))

-----------------------------------------------------------------------------
TypeOK ==
  /\ kind \in {"none", "binary", "mutex"}
  /\ available \in BOOLEAN
  /\ pc \in [Taker -> {"idle", "waiting", "woken"}]
  /\ expired \in SUBSET Inside
  /\ holders \in SUBSET Taker
  /\ kind = "none" => Inside = {} /\ holders = {}

(* No give is lost although it notifies only one sleeper, and nobody at    *)
(* all when the semaphore is available already: while the semaphore can be *)
(* taken, a sleeper implies another taker on its way to take it.           *)
NoLostGive ==
  available /\ Waiting # {} => \E t \in Taker : pc[t] = "woken"

(* docs/development/freertos.md: "Mutex: starts available; Take waits if   *)
(* already taken", so two takers never hold it together.                   *)
MutualExclusion == kind = "mutex" => Cardinality(holders) <= 1

(* Every take that went to sleep returns, although nobody may ever give.   *)
TakeReturns == \A t \in Taker : pc[t] = "waiting" ~> pc[t] = "idle"

(* The abstract semaphore the code should implement, see                   *)
(* SemaphoreContention for when it does.                                   *)
BS == INSTANCE BinarySemaphore WITH
        token <- available,
        blocked <- Inside
=============================================================================
