---------------------- MODULE FreeRTOSSemaphoreProofs ----------------------
(* Theorems about FreeRTOSSemaphore, for any takers and givers and with or *)
(* without spurious wake-ups.                                              *)
EXTENDS SemaphoreContention, FiniteSetTheorems, TLAPS

(* The type invariant is inductive.                                        *)
LEMMA TypeStep == TypeOK /\ [Next]_vars => TypeOK'
<1> SUFFICES ASSUME TypeOK, [Next]_vars PROVE TypeOK'
  OBVIOUS
<1> USE DEF TypeOK, Inside
<1>1. CASE xSemaphoreCreateBinary \/ xSemaphoreCreateMutex
  BY <1>1 DEF xSemaphoreCreateBinary, xSemaphoreCreateMutex
<1>2. CASE vSemaphoreDelete
  BY <1>2 DEF vSemaphoreDelete
<1>3. ASSUME NEW t \in Giver, xSemaphoreGive(t) PROVE TypeOK'
  <2>1. CASE UNCHANGED pc
    BY <1>3, <2>1 DEF xSemaphoreGive
  <2>2. ASSUME NEW u \in Waiting, pc' = [pc EXCEPT ![u] = "woken"] PROVE TypeOK'
    <3>1. u \in Taker /\ pc[u] = "waiting"
      BY DEF Waiting
    <3> QED BY <1>3, <2>2, <3>1 DEF xSemaphoreGive
  <2> QED BY <1>3, <2>1, <2>2 DEF xSemaphoreGive
<1>4. ASSUME NEW t \in Taker, xSemaphoreTake(t) PROVE TypeOK'
  BY <1>4 DEF xSemaphoreTake, Consume, vars
<1>5. ASSUME NEW t \in Taker, TimedOut(t) PROVE TypeOK'
  BY <1>5 DEF TimedOut
<1>6. ASSUME NEW t \in Taker, WakeAndConsume(t) PROVE TypeOK'
  BY <1>6 DEF WakeAndConsume, Consume
<1>7. ASSUME NEW t \in Taker, Deadline(t) \/ TimeOut(t) \/ SpuriousWake(t)
      PROVE TypeOK'
  BY <1>7 DEF Deadline, TimeOut, SpuriousWake, LeaveWait
<1>8. CASE UNCHANGED vars
  BY <1>8 DEF vars
<1> QED BY <1>1, <1>2, <1>3, <1>4, <1>5, <1>6, <1>7, <1>8 DEF Next

(* Every variable keeps its type, and nobody is inside of a semaphore that *)
(* does not exist.                                                         *)
THEOREM TypeCorrect == Spec => []TypeOK
<1>1. Init => TypeOK
  BY DEF Init, TypeOK, Inside
<1> QED BY <1>1, TypeStep, PTL DEF Spec

(* A give that finds a sleeper wakes one, and only a take of the token     *)
(* lets the last woken taker leave.                                        *)
LEMMA NoLostGiveStep == TypeOK /\ NoLostGive /\ [Next]_vars => NoLostGive'
<1> SUFFICES ASSUME TypeOK, NoLostGive, [Next]_vars PROVE NoLostGive'
  OBVIOUS
<1> USE DEF TypeOK, NoLostGive, Waiting
<1>1. CASE xSemaphoreCreateBinary \/ xSemaphoreCreateMutex \/ vSemaphoreDelete
  BY <1>1 DEF xSemaphoreCreateBinary, xSemaphoreCreateMutex, vSemaphoreDelete, Inside
<1>2. ASSUME NEW t \in Giver, xSemaphoreGive(t) PROVE NoLostGive'
  BY <1>2 DEF xSemaphoreGive
<1>3. ASSUME NEW t \in Taker, xSemaphoreTake(t) PROVE NoLostGive'
  BY <1>3 DEF xSemaphoreTake, Consume, vars
<1>4. ASSUME NEW t \in Taker, TimedOut(t) PROVE NoLostGive'
  BY <1>4 DEF TimedOut
<1>5. ASSUME NEW t \in Taker, WakeAndConsume(t) PROVE NoLostGive'
  BY <1>5 DEF WakeAndConsume, Consume
<1>6. ASSUME NEW t \in Taker, Deadline(t) PROVE NoLostGive'
  BY <1>6 DEF Deadline
<1>7. ASSUME NEW t \in Taker, TimeOut(t) \/ SpuriousWake(t)
      PROVE NoLostGive'
  BY <1>7 DEF TimeOut, SpuriousWake, LeaveWait
<1>8. CASE UNCHANGED vars
  BY <1>8 DEF vars
<1> QED BY <1>1, <1>2, <1>3, <1>4, <1>5, <1>6, <1>7, <1>8 DEF Next

(* A semaphore that can be taken while somebody sleeps for it always has   *)
(* another taker on its way: no give is lost, however many takers there    *)
(* are and whatever wakes them.                                            *)
THEOREM GivesReachTakers == Spec => []NoLostGive
<1>1. Init => NoLostGive
  BY DEF Init, NoLostGive
<1> QED BY <1>1, TypeCorrect, NoLostGiveStep, PTL DEF Spec

-----------------------------------------------------------------------------
(* As long as nothing was contended, the only taker inside is the one that *)
(* a give or its deadline wakes, so that a give that woke it has left the  *)
(* token for it.                                                           *)
WokenByGive ==
  ~contended => /\ \A t, u \in Inside : t = u
                /\ \A t \in Inside \ expired : pc[t] = "woken" => available

LEMMA WokenByGiveStep ==
  TypeOK /\ WokenByGive /\ [HistoryNext]_<<vars, contended>> => WokenByGive'
<1> SUFFICES ASSUME TypeOK, WokenByGive, [HistoryNext]_<<vars, contended>>,
                    ~contended'
             PROVE  (/\ \A t, u \in Inside : t = u
                     /\ \A t \in Inside \ expired : pc[t] = "woken" => available)'
  BY DEF WokenByGive
<1> DEFINE Goal == (/\ \A t, u \in Inside : t = u
                    /\ \A t \in Inside \ expired : pc[t] = "woken" => available)'
<1> SUFFICES Goal
  OBVIOUS
<1>1. CASE UNCHANGED <<vars, contended>>
  BY <1>1 DEF vars, WokenByGive, Inside
<1>2. CASE HistoryNext
  <2>0. /\ ~contended
        /\ \A t \in Taker : ~SpuriousWake(t) /\ (Inside = {} \/ ~xSemaphoreTake(t))
    BY <1>2 DEF HistoryNext
  <2> USE <2>0 DEF WokenByGive, TypeOK, Inside
  <2>1. CASE xSemaphoreCreateBinary \/ xSemaphoreCreateMutex \/ vSemaphoreDelete
    BY <2>1 DEF xSemaphoreCreateBinary, xSemaphoreCreateMutex, vSemaphoreDelete
  <2>2. ASSUME NEW t \in Giver, xSemaphoreGive(t) PROVE Goal
    <3>1. Inside' = Inside /\ available' /\ expired' = expired
      BY <2>2 DEF xSemaphoreGive, Waiting
    <3> QED BY <3>1
  <2>3. ASSUME NEW t \in Taker, xSemaphoreTake(t) PROVE Goal
    <3>1. Inside = {}
      BY <2>3
    <3> QED BY <2>3, <3>1 DEF xSemaphoreTake, Consume, vars
  <2>4. ASSUME NEW t \in Taker, TimedOut(t) PROVE Goal
    BY <2>4 DEF TimedOut
  <2>5. ASSUME NEW t \in Taker, WakeAndConsume(t) PROVE Goal
    <3>1. Inside' = {}
      BY <2>5 DEF WakeAndConsume, Consume
    <3> QED BY <3>1
  <2>6. ASSUME NEW t \in Taker, Deadline(t) \/ TimeOut(t) PROVE Goal
    BY <2>6 DEF Deadline, TimeOut, LeaveWait
  <2> QED BY <1>2, <2>1, <2>2, <2>3, <2>4, <2>5, <2>6 DEF HistoryNext, Next
<1> QED BY <1>1, <1>2

(* What each step of the code is to the abstract semaphore.                *)
LEMMA TokenStep ==
  TypeOK /\ WokenByGive /\ [HistoryNext]_<<vars, contended>>
    => [contended' \/ BS!Next]_(BS!vars)
<1> SUFFICES ASSUME TypeOK, WokenByGive, [HistoryNext]_<<vars, contended>>,
                    ~contended'
             PROVE  BS!Next \/ UNCHANGED BS!vars
  OBVIOUS
<1> USE DEF BS!vars, Inside
<1>1. CASE UNCHANGED <<vars, contended>>
  BY <1>1 DEF vars
<1>2. CASE HistoryNext
  <2>0. /\ ~contended
        /\ \A t \in Taker : ~SpuriousWake(t) /\ (Inside = {} \/ ~xSemaphoreTake(t))
    BY <1>2 DEF HistoryNext
  <2> USE <2>0 DEF TypeOK, WokenByGive
  <2>1. CASE xSemaphoreCreateBinary \/ xSemaphoreCreateMutex
    <3>1. BS!Create("binary") \/ BS!Create("mutex")
      BY <2>1 DEF xSemaphoreCreateBinary, xSemaphoreCreateMutex, BS!Create
    <3> QED BY <3>1 DEF BS!Next
  <2>2. CASE vSemaphoreDelete
    <3>1. BS!Delete
      BY <2>2 DEF vSemaphoreDelete, BS!Delete
    <3> QED BY <3>1 DEF BS!Next
  <2>3. ASSUME NEW t \in Giver, xSemaphoreGive(t) PROVE BS!Next
    <3>1. Inside' = Inside
      BY <2>3 DEF xSemaphoreGive, Waiting
    <3>2. BS!Give(t)
      BY <2>3, <3>1 DEF xSemaphoreGive, BS!Give
    <3> QED BY <3>2 DEF BS!Next
  <2>4. ASSUME NEW t \in Taker, xSemaphoreTake(t) PROVE BS!Next \/ UNCHANGED BS!vars
    <3>1. CASE available /\ Consume(t)
      <4>1. BS!Grant(t)
        BY <2>4, <3>1 DEF xSemaphoreTake, Consume, BS!Grant
      <4> QED BY <4>1 DEF BS!Next
    <3>2. CASE UNCHANGED vars
      BY <3>2 DEF vars
    <3>3. CASE ~available /\ pc' = [pc EXCEPT ![t] = "waiting"]
                /\ UNCHANGED <<kind, available, expired, holders>>
      <4>1. BS!Block(t)
        BY <2>4, <3>3 DEF xSemaphoreTake, BS!Block
      <4> QED BY <4>1 DEF BS!Next
    <3> QED BY <2>4, <3>1, <3>2, <3>3 DEF xSemaphoreTake
  <2>5. ASSUME NEW t \in Taker, TimedOut(t) PROVE BS!Next
    <3>1. BS!Refuse(t)
      BY <2>5 DEF TimedOut, BS!Refuse
    <3> QED BY <3>1 DEF BS!Next
  <2>6. ASSUME NEW t \in Taker, WakeAndConsume(t) PROVE BS!Next
    <3>1. available /\ kind # "none"
      BY <2>6 DEF WakeAndConsume
    <3>2. BS!Grant(t)
      BY <2>6, <3>1 DEF WakeAndConsume, Consume, BS!Grant
    <3> QED BY <3>2 DEF BS!Next
  <2>7. ASSUME NEW t \in Taker, Deadline(t) \/ TimeOut(t) PROVE UNCHANGED BS!vars
    BY <2>7 DEF Deadline, TimeOut, LeaveWait
  <2> QED BY <1>2, <2>1, <2>2, <2>3, <2>4, <2>5, <2>6, <2>7 DEF HistoryNext, Next
<1> QED BY <1>1, <1>2

(* Until two takers wait together or one is woken for no reason, the code  *)
(* implements the abstract binary semaphore, for any number of threads:    *)
(* every pdTRUE has been paid for by a give of its own, and pdFALSE is     *)
(* returned only while there is no token.                                  *)
THEOREM TokensAreHandedOnce == HistorySpec => ImplementsBinarySemaphore
<1>1. HistoryInit => TypeOK /\ WokenByGive /\ BS!Init
  BY DEF HistoryInit, Init, TypeOK, WokenByGive, Inside, BS!Init
<1>2. TypeOK /\ [HistoryNext]_<<vars, contended>> => TypeOK'
  BY TypeStep DEF HistoryNext, vars
<1> QED BY <1>1, <1>2, WokenByGiveStep, TokenStep, PTL
        DEF HistorySpec, ImplementsBinarySemaphore

(* And until then a mutex has one holder: while it is available it has     *)
(* none, and nobody consumes what is not available.                        *)
OneHolder ==
  ~contended /\ kind = "mutex" => /\ available => holders = {}
                                 /\ \A t, u \in holders : t = u

LEMMA OneHolderStep ==
  TypeOK /\ WokenByGive /\ OneHolder /\ [HistoryNext]_<<vars, contended>> => OneHolder'
<1> SUFFICES ASSUME TypeOK, WokenByGive, OneHolder, [HistoryNext]_<<vars, contended>>,
                    ~contended', kind' = "mutex"
             PROVE  (/\ available => holders = {}
                     /\ \A t, u \in holders : t = u)'
  BY DEF OneHolder
<1> DEFINE Goal == (/\ available => holders = {}
                    /\ \A t, u \in holders : t = u)'
<1> SUFFICES Goal
  OBVIOUS
<1>1. CASE UNCHANGED <<vars, contended>>
  BY <1>1 DEF vars, OneHolder
<1>2. CASE HistoryNext
  <2>0. ~contended
    BY <1>2 DEF HistoryNext
  <2> USE <2>0 DEF OneHolder, TypeOK
  <2>1. CASE xSemaphoreCreateBinary \/ xSemaphoreCreateMutex \/ vSemaphoreDelete
    BY <2>1 DEF xSemaphoreCreateBinary, xSemaphoreCreateMutex, vSemaphoreDelete
  <2>2. ASSUME NEW t \in Giver, xSemaphoreGive(t) PROVE Goal
    BY <2>2 DEF xSemaphoreGive
  <2>3. ASSUME NEW t \in Taker, xSemaphoreTake(t) PROVE Goal
    BY <2>3 DEF xSemaphoreTake, Consume, vars
  <2>4. ASSUME NEW t \in Taker, WakeAndConsume(t) PROVE Goal
    <3>1. available
      BY <2>4 DEF WakeAndConsume, WokenByGive, Inside
    <3> QED BY <2>4, <3>1 DEF WakeAndConsume, Consume
  <2>5. ASSUME NEW t \in Taker, TimedOut(t) \/ Deadline(t) \/ TimeOut(t) \/ SpuriousWake(t)
        PROVE  Goal
    BY <2>5 DEF TimedOut, Deadline, TimeOut, SpuriousWake, LeaveWait
  <2> QED BY <1>2, <2>1, <2>2, <2>3, <2>4, <2>5 DEF HistoryNext, Next
<1> QED BY <1>1, <1>2

(* semaphore.cpp:44: takers that wait together and wake-ups for no reason  *)
(* are the only ways to two holders of one mutex.                          *)
THEOREM LoneTakersExclude == HistorySpec => [](~contended => MutualExclusion)
<1>1. HistoryInit => TypeOK /\ WokenByGive /\ OneHolder
  BY DEF HistoryInit, Init, TypeOK, WokenByGive, OneHolder, Inside
<1>2. TypeOK /\ [HistoryNext]_<<vars, contended>> => TypeOK'
  BY TypeStep DEF HistoryNext, vars
<1>3. OneHolder => (~contended => MutualExclusion)
  <2> SUFFICES ASSUME OneHolder, ~contended, kind = "mutex" PROVE Cardinality(holders) <= 1
    BY DEF MutualExclusion
  <2>1. CASE holders = {}
    BY <2>1, FS_EmptySet
  <2>2. CASE holders # {}
    <3>1. PICK t \in holders : holders = {t}
      BY <2>2 DEF OneHolder
    <3>2. Cardinality({t}) = 1
      BY FS_Singleton, Zenon
    <3> QED BY <3>1, <3>2
  <2> QED BY <2>1, <2>2
<1> QED BY <1>1, <1>2, <1>3, WokenByGiveStep, OneHolderStep, PTL DEF HistorySpec
=============================================================================
