------------------------ MODULE FreeRTOSQueueProofs ------------------------
(* Theorems about FreeRTOSQueue, for any set of threads, any items and any *)
(* lengths.                                                                *)
EXTENDS FreeRTOSQueue, SequenceTheorems, FiniteSetTheorems, TLAPS

(* The invariant the proofs rest on: types, the bound on the length, and   *)
(* that nobody is in a call on a queue that does not exist.                *)
QueueInv ==
  /\ TypeOK
  /\ WithinCapacity
  /\ capacity = 0 => \A t \in Thread : pc[t] = "idle"

(* Only a send carries an item.                                            *)
LEMMA SentItem ==
  ASSUME NEW c \in Request, c.op \in SendOp
  PROVE  c.item \in Item
BY DEF Request, SendOp, ReadOp

(* Every call is a send or a read.                                         *)
LEMMA RequestOp ==
  ASSUME NEW c \in Request
  PROVE  c.op \in SendOp \cup ReadOp
BY DEF Request

(* Finish, whomever it wakes, keeps the per-thread part of TypeOK and      *)
(* brings nobody into a call.                                              *)
LEMMA FinishType ==
  ASSUME TypeOK, NEW t \in Thread, NEW r \in BOOLEAN,
         NEW cv \in SUBSET Sleeping(SendOp \cup ReadOp),
         pc[t] \in {"entry", "woken"},
         Finish(t, r, cv)
  PROVE  /\ pc' \in [Thread -> {"idle", "entry", "waiting", "woken"}]
         /\ call' \in [Thread -> Request \cup {NoCall}]
         /\ \A u \in Thread : call'[u] = NoCall <=> pc'[u] = "idle"
         /\ expired' \in SUBSET {u \in Thread : pc'[u] \in {"waiting", "woken"}}
         /\ ret' \in [Thread -> BOOLEAN]
         /\ \A u \in Thread : pc[u] = "idle" => pc'[u] = "idle"
<1> USE NoCallAssumption DEF Finish, TypeOK, Sleeping
<1>1. CASE cv = {} /\ pc' = [pc EXCEPT ![t] = "idle"]
  BY <1>1
<1>2. CASE \E u \in cv : pc' = [pc EXCEPT ![t] = "idle", ![u] = "woken"]
  <2>1. PICK u \in cv : pc' = [pc EXCEPT ![t] = "idle", ![u] = "woken"]
    BY <1>2
  <2>2. u \in Thread /\ u # t /\ pc[u] = "waiting"
    OBVIOUS
  <2> QED BY <2>1, <2>2
<1> QED BY <1>1, <1>2

(* A process starts without a queue.                                       *)
LEMMA InitInv == Init => QueueInv
BY QueueAssumption DEF Init, QueueInv, TypeOK, WithinCapacity, uxQueueMessagesWaiting

(* One stretch of a thread that holds mtx keeps the invariant.             *)
LEMMA LockedInv ==
  ASSUME QueueInv, NEW t \in Thread, Locked(t)
  PROVE  QueueInv'
<1> USE QueueAssumption, NoCallAssumption
        DEF QueueInv, WithinCapacity, uxQueueMessagesWaiting
<1>1. /\ capacity \in Nat /\ q \in Seq(Item) /\ Len(q) \in Nat
      /\ pc[t] \in {"entry", "woken"} /\ call[t] \in Request
      /\ capacity # 0
  <2>1. pc[t] \in {"entry", "woken"}
    BY DEF Locked, HasLock, xQueueSend, xQueueSendToFront, xQueueReceive,
           xQueuePeek, GiveUp, Wait
  <2>2. call[t] \in Request
    BY <2>1 DEF TypeOK
  <2>3. capacity \in Nat /\ q \in Seq(Item) /\ Len(q) \in Nat
    BY DEF TypeOK
  <2> QED BY <2>1, <2>2, <2>3
<1>2. CASE xQueueSend(t) \/ xQueueSendToFront(t)
  <2>1. call[t].op \in SendOp
    BY <1>2 DEF xQueueSend, xQueueSendToFront, SendOp
  <2>2. call[t].item \in Item
    <3>1. call[t] \in Request
      BY <1>1
    <3> HIDE DEF QueueInv, WithinCapacity, uxQueueMessagesWaiting
    <3> QED BY <3>1, <2>1, SentItem
  <2>3. Len(q) < capacity
    <3>1. ~Blocked(t)
      BY <1>2 DEF xQueueSend, xQueueSendToFront
    <3> QED BY <3>1, <1>1, <2>1 DEF Blocked
  <2>4. q' \in Seq(Item) /\ Len(q') = Len(q) + 1
    <3>1. q' = Append(q, call[t].item) \/ q' = <<call[t].item>> \o q
      BY <1>2 DEF xQueueSend, xQueueSendToFront
    <3>2. <<call[t].item>> \in Seq(Item) /\ Len(<<call[t].item>>) = 1
      BY <2>2
    <3>3. CASE q' = Append(q, call[t].item)
      BY <3>3, <1>1, <2>2
    <3>4. CASE q' = <<call[t].item>> \o q
      BY <3>4, <3>2, <1>1, ConcatProperties
    <3> QED BY <3>1, <3>3, <3>4
  <2>5. Finish(t, TRUE, cv_not_empty) /\ UNCHANGED <<capacity, buf>>
    BY <1>2 DEF xQueueSend, xQueueSendToFront
  <2>6. cv_not_empty \in SUBSET Sleeping(SendOp \cup ReadOp)
    BY DEF cv_not_empty, Sleeping
  <2>7. Len(q') <= capacity' /\ capacity' # 0
    BY <1>1, <2>3, <2>4, <2>5
  <2>8. TypeOK'
    BY <1>1, <2>4, <2>5, <2>6, FinishType DEF TypeOK
  <2> QED BY <2>7, <2>8
<1>3. CASE xQueueReceive(t) \/ xQueuePeek(t)
  <2>1. call[t].op \in ReadOp \ SendOp
    BY <1>1, <1>3 DEF xQueueReceive, xQueuePeek, SendOp, ReadOp
  <2>2. q # << >>
    BY <1>3, <2>1 DEF xQueueReceive, xQueuePeek, Blocked
  <2>3. Head(q) \in Item /\ Tail(q) \in Seq(Item) /\ Len(Tail(q)) = Len(q) - 1
    BY <1>1, <2>2
  <2>4. q' \in Seq(Item) /\ Len(q') <= Len(q)
    <3>1. q' = Tail(q) \/ q' = q
      BY <1>3 DEF xQueueReceive, xQueuePeek
    <3> QED BY <3>1, <1>1, <2>3
  <2>5. buf' \in [Thread -> Item \cup {NoItem}]
    BY <1>3, <2>3 DEF xQueueReceive, xQueuePeek, TypeOK
  <2>6. PICK cv \in {cv_not_full, {}} : Finish(t, TRUE, cv) /\ UNCHANGED capacity
    BY <1>3 DEF xQueueReceive, xQueuePeek
  <2>7. cv \in SUBSET Sleeping(SendOp \cup ReadOp)
    BY <2>6 DEF cv_not_full, Sleeping
  <2>8. TypeOK'
    BY <1>1, <2>4, <2>5, <2>6, <2>7, FinishType DEF TypeOK
  <2>9. Len(q') <= capacity' /\ capacity' # 0
    BY <1>1, <2>4, <2>6
  <2> QED BY <2>8, <2>9
<1>4. CASE GiveUp(t)
  BY <1>1, <1>4, FinishType DEF GiveUp, TypeOK
<1>5. CASE Wait(t)
  BY <1>1, <1>5 DEF Wait, TypeOK
<1> QED BY <1>2, <1>3, <1>4, <1>5 DEF Locked

(* The invariant is inductive.                                            *)
LEMMA StepInv == QueueInv /\ [Next]_vars => QueueInv'
<1> SUFFICES ASSUME QueueInv, [Next]_vars PROVE QueueInv'
  OBVIOUS
<1> USE QueueAssumption, NoCallAssumption
        DEF QueueInv, TypeOK, WithinCapacity, uxQueueMessagesWaiting
<1>1. CASE xQueueCreate
  BY <1>1 DEF xQueueCreate
<1>2. CASE vQueueDelete
  BY <1>2 DEF vQueueDelete
<1>3. ASSUME NEW t \in Thread, Begin(t) PROVE QueueInv'
  BY <1>3 DEF Begin
<1>4. ASSUME NEW t \in Thread, RejectNull(t) PROVE QueueInv'
  BY <1>4 DEF RejectNull
<1>5. ASSUME NEW t \in Thread, Locked(t) PROVE QueueInv'
  BY <1>5, LockedInv
<1>6. ASSUME NEW t \in Thread, Deadline(t) PROVE QueueInv'
  BY <1>6 DEF Deadline
<1>7. ASSUME NEW t \in Thread, TimeOut(t) \/ SpuriousWake(t) PROVE QueueInv'
  BY <1>7 DEF TimeOut, SpuriousWake
<1>8. CASE UNCHANGED vars
  BY <1>8 DEF vars
<1> QED BY <1>1, <1>2, <1>3, <1>4, <1>5, <1>6, <1>7, <1>8 DEF Next

(* The inductive invariant: types, capacity, and no call in a queue that   *)
(* does not exist.                                                         *)
THEOREM Invariant == Spec => []QueueInv
BY InitInv, StepInv, PTL DEF Spec

(* Every variable keeps its type, a thread is outside of the API exactly   *)
(* when it has no pending call, and only sleepers have deadlines.          *)
THEOREM TypeCorrect == Spec => []TypeOK
BY Invariant, PTL DEF QueueInv

(* No interleaving of senders, receivers, time-outs and wake-ups puts more *)
(* than uxQueueLength items into a queue.                                  *)
THEOREM CapacityRespected == Spec => []WithinCapacity
BY Invariant, PTL DEF QueueInv

-----------------------------------------------------------------------------
(* Refinement.  A step that returns pdTRUE is an Accept, one that returns  *)
(* pdFALSE a Refuse, and what happens around the waits is invisible.       *)
LEMMA AcceptStep ==
  ASSUME QueueInv, NEW t \in Thread,
         \/ xQueueSend(t) \/ xQueueSendToFront(t)
         \/ xQueueReceive(t) \/ xQueuePeek(t)
  PROVE  BQ!Accept(t)
<1>1. call[t] # NoCall
  BY NoCallAssumption DEF HasLock, xQueueSend, xQueueSendToFront, xQueueReceive, xQueuePeek,
     QueueInv, TypeOK
<1>2. /\ ret' = [ret EXCEPT ![t] = TRUE]
      /\ call' = [call EXCEPT ![t] = NoCall]
      /\ UNCHANGED capacity
  BY DEF xQueueSend, xQueueSendToFront, xQueueReceive, xQueuePeek, Finish
<1>3. ~Blocked(t)
  BY DEF xQueueSend, xQueueSendToFront, xQueueReceive, xQueuePeek
<1>4. CASE xQueueSend(t) \/ xQueueSendToFront(t)
  <2>1. call[t].op \in BQ!SendOp /\ call[t].op \in SendOp
    BY <1>4 DEF xQueueSend, xQueueSendToFront, SendOp, BQ!SendOp
  <2>2. Len(q) < capacity
    BY <1>3, <2>1 DEF Blocked, QueueInv, TypeOK
  <2>3. /\ q' = IF call[t].op = "SendBack" THEN Append(q, call[t].item)
                                          ELSE <<call[t].item>> \o q
        /\ UNCHANGED buf
    BY <1>4 DEF xQueueSend, xQueueSendToFront
  <2> QED BY <1>1, <1>2, <2>1, <2>2, <2>3 DEF BQ!Accept
<1>5. CASE xQueueReceive(t) \/ xQueuePeek(t)
  <2>1. call[t].op \in BQ!ReadOp /\ call[t].op \notin SendOp
    BY <1>5 DEF xQueueReceive, xQueuePeek, SendOp, BQ!ReadOp
  <2>2. q # << >>
    BY <1>3, <2>1 DEF Blocked
  <2>3. /\ q' = IF call[t].op = "Receive" THEN Tail(q) ELSE q
        /\ buf' = [buf EXCEPT ![t] = Head(q)]
    BY <1>5 DEF xQueueReceive, xQueuePeek
  <2> QED BY <1>1, <1>2, <2>1, <2>2, <2>3 DEF BQ!Accept
<1> QED BY <1>4, <1>5

LEMMA RefuseStep ==
  ASSUME QueueInv, NEW t \in Thread, GiveUp(t)
  PROVE  BQ!Refuse(t)
<1>1. call[t] \in Request
  BY DEF GiveUp, QueueInv, TypeOK
<1>2. \/ call[t].op \in SendOp
      \/ call[t].op \in BQ!ReadOp /\ call[t].op \notin SendOp
  BY <1>1, RequestOp, SMT DEF SendOp, ReadOp, BQ!ReadOp
<1>3. /\ call[t] # NoCall
      /\ ret' = [ret EXCEPT ![t] = FALSE]
      /\ call' = [call EXCEPT ![t] = NoCall]
      /\ UNCHANGED <<capacity, q, buf>>
  BY <1>1, NoCallAssumption DEF GiveUp, Finish
<1>4. IF call[t].op \in SendOp THEN Len(q) >= capacity ELSE q = << >>
  BY DEF GiveUp, Blocked
<1> QED BY <1>2, <1>3, <1>4 DEF BQ!Refuse, BQ!SendOp, SendOp

(* Both specifications know the same calls.                                *)
LEMMA SameRequest == Request = BQ!Request
BY DEF Request, BQ!Request, SendOp, ReadOp, BQ!SendOp, BQ!ReadOp

(* Every step of the code is a step of the deque or invisible to it.       *)
LEMMA StepSimulation == QueueInv /\ [Next]_vars => [BQ!Next]_(BQ!vars)
<1> SUFFICES ASSUME QueueInv, [Next]_vars PROVE [BQ!Next]_(BQ!vars)
  OBVIOUS
<1>1. CASE xQueueCreate
  BY <1>1 DEF xQueueCreate, BQ!Create, BQ!Next
<1>2. CASE vQueueDelete
  BY <1>2 DEF vQueueDelete, BQ!Delete, BQ!Quiet, BQ!Next, QueueInv, TypeOK
<1>3. ASSUME NEW t \in Thread, Begin(t) PROVE BQ!Next
  <2>1. call[t] = NoCall
    BY <1>3 DEF Begin, QueueInv, TypeOK
  <2>2. BQ!Begin(t)
    BY <1>3, <2>1, SameRequest DEF Begin, BQ!Begin
  <2> QED BY <2>2 DEF BQ!Next
<1>4. ASSUME NEW t \in Thread, RejectNull(t) PROVE BQ!Next
  BY <1>4 DEF RejectNull, BQ!Reject, BQ!Next, QueueInv, TypeOK
<1>5. ASSUME NEW t \in Thread, Locked(t) PROVE [BQ!Next]_(BQ!vars)
  <2>1. CASE Wait(t)
    BY <2>1 DEF Wait, BQ!vars
  <2>2. CASE GiveUp(t)
    BY <2>2, RefuseStep DEF BQ!Next
  <2>3. CASE ~Wait(t) /\ ~GiveUp(t)
    BY <1>5, <2>3, AcceptStep DEF Locked, BQ!Next
  <2> QED BY <2>1, <2>2, <2>3
<1>6. ASSUME NEW t \in Thread, Deadline(t) \/ TimeOut(t) \/ SpuriousWake(t)
      PROVE  UNCHANGED BQ!vars
  BY <1>6 DEF Deadline, TimeOut, SpuriousWake, BQ!vars
<1>7. CASE UNCHANGED vars
  BY <1>7 DEF vars, BQ!vars
<1> QED BY <1>1, <1>2, <1>3, <1>4, <1>5, <1>6, <1>7 DEF Next, BQ!Next

(* The queue with its mutex and two condition variables implements the     *)
(* atomic bounded deque: every call takes effect at one instant between    *)
(* call and return, and is refused only by a full or an empty queue.       *)
THEOREM Refinement == Spec => ImplementsBoundedQueue
<1>1. Init => BQ!Init
  BY DEF Init, BQ!Init
<1> QED BY <1>1, Invariant, StepSimulation, PTL DEF Spec, BQ!Spec, ImplementsBoundedQueue

-----------------------------------------------------------------------------
(* No stranded sender.  The woken senders are counted; the two steps that  *)
(* matter are a receive, which frees a slot and wakes a sleeper, and a     *)
(* woken sender's return, which takes a slot or finds none.                *)
LEMMA WokenFinite ==
  ASSUME NEW ops
  PROVE  IsFiniteSet(Woken(ops)) /\ Cardinality(Woken(ops)) \in Nat
<1>1. IsFiniteSet(Woken(ops))
  BY QueueAssumption, FS_Subset DEF QueueAssumption, Woken
<1> QED BY <1>1, FS_CardinalityType

(* As long as the senders who sleep do not change their minds and no woken *)
(* one leaves, the count can only grow.                                    *)
LEMMA MoreWoken ==
  ASSUME Woken(SendOp) \subseteq Woken(SendOp)'
  PROVE  Cardinality(Woken(SendOp)) <= Cardinality(Woken(SendOp)')
<1>1. IsFiniteSet(Woken(SendOp)')
  <2>1. Woken(SendOp)' \subseteq Thread
    BY DEF Woken
  <2> QED BY <2>1, QueueAssumption, FS_Subset DEF QueueAssumption
<1> QED BY <1>1, FS_Subset

(* What a thread does while it holds mtx strands no sender.                *)
LEMMA StrandedLocked ==
  ASSUME QueueInv, NoStrandedSender, NEW t \in Thread, Locked(t)
  PROVE  NoStrandedSender'
<1> DEFINE W == Woken(SendOp)
<1>1. /\ capacity \in Nat /\ q \in Seq(Item) /\ Len(q) \in Nat
      /\ Cardinality(W) \in Nat /\ Cardinality(W') \in Nat /\ IsFiniteSet(W)
  <2>1. IsFiniteSet(W') /\ Cardinality(W') \in Nat
    <3>1. W' \subseteq Thread
      BY DEF Woken
    <3> QED BY <3>1, QueueAssumption, FS_Subset, FS_CardinalityType DEF QueueAssumption
  <2> QED BY <2>1, WokenFinite, QueueAssumption DEF QueueAssumption, QueueInv, TypeOK
<1>2. SUFFICES ASSUME cv_not_full' # {}
               PROVE  capacity' <= Len(q') + Cardinality(W')
  BY DEF NoStrandedSender
<1>3. CASE capacity <= Len(q) /\ UNCHANGED <<capacity, q>>
  BY <1>1, <1>3
<1>4. CASE xQueueSend(t) \/ xQueueSendToFront(t)
  <2>1. call[t].op \in SendOp
    BY <1>4 DEF xQueueSend, xQueueSendToFront, SendOp
  <2>2. Finish(t, TRUE, cv_not_empty) /\ UNCHANGED capacity
    BY <1>4 DEF xQueueSend, xQueueSendToFront
  <2>3. /\ pc'[t] = "idle" /\ pc[t] # "waiting"
        /\ \A x \in Thread \ {t} :
             /\ call'[x] = call[x]
             /\ \/ pc'[x] = pc[x]
                \/ pc[x] = "waiting" /\ pc'[x] = "woken" /\ call[x].op \in ReadOp
    <3>1. pc[t] # "waiting"
      BY <1>4 DEF HasLock, xQueueSend, xQueueSendToFront
    <3>2. CASE pc' = [pc EXCEPT ![t] = "idle"]
      BY <2>2, <3>1, <3>2 DEF Finish, QueueInv, TypeOK
    <3>3. ASSUME NEW u \in cv_not_empty, pc' = [pc EXCEPT ![t] = "idle", ![u] = "woken"]
          PROVE  <2>3
      BY <2>2, <3>1, <3>3 DEF Finish, cv_not_empty, Sleeping, QueueInv, TypeOK
    <3> QED BY <2>2, <3>2, <3>3 DEF Finish
  <2>4. Len(q') = Len(q) + 1
    <3>1. call[t] \in Request
      BY <1>4, NoCallAssumption DEF HasLock, xQueueSend, xQueueSendToFront, QueueInv, TypeOK
    <3>2. <<call[t].item>> \in Seq(Item) /\ Len(<<call[t].item>>) = 1
      BY <3>1, <2>1, SentItem
    <3>3. CASE q' = Append(q, call[t].item)
      BY <3>3, <1>1
    <3>4. CASE q' = <<call[t].item>> \o q
      BY <3>4, <3>2, <1>1, ConcatProperties
    <3> QED BY <1>4, <3>3, <3>4 DEF xQueueSend, xQueueSendToFront
  <2>5. W' = W \ {t} /\ cv_not_full' = cv_not_full
    <3>1. \A x \in Thread : call[x].op \in ReadOp => call[x].op \notin SendOp
      BY DEF SendOp, ReadOp
    <3>2. \A x \in Thread : x \in W' <=> x \in W \ {t}
      BY <2>3, <3>1 DEF Woken
    <3>3. \A x \in Thread : x \in cv_not_full' <=> x \in cv_not_full
      BY <2>3, <3>1 DEF cv_not_full, Sleeping
    <3> QED BY <3>2, <3>3 DEF Woken, cv_not_full, Sleeping
  <2>6. Cardinality(W') >= Cardinality(W) - 1
    <3> HIDE DEF W
    <3>1. Cardinality(W \ {t}) = IF t \in W THEN Cardinality(W) - 1 ELSE Cardinality(W)
      BY <1>1, FS_RemoveElement
    <3> QED BY <2>5, <3>1, <1>1
  <2> HIDE DEF W
  <2> QED BY <1>1, <1>2, <2>2, <2>4, <2>5, <2>6 DEF NoStrandedSender, W
<1>5. CASE xQueueReceive(t)
  <2>1. Finish(t, TRUE, cv_not_full) /\ q' = Tail(q) /\ UNCHANGED capacity
    BY <1>5 DEF xQueueReceive
  <2>2. q # << >>
    BY <1>5 DEF xQueueReceive, Blocked, SendOp
  <2>3. Len(q') = Len(q) - 1
    BY <1>1, <2>1, <2>2
  <2>4. pc[t] # "waiting" /\ t \notin W
    BY <1>5 DEF xQueueReceive, HasLock, Woken, SendOp
  <2>5. cv_not_full # {}
    BY <1>2, <2>1, <2>4 DEF Finish, cv_not_full, Sleeping, QueueInv, TypeOK
  <2>6. PICK u \in cv_not_full : pc' = [pc EXCEPT ![t] = "idle", ![u] = "woken"]
    BY <2>1, <2>5 DEF Finish
  <2>7. u \in Thread /\ u # t /\ u \notin W /\ call[u].op \in SendOp
    BY <2>4, <2>6 DEF cv_not_full, Sleeping, Woken
  <2>8. W' = W \cup {u}
    BY <2>1, <2>4, <2>6, <2>7 DEF Finish, Woken, QueueInv, TypeOK
  <2>9. Cardinality(W') = Cardinality(W) + 1
    BY <2>7, <2>8, <1>1, FS_AddElement
  <2> HIDE DEF W
  <2> QED BY <1>1, <2>1, <2>3, <2>5, <2>9 DEF NoStrandedSender, W
<1>6. CASE (xQueuePeek(t) \/ GiveUp(t) \/ Wait(t)) /\ call[t].op \notin SendOp
  <2>1. /\ UNCHANGED <<capacity, q>>
        /\ \A x \in Thread \ {t} : pc'[x] = pc[x] /\ call'[x] = call[x]
        /\ \/ pc'[t] = "idle"
           \/ pc'[t] = "waiting" /\ call'[t] = call[t]
        /\ pc[t] # "waiting"
    <3>1. CASE Wait(t)
      BY <3>1 DEF Wait, QueueInv, TypeOK
    <3>2. CASE xQueuePeek(t) \/ GiveUp(t)
      <4>1. PICK r \in BOOLEAN : Finish(t, r, {})
        BY <3>2 DEF xQueuePeek, GiveUp
      <4>2. UNCHANGED <<capacity, q>> /\ pc[t] # "waiting"
        BY <3>2 DEF xQueuePeek, GiveUp, HasLock
      <4> QED BY <4>1, <4>2 DEF Finish, QueueInv, TypeOK
    <3> QED BY <1>6, <3>1, <3>2
  <2>2. W' = W /\ cv_not_full' = cv_not_full
    BY <1>6, <2>1 DEF Woken, cv_not_full, Sleeping
  <2> QED BY <1>2, <2>1, <2>2 DEF NoStrandedSender
<1>7. CASE (GiveUp(t) \/ Wait(t)) /\ call[t].op \in SendOp
  BY <1>1, <1>3, <1>7 DEF GiveUp, Wait, Blocked
<1>8. ~xQueuePeek(t) \/ call[t].op \notin SendOp
  BY DEF xQueuePeek, SendOp
<1> QED BY <1>4, <1>5, <1>6, <1>7, <1>8 DEF Locked

(* Nor does any other step.                                                *)
LEMMA StrandedStep ==
  ASSUME QueueInv, NoStrandedSender, [Next]_vars
  PROVE  NoStrandedSender'
<1>1. ASSUME NEW t \in Thread, Locked(t) PROVE NoStrandedSender'
  BY <1>1, StrandedLocked
<1>2. CASE xQueueCreate \/ vQueueDelete
  BY <1>2 DEF xQueueCreate, vQueueDelete, NoStrandedSender, cv_not_full, Sleeping,
              QueueInv
<1>3. ASSUME NEW t \in Thread,
             Begin(t) \/ RejectNull(t) \/ Deadline(t) \/ TimeOut(t) \/ SpuriousWake(t)
      PROVE  NoStrandedSender'
  <2>1. UNCHANGED <<capacity, q>>
    BY <1>3 DEF Begin, RejectNull, Deadline, TimeOut, SpuriousWake
  <2>2. /\ Woken(SendOp) \subseteq Woken(SendOp)'
        /\ cv_not_full' \subseteq cv_not_full
    BY <1>3 DEF Begin, RejectNull, Deadline, TimeOut, SpuriousWake, Woken,
                cv_not_full, Sleeping, QueueInv, TypeOK
  <2>3. Cardinality(Woken(SendOp)) <= Cardinality(Woken(SendOp)')
    BY <2>2, MoreWoken
  <2>4. /\ capacity \in Nat /\ Len(q) \in Nat /\ Cardinality(Woken(SendOp)) \in Nat
        /\ Cardinality(Woken(SendOp)') \in Nat
    <3>1. Woken(SendOp)' \subseteq Thread
      BY DEF Woken
    <3>2. Cardinality(Woken(SendOp)') \in Nat
      BY <3>1, QueueAssumption, FS_Subset, FS_CardinalityType DEF QueueAssumption
    <3> QED BY <3>2, WokenFinite, QueueAssumption DEF QueueAssumption, QueueInv, TypeOK
  <2> QED BY <2>1, <2>2, <2>3, <2>4 DEF NoStrandedSender
<1>4. CASE UNCHANGED vars
  BY <1>4 DEF vars, NoStrandedSender, cv_not_full, Sleeping, Woken
<1> QED BY <1>1, <1>2, <1>3, <1>4 DEF Next

(* No sender is left asleep beside a free slot that nobody has been woken  *)
(* for, although every receive notifies one sleeper only and later callers *)
(* may barge in before it.                                                 *)
THEOREM SendersServed == Spec => []NoStrandedSender
<1>1. Init => NoStrandedSender
  BY DEF Init, NoStrandedSender, cv_not_full, Sleeping
<1> QED BY <1>1, Invariant, StrandedStep, PTL DEF Spec
-----------------------------------------------------------------------------
(* No stranded receiver: the mirror image, as long as nobody peeks.  A     *)
(* send adds an item and wakes a sleeper; a woken receiver takes an item   *)
(* or finds none.                                                          *)
LEMMA OnlyReceives ==
  ASSUME "Peek" \notin Op, TypeOK, NEW t \in Thread, pc[t] # "idle"
  PROVE  call[t].op \in SendOp \/ call[t].op = "Receive"
BY NoCallAssumption DEF TypeOK, Request, ReadOp

LEMMA MoreReaders ==
  ASSUME Woken(ReadOp) \subseteq Woken(ReadOp)'
  PROVE  Cardinality(Woken(ReadOp)) <= Cardinality(Woken(ReadOp)')
<1>1. IsFiniteSet(Woken(ReadOp)')
  <2>1. Woken(ReadOp)' \subseteq Thread
    BY DEF Woken
  <2> QED BY <2>1, QueueAssumption, FS_Subset DEF QueueAssumption
<1> QED BY <1>1, FS_Subset

(* What a thread does while it holds mtx strands no receiver.              *)
LEMMA ReceiversLocked ==
  ASSUME "Peek" \notin Op, QueueInv, NoStrandedReceiver, NEW t \in Thread, Locked(t)
  PROVE  NoStrandedReceiver'
<1> DEFINE W == Woken(ReadOp)
<1>1. /\ q \in Seq(Item) /\ Len(q) \in Nat
      /\ Cardinality(W) \in Nat /\ Cardinality(W') \in Nat /\ IsFiniteSet(W)
  <2>1. IsFiniteSet(W') /\ Cardinality(W') \in Nat
    <3>1. W' \subseteq Thread
      BY DEF Woken
    <3> QED BY <3>1, QueueAssumption, FS_Subset, FS_CardinalityType DEF QueueAssumption
  <2> QED BY <2>1, WokenFinite DEF QueueInv, TypeOK
<1>2. SUFFICES ASSUME cv_not_empty' # {}
               PROVE  Len(q') <= Cardinality(W')
  BY DEF NoStrandedReceiver
<1>3. pc[t] \in {"entry", "woken"}
  BY DEF Locked, xQueueSend, xQueueSendToFront, xQueueReceive, xQueuePeek, GiveUp, Wait, HasLock
<1>4. CASE xQueueSend(t) \/ xQueueSendToFront(t)
  <2>1. call[t].op \in SendOp /\ Finish(t, TRUE, cv_not_empty)
    BY <1>4 DEF xQueueSend, xQueueSendToFront, SendOp
  <2>2. Len(q') = Len(q) + 1
    <3>1. call[t] \in Request
      BY <1>3, NoCallAssumption DEF QueueInv, TypeOK
    <3>2. <<call[t].item>> \in Seq(Item) /\ Len(<<call[t].item>>) = 1
      BY <3>1, <2>1, SentItem
    <3>3. CASE q' = Append(q, call[t].item)
      BY <3>3, <1>1
    <3>4. CASE q' = <<call[t].item>> \o q
      BY <3>4, <3>2, <1>1, ConcatProperties
    <3> QED BY <1>4, <3>3, <3>4 DEF xQueueSend, xQueueSendToFront
  <2>3. t \notin W
    BY <2>1 DEF Woken, SendOp, ReadOp
  <2>4. cv_not_empty # {}
    BY <1>2, <1>3, <2>1 DEF Finish, cv_not_empty, Sleeping, QueueInv, TypeOK
  <2>5. PICK u \in cv_not_empty : pc' = [pc EXCEPT ![t] = "idle", ![u] = "woken"]
    BY <2>1, <2>4 DEF Finish
  <2>6. u \in Thread /\ u # t /\ u \notin W /\ call[u].op \in ReadOp
    BY <1>3, <2>5 DEF cv_not_empty, Sleeping, Woken
  <2>7. W' = W \cup {u}
    BY <2>1, <2>3, <2>5, <2>6 DEF Finish, Woken, QueueInv, TypeOK
  <2>8. Cardinality(W') = Cardinality(W) + 1
    BY <2>6, <2>7, <1>1, FS_AddElement
  <2> HIDE DEF W
  <2> QED BY <1>1, <2>2, <2>4, <2>8 DEF NoStrandedReceiver, W
<1>5. CASE xQueueReceive(t)
  <2>1. /\ Finish(t, TRUE, cv_not_full) /\ q' = Tail(q) /\ q # << >>
        /\ call[t].op \in ReadOp
    BY <1>5 DEF xQueueReceive, Blocked, SendOp, ReadOp
  <2>2. Len(q') = Len(q) - 1
    BY <1>1, <2>1
  <2>3. /\ pc'[t] = "idle" /\ pc[t] # "waiting"
        /\ \A x \in Thread \ {t} :
             /\ call'[x] = call[x]
             /\ \/ pc'[x] = pc[x]
                \/ pc[x] = "waiting" /\ pc'[x] = "woken" /\ call[x].op \in SendOp
    <3>1. CASE pc' = [pc EXCEPT ![t] = "idle"]
      BY <1>3, <2>1, <3>1 DEF Finish, QueueInv, TypeOK
    <3>2. ASSUME NEW u \in cv_not_full, pc' = [pc EXCEPT ![t] = "idle", ![u] = "woken"]
          PROVE  <2>3
      BY <1>3, <2>1, <3>2 DEF Finish, cv_not_full, Sleeping, QueueInv, TypeOK
    <3> QED BY <2>1, <3>1, <3>2 DEF Finish
  <2>4. W' = W \ {t} /\ cv_not_empty' = cv_not_empty
    <3>1. \A x \in Thread : call[x].op \in ReadOp => call[x].op \notin SendOp
      BY DEF SendOp, ReadOp
    <3>2. \A x \in Thread : x \in W' <=> x \in W \ {t}
      BY <2>3, <3>1 DEF Woken
    <3>3. \A x \in Thread : x \in cv_not_empty' <=> x \in cv_not_empty
      BY <2>3, <3>1 DEF cv_not_empty, Sleeping
    <3> QED BY <3>2, <3>3 DEF Woken, cv_not_empty, Sleeping
  <2>5. Cardinality(W') >= Cardinality(W) - 1
    <3> HIDE DEF W
    <3>1. Cardinality(W \ {t}) = IF t \in W THEN Cardinality(W) - 1 ELSE Cardinality(W)
      BY <1>1, FS_RemoveElement
    <3> QED BY <2>4, <3>1, <1>1
  <2> HIDE DEF W
  <2> QED BY <1>1, <1>2, <2>2, <2>4, <2>5 DEF NoStrandedReceiver, W
<1>6. CASE (GiveUp(t) \/ Wait(t)) /\ call[t].op \in SendOp
  <2>1. /\ q' = q
        /\ \A x \in Thread \ {t} : pc'[x] = pc[x] /\ call'[x] = call[x]
        /\ \/ pc'[t] = "idle"
           \/ pc'[t] = "waiting" /\ call'[t] = call[t]
    BY <1>6 DEF Wait, GiveUp, Finish, QueueInv, TypeOK
  <2>2. call[t].op \notin ReadOp
    BY <1>6 DEF SendOp, ReadOp
  <2>3. W' = W /\ cv_not_empty' = cv_not_empty
    BY <1>3, <2>1, <2>2 DEF Woken, cv_not_empty, Sleeping
  <2> QED BY <1>2, <2>1, <2>3 DEF NoStrandedReceiver
<1>7. CASE (GiveUp(t) \/ Wait(t)) /\ call[t].op = "Receive"
  <2>1. q' = << >>
    BY <1>7 DEF GiveUp, Wait, Blocked, SendOp
  <2> QED BY <1>1, <2>1
<1>8. ~xQueuePeek(t)
  <2>1. call[t].op \in SendOp \/ call[t].op = "Receive"
    BY <1>3, OnlyReceives DEF QueueInv
  <2> QED BY <2>1 DEF xQueuePeek, SendOp
<1>9. call[t].op \in SendOp \/ call[t].op = "Receive"
  BY <1>3, OnlyReceives DEF QueueInv
<1> QED BY <1>4, <1>5, <1>6, <1>7, <1>8, <1>9 DEF Locked

(* Nor does any other step.                                                *)
LEMMA ReceiversStep ==
  ASSUME "Peek" \notin Op, QueueInv, NoStrandedReceiver, [Next]_vars
  PROVE  NoStrandedReceiver'
<1>1. ASSUME NEW t \in Thread, Locked(t) PROVE NoStrandedReceiver'
  BY <1>1, ReceiversLocked
<1>2. CASE xQueueCreate
  BY <1>2 DEF xQueueCreate, NoStrandedReceiver, cv_not_empty, Sleeping, QueueInv
<1>3. CASE vQueueDelete
  BY <1>3 DEF vQueueDelete, NoStrandedReceiver, cv_not_empty, Sleeping
<1>4. ASSUME NEW t \in Thread,
             Begin(t) \/ RejectNull(t) \/ Deadline(t) \/ TimeOut(t) \/ SpuriousWake(t)
      PROVE  NoStrandedReceiver'
  <2>1. q' = q
    BY <1>4 DEF Begin, RejectNull, Deadline, TimeOut, SpuriousWake
  <2>2. /\ Woken(ReadOp) \subseteq Woken(ReadOp)'
        /\ cv_not_empty' \subseteq cv_not_empty
    BY <1>4 DEF Begin, RejectNull, Deadline, TimeOut, SpuriousWake, Woken,
                cv_not_empty, Sleeping, QueueInv, TypeOK
  <2>3. Cardinality(Woken(ReadOp)) <= Cardinality(Woken(ReadOp)')
    BY <2>2, MoreReaders
  <2>4. /\ Len(q) \in Nat /\ Cardinality(Woken(ReadOp)) \in Nat
        /\ Cardinality(Woken(ReadOp)') \in Nat
    <3>1. Woken(ReadOp)' \subseteq Thread
      BY DEF Woken
    <3>2. Cardinality(Woken(ReadOp)') \in Nat
      BY <3>1, QueueAssumption, FS_Subset, FS_CardinalityType DEF QueueAssumption
    <3> QED BY <3>2, WokenFinite DEF QueueInv, TypeOK
  <2> QED BY <2>1, <2>2, <2>3, <2>4 DEF NoStrandedReceiver
<1>5. CASE UNCHANGED vars
  BY <1>5 DEF vars, NoStrandedReceiver, cv_not_empty, Sleeping, Woken
<1> QED BY <1>1, <1>2, <1>3, <1>4, <1>5 DEF Next

(* If no client peeks, no receiver is left asleep beside an item that      *)
(* nobody has been woken for: a send notifies one receiver, and that one   *)
(* takes an item or finds that another has taken it.                       *)
THEOREM ReceiversServed ==
  ASSUME "Peek" \notin Op
  PROVE  Spec => []NoStrandedReceiver
<1>1. Init => NoStrandedReceiver
  BY DEF Init, NoStrandedReceiver, cv_not_empty, Sleeping
<1>2. QueueInv /\ NoStrandedReceiver /\ [Next]_vars => NoStrandedReceiver'
  BY ReceiversStep
<1> QED BY <1>1, <1>2, Invariant, PTL DEF Spec
=============================================================================
