---------------------------- MODULE FreeRTOSQueue ----------------------------
(***************************************************************************)
(* src/freertos/queue/queue.cpp: a FreeRTOS queue built from a std::mutex, *)
(* two std::condition_variables and a std::deque.                          *)
(*                                                                         *)
(* Every field of the control block is read and written with mtx held and  *)
(* both notify_one calls are made under it, so the stretch from one        *)
(* acquisition of mtx to the next release (a return or a wait) is one      *)
(* action.  What interleaves is what happens between these stretches: a    *)
(* caller queues for mtx ("entry"), sleeps on a condition variable         *)
(* ("waiting"), or has left the condition variable and queues for mtx      *)
(* again ("woken").                                                        *)
(***************************************************************************)
EXTENDS Naturals, Sequences, FiniteSets

CONSTANTS Thread,       (* the threads that call the API                   *)
          Item,         (* the values a queue slot can hold                *)
          MaxCapacity,  (* the largest uxQueueLength a client asks for     *)
          Op,           (* the operations the clients use                  *)
          NoItem,       (* an untouched caller's buffer                    *)
          NoCall        (* no call in progress                             *)

SendOp == {"SendBack", "SendFront"}
ReadOp == {"Receive", "Peek"}

ASSUME QueueAssumption ==
  /\ IsFiniteSet(Thread)
  /\ MaxCapacity \in Nat \ {0}
  /\ Op \subseteq SendOp \cup ReadOp

(* op is the API entry point (xQueueSendToBack forwards to xQueueSend),    *)
(* item what pvItemToQueue points to, wait whether xTicksToWait # 0.       *)
Request == [op : Op \cap SendOp, item : Item, wait : BOOLEAN]
             \cup [op : Op \cap ReadOp, item : {NoItem}, wait : BOOLEAN]

ASSUME NoCallAssumption == NoCall \notin Request

VARIABLES capacity,     (* capacity, 0 while the handle is nullptr         *)
          q,            (* the deque, front first                          *)
          pc,           (* where each thread is in its call                *)
          call,         (* the arguments of the pending call               *)
          expired,      (* the threads whose deadline has passed           *)
          ret,          (* the last result of each thread, TRUE is pdTRUE  *)
          buf           (* what pvBuffer of the last read holds            *)

vars == <<capacity, q, pc, call, expired, ret, buf>>

Init ==
  /\ capacity = 0
  /\ q = << >>
  /\ pc = [t \in Thread |-> "idle"]
  /\ call = [t \in Thread |-> NoCall]
  /\ expired = {}
  /\ ret = [t \in Thread |-> FALSE]
  /\ buf = [t \in Thread |-> NoItem]

-----------------------------------------------------------------------------
(* The loop condition of the pending call of t: no room for a sender,      *)
(* nothing there for a reader.                                             *)
Blocked(t) ==
  IF call[t].op \in SendOp THEN Len(q) >= capacity ELSE q = << >>

Sleeping(ops) == {t \in Thread : pc[t] = "waiting" /\ call[t].op \in ops}
Woken(ops)    == {t \in Thread : pc[t] = "woken" /\ call[t].op \in ops}

(* Who sleeps on cv_not_full and on cv_not_empty: a waiting sender waits   *)
(* for the first, a waiting receiver or peeker for the second.             *)
cv_not_full  == Sleeping(SendOp)
cv_not_empty == Sleeping(ReadOp)

(* Mutant of Finish: the notify_one is forgotten.                          *)
FinishSilently(t, r, cv) ==
  /\ pc' = [pc EXCEPT ![t] = "idle"]
  /\ call' = [call EXCEPT ![t] = NoCall]
  /\ ret' = [ret EXCEPT ![t] = r]
  /\ expired' = expired \ {t}

(* Mutant of Finish: the deadline stays armed for the next call.           *)
FinishKeepsDeadline(t, r, cv) ==
  /\ \/ /\ cv = {}
        /\ pc' = [pc EXCEPT ![t] = "idle"]
     \/ \E u \in cv : pc' = [pc EXCEPT ![t] = "idle", ![u] = "woken"]
  /\ call' = [call EXCEPT ![t] = NoCall]
  /\ ret' = [ret EXCEPT ![t] = r]
  /\ UNCHANGED expired

(* t leaves its call with result r; cv.notify_one() first moves one        *)
(* sleeper of cv, if there is one, to the queue for mtx.                   *)
Finish(t, r, cv) ==
  /\ \/ /\ cv = {}
        /\ pc' = [pc EXCEPT ![t] = "idle"]
     \/ \E u \in cv : pc' = [pc EXCEPT ![t] = "idle", ![u] = "woken"]
  /\ call' = [call EXCEPT ![t] = NoCall]
  /\ ret' = [ret EXCEPT ![t] = r]
  /\ expired' = expired \ {t}

-----------------------------------------------------------------------------
xQueueCreate ==
  /\ capacity = 0
  /\ capacity' \in 1..MaxCapacity
  /\ UNCHANGED <<q, pc, call, expired, ret, buf>>

(* Deleting a queue with a caller inside destroys a mutex in use; clients  *)
(* delete a queue only when nobody is in a call on it.                     *)
vQueueDelete ==
  /\ capacity # 0
  /\ \A t \in Thread : pc[t] = "idle"
  /\ capacity' = 0
  /\ q' = << >>
  /\ UNCHANGED <<pc, call, expired, ret, buf>>

(* A thread calls into the API with valid pointers and queues for mtx.     *)
Begin(t) ==
  /\ pc[t] = "idle"
  /\ capacity # 0
  /\ \E c \in Request : call' = [call EXCEPT ![t] = c]
  /\ pc' = [pc EXCEPT ![t] = "entry"]
  /\ ret' = [ret EXCEPT ![t] = FALSE]
  /\ buf' = [buf EXCEPT ![t] = NoItem]
  /\ UNCHANGED <<capacity, q, expired>>

(* q == nullptr or a null buffer: pdFALSE before mtx is touched.           *)
RejectNull(t) ==
  /\ pc[t] = "idle"
  /\ ret' = [ret EXCEPT ![t] = FALSE]
  /\ buf' = [buf EXCEPT ![t] = NoItem]
  /\ UNCHANGED <<capacity, q, pc, call, expired>>

(* t holds mtx, either for the first time or on return from wait_until.    *)
HasLock(t) == pc[t] \in {"entry", "woken"}

xQueueSend(t) ==
  /\ HasLock(t)
  /\ call[t].op = "SendBack"
  /\ ~Blocked(t)
  /\ q' = Append(q, call[t].item)
  /\ Finish(t, TRUE, cv_not_empty)
  /\ UNCHANGED <<capacity, buf>>

xQueueSendToFront(t) ==
  /\ HasLock(t)
  /\ call[t].op = "SendFront"
  /\ ~Blocked(t)
  /\ q' = <<call[t].item>> \o q
  /\ Finish(t, TRUE, cv_not_empty)
  /\ UNCHANGED <<capacity, buf>>

xQueueReceive(t) ==
  /\ HasLock(t)
  /\ call[t].op = "Receive"
  /\ ~Blocked(t)
  /\ buf' = [buf EXCEPT ![t] = Head(q)]
  /\ q' = Tail(q)
  /\ Finish(t, TRUE, cv_not_full)
  /\ UNCHANGED capacity

(* A peeker leaves the item and passes its wake-up on to nobody.           *)
xQueuePeek(t) ==
  /\ HasLock(t)
  /\ call[t].op = "Peek"
  /\ ~Blocked(t)
  /\ buf' = [buf EXCEPT ![t] = Head(q)]
  /\ Finish(t, TRUE, {})
  /\ UNCHANGED <<capacity, q>>

(* Mutant of GiveUp: a timeout returns pdFALSE without a second look.      *)
GiveUpUnchecked(t) ==
  /\ \/ pc[t] = "entry" /\ ~call[t].wait /\ Blocked(t)
     \/ pc[t] = "woken" /\ t \in expired
  /\ Finish(t, FALSE, {})
  /\ UNCHANGED <<capacity, q, buf>>

(* pdFALSE: at once when xTicksToWait = 0, or when wait_until reports a    *)
(* timeout and the condition still does not hold.                          *)
GiveUp(t) ==
  /\ \/ pc[t] = "entry" /\ ~call[t].wait
     \/ pc[t] = "woken" /\ t \in expired
  /\ Blocked(t)
  /\ Finish(t, FALSE, {})
  /\ UNCHANGED <<capacity, q, buf>>

(* Mutant of Wait: the deadline is computed anew on every turn of the loop.*)
WaitAnew(t) ==
  /\ HasLock(t)
  /\ pc[t] = "entry" => call[t].wait
  /\ Blocked(t)
  /\ pc' = [pc EXCEPT ![t] = "waiting"]
  /\ expired' = expired \ {t}
  /\ UNCHANGED <<capacity, q, call, ret, buf>>

(* The body of the while loop: sleep on the condition variable, mtx        *)
(* released in the same step.                                              *)
Wait(t) ==
  /\ \/ pc[t] = "entry" /\ call[t].wait
     \/ pc[t] = "woken" /\ t \notin expired
  /\ Blocked(t)
  /\ pc' = [pc EXCEPT ![t] = "waiting"]
  /\ UNCHANGED <<capacity, q, call, expired, ret, buf>>

(* steady_clock passes the deadline of t, computed before its first wait.  *)
Deadline(t) ==
  /\ pc[t] \in {"waiting", "woken"}
  /\ t \notin expired
  /\ expired' = expired \cup {t}
  /\ UNCHANGED <<capacity, q, pc, call, ret, buf>>

(* wait_until stops waiting because the deadline has passed.               *)
TimeOut(t) ==
  /\ pc[t] = "waiting"
  /\ t \in expired
  /\ pc' = [pc EXCEPT ![t] = "woken"]
  /\ UNCHANGED <<capacity, q, call, expired, ret, buf>>

(* std::condition_variable may wake a waiter without any notification.     *)
SpuriousWake(t) ==
  /\ pc[t] = "waiting"
  /\ t \notin expired
  /\ pc' = [pc EXCEPT ![t] = "woken"]
  /\ UNCHANGED <<capacity, q, call, expired, ret, buf>>

(* What a thread inside a call does once it gets mtx.                      *)
Locked(t) ==
  \/ xQueueSend(t) \/ xQueueSendToFront(t)
  \/ xQueueReceive(t) \/ xQueuePeek(t)
  \/ GiveUp(t) \/ Wait(t)

Next ==
  \/ xQueueCreate
  \/ vQueueDelete
  \/ \E t \in Thread : \/ Begin(t) \/ RejectNull(t) \/ Locked(t)
                       \/ Deadline(t) \/ TimeOut(t) \/ SpuriousWake(t)

Spec == Init /\ [][Next]_vars

(* Threads are scheduled, mtx is not withheld for ever, and time passes.   *)
(* Nobody is obliged to call, to create or to delete.                      *)
Fairness ==
  \A t \in Thread : /\ WF_vars(Locked(t))
                    /\ WF_vars(Deadline(t))
                    /\ WF_vars(TimeOut(t))

FairSpec == Spec /\ Fairness

-----------------------------------------------------------------------------
uxQueueMessagesWaiting == Len(q)

TypeOK ==
  /\ capacity \in 0..MaxCapacity
  /\ q \in Seq(Item)
  /\ pc \in [Thread -> {"idle", "entry", "waiting", "woken"}]
  /\ call \in [Thread -> Request \cup {NoCall}]
  /\ \A t \in Thread : call[t] = NoCall <=> pc[t] = "idle"
  /\ expired \in SUBSET {t \in Thread : pc[t] \in {"waiting", "woken"}}
  /\ ret \in [Thread -> BOOLEAN]
  /\ buf \in [Thread -> Item \cup {NoItem}]

(* However senders are woken, barged past by a later caller or time out,   *)
(* the queue never holds more than uxQueueLength items.                    *)
WithinCapacity == uxQueueMessagesWaiting <= capacity

(* No wake-up is lost by senders: while one still sleeps on cv_not_full    *)
(* every free slot is spoken for by a sender that has already been woken.  *)
NoStrandedSender ==
  cv_not_full # {} => capacity <= Len(q) + Cardinality(Woken(SendOp))

(* The same for readers and items, for clients that never peek: a peeker   *)
(* shares cv_not_empty, takes the one notification of a send and leaves    *)
(* the item behind for nobody.                                             *)
NoStrandedReceiver ==
  cv_not_empty # {} => Len(q) <= Cardinality(Woken(ReadOp))

(* Every call returns, whoever else is served in the meantime: the         *)
(* deadline bounds the while loop.                                         *)
CallReturns == \A t \in Thread : pc[t] # "idle" ~> pc[t] = "idle"

(* The queue implements the atomic bounded deque: each call takes effect   *)
(* at the instant it holds mtx last, and is refused only when the queue    *)
(* really is full, or empty, at that instant.                              *)
BQ == INSTANCE BoundedQueue WITH items <- q

ImplementsBoundedQueue == BQ!Spec
=============================================================================
