---------------------------- MODULE BoundedQueue ----------------------------
(***************************************************************************)
(* What the FreeRTOS queue API promises to its callers: a double-ended     *)
(* queue of bounded length whose operations each take effect at one        *)
(* instant between call and return.  There are no locks, no condition      *)
(* variables and no clock here; a refusal (pdFALSE) is explained by the    *)
(* queue being full or empty at that very instant.                         *)
(***************************************************************************)
EXTENDS Naturals, Sequences

CONSTANTS Thread,       (* the threads that call the API                   *)
          Item,         (* the values a queue slot can hold                *)
          MaxCapacity,  (* the largest uxQueueLength a client asks for     *)
          Op,           (* the operations the clients use                  *)
          NoItem,       (* an untouched caller's buffer                    *)
          NoCall        (* no call in progress                             *)

VARIABLES capacity,     (* uxQueueLength, 0 while there is no queue        *)
          items,        (* the queue, front first                          *)
          call,         (* the pending call of each thread                 *)
          ret,          (* the last result of each thread, TRUE is pdTRUE  *)
          buf           (* the buffer of each thread's last read           *)

vars == <<capacity, items, call, ret, buf>>

SendOp == {"SendBack", "SendFront"}
ReadOp == {"Receive", "Peek"}

(* A call: the operation, the item of a send, and whether xTicksToWait > 0 *)
Request == [op : Op \cap SendOp, item : Item, wait : BOOLEAN]
             \cup [op : Op \cap ReadOp, item : {NoItem}, wait : BOOLEAN]

Quiet == \A t \in Thread : call[t] = NoCall

Init ==
  /\ capacity = 0
  /\ items = << >>
  /\ call = [t \in Thread |-> NoCall]
  /\ ret = [t \in Thread |-> FALSE]
  /\ buf = [t \in Thread |-> NoItem]

Create ==
  /\ capacity = 0
  /\ capacity' \in 1..MaxCapacity
  /\ UNCHANGED <<items, call, ret, buf>>

Delete ==
  /\ capacity # 0
  /\ Quiet
  /\ capacity' = 0
  /\ items' = << >>
  /\ UNCHANGED <<call, ret, buf>>

Begin(t) ==
  /\ call[t] = NoCall
  /\ capacity # 0
  /\ \E c \in Request : call' = [call EXCEPT ![t] = c]
  /\ ret' = [ret EXCEPT ![t] = FALSE]
  /\ buf' = [buf EXCEPT ![t] = NoItem]
  /\ UNCHANGED <<capacity, items>>

(* A null handle or a null buffer is answered pdFALSE and touches nothing. *)
Reject(t) ==
  /\ call[t] = NoCall
  /\ ret' = [ret EXCEPT ![t] = FALSE]
  /\ buf' = [buf EXCEPT ![t] = NoItem]
  /\ UNCHANGED <<capacity, items, call>>

(* The pending call of t takes effect and returns pdTRUE.                  *)
Accept(t) ==
  /\ call[t] # NoCall
  /\ \/ /\ call[t].op \in SendOp
        /\ Len(items) < capacity
        /\ items' = IF call[t].op = "SendBack"
                      THEN Append(items, call[t].item)
                      ELSE <<call[t].item>> \o items
        /\ UNCHANGED buf
     \/ /\ call[t].op \in ReadOp
        /\ items # << >>
        /\ items' = IF call[t].op = "Receive" THEN Tail(items) ELSE items
        /\ buf' = [buf EXCEPT ![t] = Head(items)]
  /\ ret' = [ret EXCEPT ![t] = TRUE]
  /\ call' = [call EXCEPT ![t] = NoCall]
  /\ UNCHANGED capacity

(* The pending call of t returns pdFALSE: at this instant a sender finds   *)
(* no room, or a reader nothing to read.                                   *)
Refuse(t) ==
  /\ call[t] # NoCall
  /\ \/ call[t].op \in SendOp /\ Len(items) >= capacity
     \/ call[t].op \in ReadOp /\ items = << >>
  /\ ret' = [ret EXCEPT ![t] = FALSE]
  /\ call' = [call EXCEPT ![t] = NoCall]
  /\ UNCHANGED <<capacity, items, buf>>

Next ==
  \/ Create
  \/ Delete
  \/ \E t \in Thread : Begin(t) \/ Reject(t) \/ Accept(t) \/ Refuse(t)

Spec == Init /\ [][Next]_vars
=============================================================================
