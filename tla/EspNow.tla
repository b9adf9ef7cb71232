------------------------------- MODULE EspNow -------------------------------
(***************************************************************************)
(* src/esp_now.h: the receive and the send callback of the ESP-NOW mock,   *)
(* behind one std::mutex that does not admit its owner a second time.      *)
(*                                                                         *)
(* A delivery (esp_now_inject_recv, or esp_now_send for the send callback) *)
(* copies its callback under the mutex and calls the copy after it has     *)
(* released it.  The callback may call the API again, so every thread has  *)
(* a stack of calls.                                                       *)
(***************************************************************************)
EXTENDS Naturals, Sequences

CONSTANTS Thread,      (* any thread may call any function                 *)
          Callback,    (* what can be registered                           *)
          NoCallback,  (* an empty std::function                           *)
          Unlocked,    (* no owner of the mutex                            *)
          MaxDepth     (* bound: the calls one thread can be inside of     *)

Slot == {"recv", "send"}

ASSUME EspNowAssumption ==
  /\ NoCallback \notin Callback
  /\ Unlocked \notin Thread
  /\ MaxDepth \in Nat

VARIABLES
  registered,   (* recv_cb() and send_cb()                                 *)
  initialized,  (* written by esp_now_init and esp_now_deinit, never read  *)
  mu,           (* the owner of the mutex                                  *)
  stack,        (* the calls of each thread, the innermost first           *)
  silent        (* history: slots emptied by a call that has returned, with*)
                (* no registration under way then or begun since           *)

vars == <<registered, initialized, mu, stack, silent>>

(* The calls about one callback, and those about the whole mock.           *)
SlotOp  == {"register", "unregister", "deliver"}
WholeOp == {"init", "deinit"}

(* cb is the argument of a registration or the copy of a delivery; late is *)
(* history: the call began when its slot was silent, and it still is.      *)
Call == [op : SlotOp \cup WholeOp, slot : Slot,
         cb : Callback \cup {NoCallback},
         pc : {"lock", "locked", "running"}, late : BOOLEAN]

Init ==
  /\ registered = [s \in Slot |-> NoCallback]
  /\ initialized = FALSE
  /\ mu = Unlocked
  /\ stack = [t \in Thread |-> << >>]
  /\ silent = [s \in Slot |-> TRUE]

-----------------------------------------------------------------------------
At(t, pc) == stack[t] # << >> /\ Head(stack[t]).pc = pc

(* A thread calls the API from its own code or from a callback it runs.    *)
Free(t) == stack[t] = << >> \/ At(t, "running")

Push(t, c) == stack' = [stack EXCEPT ![t] = <<c>> \o @]
Pop(t)     == stack' = [stack EXCEPT ![t] = Tail(@)]
Top(t, c)  == stack' = [stack EXCEPT ![t] = <<c>> \o Tail(@)]

Begin(t, op, s, cb, late) ==
  /\ Free(t) /\ Len(stack[t]) < MaxDepth
  /\ Push(t, [op |-> op, slot |-> s, cb |-> cb, pc |-> "lock", late |-> late])
  /\ UNCHANGED <<registered, initialized, mu>>

(* From here on a delivery in this slot may find the callback.             *)
Register(t, s, cb) ==
  /\ Free(t) /\ Len(stack[t]) < MaxDepth
  /\ LET heard(c) == IF c.slot = s THEN [c EXCEPT !.late = FALSE] ELSE c
         heardBy(u) == [n \in DOMAIN stack[u] |-> heard(stack[u][n])]
         mine == [op |-> "register", slot |-> s, cb |-> cb,
                  pc |-> "lock", late |-> FALSE]
     IN  stack' = [u \in Thread |->
                     IF u = t THEN <<mine>> \o heardBy(u) ELSE heardBy(u)]
  /\ silent' = [silent EXCEPT ![s] = FALSE]
  /\ UNCHANGED <<registered, initialized, mu>>

esp_now_register_recv_cb(t, cb) == Register(t, "recv", cb)
esp_now_register_send_cb(t, cb) == Register(t, "send", cb)

Unregister(t, s) == Begin(t, "unregister", s, NoCallback, FALSE) /\ UNCHANGED silent

esp_now_unregister_recv_cb(t) == Unregister(t, "recv")
esp_now_unregister_send_cb(t) == Unregister(t, "send")

esp_now_init(t) == Begin(t, "init", "recv", NoCallback, FALSE) /\ UNCHANGED silent

(* esp_now_mock_reset does the same.                                       *)
esp_now_deinit(t) == Begin(t, "deinit", "recv", NoCallback, FALSE) /\ UNCHANGED silent

Deliver(t, s) == Begin(t, "deliver", s, NoCallback, silent[s]) /\ UNCHANGED silent

esp_now_inject_recv(t) == Deliver(t, "recv")
esp_now_send(t)        == Deliver(t, "send")

-----------------------------------------------------------------------------
(* Mutant: esp_now_deinit forgets the send callback.                       *)
EmptiedHalf(c) ==
  CASE c.op = "unregister" -> {c.slot}
    [] c.op = "deinit"     -> {"recv"}
    [] OTHER               -> {}

(* What a call empties.                                                    *)
Emptied(c) ==
  CASE c.op = "unregister" -> {c.slot}
    [] c.op = "deinit"     -> Slot
    [] OTHER               -> {}

(* lock_guard lock(mu()), and the statements up to the end of its scope.   *)
Lock(t) ==
  /\ At(t, "lock")
  /\ mu = Unlocked
  /\ mu' = t
  /\ LET c == Head(stack[t])
     IN  /\ registered' = [s \in Slot |->
              IF s \in Emptied(c) THEN NoCallback
              ELSE IF c.op = "register" /\ s = c.slot THEN c.cb
              ELSE registered[s]]
         /\ initialized' = IF c.op \in WholeOp THEN c.op = "init" ELSE initialized
         /\ Top(t, [c EXCEPT !.pc = "locked",
                             !.cb = IF c.op = "deliver" THEN registered[c.slot]
                                                        ELSE @])
  /\ UNCHANGED silent

(* History: after which calls a slot should be empty, and whether somebody *)
(* is about to fill it.                                                    *)
Silences(c, s) == c.op = "deinit" \/ (c.op = "unregister" /\ c.slot = s)

Registering(s) == \E u \in Thread : \E n \in DOMAIN stack[u] :
                    stack[u][n].op = "register" /\ stack[u][n].slot = s

(* Mutant: the callback is called inside of the scope of the lock.         *)
UnlockAfterwards(t) ==
  /\ At(t, "locked")
  /\ LET c == Head(stack[t])
         calls == c.op = "deliver" /\ c.cb # NoCallback
     IN  /\ mu' = IF calls THEN mu ELSE Unlocked
         /\ IF calls THEN Top(t, [c EXCEPT !.pc = "running"]) ELSE Pop(t)
         /\ silent' = [s \in Slot |->
              silent[s] \/ (Silences(c, s) /\ ~Registering(s))]
  /\ UNCHANGED <<registered, initialized>>

(* Mutant: the copy is not tested before it is called.                     *)
UnlockUntested(t) ==
  /\ At(t, "locked")
  /\ mu' = Unlocked
  /\ LET c == Head(stack[t])
     IN  /\ IF c.op = "deliver" THEN Top(t, [c EXCEPT !.pc = "running"]) ELSE Pop(t)
         /\ silent' = [s \in Slot |->
              silent[s] \/ (Silences(c, s) /\ ~Registering(s))]
  /\ UNCHANGED <<registered, initialized>>

(* The scope ends; a delivery goes on to call its copy, if it has one.     *)
Unlock(t) ==
  /\ At(t, "locked")
  /\ mu' = Unlocked
  /\ LET c == Head(stack[t])
     IN  /\ IF c.op = "deliver" /\ c.cb # NoCallback
            THEN Top(t, [c EXCEPT !.pc = "running"])
            ELSE Pop(t)
         /\ silent' = [s \in Slot |->
              silent[s] \/ (Silences(c, s) /\ ~Registering(s))]
  /\ UNCHANGED <<registered, initialized>>

(* Mutant: while (cb) instead of if (cb).                                  *)
CallbackRepeats(t) == At(t, "running") /\ UNCHANGED vars

CallbackReturns(t) ==
  /\ At(t, "running")
  /\ Pop(t)
  /\ UNCHANGED <<registered, initialized, mu, silent>>

Next ==
  \E t \in Thread :
    \/ \E cb \in Callback : \/ esp_now_register_recv_cb(t, cb)
                            \/ esp_now_register_send_cb(t, cb)
    \/ esp_now_unregister_recv_cb(t) \/ esp_now_unregister_send_cb(t)
    \/ esp_now_init(t) \/ esp_now_deinit(t)
    \/ esp_now_inject_recv(t) \/ esp_now_send(t)
    \/ Lock(t) \/ Unlock(t) \/ CallbackReturns(t)

Spec == Init /\ [][Next]_vars

(* Threads run on, the mutex is not withheld from one of them for ever,    *)
(* and no callback, however deep, calls the API without end.               *)
Fairness ==
  \A t \in Thread :
    /\ SF_vars(Lock(t))
    /\ WF_vars(Unlock(t))
    /\ \A d \in 1..MaxDepth : SF_vars(Len(stack[t]) = d /\ CallbackReturns(t))

FairSpec == Spec /\ Fairness

-----------------------------------------------------------------------------
(* Besides the types: no empty std::function is called, and only the       *)
(* innermost call of a thread does anything but run a callback.            *)
TypeOK ==
  /\ registered \in [Slot -> Callback \cup {NoCallback}]
  /\ initialized \in BOOLEAN
  /\ mu \in Thread \cup {Unlocked}
  /\ stack \in [Thread -> Seq(Call)]
  /\ silent \in [Slot -> BOOLEAN]
  /\ \A t \in Thread : \A n \in DOMAIN stack[t] :
       /\ stack[t][n].pc = "running" => stack[t][n].cb # NoCallback
       /\ n > 1 => stack[t][n].pc = "running"

(* A packet injected, or sent, after the callback has been unregistered or *)
(* the mock reset reaches nobody, as long as nobody registers again: the   *)
(* end of one test cannot leak a callback into the next.                   *)
Silenced ==
  \A t \in Thread : \A n \in DOMAIN stack[t] :
    stack[t][n].late => stack[t][n].pc # "running"

(* No thread owns the mutex while it runs a callback or asks for the       *)
(* mutex: a callback may call the API without locking itself out.          *)
NoSelfDeadlock == \A t \in Thread : mu = t => At(t, "locked")

(* Every call returns, those made from callbacks included.                 *)
CallsReturn == \A t \in Thread : stack[t] # << >> ~> stack[t] = << >>
=============================================================================
