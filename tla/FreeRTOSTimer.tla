---------------------------- MODULE FreeRTOSTimer ----------------------------
(***************************************************************************)
(* src/freertos/timer/timer.cpp: software timers kept in a global vector   *)
(* and fired on the caller's thread, by mockProcessTimers, mockFireTimer   *)
(* or xTimerIsTimerActive.                                                 *)
(*                                                                         *)
(* There is no lock and no thread here, but a callback is client code that *)
(* may call any of the functions of this file again while its dispatcher   *)
(* is in the middle of its work.  The dispatchers under way form a stack;  *)
(* the callback of the topmost one runs and is free to make calls until it *)
(* returns.                                                                *)
(***************************************************************************)
EXTENDS Naturals, Sequences

CONSTANTS Timer,        (* the handles xTimerCreate can return             *)
          CallbackOp,   (* the functions that callbacks call               *)
          MaxDepth      (* how deep the clients let dispatchers nest: a    *)
                        (* callback that always dispatches never ends      *)

Operation == {"xTimerCreate", "xTimerStart", "xTimerStop", "xTimerReset",
              "xTimerDelete", "xTimerChangePeriod", "xTimerIsTimerActive",
              "mockProcessTimers", "mockFireTimer"}

ASSUME TimerAssumption ==
  /\ CallbackOp \subseteq Operation
  /\ MaxDepth \in Nat \ {0}

(* A period of 0 has elapsed as soon as the timer is started.              *)
Period == {0, 1}

VARIABLES
  timers,                        (* the vector, in creation order          *)
  autoReload, callback, period,  (* of each timer; callback is whether it  *)
                                 (* is not nullptr                         *)
  active,
  due,                           (* steady_clock has reached fireAt        *)
  stack,                         (* the dispatchers, innermost last        *)
  owed                           (* history: the timers an outermost       *)
                                 (* mockProcessTimers found ready to fire  *)
                                 (* that have been neither fired nor       *)
                                 (* stopped nor deleted since              *)

conf == <<autoReload, callback, period>>
vars == <<timers, conf, active, due, stack, owed>>

Init ==
  /\ timers = << >>
  /\ autoReload = [t \in Timer |-> FALSE]
  /\ callback = [t \in Timer |-> FALSE]
  /\ period = [t \in Timer |-> 0]
  /\ active = [t \in Timer |-> FALSE]
  /\ due = [t \in Timer |-> FALSE]
  /\ stack = << >>
  /\ owed = {}

-----------------------------------------------------------------------------
Live == {timers[i] : i \in DOMAIN timers}
Top  == stack[Len(stack)]

(* The code that runs now calls op.                                        *)
Calls(op) == stack = << >> \/ op \in CallbackOp

(* It calls a function that itself runs a callback.                        *)
Dispatches(op) == Calls(op) /\ Len(stack) < MaxDepth

Frame(kind, t, i) == [kind |-> kind, timer |-> t, index |-> i]

(* The callback of t is entered.                                           *)
Fire(kind, t) ==
  /\ stack' = Append(stack, Frame(kind, t, 0))
  /\ owed' = owed \ {t}

(* The for loop of mockProcessTimers, at index i with the dispatchers      *)
(* below it on the stack: the next active timer with a callback is fired,  *)
(* or the loop ends.                                                       *)
Pass(i, isActive, below, due0) ==
  LET ready == {j \in i..Len(timers) :
                  isActive[timers[j]] /\ callback[timers[j]]}
  IN  \/ /\ ready = {}
         /\ stack' = below
         /\ owed' = due0
      \/ \E j \in ready :
           /\ \A k \in ready : j <= k
           /\ stack' = Append(below, Frame("process", timers[j], j))
           /\ owed' = due0 \ {timers[j]}

-----------------------------------------------------------------------------
xTimerCreate(t) ==
  /\ Calls("xTimerCreate")
  /\ t \notin Live
  /\ timers' = Append(timers, t)
  /\ \E a, c \in BOOLEAN, p \in Period :
       /\ autoReload' = [autoReload EXCEPT ![t] = a]
       /\ callback' = [callback EXCEPT ![t] = c]
       /\ period' = [period EXCEPT ![t] = p]
  /\ active' = [active EXCEPT ![t] = FALSE]
  /\ due' = [due EXCEPT ![t] = FALSE]
  /\ UNCHANGED <<stack, owed>>

(* Mutant of Arm: a start lists the timer once more.                       *)
ArmListsAgain(t) ==
  /\ t \in Live
  /\ timers' = Append(timers, t)
  /\ active' = [active EXCEPT ![t] = TRUE]
  /\ due' = [due EXCEPT ![t] = (period[t] = 0)]
  /\ UNCHANGED <<conf, stack, owed>>

(* xTimerStart and xTimerReset do the same.                                *)
Arm(t) ==
  /\ t \in Live
  /\ active' = [active EXCEPT ![t] = TRUE]
  /\ due' = [due EXCEPT ![t] = (period[t] = 0)]
  /\ UNCHANGED <<timers, conf, stack, owed>>

xTimerStart(t) == Calls("xTimerStart") /\ Arm(t)
xTimerReset(t) == Calls("xTimerReset") /\ Arm(t)

xTimerStop(t) ==
  /\ Calls("xTimerStop")
  /\ t \in Live
  /\ active' = [active EXCEPT ![t] = FALSE]
  /\ owed' = owed \ {t}
  /\ UNCHANGED <<timers, conf, due, stack>>

(* mockFireTimer and xTimerIsTimerActive look at their timer again after   *)
(* its callback, mockProcessTimers at timers[i]: clients neither delete a  *)
(* timer that one of the former fires, nor make the vector shorter than i. *)
xTimerDelete(t) ==
  /\ Calls("xTimerDelete")
  /\ t \in Live
  /\ \A n \in DOMAIN stack :
       IF stack[n].kind = "process" THEN stack[n].index < Len(timers)
                                    ELSE stack[n].timer # t
  /\ \E i \in DOMAIN timers :
       /\ timers[i] = t
       /\ timers' = SubSeq(timers, 1, i - 1) \o SubSeq(timers, i + 1, Len(timers))
  /\ owed' = owed \ {t}
  /\ UNCHANGED <<conf, active, due, stack>>

(* The new period counts from the next start or reload, not from now.      *)
xTimerChangePeriod(t) ==
  /\ Calls("xTimerChangePeriod")
  /\ t \in Live
  /\ \E p \in Period : period' = [period EXCEPT ![t] = p]
  /\ UNCHANGED <<timers, autoReload, callback, active, due, stack, owed>>

(* What xTimerIsTimerActive does to a timer that was due, its callback     *)
(* done.                                                                   *)
Reload(t) ==
  IF autoReload[t]
    THEN /\ due' = [due EXCEPT ![t] = (period[t] = 0)]
         /\ UNCHANGED active
    ELSE /\ active' = [active EXCEPT ![t] = FALSE]
         /\ UNCHANGED due

(* Asking fires: a timer that is inactive or not yet due is left alone.    *)
xTimerIsTimerActive(t) ==
  /\ Dispatches("xTimerIsTimerActive")
  /\ t \in Live
  /\ active[t] /\ due[t]
  /\ \/ callback[t] /\ Fire("query", t) /\ UNCHANGED <<active, due>>
     \/ ~callback[t] /\ Reload(t) /\ UNCHANGED <<stack, owed>>
  /\ UNCHANGED <<timers, conf>>

(* A timer is fired whether or not it is active.                           *)
mockFireTimer(t) ==
  /\ Dispatches("mockFireTimer")
  /\ t \in Live
  /\ callback[t]
  /\ Fire("fire", t)
  /\ UNCHANGED <<timers, conf, active, due>>

mockProcessTimers ==
  /\ Dispatches("mockProcessTimers")
  /\ Pass(1, active, stack,
          IF stack = << >> THEN {t \in Live : active[t] /\ callback[t]}
                           ELSE owed)
  /\ UNCHANGED <<timers, conf, active, due>>

(* Clients clear the timers between tests, never from a callback.          *)
mockClearTimers ==
  /\ stack = << >>
  /\ timers' = << >>
  /\ owed' = {}
  /\ UNCHANGED <<conf, active, due, stack>>

(* The clock reaches fireAt.                                               *)
Elapse(t) ==
  /\ t \in Live
  /\ ~due[t]
  /\ due' = [due EXCEPT ![t] = TRUE]
  /\ UNCHANGED <<timers, conf, active, stack, owed>>

-----------------------------------------------------------------------------
Below == SubSeq(stack, 1, Len(stack) - 1)

(* Mutant of Settle: the test of autoReload is the wrong way round.        *)
SettleInverted(t) == active' = [active EXCEPT ![t] = @ /\ ~autoReload[t]]

(* The tail of mockProcessTimers and mockFireTimer.                        *)
Settle(t) == active' = [active EXCEPT ![t] = @ /\ autoReload[t]]

(* Mutant of ProcessReturn: the pass ends with the first timer it fires.   *)
ProcessReturnAtOnce ==
  /\ Top.kind = "process"
  /\ Settle(timers[Top.index])
  /\ stack' = Below
  /\ UNCHANGED <<due, owed>>

(* mockProcessTimers settles timers[i], whatever it is by now, and goes on.*)
ProcessReturn ==
  /\ Top.kind = "process"
  /\ Settle(timers[Top.index])
  /\ Pass(Top.index + 1, active', Below, owed)
  /\ UNCHANGED due

FireReturn ==
  /\ Top.kind = "fire"
  /\ Settle(Top.timer)
  /\ stack' = Below
  /\ UNCHANGED <<due, owed>>

QueryReturn ==
  /\ Top.kind = "query"
  /\ Reload(Top.timer)
  /\ stack' = Below
  /\ UNCHANGED owed

(* The running callback returns to its dispatcher.                         *)
CallbackReturns ==
  /\ stack # << >>
  /\ ProcessReturn \/ FireReturn \/ QueryReturn
  /\ UNCHANGED <<timers, conf>>

Next ==
  \/ \E t \in Timer : \/ xTimerCreate(t) \/ xTimerStart(t) \/ xTimerReset(t)
                      \/ xTimerStop(t) \/ xTimerDelete(t)
                      \/ xTimerChangePeriod(t) \/ xTimerIsTimerActive(t)
                      \/ mockFireTimer(t) \/ Elapse(t)
  \/ mockProcessTimers \/ mockClearTimers \/ CallbackReturns

Spec == Init /\ [][Next]_vars

-----------------------------------------------------------------------------
TypeOK ==
  /\ timers \in Seq(Timer)
  /\ \A i, j \in DOMAIN timers : timers[i] = timers[j] => i = j
  /\ autoReload \in [Timer -> BOOLEAN]
  /\ callback \in [Timer -> BOOLEAN]
  /\ period \in [Timer -> Period]
  /\ active \in [Timer -> BOOLEAN]
  /\ due \in [Timer -> BOOLEAN]
  /\ stack \in Seq([kind : {"process", "fire", "query"},
                    timer : Timer, index : Nat])
  /\ owed \in SUBSET Timer

(* The callback that ran in the step from stack to stack' has returned.    *)
Returned ==
  /\ stack # << >>
  /\ \/ Len(stack') < Len(stack)
     \/ stack'[Len(stack)] # Top

(* A one-shot timer that still exists is inactive once mockProcessTimers   *)
(* has fired it: test/timer_gtest.cpp:164 "one-shot should now be          *)
(* inactive".                                                              *)
OneShotInactiveAfterFiring ==
  [][Returned /\ Top.kind = "process" /\ Top.timer \in Live
       /\ ~autoReload[Top.timer] => ~active'[Top.timer]]_vars

(* A dispatcher settles the timer it fired and no other, whatever calls    *)
(* the callback made, dispatchers among them: it holds for callbacks that  *)
(* do not delete timers, so that timers[i] is still the timer fired.       *)
SettlesItsOwnTimer ==
  [][Returned => \A t \in Timer :
       active'[t] = (active[t] /\ (t = Top.timer => autoReload[t]))]_vars

(* One pass of mockProcessTimers fires every timer that was active with a  *)
(* callback when it began, unless a callback stopped or deleted it.        *)
PassServesAll == stack = << >> => owed = {}
=============================================================================
