----------------------------- MODULE TimeAlarms -----------------------------
(***************************************************************************)
(* src/TimeAlarms.h: alarms in a fixed number of slots, fired by the tick  *)
(* of Alarm.delay on the caller's own thread.                              *)
(*                                                                         *)
(* One thread; what makes it hard is that tick calls the callbacks while   *)
(* it goes over the slots, with a clock reading that it took before them,  *)
(* and that they may call the API, Alarm.delay included.  stack holds the  *)
(* calls of Alarm.delay, the innermost first.  A callback may be called    *)
(* anything; only whether a slot has one matters.                          *)
(***************************************************************************)
EXTENDS Integers, Sequences, FiniteSetsExt

CONSTANTS MaxAlarms,   (* the slots, 8 in the code                         *)
          Interval,    (* the periods clients ask for; 1 is one clock tick *)
          MaxTime,     (* bound: the clock stops there                     *)
          MaxDepth,    (* bound: nested calls of Alarm.delay               *)
          CallbackOp   (* the functions callbacks call                     *)

ASSUME TimeAlarmsAssumption ==
  /\ MaxAlarms \in Nat /\ MaxTime \in Nat /\ MaxDepth \in Nat
  /\ Interval \subseteq Nat

Slot == 0..(MaxAlarms - 1)
Time == 0..MaxTime

VARIABLES
  alarms,    (* _alarms                                                    *)
  nextId,    (* _nextId                                                    *)
  now,       (* the steady clock                                           *)
  stack,     (* the calls of delay                                         *)
  fired      (* history: when a slot last fired, as the tick saw it, or -1 *)
             (* if it has not since it was made or rescheduled, or if that *)
             (* was from within its own callback                           *)

vars == <<alarms, nextId, now, stack, fired>>

Alarm == [callback : BOOLEAN, interval : Interval \cup {0}, nextFire : Int,
          enabled : BOOLEAN, repeat : BOOLEAN]

(* slot is the one whose callback runs, MaxAlarms between two ticks; now   *)
(* is the tick's clock reading.  owed is history: the slots that were due  *)
(* when the tick began, were not served since and are not excused.         *)
Delay == [end : Time, now : Time, slot : 0..MaxAlarms, owed : SUBSET Slot]

Init ==
  /\ alarms = [i \in Slot |-> [callback |-> FALSE, interval |-> 0,
                 nextFire |-> 0, enabled |-> FALSE, repeat |-> FALSE]]
  /\ nextId = 0
  /\ now = 0
  /\ stack = << >>
  /\ fired = [i \in Slot |-> -1]

-----------------------------------------------------------------------------
InCallback == stack # << >> /\ stack[1].slot # MaxAlarms

(* The sketch, or the callback that runs, calls f.                         *)
Calls(f) == stack = << >> \/ (InCallback /\ f \in CallbackOp)

Running == {stack[n].slot : n \in DOMAIN stack}

(* A call about slot i excuses every tick from serving it.                 *)
Excuse(i) == stack' = [n \in DOMAIN stack |-> [stack[n] EXCEPT !.owed = @ \ {i}]]

(* Mutant of Create: > instead of >= in the test for a full table.         *)
CreateOnePastEnd(s, has, rep) ==
  /\ nextId <= MaxAlarms
  /\ alarms' = [alarms EXCEPT ![nextId] =
       [callback |-> has, interval |-> IF rep THEN s ELSE 0,
        nextFire |-> now + s, enabled |-> TRUE, repeat |-> rep]]
  /\ nextId' = nextId + 1
  /\ UNCHANGED <<now, stack, fired>>

(* timerRepeat and timerOnce; a full table answers dtINVALID_ALARM_ID.     *)
Create(s, has, rep) ==
  /\ nextId < MaxAlarms
  /\ alarms' = [alarms EXCEPT ![nextId] =
       [callback |-> has, interval |-> IF rep THEN s ELSE 0,
        nextFire |-> now + s, enabled |-> TRUE, repeat |-> rep]]
  /\ fired' = [fired EXCEPT ![nextId] = -1]
  /\ nextId' = nextId + 1
  /\ UNCHANGED <<now, stack>>

timerRepeat(s, has) == Calls("timerRepeat") /\ Create(s, has, TRUE)
timerOnce(s, has)   == Calls("timerOnce") /\ Create(s, has, FALSE)

enable(i) ==
  /\ Calls("enable")
  /\ alarms' = [alarms EXCEPT ![i].enabled = TRUE]
  /\ UNCHANGED <<nextId, now, stack, fired>>

disable(i) ==
  /\ Calls("disable")
  /\ alarms' = [alarms EXCEPT ![i].enabled = FALSE]
  /\ Excuse(i)
  /\ UNCHANGED <<nextId, now, fired>>

(* Mutant of free: the last slot handed out is taken back.                 *)
FreeAndReuse(i) ==
  /\ Calls("free") /\ i \notin Running
  /\ alarms' = [alarms EXCEPT ![i].callback = FALSE, ![i].enabled = FALSE]
  /\ nextId' = IF nextId > 0 THEN nextId - 1 ELSE 0
  /\ Excuse(i)
  /\ UNCHANGED <<now, fired>>

(* A callback that frees its own slot would be destroyed while it runs.    *)
free(i) ==
  /\ Calls("free") /\ i \notin Running
  /\ alarms' = [alarms EXCEPT ![i].callback = FALSE, ![i].enabled = FALSE]
  /\ Excuse(i)
  /\ UNCHANGED <<nextId, now, fired>>

write(i, s) ==
  /\ Calls("write")
  /\ alarms' = [alarms EXCEPT ![i].interval = s, ![i].nextFire = now + s]
  /\ fired' = [fired EXCEPT ![i] = -1]
  /\ Excuse(i)
  /\ UNCHANGED <<nextId, now>>

writeNextTrigger(i, s) ==
  /\ Calls("writeNextTrigger")
  /\ alarms' = [alarms EXCEPT ![i].nextFire = now + s]
  /\ fired' = [fired EXCEPT ![i] = -1]
  /\ Excuse(i)
  /\ UNCHANGED <<nextId, now>>

reset ==
  /\ Calls("reset") /\ Running \cap Slot = {}
  /\ nextId' = 0
  /\ alarms' = [i \in Slot |-> [alarms[i] EXCEPT !.callback = FALSE,
                                                 !.enabled = FALSE]]
  /\ UNCHANGED <<now, stack, fired>>

-----------------------------------------------------------------------------
Due(a, t) == a.enabled /\ a.callback /\ t >= a.nextFire

(* Mutant of Scan: only the first slot that is left is looked at.          *)
ScanOne(d, i, table) ==
  IF i < MaxAlarms /\ Due(table[i], d.now) THEN [d EXCEPT !.slot = i]
                                           ELSE [d EXCEPT !.slot = MaxAlarms]

(* The tick of the innermost delay d goes on from slot i: it fires the     *)
(* first slot that is due, or ends.                                        *)
Scan(d, i, table) ==
  LET due == {j \in i..(MaxAlarms - 1) : Due(table[j], d.now)}
  IN  IF due = {} THEN [d EXCEPT !.slot = MaxAlarms]
                  ELSE [d EXCEPT !.slot = Min(due)]

(* d, as Scan left it, is the innermost delay again; a slot that fires is  *)
(* owed by nobody any more.                                                *)
Enter(d, below) ==
  /\ stack' = <<[d EXCEPT !.owed = @ \ {d.slot}]>> \o
       [n \in DOMAIN below |-> [below[n] EXCEPT !.owed = @ \ {d.slot}]]
  /\ fired' = [i \in Slot |-> IF i # d.slot THEN fired[i]
                              ELSE IF \E n \in DOMAIN below : below[n].slot = i
                              THEN -1 ELSE d.now]

delay(ms) ==
  /\ Calls("delay") /\ Len(stack) < MaxDepth
  /\ now + ms <= MaxTime
  /\ stack' = <<[end |-> now + ms, now |-> now, slot |-> MaxAlarms,
                 owed |-> {}]>> \o stack
  /\ UNCHANGED <<alarms, nextId, now, fired>>

Ticking == stack # << >> /\ stack[1].slot = MaxAlarms

tick ==
  /\ Ticking /\ now < stack[1].end
  /\ LET due == {i \in Slot : Due(alarms[i], now)}
         d   == [stack[1] EXCEPT !.now = now, !.owed = due]
     IN  Enter(Scan(d, 0, alarms), Tail(stack))
  /\ UNCHANGED <<alarms, nextId, now>>

DelayReturns ==
  /\ Ticking /\ now >= stack[1].end
  /\ stack' = Tail(stack)
  /\ UNCHANGED <<alarms, nextId, now, fired>>

(* Mutant of Settle: the next firing is counted from the last due time.    *)
SettleFromDue(a, t) == IF a.repeat THEN [a EXCEPT !.nextFire = @ + a.interval]
                                   ELSE [a EXCEPT !.enabled = FALSE]

(* What tick does to the alarm whose callback has returned.                *)
Settle(a, t) == IF a.repeat THEN [a EXCEPT !.nextFire = t + a.interval]
                            ELSE [a EXCEPT !.enabled = FALSE]

CallbackReturns ==
  /\ InCallback
  /\ LET d == stack[1]
         table == [alarms EXCEPT ![d.slot] = Settle(@, d.now)]
     IN  /\ alarms' = table
         /\ Enter(Scan(d, d.slot + 1, table), Tail(stack))
  /\ UNCHANGED <<nextId, now>>

(* Time passes in the callbacks and in the sleep between two ticks.        *)
Elapse == /\ now < MaxTime
          /\ now' = now + 1
          /\ UNCHANGED <<alarms, nextId, stack, fired>>

Next ==
  \/ \E s \in Interval, has \in BOOLEAN : timerRepeat(s, has) \/ timerOnce(s, has)
  \/ \E i \in Slot : enable(i) \/ disable(i) \/ free(i)
  \/ \E i \in Slot, s \in Interval : write(i, s) \/ writeNextTrigger(i, s)
  \/ \E ms \in Interval : delay(ms)
  \/ reset \/ tick \/ DelayReturns \/ CallbackReturns \/ Elapse

Spec == Init /\ [][Next]_vars

-----------------------------------------------------------------------------
TypeOK ==
  /\ alarms \in [Slot -> Alarm]
  /\ nextId \in 0..MaxAlarms
  /\ now \in Time
  /\ stack \in Seq(Delay)
  /\ fired \in [Slot -> Time \cup {-1}]

(* A new alarm never takes the slot of one that is still there: the slots  *)
(* not handed out yet have no callbacks, whatever was freed or enabled.    *)
FreshSlots == \A i \in Slot : i >= nextId => ~alarms[i].callback

(* A tick serves every alarm that was due when it began, unless a callback *)
(* disables, frees, reschedules or replaces it first.                      *)
TickServesDue == \A n \in DOMAIN stack :
                   stack[n].slot = MaxAlarms => stack[n].owed = {}

(* Two firings of a repeating alarm lie its interval apart, on the clock   *)
(* the ticks read, however late the first was and whatever callbacks of    *)
(* other alarms do meanwhile.  Not if one of the two came from within the  *)
(* alarm's own callback: an alarm whose callback delays is still due, and  *)
(* its firing again is no interval away from that of the callback.         *)
Spaced ==
  [][\A i \in Slot :
       fired'[i] # fired[i] /\ fired[i] # -1 /\ fired'[i] # -1 /\ alarms[i].repeat
         => fired'[i] >= fired[i] + alarms[i].interval]_vars

(* test/time_alarms_gtest.cpp:108: a one-shot alarm fires once.  Its       *)
(* callback does not run inside of its callback.                           *)
OneShotFiresOnce ==
  \A m, n \in DOMAIN stack :
    m # n /\ stack[m].slot = stack[n].slot /\ stack[m].slot # MaxAlarms
      => alarms[stack[m].slot].repeat
=============================================================================
