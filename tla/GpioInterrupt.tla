--------------------------- MODULE GpioInterrupt ---------------------------
(* The pins of Arduino.h: levels, and interrupt routines that              *)
(* mockSetPinState calls, which call the GPIO functions themselves.        *)
EXTENDS Naturals, Sequences, SequencesExt

CONSTANTS Pin,
          Level,          \* what the pins are set to: any uint8_t
          Off,            \* no routine is attached
          MaxDepth        \* bound: routines that run inside of one another

LOW  == 0
HIGH == 1
Mode == {"CHANGE", "RISING", "FALLING", "LOW"}

VARIABLES pin_state, isr_table,
          running,        \* the pins whose routines run, the innermost last
          stored          \* history: levels a pin has had since its routine
                          \* was called last

gpioVars == <<pin_state, isr_table, running, stored>>

Init ==
  /\ pin_state = [p \in Pin |-> LOW]
  /\ isr_table = [p \in Pin |-> Off]
  /\ running = <<>>
  /\ stored = [p \in Pin |-> {LOW}]

(* Replacing or erasing a routine that runs destroys the callable under    *)
(* its feet: undefined behaviour, which the clients avoid.                 *)
Replaceable(p) == p \notin ToSet(running)

attachInterrupt(p, mode) ==
  /\ Replaceable(p)
  /\ isr_table' = [isr_table EXCEPT ![p] = mode]
  /\ UNCHANGED <<pin_state, running, stored>>

detachInterrupt(p) == attachInterrupt(p, Off)

digitalWrite(p, val) ==
  /\ pin_state' = [pin_state EXCEPT ![p] = val]
  /\ stored' = [stored EXCEPT ![p] = @ \cup {val}]
  /\ UNCHANGED <<isr_table, running>>

(* Mutant of Fires: looks at the new level only.                           *)
FiresOnLevel(mode, prev, value) ==
  \/ mode = "CHANGE"  /\ prev # value
  \/ mode = "RISING"  /\ value = HIGH
  \/ mode \in {"FALLING", "LOW"} /\ value = LOW

Fires(mode, prev, value) ==
  \/ mode = "CHANGE"  /\ prev # value
  \/ mode = "RISING"  /\ prev = LOW /\ value = HIGH
  \/ mode = "FALLING" /\ prev = HIGH /\ value = LOW
  \/ mode = "LOW"     /\ value = LOW

mockSetPinState(p, value) ==
  \/ ~Fires(isr_table[p], pin_state[p], value) /\ digitalWrite(p, value)
  \/ /\ Fires(isr_table[p], pin_state[p], value)
     /\ pin_state' = [pin_state EXCEPT ![p] = value]
     /\ Len(running) < MaxDepth
     /\ running' = Append(running, p)
     /\ stored' = [stored EXCEPT ![p] = {value}]
     /\ UNCHANGED isr_table

RoutineReturns ==
  /\ running # <<>>
  /\ running' = Front(running)
  /\ UNCHANGED <<pin_state, isr_table, stored>>

mockResetGpio ==
  /\ running = <<>>
  /\ pin_state' = [p \in Pin |-> LOW]
  /\ isr_table' = [p \in Pin |-> Off]
  /\ stored' = [p \in Pin |-> stored[p] \cup {LOW}]
  /\ UNCHANGED running

Next ==
  \/ \E p \in Pin :
       \/ \E mode \in Mode : attachInterrupt(p, mode)
       \/ detachInterrupt(p)
       \/ \E v \in Level : digitalWrite(p, v) \/ mockSetPinState(p, v)
  \/ RoutineReturns \/ mockResetGpio

Spec == Init /\ [][Next]_gpioVars
-----------------------------------------------------------------------------
TypeOK ==
  /\ pin_state \in [Pin -> Level]
  /\ isr_table \in [Pin -> Mode \cup {Off}]
  /\ running \in BoundedSeq(Pin, MaxDepth)
  /\ stored \in [Pin -> SUBSET Level]

(* A routine that waits for an edge is called again only after the pin has *)
(* been at the other level since its last call, whatever the routines that *)
(* run in between write, and whatever mode it is attached with by then.    *)
EdgesAlternate ==
  [][\A p \in Pin : running' = Append(running, p) =>
       CASE isr_table[p] = "RISING"  -> LOW \in stored[p]
         [] isr_table[p] = "FALLING" -> HIGH \in stored[p]
         [] isr_table[p] = "CHANGE"  -> stored[p] # {pin_state'[p]}
         [] OTHER                    -> TRUE]_gpioVars
=============================================================================
