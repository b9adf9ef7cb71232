-------------------------- MODULE TimeAlarmsProofs --------------------------
(***************************************************************************)
(* Theorems about TimeAlarms, for any number of slots and any intervals.   *)
(***************************************************************************)
EXTENDS TimeAlarms, SequenceTheorems, WellFoundedInduction, TLAPS

(* What a tick still owes lies ahead of the slot it has come to, and is    *)
(* still due for it; no tick owes a slot to a callback that runs inside of *)
(* it.                                                                     *)
Owed ==
  \A n \in DOMAIN stack :
    /\ \A j \in stack[n].owed : Due(alarms[j], stack[n].now) /\ j > stack[n].slot
    /\ \A k \in DOMAIN stack : k > n => stack[n].slot \notin stack[k].owed

IInv == TypeOK /\ FreshSlots /\ Owed

-----------------------------------------------------------------------------
(* A set of natural numbers that is not empty has a least element, ...     *)
LEMMA LeastNatural ==
  ASSUME NEW T \in SUBSET Nat, T # {}
  PROVE  \E x \in T : \A y \in T : x <= y
<1> DEFINE R == {ss \in Nat \X Nat : ss[1] < ss[2]}
<1>1. IsWellFoundedOn(R, Nat)
  BY NatLessThanWellFounded DEF OpToRel
<1>2. PICK x \in T : \A y \in T : ~(<<y, x>> \in R)
  <2> HIDE DEF R
  <2>1. QED  BY <1>1, WFMin
<1>3. ASSUME NEW y \in T  PROVE x <= y
  <2>1. x \in Nat /\ y \in Nat  OBVIOUS
  <2>2. <<y, x>>[1] = y /\ <<y, x>>[2] = x  OBVIOUS
  <2>3. ~(y < x)
    <3>1. <<y, x>> \in Nat \X Nat  BY <2>1
    <3>2. SUFFICES ASSUME y < x PROVE FALSE
      OBVIOUS
    <3>3. <<y, x>> \in R  BY <2>2, <3>1, <3>2, Zenon
    <3>4. QED  BY <1>2, <3>3, Zenon
  <2>4. QED  BY <2>1, <2>3
<1>4. QED  BY <1>3

(* ... which is the one that Min chooses.                                  *)
LEMMA LeastIsMin ==
  ASSUME NEW T \in SUBSET Nat, T # {}
  PROVE  Min(T) \in T /\ \A y \in T : Min(T) <= y
BY LeastNatural DEF Min

(* What Scan does: it passes over no slot that is due.                     *)
LEMMA ScanFinds ==
  ASSUME NEW e \in Delay, NEW i \in 0..MaxAlarms,
         NEW table \in [Slot -> Alarm],
         NEW d, d = Scan(e, i, table)
  PROVE  /\ d \in Delay
         /\ d.end = e.end /\ d.now = e.now /\ d.owed = e.owed
         /\ \A j \in Slot : j >= i /\ Due(table[j], e.now) => d.slot <= j
<1> DEFINE due == {j \in i..(MaxAlarms - 1) : Due(table[j], e.now)}
<1>1. MaxAlarms \in Nat
  BY TimeAlarmsAssumption
<1>2. due \in SUBSET Nat /\ due \subseteq Slot
  BY <1>1 DEF Slot
<1>3. \A j \in Slot : j >= i /\ Due(table[j], e.now) => j \in due
  BY <1>1 DEF Slot
<1>4. d = IF due = {} THEN [e EXCEPT !.slot = MaxAlarms]
                      ELSE [e EXCEPT !.slot = Min(due)]
  BY DEF Scan
<1> HIDE DEF due
<1>5. CASE due = {}
  BY <1>1, <1>3, <1>4, <1>5 DEF Delay, Slot
<1>6. CASE due # {}
  <2>1. Min(due) \in due /\ \A j \in due : Min(due) <= j
    BY <1>2, <1>6, LeastIsMin
  <2>2. Min(due) \in 0..MaxAlarms
    <3>1. \A j \in Slot : j \in 0..MaxAlarms  BY <1>1 DEF Slot
    <3>2. Min(due) \in Slot  BY <1>2, <2>1
    <3>3. QED  BY <3>1, <3>2
  <2>3. d = [e EXCEPT !.slot = Min(due)]
    BY <1>4, <1>6
  <2>4. QED  BY <1>3, <2>1, <2>2, <2>3 DEF Delay
<1>7. QED  BY <1>5, <1>6

-----------------------------------------------------------------------------
(* The delays of a stack, when none of them owes slot i any more.          *)
Without(q, i) == [n \in DOMAIN q |-> [q[n] EXCEPT !.owed = @ \ {i}]]

(* They are the same but for what they owe.                                *)
LEMMA LessOwed ==
  ASSUME NEW q \in Seq(Delay), NEW i,
         NEW r, r = Without(q, i)
  PROVE  /\ r \in Seq(Delay) /\ Len(r) = Len(q)
         /\ DOMAIN r = DOMAIN q /\ DOMAIN q = 1..Len(q)
         /\ \A n \in DOMAIN q :
              /\ q[n] \in Delay /\ r[n] \in Delay
              /\ r[n].now = q[n].now /\ r[n].slot = q[n].slot
              /\ r[n].owed = q[n].owed \ {i}
<1>1. Len(q) \in Nat /\ DOMAIN q = 1..Len(q) /\ \A n \in DOMAIN q : q[n] \in Delay
  OBVIOUS
<1>2. ASSUME NEW n \in DOMAIN q
      PROVE  /\ q[n] \in Delay /\ r[n] \in Delay
             /\ r[n].now = q[n].now /\ r[n].slot = q[n].slot
             /\ r[n].owed = q[n].owed \ {i}
  BY <1>1 DEF Delay, Without
<1>3. r \in [1..Len(q) -> Delay]
  BY <1>1, <1>2 DEF Without
<1>4. r \in Seq(Delay) /\ Len(r) = Len(q)
  BY <1>1, <1>3
<1>5. QED  BY <1>1, <1>2, <1>3, <1>4

(* A call about slot i leaves what is still owed in order, if it leaves    *)
(* the other slots alone.                                                  *)
LEMMA ExcuseKeepsOwed ==
  ASSUME TypeOK, Owed, NEW i \in Slot, Excuse(i),
         \A j \in Slot \ {i} : alarms'[j] = alarms[j]
  PROVE  stack' \in Seq(Delay) /\ Owed'
<1>1. stack \in Seq(Delay)  BY DEF TypeOK
<1>2. /\ stack' \in Seq(Delay) /\ DOMAIN stack' = DOMAIN stack
      /\ \A n \in DOMAIN stack :
           /\ stack[n] \in Delay
           /\ stack'[n].now = stack[n].now /\ stack'[n].slot = stack[n].slot
           /\ stack'[n].owed = stack[n].owed \ {i}
  <2>1. stack' = Without(stack, i)  BY DEF Excuse, Without
  <2>2. QED  BY <1>1, <2>1, LessOwed
<1>3. ASSUME NEW n \in DOMAIN stack'
      PROVE  /\ \A j \in stack'[n].owed : /\ Due(alarms'[j], stack'[n].now)
                                         /\ j > stack'[n].slot
             /\ \A k \in DOMAIN stack' :
                  k > n => stack'[n].slot \notin stack'[k].owed
  <2>1. stack[n] \in Delay /\ stack[n].owed \subseteq Slot
    BY <1>2 DEF Delay
  <2>2. ASSUME NEW j \in stack'[n].owed
        PROVE  Due(alarms'[j], stack'[n].now) /\ j > stack'[n].slot
    <3>1. j \in stack[n].owed /\ alarms'[j] = alarms[j]
      BY <1>2, <2>1
    <3>2. QED  BY <1>2, <3>1 DEF Owed
  <2>3. QED  BY <1>2, <2>2 DEF Owed
<1>4. QED  BY <1>2, <1>3 DEF Owed

(* What Enter makes of the stack and of the history.                       *)
LEMMA EnterStack ==
  ASSUME stack \in Seq(Delay), stack # << >>, NEW d \in Delay, Enter(d, Tail(stack))
  PROVE  /\ stack' \in Seq(Delay) /\ DOMAIN stack' = DOMAIN stack
         /\ DOMAIN stack \subseteq Nat /\ 1 \in DOMAIN stack
         /\ \A n \in DOMAIN stack : n = 1 \/ n > 1
         /\ stack'[1] = [d EXCEPT !.owed = @ \ {d.slot}]
         /\ \A n \in DOMAIN stack : n > 1 =>
              /\ stack[n] \in Delay
              /\ stack'[n].now = stack[n].now /\ stack'[n].slot = stack[n].slot
              /\ stack'[n].owed = stack[n].owed \ {d.slot}
         /\ \A k \in Slot :
              fired'[k] = IF k # d.slot THEN fired[k]
                          ELSE IF \E n \in DOMAIN stack : n > 1 /\ stack[n].slot = k
                          THEN -1 ELSE d.now
<1> DEFINE f == [d EXCEPT !.owed = @ \ {d.slot}]
           below == Tail(stack)
           r == Without(below, d.slot)
<1>1. /\ below \in Seq(Delay) /\ Len(below) = Len(stack) - 1
      /\ Len(stack) \in Nat /\ Len(stack) >= 1 /\ DOMAIN stack = 1..Len(stack)
      /\ DOMAIN below = 1..(Len(stack) - 1)
      /\ \A n \in DOMAIN below : /\ n + 1 \in DOMAIN stack /\ n + 1 > 1
                                /\ below[n] = stack[n + 1]
  OBVIOUS
<1>2. \A n \in DOMAIN stack : n > 1 => n - 1 \in DOMAIN below /\ below[n - 1] = stack[n]
  BY <1>1
<1>3. /\ stack' = <<f>> \o r
      /\ fired' = [k \in Slot |-> IF k # d.slot THEN fired[k]
                                  ELSE IF \E n \in DOMAIN below : below[n].slot = k
                                  THEN -1 ELSE d.now]
  BY DEF Enter, Without
<1> HIDE DEF below
<1>4. f \in Delay
  BY DEF Delay
<1>5. /\ r \in Seq(Delay) /\ Len(r) = Len(below)
      /\ \A n \in DOMAIN below :
           /\ r[n].now = below[n].now /\ r[n].slot = below[n].slot
           /\ r[n].owed = below[n].owed \ {d.slot}
  BY <1>1, LessOwed
<1> HIDE DEF f, r
<1>6. /\ stack' \in Seq(Delay) /\ DOMAIN stack' = DOMAIN stack /\ stack'[1] = f
      /\ \A n \in DOMAIN stack : n > 1 => stack'[n] = r[n - 1]
  <2>1. /\ <<f>> \in Seq(Delay) /\ Len(<<f>>) = 1 /\ <<f>>[1] = f
        /\ Len(r) \in Nat /\ 1 + Len(r) = Len(stack)
    BY <1>1, <1>4, <1>5
  <2>2. stack' \in Seq(Delay) /\ Len(stack') = 1 + Len(r)
    BY <1>3, <1>5, <2>1
  <2>3. \A n \in 1..(1 + Len(r)) : stack'[n] = IF n <= 1 THEN f ELSE r[n - 1]
    BY <1>3, <1>5, <2>1
  <2>4. DOMAIN stack' = 1..(1 + Len(r))
    BY <2>1, <2>2
  <2> QED BY <1>1, <2>1, <2>2, <2>3, <2>4
<1>7. ASSUME NEW n \in DOMAIN stack, n > 1
      PROVE  /\ stack[n] \in Delay
             /\ stack'[n].now = stack[n].now /\ stack'[n].slot = stack[n].slot
             /\ stack'[n].owed = stack[n].owed \ {d.slot}
  <2>1. n - 1 \in DOMAIN below /\ below[n - 1] = stack[n] /\ stack'[n] = r[n - 1]
    BY <1>2, <1>6, <1>7
  <2>2. stack[n] \in Delay
    OBVIOUS
  <2> QED BY <1>5, <2>1, <2>2
<1>8. ASSUME NEW k \in Slot
      PROVE  (\E n \in DOMAIN below : below[n].slot = k) <=>
               (\E n \in DOMAIN stack : n > 1 /\ stack[n].slot = k)
  BY <1>1, <1>2
<1>9. DOMAIN stack \subseteq Nat /\ 1 \in DOMAIN stack /\ \A n \in DOMAIN stack : n = 1 \/ n > 1
  BY <1>1
<1> QED BY <1>3, <1>6, <1>7, <1>8, <1>9 DEF f

(* The tick enters the next slot that is due: the delays below owe that    *)
(* slot no more, and it was the first that the tick itself owed.           *)
LEMMA EnterKeepsOwed ==
  ASSUME TypeOK, Owed, stack # << >>,
         NEW e \in Delay, NEW i \in 0..MaxAlarms,
         alarms' \in [Slot -> Alarm],
         \A j \in e.owed : Due(alarms'[j], e.now) /\ j >= i,
         \A n \in DOMAIN stack : n > 1 =>
           \A j \in stack[n].owed : Due(alarms'[j], stack[n].now),
         Enter(Scan(e, i, alarms'), Tail(stack))
  PROVE  stack' \in Seq(Delay) /\ fired' \in [Slot -> Time \cup {-1}] /\ Owed'
<1> DEFINE d == Scan(e, i, alarms')
           f == [d EXCEPT !.owed = @ \ {d.slot}]
<1>1. stack \in Seq(Delay)
  BY DEF TypeOK
<1>2. /\ d \in Delay /\ d.now = e.now /\ d.owed = e.owed
      /\ \A j \in Slot : j >= i /\ Due(alarms'[j], e.now) => d.slot <= j
  BY ScanFinds
<1>3. Enter(d, Tail(stack))
  OBVIOUS
<1> HIDE DEF d
<1>4. f.now = d.now /\ f.slot = d.slot /\ f.owed = d.owed \ {d.slot}
  BY <1>2 DEF Delay
<1>5. fired' \in [Slot -> Time \cup {-1}]
  <2>1. d.now \in Time  BY <1>2 DEF Delay
  <2>2. QED  BY <1>3, <2>1 DEF Enter, TypeOK
<1>6. /\ stack' \in Seq(Delay) /\ DOMAIN stack' = DOMAIN stack /\ DOMAIN stack \subseteq Nat
      /\ \A n \in DOMAIN stack : n = 1 \/ n > 1
      /\ stack'[1] = f
  BY <1>1, <1>2, <1>3, EnterStack
<1>7. /\ DOMAIN stack' \subseteq Nat
      /\ \A n \in DOMAIN stack' : (n = 1 /\ stack'[n] = f) \/ n > 1
  BY <1>6
<1>8. ASSUME NEW n \in DOMAIN stack', n > 1
      PROVE  /\ n \in DOMAIN stack /\ stack[n] \in Delay
             /\ stack'[n].now = stack[n].now /\ stack'[n].slot = stack[n].slot
             /\ stack'[n].owed = stack[n].owed \ {d.slot}
  BY <1>1, <1>2, <1>3, <1>6, <1>8, EnterStack
<1> HIDE DEF f
<1>9. ASSUME NEW n \in DOMAIN stack'
      PROVE  \A j \in stack'[n].owed : /\ Due(alarms'[j], stack'[n].now)
                                       /\ j > stack'[n].slot
  <2>1. CASE n = 1 /\ stack'[n] = f
    <3>1. ASSUME NEW j \in f.owed
          PROVE  Due(alarms'[j], f.now) /\ j > f.slot
      <4>1. j \in e.owed /\ j \in d.owed /\ j # d.slot
        BY <1>2, <1>4
      <4>2. j \in Slot /\ e.owed \subseteq Slot
        BY <4>1 DEF Delay
      <4>3. Due(alarms'[j], e.now) /\ j >= i
        BY <4>1
      <4>4. d.slot <= j  BY <1>2, <4>2, <4>3
      <4>5. d.slot \in Int /\ j \in Int
        BY <1>2, <4>2, TimeAlarmsAssumption DEF Delay, Slot
      <4>6. QED  BY <1>2, <1>4, <4>1, <4>3, <4>4, <4>5
    <3>2. QED  BY <2>1, <3>1
  <2>2. CASE n > 1
    <3>1. ASSUME NEW j \in stack'[n].owed
          PROVE  Due(alarms'[j], stack'[n].now) /\ j > stack'[n].slot
      <4>1. j \in stack[n].owed /\ n \in DOMAIN stack
        BY <1>8, <2>2
      <4>2. Due(alarms'[j], stack[n].now)  BY <2>2, <4>1
      <4>3. j > stack[n].slot  BY <4>1 DEF Owed
      <4>4. QED  BY <1>8, <2>2, <4>2, <4>3
    <3>2. QED  BY <3>1
  <2>3. QED  BY <1>7, <2>1, <2>2
<1>10. ASSUME NEW n \in DOMAIN stack', NEW k \in DOMAIN stack', k > n
       PROVE  stack'[n].slot \notin stack'[k].owed
  <2>1. n \in Nat /\ k \in Nat /\ (n = 1 \/ n > 1) /\ k > 1
    <3>1. n \in Nat /\ k \in Nat /\ (n = 1 \/ n > 1)  BY <1>7
    <3>2. QED  BY <1>10, <3>1
  <2>2. CASE n = 1
    <3>1. stack'[n] = f  BY <1>7, <2>2
    <3>2. QED  BY <1>4, <1>8, <2>1, <3>1
  <2>3. CASE n > 1
    BY <1>8, <1>10, <2>1, <2>3 DEF Owed
  <2>4. QED  BY <2>1, <2>2, <2>3
<1>11. Owed'
  BY <1>9, <1>10 DEF Owed
<1>12. QED  BY <1>5, <1>6, <1>11

-----------------------------------------------------------------------------
(* No alarm has been made and no delay called.                             *)
LEMMA InitIInv == Init => IInv
<1> SUFFICES ASSUME Init PROVE IInv
  OBVIOUS
<1> USE TimeAlarmsAssumption
<1>1. stack = << >> /\ << >> \in Seq(Delay) /\ DOMAIN stack = {}
  <2>1. DOMAIN << >> = {}  OBVIOUS
  <2>2. QED  BY <2>1 DEF Init
<1>2. [callback |-> FALSE, interval |-> 0, nextFire |-> 0,
       enabled |-> FALSE, repeat |-> FALSE] \in Alarm
  BY DEF Alarm
<1>3. alarms \in [Slot -> Alarm]
  BY <1>2 DEF Init
<1>4. nextId \in 0..MaxAlarms /\ now \in Time /\ fired \in [Slot -> Time \cup {-1}]
  BY DEF Init, Time
<1>5. FreshSlots
  BY DEF Init, FreshSlots
<1>6. QED  BY <1>1, <1>3, <1>4, <1>5 DEF IInv, TypeOK, Owed

(* A new alarm takes a slot without a callback, which no tick owes.        *)
LEMMA CreateStep ==
  ASSUME IInv, NEW s \in Interval, NEW has \in BOOLEAN, NEW rep \in BOOLEAN,
         Create(s, has, rep)
  PROVE  IInv'
<1> USE TimeAlarmsAssumption
<1> DEFINE a == [callback |-> has, interval |-> IF rep THEN s ELSE 0,
                 nextFire |-> now + s, enabled |-> TRUE, repeat |-> rep]
<1>1. /\ nextId \in Slot /\ nextId \in Nat /\ nextId < MaxAlarms
      /\ alarms' = [alarms EXCEPT ![nextId] = a] /\ nextId' = nextId + 1
      /\ fired' = [fired EXCEPT ![nextId] = -1] /\ UNCHANGED <<now, stack>>
  BY DEF IInv, TypeOK, Create, Slot
<1>2. a \in Alarm
  <2>1. now + s \in Int  BY DEF IInv, TypeOK, Time
  <2>2. QED  BY <2>1 DEF Alarm
<1> HIDE DEF a
<1>3. alarms' \in [Slot -> Alarm] /\ \A j \in Slot \ {nextId} : alarms'[j] = alarms[j]
  BY <1>1, <1>2 DEF IInv, TypeOK
<1>4. TypeOK'
  <2>1. nextId' \in 0..MaxAlarms  BY <1>1
  <2>2. fired' \in [Slot -> Time \cup {-1}]
    BY <1>1 DEF IInv, TypeOK
  <2>3. QED  BY <1>1, <1>3, <2>1, <2>2 DEF IInv, TypeOK
<1>5. FreshSlots'
  <2>1. ASSUME NEW i \in Slot, i >= nextId'  PROVE ~alarms'[i].callback
    <3>1. i >= nextId /\ i # nextId
      BY <1>1, <2>1 DEF Slot
    <3>2. QED  BY <1>3, <3>1 DEF IInv, FreshSlots
  <2>2. QED  BY <2>1 DEF FreshSlots
<1>6. Owed'
  <2>1. ASSUME NEW n \in DOMAIN stack, NEW j \in stack[n].owed
        PROVE  Due(alarms'[j], stack[n].now)
    <3>1. Due(alarms[j], stack[n].now)  BY DEF IInv, Owed
    <3>2. stack[n] \in Delay  BY DEF IInv, TypeOK
    <3>3. j \in Slot  BY <3>2 DEF Delay
    <3>4. ~alarms[nextId].callback
      BY <1>1 DEF IInv, FreshSlots
    <3>5. j # nextId  BY <3>1, <3>4 DEF Due
    <3>6. QED  BY <1>3, <3>1, <3>3, <3>5
  <2>2. QED  BY <1>1, <2>1 DEF IInv, Owed
<1>7. QED  BY <1>4, <1>5, <1>6 DEF IInv

(* Calls about a slot that is already there.                               *)
LEMMA SlotStep ==
  ASSUME IInv, NEW i \in Slot,
         \/ enable(i) \/ disable(i) \/ free(i)
         \/ \E s \in Interval : write(i, s) \/ writeNextTrigger(i, s)
  PROVE  IInv'
<1> USE TimeAlarmsAssumption
<1>1. alarms \in [Slot -> Alarm] /\ alarms[i] \in Alarm /\ now \in Nat
  BY DEF IInv, TypeOK, Time
<1>2. /\ alarms' \in [Slot -> Alarm]
      /\ \A j \in Slot \ {i} : alarms'[j] = alarms[j]
      /\ alarms'[i].callback => alarms[i].callback
      /\ UNCHANGED <<nextId, now>>
      /\ fired' \in [Slot -> Time \cup {-1}]
  <2>1. CASE enable(i)
    BY <1>1, <2>1 DEF enable, Alarm, IInv, TypeOK
  <2>2. CASE disable(i)
    BY <1>1, <2>2 DEF disable, Alarm, IInv, TypeOK
  <2>3. CASE free(i)
    BY <1>1, <2>3 DEF free, Alarm, IInv, TypeOK
  <2>4. ASSUME NEW s \in Interval, write(i, s)
        PROVE  /\ alarms' \in [Slot -> Alarm]
               /\ \A j \in Slot \ {i} : alarms'[j] = alarms[j]
               /\ alarms'[i].callback => alarms[i].callback
               /\ UNCHANGED <<nextId, now>>
               /\ fired' \in [Slot -> Time \cup {-1}]
    <3>1. s \in Interval \cup {0} /\ now + s \in Int  BY <1>1
    <3>2. [alarms[i] EXCEPT !.interval = s, !.nextFire = now + s] \in Alarm
      BY <1>1, <3>1 DEF Alarm
    <3>3. /\ alarms' = [alarms EXCEPT ![i] =
                [alarms[i] EXCEPT !.interval = s, !.nextFire = now + s]]
          /\ fired' = [fired EXCEPT ![i] = -1]
          /\ UNCHANGED <<nextId, now>>
      BY <1>1, <2>4 DEF write, Alarm
    <3>4. [alarms[i] EXCEPT !.interval = s, !.nextFire = now + s].callback
            = alarms[i].callback
      BY <1>1 DEF Alarm
    <3>5. fired' \in [Slot -> Time \cup {-1}]
      BY <3>3 DEF IInv, TypeOK
    <3>6. QED  BY <1>1, <3>2, <3>3, <3>4, <3>5
  <2>5. ASSUME NEW s \in Interval, writeNextTrigger(i, s)
        PROVE  /\ alarms' \in [Slot -> Alarm]
               /\ \A j \in Slot \ {i} : alarms'[j] = alarms[j]
               /\ alarms'[i].callback => alarms[i].callback
               /\ UNCHANGED <<nextId, now>>
               /\ fired' \in [Slot -> Time \cup {-1}]
    <3>1. now + s \in Int  BY <1>1
    <3>2. [alarms[i] EXCEPT !.nextFire = now + s] \in Alarm
      BY <1>1, <3>1 DEF Alarm
    <3>3. /\ alarms' = [alarms EXCEPT ![i] =
                [alarms[i] EXCEPT !.nextFire = now + s]]
          /\ fired' = [fired EXCEPT ![i] = -1]
          /\ UNCHANGED <<nextId, now>>
      BY <1>1, <2>5 DEF writeNextTrigger, Alarm
    <3>4. [alarms[i] EXCEPT !.nextFire = now + s].callback = alarms[i].callback
      BY <1>1 DEF Alarm
    <3>5. fired' \in [Slot -> Time \cup {-1}]
      BY <3>3 DEF IInv, TypeOK
    <3>6. QED  BY <1>1, <3>2, <3>3, <3>4, <3>5
  <2>6. QED  BY <2>1, <2>2, <2>3, <2>4, <2>5
<1>3. FreshSlots'
  BY <1>2 DEF IInv, FreshSlots
<1>4. stack' \in Seq(Delay) /\ Owed'
  <2>1. CASE enable(i)
    <3>1. stack' = stack /\ \A j \in Slot, t \in Int : Due(alarms[j], t) => Due(alarms'[j], t)
      BY <1>1, <2>1 DEF enable, Due, Alarm
    <3>2. \A n \in DOMAIN stack : stack[n].owed \subseteq Slot /\ stack[n].now \in Int
      <4>1. \A n \in DOMAIN stack : stack[n] \in Delay  BY DEF IInv, TypeOK
      <4>2. Time \subseteq Int  BY DEF Time
      <4>3. QED  BY <4>1, <4>2 DEF Delay
    <3>3. QED  BY <3>1, <3>2 DEF IInv, TypeOK, Owed
  <2>2. CASE Excuse(i)
    BY <1>2, <2>2, ExcuseKeepsOwed DEF IInv
  <2>3. QED  BY <2>1, <2>2 DEF disable, free, write, writeNextTrigger
<1>5. QED  BY <1>2, <1>3, <1>4 DEF IInv, TypeOK

(* A reset from within a callback is not modelled, so no tick is under way.*)
LEMMA ResetStep == IInv /\ reset => IInv'
<1> SUFFICES ASSUME IInv, reset  PROVE IInv'
  OBVIOUS
<1> USE TimeAlarmsAssumption
<1>1. stack = << >>
  <2>1. SUFFICES ASSUME stack # << >>  PROVE FALSE
    OBVIOUS
  <2>2. 1 \in DOMAIN stack /\ stack[1] \in Delay
    BY <2>1 DEF IInv, TypeOK
  <2>3. stack[1].slot \in 0..MaxAlarms /\ stack[1].slot # MaxAlarms
    BY <2>1, <2>2 DEF reset, Calls, InCallback, Delay
  <2>4. stack[1].slot \in Slot
    BY <2>3 DEF Slot
  <2>5. QED  BY <2>2, <2>4 DEF reset, Running
<1>2. \A i \in Slot : /\ [alarms[i] EXCEPT !.callback = FALSE,
                                          !.enabled = FALSE] \in Alarm
                     /\ ~[alarms[i] EXCEPT !.callback = FALSE,
                                           !.enabled = FALSE].callback
  BY DEF IInv, TypeOK, Alarm
<1>3. alarms' \in [Slot -> Alarm] /\ \A i \in Slot : ~alarms'[i].callback
  BY <1>2 DEF reset
<1>4. nextId' \in 0..MaxAlarms /\ UNCHANGED <<now, stack, fired>>
  <2>1. nextId' = 0 /\ UNCHANGED <<now, stack, fired>>  BY DEF reset
  <2>2. 0 \in 0..MaxAlarms  OBVIOUS
  <2>3. QED  BY <2>1, <2>2
<1>5. Owed'
  <2>1. DOMAIN << >> = {}  OBVIOUS
  <2>2. QED  BY <1>1, <1>4, <2>1 DEF Owed
<1>6. QED  BY <1>3, <1>4, <1>5 DEF IInv, TypeOK, FreshSlots

(* A delay that begins owes nothing and is in no slot.                     *)
LEMMA DelayStep ==
  ASSUME IInv, NEW ms \in Interval, delay(ms)
  PROVE  IInv'
<1> USE TimeAlarmsAssumption
<1> DEFINE d == [end |-> now + ms, now |-> now, slot |-> MaxAlarms, owed |-> {}]
<1>1. /\ stack' = <<d>> \o stack /\ UNCHANGED <<alarms, nextId, now, fired>>
      /\ stack \in Seq(Delay)
  BY DEF IInv, TypeOK, delay
<1>2. d \in Delay /\ d.slot = MaxAlarms /\ d.owed = {}
  <2>1. now + ms \in Time  BY DEF IInv, TypeOK, Time, delay
  <2>2. QED  BY <2>1 DEF IInv, TypeOK, Delay
<1> HIDE DEF d
<1>3. /\ stack' \in Seq(Delay)
      /\ \A n \in DOMAIN stack' :
           \/ n = 1 /\ stack'[n] = d
           \/ n > 1 /\ n \in Nat /\ n - 1 \in DOMAIN stack /\ stack'[n] = stack[n - 1]
  <2>1. /\ <<d>> \in Seq(Delay) /\ Len(<<d>>) = 1 /\ <<d>>[1] = d
        /\ Len(stack) \in Nat /\ DOMAIN stack = 1..Len(stack)
    BY <1>1, <1>2
  <2>2. stack' \in Seq(Delay) /\ Len(stack') = 1 + Len(stack)
    BY <1>1, <2>1
  <2>3. \A n \in 1..(1 + Len(stack)) : stack'[n] = IF n <= 1 THEN d ELSE stack[n - 1]
    BY <1>1, <2>1
  <2>4. DOMAIN stack' = 1..(1 + Len(stack))
    BY <2>1, <2>2
  <2>5. QED  BY <2>1, <2>2, <2>3, <2>4
<1>4. \A n \in DOMAIN stack : MaxAlarms \notin stack[n].owed
  <2>1. \A n \in DOMAIN stack : stack[n] \in Delay  BY <1>1
  <2>2. \A n \in DOMAIN stack : stack[n].owed \subseteq Slot  BY <2>1 DEF Delay
  <2>3. MaxAlarms \notin Slot  BY DEF Slot
  <2>4. QED  BY <2>2, <2>3
<1>5. ASSUME NEW n \in DOMAIN stack'
      PROVE  /\ \A j \in stack'[n].owed : /\ Due(alarms'[j], stack'[n].now)
                                         /\ j > stack'[n].slot
             /\ \A k \in DOMAIN stack' :
                  k > n => stack'[n].slot \notin stack'[k].owed
  <2>1. CASE n = 1 /\ stack'[n] = d
    <3>1. ASSUME NEW k \in DOMAIN stack', k > n
          PROVE  stack'[n].slot \notin stack'[k].owed
      BY <1>2, <1>3, <1>4, <2>1, <3>1
    <3>2. QED  BY <1>2, <2>1, <3>1
  <2>2. CASE n > 1 /\ n \in Nat /\ n - 1 \in DOMAIN stack /\ stack'[n] = stack[n - 1]
    <3>1. ASSUME NEW k \in DOMAIN stack', k > n
          PROVE  stack'[n].slot \notin stack'[k].owed
      <4>1. /\ k \in Nat /\ k - 1 \in DOMAIN stack
            /\ stack'[k] = stack[k - 1] /\ k - 1 > n - 1
        BY <1>3, <2>2, <3>1
      <4>2. QED  BY <2>2, <4>1 DEF IInv, Owed
    <3>2. QED  BY <1>1, <2>2, <3>1 DEF IInv, Owed
  <2>3. QED  BY <1>3, <2>1, <2>2
<1>6. QED  BY <1>1, <1>3, <1>5 DEF IInv, TypeOK, FreshSlots, Owed

(* A delay that ends uncovers the one below it.                            *)
LEMMA DelayReturnsStep == IInv /\ DelayReturns => IInv'
<1> SUFFICES ASSUME IInv, DelayReturns  PROVE IInv'
  OBVIOUS
<1>1. /\ stack \in Seq(Delay) /\ stack # << >> /\ stack' = Tail(stack)
      /\ UNCHANGED <<alarms, nextId, now, fired>>
  BY DEF IInv, TypeOK, DelayReturns, Ticking
<1>2. /\ stack' \in Seq(Delay)
      /\ \A n \in DOMAIN stack' : /\ n \in Nat /\ n + 1 \in DOMAIN stack
                                 /\ stack'[n] = stack[n + 1]
  BY <1>1
<1>3. ASSUME NEW n \in DOMAIN stack'
      PROVE  /\ \A j \in stack'[n].owed : /\ Due(alarms'[j], stack'[n].now)
                                         /\ j > stack'[n].slot
             /\ \A k \in DOMAIN stack' :
                  k > n => stack'[n].slot \notin stack'[k].owed
  <2>1. ASSUME NEW k \in DOMAIN stack', k > n
        PROVE  stack'[n].slot \notin stack'[k].owed
    <3>1. k + 1 > n + 1  BY <1>2, <2>1
    <3>2. QED  BY <1>2, <3>1 DEF IInv, Owed
  <2>2. QED  BY <1>1, <1>2, <2>1 DEF IInv, Owed
<1>4. QED  BY <1>1, <1>2, <1>3 DEF IInv, TypeOK, FreshSlots, Owed

(* A tick owes every slot that is due when it begins, and looks for the    *)
(* first of them.                                                          *)
LEMMA TickStep == IInv /\ tick => IInv'
<1> SUFFICES ASSUME IInv, tick  PROVE IInv'
  OBVIOUS
<1> USE TimeAlarmsAssumption
<1> DEFINE due == {i \in Slot : Due(alarms[i], now)}
           e   == [stack[1] EXCEPT !.now = now, !.owed = due]
<1>1. /\ stack # << >> /\ Enter(Scan(e, 0, alarms), Tail(stack))
      /\ UNCHANGED <<alarms, nextId, now>>
  BY DEF tick, Ticking
<1>2. stack[1] \in Delay
  BY <1>1 DEF IInv, TypeOK
<1>3. e \in Delay /\ e.now = now /\ e.owed = due
  BY <1>2 DEF Delay, IInv, TypeOK
<1>4. \A j \in due : Due(alarms[j], now) /\ j >= 0
  BY DEF Slot
<1> HIDE DEF due, e
<1>5. stack' \in Seq(Delay) /\ fired' \in [Slot -> Time \cup {-1}] /\ Owed'
  <2>1. TypeOK /\ Owed /\ alarms' = alarms /\ alarms' \in [Slot -> Alarm]
    BY <1>1 DEF IInv, TypeOK
  <2>2. Enter(Scan(e, 0, alarms'), Tail(stack))
    BY <1>1, <2>1
  <2>3. \A j \in e.owed : Due(alarms'[j], e.now) /\ j >= 0
    BY <1>3, <1>4, <2>1
  <2>4. \A n \in DOMAIN stack : n > 1 =>
          \A j \in stack[n].owed : Due(alarms'[j], stack[n].now)
    BY <2>1 DEF Owed
  <2>5. 0 \in 0..MaxAlarms  OBVIOUS
  <2>6. QED  BY <1>1, <1>3, <2>1, <2>2, <2>3, <2>4, <2>5, EnterKeepsOwed
<1>6. QED  BY <1>1, <1>5 DEF IInv, TypeOK, FreshSlots

(* The tick goes on behind the slot whose callback has returned; nobody    *)
(* owes that slot, so what happens to it does not matter.                  *)
LEMMA CallbackReturnsStep == IInv /\ CallbackReturns => IInv'
<1> SUFFICES ASSUME IInv, CallbackReturns  PROVE IInv'
  OBVIOUS
<1> USE TimeAlarmsAssumption
<1> DEFINE e == stack[1]
           a == Settle(alarms[e.slot], e.now)
<1>1. /\ stack # << >> /\ e.slot # MaxAlarms
      /\ alarms' = [alarms EXCEPT ![e.slot] = a]
      /\ Enter(Scan(e, e.slot + 1, alarms'), Tail(stack))
      /\ UNCHANGED <<nextId, now>>
  BY DEF CallbackReturns, InCallback
<1>2. e \in Delay /\ 1 \in DOMAIN stack
  BY <1>1 DEF IInv, TypeOK
<1>3. e.slot \in Slot /\ e.slot + 1 \in 0..MaxAlarms /\ e.now \in Int
      /\ e.owed \subseteq Slot
  BY <1>1, <1>2 DEF Delay, Slot, Time
<1> HIDE DEF e
<1>4. a \in Alarm /\ a.callback = alarms[e.slot].callback
  <2>1. alarms[e.slot] \in Alarm
    BY <1>3 DEF IInv, TypeOK
  <2>2. e.now + alarms[e.slot].interval \in Int
    <3>1. alarms[e.slot].interval \in Interval \cup {0}
      BY <2>1 DEF Alarm
    <3>2. Interval \cup {0} \subseteq Int
      OBVIOUS
    <3>3. alarms[e.slot].interval \in Int
      BY <3>1, <3>2, Zenon
    <3>4. QED  BY <1>3, <3>3
  <2>3. QED  BY <2>1, <2>2 DEF Settle, Alarm
<1> HIDE DEF a
<1>5. /\ alarms' \in [Slot -> Alarm]
      /\ \A j \in Slot \ {e.slot} : alarms'[j] = alarms[j]
      /\ \A j \in Slot : alarms'[j].callback = alarms[j].callback
  BY <1>1, <1>3, <1>4 DEF IInv, TypeOK
<1>6. stack' \in Seq(Delay) /\ fired' \in [Slot -> Time \cup {-1}] /\ Owed'
  <2>1. TypeOK /\ Owed
    BY DEF IInv
  <2>2. ASSUME NEW j \in e.owed
        PROVE  Due(alarms'[j], e.now) /\ j >= e.slot + 1
    <3>1. Due(alarms[j], e.now) /\ j > e.slot
      BY <1>2, <2>1 DEF Owed, e
    <3>2. j \in Slot /\ j \in Int /\ e.slot \in Int
      BY <1>3 DEF Slot
    <3>3. QED  BY <1>5, <3>1, <3>2
  <2>3. ASSUME NEW n \in DOMAIN stack, n > 1, NEW j \in stack[n].owed
        PROVE  Due(alarms'[j], stack[n].now)
    <3>1. Due(alarms[j], stack[n].now) /\ e.slot \notin stack[n].owed
      BY <1>2, <2>1, <2>3 DEF Owed, e
    <3>2. stack[n] \in Delay  BY DEF IInv, TypeOK
    <3>3. j \in Slot /\ j # e.slot  BY <3>1, <3>2 DEF Delay
    <3>4. QED  BY <1>5, <3>1, <3>3
  <2>4. QED  BY <1>1, <1>2, <1>3, <1>5, <2>1, <2>2, <2>3, EnterKeepsOwed
<1>7. TypeOK'
  BY <1>1, <1>5, <1>6 DEF IInv, TypeOK
<1>8. FreshSlots'
  <2>1. \A j \in Slot : alarms'[j].callback = alarms[j].callback
    BY <1>5
  <2>2. nextId' = nextId /\ FreshSlots
    BY <1>1 DEF IInv
  <2>3. QED  BY <2>1, <2>2 DEF FreshSlots
<1>9. QED  BY <1>6, <1>7, <1>8 DEF IInv

-----------------------------------------------------------------------------
(* Nothing that happens falsifies the invariant.                           *)
LEMMA NextIInv == IInv /\ [Next]_vars => IInv'
<1> SUFFICES ASSUME IInv, [Next]_vars  PROVE IInv'
  OBVIOUS
<1>1. ASSUME NEW s \in Interval, NEW has \in BOOLEAN,
             timerRepeat(s, has) \/ timerOnce(s, has)
      PROVE  IInv'
  BY <1>1, CreateStep DEF timerRepeat, timerOnce
<1>2. ASSUME NEW i \in Slot, enable(i) \/ disable(i) \/ free(i)
      PROVE  IInv'
  BY <1>2, SlotStep
<1>3. ASSUME NEW i \in Slot, NEW s \in Interval, write(i, s) \/ writeNextTrigger(i, s)
      PROVE  IInv'
  BY <1>3, SlotStep
<1>4. ASSUME NEW ms \in Interval, delay(ms)  PROVE IInv'
  BY <1>4, DelayStep
<1>5. CASE reset \/ tick \/ DelayReturns \/ CallbackReturns
  BY <1>5, ResetStep, TickStep, DelayReturnsStep, CallbackReturnsStep
<1>6. CASE Elapse
  <2>1. now' \in Time
    BY <1>6, TimeAlarmsAssumption DEF IInv, TypeOK, Time, Elapse
  <2>2. QED  BY <1>6, <2>1 DEF IInv, TypeOK, FreshSlots, Owed, Elapse
<1>7. CASE UNCHANGED vars
  BY <1>7 DEF IInv, TypeOK, FreshSlots, Owed, vars
<1>8. QED
  BY <1>1, <1>2, <1>3, <1>4, <1>5, <1>6, <1>7 DEF Next

(* A tick that has passed the last slot owes nothing, for what it owes     *)
(* lies ahead.                                                             *)
LEMMA OwedMeansServed == IInv => TickServesDue
<1> SUFFICES ASSUME IInv, NEW n \in DOMAIN stack, stack[n].slot = MaxAlarms,
                    NEW j \in stack[n].owed
             PROVE  FALSE
  BY DEF TickServesDue
<1>1. stack[n] \in Delay
  BY DEF IInv, TypeOK
<1>2. j \in Slot /\ j > MaxAlarms
  BY <1>1 DEF IInv, Owed, Delay
<1>3. QED  BY <1>2, TimeAlarmsAssumption DEF Slot

(* The invariant holds in every reachable state.                           *)
LEMMA Invariance == Spec => []IInv
  BY InitIInv, NextIInv, PTL DEF Spec

(* Slot numbers stay within the table, and the delays are well formed.     *)
THEOREM TypeCorrect == Spec => []TypeOK
<1>1. IInv => TypeOK  BY DEF IInv
<1>2. QED  BY <1>1, Invariance, PTL

(* timerRepeat and timerOnce never overwrite an alarm that is still there. *)
THEOREM Freshness == Spec => []FreshSlots
<1>1. IInv => FreshSlots  BY DEF IInv
<1>2. QED  BY <1>1, Invariance, PTL

(* However callbacks disable, free, reschedule or make alarms, or call     *)
(* Alarm.delay: a tick serves what was due when it began and was left      *)
(* alone since.                                                            *)
THEOREM TicksServe == Spec => []TickServesDue
  BY OwedMeansServed, Invariance, PTL
-----------------------------------------------------------------------------
(* Spacing.  A slot whose callback runs fired at the reading of its tick;  *)
(* of another that repeats, the next firing lies its interval after the    *)
(* last.                                                                   *)
Resting(i) == \A n \in DOMAIN stack : stack[n].slot # i

Paced ==
  \A i \in Slot : fired[i] # -1 =>
    /\ \A n \in DOMAIN stack : stack[n].slot = i => stack[n].now = fired[i]
    /\ Resting(i) /\ alarms[i].repeat => alarms[i].nextFire >= fired[i] + alarms[i].interval

(* Firings of slot i in this step come after its interval.                 *)
InTime(i) ==
  fired'[i] # fired[i] /\ fired[i] # -1 /\ fired'[i] # -1 /\ alarms[i].repeat
    => fired'[i] >= fired[i] + alarms[i].interval

(* Scan stops at a slot that is due, if at any.                            *)
LEMMA ScanDue ==
  ASSUME NEW e \in Delay, NEW i \in 0..MaxAlarms,
         NEW table \in [Slot -> Alarm],
         NEW d, d = Scan(e, i, table), d.slot \in Slot
  PROVE  e.now >= table[d.slot].nextFire
<1> DEFINE due == {j \in i..(MaxAlarms - 1) : Due(table[j], e.now)}
<1>1. MaxAlarms \in Nat
  BY TimeAlarmsAssumption
<1>2. due \in SUBSET Nat /\ MaxAlarms \notin Slot
  BY <1>1 DEF Slot
<1>3. \A j \in due : e.now >= table[j].nextFire
  BY DEF Due
<1>4. d = IF due = {} THEN [e EXCEPT !.slot = MaxAlarms]
                      ELSE [e EXCEPT !.slot = Min(due)]
  BY DEF Scan
<1> HIDE DEF due
<1>5. due # {} /\ d.slot = Min(due)
  BY <1>2, <1>4 DEF Delay
<1>6. Min(due) \in due
  BY <1>2, <1>5, LeastIsMin
<1> QED BY <1>3, <1>5, <1>6

(* A tick enters a slot, with the slot below it at rest or settled.        *)
LEMMA EnterKeepsPaced ==
  ASSUME TypeOK, stack # << >>, NEW e \in Delay, NEW i \in 0..MaxAlarms,
         alarms' \in [Slot -> Alarm],
         Enter(Scan(e, i, alarms'), Tail(stack)),
         \A j \in Slot : fired[j] # -1 =>
           /\ \A n \in DOMAIN stack : n > 1 /\ stack[n].slot = j => stack[n].now = fired[j]
           /\ (\A n \in DOMAIN stack : n > 1 => stack[n].slot # j) /\ alarms'[j].repeat =>
                alarms'[j].nextFire >= fired[j] + alarms'[j].interval,
         \A j \in Slot : /\ alarms'[j].repeat = alarms[j].repeat
                         /\ alarms'[j].interval = alarms[j].interval
  PROVE  Paced' /\ \A j \in Slot : InTime(j)
<1> DEFINE d == Scan(e, i, alarms')
<1>1. d \in Delay /\ d.now = e.now
  BY ScanFinds
<1>2. d.slot \in Slot => e.now >= alarms'[d.slot].nextFire
  BY ScanDue
<1>3. Enter(d, Tail(stack))
  OBVIOUS
<1> HIDE DEF d
<1>4. /\ DOMAIN stack' = DOMAIN stack /\ 1 \in DOMAIN stack
      /\ \A n \in DOMAIN stack : n = 1 \/ n > 1
      /\ stack'[1].slot = d.slot /\ stack'[1].now = d.now
      /\ \A n \in DOMAIN stack : n > 1 =>
           stack'[n].now = stack[n].now /\ stack'[n].slot = stack[n].slot
      /\ \A k \in Slot :
           fired'[k] = IF k # d.slot THEN fired[k]
                       ELSE IF \E n \in DOMAIN stack : n > 1 /\ stack[n].slot = k
                       THEN -1 ELSE d.now
  <2>1. stack'[1] = [d EXCEPT !.owed = @ \ {d.slot}]
    BY <1>1, <1>3, EnterStack DEF TypeOK
  <2>2. stack'[1].slot = d.slot /\ stack'[1].now = d.now
    BY <1>1, <2>1 DEF Delay
  <2> QED BY <1>1, <1>3, <2>2, EnterStack DEF TypeOK
<1>5. ASSUME NEW j \in Slot, j # d.slot
      PROVE  /\ InTime(j)
             /\ fired'[j] # -1 =>
                  /\ \A n \in DOMAIN stack' : stack'[n].slot = j => stack'[n].now = fired'[j]
                  /\ Resting(j)' /\ alarms'[j].repeat =>
                       alarms'[j].nextFire >= fired'[j] + alarms'[j].interval
  <2>1. fired'[j] = fired[j]
    BY <1>4, <1>5
  <2>2. Resting(j)' => \A n \in DOMAIN stack : n > 1 => stack[n].slot # j
    BY <1>4 DEF Resting
  <2>3. fired[j] # -1 => \A n \in DOMAIN stack' : stack'[n].slot = j => stack'[n].now = fired[j]
    BY <1>4, <1>5
  <2> QED BY <2>1, <2>2, <2>3 DEF InTime
<1>6. ASSUME NEW j \in Slot, j = d.slot
      PROVE  /\ InTime(j)
             /\ fired'[j] # -1 =>
                  /\ \A n \in DOMAIN stack' : stack'[n].slot = j => stack'[n].now = fired'[j]
                  /\ ~Resting(j)'
  <2>1. ~Resting(j)'
    BY <1>4, <1>6 DEF Resting
  <2>2. CASE \E n \in DOMAIN stack : n > 1 /\ stack[n].slot = j
    <3>1. fired'[j] = -1
      BY <1>4, <1>6, <2>2
    <3> QED BY <2>1, <3>1 DEF InTime
  <2>3. CASE \A n \in DOMAIN stack : n > 1 => stack[n].slot # j
    <3>1. fired'[j] = e.now
      BY <1>1, <1>4, <1>6, <2>3
    <3>2. \A n \in DOMAIN stack' : stack'[n].slot = j => stack'[n].now = fired'[j]
      BY <1>1, <1>4, <2>3, <3>1
    <3>3. ASSUME fired[j] # -1, alarms[j].repeat PROVE e.now >= fired[j] + alarms[j].interval
      <4>1. /\ alarms'[j].nextFire >= fired[j] + alarms[j].interval
            /\ e.now >= alarms'[j].nextFire
        BY <1>2, <1>6, <2>3, <3>3
      <4>2. /\ e.now \in Int /\ alarms'[j].nextFire \in Int /\ fired[j] \in Int
            /\ alarms[j].interval \in Int
        <5>1. Interval \cup {0} \subseteq Int /\ Time \subseteq Int /\ Time \cup {-1} \subseteq Int
          BY TimeAlarmsAssumption DEF Time
        <5>2. alarms[j] \in Alarm /\ alarms'[j] \in Alarm /\ fired[j] \in Time \cup {-1}
          BY DEF TypeOK
        <5>3. alarms[j].interval \in Interval \cup {0} /\ alarms'[j].nextFire \in Int
              /\ e.now \in Time
          BY <5>2 DEF Alarm, Delay
        <5>4. fired[j] \in Int
          BY <5>1, <5>2, Zenon
        <5> QED BY <5>1, <5>3, <5>4, Zenon
      <4> QED BY <4>1, <4>2
    <3> QED BY <2>1, <3>1, <3>2, <3>3 DEF InTime
  <2> QED BY <2>2, <2>3
<1> QED BY <1>5, <1>6 DEF Paced

(* A step that starts no callback and ends none.                           *)
LEMMA PacedKept ==
  ASSUME Paced,
         \A i \in Slot : \/ fired'[i] = -1
                         \/ /\ fired'[i] = fired[i]
                            /\ alarms'[i].repeat = alarms[i].repeat
                            /\ alarms'[i].interval = alarms[i].interval
                            /\ alarms'[i].nextFire = alarms[i].nextFire,
         \A n \in DOMAIN stack' :
           \/ stack'[n].slot \notin Slot
           \/ \E m \in DOMAIN stack : /\ stack'[n].slot = stack[m].slot
                                      /\ stack'[n].now = stack[m].now,
         \A m \in DOMAIN stack : stack[m].slot \in Slot =>
           \E n \in DOMAIN stack' : stack'[n].slot = stack[m].slot
  PROVE  Paced' /\ \A i \in Slot : InTime(i)
<1>1. ASSUME NEW i \in Slot, fired'[i] # -1
      PROVE  /\ \A n \in DOMAIN stack' : stack'[n].slot = i => stack'[n].now = fired'[i]
             /\ Resting(i)' /\ alarms'[i].repeat =>
                  alarms'[i].nextFire >= fired'[i] + alarms'[i].interval
  <2>1. /\ fired'[i] = fired[i]
        /\ alarms'[i].repeat = alarms[i].repeat
        /\ alarms'[i].interval = alarms[i].interval
        /\ alarms'[i].nextFire = alarms[i].nextFire
    BY <1>1
  <2>2. Resting(i)' => Resting(i)
    BY DEF Resting
  <2>3. \A n \in DOMAIN stack' : stack'[n].slot = i => stack'[n].now = fired'[i]
    BY <1>1, <2>1 DEF Paced
  <2> QED BY <1>1, <2>1, <2>2, <2>3 DEF Paced
<1> QED BY <1>1 DEF Paced, InTime

LEMMA PacedStep ==
  ASSUME TypeOK, Paced, [Next]_vars
  PROVE  Paced' /\ \A i \in Slot : InTime(i)
<1> DEFINE Goal == Paced' /\ \A i \in Slot : InTime(i)
<1> SUFFICES Goal
  OBVIOUS
<1> HIDE DEF Goal
<1>0. /\ stack \in Seq(Delay) /\ MaxAlarms \notin Slot
      /\ alarms \in [Slot -> Alarm] /\ fired \in [Slot -> Time \cup {-1}]
  BY TimeAlarmsAssumption DEF TypeOK, Slot
<1>1. ASSUME stack' = stack, \A i \in Slot :
               \/ fired'[i] = -1
               \/ /\ fired'[i] = fired[i]
                  /\ alarms'[i].repeat = alarms[i].repeat
                  /\ alarms'[i].interval = alarms[i].interval
                  /\ alarms'[i].nextFire = alarms[i].nextFire
      PROVE  Goal
  BY <1>1, PacedKept DEF Goal
<1>2. ASSUME NEW i \in Slot, Excuse(i), \A j \in Slot :
               \/ fired'[j] = -1
               \/ /\ fired'[j] = fired[j]
                  /\ alarms'[j].repeat = alarms[j].repeat
                  /\ alarms'[j].interval = alarms[j].interval
                  /\ alarms'[j].nextFire = alarms[j].nextFire
      PROVE  Goal
  <2>1. stack' = Without(stack, i)
    BY <1>2 DEF Excuse, Without
  <2>2. /\ DOMAIN stack' = DOMAIN stack
        /\ \A n \in DOMAIN stack : stack'[n].slot = stack[n].slot /\ stack'[n].now = stack[n].now
    BY <1>0, <2>1, LessOwed
  <2> QED BY <1>2, <2>2, PacedKept DEF Goal
<1>3. ASSUME NEW s \in Interval, NEW has \in BOOLEAN, timerRepeat(s, has) \/ timerOnce(s, has)
      PROVE  Goal
  <2>1. PICK rep \in BOOLEAN : Create(s, has, rep)
    BY <1>3 DEF timerRepeat, timerOnce
  <2>2. \A i \in Slot : i # nextId => alarms'[i] = alarms[i] /\ fired'[i] = fired[i]
    BY <1>0, <2>1 DEF Create
  <2>3. \A i \in Slot : i = nextId => fired'[i] = -1
    BY <1>0, <2>1 DEF Create
  <2> QED BY <1>1, <2>1, <2>2, <2>3 DEF Create
<1>4. ASSUME NEW i \in Slot, enable(i) \/ disable(i) \/ free(i) PROVE Goal
  <2>1. \A j \in Slot : /\ fired'[j] = fired[j]
                        /\ alarms'[j].repeat = alarms[j].repeat
                        /\ alarms'[j].interval = alarms[j].interval
                        /\ alarms'[j].nextFire = alarms[j].nextFire
    BY <1>0, <1>4 DEF enable, disable, free, Alarm
  <2>2. stack' = stack \/ Excuse(i)
    BY <1>4 DEF enable, disable, free
  <2> QED BY <1>1, <1>2, <2>1, <2>2
<1>5. ASSUME NEW i \in Slot, NEW s \in Interval, write(i, s) \/ writeNextTrigger(i, s)
      PROVE  Goal
  <2>1. \A j \in Slot : IF j = i THEN fired'[j] = -1
                        ELSE fired'[j] = fired[j] /\ alarms'[j] = alarms[j]
    BY <1>0, <1>5 DEF write, writeNextTrigger
  <2>2. Excuse(i)
    BY <1>5 DEF write, writeNextTrigger
  <2> QED BY <1>2, <2>1, <2>2
<1>6. ASSUME NEW ms \in Interval, delay(ms) PROVE Goal
  <2> DEFINE top == [end |-> now + ms, now |-> now, slot |-> MaxAlarms, owed |-> {}]
  <2>1. top.slot = MaxAlarms /\ top \in Delay
    BY <1>6, TimeAlarmsAssumption DEF delay, Delay, TypeOK, Time
  <2>2. stack' = <<top>> \o stack /\ UNCHANGED <<alarms, fired>>
    BY <1>6 DEF delay
  <2> HIDE DEF top
  <2>3. /\ Len(stack) \in Nat /\ DOMAIN stack = 1..Len(stack)
        /\ DOMAIN stack' = 1..(Len(stack) + 1) /\ stack'[1] = top
        /\ \A n \in 1..Len(stack) : stack'[n + 1] = stack[n]
    BY <1>0, <2>1, <2>2
  <2>4. \A n \in DOMAIN stack' : n = 1 \/ (n - 1 \in DOMAIN stack /\ stack'[n] = stack[n - 1])
    <3>1. \A n \in 1..(Len(stack) + 1) : n = 1 \/ (n - 1 \in 1..Len(stack) /\ (n - 1) + 1 = n)
      BY <2>3
    <3> QED BY <2>3, <3>1
  <2>5. \A m \in DOMAIN stack : m + 1 \in DOMAIN stack' /\ stack'[m + 1] = stack[m]
    BY <2>3
  <2> QED BY <1>0, <2>1, <2>2, <2>3, <2>4, <2>5, PacedKept DEF Goal
<1>7. CASE DelayReturns
  <2>1. /\ stack # << >> /\ stack[1].slot = MaxAlarms /\ stack' = Tail(stack)
        /\ UNCHANGED <<alarms, fired>>
    BY <1>7 DEF DelayReturns, Ticking
  <2>2. /\ \A n \in DOMAIN stack' : n + 1 \in DOMAIN stack /\ stack'[n] = stack[n + 1]
        /\ \A m \in DOMAIN stack : m = 1 \/ (m - 1 \in DOMAIN stack' /\ stack'[m - 1] = stack[m])
    BY <1>0, <2>1
  <2> QED BY <1>0, <2>1, <2>2, PacedKept DEF Goal
<1>8. CASE reset
  <2>1. \A j \in Slot : /\ fired'[j] = fired[j]
                        /\ alarms'[j].repeat = alarms[j].repeat
                        /\ alarms'[j].interval = alarms[j].interval
                        /\ alarms'[j].nextFire = alarms[j].nextFire
    BY <1>0, <1>8 DEF reset, Alarm
  <2>2. stack' = stack
    BY <1>8 DEF reset
  <2> QED BY <1>1, <2>1, <2>2
<1>9. CASE tick
  <2> DEFINE due == {i \in Slot : Due(alarms[i], now)}
             e   == [stack[1] EXCEPT !.now = now, !.owed = due]
  <2>1. /\ stack # << >> /\ stack[1].slot = MaxAlarms
        /\ Enter(Scan(e, 0, alarms), Tail(stack)) /\ UNCHANGED <<alarms, now>>
    BY <1>9 DEF tick, Ticking
  <2>2. e \in Delay
    <3>1. stack[1] \in Delay /\ due \subseteq Slot /\ now \in Time
      BY <1>0, <2>1 DEF TypeOK
    <3> HIDE DEF due
    <3> QED BY <3>1 DEF Delay
  <2> HIDE DEF e
  <2>3. alarms' = alarms /\ Enter(Scan(e, 0, alarms'), Tail(stack)) /\ 0 \in 0..MaxAlarms
    BY <2>1, TimeAlarmsAssumption
  <2>4. \A j \in Slot : fired[j] # -1 =>
          /\ \A n \in DOMAIN stack : n > 1 /\ stack[n].slot = j => stack[n].now = fired[j]
          /\ (\A n \in DOMAIN stack : n > 1 => stack[n].slot # j) /\ alarms[j].repeat =>
               alarms[j].nextFire >= fired[j] + alarms[j].interval
    <3>1. \A n \in DOMAIN stack : n = 1 \/ n > 1
      BY <1>0
    <3>2. \A j \in Slot : (\A n \in DOMAIN stack : n > 1 => stack[n].slot # j) => Resting(j)
      BY <1>0, <2>1, <3>1 DEF Resting
    <3> QED BY <3>2 DEF Paced
  <2> QED BY <1>0, <2>1, <2>2, <2>3, <2>4, EnterKeepsPaced DEF Goal
<1>10. CASE CallbackReturns
  <2> DEFINE e == stack[1]
             a == Settle(alarms[e.slot], e.now)
  <2>1. /\ stack # << >> /\ e.slot # MaxAlarms
        /\ alarms' = [alarms EXCEPT ![e.slot] = a]
        /\ Enter(Scan(e, e.slot + 1, alarms'), Tail(stack))
    BY <1>10 DEF CallbackReturns, InCallback
  <2>2. e \in Delay /\ 1 \in DOMAIN stack /\ \A n \in DOMAIN stack : n = 1 \/ n > 1
    BY <1>0, <2>1
  <2>3. e.slot \in Slot /\ e.slot + 1 \in 0..MaxAlarms /\ e.now \in Int
    BY <2>1, <2>2, TimeAlarmsAssumption DEF Delay, Slot, Time
  <2>4. /\ a \in Alarm /\ a.repeat = alarms[e.slot].repeat
        /\ a.interval = alarms[e.slot].interval
        /\ a.repeat => a.nextFire = e.now + a.interval
    <3>1. alarms[e.slot] \in Alarm
      BY <1>0, <2>3
    <3>2. alarms[e.slot].interval \in Interval \cup {0} /\ Interval \cup {0} \subseteq Int
      BY <3>1, TimeAlarmsAssumption DEF Alarm
    <3>3. alarms[e.slot].interval \in Int
      BY <3>2, Zenon
    <3>4. e.now + alarms[e.slot].interval \in Int
      BY <2>3, <3>3
    <3> QED BY <3>1, <3>4 DEF Settle, Alarm
  <2>5. fired[e.slot] # -1 => e.now = fired[e.slot]
    BY <2>2, <2>3 DEF Paced
  <2> HIDE DEF e, a
  <2>6. /\ alarms' \in [Slot -> Alarm] /\ alarms'[e.slot] = a
        /\ \A j \in Slot \ {e.slot} : alarms'[j] = alarms[j]
    BY <1>0, <2>1, <2>3, <2>4
  <2>7. \A j \in Slot : /\ alarms'[j].repeat = alarms[j].repeat
                        /\ alarms'[j].interval = alarms[j].interval
    BY <2>4, <2>6
  <2>8. ASSUME NEW j \in Slot, fired[j] # -1
        PROVE  /\ \A n \in DOMAIN stack : n > 1 /\ stack[n].slot = j => stack[n].now = fired[j]
               /\ (\A n \in DOMAIN stack : n > 1 => stack[n].slot # j) /\ alarms'[j].repeat =>
                    alarms'[j].nextFire >= fired[j] + alarms'[j].interval
    <3>1. \A n \in DOMAIN stack : stack[n].slot = j => stack[n].now = fired[j]
      BY <2>8 DEF Paced
    <3>2. CASE j = e.slot
      <4>1. alarms'[j].repeat => alarms'[j].nextFire = fired[j] + alarms'[j].interval
        BY <2>4, <2>5, <2>6, <2>8, <3>2
      <4>2. fired[j] + alarms'[j].interval \in Int
        <5>1. alarms'[j] \in Alarm /\ fired[j] \in Time \cup {-1}
          BY <1>0, <2>6
        <5>2. /\ alarms'[j].interval \in Interval \cup {0} /\ Interval \cup {0} \subseteq Int
              /\ Time \cup {-1} \subseteq Int
          BY <5>1, TimeAlarmsAssumption DEF Alarm, Time
        <5>3. alarms'[j].interval \in Int /\ fired[j] \in Int
          BY <5>1, <5>2, Zenon
        <5> QED BY <5>3
      <4> QED BY <3>1, <4>1, <4>2
    <3>3. CASE j # e.slot
      <4>1. (\A n \in DOMAIN stack : n > 1 => stack[n].slot # j) => Resting(j)
        BY <2>2, <3>3 DEF Resting, e
      <4> QED BY <2>6, <2>8, <3>1, <3>3, <4>1 DEF Paced
    <3> QED BY <3>2, <3>3
  <2> QED BY <2>1, <2>2, <2>3, <2>6, <2>7, <2>8, EnterKeepsPaced DEF Goal
<1>11. CASE Elapse \/ UNCHANGED vars
  <2>1. stack' = stack /\ fired' = fired /\ alarms' = alarms
    BY <1>11 DEF Elapse, vars
  <2> QED BY <1>1, <2>1
<1> QED
  BY <1>3, <1>4, <1>5, <1>6, <1>7, <1>8, <1>9, <1>10, <1>11 DEF Next

(* A repeating alarm that was not written to never fires before its        *)
(* interval has passed since its last firing, however callbacks of others  *)
(* delay, reschedule or disable, unless one of the two firings came from   *)
(* within its own callback, from an Alarm.delay: that alarm is still due.  *)
THEOREM FiringsKeepTheirDistance == Spec => Spaced
<1>1. Init => Paced
  BY DEF Init, Paced
<1>2. TypeOK /\ Paced /\ [Next]_vars => Paced'
  BY PacedStep
<1>3. TypeOK /\ Paced /\ [Next]_vars =>
        [\A i \in Slot :
           fired'[i] # fired[i] /\ fired[i] # -1 /\ fired'[i] # -1 /\ alarms[i].repeat
             => fired'[i] >= fired[i] + alarms[i].interval]_vars
  BY PacedStep DEF InTime
<1> QED BY <1>1, <1>2, <1>3, TypeCorrect, PTL DEF Spec, Spaced
=============================================================================
