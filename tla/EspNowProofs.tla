--------------------------- MODULE EspNowProofs ---------------------------
(***************************************************************************)
(* Theorems about EspNow, for any threads, callbacks and depth of calls.   *)
(***************************************************************************)
EXTENDS EspNow, SequenceTheorems, TLAPS

(* Exactly the call that is inside of the lock_guard's scope owns the      *)
(* mutex.                                                                  *)
Exclusion == \A t \in Thread : At(t, "locked") <=> mu = t

(* A silent slot holds no callback, and nobody is about to fill it.        *)
Quiet == \A s \in Slot : silent[s] => registered[s] = NoCallback /\ ~Registering(s)

(* What a call empties stays empty as long as it holds the mutex.          *)
StaysEmpty ==
  \A t \in Thread : \A s \in Slot :
    At(t, "locked") /\ Silences(Head(stack[t]), s) => registered[s] = NoCallback

(* A delivery that began in a silent slot copies nothing.                  *)
LateOK(c, quiet) ==
  c.late => /\ c.op = "deliver"
            /\ c.pc = "lock" => quiet[c.slot]
            /\ c.pc = "locked" => c.cb = NoCallback
            /\ c.pc # "running"

LateCopiesNothing == \A t \in Thread : \A n \in DOMAIN stack[t] : LateOK(stack[t][n], silent)

IInv == TypeOK /\ Exclusion /\ Quiet /\ StaysEmpty /\ LateCopiesNothing

-----------------------------------------------------------------------------
(* The calls on a stack after one has been pushed, ...                     *)
LEMMA Pushed ==
  ASSUME NEW s \in Seq(Call), NEW c \in Call,
         NEW r, r = <<c>> \o s
  PROVE  /\ r \in Seq(Call) /\ r # << >> /\ Head(r) = c
         /\ DOMAIN r \subseteq Nat
         /\ \A n \in DOMAIN r :
              \/ n = 1 /\ r[n] = c
              \/ n > 1 /\ n - 1 \in DOMAIN s /\ r[n] = s[n - 1]
<1>1. /\ <<c>> \in Seq(Call) /\ Len(<<c>>) = 1 /\ <<c>>[1] = c
      /\ Len(s) \in Nat /\ DOMAIN s = 1..Len(s)
  OBVIOUS
<1>2. r \in Seq(Call) /\ Len(r) = 1 + Len(s)
  BY <1>1
<1>3. \A n \in 1..(1 + Len(s)) : r[n] = IF n <= 1 THEN c ELSE s[n - 1]
  BY <1>1
<1>4. DOMAIN r = 1..(1 + Len(s)) /\ r # << >> /\ Head(r) = r[1]
  BY <1>1, <1>2
<1>5. QED  BY <1>1, <1>2, <1>3, <1>4

(* ... after the innermost has been replaced, ...                          *)
LEMMA Replaced ==
  ASSUME NEW s \in Seq(Call), s # << >>, NEW c \in Call,
         NEW r, r = <<c>> \o Tail(s)
  PROVE  /\ r \in Seq(Call) /\ r # << >> /\ Head(r) = c
         /\ DOMAIN r \subseteq Nat
         /\ \A n \in DOMAIN r :
              \/ n = 1 /\ r[n] = c
              \/ n > 1 /\ n \in DOMAIN s /\ r[n] = s[n]
<1>1. /\ Tail(s) \in Seq(Call) /\ Len(s) \in Nat /\ DOMAIN s = 1..Len(s)
      /\ DOMAIN Tail(s) = 1..(Len(s) - 1)
      /\ \A m \in 1..(Len(s) - 1) : Tail(s)[m] = s[m + 1]
  OBVIOUS
<1>2. /\ r \in Seq(Call) /\ r # << >> /\ Head(r) = c
      /\ \A n \in DOMAIN r :
           \/ n = 1 /\ r[n] = c
           \/ n > 1 /\ n - 1 \in DOMAIN Tail(s) /\ r[n] = Tail(s)[n - 1]
  BY <1>1, Pushed
<1>3. ASSUME NEW n \in DOMAIN r, n > 1
      PROVE  n \in DOMAIN s /\ r[n] = s[n]
  <2>1. DOMAIN r \subseteq Nat  BY <1>2
  <2>2. n \in Nat /\ n - 1 \in 1..(Len(s) - 1) /\ r[n] = Tail(s)[n - 1]
    BY <1>1, <1>2, <1>3, <2>1
  <2>3. n \in 1..Len(s) /\ (n - 1) + 1 = n  BY <1>1, <2>2
  <2>4. QED  BY <1>1, <2>2, <2>3
<1>4. QED  BY <1>2, <1>3

(* ... and after it has been popped.                                       *)
LEMMA Popped ==
  ASSUME NEW s \in Seq(Call), s # << >>, NEW r, r = Tail(s)
  PROVE  /\ r \in Seq(Call)
         /\ r # << >> => Head(r) = r[1] /\ 1 \in DOMAIN r
         /\ \A n \in DOMAIN r : n + 1 > 1 /\ n + 1 \in DOMAIN s /\ r[n] = s[n + 1]
  OBVIOUS

(* The innermost call is the first of the stack.                           *)
LEMMA Innermost ==
  ASSUME NEW s \in Seq(Call), s # << >>
  PROVE  Head(s) \in Call /\ Head(s) = s[1] /\ 1 \in DOMAIN s
  OBVIOUS

-----------------------------------------------------------------------------
(* The mock starts with empty slots, a free mutex and no calls.            *)
LEMMA InitIInv == Init => IInv
<1> SUFFICES ASSUME Init PROVE IInv
  OBVIOUS
<1>1. \A t \in Thread : stack[t] = << >> /\ DOMAIN stack[t] = {}
  <2>1. DOMAIN << >> = {}  OBVIOUS
  <2>2. QED  BY <2>1 DEF Init
<1>2. TypeOK
  <2>1. << >> \in Seq(Call)  OBVIOUS
  <2>2. stack \in [Thread -> Seq(Call)]  BY <2>1 DEF Init
  <2>3. QED  BY <1>1, <2>2 DEF Init, TypeOK
<1>3. Exclusion
  BY <1>1, EspNowAssumption DEF Init, Exclusion, At
<1>4. Quiet
  BY <1>1 DEF Init, Quiet, Registering
<1>5. StaysEmpty
  BY <1>1 DEF StaysEmpty, At
<1>6. LateCopiesNothing
  BY <1>1 DEF LateCopiesNothing
<1>7. QED  BY <1>2, <1>3, <1>4, <1>5, <1>6 DEF IInv

(* A call that begins changes nothing but its thread's stack; a delivery   *)
(* is late only if its slot is silent.                                     *)
LEMMA BeginStep ==
  ASSUME IInv, NEW t \in Thread, NEW s \in Slot,
         NEW op \in {"unregister", "deliver", "init", "deinit"},
         NEW late \in BOOLEAN, late => op = "deliver" /\ silent[s],
         Begin(t, op, s, NoCallback, late), UNCHANGED silent
  PROVE  IInv'
<1> DEFINE c == [op |-> op, slot |-> s, cb |-> NoCallback, pc |-> "lock",
                 late |-> late]
           r == <<c>> \o stack[t]
<1>1. /\ c \in Call /\ c.op = op /\ c.slot = s /\ c.pc = "lock" /\ c.late = late
  BY DEF Call, SlotOp, WholeOp
<1>2. /\ stack \in [Thread -> Seq(Call)] /\ stack[t] \in Seq(Call)
      /\ stack' = [stack EXCEPT ![t] = r]
      /\ UNCHANGED <<registered, initialized, mu, silent>>
  BY DEF IInv, TypeOK, Begin, Push
<1>3. stack[t] = << >> \/ stack[t][1].pc = "running"
  BY <1>2, Innermost DEF Begin, Free, At
<1> HIDE DEF c
<1>4. /\ r \in Seq(Call) /\ r # << >> /\ Head(r) = c
      /\ DOMAIN r \subseteq Nat
      /\ \A n \in DOMAIN r :
           \/ n = 1 /\ r[n] = c
           \/ n > 1 /\ n - 1 \in DOMAIN stack[t] /\ r[n] = stack[t][n - 1]
  BY <1>1, <1>2, Pushed
<1> HIDE DEF r
<1>5. /\ stack' \in [Thread -> Seq(Call)] /\ stack'[t] = r
      /\ \A u \in Thread \ {t} : stack'[u] = stack[u]
  BY <1>2, <1>4
<1>6. ~At(t, "locked") /\ ~At(t, "locked")'
      /\ \A u \in Thread \ {t} : At(u, "locked")' <=> At(u, "locked")
  <2>1. ~At(t, "locked")
    BY <1>2, <1>3, Innermost DEF At
  <2>2. ~At(t, "locked")'
    BY <1>1, <1>4, <1>5 DEF At
  <2>3. QED  BY <2>1, <2>2, <1>5 DEF At
<1>7. TypeOK'
  <2>1. ASSUME NEW n \in DOMAIN r
        PROVE  /\ r[n].pc = "running" => r[n].cb # NoCallback
               /\ n > 1 => r[n].pc = "running"
    <3>1. CASE n = 1 /\ r[n] = c
      BY <1>1, <3>1
    <3>2. CASE n > 1 /\ n - 1 \in DOMAIN stack[t] /\ r[n] = stack[t][n - 1]
      <4>1. n - 1 = 1 \/ n - 1 > 1
        BY <1>4, <3>2
      <4>2. stack[t][n - 1].pc = "running"
        BY <1>2, <1>3, <3>2, <4>1 DEF IInv, TypeOK
      <4>3. QED  BY <3>2, <4>2 DEF IInv, TypeOK
    <3>3. QED  BY <1>4, <3>1, <3>2
  <2>2. QED  BY <1>2, <1>5, <2>1 DEF IInv, TypeOK
<1>8. Exclusion'
  BY <1>2, <1>6 DEF IInv, Exclusion
<1>9. Quiet'
  <2>1. ASSUME NEW q \in Slot, (Registering(q))'  PROVE Registering(q)
    <3>0. PICK u \in Thread : \E n \in DOMAIN stack'[u] :
             stack'[u][n].op = "register" /\ stack'[u][n].slot = q
      BY <2>1 DEF Registering
    <3>1. PICK n \in DOMAIN stack'[u] :
             stack'[u][n].op = "register" /\ stack'[u][n].slot = q
      BY <3>0
    <3>2. CASE u = t
      <4>1. r[n] # c  BY <1>1, <1>5, <3>1, <3>2
      <4>2. n - 1 \in DOMAIN stack[t] /\ r[n] = stack[t][n - 1]
        BY <1>4, <1>5, <3>2, <4>1
      <4>3. QED  BY <1>5, <3>1, <3>2, <4>2 DEF Registering
    <3>3. CASE u # t
      BY <1>5, <3>1, <3>3 DEF Registering
    <3>4. QED  BY <3>2, <3>3
  <2>2. QED  BY <1>2, <2>1 DEF IInv, Quiet
<1>10. StaysEmpty'
  <2>1. \A u \in Thread \ {t} : Head(stack[u])' = Head(stack[u])
    BY <1>5
  <2>2. QED  BY <1>2, <1>6, <2>1 DEF IInv, StaysEmpty, Silences
<1>11. LateCopiesNothing'
  <2>1. ASSUME NEW n \in DOMAIN r  PROVE LateOK(r[n], silent')
    <3>1. CASE r[n] = c
      <4>1. c.late => silent[c.slot] /\ c.op = "deliver"  BY <1>1
      <4>2. QED  BY <1>1, <1>2, <3>1, <4>1 DEF LateOK
    <3>2. CASE n - 1 \in DOMAIN stack[t] /\ r[n] = stack[t][n - 1]
      <4>1. LateOK(r[n], silent)  BY <3>2 DEF IInv, LateCopiesNothing
      <4>2. QED  BY <1>2, <4>1 DEF LateOK
    <3>3. QED  BY <1>4, <3>1, <3>2
  <2>2. ASSUME NEW u \in Thread \ {t}, NEW n \in DOMAIN stack[u]
        PROVE  LateOK(stack[u][n], silent')
    <3>1. LateOK(stack[u][n], silent)  BY DEF IInv, LateCopiesNothing
    <3>2. stack'[u][n] = stack[u][n]  BY <1>5
    <3>3. QED  BY <1>2, <3>1, <3>2 DEF LateOK
  <2>3. QED  BY <1>5, <2>1, <2>2 DEF LateCopiesNothing
<1>12. QED  BY <1>7, <1>8, <1>9, <1>10, <1>11 DEF IInv

(* A registration ends the silence of its slot, and with it the lateness   *)
(* of every call about the slot.                                           *)
LEMMA RegisterStep ==
  ASSUME IInv, NEW t \in Thread, NEW s \in Slot, NEW cb \in Callback,
         Register(t, s, cb)
  PROVE  IInv'
<1> DEFINE heard(c) == IF c.slot = s THEN [c EXCEPT !.late = FALSE] ELSE c
           heardBy(u) == [n \in DOMAIN stack[u] |-> heard(stack[u][n])]
           c == [op |-> "register", slot |-> s, cb |-> cb, pc |-> "lock",
                 late |-> FALSE]
           r == <<c>> \o heardBy(t)
<1>1. /\ c \in Call /\ c.op = "register" /\ c.slot = s /\ c.pc = "lock"
      /\ c.late = FALSE
  BY DEF Call, SlotOp, WholeOp
<1>2. /\ stack \in [Thread -> Seq(Call)] /\ stack[t] \in Seq(Call)
      /\ stack' = [u \in Thread |-> IF u = t THEN <<c>> \o heardBy(u)
                                             ELSE heardBy(u)]
      /\ silent' = [silent EXCEPT ![s] = FALSE]
      /\ UNCHANGED <<registered, initialized, mu>>
  BY DEF IInv, TypeOK, Register
<1>3. stack[t] = << >> \/ stack[t][1].pc = "running"
  BY <1>2, Innermost DEF Register, Free, At
<1>4. ASSUME NEW d \in Call
      PROVE  /\ heard(d) \in Call
             /\ heard(d).op = d.op /\ heard(d).slot = d.slot
             /\ heard(d).cb = d.cb /\ heard(d).pc = d.pc
             /\ heard(d).late => d.late /\ d.slot # s
  BY DEF Call
<1> HIDE DEF c, heard
<1>5. ASSUME NEW u \in Thread
      PROVE  /\ heardBy(u) \in Seq(Call) /\ DOMAIN heardBy(u) = DOMAIN stack[u]
             /\ heardBy(u) = << >> <=> stack[u] = << >>
             /\ stack[u] # << >> => /\ Head(heardBy(u)) = heard(Head(stack[u]))
                                    /\ Head(stack[u]) \in Call
             /\ \A n \in DOMAIN stack[u] : /\ stack[u][n] \in Call
                                           /\ heardBy(u)[n] = heard(stack[u][n])
  <2>1. /\ stack[u] \in Seq(Call) /\ Len(stack[u]) \in Nat
        /\ DOMAIN stack[u] = 1..Len(stack[u])
    BY <1>2
  <2>2. \A n \in DOMAIN stack[u] :
          stack[u][n] \in Call /\ heard(stack[u][n]) \in Call
    BY <1>4, <2>1
  <2>3. heardBy(u) \in [1..Len(stack[u]) -> Call]
    BY <2>1, <2>2
  <2>4. heardBy(u) \in Seq(Call) /\ Len(heardBy(u)) = Len(stack[u])
    BY <2>1, <2>3
  <2>5. QED  BY <2>1, <2>2, <2>3, <2>4
<1> HIDE DEF heardBy
<1>6. /\ r \in Seq(Call) /\ r # << >> /\ Head(r) = c
      /\ DOMAIN r \subseteq Nat
      /\ \A n \in DOMAIN r :
           \/ n = 1 /\ r[n] = c
           \/ /\ n > 1 /\ n - 1 \in DOMAIN stack[t]
              /\ r[n] = heard(stack[t][n - 1]) /\ stack[t][n - 1] \in Call
  <2>1. /\ r \in Seq(Call) /\ r # << >> /\ Head(r) = c
        /\ DOMAIN r \subseteq Nat
        /\ \A n \in DOMAIN r :
             \/ n = 1 /\ r[n] = c
             \/ n > 1 /\ n - 1 \in DOMAIN heardBy(t) /\ r[n] = heardBy(t)[n - 1]
    BY <1>1, <1>5, Pushed
  <2> HIDE DEF r
  <2>2. QED  BY <1>5, <2>1
<1> HIDE DEF r
<1>7. /\ stack' \in [Thread -> Seq(Call)] /\ stack'[t] = r
      /\ \A u \in Thread \ {t} : stack'[u] = heardBy(u)
  BY <1>2, <1>5, <1>6 DEF r
<1>8. /\ ~At(t, "locked") /\ ~At(t, "locked")'
      /\ \A u \in Thread \ {t} :
           /\ At(u, "locked")' <=> At(u, "locked")
           /\ At(u, "locked") => Head(stack'[u]).op = Head(stack[u]).op
                               /\ Head(stack'[u]).slot = Head(stack[u]).slot
  <2>1. ~At(t, "locked")
    BY <1>2, <1>3, Innermost DEF At
  <2>2. ~At(t, "locked")'
    BY <1>1, <1>6, <1>7 DEF At
  <2>3. ASSUME NEW u \in Thread \ {t}, stack[u] # << >>
        PROVE  /\ Head(stack'[u]).pc = Head(stack[u]).pc
               /\ Head(stack'[u]).op = Head(stack[u]).op
               /\ Head(stack'[u]).slot = Head(stack[u]).slot
    BY <1>4, <1>5, <1>7, <2>3
  <2>4. \A u \in Thread \ {t} : stack'[u] = << >> <=> stack[u] = << >>
    BY <1>5, <1>7
  <2>5. QED  BY <2>1, <2>2, <2>3, <2>4 DEF At
<1>9. TypeOK'
  <2>1. ASSUME NEW n \in DOMAIN r
        PROVE  /\ r[n].pc = "running" => r[n].cb # NoCallback
               /\ n > 1 => r[n].pc = "running"
    <3>1. CASE n = 1 /\ r[n] = c
      BY <1>1, <3>1
    <3>2. CASE /\ n > 1 /\ n - 1 \in DOMAIN stack[t]
               /\ r[n] = heard(stack[t][n - 1]) /\ stack[t][n - 1] \in Call
      <4>1. n - 1 = 1 \/ n - 1 > 1
        BY <1>6, <3>2
      <4>2. stack[t][n - 1].pc = "running"
        BY <1>2, <1>3, <3>2, <4>1 DEF IInv, TypeOK
      <4>3. stack[t][n - 1].cb # NoCallback
        BY <3>2, <4>2 DEF IInv, TypeOK
      <4>4. QED  BY <1>4, <3>2, <4>2, <4>3
    <3>3. QED  BY <1>6, <3>1, <3>2
  <2>2. ASSUME NEW u \in Thread \ {t}, NEW n \in DOMAIN heardBy(u)
        PROVE  /\ heardBy(u)[n].pc = "running" => heardBy(u)[n].cb # NoCallback
               /\ n > 1 => heardBy(u)[n].pc = "running"
    <3>1. /\ n \in DOMAIN stack[u] /\ stack[u][n] \in Call
          /\ heardBy(u)[n] = heard(stack[u][n])
      BY <1>5
    <3>2. /\ stack[u][n].pc = "running" => stack[u][n].cb # NoCallback
          /\ n > 1 => stack[u][n].pc = "running"
      BY <3>1 DEF IInv, TypeOK
    <3>3. QED  BY <1>4, <3>1, <3>2
  <2>3. /\ registered' \in [Slot -> Callback \cup {NoCallback}]
        /\ initialized' \in BOOLEAN /\ mu' \in Thread \cup {Unlocked}
        /\ silent' \in [Slot -> BOOLEAN]
    BY <1>2 DEF IInv, TypeOK
  <2>4. ASSUME NEW u \in Thread, NEW n \in DOMAIN stack'[u]
        PROVE  /\ stack'[u][n].pc = "running" => stack'[u][n].cb # NoCallback
               /\ n > 1 => stack'[u][n].pc = "running"
    <3>1. CASE u = t  BY <1>7, <2>1, <3>1
    <3>2. CASE u # t  BY <1>7, <2>2, <3>2
    <3>3. QED  BY <3>1, <3>2
  <2>5. QED  BY <1>7, <2>3, <2>4 DEF TypeOK
<1>10. Exclusion'
  BY <1>2, <1>8 DEF IInv, Exclusion
<1>11. /\ silent'[s] = FALSE
       /\ \A q \in Slot \ {s} : silent'[q] = silent[q]
  BY <1>2 DEF IInv, TypeOK
<1>12. Quiet'
  <2>1. ASSUME NEW q \in Slot \ {s}, (Registering(q))'  PROVE Registering(q)
    <3>0. PICK u \in Thread : \E n \in DOMAIN stack'[u] :
             stack'[u][n].op = "register" /\ stack'[u][n].slot = q
      BY <2>1 DEF Registering
    <3>1. PICK n \in DOMAIN stack'[u] :
             stack'[u][n].op = "register" /\ stack'[u][n].slot = q
      BY <3>0
    <3>2. CASE u = t
      <4>1. r[n] # c  BY <1>1, <1>7, <3>1, <3>2
      <4>2. /\ n - 1 \in DOMAIN stack[t]
            /\ r[n] = heard(stack[t][n - 1]) /\ stack[t][n - 1] \in Call
        BY <1>6, <1>7, <3>2, <4>1
      <4>3. stack[t][n - 1].op = "register" /\ stack[t][n - 1].slot = q
        BY <1>4, <1>7, <3>1, <3>2, <4>2
      <4>4. QED  BY <4>2, <4>3 DEF Registering
    <3>3. CASE u # t
      <4>1. /\ n \in DOMAIN stack[u] /\ stack[u][n] \in Call
            /\ stack'[u][n] = heard(stack[u][n])
        BY <1>5, <1>7, <3>3
      <4>2. stack[u][n].op = "register" /\ stack[u][n].slot = q
        BY <1>4, <3>1, <4>1
      <4>3. QED  BY <4>1, <4>2 DEF Registering
    <3>4. QED  BY <3>2, <3>3
  <2>2. ASSUME NEW q \in Slot, silent'[q]
        PROVE  registered'[q] = NoCallback /\ ~Registering(q)'
    <3>1. q # s /\ silent[q]  BY <1>11, <2>2
    <3>2. registered[q] = NoCallback /\ ~Registering(q)
      BY <3>1 DEF IInv, Quiet
    <3>3. QED  BY <1>2, <2>1, <3>1, <3>2
  <2>3. QED  BY <2>2 DEF Quiet
<1>13. StaysEmpty'
  <2>1. ASSUME NEW u \in Thread, NEW q \in Slot, (At(u, "locked"))',
               Silences(Head(stack'[u]), q)
        PROVE  registered'[q] = NoCallback
    <3>1. u # t /\ At(u, "locked")  BY <1>8, <2>1
    <3>2. Silences(Head(stack[u]), q)
      BY <1>8, <2>1, <3>1 DEF Silences
    <3>3. QED  BY <1>2, <3>1, <3>2 DEF IInv, StaysEmpty
  <2>2. QED  BY <2>1 DEF StaysEmpty
<1>14. LateCopiesNothing'
  <2>1. ASSUME NEW d \in Call, LateOK(d, silent)  PROVE LateOK(heard(d), silent')
    <3>1. d.slot \in Slot  BY DEF Call
    <3>2. QED  BY <1>4, <1>11, <2>1, <3>1 DEF LateOK
  <2>2. ASSUME NEW n \in DOMAIN r  PROVE LateOK(r[n], silent')
    <3>1. CASE r[n] = c
      BY <1>1, <3>1 DEF LateOK
    <3>2. CASE /\ n - 1 \in DOMAIN stack[t] /\ r[n] = heard(stack[t][n - 1])
               /\ stack[t][n - 1] \in Call
      BY <2>1, <3>2 DEF IInv, LateCopiesNothing
    <3>3. QED  BY <1>6, <3>1, <3>2
  <2>3. ASSUME NEW u \in Thread \ {t}, NEW n \in DOMAIN heardBy(u)
        PROVE  LateOK(heardBy(u)[n], silent')
    <3>1. /\ n \in DOMAIN stack[u] /\ stack[u][n] \in Call
          /\ heardBy(u)[n] = heard(stack[u][n])
      BY <1>5
    <3>2. QED  BY <2>1, <3>1 DEF IInv, LateCopiesNothing
  <2>4. QED  BY <1>7, <2>2, <2>3 DEF LateCopiesNothing
<1>15. QED  BY <1>9, <1>10, <1>12, <1>13, <1>14 DEF IInv

(* Steps that put no new call on a stack start no registration.            *)
LEMMA NoNewRegistration ==
  ASSUME NEW t \in Thread, \A u \in Thread \ {t} : stack'[u] = stack[u],
         \A n \in DOMAIN stack'[t] : \E m \in DOMAIN stack[t] :
           /\ stack'[t][n].op = stack[t][m].op
           /\ stack'[t][n].slot = stack[t][m].slot,
         NEW q \in Slot, (Registering(q))'
  PROVE  Registering(q)
<1>1. PICK u \in Thread : \E n \in DOMAIN stack'[u] :
         stack'[u][n].op = "register" /\ stack'[u][n].slot = q
  BY DEF Registering
<1>2. PICK n \in DOMAIN stack'[u] :
         stack'[u][n].op = "register" /\ stack'[u][n].slot = q
  BY <1>1
<1>3. CASE u = t
  BY <1>2, <1>3 DEF Registering
<1>4. CASE u # t
  BY <1>2, <1>4 DEF Registering
<1>5. QED  BY <1>3, <1>4

(* Taking the mutex: only this thread owns it now, and what it copies out  *)
(* of a silent slot is nothing.                                            *)
LEMMA LockStep ==
  ASSUME IInv, NEW t \in Thread, Lock(t)
  PROVE  IInv'
<1> DEFINE c == Head(stack[t])
           d == [c EXCEPT !.pc = "locked",
                          !.cb = IF c.op = "deliver" THEN registered[c.slot]
                                                     ELSE @]
           r == <<d>> \o Tail(stack[t])
<1>1. /\ stack \in [Thread -> Seq(Call)] /\ stack[t] \in Seq(Call)
      /\ stack[t] # << >> /\ c.pc = "lock"
      /\ mu = Unlocked /\ mu' = t /\ silent' = silent
      /\ stack' = [stack EXCEPT ![t] = r]
      /\ registered \in [Slot -> Callback \cup {NoCallback}]
      /\ registered' = [q \in Slot |->
            IF q \in Emptied(c) THEN NoCallback
            ELSE IF c.op = "register" /\ q = c.slot THEN c.cb
            ELSE registered[q]]
      /\ initialized' = IF c.op \in WholeOp THEN c.op = "init" ELSE initialized
  BY DEF IInv, TypeOK, Lock, At, Top
<1>2. c \in Call /\ c = stack[t][1] /\ 1 \in DOMAIN stack[t]
  BY <1>1, Innermost
<1> HIDE DEF c
<1>3. c.slot \in Slot /\ c.cb \in Callback \cup {NoCallback}
  BY <1>2 DEF Call
<1>4. registered[c.slot] \in Callback \cup {NoCallback}
  BY <1>1, <1>3
<1>5. /\ d \in Call /\ d.pc = "locked" /\ d.op = c.op /\ d.slot = c.slot
      /\ d.late = c.late
      /\ d.op = "deliver" => d.cb = registered[c.slot]
  BY <1>2, <1>3, <1>4 DEF Call
<1> HIDE DEF d
<1>6. /\ r \in Seq(Call) /\ r # << >> /\ Head(r) = d
      /\ DOMAIN r \subseteq Nat
      /\ \A n \in DOMAIN r :
           \/ n = 1 /\ r[n] = d
           \/ n > 1 /\ n \in DOMAIN stack[t] /\ r[n] = stack[t][n]
  BY <1>1, <1>5, Replaced
<1> HIDE DEF r
<1>7. /\ stack' \in [Thread -> Seq(Call)] /\ stack'[t] = r
      /\ \A u \in Thread \ {t} : stack'[u] = stack[u]
  BY <1>1, <1>6
<1>8. At(t, "locked")' /\ \A u \in Thread \ {t} : ~At(u, "locked")'
  <2>1. At(t, "locked")'
    BY <1>5, <1>6, <1>7 DEF At
  <2>2. \A u \in Thread : ~At(u, "locked")
    BY <1>1, EspNowAssumption DEF IInv, Exclusion
  <2>3. QED  BY <1>7, <2>1, <2>2 DEF At
<1>9. TypeOK'
  <2>1. ASSUME NEW n \in DOMAIN r
        PROVE  /\ r[n].pc = "running" => r[n].cb # NoCallback
               /\ n > 1 => r[n].pc = "running"
    <3>1. CASE n = 1 /\ r[n] = d
      BY <1>5, <3>1
    <3>2. CASE n > 1 /\ n \in DOMAIN stack[t] /\ r[n] = stack[t][n]
      BY <3>2 DEF IInv, TypeOK
    <3>3. QED  BY <1>6, <3>1, <3>2
  <2>2. ASSUME NEW u \in Thread, NEW n \in DOMAIN stack'[u]
        PROVE  /\ stack'[u][n].pc = "running" => stack'[u][n].cb # NoCallback
               /\ n > 1 => stack'[u][n].pc = "running"
    <3>1. CASE u = t  BY <1>7, <2>1, <3>1
    <3>2. CASE u # t  BY <1>7, <3>2 DEF IInv, TypeOK
    <3>3. QED  BY <3>1, <3>2
  <2>3. registered' \in [Slot -> Callback \cup {NoCallback}]
    BY <1>1, <1>3
  <2>4. initialized' \in BOOLEAN
    BY <1>1 DEF IInv, TypeOK
  <2>5. mu' \in Thread \cup {Unlocked} /\ silent' \in [Slot -> BOOLEAN]
    BY <1>1 DEF IInv, TypeOK
  <2>6. QED  BY <1>7, <2>2, <2>3, <2>4, <2>5 DEF TypeOK
<1>10. Exclusion'
  BY <1>1, <1>8 DEF Exclusion
<1>11. Quiet'
  <2>1. ASSUME NEW q \in Slot, silent'[q]
        PROVE  registered'[q] = NoCallback /\ ~Registering(q)'
    <3>1. registered[q] = NoCallback /\ ~Registering(q)
      BY <1>1, <2>1 DEF IInv, Quiet
    <3>2. ~(c.op = "register" /\ q = c.slot)
      BY <1>2, <3>1 DEF Registering
    <3>3. \A n \in DOMAIN stack'[t] : \E m \in DOMAIN stack[t] :
            /\ stack'[t][n].op = stack[t][m].op
            /\ stack'[t][n].slot = stack[t][m].slot
      BY <1>2, <1>5, <1>6, <1>7
    <3>4. ~Registering(q)'
      BY <1>7, <3>1, <3>3, NoNewRegistration
    <3>5. QED  BY <1>1, <3>1, <3>2, <3>4
  <2>2. QED  BY <2>1 DEF Quiet
<1>12. StaysEmpty'
  <2>1. ASSUME NEW q \in Slot, Silences(d, q)  PROVE registered'[q] = NoCallback
    <3>1. q \in Emptied(c)
      BY <1>3, <1>5, <2>1 DEF Silences, Emptied
    <3>2. QED  BY <1>1, <3>1
  <2>2. QED  BY <1>6, <1>7, <1>8, <2>1 DEF StaysEmpty, Silences
<1>13. LateCopiesNothing'
  <2>1. LateOK(d, silent')
    <3>1. LateOK(c, silent)
      BY <1>2 DEF IInv, LateCopiesNothing
    <3>2. c.late => c.op = "deliver" /\ registered[c.slot] = NoCallback
      BY <1>1, <1>3, <3>1 DEF LateOK, IInv, Quiet
    <3>3. QED  BY <1>5, <3>2 DEF LateOK
  <2>2. ASSUME NEW u \in Thread, NEW n \in DOMAIN stack'[u]
        PROVE  LateOK(stack'[u][n], silent')
    <3>1. CASE u = t
      BY <1>1, <1>6, <1>7, <2>1, <3>1 DEF IInv, LateCopiesNothing
    <3>2. CASE u # t
      BY <1>1, <1>7, <3>2 DEF IInv, LateCopiesNothing
    <3>3. QED  BY <3>1, <3>2
  <2>3. QED  BY <2>2 DEF LateCopiesNothing
<1>14. QED  BY <1>9, <1>10, <1>11, <1>12, <1>13 DEF IInv

(* Releasing the mutex: a late delivery copied nothing, so it ends here    *)
(* instead of going on to its callback.                                    *)
LEMMA UnlockStep ==
  ASSUME IInv, NEW t \in Thread, Unlock(t)
  PROVE  IInv'
<1> DEFINE c == Head(stack[t])
           d == [c EXCEPT !.pc = "running"]
           r == IF c.op = "deliver" /\ c.cb # NoCallback
                THEN <<d>> \o Tail(stack[t]) ELSE Tail(stack[t])
<1>1. /\ stack \in [Thread -> Seq(Call)] /\ stack[t] \in Seq(Call)
      /\ stack[t] # << >> /\ c.pc = "locked" /\ At(t, "locked")
      /\ mu' = Unlocked /\ UNCHANGED <<registered, initialized>>
      /\ stack' = [stack EXCEPT ![t] = r]
      /\ silent \in [Slot -> BOOLEAN]
      /\ silent' = [q \in Slot |->
                      silent[q] \/ (Silences(c, q) /\ ~Registering(q))]
  BY DEF IInv, TypeOK, Unlock, At, Top, Pop
<1>2. c \in Call /\ c = stack[t][1] /\ 1 \in DOMAIN stack[t]
  BY <1>1, Innermost
<1>3. mu = t
  BY <1>1 DEF IInv, Exclusion
<1>4. \A q \in Slot : Silences(c, q) => registered[q] = NoCallback
  BY <1>1 DEF IInv, StaysEmpty
<1> HIDE DEF c
<1>5. /\ d \in Call /\ d.pc = "running" /\ d.op = c.op /\ d.slot = c.slot
      /\ d.late = c.late /\ d.cb = c.cb
  BY <1>2 DEF Call
<1>6. /\ r \in Seq(Call) /\ DOMAIN r \subseteq Nat
      /\ r # << >> => Head(r) = r[1] /\ 1 \in DOMAIN r
      /\ \A n \in DOMAIN r :
           \/ n = 1 /\ r[n] = d /\ c.op = "deliver" /\ c.cb # NoCallback
           \/ \E m \in DOMAIN stack[t] : m > 1 /\ r[n] = stack[t][m]
  <2> HIDE DEF d
  <2>1. CASE c.op = "deliver" /\ c.cb # NoCallback
    <3>1. r = <<d>> \o Tail(stack[t])  BY <2>1
    <3> HIDE DEF r
    <3>2. /\ r \in Seq(Call) /\ r # << >> /\ Head(r) = d
          /\ DOMAIN r \subseteq Nat
          /\ \A n \in DOMAIN r :
               \/ n = 1 /\ r[n] = d
               \/ n > 1 /\ n \in DOMAIN stack[t] /\ r[n] = stack[t][n]
      BY <1>1, <1>5, <3>1, Replaced
    <3>3. Head(r) = r[1] /\ 1 \in DOMAIN r  BY <3>2, Innermost
    <3>4. QED  BY <2>1, <3>2, <3>3
  <2>2. CASE ~(c.op = "deliver" /\ c.cb # NoCallback)
    <3>1. r = Tail(stack[t])  BY <2>2
    <3> HIDE DEF r
    <3>2. /\ r \in Seq(Call)
          /\ r # << >> => Head(r) = r[1] /\ 1 \in DOMAIN r
          /\ \A n \in DOMAIN r : /\ n + 1 > 1 /\ n + 1 \in DOMAIN stack[t]
                                /\ r[n] = stack[t][n + 1]
      BY <1>1, <3>1, Popped
    <3>3. DOMAIN r \subseteq Nat  BY <3>2
    <3>4. QED  BY <3>2, <3>3
  <2>3. QED  BY <2>1, <2>2
<1> HIDE DEF d, r
<1>7. /\ stack' \in [Thread -> Seq(Call)] /\ stack'[t] = r
      /\ \A u \in Thread \ {t} : stack'[u] = stack[u]
  BY <1>1, <1>6
<1>8. \A m \in DOMAIN stack[t] : m > 1 => /\ stack[t][m].pc = "running"
                                        /\ stack[t][m].cb # NoCallback
  BY DEF IInv, TypeOK
<1>9. \A n \in DOMAIN r : r[n].pc = "running" /\ r[n].cb # NoCallback
  BY <1>5, <1>6, <1>8
<1>10. \A u \in Thread : ~At(u, "locked")'
  <2>1. ~At(t, "locked")'
    BY <1>6, <1>7, <1>9 DEF At
  <2>2. \A u \in Thread \ {t} : ~At(u, "locked")
    BY <1>3 DEF IInv, Exclusion
  <2>3. QED  BY <1>7, <2>1, <2>2 DEF At
<1>11. TypeOK'
  <2>1. ASSUME NEW u \in Thread, NEW n \in DOMAIN stack'[u]
        PROVE  /\ stack'[u][n].pc = "running" => stack'[u][n].cb # NoCallback
               /\ n > 1 => stack'[u][n].pc = "running"
    <3>1. CASE u = t  BY <1>7, <1>9, <3>1
    <3>2. CASE u # t  BY <1>7, <3>2 DEF IInv, TypeOK
    <3>3. QED  BY <3>1, <3>2
  <2>2. silent' \in [Slot -> BOOLEAN]
    BY <1>1, Zenon DEF Silences, Registering
  <2>3. /\ registered' \in [Slot -> Callback \cup {NoCallback}]
        /\ initialized' \in BOOLEAN /\ mu' \in Thread \cup {Unlocked}
    BY <1>1 DEF IInv, TypeOK
  <2>4. QED  BY <1>7, <2>1, <2>2, <2>3 DEF TypeOK
<1>12. Exclusion'
  BY <1>1, <1>10, EspNowAssumption DEF Exclusion
<1>13. Quiet'
  <2>1. ASSUME NEW q \in Slot, silent'[q]
        PROVE  registered'[q] = NoCallback /\ ~Registering(q)'
    <3>1. silent[q] \/ (Silences(c, q) /\ ~Registering(q))
      BY <1>1, <2>1
    <3>2. registered[q] = NoCallback /\ ~Registering(q)
      BY <1>4, <3>1 DEF IInv, Quiet
    <3>3. \A n \in DOMAIN stack'[t] : \E m \in DOMAIN stack[t] :
            /\ stack'[t][n].op = stack[t][m].op
            /\ stack'[t][n].slot = stack[t][m].slot
      BY <1>2, <1>5, <1>6, <1>7
    <3>4. ~Registering(q)'
      BY <1>7, <3>2, <3>3, NoNewRegistration
    <3>5. QED  BY <1>1, <3>2, <3>4
  <2>2. QED  BY <2>1 DEF Quiet
<1>14. StaysEmpty'
  BY <1>10 DEF StaysEmpty
<1>15. LateCopiesNothing'
  <2>1. ASSUME NEW e \in Call, LateOK(e, silent)  PROVE LateOK(e, silent')
    <3>1. e.slot \in Slot  BY DEF Call
    <3>2. silent[e.slot] => silent'[e.slot]  BY <1>1, <3>1
    <3>3. QED  BY <2>1, <3>2 DEF LateOK
  <2>2. c.op = "deliver" /\ c.cb # NoCallback => ~c.late
    BY <1>1, <1>2 DEF IInv, LateCopiesNothing, LateOK
  <2>3. ASSUME NEW u \in Thread, NEW n \in DOMAIN stack[u]
        PROVE  stack[u][n] \in Call /\ LateOK(stack[u][n], silent)
    BY <1>1 DEF IInv, LateCopiesNothing
  <2>4. ASSUME NEW u \in Thread, NEW n \in DOMAIN stack'[u]
        PROVE  LateOK(stack'[u][n], silent')
    <3>1. CASE u = t
      <4>1. CASE r[n] = d /\ c.op = "deliver" /\ c.cb # NoCallback
        BY <1>5, <1>7, <2>2, <3>1, <4>1 DEF LateOK
      <4>2. CASE \E m \in DOMAIN stack[t] : m > 1 /\ r[n] = stack[t][m]
        BY <1>7, <2>1, <2>3, <3>1, <4>2
      <4>3. QED  BY <1>6, <1>7, <3>1, <4>1, <4>2
    <3>2. CASE u # t
      BY <1>7, <2>1, <2>3, <3>2
    <3>3. QED  BY <3>1, <3>2
  <2>5. QED  BY <2>4 DEF LateCopiesNothing
<1>16. QED  BY <1>11, <1>12, <1>13, <1>14, <1>15 DEF IInv

(* The callback returns to the delivery, and that to its caller.           *)
LEMMA ReturnStep ==
  ASSUME IInv, NEW t \in Thread, CallbackReturns(t)
  PROVE  IInv'
<1> DEFINE r == Tail(stack[t])
<1>1. /\ stack \in [Thread -> Seq(Call)] /\ stack[t] \in Seq(Call)
      /\ stack[t] # << >> /\ ~At(t, "locked")
      /\ stack' = [stack EXCEPT ![t] = r]
      /\ UNCHANGED <<registered, initialized, mu, silent>>
  BY DEF IInv, TypeOK, CallbackReturns, At, Pop
<1>2. /\ r \in Seq(Call)
      /\ r # << >> => Head(r) = r[1] /\ 1 \in DOMAIN r
      /\ \A n \in DOMAIN r : /\ n + 1 > 1 /\ n + 1 \in DOMAIN stack[t]
                            /\ r[n] = stack[t][n + 1]
  BY <1>1, Popped
<1> HIDE DEF r
<1>3. /\ stack' \in [Thread -> Seq(Call)] /\ stack'[t] = r
      /\ \A u \in Thread \ {t} : stack'[u] = stack[u]
  BY <1>1, <1>2
<1>4. \A n \in DOMAIN r : r[n].pc = "running" /\ r[n].cb # NoCallback
  BY <1>2 DEF IInv, TypeOK
<1>5. \A u \in Thread : At(u, "locked")' <=> At(u, "locked")
  <2>1. ~At(t, "locked")'
    BY <1>2, <1>3, <1>4 DEF At
  <2>2. QED  BY <1>1, <1>3, <2>1 DEF At
<1>6. TypeOK'
  <2>1. ASSUME NEW u \in Thread, NEW n \in DOMAIN stack'[u]
        PROVE  /\ stack'[u][n].pc = "running" => stack'[u][n].cb # NoCallback
               /\ n > 1 => stack'[u][n].pc = "running"
    <3>1. CASE u = t  BY <1>3, <1>4, <3>1
    <3>2. CASE u # t  BY <1>3, <3>2 DEF IInv, TypeOK
    <3>3. QED  BY <3>1, <3>2
  <2>2. /\ registered' \in [Slot -> Callback \cup {NoCallback}]
        /\ initialized' \in BOOLEAN /\ mu' \in Thread \cup {Unlocked}
        /\ silent' \in [Slot -> BOOLEAN]
    BY <1>1 DEF IInv, TypeOK
  <2>3. QED  BY <1>3, <2>1, <2>2 DEF TypeOK
<1>7. Exclusion'
  BY <1>1, <1>5 DEF IInv, Exclusion
<1>8. Quiet'
  <2>1. ASSUME NEW q \in Slot, silent'[q]
        PROVE  registered'[q] = NoCallback /\ ~Registering(q)'
    <3>1. registered[q] = NoCallback /\ ~Registering(q)
      BY <1>1, <2>1 DEF IInv, Quiet
    <3>2. \A n \in DOMAIN stack'[t] : \E m \in DOMAIN stack[t] :
            /\ stack'[t][n].op = stack[t][m].op
            /\ stack'[t][n].slot = stack[t][m].slot
      BY <1>2, <1>3
    <3>3. ~Registering(q)'
      BY <1>3, <3>1, <3>2, NoNewRegistration
    <3>4. QED  BY <1>1, <3>1, <3>3
  <2>2. QED  BY <2>1 DEF Quiet
<1>9. StaysEmpty'
  <2>1. \A u \in Thread : At(u, "locked") => stack'[u] = stack[u]
    BY <1>1, <1>3
  <2>2. QED  BY <1>1, <1>5, <2>1 DEF IInv, StaysEmpty, Silences
<1>10. LateCopiesNothing'
  <2>1. ASSUME NEW u \in Thread, NEW n \in DOMAIN stack'[u]
        PROVE  LateOK(stack'[u][n], silent')
    <3>1. CASE u = t
      BY <1>1, <1>2, <1>3, <3>1 DEF IInv, LateCopiesNothing
    <3>2. CASE u # t
      BY <1>1, <1>3, <3>2 DEF IInv, LateCopiesNothing
    <3>3. QED  BY <3>1, <3>2
  <2>2. QED  BY <2>1 DEF LateCopiesNothing
<1>11. QED  BY <1>6, <1>7, <1>8, <1>9, <1>10 DEF IInv

-----------------------------------------------------------------------------
(* Nothing that happens falsifies the invariant.                           *)
LEMMA NextIInv == IInv /\ [Next]_vars => IInv'
<1> SUFFICES ASSUME IInv, [Next]_vars  PROVE IInv'
  OBVIOUS
<1> USE DEF Slot
<1>1. ASSUME NEW t \in Thread, NEW cb \in Callback,
             \/ esp_now_register_recv_cb(t, cb) \/ esp_now_register_send_cb(t, cb)
      PROVE  IInv'
  BY <1>1, RegisterStep DEF esp_now_register_recv_cb, esp_now_register_send_cb
<1>2. ASSUME NEW t \in Thread,
             \/ esp_now_unregister_recv_cb(t) \/ esp_now_unregister_send_cb(t)
      PROVE  IInv'
  BY <1>2, BeginStep
    DEF esp_now_unregister_recv_cb, esp_now_unregister_send_cb, Unregister
<1>3. ASSUME NEW t \in Thread, esp_now_init(t) \/ esp_now_deinit(t)
      PROVE  IInv'
  BY <1>3, BeginStep DEF esp_now_init, esp_now_deinit
<1>4. ASSUME NEW t \in Thread, esp_now_inject_recv(t) \/ esp_now_send(t)
      PROVE  IInv'
  <2>1. \A s \in Slot : silent[s] \in BOOLEAN
    BY DEF IInv, TypeOK
  <2>2. PICK s \in Slot : Deliver(t, s)
    BY <1>4 DEF esp_now_inject_recv, esp_now_send
  <2>3. QED  BY <2>1, <2>2, BeginStep DEF Deliver
<1>5. ASSUME NEW t \in Thread, Lock(t) \/ Unlock(t) \/ CallbackReturns(t)
      PROVE  IInv'
  BY <1>5, LockStep, UnlockStep, ReturnStep
<1>6. CASE UNCHANGED vars
  BY <1>6 DEF IInv, TypeOK, Exclusion, Quiet, StaysEmpty, LateCopiesNothing,
    LateOK, Silences, Registering, At, vars
<1>7. QED
  BY <1>1, <1>2, <1>3, <1>4, <1>5, <1>6 DEF Next

(* The invariant says what the properties ask for.                         *)
LEMMA IInvImplies == IInv => TypeOK /\ Silenced /\ NoSelfDeadlock
<1> SUFFICES ASSUME IInv  PROVE TypeOK /\ Silenced /\ NoSelfDeadlock
  OBVIOUS
<1>1. Silenced
  BY DEF IInv, LateCopiesNothing, LateOK, Silenced
<1>2. NoSelfDeadlock
  BY DEF IInv, Exclusion, NoSelfDeadlock
<1>3. QED  BY <1>1, <1>2 DEF IInv

(* It holds in every reachable state.                                       *)
LEMMA Invariance == Spec => []IInv
  BY InitIInv, NextIInv, PTL DEF Spec

(* No empty std::function is ever called, whatever races with a delivery,  *)
(* and threads wait only at the innermost of their calls.                  *)
THEOREM TypeCorrect == Spec => []TypeOK
  BY Invariance, IInvImplies, PTL

(* A packet that is delivered after its callback has been unregistered, or *)
(* the mock reset, reaches nobody until somebody registers again.          *)
THEOREM Silencing == Spec => []Silenced
  BY Invariance, IInvImplies, PTL

(* A callback may call every function of esp_now.h: its thread does not    *)
(* own the mutex then.                                                     *)
THEOREM Reentrancy == Spec => []NoSelfDeadlock
  BY Invariance, IInvImplies, PTL
=============================================================================
