------------------------- MODULE FreeRTOSTimerProofs -------------------------
(***************************************************************************)
(* Theorems about FreeRTOSTimer, for every set of timers and every depth   *)
(* of nested dispatchers.                                                  *)
(***************************************************************************)
EXTENDS FreeRTOSTimer, SequenceTheorems, TLAPS

Frames == [kind : {"process", "fire", "query"}, timer : Timer, index : Nat]

(* What Pass does to the stack: it stays as it is below, or the frame of   *)
(* the timer at its index is pushed on it.                                 *)
LEMMA PassStack ==
  ASSUME NEW i \in Nat \ {0}, NEW isActive, NEW below, NEW due0,
         Pass(i, isActive, below, due0)
  PROVE  \/ stack' = below
         \/ \E j \in 1..Len(timers) :
              stack' = Append(below, Frame("process", timers[j], j))
<1> DEFINE ready == {j \in i..Len(timers) :
                       isActive[timers[j]] /\ callback[timers[j]]}
<1>1. \/ stack' = below
      \/ \E j \in ready : stack' = Append(below, Frame("process", timers[j], j))
  BY Zenon DEF Pass
<1>2. ASSUME NEW j \in ready  PROVE  j \in 1..Len(timers)
  OBVIOUS
<1>3. QED  BY <1>1, <1>2, Zenon

(* What it does to the debt: it can only shrink.                           *)
LEMMA PassOwed ==
  ASSUME NEW i, NEW isActive, NEW below, NEW due0,
         Pass(i, isActive, below, due0)
  PROVE  owed' \subseteq due0
BY DEF Pass

(* Pushing a frame on a stack of frames.                                   *)
LEMMA PushFrame ==
  ASSUME NEW s \in Seq(Frames), NEW kind \in {"process", "fire", "query"},
         NEW t \in Timer, NEW i \in Nat
  PROVE  Append(s, Frame(kind, t, i)) \in Seq(Frames)
<1>1. Frame(kind, t, i) \in Frames
  BY DEF Frame, Frames
<1>2. QED  BY <1>1

-----------------------------------------------------------------------------
(* Arithmetic of the positions of a vector that lost element k.            *)
LEMMA Positions ==
  ASSUME NEW n \in Nat, NEW k \in 1..n, NEW i \in 1..(n - 1)
  PROVE  /\ i <= k - 1 => i \in 1..(k - 1) /\ i < k
         /\ ~(i <= k - 1) => /\ i - (k - 1) \in 1..(n - k)
                             /\ k + (i - (k - 1)) = i + 1
                             /\ ~(i < k)
OBVIOUS

(* Skipping position k sends different positions to different positions.   *)
LEMMA SkipInjective ==
  ASSUME NEW n \in Nat, NEW k \in 1..n, NEW s, NEW r,
         \A i, j \in 1..n : s[i] = s[j] => i = j,
         \A i \in 1..(n - 1) : r[i] = IF i < k THEN s[i] ELSE s[i + 1],
         NEW i \in 1..(n - 1), NEW j \in 1..(n - 1), r[i] = r[j]
  PROVE  i = j
<1> DEFINE p(m) == IF m < k THEN m ELSE m + 1
<1>1. p(i) \in 1..n /\ p(j) \in 1..n  OBVIOUS
<1>2. r[i] = s[p(i)] /\ r[j] = s[p(j)]  OBVIOUS
<1>3. p(i) = p(j)
  <2> HIDE DEF p
  <2>1. QED  BY <1>1, <1>2
<1>4. QED  BY <1>3

(* Removing one element keeps a vector of handles without repetitions.     *)
LEMMA RemoveOne ==
  ASSUME NEW s \in Seq(Timer), \A i, j \in DOMAIN s : s[i] = s[j] => i = j,
         NEW k \in DOMAIN s
  PROVE  LET r == SubSeq(s, 1, k - 1) \o SubSeq(s, k + 1, Len(s))
         IN  /\ r \in Seq(Timer)
             /\ \A i, j \in DOMAIN r : r[i] = r[j] => i = j
<1> DEFINE a == SubSeq(s, 1, k - 1)
           b == SubSeq(s, k + 1, Len(s))
<1>1. Len(s) \in Nat /\ k \in 1..Len(s)  OBVIOUS
<1>2. /\ a \in Seq(Timer) /\ Len(a) = k - 1
      /\ \A i \in 1..(k - 1) : a[i] = s[i]
  BY <1>1
<1>3. /\ b \in Seq(Timer) /\ Len(b) = Len(s) - k
      /\ \A i \in 1..(Len(s) - k) : b[i] = s[k + i]
  <2>1. b \in Seq(Timer)  BY <1>1
  <2>2. Len(b) = Len(s) - k  BY <1>1
  <2>3. ASSUME NEW i \in 1..(Len(s) - k)  PROVE b[i] = s[k + i]
    <3>1. i \in 1..(Len(s) - (k + 1) + 1) /\ (k + 1) + i - 1 = k + i
      BY <1>1
    <3>2. QED  BY <1>1, <3>1
  <2>4. QED  BY <2>1, <2>2, <2>3
<1> DEFINE r == a \o b
           n == Len(s)
<1>4. n \in Nat /\ DOMAIN s = 1..n /\ k \in 1..n  BY <1>1
<1>5. /\ Len(b) = n - k
      /\ \A i \in 1..(n - k) : b[i] = s[k + i]
  BY <1>3
<1> HIDE DEF n, a, b
<1>6. /\ r \in Seq(Timer) /\ Len(r) = Len(a) + Len(b)
      /\ \A i \in 1..(Len(a) + Len(b)) :
            r[i] = IF i <= Len(a) THEN a[i] ELSE b[i - Len(a)]
  <2>1. a \in Seq(Timer) /\ b \in Seq(Timer)  BY <1>2, <1>3
  <2>2. QED  BY <2>1
<1> HIDE DEF r
<1>7. Len(a) + Len(b) = n - 1
  <2>1. (k - 1) + (n - k) = n - 1  BY <1>4
  <2>2. QED  BY <1>2, <1>5, <2>1
<1>8. ASSUME NEW i \in 1..(n - 1)
      PROVE  r[i] = IF i < k THEN s[i] ELSE s[i + 1]
  <2>1. r[i] = IF i <= k - 1 THEN a[i] ELSE b[i - (k - 1)]
    BY <1>2, <1>6, <1>7
  <2>2. CASE i <= k - 1
    <3>1. i \in 1..(k - 1) /\ i < k  BY <1>4, <2>2, Positions
    <3>2. QED  BY <1>2, <2>1, <2>2, <3>1
  <2>3. CASE ~(i <= k - 1)
    <3>1. /\ i - (k - 1) \in 1..(n - k)
          /\ k + (i - (k - 1)) = i + 1
          /\ ~(i < k)
      BY <1>4, <2>3, Positions
    <3>2. b[i - (k - 1)] = s[k + (i - (k - 1))]  BY <1>5, <3>1
    <3>3. QED  BY <2>1, <2>3, <3>1, <3>2
  <2>4. QED  BY <2>2, <2>3
<1>9. DOMAIN r = 1..(n - 1)  BY <1>6, <1>7
<1>10. \A i, j \in 1..n : s[i] = s[j] => i = j  BY <1>4
<1>11. ASSUME NEW i \in 1..(n - 1), NEW j \in 1..(n - 1), r[i] = r[j]
      PROVE  i = j
  BY <1>4, <1>8, <1>10, <1>11, SkipInjective
<1>12. QED  BY <1>6, <1>9, <1>11 DEF r, a, b

(* The type invariant is inductive.                                        *)
LEMMA TypeStep == TypeOK /\ [Next]_vars => TypeOK'
<1> SUFFICES ASSUME TypeOK, [Next]_vars  PROVE TypeOK'
  OBVIOUS
<1> USE DEF conf, Live
<1>0. stack \in Seq(Frames)
  BY DEF Frames, TypeOK
<1>1. ASSUME NEW t \in Timer, xTimerCreate(t)  PROVE TypeOK'
  BY <1>1 DEF xTimerCreate, TypeOK, Period
<1>2. ASSUME NEW t \in Timer, Arm(t)  PROVE TypeOK'
  BY <1>2 DEF Arm, TypeOK
<1>3. ASSUME NEW t \in Timer, xTimerStop(t)  PROVE TypeOK'
  BY <1>3 DEF xTimerStop, TypeOK
<1>4. ASSUME NEW t \in Timer, xTimerDelete(t)  PROVE TypeOK'
  <2>1. /\ timers' \in Seq(Timer)
        /\ \A i, j \in DOMAIN timers' : timers'[i] = timers'[j] => i = j
    BY <1>4, RemoveOne DEF xTimerDelete, TypeOK
  <2>2. QED  BY <1>4, <2>1 DEF xTimerDelete, TypeOK
<1>5. ASSUME NEW t \in Timer, xTimerChangePeriod(t)  PROVE TypeOK'
  BY <1>5 DEF xTimerChangePeriod, TypeOK
<1>6. ASSUME NEW t \in Timer, xTimerIsTimerActive(t)  PROVE TypeOK'
  <2>1. CASE callback[t]
    <3>1. stack' = Append(stack, Frame("query", t, 0))
      BY <1>6, <2>1 DEF xTimerIsTimerActive, Fire
    <3>2. stack' \in Seq(Frames)
      BY <1>0, <3>1, PushFrame
    <3>3. QED
      BY <1>6, <2>1, <3>2 DEF xTimerIsTimerActive, Fire, Frames, TypeOK
  <2>2. CASE ~callback[t]
    BY <1>6, <2>2 DEF xTimerIsTimerActive, Reload, TypeOK
  <2>3. QED  BY <2>1, <2>2
<1>7. ASSUME NEW t \in Timer, mockFireTimer(t)  PROVE TypeOK'
  <2>1. stack' \in Seq(Frames)
    BY <1>0, <1>7, PushFrame DEF mockFireTimer, Fire
  <2>2. QED  BY <1>7, <2>1 DEF mockFireTimer, Fire, Frames, TypeOK
<1>8. ASSUME NEW t \in Timer, Elapse(t)  PROVE TypeOK'
  BY <1>8 DEF Elapse, TypeOK
<1>9. ASSUME mockProcessTimers  PROVE TypeOK'
  <2>1. stack' = stack \/ \E j \in 1..Len(timers) :
                            stack' = Append(stack, Frame("process", timers[j], j))
    <3>1. PICK due0 : Pass(1, active, stack, due0)
      BY <1>9, Zenon DEF mockProcessTimers
    <3>2. 1 \in Nat \ {0}  OBVIOUS
    <3>3. QED  BY <3>1, <3>2, PassStack, Zenon
  <2>2. stack' \in Seq(Frames)
    <3>1. \A j \in 1..Len(timers) : timers[j] \in Timer /\ j \in Nat
      BY DEF TypeOK
    <3>2. QED  BY <1>0, <2>1, <3>1, PushFrame
  <2>3. owed' \in SUBSET Timer
    BY <1>9, PassOwed DEF mockProcessTimers, TypeOK
  <2>4. QED  BY <1>9, <2>2, <2>3 DEF mockProcessTimers, Frames, TypeOK
<1>10. ASSUME mockClearTimers  PROVE TypeOK'
  BY <1>10 DEF mockClearTimers, TypeOK
<1>11. ASSUME CallbackReturns  PROVE TypeOK'
  <2> stack \in Seq(Frames) /\ stack # << >>
    BY <1>11 DEF CallbackReturns, Frames, TypeOK
  <2>1. Top \in Frames /\ Below \in Seq(Frames)
    BY DEF Top, Below
  <2>2. ASSUME ProcessReturn  PROVE TypeOK'
    <3>1. Top.index + 1 \in Nat \ {0}
      BY <2>1 DEF Frames
    <3>2. \/ stack' = Below
          \/ \E j \in 1..Len(timers) :
               stack' = Append(Below, Frame("process", timers[j], j))
      BY <2>2, <3>1, PassStack, Zenon DEF ProcessReturn
    <3>3. stack' \in Seq(Frames)
      <4>1. \A j \in 1..Len(timers) : timers[j] \in Timer /\ j \in Nat
        BY DEF TypeOK
      <4>2. QED  BY <2>1, <3>2, <4>1, PushFrame
    <3>4. owed' \in SUBSET Timer
      BY <2>2, PassOwed DEF ProcessReturn, TypeOK
    <3>5. active' \in [Timer -> BOOLEAN]
      BY <2>2 DEF ProcessReturn, Settle, TypeOK
    <3>6. QED
      BY <1>11, <2>2, <3>3, <3>4, <3>5
         DEF CallbackReturns, ProcessReturn, Frames, TypeOK
  <2>3. ASSUME FireReturn  PROVE TypeOK'
    BY <1>11, <2>1, <2>3 DEF CallbackReturns, FireReturn, Settle, Frames, TypeOK
  <2>4. ASSUME QueryReturn  PROVE TypeOK'
    BY <1>11, <2>1, <2>4 DEF CallbackReturns, QueryReturn, Reload, Frames, TypeOK
  <2>5. QED  BY <1>11, <2>2, <2>3, <2>4 DEF CallbackReturns
<1>12. ASSUME UNCHANGED vars  PROVE TypeOK'
  BY <1>12 DEF vars, TypeOK
<1>13. QED
  BY <1>1, <1>2, <1>3, <1>4, <1>5, <1>6, <1>7, <1>8, <1>9, <1>10, <1>11, <1>12,
     Zenon DEF Next, xTimerStart, xTimerReset

(* The vector never holds a handle twice and every variable has its type,  *)
(* for callbacks that call anything, xTimerDelete included.                *)
THEOREM TypeCorrect == Spec => []TypeOK
<1>1. Init => TypeOK
  BY DEF Init, TypeOK, Period
<1>2. QED  BY <1>1, TypeStep, PTL DEF Spec

-----------------------------------------------------------------------------
(* The index of a pass still names the timer the pass fired.  Creation     *)
(* appends, so only a deletion under the pass can break this.              *)
FramesPointHome ==
  \A n \in DOMAIN stack : stack[n].kind = "process" =>
    /\ stack[n].index \in DOMAIN timers
    /\ timers[stack[n].index] = stack[n].timer

(* A stack cut below its top, or with one frame of a pass pushed on it,    *)
(* points home if the stack did and the vector is the same.                *)
LEMMA HomeAgain ==
  ASSUME TypeOK, FramesPointHome, timers' = timers,
         NEW below \in Seq(Frames), Len(below) <= Len(stack),
         \A n \in 1..Len(below) : below[n] = stack[n],
         \/ stack' = below
         \/ \E j \in 1..Len(timers) :
              stack' = Append(below, Frame("process", timers[j], j))
         \/ \E t \in Timer, kind \in {"fire", "query"} :
              stack' = Append(below, Frame(kind, t, 0))
  PROVE  FramesPointHome'
<1>1. /\ DOMAIN stack = 1..Len(stack) /\ DOMAIN timers = 1..Len(timers)
      /\ Len(stack) \in Nat /\ Len(below) \in Nat /\ Len(timers) \in Nat
  BY DEF TypeOK
<1>2. \A n \in 1..Len(below) : below[n].kind = "process" =>
        /\ below[n].index \in 1..Len(timers)
        /\ timers[below[n].index] = below[n].timer
  BY <1>1 DEF FramesPointHome
<1>3. CASE stack' = below
  BY <1>1, <1>2, <1>3 DEF FramesPointHome
<1>4. ASSUME NEW f, stack' = Append(below, f),
             f.kind = "process" => /\ f.index \in 1..Len(timers)
                                   /\ timers[f.index] = f.timer
      PROVE  FramesPointHome'
  <2>1. /\ DOMAIN stack' = 1..(Len(below) + 1)
        /\ \A n \in 1..Len(below) : stack'[n] = below[n]
        /\ stack'[Len(below) + 1] = f
    BY <1>1, <1>4
  <2>2. \A n \in 1..(Len(below) + 1) : n \in 1..Len(below) \/ n = Len(below) + 1
    BY <1>1
  <2>3. QED  BY <1>1, <1>2, <1>4, <2>1, <2>2 DEF FramesPointHome
<1>5. QED  BY <1>3, <1>4 DEF Frame

(* What is under the top of the stack.                                     *)
LEMMA BelowTop ==
  ASSUME TypeOK, stack # << >>
  PROVE  /\ Len(stack) \in 1..Len(stack) /\ Top \in Frames
         /\ Below \in Seq(Frames) /\ Len(Below) = Len(stack) - 1
         /\ \A n \in 1..Len(Below) : Below[n] = stack[n]
<1>1. stack \in Seq(Frames)
  BY DEF Frames, TypeOK
<1>2. Len(stack) \in Nat /\ Len(stack) >= 1
  BY <1>1
<1>3. Top \in Frames
  BY <1>1, <1>2 DEF Top
<1> DEFINE m == Len(stack) - 1
<1>4. /\ SubSeq(stack, 1, m) \in Seq(Frames) /\ Len(SubSeq(stack, 1, m)) = m
      /\ \A n \in 1..m : SubSeq(stack, 1, m)[n] = stack[n]
  <2>1. m \in Nat /\ m <= Len(stack) /\ m - 1 + 1 = m
    BY <1>2
  <2> HIDE DEF m
  <2>2. \A i \in 1..m : stack[i] \in Frames
    BY <1>1, <1>2, <2>1
  <2>3. QED  BY <1>1, <2>1, <2>2, SubSeqProperties
<1>5. QED  BY <1>2, <1>3, <1>4 DEF Below

(* The callbacks call anything but xTimerDelete.                           *)
NoDeleteInCallback == "xTimerDelete" \notin CallbackOp

(* No step moves a timer away from a frame that will settle it.            *)
LEMMA HomeStep ==
  ASSUME NoDeleteInCallback, TypeOK, FramesPointHome, [Next]_vars
  PROVE  FramesPointHome'
<1>0. /\ stack \in Seq(Frames) /\ Len(stack) <= Len(stack)
      /\ \A n \in 1..Len(stack) : stack[n] = stack[n]
  BY DEF Frames, TypeOK
<1>1. ASSUME NEW t \in Timer, xTimerCreate(t)  PROVE FramesPointHome'
  <2>1. /\ stack' = stack /\ DOMAIN timers \subseteq DOMAIN timers'
        /\ \A i \in DOMAIN timers : timers'[i] = timers[i]
    BY <1>1 DEF xTimerCreate, TypeOK
  <2>2. QED  BY <2>1 DEF FramesPointHome
<1>2. ASSUME NEW t \in Timer, xTimerDelete(t)  PROVE FramesPointHome'
  <2>1. stack' = << >>
    BY <1>2 DEF xTimerDelete, Calls, NoDeleteInCallback
  <2>2. QED  BY <2>1 DEF FramesPointHome
<1>3. ASSUME NEW t \in Timer, xTimerIsTimerActive(t)  PROVE FramesPointHome'
  <2>1. /\ timers' = timers
        /\ stack' = stack \/ stack' = Append(stack, Frame("query", t, 0))
    BY <1>3 DEF xTimerIsTimerActive, Fire
  <2>2. QED  BY <1>0, <2>1, HomeAgain
<1>4. ASSUME NEW t \in Timer, mockFireTimer(t)  PROVE FramesPointHome'
  <2>1. timers' = timers /\ stack' = Append(stack, Frame("fire", t, 0))
    BY <1>4 DEF mockFireTimer, Fire
  <2>2. QED  BY <1>0, <2>1, HomeAgain
<1>5. ASSUME mockProcessTimers  PROVE FramesPointHome'
  <2>1. PICK due0 : Pass(1, active, stack, due0)
    BY <1>5, Zenon DEF mockProcessTimers
  <2>2. 1 \in Nat \ {0} /\ timers' = timers
    BY <1>5 DEF mockProcessTimers
  <2>3. \/ stack' = stack
        \/ \E j \in 1..Len(timers) :
             stack' = Append(stack, Frame("process", timers[j], j))
    BY <2>1, <2>2, PassStack, Zenon
  <2>4. QED  BY <1>0, <2>2, <2>3, HomeAgain
<1>6. ASSUME mockClearTimers  PROVE FramesPointHome'
  BY <1>6 DEF mockClearTimers, FramesPointHome
<1>7. ASSUME CallbackReturns  PROVE FramesPointHome'
  <2>1. /\ Below \in Seq(Frames) /\ Len(Below) <= Len(stack)
        /\ \A n \in 1..Len(Below) : Below[n] = stack[n]
        /\ Top.index + 1 \in Nat \ {0}
    BY <1>7, BelowTop DEF CallbackReturns, Frames
  <2>2. timers' = timers
    BY <1>7 DEF CallbackReturns
  <2>3. \/ stack' = Below
        \/ \E j \in 1..Len(timers) :
             stack' = Append(Below, Frame("process", timers[j], j))
    <3>1. CASE ProcessReturn
      <4>1. Pass(Top.index + 1, active', Below, owed)
        BY <3>1, Zenon DEF ProcessReturn
      <4>2. QED  BY <2>1, <4>1, PassStack, Zenon
    <3>2. CASE FireReturn \/ QueryReturn
      BY <3>2 DEF FireReturn, QueryReturn
    <3>3. QED  BY <1>7, <3>1, <3>2 DEF CallbackReturns
  <2>4. QED  BY <2>1, <2>2, <2>3, HomeAgain
<1>8. ASSUME timers' = timers, stack' = stack  PROVE FramesPointHome'
  BY <1>8 DEF FramesPointHome
<1>9. QED
  BY <1>1, <1>2, <1>3, <1>4, <1>5, <1>6, <1>7, <1>8
     DEF Next, vars, xTimerStart, xTimerReset, Arm, xTimerStop,
         xTimerChangePeriod, Elapse

(* Only the return of a callback takes a frame off the stack, and it       *)
(* settles the timer of that frame.                                        *)
LEMMA SettleStep ==
  ASSUME TypeOK, FramesPointHome, [Next]_vars, Returned
  PROVE  \A t \in Timer :
           active'[t] = (active[t] /\ (t = Top.timer => autoReload[t]))
<1>0. stack \in Seq(Frames) /\ stack # << >>
  BY DEF Frames, TypeOK, Returned
<1>1. ASSUME stack' = stack  PROVE FALSE
  BY <1>0, <1>1 DEF Returned, Top
<1>2. ASSUME NEW f, stack' = Append(stack, f)  PROVE FALSE
  BY <1>0, <1>2 DEF Returned, Top
<1>3. CallbackReturns
  <2>1. ASSUME NEW t \in Timer, xTimerIsTimerActive(t) \/ mockFireTimer(t)
        PROVE  FALSE
    BY <1>1, <1>2, <2>1 DEF xTimerIsTimerActive, mockFireTimer, Fire
  <2>2. ASSUME mockProcessTimers  PROVE FALSE
    <3>1. PICK due0 : Pass(1, active, stack, due0)
      BY <2>2, Zenon DEF mockProcessTimers
    <3>2. 1 \in Nat \ {0}  OBVIOUS
    <3>3. QED  BY <1>1, <1>2, <3>1, <3>2, PassStack, Zenon
  <2>3. ~mockClearTimers
    BY <1>0 DEF mockClearTimers
  <2>4. QED
    BY <1>1, <2>1, <2>2, <2>3
       DEF Next, vars, xTimerCreate, xTimerStart, xTimerReset, Arm, xTimerStop,
           xTimerDelete, xTimerChangePeriod, Elapse
<1>4. Top \in Frames
  BY <1>0, BelowTop
<1>5. CASE ProcessReturn
  <2>1. timers[Top.index] = Top.timer
    BY <1>0, <1>5, BelowTop DEF ProcessReturn, FramesPointHome, Top, TypeOK
  <2>2. QED  BY <1>4, <1>5, <2>1 DEF ProcessReturn, Settle, Frames, TypeOK
<1>6. CASE FireReturn
  BY <1>4, <1>6 DEF FireReturn, Settle, Frames, TypeOK
<1>7. CASE QueryReturn
  <2>1. CASE autoReload[Top.timer]
    BY <1>4, <1>7, <2>1 DEF QueryReturn, Reload, Frames, TypeOK
  <2>2. CASE ~autoReload[Top.timer]
    BY <1>4, <1>7, <2>2 DEF QueryReturn, Reload, Frames, TypeOK
  <2>3. QED  BY <2>1, <2>2
<1>8. QED  BY <1>3, <1>5, <1>6, <1>7 DEF CallbackReturns

(* Every dispatcher settles the timer whose callback it ran, and no other, *)
(* at any depth of nested dispatchers, as long as no callback calls        *)
(* xTimerDelete.                                                           *)
THEOREM DispatchersSettleTheirOwn ==
  ASSUME NoDeleteInCallback
  PROVE  Spec => SettlesItsOwnTimer
<1>1. Init => FramesPointHome
  BY DEF Init, FramesPointHome
<1>2. TypeOK /\ FramesPointHome /\ [Next]_vars => FramesPointHome'
  BY HomeStep
<1>3. TypeOK /\ FramesPointHome /\ [Next]_vars =>
        [Returned => \A t \in Timer :
           active'[t] = (active[t] /\ (t = Top.timer => autoReload[t]))]_vars
  BY SettleStep
<1>4. QED  BY <1>1, <1>2, <1>3, TypeCorrect, PTL DEF Spec, SettlesItsOwnTimer

(* Deleting in a callback is the only way in which a one-shot that         *)
(* mockProcessTimers has fired can be left active.                         *)
THEOREM FiredOneShotsAreInactive ==
  ASSUME NoDeleteInCallback
  PROVE  Spec => OneShotInactiveAfterFiring
<1>1. TypeOK /\ [Returned => \A t \in Timer :
                   active'[t] = (active[t] /\ (t = Top.timer => autoReload[t]))]_vars
        => [Returned /\ Top.kind = "process" /\ Top.timer \in Live
              /\ ~autoReload[Top.timer] => ~active'[Top.timer]]_vars
  <2>1. TypeOK => Live \subseteq Timer
    BY DEF TypeOK, Live
  <2> QED BY <2>1
<1> QED BY <1>1, DispatchersSettleTheirOwn, TypeCorrect, PTL
        DEF SettlesItsOwnTimer, OneShotInactiveAfterFiring
-----------------------------------------------------------------------------
(* A pass serves everybody.  What the outermost pass still owes is active, *)
(* has a callback and lies beyond the index of the pass; what some         *)
(* dispatcher has fired is not owed.                                       *)
Ahead(t, i) == active[t] /\ callback[t] /\ \E k \in i..Len(timers) : timers[k] = t

OwedAhead ==
  /\ \A t \in owed : /\ stack # << >> /\ stack[1].kind = "process"
                     /\ Ahead(t, stack[1].index + 1)
  /\ \A n \in DOMAIN stack : stack[n].timer \notin owed

(* A step that leaves the outermost pass where it is.                      *)
LEMMA DebtKept ==
  ASSUME TypeOK, OwedAhead, owed' \subseteq owed,
         owed' # {} => stack' # << >> /\ stack'[1] = stack[1],
         \A t \in owed' : active'[t] = active[t] /\ callback'[t] = callback[t],
         Len(timers) <= Len(timers'), Len(timers') \in Nat,
         \A i \in 1..Len(timers) : timers'[i] = timers[i],
         \A n \in DOMAIN stack' : stack'[n].timer \notin owed'
  PROVE  OwedAhead'
<1>1. ASSUME NEW t \in owed'
      PROVE  /\ stack' # << >> /\ stack'[1].kind = "process"
             /\ Ahead(t, stack[1].index + 1)'
  <2>1. /\ t \in owed /\ stack' # << >> /\ stack'[1] = stack[1]
        /\ stack # << >> /\ stack[1].kind = "process" /\ Ahead(t, stack[1].index + 1)
    BY <1>1 DEF OwedAhead
  <2>2. stack[1].index \in Nat /\ Len(timers) \in Nat
    <3>1. stack \in Seq(Frames) /\ Len(timers) \in Nat
      BY DEF TypeOK, Frames
    <3>2. stack[1] \in Frames
      BY <2>1, <3>1
    <3> QED BY <3>1, <3>2 DEF Frames
  <2>3. PICK k \in stack[1].index + 1..Len(timers) : timers[k] = t
    BY <2>1 DEF Ahead
  <2>4. k \in 1..Len(timers) /\ k \in stack[1].index + 1..Len(timers')
    BY <2>2, <2>3
  <2>5. timers'[k] = t /\ active'[t] /\ callback'[t]
    BY <1>1, <2>1, <2>3, <2>4 DEF Ahead
  <2> QED BY <2>1, <2>4, <2>5 DEF Ahead
<1> QED BY <1>1 DEF OwedAhead

(* What the frames of the stack have fired, after one more.                *)
LEMMA PushedNotOwed ==
  ASSUME NEW below \in Seq(Frames), NEW debt,
         \A n \in 1..Len(below) : below[n].timer \notin debt,
         NEW t \in Timer, NEW kind \in {"process", "fire", "query"}, NEW i \in Nat,
         stack' = Append(below, Frame(kind, t, i)), owed' = debt \ {t}
  PROVE  /\ \A n \in DOMAIN stack' : stack'[n].timer \notin owed'
         /\ stack' # << >> /\ (below # << >> => stack'[1] = below[1])
<1> DEFINE f == Frame(kind, t, i)
<1>1. f.timer = t
  BY DEF Frame
<1> HIDE DEF f
<1>2. /\ Len(below) \in Nat /\ DOMAIN stack' = 1..(Len(below) + 1)
      /\ \A n \in 1..Len(below) : stack'[n] = below[n]
      /\ stack'[Len(below) + 1] = f
  BY DEF f
<1>3. \A n \in 1..(Len(below) + 1) : n \in 1..Len(below) \/ n = Len(below) + 1
  BY <1>2
<1>4. below # << >> => 1 \in 1..Len(below)
  BY <1>2
<1>5. stack' # << >>
  BY DEF f
<1> QED BY <1>1, <1>2, <1>3, <1>4, <1>5

(* A nested pass leaves the outermost one where it is.                     *)
LEMMA NestedPass ==
  ASSUME TypeOK, OwedAhead, NEW below \in Seq(Frames), below # << >>,
         Len(below) <= Len(stack), \A n \in 1..Len(below) : below[n] = stack[n],
         NEW i \in Nat \ {0}, NEW isActive, Pass(i, isActive, below, owed),
         UNCHANGED <<timers, conf>>, \A t \in owed : active'[t] = active[t]
  PROVE  OwedAhead'
<1>0. /\ Len(below) \in Nat /\ Len(stack) \in Nat /\ DOMAIN stack = 1..Len(stack)
      /\ Len(timers) \in Nat /\ \A j \in 1..Len(timers) : timers[j] \in Timer
  BY DEF TypeOK
<1>1. below[1] = stack[1] /\ \A n \in 1..Len(below) : below[n].timer \notin owed
  BY <1>0 DEF OwedAhead
<1> DEFINE ready == {j \in i..Len(timers) : isActive[timers[j]] /\ callback[timers[j]]}
<1>2. CASE stack' = below /\ owed' = owed
  BY <1>0, <1>1, <1>2, DebtKept DEF conf
<1>3. ASSUME NEW j \in ready, stack' = Append(below, Frame("process", timers[j], j)),
             owed' = owed \ {timers[j]}
      PROVE  OwedAhead'
  <2>1. j \in Nat /\ timers[j] \in Timer
    BY <1>0
  <2>2. /\ \A n \in DOMAIN stack' : stack'[n].timer \notin owed'
        /\ stack' # << >> /\ stack'[1] = below[1]
    BY <1>1, <1>3, <2>1, PushedNotOwed
  <2> QED BY <1>0, <1>1, <1>3, <2>2, DebtKept DEF conf
<1>4. \/ stack' = below /\ owed' = owed
      \/ \E j \in ready : /\ stack' = Append(below, Frame("process", timers[j], j))
                          /\ owed' = owed \ {timers[j]}
  BY Zenon DEF Pass
<1> QED BY <1>2, <1>3, <1>4

(* The outermost pass goes on to the first timer it owes, or ends with no  *)
(* debt.                                                                   *)
LEMMA OutermostPass ==
  ASSUME TypeOK, NEW i \in Nat \ {0}, NEW isActive, NEW debt,
         Pass(i, isActive, << >>, debt),
         \A t \in debt : /\ isActive[t] /\ callback[t]
                         /\ \E k \in i..Len(timers) : timers[k] = t,
         active' = isActive, UNCHANGED <<timers, conf>>
  PROVE  OwedAhead'
<1>0. Len(timers) \in Nat /\ \A j \in 1..Len(timers) : timers[j] \in Timer
  BY DEF TypeOK
<1> DEFINE ready == {j \in i..Len(timers) : isActive[timers[j]] /\ callback[timers[j]]}
<1>1. \A t \in debt : \E k \in ready : timers[k] = t
  OBVIOUS
<1>2. CASE ready = {} /\ stack' = << >> /\ owed' = debt
  <2>1. owed' = {}
    BY <1>1, <1>2
  <2> QED BY <1>2, <2>1 DEF OwedAhead
<1>3. ASSUME NEW j \in ready, \A k \in ready : j <= k,
             stack' = Append(<< >>, Frame("process", timers[j], j)), owed' = debt \ {timers[j]}
      PROVE  OwedAhead'
  <2>1. j \in Nat /\ j \in i..Len(timers)
    BY <1>0
  <2>2. stack' = <<Frame("process", timers[j], j)>>
    BY <1>3
  <2>3. /\ stack' # << >> /\ DOMAIN stack' = {1} /\ stack'[1].kind = "process"
        /\ stack'[1].index = j /\ stack'[1].timer = timers[j]
    BY <2>2 DEF Frame
  <2>4. ASSUME NEW t \in owed' PROVE Ahead(t, j + 1)'
    <3>1. PICK k \in ready : timers[k] = t
      BY <1>1, <1>3
    <3>2. j <= k /\ k # j
      BY <1>3, <3>1
    <3>3. k \in j + 1..Len(timers)
      BY <1>0, <2>1, <3>2
    <3> QED BY <1>3, <3>1, <3>3 DEF Ahead, conf
  <2> QED BY <1>3, <2>3, <2>4 DEF OwedAhead
<1>4. \/ ready = {} /\ stack' = << >> /\ owed' = debt
      \/ \E j \in ready : /\ \A k \in ready : j <= k
                          /\ stack' = Append(<< >>, Frame("process", timers[j], j))
                          /\ owed' = debt \ {timers[j]}
  BY Zenon DEF Pass
<1> QED BY <1>2, <1>3, <1>4

(* A callback returns to a dispatcher, the outermost one or a nested one.  *)
LEMMA ReturnKeepsDebt ==
  ASSUME TypeOK, FramesPointHome, OwedAhead, CallbackReturns
  PROVE  OwedAhead'
<1>1. /\ stack # << >> /\ UNCHANGED <<timers, conf>>
      /\ Len(stack) \in 1..Len(stack) /\ Top \in Frames
      /\ Below \in Seq(Frames) /\ Len(Below) = Len(stack) - 1
      /\ \A n \in 1..Len(Below) : Below[n] = stack[n]
  BY BelowTop DEF CallbackReturns
<1>2. /\ Top = stack[Len(stack)] /\ Top.timer \notin owed
      /\ Len(stack) \in Nat /\ DOMAIN stack = 1..Len(stack) /\ Len(timers) \in Nat
  BY <1>1 DEF Top, OwedAhead, TypeOK
<1>3. Top.index + 1 \in Nat \ {0} /\ Top.timer \in Timer
  BY <1>1 DEF Frames
<1>4. CASE ProcessReturn
  <2>1. Top.kind = "process" /\ timers[Top.index] = Top.timer
    BY <1>1, <1>2, <1>4 DEF ProcessReturn, FramesPointHome
  <2>2. \A t \in owed : active'[t] = active[t]
    BY <1>2, <1>4, <2>1 DEF ProcessReturn, Settle, TypeOK
  <2>3. Pass(Top.index + 1, active', Below, owed)
    BY <1>4, Zenon DEF ProcessReturn
  <2>4. CASE Len(stack) = 1
    <3>1. Below = << >> /\ Top = stack[1]
      BY <1>1, <1>2, <2>4
    <3>2. \A t \in owed : Ahead(t, Top.index + 1)
      BY <3>1 DEF OwedAhead
    <3>3. Pass(Top.index + 1, active', << >>, owed)
      BY <2>3, <3>1
    <3> QED BY <1>1, <1>3, <2>2, <3>2, <3>3, OutermostPass DEF Ahead
  <2>5. CASE Len(stack) # 1
    <3>1. Below # << >> /\ Len(Below) <= Len(stack)
      BY <1>1, <1>2, <2>5
    <3> QED BY <1>1, <1>3, <2>2, <2>3, <3>1, NestedPass
  <2> QED BY <2>4, <2>5
<1>5. CASE FireReturn \/ QueryReturn
  <2>1. Top.kind \in {"fire", "query"} /\ stack' = Below /\ owed' = owed
    BY <1>5 DEF FireReturn, QueryReturn
  <2>2. \A t \in owed : active'[t] = active[t]
    BY <1>2, <1>3, <1>5 DEF FireReturn, QueryReturn, Settle, Reload, TypeOK
  <2>3. owed # {} => Len(stack) # 1
    BY <1>2, <2>1 DEF OwedAhead
  <2>4. owed # {} => Below # << >> /\ Below[1] = stack[1]
    BY <1>1, <1>2, <2>3
  <2>5. \A n \in DOMAIN Below : Below[n].timer \notin owed
    BY <1>1, <1>2 DEF OwedAhead
  <2> QED BY <1>1, <1>2, <2>1, <2>2, <2>4, <2>5, DebtKept DEF conf
<1> QED BY <1>4, <1>5 DEF CallbackReturns

LEMMA DebtStep ==
  ASSUME NoDeleteInCallback, TypeOK, FramesPointHome, OwedAhead, [Next]_vars
  PROVE  OwedAhead'
<1>0. /\ stack \in Seq(Frames) /\ Len(stack) \in Nat /\ DOMAIN stack = 1..Len(stack)
      /\ Len(timers) \in Nat /\ Len(stack) <= Len(stack) /\ Len(timers) <= Len(timers)
      /\ \A n \in 1..Len(stack) : stack[n].timer \notin owed
      /\ \A t \in owed : t \in Live /\ active[t] /\ callback[t]
      /\ owed # {} => stack # << >>
  <2>1. stack \in Seq(Frames) /\ Len(timers) \in Nat
    BY DEF TypeOK, Frames
  <2>2. ASSUME NEW t \in owed PROVE t \in Live
    <3>1. PICK k \in stack[1].index + 1..Len(timers) : timers[k] = t
      BY DEF OwedAhead, Ahead
    <3>2. stack[1] \in Frames
      BY <2>1, <2>2 DEF OwedAhead
    <3>3. k \in 1..Len(timers)
      BY <2>1, <3>2 DEF Frames
    <3> QED BY <3>1, <3>3 DEF Live, TypeOK
  <2> QED BY <2>1, <2>2 DEF OwedAhead, Ahead
<1>1. ASSUME UNCHANGED <<timers, callback, stack>>, owed' \subseteq owed,
             \A t \in owed' : active'[t] = active[t]
      PROVE  OwedAhead'
  BY <1>0, <1>1, DebtKept
<1>2. ASSUME NEW t \in Timer, xTimerCreate(t) PROVE OwedAhead'
  <2>1. /\ t \notin owed /\ stack' = stack /\ owed' = owed
        /\ \A u \in owed : active'[u] = active[u] /\ callback'[u] = callback[u]
    BY <1>0, <1>2 DEF xTimerCreate, TypeOK
  <2>2. /\ Len(timers') \in Nat /\ Len(timers) <= Len(timers')
        /\ \A i \in 1..Len(timers) : timers'[i] = timers[i]
    BY <1>2 DEF xTimerCreate, TypeOK
  <2> QED BY <1>0, <2>1, <2>2, DebtKept
<1>3. ASSUME NEW t \in Timer, Arm(t) PROVE OwedAhead'
  <2>1. \A u \in owed : active'[u] = active[u]
    BY <1>0, <1>3 DEF Arm, TypeOK
  <2> QED BY <1>1, <1>3, <2>1 DEF Arm, conf
<1>4. ASSUME NEW t \in Timer, xTimerStop(t) PROVE OwedAhead'
  <2>1. \A u \in owed' : active'[u] = active[u]
    BY <1>0, <1>4 DEF xTimerStop, TypeOK
  <2> QED BY <1>1, <1>4, <2>1 DEF xTimerStop, conf
<1>5. ASSUME NEW t \in Timer, xTimerDelete(t) PROVE OwedAhead'
  <2>1. stack = << >> /\ stack' = << >> /\ owed' \subseteq owed
    BY <1>5 DEF xTimerDelete, Calls, NoDeleteInCallback
  <2> QED BY <1>0, <2>1 DEF OwedAhead
<1>6. ASSUME NEW t \in Timer, NEW kind \in {"fire", "query"}, Fire(kind, t),
             UNCHANGED <<timers, callback, active>>
      PROVE  OwedAhead'
  <2>1. /\ \A n \in DOMAIN stack' : stack'[n].timer \notin owed'
        /\ stack' # << >> /\ (stack # << >> => stack'[1] = stack[1])
    BY <1>0, <1>6, PushedNotOwed DEF Fire
  <2>2. owed' \subseteq owed
    BY <1>6 DEF Fire
  <2> QED BY <1>0, <1>6, <2>1, <2>2, DebtKept
<1>7. ASSUME NEW t \in Timer, xTimerIsTimerActive(t) PROVE OwedAhead'
  <2>1. CASE callback[t]
    BY <1>6, <1>7, <2>1 DEF xTimerIsTimerActive, conf
  <2>2. CASE ~callback[t]
    <3>1. \A u \in owed : active'[u] = active[u]
      BY <1>0, <1>7, <2>2 DEF xTimerIsTimerActive, Reload, TypeOK
    <3> QED BY <1>1, <1>7, <2>2, <3>1 DEF xTimerIsTimerActive, conf
  <2> QED BY <2>1, <2>2
<1>8. ASSUME NEW t \in Timer, mockFireTimer(t) PROVE OwedAhead'
  BY <1>6, <1>8 DEF mockFireTimer, conf
<1>9. ASSUME mockProcessTimers PROVE OwedAhead'
  <2>1. UNCHANGED <<timers, conf, active>> /\ 1 \in Nat \ {0}
    BY <1>9 DEF mockProcessTimers
  <2>2. CASE stack = << >>
    <3> DEFINE debt == {t \in Live : active[t] /\ callback[t]}
    <3>1. Pass(1, active, << >>, debt)
      BY <1>9, <2>2 DEF mockProcessTimers
    <3>2. \A t \in debt : /\ active[t] /\ callback[t]
                          /\ \E k \in 1..Len(timers) : timers[k] = t
      BY DEF Live, TypeOK
    <3> HIDE DEF debt
    <3> QED BY <2>1, <3>1, <3>2, OutermostPass
  <2>3. CASE stack # << >>
    <3>1. Pass(1, active, stack, owed)
      BY <1>9, <2>3 DEF mockProcessTimers
    <3>2. \A t \in owed : active'[t] = active[t]
      BY <2>1
    <3> QED BY <1>0, <2>1, <2>3, <3>1, <3>2, NestedPass
  <2> QED BY <2>2, <2>3
<1>10. ASSUME mockClearTimers PROVE OwedAhead'
  BY <1>10 DEF mockClearTimers, OwedAhead
<1>11. CASE \/ UNCHANGED vars
            \/ \E t \in Timer : xTimerChangePeriod(t) \/ Elapse(t)
  BY <1>1, <1>11 DEF vars, conf, xTimerChangePeriod, Elapse
<1> QED
  BY <1>2, <1>3, <1>4, <1>5, <1>7, <1>8, <1>9, <1>10, <1>11, ReturnKeepsDebt
     DEF Next, xTimerStart, xTimerReset

(* When the outermost pass ends, every timer that was active with a        *)
(* callback at its beginning has been fired, or was stopped, whatever the  *)
(* callbacks started, stopped, created or dispatched meanwhile, as long as *)
(* none of them deletes.                                                   *)
THEOREM PassesServeAll ==
  ASSUME NoDeleteInCallback
  PROVE  Spec => []PassServesAll
<1>1. Init => FramesPointHome /\ OwedAhead
  BY DEF Init, FramesPointHome, OwedAhead
<1>2. TypeOK /\ FramesPointHome /\ [Next]_vars => FramesPointHome'
  BY HomeStep
<1>3. TypeOK /\ FramesPointHome /\ OwedAhead /\ [Next]_vars => OwedAhead'
  BY DebtStep
<1>4. OwedAhead => PassServesAll
  BY DEF OwedAhead, PassServesAll
<1> QED BY <1>1, <1>2, <1>3, <1>4, TypeCorrect, PTL DEF Spec
=============================================================================
