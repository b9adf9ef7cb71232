-------------------------- MODULE SerialPortProofs --------------------------
(* Theorems about SerialPort, for any number of threads that read and that *)
(* print, any timeouts and any number of bytes.                            *)
EXTENDS SerialPort, SequenceTheorems, WellFoundedInduction, TLAPS

(* The longest timeout is one of them.                                     *)
LEMMA LongestIsMax ==
  /\ Longest \in Timeouts /\ Longest \in Nat \ {0}
  /\ \A n \in Timeouts : n <= Longest
  /\ Oldest \in Nat /\ Longest <= Oldest /\ MaxHold <= Oldest /\ Oldest < 2 ^ Width
<1>1. Longest \in Timeouts /\ \A n \in Timeouts : n <= Longest
  BY SerialAssumption DEF Longest, SerialAssumption
<1>2. Longest \in Nat \ {0} /\ MaxHold \in Nat /\ Longest + MaxHold < 2 ^ Width
  BY <1>1, SerialAssumption DEF SerialAssumption
<1> HIDE DEF Longest
<1> QED BY <1>1, <1>2 DEF Oldest

LEMMA AtMostType ==
  ASSUME NEW n \in Nat, NEW bound \in Nat
  PROVE  AtMost(n, bound) \in 0 .. bound
BY DEF AtMost
-----------------------------------------------------------------------------
(* Types.                                                                  *)
Place == {"idle", "digits", "cr", "lf", "stamp", "store", "poll", "sample", "compare"}
Call  == [at : Place, left : 1 .. MaxBytes + 1, stop : BOOLEAN, alone : BOOLEAN,
          seen : 0 .. MaxHold, waited : 0 .. Longest]

LEMMA IdleType == Idle \in Call
BY LongestIsMax, SerialAssumption DEF Idle, Call, Place, SerialAssumption

LEMMA InitType == Init => TypeOK
<1> SUFFICES ASSUME Init PROVE TypeOK
  OBVIOUS
<1>1. call \in [Caller -> Call]
  BY IdleType DEF Init
<1> QED BY <1>1, LongestIsMax, SerialAssumption DEF Init, TypeOK, Call, Place, SerialAssumption

(* The first n bytes leave the queue.                                      *)
LEMMA PopType ==
  ASSUME TypeOK, NEW n \in 0 .. Len(rx), Pop(n)
  PROVE  /\ rx' \in Seq(1 .. MaxBytes) /\ gone' \in Seq(1 .. MaxBytes)
         /\ injected' = injected
<1>1. SubSeq(rx, n + 1, Len(rx)) \in Seq(1 .. MaxBytes) /\ SubSeq(rx, 1, n) \in Seq(1 .. MaxBytes)
  <2>1. /\ rx \in Seq(1 .. MaxBytes) /\ Len(rx) \in Nat
        /\ \A i \in 1 .. Len(rx) : rx[i] \in 1 .. MaxBytes
    <3>1. rx \in Seq(1 .. MaxBytes)
      BY DEF TypeOK
    <3>2. ASSUME NEW i \in 1 .. Len(rx) PROVE rx[i] \in 1 .. MaxBytes
      BY <3>1, ElementOfSeq
    <3> QED BY <3>1, <3>2
  <2>2. /\ n + 1 \in Int /\ \A i \in n + 1 .. Len(rx) : rx[i] \in 1 .. MaxBytes
        /\ n \in Int /\ \A i \in 1 .. n : rx[i] \in 1 .. MaxBytes
    BY <2>1
  <2>3. SubSeq(rx, n + 1, Len(rx)) \in Seq(1 .. MaxBytes)
    BY <2>1, <2>2, SubSeqProperties
  <2>4. SubSeq(rx, 1, n) \in Seq(1 .. MaxBytes)
    BY <2>2, SubSeqProperties
  <2> QED BY <2>3, <2>4
<1> QED BY <1>1, ConcatProperties DEF Pop, TypeOK

LEMMA InjectType ==
  ASSUME TypeOK, NEW n \in 1 .. MaxBytes - injected, injectRxData(n)
  PROVE  TypeOK'
<1>1. Receive(n) \in Seq(1 .. MaxBytes)
  BY SerialAssumption DEF Receive, TypeOK, SerialAssumption
<1>2. rx' \in Seq(1 .. MaxBytes)
  BY <1>1, ConcatProperties DEF injectRxData, TypeOK
<1> QED BY <1>2, SerialAssumption DEF injectRxData, TypeOK, SerialAssumption

LEMMA WriteType ==
  ASSUME TypeOK, NEW t \in Printer, NEW from, NEW chars \in Seq(Written), NEW then \in Place,
         write(t, from, chars, then), Len(tx') <= MaxTx
  PROVE  TypeOK'
<1>1. tx' \in Seq(Written)
  BY ConcatProperties DEF write, TypeOK
<1>2. call' \in [Caller -> Call]
  <2>1. call' = [call EXCEPT ![t].at = then] /\ call \in [Caller -> Call]
    BY DEF write, Goto, TypeOK, Call, Place
  <2>2. t \in Caller /\ [call[t] EXCEPT !.at = then] \in Call
    BY <2>1 DEF Caller, Call
  <2> QED BY <2>1, <2>2
<1> QED BY <1>1, <1>2 DEF write, TypeOK, Call, Place

LEMMA PrintType ==
  ASSUME TypeOK, NEW t \in Printer, print(t, "idle") \/ println(t), Len(tx') <= MaxTx
  PROVE  TypeOK'
<1>1. /\ Text(t) \in Seq(Written)
      /\ \A part \in {"sign", "digits", "cr", "lf"} : OneChar(t, part) \in Seq(Written)
  BY DEF Text, OneChar, Written
<1>2. CASE print(t, "idle") \/ print(t, "cr")
  BY <1>1, <1>2, WriteType DEF print, Place
<1>3. CASE LineEnd(t)
  BY <1>1, <1>3, WriteType DEF LineEnd, Place
<1> QED BY <1>2, <1>3 DEF println

LEMMA ReadType ==
  ASSUME TypeOK, NEW t \in Reader, timedRead(t)
  PROVE  TypeOK'
<1>1. call \in [Caller -> Call] /\ t \in Caller /\ Idle \in Call
  BY IdleType DEF TypeOK, Call, Place, Caller
<1>2. CASE Stamp(t) \/ Sample(t) \/ GiveUp(t) \/ Retry(t)
  <2>1. call' \in [Caller -> Call] /\ UNCHANGED <<rx, tx, age, _timeout, injected, gone>>
    <3>1. 0 \in 0 .. Longest /\ 0 \in 0 .. MaxHold
      BY LongestIsMax, SerialAssumption DEF SerialAssumption
    <3>2. UNCHANGED <<rx, tx, _timeout, injected, gone>>
      BY <1>2 DEF timedRead, Stamp, Sample, GiveUp, Retry, Poll, Store
    <3> QED BY <1>1, <1>2, <3>1, <3>2 DEF Stamp, Sample, GiveUp, Retry, Goto, Call, Place
  <2> QED BY <2>1 DEF TypeOK, Call, Place
<1>3. CASE Store(t)
  <2>1. call' \in [Caller -> Call] /\ age' \in 0 .. MaxHold
    BY <1>1, <1>3 DEF Store, Goto, Call, Place
  <2>2. UNCHANGED <<rx, tx, _timeout, injected, gone>>
    BY <1>3 DEF timedRead, Stamp, Sample, GiveUp, Retry, Poll, Store
  <2>3. age' \in 0 .. Oldest
    BY <2>1, LongestIsMax, SerialAssumption DEF SerialAssumption
  <2> QED BY <2>1, <2>2, <2>3 DEF TypeOK, Call, Place
<1>4. CASE Poll(t)
  <2>1. CASE rx = <<>> /\ Goto(t, "sample") /\ UNCHANGED <<rx, gone, injected>>
    <3>1. call' \in [Caller -> Call]
      BY <1>1, <2>1 DEF Goto, Call, Place
    <3> QED BY <1>4, <2>1, <3>1 DEF Poll, TypeOK, Call, Place
  <2>2. CASE rx # <<>> /\ Pop(1) /\ Took(t, Head(rx))
    <3>1. 1 \in 0 .. Len(rx)
      BY <2>2 DEF TypeOK
    <3>2. call[t].left # 1 => call[t].left - 1 \in 1 .. MaxBytes + 1
      BY <1>1, SerialAssumption DEF Call, SerialAssumption
    <3>3. call' \in [Caller -> Call]
      <4> DEFINE done == call[t].left = 1 \/ (call[t].stop /\ Head(rx) \in Terminator)
      <4>0. call' = [call EXCEPT ![t] = IF done THEN Idle
                                        ELSE [call[t] EXCEPT !.at = "stamp", !.left = call[t].left - 1]]
        BY <2>2 DEF Took
      <4>1. CASE done
        BY <1>1, <4>0, <4>1
      <4>2. CASE ~done
        <5>1. [call[t] EXCEPT !.at = "stamp", !.left = call[t].left - 1] \in Call
          BY <1>1, <3>2, <4>2 DEF Call, Place
        <5> HIDE DEF done
        <5> QED BY <1>1, <4>0, <4>2, <5>1
      <4> QED BY <4>1, <4>2
    <3> QED BY <1>4, <2>2, <3>1, <3>3, PopType DEF Poll, TypeOK, Call, Place
  <2> QED BY <1>4, <2>1, <2>2 DEF Poll
<1> QED BY <1>2, <1>3, <1>4 DEF timedRead

LEMMA CallsType ==
  ASSUME TypeOK, Calls, UNCHANGED <<rx, tx, age, _timeout, injected, gone>>
  PROVE  TypeOK'
<1>1. PICK t \in Reader, n \in {1, MaxBytes + 1}, stop \in BOOLEAN : Begin(t, n, stop)
  BY DEF Calls
<1>2. call' \in [Caller -> Call]
  <2>1. /\ n \in 1 .. MaxBytes + 1 /\ 0 \in 0 .. Longest
        /\ (~\E v \in Caller : Reading(v)) \in BOOLEAN
    BY LongestIsMax, SerialAssumption DEF SerialAssumption
  <2>2. [Idle EXCEPT !.at = "stamp", !.left = n, !.stop = stop,
                     !.alone = ~\E v \in Caller : Reading(v)] \in Call
    BY <2>1, IdleType DEF Call, Place
  <2>3. \A u \in Caller :
          [call[u] EXCEPT !.alone = @ /\ ~Reading(u), !.waited = 0] \in Call
    BY <2>1 DEF TypeOK, Call, Place
  <2> QED BY <1>1, <2>2, <2>3 DEF Begin
<1> QED BY <1>2 DEF TypeOK, Call, Place

LEMMA TickType ==
  ASSUME TypeOK, Tick
  PROVE  TypeOK'
<1>1. age' \in 0 .. Oldest
  <2>1. age + 1 \in Nat /\ Oldest \in Nat
    BY LongestIsMax DEF TypeOK
  <2> QED BY <2>1, AtMostType DEF Tick
<1>2. call' \in [Caller -> Call]
  <2>1. \A t \in Caller : /\ call[t] \in Call
                          /\ AtMost(call[t].waited + 1, Longest) \in 0 .. Longest
    <3>1. \A t \in Caller : call[t] \in Call
      BY DEF TypeOK, Call, Place
    <3>2. \A t \in Caller : call[t].waited + 1 \in Nat
      BY <3>1, LongestIsMax DEF Call
    <3> QED BY <3>1, <3>2, AtMostType, LongestIsMax
  <2>2. \A t \in Caller : call[t].at \in {"store", "compare"} => call[t].seen + 1 \in 0 .. MaxHold
    <3>1. \A t \in Caller : call[t].at \in {"store", "compare"} => call[t].seen < MaxHold
      BY DEF Tick
    <3>2. \A t \in Caller : call[t].seen \in 0 .. MaxHold
      BY <2>1 DEF Call
    <3>3. MaxHold \in Nat
      BY SerialAssumption DEF SerialAssumption
    <3> QED BY <3>1, <3>2, <3>3
  <2>3. 0 \in 0 .. Longest /\ 0 \in 0 .. MaxHold
    BY LongestIsMax, SerialAssumption DEF SerialAssumption
  <2> QED BY <2>1, <2>2, <2>3 DEF Tick, Call
<1> QED BY <1>1, <1>2 DEF Tick, TypeOK, Call, Place

LEMMA NothingWritten == <<>> \in Seq(Written) /\ Len(<<>>) <= MaxTx
<1>1. <<>> \in Seq(Written) /\ Len(<<>>) = 0
  OBVIOUS
<1> QED BY <1>1, SerialAssumption DEF SerialAssumption

LEMMA StepType ==
  ASSUME TypeOK, [Next]_serialVars
  PROVE  TypeOK'
<1>1. ASSUME NEW n \in 1 .. MaxBytes - injected, injectRxData(n) PROVE TypeOK'
  BY <1>1, InjectType
<1>2. CASE Calls /\ UNCHANGED <<rx, tx, age, _timeout, injected, gone>>
  BY <1>2, CallsType
<1>3. ASSUME NEW t \in Reader, timedRead(t) PROVE TypeOK'
  BY <1>3, ReadType
<1>4. ASSUME NEW t \in Printer, print(t, "idle") \/ println(t), Len(tx') <= MaxTx PROVE TypeOK'
  BY <1>4, PrintType
<1>5. CASE flush \/ getTxData \/ ClearTxData
  <2>1. tx' = <<>> /\ UNCHANGED <<rx, age, _timeout, call, injected, gone>>
    BY <1>5 DEF flush, getTxData, ClearTxData
  <2> QED BY <2>1, NothingWritten DEF TypeOK
<1>6. CASE ClearRxData \/ clearBuffers
  <2>1. Len(rx) \in 0 .. Len(rx) /\ Pop(Len(rx)) /\ UNCHANGED <<age, _timeout, call>>
    BY <1>6 DEF ClearRxData, clearBuffers, TypeOK
  <2>2. tx' \in Seq(Written) /\ Len(tx') <= MaxTx
    BY <1>6, NothingWritten DEF ClearRxData, clearBuffers, TypeOK
  <2> QED BY <2>1, <2>2, PopType DEF TypeOK
<1>7. ASSUME NEW n \in Timeouts, setTimeout(n) PROVE TypeOK'
  BY <1>7 DEF setTimeout, TypeOK
<1>8. CASE Tick
  BY <1>8, TickType
<1>9. CASE UNCHANGED serialVars
  BY <1>9 DEF serialVars, TypeOK
<1> QED BY <1>1, <1>2, <1>3, <1>4, <1>5, <1>6, <1>7, <1>8, <1>9 DEF Next

(* The queues hold bytes and characters, readings of the clock are bounded *)
(* by what is assumed of the threads, whatever the interleaving.           *)
THEOREM TypeCorrect == Spec => []TypeOK
<1> QED BY InitType, StepType, PTL DEF Spec
-----------------------------------------------------------------------------
-----------------------------------------------------------------------------
(* Sequences put together and taken apart.                                 *)
IsConcat(c, s, t) ==
  /\ Len(c) = Len(s) + Len(t)
  /\ \A i \in 1 .. Len(s) + Len(t) : c[i] = IF i <= Len(s) THEN s[i] ELSE t[i - Len(s)]

LEMMA ConcatPick ==
  ASSUME NEW S, NEW s \in Seq(S), NEW t \in Seq(S)
  PROVE  s \o t \in Seq(S) /\ IsConcat(s \o t, s, t)
BY ConcatProperties DEF IsConcat

(* As the library's ConcatAssociative, with a name for each inner sequence. *)
LEMMA ConcatRegroups ==
  ASSUME NEW S, NEW s \in Seq(S), NEW t \in Seq(S), NEW u \in Seq(S),
         NEW st \in Seq(S), st = s \o t, NEW tu \in Seq(S), tu = t \o u
  PROVE  st \o u = s \o tu
<1>1. IsConcat(st, s, t)
  BY ConcatPick
<1>2. IsConcat(tu, t, u)
  BY ConcatPick
<1>3. PICK l \in Seq(S) : l = st \o u /\ IsConcat(l, st, u)
  BY ConcatPick
<1>4. PICK r \in Seq(S) : r = s \o tu /\ IsConcat(r, s, tu)
  BY ConcatPick
<1>5. Len(s) \in Nat /\ Len(t) \in Nat /\ Len(u) \in Nat
  OBVIOUS
<1>6. Len(l) = Len(s) + Len(t) + Len(u) /\ Len(r) = Len(s) + Len(t) + Len(u)
  BY <1>1, <1>2, <1>3, <1>4, <1>5 DEF IsConcat
<1>7. ASSUME NEW i \in 1 .. Len(l) PROVE l[i] = r[i]
  <2>1. CASE i <= Len(s)
    BY <1>1, <1>2, <1>3, <1>4, <1>5, <1>6, <2>1 DEF IsConcat
  <2>2. CASE Len(s) < i /\ i <= Len(s) + Len(t)
    <3>1. l[i] = t[i - Len(s)]
      BY <1>1, <1>3, <1>5, <1>6, <2>2 DEF IsConcat
    <3>2. i - Len(s) \in 1 .. Len(t) + Len(u) /\ i - Len(s) <= Len(t)
      BY <1>5, <1>6, <2>2
    <3>3. r[i] = tu[i - Len(s)]
      BY <1>4, <1>5, <1>6, <2>2 DEF IsConcat
    <3>4. tu[i - Len(s)] = t[i - Len(s)]
      BY <1>2, <3>2 DEF IsConcat
    <3> QED BY <3>1, <3>3, <3>4
  <2>3. CASE Len(s) + Len(t) < i
    <3>1. l[i] = u[i - (Len(s) + Len(t))]
      BY <1>1, <1>3, <1>5, <1>6, <2>3 DEF IsConcat
    <3>2. /\ i - Len(s) \in 1 .. Len(t) + Len(u) /\ ~(i - Len(s) <= Len(t))
          /\ i - Len(s) - Len(t) = i - (Len(s) + Len(t))
      BY <1>5, <1>6, <2>3
    <3>3. r[i] = tu[i - Len(s)]
      BY <1>4, <1>5, <1>6, <2>3 DEF IsConcat
    <3>4. tu[i - Len(s)] = u[i - Len(s) - Len(t)]
      BY <1>2, <3>2 DEF IsConcat
    <3> QED BY <3>1, <3>2, <3>3, <3>4
  <2> QED BY <1>5, <1>6, <2>1, <2>2, <2>3
<1>8. l = r
  BY <1>6, <1>7, SeqEqual
<1> QED BY <1>3, <1>4, <1>8

Regroups(s, t, u) == (s \o t) \o u = s \o (t \o u)

LEMMA AllRegroup ==
  ASSUME NEW S, NEW s \in Seq(S), NEW t \in Seq(S), NEW u \in Seq(S)
  PROVE  Regroups(s, t, u)
<1>1. s \o t \in Seq(S) /\ t \o u \in Seq(S)
  BY ConcatPick
<1> QED BY <1>1, ConcatRegroups DEF Regroups

(* A sequence is its first n elements and then the others.                 *)
LEMMA ConcatOfParts ==
  ASSUME NEW S, NEW s \in Seq(S), NEW n \in 0 .. Len(s),
         NEW a \in Seq(S), NEW b \in Seq(S), Len(a) = n, Len(b) = Len(s) - n,
         \A i \in 1 .. n : a[i] = s[i],
         \A i \in 1 .. Len(s) - n : b[i] = s[n + i]
  PROVE  a \o b = s
<1> DEFINE c == a \o b
<1>1. c \in Seq(S) /\ Len(c) = Len(a) + Len(b)
      /\ \A i \in 1 .. Len(a) + Len(b) : c[i] = IF i <= Len(a) THEN a[i] ELSE b[i - Len(a)]
  BY ConcatProperties
<1> HIDE DEF c
<1>2. Len(s) \in Nat
  OBVIOUS
<1>3. Len(c) = Len(s)
  BY <1>1, <1>2
<1>4. ASSUME NEW i \in 1 .. Len(c) PROVE c[i] = s[i]
  <2>1. CASE i <= n
    BY <1>1, <1>2, <1>3, <2>1
  <2>2. CASE ~(i <= n)
    <3>1. i - n \in 1 .. Len(s) - n /\ n + (i - n) = i
      BY <1>2, <1>3, <2>2
    <3>2. b[i - n] = s[n + (i - n)]
      BY <3>1
    <3>3. c[i] = b[i - n]
      BY <1>1, <1>2, <1>3, <2>2
    <3> QED BY <3>1, <3>2, <3>3
  <2> QED BY <2>1, <2>2
<1>5. c = s
  BY <1>1, <1>3, <1>4, SeqEqual
<1> QED BY <1>5 DEF c

Counts(s, n) == s = [i \in 1 .. n |-> i]

(* The numbers from 1 to m, and then those from m + 1 to m + n.            *)
LEMMA CountGoesOn ==
  ASSUME NEW S, NEW s \in Seq(S), NEW t \in Seq(S), NEW m \in Nat, NEW n \in Nat,
         Counts(s, m), Len(t) = n, \A i \in 1 .. n : t[i] = m + i
  PROVE  Counts(s \o t, m + n)
<1> DEFINE c == s \o t
<1>1. c \in Seq(S) /\ Len(c) = Len(s) + Len(t)
      /\ \A i \in 1 .. Len(s) + Len(t) : c[i] = IF i <= Len(s) THEN s[i] ELSE t[i - Len(s)]
  BY ConcatProperties
<1>2. Len(s) = m /\ \A i \in 1 .. m : s[i] = i
  BY DEF Counts
<1> HIDE DEF c
<1>3. ASSUME NEW i \in 1 .. m + n PROVE c[i] = i
  <2>1. CASE i <= m
    BY <1>1, <1>2, <2>1
  <2>2. CASE ~(i <= m)
    <3>1. i - m \in 1 .. n /\ m + (i - m) = i
      BY <2>2
    <3>2. t[i - m] = m + (i - m)
      BY <3>1
    <3>3. c[i] = t[i - m]
      BY <1>1, <1>2, <2>2
    <3> QED BY <3>1, <3>2, <3>3
  <2> QED BY <2>1, <2>2
<1>4. DOMAIN c = 1 .. m + n /\ c = [i \in DOMAIN c |-> c[i]]
  BY <1>1, <1>2
<1>5. c = [i \in 1 .. m + n |-> i]
  BY <1>3, <1>4
<1> QED BY <1>5 DEF c, Counts
-----------------------------------------------------------------------------
(* Every byte once, in order.                                              *)
LEMMA PopKeepsOrder ==
  ASSUME TypeOK, NEW n \in 0 .. Len(rx), Pop(n)
  PROVE  gone' \o rx' = gone \o rx
<1> DEFINE B == 1 .. MaxBytes
           a == SubSeq(rx, 1, n)
           b == SubSeq(rx, n + 1, Len(rx))
<1>1. rx \in Seq(B) /\ gone \in Seq(B) /\ Len(rx) \in Nat /\ Len(gone) \in Nat
  BY DEF TypeOK
<1>2. /\ a \in Seq(B) /\ b \in Seq(B)
      /\ Len(a) = n /\ Len(b) = Len(rx) - n
      /\ \A i \in 1 .. n : a[i] = rx[i]
      /\ \A i \in 1 .. Len(rx) - n : b[i] = rx[n + i]
  <2>1. \A i \in 1 .. Len(rx) : rx[i] \in B
    <3>1. ASSUME NEW i \in 1 .. Len(rx) PROVE rx[i] \in B
      BY <1>1, ElementOfSeq
    <3> QED BY <3>1
  <2> HIDE DEF B
  <2>2. /\ a \in Seq(B) /\ Len(a) = n
        /\ \A i \in 1 .. n : a[i] = rx[i]
    <3>1. 1 \in Int /\ n \in Int /\ \A i \in 1 .. n : rx[i] \in B
      BY <1>1, <2>1
    <3>2. /\ a \in Seq(B) /\ Len(a) = IF 1 <= n THEN n - 1 + 1 ELSE 0
          /\ \A i \in 1 .. n - 1 + 1 : a[i] = rx[1 + i - 1]
      BY <3>1, SubSeqProperties
    <3> HIDE DEF a
    <3> QED BY <3>2
  <2>3. /\ b \in Seq(B) /\ Len(b) = Len(rx) - n
        /\ \A i \in 1 .. Len(rx) - n : b[i] = rx[n + i]
    <3>1. n + 1 \in Int /\ Len(rx) \in Int /\ \A i \in n + 1 .. Len(rx) : rx[i] \in B
      BY <1>1, <2>1
    <3>2. /\ b \in Seq(B)
          /\ Len(b) = IF n + 1 <= Len(rx) THEN Len(rx) - (n + 1) + 1 ELSE 0
          /\ \A i \in 1 .. Len(rx) - (n + 1) + 1 : b[i] = rx[(n + 1) + i - 1]
      BY <3>1, SubSeqProperties
    <3> HIDE DEF b
    <3> QED BY <1>1, <3>2
  <2> QED BY <2>2, <2>3
<1>3. gone' = gone \o a /\ rx' = b
  BY DEF Pop
<1> HIDE DEF a, b, B
<1>4. PICK p \in Seq(B) : p = a
  BY <1>2
<1>5. PICK q \in Seq(B) : q = b
  BY <1>2
<1>6. PICK all \in Seq(B) : all = p \o q
  BY ConcatPick
<1>7. p \o q = rx
  <2>1. /\ n \in 0 .. Len(rx) /\ Len(p) = n /\ Len(q) = Len(rx) - n
        /\ \A i \in 1 .. n : p[i] = rx[i]
        /\ \A i \in 1 .. Len(rx) - n : q[i] = rx[n + i]
    BY <1>1, <1>2, <1>4, <1>5
  <2> QED BY ONLY <1>1, <2>1, ConcatOfParts, p \in Seq(B), q \in Seq(B)
<1>8. PICK front \in Seq(B) : front = gone \o p
  BY <1>1, ConcatPick
<1>9. front \o q = gone \o all
  <2>1. gone \in Seq(B)
    BY <1>1
  <2> QED BY ONLY <1>6, <1>8, <2>1, ConcatRegroups, SMTT(30)
<1> QED BY <1>3, <1>4, <1>5, <1>6, <1>7, <1>8, <1>9

LEMMA InjectKeepsOrder ==
  ASSUME TypeOK, ExactlyOnce, NEW n \in 1 .. MaxBytes - injected, injectRxData(n)
  PROVE  ExactlyOnce'
<1> DEFINE B == 1 .. MaxBytes
           more == Receive(n)
<1>1. /\ rx \in Seq(B) /\ gone \in Seq(B) /\ injected \in Nat /\ n \in Nat
      /\ more \in Seq(B) /\ Len(more) = n
      /\ \A i \in 1 .. n : more[i] = injected + i
  BY SerialAssumption DEF Receive, TypeOK, SerialAssumption
<1>2. rx' = rx \o more /\ gone' = gone /\ injected' = injected + n
  BY DEF injectRxData
<1> HIDE DEF B, more
<1>3. PICK new \in Seq(B) : new = more
  BY <1>1
<1>4. PICK all \in Seq(B) : all = gone \o rx
  BY <1>1, ConcatPick
<1>5. PICK queue \in Seq(B) : queue = rx \o new
  BY <1>1, ConcatPick
<1>6. Counts(all, injected)
  BY <1>4 DEF ExactlyOnce, Counts
<1>7. Len(new) = n /\ \A i \in 1 .. n : new[i] = injected + i
  BY <1>1, <1>3
<1>8. Counts(all \o new, injected + n)
  BY <1>1, <1>6, <1>7, CountGoesOn
<1>9. all \o new = gone \o queue
  <2>1. gone \in Seq(B) /\ rx \in Seq(B)
    BY <1>1
  <2> QED BY ONLY <1>4, <1>5, <2>1, ConcatRegroups, SMTT(30)
<1> QED BY <1>2, <1>3, <1>5, <1>8, <1>9 DEF ExactlyOnce, Counts

LEMMA OrderStep ==
  ASSUME TypeOK, ExactlyOnce, [Next]_serialVars
  PROVE  ExactlyOnce'
<1>1. ASSUME NEW n \in 1 .. MaxBytes - injected, injectRxData(n) PROVE ExactlyOnce'
  BY <1>1, InjectKeepsOrder
<1>2. ASSUME NEW n \in 0 .. Len(rx), Pop(n) PROVE ExactlyOnce'
  BY <1>2, PopKeepsOrder DEF ExactlyOnce, Pop
<1>3. CASE UNCHANGED <<rx, gone, injected>>
  BY <1>3 DEF ExactlyOnce
<1>4. ASSUME NEW t \in Reader, timedRead(t) PROVE ExactlyOnce'
  <2>1. CASE Poll(t) /\ rx # <<>>
    <3>1. 1 \in 0 .. Len(rx) /\ Pop(1)
      BY <2>1 DEF Poll, TypeOK
    <3> QED BY <1>2, <3>1
  <2>2. ~(Poll(t) /\ rx # <<>>) => UNCHANGED <<rx, gone, injected>>
    BY <1>4 DEF timedRead, Poll
  <2> QED BY <1>3, <2>1, <2>2
<1>5. CASE ClearRxData \/ clearBuffers
  <2>1. Len(rx) \in 0 .. Len(rx) /\ Pop(Len(rx))
    BY <1>5 DEF ClearRxData, clearBuffers, TypeOK
  <2> QED BY <1>2, <2>1
<1>6. ASSUME NEW t \in Printer, print(t, "idle") \/ println(t)
      PROVE  UNCHANGED <<rx, gone, injected>>
  BY <1>6 DEF print, println, LineEnd, write
<1>7. ASSUME flush \/ getTxData \/ ClearTxData \/ Tick \/ UNCHANGED serialVars
             \/ \E n \in Timeouts : setTimeout(n)
      PROVE  UNCHANGED <<rx, gone, injected>>
  BY <1>7 DEF flush, getTxData, ClearTxData, Tick, setTimeout, serialVars
<1> QED BY <1>1, <1>3, <1>4, <1>5, <1>6, <1>7 DEF Next

(* Whichever threads poll, clear and inject, every byte injected leaves    *)
(* the queue once, in the order of its arrival.                            *)
THEOREM BytesArriveOnce == Spec => []ExactlyOnce
<1>1. Init => ExactlyOnce
  BY DEF Init, ExactlyOnce
<1> QED BY <1>1, InitType, StepType, OrderStep, PTL DEF Spec
-----------------------------------------------------------------------------
(* A text printed by one call stays in one piece.                          *)
LEMMA WholeAfterText ==
  ASSUME TypeOK, TextsStayWhole, NEW t \in Printer, tx' = tx \o Text(t)
  PROVE  TextsStayWhole'
<1>1. PICK s \in Seq(Written) : s = Text(t)
  <2>1. [by |-> t, part |-> "first"] \in Written /\ [by |-> t, part |-> "second"] \in Written
    BY DEF Written
  <2>2. Text(t) \in Seq(Written)
    BY <2>1 DEF Text
  <2> QED BY <2>2
<1>2. PICK more \in Seq(Written) : more = tx \o s /\ IsConcat(more, tx, s)
  BY <1>1, ConcatPick DEF TypeOK
<1>3. /\ Len(s) = 2 /\ s[1].part = "first" /\ s[1].by = t /\ s[2].part = "second"
      /\ s[2] = Text(t)[2]
  BY <1>1 DEF Text
<1>4. tx' = more /\ Len(tx) \in Nat /\ DOMAIN tx = 1 .. Len(tx) /\ DOMAIN more = 1 .. Len(tx) + 2
  BY <1>1, <1>2, <1>3 DEF TypeOK, IsConcat
<1>5. ASSUME NEW i \in 1 .. Len(tx) + 2, more[i].part = "first"
      PROVE  i < Len(tx) + 2 /\ more[i + 1] = Text(more[i].by)[2]
  <2>1. CASE i <= Len(tx)
    <3>1. more[i] = tx[i]
      BY <1>2, <1>3, <1>4, <2>1 DEF IsConcat
    <3>2. i < Len(tx) /\ tx[i + 1] = Text(tx[i].by)[2]
      BY <1>4, <1>5, <2>1, <3>1 DEF TextsStayWhole
    <3>3. more[i + 1] = tx[i + 1]
      BY <1>2, <1>3, <1>4, <3>2 DEF IsConcat
    <3> QED BY <1>4, <3>1, <3>2, <3>3
  <2>2. CASE i = Len(tx) + 1
    <3>1. more[i] = s[1] /\ more[i + 1] = s[2]
      BY <1>2, <1>3, <1>4, <2>2 DEF IsConcat
    <3> QED BY <1>3, <1>4, <2>2, <3>1
  <2>3. CASE i = Len(tx) + 2
    <3>1. more[i] = s[2]
      BY <1>2, <1>3, <1>4, <2>3 DEF IsConcat
    <3> QED BY <1>3, <1>5, <3>1
  <2> QED BY <1>4, <2>1, <2>2, <2>3
<1>6. Len(more) = Len(tx) + 2
  BY <1>2, <1>3, <1>4 DEF IsConcat
<1> QED BY <1>4, <1>5, <1>6 DEF TextsStayWhole

LEMMA WholeAfterChar ==
  ASSUME TypeOK, TextsStayWhole, NEW t \in Printer,
         NEW part \in {"sign", "digits", "cr", "lf"}, tx' = tx \o OneChar(t, part)
  PROVE  TextsStayWhole'
<1>1. PICK s \in Seq(Written) : s = OneChar(t, part)
  <2>1. [by |-> t, part |-> part] \in Written
    BY DEF Written
  <2>2. OneChar(t, part) \in Seq(Written)
    BY <2>1 DEF OneChar
  <2> QED BY <2>2
<1>2. PICK more \in Seq(Written) : more = tx \o s /\ IsConcat(more, tx, s)
  BY <1>1, ConcatPick DEF TypeOK
<1>3. Len(s) = 1 /\ s[1].part # "first"
  BY <1>1 DEF OneChar
<1>4. tx' = more /\ Len(tx) \in Nat /\ DOMAIN tx = 1 .. Len(tx) /\ DOMAIN more = 1 .. Len(tx) + 1
  BY <1>1, <1>2, <1>3 DEF TypeOK, IsConcat
<1>5. ASSUME NEW i \in 1 .. Len(tx) + 1, more[i].part = "first"
      PROVE  i < Len(tx) + 1 /\ more[i + 1] = Text(more[i].by)[2]
  <2>1. CASE i <= Len(tx)
    <3>1. more[i] = tx[i]
      BY <1>2, <1>3, <1>4, <2>1 DEF IsConcat
    <3>2. i < Len(tx) /\ tx[i + 1] = Text(tx[i].by)[2]
      BY <1>4, <1>5, <2>1, <3>1 DEF TextsStayWhole
    <3>3. more[i + 1] = tx[i + 1]
      BY <1>2, <1>3, <1>4, <3>2 DEF IsConcat
    <3> QED BY <1>4, <3>1, <3>2, <3>3
  <2>2. CASE i = Len(tx) + 1
    <3>1. more[i] = s[1]
      BY <1>2, <1>3, <1>4, <2>2 DEF IsConcat
    <3> QED BY <1>3, <1>5, <3>1
  <2> QED BY <1>4, <2>1, <2>2
<1>6. Len(more) = Len(tx) + 1
  BY <1>2, <1>3, <1>4 DEF IsConcat
<1> QED BY <1>4, <1>5, <1>6 DEF TextsStayWhole

LEMMA WholeStep ==
  ASSUME TypeOK, TextsStayWhole, [Next]_serialVars
  PROVE  TextsStayWhole'
<1>1. CASE UNCHANGED tx
  BY <1>1 DEF TextsStayWhole
<1>2. CASE tx' = <<>>
  BY <1>2 DEF TextsStayWhole
<1>3. ASSUME NEW t \in Printer, print(t, "idle") \/ println(t)
      PROVE  TextsStayWhole'
  <2>1. \/ tx' = tx \o Text(t)
        \/ \E part \in {"sign", "digits", "cr", "lf"} : tx' = tx \o OneChar(t, part)
    BY <1>3 DEF print, println, LineEnd, write
  <2> QED BY <2>1, WholeAfterText, WholeAfterChar
<1>4. CASE \E t \in Reader : timedRead(t)
  BY <1>1, <1>4 DEF timedRead, Poll
<1>5. CASE flush \/ getTxData \/ ClearTxData \/ clearBuffers
  BY <1>2, <1>5 DEF flush, getTxData, ClearTxData, clearBuffers
<1>6. CASE \/ \E n \in 1 .. MaxBytes - injected : injectRxData(n)
           \/ \E n \in Timeouts : setTimeout(n)
           \/ ClearRxData \/ Tick \/ UNCHANGED serialVars
  BY <1>1, <1>6 DEF injectRxData, setTimeout, ClearRxData, Tick, serialVars
<1> QED BY <1>1, <1>3, <1>4, <1>5, <1>6 DEF Next

(* However the printers interleave and whoever drains the queue, no text   *)
(* that one call of write appends is torn apart.                           *)
THEOREM TextsInOnePiece == Spec => []TextsStayWhole
<1>1. Init => TextsStayWhole
  BY DEF Init, TextsStayWhole
<1> QED BY <1>1, InitType, StepType, WholeStep, PTL DEF Spec
-----------------------------------------------------------------------------
(* A timed read alone on the port does not give up early.  While it runs,  *)
(* no other reads, so the _startMillis it stored is its own: the age of it *)
(* is at most the time the read has waited.                                *)
Covered(n, t) == n <= call[t].waited \/ call[t].waited = Longest

LoneReads ==
  \A t \in Caller : Reading(t) /\ call[t].alone =>
    /\ \A u \in Caller : Reading(u) => u = t
    /\ call[t].at = "store" => Covered(call[t].seen, t)
    /\ call[t].at \in {"poll", "sample", "compare"} => Covered(age, t)
    /\ call[t].at = "compare" => call[t].seen <= age

LEMMA BeginKeepsLone ==
  ASSUME TypeOK, LoneReads, Calls, UNCHANGED age
  PROVE  LoneReads'
<1>1. PICK t \in Reader, n \in {1, MaxBytes + 1}, stop \in BOOLEAN : Begin(t, n, stop)
  BY DEF Calls
<1>2. ASSUME NEW u \in Caller, u # t
      PROVE  /\ call'[u].at = call[u].at
             /\ call'[u].alone = (call[u].alone /\ ~Reading(u))
  BY <1>1, <1>2 DEF Begin, TypeOK
<1>3. t \in Caller /\ call'[t].at = "stamp" /\ call'[t].alone = ~\E v \in Caller : Reading(v)
  BY <1>1 DEF Begin, TypeOK, Idle, Caller
<1>4. \A u \in Caller : u # t => (Reading(u)' <=> Reading(u))
  BY <1>2 DEF Reading
<1>5. ASSUME NEW u \in Caller, Reading(u)', call'[u].alone PROVE u = t
  BY <1>2, <1>4, <1>5
<1>6. ASSUME call'[t].alone, NEW u \in Caller, Reading(u)' PROVE u = t
  BY <1>3, <1>4, <1>6
<1> QED BY <1>3, <1>5, <1>6 DEF LoneReads

LEMMA TickKeepsLone ==
  ASSUME TypeOK, LoneReads, Tick
  PROVE  LoneReads'
<1>1. Longest \in Nat /\ Oldest = Longest + MaxHold /\ MaxHold \in Nat
  BY LongestIsMax, SerialAssumption DEF SerialAssumption, Oldest
<1>2. ASSUME NEW t \in Caller
      PROVE  /\ call'[t].at = call[t].at /\ call'[t].alone = call[t].alone
             /\ call'[t].seen = IF call[t].at \in {"store", "compare"} THEN call[t].seen + 1 ELSE 0
             /\ call'[t].waited = IF Reading(t) /\ call[t].alone
                                  THEN AtMost(call[t].waited + 1, Longest) ELSE 0
             /\ call[t].at \in {"store", "compare"} => call[t].seen < MaxHold
             /\ call[t].waited \in 0 .. Longest /\ call[t].seen \in 0 .. MaxHold
  BY DEF Tick, TypeOK
<1>3. age' = AtMost(age + 1, Oldest) /\ age \in 0 .. Oldest
  BY DEF Tick, TypeOK
<1>4. \A t \in Caller : Reading(t)' <=> Reading(t)
  BY <1>2 DEF Reading
<1>5. ASSUME NEW t \in Caller, Reading(t)', call'[t].alone
      PROVE  /\ \A u \in Caller : Reading(u)' => u = t
             /\ call'[t].at = "store" => Covered(call[t].seen, t)'
             /\ call'[t].at \in {"poll", "sample", "compare"} => Covered(age, t)'
             /\ call'[t].at = "compare" => call'[t].seen <= age'
  <2>1. Reading(t) /\ call[t].alone
    BY <1>2, <1>4, <1>5
  <2>2. \A u \in Caller : Reading(u)' => u = t
    BY <1>4, <2>1 DEF LoneReads
  <2>3. call'[t].waited = AtMost(call[t].waited + 1, Longest)
    BY <1>2, <2>1
  <2>4. ASSUME call[t].at = "store" PROVE Covered(call[t].seen, t)'
    <3>1. Covered(call[t].seen, t)
      BY <2>1, <2>4 DEF LoneReads
    <3> QED BY <1>1, <1>2, <2>3, <2>4, <3>1 DEF Covered, AtMost
  <2>5. ASSUME call[t].at \in {"poll", "sample", "compare"} PROVE Covered(age, t)'
    <3>1. Covered(age, t)
      BY <2>1, <2>5 DEF LoneReads
    <3> QED BY <1>1, <1>2, <1>3, <2>3, <3>1 DEF Covered, AtMost
  <2>6. ASSUME call[t].at = "compare" PROVE call'[t].seen <= age'
    <3>1. call[t].seen <= age
      BY <2>1, <2>6 DEF LoneReads
    <3> QED BY <1>1, <1>2, <1>3, <2>6, <3>1 DEF AtMost
  <2> QED BY <1>2, <2>2, <2>4, <2>5, <2>6
<1> QED BY <1>5 DEF LoneReads

LEMMA TookEndsTry ==
  ASSUME TypeOK, NEW t \in Caller, NEW c, Took(t, c)
  PROVE  /\ call'[t].at \in {"idle", "stamp"}
         /\ call'[t].at = "stamp" => call'[t].alone = call[t].alone
<1>1. CASE call[t].left = 1 \/ (call[t].stop /\ c \in Terminator)
  <2>1. call'[t] = Idle
    BY <1>1 DEF Took, TypeOK
  <2> QED BY <2>1 DEF Idle
<1>2. CASE ~(call[t].left = 1 \/ (call[t].stop /\ c \in Terminator))
  <2>1. call'[t] = [call[t] EXCEPT !.at = "stamp", !.left = call[t].left - 1]
    BY <1>2 DEF Took, TypeOK
  <2>2. call[t] \in Call
    BY DEF TypeOK, Call, Place
  <2> QED BY <2>1, <2>2 DEF Call
<1> QED BY <1>1, <1>2

LEMMA ReadKeepsLone ==
  ASSUME TypeOK, LoneReads, NEW r \in Reader, timedRead(r)
  PROVE  LoneReads'
<1> r \in Caller
  BY DEF Caller
<1>1. \A t \in Caller : t # r => call'[t] = call[t]
  BY DEF timedRead, Stamp, Store, Sample, GiveUp, Retry, Poll, Took, Goto, TypeOK
<1>2. \A t \in Caller : t # r => (Reading(t)' <=> Reading(t))
  BY <1>1 DEF Reading
<1>3. /\ Reading(r)
      /\ call'[r].at # "idle" => call'[r].alone = call[r].alone
  <2>1. CASE Stamp(r) \/ Store(r) \/ Sample(r) \/ GiveUp(r) \/ Retry(r)
    BY <2>1 DEF Stamp, Store, Sample, GiveUp, Retry, Goto, TypeOK, Reading, Idle
  <2>2. CASE Poll(r) /\ rx = <<>>
    BY <2>2 DEF Poll, Goto, TypeOK, Reading
  <2>3. CASE Poll(r) /\ rx # <<>>
    <3>1. Reading(r) /\ Took(r, Head(rx))
      BY <2>3 DEF Poll, Reading
    <3> QED BY <3>1, TookEndsTry
  <2> QED BY <2>1, <2>2, <2>3 DEF timedRead
<1>4. ASSUME NEW t \in Caller, t # r, Reading(t)', call'[t].alone PROVE FALSE
  BY <1>1, <1>2, <1>3, <1>4 DEF LoneReads
<1>5. ASSUME Reading(r)', call'[r].alone
      PROVE  /\ \A u \in Caller : Reading(u)' => u = r
             /\ call'[r].at = "store" => Covered(call[r].seen, r)'
             /\ call'[r].at \in {"poll", "sample", "compare"} => Covered(age, r)'
             /\ call'[r].at = "compare" => call'[r].seen <= age'
  <2>1. Reading(r) /\ call[r].alone
    BY <1>3, <1>5 DEF Reading
  <2>2. \A u \in Caller : Reading(u)' => u = r
    BY <1>2, <2>1 DEF LoneReads
  <2>3. CASE Stamp(r)
    BY <2>2, <2>3 DEF Stamp, Covered, TypeOK
  <2>4. CASE Store(r)
    <3>1. Covered(call[r].seen, r) /\ age' = call[r].seen
      BY <2>1, <2>4 DEF LoneReads, Store
    <3>2. call'[r].at = "poll" /\ call'[r].waited = call[r].waited
      BY <2>4 DEF Store, Goto, TypeOK
    <3> QED BY <2>2, <3>1, <3>2 DEF Covered
  <2>5. CASE Poll(r)
    <3>1. CASE rx = <<>>
      <4>1. call[r].at = "poll" /\ age' = age /\ call'[r].at = "sample" /\ call'[r].waited = call[r].waited
        BY <2>5, <3>1 DEF Poll, Goto, TypeOK
      <4>2. Covered(age, r)
        BY <2>1, <4>1 DEF LoneReads
      <4> QED BY <2>2, <4>1, <4>2 DEF Covered
    <3>2. CASE rx # <<>>
      <4>1. call'[r].at \in {"idle", "stamp"}
        BY <2>5, <3>2, TookEndsTry DEF Poll
      <4> QED BY <2>2, <4>1
    <3> QED BY <3>1, <3>2
  <2>6. CASE Sample(r)
    <3>1. /\ call[r].at = "sample" /\ age' = age /\ call'[r].at = "compare"
          /\ call'[r].seen = 0 /\ call'[r].waited = call[r].waited
      BY <2>6 DEF Sample, TypeOK
    <3>2. Covered(age, r)
      BY <2>1, <3>1 DEF LoneReads
    <3> QED BY <2>2, <3>1, <3>2 DEF Covered, TypeOK
  <2>7. CASE GiveUp(r)
    BY <1>5, <2>7 DEF GiveUp, Idle, Reading, TypeOK
  <2>8. CASE Retry(r)
    <3>1. /\ call[r].at = "compare" /\ age' = age /\ call'[r].at = "poll"
          /\ call'[r].waited = call[r].waited
      BY <2>8 DEF Retry, Goto, TypeOK
    <3>2. Covered(age, r)
      BY <2>1, <3>1 DEF LoneReads
    <3> QED BY <2>2, <3>1, <3>2 DEF Covered
  <2> QED BY <2>3, <2>4, <2>5, <2>6, <2>7, <2>8 DEF timedRead
<1> QED BY <1>4, <1>5 DEF LoneReads

(* Printing changes neither age nor who reads.                             *)
LEMMA PrintKeepsLone ==
  ASSUME TypeOK, LoneReads, NEW p \in Printer, print(p, "idle") \/ println(p)
  PROVE  LoneReads'
<1> p \in Caller
  BY DEF Caller
<1>1. /\ age' = age /\ \A t \in Caller : t # p => call'[t] = call[t]
      /\ call[p].at \in {"idle", "digits", "cr", "lf"}
      /\ call'[p].at \in {"idle", "digits", "cr", "lf"}
  BY DEF print, println, LineEnd, write, Goto, TypeOK
<1>2. \A t \in Caller : t # p => (Reading(t)' <=> Reading(t))
  BY <1>1 DEF Reading
<1>3. ~Reading(p) /\ ~Reading(p)'
  BY <1>1 DEF Reading
<1> QED BY <1>1, <1>2, <1>3 DEF LoneReads, Covered

LEMMA LoneStep ==
  ASSUME TypeOK, LoneReads, [Next]_serialVars
  PROVE  LoneReads'
<1>1. CASE UNCHANGED <<age, call>>
  BY <1>1 DEF LoneReads, Reading, Covered
<1>2. CASE \/ \E n \in 1 .. MaxBytes - injected : injectRxData(n)
           \/ flush \/ getTxData \/ ClearTxData \/ ClearRxData \/ clearBuffers
           \/ \E n \in Timeouts : setTimeout(n)
           \/ UNCHANGED serialVars
  BY <1>1, <1>2 DEF injectRxData, flush, getTxData, ClearTxData, ClearRxData, clearBuffers,
                    setTimeout, serialVars
<1> QED BY <1>2, BeginKeepsLone, ReadKeepsLone, PrintKeepsLone, TickKeepsLone DEF Next

LEMMA SmallRemainder ==
  ASSUME NEW w \in Nat, NEW n \in Nat, n < w
  PROVE  n % w = n
OBVIOUS

LEMMA GivesUpInTime ==
  ASSUME TypeOK, LoneReads, NEW t \in Caller, GiveUp(t), call[t].alone
  PROVE  call[t].waited >= _timeout
<1>1. Longest \in Timeouts /\ \A n \in Timeouts : n <= Longest
  BY LongestIsMax
<1>2. /\ Timeouts \subseteq Nat /\ 2 ^ Width \in Nat /\ Longest + MaxHold < 2 ^ Width
  BY <1>1, SerialAssumption DEF SerialAssumption
<1>3. /\ age \in 0 .. Longest + MaxHold /\ _timeout \in Timeouts
      /\ call[t].seen \in Nat /\ call[t].waited \in Nat
  BY DEF TypeOK, Oldest
<1>4. call[t].at = "compare" /\ Reading(t) /\ (age - call[t].seen) % 2 ^ Width >= _timeout
  BY DEF GiveUp, Elapsed, Reading
<1>5. call[t].seen <= age /\ Covered(age, t)
  BY <1>4 DEF LoneReads
<1> DEFINE w == 2 ^ Width
           n == age - call[t].seen
<1>6. w \in Nat /\ n \in Nat /\ n < w /\ n <= age
  BY <1>2, <1>3, <1>5, SerialAssumption, <1>1 DEF SerialAssumption
<1>7. n % w = n
  BY <1>6, SmallRemainder
<1>8. n >= _timeout
  BY <1>4, <1>7
<1> HIDE DEF n, w
<1> QED BY <1>1, <1>2, <1>3, <1>5, <1>6, <1>8 DEF Covered

(* A timed read with no other beside it returns without a byte only when   *)
(* its timeout has passed, however late it reads the clock.                *)
THEOREM LoneReadsArePatient == Spec => PatientAlone
<1>1. Init => LoneReads
  BY DEF Init, LoneReads, Reading, Idle
<1>2. TypeOK /\ LoneReads =>
        [\A t \in Caller : GiveUp(t) /\ call[t].alone => call[t].waited >= _timeout]_serialVars
  BY GivesUpInTime
<1> QED BY <1>1, <1>2, InitType, StepType, LoneStep, PTL DEF Spec, PatientAlone
-----------------------------------------------------------------------------
(* Facts about sequences and recursive functions, which PeripheralsProofs  *)
(* cites too.                                                              *)
LEMMA Predecessor ==
  ASSUME NEW n \in Nat, n >= 1
  PROVE  \E p \in Nat : n = p + 1
<1>1. n - 1 \in Nat /\ n = (n - 1) + 1
  OBVIOUS
<1> QED BY <1>1

LEMMA EndsLater ==
  ASSUME NEW x \in Nat, NEW a \in Nat, NEW b \in Nat, NEW q \in Nat, NEW n \in Nat,
         a >= x, a <= q, b = q + n + 1
  PROVE  b >= x
OBVIOUS

(* c is the m elements of s and then the n elements of t.                  *)
Joins(c, s, t, m, n) ==
  /\ Len(c) = m + n
  /\ \A k \in 1 .. m : c[k] = s[k]
  /\ \A k \in 1 .. n : c[m + k] = t[k]

LEMMA ConcatJoins ==
  ASSUME NEW c, NEW s, NEW t, IsConcat(c, s, t),
         NEW m \in Nat, m = Len(s), NEW n \in Nat, n = Len(t)
  PROVE  Joins(c, s, t, m, n)
<1>1. Len(c) = m + n /\ \A i \in 1 .. m + n : c[i] = IF i <= m THEN s[i] ELSE t[i - m]
  BY DEF IsConcat
<1>2. \A k \in 1 .. m : c[k] = s[k]
  BY <1>1
<1>3. ASSUME NEW k \in 1 .. n PROVE c[m + k] = t[k]
  <2>1. m + k \in 1 .. m + n /\ ~(m + k <= m) /\ (m + k) - m = k
    OBVIOUS
  <2> QED BY <1>1, <2>1
<1> QED BY <1>1, <1>2, <1>3 DEF Joins

(* Sequences of at most n elements.                                        *)
Short(S, n) == {s \in Seq(S) : Len(s) <= n}

LEMMA ShortSequences ==
  ASSUME NEW S, NEW n \in Nat
  PROVE  UNION {[1 .. m -> S] : m \in 0 .. n} = Short(S, n)
<1> DEFINE U == UNION {[1 .. m -> S] : m \in 0 .. n}
<1>1. ASSUME NEW s \in Short(S, n) PROVE s \in U
  <2>1. s \in [1 .. Len(s) -> S] /\ Len(s) \in 0 .. n
    BY <1>1 DEF Short
  <2> QED BY <2>1, Zenon
<1>2. ASSUME NEW s \in U PROVE s \in Short(S, n)
  <2>1. PICK m \in 0 .. n : s \in [1 .. m -> S]
    BY <1>2
  <2>2. s \in Seq(S) /\ Len(s) = m
    BY <2>1
  <2> QED BY <2>1, <2>2 DEF Short
<1> QED BY <1>1, <1>2

LEMMA CutType ==
  ASSUME NEW S, NEW s \in Seq(S), NEW m \in 1 .. Len(s) + 1, NEW n \in 0 .. Len(s), m <= n + 1
  PROVE  /\ SubSeq(s, m, n) \in Seq(S) /\ Len(SubSeq(s, m, n)) = n - m + 1
         /\ \A i \in 1 .. n - m + 1 : SubSeq(s, m, n)[i] = s[m + i - 1]
<1>1. Len(s) \in Nat /\ m \in 1 .. Len(s) + 1 /\ m - 1 <= n
  OBVIOUS
<1>2. \A i \in m .. n : s[i] \in S
  BY <1>1
<1>3. SubSeq(s, m, n) \in Seq(S) /\ Len(SubSeq(s, m, n)) = IF m <= n THEN n - m + 1 ELSE 0
  BY <1>1, <1>2, SubSeqProperties
<1>4. \A i \in 1 .. n - m + 1 : SubSeq(s, m, n)[i] = s[m + i - 1]
  BY <1>1, <1>2, SubSeqProperties
<1> QED BY <1>1, <1>3, <1>4

LEMMA PrefixType ==
  ASSUME NEW S, NEW s \in Seq(S), NEW n \in 0 .. Len(s)
  PROVE  /\ SubSeq(s, 1, n) \in Seq(S) /\ Len(SubSeq(s, 1, n)) = n
         /\ \A i \in 1 .. n : SubSeq(s, 1, n)[i] = s[i]
<1>1. /\ Len(s) \in Nat /\ 1 \in 1 .. Len(s) + 1 /\ 1 <= n + 1 /\ n - 1 + 1 = n
      /\ \A i \in 1 .. n : 1 + i - 1 = i
  OBVIOUS
<1>2. /\ SubSeq(s, 1, n) \in Seq(S) /\ Len(SubSeq(s, 1, n)) = n - 1 + 1
      /\ \A i \in 1 .. n - 1 + 1 : SubSeq(s, 1, n)[i] = s[1 + i - 1]
  BY <1>1, CutType
<1> QED BY <1>1, <1>2

LEMMA RestType ==
  ASSUME NEW S, NEW s \in Seq(S), NEW m \in 0 .. Len(s)
  PROVE  /\ SubSeq(s, m + 1, Len(s)) \in Seq(S) /\ Len(SubSeq(s, m + 1, Len(s))) = Len(s) - m
         /\ \A i \in 1 .. Len(s) - m : SubSeq(s, m + 1, Len(s))[i] = s[m + i]
<1>1. PICK n \in Nat : n = Len(s)
  OBVIOUS
<1>2. PICK k \in 1 .. n + 1 : k = m + 1 /\ k <= n + 1
  BY <1>1
<1>3. /\ SubSeq(s, k, n) \in Seq(S) /\ Len(SubSeq(s, k, n)) = n - k + 1
      /\ \A i \in 1 .. n - k + 1 : SubSeq(s, k, n)[i] = s[k + i - 1]
  <2>1. k \in 1 .. Len(s) + 1 /\ n \in 0 .. Len(s)
    BY <1>1, <1>2
  <2> QED BY <1>2, <2>1, CutType
<1>4. n - k + 1 = n - m /\ \A i \in 1 .. n - m : k + i - 1 = m + i
  BY <1>1, <1>2
<1> QED BY <1>1, <1>2, <1>3, <1>4

(* The first m elements, and then the n elements after them.               *)
LEMMA CutsMeet ==
  ASSUME NEW S, NEW s \in Seq(S), NEW m \in Nat, NEW n \in Nat, m + n <= Len(s)
  PROVE  SubSeq(s, 1, m) \o SubSeq(s, m + 1, m + n) = SubSeq(s, 1, m + n)
<1>1. Len(s) \in Nat
  OBVIOUS
<1>2. PICK w \in Seq(S) : /\ w = SubSeq(s, 1, m + n) /\ Len(w) = m + n
                          /\ \A i \in 1 .. m + n : w[i] = s[i]
  <2>1. m + n \in 0 .. Len(s)
    BY <1>1
  <2>2. /\ SubSeq(s, 1, m + n) \in Seq(S) /\ Len(SubSeq(s, 1, m + n)) = m + n
        /\ \A i \in 1 .. m + n : SubSeq(s, 1, m + n)[i] = s[i]
    BY <2>1, PrefixType
  <2> QED BY <2>2
<1>3. PICK a \in Seq(S) : /\ a = SubSeq(s, 1, m) /\ Len(a) = m
                          /\ \A i \in 1 .. m : a[i] = s[i]
  <2>1. m \in 0 .. Len(s)
    BY <1>1
  <2>2. /\ SubSeq(s, 1, m) \in Seq(S) /\ Len(SubSeq(s, 1, m)) = m
        /\ \A i \in 1 .. m : SubSeq(s, 1, m)[i] = s[i]
    BY <2>1, PrefixType
  <2> QED BY <2>2
<1>4. PICK b \in Seq(S) : /\ b = SubSeq(s, m + 1, m + n) /\ Len(b) = n
                          /\ \A i \in 1 .. n : b[i] = s[m + i]
  <2>1. m + 1 \in 1 .. Len(s) + 1 /\ m + n \in 0 .. Len(s) /\ m + 1 <= (m + n) + 1
    BY <1>1
  <2>2. (m + n) - (m + 1) + 1 = n /\ \A i \in 1 .. n : (m + 1) + i - 1 = m + i
    OBVIOUS
  <2>3. /\ SubSeq(s, m + 1, m + n) \in Seq(S)
        /\ Len(SubSeq(s, m + 1, m + n)) = (m + n) - (m + 1) + 1
        /\ \A i \in 1 .. (m + n) - (m + 1) + 1 : SubSeq(s, m + 1, m + n)[i] = s[(m + 1) + i - 1]
    BY <2>1, CutType
  <2>4. /\ SubSeq(s, m + 1, m + n) \in Seq(S) /\ Len(SubSeq(s, m + 1, m + n)) = n
        /\ \A i \in 1 .. n : SubSeq(s, m + 1, m + n)[i] = s[m + i]
    BY <2>2, <2>3
  <2> QED BY <2>4
<1>5. /\ m \in 0 .. Len(w) /\ Len(a) = m /\ Len(b) = Len(w) - m /\ Len(w) - m = n
      /\ \A i \in 1 .. m : a[i] = w[i]
  BY <1>2, <1>3, <1>4
<1>6. \A i \in 1 .. Len(w) - m : b[i] = w[m + i]
  <2>1. ASSUME NEW i \in 1 .. n PROVE b[i] = w[m + i]
    <3>1. m + i \in 1 .. m + n
      OBVIOUS
    <3> QED BY <1>2, <1>4, <3>1
  <2> QED BY <1>5, <2>1
<1>7. a \o b = w
  BY ONLY <1>5, <1>6, ConcatOfParts, a \in Seq(S), b \in Seq(S), w \in Seq(S)
<1> QED BY <1>2, <1>3, <1>4, <1>7

(* What comes behind does not change how a sequence begins.                *)
LEMMA CutOfLonger ==
  ASSUME NEW S, NEW s \in Seq(S), NEW t \in Seq(S), NEW n \in 0 .. Len(s)
  PROVE  SubSeq(s \o t, 1, n) = SubSeq(s, 1, n)
<1>1. Len(s) \in Nat /\ Len(t) \in Nat
  OBVIOUS
<1>2. PICK c \in Seq(S) : c = s \o t /\ IsConcat(c, s, t)
  BY ConcatPick
<1>3. Len(c) = Len(s) + Len(t) /\ \A i \in 1 .. n : c[i] = s[i]
  BY <1>1, <1>2 DEF IsConcat
<1>4. PICK a \in Seq(S) : /\ a = SubSeq(s, 1, n) /\ Len(a) = n
                          /\ \A i \in 1 .. n : a[i] = s[i]
  <2>1. /\ SubSeq(s, 1, n) \in Seq(S) /\ Len(SubSeq(s, 1, n)) = n
        /\ \A i \in 1 .. n : SubSeq(s, 1, n)[i] = s[i]
    BY PrefixType
  <2> QED BY <2>1
<1>5. PICK b \in Seq(S) : /\ b = SubSeq(c, 1, n) /\ Len(b) = n
                          /\ \A i \in 1 .. n : b[i] = c[i]
  <2>1. n \in 0 .. Len(c)
    BY <1>1, <1>3
  <2>2. /\ SubSeq(c, 1, n) \in Seq(S) /\ Len(SubSeq(c, 1, n)) = n
        /\ \A i \in 1 .. n : SubSeq(c, 1, n)[i] = c[i]
    BY <2>1, PrefixType
  <2> QED BY <2>2
<1>6. a = b
  BY <1>3, <1>4, <1>5, SeqEqual
<1> QED BY <1>2, <1>4, <1>5, <1>6

(* c is the n elements of s behind its first k.                            *)
IsCut(c, s, k, n) == Len(c) = n /\ \A i \in 1 .. n : c[i] = s[k + i]

LEMMA CutPick ==
  ASSUME NEW S, NEW s \in Seq(S), NEW k \in Nat, NEW n \in Nat, k + n <= Len(s)
  PROVE  SubSeq(s, k + 1, k + n) \in Seq(S) /\ IsCut(SubSeq(s, k + 1, k + n), s, k, n)
<1>1. PICK a \in 1 .. Len(s) + 1, b \in 0 .. Len(s) : a = k + 1 /\ b = k + n /\ a <= b + 1
  OBVIOUS
<1>2. /\ SubSeq(s, a, b) \in Seq(S) /\ Len(SubSeq(s, a, b)) = b - a + 1
      /\ \A i \in 1 .. b - a + 1 : SubSeq(s, a, b)[i] = s[a + i - 1]
  BY ONLY <1>1, CutType, s \in Seq(S), a \in 1 .. Len(s) + 1, b \in 0 .. Len(s)
<1>3. b - a + 1 = n /\ \A i \in 1 .. n : a + i - 1 = k + i
  BY <1>1
<1>4. IsCut(SubSeq(s, a, b), s, k, n)
  BY <1>2, <1>3 DEF IsCut
<1> QED BY <1>1, <1>2, <1>4

LEMMA RestPick ==
  ASSUME NEW S, NEW s \in Seq(S), NEW m \in 0 .. Len(s)
  PROVE  SubSeq(s, m + 1, Len(s)) \in Seq(S) /\ IsCut(SubSeq(s, m + 1, Len(s)), s, m, Len(s) - m)
BY RestType DEF IsCut

(* A cut of what is left behind the first m elements.                      *)
CutsThrough(s, m) ==
  \A k, n \in Nat : m + k + n <= Len(s) =>
    SubSeq(SubSeq(s, m + 1, Len(s)), k + 1, k + n) = SubSeq(s, m + k + 1, m + k + n)

LEMMA CutOfRest ==
  ASSUME NEW S, NEW s \in Seq(S), NEW m \in 0 .. Len(s)
  PROVE  CutsThrough(s, m)
<1> SUFFICES ASSUME NEW k \in Nat, NEW n \in Nat, m + k + n <= Len(s)
             PROVE  SubSeq(SubSeq(s, m + 1, Len(s)), k + 1, k + n)
                      = SubSeq(s, m + k + 1, m + k + n)
  BY DEF CutsThrough
<1>1. PICK r \in Seq(S) : r = SubSeq(s, m + 1, Len(s)) /\ IsCut(r, s, m, Len(s) - m)
  BY RestPick, Zenon
<1>2. PICK c \in Seq(S) : c = SubSeq(r, k + 1, k + n) /\ IsCut(c, r, k, n)
  <2>1. Len(s) \in Nat /\ Len(r) = Len(s) - m
    BY <1>1 DEF IsCut
  <2>2. k + n <= Len(r)
    BY <2>1
  <2> QED BY ONLY <2>2, CutPick, r \in Seq(S), k \in Nat, n \in Nat, Zenon
<1>3. PICK l \in Nat : l = m + k
  OBVIOUS
<1>4. PICK d \in Seq(S) : d = SubSeq(s, l + 1, l + n) /\ IsCut(d, s, l, n)
  <2>1. l + n <= Len(s)
    BY <1>3
  <2> QED BY ONLY <2>1, CutPick, s \in Seq(S), l \in Nat, n \in Nat, Zenon
<1>5. Len(c) = Len(d) /\ \A i \in 1 .. Len(c) : c[i] = d[i]
  <2>1. ASSUME NEW i \in 1 .. n PROVE c[i] = d[i]
    <3>1. c[i] = r[k + i] /\ d[i] = s[l + i]
      BY <1>2, <1>4 DEF IsCut
    <3>2. k + i \in 1 .. Len(s) - m /\ m + (k + i) = l + i
      BY <1>3
    <3> QED BY <1>1, <3>1, <3>2 DEF IsCut
  <2> QED BY <1>2, <1>4, <2>1 DEF IsCut
<1>6. c = d
  BY <1>5, SeqEqual
<1> QED BY <1>1, <1>2, <1>3, <1>4, <1>6

LEMMA RestOfRest ==
  ASSUME NEW S, NEW s \in Seq(S), NEW m \in Nat, NEW n \in Nat, m + n <= Len(s),
         NEW r, r = SubSeq(s, m + 1, Len(s))
  PROVE  SubSeq(r, n + 1, Len(r)) = SubSeq(s, m + n + 1, Len(s))
<1>1. m \in 0 .. Len(s) /\ Len(s) \in Nat
  OBVIOUS
<1>2. Len(r) = Len(s) - m
  BY <1>1, RestType
<1>3. PICK k \in Nat : k = Len(s) - (m + n)
  <2>1. Len(s) - (m + n) \in Nat
    BY <1>1
  <2> QED BY <2>1, Zenon
<1>4. SubSeq(SubSeq(s, m + 1, Len(s)), n + 1, n + k) = SubSeq(s, m + n + 1, m + n + k)
  <2>1. m + n + k <= Len(s)
    BY <1>1, <1>3
  <2>2. CutsThrough(s, m)
    BY <1>1, CutOfRest
  <2> QED BY ONLY <2>1, <2>2, n \in Nat, k \in Nat, Zenon DEF CutsThrough
<1>5. n + k = Len(r) /\ m + n + k = Len(s)
  BY <1>1, <1>2, <1>3
<1> QED BY <1>4, <1>5

LEMMA PrefixOfRest ==
  ASSUME NEW S, NEW s \in Seq(S), NEW m \in Nat, NEW n \in Nat, m + n <= Len(s),
         NEW r, r = SubSeq(s, m + 1, Len(s))
  PROVE  SubSeq(s, 1, m) \o SubSeq(r, 1, n) = SubSeq(s, 1, m + n)
<1>1. m \in 0 .. Len(s) /\ 0 \in Nat /\ m + 0 + n <= Len(s)
  OBVIOUS
<1>2. SubSeq(SubSeq(s, m + 1, Len(s)), 0 + 1, 0 + n) = SubSeq(s, m + 0 + 1, m + 0 + n)
  <2>1. CutsThrough(s, m)
    BY <1>1, CutOfRest
  <2> QED BY ONLY <1>1, <2>1, n \in Nat, Zenon DEF CutsThrough
<1>3. 0 + 1 = 1 /\ 0 + n = n /\ m + 0 = m
  OBVIOUS
<1>4. SubSeq(r, 1, n) = SubSeq(s, m + 1, m + n)
  BY <1>2, <1>3
<1> QED BY <1>4, CutsMeet

(* What is left of s \o t behind elements of s.                            *)
LEMMA RestOfLonger ==
  ASSUME NEW S, NEW s \in Seq(S), NEW t \in Seq(S), NEW n \in 0 .. Len(s), NEW c, c = s \o t
  PROVE  SubSeq(c, n + 1, Len(c)) = SubSeq(s, n + 1, Len(s)) \o t
<1>1. c \in Seq(S) /\ IsConcat(c, s, t) /\ Len(s) \in Nat /\ Len(t) \in Nat
  BY ConcatPick
<1>2. PICK a \in Seq(S) : a = SubSeq(s, n + 1, Len(s)) /\ IsCut(a, s, n, Len(s) - n)
  BY RestPick, Zenon
<1>3. PICK b \in Seq(S) : b = SubSeq(c, n + 1, Len(c)) /\ IsCut(b, c, n, Len(c) - n)
  <2>1. n \in 0 .. Len(c)
    BY <1>1 DEF IsConcat
  <2> QED BY <1>1, <2>1, RestPick, Zenon
<1>4. PICK d \in Seq(S) : d = a \o t /\ IsConcat(d, a, t)
  BY ConcatPick, Zenon
<1>5. Len(b) = Len(d) /\ \A i \in 1 .. Len(b) : b[i] = d[i]
  <2>1. /\ Len(a) = Len(s) - n /\ Len(c) = Len(s) + Len(t)
        /\ Len(b) = Len(s) + Len(t) - n /\ Len(d) = Len(s) - n + Len(t)
    <3>1. Len(a) = Len(s) - n
      BY <1>2 DEF IsCut
    <3>2. Len(c) = Len(s) + Len(t)
      BY <1>1 DEF IsConcat
    <3>3. Len(b) = Len(c) - n
      BY <1>3 DEF IsCut
    <3>4. Len(d) = Len(a) + Len(t)
      BY <1>4 DEF IsConcat
    <3> QED BY <3>1, <3>2, <3>3, <3>4
  <2>2. ASSUME NEW i \in 1 .. Len(s) + Len(t) - n PROVE b[i] = d[i]
    <3>1. n + i \in 1 .. Len(s) + Len(t) /\ i \in 1 .. Len(s) - n + Len(t)
      BY <1>1
    <3>2. b[i] = IF n + i <= Len(s) THEN s[n + i] ELSE t[n + i - Len(s)]
      BY <1>1, <1>3, <2>1, <3>1 DEF IsConcat, IsCut
    <3>3. d[i] = IF i <= Len(s) - n THEN a[i] ELSE t[i - (Len(s) - n)]
      BY <1>4, <2>1, <3>1 DEF IsConcat
    <3>4. CASE i <= Len(s) - n
      <4>1. n + i <= Len(s) /\ i \in 1 .. Len(s) - n
        BY <1>1, <3>4
      <4> QED BY <1>2, <3>2, <3>3, <3>4, <4>1 DEF IsCut
    <3>5. CASE ~(i <= Len(s) - n)
      <4>1. ~(n + i <= Len(s)) /\ n + i - Len(s) = i - (Len(s) - n)
        BY <1>1, <3>5
      <4> QED BY <3>2, <3>3, <3>5, <4>1
    <3> QED BY <3>4, <3>5
  <2> QED BY <1>1, <2>1, <2>2
<1>6. b = d
  BY <1>5, SeqEqual
<1> QED BY <1>2, <1>3, <1>4, <1>6

(* A concatenation c is cut where its parts s and t meet.                  *)
MeetsAt(c, s, t, n) == SubSeq(c, 1, n) = s /\ SubSeq(c, n + 1, Len(c)) = t

LEMMA CutWhereTheyMeet ==
  ASSUME NEW S, NEW s \in Seq(S), NEW t \in Seq(S)
  PROVE  MeetsAt(s \o t, s, t, Len(s))
<1>1. Len(s) \in 0 .. Len(s) /\ Len(s) \in Nat
  OBVIOUS
<1>2. SubSeq(s \o t, 1, Len(s)) = SubSeq(s, 1, Len(s))
  BY <1>1, CutOfLonger, Zenon
<1>3. SubSeq(s, 1, Len(s)) = s
  BY SubSeqFull
<1>4. SubSeq(s \o t, Len(s) + 1, Len(s \o t)) = SubSeq(s, Len(s) + 1, Len(s)) \o t
  BY <1>1, RestOfLonger, Zenon
<1>5. SubSeq(s, Len(s) + 1, Len(s)) = <<>>
  BY <1>1, SubSeqEmpty
<1>6. <<>> \o t = t
  BY ConcatEmptySeq
<1> QED BY <1>2, <1>3, <1>4, <1>5, <1>6, Zenon DEF MeetsAt

Backwards(s) == [i \in 1 .. Len(s) |-> s[(Len(s) - i) + 1]]

EndsSame(text, str, d) ==
  SubSeq(text, d + 1, d + Len(str)) = str
    <=> SubSeq(Backwards(str), 1, Len(str)) = SubSeq(Backwards(text), 1, Len(str))

(* text ends in str when backwards it begins with str backwards.           *)
LEMMA EndsBackwards ==
  ASSUME NEW S, NEW text \in Seq(S), NEW str \in Seq(S), NEW d \in Nat, Len(text) = d + Len(str)
  PROVE  EndsSame(text, str, d)
<1>1. PICK n \in Nat : n = Len(str) /\ Len(text) = d + n
  OBVIOUS
<1>2. ASSUME NEW s \in Seq(S) PROVE Backwards(s) \in Seq(S) /\ Len(Backwards(s)) = Len(s)
  <2>1. PICK l \in Nat : l = Len(s)
    OBVIOUS
  <2>2. PICK u \in [1 .. l -> S] : u = Backwards(s)
    <3>1. Backwards(s) \in [1 .. l -> S]
      BY <2>1 DEF Backwards
    <3> QED BY <3>1, Zenon
  <2>3. u \in Seq(S) /\ Len(u) = l
    OBVIOUS
  <2> QED BY <2>1, <2>2, <2>3
<1>3. PICK c \in Seq(S) : c = SubSeq(text, d + 1, d + n) /\ IsCut(c, text, d, n)
  <2>1. d + n <= Len(text)
    BY <1>1
  <2> QED BY <2>1, CutPick, Zenon
<1>4. PICK u \in Seq(S) : u = Backwards(str) /\ Len(u) = n
  BY <1>1, <1>2
<1>5. PICK v \in Seq(S) : v = Backwards(text) /\ Len(v) = d + n
  BY <1>1, <1>2
<1>6. PICK a \in Seq(S) : /\ a = SubSeq(u, 1, n) /\ Len(a) = n
                          /\ \A i \in 1 .. n : a[i] = u[i]
  <2>1. n \in 0 .. Len(u)
    BY <1>4
  <2>2. /\ SubSeq(u, 1, n) \in Seq(S) /\ Len(SubSeq(u, 1, n)) = n
        /\ \A i \in 1 .. n : SubSeq(u, 1, n)[i] = u[i]
    BY <2>1, PrefixType
  <2> QED BY <2>2, Zenon
<1>7. PICK b \in Seq(S) : /\ b = SubSeq(v, 1, n) /\ Len(b) = n
                          /\ \A i \in 1 .. n : b[i] = v[i]
  <2>1. n \in 0 .. Len(v)
    BY <1>5
  <2>2. /\ SubSeq(v, 1, n) \in Seq(S) /\ Len(SubSeq(v, 1, n)) = n
        /\ \A i \in 1 .. n : SubSeq(v, 1, n)[i] = v[i]
    BY <2>1, PrefixType
  <2> QED BY <2>2, Zenon
<1>8. \A i \in 1 .. n : a[i] = str[(n - i) + 1] /\ b[i] = text[(d + n - i) + 1]
  BY <1>1, <1>4, <1>5, <1>6, <1>7 DEF Backwards
<1>9. \A i \in 1 .. n : c[i] = text[d + i]
  BY <1>3 DEF IsCut
<1>10. ASSUME c = str PROVE a = b
  <2>1. ASSUME NEW i \in 1 .. n PROVE a[i] = b[i]
    <3>1. (n - i) + 1 \in 1 .. n /\ d + ((n - i) + 1) = (d + n - i) + 1
      OBVIOUS
    <3> QED BY <1>8, <1>9, <1>10, <3>1
  <2> QED BY <1>6, <1>7, <2>1, SeqEqual
<1>11. ASSUME a = b PROVE c = str
  <2>1. ASSUME NEW i \in 1 .. n PROVE c[i] = str[i]
    <3>1. PICK k \in 1 .. n : k = (n - i) + 1 /\ (n - k) + 1 = i /\ (d + n - k) + 1 = d + i
      <4>1. (n - i) + 1 \in 1 .. n
        OBVIOUS
      <4> QED BY <4>1
    <3> QED BY <1>8, <1>9, <1>11, <3>1
  <2>2. Len(c) = n
    BY <1>3 DEF IsCut
  <2> QED BY <1>1, <2>1, <2>2, SeqEqual
<1> QED BY <1>1, <1>3, <1>4, <1>5, <1>6, <1>7, <1>10, <1>11 DEF EndsSame

(* str is in text at i.                                                    *)
Occurs(text, str, i) ==
  i \in Nat /\ i + Len(str) <= Len(text) /\ SubSeq(text, i + 1, i + Len(str)) = str

(* str is at i of what is left of text behind pos elements.                *)
LEMMA OccursBehind ==
  ASSUME NEW S, NEW text \in Seq(S), NEW str \in Seq(S), NEW pos \in Nat, pos <= Len(text),
         NEW i \in Nat
  PROVE  Occurs(SubSeq(text, pos + 1, Len(text)), str, i) <=> Occurs(text, str, pos + i)
<1>1. pos \in 0 .. Len(text) /\ Len(text) \in Nat
  OBVIOUS
<1>2. PICK n \in Nat : n = Len(str)
  OBVIOUS
<1>3. PICK rest \in Seq(S) : rest = SubSeq(text, pos + 1, Len(text)) /\ IsCut(rest, text, pos, Len(text) - pos)
  BY <1>1, RestPick, Zenon
<1>4. i + n <= Len(rest) <=> pos + i + n <= Len(text)
  BY <1>1, <1>3 DEF IsCut
<1>5. pos + i + n <= Len(text) =>
        SubSeq(SubSeq(text, pos + 1, Len(text)), i + 1, i + n)
          = SubSeq(text, pos + i + 1, pos + i + n)
  <2>1. CutsThrough(text, pos)
    BY <1>1, CutOfRest
  <2> QED BY ONLY <2>1, i \in Nat, n \in Nat, Zenon DEF CutsThrough
<1>6. pos + i \in Nat
  OBVIOUS
<1>7. pos + i + n <= Len(text) => SubSeq(rest, i + 1, i + n) = SubSeq(text, pos + i + 1, pos + i + n)
  BY <1>3, <1>5
<1> QED BY <1>2, <1>3, <1>4, <1>6, <1>7 DEF Occurs

(* A set of natural numbers that is not empty has a least element.         *)
LEMMA LeastNatural ==
  ASSUME NEW T \in SUBSET Nat, T # {}
  PROVE  \E x \in T : \A y \in T : x <= y
<1> DEFINE R == {ss \in Nat \X Nat : ss[1] < ss[2]}
<1>1. IsWellFoundedOn(R, Nat)
  BY NatLessThanWellFounded DEF OpToRel
<1>2. PICK x \in T : \A y \in T : ~(<<y, x>> \in R)
  <2> HIDE DEF R
  <2>1. QED  BY <1>1, WFMin
<1>3. ASSUME NEW y \in T  PROVE x <= y
  <2>1. x \in Nat /\ y \in Nat  OBVIOUS
  <2>2. <<y, x>>[1] = y /\ <<y, x>>[2] = x  OBVIOUS
  <2>3. ~(y < x)
    <3>1. <<y, x>> \in Nat \X Nat  BY <2>1
    <3>2. SUFFICES ASSUME y < x PROVE FALSE
      OBVIOUS
    <3>3. <<y, x>> \in R  BY <2>2, <3>1, <3>2, Zenon
    <3>4. QED  BY <1>2, <3>3, Zenon
  <2>4. QED  BY <2>1, <2>3
<1>4. QED  BY <1>3

LEMMA GreatestUpTo ==
  ASSUME NEW n \in Nat, NEW T \in SUBSET (0 .. n), T # {}
  PROVE  \E x \in T : \A y \in T : x >= y
<1>1. PICK R : R = {n - y : y \in T}
  OBVIOUS
<1>2. R \in SUBSET Nat /\ R # {}
  <2>1. \A y \in T : n - y \in Nat
    OBVIOUS
  <2> QED BY <1>1, <2>1
<1>3. PICK x \in R : \A y \in R : x <= y
  BY <1>2, LeastNatural
<1>4. PICK z \in T : x = n - z
  BY <1>1
<1>5. ASSUME NEW y \in T PROVE z >= y
  <2>1. n - y \in R
    BY <1>1
  <2> QED BY <1>3, <1>4, <2>1
<1> QED BY <1>5

(* The least of I, or 0.                                                   *)
FirstOf(I) == IF I # {} THEN CHOOSE x \in I : \A y \in I : x <= y ELSE 0

LEMMA FirstOfIs ==
  ASSUME NEW I \in SUBSET Nat, NEW p \in I, \A i \in I : p <= i
  PROVE  FirstOf(I) = p
<1>1. \A x \in I : (\A i \in I : x <= i) => x = p
  <2>1. ASSUME NEW x \in I, \A i \in I : x <= i PROVE x = p
    <3>1. x <= p /\ p <= x /\ x \in Nat /\ p \in Nat
      BY <2>1
    <3> QED BY <3>1
  <2> QED BY <2>1
<1>2. (CHOOSE x \in I : \A i \in I : x <= i) = p
  BY <1>1, Zenon
<1> QED BY <1>2, Zenon DEF FirstOf

(* The first place of s with c, or 0.                                      *)
Places(s, c) == {i \in 1 .. Len(s) : s[i] = c}
FirstPlace(s, c) == FirstOf(Places(s, c))

LEMMA FirstPlaceType ==
  ASSUME NEW S, NEW s \in Seq(S), NEW c
  PROVE  FirstPlace(s, c) \in 0 .. Len(s)
<1>1. /\ Places(s, c) \in SUBSET Nat /\ Places(s, c) \subseteq 1 .. Len(s) /\ Len(s) \in Nat
  BY DEF Places
<1>2. CASE Places(s, c) # {}
  <2>1. \E x \in Places(s, c) : \A y \in Places(s, c) : x <= y
    BY <1>1, <1>2, LeastNatural
  <2>2. FirstPlace(s, c) \in Places(s, c)
    BY <1>2, <2>1, Zenon DEF FirstPlace, FirstOf
  <2> QED BY <1>1, <2>2
<1>3. CASE Places(s, c) = {}
  BY <1>1, <1>3 DEF FirstPlace, FirstOf
<1> QED BY <1>2, <1>3

LEMMA PrefixEqual ==
  ASSUME NEW S, NEW s \in Seq(S), NEW t \in Seq(S), NEW n \in Nat, n <= Len(s), n <= Len(t),
         \A i \in 1 .. n : s[i] = t[i]
  PROVE  SubSeq(s, 1, n) = SubSeq(t, 1, n)
<1>1. n \in 0 .. Len(s) /\ n \in 0 .. Len(t)
  OBVIOUS
<1>2. /\ SubSeq(s, 1, n) \in Seq(S) /\ Len(SubSeq(s, 1, n)) = n
      /\ \A i \in 1 .. n : SubSeq(s, 1, n)[i] = s[i]
  BY <1>1, PrefixType
<1>3. /\ SubSeq(t, 1, n) \in Seq(S) /\ Len(SubSeq(t, 1, n)) = n
      /\ \A i \in 1 .. n : SubSeq(t, 1, n)[i] = t[i]
  BY <1>1, PrefixType
<1>4. PICK a \in Seq(S), b \in Seq(S) : a = SubSeq(s, 1, n) /\ b = SubSeq(t, 1, n)
  BY <1>2, <1>3
<1>5. Len(a) = Len(b) /\ \A i \in 1 .. Len(a) : a[i] = b[i]
  BY <1>2, <1>3, <1>4
<1> QED BY <1>4, <1>5, SeqEqual

(* Induction on the size of the elements of D, for a set S of them.        *)
LEMMA SizeInduction ==
  ASSUME NEW D, NEW size \in [D -> Nat], NEW S,
         \A d \in D : (\A e \in D : size[e] < size[d] => e \in S) => d \in S
  PROVE  D \subseteq S
<1> DEFINE T == {size[d] : d \in D \ S}
<1>1. T \in SUBSET Nat
  OBVIOUS
<1>2. SUFFICES ASSUME T # {} PROVE FALSE
  OBVIOUS
<1> HIDE DEF T
<1>3. PICK x \in T : \A y \in T : x <= y
  BY <1>1, <1>2, LeastNatural
<1>4. PICK d \in D \ S : x = size[d]
  BY DEF T
<1>5. ASSUME NEW e \in D, size[e] < size[d] PROVE e \in S
  <2>1. SUFFICES ASSUME e \notin S PROVE FALSE
    OBVIOUS
  <2>2. size[e] \in T
    BY <2>1 DEF T
  <2> QED BY <1>3, <1>4, <1>5, <2>2
<1> QED BY <1>4, <1>5

(* A rule for a function from D to V that goes on, at d, to next[d], which *)
(* is smaller, and what it is to be such a function.                       *)
Descends(D, V, size, stop, out, next, comb) ==
  /\ size \in [D -> Nat] /\ stop \in SUBSET D
  /\ out \in [D -> V] /\ next \in [D -> D] /\ comb \in [D -> [V -> V]]
  /\ \A d \in D \ stop : size[next[d]] < size[d]

Solves(f, D, V, stop, out, next, comb) ==
  /\ f \in [D -> V]
  /\ \A d \in D : f[d] = IF d \in stop THEN out[d] ELSE comb[d][f[next[d]]]

LEMMA Recursion ==
  ASSUME NEW D, NEW V, NEW size, NEW stop, NEW out, NEW next, NEW comb,
         Descends(D, V, size, stop, out, next, comb)
  PROVE  \E f : Solves(f, D, V, stop, out, next, comb)
<1> USE DEF Descends
<1> DEFINE Below(n) == {d \in D : size[d] < n}
           IsOn(f, B) == \A d \in B : f[d] = IF d \in stop THEN out[d] ELSE comb[d][f[next[d]]]
           Sol(n) == {f \in [Below(n) -> V] : IsOn(f, Below(n))}
<1>1. ASSUME NEW m \in Nat, NEW n \in Nat, NEW f \in Sol(m), NEW g \in Sol(n)
      PROVE  \A d \in Below(m) \cap Below(n) : f[d] = g[d]
  <2> DEFINE S == {d \in D : d \in Below(m) \cap Below(n) => f[d] = g[d]}
  <2>1. ASSUME NEW d \in D, \A e \in D : size[e] < size[d] => e \in S PROVE d \in S
    <3>1. SUFFICES ASSUME d \in Below(m), d \in Below(n) PROVE f[d] = g[d]
      OBVIOUS
    <3>2. CASE d \in stop
      BY <3>1, <3>2
    <3>3. CASE d \notin stop
      <4>1. next[d] \in D /\ size[next[d]] < size[d]
        BY <3>3
      <4>2. next[d] \in S /\ next[d] \in Below(m) /\ next[d] \in Below(n)
        BY <2>1, <3>1, <4>1
      <4>3. f[next[d]] = g[next[d]]
        BY <4>2
      <4> QED BY <3>1, <3>3, <4>3
    <3> QED BY <3>2, <3>3
  <2>2. D \subseteq S
    <3>1. PICK Q : Q = S
      OBVIOUS
    <3>2. \A d \in D : (\A e \in D : size[e] < size[d] => e \in Q) => d \in Q
      BY <2>1, <3>1
    <3>3. D \subseteq Q
      <4> HIDE DEF S, Sol, Below, IsOn
      <4> QED BY ONLY <3>2, SizeInduction, size \in [D -> Nat]
    <3> QED BY <3>1, <3>3
  <2> QED BY <2>2
<1>2. \A n \in Nat : Sol(n) # {}
  <2> DEFINE S == {n \in Nat : Sol(n) # {}}
             id == [n \in Nat |-> n]
  <2>1. ASSUME NEW n \in Nat, \A m \in Nat : m < n => m \in S PROVE n \in S
    <3>1. CASE n = 0
      <4>1. Below(0) = {}
        OBVIOUS
      <4>2. [d \in {} |-> d] \in Sol(0)
        BY <4>1
      <4> QED BY <3>1, <4>2
    <3>2. CASE n # 0
      <4>1. n - 1 \in S
        <5>1. n - 1 \in Nat /\ n - 1 < n
          BY <3>2
        <5> HIDE DEF S
        <5> QED BY <2>1, <5>1
      <4>2. PICK f : f \in Sol(n - 1)
        BY <4>1
      <4> DEFINE g == [d \in Below(n) |-> IF d \in stop THEN out[d] ELSE comb[d][f[next[d]]]]
      <4>3. f \in [Below(n - 1) -> V] /\ IsOn(f, Below(n - 1))
        BY <4>2
      <4>4. ASSUME NEW d \in Below(n), d \notin stop PROVE next[d] \in Below(n - 1)
        BY <4>4, <3>2
      <4>5. g \in [Below(n) -> V]
        <5>1. ASSUME NEW d \in Below(n), d \notin stop PROVE comb[d][f[next[d]]] \in V
          <6>1. f[next[d]] \in V /\ d \in D
            BY <4>3, <4>4, <5>1
          <6> QED BY <6>1
        <5> QED BY <5>1
      <4>6. \A d \in Below(n - 1) : d \in Below(n) /\ g[d] = f[d]
        BY <4>3
      <4>7. \A d \in Below(n) : g[d] = IF d \in stop THEN out[d] ELSE comb[d][f[next[d]]]
        OBVIOUS
      <4>8. IsOn(g, Below(n))
        <5> HIDE DEF g, Below
        <5>1. ASSUME NEW d \in Below(n), d \notin stop PROVE g[next[d]] = f[next[d]]
          <6>1. next[d] \in Below(n - 1)
            BY <4>4, <5>1
          <6> QED BY <4>6, <6>1
        <5> QED BY <4>7, <5>1
      <4>9. g \in Sol(n)
        <5> HIDE DEF g, IsOn, Below
        <5> QED BY <4>5, <4>8
      <4> QED BY <4>9
    <3> QED BY <3>1, <3>2
  <2>2. Nat \subseteq S
    <3>1. id \in [Nat -> Nat] /\ \A n \in Nat : id[n] = n
      OBVIOUS
    <3> HIDE DEF S, id
    <3> QED BY <2>1, <3>1, SizeInduction
  <2> QED BY <2>2
<1>3. PICK sol : \A n \in Nat : sol[n] \in Sol(n)
  <2>1. PICK sol : sol = [n \in Nat |-> CHOOSE f : f \in Sol(n)]
    OBVIOUS
  <2>2. ASSUME NEW n \in Nat PROVE sol[n] \in Sol(n)
    <3>1. \E f : f \in Sol(n)
      BY <1>2
    <3>2. (CHOOSE f : f \in Sol(n)) \in Sol(n)
      BY <3>1, Zenon
    <3> QED BY <2>1, <3>2
  <2> QED BY <2>2
<1> DEFINE f == [d \in D |-> sol[size[d] + 1][d]]
<1>4. ASSUME NEW d \in D PROVE d \in Below(size[d] + 1) /\ sol[size[d] + 1] \in Sol(size[d] + 1)
  <2>1. size[d] \in Nat /\ size[d] + 1 \in Nat /\ size[d] < size[d] + 1
    OBVIOUS
  <2>2. sol[size[d] + 1] \in Sol(size[d] + 1)
    <3> HIDE DEF Sol
    <3> QED BY <1>3, <2>1
  <2>3. d \in Below(size[d] + 1)
    BY <2>1
  <2> QED BY <2>2, <2>3
<1>5. ASSUME NEW d \in D PROVE f[d] \in V
  BY <1>4
<1>6. ASSUME NEW d \in D PROVE f[d] = IF d \in stop THEN out[d] ELSE comb[d][f[next[d]]]
  <2>1. PICK n \in Nat : n = size[d] + 1
    OBVIOUS
  <2>2. sol[n] \in Sol(n) /\ d \in Below(n)
    BY <1>4, <2>1
  <2>3. CASE d \in stop
    BY <2>1, <2>2, <2>3
  <2>4. CASE d \notin stop
    <3>1. next[d] \in D /\ next[d] \in Below(n)
      BY <2>1, <2>4
    <3>2. PICK m \in Nat : m = size[next[d]] + 1
      BY <3>1
    <3>3. sol[m] \in Sol(m) /\ next[d] \in Below(m)
      <4> HIDE DEF Sol, Below
      <4> QED BY <3>1, <3>2, <1>4
    <3>4. sol[m][next[d]] = sol[n][next[d]]
      <4>1. next[d] \in Below(m) \cap Below(n)
        BY <3>1, <3>3
      <4> HIDE DEF Sol, Below
      <4> QED BY <1>1, <2>2, <3>3, <4>1
    <3>5. f[d] = comb[d][sol[n][next[d]]]
      BY <2>1, <2>2, <2>4
    <3>6. f[next[d]] = sol[m][next[d]]
      BY <3>1, <3>2
    <3> QED BY <2>4, <3>4, <3>5, <3>6
  <2> QED BY <2>3, <2>4
<1>7. f \in [D -> V]
  BY <1>5
<1>8. Solves(f, D, V, stop, out, next, comb)
  <2> HIDE DEF f
  <2> QED BY <1>6, <1>7 DEF Solves
<1> QED BY <1>8

(* Induction on the natural numbers, for a set of them.                    *)
LEMMA NatInduces ==
  ASSUME NEW T, 0 \in T, \A n \in Nat : n \in T => n + 1 \in T
  PROVE  Nat \subseteq T
<1>1. PICK id \in [Nat -> Nat] : \A n \in Nat : id[n] = n
  <2>1. [n \in Nat |-> n] \in [Nat -> Nat]
    OBVIOUS
  <2> QED BY <2>1
<1>2. ASSUME NEW n \in Nat, \A m \in Nat : id[m] < id[n] => m \in T PROVE n \in T
  <2>1. CASE n = 0
    BY <2>1
  <2>2. CASE n # 0
    <3>1. n - 1 \in Nat /\ n - 1 < n /\ (n - 1) + 1 = n
      BY <2>2
    <3>2. n - 1 \in T
      BY <1>1, <1>2, <3>1
    <3> QED BY <3>1, <3>2
  <2> QED BY <2>1, <2>2
<1> QED BY <1>2, SizeInduction

(* From a to b, l holds characters of J, the text t and the end e.         *)
Holds(l, a, b, t, J, e) ==
  \E m \in Nat :
    /\ a <= m /\ b = m + Len(t) + 1 /\ b <= Len(l)
    /\ \A k \in a + 1 .. m : l[k] \in J
    /\ \A k \in 1 .. Len(t) : l[m + k] = t[k]
    /\ l[b] = e

LEMMA HoldsLonger ==
  ASSUME NEW S, NEW l \in Seq(S), NEW r \in Seq(S), NEW c \in Seq(S), c = l \o r,
         NEW a \in Nat, NEW b \in Nat, NEW t \in Seq(S), NEW J, NEW e, Holds(l, a, b, t, J, e)
  PROVE  Holds(c, a, b, t, J, e)
<1>1. PICK m \in Nat : /\ a <= m /\ b = m + Len(t) + 1 /\ b <= Len(l)
                       /\ \A k \in a + 1 .. m : l[k] \in J
                       /\ \A k \in 1 .. Len(t) : l[m + k] = t[k]
                       /\ l[b] = e
  BY DEF Holds
<1>2. PICK n \in Nat : n = Len(t)
  OBVIOUS
<1>3. Len(l) <= Len(c) /\ \A k \in 1 .. Len(l) : c[k] = l[k]
  OBVIOUS
<1>4. b \in 1 .. Len(l) /\ \A k \in a + 1 .. m : k \in 1 .. Len(l)
  BY <1>1, <1>2
<1>5. \A k \in 1 .. n : m + k \in 1 .. Len(l)
  BY <1>1, <1>2
<1>6. b <= Len(c)
  BY <1>1, <1>3
<1>7. /\ \A k \in a + 1 .. m : c[k] \in J
      /\ \A k \in 1 .. n : c[m + k] = t[k]
      /\ c[b] = e
  BY <1>1, <1>2, <1>3, <1>4, <1>5
<1> QED BY <1>1, <1>2, <1>6, <1>7 DEF Holds

(* What r, the rest of l behind x, holds.                                  *)
HoldsBehind(l, x, r, S, J, e) ==
  \A a \in Nat, b \in Nat, t \in Seq(S) : Holds(l, x + a, x + b, t, J, e) => Holds(r, a, b, t, J, e)

LEMMA HoldsCut ==
  ASSUME NEW S, NEW l \in Seq(S), NEW x \in Nat, x <= Len(l), NEW r \in Seq(S), r = SubSeq(l, x + 1, Len(l)),
         NEW J, NEW e
  PROVE  HoldsBehind(l, x, r, S, J, e)
<1> SUFFICES ASSUME NEW a \in Nat, NEW b \in Nat, NEW t \in Seq(S), Holds(l, x + a, x + b, t, J, e)
             PROVE  Holds(r, a, b, t, J, e)
  BY DEF HoldsBehind
<1>1. PICK n \in Nat, y \in Nat : n = Len(t) /\ y = Len(l)
  OBVIOUS
<1>2. PICK m \in Nat : /\ x + a <= m /\ x + b = m + n + 1 /\ x + b <= y
                       /\ \A k \in x + a + 1 .. m : l[k] \in J
                       /\ \A k \in 1 .. n : l[m + k] = t[k]
                       /\ l[x + b] = e
  BY <1>1 DEF Holds
<1>3. PICK p \in Nat : m = x + p
  <2>1. x + a <= m
    BY ONLY <1>2
  <2>2. m - x \in Nat /\ m = x + (m - x)
    BY ONLY <2>1, x \in Nat, a \in Nat, m \in Nat
  <2> QED BY <2>2
<1>4. a <= p /\ b = p + n + 1 /\ x + b <= y
  <2>1. x + a <= m /\ x + b = m + n + 1 /\ x + b <= y
    BY ONLY <1>2
  <2> QED BY ONLY <1>3, <2>1, a \in Nat, b \in Nat, p \in Nat, n \in Nat, x \in Nat, y \in Nat
<1>5. PICK z \in Nat : z = y - x /\ y = x + z
  <2>1. y - x \in Nat /\ y = x + (y - x)
    BY <1>1
  <2> QED BY <2>1
<1>6. Len(r) = z /\ \A i \in 1 .. z : r[i] = l[x + i]
  <2>1. x \in 0 .. Len(l)
    OBVIOUS
  <2>2. Len(r) = Len(l) - x /\ \A i \in 1 .. Len(l) - x : r[i] = l[x + i]
    BY <2>1, RestType
  <2> QED BY <1>1, <1>5, <2>2
<1>7. b \in 1 .. z /\ b <= z
  BY <1>4, <1>5
<1>8. ASSUME NEW k \in a + 1 .. p PROVE r[k] \in J
  <2>1. k \in 1 .. z /\ x + k \in x + a + 1 .. m
    BY <1>3, <1>4, <1>7
  <2> QED BY <1>2, <1>6, <2>1
<1>9. ASSUME NEW k \in 1 .. n PROVE r[p + k] = t[k]
  <2>1. p + k \in 1 .. z /\ x + (p + k) = m + k
    BY <1>3, <1>4, <1>7
  <2> QED BY <1>2, <1>6, <2>1
<1>10. r[b] = e
  BY <1>2, <1>6, <1>7
<1>11. /\ a <= p /\ b = p + Len(t) + 1 /\ b <= Len(r)
       /\ \A k \in a + 1 .. p : r[k] \in J
       /\ \A k \in 1 .. Len(t) : r[p + k] = t[k]
       /\ r[b] = e
  BY <1>1, <1>4, <1>6, <1>7, <1>8, <1>9, <1>10
<1> QED BY <1>11 DEF Holds

(* l holds the texts ts, in their order, each behind characters of J and   *)
(* before the end e, and then characters of J.                             *)
Ends(at, l, ts, J, e) ==
  /\ at \in [0 .. Len(ts) -> Nat] /\ at[0] = 0
  /\ \A i \in 1 .. Len(ts) : Holds(l, at[i - 1], at[i], ts[i], J, e)
  /\ at[Len(ts)] <= Len(l)
  /\ \A k \in at[Len(ts)] + 1 .. Len(l) : l[k] \in J

Lines(l, ts, J, e) == \E at : Ends(at, l, ts, J, e)

(* l holds ts, and so it does with r behind it; and with t and two ends.   *)
StillHolds(l, r, ts, J, e) == Lines(l, ts, J, e) => Lines(l \o r, ts, J, e)

AlsoHolds(l, t, ts, J, e, f) == Lines(l, ts, J, e) => Lines(l \o (t \o <<e, f>>), Append(ts, t), J, e)

LEMMA LinesLonger ==
  ASSUME NEW S, NEW l \in Seq(S), NEW r \in Seq(S), NEW ts \in Seq(Seq(S)), NEW J, NEW e,
         \A k \in 1 .. Len(r) : r[k] \in J
  PROVE  StillHolds(l, r, ts, J, e)
<1> SUFFICES ASSUME Lines(l, ts, J, e) PROVE Lines(l \o r, ts, J, e)
  BY DEF StillHolds
<1>0. PICK c \in Seq(S) : c = l \o r
  <2>1. l \o r \in Seq(S)
    OBVIOUS
  <2> QED BY <2>1, Zenon
<1>1. PICK at : Ends(at, l, ts, J, e)
  BY DEF Lines
<1>2. PICK n \in Nat, y \in Nat : n = Len(ts) /\ y = Len(l)
  OBVIOUS
<1>3. /\ at \in [0 .. n -> Nat] /\ at[0] = 0
      /\ \A i \in 1 .. n : Holds(l, at[i - 1], at[i], ts[i], J, e)
      /\ at[n] <= y
      /\ \A k \in at[n] + 1 .. y : l[k] \in J
  BY <1>1, <1>2 DEF Ends
<1>4. ASSUME NEW i \in 1 .. n PROVE Holds(c, at[i - 1], at[i], ts[i], J, e)
  <2>1. ts[i] \in Seq(S) /\ i - 1 \in 0 .. n /\ i \in 0 .. n
    BY <1>2
  <2>2. PICK t \in Seq(S), a \in Nat, b \in Nat : t = ts[i] /\ a = at[i - 1] /\ b = at[i]
    BY <1>3, <2>1
  <2>3. Holds(l, a, b, t, J, e)
    BY <1>3, <2>2
  <2>4. Holds(c, a, b, t, J, e)
    BY <1>0, <2>3, HoldsLonger
  <2> QED BY <2>2, <2>4
<1>5. PICK z \in Nat : z = Len(r)
  OBVIOUS
<1>6. Len(c) = y + z /\ (\A k \in 1 .. y : c[k] = l[k]) /\ \A k \in 1 .. z : c[y + k] = r[k]
  BY <1>0, <1>2, <1>5
<1>7. PICK x \in Nat : x = at[n]
  <2>1. n \in 0 .. n
    OBVIOUS
  <2>2. at[n] \in Nat
    BY <1>3, <2>1
  <2> QED BY <2>2
<1>8. ASSUME NEW k \in x + 1 .. y + z PROVE c[k] \in J
  <2>1. CASE k <= y
    BY <1>3, <1>6, <1>7, <2>1
  <2>2. CASE k > y
    <3>1. PICK j \in 1 .. z : k = y + j
      <4>1. k - y \in 1 .. z /\ k = y + (k - y)
        BY <2>2
      <4> QED BY <4>1
    <3> QED BY <1>5, <1>6, <3>1
  <2>3. k <= y \/ k > y
    OBVIOUS
  <2> QED BY <2>1, <2>2, <2>3
<1>9. x <= y + z
  BY <1>3, <1>7
<1>10. Ends(at, c, ts, J, e)
  BY <1>2, <1>3, <1>4, <1>6, <1>7, <1>8, <1>9 DEF Ends
<1> QED BY <1>0, <1>10 DEF Lines

LEMMA LinesPrinted ==
  ASSUME NEW S, NEW l \in Seq(S), NEW t \in Seq(S), NEW ts \in Seq(Seq(S)), NEW J,
         NEW e \in S, NEW f \in S, f \in J
  PROVE  AlsoHolds(l, t, ts, J, e, f)
<1> SUFFICES ASSUME Lines(l, ts, J, e)
             PROVE  Lines(l \o (t \o <<e, f>>), Append(ts, t), J, e)
  BY DEF AlsoHolds
<1>0. PICK r \in Seq(S), c \in Seq(S), us \in Seq(Seq(S)) :
         r = t \o <<e, f>> /\ c = l \o r /\ us = Append(ts, t)
  <2>1. PICK r \in Seq(S) : r = t \o <<e, f>>
    <3>1. t \o <<e, f>> \in Seq(S)
      OBVIOUS
    <3> QED BY <3>1, Zenon
  <2>2. l \o r \in Seq(S) /\ Append(ts, t) \in Seq(Seq(S))
    OBVIOUS
  <2> QED BY <2>1, <2>2, Zenon
<1>1. PICK at : Ends(at, l, ts, J, e)
  BY DEF Lines
<1>2. PICK n \in Nat, y \in Nat, m \in Nat : n = Len(ts) /\ y = Len(l) /\ m = Len(t)
  OBVIOUS
<1>3. /\ at \in [0 .. n -> Nat] /\ at[0] = 0
      /\ \A i \in 1 .. n : Holds(l, at[i - 1], at[i], ts[i], J, e)
      /\ at[n] <= y
      /\ \A k \in at[n] + 1 .. y : l[k] \in J
  BY <1>1, <1>2 DEF Ends
<1>4. Len(us) = n + 1 /\ us[n + 1] = t /\ \A i \in 1 .. n : us[i] = ts[i]
  BY <1>0, <1>2
<1>5. Len(r) = m + 2 /\ r[m + 1] = e /\ r[m + 2] = f /\ \A k \in 1 .. m : r[k] = t[k]
  BY <1>0, <1>2
<1>6. /\ Len(c) = y + (m + 2)
      /\ \A k \in 1 .. y : c[k] = l[k]
      /\ \A k \in 1 .. m + 2 : c[y + k] = r[k]
  <2>1. Len(r) = m + 2 /\ y = Len(l)
    BY ONLY <1>2, <1>5
  <2>2. c = l \o r
    BY <1>0, Zenon
  <2>3. IsConcat(c, l, r)
    BY ONLY <2>2, ConcatPick, l \in Seq(S), r \in Seq(S), Zenon
  <2>4. PICK z \in Nat : z = m + 2
    OBVIOUS
  <2>5. Joins(c, l, r, y, z)
    BY ONLY <2>1, <2>3, <2>4, ConcatJoins, y \in Nat, z \in Nat, Zenon
  <2> QED BY ONLY <2>4, <2>5, Zenon DEF Joins
<1>7. PICK b \in Nat : b = y + m + 1
  OBVIOUS
<1>8. PICK x \in Nat : x = at[n]
  <2>1. n \in 0 .. n
    OBVIOUS
  <2>2. at[n] \in Nat
    BY <1>3, <2>1
  <2> QED BY <2>2
<1>9. PICK au \in [0 .. n + 1 -> Nat] : au[n + 1] = b /\ \A i \in 0 .. n : au[i] = at[i]
  <2>1. [i \in 0 .. n + 1 |-> IF i = n + 1 THEN b ELSE at[i]] \in [0 .. n + 1 -> Nat]
    BY <1>3
  <2>2. n + 1 \in 0 .. n + 1 /\ \A i \in 0 .. n : i \in 0 .. n + 1 /\ i # n + 1
    OBVIOUS
  <2> QED BY <2>1, <2>2
<1>10. ASSUME NEW i \in 1 .. n PROVE Holds(c, au[i - 1], au[i], us[i], J, e)
  <2>1. ts[i] \in Seq(S) /\ i - 1 \in 0 .. n /\ i \in 0 .. n
    BY <1>2
  <2>2. PICK u \in Seq(S), a1 \in Nat, b1 \in Nat : u = ts[i] /\ a1 = at[i - 1] /\ b1 = at[i]
    BY <1>3, <2>1
  <2>3. Holds(l, a1, b1, u, J, e)
    BY <1>3, <2>2
  <2>4. Holds(c, a1, b1, u, J, e)
    BY <1>0, <2>3, HoldsLonger
  <2> QED BY <1>4, <1>9, <2>1, <2>2, <2>4
<1>11. Holds(c, x, b, t, J, e)
  <2>1. x <= y /\ b = y + Len(t) + 1 /\ b <= Len(c)
    BY <1>2, <1>3, <1>6, <1>7, <1>8
  <2>2. ASSUME NEW k \in x + 1 .. y PROVE c[k] \in J
    <3>1. k \in 1 .. y /\ l[k] \in J
      BY <1>3, <1>8
    <3> QED BY <1>6, <3>1
  <2>3. ASSUME NEW k \in 1 .. Len(t) PROVE c[y + k] = t[k]
    <3>1. k \in 1 .. m /\ k \in 1 .. m + 2
      BY <1>2
    <3> QED BY <1>5, <1>6, <3>1
  <2>4. c[b] = e
    <3>1. m + 1 \in 1 .. m + 2 /\ y + (m + 1) = b
      BY <1>7
    <3> QED BY <1>5, <1>6, <3>1
  <2> QED BY <2>1, <2>2, <2>3, <2>4 DEF Holds
<1>12. ASSUME NEW i \in 1 .. n + 1 PROVE Holds(c, au[i - 1], au[i], us[i], J, e)
  <2>1. CASE i = n + 1
    <3>1. i - 1 = n /\ n \in 0 .. n
      BY <2>1
    <3>2. au[i - 1] = x /\ au[i] = b /\ us[i] = t
      BY <1>4, <1>8, <1>9, <2>1, <3>1
    <3> QED BY <1>11, <3>2
  <2>2. CASE i # n + 1
    <3>1. i \in 1 .. n
      BY <2>2
    <3> QED BY <1>10, <3>1
  <2> QED BY <2>1, <2>2
<1>13. b <= Len(c) /\ \A k \in b + 1 .. Len(c) : c[k] \in J
  <2>1. b <= Len(c)
    BY <1>6, <1>7
  <2>2. ASSUME NEW k \in b + 1 .. Len(c) PROVE c[k] \in J
    <3>1. k = y + (m + 2) /\ m + 2 \in 1 .. m + 2
      BY <1>6, <1>7
    <3> QED BY <1>5, <1>6, <3>1
  <2> QED BY <2>1, <2>2
<1>14. au[0] = 0
  BY <1>3, <1>9
<1>15. Ends(au, c, us, J, e)
  BY <1>4, <1>9, <1>12, <1>13, <1>14 DEF Ends
<1> QED BY <1>0, <1>15 DEF Lines

(* The first text, and what is behind it.                                  *)
BeginsWith(l, m, t, J, e) ==
  /\ m + Len(t) + 1 <= Len(l)
  /\ \A k \in 1 .. m : l[k] \in J
  /\ \A k \in 1 .. Len(t) : l[m + k] = t[k]
  /\ l[m + Len(t) + 1] = e

LEMMA LinesFirst ==
  ASSUME NEW S, NEW l \in Seq(S), NEW ts \in Seq(Seq(S)), ts # <<>>, NEW J, NEW e, Lines(l, ts, J, e)
  PROVE  \E m \in Nat :
           /\ BeginsWith(l, m, Head(ts), J, e)
           /\ Lines(SubSeq(l, m + Len(Head(ts)) + 2, Len(l)), Tail(ts), J, e)
<1>1. PICK at : Ends(at, l, ts, J, e)
  BY DEF Lines
<1>2. PICK n \in Nat, y \in Nat : n = Len(ts) /\ y = Len(l) /\ n >= 1
  <2>1. Len(ts) \in Nat /\ Len(ts) >= 1 /\ Len(l) \in Nat
    OBVIOUS
  <2> QED BY ONLY <2>1, Zenon
<1>3. /\ at \in [0 .. n -> Nat] /\ at[0] = 0
      /\ \A i \in 1 .. n : Holds(l, at[i - 1], at[i], ts[i], J, e)
      /\ at[n] <= y
      /\ \A k \in at[n] + 1 .. y : l[k] \in J
  BY <1>1, <1>2 DEF Ends
<1>4. PICK t \in Seq(S) : t = Head(ts) /\ t = ts[1]
  BY <1>2
<1>5. PICK us \in Seq(Seq(S)) : us = Tail(ts)
  <2>1. Tail(ts) \in Seq(Seq(S))
    OBVIOUS
  <2> QED BY <2>1, Zenon
<1>6. PICK p \in Nat : n = p + 1
  BY ONLY <1>2, Predecessor, n \in Nat, Zenon
<1>7. Len(us) = p /\ \A i \in 1 .. p : us[i] = ts[i + 1]
  <2>1. Len(Tail(ts)) = Len(ts) - 1 /\ \A i \in 1 .. Len(Tail(ts)) : Tail(ts)[i] = ts[i + 1]
    BY HeadTailProperties
  <2>2. Len(us) = p
    BY <1>2, <1>5, <1>6, <2>1
  <2> QED BY <1>5, <2>1, <2>2
<1>8. PICK x \in Nat : x = at[1]
  <2>1. 1 \in 0 .. n
    BY <1>2
  <2>2. at[1] \in Nat
    BY <1>3, <2>1
  <2> QED BY <2>2
<1>9. Holds(l, 0, x, t, J, e)
  <2>1. 1 \in 1 .. n /\ 1 - 1 = 0
    BY <1>2
  <2>2. Holds(l, at[1 - 1], at[1], ts[1], J, e)
    BY <1>3, <2>1
  <2> QED BY <1>3, <1>4, <1>8, <2>1, <2>2
<1>10. PICK m \in Nat : /\ x = m + Len(t) + 1 /\ x <= Len(l)
                        /\ \A k \in 1 .. m : l[k] \in J
                        /\ \A k \in 1 .. Len(t) : l[m + k] = t[k]
                        /\ l[x] = e
  <2>1. PICK m \in Nat : /\ x = m + Len(t) + 1 /\ x <= Len(l)
                         /\ \A k \in 0 + 1 .. m : l[k] \in J
                         /\ \A k \in 1 .. Len(t) : l[m + k] = t[k]
                         /\ l[x] = e
    BY <1>9, Zenon DEF Holds
  <2>2. \A k \in 1 .. m : l[k] \in J
    BY <2>1
  <2> QED BY <2>1, <2>2
<1>11. BeginsWith(l, m, t, J, e)
  BY <1>10 DEF BeginsWith
<1>12. PICK r \in Seq(S) : r = SubSeq(l, x + 1, Len(l))
  <2>1. x \in 0 .. Len(l)
    BY <1>10
  <2>2. SubSeq(l, x + 1, Len(l)) \in Seq(S)
    BY <2>1, RestType
  <2> QED BY <2>2, Zenon
<1>13. ASSUME NEW i \in 1 .. n PROVE at[i] >= x
  <2> DEFINE T == {j \in Nat : j + 1 <= n => at[j + 1] >= x}
  <2>1. 0 \in T
    BY <1>8
  <2>2. ASSUME NEW j \in Nat, j \in T PROVE j + 1 \in T
    <3>1. SUFFICES ASSUME (j + 1) + 1 <= n PROVE at[(j + 1) + 1] >= x
      OBVIOUS
    <3>2. PICK h \in 1 .. n : h = j + 1
      BY <3>1
    <3>3. PICK g \in 1 .. n : g = h + 1 /\ g - 1 = h
      BY <3>1, <3>2
    <3>4. Holds(l, at[h], at[g], ts[g], J, e) /\ at[h] >= x
      BY <1>3, <2>2, <3>2, <3>3
    <3>5. at[h] \in Nat /\ at[g] \in Nat /\ Len(ts[g]) \in Nat
      <4>1. h \in 0 .. n /\ g \in 0 .. n
        OBVIOUS
      <4>2. ts[g] \in Seq(S)
        BY <1>2
      <4>3. Len(ts[g]) \in Nat
        BY <4>2
      <4> QED BY <1>3, <4>1, <4>3
    <3>6. PICK q \in Nat : at[h] <= q /\ at[g] = q + Len(ts[g]) + 1
      BY <3>4 DEF Holds
    <3>7. at[g] >= x
      BY ONLY <3>4, <3>5, <3>6, EndsLater, x \in Nat, q \in Nat, Zenon
    <3> QED BY <3>2, <3>3, <3>7
  <2> HIDE DEF T
  <2>3. Nat \subseteq T
    BY <2>1, <2>2, NatInduces
  <2>4. PICK j \in Nat : i = j + 1
    <3>1. i - 1 \in Nat /\ i = (i - 1) + 1
      OBVIOUS
    <3> QED BY <3>1
  <2>5. j + 1 <= n => at[j + 1] >= x
    BY <2>3 DEF T
  <2> QED BY <2>4, <2>5
<1>14. ASSUME NEW i \in 0 .. p PROVE at[i + 1] - x \in Nat /\ at[i + 1] = x + (at[i + 1] - x)
  <2>1. i + 1 \in 1 .. n /\ i + 1 \in 0 .. n
    BY <1>6
  <2>2. at[i + 1] \in Nat /\ at[i + 1] >= x
    BY <1>3, <1>13, <2>1
  <2> QED BY <2>2
<1>15. PICK au \in [0 .. p -> Nat] : \A i \in 0 .. p : at[i + 1] = x + au[i] /\ au[i] = at[i + 1] - x
  <2>1. [i \in 0 .. p |-> at[i + 1] - x] \in [0 .. p -> Nat]
    BY <1>14
  <2> QED BY <1>14, <2>1
<1>16. ASSUME NEW i \in 1 .. p PROVE Holds(r, au[i - 1], au[i], us[i], J, e)
  <2>1. i - 1 \in 0 .. p /\ i \in 0 .. p /\ (i - 1) + 1 = i /\ i + 1 \in 1 .. n /\ (i + 1) - 1 = i
    BY <1>6
  <2>2. PICK a \in Nat, b \in Nat, u \in Seq(S) : a = au[i - 1] /\ b = au[i] /\ u = ts[i + 1]
    <3>1. ts[i + 1] \in Seq(S)
      BY <1>2, <2>1
    <3> QED BY <1>15, <2>1, <3>1
  <2>3. x + a = at[i] /\ x + b = at[i + 1]
    BY <1>15, <2>1, <2>2
  <2>4. Holds(l, x + a, x + b, u, J, e)
    BY <1>3, <2>1, <2>2, <2>3
  <2>5. x <= Len(l)
    BY <1>10
  <2>6. Holds(r, a, b, u, J, e)
    <3>1. HoldsBehind(l, x, r, S, J, e)
      BY <1>12, <2>5, HoldsCut
    <3> QED BY <2>4, <3>1 DEF HoldsBehind
  <2> QED BY <1>7, <2>2, <2>6
<1>17. PICK z \in Nat : y = x + z
  <2>1. y - x \in Nat /\ y = x + (y - x)
    BY <1>2, <1>10
  <2> QED BY <2>1
<1>18. Len(r) = z /\ \A k \in 1 .. z : r[k] = l[x + k]
  <2>1. x \in 0 .. Len(l)
    BY <1>10
  <2>2. Len(r) = Len(l) - x /\ \A k \in 1 .. Len(l) - x : r[k] = l[x + k]
    BY <1>12, <2>1, RestType
  <2>3. Len(l) - x = z
    BY <1>2, <1>17
  <2> QED BY <2>2, <2>3, Zenon
<1>19. PICK w \in Nat : w = au[p] /\ at[n] = x + w
  <2>1. p \in 0 .. p
    OBVIOUS
  <2> QED BY <1>6, <1>15, <2>1
<1>20. w <= z /\ \A k \in w + 1 .. z : r[k] \in J
  <2>1. w <= z
    BY <1>3, <1>17, <1>19
  <2>2. ASSUME NEW k \in w + 1 .. z PROVE r[k] \in J
    <3>1. k \in 1 .. z /\ x + k \in (x + w) + 1 .. y
      BY <1>17
    <3> QED BY <1>3, <1>18, <1>19, <3>1
  <2> QED BY <2>1, <2>2
<1>21. au[0] = 0
  <2>1. 0 \in 0 .. p /\ 0 + 1 = 1
    OBVIOUS
  <2>2. au[0] = x - x
    BY <1>8, <1>15, <2>1
  <2> QED BY <2>2
<1>22. Ends(au, r, us, J, e)
  BY <1>7, <1>15, <1>16, <1>18, <1>19, <1>20, <1>21 DEF Ends
<1>23. Lines(r, us, J, e) /\ m + Len(t) + 2 = x + 1
  BY <1>10, <1>22 DEF Lines
<1> QED BY <1>4, <1>5, <1>11, <1>12, <1>23

LEMMA LinesNone ==
  ASSUME NEW S, NEW l \in Seq(S), NEW J, NEW e
  PROVE  Lines(l, <<>>, J, e) <=> \A k \in 1 .. Len(l) : l[k] \in J
<1>1. PICK y \in Nat : y = Len(l)
  OBVIOUS
<1>2. Len(<<>>) = 0
  OBVIOUS
<1>3. ASSUME Lines(l, <<>>, J, e) PROVE \A k \in 1 .. y : l[k] \in J
  <2>1. PICK at : Ends(at, l, <<>>, J, e)
    BY <1>3 DEF Lines
  <2> QED BY <1>1, <1>2, <2>1 DEF Ends
<1>4. ASSUME \A k \in 1 .. y : l[k] \in J PROVE Lines(l, <<>>, J, e)
  <2>1. PICK at \in [0 .. 0 -> Nat] : at[0] = 0
    <3>1. [i \in 0 .. 0 |-> 0] \in [0 .. 0 -> Nat] /\ 0 \in 0 .. 0
      OBVIOUS
    <3> QED BY <3>1
  <2>2. Ends(at, l, <<>>, J, e)
    BY <1>1, <1>2, <1>4, <2>1 DEF Ends
  <2> QED BY <2>2 DEF Lines
<1> QED BY <1>1, <1>3, <1>4

LEMMA NothingHeld ==
  ASSUME NEW J, NEW e
  PROVE  Lines(<<>>, <<>>, J, e)
<1>1. <<>> \in Seq({}) /\ Len(<<>>) = 0
  OBVIOUS
<1>2. \A k \in 1 .. Len(<<>>) : <<>>[k] \in J
  BY <1>1
<1> QED BY <1>1, <1>2, LinesNone
=============================================================================
