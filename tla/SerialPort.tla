----------------------------- MODULE SerialPort -----------------------------
(* HardwareSerial.h and MockStream.cpp, two byte queues with a mutex each, *)
(* and the timed reads of Stream.h, which several threads make of one port *)
(* with one _startMillis.  The bytes injected are numbered 1, 2, 3, ...    *)
EXTENDS Integers, Sequences, SequencesExt

CONSTANTS Reader,         \* threads that make timed reads
          Printer,        \* threads that print
          Timeouts,       \* what setTimeout is given
          Terminator,     \* the bytes a read may be told to stop at
          MaxBytes,       \* bound: bytes injected
          MaxTx,          \* bound: bytes in _txBuf
          MaxHold,        \* bound: ticks between a call of millis and its use
          Width           \* of unsigned long

ASSUME SerialAssumption ==
  /\ Timeouts \subseteq Nat \ {0} /\ \E n \in Timeouts : \A k \in Timeouts : k <= n
  /\ MaxBytes \in Nat /\ MaxTx \in Nat /\ MaxHold \in Nat /\ 2 ^ Width \in Nat
  /\ Terminator \subseteq 1 .. MaxBytes
  /\ \A n \in Timeouts : n + MaxHold < 2 ^ Width

Caller == Reader \cup Printer

VARIABLES rx, tx,         \* _rxBuf, _txBuf
          age,            \* millis() - _startMillis
          _timeout,
          call,           \* what each thread is doing
          injected,       \* history: how many bytes were injected
          gone            \* history: the bytes that were read or cleared

serialVars == <<rx, tx, age, _timeout, call, injected, gone>>

Longest == CHOOSE n \in Timeouts : \A k \in Timeouts : k <= n
Oldest  == Longest + MaxHold        \* every older _startMillis is the same
AtMost(n, bound) == IF n > bound THEN bound ELSE n

(* left: bytes wanted still; stop: whether a terminator ends the call;     *)
(* seen: age of the value millis() returned; alone: no other timed read    *)
(* ran since the call began; waited: since its timedRead began, if so.     *)
Idle == [at |-> "idle", left |-> 1, stop |-> FALSE, seen |-> 0, waited |-> 0, alone |-> TRUE]

Reading(t) == call[t].at \notin {"idle", "digits", "cr", "lf"}

Init ==
  /\ rx = <<>> /\ tx = <<>>
  /\ age = Oldest /\ _timeout = Longest
  /\ call = [t \in Caller |-> Idle]
  /\ injected = 0 /\ gone = <<>>
-----------------------------------------------------------------------------
(* Every one of these holds the mutex of the queue it uses.                *)
Receive(n) == [i \in 1 .. n |-> injected + i]

injectRxData(n) ==
  /\ rx' = rx \o Receive(n)
  /\ injected' = injected + n
  /\ UNCHANGED <<tx, age, _timeout, call, gone>>

Pop(n) ==
  /\ rx' = SubSeq(rx, n + 1, Len(rx))
  /\ gone' = gone \o SubSeq(rx, 1, n)
  /\ UNCHANGED injected

ClearRxData == Pop(Len(rx)) /\ UNCHANGED <<tx, age, _timeout, call>>

(* flush of HardwareSerial throws away what was written; that of           *)
(* MockStream does nothing.                                                *)
flush == tx' = <<>> /\ UNCHANGED <<rx, age, _timeout, call, injected, gone>>

getTxData   == flush
ClearTxData == flush

(* Also end and reset, which put the settings of the port back as well;    *)
(* no operation looks at those.                                            *)
clearBuffers == Pop(Len(rx)) /\ tx' = <<>> /\ UNCHANGED <<age, _timeout, call>>

setTimeout(n) == _timeout' = n /\ UNCHANGED <<rx, tx, age, call, injected, gone>>

Goto(t, at) == call' = [call EXCEPT ![t].at = at]

(* Each call of write is one critical section.  print of a text makes one  *)
(* call; of a negative number, one for the sign and one for the digits;    *)
(* and the line end of println is two more.                                *)
Text(t) == <<[by |-> t, part |-> "first"], [by |-> t, part |-> "second"]>>
OneChar(t, part) == <<[by |-> t, part |-> part]>>
Written == [by : Printer, part : {"first", "second", "sign", "digits", "cr", "lf"}]

(* Mutant of write: a critical section for each byte.                      *)
WriteBytewise(t, from, chars, then) ==
  /\ call[t].at = from
  /\ \/ /\ call[t].left = 1 /\ Len(chars) = 2
        /\ tx' = Append(tx, chars[1]) /\ call' = [call EXCEPT ![t].left = 2]
     \/ /\ call[t].left = Len(chars)
        /\ tx' = Append(tx, Last(chars)) /\ call' = [call EXCEPT ![t].at = then, ![t].left = 1]
  /\ UNCHANGED <<rx, age, _timeout, injected, gone>>

write(t, from, chars, then) ==
  /\ call[t].at = from
  /\ tx' = tx \o chars
  /\ Goto(t, then)
  /\ UNCHANGED <<rx, age, _timeout, injected, gone>>

(* then: what is left to do, "cr" in println.                              *)
print(t, then) ==
  \/ write(t, "idle", Text(t), then)
  \/ write(t, "idle", OneChar(t, "sign"), "digits")
  \/ write(t, "digits", OneChar(t, "digits"), then)

LineEnd(t) ==
  \/ write(t, "cr", OneChar(t, "cr"), "lf")
  \/ write(t, "lf", OneChar(t, "lf"), "idle")

println(t) == print(t, "cr") \/ LineEnd(t)
-----------------------------------------------------------------------------
(* readString, readStringUntil, readBytes and readBytesUntil: one timed    *)
(* read after another until n bytes are there or, if stop, a terminator.   *)
Begin(t, n, stop) ==
  /\ call[t].at = "idle"
  /\ call' = [u \in Caller |->
       IF u = t THEN [Idle EXCEPT !.at = "stamp", !.left = n, !.stop = stop,
                                  !.alone = ~\E v \in Caller : Reading(v)]
       ELSE [call[u] EXCEPT !.alone = @ /\ ~Reading(u), !.waited = 0]]

Calls ==
  \E t \in Reader, n \in {1, MaxBytes + 1}, stop \in BOOLEAN : Begin(t, n, stop)

(* _startMillis = millis(): the value may be old when it is stored.        *)
Stamp(t) ==
  /\ call[t].at = "stamp"
  /\ call' = [call EXCEPT ![t].at = "store", ![t].seen = 0, ![t].waited = 0]
  /\ UNCHANGED age

(* Mutant of Store: the old _startMillis stays.                            *)
StoreNothing(t) ==
  /\ call[t].at = "store"
  /\ Goto(t, "poll")
  /\ UNCHANGED age

Store(t) ==
  /\ call[t].at = "store"
  /\ age' = call[t].seen
  /\ Goto(t, "poll")

(* c = read() and what the caller does with a c >= 0.                      *)
Took(t, c) ==
  call' = [call EXCEPT ![t] =
    IF call[t].left = 1 \/ (call[t].stop /\ c \in Terminator) THEN Idle
    ELSE [call[t] EXCEPT !.at = "stamp", !.left = call[t].left - 1]]

(* Mutant of Poll: looks at the front without removing it.                 *)
PollWithoutPop(t) ==
  /\ call[t].at = "poll"
  /\ \/ rx = <<>> /\ Goto(t, "sample") /\ UNCHANGED gone
     \/ rx # <<>> /\ gone' = Append(gone, Head(rx)) /\ Took(t, Head(rx))
  /\ UNCHANGED <<rx, injected, tx, age, _timeout>>

Poll(t) ==
  /\ call[t].at = "poll"
  /\ \/ rx = <<>> /\ Goto(t, "sample") /\ UNCHANGED <<rx, gone, injected>>
     \/ rx # <<>> /\ Pop(1) /\ Took(t, Head(rx))
  /\ UNCHANGED <<tx, age, _timeout>>

Sample(t) ==
  /\ call[t].at = "sample"
  /\ call' = [call EXCEPT ![t].at = "compare", ![t].seen = 0]
  /\ UNCHANGED age

(* millis() - _startMillis < _timeout, in unsigned arithmetic.             *)
Elapsed(t) == (age - call[t].seen) % 2 ^ Width

GiveUp(t) ==
  /\ call[t].at = "compare"
  /\ Elapsed(t) >= _timeout
  /\ call' = [call EXCEPT ![t] = Idle]
  /\ UNCHANGED age

(* Mutant of Retry: the timeout begins anew with every try.                *)
RetryAnew(t) ==
  /\ call[t].at = "compare"
  /\ Elapsed(t) < _timeout
  /\ Goto(t, "stamp")
  /\ UNCHANGED age

Retry(t) ==
  /\ call[t].at = "compare"
  /\ Elapsed(t) < _timeout
  /\ Goto(t, "poll")
  /\ UNCHANGED age

timedRead(t) ==
  \/ /\ Stamp(t) \/ Store(t) \/ Sample(t) \/ GiveUp(t) \/ Retry(t)
     /\ UNCHANGED <<rx, tx, _timeout, injected, gone>>
  \/ Poll(t)

(* Time passes, but not while a thread holds a clock reading too long.     *)
Tick ==
  /\ \A t \in Caller : call[t].at \in {"store", "compare"} => call[t].seen < MaxHold
  /\ age' = AtMost(age + 1, Oldest)
  /\ call' = [t \in Caller |->
       [call[t] EXCEPT !.seen = IF call[t].at \in {"store", "compare"} THEN @ + 1 ELSE 0,
                       !.waited = IF Reading(t) /\ call[t].alone THEN AtMost(@ + 1, Longest) ELSE 0]]
  /\ UNCHANGED <<rx, tx, _timeout, injected, gone>>

Next ==
  \/ \E n \in 1 .. MaxBytes - injected : injectRxData(n)
  \/ Calls /\ UNCHANGED <<rx, tx, age, _timeout, injected, gone>>
  \/ \E t \in Reader : timedRead(t)
  \/ \E t \in Printer : print(t, "idle") /\ Len(tx') <= MaxTx
  \/ \E t \in Printer : println(t) /\ Len(tx') <= MaxTx
  \/ flush \/ getTxData \/ ClearTxData \/ ClearRxData \/ clearBuffers
  \/ \E n \in Timeouts : setTimeout(n)
  \/ Tick

Spec == Init /\ [][Next]_serialVars

Fairness ==
  /\ WF_serialVars(Tick)
  /\ \A t \in Reader : WF_serialVars(timedRead(t))

FairSpec == Spec /\ Fairness
-----------------------------------------------------------------------------
TypeOK ==
  /\ rx \in Seq(1 .. MaxBytes) /\ gone \in Seq(1 .. MaxBytes)
  /\ tx \in Seq(Written) /\ Len(tx) <= MaxTx
  /\ age \in 0 .. Oldest /\ _timeout \in Timeouts
  /\ call \in [Caller -> [at : {"idle", "digits", "cr", "lf", "stamp", "store", "poll", "sample", "compare"},
                          left : 1 .. MaxBytes + 1, stop : BOOLEAN, alone : BOOLEAN,
                          seen : 0 .. MaxHold, waited : 0 .. Longest]]
  /\ injected \in 0 .. MaxBytes

(* Whoever reads, polls or clears, every injected byte leaves the queue    *)
(* once and in the order in which it came.                                 *)
ExactlyOnce == gone \o rx = [i \in 1 .. injected |-> i]

(* A text that one call prints is not torn apart by what others print, as  *)
(* its line end and the sign of a number may be.                           *)
TextsStayWhole ==
  \A i \in DOMAIN tx : tx[i].part = "first" => i < Len(tx) /\ tx[i + 1] = Text(tx[i].by)[2]

(* A timed read that has had no other beside it gives up only when its     *)
(* timeout has passed since it began.  With another, which overwrites      *)
(* _startMillis between millis() and the subtraction, it may at any time.  *)
PatientAlone ==
  [][\A t \in Caller : GiveUp(t) /\ call[t].alone => call[t].waited >= _timeout]_serialVars

(* A timed read comes to its end once the line is quiet, unless another    *)
(* thread reads as well and restarts the one timeout they share.           *)
ReturnsAlone ==
  \A t \in Caller : Reading(t) ~> ~Reading(t) \/ \E u \in Caller \ {t} : Reading(u)
=============================================================================
