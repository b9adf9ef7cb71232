------------------------------ MODULE WireBus ------------------------------
(* Wire.cpp: the bytes that tests queue for a bus, and the 8-bit counts of *)
(* requestFrom.  Which bytes they are does not matter to it.               *)
EXTENDS Naturals

CONSTANTS Width,          \* of uint8_t
          MaxQueued       \* bound: bytes queued, and written

VARIABLES _readQueue, _written,
          promised        \* history: bytes the last requestFrom announced
                          \* that were not read since

wireVars == <<_readQueue, _written, promised>>

Init == _readQueue = 0 /\ _written = 0 /\ promised = 0

uint8(n) == n % 2 ^ Width

(* Mutant of Granted: the bytes that were asked for, queued or not.        *)
GrantedUnchecked(count) == count

(* The bytes stay in the queue: requestFrom only counts them.              *)
Granted(count) == IF uint8(_readQueue) < count THEN uint8(_readQueue) ELSE count

(* With a count of size_t, which is narrowed first.                        *)
requestFrom(count) ==
  /\ promised' = Granted(uint8(count))
  /\ UNCHANGED <<_readQueue, _written>>

(* Mutant of read: takes a byte from an empty queue.                       *)
ReadUnchecked ==
  /\ _readQueue' = _readQueue - 1
  /\ UNCHANGED <<_written, promised>>

read ==
  /\ _readQueue > 0
  /\ _readQueue' = _readQueue - 1
  /\ promised' = IF promised > 0 THEN promised - 1 ELSE 0
  /\ UNCHANGED _written

write(n) == _written' = _written + n /\ UNCHANGED <<_readQueue, promised>>

mockQueueRead(n) == _readQueue' = _readQueue + n /\ UNCHANGED <<_written, promised>>

mockReset == _readQueue' = 0 /\ _written' = 0 /\ promised' = 0

Next ==
  \/ \E count \in 0 .. MaxQueued : requestFrom(count)
  \/ \E n \in 1 .. MaxQueued : _written + n <= MaxQueued /\ write(n)
  \/ \E n \in 1 .. MaxQueued : _readQueue + n <= MaxQueued /\ mockQueueRead(n)
  \/ read \/ mockReset

Spec == Init /\ [][Next]_wireVars
-----------------------------------------------------------------------------
TypeOK == _readQueue \in 0 .. MaxQueued /\ _written \in 0 .. MaxQueued /\ promised \in Nat

(* What requestFrom announced can be read: the narrowing to 8 bits may     *)
(* announce fewer bytes than are queued, none for 256, but never more.     *)
PromisesKept == promised <= _readQueue
=============================================================================
