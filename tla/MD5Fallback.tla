---------------------------- MODULE MD5Fallback ----------------------------
(* MD5Builder.h without a native MD5: four words, into which every byte is *)
(* mixed as it is added.  A byte, and a word, is the set of its one-bits.  *)
(* s1 depends on where a byte stood in its call of add; s0, s2 and s3 on   *)
(* the bytes and their order alone, which stand for them.                  *)
EXTENDS Naturals, Sequences, SequencesExt

CONSTANTS Byte,           \* some subsets of 0 .. 7
          MaxLen          \* bound: bytes added in all

VARIABLES bytes,          \* s0, s2 and s3
          s1, calculated,
          shown           \* history: what toString has returned since begin

fallbackVars == <<bytes, s1, calculated, shown>>

Xor(A, B)         == (A \ B) \cup (B \ A)
ShiftLeft(A, n)   == {k + n : k \in A}
Mixed(word, data) ==
  LET mixed[i \in 0 .. Len(data)] ==
        IF i = 0 THEN word ELSE Xor(mixed[i - 1], ShiftLeft(data[i], (i - 1) % 24))
  IN  mixed[Len(data)]

(* The initial value of s1 is taken to be {}: Xor carries any other along. *)
Init  == bytes = <<>> /\ s1 = {} /\ calculated = FALSE /\ shown = {}
begin == bytes' = <<>> /\ s1' = {} /\ calculated' = FALSE /\ shown' = {}

add(data) ==
  /\ bytes' = bytes \o data
  /\ s1' = Mixed(s1, data)
  /\ UNCHANGED <<calculated, shown>>

calculate == calculated' = TRUE /\ UNCHANGED <<bytes, s1, shown>>

Packed(text, word) == [bytes |-> text, s1 |-> word]

toString ==
  /\ calculated' = TRUE
  /\ shown' = shown \cup {Packed(bytes, s1)}
  /\ UNCHANGED <<bytes, s1>>

Next ==
  \/ \E data \in BoundedSeq(Byte, MaxLen) : Len(bytes) + Len(data) <= MaxLen /\ add(data)
  \/ begin \/ calculate \/ toString

Spec == Init /\ [][Next]_fallbackVars
-----------------------------------------------------------------------------
(* The test AddAfterFinalizeIsIgnored of MD5Builder: what is added after   *)
(* toString was called has no effect on what it returns.                   *)
AddAfterFinalizeIsIgnored == \A first, second \in shown : second = first
=============================================================================
