---------------------------- MODULE Preferences ----------------------------
(* Preferences.h: typed values stored as bytes under a key.  The name that *)
(* begin is given and readOnly select nothing: all names share one store.  *)
EXTENDS Naturals, Sequences, SequencesExt

CONSTANTS Key, Byte,      \* Byte includes 0, the end of a C string
          Sizes,          \* sizeof of bool and of int32_t, uint32_t, float
          MaxLen,         \* bound: bytes of a value
          Absent          \* of a key that is not in the store

VARIABLES _store,
          put             \* history: the kind and the value put last, by key

prefVars == <<_store, put>>

Value == BoundedSeq(Byte, MaxLen)
Init  == _store = [k \in Key |-> Absent] /\ put = [k \in Key |-> Absent]

isKey(k) == _store[k] # Absent

putBytes(k, val) ==
  /\ _store' = [_store EXCEPT ![k] = val]
  /\ put' = [put EXCEPT ![k] = val]

(* putBool, putInt, putUInt, putFloat: as many bytes as the type has.      *)
putTyped(k, size) == \E val \in [1 .. size -> Byte] : putBytes(k, val)

(* A C string: up to its first 0.                                          *)
putString(k, val) == 0 \notin ToSet(val) /\ putBytes(k, val)

Forget(K) ==
  /\ _store' = [k \in Key |-> IF k \in K THEN Absent ELSE _store[k]]
  /\ put' = [k \in Key |-> IF k \in K THEN Absent ELSE put[k]]

remove(k) == isKey(k) /\ Forget({k})
clear     == Forget(Key)

(* memcpy of the first n bytes of src over dst.                            *)
Copy(dst, src, n) == [i \in DOMAIN dst |-> IF i <= n THEN src[i] ELSE dst[i]]
Smaller(m, n)     == IF m < n THEN m ELSE n

getBytes(k, buf) ==
  IF isKey(k) THEN Copy(buf, _store[k], Smaller(Len(_store[k]), Len(buf))) ELSE buf

(* getBool, getInt, getUInt, getFloat: into a variable that holds the      *)
(* default.                                                                *)
getTyped(k, def) == getBytes(k, def)

(* Mutant of getString: the 0 behind the string is not copied.             *)
GetStringUnterminated(k, buf) ==
  [Copy(buf, _store[k], Smaller(Len(_store[k]), Len(buf))) EXCEPT ![Len(buf)] = 0]

(* The 0 that ends the string is copied when it fits; the last byte of the *)
(* buffer, which is not empty, is made 0 in any case.                      *)
getString(k, buf) ==
  IF ~isKey(k) THEN buf
  ELSE LET text == Append(_store[k], 0)
           n    == Smaller(Len(text), Len(buf))
       IN  [Copy(buf, text, n) EXCEPT ![Len(buf)] = 0]

Next ==
  \/ \E k \in Key :
       \/ \E val \in Value : putBytes(k, val) \/ putString(k, val)
       \/ \E size \in Sizes : putTyped(k, size)
       \/ remove(k)
  \/ clear

Spec == Init /\ [][Next]_prefVars
-----------------------------------------------------------------------------
TypeOK == _store \in [Key -> Value \cup {Absent}] /\ put \in [Key -> Value \cup {Absent}]

(* Whatever happened to the other keys, a get of the type a key was last   *)
(* put with gives that value and none of the default's bytes; and a string *)
(* comes back whole when buf has room for its 0, and else cut to a prefix  *)
(* that ends in 0 inside of buf, whatever buf held.                        *)
GetsAreExact ==
  \A k \in Key : put[k] # Absent =>
    /\ \A def \in [DOMAIN put[k] -> Byte] : getTyped(k, def) = put[k]
    /\ \A n \in 1 .. MaxLen : \A buf \in [1 .. n -> Byte] :
         0 \notin ToSet(put[k]) =>
           \E end \in 1 .. n :
             /\ getString(k, buf)[end] = 0
             /\ SubSeq(getString(k, buf), 1, end - 1) = SubSeq(put[k], 1, Smaller(n - 1, Len(put[k])))
=============================================================================
