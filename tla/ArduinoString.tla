--------------------------- MODULE ArduinoString ---------------------------
(* WString.h: a text that is edited in place, and read like a stream from  *)
(* a position of its own that only clear puts back to the beginning.       *)
(* Indices count from 0, as in the code.                                   *)
EXTENDS Integers, Sequences, SequencesExt

CONSTANTS Char, Blank,    \* Blank: the characters that trim removes
          MaxLen,         \* bound: characters of the text
          MaxArg,         \* bound: characters of an argument
          NoText          \* nothing is known of what was read

VARIABLES _data, _readPos,
          seen            \* history: what was read since the text was changed
                          \* other than at its end, or NoText

stringVars == <<_data, _readPos, seen>>

Arg == BoundedSeq(Char, MaxArg)

Init == _data = <<>> /\ _readPos = 0 /\ seen = <<>>

npos == -1
Smallest(S) == IF S = {} THEN npos ELSE CHOOSE i \in S : \A j \in S : i <= j
Largest(S)  == IF S = {} THEN npos ELSE CHOOSE i \in S : \A j \in S : i >= j

(* std::string: where str is in text, find, rfind, and substr, which       *)
(* throws when from is past the end.                                       *)
Matches(text, str) == {i \in 0 .. Len(text) - Len(str) : SubSeq(text, i + 1, i + Len(str)) = str}
find(text, str, pos) == Smallest({i \in Matches(text, str) : i >= pos})
rfind(text, str)     == Largest(Matches(text, str))
substr(text, from, n) == SubSeq(text, from + 1, IF n > Len(text) - from THEN Len(text) ELSE from + n)
-----------------------------------------------------------------------------
AtLeast0(i) == IF i < 0 THEN 0 ELSE i

indexOf(text, str, fromIndex) == find(text, str, AtLeast0(fromIndex))
lastIndexOf(text, str)        == rfind(text, str)
startsWith(text, prefix)      == find(text, prefix, 0) = 0
endsWith(text, suffix) ==
  Len(text) >= Len(suffix) /\ substr(text, Len(text) - Len(suffix), Len(suffix)) = suffix

SubstringThrows(text, from) == AtLeast0(from) > Len(text)
substring(text, from, to) ==
  IF AtLeast0(to) < AtLeast0(from) THEN <<>> ELSE substr(text, AtLeast0(from), AtLeast0(to) - AtLeast0(from))

(* Mutant of Trimmed: end - start instead of end - start + 1.              *)
TrimmedShort(text) ==
  LET kept == {i \in 0 .. Len(text) - 1 : text[i + 1] \notin Blank}
  IN  IF kept = {} THEN <<>> ELSE substr(text, Smallest(kept), Largest(kept) - Smallest(kept))

Trimmed(text) ==
  LET kept == {i \in 0 .. Len(text) - 1 : text[i + 1] \notin Blank}
  IN  IF kept = {} THEN <<>>
      ELSE substr(text, Smallest(kept), Largest(kept) - Smallest(kept) + 1)

ReplacedChar(text, old, new) == [i \in DOMAIN text |-> IF text[i] = old THEN new ELSE text[i]]

(* Mutant of GoesOn: one character too far.                                *)
GoesOnTooFar(hit, by) == hit + Len(by) + 1

GoesOn(hit, by) == hit + Len(by)

(* The loop of replace: it searches the text that it edits, and goes on    *)
(* behind what it has put in.                                              *)
ReplaceLoop(str, by) ==
  LET loop[at \in [text : Seq(Char), pos : Nat]] ==
        LET hit  == find(at.text, str, at.pos)
            rest == SubSeq(at.text, hit + Len(str) + 1, Len(at.text))
        IN  IF hit = npos THEN at.text
            ELSE loop[[text |-> SubSeq(at.text, 1, hit) \o by \o rest, pos |-> GoesOn(hit, by)]]
  IN  loop

Replaced(text, str, by) == IF str = <<>> THEN text ELSE ReplaceLoop(str, by)[[text |-> text, pos |-> 0]]

Removed(text, index, count) ==
  IF index >= Len(text) THEN text
  ELSE LET available == Len(text) - index
           n         == IF count > available THEN available ELSE count
       IN  SubSeq(text, 1, index) \o SubSeq(text, index + n + 1, Len(text))
-----------------------------------------------------------------------------
(* operator=, operator[], trim, replace and remove: _readPos stays.        *)
Edit(text) ==
  /\ _data' = text
  /\ seen' = NoText
  /\ UNCHANGED _readPos

assign(str)           == Edit(str)
setChar(index, c)     == index < Len(_data) /\ Edit([_data EXCEPT ![index + 1] = c])
trim                  == Edit(Trimmed(_data))
replaceChar(old, new) == Edit(ReplacedChar(_data, old, new))
replace(str, by)      == Edit(Replaced(_data, str, by))
remove(index, count)  == Edit(Removed(_data, index, count))

(* operator+=, concat and write.                                           *)
concat(str) == _data' = _data \o str /\ UNCHANGED <<_readPos, seen>>

clear == _data' = <<>> /\ _readPos' = 0 /\ seen' = <<>>

available == IF _readPos < Len(_data) THEN Len(_data) - _readPos ELSE 0

read ==
  /\ _readPos < Len(_data)
  /\ _readPos' = _readPos + 1
  /\ seen' = IF seen = NoText THEN NoText ELSE Append(seen, _data[_readPos + 1])
  /\ UNCHANGED _data

Next ==
  \/ \E str \in Arg : assign(str)
  \/ \E str \in Arg : concat(str) /\ Len(_data') <= MaxLen
  \/ \E str, by \in Arg : replace(str, by) /\ Len(_data') <= MaxLen
  \/ \E old, new \in Char : replaceChar(old, new)
  \/ \E index \in 0 .. MaxLen : \E c \in Char : setChar(index, c)
  \/ \E index, count \in 0 .. MaxLen : remove(index, count)
  \/ trim \/ clear \/ read

Spec == Init /\ [][Next]_stringVars
-----------------------------------------------------------------------------
TypeOK ==
  /\ _data \in BoundedSeq(Char, MaxLen) /\ _readPos \in 0 .. MaxLen
  /\ seen \in BoundedSeq(Char, MaxLen) \cup {NoText}

(* What a stream reader gets is the text from its beginning, once, while   *)
(* the text only grows.                                                    *)
ReadsInOrder == seen # NoText => seen = SubSeq(_data, 1, _readPos)

(* Reference: the occurrences of str from the left, none overlapping the   *)
(* one before, in a text that is never edited.                             *)
Rewritten(str, by) ==
  LET rewritten[text \in Seq(Char)] ==
        IF Matches(text, str) = {} THEN text
        ELSE LET hit == Smallest(Matches(text, str))
             IN  SubSeq(text, 1, hit) \o by
                   \o rewritten[SubSeq(text, hit + Len(str) + 1, Len(text))]
  IN  rewritten

(* replace substitutes every occurrence of str, not those that arise from  *)
(* what it put in, which would never end, nor any that its own edits join. *)
ReplaceIsSimultaneous ==
  \A str, by \in Arg : str # <<>> => Replaced(_data, str, by) = Rewritten(str, by)[_data]

(* Where cutting str out of the text gives str.                            *)
Occurrences(str) == {i \in 0 .. Len(_data) : substring(_data, i, i + Len(str)) = str}

(* The searches and the cuts agree: the text begins or ends with what      *)
(* startsWith and endsWith say; indexOf finds the first place at or behind *)
(* fromIndex from which substring cuts str, and lastIndexOf the last, and  *)
(* they answer -1 only when there is none; remove leaves out what two      *)
(* substrings do not give; trim takes off blanks, and leaves none at an    *)
(* end of the text.                                                        *)
SearchesAgreeWithCuts ==
  /\ \A str \in Arg :
       /\ startsWith(_data, str) <=> IsPrefix(str, _data)
       /\ endsWith(_data, str) <=> IsSuffix(str, _data)
       /\ \A i \in -1 .. MaxLen :
            LET found  == indexOf(_data, str, i)
                behind == {j \in Occurrences(str) : i <= j}
            IN  IF behind = {} THEN found = npos
                ELSE found \in behind /\ \A j \in behind : found <= j
       /\ LET found == lastIndexOf(_data, str)
          IN  IF Occurrences(str) = {} THEN found = npos
              ELSE found \in Occurrences(str) /\ \A j \in Occurrences(str) : j <= found
  /\ \A i, n \in 0 .. MaxLen : ~SubstringThrows(_data, i) =>
       Removed(_data, i, n) = substring(_data, 0, i) \o
         (IF SubstringThrows(_data, i + n) THEN <<>> ELSE substring(_data, i + n, Len(_data)))
  /\ \E i, j \in 0 .. Len(_data) :
       /\ _data = substring(_data, 0, i) \o Trimmed(_data) \o substring(_data, j, Len(_data))
       /\ ToSet(substring(_data, 0, i) \o substring(_data, j, Len(_data))) \subseteq Blank
  /\ LET kept == Trimmed(_data)
     IN  kept # <<>> => kept[1] \notin Blank /\ kept[Len(kept)] \notin Blank
=============================================================================
