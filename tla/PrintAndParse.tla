--------------------------- MODULE PrintAndParse ---------------------------
(* Print.cpp and Stream.h's parseInt: integers that one side prints as     *)
(* text and the other side reads back from the same line, and the numerals *)
(* of every base.  Text is a sequence of characters.                       *)
EXTENDS Integers, Sequences, SequencesExt

CONSTANTS IntWidth, LongWidth,  \* bits of int and of long, which is wider
          Base,                 \* what print is given: 2, 8, 10, 16 and others
          BufSize,              \* of printf's buffer, its final 0 included
          NoNumeral,
          MaxLine               \* bound: characters waiting on the line

VARIABLES line,           \* what the stream holds for its reader
          due,            \* history: the ints on it, the oldest first
          numeral         \* history: a number and its text, or NoNumeral,
                          \* when the last step printed to another Print

printVars == <<line, due, numeral>>

Signed(w) == -(2 ^ (w - 1)) .. 2 ^ (w - 1) - 1
Wrap(v, w) == ((v + 2 ^ (w - 1)) % 2 ^ w) - 2 ^ (w - 1)
ToUnsignedLong(v) == v % 2 ^ LongWidth

DigitChar == <<"0", "1", "2", "3", "4", "5", "6", "7", "8", "9", "A", "B", "C", "D", "E", "F">>
Digits    == {DigitChar[i] : i \in 1 .. 10}
Digit(c)  == (CHOOSE i \in DOMAIN DigitChar : DigitChar[i] = c) - 1

(* What the digits stand for, each worth radix times its successor.        *)
Denoted(digits, radix) ==
  LET value[run \in Seq(Range(DigitChar))] ==
        IF run = <<>> THEN 0 ELSE value[Front(run)] * radix + Digit(Last(run))
  IN  value[digits]
-----------------------------------------------------------------------------
(* The loop of base 2: bits, the lowest first, which are then turned round.*)
Bits ==
  LET bits[v \in 0 .. 2 ^ LongWidth - 1] ==
        IF v = 0 THEN <<>> ELSE <<DigitChar[(v % 2) + 1]>> \o bits[v \div 2]
  IN  bits

(* snprintf with %lu, %lo, %lX, and %llu, %llo, %llX of the same code for  *)
(* long long.                                                              *)
Formatted(val, radix) ==
  LET text[v \in 0 .. 2 ^ LongWidth - 1] ==
        IF v < radix THEN <<DigitChar[v + 1]>>
        ELSE Append(text[v \div radix], DigitChar[(v % radix) + 1])
  IN  text[val]

Radix(base) == IF base \in {2, 8, 16} THEN base ELSE 10

(* Mutant of printNumber: the bits are not turned round.                   *)
PrintNumberForwards(val, base) ==
  IF base = 2 THEN IF val = 0 THEN <<"0">> ELSE Bits[val]
  ELSE Formatted(val, Radix(base))

printNumber(val, base) ==
  IF base = 2 THEN IF val = 0 THEN <<"0">> ELSE Reverse(Bits[val])
  ELSE Formatted(val, Radix(base))

(* Mutant of Magnitude: -val overflows for the most negative number.       *)
MagnitudeNegated(val, w) == ToUnsignedLong(Wrap(-val, w))

(* -(val + 1) is computed in the argument's type, w bits wide, which it    *)
(* fits for every negative val.                                            *)
Magnitude(val, w) == ToUnsignedLong(Wrap(-Wrap(val + 1, w), w)) + 1

(* String(value, BIN) puts each bit in front of the lower ones.            *)
StringBits(value) ==
  LET bits[v \in 0 .. 2 ^ LongWidth - 1] ==
        IF v = 0 THEN <<>> ELSE bits[v \div 2] \o <<DigitChar[(v % 2) + 1]>>
  IN  IF value = 0 THEN <<"0">> ELSE bits[value]

(* String(value, base): the digits above 9 are small letters.              *)
tolower(ch) == IF ch \in Digits THEN ch ELSE CASE ch = "A" -> "a" [] ch = "B" -> "b" [] ch = "C" -> "c"
                 [] ch = "D" -> "d" [] ch = "E" -> "e" [] ch = "F" -> "f" [] OTHER -> ch
StringOf(value, base) ==
  IF base = 2 THEN StringBits(value)
  ELSE LET text == Formatted(value, Radix(base)) IN [i \in DOMAIN text |-> tolower(text[i])]

equalsIgnoreCase(lhs, rhs) ==
  /\ Len(lhs) = Len(rhs)
  /\ \A i \in DOMAIN lhs : tolower(lhs[i]) = tolower(rhs[i])

(* print(int) and print(long): w is the width of the type.                 *)
Text(val, base, w) ==
  IF val < 0 /\ base = 10 THEN <<"-">> \o printNumber(Magnitude(val, w), base)
  ELSE printNumber(ToUnsignedLong(val), base)

(* String::toInt, of a numeral of base 10: 0 for what stoi throws at.      *)
toInt(text) ==
  LET neg   == text[1] = "-"
      value == Denoted(IF neg THEN Tail(text) ELSE text, 10)
      int   == IF neg THEN -value ELSE value
  IN  IF int \in Signed(IntWidth) THEN int ELSE 0

LineEnd == <<"\r", "\n">>

Shown(val, base, w) == [val |-> val, base |-> base, chars |-> Text(val, base, w)]

Init == line = <<>> /\ due = <<>> /\ numeral = NoNumeral

println(val) ==
  /\ line' = line \o Text(val, 10, IntWidth) \o LineEnd
  /\ due' = Append(due, val)
  /\ numeral' = NoNumeral

(* print(long, base) and print(int, base) to another Print; bound: when   *)
(* the line, which it does not touch, is empty.                           *)
print(val, base, w) ==
  /\ line = <<>>
  /\ val \in Signed(w)
  /\ numeral' = Shown(val, base, w)
  /\ UNCHANGED <<line, due>>

(* n characters of text are formatted, all but the first BufSize - 1 lost. *)
printf(n) ==
  /\ line' = line \o [i \in 1 .. IF n < BufSize THEN n ELSE BufSize - 1 |-> "."]
  /\ numeral' = NoNumeral
  /\ UNCHANGED due
-----------------------------------------------------------------------------
(* parseInt: skips to a digit or -, takes the digits, and swallows the     *)
(* character that ends them, which need not be a separator.  A long wraps  *)
(* round at each digit; once, at the end, comes to the same.               *)
Parsed(text) ==
  LET start == SelectInSeq(text, LAMBDA c : c \in Digits \cup {"-"})
      neg   == start > 0 /\ text[start] = "-"
      rest  == IF start = 0 THEN <<>> ELSE SubSeq(text, IF neg THEN start + 1 ELSE start, Len(text))
      stop  == SelectInSeq(rest, LAMBDA c : c \notin Digits)
      run   == IF stop = 0 THEN rest ELSE SubSeq(rest, 1, stop - 1)
      value == Wrap(Denoted(run, 10), LongWidth)
  IN  [value |-> IF neg THEN Wrap(-value, LongWidth) ELSE value,
       left  |-> IF stop = 0 THEN <<>> ELSE SubSeq(rest, stop + 1, Len(rest))]

parseInt ==
  /\ line' = Parsed(line).left
  /\ due' = IF due = <<>> THEN <<>> ELSE Tail(due)
  /\ numeral' = NoNumeral

Next ==
  \/ \E val \in Signed(IntWidth) : println(val) /\ Len(line') <= MaxLine
  \/ \E n \in 1 .. BufSize : printf(n) /\ Len(line') <= MaxLine
  \/ \E val \in Signed(LongWidth), base \in Base, w \in {IntWidth, LongWidth} : print(val, base, w)
  \/ parseInt

Spec == Init /\ [][Next]_printVars
-----------------------------------------------------------------------------
Char == Digits \cup {"-", "\r", "\n", "."}

TypeOK ==
  /\ line \in Seq(Char) /\ Len(line) <= MaxLine
  /\ due \in Seq(Signed(IntWidth))
  /\ numeral # NoNumeral => numeral.val \in Signed(LongWidth) /\ numeral.base \in Base

(* parseInt gives back the ints in the order in which println sent them,   *)
(* the most negative one included, and passes over the text in between, in *)
(* which there is no digit and no -.                                       *)
ParsedIsPrinted == due # <<>> => Parsed(line).value = Head(due)

(* The digits of a numeral have the value of its number, modulo 2^w when a *)
(* negative number is printed in a base other than 10, without a leading   *)
(* 0; String(v, base) is what print(v, base) writes, but for the case of   *)
(* its letters; and toInt of a decimal gives the number, or 0 when it is   *)
(* not an int.                                                             *)
NumeralsDenote == numeral # NoNumeral =>
  LET signed == numeral.val < 0 /\ numeral.base = 10
      digits == IF signed THEN Tail(numeral.chars) ELSE numeral.chars
      value  == Denoted(digits, Radix(numeral.base))
      bits   == ToUnsignedLong(numeral.val)
  IN  /\ value = IF signed THEN -numeral.val ELSE bits
      /\ Len(digits) > 1 => Head(digits) # "0"
      /\ ~signed => equalsIgnoreCase(StringOf(bits, numeral.base), numeral.chars)
      /\ numeral.base = 10 => toInt(numeral.chars) =
           IF numeral.val \in Signed(IntWidth) THEN numeral.val ELSE 0
=============================================================================
