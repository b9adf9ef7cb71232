---------------------------- MODULE Peripherals ----------------------------
(* The peripheral mocks, which share no state with one another: part says  *)
(* which of them is in use.                                                *)
EXTENDS SerialPort

CONSTANTS Path, Handle, FileByte, Newline, NoFile, MaxFile,        \* MockSPIFFS
          Key, ValueByte, Sizes, Absent, MaxValue,                 \* Preferences
          Pin, Level, Off, MaxDepth,                               \* GpioInterrupt
          CountWidth, MaxQueued,                                   \* WireBus
          DigestByte, Padding, NoDigest, MaxMessage,               \* MD5Builder
          IntWidth, LongWidth, Base, BufSize, NoNumeral, MaxLine,  \* PrintAndParse
          Letter, Blank, NoText, MaxText, MaxArg                   \* ArduinoString

(* What stands for the absence of a thing is none of the things, a value   *)
(* in flash has the size of a type, LOW is a level and long is wider than  *)
(* int, which can hold the numbers -1 and 0.                               *)
ASSUME PeripheralsAssumption ==
  /\ Newline \in FileByte /\ NoFile \notin Path \cup Seq(FileByte) /\ MaxFile \in Nat
  /\ 0 \in ValueByte /\ Absent \notin Seq(ValueByte)
  /\ MaxValue \in Nat /\ Sizes \subseteq 0 .. MaxValue
  /\ 0 \in Level /\ MaxDepth \in Nat
  /\ 2 ^ CountWidth \in Nat \ {0} /\ MaxQueued \in Nat
  /\ Padding \notin DigestByte /\ NoDigest \notin Seq(DigestByte) /\ MaxMessage \in Nat
  /\ IntWidth \in Nat \ {0} /\ LongWidth \in Nat /\ IntWidth < LongWidth
  /\ \A w \in {IntWidth, LongWidth} : 2 ^ (w - 1) \in Nat \ {0} /\ 2 ^ w = 2 * 2 ^ (w - 1)
  /\ 2 ^ IntWidth <= 2 ^ (LongWidth - 1)
  /\ Base \subseteq Nat /\ BufSize \in Nat \ {0} /\ MaxLine \in Nat
  /\ Blank \subseteq Letter /\ NoText \notin Seq(Letter)
  /\ MaxText \in Nat /\ MaxArg \in 0 .. MaxText

VARIABLES part,
          files, file, _mounted, _canMount, got,
          _store, put,
          pin_state, isr_table, running, stored,
          _readQueue, _written, promised,
          ctx, digest, finalized, message, asked, shown,
          line, due, numeral,
          _data, _readPos, seen

Files == INSTANCE MockSPIFFS WITH Byte <- FileByte, MaxLen <- MaxFile

Flash == INSTANCE Preferences WITH Byte <- ValueByte, MaxLen <- MaxValue

Gpio == INSTANCE GpioInterrupt

Bus == INSTANCE WireBus WITH Width <- CountWidth

Digest == INSTANCE MD5Builder
            WITH Byte <- DigestByte, MaxLen <- MaxMessage

Number == INSTANCE PrintAndParse

Strings == INSTANCE ArduinoString WITH Char <- Letter, MaxLen <- MaxText

PartNames == {"files", "flash", "gpio", "bus", "digest", "number", "text",
              "sending", "receiving"}

AllInit ==
  /\ part \in PartNames
  /\ Init /\ Files!Init /\ Flash!Init /\ Gpio!Init /\ Bus!Init
  /\ Digest!Init /\ Number!Init /\ Strings!Init

OthersRest ==
  /\ UNCHANGED part
  /\ IF part = "files" THEN TRUE ELSE UNCHANGED <<files, file, _mounted, _canMount, got>>
  /\ IF part = "flash" THEN TRUE ELSE UNCHANGED <<_store, put>>
  /\ IF part = "gpio" THEN TRUE ELSE UNCHANGED <<pin_state, isr_table, running, stored>>
  /\ IF part = "bus" THEN TRUE ELSE UNCHANGED <<_readQueue, _written, promised>>
  /\ IF part = "digest" THEN TRUE
     ELSE UNCHANGED <<ctx, digest, finalized, message, asked, shown>>
  /\ IF part = "number" THEN TRUE ELSE UNCHANGED <<line, due, numeral>>
  /\ IF part = "text" THEN TRUE ELSE UNCHANGED <<_data, _readPos, seen>>
  /\ IF part \in {"sending", "receiving"} THEN TRUE ELSE UNCHANGED serialVars

(* The two directions of a port, on which different threads work.          *)
NobodyReads  == UNCHANGED <<rx, age, _timeout>> /\ \A t \in Reader : ~Reading(t)'
NobodyPrints == UNCHANGED tx /\ \A t \in Printer : call'[t] = Idle

AllNext ==
  \/ part = "files"  /\ Files!Next   /\ OthersRest
  \/ part = "flash"  /\ Flash!Next   /\ OthersRest
  \/ part = "gpio"   /\ Gpio!Next    /\ OthersRest
  \/ part = "bus"    /\ Bus!Next     /\ OthersRest
  \/ part = "digest" /\ Digest!Next  /\ OthersRest
  \/ part = "number" /\ Number!Next  /\ OthersRest
  \/ part = "text"   /\ Strings!Next    /\ OthersRest
  \/ part = "sending"   /\ Next /\ NobodyReads  /\ OthersRest
  \/ part = "receiving" /\ Next /\ NobodyPrints /\ OthersRest

allVars == <<part, Files!spiffsVars, Flash!prefVars, Gpio!gpioVars, Bus!wireVars, Digest!md5Vars,
             Number!printVars, Strings!stringVars, serialVars>>

AllSpec == AllInit /\ [][AllNext]_allVars
-----------------------------------------------------------------------------
(* The state of the part in use is of the right kind.                      *)
AllTypesOK ==
  CASE part = "files"  -> Files!TypeOK
    [] part = "flash"  -> Flash!TypeOK
    [] part = "gpio"   -> Gpio!TypeOK
    [] part = "bus"    -> Bus!TypeOK
    [] part = "digest" -> Digest!TypeOK
    [] part = "number" -> Number!TypeOK
    [] part = "text"   -> Strings!TypeOK
    [] part = "sending"   -> TypeOK
    [] part = "receiving" -> TypeOK

(* What a reader of a File, or of a String, has got is the text from its   *)
(* beginning, each byte once: see MockSPIFFS and ArduinoString.            *)
ReadersGetTheText == Files!ReadersSeeContent /\ Strings!ReadsInOrder

(* A typed get gives what was put last under the key: see Preferences.     *)
GetsAreExact == Flash!GetsAreExact

(* An edge is told once: see GpioInterrupt.                                *)
EdgesAlternate == Gpio!EdgesAlternate

(* What requestFrom announced can be read: see WireBus.                    *)
PromisesKept == Bus!PromisesKept

(* All that toString shows is the digest of one message: see MD5Builder.   *)
DigestIsOfMessage == Digest!DigestIsOfMessage

(* parseInt gives what println sent: see PrintAndParse.                    *)
ParsedIsPrinted == Number!ParsedIsPrinted

(* A numeral has the value of its number: see PrintAndParse.               *)
NumeralsDenote == Number!NumeralsDenote

(* replace substitutes what the text held before: see ArduinoString.       *)
ReplaceIsSimultaneous == part = "text" => Strings!ReplaceIsSimultaneous

(* Searching and cutting agree: see ArduinoString.                         *)
SearchesAgreeWithCuts == part = "text" => Strings!SearchesAgreeWithCuts
=============================================================================
