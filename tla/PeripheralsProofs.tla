------------------------- MODULE PeripheralsProofs -------------------------
(* Theorems about the peripheral mocks, for any number of files, keys,     *)
(* pins and bytes.  They share no state, so each has an invariant of its   *)
(* own, which its own steps keep.                                          *)
EXTENDS Peripherals, SerialPortProofs

(* A step of one is a step of that one, and the others rest.               *)
LEMMA OneMoves ==
  ASSUME [AllNext]_allVars
  PROVE  /\ [Files!Next]_(Files!spiffsVars)
         /\ [Flash!Next]_(Flash!prefVars)
         /\ [Gpio!Next]_(Gpio!gpioVars)
         /\ [Bus!Next]_(Bus!wireVars)
         /\ [Digest!Next]_(Digest!md5Vars)
         /\ [Number!Next]_(Number!printVars)
         /\ [Strings!Next]_(Strings!stringVars)
         /\ [Next]_serialVars
         /\ part' = part
<1> USE DEF Files!spiffsVars, Flash!prefVars, Gpio!gpioVars, Bus!wireVars,
            Digest!md5Vars, Number!printVars, Strings!stringVars
<1>1. CASE UNCHANGED allVars
  BY <1>1 DEF allVars
<1>2. CASE AllNext
  BY <1>2 DEF AllNext, OthersRest
<1> QED BY <1>1, <1>2
-----------------------------------------------------------------------------
(* Wire.cpp.                                                               *)
LEMMA NarrowingLessens ==
  ASSUME NEW n \in Nat
  PROVE  Bus!uint8(n) \in Nat /\ Bus!uint8(n) <= n
<1>1. 2 ^ CountWidth \in Nat \ {0}
  BY PeripheralsAssumption DEF PeripheralsAssumption
<1>2. ASSUME NEW d \in Nat \ {0} PROVE n % d \in Nat /\ n % d <= n
  OBVIOUS
<1> QED BY <1>1, <1>2 DEF Bus!uint8

LEMMA BusStep ==
  ASSUME Bus!TypeOK, Bus!PromisesKept, [AllNext]_allVars
  PROVE  Bus!TypeOK' /\ Bus!PromisesKept'
<1> USE DEF Bus!TypeOK, Bus!PromisesKept
<1>0. MaxQueued \in Nat
  BY PeripheralsAssumption DEF PeripheralsAssumption
<1>1. ASSUME NEW count \in 0 .. MaxQueued, Bus!requestFrom(count)
      PROVE  Bus!TypeOK' /\ Bus!PromisesKept'
  <2>1. PICK n \in Nat : n = Bus!uint8(count)
    BY <1>0, NarrowingLessens
  <2>2. PICK m \in Nat : m = Bus!uint8(_readQueue) /\ m <= _readQueue
    BY <1>0, NarrowingLessens
  <2>3. promised' \in {m, n} /\ promised' <= m
    BY <1>1, <2>1, <2>2 DEF Bus!requestFrom, Bus!Granted
  <2> QED BY <1>0, <1>1, <2>1, <2>2, <2>3 DEF Bus!requestFrom
<1>2. CASE Bus!read
  BY <1>0, <1>2 DEF Bus!read
<1>3. ASSUME NEW n \in 1 .. MaxQueued,
             \/ _written + n <= MaxQueued /\ Bus!write(n)
             \/ _readQueue + n <= MaxQueued /\ Bus!mockQueueRead(n)
      PROVE  Bus!TypeOK' /\ Bus!PromisesKept'
  BY <1>0, <1>3 DEF Bus!write, Bus!mockQueueRead
<1>4. CASE Bus!mockReset
  BY <1>0, <1>4 DEF Bus!mockReset
<1>5. CASE UNCHANGED Bus!wireVars
  BY <1>5 DEF Bus!wireVars
<1> QED BY <1>1, <1>2, <1>3, <1>4, <1>5, OneMoves DEF Bus!Next

LEMMA BusInit == Bus!Init => Bus!TypeOK /\ Bus!PromisesKept
BY PeripheralsAssumption DEF PeripheralsAssumption, Bus!Init, Bus!TypeOK, Bus!PromisesKept

(* requestFrom in src/Wire.cpp: however many bytes are queued and asked    *)
(* for, it never announces more than can be read, although it counts them  *)
(* in a uint8_t.                                                           *)
THEOREM RequestsAreServed == AllSpec => []PromisesKept
<1>1. AllInit => Bus!TypeOK /\ Bus!PromisesKept
  BY BusInit DEF AllInit
<1>2. Bus!PromisesKept => PromisesKept
  BY DEF PromisesKept
<1> QED BY <1>1, <1>2, BusStep, PTL DEF AllSpec
-----------------------------------------------------------------------------
(* Arduino.h: the pins and their routines.                                 *)
Stacks == Gpio!BoundedSeq(Pin, MaxDepth)

LEMMA StackType == Stacks = Short(Pin, MaxDepth)
BY ShortSequences, PeripheralsAssumption
   DEF PeripheralsAssumption, Stacks, Gpio!BoundedSeq, Gpio!SeqOf

(* A pin's level is one that it has had since its routine was called last. *)
Remembered ==
  /\ pin_state \in [Pin -> Level]
  /\ isr_table \in [Pin -> Gpio!Mode \cup {Off}]
  /\ running \in Short(Pin, MaxDepth)
  /\ stored \in [Pin -> SUBSET Level]
  /\ \A p \in Pin : pin_state[p] \in stored[p]

(* Writing a level without calling the routine adds to what is remembered. *)
LEMMA WriteRemembers ==
  ASSUME Remembered, NEW p \in Pin, NEW v \in Level, Gpio!digitalWrite(p, v)
  PROVE  Remembered'
BY DEF Remembered, Gpio!digitalWrite

(* Calling the routine starts afresh with the level that called it.        *)
LEMMA CallRemembers ==
  ASSUME Remembered, NEW p \in Pin, NEW v \in Level, Gpio!mockSetPinState(p, v)
  PROVE  Remembered'
<1>1. CASE Gpio!digitalWrite(p, v)
  BY <1>1, WriteRemembers
<1>2. CASE /\ pin_state' = [pin_state EXCEPT ![p] = v]
           /\ Len(running) < MaxDepth
           /\ running' = Append(running, p)
           /\ stored' = [stored EXCEPT ![p] = {v}]
           /\ UNCHANGED isr_table
  <2>1. running' \in Short(Pin, MaxDepth)
    BY <1>2, PeripheralsAssumption DEF Remembered, Short, PeripheralsAssumption
  <2> QED BY <1>2, <2>1 DEF Remembered
<1> QED BY <1>1, <1>2 DEF Gpio!mockSetPinState

LEMMA StepRemembers ==
  ASSUME Remembered, [Gpio!Next]_(Gpio!gpioVars)
  PROVE  Remembered'
<1>1. ASSUME NEW p \in Pin, NEW v \in Level, Gpio!digitalWrite(p, v) PROVE Remembered'
  BY <1>1, WriteRemembers
<1>2. ASSUME NEW p \in Pin, NEW v \in Level, Gpio!mockSetPinState(p, v) PROVE Remembered'
  BY <1>2, CallRemembers
<1>3. ASSUME NEW p \in Pin, NEW mode \in Gpio!Mode \cup {Off}, Gpio!attachInterrupt(p, mode)
      PROVE  Remembered'
  BY <1>3 DEF Gpio!attachInterrupt, Remembered
<1>4. CASE Gpio!RoutineReturns
  <2>1. running' \in Seq(Pin) /\ Len(running') <= Len(running)
    BY <1>4 DEF Gpio!RoutineReturns, Remembered, Short, Gpio!Front
  <2>2. running' \in Short(Pin, MaxDepth)
    BY <2>1, PeripheralsAssumption DEF Remembered, Short, PeripheralsAssumption
  <2>3. QED  BY <1>4, <2>2 DEF Gpio!RoutineReturns, Remembered
<1>5. CASE Gpio!mockResetGpio
  BY <1>5, PeripheralsAssumption
     DEF Gpio!mockResetGpio, Remembered, Gpio!LOW, PeripheralsAssumption
<1>6. CASE UNCHANGED Gpio!gpioVars
  BY <1>6 DEF Gpio!gpioVars, Remembered
<1> QED BY <1>1, <1>2, <1>3, <1>4, <1>5, <1>6 DEF Gpio!Next, Gpio!detachInterrupt

LEMMA InitRemembers == Gpio!Init => Remembered
<1> SUFFICES ASSUME Gpio!Init PROVE Remembered
  OBVIOUS
<1>1. running \in Short(Pin, MaxDepth)
  BY PeripheralsAssumption DEF PeripheralsAssumption, Gpio!Init, Short
<1> QED BY <1>1, PeripheralsAssumption
        DEF PeripheralsAssumption, Gpio!Init, Remembered, Gpio!LOW

LEMMA RememberedType == Remembered => Gpio!TypeOK
BY StackType DEF Remembered, Gpio!TypeOK, Stacks

(* Only a call of mockSetPinState makes the stack of routines longer.      *)
LEMMA Grows ==
  ASSUME Remembered, Gpio!Next, NEW p \in Pin, running' = Append(running, p)
  PROVE  \E v \in Level : Gpio!Fires(isr_table[p], pin_state[p], v) /\ pin_state'[p] = v
<1> DEFINE Goal ==
      \E v \in Level : Gpio!Fires(isr_table[p], pin_state[p], v) /\ pin_state'[p] = v
<1>1. /\ running \in Seq(Pin) /\ Len(running) \in Nat
      /\ Len(running') = Len(running) + 1 /\ running' # running
  BY DEF Remembered, Short
<1>2. ASSUME NEW q \in Pin, NEW v \in Level, Gpio!mockSetPinState(q, v) PROVE Goal
  <2>1. /\ Gpio!Fires(isr_table[q], pin_state[q], v)
        /\ pin_state' = [pin_state EXCEPT ![q] = v]
        /\ running' = Append(running, q)
    BY <1>1, <1>2 DEF Gpio!mockSetPinState, Gpio!digitalWrite
  <2>2. running'[Len(running) + 1] = p
    BY <1>1
  <2>3. running'[Len(running) + 1] = q
    BY <1>1, <2>1
  <2> QED BY <2>1, <2>2, <2>3 DEF Remembered
<1>3. ~Gpio!RoutineReturns
  <2>1. SUFFICES ASSUME Gpio!RoutineReturns PROVE FALSE
    OBVIOUS
  <2>2. Len(running') < Len(running)
    BY <1>1, <2>1 DEF Gpio!RoutineReturns, Gpio!Front
  <2>3. QED  BY <1>1, <2>2
<1>4. ~Gpio!mockResetGpio
  BY <1>1 DEF Gpio!mockResetGpio
<1>5. /\ \A q \in Pin, mode \in Gpio!Mode \cup {Off} : ~Gpio!attachInterrupt(q, mode)
      /\ \A q \in Pin, v \in Level : ~Gpio!digitalWrite(q, v)
  BY <1>1 DEF Gpio!attachInterrupt, Gpio!digitalWrite
<1> QED BY <1>2, <1>3, <1>4, <1>5 DEF Gpio!Next, Gpio!detachInterrupt

(* mockSetPinState in src/Arduino.h: a routine is called for an edge only  *)
(* when the pin has been at the other level since its last call, whatever  *)
(* routines that run inside of one another write in between.               *)
THEOREM EdgesAreToldOnce == AllSpec => EdgesAlternate
<1>1. AllInit => Remembered
  BY InitRemembers DEF AllInit
<1>2. Remembered /\ [AllNext]_allVars => Remembered'
  BY OneMoves, StepRemembers
<1>3. ASSUME Remembered, Gpio!Next, NEW p \in Pin, running' = Append(running, p)
      PROVE  CASE isr_table[p] = "RISING"  -> Gpio!LOW \in stored[p]
               [] isr_table[p] = "FALLING" -> Gpio!HIGH \in stored[p]
               [] isr_table[p] = "CHANGE"  -> stored[p] # {pin_state'[p]}
               [] OTHER                    -> TRUE
  <2>1. PICK v \in Level : Gpio!Fires(isr_table[p], pin_state[p], v) /\ pin_state'[p] = v
    BY <1>3, Grows
  <2>2. pin_state[p] \in stored[p]
    BY <1>3 DEF Remembered
  <2>3. QED  BY <2>1, <2>2 DEF Gpio!Fires
<1>4. Remembered /\ [AllNext]_allVars =>
        [\A p \in Pin : running' = Append(running, p) =>
           CASE isr_table[p] = "RISING"  -> Gpio!LOW \in stored[p]
             [] isr_table[p] = "FALLING" -> Gpio!HIGH \in stored[p]
             [] isr_table[p] = "CHANGE"  -> stored[p] # {pin_state'[p]}
             [] OTHER                    -> TRUE]_(Gpio!gpioVars)
  BY <1>3, OneMoves
<1> QED BY <1>1, <1>2, <1>4, PTL DEF AllSpec, EdgesAlternate, Gpio!EdgesAlternate
-----------------------------------------------------------------------------
(* MD5Builder.h.                                                           *)
LEMMA MessageType == Digest!Message = Short(DigestByte, MaxMessage)
BY ShortSequences, PeripheralsAssumption
   DEF PeripheralsAssumption, Digest!Message, Digest!BoundedSeq, Digest!SeqOf

(* Until the digest is asked for, the context has been fed the message;    *)
(* then digest is that of the message, and the context is used up.  What   *)
(* digest is before, possibly that of an earlier message, nobody is shown. *)
Absorbs ==
  /\ message \in Short(DigestByte, MaxMessage)
  /\ digest \in Short(DigestByte, MaxMessage) \cup {NoDigest}
  /\ asked \in BOOLEAN /\ finalized = asked
  /\ shown \subseteq {message}
  /\ ~asked => ctx = message /\ shown = {}
  /\ asked => ctx = Append(message, Padding) /\ digest = message

LEMMA InitAbsorbs == Digest!Init => Absorbs
<1> SUFFICES ASSUME Digest!Init PROVE Absorbs
  OBVIOUS
<1>1. message \in Short(DigestByte, MaxMessage)
  BY PeripheralsAssumption DEF Digest!Init, Short, PeripheralsAssumption
<1> QED BY <1>1 DEF Digest!Init, Absorbs

(* calculate, and toString before it shows anything: whoever asks first    *)
(* has the digest computed, whoever asks again finds it as it was.         *)
LEMMA AsksOnce ==
  ASSUME Absorbs, UNCHANGED message, asked' = TRUE,
         Digest!Finalize \/ (finalized /\ UNCHANGED <<ctx, digest, finalized>>)
  PROVE  /\ digest' = message' /\ ctx' = Append(message', Padding)
         /\ finalized' = TRUE
BY DEF Absorbs, Digest!Finalize, Digest!MD5_Final

LEMMA AbsorbsStep ==
  ASSUME Absorbs, [Digest!Next]_(Digest!md5Vars)
  PROVE  Absorbs'
<1>1. ASSUME NEW data \in Digest!Message, Len(message) + Len(data) <= MaxMessage, Digest!add(data)
      PROVE  Absorbs'
  <2>1. message \in Seq(DigestByte) /\ data \in Seq(DigestByte)
    BY MessageType DEF Absorbs, Short
  <2>2. CASE asked
    BY <1>1, <2>2 DEF Digest!add, Absorbs
  <2>3. CASE ~asked
    <3>1. message' = message \o data
      BY <1>1, <2>3 DEF Digest!add
    <3>2. ctx' = message \o data
      <4>1. CASE data # <<>>
        BY <1>1, <2>3, <4>1 DEF Digest!add, Digest!MD5_Update, Absorbs
      <4>2. CASE data = <<>>
        <5>1. message \o <<>> = message
          BY <2>1
        <5> QED BY <1>1, <2>3, <4>2, <5>1 DEF Digest!add, Absorbs
      <4> QED BY <4>1, <4>2
    <3>3. message \o data \in Short(DigestByte, MaxMessage)
      <4>1. /\ message \o data \in Seq(DigestByte)
            /\ Len(message \o data) = Len(message) + Len(data)
        BY <2>1, ConcatProperties
      <4> QED BY <1>1, <4>1 DEF Short
    <3> QED BY <1>1, <2>3, <3>1, <3>2, <3>3 DEF Digest!add, Absorbs
  <2> QED BY <2>2, <2>3 DEF Absorbs
<1>2. CASE Digest!begin
  <2>1. message' \in Short(DigestByte, MaxMessage)
    BY <1>2, PeripheralsAssumption DEF Digest!begin, Short, PeripheralsAssumption
  <2> QED BY <1>2, <2>1 DEF Digest!begin, Digest!MD5_Init, Absorbs
<1>3. CASE Digest!calculate
  <2>1. digest' = message' /\ ctx' = Append(message', Padding) /\ finalized' = TRUE
    BY <1>3, AsksOnce DEF Digest!calculate
  <2> QED BY <1>3, <2>1 DEF Digest!calculate, Absorbs
<1>4. CASE Digest!toString
  <2>1. digest' = message' /\ ctx' = Append(message', Padding) /\ finalized' = TRUE
    BY <1>4, AsksOnce DEF Digest!toString
  <2> QED BY <1>4, <2>1 DEF Digest!toString, Absorbs
<1>5. CASE UNCHANGED Digest!md5Vars
  BY <1>5 DEF Digest!md5Vars, Absorbs
<1> QED BY <1>1, <1>2, <1>3, <1>4, <1>5 DEF Digest!Next, Digest!Message

LEMMA AbsorbsType == Absorbs => Digest!TypeOK
<1> SUFFICES ASSUME Absorbs PROVE Digest!TypeOK
  OBVIOUS
<1>1. \A m \in Short(DigestByte, MaxMessage) :
        m \in Digest!Fed /\ Append(m, Padding) \in Digest!Fed
  BY DEF Short, Digest!Fed
<1>2. ctx \in Digest!Fed /\ digest \in Digest!Fed \cup {NoDigest}
  BY <1>1 DEF Absorbs
<1>3. \A hex \in shown : hex \in Digest!Fed
  BY <1>1 DEF Absorbs
<1>4. message \in Digest!Message /\ finalized \in BOOLEAN /\ asked \in BOOLEAN
  BY MessageType DEF Absorbs
<1> QED BY <1>2, <1>3, <1>4 DEF Digest!TypeOK

(* MD5Builder.h with a native MD5: from one begin to the next toString     *)
(* shows one digest, that of the bytes added before calculate or toString  *)
(* was called first, although it is kept and shown from a member that      *)
(* begin does not reset, and computing it uses the context up.             *)
THEOREM DigestsAreOfMessages == AllSpec => []DigestIsOfMessage
<1>1. AllInit => Absorbs
  BY InitAbsorbs DEF AllInit
<1>2. Absorbs /\ [AllNext]_allVars => Absorbs'
  BY OneMoves, AbsorbsStep
<1>3. Absorbs => DigestIsOfMessage
  BY DEF Absorbs, DigestIsOfMessage, Digest!DigestIsOfMessage
<1> QED BY <1>1, <1>2, <1>3, PTL DEF AllSpec
-----------------------------------------------------------------------------
(* SPIFFS.cpp, SPIFFS.h.                                                   *)
Contents == Short(FileByte, MaxFile)

LEMMA ContentType == Files!Content = Contents
BY ShortSequences, PeripheralsAssumption
   DEF PeripheralsAssumption, Contents, Files!Content, Files!BoundedSeq, Files!SeqOf

LEMMA NoFileIsNone == NoFile \notin Path /\ NoFile \notin Contents
BY PeripheralsAssumption DEF PeripheralsAssumption, Contents, Short

FileObject == [ptr : {"null", "live", "dangling"}, path : Path \cup {NoFile}, pos : 0 .. MaxFile]

(* A File f that points at an entry of fs finds it there; and one that has *)
(* read g since it was opened has read the first bytes of that entry.      *)
Sound(fs, f, g) ==
  /\ f.ptr = "live" => f.path \in Path /\ fs[f.path] \in Contents
  /\ g # NoFile => /\ f.ptr = "live"
                   /\ f.pos <= Len(fs[f.path])
                   /\ g = SubSeq(fs[f.path], 1, f.pos)

FilesSound ==
  /\ files \in [Path -> Contents \cup {NoFile}]
  /\ file \in [Handle -> FileObject]
  /\ _mounted \in BOOLEAN /\ _canMount \in BOOLEAN
  /\ got \in [Handle -> Contents \cup {NoFile}]
  /\ \A h \in Handle : Sound(files, file[h], got[h])

LEMMA FilesInit == Files!Init => FilesSound
<1> SUFFICES ASSUME Files!Init PROVE FilesSound
  OBVIOUS
<1>1. Files!Null \in FileObject /\ Files!Null.ptr = "null"
  BY PeripheralsAssumption DEF PeripheralsAssumption, Files!Null, FileObject
<1>2. /\ file = [h \in Handle |-> Files!Null] /\ got = [h \in Handle |-> NoFile]
      /\ files = [p \in Path |-> NoFile] /\ _mounted = FALSE /\ _canMount = TRUE
  BY DEF Files!Init
<1>3. \A h \in Handle : Sound(files, file[h], got[h])
  BY <1>1, <1>2 DEF Sound
<1> QED BY <1>1, <1>2, <1>3 DEF FilesSound

(* A File that is not worked with stays sound when its entry grows, when   *)
(* the entry of another path changes, and when it has forgotten what it    *)
(* read.                                                                   *)
LEMMA StaysSound ==
  ASSUME NEW fs, NEW gs, NEW f, NEW g, NEW k, Sound(fs, f, g), k \in {g, NoFile},
         f.pos \in Nat,
         f.ptr = "live" => gs[f.path] \in Contents,
         f.ptr = "live" /\ k # NoFile =>
           \/ gs[f.path] = fs[f.path]
           \/ \E data \in Seq(FileByte) : gs[f.path] = fs[f.path] \o data
  PROVE  Sound(gs, f, k)
<1>1. SUFFICES ASSUME k # NoFile
               PROVE  /\ f.ptr = "live" /\ f.pos <= Len(gs[f.path])
                      /\ k = SubSeq(gs[f.path], 1, f.pos)
  BY DEF Sound
<1>2. /\ k = g /\ f.ptr = "live" /\ f.path \in Path /\ f.pos <= Len(fs[f.path])
      /\ g = SubSeq(fs[f.path], 1, f.pos)
  BY <1>1 DEF Sound
<1>3. PICK s \in Seq(FileByte) : s = fs[f.path]
  BY <1>2 DEF Sound, Contents, Short
<1>4. CASE gs[f.path] = fs[f.path]
  BY <1>2, <1>4
<1>5. ASSUME NEW data \in Seq(FileByte), gs[f.path] = fs[f.path] \o data
      PROVE  f.pos <= Len(gs[f.path]) /\ k = SubSeq(gs[f.path], 1, f.pos)
  <2>1. f.pos \in 0 .. Len(s) /\ gs[f.path] = s \o data
    BY <1>2, <1>3, <1>5
  <2>2. SubSeq(s \o data, 1, f.pos) = SubSeq(s, 1, f.pos)
    BY <2>1, CutOfLonger
  <2>3. Len(s \o data) = Len(s) + Len(data) /\ Len(s) \in Nat /\ Len(data) \in Nat
    OBVIOUS
  <2>4. f.pos <= Len(s \o data)
    BY <2>1, <2>3
  <2> QED BY <1>2, <1>3, <2>1, <2>2, <2>4
<1> QED BY <1>1, <1>2, <1>4, <1>5

(* An entry that was there, or is written to, is a text.                   *)
LEMMA OpenSound ==
  ASSUME FilesSound, NEW h \in Handle, NEW p \in Path, NEW kept \in [Handle -> Contents \cup {NoFile}],
         Files!OpenOn(h, p, kept),
         files' \in [Path -> Contents \cup {NoFile}], files'[p] \in Contents,
         \A q \in Path : q # p => files'[q] = files[q],
         \A i \in Handle : kept[i] \in {got[i], NoFile},
         \A i \in Handle : file[i].path = p /\ kept[i] # NoFile => files'[p] = files[p],
         UNCHANGED <<_mounted, _canMount>>
  PROVE  FilesSound'
<1> USE DEF FilesSound
<1> DEFINE f == [ptr |-> "live", path |-> p, pos |-> 0]
<1>1. /\ file' = [file EXCEPT ![h] = f] /\ got' = [kept EXCEPT ![h] = <<>>]
      /\ f \in FileObject /\ <<>> \in Contents
  BY PeripheralsAssumption
     DEF PeripheralsAssumption, Files!OpenOn, FileObject, Contents, Short
<1>2. file' \in [Handle -> FileObject] /\ got' \in [Handle -> Contents \cup {NoFile}]
  BY <1>1
<1>3. ASSUME NEW i \in Handle PROVE Sound(files', file'[i], got'[i])
  <2>1. CASE i = h
    <3>1. file'[i] = f /\ got'[i] = <<>> /\ f.ptr = "live" /\ f.path = p /\ f.pos = 0
      BY <1>1, <2>1
    <3>2. PICK s \in Seq(FileByte) : s = files'[p] /\ Len(s) \in Nat
      BY DEF Contents, Short
    <3>3. SubSeq(s, 1, 0) = <<>> /\ 0 <= Len(s)
      BY <3>2
    <3> QED BY <3>1, <3>2, <3>3 DEF Sound
  <2>2. CASE i # h
    <3>1. /\ file'[i] = file[i] /\ got'[i] = kept[i]
          /\ file[i].pos \in Nat /\ Sound(files, file[i], got[i])
      BY <1>1, <2>2 DEF FileObject
    <3>2. file[i].ptr = "live" => file[i].path \in Path /\ files'[file[i].path] \in Contents
      BY <3>1 DEF Sound
    <3> QED BY <3>1, <3>2, StaysSound
  <2> QED BY <2>1, <2>2
<1> QED BY <1>2, <1>3

(* Touched and Erased: the Files on the paths that are changed.            *)
LEMMA TouchedKeeps ==
  ASSUME FilesSound, NEW P
  PROVE  /\ Files!Touched(P) \in [Handle -> Contents \cup {NoFile}]
         /\ \A i \in Handle : /\ Files!Touched(P)[i] \in {got[i], NoFile}
                              /\ file[i].path \in P => Files!Touched(P)[i] = NoFile
BY DEF FilesSound, Files!Touched

LEMMA CloseSound ==
  ASSUME FilesSound, NEW h \in Handle, Files!close(h), UNCHANGED <<_mounted, _canMount>>
  PROVE  FilesSound'
<1>1. Files!Null \in FileObject /\ Files!Null.ptr = "null"
  BY PeripheralsAssumption DEF PeripheralsAssumption, Files!Null, FileObject
<1>2. /\ file' = [file EXCEPT ![h] = Files!Null] /\ got' = [got EXCEPT ![h] = NoFile]
      /\ files' = files
  BY DEF Files!close
<1>3. \A i \in Handle : Sound(files', file'[i], got'[i])
  BY <1>1, <1>2 DEF FilesSound, Sound
<1> QED BY <1>1, <1>2, <1>3 DEF FilesSound

LEMMA OpensSound ==
  ASSUME FilesSound, NEW h \in Handle, NEW p \in Path, Files!open(h, p),
         UNCHANGED <<_mounted, _canMount>>
  PROVE  FilesSound'
<1> USE DEF FilesSound
<1>1. <<>> \in Contents
  BY PeripheralsAssumption DEF PeripheralsAssumption, Contents, Short
<1>2. CASE Files!openWrite(h, p)
  <2>1. files' = [files EXCEPT ![p] = <<>>] /\ Files!OpenOn(h, p, Files!Touched({p}))
    BY <1>2 DEF Files!openWrite
  <2>2. /\ files' \in [Path -> Contents \cup {NoFile}] /\ files'[p] \in Contents
        /\ \A q \in Path : q # p => files'[q] = files[q]
    BY <1>1, <2>1
  <2>3. PICK kept \in [Handle -> Contents \cup {NoFile}] :
          /\ kept = Files!Touched({p})
          /\ \A i \in Handle : /\ kept[i] \in {got[i], NoFile}
                               /\ file[i].path = p => kept[i] = NoFile
    BY TouchedKeeps
  <2>4. /\ Files!OpenOn(h, p, kept)
        /\ \A i \in Handle : kept[i] \in {got[i], NoFile}
        /\ \A i \in Handle : file[i].path = p /\ kept[i] # NoFile => files'[p] = files[p]
    BY <2>1, <2>3
  <2> QED BY <2>2, <2>4, OpenSound
<1>3. CASE Files!openAppend(h, p)
  <2>1. /\ files' = [files EXCEPT ![p] = IF Files!exists(p) THEN @ ELSE <<>>]
        /\ Files!OpenOn(h, p, got)
    BY <1>3 DEF Files!openAppend
  <2>2. /\ files' \in [Path -> Contents \cup {NoFile}] /\ files'[p] \in Contents
        /\ \A q \in Path : q # p => files'[q] = files[q]
        /\ files[p] # NoFile => files'[p] = files[p]
    BY <1>1, <2>1 DEF Files!exists
  <2>3. \A i \in Handle : file[i].path = p /\ got[i] # NoFile => files'[p] = files[p]
    BY <2>2, NoFileIsNone DEF Sound
  <2> QED BY <2>1, <2>2, <2>3, OpenSound
<1>4. CASE Files!openRead(h, p)
  <2>1. CASE Files!exists(p)
    <3>1. files' = files /\ Files!OpenOn(h, p, got) /\ files[p] \in Contents
      BY <1>4, <2>1 DEF Files!openRead, Files!exists
    <3> QED BY <3>1, OpenSound
  <2>2. CASE ~Files!exists(p)
    BY <1>4, <2>2, CloseSound DEF Files!openRead
  <2> QED BY <2>1, <2>2
<1> QED BY <1>2, <1>3, <1>4 DEF Files!open

(* write appends, whoever reads the file; the guard of Next keeps it from  *)
(* growing beyond MaxFile.                                                 *)
LEMMA WriteSound ==
  ASSUME FilesSound, NEW h \in Handle, NEW data \in Seq(FileByte), Files!write(h, data),
         \A p \in Path : files'[p] \in Files!Content \cup {NoFile},
         UNCHANGED <<_mounted, _canMount>>
  PROVE  FilesSound'
<1> USE DEF FilesSound
<1>1. PICK p \in Path : p = file[h].path /\ files[p] \in Contents
  BY DEF Files!write, Files!Usable, Sound
<1>2. files' = [files EXCEPT ![p] = files[p] \o data] /\ file' = file /\ got' = got
  BY <1>1 DEF Files!write
<1>3. files' \in [Path -> Contents \cup {NoFile}]
  BY <1>2, ContentType
<1>4. files'[p] \in Contents
  <2>1. files[p] \in Seq(FileByte)
    BY <1>1 DEF Contents, Short
  <2>2. files'[p] \in Seq(FileByte)
    BY <1>2, <2>1, ConcatProperties
  <2> QED BY <1>3, <2>2, PeripheralsAssumption DEF PeripheralsAssumption
<1>5. ASSUME NEW i \in Handle PROVE Sound(files', file'[i], got'[i])
  <2>1. file[i].pos \in Nat /\ Sound(files, file[i], got[i])
    BY DEF FileObject
  <2>2. file[i].ptr = "live" => file[i].path \in Path /\ files'[file[i].path] \in Contents
    BY <1>2, <1>4, <2>1 DEF Sound
  <2>3. file[i].ptr = "live" => \/ files'[file[i].path] = files[file[i].path]
                                \/ files'[file[i].path] = files[file[i].path] \o data
    BY <1>2, <2>1 DEF Sound
  <2>4. Sound(files', file[i], got[i])
    BY <2>1, <2>2, <2>3, StaysSound
  <2> QED BY <1>2, <2>4
<1> QED BY <1>2, <1>3, <1>5

(* The next n bytes are appended to what was read.                         *)
LEMMA AdvanceSound ==
  ASSUME FilesSound, NEW h \in Handle, Files!Usable(h),
         NEW n \in Nat, file[h].pos + n <= Len(files[file[h].path]), Files!Advance(h, n),
         UNCHANGED <<_mounted, _canMount>>
  PROVE  FilesSound'
<1> USE DEF FilesSound
<1>1. PICK s \in Seq(FileByte) : s = files[file[h].path] /\ Len(s) <= MaxFile /\ s \in Contents
  BY DEF Files!Usable, Sound, Contents, Short
<1>2. PICK m \in 0 .. MaxFile : m = file[h].pos
  BY DEF FileObject
<1>3. /\ Len(s) \in Nat /\ MaxFile \in Nat /\ m \in Nat
      /\ m + n \in 0 .. MaxFile /\ m + n <= Len(s)
  <2>1. MaxFile \in Nat
    BY PeripheralsAssumption DEF PeripheralsAssumption
  <2>2. m + n <= Len(s)
    BY <1>1, <1>2
  <2> QED BY <1>1, <2>1, <2>2
<1>4. /\ files' = files
      /\ file' = [file EXCEPT ![h].pos = m + n]
      /\ got' = [got EXCEPT ![h] = IF got[h] = NoFile THEN NoFile
                                   ELSE got[h] \o SubSeq(s, m + 1, m + n)]
  BY <1>1, <1>2 DEF Files!Advance, Files!contents
<1>5. got[h] # NoFile => got[h] \o SubSeq(s, m + 1, m + n) = SubSeq(s, 1, m + n)
  <2>1. got[h] # NoFile => got[h] = SubSeq(s, 1, m)
    BY <1>1, <1>2 DEF Sound
  <2>2. SubSeq(s, 1, m) \o SubSeq(s, m + 1, m + n) = SubSeq(s, 1, m + n)
    BY <1>3, CutsMeet
  <2> QED BY <2>1, <2>2
<1>6. SubSeq(s, 1, m + n) \in Contents
  <2>1. m + n \in 0 .. Len(s)
    BY <1>3
  <2>2. SubSeq(s, 1, m + n) \in Seq(FileByte) /\ Len(SubSeq(s, 1, m + n)) = m + n
    BY <2>1, PrefixType
  <2> QED BY <1>3, <2>2 DEF Contents, Short
<1>7. file' \in [Handle -> FileObject] /\ got' \in [Handle -> Contents \cup {NoFile}]
  <2>1. file' \in [Handle -> FileObject]
    BY <1>3, <1>4 DEF FileObject
  <2> QED BY <2>1, <1>4, <1>5, <1>6
<1>8. ASSUME NEW i \in Handle PROVE Sound(files', file'[i], got'[i])
  <2>1. CASE i = h
    <3>1. /\ file'[i].ptr = "live" /\ file'[i].path = file[h].path /\ file'[i].pos = m + n
          /\ file[h].path \in Path
      BY <1>4, <2>1 DEF Files!Usable, Sound, FileObject
    <3>2. got'[i] # NoFile => got'[i] = SubSeq(s, 1, m + n)
      BY <1>4, <1>5, <2>1
    <3> QED BY <1>1, <1>3, <1>4, <3>1, <3>2 DEF Sound
  <2>2. CASE i # h
    BY <1>4, <2>2
  <2> QED BY <2>1, <2>2
<1> QED BY <1>4, <1>7, <1>8

LEMMA ReadSound ==
  ASSUME FilesSound, NEW h \in Handle, NEW n \in 1 .. MaxFile, Files!read(h, n),
         UNCHANGED <<_mounted, _canMount>>
  PROVE  FilesSound'
<1>1. PICK s \in Seq(FileByte), m \in Nat : s = files[file[h].path] /\ m = file[h].pos
  BY DEF FilesSound, Files!read, Files!Usable, Sound, Contents, Short, FileObject
<1>2. PICK k : k = Files!available(h) /\ k > 0 /\ Files!Usable(h)
               /\ Files!Advance(h, IF n < k THEN n ELSE k)
  BY DEF Files!read
<1>3. k = IF m >= Len(s) THEN 0 ELSE Len(s) - m
  BY <1>1, <1>2 DEF Files!available, Files!size, Files!contents
<1>4. /\ (IF n < k THEN n ELSE k) \in Nat
      /\ m + (IF n < k THEN n ELSE k) <= Len(s)
  <2>1. n \in Nat /\ Len(s) \in Nat
    BY PeripheralsAssumption DEF PeripheralsAssumption
  <2>2. k = Len(s) - m /\ m < Len(s)
    BY <1>2, <1>3, <2>1
  <2> QED BY <2>1, <2>2
<1> QED BY <1>1, <1>2, <1>4, AdvanceSound

LEMMA ReadUntilSound ==
  ASSUME FilesSound, NEW h \in Handle, NEW c \in FileByte, Files!readStringUntil(h, c),
         UNCHANGED <<_mounted, _canMount>>
  PROVE  FilesSound'
<1>1. Files!Usable(h) /\ Files!available(h) > 0
  BY DEF Files!readStringUntil
<1>2. PICK s \in Seq(FileByte), m \in Nat : s = files[file[h].path] /\ m = file[h].pos
  BY <1>1 DEF FilesSound, Files!Usable, Sound, Contents, Short, FileObject
<1>3. m < Len(s) /\ Len(s) \in Nat /\ Files!size(h) = Len(s)
  BY <1>1, <1>2 DEF Files!available, Files!size, Files!contents
<1>4. PICK rest \in Seq(FileByte) : rest = SubSeq(s, m + 1, Len(s)) /\ Len(rest) = Len(s) - m
  <2>1. m \in 0 .. Len(s)
    BY <1>3
  <2> QED BY <2>1, RestType
<1>5. PICK hit \in 0 .. Len(rest) : hit = Files!SelectInSeq(rest, LAMBDA x : x = c)
  <2>1. Files!SelectInSeq(rest, LAMBDA x : x = c) = FirstPlace(rest, c)
    BY Zenon DEF Files!SelectInSeq, Files!Min, FirstPlace, FirstOf, Places
  <2>2. FirstPlace(rest, c) \in 0 .. Len(rest)
    BY FirstPlaceType, Zenon
  <2> QED BY <2>1, <2>2, Zenon
<1>6. Files!Advance(h, IF hit = 0 THEN Len(rest) ELSE hit)
  BY <1>2, <1>3, <1>4, <1>5 DEF Files!readStringUntil, Files!contents
<1>7. /\ (IF hit = 0 THEN Len(rest) ELSE hit) \in Nat
      /\ m + (IF hit = 0 THEN Len(rest) ELSE hit) <= Len(s)
  BY <1>3, <1>4
<1> QED BY <1>1, <1>2, <1>6, <1>7, AdvanceSound

(* The entries of the paths P change, under the Files that use them, and   *)
(* no File keeps pointing at one that is gone.                             *)
LEMMA ChangeSound ==
  ASSUME FilesSound, NEW P, files' \in [Path -> Contents \cup {NoFile}],
         \A q \in Path \ P : files'[q] = files[q],
         got' = Files!Touched(P), file' \in [Handle -> FileObject],
         \A i \in Handle :
           \/ file'[i] = file[i] /\ (file[i].ptr = "live" => files'[file[i].path] \in Contents)
           \/ file'[i] = [file[i] EXCEPT !.ptr = "dangling"] /\ file[i].path \in P,
         _mounted' \in BOOLEAN, _canMount' \in BOOLEAN
  PROVE  FilesSound'
<1> USE DEF FilesSound
<1>1. /\ got' \in [Handle -> Contents \cup {NoFile}]
      /\ \A i \in Handle : /\ got'[i] \in {got[i], NoFile}
                           /\ file[i].path \in P => got'[i] = NoFile
  BY TouchedKeeps
<1>2. ASSUME NEW i \in Handle PROVE Sound(files', file'[i], got'[i])
  <2>1. CASE file'[i] = file[i] /\ (file[i].ptr = "live" => files'[file[i].path] \in Contents)
    <3>1. /\ got'[i] \in {got[i], NoFile} /\ Sound(files, file[i], got[i])
          /\ file[i].pos \in Nat
      BY <1>1 DEF FileObject
    <3>2. file[i].ptr = "live" /\ got'[i] # NoFile => files'[file[i].path] = files[file[i].path]
      BY <1>1, <3>1 DEF Sound
    <3>3. Sound(files', file[i], got'[i])
      BY <2>1, <3>1, <3>2, StaysSound
    <3> QED BY <2>1, <3>3
  <2>2. CASE file'[i] = [file[i] EXCEPT !.ptr = "dangling"] /\ file[i].path \in P
    <3>1. file'[i].ptr = "dangling" /\ got'[i] = NoFile
      BY <1>1, <2>2 DEF FileObject
    <3> QED BY <3>1 DEF Sound
  <2> QED BY <2>1, <2>2
<1> QED BY <1>1, <1>2

LEMMA EraseSound ==
  ASSUME FilesSound, NEW P, Files!Erased(P)
  PROVE  /\ file' \in [Handle -> FileObject]
         /\ \A i \in Handle :
              \/ file'[i] = file[i] /\ (file[i].ptr = "live" => file[i].path \in Path \ P
                                                              /\ files[file[i].path] \in Contents)
              \/ file'[i] = [file[i] EXCEPT !.ptr = "dangling"] /\ file[i].path \in P
<1> USE DEF FilesSound
<1>1. file' = [h \in Handle |-> IF file[h].path \in P /\ file[h].ptr = "live"
                                THEN [file[h] EXCEPT !.ptr = "dangling"] ELSE file[h]]
  BY DEF Files!Erased, Files!Usable
<1>2. file' \in [Handle -> FileObject]
  BY <1>1 DEF FileObject
<1>3. ASSUME NEW i \in Handle
      PROVE  \/ file'[i] = file[i] /\ (file[i].ptr = "live" => file[i].path \in Path \ P
                                                              /\ files[file[i].path] \in Contents)
             \/ file'[i] = [file[i] EXCEPT !.ptr = "dangling"] /\ file[i].path \in P
  <2>1. Sound(files, file[i], got[i])
    OBVIOUS
  <2> QED BY <1>1, <2>1 DEF Sound
<1> QED BY <1>2, <1>3

LEMMA RemoveSound ==
  ASSUME FilesSound, NEW p \in Path, Files!remove(p), UNCHANGED <<_mounted, _canMount>>
  PROVE  FilesSound'
<1>1. /\ files' = [files EXCEPT ![p] = NoFile] /\ Files!Erased({p}) /\ got' = Files!Touched({p})
  BY DEF Files!remove
<1>2. /\ files' \in [Path -> Contents \cup {NoFile}]
      /\ \A q \in Path \ {p} : files'[q] = files[q]
      /\ _mounted' \in BOOLEAN /\ _canMount' \in BOOLEAN
  BY <1>1 DEF FilesSound
<1>3. /\ file' \in [Handle -> FileObject]
      /\ \A i \in Handle :
           \/ file'[i] = file[i] /\ (file[i].ptr = "live" => files'[file[i].path] \in Contents)
           \/ file'[i] = [file[i] EXCEPT !.ptr = "dangling"] /\ file[i].path \in {p}
  BY <1>1, <1>2, EraseSound
<1> QED BY <1>1, <1>2, <1>3, ChangeSound

LEMMA RenameSound ==
  ASSUME FilesSound, NEW from \in Path, NEW to \in Path, Files!rename(from, to),
         UNCHANGED <<_mounted, _canMount>>
  PROVE  FilesSound'
<1>1. /\ files' = [[files EXCEPT ![to] = files[from]] EXCEPT ![from] = NoFile]
      /\ Files!Erased({from}) /\ got' = Files!Touched({from, to}) /\ files[from] # NoFile
  BY DEF Files!rename, Files!exists
<1>2. /\ files' \in [Path -> Contents \cup {NoFile}]
      /\ \A q \in Path \ {from, to} : files'[q] = files[q]
      /\ \A q \in Path \ {from} : files[q] \in Contents => files'[q] \in Contents
      /\ _mounted' \in BOOLEAN /\ _canMount' \in BOOLEAN
  BY <1>1 DEF FilesSound
<1>3. /\ file' \in [Handle -> FileObject]
      /\ \A i \in Handle :
           \/ file'[i] = file[i] /\ (file[i].ptr = "live" => files'[file[i].path] \in Contents)
           \/ file'[i] = [file[i] EXCEPT !.ptr = "dangling"] /\ file[i].path \in {from, to}
  BY <1>1, <1>2, EraseSound
<1> QED BY <1>1, <1>2, <1>3, ChangeSound

LEMMA AddSound ==
  ASSUME FilesSound, NEW p \in Path, NEW content \in Contents, Files!addFile(p, content),
         UNCHANGED <<_mounted, _canMount>>
  PROVE  FilesSound'
<1>1. files' = [files EXCEPT ![p] = content] /\ got' = Files!Touched({p}) /\ file' = file
  BY DEF Files!addFile
<1>2. /\ files' \in [Path -> Contents \cup {NoFile}] /\ file' \in [Handle -> FileObject]
      /\ \A q \in Path \ {p} : files'[q] = files[q]
      /\ \A q \in Path : files[q] \in Contents => files'[q] \in Contents
      /\ _mounted' \in BOOLEAN /\ _canMount' \in BOOLEAN
  BY <1>1 DEF FilesSound
<1>3. \A i \in Handle :
        file'[i] = file[i] /\ (file[i].ptr = "live" => files'[file[i].path] \in Contents)
  BY <1>1, <1>2 DEF FilesSound, Sound
<1> QED BY <1>1, <1>2, <1>3, ChangeSound

LEMMA ClearSound ==
  ASSUME FilesSound, Files!clear, _mounted' \in BOOLEAN, _canMount' \in BOOLEAN
  PROVE  FilesSound'
<1>1. /\ files' = [p \in Path |-> NoFile] /\ Files!Erased(Path) /\ got' = Files!Touched(Path)
  BY DEF Files!clear
<1>2. /\ files' \in [Path -> Contents \cup {NoFile}]
      /\ \A q \in Path \ Path : files'[q] = files[q]
  BY <1>1
<1>3. /\ file' \in [Handle -> FileObject]
      /\ \A i \in Handle :
           \/ file'[i] = file[i] /\ (file[i].ptr = "live" => files'[file[i].path] \in Contents)
           \/ file'[i] = [file[i] EXCEPT !.ptr = "dangling"] /\ file[i].path \in Path
  BY <1>1, EraseSound
<1> QED BY <1>1, <1>2, <1>3, ChangeSound

LEMMA FilesStep ==
  ASSUME FilesSound, [Files!Next]_(Files!spiffsVars)
  PROVE  FilesSound'
<1>1. CASE /\ Files!Use /\ UNCHANGED <<_mounted, _canMount>>
           /\ \A p \in Path : files'[p] \in Files!Content \cup {NoFile}
  <2>1. ASSUME NEW h \in Handle, NEW p \in Path, Files!open(h, p) PROVE FilesSound'
    BY <1>1, <2>1, OpensSound
  <2>2. ASSUME NEW h \in Handle, NEW c \in FileByte, Files!write(h, <<c>>) PROVE FilesSound'
    <3>1. <<c>> \in Seq(FileByte)
      OBVIOUS
    <3> QED BY <1>1, <2>2, <3>1, WriteSound
  <2>3. ASSUME NEW h \in Handle, NEW c \in FileByte, Files!println(h, <<c>>) PROVE FilesSound'
    <3>1. <<c>> \o <<Newline>> \in Seq(FileByte)
      BY PeripheralsAssumption DEF PeripheralsAssumption
    <3> QED BY <1>1, <2>3, <3>1, WriteSound DEF Files!println
  <2>4. ASSUME NEW h \in Handle, NEW n \in 1 .. MaxFile, Files!read(h, n) PROVE FilesSound'
    BY <1>1, <2>4, ReadSound
  <2>5. ASSUME NEW h \in Handle, NEW c \in FileByte, Files!readStringUntil(h, c)
        PROVE  FilesSound'
    BY <1>1, <2>5, ReadUntilSound
  <2>6. ASSUME NEW h \in Handle, Files!close(h) PROVE FilesSound'
    BY <1>1, <2>6, CloseSound
  <2>7. ASSUME NEW p \in Path, Files!remove(p) PROVE FilesSound'
    BY <1>1, <2>7, RemoveSound
  <2>8. ASSUME NEW p \in Path, NEW to \in Path, Files!rename(p, to) PROVE FilesSound'
    BY <1>1, <2>8, RenameSound
  <2>9. ASSUME NEW p \in Path, NEW content \in Files!Content, Files!addFile(p, content)
        PROVE  FilesSound'
    BY <1>1, <2>9, AddSound, ContentType
  <2>10. CASE Files!clear
    <3>1. _mounted' \in BOOLEAN /\ _canMount' \in BOOLEAN
      BY <1>1 DEF FilesSound
    <3> QED BY <2>10, <3>1, ClearSound
  <2> QED BY <1>1, <2>1, <2>2, <2>3, <2>4, <2>5, <2>6, <2>7, <2>8, <2>9, <2>10 DEF Files!Use
<1>2. CASE /\ Files!begin \/ Files!end \/ \E v \in BOOLEAN : Files!setMounted(v)
           /\ UNCHANGED <<files, file, got>>
  BY <1>2 DEF FilesSound, Files!begin, Files!end, Files!setMounted
<1>3. CASE Files!reset
  BY <1>3, ClearSound DEF Files!reset
<1>4. CASE UNCHANGED Files!spiffsVars
  BY <1>4 DEF Files!spiffsVars, FilesSound
<1> QED BY <1>1, <1>2, <1>3, <1>4 DEF Files!Next

LEMMA FilesType == FilesSound => Files!TypeOK /\ Files!ReadersSeeContent
<1> SUFFICES ASSUME FilesSound PROVE Files!TypeOK /\ Files!ReadersSeeContent
  OBVIOUS
<1>1. Files!TypeOK
  BY ContentType DEF FilesSound, Files!TypeOK, FileObject
<1>2. ASSUME NEW h \in Handle, got[h] # NoFile
      PROVE  /\ Files!Usable(h) /\ file[h].pos <= Files!size(h)
             /\ got[h] = SubSeq(Files!contents(h), 1, file[h].pos)
  BY <1>2 DEF FilesSound, Sound, Files!Usable, Files!size, Files!contents
<1> QED BY <1>1, <1>2 DEF Files!ReadersSeeContent
-----------------------------------------------------------------------------
(* WString.h.                                                              *)
Texts == Short(Letter, MaxText)

LEMMA TextTypes ==
  /\ Strings!BoundedSeq(Letter, MaxText) = Texts
  /\ Strings!Arg = Short(Letter, MaxArg) /\ Strings!Arg \subseteq Texts
  /\ NoText \notin Texts /\ <<>> \in Texts /\ MaxText \in Nat
<1>1. MaxText \in Nat /\ MaxArg \in Nat /\ MaxArg <= MaxText
  BY PeripheralsAssumption DEF PeripheralsAssumption
<1>2. /\ Strings!BoundedSeq(Letter, MaxText) = Texts
      /\ Strings!Arg = Short(Letter, MaxArg)
  BY <1>1, ShortSequences DEF Strings!Arg, Strings!BoundedSeq, Strings!SeqOf, Texts
<1>3. Short(Letter, MaxArg) \subseteq Texts
  BY <1>1 DEF Short, Texts
<1>4. NoText \notin Texts /\ <<>> \in Texts
  BY <1>1, PeripheralsAssumption DEF PeripheralsAssumption, Texts, Short
<1> QED BY <1>1, <1>2, <1>3, <1>4

LEMMA SmallestIs ==
  ASSUME NEW T \in SUBSET Nat
  PROVE  /\ T = {} => Strings!Smallest(T) = -1
         /\ T # {} => Strings!Smallest(T) \in T /\ \A j \in T : Strings!Smallest(T) <= j
<1>1. CASE T = {}
  BY <1>1 DEF Strings!Smallest, Strings!npos
<1>2. CASE T # {}
  <2>1. PICK x \in T : \A y \in T : x <= y
    BY <1>2, LeastNatural, Zenon
  <2> QED BY <1>2, <2>1, Zenon DEF Strings!Smallest
<1> QED BY <1>1, <1>2

LEMMA LargestIs ==
  ASSUME NEW n \in Nat, NEW T \in SUBSET (0 .. n)
  PROVE  /\ T = {} => Strings!Largest(T) = -1
         /\ T # {} => Strings!Largest(T) \in T /\ \A j \in T : Strings!Largest(T) >= j
<1>1. CASE T = {}
  BY <1>1 DEF Strings!Largest, Strings!npos
<1>2. CASE T # {}
  <2>1. PICK x \in T : \A y \in T : x >= y
    BY <1>2, GreatestUpTo, Zenon
  <2> QED BY <1>2, <2>1, Zenon DEF Strings!Largest
<1> QED BY <1>1, <1>2

LEMMA MatchesOccur ==
  ASSUME NEW text \in Seq(Letter), NEW str \in Seq(Letter)
  PROVE  /\ Strings!Matches(text, str) \in SUBSET (0 .. Len(text))
         /\ \A i : i \in Strings!Matches(text, str) <=> Occurs(text, str, i)
<1>1. Len(text) \in Nat /\ Len(str) \in Nat
  OBVIOUS
<1>2. Strings!Matches(text, str)
        = {i \in 0 .. Len(text) - Len(str) : SubSeq(text, i + 1, i + Len(str)) = str}
  BY DEF Strings!Matches
<1>3. \A i : i \in 0 .. Len(text) - Len(str) <=> i \in Nat /\ i + Len(str) <= Len(text)
  BY <1>1
<1>4. Strings!Matches(text, str) \in SUBSET (0 .. Len(text))
  BY <1>1, <1>2
<1> QED BY <1>2, <1>3, <1>4 DEF Occurs

(* hit is the first place from pos on with str, or -1.                     *)
FirstFrom(hit, text, str, pos) ==
  \/ hit = -1 /\ \A i : Occurs(text, str, i) => i < pos
  \/ /\ Occurs(text, str, hit) /\ pos <= hit
     /\ \A i : Occurs(text, str, i) /\ pos <= i => hit <= i

LEMMA FindIs ==
  ASSUME NEW text \in Seq(Letter), NEW str \in Seq(Letter), NEW pos \in Nat
  PROVE  FirstFrom(Strings!find(text, str, pos), text, str, pos)
<1>1. PICK T \in SUBSET Nat : T = {i \in Strings!Matches(text, str) : i >= pos}
  <2>1. {i \in Strings!Matches(text, str) : i >= pos} \in SUBSET Nat
    BY MatchesOccur DEF Occurs
  <2> QED BY <2>1, Zenon
<1>2. \A i : i \in T <=> Occurs(text, str, i) /\ pos <= i
  <2>1. \A i : Occurs(text, str, i) => (i >= pos <=> pos <= i)
    BY DEF Occurs
  <2> QED BY <1>1, <2>1, MatchesOccur
<1>3. PICK hit : hit = Strings!Smallest(T) /\ hit = Strings!find(text, str, pos)
  BY <1>1, Zenon DEF Strings!find
<1>4. CASE T = {}
  <2>1. hit = -1
    BY <1>3, <1>4, SmallestIs
  <2>2. ASSUME NEW i, Occurs(text, str, i) PROVE i < pos
    <3>1. i \in Nat /\ ~(pos <= i)
      BY <1>2, <1>4, <2>2 DEF Occurs
    <3> QED BY <3>1
  <2> QED BY <1>3, <2>1, <2>2 DEF FirstFrom
<1>5. CASE T # {}
  <2>1. hit \in T /\ \A i \in T : hit <= i
    <3>1. Strings!Smallest(T) \in T /\ \A i \in T : Strings!Smallest(T) <= i
      BY <1>5, SmallestIs, Zenon
    <3> QED BY <1>3, <3>1, Zenon
  <2> QED BY <1>2, <1>3, <2>1 DEF FirstFrom
<1> QED BY <1>4, <1>5

(* What trim leaves, which is between a and b, and what it takes off.      *)
IsTrim(c, text, a, b) ==
  /\ a \in Nat /\ b \in Nat /\ a <= b /\ b <= Len(text)
  /\ c = SubSeq(text, a + 1, b)
  /\ \A i \in 1 .. a : text[i] \in Blank
  /\ \A i \in b + 1 .. Len(text) : text[i] \in Blank
  /\ a < b => text[a + 1] \notin Blank /\ text[b] \notin Blank

LEMMA TrimmedIs ==
  ASSUME NEW text \in Seq(Letter)
  PROVE  \E a, b : IsTrim(Strings!Trimmed(text), text, a, b)
<1>1. PICK n \in Nat : n = Len(text)
  OBVIOUS
<1>2. PICK K \in SUBSET Nat : K = {i \in 0 .. n - 1 : text[i + 1] \notin Blank}
  <2>1. {i \in 0 .. n - 1 : text[i + 1] \notin Blank} \in SUBSET Nat
    OBVIOUS
  <2> QED BY <2>1, Zenon
<1>3. \A i \in 1 .. n : i - 1 \notin K => text[i] \in Blank
  <2>1. \A i \in 1 .. n : i - 1 \in 0 .. n - 1 /\ (i - 1) + 1 = i
    BY <1>1
  <2> QED BY <1>2, <2>1
<1>4. Strings!Trimmed(text)
        = IF K = {} THEN <<>>
          ELSE Strings!substr(text, Strings!Smallest(K), Strings!Largest(K) - Strings!Smallest(K) + 1)
  BY <1>1, <1>2, Zenon DEF Strings!Trimmed
<1>5. CASE K = {}
  <2>1. SubSeq(text, 0 + 1, 0) = <<>>
    BY SubSeqEmpty
  <2>2. \A i \in 1 .. n : text[i] \in Blank
    BY <1>3, <1>5
  <2>3. IsTrim(Strings!Trimmed(text), text, 0, 0)
    BY <1>1, <1>4, <1>5, <2>1, <2>2 DEF IsTrim
  <2> QED BY <2>3
<1>6. CASE K # {}
  <2>1. K \in SUBSET (0 .. n)
    BY <1>1, <1>2
  <2>2. PICK a : a = Strings!Smallest(K) /\ a \in K /\ \A j \in K : a <= j
    BY <1>6, SmallestIs, Zenon
  <2>3. PICK z : z = Strings!Largest(K) /\ z \in K /\ \A j \in K : z >= j
    BY <1>1, <1>6, <2>1, LargestIs, Zenon
  <2>4. /\ a \in Nat /\ z \in Nat /\ a <= z /\ z < n
        /\ text[a + 1] \notin Blank /\ text[z + 1] \notin Blank
    BY <1>1, <1>2, <2>2, <2>3
  <2>5. Strings!substr(text, a, z - a + 1) = SubSeq(text, a + 1, z + 1)
    <3>1. ~(z - a + 1 > Len(text) - a) /\ a + (z - a + 1) = z + 1
      BY <1>1, <2>4
    <3> QED BY <3>1 DEF Strings!substr
  <2>6. \A i \in 1 .. a : text[i] \in Blank
    <3>1. ASSUME NEW i \in 1 .. a PROVE i \in 1 .. n /\ i - 1 \notin K
      BY <2>2, <2>4
    <3> QED BY <1>3, <3>1
  <2>7. \A i \in (z + 1) + 1 .. n : text[i] \in Blank
    <3>1. ASSUME NEW i \in (z + 1) + 1 .. n PROVE i \in 1 .. n /\ i - 1 \notin K
      BY <2>3, <2>4
    <3> QED BY <1>3, <3>1
  <2>8. Strings!Trimmed(text) = SubSeq(text, a + 1, z + 1)
    BY <1>4, <1>6, <2>2, <2>3, <2>5
  <2>9. IsTrim(Strings!Trimmed(text), text, a, z + 1)
    BY <1>1, <2>4, <2>6, <2>7, <2>8 DEF IsTrim
  <2> QED BY <2>9
<1> QED BY <1>5, <1>6

(* c is text without what is between a and b.                              *)
IsRemoval(c, text, a, b) ==
  /\ a \in Nat /\ b \in Nat /\ a <= b /\ b <= Len(text)
  /\ c = SubSeq(text, 1, a) \o SubSeq(text, b + 1, Len(text))

LEMMA RemovedIs ==
  ASSUME NEW text \in Seq(Letter), NEW i \in Nat, NEW n \in Nat
  PROVE  IsRemoval(Strings!Removed(text, i, n), text,
                   IF i < Len(text) THEN i ELSE Len(text),
                   IF i + n < Len(text) THEN i + n ELSE Len(text))
<1>1. PICK l \in Nat : l = Len(text)
  OBVIOUS
<1>2. CASE i >= l
  <2>1. Strings!Removed(text, i, n) = text
    BY <1>1, <1>2 DEF Strings!Removed
  <2>2. SubSeq(text, 1, l) = text
    BY <1>1, SubSeqFull
  <2>3. SubSeq(text, l + 1, l) = <<>>
    BY <1>1, SubSeqEmpty
  <2>4. text \o <<>> = text
    BY ConcatEmptySeq
  <2>5. ~(i < l) /\ ~(i + n < l)
    BY <1>2
  <2> QED BY <1>1, <2>1, <2>2, <2>3, <2>4, <2>5 DEF IsRemoval
<1>3. CASE ~(i >= l)
  <2>1. PICK m : m = IF n > l - i THEN l - i ELSE n
    OBVIOUS
  <2>2. Strings!Removed(text, i, n) = SubSeq(text, 1, i) \o SubSeq(text, i + m + 1, l)
    BY <1>1, <1>3, <2>1 DEF Strings!Removed
  <2>3. i < l /\ i + m = (IF i + n < l THEN i + n ELSE l)
    BY <1>3, <2>1
  <2>4. i + m \in Nat /\ i <= i + m /\ i + m <= l
    BY <1>3, <2>1
  <2> QED BY <1>1, <2>2, <2>3, <2>4 DEF IsRemoval
<1> QED BY <1>2, <1>3

LEMMA RemovalType ==
  ASSUME NEW text \in Seq(Letter), NEW c, NEW a, NEW b, IsRemoval(c, text, a, b)
  PROVE  c \in Seq(Letter) /\ Len(c) <= Len(text)
<1>1. /\ a \in Nat /\ b \in Nat /\ a <= b /\ b <= Len(text) /\ Len(text) \in Nat
      /\ c = SubSeq(text, 1, a) \o SubSeq(text, b + 1, Len(text))
  BY DEF IsRemoval
<1>2. PICK s \in Seq(Letter) : s = SubSeq(text, 1, a) /\ Len(s) = a
  <2>1. a \in 0 .. Len(text)
    BY <1>1
  <2> QED BY <2>1, PrefixType, Zenon
<1>3. PICK t \in Seq(Letter) : t = SubSeq(text, b + 1, Len(text)) /\ Len(t) = Len(text) - b
  <2>1. b \in 0 .. Len(text)
    BY <1>1
  <2> QED BY <2>1, RestPick, Zenon DEF IsCut
<1>4. s \o t \in Seq(Letter) /\ Len(s \o t) = Len(s) + Len(t)
  BY ConcatProperties
<1>5. c = s \o t
  BY <1>1, <1>2, <1>3
<1>6. a + (Len(text) - b) <= Len(text)
  BY <1>1
<1> QED BY <1>2, <1>3, <1>4, <1>5, <1>6

(* One turn of the loop of replace.                                        *)
At == [text : Seq(Letter), pos : Nat]

Left(at) == IF at.pos <= Len(at.text) THEN Len(at.text) - at.pos ELSE 0

Turn(str, by, at, hit) ==
  [text |-> SubSeq(at.text, 1, hit) \o by \o SubSeq(at.text, hit + Len(str) + 1, Len(at.text)),
   pos  |-> Strings!GoesOn(hit, by)]

(* The turn leaves less behind it, has put in by, and kept what follows.   *)
IsTurn(turn, str, by, at, hit) ==
  /\ turn \in At /\ turn.pos <= Len(turn.text) /\ Left(turn) < Left(at)
  /\ SubSeq(turn.text, 1, turn.pos) = SubSeq(at.text, 1, hit) \o by
  /\ SubSeq(turn.text, turn.pos + 1, Len(turn.text))
       = SubSeq(at.text, hit + Len(str) + 1, Len(at.text))

LEMMA TurnIs ==
  ASSUME NEW str \in Seq(Letter), str # <<>>, NEW by \in Seq(Letter), NEW at \in At, NEW hit,
         Occurs(at.text, str, hit), at.pos <= hit
  PROVE  IsTurn(Turn(str, by, at, hit), str, by, at, hit)
<1>1. PICK text \in Seq(Letter), pos \in Nat : at = [text |-> text, pos |-> pos]
  BY DEF At
<1>2. /\ Len(text) \in Nat /\ Len(str) \in Nat \ {0} /\ Len(by) \in Nat
      /\ hit \in Nat /\ hit + Len(str) <= Len(text) /\ pos <= hit
  <2>1. Len(str) \in Nat \ {0}
    BY EmptySeq
  <2> QED BY <1>1, <2>1 DEF Occurs
<1>3. PICK s \in Seq(Letter) : s = SubSeq(text, 1, hit) /\ Len(s) = hit
  <2>1. hit \in 0 .. Len(text)
    BY <1>2
  <2> QED BY <2>1, PrefixType, Zenon
<1>4. PICK t \in Seq(Letter) : /\ t = SubSeq(text, hit + Len(str) + 1, Len(text))
                               /\ IsCut(t, text, hit + Len(str), Len(text) - (hit + Len(str)))
  <2>1. hit + Len(str) \in 0 .. Len(text)
    BY <1>2
  <2> QED BY <2>1, RestPick, Zenon
<1>5. PICK u \in Seq(Letter) : u = s \o by /\ Len(u) = Len(s) + Len(by)
  BY ConcatProperties, Zenon
<1>6. PICK c \in Seq(Letter) : c = u \o t /\ Len(c) = Len(u) + Len(t)
  BY ConcatProperties, Zenon
<1>7. PICK p \in Nat : p = hit + Len(by)
  BY <1>2
<1>8. p = Len(u) /\ Len(c) = p + (Len(text) - (hit + Len(str)))
  BY <1>3, <1>4, <1>5, <1>6, <1>7 DEF IsCut
<1>9. SubSeq(c, 1, p) = u /\ SubSeq(c, p + 1, Len(c)) = t
  <2>1. MeetsAt(u \o t, u, t, Len(u))
    BY CutWhereTheyMeet, Zenon
  <2> QED BY <1>6, <1>8, <2>1, Zenon DEF MeetsAt
<1>10. Turn(str, by, at, hit) = [text |-> c, pos |-> p]
  BY <1>1, <1>3, <1>4, <1>5, <1>6, <1>7 DEF Turn, Strings!GoesOn
<1>11. p <= Len(c) /\ Len(c) - p < Len(text) - pos /\ pos <= Len(text)
  <2>1. PICK z : z = Len(text) - (hit + Len(str))
    OBVIOUS
  <2>2. z \in Nat /\ z < Len(text) - pos /\ pos <= Len(text)
    BY <1>2, <2>1
  <2>3. Len(c) = p + z
    BY <1>8, <2>1
  <2>4. p <= p + z /\ (p + z) - p = z
    BY <2>2
  <2> QED BY <2>2, <2>3, <2>4
<1>12. Left([text |-> c, pos |-> p]) < Left(at)
  BY <1>1, <1>11 DEF Left
<1>13. [text |-> c, pos |-> p] \in At
  BY DEF At
<1>14. /\ [text |-> c, pos |-> p].text = c /\ [text |-> c, pos |-> p].pos = p
       /\ at.text = text
  BY <1>1
<1>15. IsTurn([text |-> c, pos |-> p], str, by, at, hit)
  BY <1>3, <1>4, <1>5, <1>9, <1>11, <1>12, <1>13, <1>14, Zenon DEF IsTurn
<1> QED BY <1>10, <1>15, Zenon

(* The function that the loop computes.                                    *)
IsLoop(f, str, by) ==
  f = [at \in At |-> IF Strings!find(at.text, str, at.pos) = -1 THEN at.text
                     ELSE f[Turn(str, by, at, Strings!find(at.text, str, at.pos))]]

LEMMA LoopExists ==
  ASSUME NEW str \in Seq(Letter), str # <<>>, NEW by \in Seq(Letter)
  PROVE  \E f : IsLoop(f, str, by)
<1>1. PICK V : V = Seq(Letter)
  OBVIOUS
<1>2. PICK hit : hit = [at \in At |-> Strings!find(at.text, str, at.pos)]
  OBVIOUS
<1>3. \A at \in At : FirstFrom(hit[at], at.text, str, at.pos)
  BY <1>2, FindIs DEF At
<1>4. PICK stop : stop = {at \in At : hit[at] = -1}
  OBVIOUS
<1>5. PICK size \in [At -> Nat] : \A at \in At : size[at] = Left(at)
  <2>1. [at \in At |-> Left(at)] \in [At -> Nat]
    BY DEF At, Left
  <2> QED BY <2>1
<1>6. PICK out \in [At -> V] : \A at \in At : out[at] = at.text
  <2>1. [at \in At |-> at.text] \in [At -> V]
    BY <1>1 DEF At
  <2> QED BY <2>1
<1>7. ASSUME NEW at \in At \ stop
      PROVE  Turn(str, by, at, hit[at]) \in At /\ Left(Turn(str, by, at, hit[at])) < Left(at)
  <2>1. Occurs(at.text, str, hit[at]) /\ at.pos <= hit[at]
    BY <1>3, <1>4 DEF FirstFrom
  <2> QED BY <2>1, TurnIs, Zenon DEF IsTurn
<1>8. PICK next \in [At -> At] : \A at \in At \ stop : next[at] = Turn(str, by, at, hit[at])
  <2>1. [at \in At |-> IF at \in stop THEN at ELSE Turn(str, by, at, hit[at])] \in [At -> At]
    BY <1>7
  <2> QED BY <2>1
<1>9. PICK comb \in [At -> [V -> V]] : \A at \in At, v \in V : comb[at][v] = v
  <2>1. [at \in At |-> [v \in V |-> v]] \in [At -> [V -> V]]
    OBVIOUS
  <2> QED BY <2>1
<1>10. Descends(At, V, size, stop, out, next, comb)
  <2>1. stop \in SUBSET At
    BY <1>4
  <2>2. \A at \in At \ stop : size[next[at]] < size[at]
    BY <1>5, <1>7, <1>8
  <2> QED BY <2>1, <2>2 DEF Descends
<1>11. PICK f : Solves(f, At, V, stop, out, next, comb)
  BY <1>10, Recursion, Zenon
<1>12. ASSUME NEW at \in At
       PROVE  f[at] = IF Strings!find(at.text, str, at.pos) = -1 THEN at.text
                      ELSE f[Turn(str, by, at, Strings!find(at.text, str, at.pos))]
  <2>1. f \in [At -> V] /\ f[at] = IF at \in stop THEN out[at] ELSE comb[at][f[next[at]]]
    BY <1>11 DEF Solves
  <2>2. hit[at] = Strings!find(at.text, str, at.pos) /\ (at \in stop <=> hit[at] = -1)
    BY <1>2, <1>4
  <2>3. CASE at \in stop
    BY <1>6, <2>1, <2>2, <2>3
  <2>4. CASE at \notin stop
    BY <1>8, <1>9, <2>1, <2>2, <2>4
  <2> QED BY <2>3, <2>4
<1>13. f = [at \in At |-> f[at]]
  BY <1>11 DEF Solves
<1>14. IsLoop(f, str, by)
  BY <1>12, <1>13 DEF IsLoop
<1> QED BY <1>14

LEMMA ReplaceLoops ==
  ASSUME NEW str \in Seq(Letter), str # <<>>, NEW by \in Seq(Letter)
  PROVE  IsLoop(Strings!ReplaceLoop(str, by), str, by)
<1>1. \E f : IsLoop(f, str, by)
  BY LoopExists
<1>2. Strings!ReplaceLoop(str, by) = CHOOSE f : IsLoop(f, str, by)
  BY Zenon DEF Strings!ReplaceLoop, IsLoop, At, Turn, Strings!npos
<1> QED BY <1>1, <1>2, Zenon

(* The function that the reference computes.                               *)
IsRewriting(g, str, by) ==
  g = [text \in Seq(Letter) |->
         IF Strings!Matches(text, str) = {} THEN text
         ELSE SubSeq(text, 1, Strings!Smallest(Strings!Matches(text, str))) \o by
                \o g[SubSeq(text, Strings!Smallest(Strings!Matches(text, str)) + Len(str) + 1,
                            Len(text))]]

LEMMA FirstMatch ==
  ASSUME NEW text \in Seq(Letter), NEW str \in Seq(Letter)
  PROVE  /\ Strings!Matches(text, str) = {} <=> \A i : ~Occurs(text, str, i)
         /\ Strings!Matches(text, str) # {} =>
              /\ Occurs(text, str, Strings!Smallest(Strings!Matches(text, str)))
              /\ \A i : Occurs(text, str, i) => Strings!Smallest(Strings!Matches(text, str)) <= i
<1>1. PICK T \in SUBSET Nat : T = Strings!Matches(text, str)
  <2>1. Strings!Matches(text, str) \in SUBSET Nat
    BY MatchesOccur DEF Occurs
  <2> QED BY <2>1, Zenon
<1>2. \A i : i \in T <=> Occurs(text, str, i)
  BY <1>1, MatchesOccur
<1>3. T # {} => Strings!Smallest(T) \in T /\ \A j \in T : Strings!Smallest(T) <= j
  BY SmallestIs, Zenon
<1> QED BY <1>1, <1>2, <1>3, Zenon

LEMMA BehindMatch ==
  ASSUME NEW text \in Seq(Letter), NEW str \in Seq(Letter), str # <<>>, NEW hit,
         Occurs(text, str, hit)
  PROVE  /\ SubSeq(text, hit + Len(str) + 1, Len(text)) \in Seq(Letter)
         /\ Len(SubSeq(text, hit + Len(str) + 1, Len(text))) < Len(text)
<1>1. /\ Len(text) \in Nat /\ Len(str) \in Nat \ {0} /\ hit \in Nat /\ hit + Len(str) <= Len(text)
  <2>1. Len(str) \in Nat \ {0}
    BY EmptySeq
  <2> QED BY <2>1 DEF Occurs
<1>2. PICK m \in 0 .. Len(text) : m = hit + Len(str) /\ m > 0
  BY <1>1
<1>3. /\ SubSeq(text, m + 1, Len(text)) \in Seq(Letter)
      /\ Len(SubSeq(text, m + 1, Len(text))) = Len(text) - m
  BY RestType
<1> QED BY <1>1, <1>2, <1>3

LEMMA RewritingExists ==
  ASSUME NEW str \in Seq(Letter), str # <<>>, NEW by \in Seq(Letter)
  PROVE  \E g : IsRewriting(g, str, by)
<1>1. PICK V : V = Seq(Letter)
  OBVIOUS
<1>2. PICK hit : hit = [text \in V |-> Strings!Smallest(Strings!Matches(text, str))]
  OBVIOUS
<1>3. PICK stop : stop = {text \in V : Strings!Matches(text, str) = {}}
  OBVIOUS
<1>4. \A text \in V \ stop : Occurs(text, str, hit[text])
  BY <1>1, <1>2, <1>3, FirstMatch
<1>5. PICK rest : rest = [text \in V |-> SubSeq(text, hit[text] + Len(str) + 1, Len(text))]
  OBVIOUS
<1>6. \A text \in V \ stop : rest[text] \in V /\ Len(rest[text]) < Len(text)
  BY <1>1, <1>4, <1>5, BehindMatch
<1>7. PICK pre : pre = [text \in V |-> SubSeq(text, 1, hit[text]) \o by]
  OBVIOUS
<1>8. \A text \in V \ stop : pre[text] \in V
  <2>1. ASSUME NEW text \in V \ stop PROVE SubSeq(text, 1, hit[text]) \o by \in Seq(Letter)
    <3>1. text \in Seq(Letter) /\ Occurs(text, str, hit[text])
      BY <1>1, <1>4
    <3>2. hit[text] \in 0 .. Len(text)
      BY <3>1 DEF Occurs
    <3>3. SubSeq(text, 1, hit[text]) \in Seq(Letter)
      BY <3>1, <3>2, PrefixType
    <3> QED BY <3>3, ConcatProperties
  <2> QED BY <1>1, <1>7, <2>1
<1>9. PICK size \in [V -> Nat] : \A text \in V : size[text] = Len(text)
  <2>1. [text \in V |-> Len(text)] \in [V -> Nat]
    BY <1>1
  <2> QED BY <2>1
<1>10. PICK out \in [V -> V] : \A text \in V : out[text] = text
  <2>1. [text \in V |-> text] \in [V -> V]
    OBVIOUS
  <2> QED BY <2>1
<1>11. PICK next \in [V -> V] : \A text \in V \ stop : next[text] = rest[text]
  <2>1. [text \in V |-> IF text \in stop THEN text ELSE rest[text]] \in [V -> V]
    BY <1>6
  <2> QED BY <2>1
<1>12. PICK comb \in [V -> [V -> V]] : \A text \in V \ stop, v \in V : comb[text][v] = pre[text] \o v
  <2>1. ASSUME NEW text \in V \ stop, NEW v \in V PROVE pre[text] \o v \in V
    BY <1>1, <1>8, ConcatProperties
  <2>2. [text \in V |-> [v \in V |-> IF text \in stop THEN v ELSE pre[text] \o v]] \in [V -> [V -> V]]
    BY <2>1
  <2> QED BY <2>2
<1>13. Descends(V, V, size, stop, out, next, comb)
  <2>1. stop \in SUBSET V
    BY <1>3
  <2>2. \A text \in V \ stop : size[next[text]] < size[text]
    BY <1>6, <1>9, <1>11
  <2> QED BY <2>1, <2>2 DEF Descends
<1>14. PICK g : Solves(g, V, V, stop, out, next, comb)
  BY <1>13, Recursion, Zenon
<1>15. ASSUME NEW text \in V
       PROVE  g[text] = IF Strings!Matches(text, str) = {} THEN text
                        ELSE (SubSeq(text, 1, Strings!Smallest(Strings!Matches(text, str))) \o by)
                               \o g[SubSeq(text, Strings!Smallest(Strings!Matches(text, str)) + Len(str) + 1,
                                           Len(text))]
  <2>1. g \in [V -> V] /\ g[text] = IF text \in stop THEN out[text] ELSE comb[text][g[next[text]]]
    BY <1>14 DEF Solves
  <2>2. CASE text \in stop
    BY <1>3, <1>10, <2>1, <2>2
  <2>3. CASE text \notin stop
    <3>1. g[text] = comb[text][g[rest[text]]] /\ rest[text] \in V
      BY <1>6, <1>11, <2>1, <2>3
    <3>2. g[rest[text]] \in V
      BY <2>1, <3>1
    <3>3. g[text] = pre[text] \o g[rest[text]]
      BY <1>12, <2>3, <3>1, <3>2
    <3> QED BY <1>2, <1>3, <1>5, <1>7, <2>3, <3>3
  <2> QED BY <2>2, <2>3
<1>16. g = [text \in V |-> g[text]]
  BY <1>14 DEF Solves
<1>17. IsRewriting(g, str, by)
  BY <1>1, <1>15, <1>16 DEF IsRewriting
<1> QED BY <1>17

LEMMA ReferenceRewrites ==
  ASSUME NEW str \in Seq(Letter), str # <<>>, NEW by \in Seq(Letter)
  PROVE  IsRewriting(Strings!Rewritten(str, by), str, by)
<1>1. \E g : IsRewriting(g, str, by)
  BY RewritingExists
<1>2. Strings!Rewritten(str, by) = CHOOSE g : IsRewriting(g, str, by)
  BY Zenon DEF Strings!Rewritten, IsRewriting
<1> QED BY <1>1, <1>2, Zenon

LEMMA RewritingType ==
  ASSUME NEW str \in Seq(Letter), str # <<>>, NEW by \in Seq(Letter), NEW g, IsRewriting(g, str, by)
  PROVE  \A text \in Seq(Letter) : g[text] \in Seq(Letter)
<1>1. PICK D : D = Seq(Letter)
  OBVIOUS
<1>2. PICK size \in [D -> Nat] : \A text \in D : size[text] = Len(text)
  <2>1. [text \in D |-> Len(text)] \in [D -> Nat]
    BY <1>1
  <2> QED BY <2>1
<1>3. PICK T : T = {text \in D : g[text] \in Seq(Letter)}
  OBVIOUS
<1>4. ASSUME NEW text \in D, \A e \in D : size[e] < size[text] => e \in T
      PROVE  text \in T
  <2>1. CASE Strings!Matches(text, str) = {}
    <3>1. g[text] = text
      BY <1>1, <2>1 DEF IsRewriting
    <3> QED BY <1>1, <1>3, <3>1
  <2>2. CASE Strings!Matches(text, str) # {}
    <3>1. PICK hit : hit = Strings!Smallest(Strings!Matches(text, str)) /\ Occurs(text, str, hit)
      BY <1>1, <2>2, FirstMatch
    <3>2. PICK rest \in D : rest = SubSeq(text, hit + Len(str) + 1, Len(text)) /\ Len(rest) < Len(text)
      BY <1>1, <3>1, BehindMatch
    <3>3. g[rest] \in Seq(Letter)
      BY <1>2, <1>3, <1>4, <3>2
    <3>4. g[text] = (SubSeq(text, 1, hit) \o by) \o g[rest]
      BY <1>1, <2>2, <3>1, <3>2 DEF IsRewriting
    <3>5. SubSeq(text, 1, hit) \in Seq(Letter)
      <4>1. hit \in 0 .. Len(text) /\ text \in Seq(Letter)
        BY <1>1, <3>1 DEF Occurs
      <4> QED BY <4>1, PrefixType
    <3>6. SubSeq(text, 1, hit) \o by \in Seq(Letter)
      BY <3>5, ConcatProperties
    <3>7. (SubSeq(text, 1, hit) \o by) \o g[rest] \in Seq(Letter)
      BY <3>3, <3>6, ConcatProperties
    <3> QED BY <1>3, <3>4, <3>7
  <2> QED BY <2>1, <2>2
<1>5. D \subseteq T
  BY ONLY <1>4, SizeInduction, size \in [D -> Nat]
<1> QED BY <1>1, <1>3, <1>5

(* The loop, from pos on, rewrites what is left of the text behind pos.    *)
LoopsOver(f, g, D) ==
  \A at \in D :
    f[at] = SubSeq(at.text, 1, at.pos) \o g[SubSeq(at.text, at.pos + 1, Len(at.text))]

LEMMA LoopRewrites ==
  ASSUME NEW str \in Seq(Letter), str # <<>>, NEW by \in Seq(Letter),
         NEW f, IsLoop(f, str, by), NEW g, IsRewriting(g, str, by)
  PROVE  LoopsOver(f, g, {at \in At : at.pos <= Len(at.text)})
<1>1. PICK D : D = {at \in At : at.pos <= Len(at.text)}
  OBVIOUS
<1>2. PICK size \in [D -> Nat] : \A at \in D : size[at] = Left(at)
  <2>1. [at \in D |-> Left(at)] \in [D -> Nat]
    BY <1>1 DEF At, Left
  <2> QED BY <2>1
<1>3. PICK T : T = {at \in D : f[at] = SubSeq(at.text, 1, at.pos)
                                         \o g[SubSeq(at.text, at.pos + 1, Len(at.text))]}
  OBVIOUS
<1>4. ASSUME NEW at \in D, \A e \in D : size[e] < size[at] => e \in T
      PROVE  at \in T
  <2>1. PICK text \in Seq(Letter), pos \in Nat :
               at.text = text /\ at.pos = pos /\ pos <= Len(text)
    BY <1>1 DEF At
  <2>2. PICK rest \in Seq(Letter) : rest = SubSeq(text, pos + 1, Len(text)) /\ Len(rest) = Len(text) - pos
    <3>1. pos \in 0 .. Len(text)
      BY <2>1
    <3> QED BY <3>1, RestPick, Zenon DEF IsCut
  <2>3. \A i \in Nat : Occurs(rest, str, i) <=> Occurs(text, str, pos + i)
    BY <2>1, <2>2, OccursBehind
  <2>4. PICK hit : hit = Strings!find(text, str, pos) /\ FirstFrom(hit, text, str, pos)
    BY FindIs
  <2>5. /\ at \in At
        /\ f[at] = IF hit = -1 THEN text ELSE f[Turn(str, by, at, hit)]
    BY <1>1, <2>1, <2>4 DEF IsLoop
  <2>6. CASE hit = -1
    <3>1. \A i : ~Occurs(rest, str, i)
      <4>1. SUFFICES ASSUME NEW i, Occurs(rest, str, i) PROVE FALSE
        OBVIOUS
      <4>2. i \in Nat /\ Occurs(text, str, pos + i)
        BY <2>3, <4>1 DEF Occurs
      <4>3. \A j : Occurs(text, str, j) => j < pos
        <5>1. ~Occurs(text, str, -1)
          BY DEF Occurs
        <5> QED BY <2>4, <2>6, <5>1, Zenon DEF FirstFrom
      <4>4. pos + i < pos
        BY <4>2, <4>3
      <4> QED BY <4>2, <4>4
    <3>2. Strings!Matches(rest, str) = {}
      BY <3>1, FirstMatch
    <3>3. g[rest] = rest
      BY <3>2 DEF IsRewriting
    <3>4. SubSeq(text, 1, pos) \o rest = text
      <4>1. PICK n \in Nat : pos + n = Len(text)
        <5>1. Len(text) - pos \in Nat /\ pos + (Len(text) - pos) = Len(text)
          BY <2>1
        <5> QED BY <5>1, Zenon
      <4>2. SubSeq(text, 1, pos) \o SubSeq(text, pos + 1, pos + n) = SubSeq(text, 1, pos + n)
        <5>1. pos + n <= Len(text)
          BY <4>1
        <5> QED BY <5>1, CutsMeet, Zenon
      <4>3. SubSeq(text, 1, Len(text)) = text
        BY SubSeqFull
      <4> QED BY <2>2, <4>1, <4>2, <4>3
    <3> QED BY <1>3, <2>1, <2>2, <2>5, <2>6, <3>3, <3>4
  <2>7. CASE hit # -1
    <3>1. /\ Occurs(text, str, hit) /\ pos <= hit
          /\ \A i : Occurs(text, str, i) /\ pos <= i => hit <= i
      BY <2>4, <2>7 DEF FirstFrom
    <3>2. PICK m \in Nat : m = hit - pos /\ hit = pos + m /\ hit \in Nat
      BY <3>1 DEF Occurs
    <3>3. PICK n \in Nat : n = Len(str)
      OBVIOUS
    <3>4. Occurs(rest, str, m)
      BY <2>3, <3>1, <3>2
    <3>5. Strings!Matches(rest, str) # {} /\ Strings!Smallest(Strings!Matches(rest, str)) = m
      <4>1. PICK i : i = Strings!Smallest(Strings!Matches(rest, str))
        OBVIOUS
      <4>2. Strings!Matches(rest, str) # {} /\ Occurs(rest, str, i) /\ i <= m
        BY <3>4, <4>1, FirstMatch
      <4>3. i \in Nat /\ Occurs(text, str, pos + i)
        BY <2>3, <4>2 DEF Occurs
      <4>4. hit <= pos + i
        BY <3>1, <4>3
      <4>5. m <= i
        BY <3>2, <4>3, <4>4
      <4>6. i = m
        BY <4>2, <4>3, <4>5
      <4> QED BY <4>1, <4>2, <4>6
    <3>6. PICK tail \in Seq(Letter) : tail = SubSeq(text, hit + n + 1, Len(text))
      BY <3>1, <3>3, BehindMatch
    <3>7. SubSeq(rest, m + n + 1, Len(rest)) = tail
      <4>1. PICK k \in Nat : k = m + n /\ pos + k = hit + n /\ pos + k <= Len(text)
        <5>1. hit + n <= Len(text)
          BY <3>1, <3>3 DEF Occurs
        <5>2. m + n \in Nat /\ pos + (m + n) = hit + n
          BY <3>2
        <5> QED BY <5>1, <5>2
      <4>2. SubSeq(rest, k + 1, Len(rest)) = SubSeq(text, pos + k + 1, Len(text))
        BY <2>2, <4>1, RestOfRest
      <4> QED BY <3>6, <4>1, <4>2
    <3>8. g[tail] \in Seq(Letter)
      BY RewritingType
    <3>9. PICK pre \in Seq(Letter) : pre = SubSeq(rest, 1, m)
      <4>1. m \in 0 .. Len(rest)
        BY <3>4 DEF Occurs
      <4> QED BY <4>1, PrefixType, Zenon
    <3>10. PICK read \in Seq(Letter) : read = SubSeq(text, 1, pos)
      <4>1. pos \in 0 .. Len(text)
        BY <2>1
      <4> QED BY <4>1, PrefixType, Zenon
    <3>11. read \o pre = SubSeq(text, 1, hit)
      <4>1. pos + m <= Len(text)
        BY <3>1, <3>2, <3>3 DEF Occurs
      <4>2. SubSeq(text, 1, pos) \o SubSeq(rest, 1, m) = SubSeq(text, 1, pos + m)
        BY <2>2, <4>1, PrefixOfRest
      <4> QED BY <3>2, <3>9, <3>10, <4>2
    <3>12. g[rest] = (pre \o by) \o g[tail]
      BY <3>3, <3>5, <3>7, <3>9 DEF IsRewriting
    <3>13. PICK turn : turn = Turn(str, by, at, hit)
      OBVIOUS
    <3>14. /\ turn \in D /\ Left(turn) < Left(at)
           /\ SubSeq(turn.text, 1, turn.pos) = (read \o pre) \o by
           /\ SubSeq(turn.text, turn.pos + 1, Len(turn.text)) = tail
      <4>1. at \in At /\ Occurs(at.text, str, hit) /\ at.pos <= hit
        BY <2>1, <2>5, <3>1
      <4>2. IsTurn(Turn(str, by, at, hit), str, by, at, hit)
        BY <4>1, TurnIs, Zenon
      <4> QED BY <1>1, <2>1, <3>3, <3>6, <3>11, <3>13, <4>2 DEF IsTurn
    <3>15. f[turn] = ((read \o pre) \o by) \o g[tail]
      <4>1. turn \in T
        BY <1>2, <1>4, <3>14
      <4> QED BY <1>3, <3>14, <4>1
    <3>16. ((read \o pre) \o by) \o g[tail] = read \o ((pre \o by) \o g[tail])
      <4>1. (read \o pre) \o by = read \o (pre \o by)
        <5>1. Regroups(read, pre, by)
          BY AllRegroup, Zenon
        <5> QED BY <5>1 DEF Regroups
      <4>2. pre \o by \in Seq(Letter)
        BY ConcatProperties
      <4>3. (read \o (pre \o by)) \o g[tail] = read \o ((pre \o by) \o g[tail])
        <5>1. Regroups(read, pre \o by, g[tail])
          BY <3>8, <4>2, AllRegroup, Zenon
        <5> QED BY <5>1 DEF Regroups
      <4> QED BY <4>1, <4>3
    <3>17. f[at] = read \o g[rest]
      BY <2>5, <2>7, <3>12, <3>13, <3>15, <3>16
    <3> QED BY <1>3, <2>1, <2>2, <3>10, <3>17
  <2> QED BY <2>6, <2>7
<1>5. D \subseteq T
  BY ONLY <1>4, SizeInduction, size \in [D -> Nat]
<1> QED BY <1>1, <1>3, <1>5 DEF LoopsOver

(* What replace computes.                                                  *)
LEMMA ReplacedIs ==
  ASSUME NEW text \in Seq(Letter), NEW str \in Seq(Letter), NEW by \in Seq(Letter)
  PROVE  /\ Strings!Replaced(text, str, by) \in Seq(Letter)
         /\ str # <<>> => Strings!Replaced(text, str, by) = Strings!Rewritten(str, by)[text]
<1>1. CASE str = <<>>
  BY <1>1 DEF Strings!Replaced
<1>2. CASE str # <<>>
  <2>1. PICK f : f = Strings!ReplaceLoop(str, by) /\ IsLoop(f, str, by)
    BY <1>2, ReplaceLoops
  <2>2. PICK g : g = Strings!Rewritten(str, by) /\ IsRewriting(g, str, by)
    BY <1>2, ReferenceRewrites
  <2>3. PICK at \in At : at = [text |-> text, pos |-> 0]
    BY DEF At
  <2>4. /\ at.text = text /\ at.pos = 0 /\ 0 <= Len(text) /\ 0 + 1 = 1
    BY <2>3
  <2>5. f[at] = SubSeq(at.text, 1, at.pos) \o g[SubSeq(at.text, at.pos + 1, Len(at.text))]
    <3>1. LoopsOver(f, g, {x \in At : x.pos <= Len(x.text)})
      BY <1>2, <2>1, <2>2, LoopRewrites, Zenon
    <3> QED BY <2>4, <3>1 DEF LoopsOver
  <2>6. f[at] = SubSeq(text, 1, 0) \o g[SubSeq(text, 1, Len(text))]
    BY <2>4, <2>5
  <2>7. SubSeq(text, 1, 0) = <<>>
    BY SubSeqEmpty
  <2>8. SubSeq(text, 1, Len(text)) = text
    BY SubSeqFull
  <2>9. g[text] \in Seq(Letter)
    BY <1>2, <2>2, RewritingType
  <2>10. <<>> \o g[text] = g[text]
    BY <2>9, ConcatEmptySeq
  <2>11. Strings!Replaced(text, str, by) = f[at]
    BY <1>2, <2>1, <2>3, Zenon DEF Strings!Replaced
  <2> QED BY <2>2, <2>6, <2>7, <2>8, <2>9, <2>10, <2>11
<1> QED BY <1>1, <1>2

(* What is read is read in order, until an edit.                           *)
TextSound ==
  /\ _data \in Texts /\ _readPos \in 0 .. MaxText /\ seen \in Texts \cup {NoText}
  /\ seen # NoText => _readPos <= Len(_data) /\ seen = SubSeq(_data, 1, _readPos)

LEMMA TextInit == Strings!Init => TextSound
<1>1. SubSeq(<<>>, 1, 0) = <<>> /\ Len(<<>>) = 0
  BY SubSeqEmpty
<1> QED BY <1>1, TextTypes DEF Strings!Init, TextSound

LEMMA EditSound ==
  ASSUME TextSound, NEW text \in Texts, Strings!Edit(text)
  PROVE  TextSound'
BY DEF TextSound, Strings!Edit

LEMMA ConcatSound ==
  ASSUME TextSound, NEW str \in Seq(Letter), Strings!concat(str), Len(_data') <= MaxText
  PROVE  TextSound'
<1>1. /\ _data' = _data \o str /\ _readPos' = _readPos /\ seen' = seen
      /\ _data \in Seq(Letter) /\ Len(_data) \in Nat /\ Len(str) \in Nat
  BY DEF Strings!concat, TextSound, Texts, Short
<1>2. _data' \in Texts /\ Len(_data') = Len(_data) + Len(str)
  BY <1>1, ConcatProperties DEF Texts, Short
<1>3. CASE seen # NoText
  <2>1. _readPos \in 0 .. Len(_data)
    BY <1>1, <1>3 DEF TextSound
  <2>2. SubSeq(_data \o str, 1, _readPos) = SubSeq(_data, 1, _readPos)
    BY <1>1, <2>1, CutOfLonger, Zenon
  <2>3. _readPos <= Len(_data')
    BY <1>1, <1>2, <2>1
  <2> QED BY <1>1, <1>2, <2>2, <2>3 DEF TextSound
<1>4. CASE seen = NoText
  BY <1>1, <1>2, <1>4 DEF TextSound
<1> QED BY <1>3, <1>4

LEMMA NextSound ==
  ASSUME TextSound, Strings!read
  PROVE  TextSound'
<1>1. PICK n \in Nat : n = _readPos
  BY DEF TextSound
<1>2. /\ _data' = _data /\ _readPos' = n + 1 /\ n < Len(_data)
      /\ seen' = IF seen = NoText THEN NoText ELSE Append(seen, _data[n + 1])
      /\ _data \in Seq(Letter) /\ _data \in Texts /\ Len(_data) \in Nat /\ Len(_data) <= MaxText
  BY <1>1 DEF Strings!read, TextSound, Texts, Short
<1>3. n + 1 \in 0 .. MaxText /\ n + 1 \in 1 .. Len(_data)
  BY <1>2, TextTypes
<1>4. CASE seen # NoText
  <2>1. seen = SubSeq(_data, 1, n)
    BY <1>1, <1>4 DEF TextSound
  <2>2. Append(SubSeq(_data, 1, n), _data[n + 1]) = SubSeq(_data, 1, n + 1)
    <3>1. PICK m \in 1 .. Len(_data) : m = n + 1 /\ m - 1 = n
      BY <1>3
    <3>2. SubSeq(_data, 1, m) = SubSeq(_data, 1, m - 1) \o <<_data[m]>>
      <4>1. 1 \in 1 .. Len(_data) /\ m \in 1 .. Len(_data)
        BY <1>2, <3>1
      <4> QED BY <1>2, <4>1, SubSeqRecursiveSecond
    <3>3. SubSeq(_data, 1, n) \in Seq(Letter) /\ _data[m] \in Letter
      <4>1. n \in 0 .. Len(_data)
        BY <1>2
      <4> QED BY <1>2, <3>1, <4>1, PrefixType
    <3>4. Append(SubSeq(_data, 1, n), _data[m]) = SubSeq(_data, 1, n) \o <<_data[m]>>
      BY <3>3, AppendIsConcat
    <3> QED BY <3>1, <3>2, <3>4
  <2>3. SubSeq(_data, 1, n + 1) \in Texts
    <3>1. n + 1 \in 0 .. Len(_data)
      BY <1>3
    <3>2. SubSeq(_data, 1, n + 1) \in Seq(Letter) /\ Len(SubSeq(_data, 1, n + 1)) = n + 1
      BY <1>2, <3>1, PrefixType
    <3> QED BY <1>3, <3>2 DEF Texts, Short
  <2>4. seen' = SubSeq(_data, 1, n + 1)
    BY <1>2, <1>4, <2>1, <2>2
  <2>5. seen' \in Texts /\ _readPos' <= Len(_data')
    <3>1. seen' \in Texts
      BY <2>3, <2>4, Zenon
    <3>2. n + 1 <= Len(_data)
      BY <1>3
    <3> QED BY <1>2, <3>1, <3>2
  <2>6. seen' = SubSeq(_data', 1, _readPos')
    BY <1>2, <2>4
  <2> QED BY <1>2, <1>3, <2>5, <2>6 DEF TextSound
<1>5. CASE seen = NoText
  BY <1>2, <1>3, <1>5 DEF TextSound
<1> QED BY <1>4, <1>5

(* The texts that the edits put in the place of _data.                     *)
LEMMA EditTypes ==
  ASSUME NEW text \in Texts
  PROVE  /\ Strings!Trimmed(text) \in Texts
         /\ \A i \in Nat, n \in Nat : Strings!Removed(text, i, n) \in Texts
         /\ \A old \in Letter, new \in Letter : Strings!ReplacedChar(text, old, new) \in Texts
         /\ \A i \in Nat, c \in Letter : i < Len(text) => [text EXCEPT ![i + 1] = c] \in Texts
<1>1. text \in Seq(Letter) /\ Len(text) \in Nat /\ Len(text) <= MaxText /\ MaxText \in Nat
  BY TextTypes DEF Texts, Short
<1>2. Strings!Trimmed(text) \in Texts
  <2>1. PICK a, b : IsTrim(Strings!Trimmed(text), text, a, b)
    BY <1>1, TrimmedIs
  <2>2. PICK m \in 1 .. Len(text) + 1, n \in 0 .. Len(text) : m = a + 1 /\ n = b /\ m <= n + 1
    BY <1>1, <2>1 DEF IsTrim
  <2>3. SubSeq(text, m, n) \in Seq(Letter) /\ Len(SubSeq(text, m, n)) = n - m + 1
    BY <1>1, <2>2, CutType
  <2>4. Strings!Trimmed(text) = SubSeq(text, m, n)
    BY <2>1, <2>2 DEF IsTrim
  <2>5. n - m + 1 <= MaxText
    BY <1>1, <2>2
  <2> QED BY <2>3, <2>4, <2>5 DEF Texts, Short
<1>3. ASSUME NEW i \in Nat, NEW n \in Nat PROVE Strings!Removed(text, i, n) \in Texts
  <2>1. PICK c, a, b : c = Strings!Removed(text, i, n) /\ IsRemoval(c, text, a, b)
    BY <1>1, RemovedIs
  <2>2. c \in Seq(Letter) /\ Len(c) <= Len(text)
    BY <1>1, <2>1, RemovalType
  <2>3. Len(c) <= MaxText
    BY <1>1, <2>2
  <2> QED BY <2>1, <2>2, <2>3 DEF Texts, Short
<1>4. ASSUME NEW old \in Letter, NEW new \in Letter
      PROVE  Strings!ReplacedChar(text, old, new) \in Texts
  <2>1. PICK c : c = [i \in 1 .. Len(text) |-> IF text[i] = old THEN new ELSE text[i]]
    OBVIOUS
  <2>2. c \in [1 .. Len(text) -> Letter]
    BY <1>1, <2>1
  <2>3. c \in Seq(Letter) /\ Len(c) = Len(text)
    BY <1>1, <2>2
  <2>4. Strings!ReplacedChar(text, old, new) = c
    BY <1>1, <2>1 DEF Strings!ReplacedChar
  <2> QED BY <1>1, <2>3, <2>4 DEF Texts, Short
<1>5. ASSUME NEW i \in Nat, NEW c \in Letter, i < Len(text)
      PROVE  [text EXCEPT ![i + 1] = c] \in Texts
  <2>1. i + 1 \in 1 .. Len(text)
    BY <1>1, <1>5
  <2>2. [text EXCEPT ![i + 1] = c] \in Seq(Letter) /\ Len([text EXCEPT ![i + 1] = c]) = Len(text)
    BY <1>1, <2>1, ExceptSeq
  <2> QED BY <1>1, <2>2 DEF Texts, Short
<1> QED BY <1>2, <1>3, <1>4, <1>5

LEMMA TextStep ==
  ASSUME TextSound, [Strings!Next]_(Strings!stringVars)
  PROVE  TextSound'
<1>0. /\ _data \in Texts /\ _data \in Seq(Letter) /\ Strings!Arg \subseteq Texts
      /\ Strings!Arg \subseteq Seq(Letter) /\ MaxText \in Nat
  BY TextTypes DEF TextSound, Texts, Short
<1>1. ASSUME NEW str \in Strings!Arg, Strings!assign(str) PROVE TextSound'
  BY <1>0, <1>1, EditSound DEF Strings!assign
<1>2. ASSUME NEW str \in Strings!Arg, Strings!concat(str), Len(_data') <= MaxText PROVE TextSound'
  BY <1>0, <1>2, ConcatSound
<1>3. ASSUME NEW str \in Strings!Arg, NEW by \in Strings!Arg, Strings!replace(str, by),
             Len(_data') <= MaxText
      PROVE  TextSound'
  <2>1. Strings!Replaced(_data, str, by) \in Seq(Letter)
    BY <1>0, ReplacedIs
  <2>2. Strings!Edit(Strings!Replaced(_data, str, by)) /\ _data' = Strings!Replaced(_data, str, by)
    BY <1>3 DEF Strings!replace, Strings!Edit
  <2>3. Strings!Replaced(_data, str, by) \in Texts
    BY <1>3, <2>1, <2>2 DEF Texts, Short
  <2> QED BY <2>2, <2>3, EditSound
<1>4. ASSUME NEW old \in Letter, NEW new \in Letter, Strings!replaceChar(old, new) PROVE TextSound'
  BY <1>0, <1>4, EditTypes, EditSound DEF Strings!replaceChar
<1>5. ASSUME NEW index \in 0 .. MaxText, NEW c \in Letter, Strings!setChar(index, c)
      PROVE  TextSound'
  <2>1. index \in Nat
    BY <1>0
  <2>2. [_data EXCEPT ![index + 1] = c] \in Texts /\ Strings!Edit([_data EXCEPT ![index + 1] = c])
    BY <1>0, <1>5, <2>1, EditTypes DEF Strings!setChar
  <2> QED BY <2>2, EditSound
<1>6. ASSUME NEW index \in 0 .. MaxText, NEW count \in 0 .. MaxText, Strings!remove(index, count)
      PROVE  TextSound'
  <2>1. index \in Nat /\ count \in Nat
    BY <1>0
  <2> QED BY <1>0, <1>6, <2>1, EditTypes, EditSound DEF Strings!remove
<1>7. CASE Strings!trim
  BY <1>0, <1>7, EditTypes, EditSound DEF Strings!trim
<1>8. CASE Strings!clear
  <2>1. SubSeq(<<>>, 1, 0) = <<>> /\ Len(<<>>) = 0
    BY SubSeqEmpty
  <2> QED BY <1>0, <1>8, <2>1, TextTypes DEF Strings!clear, TextSound
<1>9. CASE Strings!read
  BY <1>9, NextSound
<1>10. CASE UNCHANGED Strings!stringVars
  BY <1>10 DEF Strings!stringVars, TextSound
<1> QED BY <1>1, <1>2, <1>3, <1>4, <1>5, <1>6, <1>7, <1>8, <1>9, <1>10 DEF Strings!Next

LEMMA TextType == TextSound => Strings!TypeOK /\ Strings!ReadsInOrder
<1> SUFFICES ASSUME TextSound PROVE Strings!TypeOK /\ Strings!ReadsInOrder
  OBVIOUS
<1> QED BY TextTypes DEF TextSound, Strings!TypeOK, Strings!ReadsInOrder

(* SPIFFS.cpp, WString.h: a File whose file is neither cut nor replaced    *)
(* under it has read exactly the file's first bytes, each of them once,    *)
(* whatever other Files append to it and whatever happens to other paths;  *)
(* and who reads a String that only grows gets it from its beginning, each *)
(* character once, and never more than there is.                           *)
THEOREM TextsAreReadInOrder == AllSpec => []ReadersGetTheText
<1>1. AllInit => FilesSound /\ TextSound
  BY FilesInit, TextInit DEF AllInit
<1>2. FilesSound /\ TextSound /\ [AllNext]_allVars => FilesSound' /\ TextSound'
  <2> SUFFICES ASSUME FilesSound, TextSound, [AllNext]_allVars PROVE FilesSound' /\ TextSound'
    OBVIOUS
  <2>1. [Files!Next]_(Files!spiffsVars) /\ [Strings!Next]_(Strings!stringVars)
    BY OneMoves
  <2>2. FilesSound'
    BY <2>1, FilesStep
  <2>3. TextSound'
    BY <2>1, TextStep
  <2> QED BY <2>2, <2>3
<1>3. FilesSound /\ TextSound => ReadersGetTheText
  BY FilesType, TextType DEF ReadersGetTheText
<1> QED BY <1>1, <1>2, <1>3, PTL DEF AllSpec

(* WString.h: replace substitutes every occurrence that the text has       *)
(* before the call, from the left, and none that its own edits make.       *)
THEOREM ReplaceSubstitutesOnce == AllSpec => []ReplaceIsSimultaneous
<1>1. AllInit => TextSound
  BY TextInit DEF AllInit
<1>2. TextSound /\ [AllNext]_allVars => TextSound'
  BY OneMoves, TextStep
<1>3. TextSound => ReplaceIsSimultaneous
  <2> SUFFICES ASSUME TextSound, NEW str \in Strings!Arg, NEW by \in Strings!Arg, str # <<>>
               PROVE  Strings!Replaced(_data, str, by) = Strings!Rewritten(str, by)[_data]
    BY DEF ReplaceIsSimultaneous, Strings!ReplaceIsSimultaneous
  <2>1. _data \in Seq(Letter) /\ str \in Seq(Letter) /\ by \in Seq(Letter)
    BY TextTypes DEF TextSound, Texts, Short
  <2> QED BY <2>1, ReplacedIs
<1> QED BY <1>1, <1>2, <1>3, PTL DEF AllSpec

(* What the searches find, and what the cuts give, in _data.               *)
LEMMA SubstringIs ==
  ASSUME NEW text \in Seq(Letter), NEW i \in Nat, NEW j \in Nat, i <= j, j <= Len(text)
  PROVE  Strings!substring(text, i, j) = SubSeq(text, i + 1, j)
<1>1. Strings!AtLeast0(i) = i /\ Strings!AtLeast0(j) = j
  BY DEF Strings!AtLeast0
<1>2. ~(j < i) /\ ~(j - i > Len(text) - i) /\ i + (j - i) = j
  OBVIOUS
<1> QED BY <1>1, <1>2 DEF Strings!substring, Strings!substr

LEMMA PrefixesAgree ==
  ASSUME NEW text \in Seq(Letter), NEW str \in Seq(Letter)
  PROVE  Strings!startsWith(text, str) <=> Strings!IsPrefix(str, text)
<1>1. FirstFrom(Strings!find(text, str, 0), text, str, 0)
  BY FindIs
<1>2. Strings!find(text, str, 0) = 0 <=> Occurs(text, str, 0)
  <2>1. ASSUME NEW hit, FirstFrom(hit, text, str, 0) PROVE hit = 0 <=> Occurs(text, str, 0)
    <3>1. \A i : Occurs(text, str, i) => i \in Nat
      BY DEF Occurs
    <3> QED BY <2>1, <3>1 DEF FirstFrom
  <2> QED BY <1>1, <2>1
<1>3. SubSeq(str, 1, Len(str)) = str
  BY SubSeqFull
<1>4. 0 + 1 = 1 /\ 0 + Len(str) = Len(str)
  OBVIOUS
<1>5. Occurs(text, str, 0) <=> Len(str) <= Len(text) /\ SubSeq(text, 1, Len(str)) = str
  BY <1>4 DEF Occurs
<1>6. Strings!IsPrefix(str, text) <=> Len(str) <= Len(text) /\ str = SubSeq(text, 1, Len(str))
  BY <1>3 DEF Strings!IsPrefix
<1> QED BY <1>2, <1>5, <1>6 DEF Strings!startsWith

(* Cutting gives str exactly where str occurs.                             *)
LEMMA CutsOccur ==
  ASSUME NEW text \in Seq(Letter), NEW str \in Seq(Letter), NEW i \in 0 .. Len(text)
  PROVE  Strings!substring(text, i, i + Len(str)) = str <=> Occurs(text, str, i)
<1>1. PICK l \in Nat, n \in Nat : l = Len(text) /\ n = Len(str)
  OBVIOUS
<1>2. i \in Nat /\ i + n \in Nat /\ i <= i + n /\ i <= l
  BY <1>1
<1>3. CASE i + n <= l
  <2>1. Strings!substring(text, i, i + n) = SubSeq(text, i + 1, i + n)
    BY <1>1, <1>2, <1>3, SubstringIs
  <2> QED BY <1>1, <1>2, <1>3, <2>1 DEF Occurs
<1>4. CASE ~(i + n <= l)
  <2>1. Strings!substring(text, i, i + n) = SubSeq(text, i + 1, l)
    <3>1. Strings!AtLeast0(i) = i /\ Strings!AtLeast0(i + n) = i + n
      BY <1>2 DEF Strings!AtLeast0
    <3>2. ~(i + n < i) /\ (i + n) - i > l - i
      BY <1>2, <1>4
    <3> QED BY <1>1, <3>1, <3>2 DEF Strings!substring, Strings!substr
  <2>2. Len(SubSeq(text, i + 1, l)) = l - i
    BY <1>1, <1>2, RestType
  <2>3. l - i # n
    BY <1>2, <1>4
  <2> QED BY <1>1, <1>4, <2>1, <2>2, <2>3 DEF Occurs
<1> QED BY <1>3, <1>4

LEMMA OccurrencesOccur ==
  ASSUME _data \in Seq(Letter), NEW str \in Seq(Letter)
  PROVE  \A i : i \in Strings!Occurrences(str) <=> Occurs(_data, str, i)
<1>1. ASSUME NEW i, Occurs(_data, str, i) PROVE i \in 0 .. Len(_data)
  <2>1. PICK l \in Nat, n \in Nat : l = Len(_data) /\ n = Len(str)
    OBVIOUS
  <2> QED BY <1>1, <2>1 DEF Occurs
<1> QED BY <1>1, CutsOccur, Zenon DEF Strings!Occurrences

(* indexOf gives the first place at or behind i, if there is one.          *)
LEMMA IndexIsFirst ==
  ASSUME _data \in Seq(Letter), NEW str \in Seq(Letter), NEW i \in Int,
         NEW found, found = Strings!indexOf(_data, str, i),
         NEW behind, behind = {j \in Strings!Occurrences(str) : i <= j}
  PROVE  IF behind = {} THEN found = Strings!npos
         ELSE found \in behind /\ \A j \in behind : found <= j
<1>1. PICK pos \in Nat : pos = Strings!AtLeast0(i) /\ \A j \in Nat : i <= j <=> pos <= j
  BY DEF Strings!AtLeast0
<1>2. FirstFrom(found, _data, str, pos)
  BY <1>1, FindIs DEF Strings!indexOf
<1>3. \A j : j \in behind <=> Occurs(_data, str, j) /\ pos <= j
  <2>1. \A j : Occurs(_data, str, j) => j \in Nat
    BY DEF Occurs
  <2> QED BY <1>1, <2>1, OccurrencesOccur
<1>4. CASE found = -1 /\ \A j : Occurs(_data, str, j) => j < pos
  <2>1. ASSUME NEW j, Occurs(_data, str, j), pos <= j PROVE FALSE
    <3>1. j \in Nat /\ j < pos
      BY <1>4, <2>1 DEF Occurs
    <3> QED BY <2>1, <3>1
  <2>2. behind = {}
    BY <1>3, <2>1
  <2> QED BY <1>4, <2>2 DEF Strings!npos
<1>5. CASE /\ Occurs(_data, str, found) /\ pos <= found
           /\ \A j : Occurs(_data, str, j) /\ pos <= j => found <= j
  BY <1>3, <1>5, Zenon
<1> QED BY <1>2, <1>4, <1>5 DEF FirstFrom

LEMMA LastIndexIsLast ==
  ASSUME _data \in Seq(Letter), NEW str \in Seq(Letter),
         NEW found, found = Strings!lastIndexOf(_data, str)
  PROVE  IF Strings!Occurrences(str) = {} THEN found = Strings!npos
         ELSE found \in Strings!Occurrences(str) /\ \A j \in Strings!Occurrences(str) : j <= found
<1>1. PICK n \in Nat : n = Len(_data)
  OBVIOUS
<1>2. PICK T \in SUBSET (0 .. n) : T = Strings!Matches(_data, str)
  BY <1>1, MatchesOccur
<1>3. T = Strings!Occurrences(str)
  BY <1>2, MatchesOccur, OccurrencesOccur
<1>4. found = Strings!Largest(T)
  BY <1>2 DEF Strings!lastIndexOf, Strings!rfind
<1>5. /\ T = {} => found = -1
      /\ T # {} => found \in T /\ \A j \in T : found >= j
  BY <1>4, LargestIs, Zenon
<1>6. \A j, k \in T : k >= j <=> j <= k
  <2>1. \A j \in T : j \in Nat
    OBVIOUS
  <2> QED BY <2>1
<1> QED BY <1>3, <1>5, <1>6 DEF Strings!npos

LEMMA RemovedIsLeftOut ==
  ASSUME NEW text \in Seq(Letter), NEW i \in Nat, NEW n \in Nat, ~Strings!SubstringThrows(text, i)
  PROVE  Strings!Removed(text, i, n) = Strings!substring(text, 0, i) \o
           (IF Strings!SubstringThrows(text, i + n) THEN <<>>
            ELSE Strings!substring(text, i + n, Len(text)))
<1>1. PICK l \in Nat : l = Len(text)
  OBVIOUS
<1>2. Strings!AtLeast0(i) = i /\ Strings!AtLeast0(i + n) = i + n
  BY DEF Strings!AtLeast0
<1>3. i <= l /\ (Strings!SubstringThrows(text, i + n) <=> i + n > l)
  BY <1>1, <1>2 DEF Strings!SubstringThrows
<1>4. PICK a, b : /\ a = (IF i < l THEN i ELSE l) /\ b = (IF i + n < l THEN i + n ELSE l)
                  /\ IsRemoval(Strings!Removed(text, i, n), text, a, b)
  BY <1>1, RemovedIs
<1>5. a = i /\ b = IF i + n > l THEN l ELSE i + n
  BY <1>3, <1>4
<1>6. Strings!Removed(text, i, n) = SubSeq(text, 1, i) \o SubSeq(text, b + 1, l)
  BY <1>1, <1>4, <1>5 DEF IsRemoval
<1>7. Strings!substring(text, 0, i) = SubSeq(text, 1, i)
  <2>1. 0 \in Nat /\ 0 <= i /\ 0 + 1 = 1
    OBVIOUS
  <2> QED BY <1>1, <1>3, <2>1, SubstringIs
<1>8. CASE i + n > l
  <2>1. SubSeq(text, l + 1, l) = <<>>
    BY SubSeqEmpty
  <2> QED BY <1>3, <1>5, <1>6, <1>7, <1>8, <2>1
<1>9. CASE ~(i + n > l)
  <2>1. Strings!substring(text, i + n, l) = SubSeq(text, i + n + 1, l)
    <3>1. PICK k \in Nat : k = i + n /\ k <= l /\ l <= l
      BY <1>9
    <3>2. Strings!substring(text, k, l) = SubSeq(text, k + 1, l)
      BY <1>1, <3>1, SubstringIs
    <3> QED BY <3>1, <3>2
  <2> QED BY <1>1, <1>3, <1>5, <1>6, <1>7, <1>9, <2>1
<1> QED BY <1>8, <1>9

LEMMA SuffixesAgree ==
  ASSUME NEW text \in Seq(Letter), NEW str \in Seq(Letter)
  PROVE  Strings!endsWith(text, str) <=> Strings!IsSuffix(str, text)
<1>1. PICK n \in Nat, l \in Nat : n = Len(str) /\ l = Len(text)
  OBVIOUS
<1>2. Strings!Reverse(str) = Backwards(str) /\ Strings!Reverse(text) = Backwards(text)
  BY DEF Strings!Reverse, Backwards
<1>3. /\ Len(Backwards(str)) = n /\ Len(Backwards(text)) = l
      /\ Strings!IsSuffix(str, text)
          <=> n <= l /\ SubSeq(Backwards(str), 1, n) = SubSeq(Backwards(text), 1, n)
  <2>1. Len(Backwards(str)) = n /\ Len(Backwards(text)) = l
    BY <1>1 DEF Backwards
  <2> QED BY <1>2, <2>1 DEF Strings!IsSuffix, Strings!IsPrefix
<1>4. CASE n <= l
  <2>1. PICK d \in Nat : d = l - n /\ l = d + n
    BY <1>4
  <2>2. SubSeq(text, d + 1, d + n) = str
          <=> SubSeq(Backwards(str), 1, n) = SubSeq(Backwards(text), 1, n)
    <3>1. EndsSame(text, str, d)
      <4>1. Len(text) = d + Len(str)
        BY <1>1, <2>1
      <4> QED BY <4>1, EndsBackwards, Zenon
    <3> QED BY <1>1, <3>1 DEF EndsSame
  <2>3. Strings!substr(text, l - n, n) = SubSeq(text, d + 1, d + n)
    <3>1. ~(n > l - d)
      BY <2>1
    <3> QED BY <1>1, <2>1, <3>1 DEF Strings!substr
  <2>4. Strings!endsWith(text, str) <=> SubSeq(text, d + 1, d + n) = str
    BY <1>1, <1>4, <2>3 DEF Strings!endsWith
  <2> QED BY <1>3, <1>4, <2>2, <2>4
<1>5. CASE ~(n <= l)
  BY <1>1, <1>3, <1>5 DEF Strings!endsWith
<1> QED BY <1>4, <1>5

(* trim takes blanks off both ends, and there is nothing left to take off. *)
LEMMA TrimTakesEnds ==
  ASSUME NEW text \in Seq(Letter), NEW a, NEW b, IsTrim(Strings!Trimmed(text), text, a, b)
  PROVE  /\ text = Strings!substring(text, 0, a) \o Strings!Trimmed(text)
                     \o Strings!substring(text, b, Len(text))
         /\ Strings!ToSet(Strings!substring(text, 0, a)
                            \o Strings!substring(text, b, Len(text))) \subseteq Blank
<1>1. PICK l \in Nat : l = Len(text)
  OBVIOUS
<1>2. /\ a \in Nat /\ b \in Nat /\ a <= b /\ b <= l
      /\ Strings!Trimmed(text) = SubSeq(text, a + 1, b)
      /\ \A i \in 1 .. a : text[i] \in Blank
      /\ \A i \in b + 1 .. l : text[i] \in Blank
  BY <1>1 DEF IsTrim
<1>3. PICK s \in Seq(Letter) : /\ s = Strings!substring(text, 0, a) /\ s = SubSeq(text, 1, a)
                               /\ Len(s) = a /\ \A i \in 1 .. a : s[i] = text[i]
  <2>1. a \in 0 .. Len(text) /\ 0 \in Nat /\ 0 <= a /\ 0 + 1 = 1 /\ a <= Len(text)
    BY <1>1, <1>2
  <2>2. Strings!substring(text, 0, a) = SubSeq(text, 1, a)
    BY <1>2, <2>1, SubstringIs
  <2> QED BY <2>1, <2>2, PrefixType, Zenon
<1>4. PICK t \in Seq(Letter) : /\ t = Strings!substring(text, b, l) /\ t = SubSeq(text, b + 1, l)
                               /\ IsCut(t, text, b, l - b)
  <2>1. b \in 0 .. Len(text) /\ l <= Len(text)
    BY <1>1, <1>2
  <2>2. Strings!substring(text, b, l) = SubSeq(text, b + 1, l)
    BY <1>1, <1>2, <2>1, SubstringIs
  <2> QED BY <1>1, <2>1, <2>2, RestPick, Zenon
<1>5. SubSeq(text, 1, a) \o SubSeq(text, a + 1, b) = SubSeq(text, 1, b)
  <2>1. PICK k \in Nat : k = b - a /\ a + k = b /\ a + k <= Len(text)
    BY <1>1, <1>2
  <2>2. SubSeq(text, 1, a) \o SubSeq(text, a + 1, a + k) = SubSeq(text, 1, a + k)
    BY <1>2, <2>1, CutsMeet, Zenon
  <2> QED BY <2>1, <2>2
<1>6. SubSeq(text, 1, b) \o SubSeq(text, b + 1, l) = text
  <2>1. PICK k \in Nat : b + k = l /\ b + k <= Len(text)
    <3>1. l - b \in Nat /\ b + (l - b) = l /\ b + (l - b) <= Len(text)
      BY <1>1, <1>2
    <3> QED BY <3>1, Zenon
  <2>2. SubSeq(text, 1, b) \o SubSeq(text, b + 1, b + k) = SubSeq(text, 1, b + k)
    BY <1>2, <2>1, CutsMeet, Zenon
  <2>3. SubSeq(text, 1, l) = text
    BY <1>1, SubSeqFull
  <2> QED BY <2>1, <2>2, <2>3
<1>7. text = (s \o Strings!Trimmed(text)) \o t
  BY <1>2, <1>3, <1>4, <1>5, <1>6
<1>8. ASSUME NEW e \in Strings!ToSet(s \o t) PROVE e \in Blank
  <2>1. IsConcat(s \o t, s, t) /\ s \o t \in Seq(Letter) /\ Len(t) = l - b
    BY <1>4, ConcatPick DEF IsCut
  <2>2. PICK i \in 1 .. Len(s \o t) : e = (s \o t)[i]
    BY <2>1 DEF Strings!ToSet
  <2>3. i \in 1 .. a + (l - b) /\ e = IF i <= a THEN s[i] ELSE t[i - a]
    BY <1>2, <1>3, <2>1, <2>2 DEF IsConcat
  <2>4. CASE i <= a
    <3>1. i \in 1 .. a
      BY <2>3, <2>4
    <3> QED BY <1>2, <1>3, <2>3, <2>4, <3>1
  <2>5. CASE ~(i <= a)
    <3>1. i - a \in 1 .. l - b /\ b + (i - a) \in b + 1 .. l
      BY <1>2, <2>3, <2>5
    <3>2. e = text[b + (i - a)]
      BY <1>4, <2>3, <2>5, <3>1 DEF IsCut
    <3> QED BY <1>2, <3>1, <3>2
  <2> QED BY <2>4, <2>5
<1> QED BY <1>1, <1>3, <1>4, <1>7, <1>8

LEMMA TrimLeavesNoBlank ==
  ASSUME NEW text \in Seq(Letter), NEW kept, kept = Strings!Trimmed(text), kept # <<>>
  PROVE  kept[1] \notin Blank /\ kept[Len(kept)] \notin Blank
<1>1. PICK a, b : IsTrim(kept, text, a, b)
  BY TrimmedIs
<1>2. /\ a \in Nat /\ b \in Nat /\ a <= b /\ b <= Len(text)
      /\ a < b => text[a + 1] \notin Blank /\ text[b] \notin Blank
  BY <1>1 DEF IsTrim
<1>3. PICK n \in Nat : a + n = b
  <2>1. b - a \in Nat /\ a + (b - a) = b
    BY <1>2
  <2> QED BY <2>1, Zenon
<1>4. PICK c \in Seq(Letter) : c = kept /\ IsCut(c, text, a, n)
  <2>1. kept = SubSeq(text, a + 1, a + n)
    BY <1>1, <1>3 DEF IsTrim
  <2>2. a + n <= Len(text)
    BY <1>2, <1>3
  <2> QED BY <1>2, <2>1, <2>2, CutPick, Zenon
<1>5. Len(c) = n /\ n # 0
  <2>1. Len(c) = n
    BY <1>4 DEF IsCut
  <2>2. Len(c) = 0 => c = <<>>
    BY EmptySeq
  <2> QED BY <1>4, <2>1, <2>2
<1>6. a < b /\ 1 \in 1 .. n /\ n \in 1 .. n
  BY <1>2, <1>3, <1>5
<1>7. c[1] = text[a + 1] /\ c[n] = text[a + n]
  BY <1>4, <1>6 DEF IsCut
<1> QED BY <1>2, <1>3, <1>4, <1>5, <1>6, <1>7

(* WString.h: startsWith and endsWith find exactly the texts that _data    *)
(* begins and ends with; indexOf finds the first, and lastIndexOf the last *)
(* of the places from which substring cuts what is looked for, and -1 only *)
(* if there is none; remove leaves out what two substrings do not give;    *)
(* and trim takes blanks off both ends, nothing else, and all of them.     *)
THEOREM SearchesFindWhatCutsGive == AllSpec => []SearchesAgreeWithCuts
<1>1. AllInit => TextSound
  BY TextInit DEF AllInit
<1>2. TextSound /\ [AllNext]_allVars => TextSound'
  BY OneMoves, TextStep
<1>3. TextSound => SearchesAgreeWithCuts
  <2> SUFFICES ASSUME TextSound PROVE Strings!SearchesAgreeWithCuts
    BY DEF SearchesAgreeWithCuts
  <2>1. _data \in Seq(Letter) /\ MaxText \in Nat
    BY TextTypes DEF TextSound, Texts, Short
  <2>2. ASSUME NEW str \in Strings!Arg
        PROVE  /\ Strings!startsWith(_data, str) <=> Strings!IsPrefix(str, _data)
               /\ Strings!endsWith(_data, str) <=> Strings!IsSuffix(str, _data)
               /\ \A i \in -1 .. MaxText :
                    LET found  == Strings!indexOf(_data, str, i)
                        behind == {j \in Strings!Occurrences(str) : i <= j}
                    IN  IF behind = {} THEN found = Strings!npos
                        ELSE found \in behind /\ \A j \in behind : found <= j
               /\ LET found == Strings!lastIndexOf(_data, str)
                  IN  IF Strings!Occurrences(str) = {} THEN found = Strings!npos
                      ELSE /\ found \in Strings!Occurrences(str)
                           /\ \A j \in Strings!Occurrences(str) : j <= found
    <3>1. str \in Seq(Letter)
      BY TextTypes DEF Short
    <3>2. \A i \in -1 .. MaxText : i \in Int
      BY <2>1
    <3>3. ASSUME NEW i \in -1 .. MaxText, NEW found, found = Strings!indexOf(_data, str, i),
                 NEW behind, behind = {j \in Strings!Occurrences(str) : i <= j}
          PROVE  IF behind = {} THEN found = Strings!npos
                 ELSE found \in behind /\ \A j \in behind : found <= j
      BY <2>1, <3>1, <3>2, <3>3, IndexIsFirst, Zenon
    <3> QED BY <2>1, <3>1, <3>3, PrefixesAgree, SuffixesAgree, LastIndexIsLast, Zenon
  <2>3. ASSUME NEW i \in 0 .. MaxText, NEW n \in 0 .. MaxText, ~Strings!SubstringThrows(_data, i)
        PROVE  Strings!Removed(_data, i, n) = Strings!substring(_data, 0, i) \o
                 (IF Strings!SubstringThrows(_data, i + n) THEN <<>>
                  ELSE Strings!substring(_data, i + n, Len(_data)))
    <3>1. i \in Nat /\ n \in Nat
      BY <2>1
    <3> QED BY <2>1, <2>3, <3>1, RemovedIsLeftOut, Zenon
  <2>4. PICK a, b : IsTrim(Strings!Trimmed(_data), _data, a, b)
    BY <2>1, TrimmedIs
  <2>5. a \in 0 .. Len(_data) /\ b \in 0 .. Len(_data)
    BY <2>1, <2>4 DEF IsTrim
  <2>6. /\ _data = Strings!substring(_data, 0, a) \o Strings!Trimmed(_data)
                     \o Strings!substring(_data, b, Len(_data))
        /\ Strings!ToSet(Strings!substring(_data, 0, a)
                           \o Strings!substring(_data, b, Len(_data))) \subseteq Blank
    BY <2>1, <2>4, TrimTakesEnds, Zenon
  <2>7. LET kept == Strings!Trimmed(_data)
        IN  kept # <<>> => kept[1] \notin Blank /\ kept[Len(kept)] \notin Blank
    BY <2>1, TrimLeavesNoBlank, Zenon
  <2> QED BY <2>2, <2>3, <2>5, <2>6, <2>7, Zenon DEF Strings!SearchesAgreeWithCuts
<1> QED BY <1>1, <1>2, <1>3, PTL DEF AllSpec
-----------------------------------------------------------------------------
(* Preferences.h.                                                          *)
Values == Short(ValueByte, MaxValue)

(* The store has what was put last.                                        *)
StoreIsPut == _store = put /\ put \in [Key -> Values \cup {Absent}]

LEMMA ValueType == Flash!Value = Values /\ Absent \notin Values
BY ShortSequences, PeripheralsAssumption
   DEF PeripheralsAssumption, Values, Short, Flash!Value, Flash!BoundedSeq, Flash!SeqOf

LEMMA StoreStep ==
  ASSUME StoreIsPut, [Flash!Next]_(Flash!prefVars)
  PROVE  StoreIsPut'
<1> USE DEF StoreIsPut
<1>1. ASSUME NEW k \in Key, NEW val \in Values, Flash!putBytes(k, val) PROVE StoreIsPut'
  BY <1>1 DEF Flash!putBytes
<1>2. ASSUME NEW k \in Key, NEW size \in Sizes, Flash!putTyped(k, size) PROVE StoreIsPut'
  <2>1. PICK val \in [1 .. size -> ValueByte] : Flash!putBytes(k, val)
    BY <1>2 DEF Flash!putTyped
  <2>2. size \in Nat /\ size <= MaxValue
    BY PeripheralsAssumption DEF PeripheralsAssumption
  <2>3. val \in Seq(ValueByte) /\ Len(val) = size
    BY <2>2
  <2>4. val \in Values
    BY <2>2, <2>3 DEF Values, Short
  <2> QED BY <1>1, <2>1, <2>4
<1>3. ASSUME NEW K, Flash!Forget(K) PROVE StoreIsPut'
  BY <1>3 DEF Flash!Forget
<1>4. CASE UNCHANGED Flash!prefVars
  BY <1>4 DEF Flash!prefVars
<1>5. CASE Flash!Next
  BY <1>1, <1>2, <1>3, <1>5, ValueType
     DEF Flash!Next, Flash!putString, Flash!remove, Flash!clear
<1> QED BY <1>4, <1>5

LEMMA TypedGetIs ==
  ASSUME StoreIsPut, NEW k \in Key, put[k] # Absent,
         NEW def \in [DOMAIN put[k] -> ValueByte]
  PROVE  Flash!getTyped(k, def) = put[k]
<1>1. PICK v \in Seq(ValueByte) : v = put[k] /\ v = _store[k]
  BY DEF StoreIsPut, Values, Short
<1>2. PICK n \in Nat : n = Len(v) /\ DOMAIN v = 1 .. n
  BY LenProperties
<1>3. def \in [1 .. n -> ValueByte] /\ Len(def) = n
  BY <1>1, <1>2
<1>4. Flash!Smaller(n, n) = n
  BY DEF Flash!Smaller
<1>5. Flash!getTyped(k, def) = [i \in 1 .. n |-> IF i <= n THEN v[i] ELSE def[i]]
  BY <1>1, <1>2, <1>3, <1>4
     DEF Flash!getTyped, Flash!getBytes, Flash!isKey, Flash!Copy
<1>6. v = [i \in 1 .. n |-> v[i]]
  BY <1>2
<1>7. \A i \in 1 .. n : (IF i <= n THEN v[i] ELSE def[i]) = v[i]
  OBVIOUS
<1> QED BY <1>1, <1>5, <1>6, <1>7

LEMMA StringGetIs ==
  ASSUME StoreIsPut, NEW k \in Key, put[k] # Absent, 0 \notin Flash!ToSet(put[k]),
         NEW n \in 1 .. MaxValue, NEW buf \in [1 .. n -> ValueByte]
  PROVE  \E end \in 1 .. n :
           /\ Flash!getString(k, buf)[end] = 0
           /\ SubSeq(Flash!getString(k, buf), 1, end - 1)
                = SubSeq(put[k], 1, Flash!Smaller(n - 1, Len(put[k])))
<1>1. PICK v \in Seq(ValueByte) : v = put[k] /\ v = _store[k]
  BY DEF StoreIsPut, Values, Short
<1>2. PICK l \in Nat : l = Len(v) /\ DOMAIN v = 1 .. l
  BY LenProperties
<1>3. n \in Nat \ {0} /\ Len(buf) = n /\ 0 \in ValueByte
  BY PeripheralsAssumption DEF PeripheralsAssumption
<1>4. PICK c \in Nat : c = Flash!Smaller(n - 1, l) /\ c <= l /\ c + 1 <= n /\ (c = l \/ c + 1 = n)
  BY <1>3 DEF Flash!Smaller
<1>5. PICK text \in Seq(ValueByte) : /\ text = Append(v, 0) /\ Len(text) = l + 1
                                     /\ text[l + 1] = 0 /\ \A i \in 1 .. l : text[i] = v[i]
  <2>1. /\ Append(v, 0) \in Seq(ValueByte) /\ Len(Append(v, 0)) = l + 1
        /\ Append(v, 0)[l + 1] = 0 /\ \A i \in 1 .. l : Append(v, 0)[i] = v[i]
    BY <1>2, <1>3, AppendProperties
  <2> QED BY <2>1, Zenon
<1>6. PICK m \in Nat : m = Flash!Smaller(l + 1, n) /\ m <= l + 1 /\ m <= n /\ (m = l + 1 \/ m = n)
  BY <1>3 DEF Flash!Smaller
<1>7. PICK copy : copy = [i \in 1 .. n |-> IF i <= m THEN text[i] ELSE buf[i]]
  OBVIOUS
<1>8. copy \in [1 .. n -> ValueByte]
  <2>1. \A i \in 1 .. n : i <= m => text[i] \in ValueByte
    <3>1. \A i \in 1 .. n : i <= m => i \in 1 .. Len(text)
      BY <1>5, <1>6
    <3> QED BY <3>1, ElementOfSeq
  <2> QED BY <1>7, <2>1
<1>9. PICK b \in Seq(ValueByte) : /\ b = [copy EXCEPT ![n] = 0] /\ Len(b) = n
                                  /\ \A i \in 1 .. n : b[i] = IF i = n THEN 0 ELSE copy[i]
  <2>1. copy \in Seq(ValueByte) /\ Len(copy) = n /\ n \in 1 .. Len(copy)
    BY <1>3, <1>8
  <2>2. /\ [copy EXCEPT ![n] = 0] \in Seq(ValueByte) /\ Len([copy EXCEPT ![n] = 0]) = n
        /\ \A i \in 1 .. n : [copy EXCEPT ![n] = 0][i] = IF i = n THEN 0 ELSE copy[i]
    BY <1>3, <2>1, ExceptSeq
  <2> QED BY <2>2, Zenon
<1>10. Flash!getString(k, buf) = b
  <2>1. DOMAIN buf = 1 .. n
    OBVIOUS
  <2>2. Flash!Copy(buf, text, m) = copy
    BY <1>7, <2>1 DEF Flash!Copy
  <2> QED BY <1>1, <1>3, <1>5, <1>6, <1>9, <2>2 DEF Flash!getString, Flash!isKey
<1>11. \A i \in 1 .. c : b[i] = v[i]
  <2>1. ASSUME NEW i \in 1 .. c PROVE b[i] = v[i]
    <3>1. i \in 1 .. l /\ i \in 1 .. n /\ i # n /\ i <= m
      BY <1>4, <1>6
    <3> QED BY <1>5, <1>7, <1>9, <3>1
  <2> QED BY <2>1
<1>12. b[c + 1] = 0
  <2>1. c + 1 \in 1 .. n
    BY <1>4
  <2>2. CASE c + 1 = n
    BY <1>9, <2>1, <2>2
  <2>3. CASE c + 1 # n
    <3>1. c + 1 = l + 1 /\ c + 1 <= m
      BY <1>4, <1>6, <2>3
    <3> QED BY <1>5, <1>7, <1>9, <2>1, <2>3, <3>1
  <2> QED BY <2>2, <2>3
<1>13. SubSeq(b, 1, c) = SubSeq(v, 1, c)
  <2>1. c <= Len(b) /\ c <= Len(v)
    BY <1>2, <1>4, <1>9
  <2> QED BY <1>11, <2>1, PrefixEqual
<1>14. c + 1 \in 1 .. n /\ (c + 1) - 1 = c
  BY <1>4
<1> QED BY <1>1, <1>2, <1>4, <1>10, <1>12, <1>13, <1>14

(* Preferences.h: whatever is put under other keys or removed, a get of    *)
(* the type that a key was last put with gives that value and no byte of   *)
(* the default; and getString gives the string whole or, when buf is too   *)
(* short for it and its 0, a prefix, and ends it with a 0 inside of buf.   *)
THEOREM GetsGiveWhatWasPut == AllSpec => []GetsAreExact
<1>1. AllInit => StoreIsPut
  BY DEF AllInit, Flash!Init, StoreIsPut
<1>2. StoreIsPut /\ [AllNext]_allVars => StoreIsPut'
  BY OneMoves, StoreStep
<1>3. StoreIsPut => GetsAreExact
  BY TypedGetIs, StringGetIs DEF GetsAreExact, Flash!GetsAreExact
<1> QED BY <1>1, <1>2, <1>3, PTL DEF AllSpec
-----------------------------------------------------------------------------
(* Print.cpp, Stream.h and the numbers of WString.h.                        *)
(* q times radix and m more are v.                                         *)
Divided(v, radix, q, m) ==
  /\ q \in Nat /\ m \in 0 .. radix - 1 /\ q * radix + m = v
  /\ v >= 1 => q < v
  /\ v >= radix => q >= 1

LEMMA DivisionIs ==
  ASSUME NEW radix \in {2, 8, 10, 16}, NEW v \in Nat, NEW q, q = v \div radix, NEW m, m = v % radix
  PROVE  Divided(v, radix, q, m)
<1>1. CASE radix = 2
  <2>1. q = v \div 2 /\ m = v % 2
    BY <1>1
  <2>2. q \in Nat /\ m \in 0 .. 1 /\ (v >= 1 => q < v) /\ (v >= 2 => q >= 1) /\ q * 2 + m = v
    BY <2>1
  <2> QED BY <1>1, <2>2 DEF Divided
<1>2. CASE radix = 8
  <2>1. q = v \div 8 /\ m = v % 8
    BY <1>2
  <2>2. q \in Nat /\ m \in 0 .. 7 /\ (v >= 1 => q < v) /\ (v >= 8 => q >= 1) /\ q * 8 + m = v
    BY <2>1
  <2> QED BY <1>2, <2>2 DEF Divided
<1>3. CASE radix = 10
  <2>1. q = v \div 10 /\ m = v % 10
    BY <1>3
  <2>2. q \in Nat /\ m \in 0 .. 9 /\ (v >= 1 => q < v) /\ (v >= 10 => q >= 1) /\ q * 10 + m = v
    BY <2>1
  <2> QED BY <1>3, <2>2 DEF Divided
<1>4. CASE radix = 16
  <2>1. q = v \div 16 /\ m = v % 16
    BY <1>4
  <2>2. q \in Nat /\ m \in 0 .. 15 /\ (v >= 1 => q < v) /\ (v >= 16 => q >= 1) /\ q * 16 + m = v
    BY <2>1
  <2> QED BY <1>4, <2>2 DEF Divided
<1> QED BY <1>1, <1>2, <1>3, <1>4

DigitChars == Number!Range(Number!DigitChar)

(* The digits, and what each is worth.                                     *)
LEMMA DigitIs ==
  ASSUME NEW d \in 0 .. 15
  PROVE  /\ Number!DigitChar[d + 1] \in DigitChars
         /\ Number!Digit(Number!DigitChar[d + 1]) = d
         /\ d <= 9 => Number!DigitChar[d + 1] \in Number!Digits
         /\ d # 0 => Number!DigitChar[d + 1] # "0"
<1>2. DOMAIN Number!DigitChar = 1 .. 16
  BY DEF Number!DigitChar
<1>3. \A i, j \in 1 .. 16 : Number!DigitChar[i] = Number!DigitChar[j] => i = j
  BY DEF Number!DigitChar
<1>4. d + 1 \in 1 .. 16 /\ (d <= 9 => d + 1 \in 1 .. 10) /\ (d + 1) - 1 = d
  OBVIOUS
<1>5. (CHOOSE i \in DOMAIN Number!DigitChar : Number!DigitChar[i] = Number!DigitChar[d + 1]) = d + 1
  BY <1>2, <1>3, <1>4
<1>6. Number!Digit(Number!DigitChar[d + 1]) = d
  BY <1>4, <1>5 DEF Number!Digit
<1>7. d # 0 => Number!DigitChar[d + 1] # "0"
  <2>1. Number!DigitChar[1] = "0"
    BY DEF Number!DigitChar
  <2> QED BY <1>3, <1>4, <2>1
<1> QED BY <1>2, <1>4, <1>6, <1>7 DEF DigitChars, Number!Range, Number!Digits

LEMMA DigitCharIs == \A c \in DigitChars : Number!Digit(c) \in Nat
<1>1. ASSUME NEW c \in DigitChars PROVE Number!Digit(c) \in Nat
  <2>1. PICK i \in 1 .. 16 : c = Number!DigitChar[i]
    <3>1. DOMAIN Number!DigitChar = 1 .. 16
      BY DEF Number!DigitChar
    <3> QED BY <3>1 DEF DigitChars, Number!Range
  <2>2. PICK d \in 0 .. 15 : i = d + 1
    <3>1. i - 1 \in 0 .. 15 /\ i = (i - 1) + 1
      OBVIOUS
    <3> QED BY <3>1
  <2>3. Number!Digit(Number!DigitChar[d + 1]) = d
    BY DigitIs
  <2> QED BY <2>1, <2>2, <2>3
<1> QED BY <1>1

(* The last character, and those before it.                                *)
LEMMA FrontIs ==
  ASSUME NEW S, NEW s \in Seq(S), s # <<>>
  PROVE  /\ Number!Front(s) \in Seq(S) /\ Len(Number!Front(s)) = Len(s) - 1
         /\ Number!Last(s) \in S
<1>1. PICK n \in Nat : n = Len(s) /\ n # 0
  OBVIOUS
<1>2. n - 1 \in 0 .. Len(s)
  BY <1>1
<1>3. SubSeq(s, 1, n - 1) \in Seq(S) /\ Len(SubSeq(s, 1, n - 1)) = n - 1
  BY <1>2, PrefixType
<1> QED BY <1>1, <1>3 DEF Number!Front, Number!Last

LEMMA FrontOfAppend ==
  ASSUME NEW S, NEW t \in Seq(S), NEW c \in S, NEW s \in Seq(S), s = Append(t, c)
  PROVE  s # <<>> /\ Number!Front(s) = t /\ Number!Last(s) = c
<1>1. Len(s) = Len(t) + 1 /\ s[Len(s)] = c /\ \A i \in 1 .. Len(t) : s[i] = t[i]
  OBVIOUS
<1>2. Len(t) \in 0 .. Len(s) /\ Len(s) - 1 = Len(t)
  BY <1>1
<1>3. /\ SubSeq(s, 1, Len(t)) \in Seq(S) /\ Len(SubSeq(s, 1, Len(t))) = Len(t)
      /\ \A i \in 1 .. Len(t) : SubSeq(s, 1, Len(t))[i] = s[i]
  BY <1>2, PrefixType
<1>4. PICK p \in Seq(S) : p = SubSeq(s, 1, Len(t))
  BY <1>3
<1>5. Len(p) = Len(t) /\ \A i \in 1 .. Len(p) : p[i] = t[i]
  BY <1>1, <1>3, <1>4
<1>6. p = t
  BY <1>5, SeqEqual
<1> QED BY <1>1, <1>2, <1>4, <1>6 DEF Number!Front, Number!Last

(* f gives each sequence of digits what it stands for.                     *)
IsValue(f, radix) ==
  f = [run \in Seq(DigitChars) |->
         IF run = <<>> THEN 0 ELSE f[Number!Front(run)] * radix + Number!Digit(Number!Last(run))]

LEMMA ValueExists ==
  ASSUME NEW radix \in Nat
  PROVE  \E f \in [Seq(DigitChars) -> Nat] : IsValue(f, radix)
<1> DEFINE D == Seq(DigitChars)
           plus(s, v) == v * radix + Number!Digit(Number!Last(s))
<1>1. ASSUME NEW s \in D, s # <<>>, NEW v \in Nat PROVE plus(s, v) \in Nat
  <2>1. Number!Last(s) \in DigitChars
    BY <1>1, FrontIs
  <2>2. Number!Digit(Number!Last(s)) \in Nat
    BY <2>1, DigitCharIs, Zenon
  <2>3. v * radix \in Nat
    BY <1>1
  <2> QED BY <2>2, <2>3
<1> HIDE DEF plus
<1>2. PICK size \in [D -> Nat] : \A s \in D : size[s] = Len(s)
  <2>1. [s \in D |-> Len(s)] \in [D -> Nat]
    OBVIOUS
  <2> QED BY <2>1
<1>3. PICK stop \in SUBSET D : \A s \in D : s \in stop <=> s = <<>>
  <2>1. {s \in D : s = <<>>} \in SUBSET D
    OBVIOUS
  <2> QED BY <2>1
<1>4. PICK out \in [D -> Nat] : \A s \in D : out[s] = 0
  <2>1. [s \in D |-> 0] \in [D -> Nat]
    OBVIOUS
  <2> QED BY <2>1
<1>5. PICK next \in [D -> D] : \A s \in D : s # <<>> => next[s] = Number!Front(s)
  <2>1. [s \in D |-> IF s = <<>> THEN <<>> ELSE Number!Front(s)] \in [D -> D]
    BY FrontIs
  <2> QED BY <2>1
<1>6. PICK comb \in [D -> [Nat -> Nat]] :
         \A s \in D : s # <<>> => \A v \in Nat : comb[s][v] = plus(s, v)
  <2>1. [s \in D |-> [v \in Nat |-> IF s = <<>> THEN 0 ELSE plus(s, v)]] \in [D -> [Nat -> Nat]]
    BY <1>1
  <2> QED BY <2>1
<1>7. \A s \in D \ stop : size[next[s]] < size[s]
  <2>1. ASSUME NEW s \in D \ stop PROVE size[next[s]] < size[s]
    <3>1. s \in D /\ s # <<>>
      BY <1>3
    <3>2. Number!Front(s) \in D /\ Len(Number!Front(s)) = Len(s) - 1
      BY <3>1, FrontIs
    <3>3. Len(s) \in Nat
      BY <3>1
    <3> QED BY <1>2, <1>5, <3>1, <3>2, <3>3
  <2> QED BY <2>1
<1>8. Descends(D, Nat, size, stop, out, next, comb)
  BY <1>7 DEF Descends
<1>9. PICK f : Solves(f, D, Nat, stop, out, next, comb)
  BY <1>8, Recursion, Zenon
<1>10. f \in [D -> Nat] /\ \A s \in D : f[s] = IF s = <<>> THEN 0 ELSE plus(s, f[Number!Front(s)])
  <2>1. f \in [D -> Nat] /\ \A s \in D : f[s] = IF s \in stop THEN out[s] ELSE comb[s][f[next[s]]]
    BY <1>9 DEF Solves
  <2>2. ASSUME NEW s \in D PROVE f[s] = IF s = <<>> THEN 0 ELSE plus(s, f[Number!Front(s)])
    <3>1. CASE s = <<>>
      BY <1>3, <1>4, <2>1, <3>1
    <3>2. CASE s # <<>>
      BY <1>3, <1>5, <1>6, <2>1, <3>2, FrontIs
    <3> QED BY <3>1, <3>2
  <2> QED BY <2>1, <2>2
<1> QED BY <1>10 DEF plus, IsValue

LEMMA DenotedIs ==
  ASSUME NEW radix \in Nat
  PROVE  /\ Number!Denoted(<<>>, radix) = 0
         /\ \A s \in Seq(DigitChars) : Number!Denoted(s, radix) \in Nat
         /\ \A t \in Seq(DigitChars), c \in DigitChars :
              Number!Denoted(Append(t, c), radix) = Number!Denoted(t, radix) * radix + Number!Digit(c)
<1> DEFINE f == CHOOSE g : IsValue(g, radix)
<1>1. IsValue(f, radix)
  BY ValueExists
<1>2. ASSUME NEW s PROVE Number!Denoted(s, radix) = f[s]
  BY Zenon DEF Number!Denoted, IsValue, DigitChars
<1> HIDE DEF f
<1>3. \A s \in Seq(DigitChars) : f[s] = IF s = <<>> THEN 0
        ELSE f[Number!Front(s)] * radix + Number!Digit(Number!Last(s))
  BY <1>1 DEF IsValue
<1>4. ASSUME NEW t \in Seq(DigitChars), NEW c \in DigitChars
      PROVE  f[Append(t, c)] = f[t] * radix + Number!Digit(c)
  <2>1. PICK s \in Seq(DigitChars) : s = Append(t, c)
    <3>1. Append(t, c) \in Seq(DigitChars)
      OBVIOUS
    <3> QED BY <3>1, Zenon
  <2>2. s # <<>> /\ Number!Front(s) = t /\ Number!Last(s) = c
    BY <2>1, FrontOfAppend, Zenon
  <2> QED BY <1>3, <2>1, <2>2, Zenon
<1>5. \A s \in Seq(DigitChars) : f[s] \in Nat
  <2> DEFINE S == {s \in Seq(DigitChars) : f[s] \in Nat}
  <2>1. ASSUME NEW s \in Seq(DigitChars), \A r \in Seq(DigitChars) : Len(r) < Len(s) => r \in S
        PROVE  s \in S
    <3>1. CASE s = <<>>
      <4>1. f[s] = 0
        BY <1>3, <3>1
      <4> QED BY <4>1
    <3>2. CASE s # <<>>
      <4>1. /\ Number!Front(s) \in Seq(DigitChars) /\ Len(Number!Front(s)) < Len(s)
            /\ Number!Last(s) \in DigitChars
        BY <3>2, FrontIs
      <4>2. Number!Digit(Number!Last(s)) \in Nat /\ f[Number!Front(s)] \in Nat
        BY <2>1, <4>1, DigitCharIs
      <4>3. f[Number!Front(s)] * radix \in Nat
        BY <4>2
      <4>4. f[Number!Front(s)] * radix + Number!Digit(Number!Last(s)) \in Nat
        BY <4>2, <4>3
      <4> QED BY <1>3, <3>2, <4>4
    <3> QED BY <3>1, <3>2
  <2>2. PICK T : T = S
    OBVIOUS
  <2>3. PICK D : D = Seq(DigitChars)
    OBVIOUS
  <2>4. PICK size \in [D -> Nat] : \A s \in D : size[s] = Len(s)
    <3>1. [s \in D |-> Len(s)] \in [D -> Nat]
      BY <2>3
    <3> QED BY <3>1
  <2> HIDE DEF S
  <2>5. \A d \in D : (\A e \in D : size[e] < size[d] => e \in T) => d \in T
    BY <2>1, <2>2, <2>3, <2>4
  <2>6. D \subseteq T
    BY ONLY <2>5, SizeInduction, size \in [D -> Nat]
  <2> QED BY <2>2, <2>3, <2>6 DEF S
<1>6. f[<<>>] = 0
  <2>1. <<>> \in Seq(DigitChars)
    OBVIOUS
  <2> QED BY <1>3, <2>1
<1> QED BY <1>2, <1>4, <1>5, <1>6

(* Numbers that are taken apart by division.                               *)
Word == 0 .. 2 ^ LongWidth - 1

LEMMA PowersOfTwo ==
  /\ 2 ^ LongWidth \in Nat /\ 2 ^ LongWidth >= 2
  /\ \A w \in {IntWidth, LongWidth} : 2 ^ (w - 1) \in Nat \ {0} /\ 2 ^ w = 2 * 2 ^ (w - 1)
  /\ 2 ^ IntWidth <= 2 ^ (LongWidth - 1)
<1>1. \A w \in {IntWidth, LongWidth} : 2 ^ (w - 1) \in Nat \ {0} /\ 2 ^ w = 2 * 2 ^ (w - 1)
  BY PeripheralsAssumption DEF PeripheralsAssumption
<1>2. PICK n \in Nat \ {0} : n = 2 ^ (LongWidth - 1) /\ 2 ^ LongWidth = 2 * n
  BY <1>1
<1> QED BY <1>1, <1>2, PeripheralsAssumption DEF PeripheralsAssumption

LEMMA WordDivides ==
  ASSUME NEW radix \in {2, 8, 10, 16}, NEW v \in Word, v >= 1
  PROVE  v \div radix \in Word /\ v \div radix < v
<1>1. PICK q, m : q = v \div radix /\ m = v % radix
  OBVIOUS
<1>2. v \in Nat
  BY DEF Word
<1>3. q \in Nat /\ q < v
  BY <1>1, <1>2, DivisionIs DEF Divided
<1>4. q \in Word
  BY <1>3, PowersOfTwo DEF Word
<1> QED BY <1>1, <1>3, <1>4

ByDivision(f, radix, least, out, comb) ==
  /\ f \in [Word -> Seq(DigitChars)]
  /\ \A v \in Word : f[v] = IF v < least THEN out[v] ELSE comb[v][f[v \div radix]]

LEMMA DivisionRecursion ==
  ASSUME NEW radix \in {2, 8, 10, 16}, NEW least \in Nat \ {0},
         NEW out \in [Word -> Seq(DigitChars)],
         NEW comb \in [Word -> [Seq(DigitChars) -> Seq(DigitChars)]]
  PROVE  \E f : ByDivision(f, radix, least, out, comb)
<1>1. ASSUME NEW v \in Word, v >= least PROVE v \div radix \in Word /\ v \div radix < v
  <2>1. v >= 1
    BY <1>1 DEF Word
  <2> QED BY <2>1, WordDivides
<1>2. PICK size \in [Word -> Nat] : \A v \in Word : size[v] = v
  <2>1. [v \in Word |-> v] \in [Word -> Nat]
    BY DEF Word
  <2> QED BY <2>1
<1>3. PICK stop \in SUBSET Word : \A v \in Word : v \in stop <=> v < least
  <2>1. {v \in Word : v < least} \in SUBSET Word
    OBVIOUS
  <2> QED BY <2>1
<1>4. PICK next \in [Word -> Word] : \A v \in Word : v >= least => next[v] = v \div radix
  <2>1. [v \in Word |-> IF v < least THEN v ELSE v \div radix] \in [Word -> Word]
    <3>1. ASSUME NEW v \in Word PROVE (IF v < least THEN v ELSE v \div radix) \in Word
      <4>1. ~(v < least) => v >= least
        BY DEF Word
      <4> QED BY <1>1, <4>1
    <3> QED BY <3>1
  <2>2. \A v \in Word : v >= least => ~(v < least)
    BY DEF Word
  <2> QED BY <2>1, <2>2
<1>5. \A v \in Word \ stop : size[next[v]] < size[v]
  <2>1. ASSUME NEW v \in Word \ stop PROVE size[next[v]] < size[v]
    <3>1. v \in Word /\ v >= least
      BY <1>3 DEF Word
    <3> QED BY <1>1, <1>2, <1>4, <3>1
  <2> QED BY <2>1
<1>6. PICK V : V = Seq(DigitChars)
  OBVIOUS
<1>7. Descends(Word, V, size, stop, out, next, comb)
  BY <1>5, <1>6 DEF Descends
<1>8. PICK f : Solves(f, Word, V, stop, out, next, comb)
  BY <1>7, Recursion, Zenon
<1>9. f \in [Word -> V] /\ \A v \in Word : f[v] = IF v \in stop THEN out[v] ELSE comb[v][f[next[v]]]
  BY <1>8 DEF Solves
<1>10. ASSUME NEW v \in Word PROVE f[v] = IF v < least THEN out[v] ELSE comb[v][f[v \div radix]]
  <2>1. CASE v < least
    BY <1>3, <1>9, <2>1
  <2>2. CASE ~(v < least)
    <3>1. v >= least
      BY <2>2 DEF Word
    <3> QED BY <1>3, <1>4, <1>9, <2>2, <3>1
  <2> QED BY <2>1, <2>2
<1> QED BY <1>6, <1>9, <1>10 DEF ByDivision

(* The digit of a place, and that there is one.                            *)
LastDigit(v, radix) == Number!DigitChar[(v % radix) + 1]

LEMMA PlaceIs ==
  ASSUME NEW radix \in {2, 8, 10, 16}, NEW v \in Nat
  PROVE  LastDigit(v, radix) \in DigitChars
<1>1. PICK q, m : q = v \div radix /\ m = v % radix
  OBVIOUS
<1>2. m \in 0 .. 15
  BY <1>1, DivisionIs DEF Divided
<1>3. Number!DigitChar[m + 1] \in DigitChars
  BY <1>2, DigitIs
<1> QED BY <1>1, <1>3, Zenon DEF LastDigit

IsFormat(f, radix) ==
  f = [v \in Word |-> IF v < radix THEN <<Number!DigitChar[v + 1]>>
                      ELSE Append(f[v \div radix], LastDigit(v, radix))]

LEMMA FormatExists ==
  ASSUME NEW radix \in {2, 8, 10, 16}
  PROVE  \E f : IsFormat(f, radix)
<1>1. PICK V : V = Seq(DigitChars)
  OBVIOUS
<1>2. PICK out \in [Word -> V] : \A v \in Word : v < radix => out[v] = <<Number!DigitChar[v + 1]>>
  <2>1. ASSUME NEW v \in Word PROVE (IF v < radix THEN <<Number!DigitChar[v + 1]>> ELSE <<>>) \in V
    <3>1. v < radix => v \in 0 .. 15
      BY DEF Word
    <3>2. v < radix => Number!DigitChar[v + 1] \in DigitChars
      BY <3>1, DigitIs
    <3> QED BY <1>1, <3>2
  <2>2. [v \in Word |-> IF v < radix THEN <<Number!DigitChar[v + 1]>> ELSE <<>>] \in [Word -> V]
    BY <2>1
  <2> QED BY <2>2
<1>3. PICK comb \in [Word -> [V -> V]] : \A v \in Word : \A t \in V : comb[v][t] = Append(t, LastDigit(v, radix))
  <2>1. ASSUME NEW v \in Word, NEW t \in V PROVE Append(t, LastDigit(v, radix)) \in V
    <3>1. LastDigit(v, radix) \in DigitChars
      BY PlaceIs DEF Word
    <3> QED BY <1>1, <3>1
  <2>2. [v \in Word |-> [t \in V |-> Append(t, LastDigit(v, radix))]] \in [Word -> [V -> V]]
    BY <2>1
  <2> QED BY <2>2
<1>4. PICK f : ByDivision(f, radix, radix, out, comb)
  <2>1. radix \in Nat \ {0}
    OBVIOUS
  <2>2. \E f : ByDivision(f, radix, radix, out, comb)
    BY <1>1, <2>1, DivisionRecursion
  <2> QED BY <2>2
<1>5. f \in [Word -> V] /\ \A v \in Word : f[v] = IF v < radix THEN out[v] ELSE comb[v][f[v \div radix]]
  BY <1>1, <1>4 DEF ByDivision
<1>6. ASSUME NEW v \in Word
      PROVE  f[v] = IF v < radix THEN <<Number!DigitChar[v + 1]>>
                    ELSE Append(f[v \div radix], LastDigit(v, radix))
  <2>1. CASE v < radix
    BY <1>2, <1>5, <2>1
  <2>2. CASE ~(v < radix)
    <3>1. v \div radix \in Word
      <4>1. v >= 1
        BY <2>2 DEF Word
      <4> QED BY <4>1, WordDivides
    <3> QED BY <1>3, <1>5, <2>2, <3>1
  <2> QED BY <2>1, <2>2
<1> QED BY <1>5, <1>6 DEF IsFormat

LEMMA FormattedGoesOn ==
  ASSUME NEW radix \in {2, 8, 10, 16}, NEW v \in Word
  PROVE  /\ v < radix => Number!Formatted(v, radix) = <<Number!DigitChar[v + 1]>>
         /\ v >= radix => Number!Formatted(v, radix) =
              Append(Number!Formatted(v \div radix, radix), LastDigit(v, radix))
<1> DEFINE f == CHOOSE g : IsFormat(g, radix)
<1>1. IsFormat(f, radix)
  BY FormatExists
<1>2. ASSUME NEW n PROVE Number!Formatted(n, radix) = f[n]
  BY Zenon DEF Number!Formatted, IsFormat, Word, LastDigit
<1> HIDE DEF f
<1>3. f[v] = IF v < radix THEN <<Number!DigitChar[v + 1]>> ELSE Append(f[v \div radix], LastDigit(v, radix))
  BY <1>1 DEF IsFormat
<1>4. v >= radix => ~(v < radix)
  BY DEF Word
<1> QED BY <1>2, <1>3, <1>4, Zenon

(* t is the numeral of v, without a leading 0.                             *)
IsNumeral(t, v, radix) ==
  /\ t \in Seq(DigitChars) /\ Len(t) >= 1
  /\ v >= 1 => t[1] # "0"
  /\ v = 0 => Len(t) = 1
  /\ Number!Denoted(t, radix) = v
  /\ radix <= 10 => t \in Seq(Number!Digits)

LEMMA FormattedIs ==
  ASSUME NEW radix \in {2, 8, 10, 16}
  PROVE  \A v \in Word : IsNumeral(Number!Formatted(v, radix), v, radix)
<1> DEFINE S == {v \in Word : IsNumeral(Number!Formatted(v, radix), v, radix)}
<1>1. ASSUME NEW v \in Word, v < radix PROVE IsNumeral(Number!Formatted(v, radix), v, radix)
  <2>1. PICK c : c = Number!DigitChar[v + 1]
    OBVIOUS
  <2>2. v \in 0 .. 15 /\ v \in Nat
    BY <1>1 DEF Word
  <2>3. /\ c \in DigitChars /\ Number!Digit(c) = v
        /\ v <= 9 => c \in Number!Digits
        /\ v # 0 => c # "0"
    BY <2>1, <2>2, DigitIs
  <2>4. PICK t \in Seq(DigitChars) : t = <<c>>
    <3>1. <<c>> \in Seq(DigitChars)
      BY <2>3
    <3> QED BY <3>1, Zenon
  <2>5. t = Append(<<>>, c) /\ Len(t) = 1 /\ t[1] = c
    BY <2>4
  <2>6. Number!Denoted(t, radix) = v
    <3>1. radix \in Nat /\ <<>> \in Seq(DigitChars)
      OBVIOUS
    <3>2. /\ Number!Denoted(<<>>, radix) = 0
          /\ Number!Denoted(Append(<<>>, c), radix) = Number!Denoted(<<>>, radix) * radix + Number!Digit(c)
      BY <2>3, <3>1, DenotedIs
    <3>3. 0 * radix + v = v
      BY <2>2
    <3> QED BY <2>3, <2>5, <3>2, <3>3
  <2>7. radix <= 10 => t \in Seq(Number!Digits)
    BY <1>1, <2>2, <2>3, <2>4
  <2>8. IsNumeral(t, v, radix)
    BY <2>2, <2>3, <2>5, <2>6, <2>7 DEF IsNumeral
  <2> QED BY <1>1, <2>1, <2>4, <2>8, FormattedGoesOn
<1>2. ASSUME NEW v \in Word, v >= radix, v \div radix \in S
      PROVE  IsNumeral(Number!Formatted(v, radix), v, radix)
  <2>1. PICK q, m : q = v \div radix /\ m = v % radix
    OBVIOUS
  <2>2. v \in Nat /\ ~(v < radix) /\ v >= 1
    BY <1>2 DEF Word
  <2>3. q \in Nat /\ m \in 0 .. radix - 1 /\ q * radix + m = v /\ q >= 1
    <3>1. Divided(v, radix, q, m)
      BY <2>1, <2>2, DivisionIs
    <3> QED BY <1>2, <3>1, Zenon DEF Divided
  <2>4. PICK p : p = Number!Formatted(q, radix)
    OBVIOUS
  <2>5. IsNumeral(p, q, radix)
    BY <1>2, <2>1, <2>4
  <2>6. /\ p \in Seq(DigitChars) /\ Len(p) >= 1 /\ p[1] # "0"
        /\ Number!Denoted(p, radix) = q
        /\ radix <= 10 => p \in Seq(Number!Digits)
    BY <2>3, <2>5 DEF IsNumeral
  <2>7. PICK c : c = Number!DigitChar[m + 1]
    OBVIOUS
  <2>8. /\ c \in DigitChars /\ Number!Digit(c) = m
        /\ m <= 9 => c \in Number!Digits
    <3>1. m \in 0 .. 15
      BY <2>3
    <3> QED BY <2>7, <3>1, DigitIs
  <2>9. PICK t \in Seq(DigitChars) : t = Append(p, c)
    <3>1. Append(p, c) \in Seq(DigitChars)
      BY <2>6, <2>8
    <3> QED BY <3>1, Zenon
  <2>10. Number!Formatted(v, radix) = t
    <3>1. LastDigit(v, radix) = c
      BY <2>1, <2>7 DEF LastDigit
    <3> QED BY <1>2, <2>1, <2>4, <2>9, <3>1, FormattedGoesOn
  <2>11. Number!Denoted(t, radix) = v
    <3>1. radix \in Nat
      OBVIOUS
    <3>2. Number!Denoted(Append(p, c), radix) = Number!Denoted(p, radix) * radix + Number!Digit(c)
      BY <2>6, <2>8, <3>1, DenotedIs
    <3> QED BY <2>3, <2>6, <2>8, <2>9, <3>2
  <2>12. Len(t) >= 1 /\ t[1] # "0"
    BY <2>6, <2>9
  <2>13. radix <= 10 => t \in Seq(Number!Digits)
    BY <2>3, <2>6, <2>8, <2>9
  <2> QED BY <2>2, <2>10, <2>11, <2>12, <2>13 DEF IsNumeral
<1>3. ASSUME NEW v \in Word, \A n \in Word : n < v => n \in S PROVE v \in S
  <2>1. CASE v < radix
    BY <1>1, <2>1
  <2>2. CASE ~(v < radix)
    <3>1. v >= radix /\ v >= 1
      BY <2>2 DEF Word
    <3>2. v \div radix \in S
      BY <1>3, <3>1, WordDivides
    <3> QED BY <1>2, <3>1, <3>2
  <2> QED BY <2>1, <2>2
<1>4. PICK T : T = S
  OBVIOUS
<1> HIDE DEF S
<1>5. PICK size \in [Word -> Nat] : \A v \in Word : size[v] = v
  <2>1. [v \in Word |-> v] \in [Word -> Nat]
    BY DEF Word
  <2> QED BY <2>1
<1>6. \A d \in Word : (\A e \in Word : size[e] < size[d] => e \in T) => d \in T
  BY <1>3, <1>4, <1>5
<1>7. Word \subseteq T
  BY ONLY <1>6, SizeInduction, size \in [Word -> Nat]
<1> QED BY <1>4, <1>7 DEF S

(* The bits of a number, turned round, and those of String, are the        *)
(* numeral in base 2.                                                      *)
TurnsRound(r, s, c, S) ==
  Number!Reverse(s) \in Seq(S) /\ Number!Reverse(r) = Append(Number!Reverse(s), c)

LEMMA TurnedRound ==
  ASSUME NEW S, NEW s \in Seq(S), NEW c \in S, NEW r \in Seq(S), r = <<c>> \o s
  PROVE  TurnsRound(r, s, c, S)
<1>1. PICK n \in Nat : n = Len(s)
  OBVIOUS
<1>2. Len(r) = n + 1 /\ r[1] = c /\ \A i \in 1 .. n : r[i + 1] = s[i]
  BY <1>1
<1>3. PICK a \in Seq(S) : a = Number!Reverse(s) /\ Len(a) = n /\ \A i \in 1 .. n : a[i] = s[(n - i) + 1]
  <2>1. \A i \in 1 .. n : (n - i) + 1 \in 1 .. n /\ s[(n - i) + 1] \in S
    BY <1>1
  <2>2. [i \in 1 .. n |-> s[(n - i) + 1]] \in Seq(S) /\ Len([i \in 1 .. n |-> s[(n - i) + 1]]) = n
    BY <2>1
  <2> QED BY <1>1, <2>2 DEF Number!Reverse
<1>4. PICK k \in Nat : k = n + 1 /\ k = Len(r)
  BY <1>2
<1>5. PICK b \in Seq(S) : b = Number!Reverse(r) /\ Len(b) = k /\ \A i \in 1 .. k : b[i] = r[(k - i) + 1]
  <2>1. \A i \in 1 .. k : (k - i) + 1 \in 1 .. k /\ r[(k - i) + 1] \in S
    BY <1>4
  <2>2. PICK f \in [1 .. k -> S] : f = [i \in 1 .. k |-> r[(k - i) + 1]]
    BY <2>1
  <2>3. f \in Seq(S) /\ Len(f) = k
    OBVIOUS
  <2> QED BY <1>4, <2>2, <2>3 DEF Number!Reverse
<1>6. PICK d \in Seq(S) : d = Append(a, c)
  <2>1. Append(a, c) \in Seq(S)
    OBVIOUS
  <2> QED BY <2>1, Zenon
<1>7. Len(d) = k /\ \A i \in 1 .. k : b[i] = d[i]
  <2>1. Len(d) = n + 1 /\ d[n + 1] = c /\ \A i \in 1 .. n : d[i] = a[i]
    BY <1>3, <1>6
  <2>2. ASSUME NEW i \in 1 .. n PROVE b[i] = d[i]
    <3>1. PICK j \in 1 .. n : j = (n - i) + 1
      OBVIOUS
    <3>2. j + 1 = (k - i) + 1 /\ i \in 1 .. k
      BY <1>4, <3>1
    <3>3. b[i] = r[j + 1] /\ r[j + 1] = s[j] /\ a[i] = s[j]
      BY <1>2, <1>3, <1>5, <3>1, <3>2
    <3> QED BY <2>1, <3>3
  <2>3. b[k] = d[k]
    <3>1. (k - k) + 1 = 1 /\ k \in 1 .. k
      BY <1>4
    <3>2. b[k] = r[1]
      BY <1>5, <3>1
    <3> QED BY <1>2, <1>4, <2>1, <3>2
  <2>4. \A i \in 1 .. k : i \in 1 .. n \/ i = k
    BY <1>4
  <2> QED BY <1>4, <2>1, <2>2, <2>3, <2>4
<1>8. b = d
  BY <1>5, <1>7, SeqEqual
<1> QED BY <1>3, <1>5, <1>6, <1>8 DEF TurnsRound

IsBits(f) ==
  f = [v \in Word |-> IF v = 0 THEN <<>> ELSE <<LastDigit(v, 2)>> \o f[v \div 2]]

IsStringBits(f) ==
  f = [v \in Word |-> IF v = 0 THEN <<>> ELSE f[v \div 2] \o <<LastDigit(v, 2)>>]

LEMMA BitsExist == (\E f : IsBits(f)) /\ (\E f : IsStringBits(f))
<1>1. PICK V : V = Seq(DigitChars)
  OBVIOUS
<1>2. PICK out \in [Word -> V] : \A v \in Word : out[v] = <<>>
  <2>1. [v \in Word |-> <<>>] \in [Word -> V]
    BY <1>1
  <2> QED BY <2>1
<1>3. 2 \in {2, 8, 10, 16} /\ 1 \in Nat \ {0}
  OBVIOUS
<1>4. ASSUME NEW v \in Word PROVE <<LastDigit(v, 2)>> \in V
  <2>1. LastDigit(v, 2) \in DigitChars
    BY <1>3, PlaceIs DEF Word
  <2> QED BY <1>1, <2>1
<1>5. ASSUME NEW v \in Word, ~(v < 1) PROVE v \div 2 \in Word
  <2>1. v >= 1
    BY <1>5 DEF Word
  <2> QED BY <1>3, <2>1, WordDivides
<1>6. \A v \in Word : v < 1 <=> v = 0
  BY DEF Word
<1>7. \E f : IsBits(f)
  <2>1. PICK comb \in [Word -> [V -> V]] : \A v \in Word : \A t \in V : comb[v][t] = <<LastDigit(v, 2)>> \o t
    <3>1. ASSUME NEW v \in Word, NEW t \in V PROVE <<LastDigit(v, 2)>> \o t \in V
      BY <1>1, <1>4
    <3>2. [v \in Word |-> [t \in V |-> <<LastDigit(v, 2)>> \o t]] \in [Word -> [V -> V]]
      BY <3>1
    <3> QED BY <3>2
  <2>2. PICK f : ByDivision(f, 2, 1, out, comb)
    <3>1. \E f : ByDivision(f, 2, 1, out, comb)
      BY <1>1, <1>3, DivisionRecursion
    <3> QED BY <3>1
  <2>3. f \in [Word -> V] /\ \A v \in Word : f[v] = IF v < 1 THEN out[v] ELSE comb[v][f[v \div 2]]
    BY <1>1, <2>2 DEF ByDivision
  <2>4. ASSUME NEW v \in Word PROVE f[v] = IF v = 0 THEN <<>> ELSE <<LastDigit(v, 2)>> \o f[v \div 2]
    BY <1>2, <1>5, <1>6, <2>1, <2>3
  <2> QED BY <2>3, <2>4 DEF IsBits
<1>8. \E f : IsStringBits(f)
  <2>1. PICK comb \in [Word -> [V -> V]] : \A v \in Word : \A t \in V : comb[v][t] = t \o <<LastDigit(v, 2)>>
    <3>1. ASSUME NEW v \in Word, NEW t \in V PROVE t \o <<LastDigit(v, 2)>> \in V
      BY <1>1, <1>4
    <3>2. [v \in Word |-> [t \in V |-> t \o <<LastDigit(v, 2)>>]] \in [Word -> [V -> V]]
      BY <3>1
    <3> QED BY <3>2
  <2>2. PICK f : ByDivision(f, 2, 1, out, comb)
    <3>1. \E f : ByDivision(f, 2, 1, out, comb)
      BY <1>1, <1>3, DivisionRecursion
    <3> QED BY <3>1
  <2>3. f \in [Word -> V] /\ \A v \in Word : f[v] = IF v < 1 THEN out[v] ELSE comb[v][f[v \div 2]]
    BY <1>1, <2>2 DEF ByDivision
  <2>4. ASSUME NEW v \in Word PROVE f[v] = IF v = 0 THEN <<>> ELSE f[v \div 2] \o <<LastDigit(v, 2)>>
    BY <1>2, <1>5, <1>6, <2>1, <2>3
  <2> QED BY <2>3, <2>4 DEF IsStringBits
<1> QED BY <1>7, <1>8

LEMMA BitsGoOn ==
  /\ Number!Bits[0] = <<>>
  /\ \A v \in Word : v >= 1 => Number!Bits[v] = <<LastDigit(v, 2)>> \o Number!Bits[v \div 2]
<1>1. Number!Bits = CHOOSE f : IsBits(f)
  BY Zenon DEF Number!Bits, IsBits, Word, LastDigit
<1>2. IsBits(Number!Bits)
  BY <1>1, BitsExist
<1>3. \A v \in Word : Number!Bits[v] = IF v = 0 THEN <<>> ELSE <<LastDigit(v, 2)>> \o Number!Bits[v \div 2]
  BY <1>2 DEF IsBits
<1>4. 0 \in Word /\ \A v \in Word : v >= 1 => v # 0
  BY PowersOfTwo DEF Word
<1> QED BY <1>3, <1>4

LEMMA BinaryNumeral ==
  ASSUME NEW v \in Word, v >= 1
  PROVE  /\ Number!Reverse(Number!Bits[v]) = Number!Formatted(v, 2)
         /\ Number!StringBits(v) = Number!Formatted(v, 2)
<1> DEFINE g == CHOOSE f : IsStringBits(f)
           Same(n) == /\ Number!Bits[n] \in Seq(DigitChars) /\ g[n] \in Seq(DigitChars)
                      /\ n >= 1 => /\ Number!Reverse(Number!Bits[n]) = Number!Formatted(n, 2)
                                   /\ g[n] = Number!Formatted(n, 2)
           S == {n \in Word : Same(n)}
<1>1. IsStringBits(g)
  BY BitsExist
<1>2. Number!StringBits(v) = IF v = 0 THEN <<"0">> ELSE g[v]
  BY Zenon DEF Number!StringBits, IsStringBits, Word, LastDigit
<1> HIDE DEF g
<1>3. \A n \in Word : g[n] = IF n = 0 THEN <<>> ELSE g[n \div 2] \o <<LastDigit(n, 2)>>
  BY <1>1 DEF IsStringBits
<1>4. 2 \in {2, 8, 10, 16}
  OBVIOUS
<1>5. Same(0)
  <2>1. 0 \in Word
    BY PowersOfTwo DEF Word
  <2>2. g[0] = <<>> /\ Number!Bits[0] = <<>>
    BY <1>3, <2>1, BitsGoOn
  <2> QED BY <2>2
<1>6. ASSUME NEW n \in Word, n >= 1, Same(n \div 2) PROVE Same(n)
  <2>1. PICK q : q = n \div 2
    OBVIOUS
  <2>2. PICK c : c = LastDigit(n, 2)
    OBVIOUS
  <2>3. q \in Word /\ q < n
    BY <1>4, <1>6, <2>1, WordDivides
  <2>4. c \in DigitChars
    BY <1>4, <2>2, PlaceIs DEF Word
  <2>5. PICK s \in Seq(DigitChars), t \in Seq(DigitChars) : s = Number!Bits[q] /\ t = g[q]
    BY <1>6, <2>1
  <2>6. PICK r \in Seq(DigitChars), u \in Seq(DigitChars) : r = <<c>> \o s /\ u = t \o <<c>>
    <3>1. <<c>> \o s \in Seq(DigitChars) /\ t \o <<c>> \in Seq(DigitChars)
      BY <2>4
    <3> QED BY <3>1, Zenon
  <2>7. Number!Bits[n] = r /\ g[n] = u
    <3>1. n # 0
      BY <1>6
    <3>2. g[n] = g[q] \o <<c>>
      BY <1>3, <2>1, <2>2, <3>1
    <3>3. Number!Bits[n] = <<c>> \o Number!Bits[q]
      BY <1>6, <2>1, <2>2, BitsGoOn
    <3> QED BY <2>5, <2>6, <3>2, <3>3
  <2>8. Number!Reverse(s) \in Seq(DigitChars) /\ Number!Reverse(r) = Append(Number!Reverse(s), c)
    <3>1. TurnsRound(r, s, c, DigitChars)
      BY <2>4, <2>6, TurnedRound
    <3> QED BY <3>1, Zenon DEF TurnsRound
  <2>9. u = Append(t, c)
    BY <2>4, <2>6
  <2>10. CASE n >= 2
    <3>1. q >= 1
      BY <2>1, <2>10 DEF Word
    <3>2. Number!Formatted(n, 2) = Append(Number!Formatted(q, 2), c)
      BY <1>4, <2>1, <2>2, <2>10, FormattedGoesOn
    <3>3. Number!Reverse(s) = Number!Formatted(q, 2) /\ t = Number!Formatted(q, 2)
      BY <1>6, <2>1, <2>5, <3>1
    <3> QED BY <2>7, <2>8, <2>9, <3>2, <3>3
  <2>11. CASE n = 1
    <3>1. q = 0 /\ 1 % 2 = 1
      BY <2>1, <2>11
    <3>2. s = <<>> /\ t = <<>>
      BY <1>3, <2>3, <2>5, <3>1, BitsGoOn
    <3>3. Number!Reverse(s) = <<>>
      BY <3>2 DEF Number!Reverse
    <3>4. Number!Formatted(n, 2) = <<c>>
      <4>1. Number!Formatted(n, 2) = <<Number!DigitChar[n + 1]>>
        BY <1>4, <2>11, FormattedGoesOn
      <4> QED BY <2>2, <2>11, <3>1, <4>1 DEF LastDigit
    <3>5. Append(<<>>, c) = <<c>>
      OBVIOUS
    <3> QED BY <2>7, <2>8, <2>9, <3>2, <3>3, <3>4, <3>5
  <2> QED BY <1>6, <2>10, <2>11 DEF Word
<1> HIDE DEF Same
<1>7. ASSUME NEW n \in Word, \A m \in Word : m < n => m \in S PROVE n \in S
  <2>1. CASE n = 0
    BY <1>5, <2>1
  <2>2. CASE n # 0
    <3>1. n >= 1
      BY <2>2 DEF Word
    <3> QED BY <1>4, <1>6, <1>7, <3>1, WordDivides
  <2> QED BY <2>1, <2>2
<1>8. PICK T : T = S
  OBVIOUS
<1> HIDE DEF S
<1>9. PICK size \in [Word -> Nat] : \A n \in Word : size[n] = n
  <2>1. [n \in Word |-> n] \in [Word -> Nat]
    BY DEF Word
  <2> QED BY <2>1
<1>10. \A d \in Word : (\A e \in Word : size[e] < size[d] => e \in T) => d \in T
  BY <1>7, <1>8, <1>9
<1>11. Word \subseteq T
  BY ONLY <1>10, SizeInduction, size \in [Word -> Nat]
<1>12. Same(v)
  BY <1>8, <1>11 DEF S
<1>13. v # 0
  BY DEF Word
<1> QED BY <1>2, <1>12, <1>13 DEF Same

(* What print makes of a number, as an int and as a long.                  *)
LEMMA WrapIs ==
  ASSUME NEW w \in {IntWidth, LongWidth}, NEW v \in Number!Signed(w)
  PROVE  Number!Wrap(v, w) = v
<1>1. PICK p \in Nat \ {0} : p = 2 ^ (w - 1) /\ 2 ^ w = 2 * p
  BY PowersOfTwo
<1>2. v \in -p .. p - 1
  BY <1>1 DEF Number!Signed
<1>3. PICK n \in Nat, m \in Nat : n = v + p /\ m = 2 * p /\ n < m
  <2>1. v + p \in Nat /\ 2 * p \in Nat /\ v + p < 2 * p
    BY <1>2
  <2> QED BY <2>1
<1>4. n % m = n
  BY <1>3, SmallRemainder
<1>5. Number!Wrap(v, w) = n - p
  BY <1>1, <1>3, <1>4, Zenon DEF Number!Wrap
<1> QED BY <1>2, <1>3, <1>5

LEMMA BitsOfIs ==
  ASSUME NEW w \in {IntWidth, LongWidth}, NEW v \in Number!Signed(w)
  PROVE  /\ v \in Number!Signed(LongWidth) /\ v \in Int
         /\ Number!ToUnsignedLong(v) \in Word
         /\ v >= 0 => Number!ToUnsignedLong(v) = v
<1>1. PICK p \in Nat \ {0} : p = 2 ^ (LongWidth - 1) /\ 2 ^ LongWidth = 2 * p
  BY PowersOfTwo
<1>2. v \in -p .. p - 1
  <2>1. CASE w = LongWidth
    BY <1>1, <2>1 DEF Number!Signed
  <2>2. CASE w = IntWidth
    <3>1. PICK r \in Nat \ {0} : r = 2 ^ (IntWidth - 1) /\ 2 ^ IntWidth = 2 * r
      BY PowersOfTwo
    <3>2. 2 * r <= p
      BY <1>1, <3>1, PowersOfTwo
    <3> QED BY <2>2, <3>1, <3>2 DEF Number!Signed
  <2> QED BY <2>1, <2>2
<1>3. PICK m \in Nat \ {0} : m = 2 * p
  OBVIOUS
<1>4. v % m \in 0 .. m - 1
  BY <1>2
<1>5. v >= 0 => v % m = v
  <2>1. SUFFICES ASSUME v >= 0 PROVE v % m = v
    OBVIOUS
  <2>2. v \in Nat /\ m \in Nat /\ v < m
    BY <1>2, <1>3, <2>1
  <2> QED BY <2>2, SmallRemainder
<1>6. Number!ToUnsignedLong(v) = v % m /\ Word = 0 .. m - 1
  BY <1>1, <1>3 DEF Number!ToUnsignedLong, Word
<1> QED BY <1>1, <1>2, <1>4, <1>5, <1>6 DEF Number!Signed

LEMMA MagnitudeIs ==
  ASSUME NEW w \in {IntWidth, LongWidth}, NEW v \in Number!Signed(w), v < 0
  PROVE  Number!Magnitude(v, w) = -v /\ -v \in Word /\ -v \in Nat /\ -v >= 1
<1>1. PICK p \in Nat \ {0} : p = 2 ^ (w - 1) /\ 2 ^ w = 2 * p
  BY PowersOfTwo
<1>2. v \in -p .. -1
  BY <1>1 DEF Number!Signed
<1>3. PICK n \in 0 .. p - 1 : n = -(v + 1)
  <2>1. -(v + 1) \in 0 .. p - 1
    BY <1>2
  <2> QED BY <2>1
<1>4. v + 1 \in Number!Signed(w) /\ n \in Number!Signed(w)
  BY <1>1, <1>2, <1>3 DEF Number!Signed
<1>5. Number!Wrap(v + 1, w) = v + 1 /\ Number!Wrap(n, w) = n
  BY <1>4, WrapIs
<1>6. n \in Word /\ Number!ToUnsignedLong(n) = n
  BY <1>3, <1>4, BitsOfIs
<1>7. Number!Magnitude(v, w) = n + 1
  BY <1>3, <1>5, <1>6, Zenon DEF Number!Magnitude
<1>8. -v = n + 1 /\ n + 1 \in Nat /\ n + 1 >= 1
  BY <1>2, <1>3
<1>9. n + 1 \in Word
  <2>1. PICK q \in Nat \ {0} : q = 2 ^ (LongWidth - 1) /\ 2 ^ LongWidth = 2 * q
    BY PowersOfTwo
  <2>2. n \in Number!Signed(LongWidth)
    BY <1>4, BitsOfIs
  <2>3. n \in -q .. q - 1
    BY <2>1, <2>2 DEF Number!Signed
  <2> QED BY <1>3, <2>1, <2>3 DEF Word
<1> QED BY <1>7, <1>8, <1>9

LEMMA RadixIs ==
  ASSUME NEW base \in Nat
  PROVE  /\ Number!Radix(base) \in {2, 8, 10, 16}
         /\ base = 2 => Number!Radix(base) = 2
         /\ base = 10 => Number!Radix(base) = 10
BY DEF Number!Radix

LEMMA FormattedZero == Number!Formatted(0, 2) = <<"0">>
<1>1. 0 \in Word /\ 0 < 2 /\ 2 \in {2, 8, 10, 16}
  BY PowersOfTwo DEF Word
<1>2. Number!Formatted(0, 2) = <<Number!DigitChar[0 + 1]>>
  BY <1>1, FormattedGoesOn
<1>3. 0 + 1 = 1 /\ Number!DigitChar[1] = "0"
  BY DEF Number!DigitChar
<1> QED BY <1>2, <1>3

LEMMA PrintsNumeral ==
  ASSUME NEW base \in Nat, NEW v \in Word
  PROVE  /\ Number!printNumber(v, base) = Number!Formatted(v, Number!Radix(base))
         /\ IsNumeral(Number!printNumber(v, base), v, Number!Radix(base))
         /\ base = 2 => Number!StringBits(v) = Number!printNumber(v, base)
<1>1. CASE base = 2
  <2>1. CASE v = 0
    BY <1>1, <2>1, FormattedZero, FormattedIs, RadixIs DEF Number!printNumber, Number!StringBits
  <2>2. CASE v # 0
    <3>1. v >= 1
      BY <2>2 DEF Word
    <3> QED BY <1>1, <2>2, <3>1, BinaryNumeral, FormattedIs, RadixIs DEF Number!printNumber
  <2> QED BY <2>1, <2>2
<1>2. CASE base # 2
  BY <1>2, FormattedIs, RadixIs DEF Number!printNumber
<1> QED BY <1>1, <1>2

LEMMA DigitsAre == Number!Digits = {"0", "1", "2", "3", "4", "5", "6", "7", "8", "9"}
BY DEF Number!Digits, Number!DigitChar

LEMMA LoweredOnce ==
  \A c \in DigitChars : Number!tolower(Number!tolower(c)) = Number!tolower(c)
<1>1. ASSUME NEW c \in DigitChars PROVE Number!tolower(Number!tolower(c)) = Number!tolower(c)
  <2>1. c \in {"0", "1", "2", "3", "4", "5", "6", "7", "8", "9", "A", "B", "C", "D", "E", "F"}
    <3>1. PICK i \in 1 .. 16 : c = Number!DigitChar[i]
      <4>1. DOMAIN Number!DigitChar = 1 .. 16
        BY DEF Number!DigitChar
      <4> QED BY <4>1 DEF DigitChars, Number!Range
    <3> QED BY <3>1 DEF Number!DigitChar
  <2>3. Number!tolower(c) \notin {"A", "B", "C", "D", "E", "F"}
    BY <2>1, DigitsAre DEF Number!tolower
  <2>4. ASSUME NEW d, d \notin {"A", "B", "C", "D", "E", "F"} PROVE Number!tolower(d) = d
    BY <2>4 DEF Number!tolower
  <2> QED BY <2>3, <2>4
<1> QED BY <1>1

(* The text of an int in base 10: a sign, if it is negative, and digits.   *)
LEMMA NegativeText ==
  ASSUME NEW w \in {IntWidth, LongWidth}, NEW val \in Number!Signed(w), val < 0
  PROVE  \E t \in Seq(Number!Digits) :
           /\ Number!Text(val, 10, w) = <<"-">> \o t
           /\ IsNumeral(t, -val, 10)
<1>1. PICK n \in Word : n = -val /\ n = Number!Magnitude(val, w)
  BY MagnitudeIs
<1>2. PICK t : t = Number!printNumber(n, 10)
  OBVIOUS
<1>3. IsNumeral(t, n, 10)
  BY <1>2, PrintsNumeral, RadixIs
<1>4. Number!Text(val, 10, w) = <<"-">> \o t
  BY <1>1, <1>2 DEF Number!Text
<1>5. t \in Seq(Number!Digits)
  BY <1>3 DEF IsNumeral
<1> QED BY <1>1, <1>3, <1>4, <1>5

LEMMA PlainText ==
  ASSUME NEW w \in {IntWidth, LongWidth}, NEW val \in Number!Signed(w), NEW base \in Nat,
         ~(val < 0 /\ base = 10)
  PROVE  /\ Number!Text(val, base, w) = Number!printNumber(Number!ToUnsignedLong(val), base)
         /\ IsNumeral(Number!Text(val, base, w), Number!ToUnsignedLong(val), Number!Radix(base))
<1>1. PICK n \in Word : n = Number!ToUnsignedLong(val)
  BY BitsOfIs
<1>2. Number!Text(val, base, w) = Number!printNumber(n, base)
  BY <1>1 DEF Number!Text
<1>3. IsNumeral(Number!printNumber(n, base), n, Number!Radix(base))
  BY PrintsNumeral
<1> QED BY <1>1, <1>2, <1>3

LEMMA SameButCase ==
  ASSUME NEW base \in Nat, NEW v \in Word
  PROVE  Number!equalsIgnoreCase(Number!StringOf(v, base), Number!printNumber(v, base))
<1>1. PICK t : t = Number!printNumber(v, base)
  OBVIOUS
<1>2. t \in Seq(DigitChars)
  BY <1>1, PrintsNumeral DEF IsNumeral
<1>3. CASE base = 2
  BY <1>1, <1>3, PrintsNumeral DEF Number!StringOf, Number!equalsIgnoreCase
<1>4. CASE base # 2
  <2>1. t = Number!Formatted(v, Number!Radix(base))
    BY <1>1, PrintsNumeral
  <2>2. PICK n \in Nat : n = Len(t) /\ DOMAIN t = 1 .. n
    BY <1>2
  <2>3. PICK s : s = [i \in 1 .. n |-> Number!tolower(t[i])]
    OBVIOUS
  <2>4. Number!StringOf(v, base) = s
    BY <1>4, <2>1, <2>2, <2>3 DEF Number!StringOf
  <2>5. Len(s) = n /\ DOMAIN s = 1 .. n
    BY <2>3
  <2>6. \A i \in 1 .. n : Number!tolower(s[i]) = Number!tolower(t[i])
    <3>1. \A i \in 1 .. n : t[i] \in DigitChars
      BY <1>2, <2>2
    <3> QED BY <2>3, <3>1, LoweredOnce
  <2> QED BY <1>1, <2>2, <2>4, <2>5, <2>6, Zenon DEF Number!equalsIgnoreCase
<1> QED BY <1>3, <1>4

LEMMA NumeralIsRead ==
  ASSUME NEW t \in Seq(Number!Digits), NEW v \in Nat, IsNumeral(t, v, 10)
  PROVE  /\ Number!toInt(t) = IF v \in Number!Signed(IntWidth) THEN v ELSE 0
         /\ Number!toInt(<<"-">> \o t) = IF -v \in Number!Signed(IntWidth) THEN -v ELSE 0
<1>1. Number!Denoted(t, 10) = v /\ Len(t) >= 1
  BY DEF IsNumeral
<1>2. t[1] # "-"
  <2>1. t[1] \in Number!Digits
    BY <1>1
  <2>2. "-" \notin Number!Digits
    BY DigitsAre
  <2> QED BY <2>1, <2>2
<1>3. (<<"-">> \o t)[1] = "-" /\ Tail(<<"-">> \o t) = t
  <2>1. PICK s \in Seq({"-"} \cup Number!Digits) : s = <<"-">> \o t
    <3>1. <<"-">> \o t \in Seq({"-"} \cup Number!Digits)
      OBVIOUS
    <3> QED BY <3>1, Zenon
  <2>2. PICK n \in Nat : n = Len(t)
    OBVIOUS
  <2>3. Len(s) = n + 1 /\ s[1] = "-" /\ \A i \in 1 .. n : s[i + 1] = t[i]
    BY <2>1, <2>2
  <2>4. s # <<>>
    BY <2>2, <2>3
  <2>5. PICK r \in Seq({"-"} \cup Number!Digits) : r = Tail(s)
    <3>1. Tail(s) \in Seq({"-"} \cup Number!Digits)
      BY <2>4
    <3> QED BY <3>1, Zenon
  <2>6. Len(r) = n /\ \A i \in 1 .. n : r[i] = t[i]
    BY <2>2, <2>3, <2>4, <2>5
  <2>7. r = t
    BY <2>2, <2>6, SeqEqual
  <2> QED BY <2>1, <2>3, <2>5, <2>7
<1> QED BY <1>1, <1>2, <1>3, Zenon DEF Number!toInt

(* What was printed last is what Print makes of some int or long.          *)
NumeralSound ==
  numeral # NoNumeral =>
    \E w \in {IntWidth, LongWidth}, base \in Base :
      \E val \in Number!Signed(w) : numeral = Number!Shown(val, base, w)

LEMMA SoundDenotes == NumeralSound => Number!NumeralsDenote
<1> SUFFICES ASSUME NumeralSound, numeral # NoNumeral PROVE Number!NumeralsDenote
  BY DEF Number!NumeralsDenote
<1>1. PICK w \in {IntWidth, LongWidth}, base \in Base :
        \E val \in Number!Signed(w) : numeral = Number!Shown(val, base, w)
  BY DEF NumeralSound
<1>1b. PICK val \in Number!Signed(w) : numeral = Number!Shown(val, base, w)
  BY <1>1
<1>2. PICK chars : chars = Number!Text(val, base, w)
  OBVIOUS
<1>3. numeral.val = val /\ numeral.base = base /\ numeral.chars = chars
  BY <1>1b, <1>2 DEF Number!Shown
<1>4. base \in Nat
  BY PeripheralsAssumption DEF PeripheralsAssumption
<1>5. PICK n \in Word : n = Number!ToUnsignedLong(val)
  BY BitsOfIs
<1>6. val \in Int /\ (val >= 0 => n = val) /\ val \in Number!Signed(LongWidth) /\ n \in Nat
  BY <1>5, BitsOfIs DEF Word
<1>7. CASE val < 0 /\ base = 10
  <2>1. PICK t \in Seq(Number!Digits) : chars = <<"-">> \o t /\ IsNumeral(t, -val, 10)
    BY <1>2, <1>7, NegativeText
  <2>2. PICK v \in Nat : v = -val /\ v >= 1 /\ -v = val
    BY <1>6, <1>7
  <2>3. /\ Number!Denoted(t, 10) = v /\ Len(t) >= 1 /\ t[1] # "0"
    BY <2>1, <2>2 DEF IsNumeral
  <2>4. Tail(chars) = t
    BY <2>1
  <2>5. Number!toInt(chars) = IF val \in Number!Signed(IntWidth) THEN val ELSE 0
    BY <2>1, <2>2, NumeralIsRead
  <2>6. Number!Radix(base) = 10
    BY <1>7, RadixIs
  <2>7. Head(t) # "0"
    BY <2>3
  <2> QED BY <1>3, <1>7, <2>2, <2>3, <2>4, <2>5, <2>6, <2>7, Zenon DEF Number!NumeralsDenote
<1>8. CASE ~(val < 0 /\ base = 10)
  <2>1. /\ chars = Number!printNumber(n, base)
        /\ IsNumeral(chars, n, Number!Radix(base))
    BY <1>2, <1>4, <1>5, <1>8, PlainText
  <2>2. /\ Number!Denoted(chars, Number!Radix(base)) = n /\ Len(chars) >= 1
        /\ n >= 1 => chars[1] # "0"
        /\ n = 0 => Len(chars) = 1
    BY <2>1 DEF IsNumeral
  <2>3. Len(chars) > 1 => Head(chars) # "0"
    <3>3. chars \in Seq(DigitChars)
      BY <2>1 DEF IsNumeral
    <3>4. Len(chars) > 1 => n >= 1
      <4>1. n = 0 => Len(chars) = 1
        BY <2>2
      <4>2. Len(chars) = 1 => ~(Len(chars) > 1)
        OBVIOUS
      <4>3. n # 0 => n >= 1
        BY <1>6
      <4> QED BY <4>1, <4>2, <4>3, Zenon
    <3>5. Head(chars) = chars[1]
      BY <2>2, <3>3
    <3> QED BY <2>2, <3>4, <3>5
  <2>4. Number!equalsIgnoreCase(Number!StringOf(n, base), chars)
    BY <1>4, <2>1, SameButCase
  <2>5. base = 10 => Number!toInt(chars) = IF val \in Number!Signed(IntWidth) THEN val ELSE 0
    <3>1. SUFFICES ASSUME base = 10
                   PROVE  Number!toInt(chars) = IF val \in Number!Signed(IntWidth) THEN val ELSE 0
      OBVIOUS
    <3>2. n = val
      BY <1>6, <1>8, <3>1
    <3>3. Number!Radix(base) = 10
      BY <3>1, RadixIs
    <3>4. chars \in Seq(Number!Digits)
      BY <2>1, <3>3 DEF IsNumeral
    <3> QED BY <1>6, <2>1, <3>2, <3>3, <3>4, NumeralIsRead
  <2> QED BY <1>3, <1>5, <1>8, <2>2, <2>3, <2>4, <2>5, Zenon DEF Number!NumeralsDenote
<1> QED BY <1>7, <1>8

(* parseInt, of a line that holds texts of ints.                           *)
Gap == {".", "\n"}

Characters == Number!Char

LEMMA CharsAre ==
  /\ Number!Digits \subseteq Characters /\ "-" \in Characters /\ "\r" \in Characters /\ Gap \subseteq Characters
  /\ "\n" \in Gap /\ "." \in Gap
  /\ \A c \in Gap : c \notin Number!Digits /\ c # "-"
  /\ "\r" \notin Number!Digits /\ "-" \notin Number!Digits
BY DigitsAre DEF Characters, Number!Char, Gap

StartOf(text) == FirstOf({i \in 1 .. Len(text) : text[i] \in Number!Digits \cup {"-"}})
StopOf(rest)  == FirstOf({i \in 1 .. Len(rest) : rest[i] \notin Number!Digits})

LEMMA SearchesAre ==
  /\ \A text : Number!SelectInSeq(text, LAMBDA c : c \in Number!Digits \cup {"-"}) = StartOf(text)
  /\ \A rest : Number!SelectInSeq(rest, LAMBDA c : c \notin Number!Digits) = StopOf(rest)
BY Zenon DEF Number!SelectInSeq, Number!Min, StartOf, StopOf, FirstOf

LEMMA StopIs ==
  ASSUME NEW rest \in Seq(Characters), NEW t \in Seq(Number!Digits), Len(t) + 1 <= Len(rest),
         \A k \in 1 .. Len(t) : rest[k] = t[k], rest[Len(t) + 1] = "\r"
  PROVE  StopOf(rest) = Len(t) + 1 /\ SubSeq(rest, 1, Len(t)) = t
<1>1. PICK n \in Nat : n = Len(t)
  OBVIOUS
<1>2. PICK I \in SUBSET Nat : I = {i \in 1 .. Len(rest) : rest[i] \notin Number!Digits}
  <2>1. {i \in 1 .. Len(rest) : rest[i] \notin Number!Digits} \in SUBSET Nat
    OBVIOUS
  <2> QED BY <2>1, Zenon
<1>3. n + 1 \in I
  BY <1>1, <1>2, CharsAre
<1>4. ASSUME NEW i \in I PROVE n + 1 <= i
  <2>1. SUFFICES ASSUME ~(n + 1 <= i) PROVE FALSE
    OBVIOUS
  <2>2. i \in 1 .. Len(rest) /\ rest[i] \notin Number!Digits
    BY <1>2
  <2>3. i \in 1 .. n
    BY <2>1, <2>2
  <2>4. rest[i] = t[i] /\ t[i] \in Number!Digits
    BY <1>1, <2>3
  <2> QED BY <2>2, <2>4
<1>5. FirstOf(I) = n + 1
  BY <1>3, <1>4, FirstOfIs
<1>6. n \in 0 .. Len(rest)
  BY <1>1
<1>7. /\ SubSeq(rest, 1, n) \in Seq(Characters) /\ Len(SubSeq(rest, 1, n)) = n
      /\ \A i \in 1 .. n : SubSeq(rest, 1, n)[i] = rest[i]
  BY <1>6, PrefixType
<1>8. PICK p \in Seq(Characters) : p = SubSeq(rest, 1, n)
  BY <1>7
<1>9. t \in Seq(Characters)
  BY CharsAre
<1>10. Len(p) = Len(t) /\ \A i \in 1 .. Len(p) : p[i] = t[i]
  BY <1>1, <1>7, <1>8
<1>11. p = t
  BY <1>9, <1>10, SeqEqual
<1> QED BY <1>1, <1>2, <1>5, <1>8, <1>11, Zenon DEF StopOf

(* m characters of a gap, and then one that begins a number.               *)
LEMMA StartIs ==
  ASSUME NEW text \in Seq(Characters), NEW m \in Nat, m + 1 <= Len(text),
         \A k \in 1 .. m : text[k] \in Gap, text[m + 1] \in Number!Digits \cup {"-"}
  PROVE  StartOf(text) = m + 1
<1>1. PICK I \in SUBSET Nat : I = {i \in 1 .. Len(text) : text[i] \in Number!Digits \cup {"-"}}
  <2>1. {i \in 1 .. Len(text) : text[i] \in Number!Digits \cup {"-"}} \in SUBSET Nat
    OBVIOUS
  <2> QED BY <2>1, Zenon
<1>2. m + 1 \in I
  BY <1>1
<1>3. ASSUME NEW i \in I PROVE m + 1 <= i
  <2>1. SUFFICES ASSUME ~(m + 1 <= i) PROVE FALSE
    OBVIOUS
  <2>2. i \in 1 .. Len(text) /\ text[i] \in Number!Digits \cup {"-"}
    BY <1>1
  <2>3. i \in 1 .. m
    BY <2>1, <2>2
  <2> QED BY <2>2, <2>3, CharsAre
<1>4. FirstOf(I) = m + 1
  BY <1>2, <1>3, FirstOfIs
<1> QED BY <1>1, <1>4, Zenon DEF StartOf

LEMMA ParsesNothing ==
  ASSUME NEW text \in Seq(Characters), \A k \in 1 .. Len(text) : text[k] \in Gap
  PROVE  Number!Parsed(text).left = <<>>
<1>1. {i \in 1 .. Len(text) : text[i] \in Number!Digits \cup {"-"}} = {}
  BY CharsAre
<1>2. StartOf(text) = 0
  BY <1>1 DEF StartOf, FirstOf
<1>3. {i \in 1 .. Len(<<>>) : <<>>[i] \notin Number!Digits} = {}
  OBVIOUS
<1>4. StopOf(<<>>) = 0
  BY <1>3 DEF StopOf, FirstOf
<1>5. PICK start, stop : start = StartOf(text) /\ stop = StopOf(<<>>) /\ start = 0 /\ stop = 0
  BY <1>2, <1>4
<1> QED BY <1>5, SearchesAre, Zenon DEF Number!Parsed

(* What parseInt makes of a rest that begins with the digits t and has an  *)
(* end behind them.                                                        *)
LEMMA DigitsAreRead ==
  ASSUME NEW rest \in Seq(Characters), NEW t \in Seq(Number!Digits), NEW v \in Nat, IsNumeral(t, v, 10),
         v \in Number!Signed(LongWidth), Len(t) + 1 <= Len(rest),
         \A k \in 1 .. Len(t) : rest[k] = t[k], rest[Len(t) + 1] = "\r"
  PROVE  /\ StopOf(rest) = Len(t) + 1 /\ StopOf(rest) # 0
         /\ Number!Wrap(Number!Denoted(SubSeq(rest, 1, StopOf(rest) - 1), 10), LongWidth) = v
<1>1. StopOf(rest) = Len(t) + 1 /\ SubSeq(rest, 1, Len(t)) = t
  BY StopIs
<1>2. (Len(t) + 1) - 1 = Len(t) /\ Len(t) + 1 # 0
  <2>1. Len(t) \in Nat
    OBVIOUS
  <2> QED BY <2>1
<1>3. Number!Denoted(t, 10) = v
  BY DEF IsNumeral
<1>4. Number!Wrap(v, LongWidth) = v
  BY WrapIs
<1> QED BY <1>1, <1>2, <1>3, <1>4

LEMMA IntIsLong ==
  ASSUME NEW val \in Number!Signed(IntWidth)
  PROVE  /\ val \in Int /\ val \in Number!Signed(LongWidth)
         /\ val < 0 => -val \in Number!Signed(LongWidth) /\ -val \in Nat
<1>1. PICK p \in Nat \ {0} : p = 2 ^ (LongWidth - 1) /\ 2 ^ LongWidth = 2 * p
  BY PowersOfTwo
<1>2. PICK r \in Nat \ {0} : r = 2 ^ (IntWidth - 1) /\ 2 ^ IntWidth = 2 * r
  BY PowersOfTwo
<1>3. 2 * r <= p
  BY <1>1, <1>2, PowersOfTwo
<1>4. val \in -r .. r - 1
  BY <1>2 DEF Number!Signed
<1>5. val \in -p .. p - 1 /\ (val < 0 => -val \in -p .. p - 1)
  BY <1>3, <1>4
<1> QED BY <1>1, <1>4, <1>5 DEF Number!Signed

LEMMA ParsesFirst ==
  ASSUME NEW text \in Seq(Characters), NEW m \in Nat, NEW val \in Number!Signed(IntWidth),
         BeginsWith(text, m, Number!Text(val, 10, IntWidth), Gap, "\r")
  PROVE  /\ Number!Parsed(text).value = val
         /\ Number!Parsed(text).left =
              SubSeq(text, m + Len(Number!Text(val, 10, IntWidth)) + 2, Len(text))
<1>1. PICK l \in Nat : l = Len(text)
  OBVIOUS
<1>2. CASE val < 0
  <2>1. PICK t \in Seq(Number!Digits) : Number!Text(val, 10, IntWidth) = <<"-">> \o t /\ IsNumeral(t, -val, 10)
    BY <1>2, NegativeText
  <2>2. PICK v \in Nat : v = -val /\ -v = val /\ v \in Number!Signed(LongWidth)
    BY <1>2, IntIsLong
  <2>3. PICK s \in Seq(Characters) : s = <<"-">> \o t
    <3>1. <<"-">> \o t \in Seq(Characters)
      BY CharsAre
    <3> QED BY <3>1, Zenon
  <2>4. PICK n \in Nat : n = Len(t)
    OBVIOUS
  <2>5. Len(s) = n + 1 /\ s[1] = "-" /\ \A k \in 1 .. n : s[k + 1] = t[k]
    BY <2>3, <2>4
  <2>6. /\ m + (n + 1) + 1 <= l
        /\ \A k \in 1 .. m : text[k] \in Gap
        /\ \A k \in 1 .. n + 1 : text[m + k] = s[k]
        /\ text[m + (n + 1) + 1] = "\r"
    BY <1>1, <2>1, <2>3, <2>5 DEF BeginsWith
  <2>7. text[m + 1] = "-"
    <3>1. 1 \in 1 .. n + 1
      OBVIOUS
    <3> QED BY <2>5, <2>6, <3>1
  <2>8. StartOf(text) = m + 1
    <3>1. m + 1 <= Len(text)
      BY <1>1, <2>6
    <3>2. \A k \in 1 .. m : text[k] \in Gap
      BY <2>6
    <3> QED BY <2>7, <3>1, <3>2, StartIs
  <2>9. PICK rest \in Seq(Characters) : rest = SubSeq(text, (m + 1) + 1, Len(text))
    <3>1. m + 1 \in 0 .. Len(text)
      BY <1>1, <2>6
    <3>2. SubSeq(text, (m + 1) + 1, Len(text)) \in Seq(Characters)
      BY <3>1, RestType
    <3> QED BY <3>2, Zenon
  <2>10. PICK z \in Nat : z = Len(rest) /\ l = (m + 1) + z /\ \A k \in 1 .. z : rest[k] = text[(m + 1) + k]
    <3>1. m + 1 \in 0 .. Len(text)
      BY <1>1, <2>6
    <3>2. Len(rest) = Len(text) - (m + 1) /\ \A k \in 1 .. Len(text) - (m + 1) : rest[k] = text[(m + 1) + k]
      BY <2>9, <3>1, RestType
    <3>3. PICK y \in Nat : y = l - (m + 1) /\ l = (m + 1) + y
      <4>1. l - (m + 1) \in Nat /\ l = (m + 1) + (l - (m + 1))
        BY <1>1, <3>1
      <4> QED BY <4>1
    <3> QED BY <1>1, <3>2, <3>3
  <2>11. n + 1 <= z
    BY <2>6, <2>10
  <2>12. \A k \in 1 .. n : rest[k] = t[k]
    <3>1. ASSUME NEW k \in 1 .. n PROVE rest[k] = t[k]
      <4>1. PICK j \in 1 .. n + 1 : j = k + 1
        OBVIOUS
      <4>2. k \in 1 .. z /\ (m + 1) + k = m + j
        BY <2>11, <4>1
      <4>3. rest[k] = text[m + j]
        BY <2>10, <4>2
      <4>4. s[j] = t[k]
        BY <2>5, <4>1
      <4> QED BY <2>6, <4>3, <4>4
    <3> QED BY <3>1
  <2>13. rest[n + 1] = "\r"
    <3>1. n + 1 \in 1 .. z /\ (m + 1) + (n + 1) = m + (n + 1) + 1
      BY <2>11
    <3> QED BY <2>6, <2>10, <3>1
  <2>14. /\ StopOf(rest) = n + 1 /\ StopOf(rest) # 0
         /\ Number!Wrap(Number!Denoted(SubSeq(rest, 1, StopOf(rest) - 1), 10), LongWidth) = v
    BY <2>1, <2>2, <2>4, <2>10, <2>11, <2>12, <2>13, DigitsAreRead
  <2>15. Number!Wrap(val, LongWidth) = val
    BY IntIsLong, WrapIs
  <2>16. StartOf(text) > 0 /\ StartOf(text) # 0 /\ text[StartOf(text)] = "-"
    BY <2>7, <2>8
  <2>17. Number!Parsed(text) = [value |-> val, left |-> SubSeq(rest, (n + 1) + 1, Len(rest))]
    BY <2>2, <2>8, <2>9, <2>14, <2>15, <2>16, SearchesAre, Zenon DEF Number!Parsed
  <2>18. SubSeq(rest, (n + 1) + 1, Len(rest)) = SubSeq(text, (m + 1) + (n + 1) + 1, Len(text))
    <3>1. m + 1 \in Nat /\ n + 1 \in Nat /\ (m + 1) + (n + 1) <= Len(text)
      BY <1>1, <2>6
    <3> QED BY <2>9, <3>1, RestOfRest
  <2>19. (m + 1) + (n + 1) + 1 = m + Len(s) + 2
    BY <2>5
  <2>20. Number!Parsed(text).value = val /\ Number!Parsed(text).left = SubSeq(rest, (n + 1) + 1, Len(rest))
    BY <2>17
  <2> QED BY <2>1, <2>3, <2>18, <2>19, <2>20, Zenon
<1>3. CASE ~(val < 0)
  <2>1. PICK v \in Nat : v = val /\ v \in Number!Signed(LongWidth)
    BY <1>3, IntIsLong
  <2>2. Number!ToUnsignedLong(val) = v
    BY <2>1, BitsOfIs
  <2>3. PICK t : t = Number!Text(val, 10, IntWidth)
    OBVIOUS
  <2>4. IsNumeral(t, v, 10)
    BY <1>3, <2>2, <2>3, PlainText, RadixIs
  <2>5. t \in Seq(Number!Digits) /\ Len(t) >= 1
    BY <2>4 DEF IsNumeral
  <2>6. PICK n \in Nat : n = Len(t) /\ n >= 1
    BY <2>5
  <2>7. /\ m + n + 1 <= l
        /\ \A k \in 1 .. m : text[k] \in Gap
        /\ \A k \in 1 .. n : text[m + k] = t[k]
        /\ text[m + n + 1] = "\r"
    BY <1>1, <2>3, <2>6 DEF BeginsWith
  <2>8. text[m + 1] \in Number!Digits
    <3>1. 1 \in 1 .. n
      BY <2>6
    <3>2. t[1] \in Number!Digits
      BY <2>5, <2>6
    <3> QED BY <2>7, <3>1, <3>2
  <2>9. StartOf(text) = m + 1
    BY <1>1, <2>6, <2>7, <2>8, StartIs
  <2>10. PICK rest \in Seq(Characters) : rest = SubSeq(text, m + 1, Len(text))
    <3>1. m \in 0 .. Len(text)
      BY <1>1, <2>7
    <3>2. SubSeq(text, m + 1, Len(text)) \in Seq(Characters)
      BY <3>1, RestType
    <3> QED BY <3>2, Zenon
  <2>11. PICK z \in Nat : z = Len(rest) /\ l = m + z /\ \A k \in 1 .. z : rest[k] = text[m + k]
    <3>1. m \in 0 .. Len(text)
      BY <1>1, <2>7
    <3>2. Len(rest) = Len(text) - m /\ \A k \in 1 .. Len(text) - m : rest[k] = text[m + k]
      BY <2>10, <3>1, RestType
    <3>3. PICK y \in Nat : y = l - m /\ l = m + y
      <4>1. l - m \in Nat /\ l = m + (l - m)
        BY <1>1, <3>1
      <4> QED BY <4>1
    <3> QED BY <1>1, <3>2, <3>3
  <2>12. n + 1 <= z
    BY <2>7, <2>11
  <2>13. \A k \in 1 .. n : rest[k] = t[k]
    <3>1. ASSUME NEW k \in 1 .. n PROVE rest[k] = t[k]
      <4>1. k \in 1 .. z
        BY <2>12
      <4> QED BY <2>7, <2>11, <4>1
    <3> QED BY <3>1
  <2>14. rest[n + 1] = "\r"
    <3>1. n + 1 \in 1 .. z /\ m + (n + 1) = m + n + 1
      BY <2>12
    <3> QED BY <2>7, <2>11, <3>1
  <2>15. /\ StopOf(rest) = n + 1 /\ StopOf(rest) # 0
         /\ Number!Wrap(Number!Denoted(SubSeq(rest, 1, StopOf(rest) - 1), 10), LongWidth) = v
    BY <2>1, <2>4, <2>5, <2>6, <2>11, <2>12, <2>13, <2>14, DigitsAreRead
  <2>16. StartOf(text) # 0 /\ text[StartOf(text)] # "-"
    BY <2>8, <2>9, CharsAre
  <2>17. Number!Parsed(text) = [value |-> v, left |-> SubSeq(rest, (n + 1) + 1, Len(rest))]
    BY <2>9, <2>10, <2>15, <2>16, SearchesAre, Zenon DEF Number!Parsed
  <2>18. SubSeq(rest, (n + 1) + 1, Len(rest)) = SubSeq(text, m + (n + 1) + 1, Len(text))
    <3>1. n + 1 \in Nat /\ m + (n + 1) <= Len(text)
      BY <1>1, <2>7
    <3> QED BY <2>10, <3>1, RestOfRest
  <2>19. m + (n + 1) + 1 = m + n + 2
    OBVIOUS
  <2>20. Number!Parsed(text).value = v /\ Number!Parsed(text).left = SubSeq(rest, (n + 1) + 1, Len(rest))
    BY <2>17
  <2> QED BY <2>1, <2>3, <2>6, <2>18, <2>19, <2>20, Zenon
<1> QED BY <1>2, <1>3

(* The texts of the ints d, and what the line holds: those of the ints due *)
(* to its reader, in their order.                                          *)
TextsOf(d) == [i \in 1 .. Len(d) |-> Number!Text(d[i], 10, IntWidth)]

LineSound ==
  /\ line \in Seq(Characters) /\ Len(line) <= MaxLine
  /\ due \in Seq(Number!Signed(IntWidth))
  /\ Lines(line, TextsOf(due), Gap, "\r")

LEMMA TextIsCharacters ==
  ASSUME NEW val \in Number!Signed(IntWidth)
  PROVE  Number!Text(val, 10, IntWidth) \in Seq(Characters)
<1>1. PICK t \in Seq(Number!Digits) :
        Number!Text(val, 10, IntWidth) = <<"-">> \o t \/ Number!Text(val, 10, IntWidth) = t
  <2>1. CASE val < 0
    BY <2>1, NegativeText
  <2>2. CASE ~(val < 0)
    <3>1. IsNumeral(Number!Text(val, 10, IntWidth), Number!ToUnsignedLong(val), 10)
      BY <2>2, PlainText, RadixIs
    <3> QED BY <3>1 DEF IsNumeral
  <2> QED BY <2>1, <2>2
<1>2. t \in Seq(Characters) /\ <<"-">> \o t \in Seq(Characters)
  BY CharsAre
<1> QED BY <1>1, <1>2

LEMMA TextsType ==
  ASSUME NEW d \in Seq(Number!Signed(IntWidth))
  PROVE  TextsOf(d) \in Seq(Seq(Characters)) /\ Len(TextsOf(d)) = Len(d)
<1>1. PICK n \in Nat : n = Len(d)
  OBVIOUS
<1>2. \A i \in 1 .. n : Number!Text(d[i], 10, IntWidth) \in Seq(Characters)
  <2>1. ASSUME NEW i \in 1 .. n PROVE Number!Text(d[i], 10, IntWidth) \in Seq(Characters)
    <3>1. d[i] \in Number!Signed(IntWidth)
      BY <1>1
    <3> QED BY <3>1, TextIsCharacters
  <2> QED BY <2>1
<1>3. PICK C : C = Seq(Characters)
  OBVIOUS
<1>4. PICK f \in [1 .. n -> C] : f = [i \in 1 .. n |-> Number!Text(d[i], 10, IntWidth)]
  BY <1>2, <1>3
<1>5. f \in Seq(C) /\ Len(f) = n
  OBVIOUS
<1> QED BY <1>1, <1>3, <1>4, <1>5 DEF TextsOf

LEMMA TextsGrow ==
  ASSUME NEW d \in Seq(Number!Signed(IntWidth)), NEW val \in Number!Signed(IntWidth),
         NEW e \in Seq(Number!Signed(IntWidth)), e = Append(d, val)
  PROVE  TextsOf(e) = Append(TextsOf(d), Number!Text(val, 10, IntWidth))
<1>1. PICK n \in Nat : n = Len(d)
  OBVIOUS
<1>2. Len(e) = n + 1 /\ e[n + 1] = val /\ \A i \in 1 .. n : e[i] = d[i]
  BY <1>1
<1>3. PICK C : C = Seq(Characters)
  OBVIOUS
<1>4. PICK t \in C : t = Number!Text(val, 10, IntWidth)
  BY <1>3, TextIsCharacters
<1>5. PICK a \in Seq(C) : a = TextsOf(d) /\ Len(a) = n /\ \A i \in 1 .. n : a[i] = Number!Text(d[i], 10, IntWidth)
  BY <1>1, <1>3, TextsType DEF TextsOf
<1>6. PICK b \in Seq(C) : b = TextsOf(e) /\ Len(b) = n + 1
                          /\ \A i \in 1 .. n + 1 : b[i] = Number!Text(e[i], 10, IntWidth)
  BY <1>2, <1>3, TextsType DEF TextsOf
<1>7. PICK c \in Seq(C) : c = Append(a, t)
  <2>1. Append(a, t) \in Seq(C)
    OBVIOUS
  <2> QED BY <2>1, Zenon
<1>8. Len(c) = n + 1 /\ c[n + 1] = t /\ \A i \in 1 .. n : c[i] = a[i]
  BY <1>5, <1>7
<1>9. \A i \in 1 .. n + 1 : b[i] = c[i]
  <2>1. ASSUME NEW i \in 1 .. n + 1 PROVE b[i] = c[i]
    <3>1. CASE i = n + 1
      BY <1>2, <1>4, <1>6, <1>8, <3>1
    <3>2. CASE i # n + 1
      <4>1. i \in 1 .. n
        BY <3>2
      <4> QED BY <1>2, <1>5, <1>6, <1>8, <4>1
    <3> QED BY <3>1, <3>2
  <2> QED BY <2>1
<1>10. b = c
  BY <1>6, <1>8, <1>9, SeqEqual
<1> QED BY <1>4, <1>5, <1>6, <1>7, <1>10

LEMMA TextsShrink ==
  ASSUME NEW d \in Seq(Number!Signed(IntWidth)), d # <<>>
  PROVE  /\ TextsOf(d) # <<>> /\ Head(TextsOf(d)) = Number!Text(d[1], 10, IntWidth)
         /\ TextsOf(Tail(d)) = Tail(TextsOf(d))
<1>1. PICK n \in Nat : n = Len(d) /\ n >= 1
  OBVIOUS
<1>2. PICK C : C = Seq(Characters)
  OBVIOUS
<1>3. PICK a \in Seq(C) : a = TextsOf(d) /\ Len(a) = n /\ \A i \in 1 .. n : a[i] = Number!Text(d[i], 10, IntWidth)
  BY <1>1, <1>2, TextsType DEF TextsOf
<1>4. a # <<>> /\ Head(a) = Number!Text(d[1], 10, IntWidth)
  <2>1. a # <<>> /\ 1 \in 1 .. n
    BY <1>1, <1>3
  <2>2. Head(a) = a[1]
    BY <2>1
  <2> QED BY <1>3, <2>1, <2>2
<1>5. PICK p \in Nat : n = p + 1
  <2>1. n - 1 \in Nat /\ n = (n - 1) + 1
    BY <1>1
  <2> QED BY <2>1
<1>6. PICK e \in Seq(Number!Signed(IntWidth)) : e = Tail(d) /\ Len(e) = p /\ \A i \in 1 .. p : e[i] = d[i + 1]
  <2>1. /\ Tail(d) \in Seq(Number!Signed(IntWidth)) /\ Len(Tail(d)) = Len(d) - 1
        /\ \A i \in 1 .. Len(Tail(d)) : Tail(d)[i] = d[i + 1]
    BY HeadTailProperties
  <2>2. Len(Tail(d)) = p
    BY <1>1, <1>5, <2>1
  <2> QED BY <2>1, <2>2
<1>7. PICK b \in Seq(C) : b = TextsOf(e) /\ Len(b) = p /\ \A i \in 1 .. p : b[i] = Number!Text(e[i], 10, IntWidth)
  BY <1>2, <1>6, TextsType DEF TextsOf
<1>8. PICK c \in Seq(C) : c = Tail(a) /\ Len(c) = p /\ \A i \in 1 .. p : c[i] = a[i + 1]
  <2>1. /\ Tail(a) \in Seq(C) /\ Len(Tail(a)) = Len(a) - 1
        /\ \A i \in 1 .. Len(Tail(a)) : Tail(a)[i] = a[i + 1]
    BY <1>4, HeadTailProperties
  <2>2. Len(Tail(a)) = p
    BY <1>3, <1>5, <2>1
  <2> QED BY <2>1, <2>2
<1>9. ASSUME NEW i \in 1 .. p PROVE b[i] = c[i]
  <2>1. i + 1 \in 1 .. n
    BY <1>5
  <2> QED BY <1>3, <1>6, <1>7, <1>8, <2>1
<1>10. b = c
  BY <1>7, <1>8, <1>9, SeqEqual
<1> QED BY <1>3, <1>4, <1>6, <1>7, <1>8, <1>10

(* What parseInt does with a sound line.                                   *)
LEMMA LineIsRead ==
  ASSUME LineSound, due # <<>>
  PROVE  /\ Number!Parsed(line).value = due[1]
         /\ Number!Parsed(line).left \in Seq(Characters) /\ Len(Number!Parsed(line).left) <= Len(line)
         /\ Lines(Number!Parsed(line).left, TextsOf(Tail(due)), Gap, "\r")
<1> USE DEF LineSound
<1>1. PICK val \in Number!Signed(IntWidth) : val = due[1]
  OBVIOUS
<1>2. PICK t \in Seq(Characters) : t = Number!Text(val, 10, IntWidth)
  BY TextIsCharacters
<1>3. PICK ts \in Seq(Seq(Characters)) : ts = TextsOf(due) /\ ts # <<>> /\ Head(ts) = t
                                         /\ Tail(ts) = TextsOf(Tail(due))
  BY <1>1, <1>2, TextsType, TextsShrink
<1>4. PICK m \in Nat : /\ BeginsWith(line, m, t, Gap, "\r")
                       /\ Lines(SubSeq(line, m + Len(t) + 2, Len(line)), Tail(ts), Gap, "\r")
  <2>1. Lines(line, ts, Gap, "\r")
    BY <1>3
  <2>2. \E m \in Nat : /\ BeginsWith(line, m, Head(ts), Gap, "\r")
                       /\ Lines(SubSeq(line, m + Len(Head(ts)) + 2, Len(line)), Tail(ts), Gap, "\r")
    BY <1>3, <2>1, LinesFirst
  <2> QED BY <1>3, <2>2, Zenon
<1>5. /\ Number!Parsed(line).value = val
      /\ Number!Parsed(line).left = SubSeq(line, m + Len(t) + 2, Len(line))
  BY <1>2, <1>4, ParsesFirst
<1>6. PICK x \in 0 .. Len(line) : m + Len(t) + 2 = x + 1
  <2>1. m + Len(t) + 1 \in 0 .. Len(line)
    BY <1>4 DEF BeginsWith
  <2>2. m + Len(t) + 2 = (m + Len(t) + 1) + 1
    OBVIOUS
  <2> QED BY <2>1, <2>2
<1>7. /\ SubSeq(line, x + 1, Len(line)) \in Seq(Characters)
      /\ Len(SubSeq(line, x + 1, Len(line))) = Len(line) - x
  BY <1>6, RestType
<1>8. Len(line) - x <= Len(line)
  OBVIOUS
<1> QED BY <1>1, <1>3, <1>4, <1>5, <1>6, <1>7, <1>8

LEMMA LineInit == Number!Init => LineSound /\ NumeralSound
<1> SUFFICES ASSUME Number!Init PROVE LineSound /\ NumeralSound
  OBVIOUS
<1>1. line = <<>> /\ due = <<>> /\ numeral = NoNumeral
  BY DEF Number!Init
<1>2. Len(<<>>) = 0 /\ <<>> \in Seq(Characters) /\ <<>> \in Seq(Number!Signed(IntWidth))
  OBVIOUS
<1>3. TextsOf(<<>>) = <<>>
  BY DEF TextsOf
<1>4. Lines(<<>>, <<>>, Gap, "\r")
  BY NothingHeld
<1>5. MaxLine \in Nat
  BY PeripheralsAssumption DEF PeripheralsAssumption
<1> QED BY <1>1, <1>2, <1>3, <1>4, <1>5 DEF LineSound, NumeralSound

LEMMA LineStep ==
  ASSUME LineSound, NumeralSound, [Number!Next]_(Number!printVars)
  PROVE  LineSound' /\ NumeralSound'
<1>1. ASSUME NEW val \in Number!Signed(IntWidth), Number!println(val), Len(line') <= MaxLine
      PROVE  LineSound' /\ NumeralSound'
  <2>1. PICK t \in Seq(Characters) : t = Number!Text(val, 10, IntWidth)
    BY TextIsCharacters
  <2>2. /\ line' = (line \o t) \o <<"\r", "\n">>
        /\ due' = Append(due, val) /\ numeral' = NoNumeral
    BY <1>1, <2>1 DEF Number!println, Number!LineEnd
  <2>3. PICK r \in Seq(Characters) : r = t \o <<"\r", "\n">>
    <3>1. t \o <<"\r", "\n">> \in Seq(Characters)
      BY CharsAre
    <3> QED BY <3>1, Zenon
  <2>4. line' = line \o r
    <3>1. <<"\r", "\n">> \in Seq(Characters)
      BY CharsAre
    <3>2. line \in Seq(Characters)
      BY DEF LineSound
    <3>3. Regroups(line, t, <<"\r", "\n">>)
      BY <3>1, <3>2, AllRegroup
    <3> QED BY <2>2, <2>3, <3>3 DEF Regroups
  <2>5. PICK l \in Seq(Characters), c \in Seq(Characters) : l = line /\ c = line' /\ c = l \o r
    <3>1. line \in Seq(Characters)
      BY DEF LineSound
    <3>2. line \o r \in Seq(Characters)
      BY <3>1
    <3> QED BY <2>4, <3>1, <3>2
  <2>6. PICK d \in Seq(Number!Signed(IntWidth)), e \in Seq(Number!Signed(IntWidth)) :
          d = due /\ e = due' /\ e = Append(d, val)
    <3>1. due \in Seq(Number!Signed(IntWidth))
      BY DEF LineSound
    <3>2. Append(due, val) \in Seq(Number!Signed(IntWidth))
      BY <3>1
    <3> QED BY <2>2, <3>1, <3>2
  <2>7. PICK ts \in Seq(Seq(Characters)), us \in Seq(Seq(Characters)) :
          ts = TextsOf(d) /\ us = TextsOf(e) /\ us = Append(ts, t)
    BY <2>1, <2>6, TextsType, TextsGrow
  <2>8. Lines(l, ts, Gap, "\r")
    BY <2>5, <2>6, <2>7 DEF LineSound
  <2>9. Lines(c, us, Gap, "\r")
    <3>1. "\r" \in Characters /\ "\n" \in Characters /\ "\n" \in Gap
      BY CharsAre
    <3>2. AlsoHolds(l, t, ts, Gap, "\r", "\n")
      BY <3>1, LinesPrinted
    <3> QED BY <2>3, <2>5, <2>7, <2>8, <3>2 DEF AlsoHolds
  <2> QED BY <1>1, <2>2, <2>5, <2>6, <2>7, <2>9 DEF LineSound, NumeralSound
<1>2. ASSUME NEW n \in 1 .. BufSize, Number!printf(n), Len(line') <= MaxLine
      PROVE  LineSound' /\ NumeralSound'
  <2>1. PICK k \in Nat : k = IF n < BufSize THEN n ELSE BufSize - 1
    <3>1. (IF n < BufSize THEN n ELSE BufSize - 1) \in Nat
      BY PeripheralsAssumption DEF PeripheralsAssumption
    <3> QED BY <3>1
  <2>2. PICK r \in Seq(Characters) : r = [i \in 1 .. k |-> "."] /\ \A i \in 1 .. Len(r) : r[i] \in Gap
    <3>1. PICK f \in [1 .. k -> Characters] : f = [i \in 1 .. k |-> "."]
      BY CharsAre
    <3>2. f \in Seq(Characters) /\ Len(f) = k
      OBVIOUS
    <3> QED BY <3>1, <3>2, CharsAre
  <2>3. line' = line \o r /\ due' = due /\ numeral' = NoNumeral
    BY <1>2, <2>1, <2>2 DEF Number!printf
  <2>4. PICK l \in Seq(Characters), c \in Seq(Characters) : l = line /\ c = line' /\ c = l \o r
    <3>1. line \in Seq(Characters)
      BY DEF LineSound
    <3>2. line \o r \in Seq(Characters)
      BY <3>1
    <3> QED BY <2>3, <3>1, <3>2
  <2>5. PICK ts \in Seq(Seq(Characters)) : ts = TextsOf(due)
    BY TextsType DEF LineSound
  <2>6. Lines(l, ts, Gap, "\r")
    BY <2>4, <2>5 DEF LineSound
  <2>7. Lines(c, ts, Gap, "\r")
    <3>1. StillHolds(l, r, ts, Gap, "\r")
      BY <2>2, LinesLonger
    <3> QED BY <2>4, <2>6, <3>1 DEF StillHolds
  <2> QED BY <1>2, <2>3, <2>4, <2>5, <2>7 DEF LineSound, NumeralSound
<1>3. ASSUME NEW val, NEW base \in Base, NEW w \in {IntWidth, LongWidth}, Number!print(val, base, w)
      PROVE  LineSound' /\ NumeralSound'
  BY <1>3 DEF Number!print, LineSound, NumeralSound
<1>4. CASE Number!parseInt
  <2>1. /\ line' = Number!Parsed(line).left /\ due' = (IF due = <<>> THEN <<>> ELSE Tail(due))
        /\ numeral' = NoNumeral
    BY <1>4 DEF Number!parseInt
  <2>2. CASE due = <<>>
    <3>1. TextsOf(<<>>) = <<>>
      BY DEF TextsOf
    <3>2. Lines(line, <<>>, Gap, "\r") /\ line \in Seq(Characters)
      BY <2>2, <3>1 DEF LineSound
    <3>3. \A k \in 1 .. Len(line) : line[k] \in Gap
      BY <3>2, LinesNone
    <3>4. line' = <<>> /\ due' = <<>>
      BY <2>1, <2>2, <3>2, <3>3, ParsesNothing
    <3>5. /\ Len(<<>>) = 0 /\ <<>> \in Seq(Characters)
          /\ <<>> \in Seq(Number!Signed(IntWidth)) /\ MaxLine \in Nat
      BY PeripheralsAssumption DEF PeripheralsAssumption
    <3>6. Lines(<<>>, <<>>, Gap, "\r")
      BY NothingHeld
    <3>7. LineSound'
      <4>1. Lines(line', TextsOf(due'), Gap, "\r")
        BY <3>1, <3>4, <3>6, Zenon
      <4>2. Len(line') <= MaxLine
        BY <3>4, <3>5
      <4> QED BY <3>4, <3>5, <4>1, <4>2, Zenon DEF LineSound
    <3> QED BY <2>1, <3>7 DEF NumeralSound
  <2>3. CASE due # <<>>
    <3>1. /\ line' \in Seq(Characters) /\ Len(line') <= Len(line)
          /\ Lines(line', TextsOf(Tail(due)), Gap, "\r")
      BY <2>1, <2>3, LineIsRead
    <3>2. due' = Tail(due) /\ Tail(due) \in Seq(Number!Signed(IntWidth))
      <4>1. due \in Seq(Number!Signed(IntWidth))
        BY DEF LineSound
      <4>2. Tail(due) \in Seq(Number!Signed(IntWidth))
        BY <2>3, <4>1
      <4> QED BY <2>1, <2>3, <4>2
    <3>3. Len(line') <= MaxLine
      <4>1. Len(line) \in Nat /\ Len(line') \in Nat /\ Len(line) <= MaxLine /\ MaxLine \in Nat
        BY <3>1, PeripheralsAssumption DEF LineSound, PeripheralsAssumption
      <4> QED BY <3>1, <4>1
    <3> QED BY <2>1, <3>1, <3>2, <3>3 DEF LineSound, NumeralSound
  <2> QED BY <2>2, <2>3
<1>5. CASE UNCHANGED Number!printVars
  BY <1>5 DEF Number!printVars, LineSound, NumeralSound
<1> QED BY <1>1, <1>2, <1>3, <1>4, <1>5 DEF Number!Next

LEMMA NumberType == LineSound /\ NumeralSound => Number!TypeOK
<1> SUFFICES ASSUME LineSound, NumeralSound PROVE Number!TypeOK
  OBVIOUS
<1>1. ASSUME numeral # NoNumeral
      PROVE  numeral.val \in Number!Signed(LongWidth) /\ numeral.base \in Base
  <2>1. PICK w \in {IntWidth, LongWidth}, base \in Base :
          \E val \in Number!Signed(w) : numeral = Number!Shown(val, base, w)
    BY <1>1 DEF NumeralSound
  <2>2. PICK val \in Number!Signed(w) : numeral = Number!Shown(val, base, w)
    BY <2>1
  <2>3. numeral.val = val /\ numeral.base = base
    BY <2>2 DEF Number!Shown
  <2> QED BY <2>3, BitsOfIs
<1> QED BY <1>1 DEF LineSound, Characters, Number!TypeOK

(* Print.cpp and WString.h: in every base the code knows, a number's       *)
(* digits, of int and of long, have its value, String and print agree, and *)
(* toInt gives back every int.                                             *)
THEOREM NumeralsAreRight == AllSpec => []NumeralsDenote
<1>1. AllInit => LineSound /\ NumeralSound
  BY LineInit DEF AllInit
<1>2. LineSound /\ NumeralSound /\ [AllNext]_allVars => (LineSound /\ NumeralSound)'
  BY OneMoves, LineStep
<1>3. NumeralSound => NumeralsDenote
  BY SoundDenotes DEF NumeralsDenote
<1> QED BY <1>1, <1>2, <1>3, PTL DEF AllSpec

(* Print.cpp and Stream.h: however many ints println sends, and whatever   *)
(* text without digits comes between them, parseInt gives each of them in  *)
(* turn, the most negative one included.                                   *)
THEOREM IntsArePassedOn == AllSpec => []ParsedIsPrinted
<1>1. AllInit => LineSound /\ NumeralSound
  BY LineInit DEF AllInit
<1>2. LineSound /\ NumeralSound /\ [AllNext]_allVars => (LineSound /\ NumeralSound)'
  BY OneMoves, LineStep
<1>3. LineSound => ParsedIsPrinted
  <2>1. SUFFICES ASSUME LineSound, due # <<>> PROVE Number!Parsed(line).value = Head(due)
    BY DEF ParsedIsPrinted, Number!ParsedIsPrinted
  <2>2. Head(due) = due[1]
    BY <2>1 DEF LineSound
  <2> QED BY <2>1, <2>2, LineIsRead
<1> QED BY <1>1, <1>2, <1>3, PTL DEF AllSpec

-----------------------------------------------------------------------------
(* All of them.                                                            *)
AllSound ==
  /\ part \in PartNames
  /\ FilesSound /\ StoreIsPut /\ Remembered /\ Bus!TypeOK /\ Bus!PromisesKept
  /\ Absorbs /\ LineSound /\ NumeralSound /\ TextSound /\ TypeOK

LEMMA AllStep ==
  ASSUME AllSound, [AllNext]_allVars
  PROVE  AllSound'
<1> USE DEF AllSound
<1>1. part' \in PartNames
  BY OneMoves
<1>2. FilesSound' /\ StoreIsPut'
  BY OneMoves, FilesStep, StoreStep
<1>3. Remembered' /\ Absorbs'
  BY OneMoves, StepRemembers, AbsorbsStep
<1>4. Bus!TypeOK' /\ Bus!PromisesKept'
  BY BusStep
<1>5. LineSound' /\ NumeralSound'
  BY OneMoves, LineStep
<1>6. TextSound' /\ TypeOK'
  BY OneMoves, TextStep, StepType
<1> QED BY <1>1, <1>2, <1>3, <1>4, <1>5, <1>6

(* The peripherals' state has the types their code gives it, whatever is   *)
(* done to them in whatever order.                                         *)
THEOREM TypesAreKept == AllSpec => []AllTypesOK
<1>1. AllInit => AllSound
  BY FilesInit, InitRemembers, BusInit, InitAbsorbs, LineInit, TextInit, InitType
     DEF AllInit, AllSound, Flash!Init, StoreIsPut
<1>2. AllSound /\ [AllNext]_allVars => AllSound'
  BY AllStep
<1>3. AllSound => AllTypesOK
  <2> SUFFICES ASSUME AllSound PROVE AllTypesOK
    OBVIOUS
  <2>1. /\ Files!TypeOK /\ Gpio!TypeOK /\ Bus!TypeOK /\ Digest!TypeOK
        /\ Number!TypeOK /\ Strings!TypeOK /\ TypeOK
    BY FilesType, RememberedType, AbsorbsType, NumberType, TextType DEF AllSound
  <2>2. Flash!TypeOK
    BY ValueType DEF AllSound, StoreIsPut, Flash!TypeOK
  <2>3. part \in PartNames
    BY DEF AllSound
  <2> HIDE DEF AllSound
  <2>4. CASE part = "files"
    BY ONLY <2>1, <2>2, <2>4 DEF AllTypesOK
  <2>5. CASE part = "flash"
    BY ONLY <2>1, <2>2, <2>5 DEF AllTypesOK
  <2>6. CASE part = "gpio"
    BY ONLY <2>1, <2>2, <2>6 DEF AllTypesOK
  <2>7. CASE part = "bus"
    BY ONLY <2>1, <2>2, <2>7 DEF AllTypesOK
  <2>8. CASE part = "digest"
    BY ONLY <2>1, <2>2, <2>8 DEF AllTypesOK
  <2>9. CASE part = "number"
    BY ONLY <2>1, <2>2, <2>9 DEF AllTypesOK
  <2>10. CASE part = "text"
    BY ONLY <2>1, <2>2, <2>10 DEF AllTypesOK
  <2>11. CASE part = "sending"
    BY ONLY <2>1, <2>2, <2>11 DEF AllTypesOK
  <2>12. CASE part = "receiving"
    BY ONLY <2>1, <2>2, <2>12 DEF AllTypesOK
  <2> QED BY ONLY <2>3, <2>4, <2>5, <2>6, <2>7, <2>8, <2>9, <2>10, <2>11, <2>12 DEF PartNames
<1> QED BY <1>1, <1>2, <1>3, PTL DEF AllSpec
=============================================================================
