\* Files, Preferences, GPIO, Wire, MD5, numbers, strings and printers, one by one.
SPECIFICATION AllSpec
CONSTANTS
  Path = {p1, p2}
  Handle = {h1, h2}
  FileByte = {c, nl}
  Newline = nl
  NoFile = NoFile
  MaxFile = 2
\* Values of one and of two bytes, bytes that end a string and others.
  Key = {key1, key2}
  ValueByte = {0, 1}
  Sizes = {1, 2}
  Absent = Absent
  MaxValue = 3
\* Levels that are neither LOW nor HIGH, a routine inside of a routine.
  Pin = {pin1, pin2}
  Level = {0, 1, 2}
  Off = Off
  MaxDepth = 2
\* More bytes than a count of 3 bits can tell.
  CountWidth = 3
  MaxQueued = 10
  DigestByte = {byte1, byte2}
  Padding = Padding
  NoDigest = NoDigest
  MaxMessage = 3
\* Ints of one and two digits, in a long that is one bit wider.
  IntWidth = 5
  LongWidth = 6
  Base = {2, 3, 8, 10, 16}
  BufSize = 2
  NoNumeral = NoNumeral
  MaxLine = 8
  Letter = {a, b, space}
  Blank = {space}
  NoText = NoText
  MaxText = 4
  MaxArg = 2
  Reader = {reader1, reader2}
  Printer = {printer1, printer2}
  Timeouts = {1, 2}
  Terminator = {2}
  MaxBytes = 2
  MaxTx = 6
  MaxHold = 1
  Width = 3
SYMMETRY Symmetric
INVARIANTS
  AllTypesOK
  ReadersGetTheText
  GetsAreExact
  PromisesKept
  DigestIsOfMessage
  ParsedIsPrinted
  NumeralsDenote
  ReplaceIsSimultaneous
  SearchesAgreeWithCuts
  TextsStayWhole
  ExactlyOnce
PROPERTIES
  EdgesAlternate
  PatientAlone
