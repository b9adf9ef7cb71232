----------------------------- MODULE MockSPIFFS -----------------------------
(* SPIFFS.cpp, SPIFFS.h: files as strings in a map, and File objects that  *)
(* point into it.  A File keeps its pointer, and its read position, while  *)
(* the entry it points at is truncated, replaced or erased.                *)
EXTENDS Naturals, Sequences, SequencesExt

CONSTANTS Path, Handle, Byte,
          Newline,           \* what println appends
          NoFile,            \* the contents of a path that is not in the map
          MaxLen             \* bound: bytes in a file

VARIABLES files,      \* _files
          file,       \* File objects: what _contentPtr points at, and _readPos
          _mounted, _canMount,
          got         \* history: what each File has read since it was opened,
                      \* or NoFile once its file was cut or replaced

spiffsVars == <<files, file, _mounted, _canMount, got>>

Content == BoundedSeq(Byte, MaxLen)
Null    == [ptr |-> "null", path |-> NoFile, pos |-> 0]

Init ==
  /\ files = [p \in Path |-> NoFile]
  /\ file = [h \in Handle |-> Null]
  /\ _mounted = FALSE
  /\ _canMount = TRUE
  /\ got = [h \in Handle |-> NoFile]

exists(p)   == files[p] # NoFile
contents(h) == files[file[h].path]
(* A File may be used when it is open and its entry was not erased: one    *)
(* that points at an erased entry is undefined behaviour to use.           *)
Usable(h)   == file[h].ptr = "live"
size(h)     == IF Usable(h) THEN Len(contents(h)) ELSE 0
(* available, and the test that read, peek and readStringUntil begin with. *)
available(h) == IF file[h].pos >= size(h) THEN 0 ELSE size(h) - file[h].pos
-----------------------------------------------------------------------------
(* Reading goes by the position: what is at it has changed.               *)
Touched(P) == [h \in Handle |-> IF file[h].path \in P THEN NoFile ELSE got[h]]

(* The entries of the paths P are erased, under the Files that use them.   *)
Erased(P) ==
  file' = [h \in Handle |-> IF file[h].path \in P /\ Usable(h)
                            THEN [file[h] EXCEPT !.ptr = "dangling"] ELSE file[h]]

OpenOn(h, p, kept) ==
  /\ file' = [file EXCEPT ![h] = [ptr |-> "live", path |-> p, pos |-> 0]]
  /\ got' = [kept EXCEPT ![h] = <<>>]

openWrite(h, p) ==
  /\ files' = [files EXCEPT ![p] = <<>>]
  /\ OpenOn(h, p, Touched({p}))

(* Mutant of openAppend: empties a file that exists.                       *)
OpenAppendTruncating(h, p) ==
  /\ files' = [files EXCEPT ![p] = <<>>]
  /\ OpenOn(h, p, got)

openAppend(h, p) ==
  /\ files' = [files EXCEPT ![p] = IF exists(p) THEN @ ELSE <<>>]
  /\ OpenOn(h, p, got)

close(h) ==
  /\ file' = [file EXCEPT ![h] = Null] /\ got' = [got EXCEPT ![h] = NoFile]
  /\ UNCHANGED files

openRead(h, p) ==
  IF exists(p) THEN OpenOn(h, p, got) /\ UNCHANGED files ELSE close(h)

open(h, p) == openWrite(h, p) \/ openAppend(h, p) \/ openRead(h, p)

(* write and print: the mode a file was opened with is not looked at.      *)
write(h, data) ==
  /\ Usable(h)
  /\ files' = [files EXCEPT ![file[h].path] = @ \o data]
  /\ UNCHANGED <<file, got>>

println(h, data) == write(h, data \o <<Newline>>)

(* The next n bytes leave h: read() takes one, read(buf, size) up to size. *)
Advance(h, n) ==
  /\ file' = [file EXCEPT ![h].pos = @ + n]
  /\ got' = [got EXCEPT ![h] = IF @ = NoFile THEN NoFile
                ELSE @ \o SubSeq(contents(h), file[h].pos + 1, file[h].pos + n)]
  /\ UNCHANGED files

read(h, n) ==
  /\ Usable(h) /\ available(h) > 0
  /\ Advance(h, IF n < available(h) THEN n ELSE available(h))

(* Up to the first terminator, which is consumed, or to the end.           *)
readStringUntil(h, terminator) ==
  LET rest == SubSeq(contents(h), file[h].pos + 1, size(h))
      hit  == SelectInSeq(rest, LAMBDA c : c = terminator)
  IN  /\ Usable(h) /\ available(h) > 0
      /\ Advance(h, IF hit = 0 THEN Len(rest) ELSE hit)
-----------------------------------------------------------------------------
remove(p) ==
  /\ exists(p)
  /\ files' = [files EXCEPT ![p] = NoFile]
  /\ Erased({p})
  /\ got' = Touched({p})

(* _files[to] = _files[from], then from is erased: from = to erases the    *)
(* file.  An entry that was there before keeps its Files.                  *)
rename(from, to) ==
  /\ exists(from)
  /\ files' = [[files EXCEPT ![to] = files[from]] EXCEPT ![from] = NoFile]
  /\ Erased({from})
  /\ got' = Touched({from, to})

addFile(p, content) ==
  /\ files' = [files EXCEPT ![p] = content]
  /\ got' = Touched({p})
  /\ UNCHANGED file

clear ==
  /\ files' = [p \in Path |-> NoFile]
  /\ Erased(Path)
  /\ got' = Touched(Path)

(* open looks at neither flag: a file system need not be mounted.          *)
begin ==
  /\ _mounted' = (_mounted \/ _canMount)
  /\ UNCHANGED _canMount

end           == _mounted' = FALSE /\ UNCHANGED _canMount
setMounted(v) == _canMount' = v /\ UNCHANGED _mounted

reset ==
  /\ clear
  /\ _mounted' = FALSE
  /\ _canMount' = TRUE

(* What the clients do, on files of at most MaxLen bytes.                  *)
Use ==
  \/ \E h \in Handle :
       \/ \E p \in Path : open(h, p)
       \/ \E c \in Byte : write(h, <<c>>)
       \/ \E c \in Byte : println(h, <<c>>)
       \/ \E n \in 1 .. MaxLen : read(h, n)
       \/ \E c \in Byte : readStringUntil(h, c)
       \/ close(h)
  \/ \E p \in Path :
       \/ remove(p)
       \/ \E to \in Path : rename(p, to)
       \/ \E content \in Content : addFile(p, content)
  \/ clear

Next ==
  \/ /\ Use
     /\ \A p \in Path : files'[p] \in Content \cup {NoFile}
     /\ UNCHANGED <<_mounted, _canMount>>
  \/ /\ begin \/ end \/ \E v \in BOOLEAN : setMounted(v)
     /\ UNCHANGED <<files, file, got>>
  \/ reset

Spec == Init /\ [][Next]_spiffsVars
-----------------------------------------------------------------------------
TypeOK ==
  /\ files \in [Path -> Content \cup {NoFile}]
  /\ file \in [Handle -> [ptr : {"null", "live", "dangling"}, path : Path \cup {NoFile}, pos : 0 .. MaxLen]]
  /\ _mounted \in BOOLEAN /\ _canMount \in BOOLEAN
  /\ got \in [Handle -> Content \cup {NoFile}]

(* As long as the file was neither cut nor replaced under it, a File has   *)
(* read exactly the file's first bytes, each of them once: whatever other  *)
(* Files on the same path appended, removed from other paths or renamed.   *)
ReadersSeeContent ==
  \A h \in Handle : got[h] # NoFile =>
    /\ Usable(h)
    /\ file[h].pos <= size(h)
    /\ got[h] = SubSeq(contents(h), 1, file[h].pos)
=============================================================================
