----------------------------- MODULE MD5Builder -----------------------------
(* MD5Builder.h with a native MD5 (OpenSSL's, or CommonCrypto's, whose     *)
(* functions differ in name only).  The digest is computed once, kept, and *)
(* shown from there; computing it uses the context up.                     *)
EXTENDS Naturals, Sequences, SequencesExt

CONSTANTS Byte,
          Padding,        \* what MD5_Final feeds to the context
          MaxLen,         \* bound: bytes of a message
          NoDigest        \* digest as it is constructed

VARIABLES ctx,            \* what the context was fed since MD5_Init
          digest, finalized,
          message,        \* history: the bytes added since begin, before the
                          \* digest was asked for
          asked,          \* history: was calculate or toString called since?
          shown           \* history: what toString has returned since begin

md5Vars == <<ctx, digest, finalized, message, asked, shown>>

(* The library.  MD5 tells inputs apart, so the digest of what was fed is  *)
(* taken to be that.  MD5_Final pads the input in place: another one       *)
(* would give the digest of the padded input.                              *)
MD5_Init         == ctx' = <<>>
MD5_Update(data) == ctx' = ctx \o data
MD5_Final        == digest' = ctx /\ ctx' = Append(ctx, Padding)
-----------------------------------------------------------------------------
(* begin was called, as every client does first.                           *)
Init ==
  /\ ctx = <<>> /\ digest = NoDigest /\ finalized = FALSE
  /\ message = <<>> /\ asked = FALSE /\ shown = {}

begin ==
  /\ MD5_Init /\ finalized' = FALSE /\ UNCHANGED digest
  /\ message' = <<>> /\ asked' = FALSE /\ shown' = {}

(* No bytes stand for a null pointer, too.                                 *)
add(data) ==
  /\ IF ~finalized /\ data # <<>> THEN MD5_Update(data) ELSE UNCHANGED ctx
  /\ message' = IF asked THEN message ELSE message \o data
  /\ UNCHANGED <<digest, finalized, asked, shown>>

(* Mutant of Finalize: without the test of finalized.                      *)
FinalizeAnew == MD5_Final /\ finalized' = TRUE

(* The body of calculate, which toString calls.                            *)
Finalize ==
  IF ~finalized THEN MD5_Final /\ finalized' = TRUE
  ELSE UNCHANGED <<ctx, digest, finalized>>

calculate ==
  /\ Finalize
  /\ asked' = TRUE /\ UNCHANGED <<message, shown>>

toString ==
  /\ IF ~finalized THEN Finalize ELSE UNCHANGED <<ctx, digest, finalized>>
  /\ shown' = shown \cup {digest'}
  /\ asked' = TRUE /\ UNCHANGED message

Next ==
  \/ \E data \in BoundedSeq(Byte, MaxLen) : Len(message) + Len(data) <= MaxLen /\ add(data)
  \/ begin \/ calculate \/ toString

Spec == Init /\ [][Next]_md5Vars
-----------------------------------------------------------------------------
Message == BoundedSeq(Byte, MaxLen)

Fed == Seq(Byte \cup {Padding})

TypeOK ==
  /\ ctx \in Fed
  /\ digest \in Fed \cup {NoDigest} /\ finalized \in BOOLEAN
  /\ message \in Message /\ asked \in BOOLEAN
  /\ \A hex \in shown : hex \in Fed

(* However often calculate and toString are called after begin, and        *)
(* whatever is added in between, all that toString returns is the digest   *)
(* of the bytes added before the first of them, in however many pieces:    *)
(* neither that of an earlier message, which is still in digest, nor that  *)
(* of a context which was finalized twice.                                 *)
DigestIsOfMessage == shown \subseteq {message}
=============================================================================
