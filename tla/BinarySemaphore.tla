--------------------------- MODULE BinarySemaphore ---------------------------
(***************************************************************************)
(* What a binary semaphore or a FreeRTOS mutex promises: one token, handed *)
(* to at most one taker between two gives.                                 *)
(***************************************************************************)
CONSTANTS Taker, Giver

VARIABLES kind,     (* "none", "binary" or "mutex"                         *)
          token,    (* the semaphore can be taken                          *)
          blocked,  (* the takers inside a call that has to wait           *)
          holders   (* the takers that were granted the token and have not *)
                    (* given since                                         *)

vars == <<kind, token, blocked, holders>>

Init ==
  /\ kind = "none"
  /\ token = FALSE
  /\ blocked = {}
  /\ holders = {}

(* A binary semaphore starts unavailable, a mutex starts available.        *)
Create(k) ==
  /\ kind = "none"
  /\ kind' = k
  /\ token' = (k = "mutex")
  /\ UNCHANGED <<blocked, holders>>

Delete ==
  /\ kind # "none"
  /\ blocked = {}
  /\ kind' = "none"
  /\ token' = FALSE
  /\ holders' = {}
  /\ UNCHANGED blocked

Give(t) ==
  /\ kind # "none"
  /\ token' = TRUE
  /\ holders' = holders \ {t}
  /\ UNCHANGED <<kind, blocked>>

Block(t) ==
  /\ kind # "none"
  /\ ~token
  /\ blocked' = blocked \cup {t}
  /\ UNCHANGED <<kind, token, holders>>

(* t, arriving or blocked, is granted the token, which must be there.      *)
Grant(t) ==
  /\ kind # "none"
  /\ token
  /\ token' = FALSE
  /\ holders' = holders \cup {t}
  /\ blocked' = blocked \ {t}
  /\ UNCHANGED kind

(* t stops waiting; the token is not there at that instant.                *)
Refuse(t) ==
  /\ t \in blocked
  /\ ~token
  /\ blocked' = blocked \ {t}
  /\ UNCHANGED <<kind, token, holders>>

Next ==
  \/ Create("binary") \/ Create("mutex") \/ Delete
  \/ \E t \in Giver : Give(t)
  \/ \E t \in Taker : Block(t) \/ Grant(t) \/ Refuse(t)

Spec == Init /\ [][Next]_vars
=============================================================================
