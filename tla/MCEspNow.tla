------------------------------ MODULE MCEspNow ------------------------------
(* An instance of EspNow for TLC: two threads, one of which may tear down  *)
(* what the other delivers to, and callbacks that call the API themselves. *)
EXTENDS EspNow

CONSTANTS t1, t2, c1

TwoThreads  == {t1, t2}
OneCallback == {c1}
=============================================================================
