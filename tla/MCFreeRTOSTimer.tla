--------------------------- MODULE MCFreeRTOSTimer ---------------------------
(* Instances of FreeRTOSTimer for TLC: three timers are the fewest of      *)
(* which one can be deleted before, and one skipped after, a fired one.    *)
EXTENDS FreeRTOSTimer, TLC

CONSTANTS t1, t2, t3

TwoTimers   == {t1, t2}
ThreeTimers == {t1, t2, t3}

AllButDelete == Operation \ {"xTimerDelete"}
OnlyDelete   == {"xTimerDelete"}

Symmetric == Permutations(Timer)
=============================================================================
