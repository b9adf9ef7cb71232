-------------------------- MODULE MCFreeRTOSQueue --------------------------
(* Instances of FreeRTOSQueue for TLC: three threads are enough for two    *)
(* callers of one kind to compete while a third serves them, and capacity  *)
(* 2 lets the queue be empty, half full and full.                          *)
EXTENDS FreeRTOSQueue, TLC

CONSTANTS t1, t2, t3, a, b

ThreePlayers == {t1, t2, t3}
TwoItems     == {a, b}
AllOps       == {"SendBack", "SendFront", "Receive", "Peek"}

Symmetric == Permutations(Thread) \cup Permutations(Item)
=============================================================================
