------------------------ MODULE MCFreeRTOSSemaphore ------------------------
(* An instance of FreeRTOSSemaphore for TLC.                               *)
EXTENDS SemaphoreContention, TLC

CONSTANTS t1, t2, t3, g1

ThreeTakers == {t1, t2, t3}
WithIsr     == {t1, t2, t3, g1}
=============================================================================
