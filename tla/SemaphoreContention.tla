------------------------ MODULE SemaphoreContention ------------------------
(* FreeRTOSSemaphore with a history variable that tells whether the code   *)
(* has been put to what it does not handle, and what it implements until   *)
(* then.                                                                   *)
EXTENDS FreeRTOSSemaphore

(* TRUE once a taker has called xSemaphoreTake while another was inside of *)
(* it, or the condition variable has woken a sleeper for no reason.        *)
VARIABLE contended

HistoryInit == Init /\ contended = FALSE

HistoryNext ==
  /\ Next
  /\ contended' = \/ contended
                  \/ \E t \in Taker : \/ SpuriousWake(t)
                                      \/ Inside # {} /\ xSemaphoreTake(t)

HistorySpec == HistoryInit /\ [][HistoryNext]_<<vars, contended>> /\ Fairness

(* The token discipline of a binary semaphore, every pdTRUE paid for by a  *)
(* give and every pdFALSE given without a token: what xSemaphoreTake and   *)
(* xSemaphoreGive implement as long as no taker calls while another waits  *)
(* and the condition variable does not wake one for no reason.             *)
ImplementsBinarySemaphore ==
  BS!Init /\ [][contended' \/ BS!Next]_(BS!vars)
=============================================================================
