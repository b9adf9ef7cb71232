---------------------------- MODULE MCTimeAlarms ----------------------------
(* An instance of TimeAlarms for TLC: two slots, so that the table fills   *)
(* up and one alarm's callback can act on the other; alarms due at once or *)
(* later; a delay nested in a callback.                                    *)
EXTENDS TimeAlarms

NowOrLater == {0, 2}

Operation == {"timerRepeat", "timerOnce", "enable", "disable", "free", "write",
              "writeNextTrigger", "reset", "delay"}
=============================================================================
