------------------------- MODULE MCSingleTimerExecutor -------------------------
(* Two records are enough for every relation of a new record to the head   *)
(* and for a head that is left when the timer interrupt sets the alarm.    *)
EXTENDS SingleTimerExecutor

CONSTANTS e1, e2
TwoEvents == {e1, e2}
=============================================================================
