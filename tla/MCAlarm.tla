------------------------------ MODULE MCAlarm ------------------------------
(* Bounds for the alarm: three channel values around two set points, so    *)
(* that each trigger sees both conditions under each set point, and delays *)
(* of up to two ticks, or none, with one more tick to tell "elapsed" from    *)
(* "longer".                                                                *)
EXTENDS Alarm

MCValues    == 0 .. 2
MCSetPoints == {1, 2}
MCDelays    == {0, 1, 2}
=============================================================================
