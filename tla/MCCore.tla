------------------------------- MODULE MCCore -------------------------------
(* Bounds for the core: digital channels whose raw values are 0, 1 and one *)
(* more that also reads as 1; one alarm with a delay and one without.      *)
EXTENDS Core, TLC

CONSTANTS in1, out1, a1, a2

MCRaws  == 0 .. 2
MCEngs  == {0, 1}
MCEngOf == [r \in MCRaws |-> IF r = 0 THEN 0 ELSE 1]
MCRawOf == [v \in MCEngs |-> v]

MCScannedInit     == (in1 :> 1) @@ (out1 :> 0)
MCScannedWatches  == (a1 :> in1) @@ (a2 :> out1)
MCScannedConfig   ==
  (a1 :> [trigger |-> "digital", set_point |-> 0, delay |-> 1]) @@
  (a2 :> [trigger |-> "digital", set_point |-> 1, delay |-> 0])
=============================================================================
