---------------------------- MODULE MCApplication ----------------------------
(* Bounds for the PLC library: a motor or valve has one tick to respond    *)
(* and an alert lasts two.                                                 *)
EXTENDS Application
=============================================================================
