------------------------------ MODULE MCStream ------------------------------
(* Bounds for the stream: a queue of a few bytes, so that it wraps around  *)
(* and fills up within a few writes, and writes that do not fit into it.   *)
EXTENDS Stream

MCMaxLen    == [master |-> 4, other |-> 6]
MCShortOnes == [master |-> 2, other |-> 2]
=============================================================================
