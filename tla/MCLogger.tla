------------------------------ MODULE MCLogger ------------------------------
(* Bounds for the logger: two buffers, so that two requests use up the     *)
(* pool, and two channels, of which a request may trace none, one or both; *)
(* core and one more thread report alarms, two threads ask for sets.       *)
EXTENDS Logger, TLC

CONSTANTS c1, c2

BothChannels == {c1, c2}
NoneOrBoth   == {{}, {c1, c2}}
OneOrOther   == {{c1}, {c2}}
OnlyOne      == {{c1}}

OnlyCommit == {"commit"}
Statement  == {"statement"}
NotCommit  == {"statement", "memory"}

(* Buffers may be exchanged, and so may the channels, where a set of       *)
(* either may be asked for.                                                *)
BothSymmetries == Permutations(Buffers) \cup Permutations({c1, c2})
=============================================================================
