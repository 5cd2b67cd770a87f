--------------------------- MODULE MCCommandQueue ---------------------------
(* Instances of CommandQueue for TLC. *)
EXTENDS CommandQueue

CONSTANTS k1, k2, p1, w1, w2

OneKey == {k1}
TwoKeys == {k1, k2}
OneSize == {w1}
TwoSizes == {w1, w2}
=============================================================================
