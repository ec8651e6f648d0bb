--------------------------- MODULE MCWitnessKeys ---------------------------
(* Instances of WitnessKeys for TLC. *)
EXTENDS WitnessKeys

CONSTANTS w1, w2, k1, k2, k3, k4

TwoWitnesses == {w1, w2}
FourKeys     == {k1, k2, k3, k4}
============================================================================
