----------------------------- MODULE MCGateway -----------------------------
(***************************************************************************)
(* Instances of Gateway for TLC.  Requests and witnesses are symmetric in  *)
(* the safety run; messages and bundle ids are not (Init CHOOSEs one).     *)
(***************************************************************************)
EXTENDS Gateway, TLC

CONSTANTS r1, r2, m1, b1, b2, w1, w2, w3

TwoRequests    == {r1, r2}
OneMessage     == {m1}
OneId          == {b1}
TwoIds         == {b1, b2}
TwoWitnesses   == {w1, w2}
ThreeWitnesses == {w1, w2, w3}

Symmetry2 == Permutations(TwoRequests) \cup Permutations(ThreeWitnesses)
============================================================================
