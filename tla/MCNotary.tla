------------------------------ MODULE MCNotary ------------------------------
(* Instances of Notary for TLC; witnesses, key pairs and messages are symmetric. *)
EXTENDS Notary, TLC

CONSTANTS w1, w2, w3, k1, k2, k3, k4, m1, m2

TwoWitnesses   == {w1, w2}
ThreeWitnesses == {w1, w2, w3}
ThreeKeys      == {k1, k2, k3}
FourKeys       == {k1, k2, k3, k4}
OneMessage     == {m1}
TwoMessages    == {m1, m2}

Symmetry == Permutations(ThreeWitnesses) \cup Permutations(ThreeKeys)
              \cup Permutations(TwoMessages)
=============================================================================
