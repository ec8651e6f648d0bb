------------------------------ MODULE MCBench ------------------------------
(* Instances of Bench for TLC. *)
EXTENDS Bench

EmptyOrNot   == {0, 1}
TwoLatencies == {1, 2}
ZeroOrTen    == {0, 10}
============================================================================
