--------------------------- MODULE MCBenchGateway ---------------------------
(* Instances of BenchGateway for TLC. *)
EXTENDS BenchGateway

OneTransaction == {1}
OneLatency     == {1}
DefaultRate    == {10}
=============================================================================
