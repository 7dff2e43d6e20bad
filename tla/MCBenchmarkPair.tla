--------------------------- MODULE MCBenchmarkPair ---------------------------
(* Instances of BenchmarkPair for TLC.                                     *)
EXTENDS BenchmarkPair

CONSTANTS w1, w2, w3

Three == {w1, w2, w3}
==============================================================================
