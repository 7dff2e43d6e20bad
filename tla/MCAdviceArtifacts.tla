-------------------------- MODULE MCAdviceArtifacts --------------------------
(* Instances of AdviceArtifacts for TLC.                                   *)
EXTENDS AdviceArtifacts

CONSTANTS w1, w2, w3

(* The first two writers have the same second and the same response.       *)
Ids == [w \in Writers |-> IF w \in {w1, w2} THEN "a" ELSE "b"]
==============================================================================
