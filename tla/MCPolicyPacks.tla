---------------------------- MODULE MCPolicyPacks ----------------------------
(* Instances of PolicyPacks for TLC.                                       *)
EXTENDS PolicyPacks, TLC

CONSTANTS a1, a2, b1, a, b

(* Two versions of one pack and one of another.                            *)
Packs == (a1 :> a) @@ (a2 :> a) @@ (b1 :> b)

Several == {Install(a2, FALSE), Install(b1, TRUE),
            Remove(a, TRUE), Lock, Advise}

SelectAndAdvise == {Install(b1, TRUE), Advise}

(* The processes differ in nothing.                                        *)
Interchangeable == Permutations(Procs)
==============================================================================
