---------------------------- MODULE MCReportStore ----------------------------
(***************************************************************************)
(* Instances of ReportStore for TLC.                                       *)
(***************************************************************************)
EXTENDS ReportStore

CONSTANTS f1, f2, f3

(* Every `find` uses the default state root, or each has its own           *)
(* --state-dir while they share the output directory.                      *)
OneRoot == [f \in Finds |-> "slop"]
TwoRoots == [f \in Finds |-> IF f = f1 THEN "a" ELSE "b"]

(* The second `find` runs in the second of the first one; or all of them   *)
(* share one time stamp, as with a fixed --as-of.                          *)
TwoStamps == [f \in Finds |-> IF f \in {f1, f2} THEN 1 ELSE 2]
OneStamp == [f \in Finds |-> 1]

(* The report of the second `find` is larger than that of the others.      *)
Sizes == [f \in Finds |-> IF f = f2 THEN 3 ELSE 1]
==============================================================================
