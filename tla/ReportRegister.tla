--------------------------- MODULE ReportRegister ---------------------------
(***************************************************************************)
(* What a directory with a `latest` promises to those who read it: a       *)
(* register that holds nothing until the first publication, and from then  *)
(* on the report of the last `find` that published.  A publication puts in *)
(* a whole new report; nothing takes a report out, and no report comes     *)
(* back once another has replaced it.  ReportStore implements it, and      *)
(* AdviceArtifacts with its writers for Finds.                             *)
(***************************************************************************)
EXTENDS Integers

CONSTANTS Finds,   \* invocations of `git slop find`
          Nobody   \* no invocation

VARIABLES current,   \* the invocation whose report the register holds
          published  \* the invocations that have published

vars == <<current, published>>

TypeOK ==
    /\ current \in Finds \cup {Nobody}
    /\ published \subseteq Finds

Init ==
    /\ current = Nobody
    /\ published = {}

Publish(f) ==
    /\ f \notin published
    /\ current' = f
    /\ published' = published \cup {f}

Next == \E f \in Finds : Publish(f)

Spec == Init /\ [][Next]_vars
==============================================================================
