----------------------------- MODULE Verification -----------------------------
(***************************************************************************)
(* What a report says of the tests of each file, and which files it ranks    *)
(* first (src/overlays/mod.rs): whether verification applies to a file, its  *)
(* nearby tests and how sure the mapping is, what changed together with it,  *)
(* the gap, and the ranking by structural pressure.                          *)
(*                                                                           *)
(* Files are numbers in the order of their paths; what is said of the tests  *)
(* themselves is left out.  A gap is given in sixtieths.  Between two        *)
(* reports people add a test.                                                *)
(***************************************************************************)
EXTENDS Naturals, Sequences, FiniteSetsExt, SequencesExt, Functions

CONSTANTS Sources, Tests,  \* files, and tests there may be
          Facts,           \* what the files may be like: [Sources -> facts]
          Likenesses,      \* how the tests may be like the sources, of
                           \* {"configured", "stem", "prefix", "terms"}
          Nearby,          \* tests a file names at most
          TopFiles,        \* files ranked at most
          None

VARIABLES facts,    \* class, tokens, changes and neighbours of each file
          like,     \* how each test is like each source
          tests,    \* the tests there are
          overlay,  \* what the last report says of each file; None before the first
          before    \* what the report before said
vars == <<facts, like, tests, overlay, before>>

Init == /\ facts \in Facts /\ like \in Likenesses
        /\ tests = {} /\ overlay = None /\ before = None

(***************************************************************************)
(* The nearby tests, by how they were found.                                *)
(***************************************************************************)
By(f, way) == {t \in tests : way \in like[t][f]}
Configured(f) == IF facts[f].mapped THEN By(f, "configured") ELSE {}

(* Module prefixes are tried where no test has the name of the file; a       *)
(* configured test comes first.                                              *)
Rank(f, t) == IF t \in Configured(f) THEN 0
              ELSE IF t \in By(f, "stem") THEN 1
              ELSE IF By(f, "stem") = {} /\ t \in By(f, "prefix") THEN 2 ELSE 3

RankedTests(f) ==
    Configured(f) \cup By(f, "stem") \cup By(f, "terms")
        \cup (IF By(f, "stem") = {} THEN By(f, "prefix") ELSE {})

NearbyTests(f) ==
    LET ranked == SetToSortSeq(RankedTests(f), LAMBDA s, t :
                     \/ Rank(f, s) < Rank(f, t)
                     \/ (Rank(f, s) = Rank(f, t) /\ s < t))
    IN SubSeq(ranked, 1, Min({Nearby, Len(ranked)}))

(* A mapping that is configured for the file is strong, with a test or not.  *)
Strong(f) == By(f, "stem") # {} \/ facts[f].mapped

(* Mutant: a test found by its terms makes every mapping a weak one.         *)
WeakFirst(f) ==
    IF facts[f].inline THEN "high"
    ELSE IF NearbyTests(f) # <<>> /\ By(f, "terms") # {} THEN "low"
    ELSE IF Strong(f) THEN "high"
    ELSE IF NearbyTests(f) # <<>> THEN "low"
    ELSE IF tests = {} THEN "unavailable" ELSE "none"

MappingConfidence(f) ==
    IF facts[f].inline \/ Strong(f) THEN "high"
    ELSE IF NearbyTests(f) # <<>> THEN "low"
    ELSE IF tests = {} THEN "unavailable" ELSE "none"

(***************************************************************************)
(* The verdict on a file.                                                   *)
(***************************************************************************)
(* The last override that speaks of it decides; "auto" leaves it to the      *)
(* class.                                                                    *)
Applicability(f) ==
    LET said == SelectSeq(facts[f].overrides, LAMBDA o : o # None)
        decided == IF said = <<>> THEN "auto" ELSE Last(said)
    IN IF decided = "not_applicable" THEN "not_applicable_override"
       ELSE IF decided = "applicable" \/ facts[f].class \in {"source", "tool"} THEN "applicable"
       ELSE "not_applicable_non_source"

(* What changed together with the file, as far as it still is.               *)
Neighbours(f) == facts[f].neighbours \cap (Sources \cup tests)
TestNeighbours(f) == Neighbours(f) \cap tests

Hotspot(f) == ~ facts[f].inline /\ facts[f].hot /\ NearbyTests(f) = <<>>

Distance(f) == CASE MappingConfidence(f) = "high" -> 0
                 [] MappingConfidence(f) = "low" -> 18
                 [] OTHER -> 36
Apart(f) == IF TestNeighbours(f) = {} THEN 12
            ELSE 12 - (12 * Cardinality(TestNeighbours(f))) \div Cardinality(Neighbours(f))
Gap(f) == IF facts[f].inline THEN 0
          ELSE Distance(f) + Apart(f) + (IF Hotspot(f) THEN 12 ELSE 0)

EvidenceStatus(f) ==
    IF Applicability(f) # "applicable" THEN "not_applicable"
    ELSE IF ~ facts[f].analyzed THEN "evidence_unavailable"
    ELSE IF MappingConfidence(f) = "low" THEN "mapping_confidence_low"
    ELSE IF facts[f].inline \/ NearbyTests(f) # <<>> \/ TestNeighbours(f) # {} THEN "evidence_found"
    ELSE IF tests = {} THEN "no_mapping" ELSE "no_evidence"

(***************************************************************************)
(* The ranking: the files that are large and changed enough, by pressure     *)
(* weighed with the confidence in it (in fiftieths: a file without retained  *)
(* relationships counts three fifths).                                       *)
(***************************************************************************)
Eligible(f) ==
    /\ facts[f].tokens >= 512 /\ facts[f].class \in {"source", "tool"}
    /\ \/ facts[f].revisions >= 10
       \/ facts[f].revisions >= 5 /\ facts[f].retained >= 1

Weighed(f) == facts[f].pressure * Min({facts[f].revisions, 10})
                * (IF facts[f].retained > 0 THEN 5 ELSE 3)

TopStructural ==
    LET ranked == SetToSortSeq({f \in Sources : Eligible(f)}, LAMBDA f, g :
                     \/ Weighed(f) > Weighed(g)
                     \/ (Weighed(f) = Weighed(g) /\ f < g))
    IN SubSeq(ranked, 1, Min({TopFiles, Len(ranked)}))

Report == [files |-> [f \in Sources |->
             [applies |-> Applicability(f), status |-> EvidenceStatus(f),
              confidence |-> MappingConfidence(f), nearby |-> NearbyTests(f),
              gap |-> IF Applicability(f) = "applicable" THEN Gap(f) ELSE None]],
           top |-> TopStructural]

Find == /\ overlay' = Report /\ before' = overlay
        /\ overlay' # overlay
        /\ UNCHANGED <<facts, like, tests>>

AddTest == /\ overlay # None /\ overlay = Report
           /\ \E t \in Tests \ tests : tests' = tests \cup {t}
           /\ UNCHANGED <<facts, like, overlay, before>>

Next == Find \/ AddTest

Spec == Init /\ [][Next]_vars

(***************************************************************************)
(* Properties.                                                              *)
(***************************************************************************)
(* Adding a test never widens the gap of a file, however the test is like    *)
(* it and whatever changed together with it.                                 *)
TestsCloseGaps ==
    before # None => \A f \in Sources :
        overlay.files[f].gap # None => overlay.files[f].gap <= before.files[f].gap

(* A file that is told to have no evidence has four fifths of the gap or     *)
(* more, but where a configured mapping names no test; one without a gap has *)
(* evidence; and the tests it names are the best found.                      *)
EvidenceMatchesGap ==
    overlay # None => \A f \in Sources :
        LET said == overlay.files[f]
        IN /\ said.status \in {"no_evidence", "no_mapping"} /\ ~ facts[f].mapped => said.gap >= 48
           /\ said.gap = 0 /\ facts[f].analyzed => said.status = "evidence_found"
           /\ overlay = Report =>
                 \A t \in RankedTests(f) \ Range(said.nearby) :
                    \A s \in Range(said.nearby) : Rank(f, s) <= Rank(f, t)
===============================================================================
