---------------------------- MODULE ReportContract ----------------------------
(***************************************************************************)
(* Reading a report somebody else may have written: the hand-written rules,  *)
(* the published JSON schema and the typed check of                          *)
(* src/report/write/validation.rs, the migration of schema 4                 *)
(* (report/write/contract/migration.rs), and `report validate | migrate`     *)
(* (cli/reporting.rs).                                                       *)
(*                                                                         *)
(* A report is a mark for each of some representative places: "good",        *)
(* "filled" (by the migration), "absent", of a wrong "type", with a wrong    *)
(* "value", an "empty" object, one with an "extra" field, or, for a field of *)
(* schema 4 only, "legacy".  A hash may be "upper" case, and a band have an   *)
(* "old" name of its; a band of maintenance pressure may also be the "top"    *)
(* one, or "lowered" to that below.  A place stands for the fields treated    *)
(* like it.                                                                  *)
(***************************************************************************)
EXTENDS Naturals, ReportFields

CONSTANTS Rules,     \* FieldRules
          MaxFlaws,  \* bound: places changed in a sound report
          None

VARIABLES document,  \* the given report: [version, marks]
          flaws,     \* how many of its places were changed
          written,   \* what `report migrate` wrote, or None
          reading    \* the last reading of either, or None

vars == <<document, flaws, written, reading>>

Places == DOMAIN Rules
Refused(p) == Rules[p].early \cup Rules[p].late \cup Rules[p].published \cup Rules[p].typed

(* Today's report, and one of schema 4 as the fixtures of the tests have it. *)
OnlyLegacy == {HeadCommit, OldRelationships}
InLegacy == {Repo, Config, Stats, Complete, Summary, File, ContextBand, SlopBand, LoadCosts,
             Health, OverlaysPart}
Sound(version) ==
    [p \in Places |->
        IF p \in OnlyLegacy THEN IF version = 4 THEN "legacy" ELSE "absent"
        ELSE IF version = 4 /\ p \notin InLegacy THEN "absent" ELSE "good"]
Sample(version) == [version |-> version, marks |-> Sound(version)]

-----------------------------------------------------------------------------
(* Validation.                                                               *)

(* A place is looked at when nothing above it is missing or of a wrong type. *)
Reached(marks, p) ==
    LET u == Rules[p].under IN u # Root => marks[u] \notin {"absent", "type", "empty"}
Flawed(marks, check) == {p \in Places : Reached(marks, p) /\ marks[p] \in Rules[p][check]}

(* The hand-written rules name the field, present or not; the schema names   *)
(* the object that misses a field or has one too many.                       *)
ByHand(marks, p) == <<p, IF marks[p] = "extra" THEN "unknown field" ELSE "itself">>
BySchema(marks, p) ==
    <<IF marks[p] \in {"absent", "legacy"} THEN Rules[p].parent ELSE p, "itself">>

(* An index that is no object ends the validation where it is met.           *)
NotRead(marks) ==
    IF marks[CompareIndex] = "type" THEN {PolicyIndex, PolicyTokens} ELSE {}
Cut(marks) == "type" \in {marks[CompareIndex], marks[PolicyIndex]}

Issue(at, by) == [at |-> at, by |-> by]

(* validation_issues: one schema error at most for a pointer not named yet.  *)
Issues(report) ==
    LET marks == report.marks
        early == Flawed(marks, "early") \ NotRead(marks)
        late == IF Cut(marks) THEN {} ELSE Flawed(marks, "late")
        hand == {ByHand(marks, p) : p \in early \cup late}
                \cup (IF report.version = 5 THEN {} ELSE {<<"/schema_version", "itself">>})
        schema == IF Cut(marks) THEN {}
                  ELSE {BySchema(marks, p) : p \in Flawed(marks, "published")} \ hand
    IN {Issue(q, "hand") : q \in hand} \cup {Issue(q, "schema") : q \in schema}

(* validate_report_shape: the typed check is reached by a report without     *)
(* issues only.                                                              *)
Errors(report) ==
    LET issues == Issues(report) IN
    IF issues # {} THEN issues
    ELSE {Issue(<<p, "itself">>, "types") : p \in Flawed(report.marks, "typed")}

-----------------------------------------------------------------------------
(* Migration of schema 4.                                                    *)

(* What may not be normalized ends it.                                       *)
ConfigRefused(marks) == marks[Config] \in {"type", "value", "extra"}
Hopeless(marks) ==
    \/ ConfigRefused(marks)
    \/ "type" \in {marks[Analyzer], marks[Stats], marks[Collections], marks[OverlaysPart]}

Missing(marks, p) == ~Reached(marks, p) \/ marks[p] = "absent"
IfMissing(marks, p, instead) == IF Missing(marks, p) THEN instead ELSE marks[p]

(* Objects are supplied whole or entry by entry, and the items of the queue  *)
(* from their files; the fields of a given scope or index, the repository    *)
(* and the lists of records are not.                                         *)
Queued == {QueueBand}
Supplied == Queued \cup {Analyzer, Digest, ScopePart, Stats, Complete, Summary, Diagnostics,
                       FileBytes, Provenance, ContextBand, SlopBand, Feed, CompareIndex,
                       Collections, OverlaysPart}
(* What stands under an object that was not there comes with it.             *)
Within(marks, p) ==
    \/ p = PathDigest /\ Missing(marks, ScopePart)
    \/ p = CompareFiles /\ Missing(marks, CompareIndex)

(* normalize_legacy_scalar_contracts: an old name becomes the new one, and   *)
(* what is no band the lowest; but the highest band of maintenance pressure  *)
(* is treated like an old name too, and becomes the band below it.           *)
Bands == {ContextBand, QueueBand, SlopBand}
Canonical(mark) == CASE mark \in {"type", "value"} -> "filled"
                     [] mark = "old" -> "good"
                     [] mark = "top" -> "lowered"
                     [] OTHER -> mark

(* Mutant: the fallback replaces what the report says.                       *)
MigratedOver(marks) ==
    [p \in Places |-> IF p \in Supplied \/ Within(marks, p) THEN "filled"
                      ELSE IF p \in OnlyLegacy THEN "absent" ELSE marks[p]]

(* The old relationships and head_commit move, unless the new place is       *)
(* taken; a head of another length or with other digits becomes null, bands  *)
(* become canonical; other keys of the summary go; a health that cannot be   *)
(* read is computed anew, and the configuration is completed.                *)
Migrated(marks) ==
    [p \in Places |->
        IF p \in OnlyLegacy THEN "absent"
        ELSE IF (p \in Supplied /\ Missing(marks, p)) \/ Within(marks, p) THEN "filled"
        ELSE CASE p = Relationships ->
                    IfMissing(marks, p, IF Missing(marks, OldRelationships) THEN "absent" ELSE "good")
               [] p = HeadSha /\ Missing(marks, p) ->
                    IF Missing(marks, HeadCommit) THEN "filled" ELSE "good"
               [] p = HeadSha /\ marks[p] = "value" -> "filled"
               [] p \in Bands -> Canonical(marks[p])
               [] p = Stats /\ marks[p] = "empty" -> "good"
               [] p = Summary /\ marks[p] = "extra" -> "good"
               [] p = Health /\ marks[p] \in Object -> "filled"
               [] p = Config /\ Missing(marks, p) -> "filled"
               [] OTHER -> marks[p]]

(* migrate_legacy_report: None when it is refused.                           *)
Migration(report) ==
    IF report.version # 4 \/ Hopeless(report.marks) THEN None
    ELSE [version |-> 5, marks |-> Migrated(report.marks)]

(* load_report_with_legacy: [report] or the errors of what was validated; a  *)
(* refused migration has no errors at a place.                               *)
Load(report, allowLegacy) ==
    LET read == IF report.version # 4 THEN report
                ELSE IF allowLegacy THEN Migration(report) ELSE None
    IN IF read = None THEN [report |-> None, errors |-> {}]
       ELSE LET errors == Errors(read)
            IN [report |-> IF errors = {} THEN read ELSE None, errors |-> errors]

-----------------------------------------------------------------------------
Init ==
    /\ document \in {Sample(v) : v \in 4 .. 6}
    /\ flaws = 0 /\ written = None /\ reading = None

(* Another tool, or another version, writes the report otherwise. A nested   *)
(* place changes only where there is something around it.                    *)
Alter(p, mark) ==
    /\ flaws < MaxFlaws /\ written = None /\ reading = None
    /\ Reached(document.marks, p) /\ mark # document.marks[p]
    /\ document' = [document EXCEPT !.marks[p] = mark]
    /\ flaws' = flaws + 1
    /\ UNCHANGED <<written, reading>>

Source(which) == IF which = "given" THEN document ELSE written

(* `report validate`; every other command reads a report with legacy allowed.*)
(* A refusal lists what validation_violations finds in the file as it is.    *)
Validate(which, allowLegacy) ==
    /\ Source(which) # None
    /\ LET loaded == Load(Source(which), allowLegacy)
       IN reading' = [of |-> which, allowed |-> allowLegacy] @@ loaded
                     @@ [violations |-> IF loaded.report # None THEN {}
                                        ELSE Issues(Source(which))]
    /\ UNCHANGED <<document, flaws, written>>

(* `report migrate` writes what it made without validating it.               *)
Migrate ==
    /\ Migration(document) # None
    /\ written' = Migration(document) /\ reading' = None
    /\ UNCHANGED <<document, flaws>>

Next ==
    \/ \E p \in Places : \E mark \in Refused(p) : Alter(p, mark)
    \/ Alter(SlopBand, "top")
    \/ \E which \in {"given", "written"}, allowLegacy \in BOOLEAN : Validate(which, allowLegacy)
    \/ Migrate

Spec == Init /\ [][Next]_vars

-----------------------------------------------------------------------------
(* The report a reading is about, as it was validated.                       *)
Validated == LET source == Source(reading.of) IN
             IF source.version = 4 THEN Migration(source) ELSE source

(* What a command goes on with satisfies every rule, the schema's for the    *)
(* fields no rule was written for by hand as well.                           *)
ReadIsSound ==
    reading # None /\ reading.report # None =>
        /\ reading.report.version = 5
        /\ \A p \in Places :
              Reached(reading.report.marks, p) => reading.report.marks[p] \notin Refused(p)

(* A refused report is refused for something: every error is at a place that *)
(* breaks a rule, just above it or just below it, and unless an index was no *)
(* object every such place is told of, though the schema names an object     *)
(* once only and not at all when a rule by hand has.                         *)
Around(at, p) == at[1] = p \/ at = <<Rules[p].parent, "itself">>
FlawsAreTold ==
    reading # None /\ Validated # None /\ Validated.version = 5 /\ reading.errors # {} =>
        LET marks == Validated.marks
            told == {e.at : e \in reading.errors}
            wrong == {p \in Places : Reached(marks, p) /\ marks[p] \in Refused(p)}
            checked == wrong \ Flawed(marks, "typed")
        IN /\ \A at \in told : \E p \in wrong : Around(at, p)
           /\ ~Cut(marks) => \A p \in checked : \E at \in told : Around(at, p)

(* A migration keeps what the old report soundly says, under the names of    *)
(* today, but for the highest band of maintenance pressure: that one it      *)
(* lowers by one, never to the lowest.  And it leaves a sound report of one  *)
(* that soundly says less: with no other change than fields left out that    *)
(* schema 4 did not have either, what it writes is accepted.                 *)
MigrationCompletes ==
    LET Says(p, mark) == Reached(document.marks, p) /\ document.marks[p] = mark
        Moves(old, new) == Says(old, "legacy") /\ Missing(document.marks, new)
        SaysLess == \A p \in Places : document.marks[p] \in {Sound(4)[p], "old", "top"}
    IN written # None =>
        /\ \A p \in Places : Says(p, "good") => written.marks[p] = "good"
        /\ \A p \in Bands : Says(p, "old") => written.marks[p] = "good"
        /\ Says(SlopBand, "top") => written.marks[SlopBand] = "lowered"
        /\ Moves(OldRelationships, Relationships) => written.marks[Relationships] = "good"
        /\ Moves(HeadCommit, HeadSha) => written.marks[HeadSha] = "good"
        /\ SaysLess => Errors(written) = {}

ContractKept == ReadIsSound /\ FlawsAreTold /\ MigrationCompletes
=============================================================================
