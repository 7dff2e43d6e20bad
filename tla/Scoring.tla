-------------------------------- MODULE Scoring --------------------------------
(***************************************************************************)
(* From the measures of the files to the verdicts of the report: the score   *)
(* and the bands of every file and folder (src/scoring.rs), and the health   *)
(* rollup that counts, ranks and names what exceeds them (src/health/).      *)
(*                                                                           *)
(* A path is the sequence of its folders with the file's name at the end.    *)
(* Pressures and scores are whole percents: the code rounds to six and to    *)
(* one decimal.                                                              *)
(***************************************************************************)
EXTENDS Naturals, Sequences, FiniteSetsExt, SequencesExt, Functions

CONSTANTS Places,         \* paths
          Sizes,          \* token counts a file may have
          Activities,     \* [revisions, churn, age]: age is the age pressure, in percent
          Shared,         \* tokenization.context_bands: [compact, healthy, warning]
          Special,        \* health.profile_context_bands of the "data" profile
          FolderBands,    \* health.folder_bands: [compact, healthy, warning, files, refactor]
          None

VARIABLES perProfile,   \* health.profile_threshold_policy
          reliable,     \* history evidence is reliable
          files,        \* what was measured and scored, of every path
          folders,      \* folder records
          health        \* the rollup
vars == <<perProfile, reliable, files, folders, health>>

Init == /\ perProfile = FALSE /\ reliable = FALSE
        /\ files = None /\ folders = None /\ health = None

SumOver(S, f) == FoldSet(LAMBDA x, acc : f[x] + acc, 0, S)
AtMost(limit, n) == Min({limit, n})

(***************************************************************************)
(* Files.                                                                   *)
(***************************************************************************)
Band(tokens, limits) ==
    IF tokens <= limits.compact THEN "compact"
    ELSE IF tokens <= limits.healthy THEN "healthy"
    ELSE IF tokens <= limits.warning THEN "warning" ELSE "critical"
Thresholds(profile, special) == IF special /\ profile = "data" THEN Special ELSE Shared
ContextPressure(tokens, limits) == AtMost(100, (100 * tokens) \div limits.warning)

SlopBand(score) ==
    IF score >= 85 THEN "critical"
    ELSE IF score >= 65 THEN "high" ELSE IF score >= 50 THEN "moderate" ELSE "low"

(* The nearest-rank 95th percentile, at least one.                           *)
P95(values) ==    \* values: path -> number
    LET n == Cardinality(DOMAIN values)
        rank == Max({1, (95 * n + 99) \div 100})
        below(v) == Cardinality({p \in DOMAIN values : values[p] <= v})
    IN Max({1, Min({v \in Range(values) : below(v) >= rank})})

Reasons(context, m, support, churn) ==
    (IF context = "critical" THEN {"critical_token_cost"} ELSE {})
    \cup (IF context = "warning" THEN {"high_token_cost"} ELSE {})
    \cup (IF support = 100 /\ m.age >= 50 THEN {"old_file"} ELSE {})
    \cup (IF support = 100 /\ m.age >= 50 /\ churn >= 60 THEN {"old_and_volatile"} ELSE {})

(* Age and churn weigh only as far as five revisions support them.           *)
Scored(m, top, special, evidence) ==
    LET limits == Thresholds(m.profile, special)
        support == IF evidence THEN AtMost(100, 20 * m.revisions) ELSE 0
        norm(v, p95) == (AtMost(100, (100 * v) \div p95) * support) \div 100
        churn == (6 * norm(m.revisions, top.revisions) + 4 * norm(m.churn, top.churn)) \div 10
        context == Band(m.tokens, limits)
        score == (60 * ContextPressure(m.tokens, limits)
                  + 20 * ((m.age * support) \div 100) + 20 * churn) \div 100
    IN [tokens |-> m.tokens, profile |-> m.profile, class |-> m.class,
        context |-> context, score |-> score, slop |-> SlopBand(score),
        reasons |-> Reasons(context, m, support, churn)]

Measures == [tokens : Sizes, class : {"source", "docs"}, activity : Activities]
Profile(class) == IF class = "source" THEN "agent_context" ELSE "data"

Score == \E chosen \in [Places -> Measures], special, evidence \in BOOLEAN :
    LET measured == [p \in Places |->
            [tokens |-> chosen[p].tokens, class |-> chosen[p].class,
             profile |-> Profile(chosen[p].class), revisions |-> chosen[p].activity.revisions,
             churn |-> chosen[p].activity.churn, age |-> chosen[p].activity.age]]
        top == [revisions |-> P95([p \in Places |-> chosen[p].activity.revisions]),
                churn |-> P95([p \in Places |-> chosen[p].activity.churn])]
    IN /\ files = None
       /\ perProfile' = special /\ reliable' = evidence
       /\ files' = [p \in Places |-> Scored(measured[p], top, special, evidence)]
       /\ UNCHANGED <<folders, health>>

(***************************************************************************)
(* Folders.  The root is <<>>.                                              *)
(***************************************************************************)
DirectParent(path) == SubSeq(path, 1, Len(path) - 1)
ParentFolders(path) == {SubSeq(path, 1, n) : n \in 0 .. Len(path) - 1}
FolderSet == UNION {ParentFolders(p) : p \in Places}

Worse(fs, p, q) == \/ fs[p].score > fs[q].score
                   \/ fs[p].score = fs[q].score /\ fs[p].tokens >= fs[q].tokens

FolderBand(tokens, count) ==
    IF tokens > FolderBands.warning \/ count > FolderBands.refactor THEN "budget_exceeded"
    ELSE IF tokens > FolderBands.healthy \/ count > FolderBands.files THEN "warning"
    ELSE IF tokens > FolderBands.compact THEN "healthy" ELSE "compact"

(* Mutant: the band of a folder counts the files below its subfolders too.   *)
FolderRecordDeep(fs, folder, descendants) ==
    LET top == CHOOSE p \in descendants : \A q \in descendants : Worse(fs, p, q)
        direct == {p \in descendants : DirectParent(p) = folder}
        tokens == [p \in descendants |-> fs[p].tokens]
    IN [tokens |-> SumOver(descendants, tokens), direct |-> Cardinality(direct),
        band |-> FolderBand(SumOver(descendants, tokens), Cardinality(descendants)),
        context |-> Band(SumOver(descendants, tokens), Shared),
        slop |-> fs[top].slop, score |-> fs[top].score, top |-> top,
        reasons |-> UNION {fs[p].reasons : p \in descendants}]

FolderRecord(fs, folder, descendants) ==
    LET top == CHOOSE p \in descendants : \A q \in descendants : Worse(fs, p, q)
        direct == {p \in descendants : DirectParent(p) = folder}
        tokens == [p \in descendants |-> fs[p].tokens]
    IN [tokens |-> SumOver(descendants, tokens), direct |-> Cardinality(direct),
        band |-> FolderBand(SumOver(direct, tokens), Cardinality(direct)),
        context |-> Band(SumOver(descendants, tokens), Shared),
        slop |-> fs[top].slop, score |-> fs[top].score, top |-> top,
        reasons |-> UNION {fs[p].reasons : p \in descendants}]

Group == /\ files # None /\ folders = None
         /\ folders' = [d \in FolderSet |->
                FolderRecord(files, d, {p \in Places : d \in ParentFolders(p)})]
         /\ UNCHANGED <<perProfile, reliable, files, health>>

(***************************************************************************)
(* The rollup.  It adds up the folders again, from the files.                *)
(***************************************************************************)
HealthBand(context) == IF context = "critical" THEN "budget_exceeded" ELSE context
HealthBands == {"compact", "healthy", "warning", "budget_exceeded"}
ThreeQuarters(limit) == (3 * limit) \div 4
Exceeds(band) == band \in {"warning", "budget_exceeded"}

Watched(file) == file.context = "healthy" /\ file.tokens >= ThreeQuarters(Shared.healthy)

(* What a file is reported for, and how badly.                               *)
FindingFor(file) ==
    IF file.class # "source" THEN "none"
    ELSE IF file.context = "critical" \/ file.slop = "critical" THEN "error"
    ELSE IF file.context = "warning" \/ file.slop = "high" THEN "warning"
    ELSE IF Watched(file) THEN "notice" ELSE "none"

DirectFiles(d) == {p \in Places : DirectParent(p) = d}
DirectTokens(d) == SumOver(DirectFiles(d), [p \in Places |-> files[p].tokens])
RollupBand(d) == FolderBand(DirectTokens(d), Cardinality(DirectFiles(d)))

CountBands(S, band) == [b \in HealthBands |-> Cardinality({x \in S : band[x] = b})]

RollUp ==
    LET fileBand == [p \in Places |-> HealthBand(files[p].context)]
        folderBand == [d \in DOMAIN folders |-> RollupBand(d)]
    IN /\ folders # None /\ health = None
       /\ health' =
            [fileCounts |-> CountBands(Places, fileBand),
             folderCounts |-> CountBands(DOMAIN folders, folderBand),
             candidates |-> {p \in Places : Exceeds(fileBand[p])}
                            \cup {d \in DOMAIN folders : Exceeds(folderBand[d])},
             watchlist |-> {p \in Places : Watched(files[p])}
                           \cup {d \in DOMAIN folders : folderBand[d] = "healthy" /\
                                   \/ DirectTokens(d) >= ThreeQuarters(FolderBands.healthy)
                                   \/ Cardinality(DirectFiles(d)) >= ThreeQuarters(FolderBands.files)},
             findings |-> [p \in {q \in Places : FindingFor(files[q]) # "none"}
                             |-> FindingFor(files[p])]]
       /\ UNCHANGED <<perProfile, reliable, files, folders>>

Next == Score \/ Group \/ RollUp

Spec == Init /\ [][Next]_vars

(***************************************************************************)
(* Properties.                                                              *)
(***************************************************************************)
(* The folder records and the rollup, computed apart, say the same: the      *)
(* counts of bands are those of the records, and a folder is a candidate     *)
(* exactly when its record exceeds.                                          *)
FolderBandsAgree ==
    health # None =>
        /\ health.folderCounts = CountBands(DOMAIN folders, [d \in DOMAIN folders |-> folders[d].band])
        /\ health.candidates \cap DOMAIN folders = {d \in DOMAIN folders : Exceeds(folders[d].band)}
        /\ SumOver(HealthBands, health.fileCounts) = Cardinality(Places)

(* No pressure is lost on the way up: a folder as bad as `high` holds a      *)
(* source file with a finding at least as bad, or its worst file is no       *)
(* source; and a finding of a file is in every folder above it.              *)
PressureTraced ==
    health # None =>
        /\ \A d \in DOMAIN folders :
              folders[d].slop \in {"high", "critical"} /\ files[folders[d].top].class = "source" =>
                  /\ folders[d].top \in DOMAIN health.findings
                  /\ folders[d].slop = "critical" => health.findings[folders[d].top] = "error"
        /\ \A p \in DOMAIN health.findings : \A d \in ParentFolders(p) :
              folders[d].score >= files[p].score /\ files[p].reasons \subseteq folders[d].reasons
===============================================================================
