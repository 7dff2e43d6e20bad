------------------------------ MODULE ReportGates ------------------------------
(***************************************************************************)
(* From an analysis to the two gates that read its report: the assembly      *)
(* (src/report/assembly.rs) and the compact profile (report/write/           *)
(* profile.rs), readiness (report_ops/readiness.rs), `check`                 *)
(* (cli/check.rs) and `compare` (report_ops/compare).                        *)
(*                                                                           *)
(* Bands and metrics of a file are one score, its content one identity;      *)
(* what makes a report unfit is a flaw of the analysis.                      *)
(***************************************************************************)
EXTENDS Naturals, FiniteSets, FiniteSetsExt, Functions

CONSTANTS Paths,      \* an ordered set of tracked paths (naturals)
          Contents,   \* what a file may hold
          Scores,     \* maintenance pressure of a file
          FileLimit,  \* files a compact report shows; 250 in the code
          ScoreDelta, \* `regression_score_delta`
          None

Rank(score) == score \div 2          \* the band of a score, 0 to 3
Failing == 2                         \* "high" and "warning"; the check's threshold here

Flaws == {"none", "omitted", "shallow", "dirty", "no index", "other setup"}
OneContent == CHOOSE c \in Contents : TRUE
Records == [kind : {"source"}, content : Contents, score : Scores]
           \cup {[kind |-> "generated", content |-> OneContent, score |-> Max(Scores)],
                 [kind |-> "unreadable", content |-> None, score |-> 0]}
(* A bound: a compact report has no flaw but its own, a missing index.      *)
Analyses == [file : [Paths -> Records \cup {None}], flaw : Flaws \ {"no index"}, profile : {"standard"}]
            \cup [file : [Paths -> Records \cup {None}], flaw : {"none", "no index"}, profile : {"compact"}]

VARIABLES base, head,   \* the analyses behind the two reports; None before
          verdict       \* the command that ran last and what it said
vars == <<base, head, verdict>>

(***************************************************************************)
(* The report of an analysis.                                               *)
(***************************************************************************)
Present(files) == {p \in DOMAIN files : files[p] # None}

(* Degradation leaves a selected path out and counts it.                    *)
Omitted(a) == IF a.flaw = "omitted" /\ Present(a.file) # {} THEN {Max(Present(a.file))} ELSE {}

(* `compact_files`: the worst files stay, the rest only in the indexes.     *)
Worst(files, paths) ==
    {p \in paths : Cardinality({q \in paths : \/ files[q].score > files[p].score
                                              \/ files[q].score = files[p].score /\ q < p}) < FileLimit}

(* A file that should have been read and was not makes the analysis          *)
(* incomplete, and so does a path left out.                                  *)
Unread(files, paths) == {p \in paths : files[p].kind = "unreadable"}
AnalysisComplete(a) ==
    Omitted(a) = {} /\ Unread(a.file, Present(a.file)) = {}

HistoryComplete(a) == a.flaw # "shallow"

(* `apply_report_profile`.                                                  *)
Shown(a, inventory) == IF a.profile = "compact" THEN Worst(a.file, inventory) ELSE inventory

(* `assemble_report`: both indexes hold every record.                       *)
Report(a) ==
    LET inventory == Present(a.file) \ Omitted(a)
        index == IF a.flaw = "no index" THEN None ELSE Restrict(a.file, inventory)
    IN [files |-> Restrict(a.file, Shown(a, inventory)),
        compare |-> index, policy |-> index,
        omitted |-> Cardinality(Omitted(a)),
        profile |-> a.profile,
        analysed |-> AnalysisComplete(a), complete |-> HistoryComplete(a),
        clean |-> a.flaw # "dirty", setup |-> a.flaw = "other setup"]

(* `records_by_path` of the comparison, and the records `check` reads.      *)
(* Mutant: the files the report shows.                                      *)
ShownOnly(index, report) == report.files
Index(index, report) == IF index = None THEN report.files ELSE index

(***************************************************************************)
(* `evaluate_report_readiness`.                                             *)
(***************************************************************************)
Blockers(report, requireClean, allow) ==
    LET inventory == Index(report.compare, report)
    IN {b \in {"analysis", "paths omitted", "no index", "inventory", "evidence", "dirty"} :
          CASE b = "analysis" -> ~ report.analysed
            [] b = "paths omitted" -> report.omitted > 0
            [] b = "no index" -> report.profile = "compact" /\ report.policy = None
            [] b = "inventory" -> ~ allow /\ Unread(inventory, DOMAIN inventory) # {}
            [] b = "evidence" -> ~ allow /\ ~ report.complete
            [] b = "dirty" -> requireClean /\ ~ report.clean}

Ready(report, requireClean, allow) == Blockers(report, requireClean, allow) = {}

(***************************************************************************)
(* `run_check` and `failing_records_in`.                                    *)
(***************************************************************************)
FailingRecords(report) ==
    LET records == Index(report.policy, report)
    IN {p \in DOMAIN records : records[p].kind # "generated" /\ Rank(records[p].score) >= Failing}

Check(allow) ==
    /\ head # None /\ verdict.command = None
    /\ LET report == Report(head)
       IN verdict' = [command |-> "check", forced |-> allow,
                      said |-> IF ~ Ready(report, FALSE, allow) THEN "not ready"
                               ELSE IF FailingRecords(report) = {} THEN "pass" ELSE "fail"]
    /\ UNCHANGED <<base, head>>

(***************************************************************************)
(* `compare_payload_with_policy`.                                           *)
(***************************************************************************)
Known(r) == r.content # None

DeltaStatus(b, h) ==
    IF b = None THEN "added"
    ELSE IF h = None THEN "removed"
    ELSE IF Known(b) /\ Known(h) /\ b.content # h.content THEN "source_changed"
    ELSE IF b.score = h.score THEN "unchanged"
    ELSE IF Known(b) /\ Known(h) THEN "evidence_drift"
    ELSE "source_changed"

(* `build_record_deltas`: a path that went and one that came are a rename    *)
(* when no other path of either kind holds their content.                    *)
Renames(old, new) ==
    LET gone == {p \in DOMAIN old \ DOMAIN new : Known(old[p])}
        came == {p \in DOMAIN new \ DOMAIN old : Known(new[p])}
    IN {pair \in gone \X came :
          /\ {o \in gone : old[o].content = old[pair[1]].content} = {pair[1]}
          /\ {n \in came : new[n].content = old[pair[1]].content} = {pair[2]}}

(* `regression_for_delta`.                                                  *)
Regressed(status, b, h, drift) ==
    \/ status = "added" /\ Rank(h.score) >= Failing
    \/ /\ status = "source_changed" \/ (status = "evidence_drift" /\ drift)
       /\ \/ Rank(h.score) > Rank(b.score)
          \/ status = "source_changed" /\ h.score >= b.score + ScoreDelta

Regressions(old, new, drift) ==
    LET renamed == UNION {{r[1], r[2]} : r \in Renames(old, new)}
        at(records, p) == IF p \in DOMAIN records THEN records[p] ELSE None
    IN {p \in (DOMAIN old \cup DOMAIN new) \ renamed :
          LET b == at(old, p)
              h == at(new, p)
          IN Regressed(DeltaStatus(b, h), b, h, drift)}

Compare(force, allow, drift) ==
    /\ base # None /\ head # None /\ verdict.command = None
    /\ LET old == Report(base)
           new == Report(head)
           ready == Ready(old, ~ force, allow) /\ Ready(new, FALSE, allow)
           found == Regressions(Index(old.compare, old), Index(new.compare, new), drift)
       IN verdict' = [command |-> "compare", forced |-> force \/ allow,
                      said |-> IF ~ ready THEN "not ready"
                               ELSE IF old.setup # new.setup /\ ~ force THEN "incompatible"
                               ELSE IF found = {} THEN "clean" ELSE "regressed"]
    /\ UNCHANGED <<base, head>>

(***************************************************************************)
(* A report for each side, then one command.                                *)
(***************************************************************************)
Init == base = None /\ head = None /\ verdict = [command |-> None, forced |-> FALSE, said |-> None]

AnalyseBase == /\ base = None /\ head = None /\ \E a \in Analyses : base' = a
               /\ UNCHANGED <<head, verdict>>

(* At most one of the two analyses is flawed, and neither where their        *)
(* profiles differ.                                                          *)
AnalyseHead == /\ head = None
               /\ \E a \in Analyses :
                     /\ base # None => /\ "none" \in {base.flaw, a.flaw}
                                       /\ base.profile # a.profile => base.flaw = a.flaw
                     /\ head' = a
               /\ UNCHANGED <<base, verdict>>

Next == \/ AnalyseBase \/ AnalyseHead
        \/ (\E allow \in BOOLEAN : Check(allow))
        \/ \E force, allow, drift \in BOOLEAN : Compare(force, allow, drift)
Spec == Init /\ [][Next]_vars

(***************************************************************************)
(* Properties.                                                              *)
(***************************************************************************)
TypeOK == /\ {base, head} \subseteq Analyses \cup {None}
          /\ verdict.forced \in BOOLEAN

(* When `check` passes without acknowledged evidence loss, no source file of *)
(* the repository reaches the threshold: none is left out by degradation,    *)
(* by the bounds of a compact report, or unread.                             *)
PassMeansBelow ==
    verdict.command = "check" /\ verdict.said = "pass" =>
       \A p \in Present(head.file) :
          \/ head.file[p].kind # "source" \/ Rank(head.file[p].score) < Failing

(* When `compare` finds no regression and nothing was forced, every failing  *)
(* file of the head either failed as badly under the same path, or its       *)
(* content was in the base: moved, or drifted in evidence only.              *)
CleanMeansNoWorse ==
    verdict.command = "compare" /\ verdict.said = "clean" /\ ~ verdict.forced =>
       \A p \in Present(head.file) :
          LET h == head.file[p]
          IN Rank(h.score) >= Failing =>
                \/ base.file[p] # None /\ Rank(base.file[p].score) >= Rank(h.score)
                \/ \E q \in Present(base.file) :
                      /\ base.file[q].content = h.content
                      /\ q = p \/ head.file[q] = None
===============================================================================
