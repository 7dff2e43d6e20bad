------------------------------ MODULE Inventory ------------------------------
(***************************************************************************)
(* Which tracked files a `find` reads and what it says of each               *)
(* (src/inventory.rs, src/inventory/generated.rs, and the selection and the  *)
(* counts around them in src/analyze.rs): the sample of a scan that does not *)
(* fit its memory budget, the two looks at every path while people edit, the *)
(* class of a file and the paths a generated file is made from, and how      *)
(* complete the analysis is called.                                          *)
(*                                                                           *)
(* Paths are numbers in the order of their names.  Lines, languages and      *)
(* profiles are left out; a text is known by the marker it begins with.      *)
(***************************************************************************)
EXTENDS Naturals, Sequences, FiniteSetsExt, SequencesExt, Functions, Folds

CONSTANTS Indexes,      \* what `git ls-files` may answer: sequences of paths
          Root,         \* the first component of each path
          Signs,        \* what the name of each path looks like: subsets of PathRules
          Ignored,      \* paths that inventory.ignore_globs matches
          Overrides,    \* values of inventory.path_overrides (sequences)
          Worktrees,    \* what the paths may be at first: [paths -> entries]
          Others,       \* what each path may become under the scan
          Large,        \* resources.large_file_bytes
          Budget,       \* the bytes that fit resources.memory_budget_mb
          MaxChanges, None

ListedPaths == DOMAIN Root
Unresolved == 0   \* stands for the words of a marker or a glob

VARIABLES disk,        \* kind, size and text of every path; of a link, the text it
                       \* leads to as well, or None
          changes,     \* how often a path has changed under the scan
          index,       \* the tracked paths
          overrides,   \* the configured overrides
          degraded,    \* --allow-degraded was given
          selected,    \* the paths this scan reads
          met,         \* the first look at the next path; None before it
          next,        \* position of the next path
          records,     \* what the report will say of each file
          skipped,     \* counts of the scan receipt
          outcome      \* "sampling", "admitting", "reading", "refused", "failed" or "told"
vars == <<disk, changes, index, overrides, degraded, selected, met, next, records, skipped,
          outcome>>
options == <<index, overrides, degraded>>

Init == /\ disk \in Worktrees /\ changes = 0
        /\ index \in Indexes /\ overrides \in Overrides /\ degraded \in BOOLEAN
        /\ selected = <<>> /\ met = None /\ next = 1 /\ records = <<>>
        /\ skipped = [ignored |-> 0, missing |-> 0, binary |-> 0, undecodable |-> 0]
        /\ outcome = "sampling"

Change == /\ changes < MaxChanges /\ outcome \in {"sampling", "admitting", "reading"}
          /\ \E p \in ListedPaths : \E e \in Others[p] \ {disk[p]} : disk' = [disk EXCEPT ![p] = e]
          /\ changes' = changes + 1
          /\ UNCHANGED <<options, selected, met, next, records, skipped, outcome>>

(***************************************************************************)
(* The sample.  The longest prefix that fits tells how many paths there may  *)
(* be; they are then taken from the roots in turn, which may cost more.      *)
(***************************************************************************)
Estimate(paths) == FoldLeft(LAMBDA sum, p : sum + disk[p].size, 0, paths)

Fitting == Max({n \in 0 .. Len(index) : Estimate(SubSeq(index, 1, n)) <= Budget})

Roots == {Root[p] : p \in Range(index)}
OfRoot(r) == SelectSeq(index, LAMBDA p : Root[p] = r)

BalancedSample(limit) ==
    LET ranks == SetToSortSeq(Roots, <)
        round(n) == FlattenSeq([i \in DOMAIN ranks |->
                       IF n <= Len(OfRoot(ranks[i])) THEN <<OfRoot(ranks[i])[n]>> ELSE <<>>])
        turns == FlattenSeq([n \in 1 .. Len(index) |-> round(n)])
    IN SortSeq(SubSeq(turns, 1, limit), <)

Sample == /\ outcome = "sampling"
          /\ selected' = IF Estimate(index) > Budget /\ degraded
                         THEN BalancedSample(Fitting) ELSE index
          /\ outcome' = "admitting"
          /\ UNCHANGED <<disk, changes, options, met, next, records, skipped>>

(* The estimate of what was selected is made again, and now binds.           *)
Admit == /\ outcome = "admitting"
         /\ outcome' = IF Estimate(selected) > Budget THEN "refused" ELSE "reading"
         /\ UNCHANGED <<disk, changes, options, selected, met, next, records, skipped>>

(***************************************************************************)
(* What is said of a file.                                                  *)
(***************************************************************************)
LastSaying(p, has(_)) ==      \* the last override of p with the property; 0 for none
    Max({0} \cup {i \in DOMAIN overrides : p \in overrides[i].matches /\ has(overrides[i])})

(* The first rule that the name agrees with; "man" pages are generated and   *)
(* a "manifest" is configuration.                                            *)
PathRules == <<"vendored", "generated", "snapshot", "fixture", "migration_fixture", "test",
               "workflow", "config", "man", "docs", "tool", "manifest", "source">>

ClassificationForPath(p) ==
    LET agreeing == SelectSeq(PathRules, LAMBDA rule : rule \in Signs[p])
    IN IF agreeing = <<>> THEN "other"
       ELSE CASE agreeing[1] = "man" -> "generated"
              [] agreeing[1] = "manifest" -> "config"
              [] OTHER -> agreeing[1]

(* The last override that matches decides, also where it gives no class.     *)
PathOverride(p) == LET i == LastSaying(p, LAMBDA o : TRUE)
                   IN IF i = 0 THEN None ELSE overrides[i].class

SkippedRecord(p, reason) ==
    [path |-> p, reason |-> reason, from |-> {},
     class |-> IF PathOverride(p) = None THEN ClassificationForPath(p) ELSE PathOverride(p)]

(* The paths a generated file is made from: those of the last override that  *)
(* tells, then those of the marker; what matches no path of this scan, which *)
(* may be a sample, is kept in its own words.  An override that gives only a *)
(* command names none.                                                       *)
Resolved(sources) ==
    IF sources # {} /\ sources \cap Range(selected) = {} THEN {Unresolved}
    ELSE sources \cap Range(selected)
GeneratedFrom(p, text) ==
    LET i == LastSaying(p, LAMBDA o : o.sources # None)
    IN IF i # 0 THEN Resolved(overrides[i].sources)
       ELSE IF text.from # None THEN Resolved(text.from) ELSE {}

AnalyzedRecord(p, text) ==
    [path |-> p, reason |-> None, from |-> GeneratedFrom(p, text),
     class |-> IF PathOverride(p) # None THEN PathOverride(p)
               ELSE IF text.marked THEN "generated" ELSE ClassificationForPath(p)]

(* Control bytes make a text binary unless it begins as UTF-16 does.         *)
LooksBinary(text) == text.control /\ text.bom # "utf16"
Unread(text) == IF LooksBinary(text) THEN "binary"
                ELSE IF text.valid THEN None ELSE "undecodable"

(***************************************************************************)
(* The walk over the selected paths.                                        *)
(***************************************************************************)
Path == selected[next]
Reading == outcome = "reading" /\ next <= Len(selected)
Counted(field) == skipped' = [skipped EXCEPT ![field] = @ + 1]
Told(record) == records' = Append(records, record)
Onward == next' = next + 1 /\ met' = None
World == UNCHANGED <<disk, changes, options, selected>>

SkipIgnored == /\ Reading /\ met = None /\ Path \in Ignored
               /\ Counted("ignored") /\ Onward
               /\ World /\ UNCHANGED <<records, outcome>>

(* Mutant: a file that is gone is counted and no more.                       *)
SkipAbsentSilently ==
    /\ Reading /\ met = None /\ Path \notin Ignored /\ disk[Path].kind = "absent"
    /\ Counted("missing") /\ Onward
    /\ World /\ UNCHANGED <<records, outcome>>

SkipAbsent == /\ Reading /\ met = None /\ Path \notin Ignored /\ disk[Path].kind = "absent"
              /\ Counted("missing") /\ Told(SkippedRecord(Path, "missing")) /\ Onward
              /\ World /\ UNCHANGED outcome

SkipGitlink == /\ Reading /\ met = None /\ Path \notin Ignored /\ disk[Path].kind = "gitlink"
               /\ Counted("ignored") /\ Told(SkippedRecord(Path, "gitlink")) /\ Onward
               /\ World /\ UNCHANGED outcome

Meet == /\ Reading /\ met = None /\ Path \notin Ignored
        /\ disk[Path].kind \in {"file", "link"}
        /\ met' = disk[Path]
        /\ World /\ UNCHANGED <<next, records, skipped, outcome>>

TooLarge == met.kind = "file" /\ met.size > Large

(* The second look: of what was a link its text is read, and a large file is *)
(* hashed, any other read, through a link that it may have become.  What can *)
(* no longer be read like that ends the scan.                                *)
Followed == met.kind = "file" /\ disk[Path].kind = "link"
Readable == CASE met.kind = "link" -> disk[Path].kind = "link"
              [] Followed -> disk[Path].target # None
              [] OTHER -> disk[Path].kind = "file"
ReadText == IF Followed THEN disk[Path].target ELSE disk[Path].text

Vanished == /\ Reading /\ met # None /\ ~ Readable
            /\ outcome' = "failed"
            /\ World /\ UNCHANGED <<met, next, records, skipped>>

SkipLarge == /\ Reading /\ met # None /\ Readable /\ TooLarge
             /\ Told(SkippedRecord(Path, "large_file_limit")) /\ Onward
             /\ World /\ UNCHANGED <<skipped, outcome>>

SkipUnreadable == /\ Reading /\ met # None /\ Readable /\ ~ TooLarge
                  /\ LET reason == Unread(ReadText)
                     IN reason # None /\ Counted(reason) /\ Told(SkippedRecord(Path, reason))
                  /\ Onward
                  /\ World /\ UNCHANGED outcome

Analyze == /\ Reading /\ met # None /\ Readable /\ ~ TooLarge
           /\ Unread(ReadText) = None
           /\ Told(AnalyzedRecord(Path, ReadText)) /\ Onward
           /\ World /\ UNCHANGED <<skipped, outcome>>

Finish == /\ outcome = "reading" /\ next > Len(selected)
          /\ records' = SortSeq(records, LAMBDA r, s : r.path < s.path)
          /\ outcome' = "told"
          /\ World /\ UNCHANGED <<met, next, skipped>>

Next == \/ Change \/ Sample \/ Admit
        \/ SkipIgnored \/ SkipAbsent \/ SkipGitlink \/ Meet
        \/ Vanished \/ SkipLarge \/ SkipUnreadable \/ Analyze \/ Finish

Spec == Init /\ [][Next]_vars

(***************************************************************************)
(* What the report says.                                                    *)
(***************************************************************************)
With(reasons) == SelectSeq(records, LAMBDA r : r.reason \in reasons)
NoText == {"binary", "gitlink", "undecodable"}

AnalysisStatus ==
    IF Len(selected) < Len(index) THEN "degraded_resource_budget"
    ELSE IF With({"large_file_limit"}) # <<>> THEN "degraded_large_files"
    ELSE IF With({"missing"}) # <<>> THEN "degraded_incomplete_inventory"
    ELSE "complete"

(* Where an entry of the action queue sends the reader.                      *)
RemediationTargets(r) == IF r.class = "generated" /\ r.from # {} THEN r.from ELSE {r.path}

(***************************************************************************)
(* Properties.                                                              *)
(***************************************************************************)
Times(paths, p) == Cardinality({i \in DOMAIN paths : paths[i] = p})
Sum(f) == f.ignored + f.missing + f.binary + f.undecodable

(* Every selected path is told as often as the index names it, or is         *)
(* ignored, and the counts of the receipt are disjoint; an analysis is       *)
(* called complete only when every tracked path was read, is ignored or      *)
(* holds no text, whatever people did to the files meanwhile.                *)
PathsTold ==
    outcome = "told" =>
        /\ \A p \in ListedPaths : Cardinality({i \in DOMAIN records : records[i].path = p})
                              = IF p \in Ignored THEN 0 ELSE Times(selected, p)
        /\ Len(With({None})) + Sum(skipped) + Len(With({"large_file_limit"})) = Len(selected)
        /\ AnalysisStatus = "complete" =>
              \A p \in Range(index) \ Ignored :
                 LET said == {records[i].reason : i \in {j \in DOMAIN records : records[j].path = p}}
                 IN said # {} /\ said \subseteq {None} \cup NoText

(* A sample leaves no root behind another by more than one path.             *)
SampleFair ==
    \A r, s \in Roots :
        LET taken(x) == Len(SelectSeq(selected, LAMBDA p : Root[p] = x))
        IN outcome # "sampling" /\ taken(r) + 1 < taken(s) => taken(r) = Len(OfRoot(r))

(* The reader is sent to paths this scan has selected, or to the words of a  *)
(* marker or an override that matches none of them.                          *)
TargetsSelected ==
    outcome = "told" => \A i \in DOMAIN records :
        LET targets == RemediationTargets(records[i])
        IN targets \subseteq Range(selected) \/ targets = {Unresolved}
==============================================================================
