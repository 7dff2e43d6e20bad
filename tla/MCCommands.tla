------------------------------ MODULE MCCommands ------------------------------
(* The modules about the commands around the published report, for TLC: one  *)
(* of them is at work in a behaviour.  MCScan is taken as it is, the others   *)
(* as instances.                                                             *)
EXTENDS MCScan, TLC, ReportFields

CONSTANTS Writers, Names, Reports, Unready, Packers, Strays,
          MaxRuns, MaxCheckouts, TwoFiles, Scores, FileLimit, ScoreDelta, f1, f2, c1, c2,
          Heartbeat, Timeout, Maximum, Words, Caps, Sinces, MaxLog

VARIABLES work,
          ref, objects, backup, writer, owed, met,
          output, temp, hidden, packer, due, crossed,
          private, durable, adoption, runs, current, init, switches, torn,
          baseReport, headReport, verdict,
          log, tree, made, metrics,
          history, maxPairs, facts, alike, order, relations, clusters,
          perProfile, reliable, files, folders, health,
          scores, pairs, groups, plan,
          pc, call, low, lowFor, now, waiting, hand, seen, heartbeat, lag,
          unsent, answer, got, stored,
          stage, asked, edited, todo, excerpts, missing, remaining, compacted,
          summary, rounds, response, advised, entry,
          document, flaws, written, reading,
          worktree, changes, index, overrides, degraded, selected, look, next, records,
          skipped, outcome,
          sources, like, tests, overlay, before,
          policyIndex, policyCache, policyList, policyLock, committed, receipt, reviewed,
          commands

Baseline == INSTANCE NamedBaseline
Prompt == INSTANCE PromptPack
Promotion == INSTANCE InitPromotion
Gates == INSTANCE ReportGates WITH Paths <- TwoFiles, base <- baseReport, head <- headReport

(* What Snapshot is given: two tracked paths, and the trees of two commits.  *)
TwoPaths == <<f1, f2>>
TwoCommits == <<[f \in {f1, f2} |-> c1], [f \in {f1, f2} |-> IF f = f1 THEN c2 ELSE c1]>>

(* What its token cache is given: one text, read in two modes; two more rows *)
(* come with another tokenizer.                                              *)
OneText == <<[text |-> "a", mode |-> "code"], [text |-> "a", mode |-> "prose"]>>
SmallSizes == [code |-> 2, prose |-> 1]

(* What stands for an absent file is none of its contents.                    *)
ASSUME NoReportAssumption == None \notin Reports
ASSUME NoContentAssumption == \A content \in SUBSET Prompt!Content : content # None

(* No verdict stands for none.                                               *)
ASSUME NoVerdictAssumption == None # "approve"

(* Scores are numbers, of which there is a greatest, and None is neither the *)
(* content of a file, nor a record or an index of a report.                  *)
ASSUME ScoresAssumption ==
    /\ Scores \subseteq Nat /\ \E top \in Scores : \A score \in Scores : score <= top
    /\ Contents # {} /\ None \notin Contents
    /\ None \notin Gates!Records \cup Gates!Analyses \cup {"check", "compare"}
    /\ \A paths \in SUBSET TwoFiles : None \notin [paths -> Gates!Records]

Lineage == INSTANCE History

(* Commits over four files: a cleanup of three, a release, and an import.    *)
Shapes == {[kind |-> "maintenance", touched |-> {1, 2, 3}],
           [kind |-> "release", touched |-> {2, 4}],
           [kind |-> "import", touched |-> 1 .. 4]}
CapOfPairs == {2}
FilePairs == {q \in (1 .. 4) \X (1 .. 4) : q[1] < q[2]}
LikePairs == [FilePairs -> {"near", "none"}]
TwoRoots == <<1, 1, 2, 2>>
Relations == INSTANCE Overlays WITH
    FileCount <- 4, Commits <- Shapes, MaxHistory <- 2, BulkFiles <- 3, PairCaps <- CapOfPairs,
    CandidateLimit <- 4, LexicalCap <- 2, TemporalCap <- 2, Roots <- TwoRoots,
    Likenesses <- LikePairs

ThreePaths == {<<"a", "x">>, <<"a", "y">>, <<"a", "b", "z">>}
TokenCounts == {7, 9, 12}
Idle == [revisions |-> 0, churn |-> 0, age |-> 80]
Active == [revisions |-> 5, churn |-> 4, age |-> 80]
EitherActivity == {Idle, Active}
AgentContext == [compact |-> 3, healthy |-> 8, warning |-> 10]
DataContext == [compact |-> 1, healthy |-> 6, warning |-> 9]
OfFolders == [compact |-> 5, healthy |-> 9, warning |-> 11, files |-> 1, refactor |-> 2]
Bands == INSTANCE Scoring WITH
    Places <- ThreePaths, Sizes <- TokenCounts, Activities <- EitherActivity,
    Shared <- AgentContext, Special <- DataContext, FolderBands <- OfFolders

(* Six files in three folders; 5 is made from 4.                             *)
FoundPairs == <<[ends |-> {1, 2}, evidence |-> 3, supported |-> TRUE],
                [ends |-> {2, 4}, evidence |-> 3, supported |-> FALSE],
                [ends |-> {3, 5}, evidence |-> 1, supported |-> FALSE],
                [ends |-> {1, 6}, evidence |-> 2, supported |-> TRUE],
                [ends |-> {4, 6}, evidence |-> 2, supported |-> TRUE]>>
FoundGroups == <<[members |-> {1, 2, 4}, evidence |-> 2, compact |-> FALSE],
                 [members |-> 1 .. 6, evidence |-> 3, compact |-> TRUE],
                 [members |-> {3, 5}, evidence |-> 1, compact |-> TRUE],
                 [members |-> {4, 5, 6}, evidence |-> 1, compact |-> FALSE]>>
Folders == <<1, 1, 1, 2, 2, 3>>
Generated == 5 :> 4
WithReasons == {3}
SlopScores == {<<80, 50, 30, 60, 10, 45>>, <<10, 20, 30, 35, 25, 5>>}
Slices == INSTANCE Plan WITH
    FileCount <- 6, FolderOf <- Folders, Derived <- Generated, Flagged <- WithReasons,
    ScoresTried <- SlopScores,
    Pairs <- FoundPairs, Groups <- FoundGroups, MaxSlice <- 3, MaxSlices <- 3

(* What a provider may answer: whole in each framing, cut short in each,     *)
(* with a length that is too small, too large, and refused by its content.   *)
Good == [framing |-> "length", declared |-> 2, sent |-> 2, size |-> 2, terminated |-> FALSE,
         ok |-> TRUE, model |-> "requested", finish |-> "stop", content |-> TRUE]
Replies == {Good, [Good EXCEPT !.framing = "close"],
            [Good EXCEPT !.framing = "chunked", !.terminated = TRUE],
            [Good EXCEPT !.framing = "chunked", !.sent = 1],
            [Good EXCEPT !.declared = 1],
            [Good EXCEPT !.declared = 3, !.sent = 3, !.size = 3],
            [Good EXCEPT !.framing = "close", !.sent = 3, !.size = 3],
            [Good EXCEPT !.finish = "length"], [Good EXCEPT !.model = "other"],
            [Good EXCEPT !.ok = FALSE]}
Whole == [infer |-> TRUE, public |-> FALSE, benchmark |-> TRUE, feature |-> TRUE, mock |-> FALSE,
          window |-> TRUE, explicit |-> TRUE, consent |-> TRUE, ephemeral |-> FALSE]
Invocations == {Whole, [Whole EXCEPT !.infer = FALSE], [Whole EXCEPT !.benchmark = FALSE],
                [Whole EXCEPT !.mock = TRUE], [Whole EXCEPT !.consent = FALSE]}
Provider == INSTANCE AdviceRequest WITH
    Answers <- Replies, Calls <- Invocations
ASSUME TicksAssumption == Heartbeat \in Nat /\ Timeout \in Nat

(* Plans that fit, that have to be cut in bytes, in tokens, or compacted,    *)
(* that cannot be made to fit, with the same file as guidance and as source, *)
(* and some with no candidate.                                               *)
Part(name) == <<"src", name>>
Text(z, d, q) == [size |-> z, density |-> d, kind |-> "text", reported |-> q]
TrackedFiles == << "README.md" >> :> Text(3, 1, FALSE)
    @@ Part("a") :> Text(8, 1, TRUE) @@ Part("b") :> Text(3, 2, TRUE)
    @@ Part("c") :> Text(9, 1, TRUE) @@ Part("d") :> Text(2, 1, TRUE)
    @@ Part("e") :> Text(4, 0, TRUE) @@ Part("f") :> Text(6, 2, TRUE)
    @@ Part("link") :> [Text(2, 1, TRUE) EXCEPT !.kind = "link"]
Slice(changed, checkers) == [sources |-> changed, tests |-> checkers]
PlannedSlices ==
    "wide" :> <<Slice({Part("a"), Part("b")}, {}), Slice({Part("c")}, {Part("b")})>>
    @@ "dense" :> <<Slice({Part("f")}, {Part("d")})>>
    @@ "long" :> <<Slice({Part("d"), Part("b"), Part("c")}, {Part("e"), Part("a")})>>
    @@ "docs" :> <<Slice({<<"README.md">>, <<"CONTRIBUTING.md">>}, {})>>
    @@ "linked" :> <<Slice({Part("link")}, {})>>
    @@ "empty" :> <<>>
One(target, tokens) == [selector |-> "one", target |-> target, tokens |-> tokens,
                        details |-> 3, ephemeral |-> FALSE]
TopOf(count) == [selector |-> "top", explained |-> <<"dense">>, refactors |-> <<"dense", "wide">>,
                 count |-> count, tokens |-> 2, details |-> 1, ephemeral |-> TRUE]
Asked == {One("wide", 2), One("dense", 14), One("dense", 17), One("long", 8), One("docs", 2),
          One("linked", 2), One("empty", 2), TopOf(0), TopOf(1), TopOf(2), TopOf(21)}
TwoRules == {1, 2}
Input == INSTANCE AdviceContext WITH
    Requests <- Asked, Files <- TrackedFiles, SlicesOf <- PlannedSlices, Rules <- TwoRules,
    MaxFiles <- 4, PerExcerpt <- 6, Least <- 2,
    MaxBytes <- 14, MaxTokens <- 13, MaxRounds <- 12, verdict <- advised

Reading == INSTANCE ReportContract WITH Rules <- FieldRules, MaxFlaws <- 2

(* Five paths of two roots; 2 is made from 1, 4 is a submodule, and 5 is     *)
(* ignored.  The second index names a path in conflict three times.          *)
TwoIndexes == {<<1, 2, 3, 4, 5>>, <<2, 3, 3, 3, 4>>}
FirstParts == <<1, 1, 1, 2, 2>>
NamedLike == <<{"source"}, {"test", "source"}, {"docs", "man"}, {}, {"source"}>>
OnePath == {5}
Plain(n) == [kind |-> "file", size |-> n,
             text |-> [bom |-> "none", control |-> FALSE, valid |-> TRUE,
                       marked |-> FALSE, from |-> None]]
Made == [Plain(2) EXCEPT !.text.marked = TRUE, !.text.from = {1}]
Gone == [kind |-> "absent", size |-> 0, text |-> None]
Submodule == [kind |-> "gitlink", size |-> 0, text |-> None]
Binary == [Plain(1) EXCEPT !.text.control = TRUE]
Wide == [Binary EXCEPT !.text.bom = "utf16"]
WideCut == [Wide EXCEPT !.text.valid = FALSE]
LinkTo(target) == [kind |-> "link", size |-> 1, text |-> Plain(1).text, target |-> target]
Link == LinkTo(Made.text)
Dangling == LinkTo(None)
OnDisk(a, b, c) == <<a, b, c, Submodule, Plain(1)>>
ThreeTrees == {OnDisk(Plain(1), Made, Plain(1)), OnDisk(Plain(3), Made, Binary),
               OnDisk(Plain(4), Made, Link)}
Becoming == <<{Plain(1), Plain(4), Gone, Dangling}, {Made, Plain(1), Link, Submodule},
              {Wide, WideCut, Gone}, {}, {Plain(6)}>>
Mapping(paths, class, from) == [matches |-> paths, class |-> class, sources |-> from]
Mappings == {<<>>, <<Mapping({2, 3}, "tool", None), Mapping({2}, None, {5})>>,
             <<Mapping({1, 2}, "generated", {3}), Mapping({3}, "generated", {})>>}
Listing == INSTANCE Inventory WITH
    Indexes <- TwoIndexes, Root <- FirstParts, Signs <- NamedLike, Ignored <- OnePath,
    Overrides <- Mappings, Worktrees <- ThreeTrees, Others <- Becoming, Large <- 3,
    Budget <- 7, MaxChanges <- 2, disk <- worktree, met <- look

(* Three sources, of which the first may be like either test in any way.     *)
Source(class, said, hot, near) ==
    [class |-> class, overrides |-> said, inline |-> FALSE, analyzed |-> TRUE, hot |-> hot,
     mapped |-> FALSE, neighbours |-> near, tokens |-> 600, revisions |-> 5, retained |-> 1,
     pressure |-> 1]
ThreeSources ==
    {<<[Source("source", <<>>, TRUE, near) EXCEPT !.mapped = mapped],
       Source("docs", <<"applicable", None>>, FALSE, {1, 3, 4}),
       [Source("source", <<"applicable", "auto">>, FALSE, {})
          EXCEPT !.inline = inline, !.retained = 0, !.revisions = 10]>> :
        near \in {{}, {2}, {4}, {2, 4, 5}}, mapped \in BOOLEAN, inline \in BOOLEAN}
Ways == {{}, {"stem"}, {"prefix"}, {"terms"}, {"configured"}, {"prefix", "terms"}}
TestsLike == {4 :> <<a, {}, {"terms"}>> @@ 5 :> <<b, {"prefix"}, {}>> : a, b \in Ways}
SourceNumbers == 1 .. 3
TestNumbers == {4, 5}
Evidence == INSTANCE Verification WITH
    Sources <- SourceNumbers, Tests <- TestNumbers, Facts <- ThreeSources,
    Likenesses <- TestsLike, Nearby <- 1, TopFiles <- 1, facts <- sources

(* The built-in pack, a pack in two contents and two forms, one whose name   *)
(* continues its name, one that defines a rule of that one too, and packs    *)
(* that are refused.                                                         *)
Rule(id, text, against) == [id |-> id, text |-> text, advise |-> TRUE, conflicts |-> against,
                            sound |-> TRUE]
TextFile(text) == [kind |-> "file", size |-> 1, text |-> text, form |-> "lf"]
Case(n, verdicts, expected) == [id |-> n, verdicts |-> verdicts, expected |-> expected]
Pack(id, rules, cases) ==
    [f \in {"git-slop-policy.yaml", "policies/p.md", "tests/t.yaml", "README.md"} |->
        TextFile(CASE f = "tests/t.yaml" -> cases
                   [] f = "git-slop-policy.yaml" ->
                        [id |-> id, needs |-> 1, rules |-> rules,
                         entrypoints |-> <<"policies/p.md">>, tests |-> <<"tests/t.yaml">>]
                   [] OTHER -> "text")]
ruleA == <<1, 1, 7>>
ruleB == <<1, 1, 2, 9>>
BuiltIn == Pack(<<5, 1>>, <<Rule(<<5, 1, 1>>, "core", {})>>, <<>>)
PackA(text) == Pack(<<1, 1>>, <<Rule(ruleA, text, {ruleB})>>,
                    <<Case(1, ruleA :> "approve", "approve"), Case(2, ruleA :> "reject", "reject")>>)
PackB == Pack(<<1, 1, 2>>, <<Rule(ruleB, "b", {}), [Rule(<<1, 1, 2, 10>>, "plan", {ruleA})
                                                    EXCEPT !.advise = FALSE]>>,
              <<Case(1, ruleB :> "revise" @@ <<1, 1, 2, 10>> :> "approve", "approve")>>)
Clashing == Pack(<<1, 1>>, <<Rule(ruleA, "a", {}), Rule(ruleB, "other", {})>>, <<>>)
Refused == {[PackB EXCEPT !["README.md"].kind = "link"],
            [PackB EXCEPT !["README.md"].form = "nfd"],
            [PackB EXCEPT !["policies/p.md"].size = 4],
            [PackB EXCEPT !["git-slop-policy.yaml"].text.needs = 2],
            [PackB EXCEPT !["git-slop-policy.yaml"].text.tests = <<>>],
            Pack(<<5, 1, 2>>, <<Rule(<<5, 1, 2, 1>>, "mine", {})>>, <<>>),
            Pack(<<1, 3>>, <<Rule(ruleA, "elsewhere", {})>>, <<>>)}
Directories == {PackA("a"), PackA("changed"), PackB, Clashing,
                [PackA("a") EXCEPT !["README.md"].form = "crlf"]} \cup Refused
HandWritten == {<< <<1, 1, 2>>, <<1, 1>> >>, << <<1, 1>>, <<1, 1>> >>}
Asks == {{}, {<<1, 1>>}, {ruleA}, {<<1, 1, 2>>}, {<<1, 4>>}}
Policies == INSTANCE PolicySet WITH
    Core <- BuiltIn, Sources <- Directories, EditedLists <- HandWritten, Requests <- Asks,
    Runtime <- 1, MaxFiles <- 4, MaxFileBytes <- 3, MaxTotalBytes <- 5, MaxRules <- 2,
    MaxCommands <- 5, index <- policyIndex, cache <- policyCache, selection <- policyList,
    lock <- policyLock

baselineVars == <<ref, objects, backup, writer, owed, met>>
promptVars == <<output, temp, hidden, packer, due, crossed>>
promotionVars == <<private, durable, adoption, runs, current, init, switches, torn>>
policyVars == <<policyIndex, policyCache, policyList, policyLock, committed, receipt, reviewed,
                commands>>
stateVars == <<baselineVars, promptVars, promotionVars, vars, cacheVars, settingVars,
              policyVars>>

gateVars == <<baseReport, headReport, verdict>>
lineageVars == <<log, tree, made, metrics>>
relationVars == <<history, maxPairs, facts, alike, order, relations, clusters>>
bandVars == <<perProfile, reliable, files, folders, health>>
sliceVars == <<scores, pairs, groups, plan>>
contractVars == <<document, flaws, written, reading>>
listingVars == <<worktree, changes, index, overrides, degraded, selected, look, next, records,
                 skipped, outcome>>
evidenceVars == <<sources, like, tests, overlay, before>>
detectorVars == <<lineageVars, relationVars, bandVars, listingVars, evidenceVars>>
readerVars == <<gateVars, sliceVars, contractVars>>
analysisVars == <<detectorVars, readerVars>>

requestVars == <<pc, call, low, lowFor, now, waiting, hand, seen, heartbeat, lag,
                unsent, answer, got, stored>>
inputVars == <<stage, asked, edited, todo, excerpts, missing, remaining, compacted,
              summary, rounds, response, advised, entry>>
adviceVars == <<requestVars, inputVars>>

commandVars == <<work, stateVars, analysisVars, adviceVars>>

(* What may start in several ways starts in one where it is not at work.     *)
CommandsInit ==
    /\ work \in {"baselines", "packs", "promotion", "scans", "cache", "settings", "gates",
                 "lineage", "relations", "bands", "slices", "listing", "evidence",
                 "contract", "requests", "inputs", "policies"}
    /\ work # "baselines" => ref = [n \in Names |-> None]
    /\ Baseline!Init /\ Prompt!Init /\ Promotion!Init /\ Init /\ Cache!Init
    /\ work # "settings" => file = CHOOSE t \in Texts : t.schema = 3
    /\ Settings!Init /\ Policies!Init
    /\ Gates!Init /\ Lineage!Init /\ Relations!Init /\ Bands!Init /\ Slices!Init
    /\ work # "contract" => document = Reading!Sample(5)
    /\ Reading!Init
    /\ work # "listing" => /\ index = <<1, 2, 3, 4, 5>> /\ overrides = <<>> /\ degraded = FALSE
                           /\ worktree = OnDisk(Plain(1), Made, Plain(1))
    /\ Listing!Init
    /\ work # "evidence" => /\ sources = CHOOSE facts1 \in ThreeSources : TRUE
                            /\ like = CHOOSE way \in TestsLike : TRUE
    /\ Evidence!Init
    /\ Provider!Init /\ Input!Init

(* Commands that write files of the state directory, and those around them.  *)
StateStep ==
    \/ /\ work = "baselines" /\ Baseline!Next
       /\ UNCHANGED <<promptVars, promotionVars, vars, cacheVars, settingVars, policyVars>>
    \/ /\ work = "packs" /\ Prompt!Next
       /\ UNCHANGED <<baselineVars, promotionVars, vars, cacheVars, settingVars, policyVars>>
    \/ /\ work = "promotion" /\ Promotion!Next
       /\ UNCHANGED <<baselineVars, promptVars, vars, cacheVars, settingVars, policyVars>>
    \/ /\ work = "scans" /\ Next
       /\ UNCHANGED <<baselineVars, promptVars, promotionVars, cacheVars, settingVars, policyVars>>
    \/ /\ work = "cache" /\ Cache!Next
       /\ UNCHANGED <<baselineVars, promptVars, promotionVars, vars, settingVars, policyVars>>
    \/ /\ work = "settings" /\ Settings!Next
       /\ UNCHANGED <<baselineVars, promptVars, promotionVars, vars, cacheVars, policyVars>>

    \/ /\ work = "policies" /\ Policies!Next
       /\ UNCHANGED <<baselineVars, promptVars, promotionVars, vars, cacheVars,
                       settingVars>>

(* What `find` computes from the files and the history.                      *)
DetectorStep ==
    \/ /\ work = "lineage" /\ Lineage!Next
       /\ UNCHANGED <<relationVars, bandVars, listingVars, evidenceVars>>
    \/ /\ work = "relations" /\ Relations!Next
       /\ UNCHANGED <<lineageVars, bandVars, listingVars, evidenceVars>>
    \/ /\ work = "bands" /\ Bands!Next
       /\ UNCHANGED <<lineageVars, relationVars, listingVars, evidenceVars>>
    \/ /\ work = "listing" /\ Listing!Next
       /\ UNCHANGED <<lineageVars, relationVars, bandVars, evidenceVars>>
    \/ /\ work = "evidence" /\ Evidence!Next
       /\ UNCHANGED <<lineageVars, relationVars, bandVars, listingVars>>

(* What is computed from a report.                                           *)
ReaderStep ==
    \/ work = "gates" /\ Gates!Next /\ UNCHANGED <<sliceVars, contractVars>>
    \/ work = "slices" /\ Slices!Next /\ UNCHANGED <<gateVars, contractVars>>
    \/ work = "contract" /\ Reading!Next /\ UNCHANGED <<gateVars, sliceVars>>

AdviceStep ==
    \/ work = "requests" /\ Provider!Next /\ UNCHANGED inputVars
    \/ work = "inputs" /\ Input!Next /\ UNCHANGED requestVars

CommandsNext ==
    \/ StateStep /\ UNCHANGED <<work, analysisVars, adviceVars>>
    \/ DetectorStep /\ UNCHANGED <<work, stateVars, readerVars, adviceVars>>
    \/ ReaderStep /\ UNCHANGED <<work, stateVars, detectorVars, adviceVars>>
    \/ AdviceStep /\ UNCHANGED <<work, stateVars, analysisVars>>

CommandsSpec == CommandsInit /\ [][CommandsNext]_commandVars

(* The parts that are not at work stay as they started: the properties of    *)
(* Snapshot hold there, and those of the instances are asked of the one at   *)
(* work.                                                                     *)

(* See NamedBaseline, PromptPack and InitPromotion: a baseline is lost only  *)
(* by consent, or where two processes worked on its name at once; no pack is *)
(* lost without --force, and a visible one has all its files; `.slop/latest` *)
(* holds the files of one run.                                               *)
OutputsKept == /\ work = "baselines" => Baseline!BaselinesKept
               /\ work = "packs" => Prompt!PackKept
               /\ work = "promotion" => Promotion!LatestOfOneRun

(* See ReportGates: a passing `check` has seen every source file, and a      *)
(* clean `compare` hides no file that got worse.                             *)
GatesSound == work = "gates" => Gates!PassMeansBelow /\ Gates!CleanMeansNoWorse

(* See History and Overlays: a commit is never attributed to a file that     *)
(* lives under another name, and none of the file's own is missed in         *)
(* silence; a cap never drops a duplicate in silence, and the duplicate sets *)
(* are the components of the pairs that are kept.                            *)
RelationsTold == /\ work = "lineage" => Lineage!HistoriesApart
                 /\ work = "relations" => Relations!SuppressionTold /\ Relations!ClustersAreComponents

(* See Inventory: every selected path is told once or is ignored, a sample   *)
(* is fair, and the reader is sent to selected paths.                        *)
InventoryTold == work = "listing" => Listing!PathsTold /\ Listing!SampleFair /\ Listing!TargetsSelected

(* See Verification: a test never widens a gap, and gap and evidence agree.  *)
VerificationSound == work = "evidence" => Evidence!TestsCloseGaps /\ Evidence!EvidenceMatchesGap

(* See Scoring: folder records and rollup agree, and no pressure is lost on  *)
(* the way up.                                                               *)
PressureAgreed == work = "bands" => Bands!FolderBandsAgree /\ Bands!PressureTraced

(* See Plan and AdviceContext: cutting, merging and leaving out lose no      *)
(* evidence of a plan, and what is cut from the input for advice is told in  *)
(* it.                                                                       *)
EvidenceKept == /\ work = "slices" => Slices!EvidenceKept
                /\ work = "inputs" => Input!ContextTold

(* See AdviceRequest: a request ends soon after the host's memory is gone,   *)
(* and only a whole answer is kept.                                          *)
AdviceBounded == work = "requests" => Provider!ReactionBounded /\ Provider!OnlyWholeStored

(* See PolicySet and AdviceContext: advice applies the rules that were       *)
(* reviewed, all that were asked for, and refuses only with a cause; the     *)
(* commands tell what they changed; the verdict follows from the rules.      *)
PoliciesSound == /\ work = "policies" => Policies!PoliciesSound
                 /\ work = "inputs" => Input!VerdictFollowsRules

(* See TokenCache: it changes no result, and stays within its limits.        *)
CacheKept == work = "cache" => Cache!CacheTransparent /\ Cache!CacheBounded

(* See Configuration: a migration keeps all but the context bands, and       *)
(* reports are compared only when they were analysed alike.                  *)
ConfigKept == work = "settings" => Settings!MigrationKeepsRest /\ Settings!ComparedAlike

(* See ReportContract: a report is read only when it keeps every rule, its   *)
(* flaws are told, and a migration loses nothing but the highest band.       *)
ContractKept == work = "contract" => Reading!ContractKept
===============================================================================
