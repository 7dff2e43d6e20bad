----------------------------- MODULE ReportFields -----------------------------
(* Representative places of a report, and what the rules of                  *)
(* src/report/write/validation.rs, the published schema                      *)
(* (report/write/contract/schema.rs) and the types refuse at each.           *)
EXTENDS TLC

Kept == {"absent", "type"}
Object == {"absent", "type", "extra"}
Scalar == {"absent", "type", "value"}

Analyzer == "/analyzer"
Digest == "/analyzer/config_digest"
Repo == "/repo"
HeadSha == "/repo/head_sha"
HeadCommit == "/repo/head_commit"
ScopePart == "/scope"
PathDigest == "/scope/selected_path_digest"
Config == "/config"
Stats == "/stats"
Complete == "/stats/history_complete"
Summary == "/summary"
Diagnostics == "/diagnostics"
File == "/files/0"
FileBytes == "/files/0/bytes"
Provenance == "/files/0/generated_provenance"
ContextBand == "/files/0/context_band"
SlopBand == "/files/0/slop_band"
LoadCosts == "/files/0/costs/load"
Feed == "/observation_feed"
QueueBand == "/action_queue/0/context_band"
CompareIndex == "/compare_index"
CompareFiles == "/compare_index/files"
PolicyIndex == "/policy_index"
PolicyRecord == "/policy_index/files/0"
PolicyTokens == "/policy_index/files/0/tokens"
PolicyProfile == "/policy_index/files/0/profile"
OverlaysPart == "/overlays"
Collections == "/collection_metadata"
Relationships == "/overlays/organization_health/relationships"
OldRelationships == "/relationships"
Health == "/health"
Root == ""

-----------------------------------------------------------------------------
(* The hand-written rules, by the section they look at. A place stands under *)
(* another, or under the root, and is a field of the object with its         *)
(* parent's pointer; it is refused before the indexes are looked at ("early")*)
(* or after them ("late").                                                   *)
Hand(under, early, late) ==
    [under |-> under, parent |-> under, early |-> early, late |-> late, typed |-> {}]

SectionRules ==
    Config :> Hand(Root, Kept, {}) @@ Summary :> Hand(Root, Kept, {})
    @@ OverlaysPart :> Hand(Root, Kept, {}) @@ Collections :> Hand(Root, Kept, {})
    @@ Health :> Hand(Root, Kept, {}) @@ Feed :> Hand(Root, {"absent"}, {})
    @@ Stats :> Hand(Root, Kept \cup {"empty"}, {}) @@ Complete :> Hand(Stats, {}, {})
    @@ OldRelationships :> Hand(Root, {"legacy"}, {})
DiagnosticsRules == Diagnostics :> Hand(Root, Object \cup {"empty"}, {})
AnalyzerRules == Analyzer :> Hand(Root, Object, {}) @@ Digest :> Hand(Analyzer, Scalar, {})
RepoRules == Repo :> Hand(Root, Object, {}) @@ HeadSha :> Hand(Repo, Kept, {})
             @@ HeadCommit :> Hand(Repo, {"legacy"}, {})
ScopeRules == ScopePart :> Hand(Root, Object, {}) @@ PathDigest :> Hand(ScopePart, {"absent"}, {})

(* The fields of files, of folders like them, and of queues come last; what  *)
(* costs and relationships may hold comes first.                             *)
FileRules == File :> Hand(Root, {"type"}, {"extra"}) @@ FileBytes :> Hand(File, {}, {"absent"})
             @@ Provenance :> Hand(File, {}, {"absent"})
             @@ ContextBand :> Hand(File, {}, {"absent"})
             @@ SlopBand :> Hand(File, {}, {"absent"})
QueueRules == QueueBand :> Hand(Root, {}, {"absent"})
CostRules == LoadCosts :> Hand(File, {"extra"}, {})
RelationshipRules == Relationships :> Hand(OverlaysPart, {"extra"}, {"type"})

CompareRules == CompareIndex :> Hand(Root, {"type"}, {})
                @@ CompareFiles :> Hand(CompareIndex, Kept, {})
PolicyRules == PolicyIndex :> Hand(Root, {"type"}, {})
               @@ PolicyTokens :> [Hand(PolicyIndex, {"absent"}, {}) EXCEPT !.parent = PolicyRecord]
               @@ PolicyProfile :> [Hand(PolicyIndex, {}, {}) EXCEPT !.parent = PolicyRecord]

(* Found by the types alone: a negative size, weights that do not sum to one.*)
TypedOnly == {Config, FileBytes}

HandRules == SectionRules @@ DiagnosticsRules @@ AnalyzerRules @@ RepoRules @@ ScopeRules
             @@ FileRules @@ QueueRules @@ CostRules @@ RelationshipRules @@ CompareRules
             @@ PolicyRules

-----------------------------------------------------------------------------
(* The published schema: the root and the indexes, the records, the sections *)
(* hardened afterwards, and the scalars that have a form.                    *)
PublishedRoot ==
    Analyzer :> Object @@ Repo :> Object @@ ScopePart :> Object @@ Feed :> Kept
    @@ HeadCommit :> {"legacy"} @@ OldRelationships :> {"legacy"}
    @@ CompareIndex :> {"type", "extra"} @@ CompareFiles :> Kept
    @@ PolicyIndex :> {"type", "extra"}
PublishedRecords ==
    File :> {"type", "extra"} @@ FileBytes :> Kept @@ Provenance :> {"type"}
    @@ LoadCosts :> {"type", "extra"} @@ PolicyTokens :> Scalar @@ PolicyProfile :> Kept
PublishedSections ==
    Config :> Object @@ Stats :> Object \cup {"empty"} @@ Complete :> Kept @@ Summary :> Object
    @@ Diagnostics :> Object @@ Health :> Object @@ Relationships :> {}
    @@ OverlaysPart :> Kept @@ Collections :> Kept
(* A hash in "upper" case is none, and the "old" names of bands are none now.*)
PublishedScalars ==
    Digest :> Scalar @@ HeadSha :> Scalar \cup {"upper"} @@ PathDigest :> Scalar
    @@ ContextBand :> Scalar \cup {"old"} @@ QueueBand :> Scalar \cup {"old"}
    @@ SlopBand :> Scalar \cup {"old"}
Published == PublishedRoot @@ PublishedRecords @@ PublishedSections @@ PublishedScalars

FieldRules ==
    [p \in DOMAIN HandRules |->
        [HandRules[p] EXCEPT !.typed = IF p \in TypedOnly THEN {"value"} ELSE {}]
        @@ [published |-> Published[p]]]
=============================================================================
