----------------------------- MODULE SampleTexts -----------------------------
(* A small configuration and texts people write into config.yaml, for the    *)
(* instances of Configuration. The weights sum to ten here.                  *)
EXTENDS Naturals, TLC

Setting(section, name, value) == <<section, name>> :> value
BandSetting(name, value) == <<"tokenization", "context_bands", name>> :> value

SmallDefaults ==
    Setting("tokenization", "context_tokenizer_name", "cl100k")
    @@ BandSetting("healthy", 8) @@ BandSetting("warning", 10)
    @@ Setting("history", "max_commits", 100)
    @@ Setting("scoring", "context_weight", 8) @@ Setting("scoring", "churn_weight", 2)
    @@ Setting("check", "fail_on_slop_band", "critical")
    @@ Setting("semantic_drift", "top_term_limit", 25)

LegacyTokenizer == Setting("tokenizer", "name", "p50k")
LegacyWarning == Setting("context_bands", "warning", 14)
LegacyThreshold == Setting("check", "fail_on_priority_band", "should_refactor")

(* Not every one is valid in every schema, and some in none.                 *)
Overrides ==
    {<<>>, Setting("history", "max_commits", 0), Setting("history", "max_commits", 200),
     BandSetting("healthy", 12), BandSetting("warning", 13),
     Setting("scoring", "context_weight", 6) @@ Setting("scoring", "churn_weight", 4),
     Setting("semantic_drift", "top_term_limit", 5), Setting("mystery", "key", 1),
     LegacyTokenizer, LegacyWarning,
     LegacyThreshold, LegacyThreshold @@ Setting("check", "fail_on_slop_band", "low"),
     LegacyTokenizer @@ Setting("tokenization", "context_tokenizer_name", "r50k"),
     LegacyWarning @@ BandSetting("healthy", 9)}
Texts == [schema : 1 .. 2, leaves : Overrides] \cup [schema : {3}, leaves : {<<>>}]
=============================================================================
