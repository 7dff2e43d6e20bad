----------------------------- MODULE Configuration -----------------------------
(***************************************************************************)
(* The configuration of a repository: the file, its effective values         *)
(* (src/config.rs), its migration from schema 1 (`config migrate`,           *)
(* cli/reporting.rs), and the digests by which `compare` decides whether two *)
(* reports were analysed alike (report/assembly.rs, report_ops/compare).     *)
(*                                                                         *)
(* A configuration is a function from the paths of its leaves to values; a   *)
(* list of entries is one leaf.  People edit the file at any time.           *)
(***************************************************************************)
EXTENDS Integers, Sequences, FiniteSets, Functions

CONSTANTS Defaults,   \* `default_config`: a value for every leaf
          Declared,   \* what may stand in the file: [schema, leaves]
          MaxEdits,   \* bound: edits of the file
          None

VARIABLES file,      \* config.yaml; None when there is none
          bak,       \* config.yaml.bak
          previous,  \* the file moved aside by a migration
          migration, \* the running or last `config migrate`
          edits,     \* edits so far
          base, head \* the configurations two reports were made with

vars == <<file, bak, previous, migration, edits, base, head>>

Leaves == DOMAIN Defaults
Prefixed(p, prefix) == Len(p) >= Len(prefix) /\ SubSeq(p, 1, Len(prefix)) = prefix
Under(leaves, prefix) == {p \in DOMAIN leaves : Prefixed(p, prefix)}
Without(leaves, gone) == Restrict(leaves, DOMAIN leaves \ gone)
Over(leaves, others) ==
    [p \in DOMAIN leaves \cup DOMAIN others |->
        IF p \in DOMAIN leaves THEN leaves[p] ELSE others[p]]

-----------------------------------------------------------------------------
(* Reading the file.                                                         *)

(* normalize_legacy: in schema 1 the tokenizer and the context bands stood   *)
(* at the top. The old sections are dropped; each of the two moves as a      *)
(* whole, unless the new section has its own.                                *)
Moved(leaves, old, new) ==
    LET from == IF Under(leaves, new) # {} THEN {} ELSE Under(leaves, old)
        To(p) == new \o SubSeq(p, Len(old) + 1, Len(p))
    IN Over(Without(leaves, Under(leaves, <<Head(old)>>)),
            [q \in {To(p) : p \in from} |-> leaves[CHOOSE p \in from : To(p) = q]])

TokenizerName == <<"tokenization", "context_tokenizer_name">>
ContextBands == <<"tokenization", "context_bands">>
LegacyBand == <<"check", "fail_on_priority_band">>
SlopBand == <<"check", "fail_on_slop_band">>

(* The old name of a threshold is dropped; its value, in today's words,      *)
(* counts when the new name is absent. Either schema may use the old name.   *)
Today == [watchlist |-> "low", needs_refactor |-> "moderate",
          should_refactor |-> "high", must_refactor |-> "critical"]
InTodaysWords(band) == IF band \in DOMAIN Today THEN Today[band] ELSE band

Renamed(leaves) ==
    LET rest == Without(leaves, {LegacyBand}) IN
    IF LegacyBand \in DOMAIN leaves
    THEN Over(rest, [p \in {SlopBand} |-> InTodaysWords(leaves[LegacyBand])])
    ELSE rest

Normalized(text) ==
    Renamed(IF text.schema = 1
            THEN Moved(Moved(text.leaves, <<"tokenizer", "name">>, TokenizerName),
                       <<"context_bands">>, ContextBands)
            ELSE text.leaves)

(* validate_override_shape: every leaf has a default. The forms of the       *)
(* entries of lists are left out.                                            *)
Shaped(leaves) == DOMAIN leaves \subseteq Leaves

(* deep_merge over the defaults.                                             *)
Merged(leaves) == Over(leaves, Defaults)

(* validate: limits are positive, bands increase, weights sum to one (10     *)
(* here), and the thresholds of `check` are bands.                           *)
Valid(c) ==
    /\ c[<<"history", "max_commits">>] > 0
    /\ c[ContextBands \o <<"healthy">>] < c[ContextBands \o <<"warning">>]
    /\ c[<<"scoring", "context_weight">>] + c[<<"scoring", "churn_weight">>] = 10
    /\ c[SlopBand] \in {"low", "moderate", "high", "critical"}

(* load: without a file the defaults; an unknown key, another schema, or a   *)
(* value out of range refuses it.                                            *)
Effective(text) ==
    IF text = None THEN Defaults
    ELSE IF text.schema \in {1, 2} /\ Shaped(Normalized(text))
               /\ Valid(Merged(Normalized(text)))
         THEN Merged(Normalized(text))
         ELSE None

-----------------------------------------------------------------------------
(* config migrate.                                                           *)

(* diff_values: the leaves that differ from their defaults; the names of the *)
(* legacy sections are skipped at every depth.                               *)
LegacySections == {"tokenizer", "context_bands"}
Diff(config) ==
    Restrict(config, {p \in Leaves : config[p] # Defaults[p]
                                     /\ \A i \in DOMAIN p : p[i] \notin LegacySections})

Idle == [pc |-> "idle"]
Migrating(pc) == migration.pc = pc

(* The schema is read first, and the effective values in a read of their own.*)
Migrate(keep) ==
    /\ migration.pc \in {"idle", "done"} /\ file # None
    /\ migration' = IF file.schema = 2
                    THEN [pc |-> "done", from |-> file, to |-> file, kept |-> TRUE]
                    ELSE [pc |-> "load", keep |-> keep]
    /\ UNCHANGED <<file, bak, previous, edits, base, head>>

Load ==
    /\ Migrating("load")
    /\ migration' = IF Effective(file) = None THEN Idle
                    ELSE [pc |-> "backup", keep |-> migration.keep, from |-> file,
                          to |-> [schema |-> 2, leaves |-> Diff(Effective(file))]]
    /\ UNCHANGED <<file, bak, previous, edits, base, head>>

(* --dry-run ends here.                                                      *)
Preview ==
    /\ Migrating("backup") /\ migration' = Idle
    /\ UNCHANGED <<file, bak, previous, edits, base, head>>

(* The migration once the old file has been copied.                          *)
Copied == [pc |-> "aside", keep |-> migration.keep, from |-> migration.from,
           to |-> migration.to, copied |-> edits]

(* write_text_atomically: the file as it is now is copied to `.bak`, moved   *)
(* aside, and replaced. Where the copy comes after the move, it finds no     *)
(* file: Mutant.                                                             *)
BackupTooLate ==
    /\ Migrating("backup")
    /\ migration' = Copied
    /\ UNCHANGED <<file, bak, previous, edits, base, head>>
Backup ==
    /\ Migrating("backup")
    /\ bak' = IF migration.keep /\ file # None THEN file ELSE bak
    /\ migration' = Copied
    /\ UNCHANGED <<file, previous, edits, base, head>>

Aside ==
    /\ Migrating("aside")
    /\ file' = None /\ previous' = file
    /\ migration' = [migration EXCEPT !.pc = "replace"]
    /\ UNCHANGED <<bak, edits, base, head>>

Replace ==
    /\ Migrating("replace")
    /\ file' = migration.to /\ previous' = None
    /\ migration' = [pc |-> "done", from |-> migration.from, to |-> migration.to,
                     kept |-> \/ ~ migration.keep \/ previous = None
                              \/ bak = previous \/ edits # migration.copied]
    /\ UNCHANGED <<bak, edits, base, head>>

(* The replacement fails, and the file is put back; or the process ends      *)
(* before it. The next migration would take the file aside under a name of   *)
(* its own.                                                                  *)
Restore ==
    /\ Migrating("replace")
    /\ migration' = Idle
    /\ IF previous # None THEN file' = previous /\ previous' = None
                          ELSE UNCHANGED <<file, previous>>
    /\ UNCHANGED <<bak, edits, base, head>>

Interrupted ==
    /\ Migrating("replace")
    /\ migration' = Idle
    /\ UNCHANGED <<file, bak, previous, edits, base, head>>

-----------------------------------------------------------------------------
Edit ==
    /\ edits < MaxEdits /\ edits' = edits + 1
    /\ file' \in Declared \cup {None}
    /\ UNCHANGED <<bak, previous, migration, base, head>>

Init ==
    /\ file \in Declared /\ bak = None /\ previous = None
    /\ migration = Idle /\ edits = 0
    /\ base = None /\ head = None

(* `find` embeds the effective configuration in its report; an invalid one   *)
(* ends it.                                                                  *)
Find ==
    /\ Effective(file) # None
    /\ IF base = None THEN base' = Effective(file) /\ UNCHANGED head
       ELSE head = None /\ head' = Effective(file) /\ UNCHANGED base
    /\ UNCHANGED <<file, bak, previous, migration, edits>>

(* The sections behind the digests of assemble_report. One of the names has  *)
(* no section in the configuration.                                          *)
AnalysisSections == {"inventory", "tokenization", "scoring", "organization", "verification",
                     "navigation", "blast_radius", "stewardship", "concept_dispersion", "resources"}
EvidenceSections == {"history"}
(* Mutant: only the first level below a section is digested.                 *)
SelectedShallow(config, sections) ==
    Restrict(config, {p \in Leaves : p[1] \in sections /\ Len(p) = 2})
Selected(config, sections) == Restrict(config, {p \in Leaves : p[1] \in sections})

(* compatibility_mismatches, as far as the configuration decides it.         *)
Compatible(a, b) ==
    /\ Selected(a, AnalysisSections) = Selected(b, AnalysisSections)
    /\ Selected(a, EvidenceSections) = Selected(b, EvidenceSections)
    /\ a[TokenizerName] = b[TokenizerName]

Next == Load \/ Preview \/ Backup \/ Aside \/ Replace \/ Restore \/ Interrupted \/ Edit \/ Find
        \/ \E keep \in BOOLEAN : Migrate(keep)

Spec == Init /\ [][Next]_vars

-----------------------------------------------------------------------------
(* A migration keeps the effective configuration of the file it read.        *)
MigrationKeepsMeaning ==
    migration.pc = "done" => Effective(migration.to) = Effective(migration.from)

(* A migration keeps every effective value outside the context bands, its    *)
(* result loads, migrating it again changes nothing, and the file it         *)
(* replaced is in the backup unless it was edited after the copy.            *)
MigrationKeepsRest ==
    migration.pc = "done" =>
        /\ migration.kept
        /\ migration.to.schema = 2
        /\ Effective(migration.from) # None =>
              LET before == Effective(migration.from)
                  after == Effective(migration.to)
              IN /\ after # None
                 /\ \A p \in Leaves : before[p] # after[p] => Prefixed(p, ContextBands)

(* Two reports that `compare` takes for compatible were analysed with the    *)
(* same settings, but for those that only decide thresholds and output, and  *)
(* those of `semantic_drift`, which no digest of the comparison covers.      *)
ComparedAlike ==
    base # None /\ head # None /\ Compatible(base, head) =>
        \A p \in Leaves : base[p] # head[p] =>
                             p[1] \in {"health", "check", "output", "semantic_drift"}
===============================================================================
