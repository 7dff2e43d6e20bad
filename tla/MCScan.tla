-------------------------------- MODULE MCScan --------------------------------
(* What a scan works with, for TLC and for proofs: the files and the history *)
(* of Snapshot as they are, the token cache and the configuration as         *)
(* instances.                                                                *)
EXTENDS Snapshot, SampleTexts

CONSTANTS CachedFiles,   \* the files that a scan takes from the cache: [text, mode]
          PayloadSize,   \* the size of the payload of each mode
          CacheEntries, CacheBytes, Tokenizers, MaxScans, MaxDamage

VARIABLES dbs, live, cacheScan, pruner, scansDone, damage,
          file, bak, previous, migration, configEdits, baseConfig, headConfig

ASSUME ScansAssumption == ConstantTypes

Cache == INSTANCE TokenCache WITH
    Files <- CachedFiles, SizeOf <- PayloadSize, MaxEntries <- CacheEntries, MaxBytes <- CacheBytes,
    scan <- cacheScan, scans <- scansDone

(* There are files, each mode has a size, and the limits are numbers.        *)
ASSUME SizesAssumption ==
    /\ Len(CachedFiles) \in Nat \ {0} /\ DOMAIN CachedFiles = 1 .. Len(CachedFiles)
    /\ \A i \in DOMAIN CachedFiles : CachedFiles[i].mode \in DOMAIN PayloadSize
    /\ \A mode \in DOMAIN PayloadSize : PayloadSize[mode] \in Nat
    /\ CacheEntries \in Nat /\ CacheBytes \in Nat

Settings == INSTANCE Configuration WITH
    Defaults <- SmallDefaults, Declared <- Texts, MaxEdits <- 1,
    edits <- configEdits, base <- baseConfig, head <- headConfig

(* The defaults are valid, every setting is of a section that is digested or *)
(* that `compare` leaves out, and only context bands have the name of a      *)
(* legacy section. None is neither a text nor a configuration.               *)
ASSUME DefaultsAssumption ==
    /\ Settings!Valid(SmallDefaults)
    /\ {<<"history", "max_commits">>, Settings!ContextBands \o <<"healthy">>,
        Settings!ContextBands \o <<"warning">>, <<"scoring", "context_weight">>,
        <<"scoring", "churn_weight">>, Settings!SlopBand} \subseteq Settings!Leaves
    /\ Settings!LegacyBand \notin Settings!Leaves
    /\ \A p \in Settings!Leaves :
          /\ (\E i \in DOMAIN p : p[i] \in Settings!LegacySections) =>
                Settings!Prefixed(p, Settings!ContextBands)
          /\ p[1] \in Settings!AnalysisSections \cup Settings!EvidenceSections
                      \cup {"health", "check", "output", "semantic_drift"}
    /\ \A t \in Texts \cup {None} : Settings!Effective(t) # None =>
          LET kept == Settings!Diff(Settings!Effective(t))
          IN None \notin {[schema |-> 2, leaves |-> kept], Settings!Merged(kept)}

cacheVars == <<dbs, live, cacheScan, pruner, scansDone, damage>>
settingVars == <<file, bak, previous, migration, configEdits, baseConfig, headConfig>>
===============================================================================
