# A TLA+ verification of git-slop

git-slop is a command-line program. `git slop find` analyses a Git worktree and
publishes a report under `.slop`, `.git/slop` or `--output-dir`; other commands read
the report (`check`, `compare`, `plan`, `verify`), publish derived artifacts
(`advise`, `github`), install policy packs, keep named baselines and prune what is
old. `xtask` holds the maintenance commands that the workflows of the repository run.
There is no server and there are almost no threads. What is hard is that **many
processes share one directory tree**, that most of them take no lock, and that each
may be killed between any two file-system calls; that a report tells people and
gates about files that **change while they are read**; and that the workflows hand
**evidence from job to job** while runners are lost and people push.

The modules about directories work at the level of file-system calls, those about
workflows at the level of steps of a job, and those about what a report says at the
level of the rules that decide it. Paths below are relative to the repository.

## Inventory

### The parts, their state and their operations

| component | code | state | modelled in |
|---|---|---|---|
| report publication | `src/report/write/storage.rs`, `write.rs` | `latest/`, `runs/<stamp>[-N]/`, hidden temporaries and backups | `ReportStore` |
| run retention and prune | `src/cli/listing.rs`, `enforce_retention` | `runs/`, `advice/runs/` | `Retention`, `ReportStore`, `AdviceArtifacts` |
| scan lock | `src/config/lock.rs` | an OS file lock for each state root | `ReportStore` |
| init, state directories | `src/config.rs`, `src/cli/init.rs`, `src/config/adoption.rs` | first-run state below `.git`, `.slop`, the adoption files | `ReportStore`, `InitPromotion` |
| advice artifacts | `src/advice/artifact/persistence.rs` | `advice/latest`, `.latest.previous`, `advice/runs/<id>`, `.write.lock` | `AdviceArtifacts` |
| advice requests | `src/cli/advice_cmd.rs`, `src/advice/provider`, `resources.rs` | one call, its socket, its monitor | `AdviceRequest` |
| advice input and verdict | `src/advice/context`, `validate.rs` | excerpts under two budgets | `AdviceContext` |
| policy packs | `src/policy/store.rs`, `lifecycle.rs`, `validate.rs` | cache, `index.json`, selection, lock | `PolicyPacks` (calls), `PolicySet` (rules) |
| named baselines | `src/cli/baseline_compare.rs`, `src/baseline.rs` | references, objects, hidden backups | `NamedBaseline` |
| snapshot and freshness | `src/analyze.rs`, `src/freshness.rs`, `src/git.rs` | digests of the worktree in a report | `Snapshot` |
| inventory | `src/inventory.rs`, `src/inventory/generated.rs` | records of the tracked paths | `Inventory` |
| history and lineage | `src/history/*` | what `git log` tells of a file | `History` |
| overlays | `src/overlays/*` | pairs, duplicate sets, clusters; tests and gaps | `Overlays`, `Verification` |
| scoring and health | `src/scoring.rs`, `src/health/*` | bands of files and folders, the rollup | `Scoring` |
| token cache | `src/analyze/cache.rs`, `src/cache.rs` | an SQLite database | `TokenCache` |
| configuration | `src/config.rs`, `src/cli/reporting.rs`, `src/config/storage.rs` | `config.yaml`, its `.bak` and `.previous` | `Configuration` |
| report contract | `src/report/write/validation.rs`, `contract/` | a report somebody else may have written | `ReportContract`, `ReportFields` |
| check, compare | `src/report_ops/readiness.rs`, `compare/`, `src/cli/check.rs` | none | `ReportGates` |
| plan | `src/report_ops/plan` | none | `Plan` |
| prompt pack | `src/report_ops/github.rs` | a directory of prompts | `PromptPack` |
| benchmark pair | `xtask/src/advisor_benchmark/persistence.rs` | two files, a journal, temporaries, backups | `BenchmarkPair` |
| benchmark runs | `xtask/src/advisor_benchmark/*` | results, a review directory, ratings, the finalized decision | `BenchmarkRun` |
| execution state | `xtask/src/execution_state/*`, `execution_state_sync.yml` | a package handed between runs | `ExecutionState` |
| dependency remediation | `xtask/src/dependency_remediation/*` | a patch on its way to a pull request | `Remediation` |
| release publication | `release-publish.yml`, `xtask/src/release*.rs`, `crates_io.rs`, `manifest/` | crate, tag, release, receivers | `ReleasePublication` |
| structural analysis, action and installers, command line and rendering | see `PROJECT.json` | none | not modelled |

### How they interact

* `find` takes `scan.lock` of its **state root** without waiting and works on its
  **output root**. The two are separate options, so two `find`s may share a directory
  and not a lock. `prune` and `init` take no lock and change the same directories.
* Readers take no lock: every intermediate state of a swap is observable.
* `find` lists and reads the files, looks tokens up in the cache, asks Git for the
  history, computes the overlays and the bands, and writes the report; `check`,
  `compare`, `plan` and `advise` read it, validated and migrated by the contract.
* `advise` reads report, plan and policy packs, sends one request under a monitor, and
  publishes under `advice/` with a lock of its own, which it waits for.
* `xtask` writes the benchmark pair with no lock; runs, reviewers and a finalization
  share the directories around it.
* The workflows call `xtask` in one job after another; what a job knows of the earlier
  ones is in packages, artifacts, branches and releases that others can change.

### What is hard

`PROJECT.json` lists the hazards with their lines. They are of these families:

1. a crash between the renames of a swap, and what the next process makes of it;
2. a recovery that is itself interrupted, or that mistakes a stale backup for the
   current one;
3. a process without the lock that removes or creates something between two calls;
4. a check, a listing or a digest that is out of date when it is used;
5. an error path that leaves something behind, or gives up half-way;
6. evidence that is cut, capped, merged or sampled: what is left out must be told;
7. two computations of the same thing (a band, a digest, a rule, a gap) that must agree;
8. a step that is repeated after its answer was lost, or that mixes two attempts.

## The modules

### Directories: `ReportStore` (with `Retention`), the core

The state is `dirs`, the directory at each of the paths. A directory that exists is a
function from the files of a bundle to the invocation that wrote each (or `NoFile`),
so a mixed or partial directory is a value of the model. `lock` is the scan lock of
each state root, `pc` the next call of each process, `todo`/`cur` the loop over
directories to remove, `listed` the backups that the cleanup found when it listed the
directory (it uses that list later), `step` the loop over files, `target` the chosen
run name.

| code | actions |
|---|---|
| `acquire_scan_lock` | `Acquire`, `Refused` |
| `cleanup_abandoned_publication_state` | `ListTemps`, `Recover`, `NothingToRecover`, `ListRunTemps` and the removals |
| `enforce_retention` (before, after) | `RetainBefore`, `RetainAfter`, `RetainFails` |
| `unique_run_root`, `write_run_atomically` | `Choose`, `CreateRun`, `WriteRun`, `RunWritten`, `Install`, `RunRefused`, `RunFails` |
| `replace_latest_from_run` | `CreateLatest`, `Link`, `Linked`, `LinkRefused`, `MoveAside`, `Swap`, `SwapRefused`, `SwapFails` |
| `fs::remove_dir_all`, wherever it is called | `BeginRemoval`, `RemoveFile`, `RemoveDirectory`, `RemovalsDone`, `RemovalFindsNothing`, `RemovalFails` |
| `plan_run_prune`, `apply_run_prune` | `Plan` and the removals |
| `ensure_state_dirs` | `EnsureStateDirs` |
| process death, end of `run_find_with_options` | `Crash`, `PruneCrash`, `Release` |

`Retention` holds the two retention algorithms as they are: names are compared as
strings, `enforce_retention` skips an entry that does not fit and goes on,
`plan_run_prune` stops at the first that does not. `ReportRegister` is the abstract
specification: the output directory is a register that holds the report of the last
publication. `RegisterSpec` says that `ReportStore` implements it, with `Current`
(what `latest` shows, or what the next cleanup will put there) as the refinement
mapping; `AdviceArtifacts` implements it too.

* **`AdviceArtifacts`**: `write_artifacts` call by call, with one lock that is waited
  for, one fixed backup name, two temporaries that an error drops and a crash leaves.
* **`BenchmarkPair`**: `write_benchmark_pair` and `recover_benchmark_pair` call by
  call. The code takes no lock; the model contains overlapping writers, counts each
  overlap as a fault and remembers it in `overlapped`. The properties are about writers
  that did not overlap, because nothing in the code or its documents promises more.
* **`PolicyPacks`**: the user's cache and index, a repository's selection and lock,
  and the calls of `install`, `remove`, `lock` and of the resolution for `advise`. A
  directory of the cache is absent, empty, in part, whole, or holds something else than
  its name says. As above, overlaps are faults, and only `OnlyLockedContent` is about
  overlapping commands too.
* **`NamedBaseline`**: references and objects; a check of a name and the rename that
  follows it are two steps, so that another process may come in between.
* **`PromptPack`**: two exports into one directory while people put files there.
* **`InitPromotion`**: the promotion of first-run state file by file, the adoption
  files and the active-state marker, among scans, edits, checkouts and crashes. A
  publication is one step here (its windows are `ReportStore`'s), one `init` at a time.
  What `.slop/latest` holds is stated only where no promotion was torn by a crash in it
  or by a scan beside it (`torn`): in those cases the code promises nothing.
* **`TokenCache`**: get, put, eviction of scans that exclude each other, `cache prune`
  without the lock, a damaged database that is put in quarantine. A statement of the
  SQL engine is one step. The cache is keyed by content, tokenizer and mode.

### What a report says

* **`Snapshot`**: the reads of one `find` in their order (HEAD once, the status, the
  files, the status again), among edits and moves of HEAD, and the verdict of
  `freshness::evaluate`. What configuration, analyzer and selection add to the verdict
  is the one flag `drifted`.
* **`Inventory`**: the index, the sample under a memory budget, the two looks at every
  path while people edit, overrides, generated files and what they are made from.
  Paths are numbers in the order of their names. Between two looks a file may become
  longer, a link (dangling or with the text it leads to), a submodule or nothing: the
  second look fails when what was a link is one no more or what was a file cannot be
  read, and follows a link put in a file's place. Sources of generated files are resolved
  against the selected paths only (`analyze.rs:339, 376`), so that a source outside the
  sample is told in the words of the generated file.
* **`History`**: the log is walked from the newest commit, and a rename makes the older
  name an alias. A file is a number, so that the model knows whose commit it is.
* **`Overlays`**: temporal and lexical pairs with their caps, the suppression that is
  told, duplicate sets and clusters. **`Verification`**: whether verification applies,
  nearby tests, confidence, gap (in sixtieths) and the ranking.
* **`Scoring`**: bands of files and folders with shared and per-profile thresholds,
  folder totals, the rollup with its watchlist.
* **`Configuration`**: merging, validation, `diff-defaults`, `config migrate` with its
  replacement of the file, and the digests `compare` uses. `SampleTexts` has the files.
* **`ReportContract`** and **`ReportFields`**: hand-written rules, schema and types at
  places that stand for fields treated alike; the migration of schema 4, which gives
  every band of context or pressure a present name and lowers the highest pressure band;
  `report validate` and `report migrate`.
* **`ReportGates`**: assembly and compact profile, readiness, `check` and `compare` of
  any two small analyses. **`Plan`**: slices of work: size caps, merging, what makes
  each actionable (anchor evidence, type, objective, urgency), ranking, suppression.
* **`AdviceContext`**: which files are read for the candidates asked for and in which
  order, excerpts cut to a budget of bytes and then of tokens, what is told of the cut,
  the verdict from the answer and the cache of inputs whose answer was valid.
  **`AdviceRequest`**: the gates
  before a provider is contacted, the request in ticks of 250 ms, the framing of the
  answer, the monitor of the host and what is stored.
* **`PolicySet`**: which directories are accepted as packs, what a digest covers,
  `compile_packs`, and each command of the life cycle whole.

### Workflows and maintenance

* **`ExecutionState`**: plans that are captured, reviewed, approved, dispatched and
  applied by jobs whose runner may be lost after any operation, and whose capture of the
  journal may fail: the package is uploaded all the same, with the journal the job was
  restored with. `gh-steward`, its journal and the forge are external. The history
  variable `uncaptured` counts the operations a resumed job carried out and left
  out of the journal it uploaded.
* **`Remediation`**: capture, proposal, candidate and tests of a patch over jobs that
  may be run again, then the publisher: prepare, push, request, receipt, continue.
* **`ReleasePublication`**: a commit is its number on main, a crate its commit and
  whether the worktree was dirty, a release file the run whose build it is of. One run
  at a time (the concurrency group of `release-publish.yml:33`); failed jobs may be run
  again with what the others handed on. People push, publish, tag, yank, draft and
  publish drafts.
* **`BenchmarkRun`**: runs through a matrix of cells with a checkpoint after every
  sample, blind reviews, ratings and a finalization that reads its files one by one.
  Digests are the values themselves. A turn of the loop is one step; the replacement of
  a pair of files is one step here and `BenchmarkPair`'s there. Before a release is
  decided, the samples are verified against the corpus they were taken of.
  A review that was touched is never restored, and ratings do not change while they are
  finalized (`finalization.rs:171` and `:185` read them twice).

`MC*.tla` give the constants of the instances. `MCCommands` and `MCXtask` hold several
modules each, of which **one is at work in each behaviour** (`work`); the variables of
the others keep their first values, and each property is of the part at work. The
modules with most steps are extended (`Snapshot` by `MCScan`, which `MCCommands` extends,
`Remediation`, `ExecutionState` and `BenchmarkPair` by `MCXtask`), and the others are
instanced; the theorems are about the `MC` modules with their constants left open, so that
the formula a run checks is the formula the theorem is about. `MCScan` holds what a scan
works with (`Snapshot`, the token cache and the configuration), so that it can be proved
about without the rest. `ExecutionState` and
`BenchmarkPair` therefore prefix the names of their specifications (`ExecutionInit`,
`PairInit`, ...) and call their absent values `Nil` and `Absent`. The `MC` modules also
state, as `ASSUME`s, the conditions on constants that the proofs use
(`ScansAssumption`, `PlansAssumption`, `ScoresAssumption`, ...), so that TLC evaluates them
for the instances.

### Abstractions, and why they are sound here

* A check and the call right after it (`exists` then `rename`) are one action; where
  the code does anything between the two, or where a run is about that window, they
  are two. A listing with its sizes is one action: what it yields may be out of date
  at once, since every removal that follows is a separate step.
* `rename` follows POSIX: it replaces an absent or an empty directory and no other.
* A crash kills a process; the file system keeps what it was told. Loss of power,
  which the `sync` calls are for, is not modelled, but a failing `sync` is.
* Contents, digests and messages are the identity of what they were taken of.
* Numbers are small: what matters is on which side of a bound they lie, and the
  instances take values on, below and above it. Where a cap of the code is five or
  ten, the instance has one or two.

## The runs

| run | instance | what it shows |
|---|---|---|
| `store_faults` | 3 `find`s of one state root, 1 `prune`, 2 faults, 2 files, `Keep = 2` | `latest` is whole, survives, is a register; success leaves its own report, no hidden directory, bounded runs |
| `store_any_call` | 2 `find`s of two state roots, one `init`, 1 fault that may also hit the best-effort calls of the cleanup | runs are of one writer; every invocation ends (liveness) |
| `advice_faults` | 3 writers (two of one run name), 1 `prune`, 2 faults | `latest` is a pair and a register, success leaves nothing, runs are pairs, every writer ends (liveness) |
| `policy_faults` | 3 commands of 5 kinds on 2 packs, one with 2 versions, every orderly initial state, 2 faults | an index entry has its directory; advice uses only locked content; a lock is that of the selection |
| `commands` | `MCCommands`: the modules about a report and the commands around it, one at work in each behaviour | the properties of the table below |
| `xtask` | `MCXtask`: the modules about maintenance and workflows, one at work in each behaviour | the properties of the table below |
| `store_state_dirs`, `store_init_crash`, `store_stamps`, `pair_replace`, `policy_selection`, `config_migrate` | small | the six disagreements below |

| property of `commands` | modules | what it says |
|---|---|---|
| `OutputsKept` | `NamedBaseline`, `PromptPack`, `InitPromotion` | a baseline is lost only by consent or where two processes worked on its name at once; no pack is lost without `--force`, a visible one has all its files; `.slop/latest` is of one run |
| `GatesSound` | `ReportGates` | a passing `check` has seen every source file; a clean `compare` hides no file that got worse |
| `MixedOnlyByReturn`, `CurrentOnlyForAnalyzed` | `Snapshot` | a report mixes contents only of a file that changed and changed back; one called current is of the files on disk, but for those Git calls modified |
| `RelationsTold` | `History`, `Overlays` | commits are of the file they are attributed to; no duplicate is dropped by a cap in silence; duplicate sets are the components of what is kept |
| `InventoryTold` | `Inventory` | every selected path is told once or ignored, a sample is fair, targets are selected paths or words |
| `VerificationSound` | `Verification` | a test never widens a gap; gap and evidence agree |
| `PressureAgreed` | `Scoring` | folder records and rollup agree; no pressure is lost on the way up |
| `EvidenceKept` | `Plan`, `AdviceContext` | cutting, merging and suppressing slices lose no evidence; cuts of the input for advice are told in it |
| `AdviceBounded` | `AdviceRequest` | a request ends within `2 * Heartbeat + 2` ticks of the loss of memory, only whole answers are stored |
| `PoliciesSound` | `PolicySet`, `AdviceContext` | advice applies the reviewed rules and all that were asked for, refuses only with a cause; the verdict follows from the rules |
| `CacheKept` | `TokenCache` | the cache changes no result and keeps its limits |
| `ConfigKept` | `Configuration` | a migration keeps all but the context bands; reports are compared only when analysed alike |
| `ContractKept` | `ReportContract` | what is read keeps every rule, its flaws are told, a migration loses nothing but flaws and the highest pressure band |

| property of `xtask` | module | what it says |
|---|---|---|
| `PublishedIsOwnAndTested`, `NothingReplayed`, `ForeignCommitsKept` | `Remediation` | what is published was tested and is of this intent; a push is not made twice; nobody else's commit is overwritten |
| `PlansApplied`, `OnlyApprovedApplied` | `ExecutionState` | an operation is applied again only where a resumed job failed to capture its journal, a settled package means that all were applied; none of a plan that was not approved as it is |
| `PairKept`, `WrittenStays` | `BenchmarkPair` | both files or neither, originals restored, nothing left over; a written pair is replaced only by a writer that may |
| `ReleaseExact` | `ReleasePublication` | the receivers are told of one exact commit, the files of a release are of one build, its status is told as it is |
| `BenchmarkHonest` | `BenchmarkRun` | results called complete are of the whole matrix; a decision to ship is of one such run, reviewed twice as it was |

**Bounds.** Three writers are one that crashes, one that recovers or crashes again,
and one that finds the result. `MaxFaults` bounds crashes and failing calls
together: two let the recovery of a crash be interrupted, which every stated
property must withstand. Two files are enough for a directory to be partial or
mixed. `MaxSuffix` is greater than the number of publications of one second.
`Keep = 2` with three runs makes both retentions remove something; the second run is
larger than half of `MaxBytes`, so that the byte limit removes one that the count
would keep. Two packs and two versions of one are enough for an index to lose an entry
and for a lock to be out of date in its names or its contents only.

Of `commands`: two processes on one baseline name, two exports, one `init` with two
checkouts; two contents and two edits of two files, two commits; logs of four commits
over three names; four files for the overlays with caps of two; three sizes on both
sides of a band; six files in three folders for plans; five paths, two indexes and
three override lists for the inventory; ten answers and five invocations of a
provider; eleven requests for the context, of one target and of the first few, that fit,
are cut in bytes or in tokens, cannot be made to fit, or name nothing that may be read;
twelve directories that may be policy packs and five commands;
a heartbeat of two ticks and a time limit of eight, so that a request can outlive two lost
samples; two tokenizers, two scans and one damaged database; one edit of a configuration;
two flaws in a document. Of `xtask`: two attempts, two moves of the remote branch and one
crash; two plans of two operations, three runs and four jobs (one that prepares, one that
captures its journal, one that fails to, and one that goes on); three writers of the pair
and two faults; four commits (a bad date, none, a good one, a wrong count), two
dispatches, one re-run, two moves of people; one case of five candidates with two
efforts and two repetitions, two invocations, one flaw and one edit. The theorems of
`WorkflowProofs`, `XtaskProofs` and `CommandsProofs` hold for any number of each.

**Deadlock** is not checked: every behaviour ends when all processes have ended.

**Fairness** is weak fairness of the steps of each process, and of no fault. The
operating system schedules every process that can take a step. `find` and `prune`
never wait for each other: the scan lock is tried and not awaited. An advice writer
waits, and weak fairness is enough because the bounded number of writers leaves the
lock free from some time on. Where a bound on time is part of the code (the monitor of
`AdviceRequest`), it is a safety property that counts ticks.

**Symmetry** is declared where the properties of the run are invariants or action
properties, no constant or definition tells the values apart and the run is shorter
for it: the processes of `policy_faults`.

**Mutants.** Each module keeps, above a definition, the variants of it that the
checked properties refute (`RecoverNothing`, `LinkedEarly`, `ReleaseSuccess`, ...):
they show what each property is sensitive to and are used by no action.

## What the code does not keep

* `store_state_dirs`: two `find`s with different `--state-dir` and one
  `--output-dir` hold different locks; the cleanup of one removes the files of the
  directory the other is filling, and a partial directory becomes `latest`.
* `store_init_crash`: a crash between the two renames of the swap, then `init`, which
  creates an empty `latest`: the next cleanup takes the only backup for stale and
  deletes the published report.
* `store_stamps`: runs of one second are named with a suffix, a freed name is used
  again, and names are compared as strings: `prune` can remove a newer run and keep
  an older one.
* `pair_replace`: the rollback removes the file at the destination before it knows
  that a backup exists; when the first rename has not happened yet, the originals are
  lost.
* `policy_selection`: `policies.yaml` is renamed aside before the new file is renamed
  into place, and a missing file is an empty selection: after a crash in between (or
  for an `advise` that reads at that moment), the selected packs are not applied and
  the lock is not looked at, while the documents say that selected content that is
  missing or unlocked fails.
* `config_migrate`: `config migrate` of a file of schema 1 or of none that has context
  bands of its own loses them: `diff_values` (`src/cli/reporting.rs:187`) skips
  `tokenizer` and `context_bands` at every depth, and the old file is replaced.

These were met while modelling and have no run of their own; where one touches a
property, its definition names the exception.

* `docs/cli-reference/check.md:27` lets `--allow-incomplete-evidence` evaluate a report
  with incomplete inventory records; `readiness.rs:46` refuses an incomplete analysis
  always.
* `docs/benchmarks/safeguard-v1.md:112` has a run stopped by two provider failures
  recommend `defer`; `derivation.rs` gives `adjust` once one sample is valid.
* `docs/cli-reference/advise.md:24`: asking for a pack takes in the rules of packs whose
  names continue its name (`RequestExact`).
* `docs/config-recipes.md:55`: the last matching override decides the class even where
  it gives none, while provenance and verification take the last that speaks.
* `docs/report-contract.md:317` asks for `--allow-legacy`; `load_report` always allows
  schema 4.
* `docs/report-contract.md:42`: the digest that `compare` uses selects the section
  `concept_dispersion`, which does not exist (`report/assembly.rs:441`); settings of
  `semantic_drift` do not make reports incomparable (`ComparedAlike`).
* A second edit of a file that was already modified leaves a report current
  (`freshness.rs:94`); `CurrentOnlyForAnalyzed` excepts it.
* `release-status` can call a half-refreshed draft ready for publication
  (`StatusSound`).
* `.github/workflows/execution_state_sync.yml:617-643, 688-697`: when a resumed job cannot
  capture its journal, the package is uploaded all the same (`always()`) with the journal
  that the job was restored with, and the next dispatch of the plan carries out again what
  this job did. `docs/architecture.md:436` has incomplete or mismatched evidence stop with
  `recovery_needed`, and `.agents/README.md:43` forbids to replay an ambiguous operation.
  The shortest such behaviour has one plan and four jobs; `PlansApplied` allows one more
  application for each such failure and no other.
* `migration.rs:615-623` takes every `slop_band` "critical" for the name of an old band and
  makes it "high". It is a band of today as well (`scalars.rs:8`, `scoring.rs:120`), and
  `docs/report-contract.md:302` has it as a threshold of `check`, so that a check of
  a migrated report at this threshold can pass where the old report would not
  (`MigrationCompletes` names the exception).
* `migration.rs:91` keeps a `head_sha` in upper case, which `scalars.rs:17` then refuses.

## What is proved

`ReportStoreProofs`, for every number of invocations, files, faults, and every retention
setting:

* `TypeCorrect`: `Spec => []TypeOK`, with no further assumption.
* `LatestIsWhole`, `PublishedSurvives`, `ImplementsRegister`: `LatestWhole`,
  `LatestSurvives` and `RegisterSpec`, for **orderly** instances. `Orderly` says that
  all `find`s share one state root, that the best-effort calls of the cleanup do not
  fail, and that no `init` runs meanwhile. `prune`s are unrestricted. The first and
  the last condition are needed: `store_state_dirs` and `store_init_crash` are the
  counterexamples. Without the second, two backups may exist, and the cleanup takes
  the one whose name, not whose time, is last.

The argument. Neither property is inductive: whether a swap is safe depends on what
the process has learnt many calls before. `IInv` adds

* `Mutex`: a `find` between `Acquire` and `Release` is the holder of the lock, so
  no other `find` moves meanwhile;
* `InScope`: what each process may have on its list of removals at each step, so
  that the steps of `prune` and of the retentions leave `latest` and the backups
  alone;
* `LatestInv`: at most one backup exists; what `latest` holds is whole; while
  `latest` is missing the backup is whole; one of them exists once anything is
  published;
* `BackupPhase(f)`: what a `find` knows of the backups at each step (the listing is
  complete, nothing is left after the cleanup, its own backup only at the swap);
* `BundlePhase(f)`: the run it links holds its own files, the hidden directory
  holds the files linked so far, and is whole when the links are done;
* `SwappedPhase(f)`: after the swap a `find` does not publish again.

Each conjunct is preserved by a lemma with one step per action. The refinement uses
`IInv`: only `Swap` changes `Current`.

* `RunsAreOfOneWriter`: `RunsOfOneWriter`, for every instance, orderly or not.
  `RunsInv` adds that a hidden run directory holds files of its owner only; a run is
  such a directory renamed, and a removal takes files away but adds none.
* `SuccessIsClean`: `SuccessLeavesOwnReport`, for orderly instances. `TempsPhase(f)`
  says which hidden directories of any invocation may exist at each step of the holder
  of the lock, `InstalledPhase(f)` that `latest` is its report once it has replaced it.
  With `CleanupMayFail` the property is not what the code promises: a hidden directory
  that the cleanup cannot remove is left with a warning.
* `SuccessIsBounded`: `SuccessLeavesBoundedRuns`, for orderly instances, whatever the limits
  and the sizes of the reports. `LimitInv` says of a `find` that removes what its last
  retention selected that the other runs are within the limits, and of one that is about to
  return its lock that all of them are. That the retention selects enough is
  `RetentionLimits`: `Descending` lists every entry, because any set of names has a greatest
  one (`DescendingLists`, `StringOrder`); along that list the bytes that are counted are
  those of the places that are spared (`RetainedIsBounded`); and no hidden directory is
  listed that would count in place of a run, which is what `TempsPhase` says. Only the
  holder of the lock adds a run; `prune` and every other step take files from runs.

`Induction` holds what the sums and recursions of several modules need. The provers cannot
instantiate the induction theorems of the library, whose step is an operator, so induction
is derived from the order of the naturals: a set of them that is not empty has a least one
(`Least`), hence one that contains 0 and every successor contains all of them (`UpTo`), and
a function is determined by a base and a step (`Recursion`). A sum over a finite set is such
a recursion over its subsets; it does not depend on the order (`AnyOrder`), and fewer or
smaller numbers have no greater sum (`SumOfFewer`).

`PolicyPacksProofs`, for any number of processes, contents and faults, and with no
assumption that commands do not overlap: `TypeCorrect`, and `OnlyLockedIsUsed`
(`Spec => []OnlyLockedContent`). That a finished `advise` has used locked content says
nothing of how it got there, so `IInv` adds `Course` (what a command may do at each
step: `advise` never comes to a step that writes, has found nothing before it looks
packs up and then only packs of the selection it has read, so that with an empty
selection it has found nothing and with another it must pass `Compare`) and
`LockIsLocked` (a lock that exists was written by `policy lock`). A step of another
process changes neither what a command has found nor that something was once locked.
Types need `Course` too: a directory is loaded only under a digest that the index gave.

`IndexHolds` and `LockIsCurrent` are about the files, and about commands that do not
overlap: with overlaps the code promises neither. `IndexHolds` allows any crash and any
failing call, `LockIsCurrent` (as its property says) holds until the first of them. The
invariants added to `IInv` are `OneAtATime`; `StoredInv`, which says of each step that the
index about to be written names stored packs only, that an install has its directory in
place by then, and that a remove empties a directory the index no longer names; and
`LockInv`, which follows a command from the lookup of the selection to the lock that is
removed or written (`LockPhase`): whoever changes the selection or the index of a
selected pack has removed the lock, or writes the new one, before it ends.

`AdviceArtifactsProofs`, for any number of writers, `prune`s, crashes and failing
calls, with no further assumption: `LatestIsPaired`, `SuccessIsClean`, `RunsArePaired`
and `ImplementsRegister`. `IInv` adds

* `Mutex`: a writer between `Acquire` and `Release` is the holder of the lock;
* `LatestInv`: while `latest` is renamed aside, or after a crash there, the backup is
  the pair of a writer that had replaced `latest`, and one of the two exists from the
  first replacement on;
* `Phase(w)`: which temporaries there are at each step, how many files of its own the
  one being filled holds, and that no backup is left once the sweep has been made.

A writer has one backup name and one lock, so `Orderly` is not needed here.

`ScanProofs`, for any files, contents, edits, commits and moves of HEAD:
`MixesOnlyByReturn` and `CurrentIsOfTheAnalyzed`. Whether two reads of a file saw the
same is known only later, by a digest or by a status. `IInv` therefore orders the
sights of each file (`Before`: a later sight counts no fewer changes, and more if the
content differs): start, analysis, end, present; and for a file that the last status
leaves out, the commit of the scan's HEAD is one of the sights in between (`Seen`).
Two sights that are equal enclose either no change or one that was taken back.

`ScanProofs`, the token cache: for any files, limits, scans, prunes, damage and replaced
databases, `CacheIsKept` (its theorem is in `CommandsProofs`, the lemmas are here).
`CacheInv` says that the payload of a row is what its key gives or is lost (`CacheFile`);
that a scan holds the token data of every file up to where it is (`DataSoFar`), computed or
looked up; that while it evicts, the rows and bytes it has counted are no fewer than those
that are there (`NotMissed`), whatever a `prune` takes away meanwhile
(`ScanUndisturbed`); and that it ends within the limits or with a failure (`Ended`). A scan
counts once and then subtracts row by row, so this needs that the bytes of all rows are
those of a removed row and of the others, along a recursion over the rows (`Induction`). It assumes that there is a file, that each mode has a natural number as its
size, and that the limits are naturals.

`ScanProofs`, the configuration: for any edits and interruptions, `SettingsAreKept`.
`SettingsInv` says what a migration has read and is about to write (`Reads`), and that the
old file is in the backup unless somebody edited it since it was copied (`CopyHolds`).
That the new file loads is `MigratedLoads`: it leaves out the context bands, which then have
their defaults, and everything else keeps its value; `SameSettings` shows that two
configurations with equal digests agree on every setting of a digested section. Of the texts
and the defaults the proof uses `DefaultsAssumption` only: the defaults are valid, every
setting is of a section that is digested or that `compare` leaves out, and only the
context bands have the name of a legacy section.

`WorkflowProofs`, the state of an execution: for any plans, operations, dispatches, re-runs, lost runners
and expired packages and failed captures: `AppliedOncePerCapture` and
`AppliesOnlyApproved`. What matters is the journal that a later job starts from, and that
job may be of another run. `ExecutionIInv` says that a package uploaded since the newest job
that started to mutate a plan is either refused by every later job or holds exactly what was
carried out and captured (`Tells`, `NewestHolds`), that every operation was carried out
as often as it was left out of a journal, or once more (`CountsInv`: the once more is what
`Done` stands for), that nothing was carried out of a plan no job has started
(`NothingBefore`), and how the journal of the running job stands to what was done at
each of its steps (`JobJournal`). A first job that fails to capture uploads a package
without a journal, which later jobs refuse; only a resumed job has an older one to upload,
and it is counted in `uncaptured`.

`WorkflowProofs`, the remediation: for any patches, attempts, interruptions and moves of other
people: `PublishedSound`, `NeverReplayed` and `LeaseKept`. The publisher knows nothing
but its files, so `IInv` says what each file stands for: a candidate is a patch on the
source of the event and both are tested (`ArtifactsInv`), an intent expects the branch
where the event saw it and its commit is the candidate's (`IntentInv`), a stage has the
acknowledgement of the one before it (`PackageInv`); and what is true at each step that
is still to do (`Preparing`, `Pushing`, `Creating`, `Verifying`). `Replays` strengthens
`NothingReplayed` by the present: a push that nobody undid is visible on the branch, so
that the lease refuses the next one, and a request that nobody closed is open.

`XtaskProofs`, the benchmark pair: for any number of writers, recoveries, crashes and
failing calls, unless two writers overlap (`overlapped`): `PairIsKept` and
`WrittenIsKept`. While there is a journal, some pair of originals `O` exists that the journal tells of, and `Carried(O)`
relates the files, the backups and the temporaries to it: each file is absent, the
original or the new one, each backup absent or the original, and **once no temporary is
left, none or all of the new files are in place**. That is why a recovery that finds a
mixture never takes it for a finished transaction. `Restoring`, `Linking` and `Replacing`
say how far a recovery or a writer has come at each of its steps; a writer that has not
recorded its journal has put nothing in place (`Fresh`), so that what it leaves behind
can be told from the originals. Without a journal the files are `Settled`. The theorems
do not say that the originals survive a rollback: `pair_replace` refutes that.

`XtaskProofs`, the release: for any history of main, any number of dispatches, re-runs,
releases and steps of people, `ReleaseIsExact`. What a run finds out, other runs and people
can make stale between two steps; what cannot change is that crates.io never replaces a
crate and that a tag which is there stays (`OnceSet`). `ReleaseInv` therefore says of each
run what it has found out by its step (`RunSound`: its crate is clean and of its commit,
then the crate is on crates.io, then the tag is of the commit, then the project is dated),
in terms of these two only; that at most one run is at work (`OneAtWork`); that a run which
sends files sends them beside its own only (`SendsAlone`), so that the files of a release
are always of one build, whose run has shown its commit (`FilesSound`); what the receivers
were told of (`ToldSound`); and that a run which succeeded left its release full
(`SuccessSound`). A person may publish the draft in the middle of a refresh: the files are
then of one build, but not all there, and neither `Verify` nor the verification of the
release lets that pass. The theorem assumes of the constants that `FirstMain` is a commit of
`Project` and that `None` is no commit and no crate.

`XtaskProofs`, the benchmark: for any number of runs in one output and one review directory,
any corpus and any edits, `BenchmarkIsHonest`. The invariant `BenchmarkInv` starts from what
never changes, a run that is over (`Kept`), and says that results which call themselves
complete are of such a run, every sample of which allowed it to go on (`SamplesClean`,
`ResultsSound`). Nobody holds a lock, so that nothing can be said of the review directory by
itself; what holds is that a run writes one manifest (`ManifestSound`), so that **as long as
the manifest which ratings name lies there, each review they rated lies there too, as the
reviewers saw it or touched since** (`RatingsSound`). A finalization that then finds every
review as the run wrote it knows what the reviewers saw (`FinalizationSound`), though it
reads results, reviews and ratings one after the other; the decision keeps that
(`FinalSound`). It assumes that `None` is no reason for a run to end.

`CommandsProofs`, for any number of processes, names, reports, packs and runs:
`OutputsAreKept`, in three parts that share no state. A baseline (`BaselineInv`): what a
name or a backup refers to is stored before the name is written (`StoredAll`), a process
that will install does so where it has just seen or made the name free unless it was asked
to replace (`NameFree`), and a report that is owed to a name is there, or in the backup of a
process that is about to put it back or has died (`OwedKept`). An export (`PackInv`): the
temporary directory holds the parts written so far and no other (`TempWhole`), an output
that a process may not replace is one nobody had put there when it looked (`Unseen`), and
what people keep there is there (`DueThere`). The promotion of `init` (`PromotionInv`): where
no scan came between, what has been moved and what is still to be moved are of the one run
that was current when `init` chose (`OneRun`, `Joining`, `Chosen`). It assumes that `None` is
no report and no directory.

`CommandsProofs`, `check` and `compare`: for any two analyses of any number of files, any
contents, scores and thresholds, `GatesAreSound`. Neither command sees the files; they see
the records of a report, and the compact profile drops some of them. The proof shows what
readiness rests on: a report that is ready has an index entry for every file, and each was
read (`ReadyIsWhole`), so that a maximum taken over the entries is one over the files. Where
a comparison finds no regression, a file that fails in the head failed as badly in the base,
or its content was in the base under its own name or under one that is gone
(`NoRegressionIsNoWorse`). It assumes that scores are naturals with a greatest one, and that
`None` is no content, no record and no index.

`CommandsProofs`, a request for advice: for any heartbeat, time limit and answers,
`AdviceIsBounded`. The thread that samples the host's memory and the loop that watches it
share one slot, and either may be late; the bound is nowhere in the code. The invariant
counts ticks: a request goes on only where the last sample was published at most
`Heartbeat + 1` ticks ago (`Paced`); a sample that says there is memory was taken when there
was, and **after the one before it had been published** (`Sampled`). So the loss of memory is
missed by one sample at most, which gives two heartbeats and two ticks (`Reacting`); the
variant `EnforceLastSample`, which watches the sample and not its age, has no bound.
`AnswerSound` says that an answer that reaches validation is as long as the provider said
and of a provider the caller consented to. It assumes that both times are naturals.

`CommandsProofs`, two parts of `PoliciesSound`. `ApprovedByEveryRule`: whatever verdicts an
answer claims, `approve` is told only where every rule approves of every candidate, because
the verdict that is told is the strictest of them; it assumes that `None` is no verdict.
`AdvisesByReviewedRules`: under a lock and with packs selected, `advise` applies the rules
that were reviewed with that lock, or refuses. `ReviewInv` says it of the lock in place and of the committed one, which a
checkout brings back: each was written for the rules that its packs still give, because a
digest covers the manifest, and no step changes a pack under its digest.

The assumptions are those of the constants (disjoint kinds of processes, values that
are not invocations, naturals, `None` apart from records), which TLC also evaluates.

Each invariant was checked by TLC on an instance of its module before it was proved.

**Model-checked only**: liveness (`EveryInvocationEnds`, `EveryWriterEnds`), which is beyond
the proof system; and invariants about values computed along a sequence or by recursion,
each of which would need an induction of its own, as `CacheIsKept` has one:

* `EvidenceKept`, `PressureAgreed`: folds over slices, excerpts and folders;
* `RelationsTold`: chains of renames and components of a graph;
* `InventoryTold`, `VerificationSound`: sequences of overrides and of tests, sorted;
* `PoliciesSound` but for the two parts above: packs compiled one after the other, and what
  commands tell of it;
* `ContractKept`: trees of fields at any depth.

## Not modelled

* Structural analysis, language detection and line counts: pure functions of one file.
* The metric formulas of a file and the weights of scores: floating point without
  state. The bands, which decide, are modelled.
* The command line, the renderers, `explain` and SARIF: layout.
* The action and the installers: they download and unpack.
* Folder organisation, an overlay that only ranks folders by names.
* Provenance, prepared reports, timing and resource measurements of a benchmark.
* The wording of prompts; what the adoption files say; owner metadata of the lock.
* Loss of power.

## What is left

Every property of a component whose steps cross with those of others, or that can be cut
short by a crash, is proved. The invariants listed as model-checked only are about one step
each, whose value is computed at length; a larger instance can strengthen them too.
`Induction` has what a proof of `PressureAgreed` would start from (sums over files).
