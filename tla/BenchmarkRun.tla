----------------------------- MODULE BenchmarkRun -----------------------------
(* The advisor benchmark, from the first sample to the decision: a run goes  *)
(* through a matrix of cells and writes its results after every sample, each *)
(* valid answer is laid out for blind review, people rate what they see, and *)
(* a finalization derives the decision anew from what it finds. There is no  *)
(* lock: runs may share the output and the review directory, and people edit *)
(* the corpus, the reviews and the ratings at any time. How the two files of *)
(* a result replace the earlier ones is BenchmarkPair's; here it is one step.*)
EXTENDS Naturals, FiniteSets, SequencesExt

CONSTANTS
    MaxInvocations,      \* bounds the invocations of advisor-benchmark
    Cases,               \* the candidate count of each case of the corpus
    Efforts,             \* of a full matrix, in order
    Options,             \* what a run may be asked for
    ReleaseRepetitions,  \* what a release needs of --repetitions
    ReviewRepetitions,   \* and the review of every case
    Structured, Accuracy,\* thresholds, in tenths
    Peak, Hosts,         \* the estimated peak and the machines, in GiB
    MaxFlaws,            \* bounds the samples that are not good
    MaxEdits,            \* and what people change
    None

VARIABLES
    opts,      \* run -> its options and its cells, once it has been admitted
    done,      \* run -> what its samples were
    stage,     \* run -> ready, measuring, writing, told, ended or failed
    scoredBy,  \* run -> the corpus it has loaded
    corpus,    \* the corpus on disk
    results,   \* results.json and decision.md
    shelf,     \* the review directory: number of a review -> whose it is
    manifest,  \* review-manifest.json there
    ratings,   \* the file of the reviewers
    fin,       \* what a finalization has read
    final,     \* the finalized results
    edits

vars == <<opts, done, stage, scoredBy, corpus, results, shelf, manifest, ratings,
          fin, final, edits>>

(* Runs are numbered in the order in which they begin.                       *)
Runs == 1 .. MaxInvocations
Begins(r) == stage[r] = "ready" /\ \A q \in 1 .. r - 1 : stage[q] # "ready"

(* What a person may edit of the corpus: the verdicts it expects of rules,   *)
(* which no later check recomputes, and all that a sample repeats of it.     *)
Corpora == [verdicts : {0, 1}, cells : {0, 1}]

(* What a child may come to: an answer that is right, or valid only; none    *)
(* that is valid; a provider that fails, or is another model; a guard that   *)
(* ends it, and one that speaks when the child has just succeeded.           *)
Flaws == {"poor", "malformed", "provider", "identity", "guard", "late_guard"}
Valid(kind) == kind \in {"good", "poor", "late_guard"}

(* The rules have the verdicts that the corpus expects, with their citations. *)
Right(kind) == kind = "good"

ExpectedContexts(full, candidates) ==
    CASE ~full -> <<8192>>
      [] full /\ candidates = 1 -> <<2048, 4096, 8192>>
      [] full /\ candidates \in {2, 3} -> <<4096, 8192>>
      [] OTHER -> <<8192>>

ExpectedEfforts(full) == IF full THEN Efforts ELSE <<"medium">>

(* The matrix, in the order of the loops.                                    *)
Cells(o) ==
    FlattenSeq([c \in DOMAIN Cases |->
        FlattenSeq([e \in DOMAIN ExpectedEfforts(o.full) |->
            LET contexts == ExpectedContexts(o.full, Cases[c])
            IN [i \in 1 .. Len(contexts) * o.repetitions |->
                   [case |-> c, effort |-> ExpectedEfforts(o.full)[e],
                    context |-> contexts[((i - 1) \div o.repetitions) + 1],
                    repetition |-> ((i - 1) % o.repetitions) + 1]]])])

(* Why a host does not have the room.                                        *)
CapacityBlockers(host) ==
    LET available == Peak + 8
    IN {b \in {"peak", "physical", "available", "swap"} :
           \/ b = "peak" /\ Peak < 16
           \/ b = "physical" /\ host.physical < (IF available > 24 THEN available ELSE 24)
           \/ b = "available" /\ host.available < available
           \/ b = "swap" /\ host.swap > 0}

(* Why the run of a matrix stops before its end.                             *)
Termination(kinds) ==
    IF kinds = <<>> THEN None
    ELSE CASE Last(kinds) = "guard" -> "resource_guard"
           [] Last(kinds) = "identity" -> "provider_model_mismatch"
           [] /\ Len(kinds) >= 2
              /\ \A i \in {Len(kinds) - 1, Len(kinds)} : kinds[i] = "provider"
                -> "consecutive_provider_runtime_failures"
           [] OTHER -> None

(* The reviews that a run has laid out: one for each valid sample of 8192.   *)
Reviewable(kinds, cells) ==
    SelectSeq([i \in DOMAIN kinds |-> i], LAMBDA i : Valid(kinds[i]) /\ cells[i].context = 8192)

(* A result is of a run, after so many samples, and says why it ended there; *)
(* the digest of the corpus is of the file as it is when the result is       *)
(* written.                                                                  *)
Result(r, kinds, end) == [run |-> r, count |-> Len(kinds), end |-> end, corpus |-> corpus]

-----------------------------------------------------------------------------
(* What is derived from the samples, by a run and by a finalization alike.   *)

Passes(kinds, samples) ==
    LET n == Cardinality(samples)
    IN /\ Cardinality({i \in samples : Valid(kinds[i])}) * 10 >= Structured * n
       /\ Cardinality({i \in samples : Right(kinds[i])}) * 10 >= Accuracy * n

ReleaseMatrix(o) == o.full /\ o.repetitions >= ReleaseRepetitions

OfEffort(cells, result, effort) ==
    {i \in 1 .. result.count : cells[i].effort = effort /\ cells[i].context = 8192}

(* The effort with the best quality of those that pass every gate by         *)
(* themselves; the first of them where several are as good.                  *)
Best(kinds, o, result) ==
    LET samples == [e \in DOMAIN Efforts |-> OfEffort(o.cells, result, Efforts[e])]
        good == [e \in DOMAIN Efforts |->
                    Cardinality({i \in samples[e] : Right(kinds[i])})]
        passing == {e \in DOMAIN Efforts : samples[e] # {} /\ Passes(kinds, samples[e])}
        best == {e \in passing : \A f \in passing : good[e] >= good[f]}
    IN IF result.end # None \/ ~ReleaseMatrix(o) \/ best = {} THEN None
       ELSE Efforts[CHOOSE e \in best : \A f \in best : e <= f]

Recommended(result) == Best(done[result.run], opts[result.run], result)

Recommendation(result, manualPasses) ==
    LET samples == 1 .. result.count
    IN IF /\ Recommended(result) # None
          /\ Passes(done[result.run], samples)
          /\ manualPasses THEN "ship"
       ELSE IF \E i \in samples : Valid(done[result.run][i]) THEN "adjust"
       ELSE "defer"

-----------------------------------------------------------------------------
Init ==
    /\ opts = [r \in Runs |-> None]
    /\ done = [r \in Runs |-> <<>>]
    /\ stage = [r \in Runs |-> "ready"]
    /\ scoredBy = [r \in Runs |-> None]
    /\ corpus = [verdicts |-> 0, cells |-> 0]
    /\ results = None /\ shelf = <<>> /\ manifest = None
    /\ ratings = None /\ fin = None /\ final = None
    /\ edits = 0

(* A run is admitted: a machine with the room for it, and a review directory *)
(* that is new or empty when it is looked at.                                *)
Start(r) ==
    /\ Begins(r)
    /\ \E o \in Options, host \in Hosts :
          /\ CapacityBlockers(host) = {}
          /\ o.review => (shelf = <<>> /\ manifest = None)
          /\ opts' = [opts EXCEPT ![r] = [full |-> o.full, repetitions |-> o.repetitions,
                                           review |-> o.review, cells |-> Cells(o)]]
    /\ stage' = [stage EXCEPT ![r] = "measuring"]
    /\ scoredBy' = [scoredBy EXCEPT ![r] = corpus]
    /\ UNCHANGED <<done, corpus, results, shelf, manifest, ratings, fin, final, edits>>

(* --prepare-only: the reports are prepared and no sample is taken.          *)
Preflight(r) ==
    /\ Begins(r)
    /\ stage' = [stage EXCEPT ![r] = "ended"]
    /\ results' = Result(r, <<>>, "prepare_only")
    /\ UNCHANGED <<opts, done, scoredBy, corpus, shelf, manifest, ratings, fin, final, edits>>

(* The sample that the child has come to ends the samples of the run.        *)
Sampled(r, kind) == Append(done[r], kind)

(* The number of a review and the file that is written under it.             *)
Recorded(r) ==
    LET number == Len(Reviewable(done[r], opts[r].cells)) + 1
    IN [n \in DOMAIN shelf \cup {number} |-> IF n \in DOMAIN shelf THEN shelf[n] ELSE r]

(* What every sample leaves on disk, whatever comes after it.                *)
Checkpoint(r, kinds) ==
    Result(r, kinds, IF Last(kinds) = "guard" THEN "resource_guard" ELSE "benchmark_checkpoint")

(* One turn of the loop: the child, its review, the checkpoint, and whether  *)
(* the matrix goes on. A review whose number is taken ends the run with an   *)
(* error, and so does a sample that is valid though a guard ended it: the    *)
(* last checkpoint stays.                                                    *)
Measure(r, kind) ==
    LET cells == opts[r].cells
        kinds == Sampled(r, kind)
        i == Len(kinds)
        reviewed == opts[r].review /\ Valid(kind) /\ cells[i].context = 8192
        taken == reviewed /\ DOMAIN Recorded(r) = DOMAIN shelf
        refused == taken \/ kind = "late_guard"
    IN /\ stage[r] = "measuring"
       /\ i <= Len(cells)
       /\ done' = [done EXCEPT ![r] = kinds]
       /\ shelf' = IF reviewed /\ ~taken THEN Recorded(r) ELSE shelf
       /\ results' = IF refused THEN results ELSE Checkpoint(r, kinds)
       /\ stage' = [stage EXCEPT ![r] =
                       IF refused THEN "failed"
                       ELSE IF Termination(kinds) # None \/ i = Len(cells) THEN "writing"
                       ELSE "measuring"]
       /\ UNCHANGED <<opts, scoredBy, corpus, manifest, ratings, fin, final, edits>>

(* The last write of a run. One that gives no reason to have ended must have *)
(* every cell.                                                               *)
WriteTerminal(r) ==
    LET end == Termination(done[r])
    IN /\ stage[r] = "writing"
       /\ end = None => Len(done[r]) = Len(opts[r].cells)
       /\ results' = Result(r, done[r], end)
       /\ stage' = [stage EXCEPT ![r] = IF opts[r].review THEN "told" ELSE "ended"]
       /\ UNCHANGED <<opts, done, scoredBy, corpus, shelf, manifest, ratings, fin, final, edits>>

(* The manifest of the reviews binds the results as they are on disk by now, *)
(* which need not be those of this run. A manifest that is there is kept.    *)
WriteManifest(r) ==
    /\ stage[r] = "told"
    /\ stage' = [stage EXCEPT ![r] = IF manifest = None THEN "ended" ELSE "failed"]
    /\ manifest' = IF manifest # None THEN manifest
                   ELSE [run |-> r, source |-> results, complete |-> Termination(done[r]) = None]
    /\ UNCHANGED <<opts, done, scoredBy, corpus, results, shelf, ratings, fin, final, edits>>

(* A run is killed, or one of its calls fails.                               *)
Die(r) ==
    /\ stage[r] \in {"measuring", "writing", "told"}
    /\ edits < MaxEdits
    /\ edits' = edits + 1
    /\ stage' = [stage EXCEPT ![r] = "failed"]
    /\ UNCHANGED <<opts, done, scoredBy, corpus, results, shelf, manifest, ratings, fin, final>>

-----------------------------------------------------------------------------
(* People.                                                                   *)

EditCorpus ==
    /\ edits < MaxEdits
    /\ edits' = edits + 1
    /\ \E field \in DOMAIN corpus : corpus' = [corpus EXCEPT ![field] = 1 - @]
    /\ UNCHANGED <<opts, done, stage, scoredBy, results, shelf, manifest, ratings, fin, final>>

(* Somebody touches a review, or empties the directory for another run.      *)
EditShelf ==
    /\ edits < MaxEdits
    /\ edits' = edits + 1
    /\ \/ /\ \E n \in DOMAIN shelf : shelf' = [shelf EXCEPT ![n] = None]
          /\ UNCHANGED manifest
       \/ shelf' = <<>> /\ manifest' = None
    /\ UNCHANGED <<opts, done, stage, scoredBy, corpus, results, ratings, fin, final>>

(* The reviews of the recommended effort, by their numbers.                  *)
SelectedReviews(m, result) ==
    LET cells == opts[m.run].cells
        order == Reviewable(done[m.run], cells)
        effort == Recommended(result)
    IN {n \in DOMAIN order : cells[order[n]].effort = effort}

(* Reviewers rate the reviews of the recommended effort, or all but one, as  *)
(* they lie in the directory; their file names the manifest that lies there. *)
(* They hand in nothing while a finalization runs.                           *)
Rate ==
    /\ manifest # None /\ fin = None
    /\ LET ids == SelectedReviews(manifest, manifest.source) \cap DOMAIN shelf
           sheets == [reviewers : {2}, passes : BOOLEAN, left : {{}}]
                     \cup [reviewers : {1}, passes : {TRUE}, left : {{}}]
                     \cup [reviewers : {2}, passes : {TRUE}, left : {{n} : n \in ids}]
       IN \E sheet \in sheets :
             ratings' = [manifest |-> manifest, reviewers |-> sheet.reviewers,
                         passes |-> sheet.passes,
                         seen |-> [n \in ids \ sheet.left |-> shelf[n]]]
    /\ ratings' # ratings
    /\ UNCHANGED <<opts, done, stage, scoredBy, corpus, results, shelf, manifest, fin, final, edits>>

-----------------------------------------------------------------------------
(* A finalization, in the order in which it reads its files. It may give up  *)
(* at any time: it refuses, only previews, or is killed.                     *)

(* Every sample repeats what the corpus on disk says of its cell.            *)
SamplesVerified(r) == scoredBy[r].cells = corpus.cells

(* There is one for every cell, and the repositories are those of the corpus.*)
BoundToCorpus(result) ==
    result.count = Len(opts[result.run].cells) /\ SamplesVerified(result.run)

(* The results are complete, and of the corpus as it lies there.             *)
ReadResults ==
    /\ fin = None /\ final = None
    /\ results # None
    /\ results.end = None
    /\ results.corpus = corpus
    /\ BoundToCorpus(results)
    /\ Recommended(results) # None
    /\ fin' = [source |-> results, manifest |-> None, ratings |-> None]
    /\ UNCHANGED <<opts, done, stage, scoredBy, corpus, results, shelf, manifest, ratings, final, edits>>

(* They are exactly the valid samples of that effort, each of its sample and *)
(* enough of them of every case.                                             *)
ReviewsCover(m, result) ==
    LET cells == opts[result.run].cells
        selected == {i \in OfEffort(cells, result, Recommended(result)) : Valid(done[result.run][i])}
    IN /\ m.run = result.run
       /\ Cardinality(SelectedReviews(m, result)) = Cardinality(selected)
       /\ \A c \in DOMAIN Cases :
             Cardinality({cells[i].repetition : i \in {j \in selected : cells[j].case = c}})
                 >= ReviewRepetitions

Reviews(m) == DOMAIN Reviewable(done[m.run], opts[m.run].cells)

(* Every review of a manifest is as it was written.                          *)
(* Mutant: only that it is there.                                            *)
UntouchedPresent(m) == Reviews(m) \subseteq DOMAIN shelf
Untouched(m) == \A n \in Reviews(m) : n \in DOMAIN shelf /\ shelf[n] = m.run

(* The manifest is of these results and every review is as it was written.   *)
ReadReviews ==
    /\ fin # None
    /\ fin.manifest = None
    /\ manifest # None
    /\ manifest.complete
    /\ manifest.source = fin.source
    /\ Untouched(manifest)
    /\ ReviewsCover(manifest, fin.source)
    /\ fin' = [fin EXCEPT !.manifest = manifest]
    /\ UNCHANGED <<opts, done, stage, scoredBy, corpus, results, shelf, manifest, ratings, final, edits>>

(* The ratings name this manifest, and every one of at least two reviewers   *)
(* has rated exactly the selected reviews.                                   *)
RatingsBind(m) == ratings.manifest = m

ReadRatings ==
    /\ fin # None
    /\ fin.manifest # None
    /\ fin.ratings = None
    /\ ratings # None
    /\ RatingsBind(fin.manifest)
    /\ ratings.reviewers >= 2
    /\ DOMAIN ratings.seen = SelectedReviews(fin.manifest, fin.source)
    /\ fin' = [fin EXCEPT !.ratings = ratings]
    /\ UNCHANGED <<opts, done, stage, scoredBy, corpus, results, shelf, manifest, ratings, final, edits>>

(* What decision.md tells of a result.                                       *)
Rendered(result) ==
    [recommendation |-> Recommendation(result, FALSE), effort |-> Recommended(result),
     end |-> result.end,
     kinds |-> [k \in {"good"} \cup Flaws |->
                   Cardinality({i \in 1 .. result.count : done[result.run][i] = k})]]

(* The decision beside the results must be the one that they render, and the *)
(* pair is written.                                                          *)
WriteFinal ==
    /\ fin # None
    /\ fin.ratings # None
    /\ Rendered(results) = Rendered(fin.source)
    /\ final' = [source |-> fin.source, manifest |-> fin.manifest, ratings |-> fin.ratings,
                 recommendation |-> Recommendation(fin.source, fin.ratings.passes)]
    /\ fin' = None
    /\ UNCHANGED <<opts, done, stage, scoredBy, corpus, results, shelf, manifest, ratings, edits>>

GiveUp ==
    /\ fin # None
    /\ fin' = None
    /\ UNCHANGED <<opts, done, stage, scoredBy, corpus, results, shelf, manifest, ratings, final, edits>>

(* A provider that fails again is one flaw with its first failure.           *)
FlawCount == Cardinality({x \in UNION {{r} \X DOMAIN done[r] : r \in Runs} :
                             LET kinds == done[x[1]]
                                 i == x[2]
                             IN /\ kinds[i] # "good"
                                /\ ~(i > 1 /\ kinds[i] = "provider" /\ kinds[i - 1] = "provider")})
Again(r, kind) == kind = "provider" /\ done[r] # <<>> /\ Last(done[r]) = "provider"

Next ==
    \/ \E r \in Runs :
          \/ Start(r) \/ Preflight(r) \/ WriteTerminal(r) \/ WriteManifest(r) \/ Die(r)
          \/ Measure(r, "good")
          \/ \E kind \in Flaws : (FlawCount < MaxFlaws \/ Again(r, kind)) /\ Measure(r, kind)
    \/ EditCorpus \/ EditShelf \/ Rate
    \/ ReadResults \/ ReadReviews \/ ReadRatings \/ WriteFinal \/ GiveUp

Spec == Init /\ [][Next]_vars

-----------------------------------------------------------------------------
(* Results that say that they are complete have every cell of their matrix,  *)
(* and no sample that should have ended the run                              *)
(* (xtask/src/advisor_benchmark/run/orchestration.rs:370).                   *)
CompleteIsWhole ==
    (results # None /\ results.end = None) =>
        /\ results.count = Len(opts[results.run].cells)
        /\ \A i \in 1 .. results.count :
              /\ done[results.run][i] \notin {"identity", "guard"}
              /\ i > 1 => ~(done[results.run][i - 1] = "provider" /\ done[results.run][i] = "provider")

(* Whatever runs shared a directory and whatever people edited meanwhile: a  *)
(* finalized "ship" is of one complete release matrix, scored by the cells   *)
(* of the corpus that it names, whose every valid sample of the recommended  *)
(* effort lay, untouched, before two reviewers, and who rated nothing else   *)
(* (finalization.rs:158, review.rs:320).                                     *)
ShipIsReviewed ==
    (final # None /\ final.recommendation = "ship") =>
        LET source == final.source
            cells == opts[source.run].cells
            order == Reviewable(done[source.run], cells)
            seen == final.ratings.seen
            effort == Recommended(source)
        IN /\ ReleaseMatrix(opts[source.run])
           /\ source.count = Len(cells)
           /\ scoredBy[source.run].cells = source.corpus.cells
           /\ final.ratings.reviewers >= 2 /\ final.ratings.passes
           /\ \A n \in DOMAIN order : cells[order[n]].effort = effort => n \in DOMAIN seen
           /\ \A n \in DOMAIN seen :
                 /\ seen[n] = source.run
                 /\ cells[order[n]].effort = effort
=============================================================================
