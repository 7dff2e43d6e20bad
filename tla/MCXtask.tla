------------------------------- MODULE MCXtask -------------------------------
(* The modules about the maintenance commands of xtask and the workflows     *)
(* around them, for TLC: one of them is at work in a behaviour.              *)
(* Remediation, ExecutionState and BenchmarkPair are taken as they are, the  *)
(* others as instances.                                                      *)
EXTENDS Remediation, ExecutionState, BenchmarkPair, TLC

CONSTANTS w1, w2, w3,
          MaxPublishes, MaxReruns, MaxReleases, MaxHands,
          MaxInvocations, ReleaseRepetitions, ReviewRepetitions, Structured, Accuracy, Peak,
          MaxFlaws, MaxEdits, Project, FirstMain, Cases, Efforts, Options, Hosts

ASSUME PatchesAssumption == ConstantTypes
ASSUME PlansAssumption == ExecutionTypes

VARIABLES work,
          main, crate, tag, releases, publishes, reruns, hands, verified, homebrew, scoop,
          opts, done, stage, scoredBy, corpus, results, shelf, manifest, ratings, fin, final, edits

(* The project of a version before its release: first with a date that is    *)
(* none, then undated, then as it can be released, then with a release note  *)
(* too few.                                                                  *)
ProjectWith(month, numbers) ==
    [version |-> "this", dated |-> month > 0, date |-> [month |-> month, day |-> 4], linked |-> TRUE,
     notes |-> [heading |-> TRUE, declared |-> 2, numbers |-> numbers]]
FourCommits == << ProjectWith(13, <<1, 2>>), ProjectWith(0, <<1, 2>>),
                  ProjectWith(7, <<1, 2>>), ProjectWith(7, <<1, 3>>) >>

(* One case of five candidates, and two machines: the second lacks a little *)
(* of the memory.                                                            *)
TwoHosts == {[physical |-> 32, available |-> a, swap |-> 0] : a \in {24, 23}}
TwoOptions == {[full |-> TRUE, repetitions |-> 2, review |-> TRUE],
               [full |-> FALSE, repetitions |-> 1, review |-> FALSE]}

OneCase == <<5>>
TwoEfforts == <<"low", "medium">>

Release == INSTANCE ReleasePublication
Benchmark == INSTANCE BenchmarkRun

ASSUME ProjectAssumption == Len(Project) \in Nat /\ FirstMain \in 1 .. Len(Project)
(* What stands for nothing is no number, no crate, and no reason for a run of *)
(* the benchmark to end.                                                      *)
ASSUME NothingAssumption ==
    /\ None \notin Nat
    /\ None \notin {"resource_guard", "provider_model_mismatch", "benchmark_checkpoint",
                    "consecutive_provider_runtime_failures", "prepare_only"}
    /\ \A bytes \in Release!Crates, yanked \in BOOLEAN, by \in {"workflow", "people"} :
          [bytes |-> bytes, yanked |-> yanked, by |-> by] # None

releaseVars == <<main, crate, tag, releases, publishes, reruns, hands, verified, homebrew, scoop>>
benchmarkVars == <<opts, done, stage, scoredBy, corpus, results, shelf, manifest, ratings,
                  fin, final, edits>>
xtaskVars == <<work, vars, executionVars, pairVars, releaseVars, benchmarkVars>>

(* What may start in several ways starts in one where it is not at work.     *)
XtaskInit == /\ work \in {"dependencies", "execution", "pair", "release", "benchmark"}
             /\ Init /\ ExecutionInit /\ PairInit /\ Release!Init
             /\ Benchmark!Init
             /\ work # "dependencies" => event = CHOOSE e \in EventIdentities : TRUE
             /\ work # "pair" => dest = [m \in Members |-> Absent]

XtaskNext == \/ /\ work = "dependencies" /\ Next
                /\ UNCHANGED <<work, executionVars, pairVars, releaseVars, benchmarkVars>>
             \/ /\ work = "execution" /\ ExecutionNext
                /\ UNCHANGED <<work, vars, pairVars, releaseVars, benchmarkVars>>
             \/ /\ work = "pair" /\ PairNext
                /\ UNCHANGED <<work, vars, executionVars, releaseVars, benchmarkVars>>
             \/ /\ work = "release" /\ Release!Next
                /\ UNCHANGED <<work, vars, executionVars, pairVars, benchmarkVars>>
             \/ /\ work = "benchmark" /\ Benchmark!Next
                /\ UNCHANGED <<work, vars, executionVars, pairVars, releaseVars>>

XtaskSpec == XtaskInit /\ [][XtaskNext]_xtaskVars

(* The parts that are not at work stay as they started: the properties of    *)
(* the modules that are extended hold there, and those of the instances are  *)
(* asked of the one at work.                                                 *)

(* See ReleasePublication: the receivers are told of one exact commit, the   *)
(* files of a release are of one build, and its status is told as it is.     *)
ReleaseExact ==
    work = "release" => /\ Release!ScoopGetsWhole
                        /\ Release!HomebrewGetsExact
                        /\ Release!StatusSound

(* See BenchmarkRun: results called complete are of the whole matrix, and a  *)
(* decision to ship is of one such run, all of whose answers that count two  *)
(* reviewers have seen as they were.                                         *)
BenchmarkHonest ==
    work = "benchmark" => Benchmark!CompleteIsWhole /\ Benchmark!ShipIsReviewed
==============================================================================
