---------------------------- MODULE ExecutionState ----------------------------
(***************************************************************************)
(* The Execution State Sync workflow: `prepare` runs preview a plan and hand *)
(* it off, `apply` runs carry out the plan an operator has approved           *)
(* (.github/workflows/execution_state_sync.yml, xtask/src/execution_state).   *)
(*                                                                            *)
(* Runs queue in one concurrency group, so one job is active at a time; but   *)
(* operators dispatch and re-run as they like, with any selectors, the runner *)
(* may be lost at every step, and artifacts expire.  What gh-steward and the  *)
(* forge do is external: `runs recover` answers from the uploaded packages    *)
(* and from whether the mutating step of an earlier job has started.          *)
(***************************************************************************)
EXTENDS Naturals, Sequences, FiniteSets, SequencesExt

CONSTANTS Plans,        \* execution plans, by their semantic digest
          Ops,          \* the operations of a plan
          Nil,
          MaxRuns,      \* dispatched runs
          MaxJobs   \* attempts of all the runs together

ExecutionTypes == /\ MaxRuns \in Nat
                 /\ Nil \notin Plans /\ \A done \in SUBSET Ops : done # Nil

VARIABLES runs,      \* the runs, in the order of their dispatch
          job,       \* the running job; Nil between jobs
          handoffs,  \* uploaded preview handoffs
          packages,  \* uploaded recovery packages, oldest first
          mutators,  \* jobs whose mutating step has started, oldest first
          applied,   \* how often each operation of each plan was carried out
          uncaptured \* history: how often that was left out of an uploaded journal

executionVars == <<runs, job, handoffs, packages, mutators, applied, uncaptured>>

RunIds == DOMAIN runs

(* The inputs of a dispatch: pr_number and issue_number, plan_run_id and    *)
(* approve_plan_sha may be given or left empty, whatever the operation.     *)
Inputs == [op : {"prepare", "apply"}, selectors : SUBSET {"pr", "issue"},
           planRun : 1 .. MaxRuns \cup {0}, approve : Plans \cup {Nil}]

(* `validate_dispatch_inputs` and the target selection of `prepare-target`. *)
ValidPrepare(in) == /\ in.op = "prepare" /\ Cardinality(in.selectors) = 1
                    /\ in.planRun = 0 /\ in.approve = Nil

(* `validate_apply`: the key of the recovery stream is that of the plan.    *)
ValidApply(in) == /\ in.op = "apply" /\ in.selectors = {}
                  /\ in.planRun # 0 /\ in.approve # Nil

ExecutionInit ==
    /\ runs = <<>> /\ job = Nil
    /\ handoffs = {} /\ packages = <<>> /\ mutators = <<>>
    /\ applied = [p \in Plans |-> [o \in Ops |-> 0]]
    /\ uncaptured = applied

(***************************************************************************)
(* Dispatches, and how a job begins and ends.                               *)
(***************************************************************************)
NewJob(r, attempt, in) ==
    [run |-> r, attempt |-> attempt, in |-> in,
     step |-> IF ValidPrepare(in) THEN "preview" ELSE "recover",
     pkg |-> Nil, journal |-> Nil, result |-> Nil]

(* A run with inputs that do not fit fails before it does anything, and is  *)
(* left out here, as is an approval of a run that is not there yet.         *)
Dispatch ==
    /\ job = Nil /\ Len(runs) < MaxRuns
    /\ \E in \in Inputs :
          /\ ValidPrepare(in) \/ (ValidApply(in) /\ in.planRun \in RunIds)
          /\ runs' = Append(runs, [in |-> in, attempt |-> 1, conclusion |-> Nil])
          /\ job' = NewJob(Len(runs) + 1, 1, in)
    /\ UNCHANGED <<handoffs, packages, mutators, applied, uncaptured>>

RerunAttempt ==
    /\ job = Nil
    /\ \E r \in RunIds :
          /\ FoldSeq(LAMBDA run, sum : sum + run.attempt, 0, runs) < MaxJobs
          /\ runs' = [runs EXCEPT ![r] =
                       [in |-> @.in, attempt |-> @.attempt + 1, conclusion |-> Nil]]
          /\ job' = NewJob(r, runs[r].attempt + 1, runs[r].in)
    /\ UNCHANGED <<handoffs, packages, mutators, applied, uncaptured>>

Conclude(conclusion) ==
    /\ runs' = [runs EXCEPT ![job.run].conclusion = conclusion]
    /\ job' = Nil

AtStep(step) == job # Nil /\ job.step = step

(* The runner is lost, or a step fails that nothing always runs after: what *)
(* was not uploaded is gone.                                                *)
JobLost ==
    /\ job # Nil
    /\ Conclude("failure")
    /\ UNCHANGED <<handoffs, packages, mutators, applied, uncaptured>>

(* Artifacts are kept 14 or 90 days. A bound: none expires under a job.      *)
Expire ==
    /\ job = Nil
    /\ \/ /\ \E h \in handoffs : handoffs' = handoffs \ {h}
          /\ UNCHANGED packages
       \/ /\ \E i \in DOMAIN packages :
                packages' = RemoveAt(packages, i)
          /\ UNCHANGED handoffs
    /\ UNCHANGED <<runs, job, mutators, applied, uncaptured>>

(***************************************************************************)
(* The prepare job.                                                         *)
(***************************************************************************)
(* The selector and the preview give a plan, `prepare-noop` binds it to the *)
(* run, the attempt and the event as preview-only, and the package is       *)
(* uploaded as a handoff under the name of the attempt.  Where gh-steward   *)
(* first finds an unfinished history the job fails, as in JobLost.          *)
Preview ==
    /\ AtStep("preview")
    /\ \E p \in Plans :
          handoffs' = handoffs \cup {[run |-> job.run, attempt |-> job.attempt, plan |-> p,
                                      decision |-> [run |-> job.run, attempt |-> job.attempt, plan |-> p]]}
    /\ job' = [job EXCEPT !.step = "checkpoint"]
    /\ UNCHANGED <<runs, packages, mutators, applied, uncaptured>>

(* A checkpoint that fails leaves the handoff and fails the run (JobLost).  *)
Checkpoint ==
    /\ AtStep("checkpoint")
    /\ Conclude("success")
    /\ UNCHANGED <<handoffs, packages, mutators, applied, uncaptured>>

(***************************************************************************)
(* The apply job: recovery.                                                 *)
(***************************************************************************)
Approved == job.in.approve

(* The place of the newest entry of the approved plan, 0 when it has none.   *)
Newest(s) == LET hits == {i \in DOMAIN s : s[i].plan = Approved}
           IN IF hits = {} THEN 0 ELSE CHOOSE i \in hits : \A j \in hits : j <= i

(* The package of the newest job of the plan whose mutating step started is *)
(* not there.                                                               *)
PackageMissing ==
    LET m == Newest(mutators)
    IN m # 0 /\ \A i \in DOMAIN packages : packages[i].from # mutators[m]

(* `runs recover` with the key of the plan: that package decides; when it   *)
(* is missing, recovery is needed from a person, never a fresh start.       *)
Outcome ==
    LET k == Newest(packages)
    IN IF PackageMissing THEN "recovery_needed"
       ELSE IF k = 0 THEN "fresh"
       ELSE IF packages[k].settled THEN "terminal"
       ELSE "resumed"

Recover ==
    /\ AtStep("recover")
    /\ \/ /\ Outcome = "recovery_needed"
          /\ Conclude("failure")
       \/ /\ Outcome = "terminal"
          /\ Conclude("success")
       \/ /\ Outcome = "fresh"
          /\ job' = [job EXCEPT !.step = "source"]
          /\ UNCHANGED runs
       \/ /\ Outcome = "resumed"
          /\ job' = [job EXCEPT !.step = "resume",
                                !.pkg = packages[Newest(packages)].pkg]
          /\ UNCHANGED runs
    /\ UNCHANGED <<handoffs, packages, mutators, applied, uncaptured>>

(***************************************************************************)
(* The apply job: a fresh start from the reviewed preview.                  *)
(***************************************************************************)
(* `SelectHandoff` and `validate_run_identity`: the selected run is a       *)
(* successful one of this workflow, and its latest attempt has left one     *)
(* handoff that has not expired.                                            *)
Selected == {h \in handoffs : h.run = job.in.planRun /\ h.attempt = runs[h.run].attempt}
Selectable == /\ job.in.planRun \in RunIds
              /\ runs[job.in.planRun].conclusion = "success"
              /\ Cardinality(Selected) = 1

(* `PrepareApply`: the source package is a preview of that run and attempt, *)
(* and its plan is the approved one.                                        *)
SourceMatches(h) ==
    /\ h.decision.run = h.run /\ h.decision.attempt = h.attempt
    /\ h.decision.plan = h.plan
    /\ h.plan = Approved

(* The review names the plan, the run it was reviewed in, and the event of  *)
(* this dispatch; it and the plan are registered in a new context.          *)
RegisterReviewed ==
    /\ AtStep("source")
    /\ Selectable
    /\ \E h \in Selected :
          /\ SourceMatches(h)
          /\ job' = [job EXCEPT !.step = "mark",
                       !.pkg = [plan |-> h.plan, phase |-> "prepared", journal |-> Nil,
                                review |-> [plan |-> Approved, planRun |-> job.in.planRun,
                                            run |-> job.run, attempt |-> job.attempt]]]
    /\ UNCHANGED <<runs, handoffs, packages, mutators, applied, uncaptured>>

(* Anything else fails the job before it has registered anything.           *)
RefuseSource ==
    /\ AtStep("source")
    /\ ~ (Selectable /\ \A h \in Selected : SourceMatches(h))
    /\ Conclude("failure")
    /\ UNCHANGED <<handoffs, packages, mutators, applied, uncaptured>>

(***************************************************************************)
(* The apply job: a resumed start, `CheckResumedApply`.                     *)
(***************************************************************************)
(* Mutant: only the plan is compared with the new selectors, not the run it *)
(* was reviewed in.                                                         *)
AuthorizationOfPlan(pkg) == pkg.review.plan = Approved

AuthorizationMatches(pkg) ==
    /\ pkg.review.planRun = job.in.planRun
    /\ pkg.review.plan = Approved
    /\ pkg.plan = Approved

(* Mutant: a saved journal is not installed.                                *)
JournalActionSkip(pkg) == "skip"

(* A prepared plan has no journal yet; a plan that was dispatching must     *)
(* have one, which is installed before the apply goes on.                   *)
JournalAction(pkg) ==
    CASE pkg.phase = "prepared" /\ pkg.journal = Nil -> "skip"
      [] pkg.phase = "dispatching" /\ pkg.journal # Nil -> "install"
      [] OTHER -> "refuse"

CheckResumed ==
    /\ AtStep("resume")
    /\ JournalAction(job.pkg) # "refuse" /\ AuthorizationMatches(job.pkg)
    /\ job' = [job EXCEPT !.step = "mark",
                 !.journal = IF JournalAction(job.pkg) = "install" THEN job.pkg.journal ELSE Nil]
    /\ UNCHANGED <<runs, handoffs, packages, mutators, applied, uncaptured>>

(* Selectors that do not match, or a package that is not in order: it is    *)
(* kept outside the recovery stream and the job fails.                      *)
RejectResumed ==
    /\ AtStep("resume")
    /\ ~ (JournalAction(job.pkg) # "refuse" /\ AuthorizationMatches(job.pkg))
    /\ Conclude("failure")
    /\ UNCHANGED <<handoffs, packages, mutators, applied, uncaptured>>

(***************************************************************************)
(* The apply job: the plan is carried out and its package is retained.      *)
(***************************************************************************)
(* When marking fails, the prepared package is uploaded as it is.           *)
MarkDispatching ==
    /\ AtStep("mark")
    /\ job' \in {[job EXCEPT !.step = "apply", !.pkg.phase = "dispatching"],
                 [job EXCEPT !.step = "upload"]}
    /\ UNCHANGED <<runs, handoffs, packages, mutators, applied, uncaptured>>

From == [run |-> job.run, attempt |-> job.attempt, plan |-> Approved]

(* The mutating step starts: from here on its name is in the forge's record *)
(* of the job (`dispatch_steps`).                                           *)
StartApply ==
    /\ AtStep("apply") /\ From \notin {mutators[i] : i \in DOMAIN mutators}
    /\ mutators' = Append(mutators, From)
    /\ UNCHANGED <<runs, job, handoffs, packages, applied, uncaptured>>

Journaled == IF job.journal = Nil THEN {} ELSE job.journal
ApplyStarted == \E i \in DOMAIN mutators : mutators[i] = From

(* gh-steward carries out the operations its journal does not hold.         *)
ApplyOperation ==
    /\ AtStep("apply") /\ ApplyStarted
    /\ \E o \in Ops \ Journaled :
          /\ applied' = [applied EXCEPT ![job.pkg.plan][o] = @ + 1]
          /\ job' = [job EXCEPT !.journal = Journaled \cup {o}]
    /\ UNCHANGED <<runs, handoffs, packages, mutators, uncaptured>>

(* The apply succeeds when all is done, or fails anywhere; the workflow     *)
(* goes on (`continue-on-error`).                                           *)
EndApply ==
    /\ AtStep("apply") /\ ApplyStarted
    /\ \E result \in {"success", "failure"} :
          /\ result = "success" => Journaled = Ops
          /\ job' = [job EXCEPT !.step = "capture", !.result = result]
    /\ UNCHANGED <<runs, handoffs, packages, mutators, applied, uncaptured>>

Completed(result) == result = "success"

CaptureJournal ==
    /\ AtStep("capture")
    /\ job' = [job EXCEPT !.step = "upload",
                 !.pkg.journal = IF job.journal = Nil THEN @ ELSE job.journal,
                 !.pkg.phase = IF Completed(job.result) THEN "completed" ELSE @]
    /\ UNCHANGED <<runs, handoffs, packages, mutators, applied, uncaptured>>

(* The step fails: the journal is not captured, or it is but the plan is not *)
(* marked as completed.  What a resumed job did beyond the journal it was    *)
(* restored with is then in no package; a package without any journal will   *)
(* be refused (JournalAction).                                               *)
FailCapture ==
    /\ AtStep("capture")
    /\ \/ /\ job' = [job EXCEPT !.step = "upload"]
          /\ uncaptured' = [uncaptured EXCEPT ![Approved] = [o \in Ops |->
                IF job.pkg.journal # Nil /\ o \in Journaled \ job.pkg.journal
                THEN @[o] + 1 ELSE @[o]]]
       \/ /\ job.journal # Nil /\ Completed(job.result)
          /\ job' = [job EXCEPT !.step = "upload", !.pkg.journal = job.journal]
          /\ UNCHANGED uncaptured
    /\ UNCHANGED <<runs, handoffs, packages, mutators, applied>>

(* The package is uploaded whatever failed before, its checkpoint after it;  *)
(* the run succeeds when every step has.                                     *)
UploadPackage ==
    /\ AtStep("upload")
    /\ \E finalized \in BOOLEAN :
          LET settled == finalized /\ job.pkg.phase = "completed"
          IN /\ packages' = Append(packages, [plan |-> Approved, from |-> From,
                                             pkg |-> job.pkg, settled |-> settled])
             /\ Conclude(IF settled THEN "success" ELSE "failure")
    /\ UNCHANGED <<handoffs, mutators, applied, uncaptured>>

ExecutionNext == \/ Dispatch \/ RerunAttempt \/ JobLost \/ Expire
        \/ Preview \/ Checkpoint
        \/ Recover \/ RegisterReviewed \/ RefuseSource \/ CheckResumed \/ RejectResumed
        \/ MarkDispatching \/ StartApply \/ ApplyOperation \/ EndApply
        \/ CaptureJournal \/ FailCapture \/ UploadPackage

ExecutionSpec == ExecutionInit /\ [][ExecutionNext]_executionVars

(***************************************************************************)
(* Properties                                                               *)
(***************************************************************************)
(* An operation is carried out only for an operator whose dispatch of this  *)
(* very job approves that plan and names the run it was reviewed in, also   *)
(* when the package of an earlier dispatch is resumed.                      *)
OnlyApprovedApplied ==
    [][\A p \in Plans : applied'[p] # applied[p] =>
          /\ runs[job.run].in.approve = p
          /\ runs[job.run].in.planRun = job.pkg.review.planRun
          /\ runs[job.pkg.review.run].in.approve = p]_executionVars

(* However often runs are lost, re-run, dispatched again and resumed, an     *)
(* operation of a plan is carried out again only when a resumed job could    *)
(* not capture its journal after it did: once at most for each such failure. *)
AppliedAsCaptured == \A p \in Plans, o \in Ops : applied[p][o] <= 1 + uncaptured[p][o]

(* A settled package, which ends all work on its plan, means that every      *)
(* operation of the plan was carried out.                                    *)
SettledIsApplied ==
    \A i \in DOMAIN packages : packages[i].settled =>
        \A o \in Ops : applied[packages[i].plan][o] >= 1

(* Both, for the work on a plan.                                             *)
PlansApplied == AppliedAsCaptured /\ SettledIsApplied
==============================================================================
