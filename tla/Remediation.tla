----------------------------- MODULE Remediation -----------------------------
(***************************************************************************)
(* The dependency-remediation workflow (xtask/src/dependency_remediation):  *)
(* the evidence handed from job to job until a patch is a tested candidate, *)
(* and the publisher that moves a branch and opens or updates a pull        *)
(* request.  The branches, the pull requests, the test suites and the       *)
(* proposal are the world's; other people push, edit and close meanwhile.   *)
(*                                                                          *)
(* The command `publish` of this commit refuses every action                *)
(* (publisher.rs `reject_deferred_publication`): RunEnabled is FALSE there. *)
(* The publisher behind it, `run_enabled`, is modelled with RunEnabled TRUE.*)
(***************************************************************************)
EXTENDS Naturals, Sequences

CONSTANTS Patches,      \* the patches a proposal may hold
          None,
          RunEnabled,   \* whether `publish` reaches `run_enabled`
          MaxAttempts,  \* attempts of the workflow run
          MaxMoves,     \* steps of other people on branches and requests
          MaxCrashes    \* interruptions of the publisher

(* A commit of others is a number without patch; the commit of the          *)
(* publisher is determined by its parent and the patch.                     *)
Commits == [n : 0 .. MaxMoves + 1, patch : Patches \cup {None}]
Foreign(i) == [n |-> i, patch |-> None]

Modes == {"update-existing-pr", "create-pr"}
Stages == {"push-pending", "pr-pending", "pr-verify-pending", "completed"}

(* The requests, and the files `prepare` writes about them.                 *)
Requests == [num : Nat, author : {"dependabot", "publisher", "someone"},
             title : {"saved", "edited"}, open : BOOLEAN]
Intents == [mode : Modes, src : Commits, base : Commits, old : Commits \cup {None},
            new : Commits, target : Requests \cup {None}, attempt : Nat]
Publications == [intent : Intents, stage : Stages]

ConstantTypes == /\ MaxMoves \in Nat /\ None \notin Patches
                 /\ None \notin Commits /\ None \notin Publications

VARIABLES event,    \* the event that started the run: mode, source and base commit
          attempt,  \* the attempt of the run
          art,      \* the artifacts: capture, proposal, tests, candidate
          tested,   \* <<commit, patch>> the test suites have passed on
          refs,     \* the remote branches: base and head
          prs,      \* the pull requests between these two branches
          pkg,      \* the durable publication package
          pub,      \* what the running publisher has still to do; None: not running
          moves, crashes,
          count     \* mutations made and undone: for the properties

vars == <<event, attempt, art, tested, refs, prs, pkg, pub, moves, crashes, count>>

Update == event.mode = "update-existing-pr"
OpenPr(num, author) == [num |-> num, author |-> author, title |-> "saved", open |-> TRUE]
NewNumber == moves + count.created + 2
NoArtifacts == [capture |-> None, proposal |-> None, tests |-> None, candidate |-> None,
                decision |-> None]
NoPackage == [cand |-> None, intent |-> None, publication |-> None,
              pushAck |-> None, prAck |-> None, verifyAck |-> None, result |-> None]

(* source.rs `capture_record`: a pull request has a source and a base, a    *)
(* schedule or a dispatch one commit for both.                              *)
EventIdentities ==
    {e \in [mode : Modes, src : {Foreign(0)}, base : {Foreign(0), Foreign(1)}] :
        e.mode = "create-pr" => e.base = e.src}

Init ==
    /\ event \in EventIdentities
    /\ attempt = 1
    /\ art = NoArtifacts
    /\ tested = {}
    /\ refs = [base |-> event.base, head |-> IF Update THEN event.src ELSE None]
    /\ prs = IF Update THEN {OpenPr(1, "dependabot")} ELSE {}
    /\ pkg = NoPackage
    /\ pub = None
    /\ moves = 0 /\ crashes = 0
    /\ count = [pushes |-> 0, undone |-> 0, created |-> 0, closed |-> 0]

(***************************************************************************)
(* The jobs.  A job that fails leaves nothing: it is the absence of a step. *)
(***************************************************************************)
Job(name, value) == /\ art[name] = None
                    /\ art' = [art EXCEPT ![name] = value]
                    /\ UNCHANGED <<event, attempt, refs, prs, pkg, pub, moves, crashes, count>>

(* source.rs `capture` binds the identities of the event, `verify_source`   *)
(* runs the suites on the exact source in the same job.                     *)
CaptureSource ==
    /\ Job("capture", [src |-> event.src, base |-> event.base, attempt |-> attempt])
    /\ tested' = tested \cup {<<event.src, None>>}

(* The proposal job lets Codex work beside the capture, then copies what it *)
(* finds: the copied identity may have been changed.  No patch: `noop`.     *)
CollectProposal ==
    /\ art.capture # None
    /\ \E patch \in Patches \cup {None}, src \in {art.capture.src, Foreign(MaxMoves + 1)} :
          Job("proposal", [src |-> src, patch |-> patch, attempt |-> attempt])
    /\ UNCHANGED tested

(* `validate_candidate_inputs`: the copies are the capture's own, the event *)
(* is the current one, and the proposal is a patch.                         *)
InputsMatch ==
    /\ art.capture # None /\ art.proposal # None
    /\ art.proposal.src = art.capture.src
    /\ art.capture.src = event.src /\ art.capture.base = event.base
    /\ art.proposal.patch # None

(* candidate.rs `apply` stages the patch on the exact source and records    *)
(* the tree.                                                                *)
AppliedTree == <<art.capture.src, art.proposal.patch>>

(* `verify` after the suites: tests that touched the tree fail the job.     *)
TreeUntouched(after) == after = AppliedTree

TestCandidate ==
    /\ InputsMatch
    /\ \E after \in {AppliedTree, <<art.capture.src, None>>} :
          /\ TreeUntouched(after)
          /\ Job("tests", after)
          /\ tested' = tested \cup {after}

(* The verification job applies the proposal to a fresh checkout and binds  *)
(* tree, source, attempt and the two upstream artifacts, whose names carry  *)
(* the attempt that made them (`create_evidence`, `candidate_record`).      *)
CreateEvidence ==
    /\ InputsMatch
    /\ art.tests # None
    /\ Job("candidate", [src |-> art.capture.src, base |-> art.capture.base,
                         tree |-> AppliedTree, patch |-> art.proposal.patch,
                         attempt |-> attempt,
                         upstream |-> {art.capture.attempt, art.proposal.attempt}])
    /\ UNCHANGED tested

(* noop.rs: the decision that nothing is published, bound to the event and  *)
(* the captured source; either Codex found nothing to change, or the tested *)
(* proposal cannot be published by this release.                            *)
SettleNoop ==
    /\ art.capture # None /\ art.proposal # None
    /\ art.proposal.patch = None \/ art.candidate # None
    /\ Job("decision", [src |-> art.capture.src, base |-> art.capture.base, attempt |-> attempt,
                        reason |-> IF art.proposal.patch = None THEN "no-change"
                                   ELSE "prerequisite-unavailable"])
    /\ UNCHANGED tested

(* A new attempt: all jobs again, or only those that failed, with the       *)
(* artifacts of the others.                                                 *)
Rerun ==
    /\ attempt < MaxAttempts /\ pub = None
    /\ attempt' = attempt + 1
    /\ art' \in {NoArtifacts,
                [art EXCEPT !.candidate = None, !.decision = None],
                [art EXCEPT !.tests = None, !.candidate = None, !.decision = None]}
    /\ UNCHANGED <<event, tested, refs, prs, pkg, pub, moves, crashes, count>>

(***************************************************************************)
(* The publisher.                                                           *)
(***************************************************************************)
(* proof.rs `validate_candidate`: upstream names bound to the candidate's   *)
(* attempt; a live call also demands the current attempt and event.         *)
CandidateValid(live) ==
    /\ pkg.cand # None
    /\ pkg.cand.upstream = {pkg.cand.attempt}
    /\ live => /\ pkg.cand.attempt = attempt
               /\ pkg.cand.src = event.src /\ pkg.cand.base = event.base

(* `read_publication`: the context names this very intent, and the intent   *)
(* is that of the verified candidate.                                       *)
PublicationReadable ==
    /\ pkg.intent # None /\ pkg.publication # None
    /\ pkg.publication.intent = pkg.intent
    /\ CandidateValid(FALSE)
    /\ pkg.intent.src = pkg.cand.src /\ pkg.intent.base = pkg.cand.base
    /\ pkg.intent.attempt = pkg.cand.attempt

(* The deterministic commit (git.rs `recompute_commit`).                    *)
RecomputedCommit(cand) == [n |-> cand.src.n, patch |-> cand.patch]

(* What each stage does, in order: remote reads, then writes.               *)
PrepareSteps ==
    IF Update
    THEN <<"live-pr", "source-ref", "base-ref", "head-ref", "write-intent", "write-publication">>
    ELSE <<"source-ref", "base-ref", "head-ref", "write-intent", "write-publication">>

PushSteps ==
    IF Update THEN <<"base-ref", "lease", "saved-pr", "push", "write-push-ack", "stage">>
    ELSE <<"base-ref", "lease", "push", "write-push-ack", "stage">>

CreateSteps == <<"base-ref", "new-ref", "no-open-pr", "create", "write-pr-ack", "stage">>

VerifySteps == <<"verify", "write-verify-ack", "stage", "write-result">>

StageSteps == [s \in Stages |-> CASE s = "push-pending" -> PushSteps
                                  [] s = "pr-pending" -> CreateSteps
                                  [] s = "pr-verify-pending" -> VerifySteps
                                  [] s = "completed" -> <<>>]

Publishing(step) == pub # None /\ pub.todo # <<>> /\ Head(pub.todo) = step
Go(got) == pub' = [todo |-> Tail(pub.todo), got |-> got, loop |-> pub.loop]
Stop == pub' = None
PublisherOnly == UNCHANGED <<event, attempt, art, tested, moves, crashes>>

(* A package of the current candidate, with a context and no publication.   *)
AssemblePackage ==
    /\ pkg = NoPackage /\ art.candidate # None
    /\ pkg' = [pkg EXCEPT !.cand = art.candidate]
    /\ UNCHANGED <<event, attempt, art, tested, refs, prs, pub, moves, crashes, count>>

(* `run` refuses every action before it looks at the package.               *)
Reached == RunEnabled

(* `run_enabled` prepare: refused once the context holds a publication.     *)
StartPrepare ==
    /\ pub = None /\ Reached
    /\ pkg.publication = None /\ CandidateValid(TRUE)
    /\ pub' = [todo |-> PrepareSteps, got |-> None, loop |-> FALSE]
    /\ UNCHANGED <<refs, prs, pkg, count>> /\ PublisherOnly

(* `continue`: prepare when there is no intent, then stage by stage; the    *)
(* single actions run one stage.                                            *)
StartContinue ==
    /\ pub = None /\ Reached
    /\ \/ /\ pkg.intent = None /\ pkg.publication = None /\ CandidateValid(TRUE)
          /\ pub' = [todo |-> PrepareSteps, got |-> None, loop |-> TRUE]
       \/ /\ PublicationReadable
          /\ \E loop \in BOOLEAN :
                pub' = [todo |-> StageSteps[pkg.publication.stage], got |-> None, loop |-> loop]
    /\ UNCHANGED <<refs, prs, pkg, count>> /\ PublisherOnly

NextStage ==
    /\ pub # None /\ pub.todo = <<>>
    /\ IF pub.loop /\ PublicationReadable /\ pkg.publication.stage # "completed"
       THEN pub' = [todo |-> StageSteps[pkg.publication.stage], got |-> None, loop |-> TRUE]
       ELSE Stop
    /\ UNCHANGED <<refs, prs, pkg, count>> /\ PublisherOnly

(* The pull request the run is about: the event's, or the one created.      *)
Target == CHOOSE p \in prs : p.num = 1

(* Mutant: the expected old commit is not compared.                         *)
LeaseDropped == TRUE

(* push.rs: the branch is where the intent expects it; absent when the      *)
(* intent creates it.                                                       *)
LeaseHolds == refs.head = pkg.intent.old

(* One remote read compared with what was captured or prepared; a           *)
(* difference ends the command.                                             *)
Holds(check) ==
    CASE check = "live-pr" -> /\ Target.open /\ refs.head = pkg.cand.src /\ refs.base = pkg.cand.base
      [] check = "saved-pr" -> /\ Target = pkg.intent.target /\ refs.head = pkg.intent.src
                               /\ refs.base = pkg.intent.base
      [] check = "source-ref" -> refs[IF Update THEN "head" ELSE "base"] = pkg.cand.src
      [] check = "base-ref" -> refs.base = pkg.cand.base
      [] check = "head-ref" -> refs.head = IF Update THEN pkg.cand.src ELSE None
      [] check = "lease" -> LeaseHolds
      [] check = "new-ref" -> refs.head = pkg.intent.new
      [] check = "no-open-pr" -> \A p \in prs : ~p.open

Checks == {"live-pr", "saved-pr", "source-ref", "base-ref", "head-ref", "lease",
           "new-ref", "no-open-pr"}

RemoteCheck ==
    \E check \in Checks :
       /\ Publishing(check)
       /\ IF Holds(check)
          THEN Go(IF check = "live-pr" THEN Target ELSE pub.got)
          ELSE Stop
       /\ UNCHANGED <<refs, prs, pkg, count>> /\ PublisherOnly

(* prepare.rs: the intent first, then the stage in the run context.  An     *)
(* interruption between the two leaves an intent no command accepts, and    *)
(* only another `prepare` of the same attempt replaces it.                  *)
WriteIntent ==
    /\ Publishing("write-intent")
    /\ pkg.cand.tree = <<pkg.cand.src, pkg.cand.patch>>
    /\ pkg' = [pkg EXCEPT !.intent =
                 [mode |-> event.mode, src |-> pkg.cand.src, base |-> pkg.cand.base,
                  old |-> IF Update THEN pkg.cand.src ELSE None,
                  new |-> RecomputedCommit(pkg.cand), target |-> pub.got,
                  attempt |-> pkg.cand.attempt]]
    /\ Go(None)
    /\ UNCHANGED <<refs, prs, count>> /\ PublisherOnly

WritePublication ==
    /\ Publishing("write-publication")
    /\ pkg' = [pkg EXCEPT !.publication = [intent |-> pkg.intent, stage |-> "push-pending"]]
    /\ Go(None)
    /\ UNCHANGED <<refs, prs, count>> /\ PublisherOnly

(* `git push --force-with-lease`: the server moves the branch only from the *)
(* leased value.  The answer may be lost; without it the command ends.      *)
PushBranch ==
    /\ Publishing("push")
    /\ IF LeaseHolds
       THEN /\ refs' = [refs EXCEPT !.head = pkg.intent.new]
            /\ count' = [count EXCEPT !.pushes = @ + 1]
            /\ Go(None) \/ Stop
       ELSE Stop /\ UNCHANGED <<refs, count>>
    /\ UNCHANGED <<prs, pkg>> /\ PublisherOnly

(* `gh pr create`, whose answer may be lost too.                            *)
CreatePr ==
    /\ Publishing("create")
    /\ IF refs.head # None /\ \A p \in prs : ~p.open
       THEN LET new == OpenPr(NewNumber, "publisher")
            IN  /\ prs' = prs \cup {new}
                /\ count' = [count EXCEPT !.created = @ + 1]
                /\ Go(new.num) \/ Stop
       ELSE Stop /\ UNCHANGED <<prs, count>>
    /\ UNCHANGED <<refs, pkg>> /\ PublisherOnly

(* Mutant: any open request of the branch is taken for the acknowledged one.*)
VerifyPrOfBranch ==
    /\ Publishing("verify")
    /\ IF refs.head = pkg.intent.new /\ \E p \in prs : p.open
       THEN \E p \in prs : p.open /\ Go(p.num)
       ELSE Stop
    /\ UNCHANGED <<refs, prs, pkg, count>> /\ PublisherOnly

(* The live request is the acknowledged one, open and at the new commit,    *)
(* with the author, title and state that were saved.                        *)
VerifyPr ==
    /\ Publishing("verify")
    /\ LET expected == IF Update THEN pkg.intent.target ELSE OpenPr(pkg.prAck.num, "publisher")
       IN  IF expected \in prs /\ refs.head = pkg.intent.new
           THEN Go(expected.num) ELSE Stop
    /\ UNCHANGED <<refs, prs, pkg, count>> /\ PublisherOnly

WriteReceipt ==
    /\ \/ /\ Publishing("write-push-ack")
          /\ pkg' = [pkg EXCEPT !.pushAck = [intent |-> pkg.intent]]
       \/ /\ Publishing("write-pr-ack")
          /\ pkg' = [pkg EXCEPT !.prAck = [intent |-> pkg.intent, num |-> pub.got]]
       \/ /\ Publishing("write-verify-ack")
          /\ pkg' = [pkg EXCEPT !.verifyAck = [intent |-> pkg.intent, num |-> pub.got]]
       \/ /\ Publishing("write-result")
          /\ pkg' = [pkg EXCEPT !.result = [intent |-> pkg.intent, num |-> pub.got]]
    /\ Go(pub.got)
    /\ UNCHANGED <<refs, prs, count>> /\ PublisherOnly

(* proof.rs `write_context`: the next stage.                                *)
StageAfter == [s \in Stages |->
    CASE s = "push-pending" -> IF Update THEN "pr-verify-pending" ELSE "pr-pending"
      [] s = "pr-pending" -> "pr-verify-pending"
      [] s \in {"pr-verify-pending", "completed"} -> "completed"]

WriteStage ==
    /\ Publishing("stage")
    /\ pkg' = [pkg EXCEPT !.publication = [intent |-> pkg.publication.intent,
                                          stage |-> StageAfter[pkg.publication.stage]]]
    /\ Go(pub.got)
    /\ UNCHANGED <<refs, prs, count>> /\ PublisherOnly

Crash ==
    /\ pub # None /\ crashes < MaxCrashes
    /\ crashes' = crashes + 1
    /\ Stop
    /\ UNCHANGED <<event, attempt, art, tested, refs, prs, pkg, moves, count>>

(***************************************************************************)
(* Other people.                                                            *)
(***************************************************************************)
OtherMove == /\ moves < MaxMoves
             /\ moves' = moves + 1
             /\ UNCHANGED <<event, attempt, art, tested, pkg, pub, crashes>>

(* A push or a forced push to a branch, or its deletion.  Putting the head  *)
(* back to what it was when the run started undoes the publisher's push.    *)
OthersMoveBranch ==
    /\ OtherMove
    /\ \/ \E r \in {"base", "head"} : refs' = [refs EXCEPT ![r] = Foreign(moves + 2)]
       \/ \E old \in {event.src, None} : refs.head # old /\ refs' = [refs EXCEPT !.head = old]
    /\ count' = IF refs'.head = (IF Update THEN event.src ELSE None)
                THEN [count EXCEPT !.undone = @ + 1] ELSE count
    /\ UNCHANGED prs

OthersChangePr ==
    /\ OtherMove
    /\ \/ \E p \in prs : prs' = (prs \ {p}) \cup {[p EXCEPT !.title = "edited"]} /\ UNCHANGED count
       \/ \E p \in prs : /\ p.open
                         /\ prs' = (prs \ {p}) \cup {[p EXCEPT !.open = FALSE]}
                         /\ count' = [count EXCEPT !.closed = @ + 1]
       \/ /\ refs.head # None /\ \A p \in prs : ~p.open
          /\ prs' = prs \cup {OpenPr(NewNumber, "someone")}
          /\ UNCHANGED count
    /\ UNCHANGED refs

Publisher == \/ AssemblePackage \/ StartPrepare \/ StartContinue \/ NextStage \/ RemoteCheck
             \/ WriteIntent \/ WritePublication \/ PushBranch \/ CreatePr \/ VerifyPr
             \/ WriteReceipt \/ WriteStage

Next == \/ CaptureSource \/ CollectProposal \/ TestCandidate \/ CreateEvidence
        \/ SettleNoop \/ Rerun
        \/ Publisher \/ Crash
        \/ OthersMoveBranch \/ OthersChangePr

Spec == Init /\ [][Next]_vars

(***************************************************************************)
(* Properties.                                                              *)
(***************************************************************************)
(* What the publisher puts on the branch is a tree the candidate tests have *)
(* passed on, over a source that was tested itself, whatever the proposal   *)
(* job copied, whichever jobs were run again, and whatever happened to the  *)
(* branch in between.                                                       *)
OnlyTestedTreesPublished ==
    refs.head # None /\ refs.head.patch # None =>
        /\ <<Foreign(refs.head.n), refs.head.patch>> \in tested
        /\ <<Foreign(refs.head.n), None>> \in tested
        /\ pkg.cand.upstream = {pkg.cand.attempt}

(* The publisher never replaces a commit of somebody else: when it moves    *)
(* the branch, the branch still is where the event of the run saw it.       *)
ForeignCommitsKept ==
    [][count'.pushes > count.pushes =>
          refs.head = IF Update THEN event.src ELSE None]_vars

(* No mutation is replayed: every push but the first follows somebody       *)
(* undoing the earlier one, every pull request but the first follows the    *)
(* closing of the earlier one, over crashes and lost answers.               *)
NothingReplayed ==
    /\ count.pushes <= 1 + count.undone
    /\ count.created <= 1 + count.closed

(* A completed publication names the request of the event or the one the    *)
(* publisher itself opened for this very intent, never one somebody else    *)
(* opened on the branch, and the push before it was acknowledged.           *)
CompletedIsOwn ==
    pkg.result # None =>
        /\ pkg.result.intent = pkg.intent
        /\ pkg.pushAck = [intent |-> pkg.intent]
        /\ \E p \in prs : /\ p.num = pkg.result.num
                          /\ p.author = IF Update THEN "dependabot" ELSE "publisher"

(* Both together: nothing untested is published, nothing foreign completed. *)
PublishedIsOwnAndTested == OnlyTestedTreesPublished /\ CompletedIsOwn
==============================================================================
