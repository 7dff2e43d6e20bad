--------------------------- MODULE WorkflowProofs ---------------------------
(***************************************************************************)
(* Proofs about the two maintenance workflows that are re-run by hand, for *)
(* any number of runs, attempts, crashes and interruptions: the dependency *)
(* remediation of Remediation publishes what was tested, replays nothing   *)
(* and overwrites no foreign commit; a plan of ExecutionState is applied   *)
(* only as approved, and again only where a journal was not captured.      *)
(***************************************************************************)
EXTENDS Remediation, ExecutionState, TLAPS

W == INSTANCE WellFoundedInduction
ST == INSTANCE SequenceTheorems

(***************************************************************************)
(* Proofs about Remediation, for any patches, any number of attempts,       *)
(* steps of other people and interruptions.                                 *)
(*                                                                          *)
(* What is published is decided by files: the candidate, the intent and the *)
(* acknowledgements of the package.  The invariant says what each of them   *)
(* stands for, and what the running publisher knows at each step that it    *)
(* still has to do.                                                         *)
(***************************************************************************)

(***************************************************************************)
(* The inductive invariant                                                  *)
(***************************************************************************)
(* What the variables hold, but for the running publisher: what it has      *)
(* still to do is said by PublisherInv.                                     *)
Trees == Commits \X (Patches \cup {None})
Captures == [src : Commits, base : Commits, attempt : Nat]
Proposals == [src : Commits, patch : Patches \cup {None}, attempt : Nat]
Candidates == [src : Commits, base : Commits, tree : Trees, patch : Patches,
               attempt : Nat, upstream : SUBSET Nat]
Decisions == [src : Commits, base : Commits, attempt : Nat,
              reason : {"no-change", "prerequisite-unavailable"}]
Receipts == [intent : Intents, num : Nat]

Artifacts == [capture : Captures \cup {None}, proposal : Proposals \cup {None},
              tests : Trees \cup {None}, candidate : Candidates \cup {None},
              decision : Decisions \cup {None}]
PackageFiles == [cand : Candidates \cup {None}, intent : Intents \cup {None},
             publication : Publications \cup {None},
             pushAck : [intent : Intents] \cup {None}, prAck : Receipts \cup {None},
             verifyAck : Receipts \cup {None}, result : Receipts \cup {None}]

TypeOK ==
    /\ event \in [mode : Modes, src : {Foreign(0)}, base : Commits]
    /\ attempt \in Nat
    /\ art \in Artifacts
    /\ tested \in SUBSET Trees
    /\ refs \in [base : Commits \cup {None}, head : Commits \cup {None}]
    /\ prs \in SUBSET Requests
    /\ pkg \in PackageFiles
    /\ moves \in 0 .. MaxMoves /\ crashes \in Nat
    /\ count \in [pushes : Nat, undone : Nat, created : Nat, closed : Nat]

(* A candidate is a patch on the event's source, both tested.               *)
Tested(c) == /\ c.src = event.src
             /\ <<c.src, None>> \in tested /\ <<c.src, c.patch>> \in tested

ArtifactsInv ==
    /\ art.capture # None => art.capture.src = event.src /\ <<event.src, None>> \in tested
    /\ art.tests # None => /\ art.capture # None /\ art.proposal # None
                           /\ art.tests = AppliedTree /\ art.tests \in tested
    /\ art.candidate # None => Tested(art.candidate)

(* Where the head is when the run starts, and must be to be moved.          *)
Old == IF Update THEN event.src ELSE None

OfEvent(p) == p \in Requests /\ p.num = 1 /\ p.author = "dependabot"
RequestsInv == /\ \A p \in prs : p.num = 1 => p.author = "dependabot"
               /\ Update => \E p \in prs : p.num = 1

IntentInv ==
    pkg.intent # None => /\ CandidateValid(FALSE)
                         /\ pkg.intent.old = Old
                         /\ pkg.intent.new = RecomputedCommit(pkg.cand)
                         /\ Update => OfEvent(pkg.intent.target)

Own(num, author) == \E p \in prs : p.num = num /\ p.author = author
Author == IF Update THEN "dependabot" ELSE "publisher"

Pushed == pkg.pushAck = [intent |-> pkg.intent]
Opened == pkg.prAck \in Receipts /\ Own(pkg.prAck.num, "publisher")

PackageInv ==
    /\ pkg.cand # None => Tested(pkg.cand)
    /\ pkg.publication # None =>
          /\ pkg.publication.intent = pkg.intent
          /\ pkg.publication.stage # "push-pending" => Pushed
          /\ pkg.publication.stage \in {"pr-verify-pending", "completed"} /\ ~Update => Opened
          /\ pkg.publication.stage = "pr-pending" => ~Update
    /\ pkg.result # None => pkg.publication # None /\ pkg.publication.stage = "completed"

Remainders(list) == {SubSeq(list, k, Len(list)) : k \in 1 .. Len(list) + 1}

Left == Len(pub.todo)

Preparing ==
    /\ pub.todo \in Remainders(PrepareSteps)
    /\ pkg.publication = None /\ CandidateValid(FALSE)
    /\ Update /\ Left \in 2 .. 5 => OfEvent(pub.got)
    /\ ~Update /\ Left >= 2 => pub.got = None
    /\ Left = 1 => pkg.intent \in Intents

Pushing ==
    /\ pub.todo \in Remainders(PushSteps)
    /\ PublicationReadable /\ pkg.publication.stage = "push-pending"
    /\ Left = 1 => Pushed

Creating ==
    /\ pub.todo \in Remainders(CreateSteps)
    /\ PublicationReadable /\ pkg.publication.stage = "pr-pending"
    /\ Left = 2 => Own(pub.got, "publisher")
    /\ Left = 1 => Opened

Verifying ==
    /\ pub.todo \in Remainders(VerifySteps)
    /\ PublicationReadable
    /\ Left >= 2 => pkg.publication.stage = "pr-verify-pending"
    /\ Left = 1 => pkg.publication.stage = "completed"
    /\ Left \in 1 .. 3 => Own(pub.got, Author)

PublisherInv ==
    pub # None => pub.todo = <<>> \/ Preparing \/ Pushing \/ Creating \/ Verifying

HeadTested ==
    refs.head # None /\ refs.head.patch # None =>
        /\ refs.head = RecomputedCommit(pkg.cand) /\ CandidateValid(FALSE)

(* An open request, or a branch that is not where it was, is accounted for. *)
Replays ==
    /\ count.pushes <= count.undone + (IF refs.head = Old THEN 0 ELSE 1)
    /\ count.created <= count.closed + (IF \A p \in prs : ~p.open THEN 0 ELSE 1)

IInv == /\ TypeOK /\ ArtifactsInv /\ RequestsInv /\ IntentInv /\ PackageInv
        /\ PublisherInv /\ HeadTested /\ Replays /\ CompletedIsOwn

(***************************************************************************)
(* What is left to do                                                       *)
(***************************************************************************)
StepNames == Checks \cup {"write-intent", "write-publication", "push", "write-push-ack", "create",
                          "write-pr-ack", "verify", "write-verify-ack", "stage", "write-result"}

(* What remains of a list of steps, when it is not done: its first step is  *)
(* a step of the list, and what remains after it is one shorter.            *)
LEMMA Remaining ==
    ASSUME NEW list \in Seq(StepNames), NEW todo \in Remainders(list), todo # <<>>
    PROVE  \E k \in 1 .. Len(list) :
              /\ Head(todo) = list[k] /\ Len(todo) = Len(list) - k + 1
              /\ Tail(todo) \in Remainders(list)
              /\ Len(Tail(todo)) = Len(list) - k
              /\ k = Len(list) => Tail(todo) = <<>>
  <1>1. PICK k \in 1 .. Len(list) + 1 : todo = SubSeq(list, k, Len(list))
    BY DEF Remainders
  <1>2. k \in 1 .. Len(list)
    BY <1>1
  <1>3. /\ Len(todo) = Len(list) - k + 1 /\ Head(todo) = list[k] /\ todo \in Seq(StepNames)
    BY <1>1, <1>2
  <1>4. Tail(todo) = SubSeq(list, k + 1, Len(list))
    BY <1>1, <1>2, <1>3
  <1>5. Len(Tail(todo)) = Len(list) - k
    BY <1>3
  <1>6. k + 1 \in 1 .. Len(list) + 1
    BY <1>2
  <1>7. Tail(todo) \in Remainders(list)
    BY <1>4, <1>6 DEF Remainders
  <1>8. k = Len(list) => Tail(todo) = <<>>
    <2>1. Tail(todo) \in Seq(StepNames)
      BY <1>3
    <2>2. k = Len(list) => Len(Tail(todo)) = 0
      BY <1>5
    <2> QED
      BY <2>1, <2>2, ST!EmptySeq
  <1> QED
    BY <1>2, <1>3, <1>5, <1>7, <1>8

(* A list is what is left of it before its first step.                      *)
LEMMA AtStart ==
    ASSUME NEW list \in Seq(StepNames) PROVE list \in Remainders(list)
  <1>1. list = SubSeq(list, 1, Len(list))
    OBVIOUS
  <1>2. 1 \in 1 .. Len(list) + 1
    OBVIOUS
  <1> QED
    BY <1>1, <1>2 DEF Remainders

(* Where each step stands in the list of `prepare`.                         *)
LEMMA PrepareAt ==
    ASSUME NEW todo \in Remainders(PrepareSteps), todo # <<>>
    PROVE  /\ Tail(todo) \in Remainders(PrepareSteps)
           /\ Len(Tail(todo)) = Len(todo) - 1 /\ Len(todo) \in 1 .. 6
           /\ Head(todo) \in {"live-pr", "source-ref", "base-ref", "head-ref",
                              "write-intent", "write-publication"}
           /\ Head(todo) = "live-pr" <=> Len(todo) = 6
           /\ Len(todo) = 6 => Update
           /\ Head(todo) = "write-intent" <=> Len(todo) = 2
           /\ Head(todo) = "write-publication" <=> Len(todo) = 1
           /\ Len(todo) = 1 => Tail(todo) = <<>>
  <1>1. PrepareSteps \in Seq(StepNames)
    <2>1. CASE Update
      BY <2>1 DEF PrepareSteps, StepNames, Checks
    <2>2. CASE ~Update
      BY <2>2 DEF PrepareSteps, StepNames, Checks
    <2> QED
      BY <2>1, <2>2
  <1>2. PICK k \in 1 .. Len(PrepareSteps) :
              /\ Head(todo) = PrepareSteps[k] /\ Len(todo) = Len(PrepareSteps) - k + 1
              /\ Tail(todo) \in Remainders(PrepareSteps)
              /\ Len(Tail(todo)) = Len(PrepareSteps) - k
              /\ k = Len(PrepareSteps) => Tail(todo) = <<>>
    BY <1>1, Remaining
  <1> QED
    BY <1>2 DEF PrepareSteps

(* Where each step stands in the list of `push`.                            *)
LEMMA PushAt ==
    ASSUME NEW todo \in Remainders(PushSteps), todo # <<>>
    PROVE  /\ Tail(todo) \in Remainders(PushSteps)
           /\ Len(Tail(todo)) = Len(todo) - 1 /\ Len(todo) \in 1 .. 6
           /\ Head(todo) \in {"base-ref", "lease", "saved-pr", "push", "write-push-ack", "stage"}
           /\ Head(todo) = "push" <=> Len(todo) = 3
           /\ Head(todo) = "write-push-ack" <=> Len(todo) = 2
           /\ Head(todo) = "stage" <=> Len(todo) = 1
           /\ Len(todo) = 1 => Tail(todo) = <<>>
  <1>1. PushSteps \in Seq(StepNames)
    <2>1. CASE Update
      BY <2>1 DEF PushSteps, StepNames, Checks
    <2>2. CASE ~Update
      BY <2>2 DEF PushSteps, StepNames, Checks
    <2> QED
      BY <2>1, <2>2
  <1>2. PICK k \in 1 .. Len(PushSteps) :
              /\ Head(todo) = PushSteps[k] /\ Len(todo) = Len(PushSteps) - k + 1
              /\ Tail(todo) \in Remainders(PushSteps)
              /\ Len(Tail(todo)) = Len(PushSteps) - k
              /\ k = Len(PushSteps) => Tail(todo) = <<>>
    BY <1>1, Remaining
  <1> QED
    BY <1>2 DEF PushSteps

(* Where each step stands in the list that opens the pull request.          *)
LEMMA CreateAt ==
    ASSUME NEW todo \in Remainders(CreateSteps), todo # <<>>
    PROVE  /\ Tail(todo) \in Remainders(CreateSteps)
           /\ Len(Tail(todo)) = Len(todo) - 1 /\ Len(todo) \in 1 .. 6
           /\ Head(todo) \in {"base-ref", "new-ref", "no-open-pr", "create", "write-pr-ack",
                              "stage"}
           /\ Head(todo) = "create" <=> Len(todo) = 3
           /\ Head(todo) = "write-pr-ack" <=> Len(todo) = 2
           /\ Head(todo) = "stage" <=> Len(todo) = 1
           /\ Len(todo) = 1 => Tail(todo) = <<>>
  <1>1. CreateSteps \in Seq(StepNames)
    BY DEF CreateSteps, StepNames, Checks
  <1>2. PICK k \in 1 .. Len(CreateSteps) :
              /\ Head(todo) = CreateSteps[k] /\ Len(todo) = Len(CreateSteps) - k + 1
              /\ Tail(todo) \in Remainders(CreateSteps)
              /\ Len(Tail(todo)) = Len(CreateSteps) - k
              /\ k = Len(CreateSteps) => Tail(todo) = <<>>
    BY <1>1, Remaining
  <1> QED
    BY <1>2 DEF CreateSteps

(* Where each step stands in the list that verifies the pull request.       *)
LEMMA VerifyAt ==
    ASSUME NEW todo \in Remainders(VerifySteps), todo # <<>>
    PROVE  /\ Tail(todo) \in Remainders(VerifySteps)
           /\ Len(Tail(todo)) = Len(todo) - 1 /\ Len(todo) \in 1 .. 4
           /\ Head(todo) \in {"verify", "write-verify-ack", "stage", "write-result"}
           /\ Head(todo) = "verify" <=> Len(todo) = 4
           /\ Head(todo) = "write-verify-ack" <=> Len(todo) = 3
           /\ Head(todo) = "stage" <=> Len(todo) = 2
           /\ Head(todo) = "write-result" <=> Len(todo) = 1
           /\ Len(todo) = 1 => Tail(todo) = <<>>
  <1>1. VerifySteps \in Seq(StepNames)
    BY DEF VerifySteps, StepNames, Checks
  <1>2. PICK k \in 1 .. Len(VerifySteps) :
              /\ Head(todo) = VerifySteps[k] /\ Len(todo) = Len(VerifySteps) - k + 1
              /\ Tail(todo) \in Remainders(VerifySteps)
              /\ Len(Tail(todo)) = Len(VerifySteps) - k
              /\ k = Len(VerifySteps) => Tail(todo) = <<>>
    BY <1>1, Remaining
  <1> QED
    BY <1>2 DEF VerifySteps

(***************************************************************************)
(* Frames: what a step leaves alone keeps what was known of it              *)
(***************************************************************************)
(* The event decides the lists of steps and the expected head.              *)
LEMMA SameEvent ==
    ASSUME event' = event
    PROVE  /\ Update' <=> Update
           /\ Old' = Old /\ Author' = Author
           /\ PrepareSteps' = PrepareSteps /\ PushSteps' = PushSteps
  BY DEF Update, Old, Author, PrepareSteps, PushSteps

(* Requests keep their number and author, whoever edits or closes them.     *)
OwnStay == \A n, a : Own(n, a) => \E p \in prs' : p.num = n /\ p.author = a

(* The files of the package stand for the same while they are unchanged.    *)
LEMMA FilesKept ==
    ASSUME IInv, UNCHANGED <<event, pkg>>, tested \subseteq tested', OwnStay
    PROVE  IntentInv' /\ PackageInv' /\ CompletedIsOwn'
  <1>1. IntentInv'
    BY SameEvent DEF IInv, IntentInv, CandidateValid, RecomputedCommit, OfEvent
  <1>2. (pkg.cand # None => Tested(pkg.cand))'
    BY DEF IInv, PackageInv, Tested
  <1>3. Opened => Opened'
    BY DEF OwnStay, Opened, Own
  <1>4. PackageInv'
    BY <1>2, <1>3, SameEvent DEF IInv, PackageInv, Pushed
  <1>5. CompletedIsOwn'
    BY SameEvent DEF IInv, CompletedIsOwn, OwnStay, Own
  <1> QED
    BY <1>1, <1>4, <1>5

(* The publisher knows the same while it and the package are unchanged.     *)
LEMMA PublisherKept ==
    ASSUME IInv, UNCHANGED <<event, pkg, pub>>, OwnStay
    PROVE  PublisherInv'
  <1>1. SUFFICES ASSUME pub # None, pub.todo # <<>>
                 PROVE  (Preparing \/ Pushing \/ Creating \/ Verifying)'
    BY DEF PublisherInv
  <1>2. /\ CandidateValid(FALSE) => CandidateValid(FALSE)'
        /\ PublicationReadable => PublicationReadable'
    BY DEF CandidateValid, PublicationReadable
  <1>3. CASE Preparing
    BY <1>2, <1>3, SameEvent DEF Preparing, Left, OfEvent
  <1>4. CASE Pushing
    BY <1>2, <1>4, SameEvent DEF Pushing, Left, Pushed
  <1>5. CASE Creating
    BY <1>2, <1>5 DEF Creating, Left, Opened, Own, OwnStay, CreateSteps
  <1>6. CASE Verifying
    BY <1>2, <1>6, SameEvent DEF Verifying, Left, Own, OwnStay, VerifySteps
  <1> QED
    BY <1>1, <1>3, <1>4, <1>5, <1>6 DEF IInv, PublisherInv

(* The artifacts stand for the same while they are unchanged.               *)
LEMMA ArtifactsKept ==
    ASSUME IInv, UNCHANGED <<event, art>>, tested \subseteq tested'
    PROVE  ArtifactsInv'
  BY DEF IInv, ArtifactsInv, Tested, AppliedTree

(* The branch and the mutations counted are accounted for.                  *)
LEMMA RemoteKept ==
    ASSUME IInv, UNCHANGED <<event, refs, prs, count>>
    PROVE  RequestsInv' /\ Replays' /\ OwnStay
  BY SameEvent DEF IInv, RequestsInv, Replays, Own, OwnStay

(* A head with a patch stays that of the candidate.                         *)
LEMMA HeadKept ==
    ASSUME IInv, UNCHANGED <<refs, pkg>> PROVE HeadTested'
  BY DEF IInv, HeadTested, RecomputedCommit, CandidateValid

(***************************************************************************)
(* The jobs                                                                 *)
(***************************************************************************)
(* A job changes an artifact and what was tested.                           *)
LEMMA JobFrame ==
    ASSUME IInv, UNCHANGED <<event, refs, prs, pkg, pub, count>>, tested \subseteq tested'
    PROVE  /\ RequestsInv' /\ IntentInv' /\ PackageInv' /\ PublisherInv'
           /\ HeadTested' /\ Replays' /\ CompletedIsOwn'
  BY FilesKept, PublisherKept, RemoteKept, HeadKept

(* The capture is of the event, whose source has passed the suites.         *)
LEMMA CaptureInv ==
    ASSUME ConstantTypes, IInv, CaptureSource PROVE IInv'
  <1> DEFINE captured == [src |-> event.src, base |-> event.base, attempt |-> attempt]
  <1>1. /\ art' = [art EXCEPT !["capture"] = captured]
        /\ art.capture = None
        /\ tested' = tested \cup {<<event.src, None>>}
        /\ UNCHANGED <<event, attempt, refs, prs, pkg, pub, moves, crashes, count>>
    BY DEF CaptureSource, Job
  <1>2. event.src \in Commits /\ <<event.src, None>> \in Trees /\ captured \in Captures
    BY DEF IInv, TypeOK, Commits, Foreign, ConstantTypes, Trees, Captures
  <1>3. TypeOK'
    BY <1>1, <1>2 DEF IInv, TypeOK, Artifacts
  <1>4. ArtifactsInv'
    BY <1>1 DEF IInv, TypeOK, Artifacts, ArtifactsInv, Tested, AppliedTree
  <1> QED
    BY <1>1, <1>3, <1>4, JobFrame DEF IInv

(* A proposal is copied before there are tests of it.                       *)
LEMMA ProposalInv ==
    ASSUME ConstantTypes, IInv, CollectProposal PROVE IInv'
  <1>1. PICK patch \in Patches \cup {None}, src \in {art.capture.src, Foreign(MaxMoves + 1)} :
             Job("proposal", [src |-> src, patch |-> patch, attempt |-> attempt])
    BY DEF CollectProposal
  <1> DEFINE copied == [src |-> src, patch |-> patch, attempt |-> attempt]
  <1>2. /\ art' = [art EXCEPT !["proposal"] = copied]
        /\ art.proposal = None /\ art.capture # None
        /\ UNCHANGED <<event, attempt, tested, refs, prs, pkg, pub, moves, crashes, count>>
    BY <1>1 DEF CollectProposal, Job
  <1>3. copied \in Proposals
    BY <1>2 DEF IInv, TypeOK, Artifacts, Captures, Commits, Foreign, ConstantTypes, Proposals
  <1>4. TypeOK'
    BY <1>2, <1>3 DEF IInv, TypeOK, Artifacts
  <1>5. ArtifactsInv'
    BY <1>2 DEF IInv, TypeOK, Artifacts, ArtifactsInv, Tested, AppliedTree
  <1> QED
    BY <1>2, <1>4, <1>5, JobFrame DEF IInv

(* What the test job hands on is the tree that has passed.                  *)
LEMMA TestInv ==
    ASSUME ConstantTypes, IInv, TestCandidate PROVE IInv'
  <1>1. /\ art' = [art EXCEPT !["tests"] = AppliedTree]
        /\ InputsMatch
        /\ tested' = tested \cup {AppliedTree}
        /\ UNCHANGED <<event, attempt, refs, prs, pkg, pub, moves, crashes, count>>
    BY DEF TestCandidate, Job, TreeUntouched
  <1>2. AppliedTree \in Trees
    BY <1>1 DEF IInv, TypeOK, Artifacts, Captures, Proposals, InputsMatch, AppliedTree, Trees
  <1>3. TypeOK'
    BY <1>1, <1>2 DEF IInv, TypeOK, Artifacts
  <1>4. ArtifactsInv'
    BY <1>1 DEF IInv, TypeOK, Artifacts, ArtifactsInv, Tested, AppliedTree, InputsMatch
  <1> QED
    BY <1>1, <1>3, <1>4, JobFrame DEF IInv

(* A candidate is the tested patch on the tested source.                    *)
LEMMA EvidenceInv ==
    ASSUME ConstantTypes, IInv, CreateEvidence PROVE IInv'
  <1> DEFINE bound == [src |-> art.capture.src, base |-> art.capture.base,
                       tree |-> AppliedTree, patch |-> art.proposal.patch,
                       attempt |-> attempt,
                       upstream |-> {art.capture.attempt, art.proposal.attempt}]
  <1>1. /\ art' = [art EXCEPT !["candidate"] = bound]
        /\ InputsMatch /\ art.tests # None
        /\ UNCHANGED <<event, attempt, tested, refs, prs, pkg, pub, moves, crashes, count>>
    BY DEF CreateEvidence, Job
  <1>2. /\ art.capture \in Captures /\ art.proposal \in Proposals
        /\ art.proposal.patch # None /\ art.capture.src = event.src
    BY <1>1 DEF IInv, TypeOK, Artifacts, InputsMatch
  <1>3. AppliedTree \in Trees
    BY <1>2 DEF Captures, Proposals, AppliedTree, Trees
  <1>4. bound \in Candidates
    BY <1>2, <1>3 DEF IInv, TypeOK, Captures, Proposals, Candidates
  <1>5. Tested(bound)
    BY <1>1, <1>2 DEF IInv, ArtifactsInv, Tested, AppliedTree
  <1>6. TypeOK'
    BY <1>1, <1>4 DEF IInv, TypeOK, Artifacts
  <1>7. ArtifactsInv'
    BY <1>1, <1>5 DEF IInv, TypeOK, Artifacts, ArtifactsInv, Tested, AppliedTree
  <1> QED
    BY <1>1, <1>6, <1>7, JobFrame DEF IInv

(* A decision binds nothing that is published.                              *)
LEMMA DecisionInv ==
    ASSUME ConstantTypes, IInv, SettleNoop PROVE IInv'
  <1> DEFINE settled == [src |-> art.capture.src, base |-> art.capture.base, attempt |-> attempt,
                         reason |-> IF art.proposal.patch = None THEN "no-change"
                                    ELSE "prerequisite-unavailable"]
  <1>1. /\ art' = [art EXCEPT !["decision"] = settled]
        /\ art.capture # None
        /\ UNCHANGED <<event, attempt, tested, refs, prs, pkg, pub, moves, crashes, count>>
    BY DEF SettleNoop, Job
  <1>2. settled \in Decisions
    BY <1>1 DEF IInv, TypeOK, Artifacts, Captures, Decisions
  <1>3. TypeOK'
    BY <1>1, <1>2 DEF IInv, TypeOK, Artifacts
  <1>4. ArtifactsInv'
    BY <1>1 DEF IInv, TypeOK, Artifacts, ArtifactsInv, Tested, AppliedTree
  <1> QED
    BY <1>1, <1>3, <1>4, JobFrame DEF IInv

(* A new attempt keeps a candidate's upstream or drops the candidate.       *)
LEMMA RerunInv ==
    ASSUME IInv, Rerun PROVE IInv'
  <1>1. /\ art' \in {NoArtifacts,
                [art EXCEPT !.candidate = None, !.decision = None],
                [art EXCEPT !.tests = None, !.candidate = None, !.decision = None]}
        /\ attempt' = attempt + 1
        /\ UNCHANGED <<event, tested, refs, prs, pkg, pub, moves, crashes, count>>
    BY DEF Rerun
  <1>2. TypeOK' /\ ArtifactsInv'
    <2>1. CASE art' = NoArtifacts
      BY <1>1, <2>1 DEF IInv, TypeOK, Artifacts, ArtifactsInv, NoArtifacts
    <2>2. CASE art' = [art EXCEPT !.candidate = None, !.decision = None]
      <3>1. art' = [capture |-> art.capture, proposal |-> art.proposal, tests |-> art.tests,
                    candidate |-> None, decision |-> None]
        BY <2>2 DEF IInv, TypeOK, Artifacts
      <3> QED
        BY <1>1, <3>1 DEF IInv, TypeOK, Artifacts, ArtifactsInv, AppliedTree
    <2>3. CASE art' = [art EXCEPT !.tests = None, !.candidate = None, !.decision = None]
      <3>1. art' = [capture |-> art.capture, proposal |-> art.proposal, tests |-> None,
                    candidate |-> None, decision |-> None]
        BY <2>3 DEF IInv, TypeOK, Artifacts
      <3> QED
        BY <1>1, <3>1 DEF IInv, TypeOK, Artifacts, ArtifactsInv
    <2> QED
      BY <1>1, <2>1, <2>2, <2>3
  <1> QED
    BY <1>1, <1>2, JobFrame DEF IInv

(***************************************************************************)
(* The publisher                                                            *)
(***************************************************************************)
(* What a step of the publisher that writes no file and moves nothing leaves.*)
LEMMA ReadFrame ==
    ASSUME IInv, UNCHANGED <<event, attempt, art, tested, refs, prs, pkg, moves, count>>,
           crashes' \in Nat
    PROVE  /\ TypeOK' /\ ArtifactsInv' /\ RequestsInv' /\ IntentInv' /\ PackageInv'
           /\ HeadTested' /\ Replays' /\ CompletedIsOwn' /\ OwnStay
  <1>1. TypeOK'
    BY DEF IInv, TypeOK
  <1> QED
    BY <1>1, FilesKept, ArtifactsKept, RemoteKept, HeadKept

(* The commands that read the package keep what they read.                  *)
LEMMA SamePackage ==
    ASSUME UNCHANGED <<event, pkg>>
    PROVE  /\ CandidateValid(FALSE) => CandidateValid(FALSE)'
           /\ PublicationReadable => PublicationReadable'
  BY DEF CandidateValid, PublicationReadable

(* A package is assembled of the candidate, with nothing decided yet.       *)
LEMMA AssembleInv ==
    ASSUME IInv, AssemblePackage PROVE IInv'
  <1>1. /\ pkg = NoPackage /\ art.candidate # None
        /\ pkg' = [pkg EXCEPT !.cand = art.candidate]
        /\ UNCHANGED <<event, attempt, art, tested, refs, prs, pub, moves, crashes, count>>
    BY DEF AssemblePackage
  <1>2. pkg' = [cand |-> art.candidate, intent |-> None, publication |-> None,
                pushAck |-> None, prAck |-> None, verifyAck |-> None, result |-> None]
    BY <1>1 DEF NoPackage
  <1>3. ~CandidateValid(FALSE) /\ ~PublicationReadable
    BY <1>1 DEF CandidateValid, PublicationReadable, NoPackage
  <1>4. TypeOK'
    BY <1>1, <1>2 DEF IInv, TypeOK, Artifacts, PackageFiles
  <1>5. ArtifactsInv' /\ RequestsInv' /\ Replays'
    BY <1>1, ArtifactsKept, RemoteKept
  <1>6. Tested(art.candidate) /\ (pkg'.cand = art.candidate)
    BY <1>1, <1>2 DEF IInv, ArtifactsInv
  <1>7. IntentInv' /\ PackageInv' /\ CompletedIsOwn'
    <2>1. pkg'.intent = None /\ pkg'.publication = None /\ pkg'.result = None
      BY <1>2
    <2>2. Tested(art.candidate)'
      BY <1>1, <1>6 DEF Tested
    <2> QED
      BY <1>1, <1>6, <2>1, <2>2 DEF IntentInv, PackageInv, CompletedIsOwn
  <1>8. PublisherInv'
    BY <1>1, <1>3 DEF IInv, PublisherInv, Preparing, Pushing, Creating, Verifying
  <1>9. HeadTested'
    BY <1>1, <1>3 DEF IInv, HeadTested
  <1> QED
    BY <1>4, <1>5, <1>7, <1>8, <1>9 DEF IInv

(* The list of `prepare` is whole when it begins.                           *)
LEMMA PrepareWhole ==
    /\ PrepareSteps \in Remainders(PrepareSteps)
    /\ Len(PrepareSteps) = IF Update THEN 6 ELSE 5
  <1>1. CASE Update
    <2>1. PrepareSteps \in Seq(StepNames) /\ Len(PrepareSteps) = 6
      BY <1>1 DEF PrepareSteps, StepNames, Checks
    <2> QED
      BY <1>1, <2>1, AtStart
  <1>2. CASE ~Update
    <2>1. PrepareSteps \in Seq(StepNames) /\ Len(PrepareSteps) = 5
      BY <1>2 DEF PrepareSteps, StepNames, Checks
    <2> QED
      BY <1>2, <2>1, AtStart
  <1> QED
    BY <1>1, <1>2

(* So are the lists of the stages.                                          *)
LEMMA StagesWhole ==
    /\ PushSteps \in Remainders(PushSteps) /\ Len(PushSteps) \in {5, 6}
    /\ CreateSteps \in Remainders(CreateSteps) /\ Len(CreateSteps) = 6
    /\ VerifySteps \in Remainders(VerifySteps) /\ Len(VerifySteps) = 4
  <1>1. PushSteps \in Remainders(PushSteps) /\ Len(PushSteps) \in {5, 6}
    <2>1. CASE Update
      <3>1. PushSteps \in Seq(StepNames) /\ Len(PushSteps) = 6
        BY <2>1 DEF PushSteps, StepNames, Checks
      <3> QED
        BY <3>1, AtStart
    <2>2. CASE ~Update
      <3>1. PushSteps \in Seq(StepNames) /\ Len(PushSteps) = 5
        BY <2>2 DEF PushSteps, StepNames, Checks
      <3> QED
        BY <3>1, AtStart
    <2> QED
      BY <2>1, <2>2
  <1>2. CreateSteps \in Seq(StepNames) /\ Len(CreateSteps) = 6
    BY DEF CreateSteps, StepNames, Checks
  <1>3. VerifySteps \in Seq(StepNames) /\ Len(VerifySteps) = 4
    BY DEF VerifySteps, StepNames, Checks
  <1> QED
    BY <1>1, <1>2, <1>3, AtStart

(* A stage that begins knows what its list needs.                           *)
LEMMA StageBegins ==
    ASSUME IInv, PublicationReadable, UNCHANGED <<event, pkg>>,
           pub'.todo = StageSteps[pkg.publication.stage]
    PROVE  PublisherInv'
  <1>1. pkg.publication.stage \in Stages
    BY DEF IInv, TypeOK, PackageFiles, Publications, PublicationReadable
  <1>2. PublicationReadable'
    BY SamePackage
  <1>3. CASE pkg.publication.stage = "push-pending"
    <2>1. pub'.todo = PushSteps
      BY <1>3 DEF StageSteps, Stages
    <2>2. Left' # 1 /\ pub'.todo \in Remainders(PushSteps')
      BY <2>1, StagesWhole, SameEvent DEF Left
    <2>3. Pushing'
      BY <1>2, <1>3, <2>2 DEF Pushing
    <2> QED
      BY <2>3 DEF PublisherInv
  <1>4. CASE pkg.publication.stage = "pr-pending"
    <2>1. pub'.todo = CreateSteps
      BY <1>4 DEF StageSteps, Stages
    <2>2. CreateSteps' = CreateSteps
      BY DEF CreateSteps
    <2>3. Creating'
      BY <1>2, <1>4, <2>1, <2>2, StagesWhole DEF Creating, Left
    <2> QED
      BY <2>3 DEF PublisherInv
  <1>5. CASE pkg.publication.stage = "pr-verify-pending"
    <2>1. pub'.todo = VerifySteps
      BY <1>5 DEF StageSteps, Stages
    <2>2. VerifySteps' = VerifySteps
      BY DEF VerifySteps
    <2>3. Left' = 4
      BY <2>1, StagesWhole DEF Left
    <2>4. Verifying'
      BY <1>2, <1>5, <2>1, <2>2, <2>3, StagesWhole DEF Verifying
    <2> QED
      BY <2>4 DEF PublisherInv
  <1>6. CASE pkg.publication.stage = "completed"
    BY <1>6 DEF StageSteps, Stages, PublisherInv
  <1> QED
    BY <1>1, <1>3, <1>4, <1>5, <1>6 DEF Stages

(* `prepare` begins with a candidate and no publication.                    *)
LEMMA PrepareBegins ==
    ASSUME IInv, UNCHANGED <<event, pkg>>, pkg.publication = None, CandidateValid(TRUE),
           pub'.todo = PrepareSteps, pub'.got = None
    PROVE  PublisherInv'
  <1>1. CandidateValid(FALSE)'
    BY DEF CandidateValid
  <1>2. Left' = IF Update THEN 6 ELSE 5
    BY PrepareWhole DEF Left
  <1>3. pub'.todo \in Remainders(PrepareSteps')
    BY PrepareWhole, SameEvent
  <1>4. Preparing'
    <2>1. (pub.todo \in Remainders(PrepareSteps))'
      BY <1>3
    <2>2. (Update /\ Left \in 2 .. 5 => OfEvent(pub.got))'
      BY <1>2, SameEvent
    <2>3. (~Update /\ Left >= 2 => pub.got = None)'
      OBVIOUS
    <2>4. (Left = 1 => pkg.intent \in Intents)'
      BY <1>2
    <2> QED
      BY <1>1, <2>1, <2>2, <2>3, <2>4 DEF Preparing
  <1> QED
    BY <1>4 DEF PublisherInv

(* The commands start and go on from one stage to the next.                 *)
LEMMA StartInv ==
    ASSUME IInv, StartPrepare \/ StartContinue \/ NextStage PROVE IInv'
  <1>1. UNCHANGED <<event, attempt, art, tested, refs, prs, pkg, moves, crashes, count>>
    BY DEF StartPrepare, StartContinue, NextStage, PublisherOnly
  <1>2. crashes' \in Nat
    BY <1>1 DEF IInv, TypeOK
  <1>3. PublisherInv'
    <2>1. CASE StartPrepare
      BY <1>1, <2>1, PrepareBegins DEF StartPrepare
    <2>2. CASE StartContinue
      <3>1. CASE /\ pkg.publication = None /\ CandidateValid(TRUE)
                 /\ pub' = [todo |-> PrepareSteps, got |-> None, loop |-> TRUE]
        <4>1. pub'.todo = PrepareSteps /\ pub'.got = None
          BY <3>1
        <4> QED
          BY <1>1, <3>1, <4>1, PrepareBegins
      <3>2. CASE /\ PublicationReadable
                 /\ \E loop \in BOOLEAN :
                       pub' = [todo |-> StageSteps[pkg.publication.stage], got |-> None,
                               loop |-> loop]
        <4>1. pub'.todo = StageSteps[pkg.publication.stage]
          BY <3>2
        <4> QED
          BY <1>1, <3>2, <4>1, StageBegins
      <3> QED
        BY <2>2, <3>1, <3>2 DEF StartContinue
    <2>3. CASE NextStage
      BY <1>1, <2>3, StageBegins DEF NextStage, Stop, PublisherInv
    <2> QED
      BY <2>1, <2>2, <2>3
  <1> QED
    BY <1>1, <1>2, <1>3, ReadFrame DEF IInv

(* What a check of the remote leaves of the list of steps.                  *)
LEMMA CheckInv ==
    ASSUME IInv, RemoteCheck PROVE IInv'
  <1>1. PICK check \in Checks :
            /\ Publishing(check)
            /\ \/ Holds(check) /\ Go(IF check = "live-pr" THEN Target ELSE pub.got)
               \/ Stop
            /\ UNCHANGED <<refs, prs, pkg, count>> /\ PublisherOnly
    BY DEF RemoteCheck
  <1>2. UNCHANGED <<event, attempt, art, tested, refs, prs, pkg, moves, crashes, count>>
    BY <1>1 DEF PublisherOnly
  <1>3. crashes' \in Nat
    BY <1>2 DEF IInv, TypeOK
  <1>4. pub # None /\ pub.todo # <<>> /\ Head(pub.todo) = check
    BY <1>1 DEF Publishing
  <1>5. CASE Stop
    <2>1. PublisherInv'
      BY <1>5 DEF Stop, PublisherInv
    <2> QED
      BY <1>2, <1>3, <2>1, ReadFrame DEF IInv
  <1>6. CASE Holds(check) /\ Go(IF check = "live-pr" THEN Target ELSE pub.got)
    <2>1. /\ pub'.todo = Tail(pub.todo)
          /\ pub'.got = IF check = "live-pr" THEN Target ELSE pub.got
      BY <1>6 DEF Go
    <2>2. CASE Preparing
      <3>1. /\ Tail(pub.todo) \in Remainders(PrepareSteps)
            /\ Len(Tail(pub.todo)) = Left - 1 /\ Left \in 3 .. 6
            /\ check = "live-pr" <=> Left = 6
            /\ Left = 6 => Update
        BY <1>4, <2>2, PrepareAt DEF Preparing, Left, Checks
      <3>2. Left = 6 => OfEvent(Target)
        BY <3>1 DEF IInv, TypeOK, RequestsInv, OfEvent, Target
      <3>3. Left \in 3 .. 5 /\ Update => OfEvent(pub.got)
        BY <2>2 DEF Preparing
      <3>4. Left >= 2 /\ ~Update => pub.got = None
        BY <2>2 DEF Preparing
      <3>5. Left' = Left - 1 /\ Left' \in 2 .. 5 /\ pub'.todo \in Remainders(PrepareSteps')
        BY <1>2, <2>1, <3>1, SameEvent DEF Left
      <3>6. Update => OfEvent(pub'.got)
        BY <2>1, <3>1, <3>2, <3>3
      <3>7. ~Update => pub'.got = None
        BY <2>1, <3>1, <3>4
      <3>8. pkg'.publication = None /\ CandidateValid(FALSE)'
        BY <1>2, <2>2, SamePackage DEF Preparing
      <3>9. Preparing'
        <4>1. (pub.todo \in Remainders(PrepareSteps))'
          BY <3>5
        <4>2. (Update /\ Left \in 2 .. 5 => OfEvent(pub.got))'
          BY <1>2, <3>6, SameEvent DEF OfEvent
        <4>3. (~Update /\ Left >= 2 => pub.got = None)'
          BY <1>2, <3>7, SameEvent
        <4>4. (Left = 1 => pkg.intent \in Intents)'
          BY <3>5
        <4> QED
          BY <3>8, <4>1, <4>2, <4>3, <4>4 DEF Preparing
      <3> QED
        BY <1>2, <1>3, <3>9, ReadFrame DEF IInv, PublisherInv
    <2>3. CASE Pushing
      <3>1. /\ Tail(pub.todo) \in Remainders(PushSteps)
            /\ Len(Tail(pub.todo)) = Left - 1 /\ Left \in 3 .. 6
        BY <1>4, <2>3, PushAt DEF Pushing, Left, Checks
      <3>2. Left' = Left - 1 /\ Left' \in 2 .. 5 /\ pub'.todo \in Remainders(PushSteps')
        BY <1>2, <2>1, <3>1, SameEvent DEF Left
      <3>3. PublicationReadable' /\ pkg'.publication.stage = "push-pending"
        BY <1>2, <2>3, SamePackage DEF Pushing
      <3>4. Pushing'
        BY <3>2, <3>3 DEF Pushing
      <3> QED
        BY <1>2, <1>3, <3>4, ReadFrame DEF IInv, PublisherInv
    <2>4. CASE Creating
      <3>1. /\ Tail(pub.todo) \in Remainders(CreateSteps)
            /\ Len(Tail(pub.todo)) = Left - 1 /\ Left \in 4 .. 6
        BY <1>4, <2>4, CreateAt DEF Creating, Left, Checks
      <3>2. CreateSteps' = CreateSteps
        BY DEF CreateSteps
      <3>3. Left' = Left - 1 /\ Left' \in 3 .. 5 /\ pub'.todo \in Remainders(CreateSteps')
        BY <2>1, <3>1, <3>2 DEF Left
      <3>4. PublicationReadable' /\ pkg'.publication.stage = "pr-pending"
        BY <1>2, <2>4, SamePackage DEF Creating
      <3>5. Creating'
        BY <3>3, <3>4 DEF Creating
      <3> QED
        BY <1>2, <1>3, <3>5, ReadFrame DEF IInv, PublisherInv
    <2>5. CASE Verifying
      BY <1>4, <2>5, VerifyAt DEF Verifying, Checks
    <2> QED
      BY <1>4, <2>2, <2>3, <2>4, <2>5 DEF IInv, PublisherInv
  <1> QED
    BY <1>1, <1>5, <1>6

(* An intent is of the candidate, and expects the branch where it was.      *)
LEMMA IntentInvKept ==
    ASSUME ConstantTypes, IInv, WriteIntent PROVE IInv'
  <1> DEFINE intent == [mode |-> event.mode, src |-> pkg.cand.src, base |-> pkg.cand.base,
                        old |-> IF Update THEN pkg.cand.src ELSE None,
                        new |-> RecomputedCommit(pkg.cand), target |-> pub.got,
                        attempt |-> pkg.cand.attempt]
  <1>1. /\ pub # None /\ pub.todo # <<>> /\ Head(pub.todo) = "write-intent"
        /\ pkg' = [pkg EXCEPT !.intent = intent]
        /\ pub'.todo = Tail(pub.todo)
        /\ UNCHANGED <<event, attempt, art, tested, refs, prs, moves, crashes, count>>
    BY DEF WriteIntent, Publishing, Go, PublisherOnly
  <1>2. Preparing
    BY <1>1, PushAt, CreateAt, VerifyAt DEF IInv, PublisherInv, Pushing, Creating, Verifying
  <1>3. /\ Left = 2 /\ Len(Tail(pub.todo)) = 1 /\ Tail(pub.todo) \in Remainders(PrepareSteps)
    BY <1>1, <1>2, PrepareAt DEF Preparing, Left
  <1>4. /\ pkg.cand \in Candidates /\ Tested(pkg.cand)
        /\ pkg.publication = None /\ pkg.result = None /\ CandidateValid(FALSE)
    BY <1>2 DEF IInv, TypeOK, PackageFiles, Publications, PackageInv, Preparing, CandidateValid
  <1>5. (Update => OfEvent(pub.got)) /\ (~Update => pub.got = None)
    BY <1>2, <1>3 DEF Preparing
  <1>6. intent \in Intents
    <2>1. event.mode \in Modes /\ pub.got \in Requests \cup {None}
      BY <1>5 DEF IInv, TypeOK, OfEvent
    <2>2. /\ pkg.cand.src \in Commits /\ pkg.cand.base \in Commits /\ pkg.cand.attempt \in Nat
          /\ RecomputedCommit(pkg.cand) \in Commits
      BY <1>4 DEF Candidates, RecomputedCommit, Commits
    <2> QED
      BY <2>1, <2>2 DEF Intents
  <1>7. pkg' \in PackageFiles /\ pkg'.intent = intent /\ pkg'.cand = pkg.cand
        /\ pkg'.publication = None /\ pkg'.result = None
    BY <1>1, <1>4, <1>6 DEF IInv, TypeOK, PackageFiles, Publications
  <1>8. TypeOK'
    BY <1>1, <1>7 DEF IInv, TypeOK
  <1>9. ArtifactsInv' /\ RequestsInv' /\ Replays'
    BY <1>1, ArtifactsKept, RemoteKept
  <1>10. CandidateValid(FALSE)'
    BY <1>4, <1>7 DEF CandidateValid
  <1>11. IntentInv'
    <2>1. intent.old = Old
      BY <1>4 DEF Tested, Old
    <2>2. Update' => OfEvent(intent.target)
      BY <1>1, <1>5, SameEvent
    <2>3. intent.new = RecomputedCommit(pkg.cand)
      OBVIOUS
    <2> QED
      BY <1>1, <1>7, <1>10, <2>1, <2>2, <2>3, SameEvent
         DEF IntentInv, RecomputedCommit, OfEvent
  <1>12. PackageInv' /\ CompletedIsOwn'
    BY <1>1, <1>4, <1>7 DEF PackageInv, CompletedIsOwn, Tested
  <1>13. PublisherInv'
    <2>1. Left' = 1 /\ pub'.todo \in Remainders(PrepareSteps')
      BY <1>1, <1>3, SameEvent DEF Left
    <2>2. pkg'.intent \in Intents
      BY <1>6, <1>7
    <2>3. Preparing'
      <3>1. (Update /\ Left \in 2 .. 5 => OfEvent(pub.got))'
        BY <2>1
      <3>2. (~Update /\ Left >= 2 => pub.got = None)'
        BY <2>1
      <3> QED
        BY <1>7, <1>10, <2>1, <2>2, <3>1, <3>2 DEF Preparing
    <2> QED
      BY <2>3 DEF PublisherInv
  <1>14. HeadTested'
    BY <1>1, <1>4, <1>7, <1>10 DEF IInv, HeadTested, RecomputedCommit
  <1> QED
    BY <1>8, <1>9, <1>11, <1>12, <1>13, <1>14 DEF IInv

(* The publication names the intent that was prepared.                      *)
LEMMA PublicationInv ==
    ASSUME IInv, WritePublication PROVE IInv'
  <1> DEFINE publication == [intent |-> pkg.intent, stage |-> "push-pending"]
  <1>1. /\ pub # None /\ pub.todo # <<>> /\ Head(pub.todo) = "write-publication"
        /\ pkg' = [pkg EXCEPT !.publication = publication]
        /\ pub'.todo = Tail(pub.todo)
        /\ UNCHANGED <<event, attempt, art, tested, refs, prs, moves, crashes, count>>
    BY DEF WritePublication, Publishing, Go, PublisherOnly
  <1>2. Preparing
    BY <1>1, PushAt, CreateAt, VerifyAt DEF IInv, PublisherInv, Pushing, Creating, Verifying
  <1>3. Left = 1 /\ Len(Tail(pub.todo)) = 0 /\ Tail(pub.todo) \in Remainders(PrepareSteps)
    BY <1>1, <1>2, PrepareAt DEF Preparing, Left
  <1>4. pkg.intent \in Intents /\ pkg.publication = None /\ pkg.result = None
    BY <1>2, <1>3 DEF IInv, PackageInv, Preparing
  <1>5. /\ pkg' \in PackageFiles /\ pkg'.publication = publication
        /\ pkg'.cand = pkg.cand /\ pkg'.intent = pkg.intent /\ pkg'.result = None
    BY <1>1, <1>4 DEF IInv, TypeOK, PackageFiles, Publications, Stages
  <1>6. TypeOK'
    BY <1>1, <1>5 DEF IInv, TypeOK
  <1>7. ArtifactsInv' /\ RequestsInv' /\ Replays'
    BY <1>1, ArtifactsKept, RemoteKept
  <1>8. IntentInv'
    BY <1>1, <1>5, SameEvent DEF IInv, IntentInv, CandidateValid, RecomputedCommit, OfEvent
  <1>9. PackageInv' /\ CompletedIsOwn'
    BY <1>1, <1>5 DEF IInv, PackageInv, CompletedIsOwn, Tested
  <1>10. pub'.todo = <<>>
    BY <1>1, <1>2, <1>3, PrepareAt DEF Preparing, Left
  <1>11. PublisherInv'
    BY <1>10 DEF PublisherInv
  <1>12. HeadTested'
    BY <1>1, <1>5 DEF IInv, HeadTested, RecomputedCommit, CandidateValid
  <1> QED
    BY <1>6, <1>7, <1>8, <1>9, <1>11, <1>12 DEF IInv

(* Only the push replaces the head, by the candidate's commit, and only     *)
(* where the intent expects it.                                             *)
LEMMA Push ==
    ASSUME IInv, PushBranch
    PROVE  /\ pkg.intent \in Intents /\ CandidateValid(FALSE)
           /\ pkg.intent.old = Old /\ pkg.intent.new = RecomputedCommit(pkg.cand)
           /\ Pushing /\ Left = 3 /\ pub # None
           /\ Tail(pub.todo) \in Remainders(PushSteps) /\ Len(Tail(pub.todo)) = 2
           /\ UNCHANGED <<event, attempt, art, tested, prs, pkg, moves, crashes>>
           /\ \/ /\ refs.head = Old /\ refs' = [refs EXCEPT !.head = pkg.intent.new]
                 /\ count' = [count EXCEPT !.pushes = @ + 1]
                 /\ pub' = None \/ pub'.todo = Tail(pub.todo)
              \/ pub' = None /\ UNCHANGED <<refs, count>>
  <1>1. /\ pub # None /\ pub.todo # <<>> /\ Head(pub.todo) = "push"
        /\ UNCHANGED <<event, attempt, art, tested, prs, pkg, moves, crashes>>
    BY DEF PushBranch, Publishing, PublisherOnly
  <1>2. Pushing
    BY <1>1, PrepareAt, CreateAt, VerifyAt DEF IInv, PublisherInv, Preparing, Creating, Verifying
  <1>3. /\ Left = 3 /\ Len(Tail(pub.todo)) = 2 /\ Tail(pub.todo) \in Remainders(PushSteps)
    BY <1>1, <1>2, PushAt DEF Pushing, Left
  <1>4. /\ pkg.intent \in Intents /\ CandidateValid(FALSE)
        /\ pkg.intent.old = Old /\ pkg.intent.new = RecomputedCommit(pkg.cand)
    BY <1>2 DEF IInv, TypeOK, PackageFiles, Publications, IntentInv, Pushing, PublicationReadable
  <1>5. \/ /\ refs.head = Old /\ refs' = [refs EXCEPT !.head = pkg.intent.new]
           /\ count' = [count EXCEPT !.pushes = @ + 1]
           /\ pub' = None \/ pub'.todo = Tail(pub.todo)
        \/ pub' = None /\ UNCHANGED <<refs, count>>
    <2>1. CASE LeaseHolds
      <3>1. refs.head = Old
        BY <1>4, <2>1 DEF LeaseHolds
      <3>2. /\ refs' = [refs EXCEPT !.head = pkg.intent.new]
            /\ count' = [count EXCEPT !.pushes = @ + 1]
            /\ Go(None) \/ Stop
        BY <2>1 DEF PushBranch
      <3>3. Go(None) => pub'.todo = Tail(pub.todo)
        BY DEF Go
      <3> QED
        BY <3>1, <3>2, <3>3 DEF Stop
    <2>2. CASE ~LeaseHolds
      BY <2>2 DEF PushBranch, Stop
    <2> QED
      BY <2>1, <2>2
  <1> QED
    BY <1>1, <1>2, <1>3, <1>4, <1>5

(* The new commit is never what the branch was moved from.                  *)
LEMMA NewIsNotOld ==
    ASSUME ConstantTypes, IInv, pkg.cand \in Candidates
    PROVE  RecomputedCommit(pkg.cand) # Old /\ RecomputedCommit(pkg.cand) \in Commits
  <1>1. RecomputedCommit(pkg.cand) \in Commits /\ pkg.cand.patch # None
    BY DEF Candidates, Commits, RecomputedCommit, ConstantTypes
  <1>2. Update => Old = Foreign(0)
    BY DEF IInv, TypeOK, Old
  <1>3. ~Update => Old = None
    BY DEF Old
  <1> QED
    BY <1>1, <1>2, <1>3 DEF RecomputedCommit, Foreign, ConstantTypes

(* A push moves the branch once, to the tested patch.                       *)
LEMMA PushInv ==
    ASSUME ConstantTypes, IInv, PushBranch PROVE IInv'
  <1>1. /\ UNCHANGED <<event, attempt, art, tested, prs, pkg, moves, crashes>>
        /\ pkg.cand \in Candidates /\ CandidateValid(FALSE)
        /\ pkg.intent.new = RecomputedCommit(pkg.cand)
    BY Push DEF CandidateValid, IInv, TypeOK, PackageFiles
  <1>2. ArtifactsInv' /\ RequestsInv' /\ OwnStay
    BY <1>1, ArtifactsKept, SameEvent DEF IInv, RequestsInv, OwnStay, Own
  <1>3. IntentInv' /\ PackageInv' /\ CompletedIsOwn'
    BY <1>1, <1>2, FilesKept
  <1>4. PublisherInv'
    <2>1. CASE pub' = None
      BY <2>1 DEF PublisherInv
    <2>2. CASE pub'.todo = Tail(pub.todo)
      <3>1. Left' = 2 /\ pub'.todo \in Remainders(PushSteps')
        BY <1>1, <2>2, Push, SameEvent DEF Left
      <3>2. PublicationReadable' /\ pkg'.publication.stage = "push-pending"
        BY <1>1, Push, SamePackage DEF Pushing
      <3>3. Pushing'
        BY <3>1, <3>2 DEF Pushing
      <3> QED
        BY <3>3 DEF PublisherInv
    <2> QED
      BY <2>1, <2>2, Push
  <1>5. CASE UNCHANGED <<refs, count>>
    <2>1. TypeOK' /\ HeadTested' /\ Replays'
      BY <1>1, <1>5, RemoteKept, HeadKept DEF IInv, TypeOK
    <2> QED
      BY <1>2, <1>3, <1>4, <2>1 DEF IInv
  <1>6. CASE /\ refs.head = Old /\ refs' = [refs EXCEPT !.head = pkg.intent.new]
             /\ count' = [count EXCEPT !.pushes = @ + 1]
    <2>1. TypeOK'
      BY <1>1, <1>6, NewIsNotOld DEF IInv, TypeOK
    <2>2. refs'.head = RecomputedCommit(pkg.cand) /\ refs'.head # Old
      BY <1>1, <1>6, NewIsNotOld DEF IInv, TypeOK
    <2>3. HeadTested'
      BY <1>1, <2>2 DEF HeadTested, CandidateValid, RecomputedCommit
    <2>4. /\ count'.pushes = count.pushes + 1 /\ count'.undone = count.undone
          /\ count'.created = count.created /\ count'.closed = count.closed
      BY <1>6 DEF IInv, TypeOK
    <2>5. count.pushes <= count.undone
      BY <1>6 DEF IInv, TypeOK, Replays
    <2>6. count'.pushes <= count'.undone + 1
      BY <2>4, <2>5 DEF IInv, TypeOK
    <2>7. refs'.head # Old'
      BY <1>1, <2>2, SameEvent
    <2>8. Replays'
      BY <1>1, <2>4, <2>6, <2>7 DEF IInv, Replays
    <2> QED
      BY <1>2, <1>3, <1>4, <2>1, <2>3, <2>8 DEF IInv
  <1> QED
    BY <1>5, <1>6, Push

(* A request is opened when none is open, with a number not used before.    *)
LEMMA CreateInv ==
    ASSUME IInv, CreatePr PROVE IInv'
  <1> DEFINE new == OpenPr(NewNumber, "publisher")
  <1>1. /\ pub # None /\ pub.todo # <<>> /\ Head(pub.todo) = "create"
        /\ UNCHANGED <<event, attempt, art, tested, refs, pkg, moves, crashes>>
    BY DEF CreatePr, Publishing, PublisherOnly
  <1>2. Creating
    BY <1>1, PrepareAt, PushAt, VerifyAt DEF IInv, PublisherInv, Preparing, Pushing, Verifying
  <1>3. /\ Len(Tail(pub.todo)) = 2 /\ Tail(pub.todo) \in Remainders(CreateSteps)
    BY <1>1, <1>2, CreateAt DEF Creating, Left
  <1>4. CASE Stop /\ UNCHANGED <<prs, count>>
    <2>1. PublisherInv' /\ crashes' \in Nat
      BY <1>1, <1>4 DEF Stop, PublisherInv, IInv, TypeOK
    <2> QED
      BY <1>1, <1>4, <2>1, ReadFrame DEF IInv
  <1>5. CASE /\ \A q \in prs : ~q.open
             /\ prs' = prs \cup {new}
             /\ count' = [count EXCEPT !.created = @ + 1]
             /\ Go(new.num) \/ Stop
    <2>1. /\ NewNumber \in Nat /\ NewNumber >= 2
          /\ new \in Requests /\ new.num = NewNumber /\ new.author = "publisher" /\ new.open
      BY DEF IInv, TypeOK, NewNumber, OpenPr, Requests
    <2>2. TypeOK'
      BY <1>1, <1>5, <2>1 DEF IInv, TypeOK
    <2>3. OwnStay
      BY <1>5 DEF OwnStay, Own
    <2>8. \E p \in prs' : p.num = new.num /\ p.author = "publisher"
      BY <1>5, <2>1
    <2>4. ArtifactsInv' /\ HeadTested' /\ IntentInv' /\ PackageInv' /\ CompletedIsOwn'
      BY <1>1, <2>3, ArtifactsKept, HeadKept, FilesKept
    <2>5. RequestsInv'
      BY <1>1, <1>5, <2>1, SameEvent DEF IInv, RequestsInv
    <2>6. PublisherInv'
      <3>1. CASE Stop
        BY <3>1 DEF Stop, PublisherInv
      <3>2. CASE Go(new.num)
        <4>1. pub'.todo = Tail(pub.todo) /\ pub'.got = new.num
          BY <3>2 DEF Go
        <4>2. CreateSteps' = CreateSteps
          BY DEF CreateSteps
        <4>3. Left' = 2 /\ pub'.todo \in Remainders(CreateSteps')
          BY <1>3, <4>1, <4>2 DEF Left
        <4>4. PublicationReadable' /\ pkg'.publication.stage = "pr-pending"
          BY <1>1, <1>2, SamePackage DEF Creating
        <4>5. Creating'
          <5>1. (Left = 2 => Own(pub.got, "publisher"))'
            BY <2>8, <4>1 DEF Own
          <5>2. (Left = 1 => Opened)'
            BY <4>3
          <5> QED
            BY <4>3, <4>4, <5>1, <5>2 DEF Creating
        <4> QED
          BY <4>5 DEF PublisherInv
      <3> QED
        BY <1>5, <3>1, <3>2
    <2>7. Replays'
      <3>1. /\ count'.created = count.created + 1 /\ count'.closed = count.closed
            /\ count'.pushes = count.pushes /\ count'.undone = count.undone
        BY <1>5 DEF IInv, TypeOK
      <3>2. count.created <= count.closed
        BY <1>5 DEF IInv, TypeOK, Replays
      <3>3. count'.created <= count'.closed + 1
        BY <3>1, <3>2 DEF IInv, TypeOK
      <3>4. ~ \A q \in prs' : ~q.open
        BY <1>5, <2>1
      <3>5. Old' = Old /\ refs' = refs
        BY <1>1, SameEvent
      <3> QED
        BY <3>1, <3>3, <3>4, <3>5 DEF IInv, Replays
    <2> QED
      BY <2>2, <2>4, <2>5, <2>6, <2>7 DEF IInv
  <1> QED
    BY <1>4, <1>5 DEF CreatePr

(* What is verified is the request of the event or the one that was opened. *)
LEMMA VerifyInv ==
    ASSUME IInv, VerifyPr PROVE IInv'
  <1> DEFINE expected == IF Update THEN pkg.intent.target
                         ELSE OpenPr(pkg.prAck.num, "publisher")
  <1>1. /\ pub # None /\ pub.todo # <<>> /\ Head(pub.todo) = "verify"
        /\ UNCHANGED <<event, attempt, art, tested, refs, prs, pkg, moves, crashes, count>>
        /\ \/ expected \in prs /\ Go(expected.num)
           \/ Stop
    BY DEF VerifyPr, Publishing, PublisherOnly
  <1>2. crashes' \in Nat
    BY <1>1 DEF IInv, TypeOK
  <1>3. Verifying
    BY <1>1, PrepareAt, PushAt, CreateAt DEF IInv, PublisherInv, Preparing, Pushing, Creating
  <1>4. /\ Len(Tail(pub.todo)) = 3 /\ Tail(pub.todo) \in Remainders(VerifySteps) /\ Left = 4
    BY <1>1, <1>3, VerifyAt DEF Verifying, Left
  <1>5. PublisherInv'
    <2>1. CASE Stop
      BY <2>1 DEF Stop, PublisherInv
    <2>2. CASE expected \in prs /\ Go(expected.num)
      <3>1. pub'.todo = Tail(pub.todo) /\ pub'.got = expected.num
        BY <2>2 DEF Go
      <3>2. expected.author = Author
        <4>1. CASE Update
          BY <1>3, <4>1 DEF Verifying, PublicationReadable, IInv, IntentInv, OfEvent, Author
        <4>2. CASE ~Update
          BY <4>2 DEF OpenPr, Author
        <4> QED
          BY <4>1, <4>2
      <3>3. Own(pub.got, Author)'
        BY <1>1, <2>2, <3>1, <3>2, SameEvent DEF Own
      <3>4. VerifySteps' = VerifySteps
        BY DEF VerifySteps
      <3>5. Left' = 3 /\ pub'.todo \in Remainders(VerifySteps')
        BY <1>4, <3>1, <3>4 DEF Left
      <3>6. PublicationReadable' /\ pkg'.publication.stage = "pr-verify-pending"
        BY <1>1, <1>3, <1>4, SamePackage DEF Verifying
      <3>7. Verifying'
        BY <3>3, <3>5, <3>6 DEF Verifying
      <3> QED
        BY <3>7 DEF PublisherInv
    <2> QED
      BY <1>1, <2>1, <2>2
  <1> QED
    BY <1>1, <1>2, <1>5, ReadFrame DEF IInv

(***************************************************************************)
(* The files that the publisher writes once it has moved something          *)
(***************************************************************************)
(* A file other than the candidate and the intent leaves what these stand   *)
(* for.                                                                     *)
LEMMA ReceiptFrame ==
    ASSUME IInv, UNCHANGED <<event, attempt, art, tested, refs, prs, moves, crashes, count>>,
           pkg' \in PackageFiles, pkg'.cand = pkg.cand, pkg'.intent = pkg.intent
    PROVE  /\ TypeOK' /\ ArtifactsInv' /\ RequestsInv' /\ IntentInv' /\ HeadTested' /\ Replays'
           /\ (pkg.cand # None => Tested(pkg.cand))'
           /\ Opened /\ pkg'.prAck = pkg.prAck => Opened'
           /\ PublicationReadable /\ pkg'.publication.intent = pkg.publication.intent
                 /\ pkg'.publication # None => PublicationReadable'
  <1>1. TypeOK'
    BY DEF IInv, TypeOK
  <1>2. ArtifactsInv' /\ RequestsInv' /\ Replays'
    BY ArtifactsKept, RemoteKept
  <1>3. IntentInv'
    BY SameEvent DEF IInv, IntentInv, CandidateValid, RecomputedCommit, OfEvent
  <1>4. HeadTested'
    BY DEF IInv, HeadTested, RecomputedCommit, CandidateValid
  <1>5. (pkg.cand # None => Tested(pkg.cand))'
    BY DEF IInv, PackageInv, Tested
  <1>6. Opened /\ pkg'.prAck = pkg.prAck => Opened'
    BY DEF Opened, Own
  <1>7. PublicationReadable /\ pkg'.publication.intent = pkg.publication.intent
           /\ pkg'.publication # None => PublicationReadable'
    BY DEF PublicationReadable, CandidateValid
  <1> QED
    BY <1>1, <1>2, <1>3, <1>4, <1>5, <1>6, <1>7

(* The push is acknowledged for this intent before its stage ends.          *)
LEMMA PushAckInv ==
    ASSUME IInv, PublisherOnly, UNCHANGED <<refs, prs, count>>, Publishing("write-push-ack"),
           pkg' = [pkg EXCEPT !.pushAck = [intent |-> pkg.intent]], Go(pub.got)
    PROVE  IInv'
  <1>1. /\ pub # None /\ pub.todo # <<>> /\ Head(pub.todo) = "write-push-ack"
        /\ pub'.todo = Tail(pub.todo)
        /\ UNCHANGED <<event, attempt, art, tested, refs, prs, moves, crashes, count>>
    BY DEF Publishing, Go, PublisherOnly
  <1>2. Pushing
    BY <1>1, PrepareAt, CreateAt, VerifyAt DEF IInv, PublisherInv, Preparing, Creating, Verifying
  <1>3. Len(Tail(pub.todo)) = 1 /\ Tail(pub.todo) \in Remainders(PushSteps)
    BY <1>1, <1>2, PushAt DEF Pushing, Left
  <1>4. PublicationReadable /\ pkg.publication.stage = "push-pending" /\ pkg.intent \in Intents
    BY <1>2 DEF Pushing, PublicationReadable, IInv, TypeOK, PackageFiles
  <1>5. /\ pkg' \in PackageFiles /\ pkg'.cand = pkg.cand /\ pkg'.intent = pkg.intent
        /\ pkg'.publication = pkg.publication /\ pkg'.prAck = pkg.prAck
        /\ pkg'.result = pkg.result /\ pkg'.pushAck = [intent |-> pkg.intent]
    BY <1>4 DEF IInv, TypeOK, PackageFiles, Publications
  <1>6. Pushed' /\ PublicationReadable' /\ pkg.publication # None
    BY <1>1, <1>4, <1>5, ReceiptFrame DEF Pushed, PublicationReadable
  <1>7. PackageInv'
    <2>1. pkg.result = None /\ ~(pkg'.publication.stage \in {"pr-verify-pending", "completed"})
      BY <1>4, <1>5 DEF IInv, PackageInv
    <2>2. (pkg.cand # None => Tested(pkg.cand))'
      BY <1>1, <1>5, ReceiptFrame
    <2>3. pkg'.publication.intent = pkg'.intent
      BY <1>5, <1>6 DEF PublicationReadable
    <2> QED
      BY <1>4, <1>5, <1>6, <2>1, <2>2, <2>3 DEF PackageInv
  <1>8. CompletedIsOwn'
    BY <1>4, <1>5 DEF IInv, PackageInv, CompletedIsOwn
  <1>9. PublisherInv'
    <2>1. Left' = 1 /\ pub'.todo \in Remainders(PushSteps')
      BY <1>1, <1>3, SameEvent DEF Left
    <2>2. Pushing'
      BY <1>4, <1>5, <1>6, <2>1 DEF Pushing
    <2> QED
      BY <2>2 DEF PublisherInv
  <1> QED
    BY <1>1, <1>5, <1>7, <1>8, <1>9, ReceiptFrame DEF IInv

(* The number that is acknowledged is of a request of the publisher.        *)
LEMMA PrAckInv ==
    ASSUME IInv, PublisherOnly, UNCHANGED <<refs, prs, count>>, Publishing("write-pr-ack"),
           pkg' = [pkg EXCEPT !.prAck = [intent |-> pkg.intent, num |-> pub.got]], Go(pub.got)
    PROVE  IInv'
  <1>1. /\ pub # None /\ pub.todo # <<>> /\ Head(pub.todo) = "write-pr-ack"
        /\ pub'.todo = Tail(pub.todo)
        /\ UNCHANGED <<event, attempt, art, tested, refs, prs, moves, crashes, count>>
    BY DEF Publishing, Go, PublisherOnly
  <1>2. Creating
    BY <1>1, PrepareAt, PushAt, VerifyAt DEF IInv, PublisherInv, Preparing, Pushing, Verifying
  <1>3. Left = 2 /\ Len(Tail(pub.todo)) = 1 /\ Tail(pub.todo) \in Remainders(CreateSteps)
    BY <1>1, <1>2, CreateAt DEF Creating, Left
  <1>4. /\ PublicationReadable /\ pkg.publication.stage = "pr-pending"
        /\ pkg.intent \in Intents /\ pkg.publication # None
    BY <1>2 DEF Creating, PublicationReadable, IInv, TypeOK, PackageFiles
  <1>5. Own(pub.got, "publisher") /\ pub.got \in Nat
    BY <1>2, <1>3 DEF Creating, Own, IInv, TypeOK, Requests
  <1>6. [intent |-> pkg.intent, num |-> pub.got] \in Receipts
    BY <1>4, <1>5 DEF Receipts
  <1>7. /\ pkg' \in PackageFiles /\ pkg'.cand = pkg.cand /\ pkg'.intent = pkg.intent
        /\ pkg'.publication = pkg.publication /\ pkg'.pushAck = pkg.pushAck
        /\ pkg'.result = pkg.result /\ pkg'.prAck = [intent |-> pkg.intent, num |-> pub.got]
    BY <1>6 DEF IInv, TypeOK, PackageFiles, Publications
  <1>8. Opened'
    BY <1>1, <1>5, <1>6, <1>7 DEF Opened, Own, Receipts
  <1>9. PublicationReadable'
    BY <1>1, <1>4, <1>7, ReceiptFrame
  <1>10. PackageInv'
    <2>1. (pkg.cand # None => Tested(pkg.cand))'
      BY <1>1, <1>7, ReceiptFrame
    <2>2. Pushed'
      BY <1>4, <1>7 DEF IInv, PackageInv, Pushed
    <2>3. ~Update'
      BY <1>1, <1>4, SameEvent DEF IInv, PackageInv
    <2>4. pkg'.publication.intent = pkg'.intent /\ pkg'.result = None
      BY <1>4, <1>7 DEF IInv, PackageInv
    <2> QED
      BY <1>4, <1>7, <1>8, <2>1, <2>2, <2>3, <2>4 DEF PackageInv
  <1>11. CompletedIsOwn'
    BY <1>4, <1>7 DEF IInv, PackageInv, CompletedIsOwn
  <1>12. PublisherInv'
    <2>1. CreateSteps' = CreateSteps
      BY DEF CreateSteps
    <2>2. Left' = 1 /\ pub'.todo \in Remainders(CreateSteps')
      BY <1>1, <1>3, <2>1 DEF Left
    <2>3. Creating'
      BY <1>4, <1>7, <1>8, <1>9, <2>2 DEF Creating
    <2> QED
      BY <2>3 DEF PublisherInv
  <1> QED
    BY <1>1, <1>7, <1>10, <1>11, <1>12, ReceiptFrame DEF IInv

(* What was verified is acknowledged, and what is known of it stays.        *)
LEMMA VerifyAckInv ==
    ASSUME IInv, PublisherOnly, UNCHANGED <<refs, prs, count>>, Publishing("write-verify-ack"),
           pkg' = [pkg EXCEPT !.verifyAck = [intent |-> pkg.intent, num |-> pub.got]], Go(pub.got)
    PROVE  IInv'
  <1>1. /\ pub # None /\ pub.todo # <<>> /\ Head(pub.todo) = "write-verify-ack"
        /\ pub'.todo = Tail(pub.todo) /\ pub'.got = pub.got
        /\ UNCHANGED <<event, attempt, art, tested, refs, prs, moves, crashes, count>>
    BY DEF Publishing, Go, PublisherOnly
  <1>2. Verifying
    BY <1>1, PrepareAt, PushAt, CreateAt DEF IInv, PublisherInv, Preparing, Pushing, Creating
  <1>3. Left = 3 /\ Len(Tail(pub.todo)) = 2 /\ Tail(pub.todo) \in Remainders(VerifySteps)
    BY <1>1, <1>2, VerifyAt DEF Verifying, Left
  <1>4. /\ PublicationReadable /\ pkg.publication.stage = "pr-verify-pending"
        /\ pkg.intent \in Intents /\ pkg.publication # None
    <2>1. PublicationReadable /\ pkg.publication.stage = "pr-verify-pending"
      BY <1>2, <1>3 DEF Verifying
    <2> QED
      BY <2>1 DEF PublicationReadable, IInv, TypeOK, PackageFiles
  <1>5. Own(pub.got, Author) /\ pub.got \in Nat
    BY <1>2, <1>3 DEF Verifying, Own, IInv, TypeOK, Requests
  <1>6. [intent |-> pkg.intent, num |-> pub.got] \in Receipts
    BY <1>4, <1>5 DEF Receipts
  <1>7. /\ pkg' \in PackageFiles /\ pkg'.cand = pkg.cand /\ pkg'.intent = pkg.intent
        /\ pkg'.publication = pkg.publication /\ pkg'.pushAck = pkg.pushAck
        /\ pkg'.result = pkg.result /\ pkg'.prAck = pkg.prAck
    BY <1>6 DEF IInv, TypeOK, PackageFiles, Publications
  <1>8. PublicationReadable'
    BY <1>1, <1>4, <1>7, ReceiptFrame
  <1>9. PackageInv'
    <2>1. (pkg.cand # None => Tested(pkg.cand))'
      BY <1>1, <1>7, ReceiptFrame
    <2>2. Pushed' /\ pkg'.result = None /\ pkg'.publication.intent = pkg'.intent
      BY <1>4, <1>7 DEF IInv, PackageInv, Pushed
    <2>3. ~Update' => Opened'
      BY <1>1, <1>4, <1>7, ReceiptFrame, SameEvent DEF IInv, PackageInv
    <2> QED
      BY <1>4, <1>7, <2>1, <2>2, <2>3 DEF PackageInv
  <1>10. CompletedIsOwn'
    BY <1>4, <1>7 DEF IInv, PackageInv, CompletedIsOwn
  <1>11. PublisherInv'
    <2>1. VerifySteps' = VerifySteps
      BY DEF VerifySteps
    <2>2. Left' = 2 /\ pub'.todo \in Remainders(VerifySteps')
      BY <1>1, <1>3, <2>1 DEF Left
    <2>3. Own(pub.got, Author)'
      BY <1>1, <1>5, SameEvent DEF Own
    <2>4. Verifying'
      BY <1>4, <1>7, <1>8, <2>2, <2>3 DEF Verifying
    <2> QED
      BY <2>4 DEF PublisherInv
  <1> QED
    BY <1>1, <1>7, <1>9, <1>10, <1>11, ReceiptFrame DEF IInv

(* The result names the request that was verified.                          *)
LEMMA ResultInv ==
    ASSUME IInv, PublisherOnly, UNCHANGED <<refs, prs, count>>, Publishing("write-result"),
           pkg' = [pkg EXCEPT !.result = [intent |-> pkg.intent, num |-> pub.got]], Go(pub.got)
    PROVE  IInv'
  <1>1. /\ pub # None /\ pub.todo # <<>> /\ Head(pub.todo) = "write-result"
        /\ pub'.todo = Tail(pub.todo)
        /\ UNCHANGED <<event, attempt, art, tested, refs, prs, moves, crashes, count>>
    BY DEF Publishing, Go, PublisherOnly
  <1>2. Verifying
    BY <1>1, PrepareAt, PushAt, CreateAt DEF IInv, PublisherInv, Preparing, Pushing, Creating
  <1>3. Left = 1 /\ Tail(pub.todo) = <<>>
    BY <1>1, <1>2, VerifyAt DEF Verifying, Left
  <1>4. /\ PublicationReadable /\ pkg.publication.stage = "completed"
        /\ pkg.intent \in Intents /\ pkg.publication # None
    BY <1>2, <1>3 DEF Verifying, PublicationReadable, IInv, TypeOK, PackageFiles
  <1>5. Own(pub.got, Author) /\ pub.got \in Nat
    BY <1>2, <1>3 DEF Verifying, Own, IInv, TypeOK, Requests
  <1>6. [intent |-> pkg.intent, num |-> pub.got] \in Receipts
    BY <1>4, <1>5 DEF Receipts
  <1>7. /\ pkg' \in PackageFiles /\ pkg'.cand = pkg.cand /\ pkg'.intent = pkg.intent
        /\ pkg'.publication = pkg.publication /\ pkg'.pushAck = pkg.pushAck
        /\ pkg'.prAck = pkg.prAck
        /\ pkg'.result = [intent |-> pkg.intent, num |-> pub.got]
    BY <1>6 DEF IInv, TypeOK, PackageFiles, Publications
  <1>8. Pushed
    BY <1>4 DEF IInv, PackageInv
  <1>9. PackageInv'
    <2>1. (pkg.cand # None => Tested(pkg.cand))'
      BY <1>1, <1>7, ReceiptFrame
    <2>2. Pushed' /\ pkg'.publication.intent = pkg'.intent
      BY <1>4, <1>7, <1>8 DEF IInv, PackageInv, Pushed
    <2>3. ~Update' => Opened'
      BY <1>1, <1>4, <1>7, ReceiptFrame, SameEvent DEF IInv, PackageInv
    <2> QED
      BY <1>4, <1>7, <2>1, <2>2, <2>3 DEF PackageInv
  <1>10. CompletedIsOwn'
    <2>1. pkg'.result.intent = pkg'.intent /\ pkg'.result.num = pub.got
      BY <1>7
    <2>2. pkg'.pushAck = [intent |-> pkg'.intent]
      BY <1>7, <1>8 DEF Pushed
    <2>3. \E p \in prs' : p.num = pub.got /\ p.author = Author'
      BY <1>1, <1>5, SameEvent DEF Own
    <2> QED
      BY <2>1, <2>2, <2>3 DEF CompletedIsOwn, Author
  <1>11. PublisherInv'
    BY <1>1, <1>3 DEF PublisherInv
  <1> QED
    BY <1>1, <1>7, <1>9, <1>10, <1>11, ReceiptFrame DEF IInv

(* Every acknowledgement says what its stage has done.                      *)
LEMMA ReceiptInv ==
    ASSUME IInv, WriteReceipt PROVE IInv'
  BY PushAckInv, PrAckInv, VerifyAckInv, ResultInv DEF WriteReceipt

(* A stage begins after the acknowledgement of the one before it.           *)
LEMMA StageInv ==
    ASSUME ConstantTypes, IInv, WriteStage PROVE IInv'
  <1> DEFINE next == StageAfter[pkg.publication.stage]
  <1>1. /\ pub # None /\ pub.todo # <<>> /\ Head(pub.todo) = "stage"
        /\ pkg' = [pkg EXCEPT !.publication = [intent |-> pkg.publication.intent, stage |-> next]]
        /\ pub'.todo = Tail(pub.todo) /\ pub'.got = pub.got
        /\ UNCHANGED <<event, attempt, art, tested, refs, prs, moves, crashes, count>>
    BY DEF WriteStage, Publishing, Go, PublisherOnly
  <1>2. Pushing \/ Creating \/ Verifying
    BY <1>1, PrepareAt DEF IInv, PublisherInv, Preparing
  <1>3. PublicationReadable
    BY <1>2 DEF Pushing, Creating, Verifying
  <1>4. /\ pkg.intent \in Intents /\ pkg.publication.intent = pkg.intent
        /\ pkg.publication.stage \in Stages
    BY <1>3 DEF PublicationReadable, IInv, TypeOK, PackageFiles, Publications
  <1>5. next \in Stages
    BY <1>4 DEF StageAfter, Stages
  <1>6. [intent |-> pkg.publication.intent, stage |-> next] \in Publications
    BY <1>4, <1>5 DEF Publications
  <1>7. /\ pkg' \in PackageFiles /\ pkg'.cand = pkg.cand /\ pkg'.intent = pkg.intent
        /\ pkg'.publication = [intent |-> pkg.intent, stage |-> next]
        /\ pkg'.pushAck = pkg.pushAck /\ pkg'.prAck = pkg.prAck /\ pkg'.result = pkg.result
    BY <1>1, <1>4, <1>6 DEF IInv, TypeOK, PackageFiles
  <1>8. pkg'.publication # None /\ pkg'.publication.intent = pkg'.intent
    BY <1>4, <1>6, <1>7 DEF ConstantTypes
  <1>9. PublicationReadable'
    BY <1>1, <1>3, <1>4, <1>7, <1>8, ReceiptFrame
  <1>10. (pkg.cand # None => Tested(pkg.cand))' /\ (Opened => Opened')
    BY <1>1, <1>7, ReceiptFrame
  <1>11. Len(Tail(pub.todo)) = Left - 1 /\ (Pushing \/ Creating => Tail(pub.todo) = <<>>)
    BY <1>1, <1>2, PushAt, CreateAt, VerifyAt DEF Pushing, Creating, Verifying, Left
  <1>12. CASE Pushing
    <2>1. Left = 1 /\ Pushed /\ pkg.publication.stage = "push-pending"
      BY <1>1, <1>12, PushAt DEF Pushing, Left
    <2>2. next = IF Update THEN "pr-verify-pending" ELSE "pr-pending"
      BY <2>1 DEF StageAfter, Stages
    <2>3. Pushed' /\ pkg'.result = None
      BY <1>3, <1>7, <2>1 DEF IInv, PackageInv, Pushed
    <2>4. Update' <=> Update
      BY <1>1, SameEvent
    <2>5. PackageInv'
      BY <1>7, <1>8, <1>10, <2>2, <2>3, <2>4 DEF PackageInv
    <2>6. CompletedIsOwn' /\ PublisherInv'
      BY <1>1, <1>11, <1>12, <2>3 DEF CompletedIsOwn, PublisherInv
    <2> QED
      BY <1>1, <1>7, <2>5, <2>6, ReceiptFrame DEF IInv
  <1>13. CASE Creating
    <2>1. Left = 1 /\ Opened /\ pkg.publication.stage = "pr-pending"
      BY <1>1, <1>13, CreateAt DEF Creating, Left
    <2>2. next = "pr-verify-pending"
      BY <2>1 DEF StageAfter, Stages
    <2>3. Pushed' /\ pkg'.result = None
      BY <1>3, <1>7, <2>1 DEF IInv, PackageInv, Pushed, PublicationReadable
    <2>4. PackageInv'
      BY <1>7, <1>8, <1>10, <2>1, <2>2, <2>3 DEF PackageInv
    <2>5. CompletedIsOwn' /\ PublisherInv'
      BY <1>1, <1>11, <1>13, <2>3 DEF CompletedIsOwn, PublisherInv
    <2> QED
      BY <1>1, <1>7, <2>4, <2>5, ReceiptFrame DEF IInv
  <1>14. CASE Verifying
    <2>1. Left = 2 /\ Tail(pub.todo) \in Remainders(VerifySteps)
      BY <1>1, <1>14, VerifyAt DEF Verifying, Left
    <2>2. pkg.publication.stage = "pr-verify-pending" /\ Own(pub.got, Author)
      BY <1>14, <2>1 DEF Verifying
    <2>3. next = "completed"
      BY <2>2 DEF StageAfter, Stages
    <2>4. Pushed' /\ pkg'.result = None
      BY <1>3, <1>7, <2>2 DEF IInv, PackageInv, Pushed, PublicationReadable
    <2>5. ~Update' => Opened'
      BY <1>1, <1>3, <1>10, <2>2, SameEvent DEF IInv, PackageInv, PublicationReadable
    <2>6. PackageInv'
      BY <1>7, <1>8, <1>10, <2>3, <2>4, <2>5 DEF PackageInv
    <2>7. PublisherInv'
      <3>1. VerifySteps' = VerifySteps
        BY DEF VerifySteps
      <3>2. Left' = 1 /\ pub'.todo \in Remainders(VerifySteps')
        BY <1>1, <1>11, <2>1, <3>1 DEF Left
      <3>3. Own(pub.got, Author)'
        BY <1>1, <2>2, SameEvent DEF Own
      <3>4. Verifying'
        BY <1>7, <1>9, <2>3, <3>2, <3>3 DEF Verifying
      <3> QED
        BY <3>4 DEF PublisherInv
    <2> QED
      BY <1>1, <1>7, <2>4, <2>6, <2>7, ReceiptFrame DEF IInv, CompletedIsOwn
  <1> QED
    BY <1>2, <1>12, <1>13, <1>14

(* An interrupted publisher has forgotten everything but its files.         *)
LEMMA CrashInv ==
    ASSUME IInv, Crash PROVE IInv'
  <1>1. /\ UNCHANGED <<event, attempt, art, tested, refs, prs, pkg, moves, count>>
        /\ crashes' = crashes + 1 /\ pub' = None
    BY DEF Crash, Stop
  <1>2. crashes' \in Nat /\ PublisherInv'
    BY <1>1 DEF IInv, TypeOK, PublisherInv
  <1> QED
    BY <1>1, <1>2, ReadFrame DEF IInv

(***************************************************************************)
(* Other people                                                             *)
(***************************************************************************)
(* Where others put the branch, and the account of what they undid.         *)
LEMMA BranchInv ==
    ASSUME ConstantTypes, IInv, OthersMoveBranch PROVE IInv'
  <1>1. /\ moves < MaxMoves /\ moves' = moves + 1
        /\ UNCHANGED <<event, attempt, art, tested, prs, pkg, pub, crashes>>
    BY DEF OthersMoveBranch, OtherMove
  <1>2. ArtifactsInv' /\ RequestsInv' /\ OwnStay
    BY <1>1, ArtifactsKept, SameEvent DEF IInv, RequestsInv, OwnStay, Own
  <1>3. IntentInv' /\ PackageInv' /\ CompletedIsOwn' /\ PublisherInv'
    BY <1>1, <1>2, FilesKept, PublisherKept
  <1>4. Foreign(moves + 2) \in Commits /\ event.src \in Commits /\ moves' \in 0 .. MaxMoves
    BY <1>1 DEF IInv, TypeOK, Commits, Foreign, ConstantTypes
  <1>5. /\ refs' \in [base : Commits \cup {None}, head : Commits \cup {None}]
        /\ refs'.head = refs.head \/ refs'.head = None \/ refs'.head.patch = None
    <2>1. CASE \E r \in {"base", "head"} : refs' = [refs EXCEPT ![r] = Foreign(moves + 2)]
      <3>1. Foreign(moves + 2).patch = None
        BY DEF Foreign
      <3> QED
        BY <1>4, <2>1, <3>1 DEF IInv, TypeOK
    <2>2. CASE \E old \in {event.src, None} : refs' = [refs EXCEPT !.head = old]
      <3>1. event.src.patch = None
        BY DEF IInv, TypeOK, Foreign
      <3> QED
        BY <1>4, <2>2, <3>1 DEF IInv, TypeOK
    <2> QED
      BY <2>1, <2>2 DEF OthersMoveBranch
  <1>6. count' = IF refs'.head = Old THEN [count EXCEPT !.undone = @ + 1] ELSE count
    BY DEF OthersMoveBranch, Old
  <1>7. TypeOK'
    BY <1>1, <1>4, <1>5, <1>6 DEF IInv, TypeOK
  <1>8. HeadTested'
    BY <1>1, <1>5 DEF IInv, HeadTested, RecomputedCommit, CandidateValid
  <1>9. Replays'
    <2>1. count.pushes <= count.undone + 1
      BY DEF IInv, TypeOK, Replays
    <2>2. Old' = Old
      BY <1>1, SameEvent
    <2>3. CASE refs'.head = Old
      <3>1. /\ count'.pushes = count.pushes /\ count'.undone = count.undone + 1
            /\ count'.created = count.created /\ count'.closed = count.closed
        BY <1>6, <2>3 DEF IInv, TypeOK
      <3> QED
        BY <1>1, <2>1, <2>2, <2>3, <3>1 DEF IInv, TypeOK, Replays
    <2>4. CASE refs'.head # Old
      BY <1>1, <1>6, <2>1, <2>2, <2>4 DEF IInv, Replays
    <2> QED
      BY <2>3, <2>4
  <1> QED
    BY <1>2, <1>3, <1>7, <1>8, <1>9 DEF IInv

(* Others edit, close and open requests; none changes number or author.     *)
LEMMA RequestInv ==
    ASSUME ConstantTypes, IInv, OthersChangePr PROVE IInv'
  <1>1. /\ moves < MaxMoves /\ moves' = moves + 1
        /\ UNCHANGED <<event, attempt, art, tested, refs, pkg, pub, crashes>>
    BY DEF OthersChangePr, OtherMove
  <1>2. moves' \in 0 .. MaxMoves /\ Old' = Old /\ (Update' <=> Update)
    BY <1>1, SameEvent DEF IInv, TypeOK, ConstantTypes
  <1>3. /\ prs' \in SUBSET Requests /\ OwnStay /\ RequestsInv'
        /\ count' \in [pushes : Nat, undone : Nat, created : Nat, closed : Nat]
        /\ Replays'
    <2>1. CASE \E p \in prs : /\ prs' = (prs \ {p}) \cup {[p EXCEPT !.title = "edited"]}
                              /\ UNCHANGED count
      <3>1. PICK p \in prs : prs' = (prs \ {p}) \cup {[p EXCEPT !.title = "edited"]}
        BY <2>1
      <3> DEFINE q == [p EXCEPT !.title = "edited"]
      <3>2. /\ q \in Requests /\ q.num = p.num /\ q.author = p.author /\ q.open = p.open
        BY DEF IInv, TypeOK, Requests
      <3>3. prs' = (prs \ {p}) \cup {q}
        BY <3>1
      <3> HIDE DEF q
      <3>4. prs' \in SUBSET Requests /\ OwnStay
        BY <3>2, <3>3 DEF IInv, TypeOK, OwnStay, Own
      <3>5. RequestsInv'
        BY <1>2, <3>2, <3>3 DEF IInv, RequestsInv
      <3>6. (\A r \in prs' : ~r.open) => \A r \in prs : ~r.open
        BY <3>2, <3>3
      <3>7. Replays'
        BY <1>1, <1>2, <2>1, <3>6 DEF IInv, TypeOK, Replays
      <3> QED
        BY <2>1, <3>4, <3>5, <3>7 DEF IInv, TypeOK
    <2>2. CASE \E p \in prs : /\ p.open
                              /\ prs' = (prs \ {p}) \cup {[p EXCEPT !.open = FALSE]}
                              /\ count' = [count EXCEPT !.closed = @ + 1]
      <3>1. PICK p \in prs : prs' = (prs \ {p}) \cup {[p EXCEPT !.open = FALSE]}
        BY <2>2
      <3> DEFINE q == [p EXCEPT !.open = FALSE]
      <3>2. q \in Requests /\ q.num = p.num /\ q.author = p.author
        BY DEF IInv, TypeOK, Requests
      <3>3. prs' = (prs \ {p}) \cup {q}
        BY <3>1
      <3> HIDE DEF q
      <3>4. prs' \in SUBSET Requests /\ OwnStay
        BY <3>2, <3>3 DEF IInv, TypeOK, OwnStay, Own
      <3>5. RequestsInv'
        BY <1>2, <3>2, <3>3 DEF IInv, RequestsInv
      <3>6. /\ count'.pushes = count.pushes /\ count'.undone = count.undone
            /\ count'.created = count.created /\ count'.closed = count.closed + 1
            /\ count' \in [pushes : Nat, undone : Nat, created : Nat, closed : Nat]
        BY <2>2 DEF IInv, TypeOK
      <3>7. Replays'
        BY <1>1, <1>2, <3>6 DEF IInv, TypeOK, Replays
      <3> QED
        BY <3>4, <3>5, <3>6, <3>7
    <2>3. CASE /\ prs' = prs \cup {OpenPr(NewNumber, "someone")}
               /\ UNCHANGED count
      <3> DEFINE new == OpenPr(NewNumber, "someone")
      <3>1. new \in Requests /\ new.num >= 2 /\ new.open
        BY DEF IInv, TypeOK, NewNumber, OpenPr, Requests
      <3>2. prs' \in SUBSET Requests /\ OwnStay
        BY <2>3, <3>1 DEF IInv, TypeOK, OwnStay, Own
      <3>3. RequestsInv'
        BY <1>2, <2>3, <3>1 DEF IInv, RequestsInv
      <3>4. ~ \A r \in prs' : ~r.open
        BY <2>3, <3>1
      <3>5. Replays'
        BY <1>1, <1>2, <2>3, <3>4 DEF IInv, TypeOK, Replays
      <3> QED
        BY <2>3, <3>2, <3>3, <3>5 DEF IInv, TypeOK
    <2> QED
      BY <2>1, <2>2, <2>3 DEF OthersChangePr
  <1>4. TypeOK'
    BY <1>1, <1>2, <1>3 DEF IInv, TypeOK
  <1>5. ArtifactsInv' /\ HeadTested'
    BY <1>1, ArtifactsKept, HeadKept
  <1>6. IntentInv' /\ PackageInv' /\ CompletedIsOwn' /\ PublisherInv'
    BY <1>1, <1>3, FilesKept, PublisherKept
  <1> QED
    BY <1>3, <1>4, <1>5, <1>6 DEF IInv

(***************************************************************************)
(* The theorems                                                             *)
(***************************************************************************)
(* Nothing is captured, proposed, published or counted at first.            *)
LEMMA InitInv ==
    ASSUME ConstantTypes, Init PROVE IInv
  <1>1. /\ event \in [mode : Modes, src : {Foreign(0)}, base : Commits]
        /\ event.base \in Commits /\ event.src \in Commits /\ event.src.patch = None
    BY DEF Init, EventIdentities, Foreign, Commits, ConstantTypes
  <1>2. OpenPr(1, "dependabot") \in Requests
    BY DEF OpenPr, Requests
  <1>3. TypeOK
    <2>1. art \in Artifacts /\ pkg \in PackageFiles
      BY DEF Init, NoArtifacts, NoPackage, Artifacts, PackageFiles
    <2>2. refs \in [base : Commits \cup {None}, head : Commits \cup {None}]
      BY <1>1 DEF Init
    <2>3. prs \in SUBSET Requests
      BY <1>2 DEF Init
    <2> QED
      BY <1>1, <2>1, <2>2, <2>3 DEF Init, TypeOK, ConstantTypes
  <1>4. ArtifactsInv /\ IntentInv /\ PackageInv /\ CompletedIsOwn /\ PublisherInv
    BY DEF Init, NoArtifacts, NoPackage, ArtifactsInv, IntentInv, PackageInv, CompletedIsOwn,
           PublisherInv
  <1>5. RequestsInv
    <2>1. OpenPr(1, "dependabot").num = 1 /\ OpenPr(1, "dependabot").author = "dependabot"
      BY DEF OpenPr
    <2>2. CASE Update
      BY <2>1, <2>2 DEF Init, RequestsInv
    <2>3. CASE ~Update
      BY <2>3 DEF Init, RequestsInv
    <2> QED
      BY <2>2, <2>3
  <1>6. HeadTested
    BY <1>1 DEF Init, HeadTested
  <1>7. Replays
    BY DEF Init, Replays
  <1> QED
    BY <1>3, <1>4, <1>5, <1>6, <1>7 DEF IInv

(* Every step keeps the invariant.                                          *)
LEMMA NextInv ==
    ASSUME ConstantTypes, IInv, [Next]_vars PROVE IInv'
  <1>1. CASE CaptureSource
    BY <1>1, CaptureInv
  <1>2. CASE CollectProposal
    BY <1>2, ProposalInv
  <1>3. CASE TestCandidate
    BY <1>3, TestInv
  <1>4. CASE CreateEvidence
    BY <1>4, EvidenceInv
  <1>5. CASE SettleNoop
    BY <1>5, DecisionInv
  <1>6. CASE Rerun
    BY <1>6, RerunInv
  <1>7. CASE Publisher
    BY <1>7, AssembleInv, StartInv, CheckInv, IntentInvKept, PublicationInv, PushInv, CreateInv,
       VerifyInv, ReceiptInv, StageInv DEF Publisher
  <1>8. CASE Crash
    BY <1>8, CrashInv
  <1>9. CASE OthersMoveBranch
    BY <1>9, BranchInv
  <1>10. CASE OthersChangePr
    BY <1>10, RequestInv
  <1>11. CASE UNCHANGED vars
    <2>1. UNCHANGED <<event, attempt, art, tested, refs, prs, pkg, pub, moves, crashes, count>>
      BY <1>11 DEF vars
    <2>2. crashes' \in Nat
      BY <2>1 DEF IInv, TypeOK
    <2> QED
      BY <2>1, <2>2, ReadFrame, PublisherKept DEF IInv
  <1> QED
    BY <1>1, <1>2, <1>3, <1>4, <1>5, <1>6, <1>7, <1>8, <1>9, <1>10, <1>11 DEF Next

(* The invariant holds throughout, for all patches, attempts, interruptions *)
(* and moves of other people.                                               *)
THEOREM RemediationInductive ==
    ASSUME ConstantTypes PROVE Spec => []IInv
  <1>1. Init => IInv
    BY InitInv
  <1>2. IInv /\ [Next]_vars => IInv'
    BY NextInv
  <1> QED
    BY <1>1, <1>2, PTL DEF Spec

(* What the publisher puts on a branch is the patch whose tree has passed,  *)
(* over a source that has passed; and a completed publication names a       *)
(* request of the event or of the publisher, after an acknowledged push     *)
(* (candidate.rs, publisher.rs).                                            *)
THEOREM PublishedSound ==
    ASSUME ConstantTypes PROVE Spec => []PublishedIsOwnAndTested
  <1>1. IInv => PublishedIsOwnAndTested
    <2> SUFFICES ASSUME IInv PROVE PublishedIsOwnAndTested
      OBVIOUS
    <2>1. ASSUME refs.head # None, refs.head.patch # None
          PROVE  /\ <<Foreign(refs.head.n), refs.head.patch>> \in tested
                 /\ <<Foreign(refs.head.n), None>> \in tested
                 /\ pkg.cand.upstream = {pkg.cand.attempt}
      <3>1. refs.head = RecomputedCommit(pkg.cand) /\ CandidateValid(FALSE)
        BY <2>1 DEF IInv, HeadTested
      <3>2. Tested(pkg.cand) /\ pkg.cand.upstream = {pkg.cand.attempt}
        BY <3>1 DEF IInv, PackageInv, CandidateValid
      <3>3. pkg.cand.src = Foreign(0) /\ refs.head.n = pkg.cand.src.n
            /\ refs.head.patch = pkg.cand.patch
        BY <3>1, <3>2 DEF IInv, TypeOK, Tested, RecomputedCommit
      <3>4. Foreign(refs.head.n) = pkg.cand.src
        BY <3>3 DEF Foreign
      <3> QED
        BY <3>2, <3>3, <3>4 DEF Tested
    <2>2. OnlyTestedTreesPublished
      BY <2>1 DEF OnlyTestedTreesPublished
    <2> QED
      BY <2>2 DEF IInv, PublishedIsOwnAndTested
  <1> QED
    BY <1>1, RemediationInductive, PTL

(* No push and no pull request is repeated unless somebody has undone or    *)
(* closed the earlier one, whatever answers are lost (push.rs, pr_create.rs).*)
THEOREM NeverReplayed ==
    ASSUME ConstantTypes PROVE Spec => []NothingReplayed
  <1>1. IInv => NothingReplayed
    BY DEF IInv, TypeOK, Replays, NothingReplayed
  <1> QED
    BY <1>1, RemediationInductive, PTL

(* The publisher moves the branch only from where the event saw it          *)
(* (push.rs: the lease).                                                    *)
THEOREM LeaseKept ==
    ASSUME ConstantTypes PROVE Spec => ForeignCommitsKept
  <1> DEFINE Step == count'.pushes > count.pushes => refs.head = IF Update THEN event.src ELSE None
  <1>1. IInv /\ [Next]_vars => [Step]_vars
    <2> SUFFICES ASSUME IInv, [Next]_vars, count'.pushes > count.pushes PROVE refs.head = Old
      BY DEF Old
    <2>1. CASE PushBranch
      <3>1. refs.head = Old \/ count' = count
        BY <2>1, Push
      <3> QED
        BY <3>1 DEF IInv, TypeOK
    <2>2. CASE ~PushBranch
      <3>1. count'.pushes = count.pushes
        BY <2>2 DEF Next, vars, CaptureSource, CollectProposal, TestCandidate, CreateEvidence,
           SettleNoop, Job, Rerun, Publisher, AssemblePackage, StartPrepare, StartContinue,
           NextStage, RemoteCheck, WriteIntent, WritePublication, CreatePr, VerifyPr,
           WriteReceipt, WriteStage, Crash, OthersMoveBranch, OthersChangePr, IInv, TypeOK
      <3> QED
        BY <3>1 DEF IInv, TypeOK
    <2> QED
      BY <2>1, <2>2
  <1> QED
    BY <1>1, RemediationInductive, PTL DEF Spec, ForeignCommitsKept


(***************************************************************************)
(* Proofs about ExecutionState, for any plans and operations, any number of *)
(* dispatches, re-runs, lost runners and expired packages.                  *)
(*                                                                          *)
(* What must never be wrong is the journal that a later job starts from.    *)
(* So the invariant says of every plan that, from the package of the newest *)
(* job that started to mutate on, a package either is one that no later job *)
(* accepts, or its journal is exactly what was carried out, less what a     *)
(* resumed job did and could not capture; and of the running job, at each   *)
(* of its steps, how its journal and its package stand to that.             *)
(***************************************************************************)

(***************************************************************************)
(* The inductive invariant                                                  *)
(***************************************************************************)
Results == {Nil, "success", "failure"}
JobSteps == {"preview", "checkpoint", "recover", "source", "resume", "mark", "apply",
             "capture", "upload"}
Journals == (SUBSET Ops) \cup {Nil}
RunRecords == [in : Inputs, attempt : Nat, conclusion : Results]
Froms == [run : Nat, attempt : Nat, plan : Plans]
Reviews == [plan : Plans, planRun : Nat, run : Nat, attempt : Nat]
Contexts == [plan : Plans, phase : {"prepared", "dispatching", "completed"},
             journal : Journals, review : Reviews]
Packages == [plan : Plans, from : Froms, pkg : Contexts, settled : BOOLEAN]
Jobs == [run : Nat, attempt : Nat, in : Inputs, step : JobSteps, pkg : Contexts \cup {Nil},
         journal : Journals, result : Results]

ExecutionTypeOK ==
    /\ runs \in Seq(RunRecords)
    /\ job \in Jobs \cup {Nil}
    /\ packages \in Seq(Packages)
    /\ mutators \in Seq(Froms)
    /\ applied \in [Plans -> [Ops -> Nat]]
    /\ uncaptured \in [Plans -> [Ops -> Nat]]

(* Of an operation, at most the last time it was carried out is captured.   *)
CountsInv == \A p \in Plans : \A o \in Ops :
                applied[p][o] = uncaptured[p][o] \/ applied[p][o] = uncaptured[p][o] + 1

RunsValid == \A r \in RunIds : ValidPrepare(runs[r].in) \/ ValidApply(runs[r].in)

Held(journal) == IF journal = Nil THEN {} ELSE journal

(* What was carried out of a plan, and not left out of an uploaded journal. *)
Done(p) == {o \in Ops : applied[p][o] = uncaptured[p][o] + 1}
AllApplied(p) == \A o \in Ops : applied[p][o] >= 1

(* A context that is not refused says exactly what was carried out.         *)
Tells(package, p) == JournalAction(package) # "refuse" => Held(package.journal) = Done(p)

(* The plan of a context was approved by the run that its review names.     *)
Reviewed(package) == /\ package.review.run \in RunIds
                     /\ runs[package.review.run].in.approve = package.plan

(* Jobs that have been are of a run there is, and of an attempt it has had. *)
Past(from) == from.run \in RunIds /\ from.attempt <= runs[from.run].attempt

PackagesInv ==
    \A i \in DOMAIN packages :
        /\ packages[i].pkg.plan = packages[i].plan
        /\ packages[i].from.plan = packages[i].plan
        /\ Reviewed(packages[i].pkg)
        /\ Past(packages[i].from)
        /\ packages[i].settled => AllApplied(packages[i].plan)

MutatorsInv == \A n \in DOMAIN mutators : Past(mutators[n])

IsNewest(n, p) == /\ n \in DOMAIN mutators /\ mutators[n].plan = p
                  /\ \A m \in DOMAIN mutators : mutators[m].plan = p => m <= n

Agrees(k, p) == packages[k].plan = p => Tells(packages[k].pkg, p)

(* The packages since that of the newest mutating job tell what was done.   *)
NewestHolds ==
    \A p \in Plans : \A n \in DOMAIN mutators : IsNewest(n, p) =>
        \A i, k \in DOMAIN packages :
            packages[i].from = mutators[n] /\ i <= k => Agrees(k, p)

(* Before a job of the plan has started to mutate, nothing was done.        *)
NothingBefore ==
    \A p \in Plans : (\A n \in DOMAIN mutators : mutators[n].plan # p) =>
        Done(p) = {} /\ \A k \in DOMAIN packages : Agrees(k, p)

OfJob(from) == from.run = job.run /\ from.attempt = job.attempt

JobIdentity ==
    /\ job.run \in RunIds
    /\ job.attempt = runs[job.run].attempt /\ job.in = runs[job.run].in
    /\ \A i \in DOMAIN packages : ~ OfJob(packages[i].from)
    /\ job.step \notin {"preview", "checkpoint"} => ValidApply(job.in)

JobMutates ==
    /\ job.step \notin {"apply", "capture", "upload"} =>
          \A n \in DOMAIN mutators : ~ OfJob(mutators[n])
    /\ job.step = "apply" /\ ApplyStarted => mutators[Len(mutators)] = From
    /\ job.step = "capture" => ApplyStarted /\ mutators[Len(mutators)] = From

JobContext ==
    job.step \in {"resume", "mark", "apply", "capture", "upload"} =>
        job.pkg \in Contexts /\ job.pkg.plan = Approved /\ Reviewed(job.pkg)

JobJournal ==
    /\ job.step \in {"recover", "source", "resume"} => job.journal = Nil
    /\ job.step = "source" => Done(Approved) = {}
    /\ job.step = "resume" => Tells(job.pkg, Approved)
    /\ job.step \in {"mark", "apply", "capture"} =>
          /\ job.pkg.review.planRun = job.in.planRun
          /\ Held(job.journal) = Done(Approved)
          /\ Held(job.pkg.journal) \subseteq Held(job.journal)
          /\ job.journal = Nil => job.pkg.journal = Nil
    /\ job.step = "mark" => Held(job.pkg.journal) = Done(Approved) /\ job.pkg.phase # "completed"
    /\ job.step \in {"apply", "capture"} => job.pkg.phase = "dispatching"
    /\ job.step = "capture" /\ job.result = "success" => Done(Approved) = Ops
    /\ job.step = "upload" =>
          /\ Tells(job.pkg, Approved)
          /\ job.pkg.phase = "completed" => AllApplied(Approved)

JobInv == job # Nil => JobIdentity /\ JobMutates /\ JobContext /\ JobJournal

ExecutionIInv == /\ ExecutionTypeOK /\ CountsInv /\ RunsValid
        /\ PackagesInv /\ MutatorsInv /\ NewestHolds /\ NothingBefore
        /\ JobInv

(***************************************************************************)
(* Sequences                                                                *)
(***************************************************************************)
(* A set of places that is not empty has a last one.                        *)
LEMMA MaxExists ==
    ASSUME NEW n \in Nat, NEW S \in SUBSET (1 .. n), S # {}
    PROVE  \E m \in S : \A k \in S : k <= m
  <1> DEFINE T == {n - k : k \in S}
             R == {r \in Nat \X Nat : r[1] < r[2]}
  <1>1. T \subseteq Nat /\ T # {}
    <2>1. \A k \in S : n - k \in Nat
      OBVIOUS
    <2> QED
      BY <2>1
  <1>2. W!IsWellFoundedOn(R, Nat)
    BY W!NatLessThanWellFounded DEF W!OpToRel
  <1>3. \E t \in T : \A u \in T : ~ (<<u, t>> \in R)
    <2> HIDE DEF T, R
    <2> QED
      BY <1>1, <1>2, W!WFMin
  <1>4. PICK t \in T : \A u \in T : ~ (<<u, t>> \in R)
    BY <1>3
  <1>5. PICK m \in S : t = n - m
    BY <1>4
  <1>6. ASSUME NEW k \in S PROVE k <= m
    <2>1. n - k \in T /\ ~ (<<n - k, t>> \in R)
      BY <1>4
    <2>2. ~ (n - k < n - m)
      BY <1>5, <2>1
    <2>3. k \in 1 .. n /\ m \in 1 .. n
      OBVIOUS
    <2> HIDE DEF T, R
    <2> QED
      BY <2>2, <2>3
  <1> QED
    BY <1>6

(* What taking one element out leaves.                                      *)
LEMMA RemoveAtFacts ==
    ASSUME NEW S, NEW s \in Seq(S), NEW i \in DOMAIN s
    PROVE  /\ RemoveAt(s, i) \in Seq(S)
           /\ Len(RemoveAt(s, i)) = Len(s) - 1
           /\ \A k \in 1 .. Len(s) - 1 : RemoveAt(s, i)[k] = IF k < i THEN s[k] ELSE s[k + 1]
  <1> DEFINE a == SubSeq(s, 1, i - 1)
             b == SubSeq(s, i + 1, Len(s))
  <1>1. /\ Len(s) \in Nat /\ i \in 1 .. Len(s)
        /\ \A k \in 1 .. Len(s) : s[k] \in S
    OBVIOUS
  <1>2. /\ a \in Seq(S) /\ Len(a) = i - 1
        /\ \A k \in 1 .. i - 1 : a[k] = s[k]
    BY <1>1, ST!SubSeqProperties
  <1>3. /\ b \in Seq(S) /\ Len(b) = Len(s) - i
        /\ \A k \in 1 .. Len(s) - i : b[k] = s[i + k]
    BY <1>1, ST!SubSeqProperties
  <1> HIDE DEF a, b
  <1>4. /\ a \o b \in Seq(S)
        /\ Len(a \o b) = Len(s) - 1
        /\ \A k \in 1 .. Len(s) - 1 :
             (a \o b)[k] = IF k < i THEN s[k] ELSE s[k + 1]
    <2>1. /\ a \o b \in Seq(S)
          /\ Len(a \o b) = Len(a) + Len(b)
          /\ \A k \in 1 .. Len(a) + Len(b) :
               (a \o b)[k] = IF k <= Len(a) THEN a[k] ELSE b[k - Len(a)]
      BY <1>2, <1>3, ST!ConcatProperties
    <2>2. ASSUME NEW k \in 1 .. Len(s) - 1, k < i PROVE (a \o b)[k] = s[k]
      BY <1>1, <1>2, <1>3, <2>1, <2>2
    <2>3. ASSUME NEW k \in 1 .. Len(s) - 1, ~ (k < i) PROVE (a \o b)[k] = s[k + 1]
      <3>1. k - Len(a) \in 1 .. Len(s) - i /\ i + (k - Len(a)) = k + 1
        BY <1>1, <1>2, <2>3
      <3>2. (a \o b)[k] = b[k - Len(a)]
        <4>1. k \in 1 .. Len(a) + Len(b) /\ ~ (k <= Len(a))
          BY <1>1, <1>2, <1>3, <2>3
        <4> QED
          BY <2>1, <4>1
      <3> QED
        BY <1>3, <3>1, <3>2
    <2>4. Len(a \o b) = Len(s) - 1
      BY <1>1, <1>2, <1>3, <2>1
    <2>5. \A k \in 1 .. Len(s) - 1 :
             (a \o b)[k] = IF k < i THEN s[k] ELSE s[k + 1]
      BY <2>2, <2>3
    <2> QED
      BY <2>1, <2>4, <2>5
  <1> QED
    BY <1>4 DEF RemoveAt, a, b

(* `Newest` is the last place of the approved plan, if it has any.          *)
LEMMA NewestFacts ==
    ASSUME NEW S, NEW s \in Seq(S)
    PROVE  /\ Newest(s) = 0 => \A i \in DOMAIN s : s[i].plan # Approved
           /\ Newest(s) # 0 => /\ Newest(s) \in DOMAIN s /\ s[Newest(s)].plan = Approved
                               /\ \A j \in DOMAIN s : s[j].plan = Approved => j <= Newest(s)
  <1> DEFINE hits == {i \in DOMAIN s : s[i].plan = Approved}
             Final(i) == i \in hits /\ \A j \in hits : j <= i
  <1>1. CASE hits = {}
    BY <1>1 DEF Newest
  <1>2. CASE hits # {}
    <2>1. Len(s) \in Nat /\ hits \in SUBSET (1 .. Len(s)) /\ DOMAIN s = 1 .. Len(s)
      OBVIOUS
    <2>2. \E i \in hits : \A j \in hits : j <= i
      <3> HIDE DEF hits
      <3> QED
        BY <1>2, <2>1, MaxExists
    <2>3. Newest(s) = CHOOSE i \in hits : \A j \in hits : j <= i
      BY <1>2 DEF Newest
    <2>4. Newest(s) \in hits /\ \A j \in hits : j <= Newest(s)
      BY <2>2, <2>3
    <2> QED
      BY <2>1, <2>4
  <1> QED
    BY <1>1, <1>2

(***************************************************************************)
(* What the steps have in common                                            *)
(***************************************************************************)
(* The types of what the sequences hold.                                    *)
LEMMA Elements ==
    ASSUME ExecutionTypeOK
    PROVE  /\ \A r \in RunIds : runs[r] \in RunRecords /\ runs[r].attempt \in Nat
           /\ \A i \in DOMAIN packages :
                  packages[i] \in Packages /\ packages[i].from \in Froms
                  /\ packages[i].pkg \in Contexts /\ packages[i].plan \in Plans
           /\ \A n \in DOMAIN mutators : mutators[n] \in Froms
  <1>1. /\ runs \in Seq(RunRecords) /\ packages \in Seq(Packages) /\ mutators \in Seq(Froms)
    BY DEF ExecutionTypeOK
  <1>2. /\ \A r \in RunIds : runs[r] \in RunRecords
        /\ \A i \in DOMAIN packages : packages[i] \in Packages
        /\ \A n \in DOMAIN mutators : mutators[n] \in Froms
    BY <1>1 DEF RunIds
  <1>3. \A r \in RunRecords : r.attempt \in Nat
    BY DEF RunRecords
  <1>4. \A e \in Packages : e.from \in Froms /\ e.pkg \in Contexts /\ e.plan \in Plans
    BY DEF Packages
  <1> QED
    BY <1>2, <1>3, <1>4

(* A run goes on, or a run is added, and nothing else that is kept changes. *)
LEMMA RunsGoOn ==
    ASSUME ExecutionIInv, UNCHANGED <<packages, mutators, applied, uncaptured>>, runs' \in Seq(RunRecords),
           \A r \in RunIds : /\ r \in RunIds' /\ runs'[r].in = runs[r].in
                             /\ runs[r].attempt <= runs'[r].attempt
    PROVE  CountsInv' /\ PackagesInv' /\ MutatorsInv' /\ NewestHolds' /\ NothingBefore'
  <1>1. ASSUME NEW f \in Froms, Past(f) PROVE Past(f)'
    <2>1. /\ f.run \in RunIds /\ f.run \in RunIds'
          /\ f.attempt \in Nat /\ runs[f.run].attempt \in Nat /\ runs'[f.run].attempt \in Nat
          /\ f.attempt <= runs[f.run].attempt /\ runs[f.run].attempt <= runs'[f.run].attempt
      <3>1. f.attempt \in Nat
        BY DEF Froms
      <3>2. \A r \in RunRecords : r.attempt \in Nat
        BY DEF RunRecords
      <3>3. \A r \in DOMAIN runs' : runs'[r] \in RunRecords
        OBVIOUS
      <3> QED
        BY <1>1, <3>1, <3>2, <3>3, Elements DEF Past, ExecutionIInv, RunIds
    <2> QED
      BY <2>1 DEF Past
  <1>2. ASSUME NEW k \in Contexts, Reviewed(k) PROVE Reviewed(k)'
    BY <1>2 DEF Reviewed
  <1>3. PackagesInv'
    <2>1. \A i \in DOMAIN packages : packages[i].from \in Froms /\ packages[i].pkg \in Contexts
      BY Elements DEF ExecutionIInv
    <2> QED
      BY <1>1, <1>2, <2>1 DEF ExecutionIInv, PackagesInv, AllApplied
  <1>4. MutatorsInv'
    BY <1>1, Elements DEF ExecutionIInv, MutatorsInv
  <1>5. NewestHolds' /\ NothingBefore'
    BY DEF ExecutionIInv, NewestHolds, NothingBefore, IsNewest, Agrees, Tells, Done
  <1>6. CountsInv'
    BY DEF ExecutionIInv, CountsInv
  <1> QED
    BY <1>3, <1>4, <1>5, <1>6

(* The end of a job leaves the inputs and the attempts of the runs.         *)
LEMMA Concluded ==
    ASSUME ExecutionIInv, job.run \in RunIds, NEW c \in Results, Conclude(c)
    PROVE  /\ runs' \in Seq(RunRecords) /\ RunIds' = RunIds /\ job' = Nil
           /\ \A r \in RunIds : /\ runs'[r].in = runs[r].in
                                /\ runs'[r].attempt = runs[r].attempt
  <1>1. \A r \in RunIds : runs[r] \in RunRecords
    BY Elements DEF ExecutionIInv
  <1>2. [runs[job.run] EXCEPT !.conclusion = c] \in RunRecords
    BY <1>1 DEF RunRecords
  <1>3. runs' = [runs EXCEPT ![job.run] = [runs[job.run] EXCEPT !.conclusion = c]] /\ job' = Nil
    BY DEF Conclude
  <1>4. runs' \in Seq(RunRecords) /\ RunIds' = RunIds
    BY <1>2, <1>3 DEF ExecutionIInv, ExecutionTypeOK, RunIds
  <1> QED
    BY <1>1, <1>3, <1>4 DEF Conclude, RunRecords, RunIds

(* A job that ends leaves what it has uploaded.                             *)
LEMMA JobEnds ==
    ASSUME ExecutionIInv, job # Nil, NEW c \in Results, Conclude(c),
           UNCHANGED <<packages, mutators, applied, uncaptured>>
    PROVE  ExecutionIInv'
  <1>1. job.run \in RunIds
    BY DEF ExecutionIInv, JobInv, JobIdentity
  <1>2. /\ runs' \in Seq(RunRecords) /\ RunIds' = RunIds
        /\ \A r \in RunIds : /\ runs'[r].in = runs[r].in
                             /\ runs'[r].attempt = runs[r].attempt
    BY <1>1, Concluded
  <1>3. CountsInv' /\ PackagesInv' /\ MutatorsInv' /\ NewestHolds' /\ NothingBefore'
    <2>1. \A r \in RunIds : runs[r].attempt \in Nat
      BY Elements DEF ExecutionIInv
    <2> QED
      BY <1>2, <2>1, RunsGoOn
  <1>4. ExecutionTypeOK' /\ JobInv'
    BY <1>2 DEF ExecutionIInv, ExecutionTypeOK, Conclude, JobInv
  <1>5. RunsValid'
    BY <1>2 DEF ExecutionIInv, RunsValid
  <1> QED
    BY <1>3, <1>4, <1>5 DEF ExecutionIInv

(* A job takes a step that only it can see.                                 *)
LEMMA JobGoesOn ==
    ASSUME ExecutionIInv, job # Nil, UNCHANGED <<runs, packages, mutators, applied, uncaptured>>,
           job' \in Jobs,
           job'.run = job.run, job'.attempt = job.attempt, job'.in = job.in,
           job.step \in {"preview", "checkpoint"} => job'.step \in {"preview", "checkpoint"},
           job.step \in {"apply", "capture", "upload"} => job'.step \in {"capture", "upload"},
           job'.step = "capture" => job.step = "apply" /\ ApplyStarted,
           (JobContext /\ JobJournal)'
    PROVE  ExecutionIInv'
  <1>1. \A r \in RunIds : runs[r].attempt \in Nat
    BY Elements DEF ExecutionIInv
  <1>2. CountsInv' /\ PackagesInv' /\ MutatorsInv' /\ NewestHolds' /\ NothingBefore'
    BY <1>1, RunsGoOn DEF RunIds, ExecutionIInv, ExecutionTypeOK
  <1>3. ExecutionTypeOK' /\ RunsValid'
    BY DEF ExecutionIInv, ExecutionTypeOK, RunsValid, RunIds
  <1>4. JobIdentity'
    BY DEF ExecutionIInv, JobInv, JobIdentity, OfJob, RunIds
  <1>5. JobMutates'
    <2>1. \A n \in DOMAIN mutators : OfJob(mutators[n])' <=> OfJob(mutators[n])
      BY DEF OfJob
    <2>2. job'.step \notin {"apply", "capture", "upload"} =>
              \A n \in DOMAIN mutators : ~ OfJob(mutators[n])
      BY DEF ExecutionIInv, JobInv, JobMutates, Jobs
    <2>3. job'.step = "apply" => job.step \notin {"apply", "capture", "upload"}
      OBVIOUS
    <2>4. job'.step = "apply" => ~ ApplyStarted'
      BY <2>1, <2>3 DEF ExecutionIInv, JobInv, JobMutates, ApplyStarted, OfJob, From
    <2>5. From' = From
      BY DEF From, Approved
    <2>6. job'.step = "capture" => ApplyStarted' /\ mutators[Len(mutators)] = From
      BY <2>5 DEF ExecutionIInv, JobInv, JobMutates, ApplyStarted
    <2> QED
      BY <2>1, <2>2, <2>4, <2>5, <2>6 DEF JobMutates
  <1> QED
    BY <1>2, <1>3, <1>4, <1>5 DEF ExecutionIInv, JobInv

(* A job begins in an attempt that its run has not had.                     *)
LEMMA JobBegins ==
    ASSUME ExecutionIInv, UNCHANGED <<packages, mutators, applied, uncaptured>>,
           runs' \in Seq(RunRecords), NEW r \in RunIds', NEW again, NEW in,
           again = runs'[r].attempt, in = runs'[r].in, job' = NewJob(r, again, in),
           RunsValid',
           \A q \in RunIds : /\ q \in RunIds' /\ runs'[q].in = runs[q].in
                             /\ runs[q].attempt <= runs'[q].attempt
                             /\ q = r => runs[q].attempt < again
    PROVE  ExecutionIInv'
  <1>1. CountsInv' /\ PackagesInv' /\ MutatorsInv' /\ NewestHolds' /\ NothingBefore'
    BY RunsGoOn
  <1>2. r \in Nat /\ again \in Nat /\ in \in Inputs
    <2>1. runs'[r] \in RunRecords /\ r \in Nat
      BY DEF RunIds
    <2> QED
      BY <2>1 DEF RunRecords
  <1>3. job' \in Jobs
    BY <1>2 DEF NewJob, Jobs, JobSteps, Journals, Results
  <1>4. ExecutionTypeOK'
    BY <1>3 DEF ExecutionIInv, ExecutionTypeOK
  <1>5. ValidPrepare(in) \/ ValidApply(in)
    BY DEF RunsValid
  <1>6. /\ job'.run = r /\ job'.attempt = again /\ job'.in = in /\ job'.journal = Nil
        /\ job'.step = IF ValidPrepare(in) THEN "preview" ELSE "recover"
    BY DEF NewJob
  <1>7. ASSUME NEW f \in Froms, Past(f) PROVE ~ OfJob(f)'
    <2>1. SUFFICES ASSUME f.run = r, f.attempt = again PROVE FALSE
      BY <1>6 DEF OfJob
    <2>2. r \in RunIds /\ f.attempt <= runs[r].attempt /\ runs[r].attempt < again
      BY <1>7, <2>1 DEF Past
    <2>3. runs[r].attempt \in Nat
      BY <2>2, Elements DEF ExecutionIInv
    <2> QED
      BY <1>2, <2>1, <2>2, <2>3
  <1>8. /\ \A i \in DOMAIN packages : ~ OfJob(packages[i].from)'
        /\ \A n \in DOMAIN mutators : ~ OfJob(mutators[n])'
    BY <1>7, Elements DEF ExecutionIInv, PackagesInv, MutatorsInv
  <1>9. JobIdentity'
    <2>1. job'.step \notin {"preview", "checkpoint"} => ValidApply(job'.in)
      BY <1>5, <1>6
    <2>2. (\A i \in DOMAIN packages : ~ OfJob(packages[i].from))'
      BY <1>8
    <2> QED
      BY <1>6, <2>1, <2>2 DEF JobIdentity
  <1>10. JobMutates'
    BY <1>6, <1>8 DEF JobMutates, OfJob
  <1>11. (JobContext /\ JobJournal)'
    BY <1>6 DEF JobContext, JobJournal
  <1> QED
    BY <1>1, <1>4, <1>9, <1>10, <1>11 DEF ExecutionIInv, JobInv

(***************************************************************************)
(* One lemma per action                                                     *)
(***************************************************************************)
(* Nothing has been dispatched.                                             *)
LEMMA ExecutionInitInv == ExecutionInit => ExecutionIInv
  <1> SUFFICES ASSUME ExecutionInit PROVE ExecutionIInv
    OBVIOUS
  <1>1. ExecutionTypeOK
    BY DEF ExecutionInit, ExecutionTypeOK
  <1>c. CountsInv
    BY DEF ExecutionInit, CountsInv
  <1>2. RunsValid /\ PackagesInv /\ MutatorsInv
    BY DEF ExecutionInit, RunsValid, PackagesInv, MutatorsInv, RunIds
  <1>3. NewestHolds /\ NothingBefore
    BY DEF ExecutionInit, NewestHolds, NothingBefore, Done
  <1>4. JobInv
    BY DEF ExecutionInit, JobInv
  <1> QED
    BY <1>1, <1>c, <1>2, <1>3, <1>4 DEF ExecutionIInv

(* A new run begins with its first attempt.                                 *)
LEMMA DispatchInv ==
    ASSUME ExecutionIInv, Dispatch PROVE ExecutionIInv'
  <1>1. PICK in \in Inputs :
           /\ ValidPrepare(in) \/ ValidApply(in)
           /\ runs' = Append(runs, [in |-> in, attempt |-> 1, conclusion |-> Nil])
           /\ job' = NewJob(Len(runs) + 1, 1, in)
    BY DEF Dispatch
  <1> DEFINE r == Len(runs) + 1
  <1>2. /\ runs' \in Seq(RunRecords) /\ r \in RunIds'
        /\ runs'[r] = [in |-> in, attempt |-> 1, conclusion |-> Nil]
        /\ r \notin RunIds
        /\ \A q \in RunIds : q \in RunIds' /\ runs'[q] = runs[q]
        /\ RunIds' = RunIds \cup {r}
    <2>1. [in |-> in, attempt |-> 1, conclusion |-> Nil] \in RunRecords
      BY DEF RunRecords, Results
    <2>2. runs \in Seq(RunRecords)
      BY DEF ExecutionIInv, ExecutionTypeOK
    <2> QED
      BY <1>1, <2>1, <2>2 DEF RunIds
  <1>3. RunsValid'
    <2>1. ASSUME NEW q \in RunIds' PROVE (ValidPrepare(runs[q].in) \/ ValidApply(runs[q].in))'
      <3>1. CASE q \in RunIds
        BY <1>2, <3>1 DEF ExecutionIInv, RunsValid
      <3>2. CASE q = r
        BY <1>1, <1>2, <3>2
      <3> QED
        BY <1>2, <3>1, <3>2
    <2> QED
      BY <2>1 DEF RunsValid
  <1>4. \A q \in RunIds : runs[q].attempt <= runs'[q].attempt
    BY <1>2, Elements DEF ExecutionIInv
  <1> HIDE DEF r
  <1>5. UNCHANGED <<packages, mutators, applied, uncaptured>>
    BY DEF Dispatch
  <1>6. runs'[r].attempt = 1 /\ runs'[r].in = in /\ job' = NewJob(r, 1, in)
    BY <1>1, <1>2 DEF r
  <1> QED
    BY <1>2, <1>3, <1>4, <1>5, <1>6, JobBegins

(* A re-run begins a new attempt of its run.                                *)
LEMMA ExecutionRerunInv ==
    ASSUME ExecutionIInv, RerunAttempt PROVE ExecutionIInv'
  <1>1. PICK r \in RunIds :
           /\ runs' = [runs EXCEPT ![r] = [in |-> runs[r].in, attempt |-> runs[r].attempt + 1,
                                           conclusion |-> Nil]]
           /\ job' = NewJob(r, runs[r].attempt + 1, runs[r].in)
    BY DEF RerunAttempt
  <1>2. \A q \in RunIds : runs[q] \in RunRecords
    BY Elements DEF ExecutionIInv
  <1>3. /\ runs' \in Seq(RunRecords) /\ RunIds' = RunIds
        /\ \A q \in RunIds : /\ runs'[q].in = runs[q].in
                             /\ runs'[q].attempt = IF q = r THEN runs[q].attempt + 1
                                                   ELSE runs[q].attempt
    <2>1. runs' \in Seq(RunRecords) /\ RunIds' = RunIds
      <3> DEFINE e == [in |-> runs[r].in, attempt |-> runs[r].attempt + 1, conclusion |-> Nil]
      <3>1. e \in RunRecords
        BY <1>2 DEF RunRecords, Results
      <3>2. runs' = [runs EXCEPT ![r] = e]
        BY <1>1
      <3> HIDE DEF e
      <3> QED
        BY <3>1, <3>2 DEF ExecutionIInv, ExecutionTypeOK, RunIds
    <2> QED
      BY <1>1, <1>2, <2>1 DEF RunIds, RunRecords
  <1>4. RunsValid'
    BY <1>3 DEF ExecutionIInv, RunsValid
  <1>5. \A q \in RunIds : runs[q].attempt \in Nat
    BY Elements DEF ExecutionIInv
  <1>6. \A q \in RunIds : /\ runs[q].attempt <= runs'[q].attempt
                          /\ q = r => runs[q].attempt < runs[r].attempt + 1
    BY <1>3, <1>5
  <1>7. UNCHANGED <<packages, mutators, applied, uncaptured>>
    BY DEF RerunAttempt
  <1>8. r \in RunIds' /\ runs'[r].attempt = runs[r].attempt + 1 /\ runs'[r].in = runs[r].in
    BY <1>3
  <1> QED
    BY <1>1, <1>3, <1>4, <1>6, <1>7, <1>8, JobBegins

(* A lost runner takes its journal with it.                                 *)
LEMMA JobLostInv ==
    ASSUME ExecutionIInv, JobLost PROVE ExecutionIInv'
  BY JobEnds DEF JobLost, Results

(* A prepare job ends.                                                      *)
LEMMA CheckpointInv ==
    ASSUME ExecutionIInv, Checkpoint PROVE ExecutionIInv'
  BY JobEnds DEF Checkpoint, AtStep, Results

(* A source that is not the approved preview fails the job.                 *)
LEMMA RefuseSourceInv ==
    ASSUME ExecutionIInv, RefuseSource PROVE ExecutionIInv'
  BY JobEnds DEF RefuseSource, AtStep, Results

(* A package that is not the one approved fails the job.                    *)
LEMMA RejectResumedInv ==
    ASSUME ExecutionIInv, RejectResumed PROVE ExecutionIInv'
  BY JobEnds DEF RejectResumed, AtStep, Results

(* The types of the fields of a job, and of a context.                      *)
LEMMA JobFields ==
    ASSUME ExecutionIInv, job # Nil
    PROVE  /\ job \in Jobs /\ job.run \in Nat /\ job.attempt \in Nat /\ job.in \in Inputs
           /\ job.step \in JobSteps /\ job.journal \in Journals /\ job.result \in Results
           /\ job.run \in RunIds
           /\ JobIdentity /\ JobMutates /\ JobContext /\ JobJournal
           /\ job.step \notin {"preview", "checkpoint"} => Approved \in Plans
  <1>1. job \in Jobs
    BY DEF ExecutionIInv, ExecutionTypeOK
  <1>2. JobIdentity /\ JobMutates /\ JobContext /\ JobJournal
    BY DEF ExecutionIInv, JobInv
  <1>3. job.in \in Inputs
    BY <1>1 DEF Jobs
  <1>4. job.step \notin {"preview", "checkpoint"} => Approved \in Plans
    BY <1>2, <1>3 DEF JobIdentity, ValidApply, Approved, Inputs
  <1> QED
    BY <1>1, <1>2, <1>3, <1>4 DEF Jobs, JobIdentity

(* A preview touches no plan.                                               *)
LEMMA PreviewInv ==
    ASSUME ExecutionIInv, Preview PROVE ExecutionIInv'
  <1>1. /\ job # Nil /\ job.step = "preview" /\ job' = [job EXCEPT !.step = "checkpoint"]
        /\ UNCHANGED <<runs, packages, mutators, applied, uncaptured>>
    BY DEF Preview, AtStep
  <1>2. job \in Jobs
    BY <1>1, JobFields
  <1>3. /\ job' \in Jobs /\ job'.run = job.run /\ job'.attempt = job.attempt /\ job'.in = job.in
        /\ job'.step = "checkpoint"
    BY <1>1, <1>2 DEF Jobs, JobSteps
  <1>4. (JobContext /\ JobJournal)'
    BY <1>3 DEF JobContext, JobJournal
  <1> QED
    BY <1>1, <1>3, <1>4, JobGoesOn

(* A job goes on only from what the newest mutating job left.               *)
LEMMA RecoverInv ==
    ASSUME ExecutionIInv, Recover PROVE ExecutionIInv'
  <1> DEFINE k == Newest(packages)
             m == Newest(mutators)
  <1>1. /\ job # Nil /\ job.step = "recover"
        /\ UNCHANGED <<packages, mutators, applied, uncaptured>>
    BY DEF Recover, AtStep
  <1>2. job \in Jobs /\ JobJournal /\ ValidApply(job.in) /\ Approved \in Plans
    BY <1>1, JobFields DEF JobIdentity
  <1>3. /\ k = 0 => \A i \in DOMAIN packages : packages[i].plan # Approved
        /\ k # 0 => /\ k \in DOMAIN packages /\ packages[k].plan = Approved
                    /\ \A j \in DOMAIN packages : packages[j].plan = Approved => j <= k
        /\ m = 0 => \A i \in DOMAIN mutators : mutators[i].plan # Approved
        /\ m # 0 => /\ m \in DOMAIN mutators /\ mutators[m].plan = Approved
                    /\ \A j \in DOMAIN mutators : mutators[j].plan = Approved => j <= m
    <2>1. packages \in Seq(Packages) /\ mutators \in Seq(Froms)
      BY DEF ExecutionIInv, ExecutionTypeOK
    <2> QED
      BY <2>1, NewestFacts
  <1> HIDE DEF k, m
  <1>4. ASSUME Outcome \in {"fresh", "resumed"}
        PROVE  m # 0 => \E i \in DOMAIN packages : packages[i].from = mutators[m]
    <2>1. ~ PackageMissing
      BY <1>4 DEF Outcome
    <2> QED
      BY <2>1 DEF PackageMissing, m
  <1>5. ASSUME Outcome = "fresh" PROVE k = 0
    BY <1>5 DEF Outcome, k
  <1>6. ASSUME Outcome = "resumed" PROVE k # 0
    BY <1>6 DEF Outcome, k
  (* In every outcome that goes on, the newest package says what was done.   *)
  <1>7. ASSUME Outcome \in {"fresh", "resumed"}, k # 0
        PROVE  Tells(packages[k].pkg, Approved)
    <2>1. CASE m = 0
      BY <1>2, <1>3, <1>7, <2>1 DEF ExecutionIInv, NothingBefore, Agrees
    <2>2. CASE m # 0
      <3>1. PICK i \in DOMAIN packages : packages[i].from = mutators[m]
        BY <1>4, <1>7, <2>2
      <3>2. packages[i].plan = Approved
        BY <1>3, <2>2, <3>1 DEF ExecutionIInv, PackagesInv
      <3>3. i <= k /\ IsNewest(m, Approved)
        BY <1>3, <1>7, <2>2, <3>2 DEF IsNewest
      <3> QED
        BY <1>2, <1>3, <1>7, <2>2, <3>1, <3>3 DEF ExecutionIInv, NewestHolds, Agrees
    <2> QED
      BY <2>1, <2>2
  <1>8. CASE Outcome = "fresh" /\ job' = [job EXCEPT !.step = "source"] /\ UNCHANGED runs
    <2>1. m = 0
      <3>1. SUFFICES ASSUME m # 0 PROVE FALSE
        OBVIOUS
      <3>2. PICK i \in DOMAIN packages : packages[i].from = mutators[m]
        BY <1>4, <1>8, <3>1
      <3>3. packages[i].plan = Approved
        BY <1>3, <3>1, <3>2 DEF ExecutionIInv, PackagesInv
      <3> QED
        BY <1>3, <1>5, <1>8, <3>3
    <2>2. Done(Approved) = {}
      BY <1>2, <1>3, <2>1 DEF ExecutionIInv, NothingBefore
    <2>3. /\ job' \in Jobs /\ job'.run = job.run /\ job'.attempt = job.attempt
          /\ job'.in = job.in /\ job'.step = "source" /\ job'.journal = job.journal
      BY <1>2, <1>8 DEF Jobs, JobSteps
    <2>4. (JobContext /\ JobJournal)'
      <3>1. Done(Approved)' = Done(Approved)
        BY <1>1, <2>3 DEF Done, Approved
      <3> QED
        BY <1>1, <1>2, <2>2, <2>3, <3>1 DEF JobContext, JobJournal
    <2> QED
      BY <1>1, <1>8, <2>3, <2>4, JobGoesOn
  <1>9. CASE /\ Outcome = "resumed" /\ UNCHANGED runs
             /\ job' = [job EXCEPT !.step = "resume", !.pkg = packages[k].pkg]
    <2>1. PICK package \in Contexts : package = packages[k].pkg
      BY <1>3, <1>6, <1>9, Elements DEF ExecutionIInv
    <2>2. /\ package.plan = Approved /\ Reviewed(package)
          /\ Tells(package, Approved)
      BY <1>3, <1>6, <1>7, <1>9, <2>1 DEF ExecutionIInv, PackagesInv
    <2>3. /\ job' \in Jobs /\ job'.run = job.run /\ job'.attempt = job.attempt
          /\ job'.in = job.in /\ job'.step = "resume" /\ job'.journal = job.journal
          /\ job'.pkg = package
      BY <1>2, <1>9, <2>1 DEF Jobs, JobSteps
    <2>4. Done(Approved)' = Done(Approved) /\ Approved' = Approved
      BY <1>1, <2>3 DEF Done, Approved
    <2>5. Reviewed(package)'
      BY <1>9, <2>2 DEF Reviewed, RunIds
    <2>6. JobContext'
      BY <2>2, <2>3, <2>4, <2>5 DEF JobContext, Reviewed
    <2>7. JobJournal'
      BY <1>1, <1>2, <2>2, <2>3, <2>4 DEF JobJournal, Tells
    <2> QED
      BY <1>1, <1>9, <2>3, <2>6, <2>7, JobGoesOn
  <1>10. CASE Conclude("failure") \/ Conclude("success")
    BY <1>1, <1>10, JobEnds DEF Results
  <1> QED
    BY <1>8, <1>9, <1>10 DEF Recover, k

(* A fresh start reviews its own plan, of which nothing was done.           *)
LEMMA RegisterReviewedInv ==
    ASSUME ExecutionTypes, ExecutionIInv, RegisterReviewed PROVE ExecutionIInv'
  <1>1. /\ job # Nil /\ job.step = "source"
        /\ UNCHANGED <<runs, packages, mutators, applied, uncaptured>>
    BY DEF RegisterReviewed, AtStep
  <1>2. PICK h \in Selected :
           /\ h.plan = Approved
           /\ job' = [job EXCEPT !.step = "mark",
                        !.pkg = [plan |-> h.plan, phase |-> "prepared", journal |-> Nil,
                                 review |-> [plan |-> Approved, planRun |-> job.in.planRun,
                                             run |-> job.run, attempt |-> job.attempt]]]
    BY DEF RegisterReviewed, SourceMatches
  <1>3. /\ job \in Jobs /\ JobIdentity /\ JobJournal /\ Approved \in Plans
        /\ job.run \in RunIds /\ job.run \in Nat /\ job.attempt \in Nat /\ job.in \in Inputs
    BY <1>1, JobFields
  <1>4. job.in.planRun \in Nat
    BY <1>3 DEF ExecutionTypes, Inputs
  <1>5. PICK package :
           package = [plan |-> Approved, phase |-> "prepared", journal |-> Nil,
                  review |-> [plan |-> Approved, planRun |-> job.in.planRun,
                              run |-> job.run, attempt |-> job.attempt]]
    OBVIOUS
  <1>6. /\ package \in Contexts /\ package.plan = Approved /\ package.journal = Nil
        /\ package.phase = "prepared" /\ package.review.planRun = job.in.planRun
        /\ package.review.run = job.run /\ job' = [job EXCEPT !.step = "mark", !.pkg = package]
    <2>1. /\ package.plan = Approved /\ package.journal = Nil
          /\ package.phase = "prepared" /\ package.review.planRun = job.in.planRun
          /\ package.review.run = job.run /\ job' = [job EXCEPT !.step = "mark", !.pkg = package]
      BY <1>2, <1>5
    <2>2. package \in Contexts
      BY <1>3, <1>4, <1>5 DEF Contexts, Reviews, Journals
    <2> QED
      BY <2>1, <2>2
  <1>7. /\ job' \in Jobs /\ job'.run = job.run /\ job'.attempt = job.attempt
        /\ job'.in = job.in /\ job'.step = "mark" /\ job'.journal = job.journal
        /\ job'.pkg = package
    BY <1>3, <1>6 DEF Jobs, JobSteps
  <1>8. Done(Approved)' = Done(Approved) /\ Approved' = Approved
    BY <1>1, <1>7 DEF Done, Approved
  <1>9. Reviewed(package)'
    BY <1>1, <1>3, <1>6 DEF Reviewed, RunIds, JobIdentity, Approved
  <1>10. JobContext'
    BY <1>6, <1>7, <1>8, <1>9 DEF JobContext, Reviewed
  <1>11. JobJournal'
    BY <1>1, <1>3, <1>6, <1>7, <1>8 DEF JobJournal, Held
  <1> QED
    BY <1>1, <1>7, <1>10, <1>11, JobGoesOn

(* A resumed job takes over the journal of its package.                     *)
LEMMA CheckResumedInv ==
    ASSUME ExecutionIInv, CheckResumed PROVE ExecutionIInv'
  <1>1. /\ job # Nil /\ job.step = "resume"
        /\ JournalAction(job.pkg) # "refuse" /\ AuthorizationMatches(job.pkg)
        /\ UNCHANGED <<runs, packages, mutators, applied, uncaptured>>
    BY DEF CheckResumed, AtStep
  <1>2. /\ job \in Jobs /\ JobContext /\ JobJournal /\ job.pkg \in Contexts
        /\ Approved \in Plans
    BY <1>1, JobFields DEF JobContext
  (* The journal of the package is the one the job goes on with.             *)
  <1>3. PICK journal \in Journals : journal = job.pkg.journal
    BY <1>2 DEF Contexts
  <1>4. /\ job.pkg.phase # "completed"
        /\ (IF JournalAction(job.pkg) = "install" THEN job.pkg.journal ELSE Nil) = journal
    BY <1>1, <1>3 DEF JournalAction
  <1>5. job' = [job EXCEPT !.step = "mark", !.journal = journal]
    BY <1>4 DEF CheckResumed
  <1>6. /\ job' \in Jobs /\ job'.run = job.run /\ job'.attempt = job.attempt
        /\ job'.in = job.in /\ job'.step = "mark" /\ job'.journal = journal
        /\ job'.pkg = job.pkg
    BY <1>2, <1>5 DEF Jobs, JobSteps
  <1>7. Done(Approved)' = Done(Approved) /\ Approved' = Approved
    BY <1>1, <1>6 DEF Done, Approved
  <1>8. JobContext'
    BY <1>1, <1>2, <1>6, <1>7 DEF JobContext, Reviewed, RunIds
  <1>9. JobJournal'
    <2>1. job.pkg.review.planRun = job.in.planRun /\ Held(journal) = Done(Approved)
      BY <1>1, <1>2, <1>3 DEF AuthorizationMatches, JobJournal, Tells
    <2> QED
      BY <1>3, <1>4, <1>6, <1>7, <2>1 DEF JobJournal
  <1> QED
    BY <1>1, <1>6, <1>8, <1>9, JobGoesOn

(* The package is marked, or uploaded as it is.                             *)
LEMMA MarkDispatchingInv ==
    ASSUME ExecutionIInv, MarkDispatching PROVE ExecutionIInv'
  <1>1. /\ job # Nil /\ job.step = "mark"
        /\ UNCHANGED <<runs, packages, mutators, applied, uncaptured>>
    BY DEF MarkDispatching, AtStep
  <1>2. /\ job \in Jobs /\ JobContext /\ JobJournal /\ job.pkg \in Contexts
        /\ Approved \in Plans
    BY <1>1, JobFields DEF JobContext
  <1>3. CASE job' = [job EXCEPT !.step = "apply", !.pkg.phase = "dispatching"]
    <2>1. PICK package : package = [job.pkg EXCEPT !.phase = "dispatching"]
      OBVIOUS
    <2>2. /\ package \in Contexts /\ package.plan = job.pkg.plan /\ package.phase = "dispatching"
          /\ package.journal = job.pkg.journal /\ package.review = job.pkg.review
      BY <1>2, <2>1 DEF Contexts
    <2>3. job' = [job EXCEPT !.step = "apply", !.pkg = package]
      BY <1>3, <2>1
    <2>4. /\ job' \in Jobs /\ job'.run = job.run /\ job'.attempt = job.attempt
          /\ job'.in = job.in /\ job'.step = "apply" /\ job'.journal = job.journal
          /\ job'.pkg = package
      BY <1>2, <2>2, <2>3 DEF Jobs, JobSteps
    <2>5. Done(Approved)' = Done(Approved) /\ Approved' = Approved
      BY <1>1, <2>4 DEF Done, Approved
    <2>6. JobContext'
      BY <1>1, <1>2, <2>2, <2>4, <2>5 DEF JobContext, Reviewed, RunIds
    <2>7. JobJournal'
      BY <1>1, <1>2, <2>2, <2>4, <2>5 DEF JobJournal
    <2> QED
      BY <1>1, <2>4, <2>6, <2>7, JobGoesOn
  <1>4. CASE job' = [job EXCEPT !.step = "upload"]
    <2>1. /\ job' \in Jobs /\ job'.run = job.run /\ job'.attempt = job.attempt
          /\ job'.in = job.in /\ job'.step = "upload" /\ job'.journal = job.journal
          /\ job'.pkg = job.pkg
      BY <1>2, <1>4 DEF Jobs, JobSteps
    <2>2. Done(Approved)' = Done(Approved) /\ Approved' = Approved
      BY <1>1, <2>1 DEF Done, Approved
    <2>3. JobContext'
      BY <1>1, <1>2, <2>1, <2>2 DEF JobContext, Reviewed, RunIds
    <2>4. JobJournal'
      BY <1>1, <1>2, <2>1, <2>2 DEF JobJournal, Tells
    <2> QED
      BY <1>1, <2>1, <2>3, <2>4, JobGoesOn
  <1> QED
    BY <1>3, <1>4 DEF MarkDispatching

(* All that is done was carried out.                                        *)
LEMMA DoneIsApplied ==
    ASSUME ExecutionIInv, NEW p \in Plans, Done(p) = Ops PROVE AllApplied(p)
  <1> SUFFICES ASSUME NEW o \in Ops PROVE applied[p][o] >= 1
    BY DEF AllApplied
  <1>1. applied[p][o] = uncaptured[p][o] + 1
    BY DEF Done
  <1>2. uncaptured[p][o] \in Nat
    BY DEF ExecutionIInv, ExecutionTypeOK
  <1> QED
    BY <1>1, <1>2

(* What a job has journaled is what was done.                               *)
LEMMA JournaledIsDone ==
    ASSUME ExecutionIInv, job # Nil, job.step \in {"mark", "apply", "capture"}
    PROVE  Journaled = Done(Approved) /\ Held(job.journal) = Done(Approved)
  BY DEF ExecutionIInv, JobInv, JobJournal, Journaled, Held

(* The apply ends with the journal it has.                                  *)
LEMMA EndApplyInv ==
    ASSUME ExecutionIInv, EndApply PROVE ExecutionIInv'
  <1>1. /\ job # Nil /\ job.step = "apply" /\ ApplyStarted
        /\ UNCHANGED <<runs, packages, mutators, applied, uncaptured>>
    BY DEF EndApply, AtStep
  <1>2. /\ job \in Jobs /\ JobContext /\ JobJournal /\ Approved \in Plans
    BY <1>1, JobFields
  <1>3. PICK result \in {"success", "failure"} :
            /\ result = "success" => Journaled = Ops
            /\ job' = [job EXCEPT !.step = "capture", !.result = result]
    BY DEF EndApply
  <1>4. /\ job' \in Jobs /\ job'.run = job.run /\ job'.attempt = job.attempt
        /\ job'.in = job.in /\ job'.step = "capture" /\ job'.journal = job.journal
        /\ job'.pkg = job.pkg /\ job'.result = result
    BY <1>2, <1>3 DEF Jobs, JobSteps, Results
  <1>5. Done(Approved)' = Done(Approved) /\ Approved' = Approved
    BY <1>1, <1>4 DEF Done, Approved
  <1>6. JobContext'
    BY <1>1, <1>2, <1>4, <1>5 DEF JobContext, Reviewed, RunIds
  <1>7. JobJournal'
    BY <1>1, <1>2, <1>3, <1>4, <1>5, JournaledIsDone DEF JobJournal
  <1> QED
    BY <1>1, <1>4, <1>6, <1>7, JobGoesOn

(* The journal of the job enters its package.                               *)
LEMMA CaptureJournalInv ==
    ASSUME ExecutionIInv, CaptureJournal PROVE ExecutionIInv'
  <1>1. /\ job # Nil /\ job.step = "capture"
        /\ UNCHANGED <<runs, packages, mutators, applied, uncaptured>>
    BY DEF CaptureJournal, AtStep
  <1>2. /\ job \in Jobs /\ JobContext /\ JobJournal /\ job.pkg \in Contexts
        /\ Approved \in Plans /\ job.journal \in Journals
    BY <1>1, JobFields DEF JobContext
  <1>3. PICK package :
           package = [job.pkg EXCEPT !.journal = IF job.journal = Nil THEN @ ELSE job.journal,
                                 !.phase = IF Completed(job.result) THEN "completed" ELSE @]
    OBVIOUS
  <1>4. /\ package \in Contexts /\ package.plan = job.pkg.plan /\ package.review = job.pkg.review
        /\ package.journal = IF job.journal = Nil THEN job.pkg.journal ELSE job.journal
        /\ package.phase = IF job.result = "success" THEN "completed" ELSE job.pkg.phase
    BY <1>2, <1>3 DEF Contexts, Completed
  <1>5. job' = [job EXCEPT !.step = "upload", !.pkg = package]
    BY <1>3 DEF CaptureJournal
  <1>6. /\ job' \in Jobs /\ job'.run = job.run /\ job'.attempt = job.attempt
        /\ job'.in = job.in /\ job'.step = "upload" /\ job'.pkg = package
    BY <1>2, <1>4, <1>5 DEF Jobs, JobSteps
  <1>7. Done(Approved)' = Done(Approved) /\ Approved' = Approved
    BY <1>1, <1>6 DEF Done, Approved
  <1>8. JobContext'
    BY <1>1, <1>2, <1>4, <1>6, <1>7 DEF JobContext, Reviewed, RunIds
  <1>9. JobJournal'
    <2>1. Held(package.journal) = Done(Approved)
      BY <1>1, <1>2, <1>4 DEF JobJournal
    <2>2. package.phase = "completed" => Done(Approved) = Ops
      BY <1>1, <1>2, <1>4 DEF JobJournal
    <2>3. AllApplied(Approved)' <=> AllApplied(Approved)
      BY <1>1, <1>7 DEF AllApplied
    <2>4. Done(Approved) = Ops => AllApplied(Approved)
      BY <1>2, DoneIsApplied
    <2> QED
      BY <1>6, <1>7, <2>1, <2>2, <2>3, <2>4 DEF JobJournal, Tells
  <1> QED
    BY <1>1, <1>6, <1>8, <1>9, JobGoesOn

(* The name of the running job, and that it is of its plan.                 *)
LEMMA FromFacts ==
    ASSUME ExecutionIInv, job # Nil, job.step \notin {"preview", "checkpoint"}
    PROVE  /\ From \in Froms /\ From.plan = Approved /\ OfJob(From) /\ Past(From)
           /\ \A i \in DOMAIN packages : packages[i].from # From
  <1>1. /\ job.run \in Nat /\ job.attempt \in Nat /\ job.run \in RunIds /\ JobIdentity
        /\ Approved \in Plans
    BY JobFields
  <1>2. From.plan = Approved /\ From.run = job.run /\ From.attempt = job.attempt
    BY DEF From
  <1>3. From \in Froms
    BY <1>1 DEF From, Froms
  <1>4. Past(From)
    BY <1>1, <1>2 DEF Past, JobIdentity
  <1>5. \A i \in DOMAIN packages : packages[i].from # From
    BY <1>1, <1>2 DEF JobIdentity, OfJob
  <1> QED
    BY <1>2, <1>3, <1>4, <1>5 DEF OfJob

(* The job becomes the newest that mutates, with no package of its own.     *)
LEMMA StartApplyInv ==
    ASSUME ExecutionIInv, StartApply PROVE ExecutionIInv'
  <1>1. /\ job # Nil /\ job.step = "apply" /\ mutators' = Append(mutators, From)
        /\ UNCHANGED <<runs, job, packages, applied, uncaptured>>
    BY DEF StartApply, AtStep
  <1> DEFINE last == Len(mutators) + 1
  <1>2. /\ JobIdentity /\ JobContext /\ JobJournal
        /\ From \in Froms /\ From.plan = Approved /\ Past(From)
        /\ \A i \in DOMAIN packages : packages[i].from # From
    BY <1>1, JobFields, FromFacts
  <1>3. /\ mutators' \in Seq(Froms) /\ Len(mutators') = last
        /\ DOMAIN mutators' = DOMAIN mutators \cup {last}
        /\ DOMAIN mutators \subseteq Nat /\ last \notin DOMAIN mutators
        /\ \A n \in DOMAIN mutators : mutators'[n] = mutators[n] /\ n <= last
        /\ mutators'[last] = From /\ last \in Nat
    BY <1>1, <1>2 DEF ExecutionIInv, ExecutionTypeOK
  <1> HIDE DEF last
  <1>4. ExecutionTypeOK' /\ CountsInv' /\ RunsValid' /\ PackagesInv'
    BY <1>1, <1>3 DEF ExecutionIInv, ExecutionTypeOK, CountsInv, RunsValid, PackagesInv, RunIds, Reviewed, Past,
       AllApplied
  <1>5. MutatorsInv'
    BY <1>1, <1>2, <1>3 DEF ExecutionIInv, MutatorsInv, Past, RunIds
  <1>6. NewestHolds'
    <2>1. ASSUME NEW p \in Plans, NEW n \in DOMAIN mutators', IsNewest(n, p)',
                 NEW i \in DOMAIN packages, NEW k \in DOMAIN packages,
                 packages[i].from = mutators'[n], i <= k
          PROVE  Agrees(k, p)
      <3>1. n \in DOMAIN mutators
        BY <1>2, <1>3, <2>1
      <3>2. IsNewest(n, p)
        BY <1>3, <2>1, <3>1 DEF IsNewest
      <3> QED
        BY <1>3, <2>1, <3>1, <3>2 DEF ExecutionIInv, NewestHolds
    <2> QED
      BY <1>1, <2>1 DEF NewestHolds, Agrees, Tells, Done
  <1>7. NothingBefore'
    <2>1. ASSUME NEW p \in Plans, \A n \in DOMAIN mutators' : mutators'[n].plan # p
          PROVE  Done(p) = {} /\ \A k \in DOMAIN packages : Agrees(k, p)
      <3>1. \A n \in DOMAIN mutators : mutators[n].plan # p
        BY <1>3, <2>1
      <3> QED
        BY <3>1 DEF ExecutionIInv, NothingBefore
    <2> QED
      BY <1>1, <2>1 DEF NothingBefore, Agrees, Tells, Done
  <1>8. JobIdentity'
    BY <1>1, <1>2 DEF JobIdentity, OfJob, RunIds
  <1>9. JobMutates'
    BY <1>1, <1>3 DEF JobMutates, From, Approved
  <1>10. JobContext' /\ JobJournal'
    BY <1>1, <1>2 DEF JobContext, JobJournal, Reviewed, RunIds, Done, Approved
  <1> QED
    BY <1>4, <1>5, <1>6, <1>7, <1>8, <1>9, <1>10 DEF ExecutionIInv, JobInv

(* An operation is carried out and journaled.                               *)
LEMMA ApplyOperationInv ==
    ASSUME ExecutionTypes, ExecutionIInv, ApplyOperation PROVE ExecutionIInv'
  <1>1. /\ job # Nil /\ job.step = "apply" /\ ApplyStarted
        /\ UNCHANGED <<runs, packages, mutators, uncaptured>>
    BY DEF ApplyOperation, AtStep
  <1>2. PICK o \in Ops \ Journaled :
            /\ applied' = [applied EXCEPT ![job.pkg.plan][o] = @ + 1]
            /\ job' = [job EXCEPT !.journal = Journaled \cup {o}]
    BY DEF ApplyOperation
  <1>3. /\ job \in Jobs /\ JobIdentity /\ JobMutates /\ JobContext /\ JobJournal
        /\ Approved \in Plans /\ job.pkg.plan = Approved
        /\ Journaled = Done(Approved)
        /\ From.plan = Approved /\ \A i \in DOMAIN packages : packages[i].from # From
    BY <1>1, JobFields, FromFacts, JournaledIsDone DEF JobContext
  <1>4. PICK q \in Plans : q = Approved
    BY <1>3
  <1>5. /\ applied[q] \in [Ops -> Nat] /\ uncaptured[q] \in [Ops -> Nat]
        /\ applied[q][o] = uncaptured[q][o]
    <2>1. applied[q] \in [Ops -> Nat] /\ uncaptured[q] \in [Ops -> Nat] /\ o \notin Done(q)
      BY <1>2, <1>3, <1>4 DEF ExecutionIInv, ExecutionTypeOK
    <2> QED
      BY <1>2, <2>1 DEF ExecutionIInv, CountsInv, Done
  <1>6. /\ applied' = [applied EXCEPT ![q] = [applied[q] EXCEPT ![o] = applied[q][o] + 1]]
        /\ applied' \in [Plans -> [Ops -> Nat]]
        /\ applied'[q] = [applied[q] EXCEPT ![o] = applied[q][o] + 1]
        /\ \A p \in Plans \ {q} : applied'[p] = applied[p]
    <2>1. applied' = [applied EXCEPT ![q] = [applied[q] EXCEPT ![o] = applied[q][o] + 1]]
      BY <1>2, <1>3, <1>4
    <2>2. applied[q][o] + 1 \in Nat
      BY <1>2, <1>5
    <2> QED
      BY <1>5, <2>1, <2>2 DEF ExecutionIInv, ExecutionTypeOK
  <1>7. /\ Done(q)' = Done(q) \cup {o} /\ o \notin Done(q) /\ o \in Ops
        /\ \A p \in Plans \ {q} : Done(p)' = Done(p)
    BY <1>1, <1>2, <1>3, <1>4, <1>5, <1>6 DEF Done
  <1>8. PICK journal : journal = Journaled \cup {o}
    OBVIOUS
  <1>9. /\ journal \in SUBSET Ops /\ journal \in Journals /\ journal # Nil
        /\ journal = Done(q)'
    BY <1>2, <1>3, <1>4, <1>7, <1>8 DEF Done, Journals, ExecutionTypes
  <1>10. job' = [job EXCEPT !.journal = journal]
    BY <1>2, <1>8
  <1>11. /\ job' \in Jobs /\ job'.run = job.run /\ job'.attempt = job.attempt
         /\ job'.in = job.in /\ job'.step = "apply" /\ job'.journal = journal
         /\ job'.pkg = job.pkg
    BY <1>1, <1>3, <1>9, <1>10 DEF Jobs
  <1>12. From' = From /\ Approved' = q
    BY <1>4, <1>11 DEF From, Approved
  <1>13. ExecutionTypeOK' /\ RunsValid' /\ MutatorsInv'
    BY <1>1, <1>6, <1>11 DEF ExecutionIInv, ExecutionTypeOK, RunsValid, MutatorsInv, Past, RunIds
  <1>c. CountsInv' /\ \A p \in Plans : AllApplied(p) => AllApplied(p)'
    <2>1. ASSUME NEW p \in Plans, NEW x \in Ops
          PROVE  /\ \/ applied'[p][x] = uncaptured[p][x]
                    \/ applied'[p][x] = uncaptured[p][x] + 1
                 /\ applied[p][x] >= 1 => applied'[p][x] >= 1
      <3>1. /\ applied[p][x] \in Nat /\ uncaptured[p][x] \in Nat
            /\ applied[p][x] = uncaptured[p][x] \/ applied[p][x] = uncaptured[p][x] + 1
        BY DEF ExecutionIInv, ExecutionTypeOK, CountsInv
      <3>2. CASE p = q /\ x = o
        BY <1>2, <1>5, <1>6, <3>1, <3>2
      <3>3. CASE p = q /\ x # o
        BY <1>2, <1>5, <1>6, <3>1, <3>3
      <3>4. CASE p # q
        BY <1>6, <3>1, <3>4
      <3> QED
        BY <3>2, <3>3, <3>4
    <2> QED
      BY <1>1, <2>1 DEF CountsInv, AllApplied
  <1>14. PackagesInv'
    <2>1. ASSUME NEW i \in DOMAIN packages, packages[i].settled
          PROVE  AllApplied(packages[i].plan)'
      <3>1. AllApplied(packages[i].plan)
        BY <2>1 DEF ExecutionIInv, PackagesInv
      <3>2. PICK p \in Plans : p = packages[i].plan
        BY Elements DEF ExecutionIInv
      <3>3. AllApplied(p)'
        BY <1>c, <3>1, <3>2
      <3> QED
        BY <1>1, <3>2, <3>3
    <2> QED
      BY <1>1, <2>1 DEF ExecutionIInv, PackagesInv, Reviewed, Past, RunIds
  (* This job is the newest that mutates the plan, and has no package yet.   *)
  <1>15. NewestHolds'
    <2>1. ASSUME NEW p \in Plans, NEW n \in DOMAIN mutators, IsNewest(n, p),
                 NEW i \in DOMAIN packages, NEW k \in DOMAIN packages,
                 packages[i].from = mutators[n], i <= k
          PROVE  Agrees(k, p)'
      <3>1. Agrees(k, p)
        BY <2>1 DEF ExecutionIInv, NewestHolds
      <3>2. p # q
        <4>1. SUFFICES ASSUME p = q PROVE FALSE
          OBVIOUS
        <4>2. /\ mutators[Len(mutators)] = From /\ Len(mutators) \in DOMAIN mutators
              /\ DOMAIN mutators = 1 .. Len(mutators) /\ Len(mutators) \in Nat
          BY <1>1, <1>3 DEF JobMutates, ApplyStarted, ExecutionIInv, ExecutionTypeOK
        <4>3. Len(mutators) <= n
          BY <1>3, <1>4, <2>1, <4>1, <4>2 DEF IsNewest
        <4>4. n = Len(mutators)
          BY <4>2, <4>3
        <4> QED
          BY <1>3, <2>1, <4>2, <4>4
      <3> QED
        BY <1>1, <1>7, <3>1, <3>2 DEF Agrees, Tells
    <2> QED
      BY <1>1, <2>1 DEF NewestHolds, IsNewest
  <1>16. NothingBefore'
    <2>1. \E n \in DOMAIN mutators : mutators[n].plan = q
      BY <1>1, <1>3, <1>4 DEF ApplyStarted
    <2> QED
      BY <1>1, <1>7, <2>1 DEF ExecutionIInv, NothingBefore, Agrees, Tells
  <1>17. JobIdentity'
    BY <1>1, <1>3, <1>11 DEF JobIdentity, OfJob, RunIds
  <1>18. JobMutates'
    BY <1>1, <1>3, <1>11, <1>12 DEF JobMutates
  <1>19. JobContext'
    BY <1>1, <1>3, <1>4, <1>11, <1>12 DEF JobContext, Reviewed, RunIds
  <1>20. JobJournal'
    <2>1. Held(job.pkg.journal) \subseteq journal /\ Held(journal) = Done(q)'
      BY <1>1, <1>3, <1>4, <1>7, <1>9 DEF JobJournal, Held
    <2> QED
      BY <1>1, <1>3, <1>9, <1>11, <1>12, <2>1 DEF JobJournal, Held
  <1> QED
    BY <1>13, <1>c, <1>14, <1>15, <1>16, <1>17, <1>18, <1>19, <1>20 DEF ExecutionIInv, JobInv

(* A failed capture takes from what counts as done what only the journal of *)
(* the job holds; this job is the newest that mutates its plan, and has no  *)
(* package yet.                                                             *)
LEMMA FailCaptureInv ==
    ASSUME ExecutionIInv, FailCapture PROVE ExecutionIInv'
  <1>1. /\ job # Nil /\ job.step = "capture"
        /\ UNCHANGED <<runs, packages, mutators, applied>>
    BY DEF FailCapture, AtStep
  <1>2. /\ job \in Jobs /\ JobIdentity /\ JobMutates /\ JobContext /\ JobJournal
        /\ Approved \in Plans /\ job.pkg \in Contexts /\ job.journal \in Journals
        /\ job.pkg.phase = "dispatching"
        /\ Journaled = Done(Approved) /\ Held(job.journal) = Done(Approved)
        /\ Held(job.pkg.journal) \subseteq Done(Approved)
        /\ From.plan = Approved /\ \A i \in DOMAIN packages : packages[i].from # From
    BY <1>1, JobFields, FromFacts, JournaledIsDone DEF JobContext, JobJournal
  <1>3. PICK q \in Plans : q = Approved
    BY <1>2
  <1>4. CASE /\ job.journal # Nil /\ Completed(job.result)
             /\ job' = [job EXCEPT !.step = "upload", !.pkg.journal = job.journal]
             /\ UNCHANGED uncaptured
    <2>1. PICK package : package = [job.pkg EXCEPT !.journal = job.journal]
      OBVIOUS
    <2>2. /\ package \in Contexts /\ package.plan = job.pkg.plan
          /\ package.review = job.pkg.review /\ package.journal = job.journal
          /\ package.phase = "dispatching"
      BY <1>2, <2>1 DEF Contexts
    <2>3. job' = [job EXCEPT !.step = "upload", !.pkg = package]
      BY <1>4, <2>1
    <2>4. /\ job' \in Jobs /\ job'.run = job.run /\ job'.attempt = job.attempt
          /\ job'.in = job.in /\ job'.step = "upload" /\ job'.pkg = package
      BY <1>2, <2>2, <2>3 DEF Jobs, JobSteps
    <2>5. Done(Approved)' = Done(Approved) /\ Approved' = Approved
      BY <1>1, <1>4, <2>4 DEF Done, Approved
    <2>6. JobContext'
      BY <1>1, <1>2, <2>2, <2>4, <2>5 DEF JobContext, Reviewed, RunIds
    <2>7. JobJournal'
      BY <1>2, <2>2, <2>4, <2>5 DEF JobJournal, Tells
    <2> QED
      BY <1>1, <1>4, <2>4, <2>6, <2>7, JobGoesOn
  <1>5. CASE /\ job' = [job EXCEPT !.step = "upload"]
             /\ uncaptured' = [uncaptured EXCEPT ![Approved] = [o \in Ops |->
                   IF job.pkg.journal # Nil /\ o \in Journaled \ job.pkg.journal
                   THEN uncaptured[Approved][o] + 1 ELSE uncaptured[Approved][o]]]
    <2>1. /\ job' \in Jobs /\ job'.run = job.run /\ job'.attempt = job.attempt
          /\ job'.in = job.in /\ job'.step = "upload" /\ job'.pkg = job.pkg
      BY <1>2, <1>5 DEF Jobs, JobSteps
    <2>2. Approved' = q /\ From' = From
      BY <1>3, <2>1 DEF Approved, From
    <2> DEFINE lost(o) == job.pkg.journal # Nil /\ o \in Done(q) /\ o \notin job.pkg.journal
               tally == [o \in Ops |-> IF lost(o) THEN uncaptured[q][o] + 1
                                       ELSE uncaptured[q][o]]
    <2>3. uncaptured' = [uncaptured EXCEPT ![q] = tally]
      BY <1>2, <1>3, <1>5
    <2>4. \A o \in Ops : /\ lost(o) => tally[o] = uncaptured[q][o] + 1
                         /\ ~ lost(o) => tally[o] = uncaptured[q][o]
      OBVIOUS
    <2>5. uncaptured \in [Plans -> [Ops -> Nat]] /\ applied \in [Plans -> [Ops -> Nat]]
      BY DEF ExecutionIInv, ExecutionTypeOK
    <2>6. tally \in [Ops -> Nat]
      BY <2>5
    <2>7. /\ \A o : lost(o) <=> /\ job.pkg.journal # Nil
                               /\ o \in Done(q) /\ o \notin job.pkg.journal
          /\ \A o : lost(o) => o \in Done(q)
      OBVIOUS
    <2> HIDE DEF lost, tally
    <2>8. /\ uncaptured' \in [Plans -> [Ops -> Nat]] /\ uncaptured'[q] = tally
          /\ \A p \in Plans \ {q} : uncaptured'[p] = uncaptured[p]
      BY <2>3, <2>5, <2>6
    <2>9. /\ \A p \in Plans \ {q} : Done(p)' = Done(p)
          /\ \A p : AllApplied(p)' = AllApplied(p)
      BY <1>1, <2>8 DEF Done, AllApplied
    <2>10. ASSUME NEW o \in Ops
           PROVE  /\ o \in Done(q)' <=> o \in Done(q) /\ ~ lost(o)
                  /\ \/ applied'[q][o] = uncaptured'[q][o]
                     \/ applied'[q][o] = uncaptured'[q][o] + 1
      <3>1. /\ applied[q][o] \in Nat /\ uncaptured[q][o] \in Nat
            /\ applied[q][o] = uncaptured[q][o] \/ applied[q][o] = uncaptured[q][o] + 1
            /\ o \in Done(q) <=> applied[q][o] = uncaptured[q][o] + 1
            /\ o \in Done(q)' <=> applied'[q][o] = uncaptured'[q][o] + 1
            /\ applied'[q][o] = applied[q][o]
        BY <1>1, <2>5 DEF ExecutionIInv, CountsInv, Done
      <3>2. CASE lost(o)
        <4>1. uncaptured'[q][o] = uncaptured[q][o] + 1 /\ o \in Done(q)
          BY <2>4, <2>7, <2>8, <3>2
        <4> QED
          BY <3>1, <3>2, <4>1
      <3>3. CASE ~ lost(o)
        <4>1. uncaptured'[q][o] = uncaptured[q][o]
          BY <2>4, <2>8, <3>3
        <4> QED
          BY <3>1, <3>3, <4>1
      <3> QED
        BY <3>2, <3>3
    (* What is still done is what the package holds, if it may be resumed.     *)
    <2>11. job.pkg.journal # Nil => Done(q)' = job.pkg.journal
      <3>1. SUFFICES ASSUME job.pkg.journal # Nil PROVE Done(q)' = job.pkg.journal
        OBVIOUS
      <3>2. job.pkg.journal \subseteq Done(q) /\ Done(q) \subseteq Ops /\ Done(q)' \subseteq Ops
        BY <1>2, <1>3, <3>1 DEF Held, Done
      <3>3. \A o \in Ops : o \in Done(q)' <=> o \in job.pkg.journal
        BY <2>7, <2>10, <3>1, <3>2
      <3> QED
        BY <3>2, <3>3
    <2>12. Tells(job.pkg, q)'
      <3>1. CASE job.pkg.journal = Nil
        BY <1>2, <2>1, <3>1 DEF Tells, JournalAction
      <3>2. CASE job.pkg.journal # Nil
        BY <2>1, <2>11, <3>2 DEF Tells, Held
      <3> QED
        BY <3>1, <3>2
    <2>13. ExecutionTypeOK' /\ RunsValid' /\ MutatorsInv'
      BY <1>1, <2>1, <2>8 DEF ExecutionIInv, ExecutionTypeOK, RunsValid, MutatorsInv, Past, RunIds
    <2>14. CountsInv'
      <3>1. ASSUME NEW p \in Plans, NEW o \in Ops
            PROVE  \/ applied'[p][o] = uncaptured'[p][o]
                   \/ applied'[p][o] = uncaptured'[p][o] + 1
        <4>1. CASE p = q
          BY <2>10, <4>1
        <4>2. CASE p # q
          BY <1>1, <2>8, <4>2 DEF ExecutionIInv, CountsInv
        <4> QED
          BY <4>1, <4>2
      <3> QED
        BY <3>1 DEF CountsInv
    <2>15. PackagesInv'
      BY <1>1, <2>9 DEF ExecutionIInv, PackagesInv, Reviewed, Past, RunIds
    <2>16. NewestHolds'
      <3>1. ASSUME NEW p \in Plans, NEW n \in DOMAIN mutators, IsNewest(n, p),
                   NEW i \in DOMAIN packages, NEW k \in DOMAIN packages,
                   packages[i].from = mutators[n], i <= k
            PROVE  Agrees(k, p)'
        <4>1. Agrees(k, p)
          BY <3>1 DEF ExecutionIInv, NewestHolds
        <4>2. p # q
          <5>1. SUFFICES ASSUME p = q PROVE FALSE
            OBVIOUS
          <5>2. /\ mutators[Len(mutators)] = From /\ Len(mutators) \in DOMAIN mutators
                /\ DOMAIN mutators = 1 .. Len(mutators) /\ Len(mutators) \in Nat
            BY <1>1, <1>2 DEF JobMutates, ApplyStarted, ExecutionIInv, ExecutionTypeOK
          <5>3. Len(mutators) <= n
            BY <1>2, <1>3, <3>1, <5>1, <5>2 DEF IsNewest
          <5>4. n = Len(mutators)
            BY <5>2, <5>3
          <5> QED
            BY <1>2, <3>1, <5>2, <5>4
        <4> QED
          BY <1>1, <2>9, <4>1, <4>2 DEF Agrees, Tells
      <3> QED
        BY <1>1, <3>1 DEF NewestHolds, IsNewest
    <2>17. NothingBefore'
      <3>1. \E n \in DOMAIN mutators : mutators[n].plan = q
        BY <1>1, <1>2, <1>3 DEF JobMutates, ApplyStarted
      <3> QED
        BY <1>1, <2>9, <3>1 DEF ExecutionIInv, NothingBefore, Agrees, Tells
    <2>18. JobIdentity'
      BY <1>1, <1>2, <2>1 DEF JobIdentity, OfJob, RunIds
    <2>19. JobMutates'
      BY <1>1, <1>2, <2>1 DEF JobMutates
    <2>20. JobContext'
      BY <1>1, <1>2, <1>3, <2>1, <2>2 DEF JobContext, Reviewed, RunIds
    <2>21. JobJournal'
      BY <1>2, <2>1, <2>2, <2>12 DEF JobJournal
    <2> QED
      BY <2>13, <2>14, <2>15, <2>16, <2>17, <2>18, <2>19, <2>20, <2>21 DEF ExecutionIInv, JobInv
  <1> QED
    BY <1>4, <1>5 DEF FailCapture

(* The uploaded package tells what was done, or is refused by later jobs.   *)
LEMMA UploadPackageInv ==
    ASSUME ExecutionIInv, UploadPackage PROVE ExecutionIInv'
  <1>1. /\ job # Nil /\ job.step = "upload" /\ UNCHANGED <<mutators, applied, uncaptured>>
    BY DEF UploadPackage, AtStep
  <1>2. PICK finalized \in BOOLEAN :
            packages' = Append(packages, [plan |-> Approved, from |-> From, pkg |-> job.pkg,
                                settled |-> finalized /\ job.pkg.phase = "completed"])
    BY DEF UploadPackage
  <1>3. PICK e :
            e = [plan |-> Approved, from |-> From, pkg |-> job.pkg,
                 settled |-> finalized /\ job.pkg.phase = "completed"]
    OBVIOUS
  <1>4. /\ Approved \in Plans /\ JobContext /\ JobJournal
        /\ From \in Froms /\ From.plan = Approved /\ Past(From)
        /\ job.pkg \in Contexts /\ job.pkg.plan = Approved /\ Reviewed(job.pkg)
        /\ job.run \in RunIds
    BY <1>1, JobFields, FromFacts DEF JobContext
  <1>5. PICK q \in Plans : q = Approved
    BY <1>4
  <1>6. /\ e \in Packages /\ e.plan = q /\ e.from = From /\ e.pkg = job.pkg
        /\ e.settled => job.pkg.phase = "completed"
    BY <1>3, <1>4, <1>5 DEF Packages
  <1>7. /\ e.pkg.plan = e.plan /\ e.from.plan = e.plan /\ Reviewed(e.pkg) /\ Past(e.from)
        /\ e.settled => AllApplied(e.plan)
        /\ Tells(e.pkg, q)
    BY <1>1, <1>4, <1>5, <1>6 DEF JobJournal
  <1>last. PICK last : last = Len(packages) + 1
    OBVIOUS
  <1>8. /\ packages' \in Seq(Packages)
        /\ DOMAIN packages' = DOMAIN packages \cup {last}
        /\ DOMAIN packages \subseteq Nat /\ last \notin DOMAIN packages
        /\ \A i \in DOMAIN packages : packages'[i] = packages[i] /\ i < last
        /\ packages'[last] = e /\ last \in Nat
    BY <1>2, <1>3, <1>6, <1>last DEF ExecutionIInv, ExecutionTypeOK
  <1>9. PICK c \in Results : Conclude(c)
    BY DEF UploadPackage, Results
  <1>10. /\ runs' \in Seq(RunRecords) /\ RunIds' = RunIds /\ job' = Nil
         /\ \A r \in RunIds : /\ runs'[r].in = runs[r].in
                              /\ runs'[r].attempt = runs[r].attempt
    BY <1>4, <1>9, Concluded
  <1>11. ExecutionTypeOK' /\ CountsInv' /\ RunsValid' /\ JobInv'
    BY <1>1, <1>8, <1>10 DEF ExecutionIInv, ExecutionTypeOK, CountsInv, RunsValid, JobInv
  <1>12. /\ \A package : Reviewed(package) => Reviewed(package)'
         /\ \A from : Past(from) => Past(from)'
         /\ \A p : Done(p)' = Done(p) /\ AllApplied(p)' = AllApplied(p)
    BY <1>1, <1>10 DEF Reviewed, Past, Done, AllApplied
  <1>13. PackagesInv'
    <2>1. ASSUME NEW i \in DOMAIN packages'
          PROVE  /\ packages'[i].pkg.plan = packages'[i].plan
                 /\ packages'[i].from.plan = packages'[i].plan
                 /\ Reviewed(packages'[i].pkg) /\ Past(packages'[i].from)
                 /\ packages'[i].settled => AllApplied(packages'[i].plan)
      <3>1. CASE i = last
        BY <1>7, <1>8, <3>1
      <3>2. CASE i \in DOMAIN packages
        BY <1>8, <3>2 DEF ExecutionIInv, PackagesInv
      <3> QED
        BY <1>8, <3>1, <3>2
    <2> QED
      BY <1>12, <2>1 DEF PackagesInv
  <1>14. MutatorsInv'
    BY <1>1, <1>12 DEF ExecutionIInv, MutatorsInv
  <1>15. Agrees(last, q)' /\ \A p \in Plans \ {q} : Agrees(last, p)'
    BY <1>6, <1>7, <1>8, <1>12 DEF Agrees, Tells
  <1>16. NewestHolds'
    <2>1. ASSUME NEW p \in Plans, NEW n \in DOMAIN mutators, IsNewest(n, p),
                 NEW i \in DOMAIN packages', NEW k \in DOMAIN packages',
                 packages'[i].from = mutators[n], i <= k
          PROVE  Agrees(k, p)'
      <3>1. CASE k = last
        BY <1>15, <3>1
      <3>2. CASE k \in DOMAIN packages
        <4>1. i \in DOMAIN packages
          BY <1>8, <2>1, <3>2
        <4>2. Agrees(k, p)
          BY <1>8, <2>1, <3>2, <4>1 DEF ExecutionIInv, NewestHolds
        <4> QED
          BY <1>8, <1>12, <3>2, <4>2 DEF Agrees, Tells
      <3> QED
        BY <1>8, <3>1, <3>2
    <2> QED
      BY <1>1, <2>1 DEF NewestHolds, IsNewest
  <1>17. NothingBefore'
    <2>1. ASSUME NEW p \in Plans, \A n \in DOMAIN mutators : mutators[n].plan # p
          PROVE  (Done(p) = {} /\ \A k \in DOMAIN packages : Agrees(k, p))'
      <3>1. Done(p) = {} /\ \A k \in DOMAIN packages : Agrees(k, p)
        BY <2>1 DEF ExecutionIInv, NothingBefore
      <3>2. ASSUME NEW k \in DOMAIN packages' PROVE Agrees(k, p)'
        <4>1. CASE k = last
          BY <1>15, <4>1
        <4>2. CASE k \in DOMAIN packages
          BY <1>8, <1>12, <3>1, <4>2 DEF Agrees, Tells
        <4> QED
          BY <1>8, <4>1, <4>2
      <3> QED
        BY <1>12, <3>1, <3>2
    <2> QED
      BY <1>1, <2>1 DEF NothingBefore
  <1> QED
    BY <1>11, <1>13, <1>14, <1>16, <1>17 DEF ExecutionIInv

(* A package is removed, and those after it move up.                        *)
LEMMA ExpireInv ==
    ASSUME ExecutionIInv, Expire PROVE ExecutionIInv'
  <1>1. /\ job = Nil /\ UNCHANGED <<runs, job, mutators, applied, uncaptured>>
    BY DEF Expire
  <1>2. CASE UNCHANGED packages
    <2>1. ExecutionIInv => (ExecutionTypeOK /\ CountsInv /\ RunsValid /\ PackagesInv /\ MutatorsInv)'
      BY <1>1, <1>2 DEF ExecutionIInv, ExecutionTypeOK, CountsInv, RunsValid, PackagesInv, MutatorsInv,
           Reviewed, Past, AllApplied, RunIds
    <2>2. ExecutionIInv => (NewestHolds /\ NothingBefore)'
      BY <1>1, <1>2 DEF ExecutionIInv, NewestHolds, NothingBefore, IsNewest, Agrees, Tells, Done
    <2> QED
      BY <1>1, <2>1, <2>2 DEF ExecutionIInv, JobInv
  <1>3. ASSUME NEW d \in DOMAIN packages, packages' = RemoveAt(packages, d)
        PROVE  ExecutionIInv'
    <2> DEFINE old(k) == IF k < d THEN k ELSE k + 1
    <2>1. packages \in Seq(Packages) /\ Len(packages) \in Nat /\ DOMAIN packages = 1 .. Len(packages)
      BY DEF ExecutionIInv, ExecutionTypeOK
    <2>2. /\ packages' \in Seq(Packages)
          /\ DOMAIN packages' = 1 .. Len(packages) - 1
          /\ \A k \in DOMAIN packages' : packages'[k] = packages[old(k)]
      <3>1. /\ RemoveAt(packages, d) \in Seq(Packages)
            /\ Len(RemoveAt(packages, d)) = Len(packages) - 1
            /\ \A k \in 1 .. Len(packages) - 1 :
                 RemoveAt(packages, d)[k] = IF k < d THEN packages[k] ELSE packages[k + 1]
        BY <2>1, RemoveAtFacts
      <3> QED
        BY <1>3, <2>1, <3>1
    <2>3. /\ \A k \in DOMAIN packages' : old(k) \in DOMAIN packages
          /\ \A i, k \in DOMAIN packages' : i <= k => old(i) <= old(k)
      BY <2>1, <2>2
    <2> HIDE DEF old
    <2>4. /\ \A package : Reviewed(package)' = Reviewed(package)
          /\ \A from : Past(from)' = Past(from)
          /\ \A p : Done(p)' = Done(p) /\ AllApplied(p)' = AllApplied(p)
      BY <1>1 DEF Reviewed, Past, Done, AllApplied, RunIds
    <2>5. \A p \in Plans : \A k \in DOMAIN packages' : Agrees(old(k), p) => Agrees(k, p)'
      BY <2>2, <2>4 DEF Agrees, Tells
    <2>6. ExecutionTypeOK' /\ CountsInv' /\ RunsValid' /\ MutatorsInv' /\ JobInv'
      BY <1>1, <2>2, <2>4 DEF ExecutionIInv, ExecutionTypeOK, CountsInv, RunsValid, MutatorsInv, JobInv, RunIds
    <2>7. PackagesInv'
      BY <2>2, <2>3, <2>4 DEF ExecutionIInv, PackagesInv
    <2>8. NewestHolds'
      <3>1. ASSUME NEW p \in Plans, NEW n \in DOMAIN mutators, IsNewest(n, p),
                   NEW i \in DOMAIN packages', NEW k \in DOMAIN packages',
                   packages'[i].from = mutators[n], i <= k
            PROVE  Agrees(k, p)'
        <4>1. /\ old(i) \in DOMAIN packages /\ old(k) \in DOMAIN packages
              /\ old(i) <= old(k) /\ packages[old(i)].from = mutators[n]
          BY <2>2, <2>3, <3>1
        <4>2. Agrees(old(k), p)
          BY <3>1, <4>1 DEF ExecutionIInv, NewestHolds
        <4> QED
          BY <2>5, <4>2
      <3> QED
        BY <1>1, <3>1 DEF NewestHolds, IsNewest
    <2>9. NothingBefore'
      <3>1. ASSUME NEW p \in Plans, \A n \in DOMAIN mutators : mutators[n].plan # p,
                   NEW k \in DOMAIN packages'
            PROVE  Agrees(k, p)'
        BY <2>3, <2>5, <3>1 DEF ExecutionIInv, NothingBefore
      <3> QED
        BY <1>1, <2>4, <3>1 DEF ExecutionIInv, NothingBefore
    <2> QED
      BY <2>6, <2>7, <2>8, <2>9 DEF ExecutionIInv
  <1> QED
    BY <1>2, <1>3 DEF Expire

(***************************************************************************)
(* The theorems                                                             *)
(***************************************************************************)
(* Every step preserves the invariant.                                      *)
LEMMA ExecutionNextInv ==
    ASSUME ExecutionTypes, ExecutionIInv, [ExecutionNext]_executionVars PROVE ExecutionIInv'
  <1>1. CASE UNCHANGED executionVars
    <2>1. UNCHANGED <<runs, job, packages, mutators, applied, uncaptured>>
      BY <1>1 DEF executionVars
    <2>2. (ExecutionTypeOK /\ CountsInv /\ RunsValid /\ PackagesInv /\ MutatorsInv)'
      BY <2>1 DEF ExecutionIInv, ExecutionTypeOK, CountsInv, RunsValid, PackagesInv, MutatorsInv,
           Reviewed, Past, AllApplied, RunIds
    <2>3. (NewestHolds /\ NothingBefore)'
      BY <2>1 DEF ExecutionIInv, NewestHolds, NothingBefore, IsNewest, Agrees, Tells, Done
    <2>4. job # Nil => (JobIdentity /\ JobMutates)'
      BY <2>1 DEF ExecutionIInv, JobInv, JobIdentity, JobMutates, OfJob, RunIds, From, Approved,
           ApplyStarted
    <2>5. job # Nil => (JobContext /\ JobJournal)'
      BY <2>1 DEF ExecutionIInv, JobInv, JobContext, JobJournal, Reviewed, RunIds, Tells, Done, AllApplied,
           Approved
    <2> QED
      BY <2>1, <2>2, <2>3, <2>4, <2>5 DEF ExecutionIInv, JobInv
  <1> QED
    BY <1>1, DispatchInv, ExecutionRerunInv, JobLostInv, ExpireInv, PreviewInv, CheckpointInv,
       RecoverInv, RegisterReviewedInv, RefuseSourceInv, CheckResumedInv, RejectResumedInv,
       MarkDispatchingInv, StartApplyInv, ApplyOperationInv, EndApplyInv, CaptureJournalInv,
       FailCaptureInv, UploadPackageInv DEF ExecutionNext

(* What the journals of the packages and of the running job say about what  *)
(* was carried out, in every reachable state, failed captures of the        *)
(* journal (execution_state_sync.yml:617-643) included.                     *)
THEOREM ExecutionInductive ==
    ASSUME ExecutionTypes PROVE ExecutionSpec => []ExecutionIInv
  <1>1. ExecutionInit => ExecutionIInv
    BY ExecutionInitInv
  <1>2. ExecutionIInv /\ [ExecutionNext]_executionVars => ExecutionIInv'
    BY ExecutionNextInv
  <1> QED
    BY <1>1, <1>2, PTL DEF ExecutionSpec

(* However often runs are lost, re-run, dispatched again and resumed, an    *)
(* operation of a plan is carried out again at most once for every time     *)
(* that it was left out of the journal a resumed job uploaded; a settled    *)
(* package means that every operation of its plan was carried out.          *)
THEOREM AppliedOncePerCapture ==
    ASSUME ExecutionTypes PROVE ExecutionSpec => []PlansApplied
  <1>1. ExecutionIInv => PlansApplied
    <2> SUFFICES ASSUME ExecutionIInv PROVE PlansApplied
      OBVIOUS
    <2>1. AppliedAsCaptured
      <3>1. ASSUME NEW p \in Plans, NEW o \in Ops
            PROVE  applied[p][o] <= 1 + uncaptured[p][o]
        <4>1. applied[p][o] \in Nat /\ uncaptured[p][o] \in Nat
          BY DEF ExecutionIInv, ExecutionTypeOK
        <4> QED
          BY <4>1 DEF ExecutionIInv, CountsInv
      <3> QED
        BY <3>1 DEF AppliedAsCaptured
    <2>2. SettledIsApplied
      BY DEF ExecutionIInv, PackagesInv, AllApplied, SettledIsApplied
    <2> QED
      BY <2>1, <2>2 DEF PlansApplied
  <1> QED
    BY <1>1, ExecutionInductive, PTL

(* Only a job whose own dispatch approves the plan and names the run it was *)
(* reviewed in carries out its operations.                                  *)
THEOREM AppliesOnlyApproved ==
    ASSUME ExecutionTypes PROVE ExecutionSpec => OnlyApprovedApplied
  <1> DEFINE A == \A p \in Plans : applied'[p] # applied[p] =>
                    /\ runs[job.run].in.approve = p
                    /\ runs[job.run].in.planRun = job.pkg.review.planRun
                    /\ runs[job.pkg.review.run].in.approve = p
  <1>1. ASSUME ExecutionIInv, [ExecutionNext]_executionVars PROVE [A]_executionVars
    <2>1. CASE ApplyOperation
      <3>1. /\ job # Nil /\ job.step = "apply"
        BY <2>1 DEF ApplyOperation, AtStep
      <3>2. /\ JobIdentity /\ JobContext /\ JobJournal
        BY <1>1, <3>1, JobFields
      <3>3. /\ job.pkg.plan = job.in.approve /\ runs[job.run].in = job.in
            /\ job.pkg.review.planRun = job.in.planRun
            /\ runs[job.pkg.review.run].in.approve = job.pkg.plan
        BY <3>1, <3>2 DEF JobIdentity, JobContext, JobJournal, Reviewed, Approved
      <3>4. \A p \in Plans : applied'[p] # applied[p] => p = job.pkg.plan
        BY <1>1, <2>1 DEF ApplyOperation, ExecutionIInv, ExecutionTypeOK
      <3> QED
        BY <3>3, <3>4
    <2>2. CASE UNCHANGED applied
      BY <2>2
    <2> QED
      BY <1>1, <2>1, <2>2 DEF ExecutionNext, executionVars, Dispatch, RerunAttempt, JobLost, Expire, Preview, Checkpoint,
         Recover, RegisterReviewed, RefuseSource, CheckResumed, RejectResumed,
         MarkDispatching, StartApply, EndApply, CaptureJournal, FailCapture, UploadPackage
  <1>2. ExecutionIInv /\ [ExecutionNext]_executionVars => [A]_executionVars
    BY <1>1
  <1> QED
    BY <1>2, ExecutionInductive, PTL DEF ExecutionSpec, OnlyApprovedApplied
==============================================================================
