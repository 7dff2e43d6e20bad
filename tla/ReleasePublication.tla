-------------------------- MODULE ReleasePublication --------------------------
(***************************************************************************)
(* The publication of one version: the Release Publish workflow with the    *)
(* xtask commands it runs (release-prepare, verify-crate, release-manifest, *)
(* homebrew-formula), the verification of the published release, and        *)
(* `release-status`.  crates.io, the tags, the releases and the receivers   *)
(* of Homebrew and Scoop are the world's; people move main, publish a crate *)
(* or a tag by hand, yank, draft a release and publish a draft meanwhile.   *)
(*                                                                          *)
(* A commit is its number on main.  A crate is the commit it was packed     *)
(* from and whether the worktree was dirty: its checksum tells no more.  A  *)
(* file of a release is the workflow run whose build it is of.              *)
(***************************************************************************)
EXTENDS Naturals, Sequences

CONSTANTS Project,      \* the project at every commit that may reach main
          FirstMain,    \* the commit main stands at when the version begins
          MaxPublishes, \* dispatches of Release Publish
          MaxReruns,    \* re-runs of its failed jobs
          MaxReleases,  \* releases of this tag, those made by hand included
          MaxHands,     \* steps of people, dispatches and re-runs aside
          None

VARIABLES main,      \* the commit of main
          crate,     \* the crate of this version on crates.io
          tag,       \* the commit of the tag of this version
          releases,  \* the GitHub releases, by id
          publishes, \* the runs of Release Publish, in order
          reruns, hands,
          verified,  \* the run of Release Publication Verification
          homebrew, scoop  \* the last run of each receiver

vars == <<main, crate, tag, releases, publishes, reruns, hands, verified, homebrew, scoop>>
world == <<main, crate, tag, releases, hands>>
receivers == <<verified, homebrew, scoop>>

Revisions == 1 .. Len(Project)
Crates == [rev : Revisions, dirty : BOOLEAN]
Packed(rev) == [rev |-> rev, dirty |-> FALSE]

Targets == {"linux", "windows"}
Supplements == {"formula"}

(* The files of a release, in the order they are uploaded.                  *)
Files == <<"linux", "windows", "SHA256SUMS", "manifest", "formula">>

Init == /\ main = FirstMain
        /\ crate = None /\ tag = None
        /\ releases = <<>> /\ publishes = <<>> /\ reruns = 0 /\ hands = 0
        /\ verified = None /\ homebrew = None /\ scoop = None

(***************************************************************************)
(* What the commands of xtask check.                                        *)
(***************************************************************************)
IsReleaseDate(date) == date.month \in 1 .. 12 /\ date.day \in 1 .. 31

(* The numbered improvements are as many as declared and contiguous.        *)
InventoryValid(p) ==
    /\ p.notes.heading /\ p.linked
    /\ Len(p.notes.numbers) = p.notes.declared
    /\ \A k \in DOMAIN p.notes.numbers : p.notes.numbers[k] = k

(* `validate_project_version_with_date_policy`: the heading of the changelog*)
(* is a date, or says Unreleased where no date is required.                 *)
VersionValid(p, required) ==
    /\ p.version = "this"
    /\ ~p.dated => ~required
    /\ p.dated => IsReleaseDate(p.date)
    /\ InventoryValid(p)

(* `validate_release_state` in a fresh checkout, whose worktree is clean.   *)
ReleaseStateValid(rev, required) ==
    /\ VersionValid(Project[rev], required)
    /\ tag = None \/ tag = rev

(* `verify-crate`: the checksum is the expected one, the packed manifest    *)
(* names this version, and the crate was packed from a clean worktree of    *)
(* the revision.                                                            *)
CrateVerified(bytes, expected, rev) ==
    /\ bytes = expected
    /\ Project[bytes.rev].version = "this"
    /\ bytes.rev = rev /\ ~bytes.dirty

(* `release_artifacts`: the archive of every target is there.               *)
ArtifactsComplete(dist) == Targets \subseteq dist

(* `ReleaseIdentity::validate`: the crate is of the version and revision of *)
(* the tag.                                                                 *)
IdentityValid(source) == Project[source.rev].version = "this" /\ source.rev = tag

(* `ReleaseManifest::validate`: every target once, and no supplement or all.*)
ManifestValid(dist, source) ==
    /\ IdentityValid(source)
    /\ dist \ Supplements = Targets
    /\ dist \cap Supplements \in {{}, Supplements}

(* `build_manifest` in a checkout of the revision.                          *)
ManifestBuilt(dist, rev, source) ==
    /\ Project[rev].version = "this"
    /\ ArtifactsComplete(dist)
    /\ ManifestValid(dist, source)

(***************************************************************************)
(* A run of Release Publish.                                                *)
(***************************************************************************)
JobOf(step) == CASE step = "candidate" -> "candidate"
                 [] step \in {"revalidate", "inspect", "upload", "registry", "tag", "homebrew"} ->
                        "revalidate"
                 [] OTHER -> "manifest"

Running == {i \in DOMAIN publishes : publishes[i].status = "running"}
At(i, step) == i \in Running /\ publishes[i].step = step
To(i, step) == publishes' = [publishes EXCEPT ![i].step = step]

InRegistry(bytes) == crate # None /\ ~crate.yanked /\ crate.bytes = bytes

(* One run at a time for a version; the run is of the commit of main it was *)
(* dispatched at.  To recover, a person names the checksum of the crate that*)
(* crates.io has, and a revision.                                           *)
Dispatch ==
    /\ Running = {} /\ Len(publishes) < MaxPublishes
    /\ \E mode \in {"publish", "recover"}, rev \in 1 .. main :
          /\ mode = "publish" => rev = main
          /\ mode = "recover" => crate # None
          /\ publishes' = Append(publishes,
                [mode |-> mode, control |-> main, rev |-> rev,
                 asked |-> IF mode = "publish" THEN Packed(rev) ELSE crate.bytes,
                 crateSeen |-> FALSE, tagSeen |-> FALSE, id |-> 0, sent |-> 0,
                 step |-> "candidate", status |-> "running"])
    /\ UNCHANGED <<world, reruns, receivers>>

(* The job `candidate`.  Publishing takes the project of main as it is now; *)
(* recovering takes a crate crates.io has, of a revision that is in main.   *)
Candidate(i) ==
    LET run == publishes[i] IN
    /\ At(i, "candidate")
    /\ run.control = main
    /\ tag = None \/ tag = run.rev
    /\ run.mode = "publish" => ReleaseStateValid(run.rev, TRUE)
    /\ run.mode = "recover" => run.rev <= main /\ InRegistry(run.asked)
    /\ CrateVerified(run.asked, run.asked, run.rev)
    /\ To(i, "revalidate")
    /\ UNCHANGED <<world, reruns, receivers>>

(* The job `publish-crate`, first step: main has not moved, and the crate   *)
(* is packed or downloaded again.                                           *)
Revalidate(i) ==
    LET run == publishes[i] IN
    /\ At(i, "revalidate")
    /\ run.control = main
    /\ run.mode = "publish" => run.rev = run.control /\ Packed(run.rev) = run.asked
    /\ run.mode = "recover" => run.rev <= main /\ InRegistry(run.asked)
    /\ CrateVerified(run.asked, run.asked, run.rev)
    /\ To(i, "inspect")
    /\ UNCHANGED <<world, reruns, receivers>>

(* What it finds decides which of the later steps run.                      *)
Inspect(i) ==
    LET run == publishes[i] IN
    /\ At(i, "inspect")
    /\ crate # None => ~crate.yanked
    /\ run.mode = "recover" => crate # None
    /\ tag # None => tag = run.rev /\ crate # None
    /\ publishes' = [publishes EXCEPT ![i].crateSeen = crate # None,
                                      ![i].tagSeen = tag # None,
                                      ![i].step = "upload"]
    /\ UNCHANGED <<world, reruns, receivers>>

(* `cargo publish`, whose failure does not fail the job.                    *)
Upload(i) ==
    LET run == publishes[i] IN
    /\ At(i, "upload")
    /\ \/ UNCHANGED crate
       \/ /\ run.mode = "publish" /\ ~run.crateSeen
          /\ crate = None
          /\ crate' = [bytes |-> Packed(run.rev), yanked |-> FALSE, by |-> "workflow"]
    /\ To(i, "registry")
    /\ UNCHANGED <<main, tag, releases, reruns, hands, receivers>>

(* The bytes crates.io has are the candidate's, whoever published them.     *)
Registry(i) ==
    LET run == publishes[i] IN
    /\ At(i, "registry")
    /\ InRegistry(run.asked)
    /\ CrateVerified(crate.bytes, run.asked, run.rev)
    /\ To(i, "tag")
    /\ UNCHANGED <<world, reruns, receivers>>

(* The tag is made only where none was found and none has come since.       *)
MakeTag(i) ==
    LET run == publishes[i] IN
    /\ At(i, "tag")
    /\ \/ run.tagSeen /\ UNCHANGED tag
       \/ /\ ~run.tagSeen
          /\ run.control = main
          /\ run.mode = "recover" => run.rev <= main
          /\ run.mode = "publish" => run.rev = run.control
          /\ tag = None
          /\ tag' = run.rev
    /\ To(i, "homebrew")
    /\ UNCHANGED <<main, crate, releases, reruns, hands, receivers>>

(* Every run tells Homebrew, a repeated one too.                            *)
DispatchHomebrew(i) ==
    /\ At(i, "homebrew")
    /\ homebrew' = [rev |-> publishes[i].rev, ok |-> FALSE]
    /\ publishes' = [publishes EXCEPT ![i].crateSeen = FALSE, ![i].tagSeen = FALSE,
                                      ![i].step = "manifest"]
    /\ UNCHANGED <<world, reruns, verified, scoop>>

(* The job `draft-release` with the build it starts from.  The artifacts of *)
(* a target may have expired when the job is repeated.  The manifest is     *)
(* made before the supplements and again with them.                         *)
Manifest(i) ==
    LET run == publishes[i] IN
    /\ At(i, "manifest")
    /\ \E dist \in {Targets} \cup {Targets \ {t} : t \in Targets} :
          /\ ManifestBuilt(dist, run.rev, run.asked)
          /\ ManifestBuilt(dist \cup Supplements, run.rev, run.asked)
    /\ Project[run.rev].dated
    /\ To(i, "find")
    /\ UNCHANGED <<world, reruns, receivers>>

(* A release of the tag, or a draft of the revision GitHub has detached     *)
(* from its tag.                                                            *)
Matches(rev) == {id \in DOMAIN releases : LET r == releases[id] IN
                    r.tagged \/ (~r.public /\ r.named /\ r.target = rev)}

FindRelease(i) ==
    LET found == Matches(publishes[i].rev) IN
    /\ At(i, "find")
    /\ \/ found = {} /\ To(i, "create")
       \/ \E id \in found : 
             /\ found = {id}
             /\ publishes' = [publishes EXCEPT
                    ![i].id = id,
                    ![i].step = IF releases[id].public THEN "verify" ELSE "refresh"]
    /\ UNCHANGED <<world, reruns, receivers>>

CreateDraft(i) ==
    /\ At(i, "create")
    /\ tag # None /\ Len(releases) < MaxReleases
    /\ releases' = Append(releases, [tagged |-> TRUE, named |-> TRUE, target |-> publishes[i].rev,
                                     public |-> FALSE, files |-> <<>>])
    /\ To(i, "list")
    /\ UNCHANGED <<main, crate, tag, reruns, hands, receivers>>

(* The draft is found again by listing: a second one is refused.            *)
ListDraft(i) ==
    /\ At(i, "list")
    /\ \E id \in DOMAIN releases :
          /\ Matches(publishes[i].rev) = {id}
          /\ publishes' = [publishes EXCEPT ![i].id = id, ![i].step = "refresh"]
    /\ UNCHANGED <<world, reruns, receivers>>

Attached(id, rev) ==
    releases' = [releases EXCEPT ![id].tagged = TRUE, ![id].named = TRUE, ![id].target = rev]

(* Mutant: the files of the earlier build stay until they are replaced.     *)
RefreshInPlace(i) ==
    LET run == publishes[i] IN
    /\ At(i, "refresh")
    /\ ~releases[run.id].public
    /\ Attached(run.id, run.rev)
    /\ To(i, "send")
    /\ UNCHANGED <<main, crate, tag, reruns, hands, receivers>>

(* The release is still a draft; the files it has are removed first.        *)
Refresh(i) ==
    LET run == publishes[i] IN
    /\ At(i, "refresh")
    /\ ~releases[run.id].public
    /\ Attached(run.id, run.rev)
    /\ To(i, "remove")
    /\ UNCHANGED <<main, crate, tag, reruns, hands, receivers>>

(* A published release is immutable: GitHub refuses to remove or to add.    *)
RemoveFile(i) ==
    LET run == publishes[i]
        files == releases[run.id].files IN
    /\ At(i, "remove")
    /\ IF files = <<>> THEN UNCHANGED releases /\ To(i, "send")
       ELSE LET k == CHOOSE k \in DOMAIN Files :
                        /\ Files[k] \in DOMAIN files
                        /\ \A j \in 1 .. k - 1 : Files[j] \notin DOMAIN files
            IN /\ ~releases[run.id].public
               /\ releases' = [releases EXCEPT ![run.id].files =
                                   [f \in DOMAIN files \ {Files[k]} |-> files[f]]]
               /\ UNCHANGED publishes
    /\ UNCHANGED <<main, crate, tag, reruns, hands, receivers>>

(* GitHub may detach a draft from its tag while files are uploaded.         *)
SendFile(i) ==
    LET run == publishes[i]
        file == Files[run.sent + 1] IN
    /\ At(i, "send")
    /\ ~releases[run.id].public
    /\ \E detached \in BOOLEAN :
          releases' = [releases EXCEPT
              ![run.id].files = [f \in DOMAIN @ \cup {file} |-> IF f = file THEN i ELSE @[f]],
              ![run.id].tagged = @ /\ ~detached]
    /\ publishes' = [publishes EXCEPT
                         ![i].sent = IF @ + 1 = Len(Files) THEN 0 ELSE @ + 1,
                         ![i].step = IF run.sent + 1 = Len(Files) THEN "attach" ELSE "send"]
    /\ UNCHANGED <<main, crate, tag, reruns, hands, receivers>>

Attach(i) ==
    LET run == publishes[i] IN
    /\ At(i, "attach")
    /\ ~releases[run.id].public
    /\ Attached(run.id, run.rev)
    /\ To(i, "verify")
    /\ UNCHANGED <<main, crate, tag, reruns, hands, receivers>>

ManifestRev(r) == publishes[r.files["manifest"]].rev

(* SHA256SUMS has a line for every other file of its build.                 *)
ChecksumsMatch(files) == \A f \in DOMAIN files : files[f] = files["SHA256SUMS"]

(* All files the manifest names are there, with the checksums of SHA256SUMS *)
(* and the identity of the run.                                             *)
Verify(i) ==
    LET run == publishes[i]
        r == releases[run.id] IN
    /\ At(i, "verify")
    /\ r.tagged
    /\ DOMAIN r.files = {Files[k] : k \in DOMAIN Files}
    /\ ChecksumsMatch(r.files)
    /\ ManifestRev(r) = run.rev
    /\ publishes' = [publishes EXCEPT ![i].step = "done", ![i].status = "success"]
    /\ UNCHANGED <<world, reruns, receivers>>

(* A check refuses, a service fails or the runner is lost: what the job had *)
(* found is forgotten.                                                      *)
Fail(i) ==
    /\ i \in Running
    /\ publishes' = [publishes EXCEPT ![i].status = "failed", ![i].step = JobOf(@), ![i].sent = 0,
                                      ![i].crateSeen = FALSE, ![i].tagSeen = FALSE]
    /\ UNCHANGED <<world, reruns, receivers>>

(* The jobs that failed run again, with what the others handed them.        *)
Rerun(i) ==
    /\ Running = {} /\ reruns < MaxReruns
    /\ publishes[i].status = "failed"
    /\ publishes' = [publishes EXCEPT ![i].status = "running"]
    /\ reruns' = reruns + 1
    /\ UNCHANGED <<world, receivers>>

(***************************************************************************)
(* After the release is published.                                          *)
(***************************************************************************)
(* Release Publication Verification: the names of the files are those the   *)
(* manifest lists, and its revision is the tag's.  Scoop is told; the run   *)
(* may fail after that.                                                     *)
VerifyPublication ==
    /\ verified # None /\ verified.status = "running"
    /\ LET r == releases[verified.id] IN
       \/ /\ DOMAIN r.files = {Files[k] : k \in DOMAIN Files}
          /\ ManifestRev(r) = tag
          /\ scoop' = [id |-> verified.id, rev |-> tag, ok |-> FALSE]
          /\ \E status \in {"success", "failed"} : verified' = [verified EXCEPT !.status = status]
       \/ /\ verified' = [verified EXCEPT !.status = "failed"]
          /\ UNCHANGED scoop
    /\ UNCHANGED <<world, publishes, reruns, homebrew>>

(* The receivers, in repositories of their own: each waits for the public   *)
(* release.                                                                 *)
Receive ==
    /\ \E r \in DOMAIN releases : releases[r].public
    /\ \/ homebrew # None /\ ~homebrew.ok /\ homebrew' = [homebrew EXCEPT !.ok = TRUE]
          /\ UNCHANGED scoop
       \/ scoop # None /\ ~scoop.ok /\ scoop' = [scoop EXCEPT !.ok = TRUE]
          /\ UNCHANGED homebrew
    /\ UNCHANGED <<world, publishes, reruns, verified>>

(***************************************************************************)
(* What people do meanwhile.                                                *)
(***************************************************************************)
Move == hands < MaxHands /\ hands' = hands + 1

Push == /\ Move /\ main < Len(Project)
        /\ main' = main + 1
        /\ UNCHANGED <<crate, tag, releases, publishes, reruns, receivers>>

PublishByHand ==
    /\ Move /\ crate = None
    /\ \E bytes \in Crates : /\ bytes.rev \in 1 .. main
                             /\ crate' = [bytes |-> bytes, yanked |-> FALSE, by |-> "people"]
    /\ UNCHANGED <<main, tag, releases, publishes, reruns, receivers>>

Yank == /\ Move /\ crate # None /\ ~crate.yanked
        /\ crate' = [crate EXCEPT !.yanked = TRUE]
        /\ UNCHANGED <<main, tag, releases, publishes, reruns, receivers>>

TagByHand == /\ Move /\ tag = None
             /\ tag' \in 1 .. main
             /\ UNCHANGED <<main, crate, releases, publishes, reruns, receivers>>

DraftByHand ==
    /\ Move /\ Len(releases) < MaxReleases
    /\ releases' = Append(releases, [tagged |-> TRUE, named |-> FALSE, target |-> main,
                                     public |-> FALSE, files |-> <<>>])
    /\ UNCHANGED <<main, crate, tag, publishes, reruns, receivers>>

(* The one release of the tag becomes public; GitHub makes a missing tag.   *)
PublishDraft ==
    /\ Move
    /\ \A id \in DOMAIN releases : ~releases[id].public
    /\ \E id \in DOMAIN releases :
          /\ releases[id].tagged
          /\ releases' = [releases EXCEPT ![id].public = TRUE]
          /\ tag' = IF tag = None THEN releases[id].target ELSE tag
          /\ verified' = [id |-> id, status |-> "running"]
    /\ UNCHANGED <<main, crate, publishes, reruns, homebrew, scoop>>

Publish(i) ==
    \/ Candidate(i) \/ Revalidate(i) \/ Inspect(i) \/ Upload(i) \/ Registry(i) \/ MakeTag(i)
    \/ DispatchHomebrew(i) \/ Manifest(i) \/ FindRelease(i) \/ CreateDraft(i) \/ ListDraft(i)
    \/ Refresh(i) \/ RemoveFile(i) \/ SendFile(i) \/ Attach(i) \/ Verify(i)
    \/ Fail(i) \/ Rerun(i)

Next == \/ Dispatch \/ \E i \in DOMAIN publishes : Publish(i)
        \/ VerifyPublication \/ Receive
        \/ Push \/ PublishByHand \/ Yank \/ TagByHand \/ DraftByHand \/ PublishDraft

Spec == Init /\ [][Next]_vars

(***************************************************************************)
(* release-status.                                                          *)
(***************************************************************************)
Newest(S) == CHOOSE n \in S : \A m \in S : m <= n

(* The newest release that carries the tag.                                 *)
StatusRelease == LET S == {id \in DOMAIN releases : releases[id].tagged} IN
                 IF S = {} THEN None ELSE Newest(S)

(* The newest run of the commit the tag is at: a recovery runs at another.  *)
StatusRun == LET S == {i \in DOMAIN publishes : tag # None /\ publishes[i].control = tag} IN
             IF S = {} THEN None ELSE Newest(S)

Public == StatusRelease # None /\ releases[StatusRelease].public
Ready == /\ StatusRelease # None /\ ~releases[StatusRelease].public
         /\ StatusRun # None /\ publishes[StatusRun].status = "success"

Status ==
    CASE /\ Public /\ verified # None /\ verified.status = "success"
         /\ homebrew # None /\ homebrew.ok /\ scoop # None /\ scoop.ok -> "complete"
      [] Ready -> "awaiting-marketplace-publication"
      [] StatusRelease = None /\ StatusRun = None -> "not-started"
      [] OTHER -> "in-progress-or-blocked"

(***************************************************************************)
(* Properties.                                                              *)
(***************************************************************************)
(* All files of the release are there, they are of one build, and the       *)
(* build, the tag and the crate are of one clean, dated commit.             *)
Whole(r) ==
    /\ DOMAIN r.files = {Files[k] : k \in DOMAIN Files}
    /\ \A f \in DOMAIN r.files : r.files[f] = r.files["manifest"]
    /\ crate # None
    /\ tag = ManifestRev(r) /\ crate.bytes = Packed(tag)
    /\ Project[tag].version = "this" /\ Project[tag].dated

(* A release never holds files of two builds, and what Scoop is told of is  *)
(* public and whole, though its verification reads no checksum of the       *)
(* archives and a person may publish a draft in the middle of a refresh     *)
(* (release-publish.yml `draft`, release-published.yml).                    *)
ScoopGetsWhole ==
    /\ \A id \in DOMAIN releases :
          LET files == releases[id].files IN \A f, g \in DOMAIN files : files[f] = files[g]
    /\ scoop # None => /\ releases[scoop.id].public /\ Whole(releases[scoop.id])
                       /\ scoop.rev = tag

(* Homebrew is told only of the commit the tag is at and the crate was      *)
(* packed from, whoever published either and in whatever order; a crate the *)
(* workflow has published is of a dated, well-formed project                *)
(* (release-publish.yml `publish-crate`).                                   *)
HomebrewGetsExact ==
    /\ homebrew # None => /\ crate # None /\ crate.bytes = Packed(homebrew.rev)
                          /\ tag = homebrew.rev
    /\ crate # None /\ crate.by = "workflow" =>
          VersionValid(Project[crate.bytes.rev], TRUE) /\ ~crate.bytes.dirty

(* "complete" is said of a whole release whose receivers were told of the   *)
(* same commit.  "awaiting-marketplace-publication" is said of a whole      *)
(* draft, except where another run than the one found works or has worked   *)
(* on it, or a second release carries the tag (release_status.rs).          *)
StatusSound ==
    /\ Status = "complete" =>
          Whole(releases[StatusRelease]) /\ homebrew.rev = tag /\ scoop.rev = tag
    /\ Status = "awaiting-marketplace-publication" =>
          \/ Whole(releases[StatusRelease])
          \/ \E i \in DOMAIN publishes : i # StatusRun /\ publishes[i].id = StatusRelease
          \/ Len(releases) > 1
===============================================================================
