------------------------------- MODULE Snapshot -------------------------------
(***************************************************************************)
(* What a report says of the repository: the reads of one `find`            *)
(* (src/analyze.rs `run_find_with_options`) among the edits and the git      *)
(* commands of people, and the verdict on a saved report                     *)
(* (src/freshness.rs `evaluate`).                                            *)
(*                                                                           *)
(* Every read of git, and every read of a file, is a step of its own.  The   *)
(* tracked paths are fixed; the state directories are excluded from git's    *)
(* status, so that the scan's own writes do not show in it.                  *)
(***************************************************************************)
EXTENDS Naturals, Sequences, Functions

CONSTANTS Paths,        \* tracked paths, in the order the scan reads them (a sequence)
          Contents,     \* what a file may hold
          Trees,        \* the trees of the commits that exist at first (a sequence)
          None,
          MaxEdits,     \* edits of files
          MaxMoves      \* moves of HEAD

Files == Range(Paths)

(* What the constants are: at least one tracked path and one commit.        *)
ConstantTypes ==
    /\ Paths \in Seq(Files) /\ Paths # <<>>
    /\ Trees \in Seq([Files -> Contents]) /\ Trees # <<>>
    /\ None \notin BOOLEAN

VARIABLES disk,      \* content of each file in the worktree
          edits,     \* how often each file has changed
          commits,   \* the trees of the commits
          head,      \* the commit HEAD names
          moves,     \* how often HEAD has moved
          drifted,   \* configuration, analyzer or path selection changed, or a day passed
          scan,      \* the running `find`; None when none runs
          report,    \* the saved report; None before the first
          check      \* the running or last verdict on the report

world == <<disk, edits, commits, head, moves>>
vars == <<disk, edits, commits, head, moves, drifted, scan, report, check>>

Init ==
    /\ disk = Trees[1] /\ edits = [f \in Files |-> 0]
    /\ commits = Trees /\ head = 1 /\ moves = 0
    /\ drifted = FALSE
    /\ scan = None /\ report = None /\ check = None

(***************************************************************************)
(* People.                                                                  *)
(***************************************************************************)
TotalEdits == FoldFunction(LAMBDA a, b : a + b, 0, edits)

Rewrite(tree) == /\ disk' = tree
                 /\ edits' = [f \in Files |-> IF tree[f] # disk[f] THEN edits[f] + 1 ELSE edits[f]]

Edit == /\ TotalEdits < MaxEdits
        /\ \E f \in Files : \E c \in Contents \ {disk[f]} : Rewrite([disk EXCEPT ![f] = c])
        /\ UNCHANGED <<commits, head, moves, drifted, scan, report, check>>

Commit == /\ moves < MaxMoves
          /\ commits' = Append(commits, disk)
          /\ head' = Len(commits) + 1 /\ moves' = moves + 1
          /\ UNCHANGED <<disk, edits, drifted, scan, report, check>>

(* `git checkout` of a clean worktree brings the tree along, `git reset`    *)
(* leaves the files.                                                        *)
MoveHead == /\ moves < MaxMoves
            /\ \E i \in DOMAIN commits \ {head} :
                  /\ head' = i
                  /\ \/ disk = commits[head] /\ Rewrite(commits[i])
                     \/ UNCHANGED <<disk, edits>>
            /\ moves' = moves + 1
            /\ UNCHANGED <<commits, drifted, scan, report, check>>

Drift == /\ ~ drifted /\ report # None
         /\ drifted' = TRUE
         /\ UNCHANGED <<disk, edits, commits, head, moves, scan, report, check>>

(***************************************************************************)
(* The reads.                                                               *)
(***************************************************************************)
(* `worktree_state_excluding`: the digest of `git status` tells which files *)
(* differ from HEAD, not how.                                               *)
Status == {f \in Files : disk[f] # commits[head][f]}

NextPath(reads) == Paths[Len(reads) + 1]
AllRead(reads) == Len(reads) = Len(Paths)
Read == [content |-> disk[NextPath(scan.reads)], edits |-> edits[NextPath(scan.reads)]]

At(phase) == scan # None /\ scan.phase = phase
Quiet == UNCHANGED <<disk, edits, commits, head, moves, drifted, check>>

(* `repo_metadata`: HEAD is read once, and never again.                     *)
StartScan ==
    /\ scan = None
    /\ scan' = [phase |-> "status", head |-> head, moves |-> moves, status |-> None,
                start |-> <<>>, analysed |-> <<>>, reads |-> <<>>]
    /\ Quiet /\ UNCHANGED report

StartStatus ==
    /\ At("status")
    /\ scan' = [scan EXCEPT !.phase = "start", !.status = Status]
    /\ Quiet /\ UNCHANGED report

(* `selected_content_digest` and `inventory::build` read the selected files *)
(* one after the other.                                                     *)
ReadFile(phase, next, field) ==
    /\ At(phase)
    /\ LET reads == Append(scan.reads, Read)
       IN scan' = IF AllRead(reads)
                  THEN [scan EXCEPT !.phase = next, !.reads = <<>>, ![field] = reads]
                  ELSE [scan EXCEPT !.reads = reads]
    /\ Quiet /\ UNCHANGED report

StartContent == ReadFile("start", "inventory", "start")
Inventory == ReadFile("inventory", "endStatus", "analysed")

Abandon == scan' = None /\ UNCHANGED report

(* History, scoring and relationships run before the status is read again.  *)
EndStatus ==
    /\ At("endStatus")
    /\ Quiet
    /\ IF Status = scan.status
       THEN scan' = [scan EXCEPT !.phase = "endContent"] /\ UNCHANGED report
       ELSE Abandon

(* Mutant: the contents are not compared at the end.                        *)
UnchangedContentAny(reads) == TRUE

UnchangedContent(reads) ==
    \A i \in DOMAIN reads : reads[i].content = scan.start[i].content

TextsOf(reads) == [i \in DOMAIN reads |-> reads[i].content]

(* The last read ends in a report or in an error.  Which files changed and  *)
(* changed back, and whether HEAD moved, is kept for the properties.        *)
EndContent ==
    /\ At("endContent")
    /\ Quiet
    /\ LET reads == Append(scan.reads, Read)
       IN IF ~ AllRead(reads)
          THEN scan' = [scan EXCEPT !.reads = reads] /\ UNCHANGED report
          ELSE /\ scan' = None
               /\ report' = IF UnchangedContent(reads)
                            THEN [head |-> scan.head, status |-> scan.status,
                                  start |-> TextsOf(scan.start), analysed |-> TextsOf(scan.analysed),
                                  returned |-> {i \in DOMAIN reads :
                                                  reads[i].edits >= scan.start[i].edits + 2},
                                  headMoved |-> moves # scan.moves]
                            ELSE report

(***************************************************************************)
(* The verdict on the saved report.                                         *)
(***************************************************************************)
StartCheck ==
    /\ report # None /\ (check # None => check.current # None)
    /\ check' = [of |-> report, head |-> head, moves |-> moves, headMoved |-> FALSE, current |-> None]
    /\ UNCHANGED <<disk, edits, commits, head, moves, drifted, scan, report>>

(* Mutant: the worktree of the report is taken for the present one.         *)
SameWorktreeAny(r) == TRUE
SameWorktree(r) == r.status = Status

(* `evaluate`: a reason for every difference, current without reasons.      *)
Evaluate ==
    /\ check # None /\ check.current = None
    /\ check' = [check EXCEPT !.headMoved = check.moves # moves,
                              !.current = /\ check.of.head = check.head
                                          /\ SameWorktree(check.of)
                                          /\ ~ drifted]
    /\ UNCHANGED <<disk, edits, commits, head, moves, drifted, scan, report>>

Next == \/ Edit \/ Commit \/ MoveHead \/ Drift
        \/ StartScan \/ StartStatus \/ StartContent \/ Inventory \/ EndStatus \/ EndContent
        \/ StartCheck \/ Evaluate

Spec == Init /\ [][Next]_vars

(***************************************************************************)
(* Properties                                                               *)
(***************************************************************************)
(* A published report analysed the contents its digest is of, except a file *)
(* that changed and changed back between the two digests.                   *)
MixedOnlyByReturn ==
    report # None =>
        \A i \in DOMAIN Paths :
            report.analysed[i] = report.start[i] \/ i \in report.returned

(* At the moment a report is called current, a file that git calls          *)
(* unmodified still has the content the report analysed; but for a file     *)
(* that changed and changed back under the scan, and for a HEAD that moved  *)
(* during the scan or between the two reads of the verdict.                 *)
CurrentOnlyForAnalyzed ==
    [][\A i \in DOMAIN Paths :
          /\ check' # check /\ check'.current = TRUE
          /\ ~ check'.headMoved /\ ~ check'.of.headMoved
          /\ Paths[i] \notin Status
          => \/ disk[Paths[i]] = check'.of.analysed[i]
             \/ i \in check'.of.returned]_vars
==============================================================================
