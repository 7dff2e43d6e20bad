----------------------------- MODULE ReportStore -----------------------------
(***************************************************************************)
(* The report directory of git-slop and the processes that change it:      *)
(* `git slop find` (write_report_bundle and what it calls, under the lock  *)
(* of its state root), `git slop prune` and `git slop init`, which take no *)
(* lock.  One action is one file-system call, or a check and the call that *)
(* follows it at once.  A process may crash between any two of them, and a *)
(* call may fail; both draw on one budget, MaxFaults.                      *)
(*                                                                         *)
(* A directory that exists is a function from the files of a bundle to the *)
(* invocation that wrote the file, or NoFile.                              *)
(***************************************************************************)
EXTENDS Integers, FiniteSets, Functions, Retention

CONSTANTS
    Finds,          \* invocations of `find` on one output directory
    Prunes,         \* invocations of `prune --yes`
    Inits,          \* invocations of `init`
    Nobody,         \* no invocation
    NoFile,         \* the file does not exist
    Absent,         \* the directory does not exist
    StateRoot,      \* the state root of each `find`: its --state-dir
    Stamp,          \* the time stamp of each `find`
    FileSize,       \* the size of each file of the bundle of each `find`
    NFiles,         \* the number of files of a bundle
    Keep,           \* output.retention_runs
    MaxBytes,       \* output.retention_bytes
    PruneKeeps,     \* the --keep of a `prune`
    MaxSuffix,      \* bound: the greatest "-N" suffix tried for a run name
    MaxFaults,      \* bound: crashes and failing calls in one behaviour
    CleanupMayFail  \* do the best-effort calls of the cleanup fail?

ASSUME FindsAssumption ==
    /\ StateRoot \in [Finds -> STRING]
    /\ Stamp \in [Finds -> Nat \ {0}]
    /\ FileSize \in [Finds -> Nat]

ASSUME NumbersAssumption ==
    /\ NFiles \in Nat \ {0}
    /\ Keep \in Nat
    /\ MaxBytes \in Nat
    /\ PruneKeeps \subseteq Nat
    /\ MaxSuffix \in Nat \ {0}
    /\ MaxFaults \in Nat
    /\ CleanupMayFail \in BOOLEAN

ASSUME ProcsAssumption ==
    /\ Finds \cap Prunes = {}
    /\ Finds \cap Inits = {}
    /\ Prunes \cap Inits = {}

ASSUME NobodyAssumption == Nobody \notin Finds

ASSUME NoFileAssumption == NoFile \notin Finds

-------------------------------------------------------------------------------
Files == 1 .. NFiles

Dir == [Files -> Finds \cup {NoFile}]
EmptyDir == [x \in Files |-> NoFile]
Bundle(f) == [x \in Files |-> f]

ASSUME AbsentAssumption == Absent \notin Dir

Stamps == {Stamp[f] : f \in Finds}
Names == Stamps \X (1 .. MaxSuffix)
Roots == {StateRoot[f] : f \in Finds}
Procs == Finds \cup Prunes \cup Inits

(* The paths under the output directory: latest, the published runs, and   *)
(* the three hidden directories of each `find`, named after its process.   *)
Latest == <<"latest", Nobody>>
Run(n) == <<"run", n>>
TmpRun(f) == <<"tmpRun", f>>
TmpLatest(f) == <<"tmpLatest", f>>
Backup(f) == <<"backup", f>>

RunPlaces == {Run(n) : n \in Names}
TmpRuns == {TmpRun(f) : f \in Finds}
TmpLatests == {TmpLatest(f) : f \in Finds}
Backups == {Backup(f) : f \in Finds}
Places == {Latest} \cup RunPlaces \cup TmpRuns \cup TmpLatests \cup Backups

NoPlace == <<"none", Nobody>>

VARIABLES
    dirs,     \* the directory at each place
    lock,     \* the holder of the scan lock of each state root
    pc,       \* the next step of each process
    todo,     \* the directories a process has still to remove
    cur,      \* the directory a process is removing
    listed,   \* the backups a `find` found when it listed the directory
    step,     \* how many files a `find` has written or linked
    target,   \* the name a `find` chose for its run
    history,  \* history: the invocations, in the order they wrote their runs
    swapped,  \* history: the invocations that have replaced `latest`
    faults    \* how many crashes and failures have happened

fs == <<dirs, history, swapped>>
vars == <<dirs, lock, pc, todo, cur, listed, step, target, history, swapped, faults>>

Present(p) == dirs[p] # Absent

(* rename(2) replaces no directory that has entries.                       *)
Replaceable(p) == dirs[p] \in {Absent, EmptyDir}

(* The steps of a `find` between taking the lock and giving it back.       *)
CleanupSteps == {"listTemps", "removeTemps", "recover", "removeBackups",
                 "listRunTemps", "removeRunTemps"}
WriteSteps == {"retainBefore", "removeBefore", "choose", "createRun",
               "writeRun", "install"}
LatestSteps == {"createLatest", "link", "moveAside", "swap"}
AfterSteps == {"removeBackup", "retainAfter", "removeAfter", "release"}
FailureSteps == {"discardRun", "giveUp"}
Holding == CleanupSteps \cup WriteSteps \cup LatestSteps \cup AfterSteps
               \cup FailureSteps
Final == {"done", "failed", "crashed"}

TypeOK ==
    /\ dirs \in [Places -> Dir \cup {Absent}]
    /\ lock \in [Roots -> Finds \cup {Nobody}]
    /\ pc \in [Procs -> {"idle", "apply"} \cup Holding \cup Final]
    /\ \A f \in Finds : pc[f] # "apply"
    /\ \A p \in Prunes \cup Inits : pc[p] \notin Holding
    /\ todo \in [Procs -> SUBSET Places]
    /\ cur \in [Procs -> Places \cup {NoPlace}]
    /\ listed \in [Finds -> SUBSET Backups]
    /\ step \in [Finds -> 0 .. NFiles]
    /\ target \in [Finds -> Names \cup {Nobody}]
    /\ \A f \in Finds :
          pc[f] \in {"createRun", "writeRun", "install", "createLatest", "link"}
              => target[f] \in Names
    /\ history \in Seq(Finds)
    /\ swapped \subseteq Finds
    /\ faults \in 0 .. MaxFaults

Init ==
    /\ dirs = [p \in Places |-> Absent]
    /\ lock = [r \in Roots |-> Nobody]
    /\ pc = [p \in Procs |-> "idle"]
    /\ todo = [p \in Procs |-> {}]
    /\ cur = [p \in Procs |-> NoPlace]
    /\ listed = [f \in Finds |-> {}]
    /\ step = [f \in Finds |-> 0]
    /\ target = [f \in Finds |-> Nobody]
    /\ history = <<>>
    /\ swapped = {}
    /\ faults = 0

At(p, label) == pc[p] = label
GoTo(p, label) == pc' = [pc EXCEPT ![p] = label]

(* A `find` writes, links or moves directories and removes none.           *)
NoRemoval == UNCHANGED <<todo, cur>>

-------------------------------------------------------------------------------
(* acquire_scan_lock: the lock of the state root is taken without waiting. *)
Acquire(f) ==
    /\ At(f, "idle")
    /\ lock[StateRoot[f]] = Nobody
    /\ lock' = [lock EXCEPT ![StateRoot[f]] = f]
    /\ GoTo(f, "listTemps")
    /\ NoRemoval
    /\ UNCHANGED <<fs, listed, step, target, faults>>

(* Another scan owns the lock: the invocation ends with `scan_locked`.     *)
Refused(f) ==
    /\ At(f, "idle")
    /\ lock[StateRoot[f]] # Nobody
    /\ GoTo(f, "failed")
    /\ NoRemoval
    /\ UNCHANGED <<fs, lock, listed, step, target, faults>>

-------------------------------------------------------------------------------
(* fs::remove_dir_all of the directories in todo, one after another: the   *)
(* files of the one being removed go one at a time, then the directory.    *)
(* Retention walks its list from the greatest name down; the cleanup takes *)
(* what it lists in the order of the directory.                            *)
KeyOf(p) == IF p[1] = "run" THEN RunKey(p[2][1], p[2][2]) ELSE HiddenKey

NextRemovals(p) ==
    IF cur[p] # NoPlace THEN {cur[p]}
    ELSE {d \in todo[p] :
            \A e \in todo[p] : ~ StringBefore(KeyOf(d), KeyOf(e))}

BeginRemoval(p) ==
    /\ cur[p] = NoPlace
    /\ \E d \in NextRemovals(p) :
        /\ Present(d)
        /\ cur' = [cur EXCEPT ![p] = d]
        /\ todo' = [todo EXCEPT ![p] = @ \ {d}]
    /\ UNCHANGED <<fs, lock, pc, listed, step, target, faults>>

RemoveFile(p) ==
    /\ cur[p] # NoPlace
    /\ Present(cur[p])
    /\ \E x \in Files :
        /\ dirs[cur[p]][x] # NoFile
        /\ dirs' = [dirs EXCEPT ![cur[p]] = [@ EXCEPT ![x] = NoFile]]
    /\ UNCHANGED <<lock, pc, todo, cur, listed, step, target, history, swapped, faults>>

RemoveDirectory(p) ==
    /\ cur[p] # NoPlace
    /\ dirs[cur[p]] = EmptyDir
    /\ dirs' = [dirs EXCEPT ![cur[p]] = Absent]
    /\ cur' = [cur EXCEPT ![p] = NoPlace]
    /\ UNCHANGED <<lock, pc, todo, listed, step, target, history, swapped, faults>>

(* Where a process goes when everything it had to remove is removed.       *)
AfterRemoval == [removeTemps |-> "recover",
                 removeBackups |-> "listRunTemps",
                 removeRunTemps |-> "retainBefore",
                 removeBefore |-> "choose",
                 removeBackup |-> "retainAfter",
                 removeAfter |-> "release",
                 discardRun |-> "giveUp",
                 apply |-> "done"]

(* Where it goes when a removal fails.  The cleanup records a warning and  *)
(* takes the next entry; the first retention gives up with a warning; the  *)
(* removal of the backup, the second retention and prune report an error.  *)
AfterFailedRemoval == [removeTemps |-> "removeTemps",
                       removeBackups |-> "removeBackups",
                       removeRunTemps |-> "removeRunTemps",
                       removeBefore |-> "choose",
                       removeBackup |-> "giveUp",
                       removeAfter |-> "giveUp",
                       discardRun |-> "giveUp",
                       apply |-> "failed"]

RemovalsDone(p) ==
    /\ pc[p] \in DOMAIN AfterRemoval
    /\ cur[p] = NoPlace
    /\ todo[p] = {}
    /\ GoTo(p, AfterRemoval[pc[p]])
    /\ UNCHANGED <<fs, lock, todo, cur, listed, step, target, faults>>

(* A failed removal: the cleanup drops the entry, every other caller       *)
(* abandons the rest.                                                      *)
DropRemoval(p, d) ==
    /\ GoTo(p, AfterFailedRemoval[pc[p]])
    /\ cur' = [cur EXCEPT ![p] = NoPlace]
    /\ todo' = [todo EXCEPT ![p] = IF pc[p] \in CleanupSteps THEN @ \ {d} ELSE {}]
    /\ UNCHANGED <<fs, lock, listed, step, target>>

(* The directory is gone: another process has removed or renamed it.       *)
RemovalFindsNothing(p) ==
    /\ pc[p] \in DOMAIN AfterFailedRemoval
    /\ \E d \in NextRemovals(p) : ~ Present(d) /\ DropRemoval(p, d)
    /\ UNCHANGED faults

Fault == faults < MaxFaults /\ faults' = faults + 1

(* The operating system refuses the removal, which may have begun.         *)
RemovalFails(p) ==
    /\ pc[p] \in DOMAIN AfterFailedRemoval
    /\ pc[p] \in CleanupSteps => CleanupMayFail
    /\ \E d \in NextRemovals(p) : DropRemoval(p, d)
    /\ Fault

-------------------------------------------------------------------------------
(* cleanup_abandoned_publication_state: what crashed publications left.    *)
(* It lists the hidden directories beside `latest` once: the temporaries   *)
(* are removed at once, the backups are kept for the next step.  A listing *)
(* that fails skips the whole cleanup.                                     *)
ListTemps(f) ==
    /\ At(f, "listTemps")
    /\ GoTo(f, "removeTemps")
    /\ todo' = [todo EXCEPT ![f] = {p \in TmpLatests : Present(p)}]
    /\ listed' = [listed EXCEPT ![f] = {p \in Backups : Present(p)}]
    /\ UNCHANGED <<fs, lock, cur, step, target, faults>>

ListTempsFails(f) ==
    /\ At(f, "listTemps")
    /\ CleanupMayFail
    /\ GoTo(f, "retainBefore")
    /\ Fault
    /\ NoRemoval
    /\ UNCHANGED <<fs, lock, listed, step, target>>

(* `latest` is missing and backups were listed: the one whose name sorts   *)
(* last is renamed to it.  The names hold process numbers, whose order     *)
(* says nothing of time, so any of them may sort last.  Every other backup *)
(* is removed; so is the rest when the rename fails.                       *)
RemoveOtherBackups(f, b) ==
    /\ GoTo(f, "removeBackups")
    /\ todo' = [todo EXCEPT ![f] = listed[f] \ {b}]
    /\ listed' = [listed EXCEPT ![f] = {}]
    /\ UNCHANGED <<lock, cur, step, target, history, swapped>>

(* Mutant: the backups are removed before anything is recovered.           *)
RecoverNothing(f) ==
    /\ At(f, "recover")
    /\ ~ Present(Latest)
    /\ RemoveOtherBackups(f, NoPlace)
    /\ UNCHANGED <<dirs, faults>>

(* Mutant: a backup is recovered although `latest` exists.                 *)
RecoverAlways(f) ==
    /\ At(f, "recover")
    /\ \E b \in listed[f] :
        /\ dirs' = [dirs EXCEPT ![Latest] = dirs[b], ![b] = Absent]
        /\ RemoveOtherBackups(f, b)
    /\ UNCHANGED faults

Recover(f) ==
    /\ At(f, "recover")
    /\ ~ Present(Latest)
    /\ \E b \in listed[f] :
        /\ dirs' = IF Present(b)
                     THEN [dirs EXCEPT ![Latest] = dirs[b], ![b] = Absent]
                     ELSE dirs
        /\ RemoveOtherBackups(f, b)
    /\ UNCHANGED faults

RecoverFails(f) ==
    /\ At(f, "recover")
    /\ ~ Present(Latest)
    /\ CleanupMayFail
    /\ \E b \in listed[f] : RemoveOtherBackups(f, b)
    /\ Fault
    /\ UNCHANGED dirs

NothingToRecover(f) ==
    /\ At(f, "recover")
    /\ Present(Latest) \/ listed[f] = {}
    /\ RemoveOtherBackups(f, NoPlace)
    /\ UNCHANGED <<dirs, faults>>

(* Mutant: the temporaries in runs/ are forgotten.                         *)
ForgetRunTemps(f) ==
    /\ At(f, "listRunTemps")
    /\ GoTo(f, "removeRunTemps")
    /\ UNCHANGED <<fs, lock, todo, cur, listed, step, target, faults>>

(* The temporaries of write_run_atomically lie in runs/, listed last.      *)
ListRunTemps(f) ==
    /\ At(f, "listRunTemps")
    /\ GoTo(f, "removeRunTemps")
    /\ todo' = [todo EXCEPT ![f] = {p \in TmpRuns : Present(p)}]
    /\ UNCHANGED <<fs, lock, cur, listed, step, target, faults>>

-------------------------------------------------------------------------------
(* enforce_retention, called with one run less before the publication and  *)
(* with all of them after it.  It lists every directory of runs/, hidden   *)
(* ones too, with its bytes; the listing is one step.                      *)
DirBytes(p) ==
    SumFunction([x \in Files |->
        IF dirs[p][x] = NoFile THEN 0 ELSE FileSize[dirs[p][x]]])

Entries(places) ==
    {[place |-> p, key |-> KeyOf(p), bytes |-> DirBytes(p)] :
        p \in {q \in places : Present(q)}}

Retain(f, from, to, keep) ==
    /\ At(f, from)
    /\ GoTo(f, to)
    /\ todo' = [todo EXCEPT
                  ![f] = FindRemoves(Entries(RunPlaces \cup TmpRuns), keep, MaxBytes)]
    /\ UNCHANGED <<fs, lock, cur, listed, step, target, faults>>

RetainBefore(f) ==
    Retain(f, "retainBefore", "removeBefore", IF Keep = 0 THEN 0 ELSE Keep - 1)

(* Mutant: the last retention leaves room for one run more.                *)
RetainOneMore(f) == Retain(f, "retainAfter", "removeAfter", Keep + 1)

RetainAfter(f) == Retain(f, "retainAfter", "removeAfter", Keep)

(* The listing fails: a warning before the publication, an error after it. *)
RetainFails(f) ==
    /\ \/ At(f, "retainBefore") /\ GoTo(f, "choose")
       \/ At(f, "retainAfter") /\ GoTo(f, "giveUp")
    /\ Fault
    /\ NoRemoval
    /\ UNCHANGED <<fs, lock, listed, step, target>>

-------------------------------------------------------------------------------
(* unique_run_root: the first of stamp, stamp-2, stamp-3, ... that does    *)
(* not exist.                                                              *)
Choose(f) ==
    /\ At(f, "choose")
    /\ \E n \in 1 .. MaxSuffix :
        /\ ~ Present(Run(<<Stamp[f], n>>))
        /\ \A m \in 1 .. (n - 1) : Present(Run(<<Stamp[f], m>>))
        /\ target' = [target EXCEPT ![f] = <<Stamp[f], n>>]
    /\ GoTo(f, "createRun")
    /\ NoRemoval
    /\ UNCHANGED <<fs, lock, listed, step, faults>>

(* write_bundle_files into the hidden run directory, one file at a time.   *)
CreateRun(f) ==
    /\ At(f, "createRun")
    /\ dirs' = [dirs EXCEPT ![TmpRun(f)] = EmptyDir]
    /\ step' = [step EXCEPT ![f] = 0]
    /\ GoTo(f, "writeRun")
    /\ NoRemoval
    /\ UNCHANGED <<lock, listed, target, history, swapped, faults>>

(* Mutant: one file too many is written.                                   *)
WriteRunPastEnd(f) ==
    /\ At(f, "writeRun")
    /\ Present(TmpRun(f))
    /\ dirs' = [dirs EXCEPT ![TmpRun(f)] = [@ EXCEPT ![step[f] + 1] = f]]
    /\ step' = [step EXCEPT ![f] = @ + 1]
    /\ NoRemoval
    /\ UNCHANGED <<lock, pc, listed, target, history, swapped, faults>>

WriteRun(f) ==
    /\ At(f, "writeRun")
    /\ Present(TmpRun(f))
    /\ step[f] < NFiles
    /\ dirs' = [dirs EXCEPT ![TmpRun(f)] = [@ EXCEPT ![step[f] + 1] = f]]
    /\ step' = [step EXCEPT ![f] = @ + 1]
    /\ NoRemoval
    /\ UNCHANGED <<lock, pc, listed, target, history, swapped, faults>>

RunWritten(f) ==
    /\ At(f, "writeRun")
    /\ step[f] = NFiles
    /\ GoTo(f, "install")
    /\ NoRemoval
    /\ UNCHANGED <<fs, lock, listed, step, target, faults>>

(* Mutant: the files are moved one by one into a run that may exist.       *)
InstallMerging(f) ==
    /\ At(f, "install")
    /\ Present(TmpRun(f))
    /\ dirs' = [dirs EXCEPT
          ![Run(target[f])] =
              [x \in Files |->
                  IF Present(Run(target[f])) /\ dirs[TmpRun(f)][x] = NoFile
                  THEN dirs[Run(target[f])][x] ELSE dirs[TmpRun(f)][x]],
          ![TmpRun(f)] = Absent]
    /\ history' = Append(history, f)
    /\ GoTo(f, "createLatest")
    /\ NoRemoval
    /\ UNCHANGED <<lock, listed, step, target, swapped, faults>>

(* The hidden directory becomes the timestamped run.                       *)
Install(f) ==
    /\ At(f, "install")
    /\ Present(TmpRun(f))
    /\ Replaceable(Run(target[f]))
    /\ dirs' = [dirs EXCEPT ![Run(target[f])] = dirs[TmpRun(f)],
                             ![TmpRun(f)] = Absent]
    /\ history' = Append(history, f)
    /\ GoTo(f, "createLatest")
    /\ NoRemoval
    /\ UNCHANGED <<lock, listed, step, target, swapped, faults>>

(* A file that cannot be written or a rename that is refused: the hidden   *)
(* directory is removed and the error reported.                            *)
DiscardRun(f) ==
    /\ GoTo(f, "discardRun")
    /\ todo' = [todo EXCEPT ![f] = {TmpRun(f)}]
    /\ UNCHANGED <<fs, lock, cur, listed, step, target>>

RunRefused(f) ==
    /\ \/ At(f, "writeRun") /\ step[f] < NFiles /\ ~ Present(TmpRun(f))
       \/ At(f, "install") /\ ~ Present(TmpRun(f))
       \/ At(f, "install") /\ ~ Replaceable(Run(target[f]))
    /\ DiscardRun(f)
    /\ UNCHANGED faults

RunFails(f) ==
    /\ pc[f] \in {"createRun", "writeRun", "install"}
    /\ DiscardRun(f)
    /\ Fault

-------------------------------------------------------------------------------
(* The run is measured, then replace_latest_from_run links its files, one  *)
(* at a time, into a hidden directory; `latest` is renamed aside and the   *)
(* hidden directory renamed to it.                                         *)
CreateLatest(f) ==
    /\ At(f, "createLatest")
    /\ Present(Run(target[f]))
    /\ dirs' = [dirs EXCEPT ![TmpLatest(f)] = EmptyDir]
    /\ step' = [step EXCEPT ![f] = 0]
    /\ GoTo(f, "link")
    /\ NoRemoval
    /\ UNCHANGED <<lock, listed, target, history, swapped, faults>>

Linkable(f) ==
    /\ Present(Run(target[f]))
    /\ dirs[Run(target[f])][step[f] + 1] # NoFile
    /\ Present(TmpLatest(f))

Link(f) ==
    /\ At(f, "link")
    /\ step[f] < NFiles
    /\ Linkable(f)
    /\ dirs' = [dirs EXCEPT ![TmpLatest(f)] =
                  [@ EXCEPT ![step[f] + 1] = dirs[Run(target[f])][step[f] + 1]]]
    /\ step' = [step EXCEPT ![f] = @ + 1]
    /\ NoRemoval
    /\ UNCHANGED <<lock, pc, listed, target, history, swapped, faults>>

(* Mutant: the last file of the bundle is not linked.                      *)
LinkedEarly(f) ==
    /\ At(f, "link")
    /\ step[f] = NFiles - 1
    /\ GoTo(f, "moveAside")
    /\ NoRemoval
    /\ UNCHANGED <<fs, lock, listed, step, target, faults>>

Linked(f) ==
    /\ At(f, "link")
    /\ step[f] = NFiles
    /\ GoTo(f, "moveAside")
    /\ NoRemoval
    /\ UNCHANGED <<fs, lock, listed, step, target, faults>>

MoveAside(f) ==
    /\ At(f, "moveAside")
    /\ dirs' = IF Present(Latest)
                 THEN [dirs EXCEPT ![Backup(f)] = dirs[Latest], ![Latest] = Absent]
                 ELSE dirs
    /\ GoTo(f, "swap")
    /\ NoRemoval
    /\ UNCHANGED <<lock, listed, step, target, history, swapped, faults>>

Swap(f) ==
    /\ At(f, "swap")
    /\ Present(TmpLatest(f))
    /\ Replaceable(Latest)
    /\ dirs' = [dirs EXCEPT ![Latest] = dirs[TmpLatest(f)], ![TmpLatest(f)] = Absent]
    /\ swapped' = swapped \cup {f}
    /\ GoTo(f, "removeBackup")
    /\ todo' = [todo EXCEPT ![f] = {p \in {Backup(f)} : Present(p)}]
    /\ UNCHANGED <<lock, cur, listed, step, target, history, faults>>

(* The second rename is refused: the backup goes back if `latest` is free. *)
Restore(f) ==
    /\ dirs' = IF Present(Backup(f)) /\ ~ Present(Latest)
                 THEN [dirs EXCEPT ![Latest] = dirs[Backup(f)], ![Backup(f)] = Absent]
                 ELSE dirs
    /\ GoTo(f, "giveUp")
    /\ NoRemoval
    /\ UNCHANGED <<lock, listed, step, target, history, swapped>>

SwapRefused(f) ==
    /\ At(f, "swap")
    /\ ~ Present(TmpLatest(f)) \/ ~ Replaceable(Latest)
    /\ Restore(f)
    /\ UNCHANGED faults

SwapFails(f) ==
    /\ At(f, "swap")
    /\ Restore(f)
    /\ Fault

(* Every earlier error leaves the hidden directory where it is.            *)
GiveUp(f) ==
    /\ GoTo(f, "giveUp")
    /\ NoRemoval
    /\ UNCHANGED <<fs, lock, listed, step, target>>

(* Mutant: a file that cannot be linked is tried again.                    *)
LinkAgain(f) ==
    /\ At(f, "link") /\ step[f] < NFiles /\ ~ Linkable(f)
    /\ NoRemoval
    /\ UNCHANGED <<fs, lock, pc, listed, step, target, faults>>

LinkRefused(f) ==
    /\ \/ At(f, "createLatest") /\ ~ Present(Run(target[f]))
       \/ At(f, "link") /\ step[f] < NFiles /\ ~ Linkable(f)
    /\ GiveUp(f)
    /\ UNCHANGED faults

(* The calls that return their error: also the analysis that precedes the  *)
(* publication, which writes nothing to the output directory.              *)
StepFails(f) ==
    /\ pc[f] \in {"listTemps", "createLatest", "link", "moveAside"}
    /\ GiveUp(f)
    /\ Fault

-------------------------------------------------------------------------------
(* The lock is given back when run_find_with_options returns.              *)
Release(f) ==
    /\ pc[f] \in {"release", "giveUp"}
    /\ lock' = [lock EXCEPT ![StateRoot[f]] = Nobody]
    /\ GoTo(f, IF pc[f] = "release" THEN "done" ELSE "failed")
    /\ NoRemoval
    /\ UNCHANGED <<fs, listed, step, target, faults>>

(* The process dies: the operating system gives its lock back.             *)
Crash(f) ==
    /\ pc[f] \in Holding
    /\ lock' = [lock EXCEPT ![StateRoot[f]] = Nobody]
    /\ GoTo(f, "crashed")
    /\ todo' = [todo EXCEPT ![f] = {}]
    /\ cur' = [cur EXCEPT ![f] = NoPlace]
    /\ listed' = [listed EXCEPT ![f] = {}]
    /\ Fault
    /\ UNCHANGED <<fs, step, target>>

-------------------------------------------------------------------------------
(* `prune --yes`: it plans over the published runs, then removes, with no  *)
(* lock.                                                                   *)
Plan(p) ==
    /\ At(p, "idle")
    /\ GoTo(p, "apply")
    /\ \E keep \in PruneKeeps :
        todo' = [todo EXCEPT
                  ![p] = PruneRemoves(Entries(RunPlaces), keep, MaxBytes)]
    /\ UNCHANGED <<fs, lock, cur, listed, step, target, faults>>

PruneCrash(p) ==
    /\ At(p, "apply")
    /\ GoTo(p, "crashed")
    /\ todo' = [todo EXCEPT ![p] = {}]
    /\ cur' = [cur EXCEPT ![p] = NoPlace]
    /\ Fault
    /\ UNCHANGED <<fs, lock, listed, step, target>>

(* `init`: ensure_state_dirs creates `latest` if it does not exist.        *)
EnsureStateDirs(i) ==
    /\ At(i, "idle")
    /\ GoTo(i, "done")
    /\ dirs' = IF Present(Latest) THEN dirs ELSE [dirs EXCEPT ![Latest] = EmptyDir]
    /\ NoRemoval
    /\ UNCHANGED <<lock, listed, step, target, history, swapped, faults>>

-------------------------------------------------------------------------------
Removal(p) ==
    \/ BeginRemoval(p) \/ RemoveFile(p) \/ RemoveDirectory(p)
    \/ RemovalsDone(p) \/ RemovalFindsNothing(p)

FindStep(f) ==
    \/ Acquire(f) \/ Refused(f) \/ Removal(f)
    \/ ListTemps(f) \/ Recover(f) \/ NothingToRecover(f) \/ ListRunTemps(f)
    \/ RetainBefore(f) \/ RetainAfter(f)
    \/ Choose(f) \/ CreateRun(f) \/ WriteRun(f) \/ RunWritten(f)
    \/ Install(f) \/ RunRefused(f)
    \/ CreateLatest(f) \/ Link(f) \/ Linked(f) \/ LinkRefused(f)
    \/ MoveAside(f) \/ Swap(f) \/ SwapRefused(f)
    \/ Release(f)

FindFault(f) ==
    \/ RemovalFails(f) \/ ListTempsFails(f) \/ RecoverFails(f)
    \/ RetainFails(f) \/ RunFails(f) \/ StepFails(f) \/ SwapFails(f)
    \/ Crash(f)

PruneStep(p) == Plan(p) \/ Removal(p)

PruneFault(p) == RemovalFails(p) \/ PruneCrash(p)

Next ==
    \/ \E f \in Finds : FindStep(f) \/ FindFault(f)
    \/ \E p \in Prunes : PruneStep(p) \/ PruneFault(p)
    \/ \E i \in Inits : EnsureStateDirs(i)

Spec == Init /\ [][Next]_vars

(* The operating system schedules every process that can take a step, and  *)
(* none of them waits for another one: the lock is tried, never awaited.   *)
Fairness ==
    /\ \A f \in Finds : WF_vars(FindStep(f))
    /\ \A p \in Prunes : WF_vars(PruneStep(p))

FairSpec == Spec /\ Fairness

-------------------------------------------------------------------------------
(* What the properties are about.                                          *)

Bundles == {Bundle(f) : f \in swapped}

(* The places where a report that was in `latest` may be.                  *)
Shown == {p \in {Latest} \cup Backups : dirs[p] \notin {Absent, EmptyDir}}

(* The report a reader finds in `latest`, or will find there once the next *)
(* publication has recovered it.                                           *)
Current ==
    IF Latest \in Shown THEN dirs[Latest][1]
    ELSE IF Shown # {} THEN dirs[CHOOSE p \in Shown : TRUE][1]
    ELSE Nobody

PresentRuns == {p \in RunPlaces : Present(p)}

(* A reader of `latest` finds no directory, the empty one of `init`, or    *)
(* one whole report: never a mixture, never a part (link in                *)
(* replace_latest_from_run, against the cleanup and crashes of others).    *)
LatestWhole == dirs[Latest] \in {Absent, EmptyDir} \cup Bundles

(* Once a report has been published, every crash leaves one whole report   *)
(* in `latest` or, when `latest` is missing, in the one backup that the    *)
(* next cleanup_abandoned_publication_state will rename to it.             *)
LatestSurvives ==
    swapped # {} =>
        /\ Shown # {}
        /\ Latest \notin Shown =>
              \A p \in Backups : Present(p) => dirs[p] \in Bundles

(* The directory implements the register: a publication replaces the whole *)
(* report, and neither a crash nor a recovery loses it or brings an older  *)
(* one back.                                                               *)
Register == INSTANCE ReportRegister
                WITH current <- Current, published <- swapped

RegisterSpec == Register!Spec

(* A `find` that reports success leaves its own report in `latest` and no  *)
(* hidden directory, its own or of an earlier crash.                       *)
SuccessLeavesOwnReport ==
    \A f \in Finds : At(f, "release") =>
        /\ dirs[Latest] = Bundle(f)
        /\ \A p \in TmpRuns \cup TmpLatests \cup Backups : ~ Present(p)

(* A `find` that reports success leaves at most Keep runs, and no more     *)
(* than MaxBytes in them unless the one kept whatever its size is alone.   *)
SuccessLeavesBoundedRuns ==
    \A f \in Finds : At(f, "release") =>
        /\ Cardinality(PresentRuns) <= Keep
        /\ \/ Cardinality(PresentRuns) <= 1
           \/ SumFunction([p \in PresentRuns |-> DirBytes(p)]) <= MaxBytes

(* Every invocation ends, whatever the others remove under it.             *)
EveryInvocationEnds ==
    \A p \in Finds \cup Prunes : <>(pc[p] \in Final)

(* Whatever other publications, removals and failures do to the directory, *)
(* a timestamped run holds files of one invocation only (unique_run_root   *)
(* checks a name that another publication may take before the rename).     *)
RunsOfOneWriter ==
    \A p \in PresentRuns : \E f \in Finds :
        \A x \in Files : dirs[p][x] \in {f, NoFile}

(* `prune` keeps the newest snapshots (`--keep`, src/cli.rs): it selects   *)
(* no run that was written after one it keeps.                             *)
WrittenBefore(f, g) ==
    \E i, j \in DOMAIN history : i < j /\ history[i] = f /\ history[j] = g

PruneKeepsNewest ==
    \A p \in Prunes : At(p, "apply") =>
        \A d \in todo[p] : \A r \in PresentRuns \ (todo[p] \cup {cur[p]}) :
            \A f, g \in Finds :
                dirs[d] = Bundle(f) /\ dirs[r] = Bundle(g) /\ cur[p] = NoPlace
                    => ~ WrittenBefore(g, f)
==============================================================================
