--------------------------- MODULE AdviceArtifacts ---------------------------
(***************************************************************************)
(* write_artifacts: an advice run is published as a run directory and as   *)
(* `latest`, each with advice.json and advice.md, by writers that wait for *)
(* the lock of the advice directory; `prune` removes run directories with  *)
(* no lock.  One action is one file-system call, or a check and the call   *)
(* that follows it at once.  A process may crash between any two of them,  *)
(* and a call may fail.                                                    *)
(***************************************************************************)
EXTENDS Integers

CONSTANTS
    Writers,   \* calls of write_artifacts
    Prunes,    \* invocations of `prune --yes`
    RunId,     \* the run name of each writer: generated_at and a digest
    Nobody,    \* no writer
    NoFile,    \* the file does not exist
    Absent,    \* the directory does not exist
    MaxFaults  \* bound: crashes and failing calls in one behaviour

ASSUME ProcsAssumption ==
    /\ Writers \cap Prunes = {}
    /\ Nobody \notin Writers
    /\ NoFile \notin Writers
    /\ RunId \in [Writers -> STRING]
    /\ MaxFaults \in Nat

-------------------------------------------------------------------------------
(* 1 is advice.json and 2 is advice.md.                                    *)
Files == 1 .. 2

Dir == [Files -> Writers \cup {NoFile}]
EmptyDir == [x \in Files |-> NoFile]
Pair(w) == [x \in Files |-> w]

ASSUME AbsentAssumption == Absent \notin Dir

Procs == Writers \cup Prunes

Latest == <<"latest", Nobody>>
Backup == <<"backup", Nobody>>
Run(w) == <<"run", RunId[w]>>
TmpRun(w) == <<"tmpRun", w>>
TmpLatest(w) == <<"tmpLatest", w>>

Runs == {Run(w) : w \in Writers}
TmpRuns == {TmpRun(w) : w \in Writers}
TmpLatests == {TmpLatest(w) : w \in Writers}
Temporaries == TmpRuns \cup TmpLatests
Places == {Latest, Backup} \cup Runs \cup Temporaries

VARIABLES
    dirs,     \* the directory at each place
    lock,     \* the holder of .write.lock
    pc,       \* the next step of each process
    step,     \* how many files of a directory a writer has written
    todo,     \* the runs a `prune` has still to remove
    swapped,  \* history: the writers that have replaced `latest`
    selected, \* history: the runs that some `prune` has selected
    faults    \* how many crashes and failures have happened

vars == <<dirs, lock, pc, step, todo, swapped, selected, faults>>

Present(p) == dirs[p] # Absent

RecoverySteps == {"recover", "dropStale", "sweep", "check"}
WriteSteps == {"createRun", "writeRun", "install", "createLatest", "writeLatest"}
SwapSteps == {"moveAside", "swap", "dropBackup"}
EndSteps == {"release", "discard", "giveUp"}
Holding == RecoverySteps \cup WriteSteps \cup SwapSteps \cup EndSteps
Final == {"done", "failed", "crashed"}

TypeOK ==
    /\ dirs \in [Places -> Dir \cup {Absent}]
    /\ lock \in Writers \cup {Nobody}
    /\ pc \in [Procs -> {"idle", "apply"} \cup Holding \cup Final]
    /\ \A p \in Prunes : pc[p] \notin Holding
    /\ \A w \in Writers : pc[w] # "apply"
    /\ step \in [Writers -> 0 .. 2]
    /\ todo \in [Prunes -> SUBSET Runs]
    /\ swapped \subseteq Writers
    /\ selected \subseteq Runs
    /\ faults \in 0 .. MaxFaults

Init ==
    /\ dirs = [p \in Places |-> Absent]
    /\ lock = Nobody
    /\ pc = [p \in Procs |-> "idle"]
    /\ step = [w \in Writers |-> 0]
    /\ todo = [p \in Prunes |-> {}]
    /\ swapped = {}
    /\ selected = {}
    /\ faults = 0

At(p, label) == pc[p] = label
GoTo(p, label) == pc' = [pc EXCEPT ![p] = label]
PruneState == <<todo, selected>>

-------------------------------------------------------------------------------
(* lock_exclusive waits until no other writer holds the lock.              *)
Acquire(w) ==
    /\ At(w, "idle")
    /\ lock = Nobody
    /\ lock' = w
    /\ GoTo(w, "recover")
    /\ UNCHANGED <<dirs, step, PruneState, swapped, faults>>

-------------------------------------------------------------------------------
(* recover_advice_state: a backup is what a writer renamed aside.  It is   *)
(* stale if `latest` exists, and is `latest` otherwise.                    *)

(* Mutant: the backup is taken for stale whether or not `latest` exists.   *)
RecoverNothing(w) ==
    /\ At(w, "recover")
    /\ ~ Present(Latest) /\ Present(Backup)
    /\ dirs' = [dirs EXCEPT ![Backup] = Absent]
    /\ GoTo(w, "sweep")
    /\ UNCHANGED <<lock, step, PruneState, swapped, faults>>

Recover(w) ==
    /\ At(w, "recover")
    /\ ~ Present(Latest) /\ Present(Backup)
    /\ dirs' = [dirs EXCEPT ![Latest] = dirs[Backup], ![Backup] = Absent]
    /\ GoTo(w, "sweep")
    /\ UNCHANGED <<lock, step, PruneState, swapped, faults>>

NothingToRecover(w) ==
    /\ At(w, "recover")
    /\ Present(Latest) \/ ~ Present(Backup)
    /\ GoTo(w, IF Present(Backup) THEN "dropStale" ELSE "sweep")
    /\ UNCHANGED <<dirs, lock, step, PruneState, swapped, faults>>

(* fs::remove_dir_all of the backup: its files, then the directory.        *)
AfterBackup == [dropStale |-> "sweep", dropBackup |-> "release"]

RemoveBackupFile(w) ==
    /\ pc[w] \in DOMAIN AfterBackup
    /\ Present(Backup)
    /\ \E x \in Files :
        /\ dirs[Backup][x] # NoFile
        /\ dirs' = [dirs EXCEPT ![Backup] = [@ EXCEPT ![x] = NoFile]]
    /\ UNCHANGED <<lock, pc, step, PruneState, swapped, faults>>

RemoveBackup(w) ==
    /\ pc[w] \in DOMAIN AfterBackup
    /\ dirs[Backup] = EmptyDir
    /\ dirs' = [dirs EXCEPT ![Backup] = Absent]
    /\ GoTo(w, AfterBackup[pc[w]])
    /\ UNCHANGED <<lock, step, PruneState, swapped, faults>>

(* remove_stale_advice_temporaries: a temporary that is partly removed is  *)
(* a temporary like any other, so each is removed in one step.             *)
RemoveTemporary(p) == dirs' = [dirs EXCEPT ![p] = Absent]

Sweep(w) ==
    /\ At(w, "sweep")
    /\ \E p \in Temporaries : Present(p) /\ RemoveTemporary(p)
    /\ UNCHANGED <<lock, pc, step, PruneState, swapped, faults>>

(* Mutant: the temporaries of runs/ are left.                              *)
SweptRoot(w) ==
    /\ At(w, "sweep")
    /\ \A p \in TmpLatests : ~ Present(p)
    /\ GoTo(w, "check")
    /\ UNCHANGED <<dirs, lock, step, PruneState, swapped, faults>>

Swept(w) ==
    /\ At(w, "sweep")
    /\ \A p \in Temporaries : ~ Present(p)
    /\ GoTo(w, "check")
    /\ UNCHANGED <<dirs, lock, step, PruneState, swapped, faults>>

-------------------------------------------------------------------------------
(* A run that exists already is an error.                                  *)
Check(w) ==
    /\ At(w, "check")
    /\ GoTo(w, IF Present(Run(w)) THEN "giveUp" ELSE "createRun")
    /\ UNCHANGED <<dirs, lock, step, PruneState, swapped, faults>>

(* A temporary directory is created, then write_pair fills it.             *)
Create(w, from, place, to) ==
    /\ At(w, from)
    /\ dirs' = [dirs EXCEPT ![place] = EmptyDir]
    /\ step' = [step EXCEPT ![w] = 0]
    /\ GoTo(w, to)
    /\ UNCHANGED <<lock, PruneState, swapped, faults>>

Write(w, at, place) ==
    /\ At(w, at)
    /\ step[w] < 2
    /\ dirs' = [dirs EXCEPT ![place] = [@ EXCEPT ![step[w] + 1] = w]]
    /\ step' = [step EXCEPT ![w] = @ + 1]
    /\ UNCHANGED <<lock, pc, PruneState, swapped, faults>>

CreateRun(w) == Create(w, "createRun", TmpRun(w), "writeRun")
WriteRun(w) == Write(w, "writeRun", TmpRun(w))
CreateLatest(w) == Create(w, "createLatest", TmpLatest(w), "writeLatest")
WriteLatest(w) == Write(w, "writeLatest", TmpLatest(w))

(* Mutant: the run is renamed before its Markdown is written.              *)
InstallEarly(w) ==
    /\ At(w, "writeRun")
    /\ step[w] = 1
    /\ dirs' = [dirs EXCEPT ![Run(w)] = dirs[TmpRun(w)], ![TmpRun(w)] = Absent]
    /\ GoTo(w, "createLatest")
    /\ UNCHANGED <<lock, step, PruneState, swapped, faults>>

Install(w) ==
    /\ At(w, "writeRun")
    /\ step[w] = 2
    /\ dirs' = [dirs EXCEPT ![Run(w)] = dirs[TmpRun(w)], ![TmpRun(w)] = Absent]
    /\ GoTo(w, "createLatest")
    /\ UNCHANGED <<lock, step, PruneState, swapped, faults>>

(* Mutant: `latest` is replaced before its Markdown is written.            *)
MoveAsideEarly(w) ==
    /\ At(w, "writeLatest")
    /\ step[w] = 1
    /\ dirs' = IF Present(Latest)
                 THEN [dirs EXCEPT ![Backup] = dirs[Latest], ![Latest] = Absent]
                 ELSE dirs
    /\ GoTo(w, "swap")
    /\ UNCHANGED <<lock, step, PruneState, swapped, faults>>

MoveAside(w) ==
    /\ At(w, "writeLatest")
    /\ step[w] = 2
    /\ dirs' = IF Present(Latest)
                 THEN [dirs EXCEPT ![Backup] = dirs[Latest], ![Latest] = Absent]
                 ELSE dirs
    /\ GoTo(w, "swap")
    /\ UNCHANGED <<lock, step, PruneState, swapped, faults>>

Swap(w) ==
    /\ At(w, "swap")
    /\ dirs' = [dirs EXCEPT ![Latest] = dirs[TmpLatest(w)], ![TmpLatest(w)] = Absent]
    /\ swapped' = swapped \cup {w}
    /\ GoTo(w, IF Present(Backup) THEN "dropBackup" ELSE "release")
    /\ UNCHANGED <<lock, step, PruneState, faults>>

-------------------------------------------------------------------------------
Fault == faults < MaxFaults /\ faults' = faults + 1

(* A call fails, or the sync of the directory after it, and its error is   *)
(* returned: the writer drops its temporary directories, then the lock.    *)
Fails(w) ==
    /\ pc[w] \in Holding \ {"swap", "discard", "giveUp"}
    /\ GoTo(w, "discard")
    /\ Fault
    /\ UNCHANGED <<dirs, lock, step, PruneState, swapped>>

(* The second rename fails: the backup is renamed back, if that succeeds.  *)
SwapFails(w) ==
    /\ At(w, "swap")
    /\ \/ UNCHANGED dirs
       \/ /\ Present(Backup)
          /\ dirs' = [dirs EXCEPT ![Latest] = dirs[Backup], ![Backup] = Absent]
    /\ GoTo(w, "discard")
    /\ Fault
    /\ UNCHANGED <<lock, step, PruneState, swapped>>

(* TempDir removes its directory when it is dropped, if it can.            *)
Discard(w) ==
    /\ At(w, "discard")
    /\ dirs' = [dirs EXCEPT ![TmpRun(w)] = Absent, ![TmpLatest(w)] = Absent]
    /\ GoTo(w, "giveUp")
    /\ UNCHANGED <<lock, step, PruneState, swapped, faults>>

DiscardFails(w) ==
    /\ At(w, "discard")
    /\ GoTo(w, "giveUp")
    /\ Fault
    /\ UNCHANGED <<dirs, lock, step, PruneState, swapped>>

(* Mutant: an error keeps the lock.                                        *)
ReleaseSuccess(w) ==
    /\ pc[w] \in {"release", "giveUp"}
    /\ lock' = IF pc[w] = "release" THEN Nobody ELSE lock
    /\ GoTo(w, IF pc[w] = "release" THEN "done" ELSE "failed")
    /\ UNCHANGED <<dirs, step, PruneState, swapped, faults>>

Release(w) ==
    /\ pc[w] \in {"release", "giveUp"}
    /\ lock' = Nobody
    /\ GoTo(w, IF pc[w] = "release" THEN "done" ELSE "failed")
    /\ UNCHANGED <<dirs, step, PruneState, swapped, faults>>

(* The process dies: its lock is given back, its directories stay.         *)
Crash(w) ==
    /\ pc[w] \in Holding
    /\ lock' = Nobody
    /\ GoTo(w, "crashed")
    /\ Fault
    /\ UNCHANGED <<dirs, step, PruneState, swapped>>

-------------------------------------------------------------------------------
(* `prune --yes` selects runs (which ones, Retention says) and removes     *)
(* them one file at a time; an error or a crash leaves the rest.           *)
Plan(p) ==
    /\ At(p, "idle")
    /\ \E S \in SUBSET {r \in Runs : Present(r)} :
        /\ todo' = [todo EXCEPT ![p] = S]
        /\ selected' = selected \cup S
    /\ GoTo(p, "apply")
    /\ UNCHANGED <<dirs, lock, step, swapped, faults>>

PruneFile(p) ==
    /\ At(p, "apply")
    /\ \E r \in todo[p] : \E x \in Files :
        /\ Present(r)
        /\ dirs[r][x] # NoFile
        /\ dirs' = [dirs EXCEPT ![r] = [@ EXCEPT ![x] = NoFile]]
    /\ UNCHANGED <<lock, pc, step, PruneState, swapped, faults>>

PruneDirectory(p) ==
    /\ At(p, "apply")
    /\ \E r \in todo[p] :
        /\ dirs[r] = EmptyDir
        /\ dirs' = [dirs EXCEPT ![r] = Absent]
        /\ todo' = [todo EXCEPT ![p] = @ \ {r}]
    /\ UNCHANGED <<lock, pc, step, selected, swapped, faults>>

(* All is removed, or another `prune` has removed a run of the plan.       *)
PruneEnds(p) ==
    /\ At(p, "apply")
    /\ todo[p] = {} \/ \E r \in todo[p] : ~ Present(r)
    /\ GoTo(p, IF todo[p] = {} THEN "done" ELSE "failed")
    /\ UNCHANGED <<dirs, lock, step, PruneState, swapped, faults>>

PruneStops(p) ==
    /\ At(p, "apply")
    /\ \E label \in {"failed", "crashed"} : GoTo(p, label)
    /\ Fault
    /\ UNCHANGED <<dirs, lock, step, PruneState, swapped>>

-------------------------------------------------------------------------------
WriterStep(w) ==
    \/ Acquire(w) \/ Recover(w) \/ NothingToRecover(w)
    \/ RemoveBackupFile(w) \/ RemoveBackup(w) \/ Sweep(w) \/ Swept(w)
    \/ Check(w) \/ CreateRun(w) \/ WriteRun(w) \/ Install(w)
    \/ CreateLatest(w) \/ WriteLatest(w) \/ MoveAside(w) \/ Swap(w)
    \/ Discard(w) \/ Release(w)

WriterFault(w) == Fails(w) \/ SwapFails(w) \/ DiscardFails(w) \/ Crash(w)

PruneStep(p) == Plan(p) \/ PruneFile(p) \/ PruneDirectory(p) \/ PruneEnds(p)

Next ==
    \/ \E w \in Writers : WriterStep(w) \/ WriterFault(w)
    \/ \E p \in Prunes : PruneStep(p) \/ PruneStops(p)

Spec == Init /\ [][Next]_vars

(* The operating system schedules every process that can take a step; a    *)
(* writer that waits for the lock can once no other holds it.              *)
Fairness ==
    /\ \A w \in Writers : WF_vars(WriterStep(w))
    /\ \A p \in Prunes : WF_vars(PruneStep(p))

FairSpec == Spec /\ Fairness

-------------------------------------------------------------------------------
(* The advice a reader finds in `latest`, or will find once the next       *)
(* writer has recovered it.                                                *)
Current ==
    IF Present(Latest) THEN dirs[Latest][1]
    ELSE IF Present(Backup) THEN dirs[Backup][1]
    ELSE Nobody

(* advice.json and advice.md of `latest` are of one writer.                *)
LatestPaired ==
    Present(Latest) => \E w \in swapped : dirs[Latest] = Pair(w)

(* The advice directory implements the register: a write replaces the      *)
(* pair, and neither a crash nor the recovery of a backup, however often   *)
(* it is interrupted, loses it or brings an older one back.                *)
Register == INSTANCE ReportRegister
                WITH Finds <- Writers, current <- Current, published <- swapped

RegisterSpec == Register!Spec

(* A write that succeeds leaves its own pair in `latest`, and no backup    *)
(* and no temporary of any writer.                                         *)
SuccessLeavesNothing ==
    \A w \in Writers : At(w, "release") =>
        /\ dirs[Latest] = Pair(w)
        /\ \A p \in Temporaries \cup {Backup} : ~ Present(p)

(* A run that no `prune` has selected holds the pair of one writer.        *)
RunsPaired ==
    \A r \in Runs \ selected :
        Present(r) => \E w \in Writers : Run(w) = r /\ dirs[r] = Pair(w)

(* Every writer gets the lock and ends, however the others end.            *)
EveryWriterEnds == \A w \in Writers : <>(pc[w] \in Final)
==============================================================================
