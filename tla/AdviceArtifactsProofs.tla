------------------------ MODULE AdviceArtifactsProofs ------------------------
(***************************************************************************)
(* Proofs about AdviceArtifacts, for every number of writers, prunes and   *)
(* faults: its types, that `latest` holds the pair of one writer, what a   *)
(* successful write leaves, that runs no `prune` has selected are pairs,   *)
(* and that the advice directory implements the register of                *)
(* ReportRegister.                                                         *)
(***************************************************************************)
EXTENDS AdviceArtifacts, TLAPS

(***************************************************************************)
(* Facts about places and directories.                                     *)
(***************************************************************************)

(* Every path is a place, and the kinds of paths do not overlap.           *)
LEMMA PlaceFacts ==
    /\ Latest \in Places /\ Backup \in Places /\ Runs \subseteq Places
    /\ Temporaries \subseteq Places
    /\ Latest # Backup
    /\ Latest \notin Runs \cup Temporaries
    /\ Backup \notin Runs \cup Temporaries
    /\ Runs \cap Temporaries = {}
    /\ \A w \in Writers : /\ Run(w) \in Runs
                          /\ TmpRun(w) \in Temporaries
                          /\ TmpLatest(w) \in Temporaries
                          /\ TmpRun(w) # TmpLatest(w)
  BY DEF Places, Runs, Temporaries, TmpRuns, TmpLatests, Latest, Backup,
         Run, TmpRun, TmpLatest

(* The first n files of a directory are of one writer, the others are not  *)
(* written yet.                                                            *)
Filled(w, n) == [x \in Files |-> IF x <= n THEN w ELSE NoFile]

(* Filling a directory file by file makes it the pair of its writer.       *)
LEMMA FilledFacts ==
    ASSUME NEW w \in Writers
    PROVE  /\ EmptyDir \in Dir /\ Absent # EmptyDir
           /\ Pair(w) \in Dir /\ Pair(w) # Absent /\ Pair(w)[1] = w
           /\ \A n \in 0 .. 2 : Filled(w, n) \in Dir /\ Filled(w, n) # Absent
           /\ Filled(w, 0) = EmptyDir
           /\ Filled(w, 2) = Pair(w)
           /\ \A n \in 0 .. 1 :
                 [Filled(w, n) EXCEPT ![n + 1] = w] = Filled(w, n + 1)
           /\ \A d \in Dir, x \in Files :
                 [d EXCEPT ![x] = NoFile] \in Dir \ {Absent}
  <1>1. /\ EmptyDir \in Dir /\ Pair(w) \in Dir
        /\ \A n \in 0 .. 2 : Filled(w, n) \in Dir
        /\ \A d \in Dir, x \in Files : [d EXCEPT ![x] = NoFile] \in Dir
    BY DEF EmptyDir, Pair, Filled, Dir
  <1>2. 1 \in Files /\ Files = {1, 2}
    BY DEF Files
  <1>3. Pair(w)[1] = w
    BY <1>2 DEF Pair
  <1>4. Filled(w, 0) = EmptyDir /\ Filled(w, 2) = Pair(w)
    BY DEF Filled, EmptyDir, Pair, Files
  <1>5. ASSUME NEW n \in 0 .. 1
        PROVE  [Filled(w, n) EXCEPT ![n + 1] = w] = Filled(w, n + 1)
    <2>1. [Filled(w, n) EXCEPT ![n + 1] = w] =
             [x \in Files |-> IF x = n + 1 THEN w ELSE Filled(w, n)[x]]
      BY DEF Filled
    <2>2. \A x \in Files :
             (IF x = n + 1 THEN w ELSE Filled(w, n)[x]) = IF x <= n + 1 THEN w ELSE NoFile
      BY DEF Filled, Files
    <2> QED
      BY <2>1, <2>2 DEF Filled
  <1> QED
    BY <1>1, <1>3, <1>4, <1>5, AbsentAssumption

(***************************************************************************)
(* The inductive invariant.                                                *)
(***************************************************************************)

(* A writer between its first step and its end holds the lock.             *)
Mutex == \A w \in Writers : pc[w] \in Holding <=> lock = w

(* `latest` is the pair of a writer that has replaced it; while a writer   *)
(* has it renamed aside, and after a crash there, the backup is.  One of   *)
(* the two exists from the first replacement on.                           *)
LatestInv ==
    /\ LatestPaired
    /\ ~ Present(Latest) /\ Present(Backup) =>
          \E w \in swapped : dirs[Backup] = Pair(w)
    /\ swapped # {} => Present(Latest) \/ Present(Backup)

(* The temporaries other than those of P are absent.                       *)
NoneBut(P) == \A p \in Temporaries \ P : ~ Present(p)

NoBackup == {"sweep", "check", "createRun", "writeRun", "createLatest",
             "writeLatest", "release"}
NoTemporary == {"check", "createRun", "createLatest", "dropBackup", "release"}
Replaced == {"dropBackup", "release"}

(* What the directories are when the writer w is at each step.             *)
Phase(w) ==
    /\ w \in swapped => pc[w] \in Replaced \cup {"discard", "giveUp"} \cup Final
    /\ pc[w] \in NoBackup => ~ Present(Backup)
    /\ pc[w] \in NoTemporary => NoneBut({})
    /\ pc[w] = "dropStale" => Present(Latest)
    /\ pc[w] = "swap" => ~ Present(Latest) /\ step[w] = 2
    /\ pc[w] = "writeRun" =>
          NoneBut({TmpRun(w)}) /\ dirs[TmpRun(w)] = Filled(w, step[w])
    /\ pc[w] \in {"writeLatest", "swap"} =>
          NoneBut({TmpLatest(w)}) /\ dirs[TmpLatest(w)] = Filled(w, step[w])
    /\ pc[w] \in Replaced => w \in swapped /\ dirs[Latest] = Pair(w)

(* A run no `prune` has selected is a pair, and no other is removed.       *)
RunsInv == RunsPaired /\ \A p \in Prunes : todo[p] \subseteq selected

IInv ==
    /\ TypeOK
    /\ Mutex
    /\ LatestInv
    /\ RunsInv
    /\ \A w \in Writers : Phase(w)

(***************************************************************************)
(* Lemmas about steps.                                                     *)
(***************************************************************************)

(* The writer w has gone to a step: the steps of all have their types, the *)
(* lock is with the writer that is between its first step and its end, and *)
(* the other writers are in their phases.                                  *)
Went(w, to) ==
    /\ Mutex'
    /\ \A v \in Writers \ {w} : Phase(v)'
    /\ pc' \in [Procs -> {"idle", "apply"} \cup Holding \cup Final]
    /\ \A p \in Prunes : pc'[p] \notin Holding
    /\ \A v \in Writers : pc'[v] # "apply"
    /\ pc'[w] = to

(* A step of one writer leaves the phases of the others alone: they do not *)
(* hold the lock, and it is theirs only if it gives it back.               *)
LEMMA Others ==
    ASSUME IInv, NEW w \in Writers, NEW to \in Holding \cup Final,
           GoTo(w, to), lock \in {w, Nobody},
           lock' = IF to \in Holding THEN w ELSE Nobody,
           swapped' \subseteq swapped \cup {w}
    PROVE  Went(w, to)
  <1>1. /\ pc' \in [Procs -> {"idle", "apply"} \cup Holding \cup Final]
        /\ pc'[w] = to
        /\ \A q \in Procs \ {w} : pc'[q] = pc[q]
    BY DEF GoTo, IInv, TypeOK, Procs
  <1>2. \A v \in Writers : v \in Procs /\ v \notin Prunes
    BY ProcsAssumption DEF Procs
  <1>3. Holding \cap Final = {} /\ "apply" \notin Holding \cup Final
    BY DEF Holding, RecoverySteps, WriteSteps, SwapSteps, EndSteps, Final
  <1>4. /\ \A p \in Prunes : pc'[p] \notin Holding
        /\ \A v \in Writers : pc'[v] # "apply"
    BY <1>1, <1>2, <1>3 DEF IInv, TypeOK, Procs
  <1>5. Mutex'
    BY <1>1, <1>2, <1>3, ProcsAssumption DEF IInv, Mutex
  <1>6. ASSUME NEW v \in Writers \ {w} PROVE Phase(v)'
    <2>1. pc'[v] \notin Holding /\ pc'[v] = pc[v]
      BY <1>1, <1>2, ProcsAssumption DEF IInv, Mutex
    <2>2. v \in swapped' => pc'[v] \in Final
      BY <2>1 DEF IInv, Phase, Replaced, Holding, SwapSteps, EndSteps
    <2> QED
      BY <2>1, <2>2 DEF Phase, NoBackup, NoTemporary, Replaced, Holding,
            RecoverySteps, WriteSteps, SwapSteps, EndSteps
  <1> QED
    BY <1>1, <1>4, <1>5, <1>6 DEF Went

(* The same of a step that leaves every process where it is.               *)
LEMMA Stays ==
    ASSUME IInv, NEW w \in Writers, pc[w] \in Holding,
           UNCHANGED <<pc, lock, swapped>>
    PROVE  Went(w, pc[w])
  <1>1. GoTo(w, pc[w])
    BY DEF GoTo, IInv, TypeOK, Procs
  <1>2. lock = w
    BY DEF IInv, Mutex
  <1> QED
    BY <1>1, <1>2, Others

(* A step that changes no run directory leaves the runs alone.             *)
LEMMA SameRuns ==
    ASSUME IInv, \A r \in Runs : dirs'[r] = dirs[r], UNCHANGED PruneState
    PROVE  RunsInv'
  BY DEF IInv, RunsInv, RunsPaired, Present, PruneState

(* A step that changes neither `latest` nor its backup leaves them alone.  *)
LEMMA SameLatest ==
    ASSUME IInv, dirs'[Latest] = dirs[Latest], dirs'[Backup] = dirs[Backup],
           swapped' = swapped
    PROVE  LatestInv'
  BY DEF IInv, LatestInv, LatestPaired, Present

(* A fault is one of the bounded number.                                   *)
LEMMA FaultType ==
    ASSUME faults \in 0 .. MaxFaults, Fault PROVE faults' \in 0 .. MaxFaults
  BY ProcsAssumption DEF Fault

(***************************************************************************)
(* Each step of a writer preserves the invariant.                          *)
(***************************************************************************)

(* At the start no directory exists and no writer holds the lock.          *)
LEMMA InitInv == Init => IInv
  <1> SUFFICES ASSUME Init PROVE IInv
    OBVIOUS
  <1>1. TypeOK
    BY ProcsAssumption DEF Init, TypeOK, Procs, Holding, RecoverySteps, WriteSteps,
                           SwapSteps, EndSteps, Final
  <1>2. Mutex
    BY ProcsAssumption DEF Init, Mutex, Procs, Holding, RecoverySteps, WriteSteps,
                           SwapSteps, EndSteps
  <1>3. LatestInv /\ RunsInv
    BY PlaceFacts DEF Init, LatestInv, LatestPaired, RunsInv, RunsPaired, Present
  <1>4. \A w \in Writers : Phase(w)
    BY DEF Init, Phase, Procs, NoBackup, NoTemporary, Replaced
  <1> QED
    BY <1>1, <1>2, <1>3, <1>4 DEF IInv

(* The writer that takes a step holds the lock.                            *)
LEMMA HasLock ==
    ASSUME IInv, NEW w \in Writers, pc[w] \in Holding
    PROVE  lock = w
  BY DEF IInv, Mutex

(* A writer gets the lock only when nobody holds it.                       *)
LEMMA AcquireInv ==
    ASSUME IInv, NEW w \in Writers, Acquire(w) PROVE IInv'
  <1>1. "recover" \in Holding
    BY DEF Holding, RecoverySteps
  <1>2. Went(w, "recover")
    BY <1>1, Others DEF Acquire
  <1>3. TypeOK'
    BY <1>2 DEF IInv, TypeOK, Acquire, Went, PruneState
  <1>4. LatestInv' /\ RunsInv'
    BY SameLatest, SameRuns DEF Acquire
  <1>5. w \notin swapped
    BY DEF Acquire, At, IInv, Phase, Replaced, Final
  <1>6. Phase(w)'
    BY <1>2, <1>5 DEF Acquire, Went, Phase, NoBackup, NoTemporary, Replaced
  <1> QED
    BY <1>2, <1>3, <1>4, <1>6 DEF IInv, Went

(* The backup that becomes `latest` is a pair.                             *)
LEMMA RecoverInv ==
    ASSUME IInv, NEW w \in Writers, Recover(w) PROVE IInv'
  <1>1. "recover" \in Holding /\ "sweep" \in Holding
    BY DEF Holding, RecoverySteps
  <1>2. lock = w
    BY <1>1, HasLock DEF Recover, At
  <1>3. Went(w, "sweep")
    BY <1>1, <1>2, Others DEF Recover
  <1>4. TypeOK'
    BY <1>3, PlaceFacts DEF IInv, TypeOK, Recover, Went, PruneState
  <1>5. /\ dirs'[Latest] = dirs[Backup] /\ dirs'[Backup] = Absent
        /\ \A r \in Runs : dirs'[r] = dirs[r]
    BY PlaceFacts DEF IInv, TypeOK, Recover
  <1>6. LatestInv'
    BY <1>5 DEF IInv, LatestInv, LatestPaired, Present, Recover
  <1>7. RunsInv'
    BY <1>5, SameRuns DEF Recover
  <1>8. w \notin swapped
    BY DEF Recover, At, IInv, Phase, Replaced, Final
  <1>9. Phase(w)'
    BY <1>3, <1>5, <1>8
      DEF Recover, Went, Phase, NoBackup, NoTemporary, Replaced, Present
  <1> QED
    BY <1>3, <1>4, <1>6, <1>7, <1>9 DEF IInv, Went

(* A backup is taken for stale only when `latest` exists.                  *)
LEMMA NothingToRecoverInv ==
    ASSUME IInv, NEW w \in Writers, NothingToRecover(w) PROVE IInv'
  <1>1. /\ pc[w] \in Holding
        /\ (IF Present(Backup) THEN "dropStale" ELSE "sweep") \in Holding
        /\ lock = w
    BY HasLock DEF NothingToRecover, At, Holding, RecoverySteps, WriteSteps,
                   SwapSteps, EndSteps
  <1>2. Went(w, (IF Present(Backup) THEN "dropStale" ELSE "sweep"))
    BY <1>1, Others DEF NothingToRecover, IInv, TypeOK, Procs
  <1>3. /\ dirs' = dirs
    BY PlaceFacts DEF NothingToRecover, IInv, TypeOK
  <1>4. TypeOK'
    BY <1>2, PlaceFacts DEF IInv, TypeOK, NothingToRecover, PruneState, Went
  <1>5. LatestInv'
    BY <1>3, SameLatest DEF NothingToRecover
  <1>6. RunsInv'
    BY <1>3, SameRuns DEF NothingToRecover
  <1>7. Phase(w)'
    BY <1>1, <1>2, <1>3, PlaceFacts
      DEF NothingToRecover, At, IInv, Went, Phase, NoneBut, Present,
          NoBackup, NoTemporary, Replaced, Final
  <1> QED
    BY <1>2, <1>4, <1>5, <1>6, <1>7 DEF IInv, Went

(* A backup loses files only when `latest` exists.                         *)
LEMMA RemoveBackupFileInv ==
    ASSUME IInv, NEW w \in Writers, RemoveBackupFile(w) PROVE IInv'
  <1>1. pc[w] \in Holding /\ pc[w] \in Holding
        /\ lock = w
    BY HasLock DEF RemoveBackupFile, At, Holding, RecoverySteps, WriteSteps,
                   SwapSteps, EndSteps,
          AfterBackup
  <1>2. Went(w, pc[w])
    BY <1>1, Stays DEF RemoveBackupFile
  <1>3. /\ dirs' \in [Places -> Dir \cup {Absent}]
        /\ dirs'[Backup] \in Dir /\ dirs'[Backup] # Absent
        /\ \A p \in Places \ {Backup} : dirs'[p] = dirs[p]
    <2>1. PICK x \in Files : dirs' = [dirs EXCEPT ![Backup] = [@ EXCEPT ![x] = NoFile]]
      BY DEF RemoveBackupFile
    <2>2. dirs[Backup] \in Dir
      BY PlaceFacts DEF RemoveBackupFile, IInv, TypeOK, Present
    <2>3. [dirs[Backup] EXCEPT ![x] = NoFile] \in Dir
      BY <2>2 DEF Dir
    <2>4. dirs' = [dirs EXCEPT ![Backup] = [dirs[Backup] EXCEPT ![x] = NoFile]]
      BY <2>1, PlaceFacts
    <2> QED
      BY <2>3, <2>4, PlaceFacts, AbsentAssumption DEF IInv, TypeOK
  <1>4. TypeOK'
    BY <1>2, <1>3 DEF IInv, TypeOK, RemoveBackupFile, PruneState, Went
  <1>5. LatestInv'
    <2>1. Present(Latest) /\ dirs'[Latest] = dirs[Latest]
      BY <1>3, FilledFacts, PlaceFacts
        DEF RemoveBackupFile, AfterBackup, IInv, Phase, Replaced, Present
    <2> QED
      BY <2>1 DEF RemoveBackupFile, IInv, LatestInv, LatestPaired, Present
  <1>6. RunsInv'
    BY <1>3, PlaceFacts, SameRuns DEF RemoveBackupFile
  <1>7. Phase(w)'
    BY <1>1, <1>2, <1>3, PlaceFacts, FilledFacts
      DEF RemoveBackupFile, At, IInv, Went, Phase, NoneBut, Present,
          NoBackup, NoTemporary, Replaced, Final, AfterBackup
  <1> QED
    BY <1>2, <1>4, <1>5, <1>6, <1>7 DEF IInv, Went

(* A backup is removed only when `latest` exists.                          *)
LEMMA RemoveBackupInv ==
    ASSUME IInv, NEW w \in Writers, RemoveBackup(w) PROVE IInv'
  <1>1. pc[w] \in Holding /\ AfterBackup[pc[w]] \in Holding
        /\ lock = w
    BY HasLock DEF RemoveBackup, At, Holding, RecoverySteps, WriteSteps,
                   SwapSteps, EndSteps,
          AfterBackup
  <1>2. Went(w, AfterBackup[pc[w]])
    BY <1>1, Others DEF RemoveBackup, IInv, TypeOK, Procs
  <1>3. /\ dirs'[Backup] = Absent
        /\ dirs'[Latest] = dirs[Latest]
        /\ \A r \in Runs : dirs'[r] = dirs[r]
        /\ \A t \in Temporaries : dirs'[t] = dirs[t]
    BY PlaceFacts, FilledFacts DEF RemoveBackup, IInv, TypeOK
  <1>4. TypeOK'
    BY <1>2, PlaceFacts, FilledFacts DEF IInv, TypeOK, RemoveBackup,
                                         PruneState, Went
  <1>5. LatestInv'
    BY <1>3, FilledFacts DEF RemoveBackup, AfterBackup, IInv, LatestInv,
                             LatestPaired, Present, Phase, Replaced
  <1>6. RunsInv'
    BY <1>3, SameRuns DEF RemoveBackup
  <1>7. Phase(w)'
    BY <1>1, <1>2, <1>3, PlaceFacts, FilledFacts
      DEF RemoveBackup, At, IInv, Went, Phase, NoneBut, Present,
          NoBackup, NoTemporary, Replaced, Final, AfterBackup
  <1> QED
    BY <1>2, <1>4, <1>5, <1>6, <1>7 DEF IInv, Went

(* The sweep removes temporaries only.                                     *)
LEMMA SweepInv ==
    ASSUME IInv, NEW w \in Writers, Sweep(w) PROVE IInv'
  <1>1. pc[w] \in Holding /\ pc[w] \in Holding
        /\ lock = w
    BY HasLock DEF Sweep, At, Holding, RecoverySteps, WriteSteps, SwapSteps,
                   EndSteps
  <1>2. Went(w, pc[w])
    BY <1>1, Stays DEF Sweep
  <1>3. /\ dirs'[Latest] = dirs[Latest]
        /\ dirs'[Backup] = dirs[Backup]
        /\ \A r \in Runs : dirs'[r] = dirs[r]
    BY PlaceFacts DEF Sweep, RemoveTemporary, IInv, TypeOK
  <1>4. TypeOK'
    BY <1>2, PlaceFacts DEF IInv, TypeOK, Sweep, RemoveTemporary, PruneState,
                            Went
  <1>5. LatestInv'
    BY <1>3, SameLatest DEF Sweep
  <1>6. RunsInv'
    BY <1>3, SameRuns DEF Sweep
  <1>7. Phase(w)'
    BY <1>1, <1>2, <1>3, PlaceFacts
      DEF Sweep, At, IInv, Went, Phase, NoneBut, Present,
          NoBackup, NoTemporary, Replaced, Final
  <1> QED
    BY <1>2, <1>4, <1>5, <1>6, <1>7 DEF IInv, Went

(* The sweep ends when no temporary exists.                                *)
LEMMA SweptInv ==
    ASSUME IInv, NEW w \in Writers, Swept(w) PROVE IInv'
  <1>1. pc[w] \in Holding /\ "check" \in Holding
        /\ lock = w
    BY HasLock DEF Swept, At, Holding, RecoverySteps, WriteSteps, SwapSteps,
                   EndSteps
  <1>2. Went(w, "check")
    BY <1>1, Others DEF Swept, IInv, TypeOK, Procs
  <1>3. /\ dirs' = dirs
    BY PlaceFacts DEF Swept, IInv, TypeOK
  <1>4. TypeOK'
    BY <1>2, PlaceFacts DEF IInv, TypeOK, Swept, PruneState, Went
  <1>5. LatestInv'
    BY <1>3, SameLatest DEF Swept
  <1>6. RunsInv'
    BY <1>3, SameRuns DEF Swept
  <1>7. Phase(w)'
    BY <1>1, <1>2, <1>3, PlaceFacts
      DEF Swept, At, IInv, Went, Phase, NoneBut, Present,
          NoBackup, NoTemporary, Replaced, Final
  <1> QED
    BY <1>2, <1>4, <1>5, <1>6, <1>7 DEF IInv, Went

(* The check of the run changes no directory.                              *)
LEMMA CheckInv ==
    ASSUME IInv, NEW w \in Writers, Check(w) PROVE IInv'
  <1>1. /\ pc[w] \in Holding
        /\ (IF Present(Run(w)) THEN "giveUp" ELSE "createRun") \in Holding
        /\ lock = w
    BY HasLock DEF Check, At, Holding, RecoverySteps, WriteSteps, SwapSteps,
                   EndSteps
  <1>2. Went(w, (IF Present(Run(w)) THEN "giveUp" ELSE "createRun"))
    BY <1>1, Others DEF Check, IInv, TypeOK, Procs
  <1>3. /\ dirs' = dirs
    BY PlaceFacts DEF Check, IInv, TypeOK
  <1>4. TypeOK'
    BY <1>2, PlaceFacts DEF IInv, TypeOK, Check, PruneState, Went
  <1>5. LatestInv'
    BY <1>3, SameLatest DEF Check
  <1>6. RunsInv'
    BY <1>3, SameRuns DEF Check
  <1>7. Phase(w)'
    BY <1>1, <1>2, <1>3, PlaceFacts
      DEF Check, At, IInv, Went, Phase, NoneBut, Present,
          NoBackup, NoTemporary, Replaced, Final
  <1> QED
    BY <1>2, <1>4, <1>5, <1>6, <1>7 DEF IInv, Went

(* The temporary of the run is created empty.                              *)
LEMMA CreateRunInv ==
    ASSUME IInv, NEW w \in Writers, CreateRun(w) PROVE IInv'
  <1>1. pc[w] \in Holding /\ "writeRun" \in Holding
        /\ lock = w
    BY HasLock DEF CreateRun, Create, At, Holding, RecoverySteps, WriteSteps,
                   SwapSteps, EndSteps
  <1>2. Went(w, "writeRun")
    BY <1>1, Others DEF CreateRun, Create, IInv, TypeOK, Procs
  <1>3. /\ dirs'[TmpRun(w)] = EmptyDir /\ step'[w] = 0
        /\ dirs'[Latest] = dirs[Latest]
        /\ dirs'[Backup] = dirs[Backup]
        /\ \A r \in Runs : dirs'[r] = dirs[r]
        /\ \A p \in Temporaries \ {TmpRun(w)} : dirs'[p] = dirs[p]
    BY PlaceFacts, FilledFacts DEF CreateRun, Create, IInv, TypeOK
  <1>4. TypeOK'
    BY <1>2, PlaceFacts, FilledFacts DEF IInv, TypeOK, CreateRun, Create,
                                         PruneState, Went
  <1>5. LatestInv'
    BY <1>3, SameLatest DEF CreateRun, Create
  <1>6. RunsInv'
    BY <1>3, SameRuns DEF CreateRun, Create
  <1>7. Phase(w)'
    BY <1>1, <1>2, <1>3, PlaceFacts, FilledFacts
      DEF CreateRun, Create, At, IInv, Went, Phase, NoneBut, Present,
          NoBackup, NoTemporary, Replaced, Final
  <1> QED
    BY <1>2, <1>4, <1>5, <1>6, <1>7 DEF IInv, Went

(* A file is written in a temporary directory of the writer.               *)
LEMMA WriteDirs ==
    ASSUME IInv, NEW w \in Writers, NEW t \in Temporaries, step[w] < 2,
           dirs[t] = Filled(w, step[w]),
           dirs' = [dirs EXCEPT ![t] = [@ EXCEPT ![step[w] + 1] = w]],
           step' = [step EXCEPT ![w] = @ + 1]
    PROVE  /\ dirs' \in [Places -> Dir \cup {Absent}]
           /\ step' \in [Writers -> 0 .. 2]
           /\ dirs'[t] = Filled(w, step[w] + 1) /\ step'[w] = step[w] + 1
           /\ \A p \in Places \ {t} : dirs'[p] = dirs[p]
  <1>1. step[w] \in 0 .. 1 /\ step[w] + 1 \in 0 .. 2
    BY DEF IInv, TypeOK
  <1>2. [Filled(w, step[w]) EXCEPT ![step[w] + 1] = w] = Filled(w, step[w] + 1)
    BY <1>1, FilledFacts
  <1>3. t \in Places /\ dirs' = [dirs EXCEPT ![t] = Filled(w, step[w] + 1)]
    BY <1>2, PlaceFacts
  <1>4. Filled(w, step[w] + 1) \in Dir
    BY <1>1, FilledFacts
  <1> QED
    BY <1>1, <1>3, <1>4 DEF IInv, TypeOK

(* The temporary of the run is filled in order.                            *)
LEMMA WriteRunInv ==
    ASSUME IInv, NEW w \in Writers, WriteRun(w) PROVE IInv'
  <1>1. pc[w] \in Holding /\ pc[w] \in Holding
        /\ lock = w
    BY HasLock DEF WriteRun, Write, At, Holding, RecoverySteps, WriteSteps,
                   SwapSteps, EndSteps
  <1>2. Went(w, pc[w])
    BY <1>1, Stays DEF WriteRun, Write
  <1>3. /\ dirs' \in [Places -> Dir \cup {Absent}]
        /\ step' \in [Writers -> 0 .. 2]
        /\ dirs'[TmpRun(w)] = Filled(w, step[w] + 1) /\ step'[w] = step[w] + 1
        /\ \A p \in Places \ {TmpRun(w)} : dirs'[p] = dirs[p]
    <2>1. TmpRun(w) \in Temporaries /\ dirs[TmpRun(w)] = Filled(w, step[w])
      BY PlaceFacts DEF WriteRun, Write, At, IInv, Phase
    <2> QED
      BY <2>1, WriteDirs DEF WriteRun, Write
  <1>4. TypeOK'
    BY <1>2, <1>3 DEF IInv, TypeOK, WriteRun, Write, PruneState, Went
  <1>5. LatestInv'
    BY <1>3, PlaceFacts, SameLatest DEF WriteRun, Write
  <1>6. RunsInv'
    BY <1>3, PlaceFacts, SameRuns DEF WriteRun, Write
  <1>7. Phase(w)'
    BY <1>1, <1>2, <1>3, PlaceFacts, FilledFacts
      DEF WriteRun, Write, At, IInv, Went, Phase, NoneBut, Present,
          NoBackup, NoTemporary, Replaced, Final
  <1> QED
    BY <1>2, <1>4, <1>5, <1>6, <1>7 DEF IInv, Went

(* The temporary of `latest` is created empty.                             *)
LEMMA CreateLatestInv ==
    ASSUME IInv, NEW w \in Writers, CreateLatest(w) PROVE IInv'
  <1>1. pc[w] \in Holding /\ "writeLatest" \in Holding
        /\ lock = w
    BY HasLock DEF CreateLatest, Create, At, Holding, RecoverySteps,
                   WriteSteps, SwapSteps, EndSteps
  <1>2. Went(w, "writeLatest")
    BY <1>1, Others DEF CreateLatest, Create, IInv, TypeOK, Procs
  <1>3. /\ dirs'[TmpLatest(w)] = EmptyDir /\ step'[w] = 0
        /\ dirs'[Latest] = dirs[Latest]
        /\ dirs'[Backup] = dirs[Backup]
        /\ \A r \in Runs : dirs'[r] = dirs[r]
        /\ \A p \in Temporaries \ {TmpLatest(w)} : dirs'[p] = dirs[p]
    BY PlaceFacts, FilledFacts DEF CreateLatest, Create, IInv, TypeOK
  <1>4. TypeOK'
    BY <1>2, PlaceFacts, FilledFacts DEF IInv, TypeOK, CreateLatest, Create,
                                         PruneState, Went
  <1>5. LatestInv'
    BY <1>3, SameLatest DEF CreateLatest, Create
  <1>6. RunsInv'
    BY <1>3, SameRuns DEF CreateLatest, Create
  <1>7. Phase(w)'
    BY <1>1, <1>2, <1>3, PlaceFacts, FilledFacts
      DEF CreateLatest, Create, At, IInv, Went, Phase, NoneBut, Present,
          NoBackup, NoTemporary, Replaced, Final
  <1> QED
    BY <1>2, <1>4, <1>5, <1>6, <1>7 DEF IInv, Went

(* The temporary of `latest` is filled in order.                           *)
LEMMA WriteLatestInv ==
    ASSUME IInv, NEW w \in Writers, WriteLatest(w) PROVE IInv'
  <1>1. pc[w] \in Holding /\ pc[w] \in Holding
        /\ lock = w
    BY HasLock DEF WriteLatest, Write, At, Holding, RecoverySteps, WriteSteps,
                   SwapSteps, EndSteps
  <1>2. Went(w, pc[w])
    BY <1>1, Stays DEF WriteLatest, Write
  <1>3. /\ dirs' \in [Places -> Dir \cup {Absent}]
        /\ step' \in [Writers -> 0 .. 2]
        /\ dirs'[TmpLatest(w)] = Filled(w, step[w] + 1) /\ step'[w] = step[w] + 1
        /\ \A p \in Places \ {TmpLatest(w)} : dirs'[p] = dirs[p]
    <2>1. TmpLatest(w) \in Temporaries /\ dirs[TmpLatest(w)] = Filled(w, step[w])
      BY PlaceFacts DEF WriteLatest, Write, At, IInv, Phase
    <2> QED
      BY <2>1, WriteDirs DEF WriteLatest, Write
  <1>4. TypeOK'
    BY <1>2, <1>3 DEF IInv, TypeOK, WriteLatest, Write, PruneState, Went
  <1>5. LatestInv'
    BY <1>3, PlaceFacts, SameLatest DEF WriteLatest, Write
  <1>6. RunsInv'
    BY <1>3, PlaceFacts, SameRuns DEF WriteLatest, Write
  <1>7. Phase(w)'
    BY <1>1, <1>2, <1>3, PlaceFacts, FilledFacts
      DEF WriteLatest, Write, At, IInv, Went, Phase, NoneBut, Present,
          NoBackup, NoTemporary, Replaced, Final
  <1> QED
    BY <1>2, <1>4, <1>5, <1>6, <1>7 DEF IInv, Went

(* The run that is renamed into place is the pair of its writer.           *)
LEMMA InstallInv ==
    ASSUME IInv, NEW w \in Writers, Install(w) PROVE IInv'
  <1>1. pc[w] \in Holding /\ "createLatest" \in Holding
        /\ lock = w
    BY HasLock DEF Install, At, Holding, RecoverySteps, WriteSteps, SwapSteps,
                   EndSteps
  <1>2. Went(w, "createLatest")
    BY <1>1, Others DEF Install, IInv, TypeOK, Procs
  <1>3. /\ dirs'[Run(w)] = Pair(w) /\ dirs'[TmpRun(w)] = Absent
        /\ dirs'[Latest] = dirs[Latest]
        /\ dirs'[Backup] = dirs[Backup]
        /\ \A r \in Runs \ {Run(w)} : dirs'[r] = dirs[r]
        /\ \A p \in Temporaries \ {TmpRun(w)} : dirs'[p] = dirs[p]
    <2>1. dirs[TmpRun(w)] = Filled(w, 2)
      BY DEF Install, At, IInv, Phase
    <2>2. dirs[TmpRun(w)] = Pair(w)
      BY <2>1, FilledFacts
    <2> QED
      BY <2>2, PlaceFacts DEF Install, IInv, TypeOK
  <1>4. TypeOK'
    BY <1>2, PlaceFacts, FilledFacts DEF IInv, TypeOK, Install, PruneState,
                                         Went
  <1>5. LatestInv'
    BY <1>3, SameLatest DEF Install
  <1>6. RunsInv'
    BY <1>3 DEF Install, IInv, RunsInv, RunsPaired, Present, PruneState
  <1>7. Phase(w)'
    BY <1>1, <1>2, <1>3, PlaceFacts, FilledFacts
      DEF Install, At, IInv, Went, Phase, NoneBut, Present,
          NoBackup, NoTemporary, Replaced, Final
  <1> QED
    BY <1>2, <1>4, <1>5, <1>6, <1>7 DEF IInv, Went

(* The pair that is renamed aside becomes the backup.                      *)
LEMMA MoveAsideInv ==
    ASSUME IInv, NEW w \in Writers, MoveAside(w) PROVE IInv'
  <1>1. pc[w] \in Holding /\ "swap" \in Holding
        /\ lock = w
    BY HasLock DEF MoveAside, At, Holding, RecoverySteps, WriteSteps,
                   SwapSteps, EndSteps
  <1>2. Went(w, "swap")
    BY <1>1, Others DEF MoveAside, IInv, TypeOK, Procs
  <1>3. /\ dirs'[Latest] = Absent
        /\ Present(Latest) => dirs'[Backup] = dirs[Latest]
        /\ ~ Present(Latest) => dirs'[Backup] = dirs[Backup]
        /\ \A r \in Runs : dirs'[r] = dirs[r]
        /\ \A p \in Temporaries : dirs'[p] = dirs[p]
    BY PlaceFacts DEF MoveAside, IInv, TypeOK, Present
  <1>4. TypeOK'
    BY <1>2, PlaceFacts DEF IInv, TypeOK, MoveAside, PruneState, Went
  <1>5. LatestInv'
    BY <1>3 DEF MoveAside, IInv, LatestInv, LatestPaired, Present
  <1>6. RunsInv'
    BY <1>3, SameRuns DEF MoveAside
  <1>7. Phase(w)'
    BY <1>1, <1>2, <1>3, PlaceFacts
      DEF MoveAside, At, IInv, TypeOK, Went, Phase, NoneBut, Present,
          NoBackup, NoTemporary, Replaced, Final
  <1> QED
    BY <1>2, <1>4, <1>5, <1>6, <1>7 DEF IInv, Went

(* The directory that becomes `latest` is the pair of its writer.          *)
LEMMA SwapInv ==
    ASSUME IInv, NEW w \in Writers, Swap(w) PROVE IInv'
  <1>1. /\ pc[w] \in Holding
        /\ (IF Present(Backup) THEN "dropBackup" ELSE "release") \in Holding
        /\ lock = w
    BY HasLock DEF Swap, At, Holding, RecoverySteps, WriteSteps, SwapSteps,
                   EndSteps
  <1>2. Went(w, (IF Present(Backup) THEN "dropBackup" ELSE "release"))
    BY <1>1, Others DEF Swap, IInv, TypeOK, Procs
  <1>3. /\ dirs'[Latest] = Pair(w) /\ dirs'[TmpLatest(w)] = Absent
        /\ dirs'[Backup] = dirs[Backup]
        /\ \A r \in Runs : dirs'[r] = dirs[r]
        /\ \A p \in Temporaries \ {TmpLatest(w)} : dirs'[p] = dirs[p]
    <2>1. dirs[TmpLatest(w)] = Filled(w, 2)
      BY DEF Swap, At, IInv, Phase
    <2>2. dirs[TmpLatest(w)] = Pair(w)
      BY <2>1, FilledFacts
    <2> QED
      BY <2>2, PlaceFacts DEF Swap, IInv, TypeOK
  <1>4. TypeOK'
    BY <1>2, PlaceFacts, FilledFacts DEF IInv, TypeOK, Swap, PruneState, Went
  <1>5. LatestInv'
    BY <1>3, FilledFacts DEF Swap, IInv, LatestInv, LatestPaired, Present
  <1>6. RunsInv'
    BY <1>3, SameRuns DEF Swap
  <1>7. Phase(w)'
    <2>1. \A p \in Temporaries : dirs'[p] = Absent
      BY <1>3 DEF Swap, At, IInv, Phase, NoneBut, Present
    <2>2. w \in swapped' /\ (Present(Backup)' <=> Present(Backup))
      BY <1>3 DEF Swap, Present
    <2>3. pc'[w] = IF Present(Backup) THEN "dropBackup" ELSE "release"
      BY <1>2 DEF Went
    <2> QED
      BY <1>3, <2>1, <2>2, <2>3
        DEF Phase, NoneBut, Present,
          NoBackup, NoTemporary, Replaced
  <1> QED
    BY <1>2, <1>4, <1>5, <1>6, <1>7 DEF IInv, Went

(* A writer drops its own temporaries.                                     *)
LEMMA DiscardInv ==
    ASSUME IInv, NEW w \in Writers, Discard(w) PROVE IInv'
  <1>1. pc[w] \in Holding /\ "giveUp" \in Holding
        /\ lock = w
    BY HasLock DEF Discard, At, Holding, RecoverySteps, WriteSteps, SwapSteps,
                   EndSteps
  <1>2. Went(w, "giveUp")
    BY <1>1, Others DEF Discard, IInv, TypeOK, Procs
  <1>3. /\ dirs'[Latest] = dirs[Latest]
        /\ dirs'[Backup] = dirs[Backup]
        /\ \A r \in Runs : dirs'[r] = dirs[r]
    BY PlaceFacts DEF Discard, IInv, TypeOK
  <1>4. TypeOK'
    BY <1>2, PlaceFacts DEF IInv, TypeOK, Discard, PruneState, Went
  <1>5. LatestInv'
    BY <1>3, SameLatest DEF Discard
  <1>6. RunsInv'
    BY <1>3, SameRuns DEF Discard
  <1>7. Phase(w)'
    BY <1>1, <1>2, <1>3, PlaceFacts
      DEF Discard, At, IInv, Went, Phase, NoneBut, Present,
          NoBackup, NoTemporary, Replaced, Final
  <1> QED
    BY <1>2, <1>4, <1>5, <1>6, <1>7 DEF IInv, Went

(* A writer that ends gives the lock back.                                 *)
LEMMA ReleaseInv ==
    ASSUME IInv, NEW w \in Writers, Release(w) PROVE IInv'
  <1>1. pc[w] \in Holding /\ lock = w
    BY HasLock DEF Release, Holding, EndSteps
  <1>2. PICK to \in Final : GoTo(w, to)
    BY DEF Release, Final
  <1>3. Went(w, to) /\ to \in Final
    <2>1. to \in Final /\ to \notin Holding
      BY DEF Final, Holding, RecoverySteps, WriteSteps, SwapSteps, EndSteps
    <2> QED
      BY <1>1, <1>2, <2>1, Others DEF Release
  <1>4. TypeOK'
    BY <1>3 DEF IInv, TypeOK, Release, PruneState, Went
  <1>5. LatestInv' /\ RunsInv'
    BY SameLatest, SameRuns DEF Release
  <1>6. Phase(w)'
    BY <1>3 DEF Went, Phase, NoBackup, NoTemporary, Replaced, Final
  <1> QED
    BY <1>3, <1>4, <1>5, <1>6 DEF IInv, Went

(***************************************************************************)
(* Each fault preserves the invariant.                                     *)
(***************************************************************************)

(* A writer that stops, or that goes to drop its temporaries, is in no     *)
(* phase that says what the directories are.                               *)
LEMMA FaultPhase ==
    ASSUME NEW w \in Writers, NEW to \in {"discard", "giveUp"} \cup Final, pc'[w] = to
    PROVE  Phase(w)'
  BY DEF Phase, NoBackup, NoTemporary, Replaced, Final

(* A call that fails changes no directory.                                 *)
LEMMA FailsInv ==
    ASSUME IInv, NEW w \in Writers, Fails(w) PROVE IInv'
  <1>1. "discard" \in Holding /\ lock = w
    BY HasLock DEF Fails, Holding, EndSteps
  <1>2. Went(w, "discard")
    BY <1>1, Others DEF Fails
  <1>3. TypeOK'
    BY <1>2, FaultType DEF IInv, TypeOK, Fails, PruneState, Went
  <1>4. LatestInv' /\ RunsInv'
    BY SameLatest, SameRuns DEF Fails
  <1>5. Phase(w)'
    BY <1>2, FaultPhase DEF Went
  <1> QED
    BY <1>2, <1>3, <1>4, <1>5 DEF IInv, Went

(* A swap that fails puts the backup back, or leaves it to be recovered.   *)
LEMMA SwapFailsInv ==
    ASSUME IInv, NEW w \in Writers, SwapFails(w) PROVE IInv'
  <1>1. "discard" \in Holding /\ lock = w
    BY HasLock DEF SwapFails, At, Holding, SwapSteps, EndSteps
  <1>2. Went(w, "discard")
    BY <1>1, Others DEF SwapFails
  <1>3. \/ dirs' = dirs
        \/ /\ dirs'[Latest] = dirs[Backup] /\ dirs'[Backup] = Absent
           /\ ~ Present(Latest) /\ Present(Backup)
           /\ \A r \in Runs : dirs'[r] = dirs[r]
    BY PlaceFacts DEF SwapFails, At, IInv, TypeOK, Phase
  <1>4. TypeOK'
    BY <1>2, FaultType, PlaceFacts DEF IInv, TypeOK, SwapFails, PruneState, Went
  <1>5. LatestInv'
    BY <1>3 DEF SwapFails, IInv, LatestInv, LatestPaired, Present
  <1>6. RunsInv'
    BY <1>3, SameRuns DEF SwapFails
  <1>7. Phase(w)'
    BY <1>2, FaultPhase DEF Went
  <1> QED
    BY <1>2, <1>4, <1>5, <1>6, <1>7 DEF IInv, Went

(* A temporary that cannot be dropped stays.                               *)
LEMMA DiscardFailsInv ==
    ASSUME IInv, NEW w \in Writers, DiscardFails(w) PROVE IInv'
  <1>1. "giveUp" \in Holding /\ lock = w
    BY HasLock DEF DiscardFails, At, Holding, EndSteps
  <1>2. Went(w, "giveUp")
    BY <1>1, Others DEF DiscardFails
  <1>3. TypeOK'
    BY <1>2, FaultType DEF IInv, TypeOK, DiscardFails, PruneState, Went
  <1>4. LatestInv' /\ RunsInv'
    BY SameLatest, SameRuns DEF DiscardFails
  <1>5. Phase(w)'
    BY <1>2, FaultPhase DEF Went
  <1> QED
    BY <1>2, <1>3, <1>4, <1>5 DEF IInv, Went

(* A writer that dies leaves every directory as it is.                     *)
LEMMA CrashInv ==
    ASSUME IInv, NEW w \in Writers, Crash(w) PROVE IInv'
  <1>1. lock = w /\ "crashed" \in Final /\ "crashed" \notin Holding
    BY HasLock
      DEF Crash, Final, Holding, RecoverySteps, WriteSteps, SwapSteps, EndSteps
  <1>2. Went(w, "crashed")
    BY <1>1, Others DEF Crash
  <1>3. TypeOK'
    BY <1>2, FaultType DEF IInv, TypeOK, Crash, PruneState, Went
  <1>4. LatestInv' /\ RunsInv'
    BY SameLatest, SameRuns DEF Crash
  <1>5. Phase(w)'
    BY <1>1, <1>2, FaultPhase DEF Went
  <1> QED
    BY <1>2, <1>3, <1>4, <1>5 DEF IInv, Went

(***************************************************************************)
(* A `prune` preserves the invariant: it touches runs only.                *)
(***************************************************************************)

(* What a step of a `prune` leaves to the writers: everything but runs.    *)
LEMMA PruneFrame ==
    ASSUME IInv, NEW p \in Prunes, NEW to \in {pc[p], "apply"} \cup Final, GoTo(p, to),
           \A q \in Places \ Runs : dirs'[q] = dirs[q],
           UNCHANGED <<lock, step, swapped>>
    PROVE  /\ Mutex' /\ LatestInv' /\ \A w \in Writers : Phase(w)'
           /\ pc' \in [Procs -> {"idle", "apply"} \cup Holding \cup Final]
           /\ \A q \in Prunes : pc'[q] \notin Holding
           /\ \A w \in Writers : pc'[w] # "apply"
  <1>1. /\ pc' \in [Procs -> {"idle", "apply"} \cup Holding \cup Final]
        /\ pc'[p] = to
        /\ \A q \in Procs \ {p} : pc'[q] = pc[q]
    BY DEF GoTo, IInv, TypeOK, Procs
  <1>2. \A w \in Writers : w \in Procs /\ pc'[w] = pc[w]
    BY <1>1, ProcsAssumption DEF Procs
  <1>3. to \notin Holding
    BY DEF IInv, TypeOK, Holding, RecoverySteps, WriteSteps, SwapSteps, EndSteps, Final
  <1>4. /\ \A q \in Prunes : pc'[q] \notin Holding
        /\ \A w \in Writers : pc'[w] # "apply"
    BY <1>1, <1>2, <1>3 DEF IInv, TypeOK, Procs
  <1>5. Mutex'
    BY <1>2 DEF IInv, Mutex
  <1>6. \A q \in Temporaries \cup {Latest, Backup} : dirs'[q] = dirs[q]
    BY PlaceFacts
  <1>7. LatestInv'
    BY <1>6, SameLatest
  <1>8. \A w \in Writers : Phase(w)'
    BY <1>2, <1>6, PlaceFacts
      DEF IInv, Phase, NoneBut, Present, NoBackup, NoTemporary, Replaced
  <1> QED
    BY <1>1, <1>4, <1>5, <1>7, <1>8

(* A `prune` selects runs.                                                 *)
LEMMA PlanInv ==
    ASSUME IInv, NEW p \in Prunes, Plan(p) PROVE IInv'
  <1>1. PICK S \in SUBSET {r \in Runs : Present(r)} :
          /\ todo' = [todo EXCEPT ![p] = S]
          /\ selected' = selected \cup S
    BY DEF Plan
  <1>2. /\ Mutex' /\ LatestInv' /\ \A w \in Writers : Phase(w)'
        /\ pc' \in [Procs -> {"idle", "apply"} \cup Holding \cup Final]
        /\ \A q \in Prunes : pc'[q] \notin Holding
        /\ \A w \in Writers : pc'[w] # "apply"
    BY PruneFrame DEF Plan
  <1>3. TypeOK'
    BY <1>1, <1>2 DEF IInv, TypeOK, Plan
  <1>4. RunsInv'
    BY <1>1 DEF Plan, IInv, TypeOK, RunsInv, RunsPaired, Present
  <1> QED
    BY <1>2, <1>3, <1>4 DEF IInv

(* A `prune` removes files and directories of the runs of its plan only.   *)
LEMMA PruneRemoves ==
    ASSUME IInv, NEW p \in Prunes, NEW r \in todo[p], NEW d \in Dir \cup {Absent},
           dirs' = [dirs EXCEPT ![r] = d],
           todo' = todo \/ todo' = [todo EXCEPT ![p] = @ \ {r}],
           UNCHANGED <<lock, pc, step, selected, swapped, faults>>
    PROVE  IInv'
  <1>1. r \in Runs /\ r \in selected
    BY DEF IInv, TypeOK, RunsInv
  <1>2. /\ dirs' \in [Places -> Dir \cup {Absent}]
        /\ \A q \in Places \ {r} : dirs'[q] = dirs[q]
    BY <1>1, PlaceFacts DEF IInv, TypeOK
  <1>3. GoTo(p, pc[p])
    BY DEF GoTo, IInv, TypeOK, Procs
  <1>4. Mutex' /\ LatestInv' /\ \A w \in Writers : Phase(w)'
    BY <1>1, <1>2, <1>3, PruneFrame
  <1>5. todo' \in [Prunes -> SUBSET Runs] /\ \A q \in Prunes : todo'[q] \subseteq todo[q]
    BY DEF IInv, TypeOK
  <1>6. TypeOK'
    BY <1>2, <1>5 DEF IInv, TypeOK
  <1>7. RunsInv'
    BY <1>1, <1>2, <1>5, PlaceFacts DEF IInv, RunsInv, RunsPaired, Present
  <1> QED
    BY <1>4, <1>6, <1>7 DEF IInv

(* A file is removed of a selected run.                                    *)
LEMMA PruneFileInv ==
    ASSUME IInv, NEW p \in Prunes, PruneFile(p) PROVE IInv'
  <1>1. PICK r \in todo[p], x \in Files :
          Present(r) /\ dirs' = [dirs EXCEPT ![r] = [@ EXCEPT ![x] = NoFile]]
    BY DEF PruneFile
  <1>2. r \in Places /\ dirs[r] \in Dir
    BY <1>1, PlaceFacts DEF IInv, TypeOK, Present
  <1>3. /\ [dirs[r] EXCEPT ![x] = NoFile] \in Dir
        /\ dirs' = [dirs EXCEPT ![r] = [dirs[r] EXCEPT ![x] = NoFile]]
    BY <1>1, <1>2 DEF Dir, IInv, TypeOK
  <1> QED
    BY <1>3, PruneRemoves DEF PruneFile, PruneState

(* A directory is removed of a selected run.                               *)
LEMMA PruneDirectoryInv ==
    ASSUME IInv, NEW p \in Prunes, PruneDirectory(p) PROVE IInv'
  BY PruneRemoves DEF PruneDirectory

(* A `prune` that ends changes no directory.                               *)
LEMMA PruneEndsInv ==
    ASSUME IInv, NEW p \in Prunes, PruneEnds(p) \/ PruneStops(p) PROVE IInv'
  <1>1. PICK to \in Final : GoTo(p, to)
    BY DEF PruneEnds, PruneStops, Final
  <1>2. UNCHANGED <<dirs, lock, step, todo, selected, swapped>>
    BY DEF PruneEnds, PruneStops, PruneState
  <1>3. /\ Mutex' /\ LatestInv' /\ \A w \in Writers : Phase(w)'
        /\ pc' \in [Procs -> {"idle", "apply"} \cup Holding \cup Final]
        /\ \A q \in Prunes : pc'[q] \notin Holding
        /\ \A w \in Writers : pc'[w] # "apply"
    BY <1>1, <1>2, PruneFrame
  <1>4. faults' \in 0 .. MaxFaults
    BY FaultType DEF PruneEnds, PruneStops, IInv, TypeOK
  <1>5. TypeOK'
    BY <1>2, <1>3, <1>4 DEF IInv, TypeOK
  <1>6. RunsInv'
    BY <1>2, SameRuns DEF PruneState
  <1> QED
    BY <1>3, <1>5, <1>6 DEF IInv

(***************************************************************************)
(* The theorems.                                                           *)
(***************************************************************************)

(* Every step preserves the invariant.                                     *)
LEMMA NextInv == IInv /\ [Next]_vars => IInv'
  <1> SUFFICES ASSUME IInv, [Next]_vars PROVE IInv'
    OBVIOUS
  <1>1. ASSUME NEW w \in Writers, WriterStep(w) PROVE IInv'
    BY <1>1, AcquireInv, RecoverInv, NothingToRecoverInv, RemoveBackupFileInv,
       RemoveBackupInv, SweepInv, SweptInv, CheckInv, CreateRunInv, WriteRunInv,
       InstallInv, CreateLatestInv, WriteLatestInv, MoveAsideInv, SwapInv,
       DiscardInv, ReleaseInv DEF WriterStep
  <1>2. ASSUME NEW w \in Writers, WriterFault(w) PROVE IInv'
    BY <1>2, FailsInv, SwapFailsInv, DiscardFailsInv, CrashInv DEF WriterFault
  <1>3. ASSUME NEW p \in Prunes, PruneStep(p) \/ PruneStops(p) PROVE IInv'
    BY <1>3, PlanInv, PruneFileInv, PruneDirectoryInv, PruneEndsInv DEF PruneStep
  <1>4. ASSUME UNCHANGED vars PROVE IInv'
    BY <1>4 DEF vars, IInv, TypeOK, Mutex, LatestInv, LatestPaired, RunsInv,
                RunsPaired, Phase, NoneBut, Present
  <1> QED
    BY <1>1, <1>2, <1>3, <1>4 DEF Next

(* Who holds the lock, what a writer has left at each of its steps, and    *)
(* that `latest` or its backup is always a pair, in every reachable state. *)
THEOREM Inductive == Spec => []IInv
  BY InitInv, NextInv, PTL DEF Spec

(* Every variable has its type.                                            *)
THEOREM TypeCorrect == Spec => []TypeOK
  <1>1. IInv => TypeOK
    BY DEF IInv
  <1> QED
    BY <1>1, Inductive, PTL

(* advice.json and advice.md of `latest` are of one writer, whatever       *)
(* crashes and calls that fail, and however many writers race.             *)
THEOREM LatestIsPaired == Spec => []LatestPaired
  <1>1. IInv => LatestPaired
    BY DEF IInv, LatestInv
  <1> QED
    BY <1>1, Inductive, PTL

(* A write that succeeds leaves its own pair in `latest`, and neither a    *)
(* backup nor a temporary of any writer, those that crashed included.      *)
THEOREM SuccessIsClean == Spec => []SuccessLeavesNothing
  <1>1. IInv => SuccessLeavesNothing
    BY DEF IInv, Phase, NoneBut, NoBackup, NoTemporary, Replaced,
           SuccessLeavesNothing, At
  <1> QED
    BY <1>1, Inductive, PTL

(* A run that no `prune` has selected holds the pair of one writer.        *)
THEOREM RunsArePaired == Spec => []RunsPaired
  <1>1. IInv => RunsPaired
    BY DEF IInv, RunsInv
  <1> QED
    BY <1>1, Inductive, PTL

(***************************************************************************)
(* The advice directory implements the register.                           *)
(***************************************************************************)

(* The advice of a reader depends on `latest` and its backup only.         *)
LEMMA SameCurrent ==
    ASSUME dirs'[Latest] = dirs[Latest],
           dirs'[Backup] = dirs[Backup] \/ Present(Latest)
    PROVE  Current' = Current
  BY DEF Current, Present

(* A step that is not the swap of a writer leaves the advice as it is.     *)
LEMMA StepStutters ==
    ASSUME IInv, NEW w \in Writers, WriterStep(w), ~ Swap(w)
    PROVE  Current' = Current /\ swapped' = swapped
  <1>1. CASE Acquire(w) \/ NothingToRecover(w) \/ Swept(w) \/ Check(w) \/ Release(w)
    BY <1>1, SameCurrent
      DEF Acquire, NothingToRecover, Swept, Check, Release
  <1>2. CASE Recover(w)
    <2>1. dirs'[Latest] = dirs[Backup]
      BY <1>2, PlaceFacts DEF Recover, IInv, TypeOK
    <2> QED
      BY <1>2, <2>1 DEF Recover, Current, Present
  <1>3. CASE RemoveBackupFile(w) \/ RemoveBackup(w)
    <2>1. Present(Latest)
      BY <1>3, FilledFacts
        DEF RemoveBackupFile, RemoveBackup, AfterBackup, IInv, Phase, Replaced, Present
    <2>2. dirs'[Latest] = dirs[Latest]
      BY <1>3, PlaceFacts DEF RemoveBackupFile, RemoveBackup, IInv, TypeOK
    <2> QED
      BY <1>3, <2>1, <2>2, SameCurrent DEF RemoveBackupFile, RemoveBackup
  <1>4. CASE Sweep(w) \/ CreateRun(w) \/ CreateLatest(w) \/ Discard(w)
    <2>1. dirs'[Latest] = dirs[Latest] /\ dirs'[Backup] = dirs[Backup]
      BY <1>4, PlaceFacts DEF Sweep, RemoveTemporary, CreateRun, CreateLatest, Create,
                              Discard, IInv, TypeOK
    <2> QED
      BY <1>4, <2>1, SameCurrent DEF Sweep, CreateRun, CreateLatest, Create, Discard
  <1>5. CASE WriteRun(w) \/ WriteLatest(w) \/ Install(w)
    <2>1. dirs'[Latest] = dirs[Latest] /\ dirs'[Backup] = dirs[Backup]
      BY <1>5, PlaceFacts DEF WriteRun, WriteLatest, Write, Install, IInv, TypeOK
    <2> QED
      BY <1>5, <2>1, SameCurrent DEF WriteRun, WriteLatest, Write, Install
  <1>6. CASE MoveAside(w)
    <2>1. \/ dirs' = dirs
          \/ Present(Latest) /\ dirs'[Latest] = Absent /\ dirs'[Backup] = dirs[Latest]
      BY <1>6, PlaceFacts DEF MoveAside, IInv, TypeOK
    <2> QED
      BY <1>6, <2>1 DEF MoveAside, Current, Present
  <1> QED
    BY <1>1, <1>2, <1>3, <1>4, <1>5, <1>6 DEF WriterStep

(* The swap of a writer publishes its pair, and for the first time.        *)
LEMMA SwapPublishes ==
    ASSUME IInv, NEW w \in Writers, Swap(w) PROVE Register!Publish(w)
  <1>1. dirs[TmpLatest(w)] = Pair(w)
    BY FilledFacts DEF Swap, At, IInv, Phase
  <1>2. dirs'[Latest] = Pair(w)
    BY <1>1, PlaceFacts DEF Swap, IInv, TypeOK
  <1>3. Current' = w
    BY <1>2, FilledFacts DEF Current, Present
  <1>4. w \notin swapped
    BY DEF Swap, At, IInv, Phase, Replaced, Final
  <1> QED
    BY <1>3, <1>4 DEF Register!Publish, Swap

(* No fault and no `prune` changes the advice.                             *)
LEMMA OthersStutter ==
    ASSUME IInv,
           \/ \E w \in Writers : WriterFault(w)
           \/ \E p \in Prunes : PruneStep(p) \/ PruneStops(p)
    PROVE  Current' = Current /\ swapped' = swapped
  <1>1. ASSUME NEW w \in Writers, WriterFault(w), dirs' = dirs
        PROVE  Current' = Current /\ swapped' = swapped
    BY <1>1, SameCurrent DEF WriterFault, Fails, SwapFails, DiscardFails, Crash
  <1>2. ASSUME NEW w \in Writers, WriterFault(w), dirs' # dirs
        PROVE  Current' = Current /\ swapped' = swapped
    <2>1. SwapFails(w)
      BY <1>2 DEF WriterFault, Fails, DiscardFails, Crash
    <2>2. /\ ~ Present(Latest) /\ Present(Backup)
          /\ dirs'[Latest] = dirs[Backup] /\ dirs'[Backup] = Absent
      BY <1>2, <2>1, PlaceFacts DEF SwapFails, At, IInv, TypeOK, Phase
    <2> QED
      BY <2>1, <2>2 DEF SwapFails, Current, Present
  <1>3. ASSUME NEW p \in Prunes, PruneStep(p) \/ PruneStops(p)
        PROVE  Current' = Current /\ swapped' = swapped
    <2>1. swapped' = swapped
      BY <1>3 DEF PruneStep, Plan, PruneFile, PruneDirectory, PruneEnds, PruneStops
    <2>2. todo[p] \subseteq Runs
      BY DEF IInv, TypeOK
    <2>3. dirs'[Latest] = dirs[Latest] /\ dirs'[Backup] = dirs[Backup]
      BY <1>3, <2>2, PlaceFacts
        DEF PruneStep, Plan, PruneFile, PruneDirectory, PruneEnds, PruneStops, IInv,
            TypeOK
    <2> QED
      BY <2>1, <2>3, SameCurrent
  <1> QED
    BY <1>1, <1>2, <1>3

(* The advice directory implements the register of ReportRegister: no      *)
(* crash, failure or recovery loses the current pair or brings back an     *)
(* older one, and a write replaces it in one step.                         *)
THEOREM ImplementsRegister == Spec => RegisterSpec
  <1>1. Init => Register!Init
    BY PlaceFacts DEF Init, Register!Init, Current, Present
  <1>2. IInv /\ [Next]_vars => [Register!Next]_(Register!vars)
    <2> SUFFICES ASSUME IInv, [Next]_vars PROVE [Register!Next]_(Register!vars)
      OBVIOUS
    <2>1. ASSUME NEW w \in Writers, Swap(w) PROVE Register!Next
      BY <2>1, SwapPublishes DEF Register!Next
    <2>2. ASSUME UNCHANGED vars PROVE Current' = Current /\ swapped' = swapped
      BY <2>2 DEF vars, Current, Present
    <2> QED
      BY <2>1, <2>2, StepStutters, OthersStutter DEF Next, Register!vars
  <1> QED
    BY <1>1, <1>2, Inductive, PTL DEF Spec, RegisterSpec, Register!Spec
==============================================================================
