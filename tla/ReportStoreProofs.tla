-------------------------- MODULE ReportStoreProofs --------------------------
(***************************************************************************)
(* Proofs about ReportStore: its type invariant for every instance, and,   *)
(* for the instances of one state root whose cleanup removes what it finds *)
(* and in which no `init` runs, that `latest` holds a whole report, that a *)
(* published report survives every crash, that the directory implements    *)
(* the register of ReportRegister, and that a success leaves no hidden     *)
(* directory and no more runs than the limits of the retention allow; and  *)
(* for every instance that a run is of one invocation.                     *)
(***************************************************************************)
EXTENDS ReportStore, Induction, TLAPS

(***************************************************************************)
(* Facts about places and directories.                                     *)
(***************************************************************************)

(* Retention removes nothing but what it is given.                         *)
LEMMA RemovesFromEntries ==
    ASSUME NEW places, NEW keep, NEW maxBytes
    PROVE  /\ FindRemoves(Entries(places), keep, maxBytes) \subseteq places
           /\ PruneRemoves(Entries(places), keep, maxBytes) \subseteq places
  BY DEF FindRemoves, PruneRemoves, PlacesAt, Entries

(* Every path the processes touch is a place.                              *)
LEMMA PlacesType ==
    /\ Latest \in Places
    /\ \A n \in Names : Run(n) \in RunPlaces
    /\ \A f \in Finds : /\ TmpRun(f) \in TmpRuns
                        /\ TmpLatest(f) \in TmpLatests
                        /\ Backup(f) \in Backups
    /\ RunPlaces \subseteq Places /\ TmpRuns \subseteq Places
    /\ TmpLatests \subseteq Places /\ Backups \subseteq Places
  BY DEF Places, RunPlaces, TmpRuns, TmpLatests, Backups

(* The kinds of places do not overlap, and each `find` has its own hidden  *)
(* directories.                                                            *)
LEMMA PlacesDisjoint ==
    /\ NoPlace \notin Places
    /\ Latest \notin RunPlaces \cup TmpRuns \cup TmpLatests \cup Backups
    /\ RunPlaces \cap (TmpRuns \cup TmpLatests \cup Backups) = {}
    /\ TmpRuns \cap (TmpLatests \cup Backups) = {}
    /\ TmpLatests \cap Backups = {}
    /\ \A f, g \in Finds : f # g => /\ TmpRun(f) # TmpRun(g)
                                    /\ TmpLatest(f) # TmpLatest(g)
                                    /\ Backup(f) # Backup(g)
  BY DEF Places, RunPlaces, TmpRuns, TmpLatests, Backups, Latest, NoPlace,
         Run, TmpRun, TmpLatest, Backup

(* The values that a place may hold.                                       *)
LEMMA DirType ==
    /\ EmptyDir \in Dir
    /\ Absent \notin Dir
    /\ \A f \in Finds : Bundle(f) \in Dir /\ Bundle(f) # EmptyDir
    /\ \A d \in Dir, x \in Files, f \in Finds \cup {NoFile} :
          [d EXCEPT ![x] = f] \in Dir
    /\ 1 \in Files
  BY AbsentAssumption, NoFileAssumption, NumbersAssumption
     DEF EmptyDir, Bundle, Dir, Files

(* A process at a step of Holding has neither to start nor ended.          *)
LEMMA StepNames ==
    /\ Holding \cap (Final \cup {"idle", "apply"}) = {}
    /\ "idle" \notin Final /\ "apply" \notin Final
  BY DEF Holding, CleanupSteps, WriteSteps, LatestSteps, AfterSteps,
         FailureSteps, Final

(***************************************************************************)
(* Type correctness.                                                       *)
(***************************************************************************)

(* The initial state has the right types.                                  *)
LEMMA TypeOKInit == Init => TypeOK
  BY NumbersAssumption DEF Init, TypeOK, Procs, Roots, Holding, Final,
     CleanupSteps, WriteSteps, LatestSteps, AfterSteps, FailureSteps

(* Every step keeps the types: one case for each action.                   *)
LEMMA TypeOKStep ==
    ASSUME TypeOK, [Next]_vars
    PROVE  TypeOK'
  <1> USE NumbersAssumption, NobodyAssumption, ProcsAssumption, PlacesType, DirType
      DEF TypeOK, GoTo, At, NoRemoval, fs, Procs, Present
  <1> USE DEF Holding, Final, CleanupSteps, WriteSteps, LatestSteps,
              AfterSteps, FailureSteps
  <1>1. ASSUME NEW p \in Procs, BeginRemoval(p) PROVE TypeOK'
    BY <1>1 DEF BeginRemoval, NextRemovals
  <1>2. ASSUME NEW p \in Procs, RemoveFile(p) PROVE TypeOK'
    <2>1. cur[p] \in Places /\ dirs[cur[p]] \in Dir
      BY <1>2 DEF RemoveFile
    <2>2. PICK x \in Files :
              dirs' = [dirs EXCEPT ![cur[p]] = [dirs[cur[p]] EXCEPT ![x] = NoFile]]
      BY <1>2 DEF RemoveFile
    <2>3. dirs' \in [Places -> Dir \cup {Absent}]
      BY <2>1, <2>2
    <2> QED
      BY <1>2, <2>3 DEF RemoveFile
  <1>3. ASSUME NEW p \in Procs, RemoveDirectory(p) PROVE TypeOK'
    BY <1>3 DEF RemoveDirectory
  <1>4. ASSUME NEW p \in Procs, RemovalsDone(p) PROVE TypeOK'
    BY <1>4 DEF RemovalsDone, AfterRemoval
  <1>5. ASSUME NEW p \in Procs, RemovalFindsNothing(p) PROVE TypeOK'
    BY <1>5 DEF RemovalFindsNothing, DropRemoval, AfterFailedRemoval, NextRemovals
  <1>6. ASSUME NEW p \in Procs, RemovalFails(p) PROVE TypeOK'
    BY <1>6 DEF RemovalFails, DropRemoval, AfterFailedRemoval, NextRemovals, Fault
  <1>7. ASSUME NEW p \in Finds, Acquire(p) PROVE TypeOK'
    BY <1>7 DEF Acquire
  <1>8. ASSUME NEW p \in Finds, Refused(p) PROVE TypeOK'
    BY <1>8 DEF Refused
  <1>9. ASSUME NEW p \in Finds, ListTemps(p) PROVE TypeOK'
    BY <1>9 DEF ListTemps
  <1>10. ASSUME NEW p \in Finds, Recover(p) PROVE TypeOK'
    <2>1. PICK b \in listed[p] :
              /\ dirs' = IF Present(b)
                          THEN [dirs EXCEPT ![Latest] = dirs[b], ![b] = Absent]
                          ELSE dirs
              /\ RemoveOtherBackups(p, b)
      BY <1>10 DEF Recover
    <2>2. dirs' \in [Places -> Dir \cup {Absent}]
      BY <2>1
    <2> QED
      BY <1>10, <2>1, <2>2 DEF Recover, RemoveOtherBackups
  <1>11. ASSUME NEW p \in Finds, NothingToRecover(p) PROVE TypeOK'
    BY <1>11 DEF NothingToRecover, RemoveOtherBackups
  <1>12. ASSUME NEW p \in Finds, ListRunTemps(p) PROVE TypeOK'
    BY <1>12 DEF ListRunTemps
  <1>13. ASSUME NEW p \in Finds, RetainBefore(p) PROVE TypeOK'
    BY <1>13, RemovesFromEntries DEF RetainBefore, Retain
  <1>14. ASSUME NEW p \in Finds, RetainAfter(p) PROVE TypeOK'
    BY <1>14, RemovesFromEntries DEF RetainAfter, Retain
  <1>15. ASSUME NEW p \in Finds, Choose(p) PROVE TypeOK'
    <2>1. PICK n \in 1 .. MaxSuffix : target' = [target EXCEPT ![p] = <<Stamp[p], n>>]
      BY <1>15 DEF Choose
    <2>2. <<Stamp[p], n>> \in Names
      BY DEF Names, Stamps
    <2> QED
      BY <1>15, <2>1, <2>2 DEF Choose
  <1>16. ASSUME NEW p \in Finds, CreateRun(p) PROVE TypeOK'
    BY <1>16 DEF CreateRun
  <1>17. ASSUME NEW p \in Finds, WriteRun(p) PROVE TypeOK'
    <2>1. step[p] + 1 \in Files /\ step[p] + 1 \in 0 .. NFiles
      BY <1>17 DEF WriteRun, Files
    <2>2. dirs' \in [Places -> Dir \cup {Absent}]
      BY <1>17, <2>1 DEF WriteRun
    <2> QED
      BY <1>17, <2>1, <2>2 DEF WriteRun
  <1>18. ASSUME NEW p \in Finds, RunWritten(p) PROVE TypeOK'
    BY <1>18 DEF RunWritten
  <1>19. ASSUME NEW p \in Finds, Install(p) PROVE TypeOK'
    <2>1. dirs' \in [Places -> Dir \cup {Absent}]
      BY <1>19 DEF Install
    <2>2. history' \in Seq(Finds)
      BY <1>19 DEF Install
    <2> QED
      BY <1>19, <2>1, <2>2 DEF Install
  <1>20. ASSUME NEW p \in Finds, RunRefused(p) PROVE TypeOK'
    BY <1>20 DEF RunRefused, DiscardRun
  <1>21. ASSUME NEW p \in Finds, CreateLatest(p) PROVE TypeOK'
    BY <1>21 DEF CreateLatest
  <1>22. ASSUME NEW p \in Finds, Link(p) PROVE TypeOK'
    <2>1. step[p] + 1 \in Files /\ step[p] + 1 \in 0 .. NFiles
      BY <1>22 DEF Link, Files
    <2>2. Run(target[p]) \in Places
      BY <1>22 DEF Link
    <2>3. dirs[Run(target[p])][step[p] + 1] \in Finds \cup {NoFile}
      BY <1>22, <2>1, <2>2 DEF Link, Linkable, Dir
    <2>4. dirs' \in [Places -> Dir \cup {Absent}]
      BY <1>22, <2>1, <2>3 DEF Link, Linkable
    <2> QED
      BY <1>22, <2>1, <2>4 DEF Link
  <1>23. ASSUME NEW p \in Finds, Linked(p) PROVE TypeOK'
    BY <1>23 DEF Linked
  <1>24. ASSUME NEW p \in Finds, LinkRefused(p) PROVE TypeOK'
    BY <1>24 DEF LinkRefused, GiveUp
  <1>25. ASSUME NEW p \in Finds, MoveAside(p) PROVE TypeOK'
    BY <1>25 DEF MoveAside
  <1>26. ASSUME NEW p \in Finds, Swap(p) PROVE TypeOK'
    BY <1>26 DEF Swap
  <1>27. ASSUME NEW p \in Finds, SwapRefused(p) PROVE TypeOK'
    BY <1>27 DEF SwapRefused, Restore
  <1>28. ASSUME NEW p \in Finds, Release(p) PROVE TypeOK'
    BY <1>28 DEF Release
  <1>29. ASSUME NEW p \in Finds, ListTempsFails(p) PROVE TypeOK'
    BY <1>29 DEF ListTempsFails, Fault
  <1>30. ASSUME NEW p \in Finds, RecoverFails(p) PROVE TypeOK'
    BY <1>30 DEF RecoverFails, RemoveOtherBackups, Fault
  <1>31. ASSUME NEW p \in Finds, RetainFails(p) PROVE TypeOK'
    <2>1. dirs' \in [Places -> Dir \cup {Absent}]
      BY <1>31 DEF RetainFails, Fault
    <2>2. faults' \in 0 .. MaxFaults
      BY <1>31 DEF RetainFails, Fault
    <2> QED
      BY <1>31, <2>1, <2>2 DEF RetainFails, Fault
  <1>32. ASSUME NEW p \in Finds, RunFails(p) PROVE TypeOK'
    BY <1>32 DEF RunFails, DiscardRun, Fault
  <1>33. ASSUME NEW p \in Finds, StepFails(p) PROVE TypeOK'
    BY <1>33 DEF StepFails, GiveUp, Fault
  <1>34. ASSUME NEW p \in Finds, SwapFails(p) PROVE TypeOK'
    <2>1. dirs' \in [Places -> Dir \cup {Absent}]
      BY <1>34 DEF SwapFails, Restore, Fault
    <2>2. faults' \in 0 .. MaxFaults
      BY <1>34 DEF SwapFails, Restore, Fault
    <2> QED
      BY <1>34, <2>1, <2>2 DEF SwapFails, Restore, Fault
  <1>35. ASSUME NEW p \in Finds, Crash(p) PROVE TypeOK'
    <2>1. dirs' \in [Places -> Dir \cup {Absent}]
      BY <1>35 DEF Crash, Fault
    <2>2. faults' \in 0 .. MaxFaults
      BY <1>35 DEF Crash, Fault
    <2> QED
      BY <1>35, <2>1, <2>2 DEF Crash, Fault
  <1>36. ASSUME NEW p \in Prunes, Plan(p) PROVE TypeOK'
    BY <1>36, RemovesFromEntries DEF Plan
  <1>37. ASSUME NEW p \in Prunes, PruneCrash(p) PROVE TypeOK'
    BY <1>37 DEF PruneCrash, Fault
  <1>38. ASSUME NEW p \in Inits, EnsureStateDirs(p) PROVE TypeOK'
    BY <1>38 DEF EnsureStateDirs
  <1>39. CASE UNCHANGED vars
    BY <1>39 DEF vars
  <1> QED
    BY <1>1, <1>2, <1>3, <1>4, <1>5, <1>6, <1>7, <1>8, <1>9, <1>10, <1>11,
       <1>12, <1>13, <1>14, <1>15, <1>16, <1>17, <1>18, <1>19, <1>20, <1>21,
       <1>22, <1>23, <1>24, <1>25, <1>26, <1>27, <1>28, <1>29, <1>30, <1>31,
       <1>32, <1>33, <1>34, <1>35, <1>36, <1>37, <1>38, <1>39
       DEF Next, FindStep, FindFault, PruneStep, PruneFault, Removal

(* Type correctness of every instance; it also says that a `find` has      *)
(* chosen a run name before it uses one, and that prune and init never     *)
(* take a step of a publication.                                           *)
THEOREM TypeCorrect == Spec => []TypeOK
  <1>1. TypeOK /\ [Next]_vars => TypeOK'
    BY TypeOKStep
  <1> QED
    BY TypeOKInit, <1>1, PTL DEF Spec

(***************************************************************************)
(* The invariant behind the safety of `latest`.  The hypothesis: all the   *)
(* finds share one state root, the best-effort calls of the cleanup do not *)
(* fail, and no `init` creates an empty `latest` meanwhile.                *)
(***************************************************************************)

Orderly ==
    /\ \A f, g \in Finds : StateRoot[f] = StateRoot[g]
    /\ ~ CleanupMayFail
    /\ Inits = {}

(* The backups that exist.                                                 *)
Backed == {p \in Backups : Present(p)}

(* A `find` between taking and returning the lock is its holder.           *)
Mutex == \A f \in Finds : pc[f] \in Holding => lock[StateRoot[f]] = f

(* What a process may remove at each of its removal steps.                 *)
Within(p, S) == todo[p] \subseteq S /\ cur[p] \in S \cup {NoPlace}

InScope(p) ==
    /\ pc[p] = "removeTemps" => Within(p, TmpLatests)
    /\ pc[p] \in {"removeBackups", "removeBackup"} => Within(p, Backups)
    /\ pc[p] \in {"removeRunTemps", "discardRun"} => Within(p, TmpRuns)
    /\ pc[p] \in {"removeBefore", "removeAfter"} => Within(p, RunPlaces \cup TmpRuns)
    /\ pc[p] = "apply" => Within(p, RunPlaces)
    /\ pc[p] \notin DOMAIN AfterRemoval => todo[p] = {} /\ cur[p] = NoPlace

(* No two backups exist; what `latest` holds is whole; what the backup     *)
(* holds is whole while `latest` is missing; one of them exists once a     *)
(* report has been published.                                              *)
LatestInv ==
    /\ \A p, q \in Backed : p = q
    /\ Present(Latest) => dirs[Latest] \in Bundles
    /\ ~ Present(Latest) => \A p \in Backed : dirs[p] \in Bundles
    /\ swapped # {} => Present(Latest) \/ Backed # {}

(* Between the cleanup and the moment it moves `latest` aside, and after   *)
(* the removal of its own backup, a `find` sees no backup.                 *)
NoBackupSteps ==
    {"listRunTemps", "removeRunTemps"} \cup WriteSteps
        \cup {"createLatest", "link", "moveAside"}
        \cup {"retainAfter", "removeAfter", "release", "discardRun"}

OwnFiles(f, p) == \A x \in Files : dirs[p][x] \in {f, NoFile}

(* What a `find` knows of the backups at each step.                        *)
BackupPhase(f) ==
    /\ pc[f] \in {"removeTemps", "recover"} => listed[f] = Backed
    /\ pc[f] = "removeBackups" =>
          /\ Backed \subseteq todo[f] \cup {cur[f]}
          /\ Present(Latest) \/ Backed = {}
    /\ pc[f] \in NoBackupSteps => Backed = {}
    /\ pc[f] = "swap" => Backed \subseteq {Backup(f)} /\ ~ Present(Latest)
    /\ pc[f] = "removeBackup" =>
          /\ Backed \subseteq {Backup(f)} \cap (todo[f] \cup {cur[f]})
          /\ Present(Latest)

(* What it knows of the run it writes and links.                           *)
BundlePhase(f) ==
    /\ pc[f] \in {"writeRun", "install"} =>
          (Present(TmpRun(f)) => OwnFiles(f, TmpRun(f)))
    /\ pc[f] \in {"createLatest", "link"} =>
          (Present(Run(target[f])) => OwnFiles(f, Run(target[f])))
    /\ pc[f] = "link" =>
          /\ Present(TmpLatest(f))
          /\ \A x \in 1 .. step[f] : dirs[TmpLatest(f)][x] = f
    /\ pc[f] \in {"moveAside", "swap"} => dirs[TmpLatest(f)] = Bundle(f)

SwappedPhase(f) == f \in swapped => pc[f] \in AfterSteps \cup {"giveUp"} \cup Final

IInv ==
    /\ TypeOK
    /\ Mutex
    /\ \A p \in Procs : InScope(p)
    /\ LatestInv
    /\ \A f \in Finds : BackupPhase(f)
    /\ \A f \in Finds : BundlePhase(f)
    /\ \A f \in Finds : SwappedPhase(f)

(* A `find` removes at each of its steps only what that step may remove.   *)
LEMMA InScopeStep ==
    ASSUME TypeOK, NEW f \in Finds, InScope(f), FindStep(f) \/ FindFault(f)
    PROVE  InScope(f)'
  <1> USE PlacesType, ProcsAssumption
      DEF TypeOK, InScope, Within, GoTo, At, NoRemoval, Procs, AfterRemoval
  <1>1. CASE BeginRemoval(f)
    BY <1>1 DEF BeginRemoval, NextRemovals
  <1>2. CASE RemoveFile(f)
    BY <1>2 DEF RemoveFile
  <1>3. CASE RemoveDirectory(f)
    BY <1>3 DEF RemoveDirectory
  <1>4. CASE RemovalsDone(f)
    BY <1>4 DEF RemovalsDone
  <1>5. CASE RemovalFindsNothing(f)
    BY <1>5 DEF RemovalFindsNothing, DropRemoval, NextRemovals, AfterFailedRemoval, CleanupSteps
  <1>6. CASE RemovalFails(f)
    BY <1>6 DEF RemovalFails, DropRemoval, NextRemovals, AfterFailedRemoval, CleanupSteps
  <1>7. CASE Acquire(f)
    BY <1>7 DEF Acquire
  <1>8. CASE Refused(f)
    BY <1>8 DEF Refused
  <1>9. CASE ListTemps(f)
    BY <1>9 DEF ListTemps
  <1>10. CASE Recover(f)
    BY <1>10 DEF Recover, RemoveOtherBackups
  <1>11. CASE NothingToRecover(f)
    BY <1>11 DEF NothingToRecover, RemoveOtherBackups
  <1>12. CASE ListRunTemps(f)
    BY <1>12 DEF ListRunTemps
  <1>13. CASE RetainBefore(f)
    BY <1>13, RemovesFromEntries DEF RetainBefore, Retain
  <1>14. CASE RetainAfter(f)
    BY <1>14, RemovesFromEntries DEF RetainAfter, Retain
  <1>15. CASE Choose(f)
    BY <1>15 DEF Choose
  <1>16. CASE CreateRun(f)
    BY <1>16 DEF CreateRun
  <1>17. CASE WriteRun(f)
    BY <1>17 DEF WriteRun
  <1>18. CASE RunWritten(f)
    BY <1>18 DEF RunWritten
  <1>19. CASE Install(f)
    BY <1>19 DEF Install
  <1>20. CASE RunRefused(f)
    BY <1>20 DEF RunRefused, DiscardRun
  <1>21. CASE CreateLatest(f)
    BY <1>21 DEF CreateLatest
  <1>22. CASE Link(f)
    BY <1>22 DEF Link
  <1>23. CASE Linked(f)
    BY <1>23 DEF Linked
  <1>24. CASE LinkRefused(f)
    BY <1>24 DEF LinkRefused, GiveUp
  <1>25. CASE MoveAside(f)
    BY <1>25 DEF MoveAside
  <1>26. CASE Swap(f)
    BY <1>26 DEF Swap
  <1>27. CASE SwapRefused(f)
    BY <1>27 DEF SwapRefused, Restore
  <1>28. CASE Release(f)
    BY <1>28 DEF Release
  <1>29. CASE ListTempsFails(f)
    BY <1>29 DEF ListTempsFails
  <1>30. CASE RecoverFails(f)
    BY <1>30 DEF RecoverFails, RemoveOtherBackups
  <1>31. CASE RetainFails(f)
    BY <1>31 DEF RetainFails
  <1>32. CASE RunFails(f)
    BY <1>32 DEF RunFails, DiscardRun
  <1>33. CASE StepFails(f)
    BY <1>33 DEF StepFails, GiveUp
  <1>34. CASE SwapFails(f)
    BY <1>34 DEF SwapFails, Restore
  <1>35. CASE Crash(f)
    BY <1>35 DEF Crash, Holding, CleanupSteps, WriteSteps, LatestSteps,
            AfterSteps, FailureSteps
  <1> QED
    BY <1>1, <1>2, <1>3, <1>4, <1>5, <1>6, <1>7, <1>8, <1>9, <1>10, <1>11,
       <1>12, <1>13, <1>14, <1>15, <1>16, <1>17, <1>18, <1>19, <1>20, <1>21,
       <1>22, <1>23, <1>24, <1>25, <1>26, <1>27, <1>28, <1>29, <1>30, <1>31,
       <1>32, <1>33, <1>34, <1>35
       DEF FindStep, FindFault, Removal

(* A `find` that has replaced `latest` is past the replacement.            *)
LEMMA SwappedPhaseStep ==
    ASSUME TypeOK, NEW f \in Finds, InScope(f), SwappedPhase(f),
           FindStep(f) \/ FindFault(f)
    PROVE  SwappedPhase(f)'
  <1> USE ProcsAssumption
      DEF TypeOK, InScope, SwappedPhase, GoTo, At, fs, Procs, AfterRemoval,
          AfterFailedRemoval
  <1> USE DEF CleanupSteps, WriteSteps, LatestSteps, AfterSteps,
              FailureSteps, Holding, Final
  <1>1. CASE BeginRemoval(f)
    BY <1>1 DEF BeginRemoval, NextRemovals
  <1>2. CASE RemoveFile(f)
    BY <1>2 DEF RemoveFile
  <1>3. CASE RemoveDirectory(f)
    BY <1>3 DEF RemoveDirectory
  <1>4. CASE RemovalsDone(f)
    BY <1>4 DEF RemovalsDone
  <1>5. CASE RemovalFindsNothing(f)
    BY <1>5 DEF RemovalFindsNothing, DropRemoval, NextRemovals
  <1>6. CASE RemovalFails(f)
    BY <1>6 DEF RemovalFails, DropRemoval, NextRemovals
  <1>7. CASE Acquire(f)
    BY <1>7 DEF Acquire
  <1>8. CASE Refused(f)
    BY <1>8 DEF Refused
  <1>9. CASE ListTemps(f)
    BY <1>9 DEF ListTemps
  <1>10. CASE Recover(f)
    BY <1>10 DEF Recover, RemoveOtherBackups
  <1>11. CASE NothingToRecover(f)
    BY <1>11 DEF NothingToRecover, RemoveOtherBackups
  <1>12. CASE ListRunTemps(f)
    BY <1>12 DEF ListRunTemps
  <1>13. CASE RetainBefore(f)
    BY <1>13 DEF RetainBefore, Retain
  <1>14. CASE RetainAfter(f)
    BY <1>14 DEF RetainAfter, Retain
  <1>15. CASE Choose(f)
    BY <1>15 DEF Choose
  <1>16. CASE CreateRun(f)
    BY <1>16 DEF CreateRun
  <1>17. CASE WriteRun(f)
    BY <1>17 DEF WriteRun
  <1>18. CASE RunWritten(f)
    BY <1>18 DEF RunWritten
  <1>19. CASE Install(f)
    BY <1>19 DEF Install
  <1>20. CASE RunRefused(f)
    BY <1>20 DEF RunRefused, DiscardRun
  <1>21. CASE CreateLatest(f)
    BY <1>21 DEF CreateLatest
  <1>22. CASE Link(f)
    BY <1>22 DEF Link
  <1>23. CASE Linked(f)
    BY <1>23 DEF Linked
  <1>24. CASE LinkRefused(f)
    BY <1>24 DEF LinkRefused, GiveUp
  <1>25. CASE MoveAside(f)
    BY <1>25 DEF MoveAside
  <1>26. CASE Swap(f)
    BY <1>26 DEF Swap
  <1>27. CASE SwapRefused(f)
    BY <1>27 DEF SwapRefused, Restore
  <1>28. CASE Release(f)
    BY <1>28 DEF Release
  <1>29. CASE ListTempsFails(f)
    BY <1>29 DEF ListTempsFails
  <1>30. CASE RecoverFails(f)
    BY <1>30 DEF RecoverFails, RemoveOtherBackups
  <1>31. CASE RetainFails(f)
    BY <1>31 DEF RetainFails
  <1>32. CASE RunFails(f)
    BY <1>32 DEF RunFails, DiscardRun
  <1>33. CASE StepFails(f)
    BY <1>33 DEF StepFails, GiveUp
  <1>34. CASE SwapFails(f)
    BY <1>34 DEF SwapFails, Restore
  <1>35. CASE Crash(f)
    BY <1>35 DEF Crash
  <1> QED
    BY <1>1, <1>2, <1>3, <1>4, <1>5, <1>6, <1>7, <1>8, <1>9, <1>10, <1>11,
       <1>12, <1>13, <1>14, <1>15, <1>16, <1>17, <1>18, <1>19, <1>20, <1>21,
       <1>22, <1>23, <1>24, <1>25, <1>26, <1>27, <1>28, <1>29, <1>30, <1>31,
       <1>32, <1>33, <1>34, <1>35
       DEF FindStep, FindFault, Removal

(* The lock of one state root has one holder at a time.                    *)
LEMMA MutexStep ==
    ASSUME TypeOK, Mutex, NEW f \in Finds, InScope(f), FindStep(f) \/ FindFault(f)
    PROVE  Mutex'
  <1> USE NobodyAssumption, ProcsAssumption
      DEF TypeOK, Mutex, InScope, GoTo, At, Procs, Roots, AfterRemoval,
          AfterFailedRemoval
  <1> USE DEF CleanupSteps, WriteSteps, LatestSteps, AfterSteps,
              FailureSteps, Holding, Final
  <1>1. CASE BeginRemoval(f)
    BY <1>1 DEF BeginRemoval, NextRemovals
  <1>2. CASE RemoveFile(f)
    BY <1>2 DEF RemoveFile
  <1>3. CASE RemoveDirectory(f)
    BY <1>3 DEF RemoveDirectory
  <1>4. CASE RemovalsDone(f)
    BY <1>4 DEF RemovalsDone
  <1>5. CASE RemovalFindsNothing(f)
    BY <1>5 DEF RemovalFindsNothing, DropRemoval, NextRemovals
  <1>6. CASE RemovalFails(f)
    BY <1>6 DEF RemovalFails, DropRemoval, NextRemovals
  <1>7. CASE Acquire(f)
    BY <1>7 DEF Acquire
  <1>8. CASE Refused(f)
    BY <1>8 DEF Refused
  <1>9. CASE ListTemps(f)
    BY <1>9 DEF ListTemps
  <1>10. CASE Recover(f)
    BY <1>10 DEF Recover, RemoveOtherBackups
  <1>11. CASE NothingToRecover(f)
    BY <1>11 DEF NothingToRecover, RemoveOtherBackups
  <1>12. CASE ListRunTemps(f)
    BY <1>12 DEF ListRunTemps
  <1>13. CASE RetainBefore(f)
    BY <1>13 DEF RetainBefore, Retain
  <1>14. CASE RetainAfter(f)
    BY <1>14 DEF RetainAfter, Retain
  <1>15. CASE Choose(f)
    BY <1>15 DEF Choose
  <1>16. CASE CreateRun(f)
    BY <1>16 DEF CreateRun
  <1>17. CASE WriteRun(f)
    BY <1>17 DEF WriteRun
  <1>18. CASE RunWritten(f)
    BY <1>18 DEF RunWritten
  <1>19. CASE Install(f)
    BY <1>19 DEF Install
  <1>20. CASE RunRefused(f)
    BY <1>20 DEF RunRefused, DiscardRun
  <1>21. CASE CreateLatest(f)
    BY <1>21 DEF CreateLatest
  <1>22. CASE Link(f)
    BY <1>22 DEF Link
  <1>23. CASE Linked(f)
    BY <1>23 DEF Linked
  <1>24. CASE LinkRefused(f)
    BY <1>24 DEF LinkRefused, GiveUp
  <1>25. CASE MoveAside(f)
    BY <1>25 DEF MoveAside
  <1>26. CASE Swap(f)
    BY <1>26 DEF Swap
  <1>27. CASE SwapRefused(f)
    BY <1>27 DEF SwapRefused, Restore
  <1>28. CASE Release(f)
    BY <1>28 DEF Release
  <1>29. CASE ListTempsFails(f)
    BY <1>29 DEF ListTempsFails
  <1>30. CASE RecoverFails(f)
    BY <1>30 DEF RecoverFails, RemoveOtherBackups
  <1>31. CASE RetainFails(f)
    BY <1>31 DEF RetainFails
  <1>32. CASE RunFails(f)
    BY <1>32 DEF RunFails, DiscardRun
  <1>33. CASE StepFails(f)
    BY <1>33 DEF StepFails, GiveUp
  <1>34. CASE SwapFails(f)
    BY <1>34 DEF SwapFails, Restore
  <1>35. CASE Crash(f)
    BY <1>35 DEF Crash
  <1> QED
    BY <1>1, <1>2, <1>3, <1>4, <1>5, <1>6, <1>7, <1>8, <1>9, <1>10, <1>11,
       <1>12, <1>13, <1>14, <1>15, <1>16, <1>17, <1>18, <1>19, <1>20, <1>21,
       <1>22, <1>23, <1>24, <1>25, <1>26, <1>27, <1>28, <1>29, <1>30, <1>31,
       <1>32, <1>33, <1>34, <1>35
       DEF FindStep, FindFault, Removal

(* A step of a `find` changes no other process, and one that does not hold *)
(* the lock changes nothing in the directory.                              *)
LEMMA OthersStay ==
    ASSUME TypeOK, NEW f \in Finds, InScope(f), FindStep(f) \/ FindFault(f)
    PROVE  /\ \A p \in Procs \ {f} :
                 pc'[p] = pc[p] /\ todo'[p] = todo[p] /\ cur'[p] = cur[p]
           /\ \A g \in Finds \ {f} :
                 listed'[g] = listed[g] /\ step'[g] = step[g] /\ target'[g] = target[g]
           /\ pc[f] \notin Holding => UNCHANGED <<dirs, swapped>>
  <1> USE ProcsAssumption
      DEF TypeOK, GoTo, At, NoRemoval, fs, Procs, Present, InScope, AfterRemoval,
          CleanupSteps, WriteSteps, LatestSteps, AfterSteps,
      FailureSteps, Holding, Final
  <1>1. CASE BeginRemoval(f)
    BY <1>1 DEF BeginRemoval, NextRemovals
  <1>2. CASE RemoveFile(f)
    BY <1>2 DEF RemoveFile
  <1>3. CASE RemoveDirectory(f)
    BY <1>3 DEF RemoveDirectory
  <1>4. CASE RemovalsDone(f)
    BY <1>4 DEF RemovalsDone
  <1>5. CASE RemovalFindsNothing(f)
    BY <1>5 DEF RemovalFindsNothing, DropRemoval, NextRemovals
  <1>6. CASE RemovalFails(f)
    BY <1>6 DEF RemovalFails, DropRemoval, NextRemovals
  <1>7. CASE Acquire(f)
    BY <1>7 DEF Acquire
  <1>8. CASE Refused(f)
    BY <1>8 DEF Refused
  <1>9. CASE ListTemps(f)
    BY <1>9 DEF ListTemps
  <1>10. CASE Recover(f)
    BY <1>10 DEF Recover, RemoveOtherBackups
  <1>11. CASE NothingToRecover(f)
    BY <1>11 DEF NothingToRecover, RemoveOtherBackups
  <1>12. CASE ListRunTemps(f)
    BY <1>12 DEF ListRunTemps
  <1>13. CASE RetainBefore(f)
    BY <1>13 DEF RetainBefore, Retain
  <1>14. CASE RetainAfter(f)
    BY <1>14 DEF RetainAfter, Retain
  <1>15. CASE Choose(f)
    BY <1>15 DEF Choose
  <1>16. CASE CreateRun(f)
    BY <1>16 DEF CreateRun
  <1>17. CASE WriteRun(f)
    BY <1>17 DEF WriteRun
  <1>18. CASE RunWritten(f)
    BY <1>18 DEF RunWritten
  <1>19. CASE Install(f)
    BY <1>19 DEF Install
  <1>20. CASE RunRefused(f)
    BY <1>20 DEF RunRefused, DiscardRun
  <1>21. CASE CreateLatest(f)
    BY <1>21 DEF CreateLatest
  <1>22. CASE Link(f)
    BY <1>22 DEF Link
  <1>23. CASE Linked(f)
    BY <1>23 DEF Linked
  <1>24. CASE LinkRefused(f)
    BY <1>24 DEF LinkRefused, GiveUp
  <1>25. CASE MoveAside(f)
    BY <1>25 DEF MoveAside
  <1>26. CASE Swap(f)
    BY <1>26 DEF Swap
  <1>27. CASE SwapRefused(f)
    BY <1>27 DEF SwapRefused, Restore
  <1>28. CASE Release(f)
    BY <1>28 DEF Release
  <1>29. CASE ListTempsFails(f)
    BY <1>29 DEF ListTempsFails
  <1>30. CASE RecoverFails(f)
    BY <1>30 DEF RecoverFails, RemoveOtherBackups
  <1>31. CASE RetainFails(f)
    BY <1>31 DEF RetainFails
  <1>32. CASE RunFails(f)
    BY <1>32 DEF RunFails, DiscardRun
  <1>33. CASE StepFails(f)
    BY <1>33 DEF StepFails, GiveUp
  <1>34. CASE SwapFails(f)
    BY <1>34 DEF SwapFails, Restore
  <1>35. CASE Crash(f)
    BY <1>35 DEF Crash
  <1> QED
    BY <1>1, <1>2, <1>3, <1>4, <1>5, <1>6, <1>7, <1>8, <1>9, <1>10, <1>11,
       <1>12, <1>13, <1>14, <1>15, <1>16, <1>17, <1>18, <1>19, <1>20, <1>21,
       <1>22, <1>23, <1>24, <1>25, <1>26, <1>27, <1>28, <1>29, <1>30, <1>31,
       <1>32, <1>33, <1>34, <1>35
       DEF FindStep, FindFault, Removal

(* A step that leaves `latest` and the backups alone keeps LatestInv.      *)
LEMMA SameLatest ==
    ASSUME LatestInv, swapped' = swapped,
           \A p \in {Latest} \cup Backups : dirs'[p] = dirs[p]
    PROVE  LatestInv' /\ Backed' = Backed /\ (Present(Latest)' <=> Present(Latest))
  BY DEF LatestInv, Backed, Present, Bundles

(* Every step of a `find` keeps LatestInv.                                 *)
LEMMA LatestStep ==
    ASSUME Orderly, TypeOK, LatestInv,
           NEW f \in Finds, InScope(f), BackupPhase(f), BundlePhase(f),
           FindStep(f) \/ FindFault(f)
    PROVE  LatestInv'
  <1>1. CASE BeginRemoval(f)
    BY <1>1, SameLatest DEF BeginRemoval, NextRemovals, fs
  <1>2. CASE RemoveFile(f)
    <2>1. cur[f] \in Places /\ cur[f] # Latest /\ dirs[cur[f]] # Absent
      BY <1>2, PlacesType, PlacesDisjoint, DirType
         DEF RemoveFile, InScope, Within, AfterRemoval, TypeOK, Present, Procs
    <2>2. /\ swapped' = swapped
          /\ \A p \in Places \ {cur[f]} : dirs'[p] = dirs[p]
      BY <1>2, <2>1 DEF RemoveFile, TypeOK
    <2>3. CASE cur[f] \notin Backups
      BY <2>1, <2>2, <2>3, SameLatest, PlacesType
    <2>4. CASE cur[f] \in Backups
      <3>1. Present(Latest)
        BY <1>2, <2>1, <2>4, PlacesType, PlacesDisjoint
           DEF RemoveFile, InScope, Within, AfterRemoval, BackupPhase, Backed, Present
      <3>2. Present(Latest)' /\ dirs'[Latest] = dirs[Latest] /\ Backed' \subseteq Backed
        BY <2>1, <2>2, <2>4, <3>1, PlacesType DEF Present, Backed
      <3> QED
        BY <2>2, <3>1, <3>2 DEF LatestInv, Bundles
    <2> QED
      BY <2>3, <2>4
  <1>3. CASE RemoveDirectory(f)
    <2>1. cur[f] \in Places /\ cur[f] # Latest /\ dirs[cur[f]] # Absent
      BY <1>3, PlacesType, PlacesDisjoint, DirType
         DEF RemoveDirectory, InScope, Within, AfterRemoval, TypeOK, Present, Procs
    <2>2. /\ swapped' = swapped
          /\ \A p \in Places \ {cur[f]} : dirs'[p] = dirs[p]
      BY <1>3, <2>1 DEF RemoveDirectory, TypeOK
    <2>3. CASE cur[f] \notin Backups
      BY <2>1, <2>2, <2>3, SameLatest, PlacesType
    <2>4. CASE cur[f] \in Backups
      <3>1. Present(Latest)
        BY <1>3, <2>1, <2>4, PlacesType, PlacesDisjoint
           DEF RemoveDirectory, InScope, Within, AfterRemoval, BackupPhase, Backed, Present
      <3>2. Present(Latest)' /\ dirs'[Latest] = dirs[Latest] /\ Backed' \subseteq Backed
        BY <2>1, <2>2, <2>4, <3>1, PlacesType DEF Present, Backed
      <3> QED
        BY <2>2, <3>1, <3>2 DEF LatestInv, Bundles
    <2> QED
      BY <2>3, <2>4
  <1>4. CASE RemovalsDone(f)
    BY <1>4, SameLatest DEF RemovalsDone, fs
  <1>5. CASE RemovalFindsNothing(f)
    BY <1>5, SameLatest DEF RemovalFindsNothing, DropRemoval, NextRemovals, fs
  <1>6. CASE RemovalFails(f)
    BY <1>6, SameLatest DEF RemovalFails, DropRemoval, NextRemovals, fs
  <1>7. CASE Acquire(f)
    BY <1>7, SameLatest DEF Acquire, fs
  <1>8. CASE Refused(f)
    BY <1>8, SameLatest DEF Refused, fs
  <1>9. CASE ListTemps(f)
    BY <1>9, SameLatest DEF ListTemps, fs
  <1>10. CASE Recover(f)
    <2>1. PICK b \in Backed :
              /\ dirs' = [dirs EXCEPT ![Latest] = dirs[b], ![b] = Absent]
              /\ swapped' = swapped
      BY <1>10 DEF Recover, RemoveOtherBackups, BackupPhase, Backed, At
    <2>2. Present(Latest)' /\ dirs'[Latest] \in Bundles'
      BY <1>10, <2>1, PlacesType, PlacesDisjoint
         DEF TypeOK, LatestInv, Backed, Present, Bundles, Recover
    <2>3. Backed' \subseteq Backed
      BY <2>1, PlacesType, PlacesDisjoint DEF TypeOK, Backed, Present
    <2> QED
      BY <2>2, <2>3 DEF LatestInv
  <1>11. CASE NothingToRecover(f)
    BY <1>11, SameLatest DEF NothingToRecover, RemoveOtherBackups, fs
  <1>12. CASE ListRunTemps(f)
    BY <1>12, SameLatest DEF ListRunTemps, fs
  <1>13. CASE RetainBefore(f)
    BY <1>13, SameLatest DEF RetainBefore, Retain, fs
  <1>14. CASE RetainAfter(f)
    BY <1>14, SameLatest DEF RetainAfter, Retain, fs
  <1>15. CASE Choose(f)
    BY <1>15, SameLatest DEF Choose, fs
  <1>16. CASE CreateRun(f)
    <2>1. swapped' = swapped /\ \A p \in {Latest} \cup Backups : dirs'[p] = dirs[p]
      BY <1>16, PlacesType, PlacesDisjoint DEF CreateRun
    <2> QED
      BY <2>1, SameLatest
  <1>17. CASE WriteRun(f)
    <2>1. swapped' = swapped /\ \A p \in {Latest} \cup Backups : dirs'[p] = dirs[p]
      BY <1>17, PlacesType, PlacesDisjoint DEF WriteRun
    <2> QED
      BY <2>1, SameLatest
  <1>18. CASE RunWritten(f)
    BY <1>18, SameLatest DEF RunWritten, fs
  <1>19. CASE Install(f)
    <2>1. swapped' = swapped /\ \A p \in {Latest} \cup Backups : dirs'[p] = dirs[p]
      BY <1>19, PlacesType, PlacesDisjoint DEF Install, TypeOK, At
    <2> QED
      BY <2>1, SameLatest
  <1>20. CASE RunRefused(f)
    BY <1>20, SameLatest DEF RunRefused, DiscardRun, fs
  <1>21. CASE CreateLatest(f)
    <2>1. swapped' = swapped /\ \A p \in {Latest} \cup Backups : dirs'[p] = dirs[p]
      BY <1>21, PlacesType, PlacesDisjoint DEF CreateLatest
    <2> QED
      BY <2>1, SameLatest
  <1>22. CASE Link(f)
    <2>1. swapped' = swapped /\ \A p \in {Latest} \cup Backups : dirs'[p] = dirs[p]
      BY <1>22, PlacesType, PlacesDisjoint DEF Link
    <2> QED
      BY <2>1, SameLatest
  <1>23. CASE Linked(f)
    BY <1>23, SameLatest DEF Linked, fs
  <1>24. CASE LinkRefused(f)
    BY <1>24, SameLatest DEF LinkRefused, GiveUp, fs
  <1>25. CASE MoveAside(f)
    <2>1. Backed = {} /\ swapped' = swapped
      BY <1>25 DEF MoveAside, BackupPhase, NoBackupSteps, At
    <2>2. CASE ~ Present(Latest)
      BY <1>25, <2>1, <2>2, SameLatest DEF MoveAside
    <2>3. CASE Present(Latest)
      <3>1. dirs' = [dirs EXCEPT ![Backup(f)] = dirs[Latest], ![Latest] = Absent]
        BY <1>25, <2>3 DEF MoveAside
      <3>2. ~ Present(Latest)' /\ Backed' = {Backup(f)} /\ dirs'[Backup(f)] = dirs[Latest]
        BY <2>1, <2>3, <3>1, PlacesType, PlacesDisjoint DEF TypeOK, Backed, Present
      <3> QED
        BY <2>1, <2>3, <3>2 DEF LatestInv, Bundles
    <2> QED
      BY <2>2, <2>3
  <1>26. CASE Swap(f)
    <2>1. /\ Backed \subseteq {Backup(f)}
          /\ dirs[TmpLatest(f)] = Bundle(f)
          /\ dirs' = [dirs EXCEPT ![Latest] = dirs[TmpLatest(f)],
                                  ![TmpLatest(f)] = Absent]
          /\ swapped' = swapped \cup {f}
      BY <1>26 DEF Swap, BackupPhase, BundlePhase, At
    <2>2. dirs'[Latest] = Bundle(f) /\ Backed' = Backed
      BY <2>1, PlacesType, PlacesDisjoint DEF TypeOK, Backed, Present
    <2>3. dirs'[Latest] \in Bundles' /\ Present(Latest)'
      BY <2>1, <2>2, DirType DEF Bundles, Present
    <2> QED
      BY <2>1, <2>2, <2>3 DEF LatestInv
  <1>27. CASE SwapRefused(f)
    <2>1. /\ Backed \subseteq {Backup(f)} /\ ~ Present(Latest)
          /\ swapped' = swapped
      BY <1>27 DEF SwapRefused, Restore, BackupPhase, At
    <2>2. CASE ~ Present(Backup(f))
      BY <1>27, <2>2, SameLatest DEF SwapRefused, Restore
    <2>3. CASE Present(Backup(f))
      <3>1. dirs' = [dirs EXCEPT ![Latest] = dirs[Backup(f)], ![Backup(f)] = Absent]
        BY <1>27, <2>1, <2>3 DEF SwapRefused, Restore
      <3>2. dirs'[Latest] = dirs[Backup(f)] /\ Backed' = {}
        BY <2>1, <2>3, <3>1, PlacesType, PlacesDisjoint DEF TypeOK, Backed, Present
      <3>3. dirs'[Latest] \in Bundles' /\ Present(Latest)'
        BY <2>1, <2>3, <3>2, PlacesType DEF LatestInv, Bundles, Backed, Present
      <3> QED
        BY <3>2, <3>3 DEF LatestInv
    <2> QED
      BY <2>2, <2>3
  <1>28. CASE Release(f)
    BY <1>28, SameLatest DEF Release, fs
  <1>29. CASE ListTempsFails(f)
    BY <1>29, SameLatest DEF ListTempsFails, Orderly
  <1>30. CASE RecoverFails(f)
    BY <1>30, SameLatest DEF RecoverFails, RemoveOtherBackups, Orderly
  <1>31. CASE RetainFails(f)
    BY <1>31, SameLatest DEF RetainFails, fs
  <1>32. CASE RunFails(f)
    BY <1>32, SameLatest DEF RunFails, DiscardRun, fs
  <1>33. CASE StepFails(f)
    BY <1>33, SameLatest DEF StepFails, GiveUp, fs
  <1>34. CASE SwapFails(f)
    <2>1. /\ Backed \subseteq {Backup(f)} /\ ~ Present(Latest)
          /\ swapped' = swapped
      BY <1>34 DEF SwapFails, Restore, BackupPhase, At
    <2>2. CASE ~ Present(Backup(f))
      BY <1>34, <2>2, SameLatest DEF SwapFails, Restore
    <2>3. CASE Present(Backup(f))
      <3>1. dirs' = [dirs EXCEPT ![Latest] = dirs[Backup(f)], ![Backup(f)] = Absent]
        BY <1>34, <2>1, <2>3 DEF SwapFails, Restore
      <3>2. dirs'[Latest] = dirs[Backup(f)] /\ Backed' = {}
        BY <2>1, <2>3, <3>1, PlacesType, PlacesDisjoint DEF TypeOK, Backed, Present
      <3>3. dirs'[Latest] \in Bundles' /\ Present(Latest)'
        BY <2>1, <2>3, <3>2, PlacesType DEF LatestInv, Bundles, Backed, Present
      <3> QED
        BY <3>2, <3>3 DEF LatestInv
    <2> QED
      BY <2>2, <2>3
  <1>35. CASE Crash(f)
    BY <1>35, SameLatest DEF Crash, fs
  <1> QED
    BY <1>1, <1>2, <1>3, <1>4, <1>5, <1>6, <1>7, <1>8, <1>9, <1>10, <1>11,
       <1>12, <1>13, <1>14, <1>15, <1>16, <1>17, <1>18, <1>19, <1>20, <1>21,
       <1>22, <1>23, <1>24, <1>25, <1>26, <1>27, <1>28, <1>29, <1>30, <1>31,
       <1>32, <1>33, <1>34, <1>35
       DEF FindStep, FindFault, Removal

(* A `find` keeps what it knows of the backups.                            *)
LEMMA BackupPhaseStep ==
    ASSUME Orderly, TypeOK, LatestInv,
           NEW f \in Finds, InScope(f), BackupPhase(f), BundlePhase(f),
           FindStep(f) \/ FindFault(f)
    PROVE  BackupPhase(f)'
  <1> USE ProcsAssumption
      DEF TypeOK, BackupPhase, NoBackupSteps, WriteSteps, GoTo, At, Procs
  <1>1. CASE BeginRemoval(f)
    <2>1. /\ Backed' = Backed /\ (Present(Latest)' <=> Present(Latest))
          /\ NoPlace \notin Backed
      BY <1>1, PlacesType, PlacesDisjoint DEF BeginRemoval, fs, Backed, Present
    <2>2. /\ pc'[f] = pc[f] /\ listed'[f] = listed[f]
          /\ todo[f] \cup {cur[f]} \subseteq todo'[f] \cup {cur'[f], NoPlace}
          /\ pc[f] \in DOMAIN AfterRemoval
      BY <1>1 DEF BeginRemoval, NextRemovals, InScope
    <2> QED
      BY <2>1, <2>2
  <1>2. CASE RemoveFile(f)
    <2>1. /\ cur[f] \in Places /\ dirs[cur[f]] # Absent
          /\ pc'[f] = pc[f] /\ todo'[f] = todo[f] /\ listed'[f] = listed[f]
      BY <1>2, PlacesType, PlacesDisjoint, DirType
         DEF RemoveFile, InScope, Within, AfterRemoval, TypeOK, Present, Procs
    <2>2. \A p \in Places \ {cur[f]} : dirs'[p] = dirs[p]
      BY <1>2, <2>1 DEF RemoveFile, TypeOK
    <2>3. cur[f] # Latest /\ (Present(Latest)' <=> Present(Latest))
      BY <1>2, <2>1, <2>2, PlacesType, PlacesDisjoint
         DEF RemoveFile, InScope, Within, AfterRemoval, Present
    <2>4. Backed' \subseteq Backed
          /\ (cur[f] \notin Backups => Backed' = Backed)
      BY <2>1, <2>2, PlacesType DEF Backed, Present
    <2>5. pc[f] \in {"removeTemps", "recover"} => cur[f] \notin Backups
      BY <1>2, PlacesType, PlacesDisjoint
         DEF RemoveFile, InScope, Within, AfterRemoval
    <2>6. cur'[f] = cur[f] \/ cur[f] \notin Backed'
      BY <1>2, <2>1 DEF RemoveFile, TypeOK, Procs, Backed, Present
    <2> QED
      BY <2>1, <2>3, <2>4, <2>5, <2>6 DEF BackupPhase
  <1>3. CASE RemoveDirectory(f)
    <2>1. /\ cur[f] \in Places /\ dirs[cur[f]] # Absent
          /\ pc'[f] = pc[f] /\ todo'[f] = todo[f] /\ listed'[f] = listed[f]
      BY <1>3, PlacesType, PlacesDisjoint, DirType
         DEF RemoveDirectory, InScope, Within, AfterRemoval, TypeOK, Present, Procs
    <2>2. \A p \in Places \ {cur[f]} : dirs'[p] = dirs[p]
      BY <1>3, <2>1 DEF RemoveDirectory, TypeOK
    <2>3. cur[f] # Latest /\ (Present(Latest)' <=> Present(Latest))
      BY <1>3, <2>1, <2>2, PlacesType, PlacesDisjoint
         DEF RemoveDirectory, InScope, Within, AfterRemoval, Present
    <2>4. Backed' \subseteq Backed
          /\ (cur[f] \notin Backups => Backed' = Backed)
      BY <2>1, <2>2, PlacesType DEF Backed, Present
    <2>5. pc[f] \in {"removeTemps", "recover"} => cur[f] \notin Backups
      BY <1>3, PlacesType, PlacesDisjoint
         DEF RemoveDirectory, InScope, Within, AfterRemoval
    <2>6. cur'[f] = cur[f] \/ cur[f] \notin Backed'
      BY <1>3, <2>1 DEF RemoveDirectory, TypeOK, Procs, Backed, Present
    <2> QED
      BY <2>1, <2>3, <2>4, <2>5, <2>6 DEF BackupPhase
  <1>4. CASE RemovalsDone(f)
    <2>1. /\ Backed' = Backed /\ (Present(Latest)' <=> Present(Latest))
          /\ NoPlace \notin Backed
      BY <1>4, PlacesType, PlacesDisjoint DEF RemovalsDone, fs, Backed, Present
    <2>2. /\ pc[f] \in DOMAIN AfterRemoval /\ pc'[f] = AfterRemoval[pc[f]]
          /\ listed'[f] = listed[f]
          /\ todo[f] \cup {cur[f]} = {NoPlace}
      BY <1>4 DEF RemovalsDone
    <2>3. pc[f] \in {"removeBackups", "removeBackup"} => Backed = {}
      BY <2>1, <2>2
    <2> QED
      BY <2>1, <2>2, <2>3 DEF AfterRemoval
  <1>5. CASE RemovalFindsNothing(f)
    <2>1. /\ Backed' = Backed /\ (Present(Latest)' <=> Present(Latest))
          /\ NoPlace \notin Backed
      BY <1>5, PlacesType, PlacesDisjoint DEF RemovalFindsNothing, DropRemoval, fs, Backed, Present
    <2>2. PICK d \in NextRemovals(f) : ~ Present(d) /\ DropRemoval(f, d)
      BY <1>5 DEF RemovalFindsNothing
    <2>3. /\ pc[f] \in DOMAIN AfterFailedRemoval
          /\ pc'[f] = AfterFailedRemoval[pc[f]]
          /\ listed'[f] = listed[f]
      BY <1>5, <2>2 DEF RemovalFindsNothing, DropRemoval
    <2>4. d \notin Backed
      BY <2>2 DEF Backed
    <2>5. pc[f] = "removeBackups" => Backed \subseteq todo'[f]
      BY <2>1, <2>2, <2>4 DEF DropRemoval, NextRemovals, CleanupSteps
    <2> QED
      BY <2>1, <2>3, <2>5 DEF AfterFailedRemoval
  <1>6. CASE RemovalFails(f)
    <2>1. /\ Backed' = Backed /\ (Present(Latest)' <=> Present(Latest))
          /\ NoPlace \notin Backed
      BY <1>6, PlacesType, PlacesDisjoint DEF RemovalFails, DropRemoval, fs, Backed, Present
    <2>2. /\ pc[f] \in DOMAIN AfterFailedRemoval \ CleanupSteps
          /\ pc'[f] = AfterFailedRemoval[pc[f]]
      BY <1>6 DEF RemovalFails, DropRemoval, Orderly
    <2> QED
      BY <2>1, <2>2 DEF AfterFailedRemoval, CleanupSteps
  <1>7. CASE Acquire(f)
    BY <1>7, SameLatest DEF Acquire, fs, NoRemoval
  <1>8. CASE Refused(f)
    BY <1>8, SameLatest DEF Refused, fs, NoRemoval
  <1>9. CASE ListTemps(f)
    BY <1>9, SameLatest DEF ListTemps, fs, Backed, Present
  <1>10. CASE Recover(f)
    <2>1. PICK b \in Backed :
              /\ dirs' = [dirs EXCEPT ![Latest] = dirs[b], ![b] = Absent]
              /\ todo'[f] = listed[f] \ {b}
      BY <1>10 DEF Recover, RemoveOtherBackups, BackupPhase, Backed, At, TypeOK, Procs
    <2>2. Present(Latest)' /\ Backed' = {}
      BY <1>10, <2>1, PlacesType, PlacesDisjoint
         DEF TypeOK, LatestInv, Backed, Present, Bundles, Recover
    <2> QED
      BY <1>10, <2>2 DEF Recover, RemoveOtherBackups
  <1>11. CASE NothingToRecover(f)
    <2>1. /\ listed[f] = Backed
          /\ todo'[f] = listed[f] \ {NoPlace}
          /\ dirs' = dirs
          /\ pc'[f] = "removeBackups"
      BY <1>11 DEF NothingToRecover, RemoveOtherBackups
    <2>2. /\ Backed' = Backed
          /\ Present(Latest)' <=> Present(Latest)
          /\ NoPlace \notin Backed
      BY <2>1, PlacesType, PlacesDisjoint DEF Backed, Present
    <2> QED
      BY <1>11, <2>1, <2>2 DEF NothingToRecover
  <1>12. CASE ListRunTemps(f)
    BY <1>12, SameLatest DEF ListRunTemps, fs, NoRemoval
  <1>13. CASE RetainBefore(f)
    BY <1>13, SameLatest DEF RetainBefore, Retain, fs, NoRemoval
  <1>14. CASE RetainAfter(f)
    BY <1>14, SameLatest DEF RetainAfter, Retain, fs, NoRemoval
  <1>15. CASE Choose(f)
    BY <1>15, SameLatest DEF Choose, fs, NoRemoval
  <1>16. CASE CreateRun(f)
    <2>1. /\ swapped' = swapped
          /\ \A p \in {Latest} \cup Backups : dirs'[p] = dirs[p]
      BY <1>16, PlacesType, PlacesDisjoint DEF CreateRun, At
    <2>2. Backed' = {}
      BY <1>16, <2>1, SameLatest DEF CreateRun
    <2> QED
      BY <1>16, <2>2 DEF CreateRun
  <1>17. CASE WriteRun(f)
    <2>1. /\ swapped' = swapped
          /\ \A p \in {Latest} \cup Backups : dirs'[p] = dirs[p]
      BY <1>17, PlacesType, PlacesDisjoint DEF WriteRun, At
    <2>2. Backed' = {}
      BY <1>17, <2>1, SameLatest DEF WriteRun
    <2> QED
      BY <1>17, <2>2 DEF WriteRun
  <1>18. CASE RunWritten(f)
    BY <1>18, SameLatest DEF RunWritten, fs, NoRemoval
  <1>19. CASE Install(f)
    <2>1. /\ swapped' = swapped
          /\ \A p \in {Latest} \cup Backups : dirs'[p] = dirs[p]
      BY <1>19, PlacesType, PlacesDisjoint DEF Install, At
    <2>2. Backed' = {}
      BY <1>19, <2>1, SameLatest DEF Install
    <2> QED
      BY <1>19, <2>2 DEF Install
  <1>20. CASE RunRefused(f)
    BY <1>20, SameLatest DEF RunRefused, DiscardRun, fs, NoRemoval
  <1>21. CASE CreateLatest(f)
    <2>1. /\ swapped' = swapped
          /\ \A p \in {Latest} \cup Backups : dirs'[p] = dirs[p]
      BY <1>21, PlacesType, PlacesDisjoint DEF CreateLatest, At
    <2>2. Backed' = {}
      BY <1>21, <2>1, SameLatest DEF CreateLatest
    <2> QED
      BY <1>21, <2>2 DEF CreateLatest
  <1>22. CASE Link(f)
    <2>1. /\ swapped' = swapped
          /\ \A p \in {Latest} \cup Backups : dirs'[p] = dirs[p]
      BY <1>22, PlacesType, PlacesDisjoint DEF Link, At
    <2>2. Backed' = {}
      BY <1>22, <2>1, SameLatest DEF Link
    <2> QED
      BY <1>22, <2>2 DEF Link
  <1>23. CASE Linked(f)
    BY <1>23, SameLatest DEF Linked, fs, NoRemoval
  <1>24. CASE LinkRefused(f)
    BY <1>24, SameLatest DEF LinkRefused, GiveUp, fs, NoRemoval
  <1>25. CASE MoveAside(f)
    <2>1. Backed = {}
      BY <1>25 DEF MoveAside
    <2>2. Backed' \subseteq {Backup(f)} /\ ~ Present(Latest)'
      BY <1>25, <2>1, PlacesType, PlacesDisjoint DEF MoveAside, TypeOK, Backed, Present
    <2> QED
      BY <1>25, <2>2 DEF MoveAside
  <1>26. CASE Swap(f)
    <2>1. /\ Backed \subseteq {Backup(f)}
          /\ dirs[TmpLatest(f)] = Bundle(f)
          /\ dirs' = [dirs EXCEPT ![Latest] = dirs[TmpLatest(f)],
                                  ![TmpLatest(f)] = Absent]
      BY <1>26 DEF Swap, BundlePhase
    <2>2. dirs'[Latest] = Bundle(f) /\ Backed' = Backed
      BY <2>1, PlacesType, PlacesDisjoint DEF TypeOK, Backed, Present
    <2>3. Present(Latest)'
      BY <2>2, DirType DEF Present
    <2>4. todo'[f] = {p \in {Backup(f)} : Present(p)} /\ pc'[f] = "removeBackup"
      BY <1>26 DEF Swap
    <2> QED
      BY <2>1, <2>2, <2>3, <2>4 DEF Backed
  <1>27. CASE SwapRefused(f)
    BY <1>27 DEF SwapRefused, Restore
  <1>28. CASE Release(f)
    BY <1>28, SameLatest DEF Release, fs, NoRemoval
  <1>29. CASE ListTempsFails(f)
    BY <1>29, SameLatest DEF ListTempsFails, Orderly
  <1>30. CASE RecoverFails(f)
    BY <1>30, SameLatest DEF RecoverFails, RemoveOtherBackups, Orderly
  <1>31. CASE RetainFails(f)
    BY <1>31, SameLatest DEF RetainFails, fs, NoRemoval
  <1>32. CASE RunFails(f)
    BY <1>32, SameLatest DEF RunFails, DiscardRun, fs, NoRemoval
  <1>33. CASE StepFails(f)
    BY <1>33, SameLatest DEF StepFails, GiveUp, fs, NoRemoval
  <1>34. CASE SwapFails(f)
    BY <1>34 DEF SwapFails, Restore
  <1>35. CASE Crash(f)
    BY <1>35, SameLatest DEF Crash, fs, Holding, CleanupSteps, LatestSteps, AfterSteps,
            FailureSteps
  <1> QED
    BY <1>1, <1>2, <1>3, <1>4, <1>5, <1>6, <1>7, <1>8, <1>9, <1>10, <1>11,
       <1>12, <1>13, <1>14, <1>15, <1>16, <1>17, <1>18, <1>19, <1>20, <1>21,
       <1>22, <1>23, <1>24, <1>25, <1>26, <1>27, <1>28, <1>29, <1>30, <1>31,
       <1>32, <1>33, <1>34, <1>35
       DEF FindStep, FindFault, Removal

(* A `find` keeps what it knows of the files it writes and links.          *)
LEMMA BundlePhaseStep ==
    ASSUME TypeOK, NEW f \in Finds, InScope(f), BundlePhase(f),
           FindStep(f) \/ FindFault(f)
    PROVE  BundlePhase(f)'
  <1> USE ProcsAssumption, PlacesType, DirType, NumbersAssumption
      DEF TypeOK, BundlePhase, GoTo, At, fs, Procs, Present
  <1>1. CASE BeginRemoval(f)
    BY <1>1 DEF BeginRemoval, NextRemovals, InScope, AfterRemoval, AfterFailedRemoval
  <1>2. CASE RemoveFile(f)
    BY <1>2 DEF RemoveFile, InScope, AfterRemoval, AfterFailedRemoval
  <1>3. CASE RemoveDirectory(f)
    BY <1>3 DEF RemoveDirectory, InScope, AfterRemoval, AfterFailedRemoval
  <1>4. CASE RemovalsDone(f)
    BY <1>4 DEF RemovalsDone, InScope, AfterRemoval, AfterFailedRemoval
  <1>5. CASE RemovalFindsNothing(f)
    BY <1>5 DEF RemovalFindsNothing, DropRemoval, NextRemovals, InScope, AfterRemoval,
                AfterFailedRemoval
  <1>6. CASE RemovalFails(f)
    BY <1>6 DEF RemovalFails, DropRemoval, NextRemovals, InScope, AfterRemoval, AfterFailedRemoval
  <1>7. CASE Acquire(f)
    BY <1>7 DEF Acquire
  <1>8. CASE Refused(f)
    BY <1>8 DEF Refused
  <1>9. CASE ListTemps(f)
    BY <1>9 DEF ListTemps
  <1>10. CASE Recover(f)
    BY <1>10 DEF Recover, RemoveOtherBackups
  <1>11. CASE NothingToRecover(f)
    BY <1>11 DEF NothingToRecover, RemoveOtherBackups
  <1>12. CASE ListRunTemps(f)
    BY <1>12 DEF ListRunTemps
  <1>13. CASE RetainBefore(f)
    BY <1>13 DEF RetainBefore, Retain
  <1>14. CASE RetainAfter(f)
    BY <1>14 DEF RetainAfter, Retain
  <1>15. CASE Choose(f)
    BY <1>15 DEF Choose
  <1>16. CASE CreateRun(f)
    <2>1. dirs'[TmpRun(f)] = EmptyDir /\ pc'[f] = "writeRun"
      BY <1>16 DEF CreateRun
    <2>2. OwnFiles(f, TmpRun(f))'
      BY <2>1 DEF OwnFiles, EmptyDir
    <2> QED
      BY <2>1, <2>2
  <1>17. CASE WriteRun(f)
    <2>1. /\ dirs[TmpRun(f)] \in Dir /\ step[f] + 1 \in Files
          /\ dirs' = [dirs EXCEPT ![TmpRun(f)] =
                         [dirs[TmpRun(f)] EXCEPT ![step[f] + 1] = f]]
          /\ pc'[f] = "writeRun"
      BY <1>17 DEF WriteRun, Files
    <2>2. OwnFiles(f, TmpRun(f))'
      <3>1. dirs'[TmpRun(f)] = [dirs[TmpRun(f)] EXCEPT ![step[f] + 1] = f]
        BY <2>1
      <3>2. OwnFiles(f, TmpRun(f))
        BY <1>17 DEF WriteRun
      <3> QED
        BY <2>1, <3>1, <3>2 DEF OwnFiles, Dir
    <2> QED
      BY <2>1, <2>2
  <1>18. CASE RunWritten(f)
    BY <1>18 DEF RunWritten, OwnFiles
  <1>19. CASE Install(f)
    <2>1. /\ OwnFiles(f, TmpRun(f)) /\ target'[f] = target[f]
          /\ dirs'[Run(target[f])] = dirs[TmpRun(f)]
          /\ pc'[f] = "createLatest"
      BY <1>19, PlacesDisjoint DEF Install
    <2> QED
      BY <2>1 DEF OwnFiles
  <1>20. CASE RunRefused(f)
    BY <1>20 DEF RunRefused, DiscardRun
  <1>21. CASE CreateLatest(f)
    <2>1. /\ pc'[f] = "link" /\ step'[f] = 0 /\ target'[f] = target[f]
          /\ dirs'[TmpLatest(f)] = EmptyDir
          /\ dirs'[Run(target[f])] = dirs[Run(target[f])]
          /\ OwnFiles(f, Run(target[f]))
      BY <1>21, PlacesDisjoint DEF CreateLatest
    <2> QED
      BY <2>1 DEF OwnFiles
  <1>22. CASE Link(f)
    <2>1. /\ dirs[TmpLatest(f)] \in Dir /\ step[f] + 1 \in Files
          /\ dirs' = [dirs EXCEPT ![TmpLatest(f)] =
                         [dirs[TmpLatest(f)] EXCEPT
                            ![step[f] + 1] = dirs[Run(target[f])][step[f] + 1]]]
          /\ pc'[f] = "link" /\ step'[f] = step[f] + 1 /\ target'[f] = target[f]
          /\ OwnFiles(f, Run(target[f]))
          /\ dirs[Run(target[f])][step[f] + 1] # NoFile
      BY <1>22 DEF Link, Linkable, Files
    <2>2. dirs[Run(target[f])][step[f] + 1] = f
      BY <2>1 DEF OwnFiles
    <2>3. dirs'[Run(target[f])] = dirs[Run(target[f])]
      <3>1. Run(target[f]) \in RunPlaces
        BY <1>22 DEF Link
      <3>2. Run(target[f]) # TmpLatest(f)
        BY <3>1, PlacesDisjoint
      <3> QED
        BY <2>1, <3>1, <3>2
    <2>4. dirs'[TmpLatest(f)] = [dirs[TmpLatest(f)] EXCEPT ![step[f] + 1] = f]
      BY <2>1, <2>2
    <2>5. \A x \in 1 .. step'[f] : dirs'[TmpLatest(f)][x] = f
      <3>1. \A x \in 1 .. step[f] : dirs[TmpLatest(f)][x] = f
        BY <1>22 DEF Link
      <3>2. step[f] \in 0 .. NFiles
        OBVIOUS
      <3>3. ASSUME NEW x \in 1 .. step'[f] PROVE dirs'[TmpLatest(f)][x] = f
        <4>1. x \in Files /\ (x = step[f] + 1 \/ x \in 1 .. step[f])
          BY <2>1, <3>2 DEF Files
        <4>2. DOMAIN dirs[TmpLatest(f)] = Files
          BY <2>1 DEF Dir
        <4> QED
          BY <2>4, <3>1, <4>1, <4>2
      <3> QED
        BY <3>3
    <2>6. Present(TmpLatest(f))'
      BY <2>1, <2>4
    <2> QED
      BY <2>1, <2>3, <2>5, <2>6 DEF OwnFiles
  <1>23. CASE Linked(f)
    <2>1. dirs[TmpLatest(f)] \in Dir /\ \A x \in Files : dirs[TmpLatest(f)][x] = f
      BY <1>23 DEF Linked, Files
    <2>2. dirs[TmpLatest(f)] = Bundle(f)
      BY <2>1 DEF Dir, Bundle
    <2> QED
      BY <1>23, <2>2 DEF Linked
  <1>24. CASE LinkRefused(f)
    BY <1>24 DEF LinkRefused, GiveUp
  <1>25. CASE MoveAside(f)
    <2>1. dirs[TmpLatest(f)] = Bundle(f) /\ pc'[f] = "swap"
      BY <1>25 DEF MoveAside
    <2>2. dirs'[TmpLatest(f)] = dirs[TmpLatest(f)]
      BY <1>25, PlacesDisjoint DEF MoveAside
    <2> QED
      BY <2>1, <2>2
  <1>26. CASE Swap(f)
    BY <1>26 DEF Swap
  <1>27. CASE SwapRefused(f)
    BY <1>27 DEF SwapRefused, Restore
  <1>28. CASE Release(f)
    BY <1>28 DEF Release
  <1>29. CASE ListTempsFails(f)
    BY <1>29 DEF ListTempsFails
  <1>30. CASE RecoverFails(f)
    BY <1>30 DEF RecoverFails, RemoveOtherBackups
  <1>31. CASE RetainFails(f)
    BY <1>31 DEF RetainFails
  <1>32. CASE RunFails(f)
    BY <1>32 DEF RunFails, DiscardRun
  <1>33. CASE StepFails(f)
    BY <1>33 DEF StepFails, GiveUp
  <1>34. CASE SwapFails(f)
    BY <1>34 DEF SwapFails, Restore
  <1>35. CASE Crash(f)
    BY <1>35 DEF Crash, Holding, CleanupSteps, LatestSteps, AfterSteps, WriteSteps,
            FailureSteps
  <1> QED
    BY <1>1, <1>2, <1>3, <1>4, <1>5, <1>6, <1>7, <1>8, <1>9, <1>10, <1>11,
       <1>12, <1>13, <1>14, <1>15, <1>16, <1>17, <1>18, <1>19, <1>20, <1>21,
       <1>22, <1>23, <1>24, <1>25, <1>26, <1>27, <1>28, <1>29, <1>30, <1>31,
       <1>32, <1>33, <1>34, <1>35
       DEF FindStep, FindFault, Removal

(* A step of a `find` publishes no report but its own.                     *)
LEMMA SwappedGrows ==
    ASSUME NEW f \in Finds, FindStep(f) \/ FindFault(f)
    PROVE  swapped' \subseteq swapped \cup {f}
  <1> USE DEF fs
  <1>1. CASE BeginRemoval(f)
    BY <1>1 DEF BeginRemoval, NextRemovals
  <1>2. CASE RemoveFile(f)
    BY <1>2 DEF RemoveFile
  <1>3. CASE RemoveDirectory(f)
    BY <1>3 DEF RemoveDirectory
  <1>4. CASE RemovalsDone(f)
    BY <1>4 DEF RemovalsDone
  <1>5. CASE RemovalFindsNothing(f)
    BY <1>5 DEF RemovalFindsNothing, DropRemoval, NextRemovals
  <1>6. CASE RemovalFails(f)
    BY <1>6 DEF RemovalFails, DropRemoval, NextRemovals
  <1>7. CASE Acquire(f)
    BY <1>7 DEF Acquire
  <1>8. CASE Refused(f)
    BY <1>8 DEF Refused
  <1>9. CASE ListTemps(f)
    BY <1>9 DEF ListTemps
  <1>10. CASE Recover(f)
    BY <1>10 DEF Recover, RemoveOtherBackups
  <1>11. CASE NothingToRecover(f)
    BY <1>11 DEF NothingToRecover, RemoveOtherBackups
  <1>12. CASE ListRunTemps(f)
    BY <1>12 DEF ListRunTemps
  <1>13. CASE RetainBefore(f)
    BY <1>13 DEF RetainBefore, Retain
  <1>14. CASE RetainAfter(f)
    BY <1>14 DEF RetainAfter, Retain
  <1>15. CASE Choose(f)
    BY <1>15 DEF Choose
  <1>16. CASE CreateRun(f)
    BY <1>16 DEF CreateRun
  <1>17. CASE WriteRun(f)
    BY <1>17 DEF WriteRun
  <1>18. CASE RunWritten(f)
    BY <1>18 DEF RunWritten
  <1>19. CASE Install(f)
    BY <1>19 DEF Install
  <1>20. CASE RunRefused(f)
    BY <1>20 DEF RunRefused, DiscardRun
  <1>21. CASE CreateLatest(f)
    BY <1>21 DEF CreateLatest
  <1>22. CASE Link(f)
    BY <1>22 DEF Link
  <1>23. CASE Linked(f)
    BY <1>23 DEF Linked
  <1>24. CASE LinkRefused(f)
    BY <1>24 DEF LinkRefused, GiveUp
  <1>25. CASE MoveAside(f)
    BY <1>25 DEF MoveAside
  <1>26. CASE Swap(f)
    BY <1>26 DEF Swap
  <1>27. CASE SwapRefused(f)
    BY <1>27 DEF SwapRefused, Restore
  <1>28. CASE Release(f)
    BY <1>28 DEF Release
  <1>29. CASE ListTempsFails(f)
    BY <1>29 DEF ListTempsFails
  <1>30. CASE RecoverFails(f)
    BY <1>30 DEF RecoverFails, RemoveOtherBackups
  <1>31. CASE RetainFails(f)
    BY <1>31 DEF RetainFails
  <1>32. CASE RunFails(f)
    BY <1>32 DEF RunFails, DiscardRun
  <1>33. CASE StepFails(f)
    BY <1>33 DEF StepFails, GiveUp
  <1>34. CASE SwapFails(f)
    BY <1>34 DEF SwapFails, Restore
  <1>35. CASE Crash(f)
    BY <1>35 DEF Crash
  <1> QED
    BY <1>1, <1>2, <1>3, <1>4, <1>5, <1>6, <1>7, <1>8, <1>9, <1>10, <1>11,
       <1>12, <1>13, <1>14, <1>15, <1>16, <1>17, <1>18, <1>19, <1>20, <1>21,
       <1>22, <1>23, <1>24, <1>25, <1>26, <1>27, <1>28, <1>29, <1>30, <1>31,
       <1>32, <1>33, <1>34, <1>35
       DEF FindStep, FindFault, Removal

(* A step of `prune` removes files of published runs and nothing else.     *)
LEMMA PruneStepLeaves ==
    ASSUME TypeOK, NEW p \in Prunes, InScope(p), PruneStep(p) \/ PruneFault(p)
    PROVE  /\ InScope(p)'
           /\ \A q \in Procs \ {p} :
                 pc'[q] = pc[q] /\ todo'[q] = todo[q] /\ cur'[q] = cur[q]
           /\ UNCHANGED <<lock, listed, step, target, swapped>>
           /\ \A q \in Places \ RunPlaces : dirs'[q] = dirs[q]
           /\ \A q \in RunPlaces : Present(q)' =>
                 /\ Present(q)
                 /\ \A g \in Finds : OwnFiles(g, q) => OwnFiles(g, q)'
  <1> USE PlacesType, ProcsAssumption
      DEF TypeOK, InScope, Within, GoTo, At, Procs, fs, AfterRemoval, OwnFiles, Present
  <1>1. CASE BeginRemoval(p)
    BY <1>1 DEF BeginRemoval, NextRemovals
  <1>2. CASE RemoveFile(p)
    <2>1. /\ cur[p] \in RunPlaces /\ dirs[cur[p]] \in Dir
          /\ UNCHANGED <<lock, pc, todo, cur, listed, step, target, swapped>>
      BY <1>2, StepNames, PlacesDisjoint DEF RemoveFile, Holding, CleanupSteps,
         WriteSteps, AfterSteps, FailureSteps
    <2>2. PICK x \in Files :
              dirs' = [dirs EXCEPT ![cur[p]] = [dirs[cur[p]] EXCEPT ![x] = NoFile]]
      BY <1>2 DEF RemoveFile
    <2>3. \A q \in Places \ {cur[p]} : dirs'[q] = dirs[q]
      BY <2>1, <2>2
    <2>4. \A g \in Finds : OwnFiles(g, cur[p]) =>
              \A y \in Files : dirs'[cur[p]][y] \in {g, NoFile}
      BY <2>1, <2>2 DEF Dir
    <2>5. dirs[cur[p]] # Absent
      BY <2>1, DirType
    <2>6. InScope(p)'
      BY <2>1
    <2> HIDE DEF InScope, Within, AfterRemoval
    <2> QED
      BY <2>1, <2>3, <2>4, <2>5, <2>6
  <1>3. CASE RemoveDirectory(p)
    <2>1. /\ cur[p] \in RunPlaces /\ dirs[cur[p]] = EmptyDir
          /\ dirs' = [dirs EXCEPT ![cur[p]] = Absent]
          /\ UNCHANGED <<lock, pc, todo, listed, step, target, swapped>>
          /\ cur' = [cur EXCEPT ![p] = NoPlace]
      BY <1>3, StepNames, PlacesDisjoint, DirType DEF RemoveDirectory, Holding,
         CleanupSteps, WriteSteps, AfterSteps, FailureSteps
    <2>2. \A q \in Places \ {cur[p]} : dirs'[q] = dirs[q]
      BY <2>1
    <2>3. InScope(p)'
      BY <2>1
    <2>4. \A q \in Procs \ {p} : cur'[q] = cur[q]
      BY <2>1
    <2> HIDE DEF InScope, Within, AfterRemoval
    <2> QED
      BY <2>1, <2>2, <2>3, <2>4
  <1>4. CASE RemovalsDone(p)
    BY <1>4 DEF RemovalsDone
  <1>5. CASE RemovalFindsNothing(p)
    BY <1>5 DEF RemovalFindsNothing, DropRemoval, NextRemovals, AfterFailedRemoval,
            CleanupSteps
  <1>6. CASE RemovalFails(p)
    BY <1>6 DEF RemovalFails, DropRemoval, NextRemovals, AfterFailedRemoval,
            CleanupSteps
  <1>7. CASE Plan(p)
    BY <1>7, RemovesFromEntries DEF Plan
  <1>8. CASE PruneCrash(p)
    BY <1>8 DEF PruneCrash
  <1> QED
    BY <1>1, <1>2, <1>3, <1>4, <1>5, <1>6, <1>7, <1>8
       DEF PruneStep, PruneFault, Removal

(* The strengthened invariant holds initially.                             *)
LEMMA IInvInit == Init => IInv
  BY TypeOKInit, PlacesType DEF Init, IInv, TypeOK, Mutex, InScope, Within, LatestInv,
     Backed, Present, BackupPhase, BundlePhase, SwappedPhase, Holding, CleanupSteps,
     WriteSteps, LatestSteps, AfterSteps, FailureSteps, NoBackupSteps, Procs,
     AfterRemoval, OwnFiles

(* The steps at which a find's invariants say something of the directory.  *)
LEMMA IdleKnowsNothing ==
    ASSUME NEW g \in Finds, pc[g] \notin Holding
    PROVE  BackupPhase(g) /\ BundlePhase(g)
  BY DEF BackupPhase, BundlePhase, NoBackupSteps, Holding, CleanupSteps,
     WriteSteps, LatestSteps, AfterSteps, FailureSteps

(* The same of the next state.                                             *)
LEMMA IdleKnowsNothingNext ==
    ASSUME NEW g \in Finds, pc'[g] \notin Holding
    PROVE  BackupPhase(g)' /\ BundlePhase(g)'
  BY DEF BackupPhase, BundlePhase, NoBackupSteps, Holding, CleanupSteps,
     WriteSteps, LatestSteps, AfterSteps, FailureSteps

(* A step of a `find` keeps the invariant: its own part by the lemmas      *)
(* above, the parts of the others because only the holder of the lock      *)
(* changes what they speak of.                                             *)
LEMMA IInvFindStep ==
    ASSUME Orderly, IInv, NEW f \in Finds, FindStep(f) \/ FindFault(f), TypeOK'
    PROVE  IInv'
  <1>1. /\ TypeOK /\ Mutex /\ LatestInv
        /\ \A p \in Procs : InScope(p)
        /\ \A g \in Finds : BackupPhase(g) /\ BundlePhase(g) /\ SwappedPhase(g)
        /\ Finds \subseteq Procs
    BY DEF IInv, Procs
  <1>2. Mutex'
    BY <1>1, MutexStep
  <1>3. LatestInv'
    BY <1>1, LatestStep
  <1>4. InScope(f)' /\ BackupPhase(f)' /\ BundlePhase(f)' /\ SwappedPhase(f)'
    BY <1>1, InScopeStep, BackupPhaseStep, BundlePhaseStep, SwappedPhaseStep
  <1>5. /\ \A p \in Procs \ {f} :
              pc'[p] = pc[p] /\ todo'[p] = todo[p] /\ cur'[p] = cur[p]
        /\ \A g \in Finds \ {f} :
              listed'[g] = listed[g] /\ step'[g] = step[g] /\ target'[g] = target[g]
        /\ pc[f] \notin Holding => UNCHANGED <<dirs, swapped>>
    BY <1>1, OthersStay
  <1>6. ASSUME NEW p \in Procs \ {f} PROVE InScope(p)'
    BY <1>1, <1>5, <1>6 DEF InScope, Within
  <1>7. ASSUME NEW g \in Finds \ {f} PROVE BackupPhase(g)' /\ BundlePhase(g)'
    <2>1. CASE pc[f] \in Holding
      <3>1. pc[g] \notin Holding
        BY <1>1, <2>1 DEF Mutex, Orderly
      <3>2. pc'[g] \notin Holding
        BY <1>1, <1>5, <3>1
      <3> QED
        BY <3>2, IdleKnowsNothingNext
    <2>2. CASE pc[f] \notin Holding
      <3>1. /\ dirs' = dirs
            /\ pc'[g] = pc[g] /\ todo'[g] = todo[g] /\ cur'[g] = cur[g]
            /\ listed'[g] = listed[g] /\ step'[g] = step[g] /\ target'[g] = target[g]
        BY <1>1, <1>5, <2>2
      <3>2. BackupPhase(g)'
        BY <1>1, <3>1 DEF BackupPhase, Backed, Present
      <3>3. BundlePhase(g)'
        BY <1>1, <3>1 DEF BundlePhase, Present, OwnFiles
      <3> QED
        BY <3>2, <3>3
    <2> QED
      BY <2>1, <2>2
  <1>8. ASSUME NEW g \in Finds \ {f} PROVE SwappedPhase(g)'
    <2>1. swapped' \subseteq swapped \cup {f}
      BY <1>1, SwappedGrows
    <2> QED
      BY <1>1, <1>5, <2>1 DEF SwappedPhase
  <1> QED
    BY <1>2, <1>3, <1>4, <1>6, <1>7, <1>8 DEF IInv

(* A step of `prune` keeps the invariant: what the publications know of    *)
(* their runs survives the removal of files.                               *)
LEMMA IInvPruneStep ==
    ASSUME IInv, NEW p \in Prunes, PruneStep(p) \/ PruneFault(p), TypeOK'
    PROVE  IInv'
  <1>1. /\ TypeOK /\ Mutex /\ LatestInv
        /\ \A q \in Procs : InScope(q)
        /\ \A g \in Finds : BackupPhase(g) /\ BundlePhase(g) /\ SwappedPhase(g)
        /\ Finds \subseteq Procs \ {p} /\ p \in Procs
    BY ProcsAssumption DEF IInv, Procs
  <1>2. /\ InScope(p)'
        /\ \A q \in Procs \ {p} :
              pc'[q] = pc[q] /\ todo'[q] = todo[q] /\ cur'[q] = cur[q]
        /\ UNCHANGED <<lock, listed, step, target, swapped>>
        /\ \A q \in Places \ RunPlaces : dirs'[q] = dirs[q]
        /\ \A q \in RunPlaces : Present(q)' =>
              /\ Present(q)
              /\ \A g \in Finds : OwnFiles(g, q) => OwnFiles(g, q)'
    BY <1>1, PruneStepLeaves
  <1>3. \A q \in {Latest} \cup Backups \cup TmpRuns \cup TmpLatests : dirs'[q] = dirs[q]
    BY <1>2, PlacesType, PlacesDisjoint
  <1>4. LatestInv' /\ Backed' = Backed /\ (Present(Latest)' <=> Present(Latest))
    BY <1>1, <1>2, <1>3, SameLatest
  <1>5. Mutex'
    BY <1>1, <1>2 DEF Mutex
  <1>6. ASSUME NEW q \in Procs \ {p} PROVE InScope(q)'
    BY <1>1, <1>2, <1>6 DEF InScope, Within
  <1>7. ASSUME NEW g \in Finds PROVE BackupPhase(g)'
    BY <1>1, <1>2, <1>4 DEF BackupPhase
  <1>8. ASSUME NEW g \in Finds PROVE BundlePhase(g)'
    <2>1. /\ pc'[g] = pc[g] /\ step'[g] = step[g] /\ target'[g] = target[g]
          /\ dirs'[TmpRun(g)] = dirs[TmpRun(g)]
          /\ dirs'[TmpLatest(g)] = dirs[TmpLatest(g)]
      BY <1>1, <1>2, <1>3, PlacesType
    <2>2. pc[g] \in {"createLatest", "link"} => Run(target[g]) \in RunPlaces
      BY <1>1, PlacesType DEF TypeOK
    <2>3. ASSUME pc[g] \in {"createLatest", "link"}, Present(Run(target[g]))'
          PROVE  OwnFiles(g, Run(target[g]))'
      <3>1. Present(Run(target[g])) /\ Present(Run(target[g]))'
        BY <1>2, <2>1, <2>2, <2>3 DEF Present
      <3>2. OwnFiles(g, Run(target[g]))
        BY <1>1, <2>3, <3>1 DEF BundlePhase
      <3> QED
        BY <1>2, <2>1, <2>2, <2>3, <3>1, <3>2 DEF OwnFiles, Present
    <2> QED
      BY <1>1, <2>1, <2>3 DEF BundlePhase, OwnFiles, Present
  <1>9. ASSUME NEW g \in Finds PROVE SwappedPhase(g)'
    BY <1>1, <1>2 DEF SwappedPhase
  <1> QED
    BY <1>2, <1>4, <1>5, <1>6, <1>7, <1>8, <1>9 DEF IInv

(* Every step keeps the invariant.                                         *)
LEMMA IInvStep ==
    ASSUME Orderly, IInv, [Next]_vars
    PROVE  IInv'
  <1>1. TypeOK'
    BY TypeOKStep DEF IInv
  <1>2. ASSUME NEW f \in Finds, FindStep(f) \/ FindFault(f) PROVE IInv'
    BY <1>1, <1>2, IInvFindStep
  <1>3. ASSUME NEW p \in Prunes, PruneStep(p) \/ PruneFault(p) PROVE IInv'
    BY <1>1, <1>3, IInvPruneStep
  <1>4. CASE UNCHANGED vars
    BY <1>4 DEF vars, IInv, TypeOK, Mutex, InScope, Within, LatestInv, Backed, Present,
       BackupPhase, BundlePhase, SwappedPhase, OwnFiles, Bundles
  <1> QED
    BY <1>2, <1>3, <1>4 DEF Next, Orderly

(* The strengthened invariant holds of every orderly instance.             *)
THEOREM Inductive == ASSUME Orderly PROVE Spec => []IInv
  <1>1. IInv /\ [Next]_vars => IInv'
    BY IInvStep
  <1> QED
    BY IInvInit, <1>1, PTL DEF Spec

(* LatestWhole of every orderly instance, with any number of invocations,  *)
(* crashes and failing calls: the hidden directory that replaces `latest`  *)
(* is whole when it does, whatever `prune` removes while it is linked.     *)
THEOREM LatestIsWhole == ASSUME Orderly PROVE Spec => []LatestWhole
  <1>1. IInv => LatestWhole
    BY DEF IInv, LatestInv, LatestWhole, Present
  <1> QED
    BY Inductive, <1>1, PTL

(* LatestSurvives of every orderly instance.                               *)
THEOREM PublishedSurvives == ASSUME Orderly PROVE Spec => []LatestSurvives
  <1>1. ASSUME IInv PROVE LatestSurvives
    <2>1. /\ LatestInv /\ TypeOK
      BY <1>1 DEF IInv
    <2>2. \A b \in Bundles : b \notin {Absent, EmptyDir}
      BY <2>1, DirType DEF Bundles, TypeOK
    <2>3. Present(Latest) => Latest \in Shown
      BY <2>1, <2>2 DEF LatestInv, Shown
    <2>4. ~ Present(Latest) => \A p \in Backed : p \in Shown
      BY <2>1, <2>2 DEF LatestInv, Shown, Backed
    <2> QED
      BY <2>1, <2>3, <2>4 DEF LatestSurvives, LatestInv, Backed
  <1> QED
    BY Inductive, <1>1, PTL

(***************************************************************************)
(* Timestamped runs and hidden directories.                                *)
(***************************************************************************)

(* Only files of f are in the hidden run directory of f, and what it       *)
(* becomes has files of one invocation.                                    *)
RunsInv ==
    /\ RunsOfOneWriter
    /\ \A f \in Finds : Present(TmpRun(f)) => OwnFiles(f, TmpRun(f))

(* The steps of a `find` at which no hidden directory for `latest` exists, *)
(* and those at which none for a run does.                                 *)
NoTmpLatestSteps ==
    {"recover", "removeBackups", "listRunTemps", "removeRunTemps"} \cup WriteSteps
        \cup {"createLatest", "removeBackup", "retainAfter", "removeAfter", "release"}

NoTmpRunSteps ==
    {"retainBefore", "removeBefore", "choose", "createRun"} \cup LatestSteps
        \cup {"removeBackup", "retainAfter", "removeAfter", "release"}

Left(places) == {p \in places : Present(p)}

(* What it knows of the hidden directories of all invocations, and of      *)
(* `latest` once it has replaced it.                                       *)
TempsPhase(f) ==
    /\ pc[f] = "removeTemps" => Left(TmpLatests) \subseteq todo[f] \cup {cur[f]}
    /\ pc[f] \in NoTmpLatestSteps => Left(TmpLatests) = {}
    /\ pc[f] \in {"link", "moveAside", "swap"} => Left(TmpLatests) \subseteq {TmpLatest(f)}
    /\ pc[f] = "removeRunTemps" => Left(TmpRuns) \subseteq todo[f] \cup {cur[f]}
    /\ pc[f] \in NoTmpRunSteps => Left(TmpRuns) = {}
    /\ pc[f] \in {"writeRun", "install"} => Left(TmpRuns) \subseteq {TmpRun(f)}

InstalledPhase(f) ==
    pc[f] \in {"removeBackup", "retainAfter", "removeAfter", "release"} =>
        dirs[Latest] = Bundle(f)

(* Directories of runs only lose files, or do not change.                  *)
LEMMA RunsShrink ==
    ASSUME RunsInv,
           \A p \in RunPlaces \cup TmpRuns : Present(p)' =>
               Present(p) /\ \A x \in Files : dirs'[p][x] \in {dirs[p][x], NoFile}
    PROVE  RunsInv'
  <1>1. ASSUME NEW p \in RunPlaces \cup TmpRuns, NEW g \in Finds,
               OwnFiles(g, p), Present(p)'
        PROVE  OwnFiles(g, p)'
    BY <1>1 DEF OwnFiles
  <1>2. ASSUME NEW p \in PresentRuns' PROVE \E g \in Finds : OwnFiles(g, p)'
    <2>1. p \in RunPlaces /\ Present(p)' /\ Present(p)
      BY <1>2 DEF PresentRuns
    <2>2. PICK g \in Finds : OwnFiles(g, p)
      BY <2>1 DEF RunsInv, RunsOfOneWriter, PresentRuns, OwnFiles
    <2> QED
      BY <1>1, <2>1, <2>2
  <1>3. \A g \in Finds : Present(TmpRun(g))' => OwnFiles(g, TmpRun(g))'
    BY <1>1, PlacesType DEF RunsInv
  <1>4. RunsOfOneWriter'
    BY <1>2 DEF RunsOfOneWriter, OwnFiles
  <1> QED
    BY <1>3, <1>4 DEF RunsInv

(* No removal adds a file to a directory.                                  *)
LEMMA RemovalsShrink ==
    ASSUME TypeOK, NEW q \in Procs, Removal(q) \/ RemovalFails(q)
    PROVE  \A p \in Places : Present(p)' =>
               Present(p) /\ \A x \in Files : dirs'[p][x] \in {dirs[p][x], NoFile}
  <1> USE DirType DEF TypeOK, Present, fs
  <1>1. CASE RemoveFile(q)
    <2>1. cur[q] \in Places /\ dirs[cur[q]] \in Dir
      BY <1>1 DEF RemoveFile
    <2>2. PICK y \in Files :
              dirs' = [dirs EXCEPT ![cur[q]] = [dirs[cur[q]] EXCEPT ![y] = NoFile]]
      BY <1>1 DEF RemoveFile
    <2>3. \A p \in Places \ {cur[q]} : dirs'[p] = dirs[p]
      BY <2>2
    <2>4. dirs'[cur[q]] = [dirs[cur[q]] EXCEPT ![y] = NoFile]
      BY <2>1, <2>2
    <2> QED
      BY <2>1, <2>3, <2>4 DEF Dir
  <1>2. CASE RemoveDirectory(q)
    BY <1>2 DEF RemoveDirectory
  <1>3. CASE BeginRemoval(q) \/ RemovalsDone(q)
    BY <1>3 DEF BeginRemoval, RemovalsDone
  <1>4. CASE RemovalFindsNothing(q) \/ RemovalFails(q)
    BY <1>4 DEF RemovalFindsNothing, RemovalFails, DropRemoval
  <1> QED
    BY <1>1, <1>2, <1>3, <1>4 DEF Removal

(* Every step keeps the files of invocations apart.                        *)
LEMMA RunsStep ==
    ASSUME TypeOK, RunsInv, [Next]_vars
    PROVE  RunsInv'
  <1> USE PlacesType, DirType, ProcsAssumption DEF Procs
  <1>0. ASSUME \A p \in RunPlaces \cup TmpRuns : dirs'[p] = dirs[p]
        PROVE  RunsInv'
    BY <1>0, RunsShrink DEF Present
  <1>1. ASSUME NEW q \in Procs, Removal(q) \/ RemovalFails(q) PROVE RunsInv'
    BY <1>1, RemovalsShrink, RunsShrink
  <1>2. ASSUME NEW f \in Finds, CreateRun(f) \/ WriteRun(f) PROVE RunsInv'
    <2>1. \A p \in Places \ {TmpRun(f)} : dirs'[p] = dirs[p]
      BY <1>2 DEF CreateRun, WriteRun, TypeOK
    <2>2. OwnFiles(f, TmpRun(f))'
      <3>1. CASE CreateRun(f)
        <4>1. dirs'[TmpRun(f)] = EmptyDir
          BY <3>1 DEF CreateRun, TypeOK
        <4> QED
          BY <4>1 DEF OwnFiles, EmptyDir
      <3>2. CASE WriteRun(f)
        <4>1. /\ dirs[TmpRun(f)] \in Dir
              /\ dirs'[TmpRun(f)] = [dirs[TmpRun(f)] EXCEPT ![step[f] + 1] = f]
          BY <3>2 DEF WriteRun, TypeOK, Present
        <4>2. OwnFiles(f, TmpRun(f))
          BY <3>2 DEF WriteRun, RunsInv
        <4> QED
          BY <4>1, <4>2 DEF OwnFiles, Dir
      <3> QED
        BY <1>2, <3>1, <3>2
    <2>3. RunsOfOneWriter'
      <3>1. \A p \in RunPlaces : dirs'[p] = dirs[p]
        BY <2>1, PlacesDisjoint
      <3> QED
        BY <3>1 DEF RunsInv, RunsOfOneWriter, PresentRuns, Present
    <2>4. ASSUME NEW g \in Finds \ {f}, Present(TmpRun(g))' PROVE OwnFiles(g, TmpRun(g))'
      <3>1. dirs'[TmpRun(g)] = dirs[TmpRun(g)]
        BY <2>1, PlacesDisjoint
      <3> QED
        BY <2>4, <3>1 DEF RunsInv, OwnFiles, Present
    <2> QED
      BY <2>2, <2>3, <2>4 DEF RunsInv
  <1>3. ASSUME NEW f \in Finds, Install(f) PROVE RunsInv'
    <2>1. Run(target[f]) \in RunPlaces
      BY <1>3 DEF Install, TypeOK, At
    <2>2. /\ dirs'[Run(target[f])] = dirs[TmpRun(f)]
          /\ dirs'[TmpRun(f)] = Absent
          /\ \A p \in Places \ {TmpRun(f), Run(target[f])} : dirs'[p] = dirs[p]
      BY <1>3, <2>1, PlacesDisjoint DEF Install, TypeOK
    <2>3. OwnFiles(f, TmpRun(f))
      BY <1>3 DEF Install, RunsInv
    <2>4. ASSUME NEW p \in PresentRuns' PROVE \E g \in Finds : OwnFiles(g, p)'
      <3>1. CASE p = Run(target[f])
        BY <2>2, <2>3, <3>1 DEF OwnFiles
      <3>2. CASE p # Run(target[f])
        <4>1. p \in RunPlaces /\ dirs'[p] = dirs[p]
          BY <2>2, <2>4, <3>2, PlacesDisjoint DEF PresentRuns
        <4> QED
          BY <2>4, <4>1 DEF RunsInv, RunsOfOneWriter, PresentRuns, Present, OwnFiles
      <3> QED
        BY <3>1, <3>2
    <2>5. ASSUME NEW g \in Finds, Present(TmpRun(g))' PROVE OwnFiles(g, TmpRun(g))'
      <3>1. g # f
        BY <2>2, <2>5 DEF Present
      <3>2. dirs'[TmpRun(g)] = dirs[TmpRun(g)]
        BY <2>1, <2>2, <3>1, PlacesDisjoint
      <3> QED
        BY <2>5, <3>2 DEF RunsInv, OwnFiles, Present
    <2>6. RunsOfOneWriter'
      BY <2>4 DEF RunsOfOneWriter, OwnFiles
    <2> QED
      BY <2>5, <2>6 DEF RunsInv
  <1>4. ASSUME NEW f \in Finds,
               \/ Acquire(f) \/ Refused(f) \/ ListTemps(f) \/ NothingToRecover(f)
               \/ ListRunTemps(f) \/ RetainBefore(f) \/ RetainAfter(f) \/ Choose(f)
               \/ RunWritten(f) \/ RunRefused(f) \/ Linked(f) \/ LinkRefused(f)
               \/ Release(f) \/ ListTempsFails(f) \/ RecoverFails(f) \/ RetainFails(f)
               \/ RunFails(f) \/ StepFails(f) \/ Crash(f)
        PROVE  RunsInv'
    <2>1. dirs' = dirs
      BY <1>4 DEF Acquire, Refused, ListTemps, NothingToRecover, ListRunTemps, RetainBefore,
         RetainAfter, Retain, Choose, RunWritten, RunRefused, DiscardRun, Linked,
         LinkRefused, GiveUp, Release, ListTempsFails, RecoverFails, RetainFails, RunFails,
         StepFails, Crash, fs
    <2> QED
      BY <1>0, <2>1
  <1>5. ASSUME NEW f \in Finds,
               \/ Recover(f) \/ CreateLatest(f) \/ Link(f) \/ MoveAside(f) \/ Swap(f)
               \/ SwapRefused(f) \/ SwapFails(f)
        PROVE  RunsInv'
    <2>1. \A p \in Places \ ({Latest, TmpLatest(f)} \cup Backups) : dirs'[p] = dirs[p]
      <3>1. CASE Recover(f)
        BY <3>1 DEF Recover, TypeOK
      <3>2. CASE CreateLatest(f) \/ Link(f) \/ Swap(f)
        BY <3>2 DEF CreateLatest, Link, Swap, TypeOK
      <3>3. CASE MoveAside(f) \/ SwapRefused(f) \/ SwapFails(f)
        BY <3>3 DEF MoveAside, SwapRefused, SwapFails, Restore, TypeOK
      <3> QED
        BY <1>5, <3>1, <3>2, <3>3
    <2> QED
      BY <1>0, <2>1, PlacesDisjoint
  <1>6. ASSUME NEW p \in Prunes, Plan(p) \/ PruneCrash(p) PROVE RunsInv'
    BY <1>0, <1>6 DEF Plan, PruneCrash, fs
  <1>7. ASSUME NEW i \in Inits, EnsureStateDirs(i) PROVE RunsInv'
    BY <1>0, <1>7, PlacesDisjoint DEF EnsureStateDirs, TypeOK
  <1>8. CASE UNCHANGED vars
    BY <1>0, <1>8 DEF vars
  <1> QED
    BY <1>1, <1>2, <1>3, <1>4, <1>5, <1>6, <1>7, <1>8
       DEF Next, FindStep, FindFault, PruneStep, PruneFault

(* RunsOfOneWriter of every instance, those included whose invocations     *)
(* share no lock or run beside `init`: write_run_atomically fills a        *)
(* directory of its own and renames it, so that two invocations that have  *)
(* chosen one name never mix their files.                                  *)
THEOREM RunsAreOfOneWriter == Spec => []RunsOfOneWriter
  <1>1. Init => RunsInv
    BY PlacesType DEF Init, RunsInv, RunsOfOneWriter, PresentRuns, Present
  <1>2. TypeOK /\ RunsInv /\ [Next]_vars => RunsInv'
    BY RunsStep
  <1>3. RunsInv => RunsOfOneWriter
    BY DEF RunsInv
  <1> QED
    BY TypeCorrect, <1>1, <1>2, <1>3, PTL DEF Spec

(* A step of a `find` that leaves the hidden directories and `latest`      *)
(* alone.                                                                  *)
LEMMA SameTemps ==
    ASSUME \A p \in TmpLatests \cup TmpRuns : dirs'[p] = dirs[p]
    PROVE  Left(TmpLatests)' = Left(TmpLatests) /\ Left(TmpRuns)' = Left(TmpRuns)
  BY DEF Left, Present

(* Every step of a `find` keeps what it knows of the hidden directories.   *)
LEMMA TempsPhaseStep ==
    ASSUME Orderly, TypeOK, NEW f \in Finds, InScope(f), BundlePhase(f),
           TempsPhase(f), InstalledPhase(f), FindStep(f) \/ FindFault(f)
    PROVE  TempsPhase(f)' /\ InstalledPhase(f)'
  <1> USE ProcsAssumption, PlacesType
      DEF TypeOK, TempsPhase, InstalledPhase, GoTo, At, fs, Procs, NoRemoval
  <1> USE DEF NoTmpLatestSteps, NoTmpRunSteps, WriteSteps, LatestSteps
  <1>1. CASE BeginRemoval(f)
    <2>1. PICK d \in todo[f] :
              cur' = [cur EXCEPT ![f] = d] /\ todo' = [todo EXCEPT ![f] = todo[f] \ {d}]
      BY <1>1 DEF BeginRemoval, NextRemovals
    <2>2. dirs' = dirs /\ pc' = pc /\ cur[f] = NoPlace
      BY <1>1 DEF BeginRemoval
    <2>3. todo'[f] \cup {cur'[f]} = todo[f]
      BY <2>1
    <2>4. NoPlace \notin TmpLatests /\ NoPlace \notin TmpRuns
      BY PlacesDisjoint
    <2>5. Left(TmpLatests)' = Left(TmpLatests) /\ Left(TmpRuns)' = Left(TmpRuns)
      BY <2>2, SameTemps
    <2>6. /\ Left(TmpLatests) \subseteq todo[f] \cup {cur[f]} => Left(TmpLatests) \subseteq todo[f]
          /\ Left(TmpRuns) \subseteq todo[f] \cup {cur[f]} => Left(TmpRuns) \subseteq todo[f]
      BY <2>2, <2>4 DEF Left
    <2> QED
      BY <2>2, <2>3, <2>5, <2>6
  <1>2. CASE RemoveFile(f)
    <2>1. /\ dirs[cur[f]] \in Dir /\ cur[f] \in Places
          /\ \E d \in Dir : dirs' = [dirs EXCEPT ![cur[f]] = d]
          /\ UNCHANGED <<pc, todo, cur>>
      <3>1. PICK x \in Files :
                dirs' = [dirs EXCEPT ![cur[f]] = [dirs[cur[f]] EXCEPT ![x] = NoFile]]
        BY <1>2 DEF RemoveFile
      <3>2. dirs[cur[f]] \in Dir /\ cur[f] \in Places
        BY <1>2 DEF RemoveFile, Present
      <3> QED
        BY <1>2, <3>1, <3>2, DirType DEF RemoveFile
    <2>2. Left(TmpLatests)' = Left(TmpLatests) /\ Left(TmpRuns)' = Left(TmpRuns)
      BY <2>1, DirType DEF Left, Present
    <2>3. pc[f] \in {"removeBackup", "retainAfter", "removeAfter", "release"} => cur[f] # Latest
      BY PlacesDisjoint, <2>1 DEF InScope, Within, AfterRemoval
    <2> QED
      BY <2>1, <2>2, <2>3
  <1>3. CASE RemoveDirectory(f)
    <2>1. /\ cur[f] \in Places
          /\ dirs' = [dirs EXCEPT ![cur[f]] = Absent] /\ cur' = [cur EXCEPT ![f] = NoPlace]
          /\ UNCHANGED <<pc, todo>>
      BY <1>3 DEF RemoveDirectory
    <2>2. /\ Left(TmpLatests)' = Left(TmpLatests) \ {cur[f]}
          /\ Left(TmpRuns)' = Left(TmpRuns) \ {cur[f]}
      BY <2>1 DEF Left, Present
    <2>3. pc[f] \in {"removeBackup", "retainAfter", "removeAfter", "release"} => cur[f] # Latest
      BY PlacesDisjoint, <2>1 DEF InScope, Within, AfterRemoval
    <2> QED
      BY <2>1, <2>2, <2>3
  <1>4. CASE RemovalsDone(f)
    <2>1. dirs' = dirs /\ pc' = [pc EXCEPT ![f] = AfterRemoval[pc[f]]]
          /\ cur[f] = NoPlace /\ todo[f] = {} /\ pc[f] \in DOMAIN AfterRemoval
      BY <1>4 DEF RemovalsDone
    <2>2. NoPlace \notin TmpLatests /\ NoPlace \notin TmpRuns
      BY PlacesDisjoint
    <2>3. Left(TmpLatests)' = Left(TmpLatests) /\ Left(TmpRuns)' = Left(TmpRuns)
      BY <2>1, SameTemps
    <2>4. /\ pc[f] = "removeTemps" => Left(TmpLatests) = {}
          /\ pc[f] = "removeRunTemps" => Left(TmpRuns) = {}
      BY <2>1, <2>2 DEF Left
    <2> QED
      BY <2>1, <2>3, <2>4 DEF AfterRemoval
  <1>5. CASE RemovalFindsNothing(f) \/ RemovalFails(f)
    <2>1. PICK d \in NextRemovals(f) :
              DropRemoval(f, d) /\ (pc[f] \in CleanupSteps => ~ Present(d))
      BY <1>5 DEF RemovalFindsNothing, RemovalFails, Orderly
    <2>2. /\ dirs' = dirs /\ pc[f] \in DOMAIN AfterFailedRemoval
          /\ pc' = [pc EXCEPT ![f] = AfterFailedRemoval[pc[f]]]
          /\ cur'[f] = NoPlace
          /\ pc[f] \in CleanupSteps => todo'[f] = todo[f] \ {d}
      BY <1>5, <2>1 DEF RemovalFindsNothing, RemovalFails, DropRemoval
    <2>3. Left(TmpLatests)' = Left(TmpLatests) /\ Left(TmpRuns)' = Left(TmpRuns)
      BY <2>2, SameTemps
    <2>4. cur[f] # NoPlace => d = cur[f]
      BY <2>1 DEF NextRemovals
    <2>5. NoPlace \notin TmpLatests /\ NoPlace \notin TmpRuns
      BY PlacesDisjoint
    <2>6. ASSUME pc[f] \in CleanupSteps, NEW S \in {TmpLatests, TmpRuns},
                 Left(S) \subseteq todo[f] \cup {cur[f]}
          PROVE  Left(S) \subseteq todo'[f]
      BY <2>1, <2>2, <2>4, <2>5, <2>6 DEF Left
    <2> QED
      BY <2>2, <2>3, <2>6 DEF AfterFailedRemoval, CleanupSteps
  <1>6. CASE Acquire(f) \/ Refused(f) \/ Release(f) \/ Crash(f)
    BY <1>6 DEF Acquire, Refused, Release, Crash
  <1>7. CASE ListTemps(f)
    <2>1. /\ dirs' = dirs /\ pc'[f] = "removeTemps" /\ todo'[f] = Left(TmpLatests)
      BY <1>7 DEF ListTemps, Left
    <2>2. Left(TmpLatests)' = Left(TmpLatests)
      BY <2>1, SameTemps
    <2> QED
      BY <2>1, <2>2
  <1>8. CASE Recover(f) \/ NothingToRecover(f)
    <2>1. /\ pc[f] = "recover" /\ pc'[f] = "removeBackups"
          /\ \A p \in TmpLatests \cup TmpRuns : dirs'[p] = dirs[p]
      <3>1. CASE Recover(f)
        <4>1. PICK b \in listed[f] :
                  /\ dirs' = IF Present(b)
                              THEN [dirs EXCEPT ![Latest] = dirs[b], ![b] = Absent]
                              ELSE dirs
                  /\ RemoveOtherBackups(f, b)
          BY <3>1 DEF Recover
        <4>2. b \in Backups
          OBVIOUS
        <4>3. \A p \in Places \ {Latest, b} : dirs'[p] = dirs[p]
          BY <4>1
        <4> QED
          BY <3>1, <4>1, <4>2, <4>3, PlacesDisjoint DEF Recover, RemoveOtherBackups
      <3>2. CASE NothingToRecover(f)
        BY <3>2 DEF NothingToRecover, RemoveOtherBackups
      <3> QED
        BY <1>8, <3>1, <3>2
    <2> QED
      BY <2>1, SameTemps
  <1>9. CASE ListRunTemps(f)
    <2>1. /\ dirs' = dirs /\ pc[f] = "listRunTemps" /\ pc'[f] = "removeRunTemps"
          /\ todo'[f] = Left(TmpRuns)
      BY <1>9 DEF ListRunTemps, Left
    <2>2. Left(TmpLatests)' = Left(TmpLatests) /\ Left(TmpRuns)' = Left(TmpRuns)
      BY <2>1, SameTemps
    <2> QED
      BY <2>1, <2>2
  <1>10. CASE RetainBefore(f) \/ RetainAfter(f) \/ Choose(f) \/ RunWritten(f) \/ RunRefused(f)
              \/ Linked(f) \/ LinkRefused(f) \/ RetainFails(f) \/ RunFails(f) \/ StepFails(f)
    <2>1. /\ dirs' = dirs
          /\ \/ pc[f] = "retainBefore" /\ pc'[f] \in {"removeBefore", "choose"}
             \/ pc[f] = "retainAfter" /\ pc'[f] = "removeAfter"
             \/ pc[f] = "choose" /\ pc'[f] = "createRun"
             \/ pc[f] = "writeRun" /\ pc'[f] = "install"
             \/ pc[f] = "link" /\ pc'[f] = "moveAside"
             \/ pc'[f] \in {"giveUp", "discardRun"}
      <3>1. CASE RetainBefore(f) \/ RetainAfter(f) \/ RetainFails(f)
        BY <3>1 DEF RetainBefore, RetainAfter, Retain, RetainFails
      <3>2. CASE Choose(f) \/ RunWritten(f) \/ RunRefused(f) \/ RunFails(f)
        BY <3>2 DEF Choose, RunWritten, RunRefused, RunFails, DiscardRun
      <3>3. CASE Linked(f) \/ LinkRefused(f) \/ StepFails(f)
        BY <3>3 DEF Linked, LinkRefused, StepFails, GiveUp
      <3> QED
        BY <1>10, <3>1, <3>2, <3>3
    <2> QED
      BY <2>1, SameTemps
  <1>11. CASE CreateRun(f) \/ WriteRun(f)
    <2>1. /\ pc[f] \in {"createRun", "writeRun"} /\ pc'[f] = "writeRun"
          /\ \A p \in Places \ {TmpRun(f)} : dirs'[p] = dirs[p]
      BY <1>11 DEF CreateRun, WriteRun
    <2>2. /\ Left(TmpLatests)' = Left(TmpLatests)
          /\ Left(TmpRuns)' \subseteq Left(TmpRuns) \cup {TmpRun(f)}
      BY <2>1, PlacesDisjoint DEF Left, Present
    <2> QED
      BY <2>1, <2>2
  <1>12. CASE Install(f)
    <2>1. Run(target[f]) \in RunPlaces
      BY <1>12 DEF Install
    <2>2. /\ pc[f] = "install" /\ pc'[f] = "createLatest"
          /\ dirs'[TmpRun(f)] = Absent
          /\ \A p \in Places \ {TmpRun(f), Run(target[f])} : dirs'[p] = dirs[p]
      BY <1>12, <2>1, PlacesDisjoint DEF Install
    <2>3. \A p \in TmpLatests \cup (TmpRuns \ {TmpRun(f)}) : dirs'[p] = dirs[p]
      BY <2>1, <2>2, PlacesDisjoint
    <2>4. Left(TmpLatests)' = Left(TmpLatests)
      BY <2>3 DEF Left, Present
    <2>5. Left(TmpRuns)' \subseteq Left(TmpRuns) \ {TmpRun(f)}
      BY <2>2, <2>3 DEF Left, Present
    <2> QED
      BY <2>2, <2>4, <2>5
  <1>13. CASE CreateLatest(f) \/ Link(f)
    <2>1. /\ pc[f] \in {"createLatest", "link"} /\ pc'[f] = "link"
          /\ \A p \in Places \ {TmpLatest(f)} : dirs'[p] = dirs[p]
      BY <1>13 DEF CreateLatest, Link
    <2>2. /\ Left(TmpRuns)' = Left(TmpRuns)
          /\ Left(TmpLatests)' \subseteq Left(TmpLatests) \cup {TmpLatest(f)}
      BY <2>1, PlacesDisjoint DEF Left, Present
    <2> QED
      BY <2>1, <2>2
  <1>14. CASE MoveAside(f)
    <2>1. /\ pc[f] = "moveAside" /\ pc'[f] = "swap"
          /\ \A p \in TmpLatests \cup TmpRuns : dirs'[p] = dirs[p]
      BY <1>14, PlacesDisjoint DEF MoveAside
    <2> QED
      BY <2>1, SameTemps
  <1>15. CASE Swap(f)
    <2>1. /\ pc[f] = "swap" /\ pc'[f] = "removeBackup"
          /\ dirs'[Latest] = dirs[TmpLatest(f)] /\ dirs'[TmpLatest(f)] = Absent
          /\ \A p \in Places \ {Latest, TmpLatest(f)} : dirs'[p] = dirs[p]
      BY <1>15, PlacesDisjoint DEF Swap
    <2>2. \A p \in TmpRuns \cup (TmpLatests \ {TmpLatest(f)}) : dirs'[p] = dirs[p]
      BY <2>1, PlacesDisjoint
    <2>3. Left(TmpRuns)' = Left(TmpRuns)
      BY <2>2 DEF Left, Present
    <2>4. Left(TmpLatests)' \subseteq Left(TmpLatests) \ {TmpLatest(f)}
      BY <2>1, <2>2 DEF Left, Present
    <2>5. dirs'[Latest] = Bundle(f)
      BY <2>1 DEF BundlePhase
    <2> QED
      BY <2>1, <2>3, <2>4, <2>5
  <1>16. CASE SwapRefused(f) \/ SwapFails(f)
    BY <1>16 DEF SwapRefused, SwapFails, Restore
  <1>17. CASE ListTempsFails(f) \/ RecoverFails(f)
    BY <1>17 DEF ListTempsFails, RecoverFails, Orderly
  <1> QED
    BY <1>1, <1>2, <1>3, <1>4, <1>5, <1>6, <1>7, <1>8, <1>9, <1>10, <1>11, <1>12, <1>13,
       <1>14, <1>15, <1>16, <1>17 DEF FindStep, FindFault, Removal

(* Of every `find`.                                                       *)
TempsInv == \A f \in Finds : TempsPhase(f) /\ InstalledPhase(f)

(* Every step keeps what the finds know of the hidden directories: another *)
(* one does not hold the lock, and `prune` comes to runs only.             *)
LEMMA TempsStep ==
    ASSUME Orderly, IInv, TempsInv, [Next]_vars
    PROVE  TempsInv'
  <1>1. /\ TypeOK /\ Mutex
        /\ \A p \in Procs : InScope(p)
        /\ \A g \in Finds : BundlePhase(g)
        /\ Finds \subseteq Procs /\ Prunes \subseteq Procs /\ Finds \cap Prunes = {}
    BY ProcsAssumption DEF IInv, Procs
  <1>2. ASSUME NEW g \in Finds, pc'[g] = pc[g], todo'[g] = todo[g], cur'[g] = cur[g],
               \A p \in {Latest} \cup TmpLatests \cup TmpRuns : dirs'[p] = dirs[p]
        PROVE  TempsPhase(g)' /\ InstalledPhase(g)'
    <2>1. Left(TmpLatests)' = Left(TmpLatests) /\ Left(TmpRuns)' = Left(TmpRuns)
      BY <1>2, SameTemps
    <2> QED
      BY <1>2, <2>1 DEF TempsInv, TempsPhase, InstalledPhase
  <1>3. ASSUME NEW f \in Finds, FindStep(f) \/ FindFault(f) PROVE TempsInv'
    <2>1. TempsPhase(f)' /\ InstalledPhase(f)'
      BY <1>1, <1>3, TempsPhaseStep DEF TempsInv
    <2>2. /\ \A p \in Procs \ {f} :
                pc'[p] = pc[p] /\ todo'[p] = todo[p] /\ cur'[p] = cur[p]
          /\ pc[f] \notin Holding => UNCHANGED dirs
      BY <1>1, <1>3, OthersStay
    <2>3. ASSUME NEW g \in Finds \ {f} PROVE TempsPhase(g)' /\ InstalledPhase(g)'
      <3>1. CASE pc[f] \in Holding
        <4>1. pc'[g] \notin Holding
          BY <1>1, <2>2, <3>1 DEF Mutex, Orderly
        <4> QED
          BY <4>1 DEF TempsPhase, InstalledPhase, NoTmpLatestSteps, NoTmpRunSteps, Holding,
             CleanupSteps, WriteSteps, LatestSteps, AfterSteps, FailureSteps
      <3>2. CASE pc[f] \notin Holding
        BY <1>1, <1>2, <2>2, <3>2
      <3> QED
        BY <3>1, <3>2
    <2> QED
      BY <2>1, <2>3 DEF TempsInv
  <1>4. ASSUME NEW p \in Prunes, PruneStep(p) \/ PruneFault(p) PROVE TempsInv'
    <2>1. /\ \A q \in Procs \ {p} :
                pc'[q] = pc[q] /\ todo'[q] = todo[q] /\ cur'[q] = cur[q]
          /\ \A q \in Places \ RunPlaces : dirs'[q] = dirs[q]
      BY <1>1, <1>4, PruneStepLeaves
    <2>2. \A q \in {Latest} \cup TmpLatests \cup TmpRuns : dirs'[q] = dirs[q]
      BY <2>1, PlacesType, PlacesDisjoint
    <2> QED
      BY <1>1, <1>2, <2>1, <2>2 DEF TempsInv
  <1>5. CASE UNCHANGED vars
    BY <1>2, <1>5 DEF vars, TempsInv
  <1> QED
    BY <1>3, <1>4, <1>5 DEF Next, Orderly

(* SuccessLeavesOwnReport of every orderly instance: between its cleanup   *)
(* and the return of its lock a `find` alone makes hidden directories, and *)
(* it succeeds only after its own have become the run and `latest` and its *)
(* backup is removed.                                                      *)
THEOREM SuccessIsClean == ASSUME Orderly PROVE Spec => []SuccessLeavesOwnReport
  <1>1. Init => TempsInv
    BY DEF Init, TempsInv, TempsPhase, InstalledPhase, Procs, NoTmpLatestSteps,
       NoTmpRunSteps, WriteSteps, LatestSteps
  <1>2. IInv /\ TempsInv /\ [Next]_vars => TempsInv'
    BY TempsStep
  <1>3. IInv /\ TempsInv => SuccessLeavesOwnReport
    BY DEF IInv, TempsInv, TempsPhase, InstalledPhase, BackupPhase, NoBackupSteps,
       NoTmpLatestSteps, NoTmpRunSteps, Left, Backed, At, SuccessLeavesOwnReport
  <1> QED
    BY Inductive, <1>1, <1>2, <1>3, PTL DEF Spec

-------------------------------------------------------------------------------
(* The report directory implements the register of ReportRegister, in the   *)
(* orderly instances: only the rename that puts a new directory at `latest`  *)
(* changes the report a reader finds, or will find after the next recovery,  *)
(* and it changes it to the report of that find.                             *)

(* The report is that of `latest`; of the one backup when `latest` is      *)
(* missing; of nobody when neither exists.                                 *)
LEMMA CurrentIs ==
    ASSUME TypeOK, LatestInv
    PROVE  /\ Present(Latest) => Current = dirs[Latest][1]
           /\ \A p \in Backed : ~ Present(Latest) => Current = dirs[p][1]
           /\ ~ Present(Latest) /\ Backed = {} => Current = Nobody
  <1>1. \A b \in Bundles : b \notin {Absent, EmptyDir}
    BY DirType DEF Bundles, TypeOK
  <1>2. Present(Latest) => Latest \in Shown
    BY <1>1 DEF LatestInv, Shown
  <1>3. ~ Present(Latest) => Shown = Backed
    BY <1>1 DEF LatestInv, Shown, Backed, Present
  <1>4. \A p \in Backed : Backed = {p}
    BY DEF LatestInv
  <1>5. ~ Present(Latest) => Latest \notin Shown
    BY DEF Shown, Present
  <1>6. ASSUME NEW p \in Backed, ~ Present(Latest) PROVE Current = dirs[p][1]
    <2>1. Shown = {p}
      BY <1>3, <1>4, <1>6
    <2>2. (CHOOSE q \in Shown : TRUE) = p
      BY <2>1
    <2> QED
      BY <1>5, <1>6, <2>1, <2>2 DEF Current
  <1> QED
    BY <1>2, <1>3, <1>5, <1>6 DEF Current

(* The same of the next state.                                             *)
LEMMA CurrentIsNext ==
    ASSUME TypeOK', LatestInv'
    PROVE  /\ Present(Latest)' => Current' = dirs'[Latest][1]
           /\ \A p \in Backed' : ~ Present(Latest)' => Current' = dirs'[p][1]
           /\ ~ Present(Latest)' /\ Backed' = {} => Current' = Nobody
  <1>1. \A b \in Bundles' : b \notin {Absent, EmptyDir}
    BY DirType DEF Bundles, TypeOK
  <1>2. Present(Latest)' => Latest \in Shown'
    BY <1>1 DEF LatestInv, Shown
  <1>3. ~ Present(Latest)' => Shown' = Backed'
    BY <1>1 DEF LatestInv, Shown, Backed, Present
  <1>4. \A p \in Backed' : Backed' = {p}
    BY DEF LatestInv
  <1>5. ~ Present(Latest)' => Latest \notin Shown'
    BY DEF Shown, Present
  <1>6. ASSUME NEW p \in Backed', ~ Present(Latest)' PROVE Current' = dirs'[p][1]
    <2>1. Shown' = {p}
      BY <1>3, <1>4, <1>6
    <2>2. (CHOOSE q \in Shown' : TRUE) = p
      BY <2>1
    <2> QED
      BY <1>5, <1>6, <2>1, <2>2 DEF Current
  <1> QED
    BY <1>2, <1>3, <1>5, <1>6 DEF Current

(* What happens to other places does not change the report.                *)
LEMMA SameCurrent ==
    ASSUME \A p \in {Latest} \cup Backups : dirs'[p] = dirs[p]
    PROVE  Current' = Current
  <1>1. Shown' = Shown
    BY DEF Shown
  <1>2. CASE Latest \in Shown
    BY <1>1, <1>2 DEF Current
  <1>3. CASE Latest \notin Shown /\ Shown # {}
    <2>1. (CHOOSE q \in Shown : TRUE) \in Shown
      BY <1>3
    <2>2. (CHOOSE q \in Shown : TRUE) \in {Latest} \cup Backups
      BY <2>1 DEF Shown
    <2> QED
      BY <1>1, <1>3, <2>2 DEF Current
  <1>4. CASE Shown = {}
    BY <1>1, <1>4 DEF Current
  <1> QED
    BY <1>2, <1>3, <1>4

(* A step of a find publishes its report or leaves the current one.        *)
LEMMA FindStepMaps ==
    ASSUME Orderly, TypeOK, LatestInv, TypeOK', LatestInv',
           NEW f \in Finds, InScope(f), BackupPhase(f), BundlePhase(f),
           SwappedPhase(f), FindStep(f) \/ FindFault(f)
    PROVE  Register!Publish(f) \/ (Current' = Current /\ swapped' = swapped)
  <1> USE DEF fs
  <1>1. CASE BeginRemoval(f)
    BY <1>1, SameCurrent DEF BeginRemoval, NextRemovals
  <1>2. CASE RemoveFile(f)
    <2>1. cur[f] \in Places /\ cur[f] # Latest /\ dirs[cur[f]] # Absent
      BY <1>2, PlacesType, PlacesDisjoint, DirType
         DEF RemoveFile, InScope, Within, AfterRemoval, TypeOK, Present, Procs
    <2>2. /\ swapped' = swapped
          /\ \A p \in Places \ {cur[f]} : dirs'[p] = dirs[p]
      BY <1>2, <2>1 DEF RemoveFile, TypeOK
    <2>3. CASE cur[f] \notin Backups
      BY <2>1, <2>2, <2>3, SameCurrent, PlacesType
    <2>4. CASE cur[f] \in Backups
      <3>1. Present(Latest)
        BY <1>2, <2>1, <2>4, PlacesType, PlacesDisjoint
           DEF RemoveFile, InScope, Within, AfterRemoval, BackupPhase, Backed, Present
      <3>2. Present(Latest)' /\ dirs'[Latest] = dirs[Latest]
        BY <2>1, <2>2, <2>4, <3>1, PlacesType DEF Present
      <3> QED
        BY <2>2, <3>1, <3>2, CurrentIs, CurrentIsNext
    <2> QED
      BY <2>3, <2>4
  <1>3. CASE RemoveDirectory(f)
    <2>1. cur[f] \in Places /\ cur[f] # Latest /\ dirs[cur[f]] # Absent
      BY <1>3, PlacesType, PlacesDisjoint, DirType
         DEF RemoveDirectory, InScope, Within, AfterRemoval, TypeOK, Present, Procs
    <2>2. /\ swapped' = swapped
          /\ \A p \in Places \ {cur[f]} : dirs'[p] = dirs[p]
      BY <1>3, <2>1 DEF RemoveDirectory, TypeOK
    <2>3. CASE cur[f] \notin Backups
      BY <2>1, <2>2, <2>3, SameCurrent, PlacesType
    <2>4. CASE cur[f] \in Backups
      <3>1. Present(Latest)
        BY <1>3, <2>1, <2>4, PlacesType, PlacesDisjoint
           DEF RemoveDirectory, InScope, Within, AfterRemoval, BackupPhase, Backed, Present
      <3>2. Present(Latest)' /\ dirs'[Latest] = dirs[Latest]
        BY <2>1, <2>2, <2>4, <3>1, PlacesType DEF Present
      <3> QED
        BY <2>2, <3>1, <3>2, CurrentIs, CurrentIsNext
    <2> QED
      BY <2>3, <2>4
  <1>4. CASE RemovalsDone(f)
    BY <1>4, SameCurrent DEF RemovalsDone
  <1>5. CASE RemovalFindsNothing(f)
    BY <1>5, SameCurrent DEF RemovalFindsNothing, DropRemoval, NextRemovals
  <1>6. CASE RemovalFails(f)
    BY <1>6, SameCurrent DEF RemovalFails, DropRemoval, NextRemovals
  <1>7. CASE Acquire(f)
    BY <1>7, SameCurrent DEF Acquire
  <1>8. CASE Refused(f)
    BY <1>8, SameCurrent DEF Refused
  <1>9. CASE ListTemps(f)
    BY <1>9, SameCurrent DEF ListTemps
  <1>10. CASE Recover(f)
    <2>1. PICK b \in Backed :
              dirs' = [dirs EXCEPT ![Latest] = dirs[b], ![b] = Absent]
      BY <1>10 DEF Recover, BackupPhase, Backed, At
    <2>2. dirs'[Latest] = dirs[b] /\ Present(Latest)' /\ swapped' = swapped
      BY <1>10, <2>1, PlacesType, PlacesDisjoint
         DEF TypeOK, Backed, Present, Recover, RemoveOtherBackups
    <2>3. Current = dirs[b][1] /\ Current' = dirs'[Latest][1]
      BY <1>10, <2>2, CurrentIs, CurrentIsNext DEF Recover
    <2> QED
      BY <2>2, <2>3
  <1>11. CASE NothingToRecover(f)
    BY <1>11, SameCurrent DEF NothingToRecover, RemoveOtherBackups
  <1>12. CASE ListRunTemps(f)
    BY <1>12, SameCurrent DEF ListRunTemps
  <1>13. CASE RetainBefore(f)
    BY <1>13, SameCurrent DEF RetainBefore, Retain
  <1>14. CASE RetainAfter(f)
    BY <1>14, SameCurrent DEF RetainAfter, Retain
  <1>15. CASE Choose(f)
    BY <1>15, SameCurrent DEF Choose
  <1>16. CASE CreateRun(f)
    <2>1. /\ swapped' = swapped
          /\ \A p \in {Latest} \cup Backups : dirs'[p] = dirs[p]
      BY <1>16, PlacesType, PlacesDisjoint DEF CreateRun, At, TypeOK
    <2> QED
      BY <2>1, SameCurrent
  <1>17. CASE WriteRun(f)
    <2>1. /\ swapped' = swapped
          /\ \A p \in {Latest} \cup Backups : dirs'[p] = dirs[p]
      BY <1>17, PlacesType, PlacesDisjoint DEF WriteRun, At, TypeOK
    <2> QED
      BY <2>1, SameCurrent
  <1>18. CASE RunWritten(f)
    BY <1>18, SameCurrent DEF RunWritten
  <1>19. CASE Install(f)
    <2>1. /\ swapped' = swapped
          /\ \A p \in {Latest} \cup Backups : dirs'[p] = dirs[p]
      BY <1>19, PlacesType, PlacesDisjoint DEF Install, At, TypeOK
    <2> QED
      BY <2>1, SameCurrent
  <1>20. CASE RunRefused(f)
    BY <1>20, SameCurrent DEF RunRefused, DiscardRun
  <1>21. CASE CreateLatest(f)
    <2>1. /\ swapped' = swapped
          /\ \A p \in {Latest} \cup Backups : dirs'[p] = dirs[p]
      BY <1>21, PlacesType, PlacesDisjoint DEF CreateLatest, At, TypeOK
    <2> QED
      BY <2>1, SameCurrent
  <1>22. CASE Link(f)
    <2>1. /\ swapped' = swapped
          /\ \A p \in {Latest} \cup Backups : dirs'[p] = dirs[p]
      BY <1>22, PlacesType, PlacesDisjoint DEF Link, At, TypeOK
    <2> QED
      BY <2>1, SameCurrent
  <1>23. CASE Linked(f)
    BY <1>23, SameCurrent DEF Linked
  <1>24. CASE LinkRefused(f)
    BY <1>24, SameCurrent DEF LinkRefused, GiveUp
  <1>25. CASE MoveAside(f)
    <2>1. Backed = {} /\ swapped' = swapped
      BY <1>25 DEF MoveAside, BackupPhase, NoBackupSteps, At
    <2>2. CASE ~ Present(Latest)
      BY <1>25, <2>1, <2>2, SameCurrent DEF MoveAside
    <2>3. CASE Present(Latest)
      <3>1. dirs' = [dirs EXCEPT ![Backup(f)] = dirs[Latest], ![Latest] = Absent]
        BY <1>25, <2>3 DEF MoveAside
      <3>2. /\ dirs'[Backup(f)] = dirs[Latest] /\ ~ Present(Latest)'
            /\ Backup(f) \in Backed'
        BY <2>3, <3>1, PlacesType, PlacesDisjoint DEF TypeOK, Backed, Present
      <3>3. Current' = dirs'[Backup(f)][1] /\ Current = dirs[Latest][1]
        BY <2>3, <3>2, CurrentIs, CurrentIsNext
      <3> QED
        BY <2>1, <3>2, <3>3
    <2> QED
      BY <2>2, <2>3
  <1>26. CASE Swap(f)
    <2>1. dirs[TmpLatest(f)] = Bundle(f) /\ f \notin swapped
      BY <1>26 DEF Swap, BundlePhase, SwappedPhase, At, AfterSteps, Final
    <2>2. dirs'[Latest] = Bundle(f) /\ swapped' = swapped \cup {f}
      BY <1>26, <2>1, PlacesType, PlacesDisjoint DEF Swap, TypeOK
    <2>3. Current' = Bundle(f)[1]
      BY <2>2, CurrentIsNext, DirType DEF Present
    <2>4. Current' = f
      BY <2>3, DirType DEF Bundle
    <2> QED
      BY <2>1, <2>2, <2>4 DEF Register!Publish
  <1>27. CASE SwapRefused(f)
    <2>1. /\ Backed \subseteq {Backup(f)} /\ ~ Present(Latest)
          /\ swapped' = swapped
      BY <1>27 DEF SwapRefused, Restore, BackupPhase, At
    <2>2. CASE ~ Present(Backup(f))
      BY <1>27, <2>1, <2>2, SameCurrent DEF SwapRefused, Restore
    <2>3. CASE Present(Backup(f))
      <3>1. dirs' = [dirs EXCEPT ![Latest] = dirs[Backup(f)], ![Backup(f)] = Absent]
        BY <1>27, <2>1, <2>3 DEF SwapRefused, Restore
      <3>2. dirs'[Latest] = dirs[Backup(f)] /\ Backup(f) \in Backed
        BY <2>3, <3>1, PlacesType, PlacesDisjoint DEF TypeOK, Backed, Present
      <3>3. Current = dirs[Backup(f)][1] /\ Current' = dirs'[Latest][1]
        BY <2>1, <2>3, <3>2, CurrentIs, CurrentIsNext DEF Present
      <3> QED
        BY <2>1, <3>2, <3>3
    <2> QED
      BY <2>2, <2>3
  <1>28. CASE Release(f)
    BY <1>28, SameCurrent DEF Release
  <1>29. CASE ListTempsFails(f)
    BY <1>29, SameCurrent DEF ListTempsFails, Orderly
  <1>30. CASE RecoverFails(f)
    BY <1>30, SameCurrent DEF RecoverFails, RemoveOtherBackups, Orderly
  <1>31. CASE RetainFails(f)
    BY <1>31, SameCurrent DEF RetainFails
  <1>32. CASE RunFails(f)
    BY <1>32, SameCurrent DEF RunFails, DiscardRun
  <1>33. CASE StepFails(f)
    BY <1>33, SameCurrent DEF StepFails, GiveUp
  <1>34. CASE SwapFails(f)
    <2>1. /\ Backed \subseteq {Backup(f)} /\ ~ Present(Latest)
          /\ swapped' = swapped
      BY <1>34 DEF SwapFails, Restore, BackupPhase, At
    <2>2. CASE ~ Present(Backup(f))
      BY <1>34, <2>1, <2>2, SameCurrent DEF SwapFails, Restore
    <2>3. CASE Present(Backup(f))
      <3>1. dirs' = [dirs EXCEPT ![Latest] = dirs[Backup(f)], ![Backup(f)] = Absent]
        BY <1>34, <2>1, <2>3 DEF SwapFails, Restore
      <3>2. dirs'[Latest] = dirs[Backup(f)] /\ Backup(f) \in Backed
        BY <2>3, <3>1, PlacesType, PlacesDisjoint DEF TypeOK, Backed, Present
      <3>3. Current = dirs[Backup(f)][1] /\ Current' = dirs'[Latest][1]
        BY <2>1, <2>3, <3>2, CurrentIs, CurrentIsNext DEF Present
      <3> QED
        BY <2>1, <3>2, <3>3
    <2> QED
      BY <2>2, <2>3
  <1>35. CASE Crash(f)
    BY <1>35, SameCurrent DEF Crash
  <1> QED
    BY <1>1, <1>2, <1>3, <1>4, <1>5, <1>6, <1>7, <1>8, <1>9, <1>10, <1>11,
       <1>12, <1>13, <1>14, <1>15, <1>16, <1>17, <1>18, <1>19, <1>20, <1>21,
       <1>22, <1>23, <1>24, <1>25, <1>26, <1>27, <1>28, <1>29, <1>30, <1>31,
       <1>32, <1>33, <1>34, <1>35
       DEF FindStep, FindFault, Removal

(* The rest maps to steps that leave the register alone.                   *)
LEMMA PruneStepMaps ==
    ASSUME IInv, NEW p \in Prunes, PruneStep(p) \/ PruneFault(p)
    PROVE  Current' = Current /\ swapped' = swapped
  <1>1. TypeOK /\ InScope(p)
    BY DEF IInv, Procs
  <1>2. swapped' = swapped /\ \A q \in Places \ RunPlaces : dirs'[q] = dirs[q]
    BY <1>1, PruneStepLeaves
  <1>3. \A q \in {Latest} \cup Backups : dirs'[q] = dirs[q]
    BY <1>2, PlacesType, PlacesDisjoint
  <1> QED
    BY <1>2, <1>3, SameCurrent

(* Before any publication the register is empty.                           *)
LEMMA InitMaps == Init => Register!Init
  <1> SUFFICES ASSUME Init PROVE Register!Init
    OBVIOUS
  <1>1. Shown = {}
    BY PlacesType DEF Init, Shown
  <1> QED
    BY <1>1 DEF Init, Register!Init, Current

(* Every step of the directory is a step of the register or a stutter.     *)
LEMMA StepMaps ==
    ASSUME Orderly, IInv, [Next]_vars
    PROVE  [Register!Next]_(Register!vars)
  <1>1. IInv'
    BY IInvStep
  <1>2. ASSUME NEW f \in Finds, FindStep(f) \/ FindFault(f)
        PROVE  Register!Publish(f) \/ (Current' = Current /\ swapped' = swapped)
    <2>1. /\ TypeOK /\ LatestInv /\ InScope(f) /\ BackupPhase(f)
          /\ BundlePhase(f) /\ SwappedPhase(f)
      BY DEF IInv, Procs
    <2>2. TypeOK' /\ LatestInv'
      BY <1>1 DEF IInv
    <2> QED
      BY <1>2, <2>1, <2>2, FindStepMaps
  <1>3. ASSUME NEW p \in Prunes, PruneStep(p) \/ PruneFault(p)
        PROVE  Current' = Current /\ swapped' = swapped
    BY <1>3, PruneStepMaps
  <1>4. CASE UNCHANGED vars
    BY <1>4, SameCurrent DEF vars, Register!vars
  <1> QED
    BY <1>2, <1>3, <1>4 DEF Next, Orderly, Register!Next, Register!vars

(* The report directory implements the register: whatever the number of    *)
(* invocations, crashes and failing calls, a publication replaces the      *)
(* whole report, and neither a crash nor the recovery of a backup loses    *)
(* the report or brings an older one back.                                 *)
THEOREM ImplementsRegister == ASSUME Orderly PROVE Spec => RegisterSpec
  <1>1. IInv /\ [Next]_vars => [Register!Next]_(Register!vars)
    BY StepMaps
  <1> QED
    BY InitMaps, Inductive, <1>1, PTL DEF Spec, RegisterSpec, Register!Spec

(***************************************************************************)
(* How many runs a success leaves: the retention orders the names of the   *)
(* runs and counts the bytes of those it retains, so what it spares is     *)
(* within the limits; until the lock is back nothing adds to a run.        *)
(***************************************************************************)

(* The digits of a number are naturals.                                      *)
LEMMA DigitsType ==
    ASSUME NEW n \in Nat
    PROVE  Digits(n) \in Seq(Nat)
<1> DEFINE V == [0 .. n -> Seq(Nat)]
           zero == [k \in 0 .. n |-> <<>>]
           Write(v) == [k \in 0 .. n |-> IF k < 10 THEN <<k>> ELSE Append(v[k \div 10], k % 10)]
           turn == [i \in 1 .. n + 1 |-> [v \in V |-> Write(v)]]
           digits == CHOOSE d : d = Write(d)
<1>1. \A k \in 0 .. n : k >= 10 => k \div 10 \in 0 .. k - 1 /\ k % 10 \in Nat
  OBVIOUS
<1>2. \A v \in V : Write(v) \in V
  <2> SUFFICES ASSUME NEW v \in V, NEW k \in 0 .. n
               PROVE  (IF k < 10 THEN <<k>> ELSE Append(v[k \div 10], k % 10)) \in Seq(Nat)
    OBVIOUS
  <2>1. CASE k < 10
    BY <2>1
  <2>2. CASE ~ k < 10
    <3>1. k \div 10 \in 0 .. n /\ k % 10 \in Nat
      BY <1>1, <2>2
    <3>2. v[k \div 10] \in Seq(Nat)
      BY <3>1
    <3>3. Append(v[k \div 10], k % 10) \in Seq(Nat)
      BY <3>1, <3>2
    <3> QED  BY <2>2, <3>3
  <2> QED  BY <2>1, <2>2
<1>3. PICK g : Along(g, n + 1, V, zero, turn)
  <2>1. zero \in V /\ turn \in Steps(n + 1, V)
    <3> HIDE DEF Write
    <3> QED  BY <1>2 DEF Steps
  <2>2. n + 1 \in Nat
    OBVIOUS
  <2> HIDE DEF V, zero, turn
  <2> QED  BY <2>1, <2>2, Recursion
<1>4. g \in [0 .. n + 1 -> V] /\ \A i \in 1 .. n + 1 : g[i] = Write(g[i - 1])
  <2> HIDE DEF V, zero, Write
  <2>1. g \in [0 .. n + 1 -> V] /\ \A i \in 1 .. n + 1 : g[i] = turn[i][g[i - 1]]
    BY <1>3 DEF Along
  <2>2. ASSUME NEW i \in 1 .. n + 1 PROVE g[i - 1] \in V
    BY <2>1
  <2> QED  BY <2>1, <2>2
<1>5. \A i \in 0 .. n + 1 : g[i] \in V
  BY <1>4
<1> DEFINE T == {k \in 0 .. n : \A m \in 0 .. k : \A j \in k + 1 .. n + 1 : g[j][m] = g[k + 1][m]}
<1>6. \A i \in 1 .. n + 1, k \in 0 .. n :
         /\ k < 10 => g[i][k] = <<k>>
         /\ ~ k < 10 => g[i][k] = Append(g[i - 1][k \div 10], k % 10)
  <2> SUFFICES ASSUME NEW i \in 1 .. n + 1, NEW k \in 0 .. n
               PROVE  /\ k < 10 => g[i][k] = <<k>>
                      /\ ~ k < 10 => g[i][k] = Append(g[i - 1][k \div 10], k % 10)
    OBVIOUS
  <2>1. g[i] = Write(g[i - 1])
    BY <1>4
  <2> HIDE DEF V
  <2> QED  BY <2>1
<1> HIDE DEF V, zero, Write, turn, digits
<1>7. 0 \in T
  BY <1>6
<1>8. ASSUME NEW k \in 1 .. n, k - 1 \in T PROVE k \in T
  <2> SUFFICES ASSUME NEW m \in 0 .. k, NEW j \in k + 1 .. n + 1
               PROVE  g[j][m] = g[k + 1][m]
    BY DEF T
  <2>0. m \in 0 .. n /\ j \in 1 .. n + 1 /\ k + 1 \in 1 .. n + 1
    OBVIOUS
  <2>1. CASE m < 10
    BY <1>6, <2>0, <2>1
  <2>2. CASE ~ m < 10
    <3>1. m \div 10 \in 0 .. k - 1 /\ j - 1 \in k .. n + 1 /\ k \in k .. n + 1
      BY <1>1, <2>2
    <3>2. g[j - 1][m \div 10] = g[k][m \div 10]
      BY <1>8, <3>1
    <3>3. /\ g[j][m] = Append(g[j - 1][m \div 10], m % 10)
          /\ g[k + 1][m] = Append(g[k][m \div 10], m % 10)
      BY <1>6, <2>0, <2>2
    <3> QED  BY <3>2, <3>3
  <2> QED  BY <2>1, <2>2
<1>9. 0 .. n \subseteq T
  <2> HIDE DEF T
  <2> QED  BY <1>7, <1>8, UpTo
<1>10. \A k \in 0 .. n :
          g[n + 1][k] = IF k < 10 THEN <<k>> ELSE Append(g[n + 1][k \div 10], k % 10)
  <2>0. n + 1 \in 1 .. n + 1
    OBVIOUS
  <2> SUFFICES ASSUME NEW k \in 0 .. n, ~ k < 10
               PROVE  g[n + 1][k] = Append(g[n + 1][k \div 10], k % 10)
    <3>1. \A k \in 0 .. n : k < 10 => g[n + 1][k] = <<k>>
      BY <1>6, <2>0
    <3> QED  BY <3>1
  <2>1. n - 1 \in T /\ k \div 10 \in 0 .. n - 1 /\ n + 1 \in n .. n + 1
    BY <1>1, <1>9
  <2>2. g[n + 1][k \div 10] = g[n][k \div 10]
    BY <2>1
  <2>3. g[n + 1][k] = Append(g[n][k \div 10], k % 10)
    <3>1. (n + 1) - 1 = n
      OBVIOUS
    <3>2. g[n + 1][k] = Append(g[(n + 1) - 1][k \div 10], k % 10)
      BY <1>6, <2>0
    <3> QED  BY <3>1, <3>2
  <2> QED  BY <2>2, <2>3
<1>11. g[n + 1] = Write(g[n + 1])
  <2>1. g[n + 1] \in V
    BY <1>5
  <2> QED  BY <1>10, <2>1 DEF V, Write
<1>12. digits = Write(digits)
  BY <1>11 DEF digits
<1> DEFINE U == {k \in 0 .. n : \A m \in 0 .. k : digits[m] \in Seq(Nat)}
<1>13. \A k \in 0 .. n :
          /\ k < 10 => digits[k] = <<k>>
          /\ ~ k < 10 => digits[k] = Append(digits[k \div 10], k % 10)
  BY <1>12 DEF Write
<1>14. \A k \in Nat : <<k>> \in Seq(Nat)
  OBVIOUS
<1>15. 0 \in U
  <2>1. digits[0] = <<0>>
    BY <1>13
  <2>2. digits[0] \in Seq(Nat)
    BY <1>14, <2>1
  <2> QED  BY <2>2
<1>16. ASSUME NEW k \in 1 .. n, k - 1 \in U PROVE k \in U
  <2>1. digits[k] \in Seq(Nat)
    <3>1. CASE k < 10
      <4>1. digits[k] = <<k>> /\ k \in Nat
        BY <1>13, <3>1
      <4> QED  BY <1>14, <4>1
    <3>2. CASE ~ k < 10
      <4>1. k \div 10 \in 0 .. k - 1 /\ k % 10 \in Nat
        BY <1>1, <3>2
      <4>2. digits[k \div 10] \in Seq(Nat)
        BY <1>16, <4>1
      <4>3. digits[k] = Append(digits[k \div 10], k % 10)
        BY <1>13, <3>2
      <4> QED  BY <4>1, <4>2, <4>3
    <3> QED  BY <3>1, <3>2
  <2> QED  BY <1>16, <2>1
<1>17. n \in U
  <2> HIDE DEF U
  <2>1. 0 .. n \subseteq U
    BY <1>15, <1>16, UpTo
  <2> QED  BY <2>1
<1>18. Digits(n) = digits[n]
  BY DEF Digits, digits, Write
<1> QED  BY <1>17, <1>18

(* The name of a run is a sequence of naturals.                              *)
LEMMA KeyType ==
    ASSUME NEW p \in RunPlaces \cup TmpRuns
    PROVE  KeyOf(p) \in Seq(Nat)
<1>1. \A s, t \in Seq(Nat) : s \o t \in Seq(Nat)
  OBVIOUS
<1>2. \A n \in Nat : <<n>> \in Seq(Nat)
  OBVIOUS
<1>3. CASE p[1] = "run"
  <2>1. PICK n \in Names : p = <<"run", n>>
    BY <1>3 DEF RunPlaces, Run, TmpRuns, TmpRun
  <2>2. n[1] \in Nat /\ n[2] \in Nat
    BY FindsAssumption, NumbersAssumption DEF Names, Stamps
  <2>3. KeyOf(p) = RunKey(n[1], n[2])
    BY <2>1 DEF KeyOf
  <2>4. <<n[1]>> \in Seq(Nat) /\ Digits(n[2]) \in Seq(Nat)
    BY <1>2, <2>2, DigitsType
  <2> QED  BY <1>1, <2>3, <2>4 DEF RunKey
<1>4. CASE p[1] # "run"
  BY <1>2, <1>4 DEF KeyOf, HiddenKey
<1> QED  BY <1>3, <1>4

(* Strings are ordered.                                                      *)
LEMMA StringOrder ==
    ASSUME NEW s \in Seq(Nat), NEW t \in Seq(Nat), NEW u \in Seq(Nat)
    PROVE  /\ ~ StringBefore(s, s)
           /\ StringBefore(s, t) /\ StringBefore(t, u) => StringBefore(s, u)
<1>1. \A v \in Seq(Nat) : Len(v) \in Nat /\ \A k \in 1 .. Len(v) : v[k] \in Nat
  OBVIOUS
<1>2. ~ StringBefore(s, s)
  BY <1>1 DEF StringBefore
<1>3. ASSUME StringBefore(s, t), StringBefore(t, u)
      PROVE  StringBefore(s, u)
  <2>1. PICK k \in 1 .. Len(t) : /\ k > Len(s) \/ s[k] < t[k]
                                 /\ \A i \in 1 .. (k - 1) : i <= Len(s) /\ s[i] = t[i]
    BY <1>3 DEF StringBefore
  <2>2. PICK m \in 1 .. Len(u) : /\ m > Len(t) \/ t[m] < u[m]
                                 /\ \A i \in 1 .. (m - 1) : i <= Len(t) /\ t[i] = u[i]
    BY <1>3 DEF StringBefore
  <2>3. CASE k < m
    <3>1. k \in 1 .. Len(u) /\ t[k] = u[k]
      BY <1>1, <2>1, <2>2, <2>3
    <3>2. \A i \in 1 .. (k - 1) : i <= Len(s) /\ s[i] = u[i]
      BY <1>1, <2>1, <2>2, <2>3
    <3> QED  BY <2>1, <3>1, <3>2 DEF StringBefore
  <2>4. CASE k = m
    <3>1. m > Len(s) \/ s[m] < u[m]
      <4>1. CASE m > Len(s)
        BY <4>1
      <4>2. CASE ~ m > Len(s)
        BY <1>1, <2>1, <2>2, <2>4, <4>2
      <4> QED  BY <4>1, <4>2
    <3>2. \A i \in 1 .. (m - 1) : i <= Len(s) /\ s[i] = u[i]
      BY <1>1, <2>1, <2>2, <2>4
    <3> QED  BY <3>1, <3>2 DEF StringBefore
  <2>5. CASE k > m
    <3>1. m \in 1 .. (k - 1) /\ m <= Len(t)
      BY <1>1, <2>1, <2>2, <2>5
    <3>2. m <= Len(s) /\ s[m] = t[m] /\ t[m] < u[m]
      BY <2>1, <2>2, <3>1
    <3>3. \A i \in 1 .. (m - 1) : i <= Len(s) /\ s[i] = u[i]
      BY <1>1, <2>1, <2>2, <2>5
    <3> QED  BY <3>2, <3>3 DEF StringBefore
  <2> QED  BY <1>1, <2>3, <2>4, <2>5
<1> QED  BY <1>2, <1>3

(* Entries in the order in which the retention takes them.                   *)
Listing(sorted, E) ==
    /\ sorted \in [1 .. Cardinality(E) -> E]
    /\ \A e \in E : \E i \in DOMAIN sorted : sorted[i] = e
    /\ \A i, j \in DOMAIN sorted : i < j => ~ StringBefore(sorted[i].key, sorted[j].key)

(* Some entry has no name below its own.                                     *)
LEMMA LowestEntry ==
    ASSUME NEW E, IsFiniteSet(E), E # {}, \A e \in E : e.key \in Seq(Nat)
    PROVE  \E e \in E : \A d \in E : ~ StringBefore(d.key, e.key)
<1> DEFINE Below(e) == {d \in E : StringBefore(d.key, e.key)}
           T == {Cardinality(Below(e)) : e \in E}
<1>1. \A e \in E : IsFiniteSet(Below(e)) /\ Cardinality(Below(e)) \in Nat
  BY FS_Subset, FS_CardinalityType
<1>2. T \in SUBSET Nat /\ T # {}
  BY <1>1
<1>3. PICK e \in E : \A d \in E : Cardinality(Below(e)) <= Cardinality(Below(d))
  <2>1. \E m \in T : \A k \in T : m <= k
    <3> HIDE DEF T
    <3> QED  BY <1>2, Least
  <2> QED  BY <2>1
<1>4. ASSUME NEW d \in E, StringBefore(d.key, e.key) PROVE FALSE
  <2>1. Below(d) \subseteq Below(e)
    BY <1>4, StringOrder
  <2>2. d \in Below(e) /\ d \notin Below(d)
    BY <1>4, StringOrder
  <2>3. Cardinality(Below(d)) < Cardinality(Below(e))
    <3>1. Below(d) # Below(e)
      BY <2>2
    <3> HIDE DEF Below
    <3>2. Cardinality(Below(d)) <= Cardinality(Below(e))
      BY <1>1, <2>1, FS_Subset
    <3>3. Cardinality(Below(d)) # Cardinality(Below(e))
      BY <1>1, <2>1, <3>1, FS_Subset
    <3> QED  BY <1>1, <3>2, <3>3
  <2> HIDE DEF Below
  <2> QED  BY <1>1, <1>3, <2>3
<1> QED  BY <1>4

(* There is such a listing.                                                  *)
LEMMA ListingExists ==
    ASSUME NEW E, IsFiniteSet(E), \A e \in E : e.key \in Seq(Nat)
    PROVE  \E sorted : Listing(sorted, E)
<1> DEFINE n == Cardinality(E)
           T == {k \in 0 .. n : \A S \in SUBSET E : Cardinality(S) = k =>
                                   \E sorted : Listing(sorted, S)}
<1>1. n \in Nat /\ \A S \in SUBSET E : IsFiniteSet(S) /\ Cardinality(S) \in 0 .. n
  BY FS_CardinalityType, FS_Subset
<1>2. 0 \in T
  <2> SUFFICES ASSUME NEW S \in SUBSET E, Cardinality(S) = 0
               PROVE  \E sorted : Listing(sorted, S)
    BY <1>1
  <2>1. S = {}
    BY <1>1, FS_EmptySet
  <2> DEFINE sorted == [i \in 1 .. 0 |-> 0]
  <2>2. sorted \in [1 .. 0 -> S] /\ DOMAIN sorted = {}
    OBVIOUS
  <2>3. Listing(sorted, S)
    <3> HIDE DEF sorted
    <3> QED  BY <2>1, <2>2 DEF Listing
  <2> QED  BY <2>3
<1>3. ASSUME NEW k \in 1 .. n, k - 1 \in T PROVE k \in T
  <2> HIDE DEF n
  <2> SUFFICES ASSUME NEW S \in SUBSET E, Cardinality(S) = k
               PROVE  \E sorted : Listing(sorted, S)
    BY DEF T
  <2>1. PICK e \in S : \A d \in S : ~ StringBefore(d.key, e.key)
    <3>1. IsFiniteSet(S) /\ S # {} /\ \A d \in S : d.key \in Seq(Nat)
      BY <1>1, FS_EmptySet
    <3> QED  BY <3>1, LowestEntry
  <2> DEFINE R == S \ {e}
  <2>2. R \in SUBSET E /\ Cardinality(R) = k - 1
    BY <1>1, <2>1, FS_RemoveElement
  <2>3. PICK rest : Listing(rest, R)
    BY <1>3, <2>2
  <2>4. rest \in [1 .. k - 1 -> R] /\ DOMAIN rest = 1 .. k - 1
    BY <2>2, <2>3 DEF Listing
  <2> DEFINE sorted == [i \in 1 .. k |-> IF i = k THEN e ELSE rest[i]]
  <2>5. /\ sorted \in [1 .. k -> S] /\ DOMAIN sorted = 1 .. k /\ sorted[k] = e
        /\ \A i \in 1 .. k - 1 : sorted[i] = rest[i] /\ rest[i] \in S
    BY <2>1, <2>4
  <2> HIDE DEF sorted
  <2>6. \A d \in S : \E i \in 1 .. k : sorted[i] = d
    <3> SUFFICES ASSUME NEW d \in S, d # e
                 PROVE  \E i \in 1 .. k : sorted[i] = d
      BY <2>5
    <3>1. PICK i \in 1 .. k - 1 : rest[i] = d
      BY <2>3, <2>4 DEF Listing
    <3> QED  BY <2>5, <3>1
  <2>7. ASSUME NEW i \in 1 .. k, NEW j \in 1 .. k, i < j
        PROVE  ~ StringBefore(sorted[i].key, sorted[j].key)
    <3>1. i \in 1 .. k - 1 /\ sorted[i] = rest[i] /\ rest[i] \in S
      BY <2>5, <2>7
    <3>2. CASE j = k
      BY <2>1, <2>5, <3>1, <3>2
    <3>3. CASE j # k
      <4>1. j \in 1 .. k - 1 /\ sorted[j] = rest[j]
        BY <2>5, <3>3
      <4> QED  BY <2>3, <2>4, <2>7, <3>1, <4>1 DEF Listing
    <3> QED  BY <3>2, <3>3
  <2>8. Listing(sorted, S)
    BY <2>5, <2>6, <2>7 DEF Listing
  <2> QED  BY <2>8
<1>4. n \in T
  <2> HIDE DEF T, n
  <2>1. 0 .. n \subseteq T
    BY <1>1, <1>2, <1>3, UpTo
  <2> QED  BY <1>1, <2>1
<1> QED  BY <1>4

(* The listing of the retention is one.                                      *)
LEMMA DescendingLists ==
    ASSUME NEW E, IsFiniteSet(E), \A e \in E : e.key \in Seq(Nat)
    PROVE  Listing(Descending(E), E)
<1>1. PICK sorted : Listing(sorted, E)
  BY ListingExists
<1> QED  BY <1>1 DEF Listing, Descending

(* The bytes of what is retained of the first entries.                       *)
Retained(after, sorted, n, keep, maxBytes) ==
    /\ after \in [0 .. n -> Nat] /\ after[0] = 0
    /\ \A i \in 1 .. n :
          /\ FindKeeps(i, after[i - 1], sorted[i].bytes, keep, maxBytes) =>
                after[i] = after[i - 1] + sorted[i].bytes
          /\ ~ FindKeeps(i, after[i - 1], sorted[i].bytes, keep, maxBytes) =>
                after[i] = after[i - 1]

Drops(sorted, n, keep, maxBytes) ==
    \E after :
       /\ Retained(after, sorted, n, keep, maxBytes)
       /\ FindDrops(sorted, keep, maxBytes) =
             {i \in 1 .. n : ~ FindKeeps(i, after[i - 1], sorted[i].bytes, keep, maxBytes)}

(* The retention counts the bytes of what it retains, along its list.      *)
LEMMA DropsAre ==
    ASSUME NEW n \in Nat, NEW E, NEW sorted \in [1 .. n -> E], \A e \in E : e.bytes \in Nat,
           NEW keep \in Nat, NEW maxBytes \in Nat
    PROVE  Drops(sorted, n, keep, maxBytes)
<1> DEFINE bytes == [i \in 1 .. n |-> sorted[i].bytes]
           Keeps(i, v) == FindKeeps(i, v, bytes[i], keep, maxBytes)
           More(a) == [i \in 0 .. n |->
                          IF i = 0 THEN 0
                          ELSE IF Keeps(i, a[i - 1]) THEN a[i - 1] + bytes[i] ELSE a[i - 1]]
           after == CHOOSE a : a = More(a)
           turn == [i \in 1 .. n |-> [v \in Nat |-> IF Keeps(i, v) THEN v + bytes[i] ELSE v]]
<1>1. \A i \in 1 .. n : bytes[i] \in Nat
  OBVIOUS
<1>2. turn \in Steps(n, Nat)
  <2> HIDE DEF Keeps, bytes
  <2> QED  BY <1>1 DEF Steps
<1>3. PICK g : Along(g, n, Nat, 0, turn)
  <2> HIDE DEF turn
  <2> QED  BY <1>2, Recursion
<1> HIDE DEF Keeps, bytes
<1>4. g \in [0 .. n -> Nat] /\ g[0] = 0 /\ \A i \in 1 .. n : g[i] = turn[i][g[i - 1]]
  BY <1>3 DEF Along
<1>5. \A i \in 1 .. n : g[i] = IF Keeps(i, g[i - 1]) THEN g[i - 1] + bytes[i] ELSE g[i - 1]
  <2> SUFFICES ASSUME NEW i \in 1 .. n
               PROVE  g[i] = IF Keeps(i, g[i - 1]) THEN g[i - 1] + bytes[i] ELSE g[i - 1]
    OBVIOUS
  <2>1. g[i - 1] \in Nat
    BY <1>4
  <2> QED  BY <1>4, <2>1
<1>6. g = More(g)
  BY <1>4, <1>5
<1>7. after = More(after)
  <2> HIDE DEF More
  <2> QED  BY <1>6
<1> HIDE DEF after, turn
<1>8. /\ after = [i \in 0 .. n |-> after[i]] /\ after[0] = 0
      /\ \A i \in 1 .. n : /\ Keeps(i, after[i - 1]) => after[i] = after[i - 1] + bytes[i]
                           /\ ~ Keeps(i, after[i - 1]) => after[i] = after[i - 1]
  BY <1>7
<1> DEFINE T == {k \in 0 .. n : after[k] \in Nat}
<1>9. 0 .. n \subseteq T
  <2>1. 0 \in T
    BY <1>8
  <2>2. ASSUME NEW k \in 1 .. n, k - 1 \in T PROVE k \in T
    <3>1. after[k - 1] \in Nat /\ bytes[k] \in Nat
      BY <1>1, <2>2
    <3>2. after[k] = after[k - 1] + bytes[k] \/ after[k] = after[k - 1]
      BY <1>8
    <3> QED  BY <3>1, <3>2
  <2> HIDE DEF T
  <2> QED  BY <2>1, <2>2, UpTo
<1>10. after \in [0 .. n -> Nat]
  BY <1>8, <1>9
<1>11. \A i \in 1 .. n : \A v : Keeps(i, v) <=> FindKeeps(i, v, sorted[i].bytes, keep, maxBytes)
  BY DEF Keeps, bytes
<1>12. Retained(after, sorted, n, keep, maxBytes)
  <2>1. \A i \in 1 .. n : bytes[i] = sorted[i].bytes
    BY DEF bytes
  <2> QED  BY <1>8, <1>10, <1>11, <2>1 DEF Retained
<1>13. FindDrops(sorted, keep, maxBytes) =
          {i \in 1 .. n : ~ FindKeeps(i, after[i - 1], sorted[i].bytes, keep, maxBytes)}
  <2> DEFINE own == CHOOSE a : a = [i \in 0 .. Len(sorted) |->
                        IF i = 0 THEN 0
                        ELSE IF FindKeeps(i, a[i - 1], sorted[i].bytes, keep, maxBytes)
                             THEN a[i - 1] + sorted[i].bytes ELSE a[i - 1]]
  <2>1. Len(sorted) = n
    OBVIOUS
  <2>2. ASSUME NEW a
        PROVE  More(a) = [i \in 0 .. n |->
                        IF i = 0 THEN 0
                        ELSE IF FindKeeps(i, a[i - 1], sorted[i].bytes, keep, maxBytes)
                             THEN a[i - 1] + sorted[i].bytes ELSE a[i - 1]]
    BY DEF Keeps, bytes
  <2>3. own = after
    BY <2>1, <2>2 DEF after
  <2>4. FindDrops(sorted, keep, maxBytes) =
           {i \in 1 .. Len(sorted) : ~ FindKeeps(i, own[i - 1], sorted[i].bytes, keep, maxBytes)}
    BY DEF FindDrops
  <2> HIDE DEF own
  <2> QED  BY <2>1, <2>3, <2>4
<1> QED  BY <1>12, <1>13 DEF Drops

(* Entries with the sizes of their places, the places that are not dropped,  *)
(* and places within the limits.                                             *)
Sized(E, Q, size) == \A e \in E : e.place \in Q /\ e.bytes = size[e.place]

Spared(sorted, n, keep, maxBytes) ==
    {sorted[i].place : i \in (1 .. n) \ FindDrops(sorted, keep, maxBytes)}

Bounded(P, size, keep, maxBytes) ==
    /\ IsFiniteSet(P) /\ Cardinality(P) <= keep
    /\ Cardinality(P) <= 1 \/ SumFunction([p \in P |-> size[p]]) <= maxBytes

(* What the retention keeps is within its limits.                            *)
LEMMA RetainedIsBounded ==
    ASSUME NEW n \in Nat, NEW E, NEW sorted \in [1 .. n -> E], NEW keep \in Nat, NEW maxBytes \in Nat,
           NEW Q, NEW size \in [Q -> Nat], Sized(E, Q, size),
           NEW K, K \subseteq Spared(sorted, n, keep, maxBytes)
    PROVE  Bounded(K, size, keep, maxBytes)
<1> USE DEF Sized, Spared, Bounded
<1>1. \A e \in E : e.bytes \in Nat
  OBVIOUS
<1>2. PICK after : /\ Retained(after, sorted, n, keep, maxBytes)
                   /\ FindDrops(sorted, keep, maxBytes) =
                         {i \in 1 .. n :
                             ~ FindKeeps(i, after[i - 1], sorted[i].bytes, keep, maxBytes)}
  <2>1. Drops(sorted, n, keep, maxBytes)
    BY <1>1, DropsAre
  <2> QED  BY <2>1 DEF Drops
<1> DEFINE Kept(i) == FindKeeps(i, after[i - 1], sorted[i].bytes, keep, maxBytes)
           First(k) == {sorted[i].place : i \in {j \in 1 .. k : Kept(j)}}
           Sum(P) == SumFunction([p \in P |-> size[p]])
           T == {k \in 0 .. n :
                    /\ IsFiniteSet(First(k)) /\ Cardinality(First(k)) <= k
                    /\ Cardinality(First(k)) <= keep /\ Sum(First(k)) <= after[k]
                    /\ after[k] <= maxBytes \/ (k > 0 /\ Cardinality(First(k)) <= 1)}
<1>3. \A k \in 0 .. n : First(k) \subseteq Q
  OBVIOUS
<1>4. 0 \in T
  <2>1. First(0) = {}
    OBVIOUS
  <2>2. IsFiniteSet({}) /\ Cardinality({}) = 0
    BY FS_EmptySet
  <2>3. SumFunction([p \in {} |-> size[p]]) = 0
    <3>1. [p \in {} |-> size[p]] \in [{} -> Nat]
      OBVIOUS
    <3> QED  BY <2>2, <3>1, SumFacts
  <2>4. Sum(First(0)) = 0
    BY <2>1, <2>3
  <2>5. after[0] = 0
    BY <1>2 DEF Retained
  <2>6. IsFiniteSet(First(0)) /\ Cardinality(First(0)) = 0
    BY <2>1, <2>2
  <2> HIDE DEF First, Sum
  <2>7. Cardinality(First(0)) <= keep /\ Sum(First(0)) <= after[0] /\ after[0] <= maxBytes
    BY <2>4, <2>5, <2>6
  <2> QED  BY <2>6, <2>7
<1>5. ASSUME NEW k \in 1 .. n, k - 1 \in T PROVE k \in T
  <2>1. /\ after[k - 1] \in Nat /\ after[k] \in Nat /\ sorted[k].bytes \in Nat
        /\ Kept(k) => after[k] = after[k - 1] + sorted[k].bytes
        /\ ~ Kept(k) => after[k] = after[k - 1]
    BY <1>1, <1>2 DEF Retained
  <2>2. CASE ~ Kept(k)
    <3>1. First(k) = First(k - 1)
      BY <2>2
    <3>2. after[k] = after[k - 1]
      BY <2>1, <2>2
    <3> HIDE DEF First, Sum, Kept
    <3>3. Cardinality(First(k)) \in Nat
      BY <1>5, <3>1, FS_CardinalityType
    <3> QED  BY <1>5, <3>1, <3>2, <3>3
  <2>3. CASE Kept(k)
    <3> DEFINE place == sorted[k].place
    <3>1. First(k) = First(k - 1) \cup {place}
      BY <2>3
    <3>2. place \in Q /\ size[place] = sorted[k].bytes
      OBVIOUS
    <3>3. after[k] = after[k - 1] + sorted[k].bytes
      BY <2>1, <2>3
    <3>4. (k = 1 /\ keep > 0) \/ (k <= keep /\ after[k] <= maxBytes)
      BY <2>3, <3>3 DEF FindKeeps
    <3> HIDE DEF First, Sum, Kept, place
    <3>5. /\ IsFiniteSet(First(k - 1)) /\ Cardinality(First(k - 1)) \in Nat
          /\ IsFiniteSet(First(k)) /\ Cardinality(First(k)) \in Nat
          /\ Cardinality(First(k)) <= Cardinality(First(k - 1)) + 1
      <4>1. IsFiniteSet(First(k - 1))
        BY <1>5
      <4> DEFINE one == First(k - 1) \cup {place}
      <4>2. IsFiniteSet(one) /\ (\/ Cardinality(one) = Cardinality(First(k - 1))
                                 \/ Cardinality(one) = Cardinality(First(k - 1)) + 1)
        BY <4>1, FS_AddElement
      <4> HIDE DEF one
      <4>3. Cardinality(First(k - 1)) \in Nat
        BY <4>1, FS_CardinalityType
      <4>4. First(k) = one
        BY <3>1 DEF one
      <4> QED  BY <4>1, <4>2, <4>3, <4>4
    <3>6. Sum(First(k)) <= after[k]
      <4>1. /\ [p \in First(k) |-> size[p]] \in [First(k) -> Nat]
            /\ [p \in First(k - 1) |-> size[p]] \in [First(k - 1) -> Nat]
        BY <1>3
      <4>2. Sum(First(k - 1)) \in Nat
        BY <3>5, <4>1, SumFacts DEF Sum
      <4>3. CASE place \in First(k - 1)
        <5>1. First(k) = First(k - 1)
          BY <3>1, <4>3
        <5>2. Sum(First(k)) <= after[k - 1]
          BY <1>5, <5>1
        <5>3. Sum(First(k)) \in Nat
          BY <4>2, <5>1
        <5> QED  BY <2>1, <3>3, <5>2, <5>3
      <4>4. CASE place \notin First(k - 1)
        <5> DEFINE f == [p \in First(k) |-> size[p]]
        <5>1. First(k) \ {place} = First(k - 1) /\ place \in First(k)
          BY <3>1, <4>4
        <5>2. SumFunction(f) <= f[place] + SumFunction([p \in First(k) \ {place} |-> f[p]])
          <6> HIDE DEF f
          <6> QED  BY <3>5, <4>1, <5>1, SumWithOneMore DEF f
        <5>3. [p \in First(k) \ {place} |-> f[p]] = [p \in First(k - 1) |-> size[p]]
          BY <5>1
        <5>4. f[place] = sorted[k].bytes
          BY <3>2, <5>1
        <5>5. Sum(First(k)) <= sorted[k].bytes + Sum(First(k - 1))
          BY <5>2, <5>3, <5>4 DEF Sum
        <5>6. Sum(First(k)) \in Nat
          BY <3>5, <4>1, SumFacts DEF Sum
        <5>7. Sum(First(k - 1)) <= after[k - 1]
          BY <1>5
        <5> HIDE DEF f
        <5> QED  BY <2>1, <3>3, <4>2, <5>5, <5>6, <5>7
      <4> QED  BY <4>3, <4>4
    <3>7. Cardinality(First(k)) <= k /\ Cardinality(First(k)) <= keep
      BY <1>5, <3>4, <3>5
    <3> QED  BY <1>5, <2>1, <3>4, <3>5, <3>6, <3>7
  <2> QED  BY <2>2, <2>3
<1>6. n \in T
  <2> HIDE DEF T
  <2>1. 0 .. n \subseteq T
    BY <1>4, <1>5, UpTo
  <2> QED  BY <2>1
<1>7. K \subseteq First(n)
  BY <1>2
<1>8. IsFiniteSet(K) /\ Cardinality(K) <= Cardinality(First(n)) /\ Cardinality(K) \in Nat
      /\ Cardinality(First(n)) \in Nat
  <2> HIDE DEF First, Sum
  <2> QED  BY <1>6, <1>7, FS_Subset, FS_CardinalityType
<1>9. Sum(K) <= Sum(First(n)) /\ Sum(K) \in Nat /\ Sum(First(n)) \in Nat
  <2> DEFINE f == [p \in First(n) |-> size[p]]
             h == [p \in K |-> size[p]]
  <2>1. f \in [First(n) -> Nat] /\ h \in [K -> Nat] /\ \A p \in K : h[p] <= f[p]
    <3> HIDE DEF First
    <3> QED  BY <1>3, <1>7
  <2>2. IsFiniteSet(First(n))
    BY <1>6
  <2> HIDE DEF f, h, First
  <2>3. SumFunction(h) <= SumFunction(f) /\ SumFunction(h) \in Nat /\ SumFunction(f) \in Nat
    BY <1>7, <1>8, <2>1, <2>2, SumOfFewer, SumFacts
  <2> QED  BY <2>3 DEF f, h
<1>10. after[n] \in Nat
  BY <1>2 DEF Retained
<1> HIDE DEF First, Sum
<1> QED  BY <1>6, <1>8, <1>9, <1>10 DEF Sum

(* Runs within the limits.                                                   *)
LimitedBy(P, size) == Bounded(P, size, Keep, MaxBytes)

(* The bytes of each run that exists.                                        *)
RunBytes == [p \in PresentRuns |-> DirBytes(p)]

(* What a `find` knows of the runs at its last steps: those it does not      *)
(* remove are within the limits.                                             *)
LimitPhase(f) ==
    /\ At(f, "removeAfter") => LimitedBy(PresentRuns \ (todo[f] \cup {cur[f]}), RunBytes)
    /\ At(f, "release") => LimitedBy(PresentRuns, RunBytes)

LimitInv == IsFiniteSet(PresentRuns) /\ \A f \in Finds : LimitPhase(f)

(* Fewer or smaller runs are within the limits too.                          *)
LEMMA FewerAreLimited ==
    ASSUME NEW All, NEW size \in [All -> Nat], NEW P \in SUBSET All, LimitedBy(P, size),
           NEW Left2, NEW size2 \in [Left2 -> Nat], NEW Q \in SUBSET Left2, Q \subseteq P,
           \A p \in Q : size2[p] <= size[p]
    PROVE  LimitedBy(Q, size2)
<1> DEFINE f == [p \in P |-> size[p]]
           h == [p \in Q |-> size2[p]]
<1>1. /\ IsFiniteSet(P) /\ Cardinality(P) <= Keep
      /\ Cardinality(P) <= 1 \/ SumFunction(f) <= MaxBytes
  BY DEF LimitedBy, Bounded
<1>2. IsFiniteSet(Q) /\ Cardinality(Q) <= Cardinality(P)
  BY <1>1, FS_Subset
<1>3. Cardinality(P) \in Nat /\ Cardinality(Q) \in Nat
  BY <1>1, <1>2, FS_CardinalityType
<1>4. f \in [P -> Nat] /\ h \in [Q -> Nat] /\ \A p \in Q : h[p] <= f[p]
  OBVIOUS
<1> HIDE DEF f, h
<1>5. SumFunction(h) <= SumFunction(f) /\ SumFunction(h) \in Nat /\ SumFunction(f) \in Nat
  BY <1>1, <1>2, <1>4, SumOfFewer, SumFacts
<1>6. Cardinality(Q) <= 1 \/ SumFunction(h) <= MaxBytes
  BY <1>1, <1>2, <1>3, <1>5, NumbersAssumption
<1> QED  BY <1>1, <1>2, <1>3, <1>6, NumbersAssumption DEF LimitedBy, Bounded, h

(* The bytes of a directory, and of one that lost files.                     *)
FileBytes(d) == [x \in Files |-> IF d[x] = NoFile THEN 0 ELSE FileSize[d[x]]]

(* The bytes of files are naturals.                                        *)
LEMMA FileBytesType ==
    ASSUME NEW d \in Dir
    PROVE  FileBytes(d) \in [Files -> Nat]
  BY FindsAssumption DEF Dir, FileBytes

(* And so are those of a directory.                                        *)
LEMMA DirBytesType ==
    ASSUME NEW d \in Dir
    PROVE  SumFunction(FileBytes(d)) \in Nat
<1>1. IsFiniteSet(Files)
  BY FS_Interval, NumbersAssumption DEF Files
<1> QED  BY <1>1, FileBytesType, SumFacts

(* A directory that lost files has no more bytes.                          *)
LEMMA LostFiles ==
    ASSUME NEW d \in Dir, NEW e \in Dir, \A x \in Files : e[x] \in {d[x], NoFile}
    PROVE  SumFunction(FileBytes(e)) <= SumFunction(FileBytes(d))
<1>1. IsFiniteSet(Files)
  BY FS_Interval, NumbersAssumption DEF Files
<1>2. FileBytes(d) \in [Files -> Nat] /\ FileBytes(e) \in [Files -> Nat]
  BY FileBytesType
<1>3. \A x \in Files : FileBytes(e)[x] <= FileBytes(d)[x]
  <2> SUFFICES ASSUME NEW x \in Files
               PROVE  FileBytes(e)[x] <= FileBytes(d)[x]
    OBVIOUS
  <2>1. FileBytes(e)[x] = FileBytes(d)[x] \/ FileBytes(e)[x] = 0
    BY DEF FileBytes
  <2>2. FileBytes(e)[x] \in Nat /\ FileBytes(d)[x] \in Nat
    BY <1>2
  <2> QED  BY <2>1, <2>2
<1>4. Files \in SUBSET Files
  OBVIOUS
<1> QED  BY <1>1, <1>2, <1>3, <1>4, SumOfFewer

(* The sizes of the runs that exist.                                         *)
LEMMA RunBytesType ==
    ASSUME TypeOK
    PROVE  /\ RunBytes \in [PresentRuns -> Nat]
           /\ \A p \in PresentRuns : /\ dirs[p] \in Dir
                                     /\ RunBytes[p] = SumFunction(FileBytes(dirs[p]))
<1>1. \A p \in PresentRuns : dirs[p] \in Dir
  BY PlacesType DEF TypeOK, PresentRuns, Present
<1>2. \A p \in PresentRuns : DirBytes(p) = SumFunction(FileBytes(dirs[p]))
  BY DEF DirBytes, FileBytes
<1> QED  BY <1>1, <1>2, DirBytesType DEF RunBytes

(* Runs only lose files, but for the one that a `find` installs.             *)
RunsOnlyLose ==
    \A p \in RunPlaces : Present(p)' =>
        Present(p) /\ \A x \in Files : dirs'[p][x] \in {dirs[p][x], NoFile}

(* Every other step only takes files from runs.                            *)
LEMMA RunsOfStep ==
    ASSUME TypeOK, [Next]_vars, \A f \in Finds : ~ Install(f)
    PROVE  RunsOnlyLose
<1> USE PlacesType, ProcsAssumption DEF Procs
<1>0. ASSUME \A p \in RunPlaces : dirs'[p] = dirs[p]
      PROVE  RunsOnlyLose
  BY <1>0 DEF Present, RunsOnlyLose
<1>1. ASSUME NEW q \in Procs, Removal(q) \/ RemovalFails(q) PROVE RunsOnlyLose
  BY <1>1, RemovalsShrink DEF RunsOnlyLose
<1>2. ASSUME NEW f \in Finds, CreateRun(f) \/ WriteRun(f) PROVE RunsOnlyLose
  <2>1. \A p \in Places \ {TmpRun(f)} : dirs'[p] = dirs[p]
    BY <1>2 DEF CreateRun, WriteRun, TypeOK
  <2> QED  BY <1>0, <2>1, PlacesDisjoint
<1>4. ASSUME NEW f \in Finds,
             \/ Acquire(f) \/ Refused(f) \/ ListTemps(f) \/ NothingToRecover(f)
             \/ ListRunTemps(f) \/ RetainBefore(f) \/ RetainAfter(f) \/ Choose(f)
             \/ RunWritten(f) \/ RunRefused(f) \/ Linked(f) \/ LinkRefused(f)
             \/ Release(f) \/ ListTempsFails(f) \/ RecoverFails(f) \/ RetainFails(f)
             \/ RunFails(f) \/ StepFails(f) \/ Crash(f)
      PROVE  RunsOnlyLose
  <2>1. dirs' = dirs
    BY <1>4 DEF Acquire, Refused, ListTemps, NothingToRecover, ListRunTemps, RetainBefore,
       RetainAfter, Retain, Choose, RunWritten, RunRefused, DiscardRun, Linked,
       LinkRefused, GiveUp, Release, ListTempsFails, RecoverFails, RetainFails, RunFails,
       StepFails, Crash, fs
  <2> QED  BY <1>0, <2>1
<1>5. ASSUME NEW f \in Finds,
             \/ Recover(f) \/ CreateLatest(f) \/ Link(f) \/ MoveAside(f) \/ Swap(f)
             \/ SwapRefused(f) \/ SwapFails(f)
      PROVE  RunsOnlyLose
  <2>1. \A p \in Places \ ({Latest, TmpLatest(f)} \cup Backups) : dirs'[p] = dirs[p]
    <3>1. CASE Recover(f)
      BY <3>1 DEF Recover, TypeOK
    <3>2. CASE CreateLatest(f) \/ Link(f) \/ Swap(f)
      BY <3>2 DEF CreateLatest, Link, Swap, TypeOK
    <3>3. CASE MoveAside(f) \/ SwapRefused(f) \/ SwapFails(f)
      BY <3>3 DEF MoveAside, SwapRefused, SwapFails, Restore, TypeOK
    <3> QED  BY <1>5, <3>1, <3>2, <3>3
  <2> QED  BY <1>0, <2>1, PlacesDisjoint
<1>6. ASSUME NEW p \in Prunes, Plan(p) \/ PruneCrash(p) PROVE RunsOnlyLose
  BY <1>0, <1>6 DEF Plan, PruneCrash, fs
<1>7. ASSUME NEW i \in Inits, EnsureStateDirs(i) PROVE RunsOnlyLose
  BY <1>0, <1>7, PlacesDisjoint DEF EnsureStateDirs, TypeOK
<1>8. CASE UNCHANGED vars
  BY <1>0, <1>8 DEF vars
<1> QED
  BY <1>1, <1>2, <1>4, <1>5, <1>6, <1>7, <1>8
     DEF Next, FindStep, FindFault, PruneStep, PruneFault

(* Then those within the limits stay so.                                     *)
LEMMA LimitedStays ==
    ASSUME TypeOK, TypeOK', RunsOnlyLose
    PROVE  /\ PresentRuns' \subseteq PresentRuns
           /\ RunBytes \in [PresentRuns -> Nat] /\ RunBytes' \in [PresentRuns' -> Nat]
           /\ \A p \in PresentRuns' : RunBytes'[p] <= RunBytes[p]
<1>1. PresentRuns' \subseteq PresentRuns
  BY DEF PresentRuns, RunsOnlyLose
<1>2. /\ RunBytes \in [PresentRuns -> Nat]
      /\ \A p \in PresentRuns : /\ dirs[p] \in Dir
                                /\ RunBytes[p] = SumFunction(FileBytes(dirs[p]))
  BY RunBytesType
<1>3. /\ RunBytes' \in [PresentRuns' -> Nat]
      /\ \A p \in PresentRuns' : /\ dirs'[p] \in Dir
                                 /\ RunBytes'[p] = SumFunction(FileBytes(dirs'[p]))
  <2>1. \A p \in PresentRuns' : dirs'[p] \in Dir
    BY PlacesType DEF TypeOK, PresentRuns, Present
  <2>2. RunBytes' = [p \in PresentRuns' |-> SumFunction(FileBytes(dirs'[p]))]
    BY DEF RunBytes, DirBytes, FileBytes
  <2> QED  BY <2>1, <2>2, DirBytesType
<1>4. ASSUME NEW p \in PresentRuns' PROVE RunBytes'[p] <= RunBytes[p]
  <2>1. /\ dirs[p] \in Dir /\ dirs'[p] \in Dir
        /\ \A x \in Files : dirs'[p][x] \in {dirs[p][x], NoFile}
    BY <1>1, <1>2, <1>3 DEF PresentRuns, RunsOnlyLose
  <2>2. SumFunction(FileBytes(dirs'[p])) <= SumFunction(FileBytes(dirs[p]))
    BY <2>1, LostFiles
  <2> QED  BY <1>1, <1>2, <1>3, <2>2
<1> QED  BY <1>1, <1>2, <1>3, <1>4

(* The last retention leaves runs within the limits, for no hidden run is    *)
(* left that it would count.                                                 *)
LEMMA RetentionLimits ==
    ASSUME TypeOK, IsFiniteSet(PresentRuns), Left(TmpRuns) = {}
    PROVE  LimitedBy(PresentRuns \ FindRemoves(Entries(RunPlaces \cup TmpRuns), Keep, MaxBytes),
                     RunBytes)
<1> DEFINE places == RunPlaces \cup TmpRuns
           E == Entries(places)
           n == Cardinality(E)
           sorted == Descending(E)
           D == FindDrops(sorted, Keep, MaxBytes)
           K == PresentRuns \ FindRemoves(E, Keep, MaxBytes)
           Entry(p) == [place |-> p, key |-> KeyOf(p), bytes |-> DirBytes(p)]
<1>1. RunBytes \in [PresentRuns -> Nat] /\ \A p \in PresentRuns : RunBytes[p] = DirBytes(p)
  BY RunBytesType DEF RunBytes
<1>2. E = {Entry(p) : p \in PresentRuns}
  BY DEF Entries, PresentRuns, Left
<1>3. /\ \A p \in PresentRuns : Entry(p) \in E
      /\ \A e \in E : \E p \in PresentRuns : e = Entry(p)
  BY <1>2
<1>4. \A e \in E : e.place \in PresentRuns /\ e.bytes = RunBytes[e.place] /\ e.key \in Seq(Nat)
  <2> SUFFICES ASSUME NEW e \in E
               PROVE  e.place \in PresentRuns /\ e.bytes = RunBytes[e.place] /\ e.key \in Seq(Nat)
    OBVIOUS
  <2>1. PICK p \in PresentRuns : e = Entry(p)
    BY <1>2
  <2>2. p \in RunPlaces
    BY DEF PresentRuns
  <2>3. e.place = p /\ e.bytes = DirBytes(p) /\ e.key = KeyOf(p)
    BY <2>1
  <2> QED  BY <1>1, <2>2, <2>3, KeyType
<1>5. IsFiniteSet(E)
  <2> DEFINE f == [p \in PresentRuns |-> Entry(p)]
  <2>1. f \in Surjection(PresentRuns, E)
    <3> HIDE DEF E
    <3> QED  BY <1>3 DEF Surjection
  <2> HIDE DEF f, E
  <2> QED  BY <2>1, FS_Surjection DEF ExistsSurjection
<1>6. n \in Nat
  BY <1>5, FS_CardinalityType
<1>7. Listing(sorted, E)
  <2> HIDE DEF E
  <2> QED  BY <1>4, <1>5, DescendingLists
<1>8. sorted \in [1 .. n -> E] /\ \A e \in E : \E i \in 1 .. n : sorted[i] = e
  <2> HIDE DEF E, sorted
  <2> QED  BY <1>7 DEF Listing
<1>9. K \subseteq {sorted[i].place : i \in (1 .. n) \ D}
  <2> SUFFICES ASSUME NEW p \in PresentRuns, p \notin FindRemoves(E, Keep, MaxBytes)
               PROVE  \E i \in (1 .. n) \ D : sorted[i].place = p
    OBVIOUS
  <2>1. Entry(p) \in E /\ Entry(p).place = p
    BY <1>3
  <2>2. PICK i \in 1 .. n : sorted[i] = Entry(p)
    BY <1>8, <2>1
  <2>3. i \notin D
    <3> SUFFICES ASSUME i \in D PROVE FALSE
      OBVIOUS
    <3>1. p \in PlacesAt(E, sorted, D)
      <4> HIDE DEF E, sorted, D, Entry
      <4>1. Entry(p) \in {d \in E : \E j \in D : sorted[j] = d}
        BY <2>1, <2>2
      <4> QED  BY <2>1, <4>1 DEF PlacesAt
    <3>2. FindRemoves(E, Keep, MaxBytes) = PlacesAt(E, sorted, D)
      <4> HIDE DEF E
      <4> QED  BY DEF FindRemoves
    <3> QED  BY <3>1, <3>2
  <2> HIDE DEF D, sorted
  <2> QED  BY <2>1, <2>2, <2>3
<1> HIDE DEF E, n, sorted, K
<1>10. Sized(E, PresentRuns, RunBytes)
  BY <1>4 DEF Sized
<1>11. K \subseteq Spared(sorted, n, Keep, MaxBytes)
  BY <1>9 DEF Spared
<1>12. Keep \in Nat /\ MaxBytes \in Nat
  BY NumbersAssumption
<1>13. Bounded(K, RunBytes, Keep, MaxBytes)
  BY <1>1, <1>6, <1>8, <1>10, <1>11, <1>12, RetainedIsBounded
<1> QED  BY <1>13 DEF LimitedBy, K, E

(* Where a `find` comes to its last steps from.                              *)
LEMMA LimitStepOwn ==
    ASSUME TypeOK, NEW f \in Finds, InScope(f), FindStep(f) \/ FindFault(f)
    PROVE  /\ pc'[f] = "release" => pc[f] = "removeAfter" /\ todo[f] = {} /\ cur[f] = NoPlace
                                    /\ UNCHANGED dirs
           /\ pc'[f] = "removeAfter" =>
                 \/ /\ pc[f] = "retainAfter" /\ cur'[f] = NoPlace /\ UNCHANGED dirs
                    /\ todo'[f] = FindRemoves(Entries(RunPlaces \cup TmpRuns), Keep, MaxBytes)
                 \/ /\ pc[f] = "removeAfter"
                    /\ \A p \in RunPlaces : Present(p)' =>
                          (p \in todo[f] \cup {cur[f]} => p \in todo'[f] \cup {cur'[f]})
  <1> USE ProcsAssumption
      DEF TypeOK, GoTo, At, NoRemoval, fs, Procs, InScope, AfterRemoval, AfterFailedRemoval,
          CleanupSteps, WriteSteps, LatestSteps, AfterSteps,
      FailureSteps, Holding, Final
  <1>1. CASE BeginRemoval(f)
    <2>1. PICK d \in todo[f] :
              cur' = [cur EXCEPT ![f] = d] /\ todo' = [todo EXCEPT ![f] = todo[f] \ {d}]
      BY <1>1 DEF BeginRemoval, NextRemovals
    <2>2. UNCHANGED <<dirs, pc>> /\ cur[f] = NoPlace
      BY <1>1 DEF BeginRemoval
    <2>3. todo'[f] \cup {cur'[f]} = todo[f]
      BY <2>1
    <2>4. NoPlace \notin RunPlaces
      BY PlacesDisjoint, PlacesType
    <2> QED  BY <2>2, <2>3, <2>4
  <1>2. CASE RemoveFile(f)
    BY <1>2 DEF RemoveFile
  <1>3. CASE RemoveDirectory(f)
    BY <1>3 DEF RemoveDirectory, Present
  <1>4. CASE RemovalsDone(f)
    BY <1>4 DEF RemovalsDone
  <1>5. CASE RemovalFindsNothing(f)
    BY <1>5 DEF RemovalFindsNothing, DropRemoval, NextRemovals
  <1>6. CASE RemovalFails(f)
    BY <1>6 DEF RemovalFails, DropRemoval, NextRemovals
  <1>7. CASE Acquire(f)
    BY <1>7 DEF Acquire
  <1>8. CASE Refused(f)
    BY <1>8 DEF Refused
  <1>9. CASE ListTemps(f)
    BY <1>9 DEF ListTemps
  <1>10. CASE Recover(f)
    BY <1>10 DEF Recover, RemoveOtherBackups
  <1>11. CASE NothingToRecover(f)
    BY <1>11 DEF NothingToRecover, RemoveOtherBackups
  <1>12. CASE ListRunTemps(f)
    BY <1>12 DEF ListRunTemps
  <1>13. CASE RetainBefore(f)
    BY <1>13 DEF RetainBefore, Retain
  <1>14. CASE RetainAfter(f)
    BY <1>14 DEF RetainAfter, Retain
  <1>15. CASE Choose(f)
    BY <1>15 DEF Choose
  <1>16. CASE CreateRun(f)
    BY <1>16 DEF CreateRun
  <1>17. CASE WriteRun(f)
    BY <1>17 DEF WriteRun
  <1>18. CASE RunWritten(f)
    BY <1>18 DEF RunWritten
  <1>19. CASE Install(f)
    BY <1>19 DEF Install
  <1>20. CASE RunRefused(f)
    BY <1>20 DEF RunRefused, DiscardRun
  <1>21. CASE CreateLatest(f)
    BY <1>21 DEF CreateLatest
  <1>22. CASE Link(f)
    BY <1>22 DEF Link
  <1>23. CASE Linked(f)
    BY <1>23 DEF Linked
  <1>24. CASE LinkRefused(f)
    BY <1>24 DEF LinkRefused, GiveUp
  <1>25. CASE MoveAside(f)
    BY <1>25 DEF MoveAside
  <1>26. CASE Swap(f)
    BY <1>26 DEF Swap
  <1>27. CASE SwapRefused(f)
    BY <1>27 DEF SwapRefused, Restore
  <1>28. CASE Release(f)
    BY <1>28 DEF Release
  <1>29. CASE ListTempsFails(f)
    BY <1>29 DEF ListTempsFails
  <1>30. CASE RecoverFails(f)
    BY <1>30 DEF RecoverFails, RemoveOtherBackups
  <1>31. CASE RetainFails(f)
    BY <1>31 DEF RetainFails
  <1>32. CASE RunFails(f)
    BY <1>32 DEF RunFails, DiscardRun
  <1>33. CASE StepFails(f)
    BY <1>33 DEF StepFails, GiveUp
  <1>34. CASE SwapFails(f)
    BY <1>34 DEF SwapFails, Restore
  <1>35. CASE Crash(f)
    BY <1>35 DEF Crash
  <1> QED
    BY <1>1, <1>2, <1>3, <1>4, <1>5, <1>6, <1>7, <1>8, <1>9, <1>10, <1>11,
       <1>12, <1>13, <1>14, <1>15, <1>16, <1>17, <1>18, <1>19, <1>20, <1>21,
       <1>22, <1>23, <1>24, <1>25, <1>26, <1>27, <1>28, <1>29, <1>30, <1>31,
       <1>32, <1>33, <1>34, <1>35
       DEF FindStep, FindFault, Removal

(* Runs within the limits are so after a step that adds nothing to a run.    *)
LEMMA LimitedLoses ==
    ASSUME TypeOK, TypeOK', RunsOnlyLose, NEW P, P \subseteq PresentRuns, LimitedBy(P, RunBytes),
           NEW Q, Q \subseteq P, Q \subseteq PresentRuns'
    PROVE  LimitedBy(Q, RunBytes')
<1>1. /\ RunBytes \in [PresentRuns -> Nat] /\ RunBytes' \in [PresentRuns' -> Nat]
      /\ \A p \in Q : RunBytes'[p] <= RunBytes[p]
  BY LimitedStays
<1> DEFINE size == RunBytes
           size2 == RunBytes'
           All == PresentRuns
           Left2 == PresentRuns'
<1>2. /\ size \in [All -> Nat] /\ size2 \in [Left2 -> Nat] /\ \A p \in Q : size2[p] <= size[p]
      /\ P \in SUBSET All /\ Q \in SUBSET Left2 /\ LimitedBy(P, size)
  BY <1>1
<1> HIDE DEF size, size2, All, Left2
<1>3. LimitedBy(Q, size2)
  BY <1>2, FewerAreLimited
<1> QED  BY <1>3 DEF size2

(* A `find` that installs nothing keeps what it knows of the limits.         *)
LEMMA LimitPhaseStep ==
    ASSUME TypeOK, TypeOK', NEW f \in Finds, InScope(f), TempsPhase(f), LimitInv,
           FindStep(f) \/ FindFault(f), RunsOnlyLose
    PROVE  LimitPhase(f)'
<1>1. LimitPhase(f) /\ IsFiniteSet(PresentRuns) /\ PresentRuns' \subseteq PresentRuns
  BY LimitedStays DEF LimitInv
<1>2. ASSUME pc'[f] = "release" PROVE LimitedBy(PresentRuns', RunBytes')
  <2>1. pc[f] = "removeAfter" /\ todo[f] = {} /\ cur[f] = NoPlace
    BY <1>2, LimitStepOwn
  <2>2. NoPlace \notin PresentRuns
    BY PlacesDisjoint, PlacesType DEF PresentRuns
  <2>3. PresentRuns \ (todo[f] \cup {cur[f]}) = PresentRuns
    BY <2>1, <2>2
  <2>4. LimitedBy(PresentRuns, RunBytes)
    BY <1>1, <2>1, <2>3 DEF LimitPhase, At
  <2> QED  BY <1>1, <2>4, LimitedLoses
<1>3. ASSUME pc'[f] = "removeAfter"
      PROVE  LimitedBy(PresentRuns' \ (todo'[f] \cup {cur'[f]}), RunBytes')
  <2> DEFINE Q == PresentRuns' \ (todo'[f] \cup {cur'[f]})
  <2>1. CASE /\ pc[f] = "retainAfter" /\ cur'[f] = NoPlace /\ UNCHANGED dirs
             /\ todo'[f] = FindRemoves(Entries(RunPlaces \cup TmpRuns), Keep, MaxBytes)
    <3> DEFINE P == PresentRuns \ FindRemoves(Entries(RunPlaces \cup TmpRuns), Keep, MaxBytes)
    <3>1. Left(TmpRuns) = {}
      BY <2>1 DEF TempsPhase, NoTmpRunSteps
    <3>2. LimitedBy(P, RunBytes)
      BY <1>1, <3>1, RetentionLimits
    <3>3. P \subseteq PresentRuns /\ Q \subseteq P /\ Q \subseteq PresentRuns'
      BY <1>1, <2>1
    <3> HIDE DEF P, Q
    <3>4. LimitedBy(Q, RunBytes')
      BY <3>2, <3>3, LimitedLoses
    <3> QED  BY <3>4 DEF Q
  <2>2. CASE /\ pc[f] = "removeAfter"
             /\ \A p \in RunPlaces : Present(p)' =>
                   (p \in todo[f] \cup {cur[f]} => p \in todo'[f] \cup {cur'[f]})
    <3> DEFINE P == PresentRuns \ (todo[f] \cup {cur[f]})
    <3>1. LimitedBy(P, RunBytes)
      BY <1>1, <2>2 DEF LimitPhase, At
    <3>2. P \subseteq PresentRuns /\ Q \subseteq P /\ Q \subseteq PresentRuns'
      BY <1>1, <2>2 DEF PresentRuns
    <3> HIDE DEF P, Q
    <3>3. LimitedBy(Q, RunBytes')
      BY <3>1, <3>2, LimitedLoses
    <3> QED  BY <3>3 DEF Q
  <2> QED  BY <1>3, <2>1, <2>2, LimitStepOwn
<1> QED  BY <1>2, <1>3 DEF LimitPhase, At

(* A process that takes no step keeps it too.                                *)
LEMMA LimitPhaseStays ==
    ASSUME TypeOK, TypeOK', NEW f \in Finds, LimitInv, RunsOnlyLose,
           pc'[f] = pc[f], todo'[f] = todo[f], cur'[f] = cur[f]
    PROVE  LimitPhase(f)'
<1>1. LimitPhase(f) /\ PresentRuns' \subseteq PresentRuns
  BY LimitedStays DEF LimitInv
<1>2. ASSUME pc'[f] = "release" PROVE LimitedBy(PresentRuns', RunBytes')
  <2>1. LimitedBy(PresentRuns, RunBytes)
    BY <1>1, <1>2 DEF LimitPhase, At
  <2> QED  BY <1>1, <2>1, LimitedLoses
<1>3. ASSUME pc'[f] = "removeAfter"
      PROVE  LimitedBy(PresentRuns' \ (todo'[f] \cup {cur'[f]}), RunBytes')
  <2> DEFINE P == PresentRuns \ (todo[f] \cup {cur[f]})
             Q == PresentRuns' \ (todo'[f] \cup {cur'[f]})
  <2>1. LimitedBy(P, RunBytes)
    BY <1>1, <1>3 DEF LimitPhase, At
  <2>2. P \subseteq PresentRuns /\ Q \subseteq P /\ Q \subseteq PresentRuns'
    BY <1>1
  <2> HIDE DEF P, Q
  <2>3. LimitedBy(Q, RunBytes')
    BY <2>1, <2>2, LimitedLoses
  <2> QED  BY <2>3 DEF Q
<1> QED  BY <1>2, <1>3 DEF LimitPhase, At

(* Every step keeps what the finds know of the limits: the one that installs *)
(* a run holds the lock, so no other one is at its last steps, and all the   *)
(* other steps add nothing to a run.                                         *)
LEMMA LimitStep ==
    ASSUME Orderly, IInv, TempsInv, LimitInv, [Next]_vars
    PROVE  LimitInv'
<1>1. /\ TypeOK /\ Mutex /\ TypeOK'
      /\ \A p \in Procs : InScope(p)
      /\ \A g \in Finds : TempsPhase(g)
      /\ Finds \subseteq Procs /\ Prunes \subseteq Procs /\ Finds \cap Prunes = {}
  BY TypeOKStep, ProcsAssumption DEF IInv, TempsInv, Procs
<1>2. CASE \E f \in Finds : Install(f)
  <2>1. PICK f \in Finds : Install(f)
    BY <1>2
  <2>2. Run(target[f]) \in RunPlaces
    BY <1>1, <2>1, PlacesType DEF TypeOK, Install, At
  <2>3. /\ pc[f] = "install" /\ pc'[f] = "createLatest"
        /\ \A p \in Places \ {TmpRun(f), Run(target[f])} : dirs'[p] = dirs[p]
    BY <1>1, <2>1, <2>2, PlacesType DEF Install, TypeOK, At, GoTo
  <2>4. PresentRuns' \subseteq PresentRuns \cup {Run(target[f])}
    BY <2>3, PlacesType, PlacesDisjoint DEF PresentRuns, Present
  <2>5. IsFiniteSet(PresentRuns')
    <3> DEFINE more == PresentRuns \cup {Run(target[f])}
    <3>1. IsFiniteSet(PresentRuns)
      BY DEF LimitInv
    <3>2. IsFiniteSet(more)
      BY <3>1, FS_AddElement
    <3> HIDE DEF more
    <3> QED  BY <2>4, <3>2, FS_Subset DEF more
  <2>6. ASSUME NEW g \in Finds PROVE pc'[g] \notin {"removeAfter", "release"}
    <3>1. CASE g = f
      BY <2>3, <3>1
    <3>2. CASE g # f
      <4>1. FindStep(f)
        BY <2>1 DEF FindStep
      <4>2. pc'[g] = pc[g]
        BY <1>1, <3>2, <4>1, OthersStay
      <4>3. pc[g] \notin Holding
        BY <1>1, <2>3, <3>2 DEF Mutex, Orderly, Holding, WriteSteps
      <4> QED  BY <4>2, <4>3 DEF Holding, AfterSteps
    <3> QED  BY <3>1, <3>2
  <2> QED  BY <2>5, <2>6 DEF LimitInv, LimitPhase, At
<1>3. CASE \A f \in Finds : ~ Install(f)
  <2>1. RunsOnlyLose
    BY <1>1, <1>3, RunsOfStep
  <2>2. IsFiniteSet(PresentRuns')
    BY <1>1, <2>1, LimitedStays, FS_Subset DEF LimitInv
  <2>3. ASSUME NEW g \in Finds PROVE LimitPhase(g)'
    <3>1. CASE FindStep(g) \/ FindFault(g)
      BY <1>1, <2>1, <3>1, LimitPhaseStep
    <3>2. CASE pc'[g] = pc[g] /\ todo'[g] = todo[g] /\ cur'[g] = cur[g]
      BY <1>1, <2>1, <3>2, LimitPhaseStays
    <3>3. ASSUME NEW f \in Finds \ {g}, FindStep(f) \/ FindFault(f) PROVE LimitPhase(g)'
      BY <1>1, <3>2, <3>3, OthersStay
    <3>4. ASSUME NEW p \in Prunes, PruneStep(p) \/ PruneFault(p) PROVE LimitPhase(g)'
      BY <1>1, <3>2, <3>4, PruneStepLeaves
    <3>5. CASE UNCHANGED vars
      BY <3>2, <3>5 DEF vars
    <3> QED  BY <3>1, <3>3, <3>4, <3>5 DEF Next, Orderly
  <2> QED  BY <2>2, <2>3 DEF LimitInv
<1> QED  BY <1>2, <1>3

(* SuccessLeavesBoundedRuns of every orderly instance, whatever the limits,  *)
(* the sizes of the reports, the names that sort alike and what `prune` does *)
(* meanwhile: the last retention finds no hidden directory that would count  *)
(* as a run, and only the holder of the lock adds a run.                     *)
THEOREM SuccessIsBounded == ASSUME Orderly PROVE Spec => []SuccessLeavesBoundedRuns
<1>1. Init => TempsInv /\ LimitInv
  <2>1. Init => TempsInv
    BY DEF Init, TempsInv, TempsPhase, InstalledPhase, Procs, NoTmpLatestSteps,
       NoTmpRunSteps, WriteSteps, LatestSteps
  <2>2. ASSUME Init PROVE LimitInv
    <3>1. PresentRuns = {}
      BY <2>2, PlacesType DEF Init, PresentRuns, Present
    <3>2. IsFiniteSet(PresentRuns)
      BY <3>1, FS_EmptySet
    <3> QED  BY <2>2, <3>2 DEF Init, LimitInv, LimitPhase, At, Procs
  <2> QED  BY <2>1, <2>2
<1>2. IInv /\ TempsInv /\ [Next]_vars => TempsInv'
  BY TempsStep
<1>3. IInv /\ TempsInv /\ LimitInv /\ [Next]_vars => LimitInv'
  BY LimitStep
<1>4. ASSUME LimitInv PROVE SuccessLeavesBoundedRuns
  <2>1. [p \in PresentRuns |-> RunBytes[p]] = [p \in PresentRuns |-> DirBytes(p)]
    BY DEF RunBytes
  <2> SUFFICES ASSUME NEW f \in Finds, At(f, "release")
               PROVE  /\ Cardinality(PresentRuns) <= Keep
                      /\ \/ Cardinality(PresentRuns) <= 1
                         \/ SumFunction([p \in PresentRuns |-> DirBytes(p)]) <= MaxBytes
    BY DEF SuccessLeavesBoundedRuns
  <2>2. LimitedBy(PresentRuns, RunBytes)
    BY <1>4 DEF LimitInv, LimitPhase
  <2> QED  BY <2>1, <2>2 DEF LimitedBy, Bounded
<1> QED
  BY Inductive, <1>1, <1>2, <1>3, <1>4, PTL DEF Spec
==============================================================================
