------------------------------ MODULE XtaskProofs ------------------------------
(***************************************************************************)
(* Proofs about the maintenance commands of xtask and the workflows around *)
(* them: for any number of writers, crashes and concurrent attempts, the   *)
(* pair of files of a benchmark result is never split (BenchmarkPair); and *)
(* for any history of main, any number of runs, re-runs and steps of       *)
(* people, what is released of a version is of one build and one commit    *)
(* (ReleasePublication); and whatever runs share the directories of the    *)
(* benchmark and whatever people edit in them, what its decision rests on  *)
(* is complete and reviewed (BenchmarkRun).                                *)
(***************************************************************************)
EXTENDS MCXtask, TLAPS

--------------------------------------------------------------------------------
(***************************************************************************)
(* The inductive invariant.                                                *)
(***************************************************************************)

(* Nobody else runs while a writer does.                                   *)
OneAtATime ==
    ~ overlapped => \A v, w \in Writers : pc[v] \in Running /\ pc[w] \in Running => v = w

(* What one writer has written is in both files or in neither.             *)
Whole(f) == \A w \in Writers : f["results"] = w <=> f["decision"] = w

Gone(o) == \A m \in Members : ~ tmp[o][m]
Cleared(o) == \A m \in Members : backup[o][m] = Absent

(* A writer that has not yet recorded a transaction has put nothing in     *)
(* place, and one that has succeeded has no journal.                       *)
BeforeRecord == {"idle", "check", "write", "record"}

Fresh(w) ==
    \/ pc[w] \in BeforeRecord
    \/ pc[w] \in RecoverySteps /\ recovering[w] = "first"

Unseen(w) ==
    /\ latest # w
    /\ Cleared(w)
    /\ \A m \in Members : dest[m] # w /\ \A u \in Writers : backup[u][m] # w

FreshInv ==
    \A w \in Writers :
        /\ pc[w] \in BeforeRecord => recovering[w] = "first"
        /\ Fresh(w) => Unseen(w)
        /\ At(w, "written") /\ journal # Absent => journal.owner # w

(* What the journal and its transaction have made of the originals O.  A   *)
(* mixture of old and new is never taken for complete, because a temporary *)
(* of the new is still there.                                              *)
Carried(O) ==
    LET o == journal.owner
    IN  /\ latest = o
        /\ Whole(O)
        /\ Gone(o) => (\A m \in Members : dest[m] # o) \/ (\A m \in Members : dest[m] = o)
        /\ \A m \in Members :
              /\ journal.had[m] <=> O[m] # Absent
              /\ O[m] # o
              /\ o \notin Replace => O[m] = Absent
              /\ dest[m] \in {Absent, O[m], o}
              /\ backup[o][m] \in {Absent, O[m]}

(* What a recovery knows: it restores only what is not complete, and comes *)
(* to the end only with everything restored or complete.                   *)
Restoring(w, O) ==
    LET o == journal.owner
    IN  /\ pc[w] \in {"unlink", "putBack"} =>
              /\ Gone(o) => \A m \in Members : dest[m] # o
              /\ member[w] = "decision" /\ ~ broken[w] =>
                     dest["results"] = O["results"] /\ backup[o]["results"] = Absent
        /\ At(w, "putBack") => dest[member[w]] = Absent
        /\ At(w, "dropTmp") =>
              /\ \A m \in Members : dest[m] = O[m]
              /\ Cleared(o)
              /\ member[w] = "decision" => ~ tmp[o]["results"]
        /\ At(w, "dropBackup") =>
              /\ Gone(o) /\ Whole(dest)
              /\ member[w] = "decision" => backup[o]["results"] = Absent
        /\ At(w, "unjournal") => Gone(o) /\ Cleared(o) /\ Whole(dest)

(* How far a writer has come that must not replace.                        *)
Linking(w) ==
    /\ At(w, "link") =>
         /\ dest["decision"] = Absent
         /\ dest["results"] = IF member[w] = "results" THEN Absent ELSE w
         /\ \A m \in Members : tmp[w][m]
    /\ At(w, "unlinkTmp") =>
         /\ \A m \in Members : dest[m] = w
         /\ tmp[w]["decision"]
         /\ tmp[w]["results"] <=> member[w] = "results"
    /\ pc[w] \in {"link", "unlinkTmp"} => w \notin Replace /\ Cleared(w)

(* How far one has come that may.                                          *)
Replacing(w, O) ==
    /\ At(w, "moveAside") =>
         /\ \A m \in Members : tmp[w][m]
         /\ dest["decision"] = O["decision"] /\ backup[w]["decision"] = Absent
         /\ member[w] = "results" => dest["results"] = O["results"] /\ Cleared(w)
         /\ member[w] = "decision" =>
                dest["results"] = Absent /\ backup[w]["results"] = O["results"]
    /\ At(w, "rename") =>
         /\ \A m \in Members : backup[w][m] = O[m]
         /\ dest["decision"] = Absent
         /\ dest["results"] = IF member[w] = "results" THEN Absent ELSE w
         /\ tmp[w]["decision"]
         /\ tmp[w]["results"] <=> member[w] = "results"
    /\ pc[w] \in {"moveAside", "rename"} => w \in Replace
    /\ pc[w] \in {"removeBackup", "commit"} =>
         /\ Gone(w)
         /\ \A m \in Members : dest[m] = w
    /\ At(w, "removeBackup") /\ member[w] = "decision" => backup[w]["results"] = Absent
    /\ At(w, "commit") => Cleared(w)

(* A writer that runs while there is a journal.                            *)
Phase(w, O) ==
    /\ pc[w] \notin BeforeRecord
    /\ ~ At(w, "recover") => txn[w] = journal
    /\ pc[w] \in InstallSteps => journal.owner = w
    /\ Restoring(w, O) /\ Linking(w) /\ Replacing(w, O)

(* One that runs while there is none.                                      *)
Preparing(w) ==
    /\ pc[w] \in {"recover", "check", "write", "record"}
    /\ pc[w] \in {"write", "record"} => w \in Replace \/ \A m \in Members : dest[m] = Absent
    /\ At(w, "write") /\ member[w] = "decision" => tmp[w]["results"]
    /\ At(w, "record") => \A m \in Members : tmp[w][m]

Resting ==
    /\ Whole(dest)
    /\ latest # Absent => Gone(latest) /\ Cleared(latest)

Settled ==
    journal = Absent =>
        Resting /\ \A w \in Writers : pc[w] \in Running => Preparing(w)

Originals == [Members -> Contents \cup {Absent}]

Underway ==
    journal # Absent =>
        \E O \in Originals :
            Carried(O) /\ \A w \in Writers : pc[w] \in Running => Phase(w, O)

PairInv == ~ overlapped => Settled /\ Underway

TransactionInv == TypeOK /\ OneAtATime /\ FreshInv /\ PairInv

(* At the beginning there is no journal and nobody has written anything.   *)
LEMMA TransactionInvInit == PairInit => TransactionInv
  <1> SUFFICES ASSUME PairInit PROVE TransactionInv
    OBVIOUS
  <1> USE PairAssumption DEF PairInit, Contents
  <1>1. TypeOK
    <2>1. /\ dest \in [Members -> Contents \cup {Absent}]
          /\ tmp \in [Writers -> [Members -> BOOLEAN]]
          /\ backup \in [Writers -> [Members -> Contents \cup {Absent}]]
      OBVIOUS
    <2>2. /\ pc \in [Writers -> {"idle"} \cup Running \cup Final]
          /\ member \in [Writers -> Members] /\ txn \in [Writers -> Transactions \cup {Absent}]
          /\ broken \in [Writers -> BOOLEAN] /\ recovering \in [Writers -> {"first", "rollback"}]
      BY DEF Members
    <2>3. \A w \in Writers : pc[w] \notin InstallSteps \cup (RecoverySteps \ {"recover"})
      BY DEF RecoverySteps, InstallSteps
    <2>4. journal = Absent /\ latest = Absent /\ overlapped \in BOOLEAN
      OBVIOUS
    <2>5. faults \in 0 .. MaxFaults
      OBVIOUS
    <2> QED
      BY <2>1, <2>2, <2>3, <2>4, <2>5 DEF TypeOK
  <1>2. \A w \in Writers : pc[w] = "idle" /\ pc[w] \notin Running
    BY DEF Running, RecoverySteps, InstallSteps
  <1>3. OneAtATime
    BY <1>2 DEF OneAtATime
  <1>4. FreshInv
    BY <1>2 DEF FreshInv, Fresh, Unseen, Cleared, BeforeRecord, At
  <1>5. Whole(dest)
    BY DEF Whole, Members
  <1>6. PairInv
    BY <1>2, <1>5 DEF PairInv, Settled, Underway, Resting
  <1> QED
    BY <1>1, <1>3, <1>4, <1>6 DEF TransactionInv

(***************************************************************************)
(* What every step keeps.                                                  *)
(***************************************************************************)

Taken(w) == Begin(w) \/ Recovery(w) \/ Replacement(w) \/ Failure(w)

(* A step of one writer leaves the place of the others alone.              *)
LEMMA OthersKeep ==
    ASSUME TypeOK, NEW w \in Writers, Taken(w), NEW v \in Writers, v # w
    PROVE  /\ pc'[v] = pc[v] /\ member'[v] = member[v] /\ txn'[v] = txn[v]
           /\ broken'[v] = broken[v] /\ recovering'[v] = recovering[v]
  <1> USE DEF TypeOK, GoTo, Then, Locals, History, files, Rollback, Recovered, Restored,
              AfterRestore, Abandon
  <1> DEFINE Kept == /\ pc'[v] = pc[v] /\ member'[v] = member[v] /\ txn'[v] = txn[v]
                     /\ broken'[v] = broken[v] /\ recovering'[v] = recovering[v]
  <1>1. ASSUME Begin(w) \/ NoJournal(w) \/ ReadJournal(w) \/ DropBackup(w) \/ Unlink(w)
        PROVE  Kept
    BY <1>1 DEF Begin, NoJournal, ReadJournal, DropBackup, Unlink
  <1>2. ASSUME PutBack(w) \/ PutBackRefused(w) \/ DropTmp(w) \/ Unjournal(w)
        PROVE  Kept
    BY <1>2 DEF PutBack, PutBackRefused, DropTmp, Unjournal
  <1>3. ASSUME Check(w) \/ WriteTmp(w) \/ Record(w) \/ RecordRefused(w)
        PROVE  Kept
    BY <1>3 DEF Check, WriteTmp, Record, RecordRefused
  <1>4. ASSUME Link(w) \/ UnlinkTmp(w) \/ MoveAside(w) \/ Rename(w)
        PROVE  Kept
    BY <1>4 DEF Link, UnlinkTmp, MoveAside, Rename
  <1>5. ASSUME RemoveBackup(w) \/ Commit(w) \/ InstallRefused(w)
        PROVE  Kept
    BY <1>5 DEF RemoveBackup, Commit, InstallRefused
  <1>6. ASSUME InstallFails(w) \/ CommitSyncFails(w) \/ WriteFails(w) \/ RecordSyncFails(w)
        PROVE  Kept
    BY <1>6 DEF InstallFails, CommitSyncFails, WriteFails, RecordSyncFails
  <1>7. ASSUME RecoveryFails(w) \/ RestoreFails(w) \/ PairCrash(w)
        PROVE  Kept
    BY <1>7 DEF RecoveryFails, RestoreFails, PairCrash
  <1> QED
    BY <1>1, <1>2, <1>3, <1>4, <1>5, <1>6, <1>7 DEF Taken, Recovery, Replacement, Failure

(* Only the beginning of a writer can make an overlap.                     *)
LEMMA Runs ==
    ASSUME TypeOK, NEW w \in Writers, Taken(w), ~ Begin(w)
    PROVE  pc[w] \in Running /\ overlapped' = overlapped
  <1> USE DEF At, Locals, History, Running, RecoverySteps, InstallSteps, Abandon
  <1>1. CASE NoJournal(w) \/ ReadJournal(w) \/ DropBackup(w) \/ Unlink(w)
    BY <1>1 DEF NoJournal, ReadJournal, DropBackup, Unlink
  <1>2. CASE PutBack(w) \/ PutBackRefused(w) \/ DropTmp(w) \/ Unjournal(w)
    BY <1>2 DEF PutBack, PutBackRefused, DropTmp, Unjournal
  <1>3. CASE Check(w) \/ WriteTmp(w) \/ Record(w) \/ RecordRefused(w)
    BY <1>3 DEF Check, WriteTmp, Record, RecordRefused
  <1>4. CASE Link(w) \/ UnlinkTmp(w) \/ MoveAside(w) \/ Rename(w)
    BY <1>4 DEF Link, UnlinkTmp, MoveAside, Rename
  <1>5. CASE RemoveBackup(w) \/ Commit(w) \/ InstallRefused(w)
    BY <1>5 DEF RemoveBackup, Commit, InstallRefused, Interfered
  <1>6. CASE InstallFails(w) \/ CommitSyncFails(w) \/ WriteFails(w) \/ RecordSyncFails(w)
    BY <1>6 DEF InstallFails, CommitSyncFails, WriteFails, RecordSyncFails
  <1>7. CASE RecoveryFails(w) \/ RestoreFails(w) \/ PairCrash(w)
    BY <1>7 DEF RecoveryFails, RestoreFails, PairCrash
  <1> QED
    BY <1>1, <1>2, <1>3, <1>4, <1>5, <1>6, <1>7 DEF Taken, Recovery, Replacement, Failure

(* A writer that takes a step is the only one that may run after it.       *)
LEMMA Alone ==
    ASSUME TypeOK, OneAtATime, NEW w \in Writers, Taken(w)
    PROVE  /\ OneAtATime'
           /\ ~ overlapped' =>
                  ~ overlapped /\ \A v \in Writers \ {w} : pc'[v] = pc[v] /\ pc'[v] \notin Running
  <1>0. \A v \in Writers \ {w} : pc'[v] = pc[v]
    BY OthersKeep
  <1>1. CASE Begin(w)
    <2>1. CASE \E v \in Writers : pc[v] \in Running
      <3>1. overlapped' = TRUE
        BY <1>1, <2>1 DEF Begin
      <3> QED
        BY <3>1 DEF OneAtATime
    <2>2. CASE ~ \E v \in Writers : pc[v] \in Running
      <3>1. overlapped' = overlapped
        BY <1>1, <2>2 DEF Begin
      <3> QED
        BY <1>0, <2>2, <3>1 DEF OneAtATime
    <2> QED
      BY <2>1, <2>2
  <1>2. CASE ~ Begin(w)
    <2>1. pc[w] \in Running /\ overlapped' = overlapped
      BY <1>2, Runs
    <2>2. ~ overlapped => \A v \in Writers \ {w} : pc[v] \notin Running
      BY <2>1 DEF OneAtATime
    <2> QED
      BY <1>0, <2>1, <2>2 DEF OneAtATime
  <1> QED
    BY <1>1, <1>2

(* Every step keeps the types: one case for each action.                   *)
LEMMA TypeOKStep ==
    ASSUME TypeOK, NEW w \in Writers, Taken(w)
    PROVE  TypeOK'
  <1> USE PairAssumption
      DEF TypeOK, GoTo, Then, At, Locals, History, files, Rollback, Recovered, Restored,
          AfterRestore, Abandon, Fault, Running, RecoverySteps, InstallSteps, Final, Members
  <1>1. CASE Begin(w)
    <2>1. overlapped' \in BOOLEAN /\ faults' \in 0 .. MaxFaults
      <3>1. CASE \E v \in Writers : pc[v] \in Running
        <4>1. overlapped' = TRUE /\ Fault
          BY <1>1, <3>1 DEF Begin
        <4> QED
          BY <4>1
      <3>2. CASE ~ \E v \in Writers : pc[v] \in Running
        <4>1. overlapped' = overlapped /\ faults' = faults
          BY <1>1, <3>2 DEF Begin
        <4> QED
          BY <4>1
      <3> QED
        BY <3>1, <3>2
    <2>2. /\ pc' = [pc EXCEPT ![w] = "recover"] /\ member' = [member EXCEPT ![w] = "results"]
          /\ UNCHANGED <<dest, tmp, backup, journal, txn, broken, recovering, latest>>
      BY <1>1 DEF Begin
    <2> QED
      BY <2>1, <2>2
  <1>2. CASE NoJournal(w)
    BY <1>2 DEF NoJournal
  <1>3. CASE ReadJournal(w)
    BY <1>3 DEF ReadJournal
  <1>4. CASE DropBackup(w)
    BY <1>4 DEF DropBackup, Transactions
  <1>5. CASE Unlink(w)
    BY <1>5 DEF Unlink
  <1>6. CASE PutBack(w)
    <2>1. txn[w] \in Transactions /\ txn[w].owner \in Writers
      BY <1>6 DEF PutBack, Transactions
    <2>2. dest' \in [Members -> Contents \cup {Absent}]
      BY <1>6, <2>1 DEF PutBack
    <2>3. backup' \in [Writers -> [Members -> Contents \cup {Absent}]]
      BY <1>6, <2>1 DEF PutBack
    <2>4. /\ UNCHANGED <<tmp, journal, txn, recovering, latest, overlapped, faults>>
          /\ Restored(w, broken[w])
      BY <1>6 DEF PutBack
    <2>5. /\ pc' \in [Writers -> {"idle"} \cup Running \cup Final]
          /\ member' \in [Writers -> Members] /\ broken' \in [Writers -> BOOLEAN]
      BY <2>4
    <2>6. \A v \in Writers :
              pc'[v] \in InstallSteps \cup (RecoverySteps \ {"recover"}) => txn[v] # Absent
      BY <1>6, <2>4 DEF PutBack, RecoverySteps, InstallSteps
    <2> HIDE DEF Restored, AfterRestore, GoTo
    <2> QED
      BY <2>2, <2>3, <2>4, <2>5, <2>6
  <1>7. CASE PutBackRefused(w)
    <2>1. /\ UNCHANGED <<dest, tmp, backup, journal, txn, recovering, latest, overlapped, faults>>
          /\ Restored(w, TRUE) /\ At(w, "putBack")
      BY <1>7 DEF PutBackRefused
    <2>2. /\ pc' \in [Writers -> {"idle"} \cup Running \cup Final]
          /\ member' \in [Writers -> Members] /\ broken' \in [Writers -> BOOLEAN]
      BY <2>1
    <2>3. \A v \in Writers :
              pc'[v] \in InstallSteps \cup (RecoverySteps \ {"recover"}) => txn[v] # Absent
      BY <2>1 DEF RecoverySteps, InstallSteps
    <2> HIDE DEF Restored, AfterRestore, GoTo
    <2> QED
      BY <2>1, <2>2, <2>3
  <1>8. CASE DropTmp(w)
    BY <1>8 DEF DropTmp, Transactions
  <1>9. CASE Unjournal(w)
    <2>1. /\ journal' = Absent
          /\ UNCHANGED <<dest, tmp, backup, txn, broken, recovering, latest, overlapped, faults>>
      BY <1>9 DEF Unjournal
    <2>2. /\ pc' \in [Writers -> {"idle"} \cup Running \cup Final]
          /\ member' \in [Writers -> Members]
      BY <1>9 DEF Unjournal
    <2>3. \A v \in Writers :
              pc'[v] \in InstallSteps \cup (RecoverySteps \ {"recover"}) => txn[v] # Absent
      BY <1>9 DEF Unjournal
    <2> QED
      BY <2>1, <2>2, <2>3
  <1>10. CASE Check(w)
    BY <1>10 DEF Check
  <1>11. CASE WriteTmp(w)
    <2>1. tmp' \in [Writers -> [Members -> BOOLEAN]]
      BY <1>11 DEF WriteTmp
    <2>2. /\ UNCHANGED <<dest, backup, journal, txn, broken, recovering, latest, overlapped, faults>>
          /\ Then(w, "record") /\ pc[w] = "write"
      BY <1>11 DEF WriteTmp
    <2>3. /\ pc' \in [Writers -> {"idle"} \cup Running \cup Final]
          /\ member' \in [Writers -> Members]
      BY <2>2
    <2>4. \A v \in Writers :
              pc'[v] \in InstallSteps \cup (RecoverySteps \ {"recover"}) => txn[v] # Absent
      BY <2>2 DEF InstallSteps
    <2> HIDE DEF Then, GoTo
    <2> QED
      BY <2>1, <2>2, <2>3, <2>4
  <1>12. CASE Record(w)
    <2>1. [owner |-> w, had |-> [m \in Members |-> dest[m] # Absent]] \in Transactions
      BY DEF Transactions
    <2> QED
      BY <1>12, <2>1 DEF Record, Contents
  <1>13. CASE RecordRefused(w)
    BY <1>13 DEF RecordRefused
  <1>14. CASE Link(w)
    <2>1. dest' \in [Members -> Contents \cup {Absent}]
      BY <1>14 DEF Link, Contents
    <2>2. /\ UNCHANGED <<tmp, backup, journal, txn, broken, recovering, latest, overlapped, faults>>
          /\ Then(w, "unlinkTmp") /\ pc[w] = "link"
      BY <1>14 DEF Link
    <2>3. /\ pc' \in [Writers -> {"idle"} \cup Running \cup Final]
          /\ member' \in [Writers -> Members]
      BY <2>2
    <2>4. /\ overlapped' \in BOOLEAN /\ latest' \in Writers \cup {Absent}
          /\ faults' \in 0 .. MaxFaults
      BY <2>2
    <2>5. UNCHANGED <<tmp, backup, journal, txn, broken, recovering>>
      BY <2>2
    <2>6. \A v \in Writers :
              pc'[v] \in InstallSteps \cup (RecoverySteps \ {"recover"}) => txn[v] # Absent
      BY <2>2 DEF InstallSteps
    <2> HIDE DEF Then, GoTo
    <2> QED
      BY <2>1, <2>3, <2>4, <2>5, <2>6
  <1>15. CASE UnlinkTmp(w)
    <2>1. tmp' \in [Writers -> [Members -> BOOLEAN]]
      BY <1>15 DEF UnlinkTmp
    <2>2. /\ UNCHANGED <<dest, backup, journal, txn, broken, recovering, latest, overlapped, faults>>
          /\ Then(w, "commit") /\ pc[w] = "unlinkTmp"
      BY <1>15 DEF UnlinkTmp
    <2>3. /\ pc' \in [Writers -> {"idle"} \cup Running \cup Final]
          /\ member' \in [Writers -> Members]
      BY <2>2
    <2>4. \A v \in Writers :
              pc'[v] \in InstallSteps \cup (RecoverySteps \ {"recover"}) => txn[v] # Absent
      BY <2>2 DEF InstallSteps
    <2> HIDE DEF Then, GoTo
    <2> QED
      BY <2>1, <2>2, <2>3, <2>4
  <1>16. CASE MoveAside(w)
    <2>1. /\ dest' \in [Members -> Contents \cup {Absent}]
          /\ backup' \in [Writers -> [Members -> Contents \cup {Absent}]]
      <3>1. CASE txn[w].had[member[w]]
        <4>1. /\ backup' = [backup EXCEPT ![w][member[w]] = dest[member[w]]]
              /\ dest' = [dest EXCEPT ![member[w]] = Absent]
          BY <1>16, <3>1 DEF MoveAside
        <4> QED
          BY <4>1
      <3>2. CASE ~ txn[w].had[member[w]]
        BY <1>16, <3>2 DEF MoveAside
      <3> QED
        BY <3>1, <3>2
    <2>2. /\ UNCHANGED <<tmp, journal, txn, broken, recovering, latest, overlapped, faults>>
          /\ Then(w, "rename") /\ pc[w] = "moveAside"
      BY <1>16 DEF MoveAside
    <2>3. /\ pc' \in [Writers -> {"idle"} \cup Running \cup Final]
          /\ member' \in [Writers -> Members]
      BY <2>2
    <2>4. \A v \in Writers :
              pc'[v] \in InstallSteps \cup (RecoverySteps \ {"recover"}) => txn[v] # Absent
      BY <2>2 DEF InstallSteps
    <2> HIDE DEF Then, GoTo
    <2> QED
      BY <2>1, <2>2, <2>3, <2>4
  <1>17. CASE Rename(w)
    <2>1. tmp' \in [Writers -> [Members -> BOOLEAN]]
      BY <1>17 DEF Rename
    <2>2. /\ UNCHANGED <<backup, journal, txn, broken, recovering, latest, overlapped, faults>>
          /\ Then(w, "removeBackup") /\ pc[w] = "rename"
      BY <1>17 DEF Rename
    <2>3. /\ pc' \in [Writers -> {"idle"} \cup Running \cup Final]
          /\ member' \in [Writers -> Members]
      BY <2>2
    <2>4. \A v \in Writers :
              pc'[v] \in InstallSteps \cup (RecoverySteps \ {"recover"}) => txn[v] # Absent
      BY <2>2 DEF InstallSteps
    <2>5. dest' \in [Members -> Contents \cup {Absent}]
      BY <1>17 DEF Rename, Contents
    <2> HIDE DEF Then, GoTo
    <2> QED
      BY <2>1, <2>2, <2>3, <2>4, <2>5
  <1>18. CASE RemoveBackup(w)
    BY <1>18 DEF RemoveBackup
  <1>19. CASE Commit(w)
    BY <1>19 DEF Commit
  <1>20. CASE InstallRefused(w)
    BY <1>20 DEF InstallRefused, Interfered
  <1>21. CASE InstallFails(w)
    BY <1>21 DEF InstallFails
  <1>22. CASE CommitSyncFails(w)
    BY <1>22 DEF CommitSyncFails
  <1>23. CASE WriteFails(w)
    BY <1>23 DEF WriteFails
  <1>24. CASE RecordSyncFails(w)
    <2>1. [owner |-> w, had |-> [m \in Members |-> dest[m] # Absent]] \in Transactions
      BY DEF Transactions
    <2> QED
      BY <1>24, <2>1 DEF RecordSyncFails
  <1>25. CASE RecoveryFails(w)
    BY <1>25 DEF RecoveryFails
  <1>26. CASE RestoreFails(w)
    <2>1. /\ UNCHANGED <<dest, tmp, backup, journal, txn, recovering, latest, overlapped>>
          /\ Restored(w, TRUE) /\ Fault /\ pc[w] \in {"unlink", "putBack"}
      BY <1>26 DEF RestoreFails
    <2>2. /\ pc' \in [Writers -> {"idle"} \cup Running \cup Final]
          /\ member' \in [Writers -> Members] /\ broken' \in [Writers -> BOOLEAN]
      BY <2>1
    <2>3. faults' \in 0 .. MaxFaults
      BY <2>1
    <2>4. \A v \in Writers :
              pc'[v] \in InstallSteps \cup (RecoverySteps \ {"recover"}) => txn[v] # Absent
      BY <2>1 DEF RecoverySteps, InstallSteps
    <2> HIDE DEF Restored, AfterRestore, Fault, GoTo
    <2> QED
      BY <2>1, <2>2, <2>3, <2>4
  <1>27. CASE PairCrash(w)
    BY <1>27 DEF PairCrash
  <1> QED
    BY <1>1, <1>2, <1>3, <1>4, <1>5, <1>6, <1>7, <1>8, <1>9, <1>10, <1>11, <1>12, <1>13,
       <1>14, <1>15, <1>16, <1>17, <1>18, <1>19, <1>20, <1>21, <1>22, <1>23, <1>24,
       <1>25, <1>26, <1>27 DEF Taken, Recovery, Replacement, Failure

(* Nothing is put in place by a writer that has not recorded it.           *)
LEMMA FreshStep ==
    ASSUME TypeOK, FreshInv, NEW w \in Writers, Taken(w)
    PROVE  FreshInv'
  <1> USE DEF TypeOK, GoTo, Then, At, Locals, History, files, Rollback, Recovered, Restored,
              AfterRestore, Abandon
  <1>0. \A v \in Writers \ {w} :
            /\ pc'[v] = pc[v] /\ recovering'[v] = recovering[v]
            /\ Fresh(v)' => Fresh(v)
    BY OthersKeep DEF Fresh
  <1>f. /\ pc[w] \in BeforeRecord => recovering[w] = "first"
        /\ Fresh(w) => Unseen(w)
        /\ \A v \in Writers : At(v, "written") /\ journal # Absent => journal.owner # v
    BY DEF FreshInv
  <1>1. CASE Begin(w) \/ NoJournal(w) \/ ReadJournal(w) \/ Check(w)
    <2>1. /\ UNCHANGED <<dest, tmp, backup, journal, latest>> /\ recovering' = recovering
          /\ pc'[w] # "written"
      BY <1>1 DEF Begin, NoJournal, ReadJournal, Check
    <2>2. Fresh(w)' => Fresh(w)
      BY <1>1, <1>f DEF Begin, NoJournal, ReadJournal, Check, Fresh, BeforeRecord, RecoverySteps
    <2>3. pc'[w] \in BeforeRecord => recovering'[w] = "first"
      BY <1>1, <1>f DEF Begin, NoJournal, ReadJournal, Check, BeforeRecord
    <2>4. \A v \in Writers : Unseen(v)' = Unseen(v)
      BY <2>1 DEF Unseen, Cleared
    <2> QED
      BY <1>0, <1>f, <2>1, <2>2, <2>3, <2>4 DEF FreshInv
  <1>2. CASE DropBackup(w) \/ Unlink(w) \/ DropTmp(w) \/ Unjournal(w)
    <2>1. /\ UNCHANGED latest /\ recovering' = recovering
          /\ journal' = journal \/ journal' = Absent
          /\ pc'[w] # "written" /\ pc[w] \in RecoverySteps
          /\ pc'[w] \in BeforeRecord => recovering'[w] = "first"
          /\ Fresh(w)' => Fresh(w)
      BY <1>2 DEF DropBackup, Unlink, DropTmp, Unjournal, Fresh, BeforeRecord, RecoverySteps
    <2>2. \A m \in Members : dest'[m] \in {dest[m], Absent}
      BY <1>2 DEF DropBackup, Unlink, DropTmp, Unjournal
    <2>3. \A u \in Writers, m \in Members : backup'[u][m] \in {backup[u][m], Absent}
      <3>1. CASE DropBackup(w)
        <4> DEFINE o == txn[w].owner
        <4>1. backup' = [backup EXCEPT ![o] = [backup[o] EXCEPT ![member[w]] = Absent]]
          BY <3>1 DEF DropBackup
        <4> HIDE DEF o
        <4> QED
          BY <4>1
      <3>2. CASE Unlink(w) \/ DropTmp(w) \/ Unjournal(w)
        BY <3>2 DEF Unlink, DropTmp, Unjournal
      <3> QED
        BY <1>2, <3>1, <3>2
    <2>4. \A v \in Writers : Unseen(v) => Unseen(v)'
      BY <2>1, <2>2, <2>3, PairAssumption DEF Unseen, Cleared, Contents
    <2> QED
      BY <1>0, <1>f, <2>1, <2>4 DEF FreshInv
  <1>3. CASE PutBack(w) \/ PutBackRefused(w) \/ RestoreFails(w)
    <2>1. /\ UNCHANGED <<latest, journal, recovering>>
          /\ pc'[w] # "written" /\ pc'[w] \notin BeforeRecord
          /\ Fresh(w)' => Fresh(w)
      BY <1>3 DEF PutBack, PutBackRefused, RestoreFails, Fresh, BeforeRecord, RecoverySteps
    <2>2. \A m \in Members : dest'[m] = dest[m] \/ \E u \in Writers : dest'[m] = backup[u][m]
      <3>1. CASE PutBack(w)
        <4>1. txn[w] \in Transactions /\ txn[w].owner \in Writers
          BY <3>1 DEF PutBack, Transactions, RecoverySteps
        <4> QED
          BY <3>1, <4>1 DEF PutBack
      <3>2. CASE PutBackRefused(w) \/ RestoreFails(w)
        BY <3>2 DEF PutBackRefused, RestoreFails
      <3> QED
        BY <1>3, <3>1, <3>2
    <2>3. \A u \in Writers, m \in Members : backup'[u][m] \in {backup[u][m], Absent}
      <3>1. CASE PutBack(w)
        <4>1. PICK o \in Writers :
                  backup' = [backup EXCEPT ![o] = [backup[o] EXCEPT ![member[w]] = Absent]]
          <5>1. txn[w].owner \in Writers
            BY <3>1 DEF PutBack, Transactions, RecoverySteps
          <5> QED
            BY <3>1, <5>1 DEF PutBack
        <4> QED
          BY <4>1
      <3>2. CASE PutBackRefused(w) \/ RestoreFails(w)
        BY <3>2 DEF PutBackRefused, RestoreFails
      <3> QED
        BY <1>3, <3>1, <3>2
    <2>4. \A v \in Writers : Unseen(v) => Unseen(v)'
      BY <2>1, <2>2, <2>3, PairAssumption DEF Unseen, Cleared, Contents
    <2> QED
      BY <1>0, <1>f, <2>1, <2>4 DEF FreshInv
  <1>4. CASE WriteTmp(w) \/ RecordRefused(w) \/ WriteFails(w)
    <2>1. /\ UNCHANGED <<dest, backup, journal, latest, recovering>>
          /\ pc'[w] # "written" /\ pc[w] \in BeforeRecord
      BY <1>4 DEF WriteTmp, RecordRefused, WriteFails, BeforeRecord
    <2>2. \A v \in Writers : Unseen(v)' = Unseen(v)
      BY <2>1 DEF Unseen, Cleared
    <2> QED
      BY <1>0, <1>f, <2>1, <2>2 DEF FreshInv, Fresh
  <1>5. CASE Record(w) \/ RecordSyncFails(w)
    <2>1. /\ UNCHANGED <<dest, backup, recovering>> /\ latest' = w /\ journal'.owner = w
          /\ pc'[w] \in {"link", "moveAside", "failed"} /\ pc[w] = "record"
      BY <1>5 DEF Record, RecordSyncFails
    <2>2. ~ Fresh(w)' /\ pc'[w] \notin BeforeRecord /\ pc'[w] # "written"
      BY <2>1 DEF Fresh, BeforeRecord, RecoverySteps
    <2>3. \A v \in Writers \ {w} : Unseen(v) => Unseen(v)'
      BY <2>1 DEF Unseen, Cleared
    <2> QED
      BY <1>0, <1>f, <2>1, <2>2, <2>3 DEF FreshInv
  <1>6. CASE Link(w) \/ Rename(w) \/ MoveAside(w)
    <2>1. /\ UNCHANGED <<journal, latest, recovering>>
          /\ pc'[w] \in {"link", "unlinkTmp", "rename", "moveAside", "removeBackup"}
      BY <1>6 DEF Link, Rename, MoveAside
    <2>2. ~ Fresh(w)' /\ pc'[w] \notin BeforeRecord /\ pc'[w] # "written"
      BY <2>1 DEF Fresh, BeforeRecord, RecoverySteps
    <2>3. \A m \in Members : dest'[m] \in {dest[m], Absent, w}
      BY <1>6 DEF Link, Rename, MoveAside
    <2>4. \A u \in Writers, m \in Members :
              backup'[u][m] = backup[u][m] \/ (u = w /\ backup'[u][m] = dest[m])
      BY <1>6 DEF Link, Rename, MoveAside
    <2>5. \A v \in Writers \ {w} : Unseen(v) => Unseen(v)'
      BY <2>1, <2>3, <2>4, PairAssumption DEF Unseen, Cleared, Contents
    <2> QED
      BY <1>0, <1>f, <2>1, <2>2, <2>5 DEF FreshInv
  <1>7. CASE UnlinkTmp(w) \/ RemoveBackup(w)
    <2>1. /\ UNCHANGED <<dest, journal, latest, recovering>>
          /\ pc'[w] \in {"unlinkTmp", "removeBackup", "commit"}
      BY <1>7 DEF UnlinkTmp, RemoveBackup
    <2>2. ~ Fresh(w)' /\ pc'[w] \notin BeforeRecord /\ pc'[w] # "written"
      BY <2>1 DEF Fresh, BeforeRecord, RecoverySteps
    <2>3. \A u \in Writers, m \in Members : backup'[u][m] \in {backup[u][m], Absent}
      <3>1. CASE UnlinkTmp(w)
        BY <3>1 DEF UnlinkTmp
      <3>2. CASE RemoveBackup(w)
        <4>1. backup' = [backup EXCEPT ![w] = [backup[w] EXCEPT ![member[w]] = Absent]]
          BY <3>2 DEF RemoveBackup
        <4> QED
          BY <4>1
      <3> QED
        BY <1>7, <3>1, <3>2
    <2>4. \A v \in Writers : Unseen(v) => Unseen(v)'
      BY <2>1, <2>3, PairAssumption DEF Unseen, Cleared, Contents
    <2> QED
      BY <1>0, <1>f, <2>1, <2>2, <2>4 DEF FreshInv
  <1>8. CASE \/ Commit(w) \/ InstallRefused(w) \/ InstallFails(w) \/ CommitSyncFails(w)
             \/ RecoveryFails(w) \/ PairCrash(w)
    <2>1. /\ UNCHANGED <<dest, backup, latest>>
          /\ journal' = journal \/ journal' = Absent
          /\ pc'[w] = "written" => journal' = Absent
      BY <1>8 DEF Commit, InstallRefused, InstallFails, CommitSyncFails, RecoveryFails, PairCrash
    <2>2. /\ pc'[w] \in {"written", "recoveryFailed", "crashed"}
             \/ (pc'[w] = "recover" /\ recovering'[w] = "rollback")
      BY <1>8 DEF Commit, InstallRefused, InstallFails, CommitSyncFails, RecoveryFails, PairCrash
    <2>3. ~ Fresh(w)' /\ pc'[w] \notin BeforeRecord
      BY <2>2 DEF Fresh, BeforeRecord, RecoverySteps
    <2>4. \A v \in Writers : Unseen(v)' = Unseen(v)
      BY <2>1 DEF Unseen, Cleared
    <2> QED
      BY <1>0, <1>f, <2>1, <2>3, <2>4 DEF FreshInv
  <1> QED
    BY <1>1, <1>2, <1>3, <1>4, <1>5, <1>6, <1>7, <1>8 DEF Taken, Recovery, Replacement, Failure

(***************************************************************************)
(* The course of a transaction.                                            *)
(***************************************************************************)

(* Before there is a journal, a writer changes only its own temporaries;   *)
(* the files that it finds when it records its transaction are the         *)
(* originals.                                                              *)
LEMMA PreparingStep ==
    ASSUME TypeOK, FreshInv, journal = Absent, Resting,
           NEW w \in Writers, pc[w] \in Running, Preparing(w), Taken(w), ~ Begin(w)
    PROVE  /\ journal' = Absent => Resting' /\ (pc'[w] \in Running => Preparing(w)')
           /\ journal' # Absent =>
                  \E O \in Originals : Carried(O)' /\ (pc'[w] \in Running => Phase(w, O)')
  <1> USE DEF TypeOK, GoTo, Then, At, Locals, History, files, Recovered, Abandon
  <1> USE DEF Members
  <1>1. pc[w] \in {"recover", "check", "write", "record"}
    BY DEF Preparing
  <1>2. \/ NoJournal(w) \/ Check(w) \/ WriteTmp(w) \/ Record(w) \/ WriteFails(w)
        \/ RecordSyncFails(w) \/ PairCrash(w)
    BY <1>1 DEF Taken, Recovery, Replacement, Failure, ReadJournal, DropBackup, Unlink,
                PutBack, PutBackRefused, DropTmp, Unjournal, RecordRefused, Link, UnlinkTmp,
                MoveAside, Rename, RemoveBackup, Commit, InstallRefused, Interfered,
                InstallFails, InstallSteps, CommitSyncFails, RecoveryFails, RecoverySteps,
                RestoreFails
  <1>3. CASE NoJournal(w) \/ Check(w) \/ PairCrash(w)
    <2>1. UNCHANGED <<dest, tmp, backup, journal, latest>>
      BY <1>3 DEF NoJournal, Check, PairCrash
    <2>2. Resting'
      BY <2>1 DEF Resting, Whole, Gone, Cleared
    <2>3. /\ pc'[w] \in {"check", "failed", "write", "refused", "crashed"}
          /\ pc'[w] = "write" =>
                 /\ member'[w] = "results"
                 /\ w \in Replace \/ \A m \in Members : dest[m] = Absent
      BY <1>3 DEF NoJournal, Check, PairCrash
    <2>4. pc'[w] \in Running => Preparing(w)'
      BY <2>1, <2>3 DEF Preparing, Running, RecoverySteps, InstallSteps
    <2> QED
      BY <2>1, <2>2, <2>4
  <1>4. CASE WriteTmp(w)
    <2>1. /\ UNCHANGED <<dest, backup, journal, latest>> /\ pc[w] = "write"
          /\ tmp' = [tmp EXCEPT ![w] = [tmp[w] EXCEPT ![member[w]] = TRUE]]
          /\ \/ member[w] = "results" /\ pc'[w] = "write" /\ member'[w] = "decision"
             \/ member[w] = "decision" /\ pc'[w] = "record"
      BY <1>4 DEF WriteTmp
    <2>2. latest # w
      BY <2>1 DEF FreshInv, Fresh, Unseen, BeforeRecord
    <2>3. Resting'
      BY <2>1, <2>2 DEF Resting, Whole, Gone, Cleared
    <2>4. /\ tmp'[w][member[w]]
          /\ tmp[w]["results"] => tmp'[w]["results"]
      BY <2>1
    <2>5. Preparing(w)'
      BY <2>1, <2>4 DEF Preparing
    <2> QED
      BY <2>1, <2>3, <2>5
  <1>5. CASE WriteFails(w)
    <2>1. /\ UNCHANGED <<dest, backup, journal, latest>> /\ pc[w] \in BeforeRecord
          /\ tmp' = [tmp EXCEPT ![w] = [m \in Members |-> FALSE]]
          /\ pc'[w] = "failed"
      BY <1>5 DEF WriteFails, BeforeRecord
    <2>2. latest # w
      BY <2>1 DEF FreshInv, Fresh, Unseen
    <2>3. Resting'
      BY <2>1, <2>2 DEF Resting, Whole, Gone, Cleared
    <2>4. pc'[w] \notin Running
      BY <2>1 DEF Running, RecoverySteps, InstallSteps
    <2> QED
      BY <2>1, <2>3, <2>4
  <1>6. CASE Record(w) \/ RecordSyncFails(w)
    <2> DEFINE t == [owner |-> w, had |-> [m \in Members |-> dest[m] # Absent]]
    <2>1. /\ UNCHANGED <<dest, backup>> /\ pc[w] = "record"
          /\ journal' = t /\ latest' = w
      BY <1>6 DEF Record, RecordSyncFails
    <2>2. t \in Transactions /\ t # Absent
      <3>1. t \in Transactions
        BY DEF Transactions
      <3> QED
        BY <3>1, PairAssumption
    <2>3. Unseen(w)
      BY <2>1 DEF FreshInv, Fresh, BeforeRecord
    <2>4. dest \in Originals
      BY DEF Originals
    <2>5. Carried(dest)'
      <3>1. latest' = journal'.owner /\ journal'.owner = w
        BY <2>1
      <3>2. Whole(dest)'
        BY <2>1 DEF Resting, Whole
      <3>3. \A m \in Members : dest[m] # w /\ backup[w][m] = Absent
        BY <2>3 DEF Unseen, Cleared
      <3>4. \A m \in Members : journal'.had[m] <=> dest[m] # Absent
        BY <2>1
      <3>5. w \notin Replace => \A m \in Members : dest[m] = Absent
        BY <2>1 DEF Preparing
      <3> QED
        BY <2>1, <3>1, <3>2, <3>3, <3>4, <3>5 DEF Carried
    <2>6. CASE Record(w)
      <3>1. /\ txn'[w] = journal' /\ tmp' = tmp /\ member'[w] = "results"
            /\ pc'[w] = IF w \in Replace THEN "moveAside" ELSE "link"
        BY <2>6 DEF Record
      <3>2. \A m \in Members : tmp'[w][m]
        BY <2>1, <3>1 DEF Preparing
      <3>3. pc'[w] \in {"moveAside", "link"}
        BY <3>1
      <3>4. Restoring(w, dest)'
        BY <3>3 DEF Restoring
      <3>5. Linking(w)'
        BY <2>1, <2>3, <3>1, <3>2 DEF Linking, Preparing, Unseen, Cleared
      <3>6. Replacing(w, dest)'
        BY <2>1, <2>3, <3>1, <3>2 DEF Replacing, Unseen, Cleared
      <3>7. Phase(w, dest)'
        BY <2>1, <3>1, <3>3, <3>4, <3>5, <3>6 DEF Phase, BeforeRecord
      <3>8. dest' = dest
        BY <2>1
      <3> QED
        BY <2>1, <2>2, <2>4, <2>5, <3>7, <3>8
    <2>7. CASE RecordSyncFails(w)
      <3>1. pc'[w] = "failed"
        BY <2>7 DEF RecordSyncFails
      <3>2. pc'[w] \notin Running
        BY <3>1 DEF Running, RecoverySteps, InstallSteps
      <3>8. dest' = dest
        BY <2>1
      <3> QED
        BY <2>1, <2>2, <2>4, <2>5, <3>2, <3>8
    <2> QED
      BY <1>6, <2>6, <2>7
  <1> QED
    BY <1>2, <1>3, <1>4, <1>5, <1>6

(* A step that leaves all files alone leaves what is known of them.        *)
LEMMA CarriedKept ==
    ASSUME TypeOK, NEW O, Carried(O), journal # Absent,
           UNCHANGED <<dest, tmp, backup, journal, latest>>
    PROVE  Carried(O)'
  BY DEF Carried, Whole, Gone

(* What the end of a transaction leaves when its journal is removed.       *)
LEMMA Unjournaled ==
    ASSUME TypeOK, NEW O, Carried(O), Gone(journal.owner), Cleared(journal.owner), Whole(dest),
           UNCHANGED <<dest, tmp, backup, latest>>
    PROVE  Resting'
  BY DEF Carried, Resting, Whole, Gone, Cleared

(* The steps of a recovery.                                                *)
LEMMA RecoveryStep ==
    ASSUME TypeOK, journal # Absent, NEW O \in Originals, Carried(O),
           NEW w \in Writers, pc[w] \in Running, Phase(w, O), Recovery(w)
    PROVE  /\ journal' = Absent => Resting' /\ (pc'[w] \in Running => Preparing(w)')
           /\ journal' # Absent => Carried(O)' /\ (pc'[w] \in Running => Phase(w, O)')
  <1>o. PICK o \in Writers :
            journal \in Transactions /\ journal.owner = o /\ journal.had \in [Members -> BOOLEAN]
    BY DEF TypeOK, Transactions
  <1> USE <1>o
  <1> USE DEF TypeOK, GoTo, Then, At, Locals, History, files, Recovered, Restored, AfterRestore
  <1> USE DEF Members
  <1>t. ~ At(w, "recover") => txn[w] = journal
    BY DEF Phase
  <1>r. Restoring(w, O)
    BY DEF Phase
  <1>1. CASE NoJournal(w)
    BY <1>1 DEF NoJournal
  <1>2. CASE ReadJournal(w)
    <2>1. /\ UNCHANGED <<dest, tmp, backup, journal, latest>>
          /\ txn'[w] = journal /\ member'[w] = "results"
          /\ pc'[w] = IF FullyInstalled(journal) THEN "dropBackup" ELSE "unlink"
      BY <1>2 DEF ReadJournal
    <2>2. Carried(O)'
      BY <2>1, CarriedKept
    <2>3. CASE FullyInstalled(journal)
      <3>1. Gone(o) /\ \A m \in Members : dest[m] # Absent
        BY <2>3 DEF FullyInstalled, Gone
      <3>2. (\A m \in Members : dest[m] = O[m]) \/ (\A m \in Members : dest[m] = o)
        BY <3>1 DEF Carried
      <3>3. Whole(dest)
        BY <3>2 DEF Carried, Whole
      <3>4. (Gone(o) /\ Whole(dest))' /\ journal'.owner = o
        BY <2>1, <3>1, <3>3 DEF Gone, Whole
      <3>5. pc'[w] = "dropBackup"
        BY <2>1, <2>3
      <3>6. Restoring(w, O)'
        BY <2>1, <3>4, <3>5 DEF Restoring, Gone
      <3>7. Linking(w)' /\ Replacing(w, O)'
        BY <3>5 DEF Linking, Replacing
      <3>8. Phase(w, O)'
        BY <2>1, <3>5, <3>6, <3>7 DEF Phase, BeforeRecord, InstallSteps
      <3> QED
        BY <2>1, <2>2, <3>8
    <2>4. CASE ~ FullyInstalled(journal)
      <3>1. Gone(o) => \A m \in Members : dest[m] # o
        <4>1. Gone(o) => \E m \in Members : dest[m] = Absent
          BY <2>4 DEF FullyInstalled, Gone
        <4>2. o # Absent
          BY PairAssumption DEF Contents
        <4> QED
          BY <4>1, <4>2 DEF Carried
      <3>2. (Gone(o) => \A m \in Members : dest[m] # o)' /\ journal'.owner = o
        BY <2>1, <3>1 DEF Gone
      <3>5. pc'[w] = "unlink"
        BY <2>1, <2>4
      <3>6. Restoring(w, O)'
        BY <2>1, <3>2, <3>5 DEF Restoring, Gone
      <3>7. Linking(w)' /\ Replacing(w, O)'
        BY <3>5 DEF Linking, Replacing
      <3>8. Phase(w, O)'
        BY <2>1, <3>5, <3>6, <3>7 DEF Phase, BeforeRecord, InstallSteps
      <3> QED
        BY <2>1, <2>2, <3>8
    <2> QED
      BY <2>3, <2>4
  <1>3. CASE DropBackup(w)
    <2>1. /\ UNCHANGED <<dest, tmp, journal, latest, txn>> /\ pc[w] = "dropBackup"
          /\ txn[w] = journal
          /\ backup' = [backup EXCEPT ![o] = [backup[o] EXCEPT ![member[w]] = Absent]]
          /\ \/ member[w] = "results" /\ pc'[w] = "dropBackup" /\ member'[w] = "decision"
             \/ member[w] = "decision" /\ pc'[w] = "unjournal"
      BY <1>3, <1>t DEF DropBackup
    <2>2. /\ journal'.owner = o
          /\ backup'[o][member[w]] = Absent
          /\ \A m \in Members : backup'[o][m] \in {backup[o][m], Absent}
      BY <2>1
    <2>3. Carried(O)'
      BY <2>1, <2>2 DEF Carried, Whole, Gone
    <2>4. (Gone(o) /\ Whole(dest))'
      BY <1>r, <2>1 DEF Restoring, Gone, Whole
    <2>5. pc'[w] = "unjournal" => \A m \in Members : backup'[o][m] = Absent
      BY <1>r, <2>1, <2>2 DEF Restoring
    <2>6. Restoring(w, O)'
      BY <2>1, <2>2, <2>4, <2>5 DEF Restoring, Gone, Cleared
    <2>7. Linking(w)' /\ Replacing(w, O)'
      BY <2>1 DEF Linking, Replacing
    <2>8. Phase(w, O)'
      BY <2>1, <2>6, <2>7 DEF Phase, BeforeRecord, InstallSteps
    <2> QED
      BY <2>1, <2>3, <2>8
  <1>4. CASE Unlink(w)
    <2>1. /\ UNCHANGED <<tmp, backup, journal, latest, txn, member, broken>> /\ pc[w] = "unlink"
          /\ txn[w] = journal /\ pc'[w] = "putBack"
          /\ dest' = [dest EXCEPT ![member[w]] = Absent]
      BY <1>4, <1>t DEF Unlink
    <2>2. \A m \in Members : dest'[m] \in {dest[m], Absent}
      BY <2>1
    <2>3. o # Absent /\ journal'.owner = o
      BY <2>1, PairAssumption DEF Contents
    <2>4. (Gone(o) => \A m \in Members : dest[m] # o)'
      BY <1>r, <2>1, <2>2, <2>3 DEF Restoring, Gone
    <2>5. Carried(O)'
      BY <2>1, <2>2, <2>3, <2>4 DEF Carried, Whole, Gone
    <2>6. dest'[member'[w]] = Absent
      BY <2>1
    <2>7. member'[w] = "decision" => dest'["results"] = dest["results"]
      BY <2>1
    <2>8. Restoring(w, O)'
      BY <1>r, <2>1, <2>3, <2>4, <2>6, <2>7 DEF Restoring, Gone
    <2>9. Linking(w)' /\ Replacing(w, O)'
      BY <2>1 DEF Linking, Replacing
    <2>10. Phase(w, O)'
      BY <2>1, <2>8, <2>9 DEF Phase, BeforeRecord, InstallSteps
    <2> QED
      BY <2>1, <2>5, <2>10
  <1>5. CASE PutBack(w)
    <2> DEFINE m == member[w]
    <2>1. /\ UNCHANGED <<tmp, journal, latest, txn>> /\ pc[w] = "putBack"
          /\ txn[w] = journal
          /\ dest' = IF journal.had[m] THEN [dest EXCEPT ![m] = backup[o][m]] ELSE dest
          /\ backup' = [backup EXCEPT ![o] = [backup[o] EXCEPT ![m] = Absent]]
          /\ journal.had[m] => backup[o][m] # Absent
          /\ Restored(w, broken[w])
      BY <1>5, <1>t DEF PutBack
    <2>2. /\ broken'[w] = broken[w]
          /\ m = "results" => pc'[w] = "unlink" /\ member'[w] = "decision"
          /\ m = "decision" =>
                 /\ pc'[w] = IF broken[w] THEN "recoveryFailed" ELSE "dropTmp"
                 /\ member'[w] = "results"
      BY <2>1
    <2>3. m \in Members /\ dest[m] = Absent /\ o # Absent /\ journal'.owner = o
      BY <1>r, <2>1, PairAssumption DEF Restoring, Contents
    <2>4. dest'[m] = O[m]
      <3>1. CASE journal.had[m]
        BY <2>1, <2>3, <3>1 DEF Carried
      <3>2. CASE ~ journal.had[m]
        BY <2>1, <2>3, <3>2 DEF Carried
      <3> QED
        BY <3>1, <3>2
    <2>5. \A n \in Members : n # m => dest'[n] = dest[n]
      BY <2>1
    <2>6. /\ backup'[o][m] = Absent
          /\ \A n \in Members : n # m => backup'[o][n] = backup[o][n]
      BY <2>1
    <2>7. O[m] # o
      BY <2>3 DEF Carried
    <2>8. Gone(o) => \A n \in Members : dest[n] # o
      BY <1>r, <2>1 DEF Restoring
    <2>9. (Gone(o) => \A n \in Members : dest[n] # o)'
      BY <2>1, <2>4, <2>5, <2>7, <2>8 DEF Gone
    <2> HIDE DEF m
    <2>10. Carried(O)'
      <3>1. \A n \in Members : /\ dest'[n] \in {Absent, O[n], o}
                              /\ backup'[o][n] \in {Absent, O[n]}
        BY <2>4, <2>5, <2>6 DEF Carried
      <3> QED
        BY <2>1, <2>3, <2>9, <3>1 DEF Carried, Whole, Gone
    <2>11. CASE m = "results"
      <3>1. pc'[w] = "unlink" /\ member'[w] = "decision"
        BY <2>2, <2>11
      <3>2. Restoring(w, O)'
        BY <2>3, <2>4, <2>6, <2>9, <2>11, <3>1 DEF Restoring, Gone
      <3>3. Linking(w)' /\ Replacing(w, O)'
        BY <3>1 DEF Linking, Replacing
      <3>4. Phase(w, O)'
        BY <2>1, <3>1, <3>2, <3>3 DEF Phase, BeforeRecord, InstallSteps
      <3> QED
        BY <2>1, <2>10, <3>4
    <2>12. CASE m = "decision" /\ broken[w]
      <3>1. pc'[w] = "recoveryFailed"
        BY <2>2, <2>12
      <3>2. pc'[w] \notin Running
        BY <3>1 DEF Running, RecoverySteps, InstallSteps
      <3> QED
        BY <2>1, <2>10, <3>2
    <2>13. CASE m = "decision" /\ ~ broken[w]
      <3>1. pc'[w] = "dropTmp" /\ member'[w] = "results"
        BY <2>2, <2>13
      <3>2. dest["results"] = O["results"] /\ backup[o]["results"] = Absent
        BY <1>r, <2>1, <2>13 DEF Restoring, m
      <3>3. \A n \in Members : dest'[n] = O[n] /\ backup'[o][n] = Absent
        BY <2>4, <2>5, <2>6, <2>13, <3>2
      <3>4. Restoring(w, O)'
        BY <2>3, <3>1, <3>3 DEF Restoring, Cleared
      <3>5. Linking(w)' /\ Replacing(w, O)'
        BY <3>1 DEF Linking, Replacing
      <3>6. Phase(w, O)'
        BY <2>1, <3>1, <3>4, <3>5 DEF Phase, BeforeRecord, InstallSteps
      <3> QED
        BY <2>1, <2>10, <3>6
    <2> QED
      BY <2>3, <2>11, <2>12, <2>13
  <1>6. CASE PutBackRefused(w)
    <2>1. /\ UNCHANGED <<dest, tmp, backup, journal, latest, txn>> /\ pc[w] = "putBack"
          /\ Restored(w, TRUE)
      BY <1>6 DEF PutBackRefused
    <2>2. /\ broken'[w] = TRUE
          /\ \/ member[w] = "results" /\ pc'[w] = "unlink" /\ member'[w] = "decision"
             \/ pc'[w] = "recoveryFailed"
      BY <2>1
    <2>3. Carried(O)'
      BY <2>1, CarriedKept
    <2>4. (Gone(o) => \A m \in Members : dest[m] # o)'
      BY <1>r, <2>1 DEF Restoring, Gone
    <2>5. pc'[w] \in Running => pc'[w] = "unlink"
      BY <2>2 DEF Running, RecoverySteps, InstallSteps
    <2>6. pc'[w] = "unlink" => Restoring(w, O)'
      BY <2>1, <2>2, <2>4 DEF Restoring, Gone
    <2>7. pc'[w] = "unlink" => Linking(w)' /\ Replacing(w, O)'
      BY DEF Linking, Replacing
    <2>8. pc'[w] = "unlink" => Phase(w, O)'
      BY <1>t, <2>1, <2>6, <2>7 DEF Phase, BeforeRecord, InstallSteps
    <2> QED
      BY <2>1, <2>3, <2>5, <2>8
  <1>7. CASE DropTmp(w)
    <2>1. /\ UNCHANGED <<dest, backup, journal, latest, txn>> /\ pc[w] = "dropTmp"
          /\ txn[w] = journal
          /\ tmp' = [tmp EXCEPT ![o] = [tmp[o] EXCEPT ![member[w]] = FALSE]]
          /\ \/ member[w] = "results" /\ pc'[w] = "dropTmp" /\ member'[w] = "decision"
             \/ member[w] = "decision" /\ pc'[w] = "unjournal"
      BY <1>7, <1>t DEF DropTmp
    <2>2. /\ ~ tmp'[o][member[w]]
          /\ tmp'[o]["results"] => tmp[o]["results"]
      BY <2>1
    <2>3. \A m \in Members : dest[m] = O[m] /\ O[m] # o /\ backup[o][m] = Absent
      BY <1>r, <2>1 DEF Restoring, Carried, Cleared
    <2>4. Carried(O)'
      BY <2>1, <2>3 DEF Carried, Whole, Gone
    <2>5. pc'[w] = "unjournal" => Gone(o)'
      BY <1>r, <2>1, <2>2 DEF Restoring, Gone
    <2>6. (Whole(dest) /\ Cleared(o))'
      BY <2>1, <2>3 DEF Carried, Whole, Cleared
    <2>7. Restoring(w, O)'
      BY <2>1, <2>2, <2>3, <2>5, <2>6 DEF Restoring, Cleared
    <2>8. Linking(w)' /\ Replacing(w, O)'
      BY <2>1 DEF Linking, Replacing
    <2>9. Phase(w, O)'
      BY <2>1, <2>7, <2>8 DEF Phase, BeforeRecord, InstallSteps
    <2> QED
      BY <2>1, <2>4, <2>9
  <1>8. CASE Unjournal(w)
    <2>1. /\ UNCHANGED <<dest, tmp, backup, latest>> /\ pc[w] = "unjournal" /\ journal' = Absent
          /\ pc'[w] \in {"check", "failed"}
      BY <1>8 DEF Unjournal
    <2>2. Gone(o) /\ Cleared(o) /\ Whole(dest)
      BY <1>r, <2>1 DEF Restoring
    <2>3. Resting'
      BY <2>1, <2>2, Unjournaled
    <2>4. pc'[w] \in Running => Preparing(w)'
      BY <2>1 DEF Preparing, Running, RecoverySteps, InstallSteps
    <2> QED
      BY <2>1, <2>3, <2>4
  <1> QED
    BY <1>1, <1>2, <1>3, <1>4, <1>5, <1>6, <1>7, <1>8 DEF Recovery

(* The steps of the replacement, from the journal to its removal.          *)
LEMMA ReplacementStep ==
    ASSUME TypeOK, journal # Absent, NEW O \in Originals, Carried(O),
           NEW w \in Writers, pc[w] \in Running, Phase(w, O), Replacement(w)
    PROVE  /\ journal' = Absent => Resting' /\ (pc'[w] \in Running => Preparing(w)')
           /\ journal' # Absent => Carried(O)' /\ (pc'[w] \in Running => Phase(w, O)')
  <1> USE DEF TypeOK, GoTo, Then, At, Locals, History, files, Rollback
  <1> USE DEF Members
  <1>t. /\ ~ At(w, "recover") => txn[w] = journal
        /\ pc[w] \in InstallSteps => journal.owner = w
        /\ pc[w] \notin BeforeRecord
    BY DEF Phase
  <1>l. Linking(w) /\ Replacing(w, O)
    BY DEF Phase
  <1>a. w # Absent /\ journal \in Transactions /\ journal.had \in [Members -> BOOLEAN]
    BY PairAssumption DEF Contents, Transactions
  <1>1. CASE Check(w) \/ WriteTmp(w) \/ Record(w) \/ RecordRefused(w)
    BY <1>1, <1>t DEF Check, WriteTmp, Record, RecordRefused, BeforeRecord
  <1>2. CASE Link(w)
    <2>1. /\ UNCHANGED <<tmp, backup, journal, latest, txn>> /\ pc[w] = "link"
          /\ dest' = [dest EXCEPT ![member[w]] = w]
          /\ \/ member[w] = "results" /\ pc'[w] = "link" /\ member'[w] = "decision"
             \/ member[w] = "decision" /\ pc'[w] = "unlinkTmp" /\ member'[w] = "results"
      BY <1>2 DEF Link
    <2>2. journal.owner = w /\ journal'.owner = w /\ txn'[w] = journal'
      BY <1>t, <2>1 DEF InstallSteps
    <2>3. /\ w \notin Replace /\ Cleared(w) /\ \A m \in Members : tmp[w][m]
          /\ dest["decision"] = Absent
          /\ dest["results"] = IF member[w] = "results" THEN Absent ELSE w
      BY <1>l, <2>1 DEF Linking
    <2>4. /\ member[w] = "results" => dest'["results"] = w /\ dest'["decision"] = Absent
          /\ member[w] = "decision" => dest'["results"] = w /\ dest'["decision"] = w
      BY <2>1, <2>3
    <2>5. Carried(O)'
      <3>1. ~ Gone(w)'
        BY <2>1, <2>3 DEF Gone
      <3>2. \A m \in Members : dest'[m] \in {Absent, w}
        BY <2>1, <2>4
      <3> QED
        BY <2>1, <2>2, <3>1, <3>2 DEF Carried, Whole
    <2>6. Linking(w)'
      BY <2>1, <2>3, <2>4 DEF Linking, Cleared
    <2>7. Restoring(w, O)' /\ Replacing(w, O)'
      BY <2>1 DEF Restoring, Replacing
    <2>8. Phase(w, O)'
      BY <2>1, <2>2, <2>6, <2>7 DEF Phase, BeforeRecord
    <2> QED
      BY <2>1, <2>5, <2>8
  <1>3. CASE UnlinkTmp(w)
    <2>1. /\ UNCHANGED <<dest, backup, journal, latest, txn>> /\ pc[w] = "unlinkTmp"
          /\ tmp' = [tmp EXCEPT ![w] = [tmp[w] EXCEPT ![member[w]] = FALSE]]
          /\ \/ member[w] = "results" /\ pc'[w] = "unlinkTmp" /\ member'[w] = "decision"
             \/ member[w] = "decision" /\ pc'[w] = "commit" /\ member'[w] = "results"
      BY <1>3 DEF UnlinkTmp
    <2>2. journal.owner = w /\ journal'.owner = w /\ txn'[w] = journal'
      BY <1>t, <2>1 DEF InstallSteps
    <2>3. /\ w \notin Replace /\ Cleared(w) /\ tmp[w]["decision"]
          /\ \A m \in Members : dest[m] = w
          /\ tmp[w]["results"] <=> member[w] = "results"
      BY <1>l, <2>1 DEF Linking
    <2>4. /\ ~ tmp'[w]["results"]
          /\ member[w] = "results" => tmp'[w]["decision"]
          /\ member[w] = "decision" => ~ tmp'[w]["decision"]
      BY <2>1, <2>3
    <2>5. Carried(O)'
      BY <2>1, <2>2, <2>3 DEF Carried, Whole, Gone
    <2>6. Linking(w)'
      BY <2>1, <2>3, <2>4 DEF Linking, Cleared
    <2>7. Replacing(w, O)'
      BY <2>1, <2>3, <2>4 DEF Replacing, Cleared, Gone
    <2>8. Restoring(w, O)'
      BY <2>1 DEF Restoring
    <2>9. Phase(w, O)'
      BY <2>1, <2>2, <2>6, <2>7, <2>8 DEF Phase, BeforeRecord
    <2> QED
      BY <2>1, <2>5, <2>9
  <1>4. CASE MoveAside(w)
    <2> DEFINE m == member[w]
    <2>1. /\ UNCHANGED <<tmp, journal, latest, txn>> /\ pc[w] = "moveAside"
          /\ \/ m = "results" /\ pc'[w] = "moveAside" /\ member'[w] = "decision"
             \/ m = "decision" /\ pc'[w] = "rename" /\ member'[w] = "results"
          /\ m \in Members
      BY <1>4 DEF MoveAside
    <2>2. journal.owner = w /\ journal'.owner = w /\ txn'[w] = journal' /\ txn[w] = journal
      BY <1>t, <2>1 DEF InstallSteps
    <2>3. /\ w \in Replace /\ \A n \in Members : tmp[w][n]
          /\ dest["decision"] = O["decision"] /\ backup[w]["decision"] = Absent
          /\ m = "results" => dest["results"] = O["results"] /\ Cleared(w)
          /\ m = "decision" => dest["results"] = Absent /\ backup[w]["results"] = O["results"]
      BY <1>l, <2>1 DEF Replacing
    <2>4. dest[m] = O[m] /\ backup[w][m] = Absent
      BY <2>1, <2>3 DEF Cleared
    <2>5. /\ dest'[m] = Absent /\ backup'[w][m] = O[m]
          /\ \A n \in Members : n # m => dest'[n] = dest[n] /\ backup'[w][n] = backup[w][n]
      <3>1. CASE journal.had[m]
        <4>1. /\ backup' = [backup EXCEPT ![w] = [backup[w] EXCEPT ![m] = dest[m]]]
              /\ dest' = [dest EXCEPT ![m] = Absent]
          BY <1>4, <2>2, <3>1 DEF MoveAside
        <4> QED
          BY <2>1, <2>4, <4>1
      <3>2. CASE ~ journal.had[m]
        <4>1. UNCHANGED <<dest, backup>>
          BY <1>4, <2>2, <3>2 DEF MoveAside
        <4>2. O[m] = Absent
          BY <2>1, <3>2 DEF Carried
        <4> QED
          BY <2>4, <4>1, <4>2
      <3> QED
        BY <3>1, <3>2
    <2> HIDE DEF m
    <2>6. Carried(O)'
      <3>1. \A n \in Members : dest'[n] \in {Absent, O[n], w} /\ backup'[w][n] \in {Absent, O[n]}
        BY <2>2, <2>5 DEF Carried
      <3>2. ~ Gone(w)'
        BY <2>1, <2>3 DEF Gone
      <3> QED
        BY <2>1, <2>2, <3>1, <3>2 DEF Carried, Whole
    <2>7. Replacing(w, O)'
      BY <2>1, <2>3, <2>5 DEF Replacing, Cleared
    <2>8. Restoring(w, O)' /\ Linking(w)'
      BY <2>1 DEF Restoring, Linking
    <2>9. Phase(w, O)'
      BY <2>1, <2>2, <2>7, <2>8 DEF Phase, BeforeRecord
    <2> QED
      BY <2>1, <2>6, <2>9
  <1>5. CASE Rename(w)
    <2>1. /\ UNCHANGED <<backup, journal, latest, txn>> /\ pc[w] = "rename"
          /\ dest' = [dest EXCEPT ![member[w]] = w]
          /\ tmp' = [tmp EXCEPT ![w] = [tmp[w] EXCEPT ![member[w]] = FALSE]]
          /\ \/ member[w] = "results" /\ pc'[w] = "rename" /\ member'[w] = "decision"
             \/ member[w] = "decision" /\ pc'[w] = "removeBackup" /\ member'[w] = "results"
      BY <1>5 DEF Rename
    <2>2. journal.owner = w /\ journal'.owner = w /\ txn'[w] = journal'
      BY <1>t, <2>1 DEF InstallSteps
    <2>3. /\ w \in Replace /\ \A m \in Members : backup[w][m] = O[m]
          /\ dest["decision"] = Absent
          /\ dest["results"] = IF member[w] = "results" THEN Absent ELSE w
          /\ tmp[w]["decision"]
          /\ tmp[w]["results"] <=> member[w] = "results"
      BY <1>l, <2>1 DEF Replacing
    <2>4. /\ dest'["results"] = w /\ ~ tmp'[w]["results"]
          /\ member[w] = "results" => dest'["decision"] = Absent /\ tmp'[w]["decision"]
          /\ member[w] = "decision" => dest'["decision"] = w /\ ~ tmp'[w]["decision"]
      BY <2>1, <2>3
    <2>5. Carried(O)'
      <3>1. \A m \in Members : dest'[m] \in {Absent, w}
        BY <2>1, <2>4
      <3>2. (Gone(w) => \A m \in Members : dest[m] = w)'
        BY <2>1, <2>4 DEF Gone
      <3> QED
        BY <2>1, <2>2, <3>1, <3>2 DEF Carried, Whole, Gone
    <2>6. Replacing(w, O)'
      BY <2>1, <2>3, <2>4 DEF Replacing, Gone
    <2>7. Restoring(w, O)' /\ Linking(w)'
      BY <2>1 DEF Restoring, Linking
    <2>8. Phase(w, O)'
      BY <2>1, <2>2, <2>6, <2>7 DEF Phase, BeforeRecord
    <2> QED
      BY <2>1, <2>5, <2>8
  <1>6. CASE RemoveBackup(w)
    <2>1. /\ UNCHANGED <<dest, tmp, journal, latest, txn>> /\ pc[w] = "removeBackup"
          /\ backup' = [backup EXCEPT ![w] = [backup[w] EXCEPT ![member[w]] = Absent]]
          /\ \/ member[w] = "results" /\ pc'[w] = "removeBackup" /\ member'[w] = "decision"
             \/ member[w] = "decision" /\ pc'[w] = "commit" /\ member'[w] = "results"
      BY <1>6 DEF RemoveBackup
    <2>2. journal.owner = w /\ journal'.owner = w /\ txn'[w] = journal'
      BY <1>t, <2>1 DEF InstallSteps
    <2>3. /\ Gone(w) /\ \A m \in Members : dest[m] = w
          /\ member[w] = "decision" => backup[w]["results"] = Absent
      BY <1>l, <2>1 DEF Replacing
    <2>4. /\ backup'[w]["results"] = Absent
          /\ member[w] = "decision" => backup'[w]["decision"] = Absent
          /\ \A m \in Members : backup'[w][m] \in {backup[w][m], Absent}
      BY <2>1, <2>3
    <2>5. (Gone(w) /\ \A m \in Members : dest[m] = w)'
      BY <2>1, <2>3 DEF Gone
    <2>6. Carried(O)'
      BY <2>1, <2>2, <2>3, <2>4 DEF Carried, Whole, Gone
    <2>7. Replacing(w, O)'
      BY <2>1, <2>4, <2>5 DEF Replacing, Cleared
    <2>8. Restoring(w, O)' /\ Linking(w)'
      BY <2>1 DEF Restoring, Linking
    <2>9. Phase(w, O)'
      BY <2>1, <2>2, <2>7, <2>8 DEF Phase, BeforeRecord
    <2> QED
      BY <2>1, <2>6, <2>9
  <1>7. CASE Commit(w)
    <2>1. /\ UNCHANGED <<dest, tmp, backup, latest>> /\ pc[w] = "commit" /\ journal' = Absent
          /\ pc'[w] = "written"
      BY <1>7 DEF Commit
    <2>2. journal.owner = w
      BY <1>t, <2>1 DEF InstallSteps
    <2>3. Gone(w) /\ Cleared(w) /\ \A m \in Members : dest[m] = w
      BY <1>l, <2>1 DEF Replacing
    <2>4. Whole(dest)
      BY <2>3 DEF Whole
    <2>5. Resting'
      BY <2>1, <2>2, <2>3, <2>4, Unjournaled
    <2>6. pc'[w] \notin Running
      BY <2>1 DEF Running, RecoverySteps, InstallSteps
    <2> QED
      BY <2>1, <2>5, <2>6
  <1>8. CASE InstallRefused(w)
    <2>1. UNCHANGED <<dest, tmp, backup, journal, latest, txn>> /\ pc'[w] = "recover"
      BY <1>8 DEF InstallRefused
    <2>2. Carried(O)'
      BY <2>1, CarriedKept
    <2>3. Phase(w, O)'
      BY <2>1 DEF Phase, BeforeRecord, InstallSteps, Restoring, Linking, Replacing
    <2> QED
      BY <2>1, <2>2, <2>3
  <1> QED
    BY <1>1, <1>2, <1>3, <1>4, <1>5, <1>6, <1>7, <1>8 DEF Replacement

(* Failures and crashes: what is known of the files does not depend on the *)
(* writer that stops.                                                      *)
LEMMA FailureStep ==
    ASSUME TypeOK, journal # Absent, NEW O \in Originals, Carried(O),
           NEW w \in Writers, pc[w] \in Running, Phase(w, O), Failure(w)
    PROVE  /\ journal' = Absent => Resting' /\ (pc'[w] \in Running => Preparing(w)')
           /\ journal' # Absent => Carried(O)' /\ (pc'[w] \in Running => Phase(w, O)')
  <1> USE DEF TypeOK, GoTo, At, Locals, History, files, Rollback, Restored, AfterRestore
  <1> USE DEF Members
  <1>t. /\ ~ At(w, "recover") => txn[w] = journal
        /\ pc[w] \in InstallSteps => journal.owner = w
        /\ pc[w] \notin BeforeRecord
        /\ Restoring(w, O) /\ Replacing(w, O)
    BY DEF Phase
  <1>1. CASE InstallFails(w)
    <2>1. UNCHANGED <<dest, tmp, backup, journal, latest, txn>> /\ pc'[w] = "recover"
      BY <1>1 DEF InstallFails
    <2>2. Carried(O)'
      BY <2>1, CarriedKept
    <2>3. Phase(w, O)'
      BY <2>1 DEF Phase, BeforeRecord, InstallSteps, Restoring, Linking, Replacing
    <2> QED
      BY <2>1, <2>2, <2>3
  <1>2. CASE CommitSyncFails(w)
    <2>1. /\ UNCHANGED <<dest, tmp, backup, latest>> /\ pc[w] = "commit" /\ journal' = Absent
          /\ pc'[w] = "recover"
      BY <1>2 DEF CommitSyncFails
    <2>2. journal.owner = w
      BY <1>t, <2>1 DEF InstallSteps
    <2>3. Gone(w) /\ Cleared(w) /\ \A m \in Members : dest[m] = w
      BY <1>t, <2>1 DEF Replacing
    <2>4. Whole(dest)
      BY <2>3 DEF Whole
    <2>5. Resting'
      BY <2>1, <2>2, <2>3, <2>4, Unjournaled
    <2>6. Preparing(w)'
      BY <2>1 DEF Preparing
    <2> QED
      BY <2>1, <2>5, <2>6
  <1>3. CASE WriteFails(w) \/ RecordSyncFails(w)
    BY <1>3, <1>t DEF WriteFails, RecordSyncFails, BeforeRecord
  <1>4. CASE RecoveryFails(w) \/ PairCrash(w)
    <2>1. /\ UNCHANGED <<dest, tmp, backup, journal, latest>>
          /\ pc'[w] \in {"recoveryFailed", "crashed"}
      BY <1>4 DEF RecoveryFails, PairCrash
    <2>2. Carried(O)'
      BY <2>1, CarriedKept
    <2>3. pc'[w] \notin Running
      BY <2>1 DEF Running, RecoverySteps, InstallSteps
    <2> QED
      BY <2>1, <2>2, <2>3
  <1>5. CASE RestoreFails(w)
    <2>1. /\ UNCHANGED <<dest, tmp, backup, journal, latest, txn>>
          /\ pc[w] \in {"unlink", "putBack"} /\ Restored(w, TRUE)
      BY <1>5 DEF RestoreFails
    <2>2. /\ broken'[w] = TRUE
          /\ \/ member[w] = "results" /\ pc'[w] = "unlink" /\ member'[w] = "decision"
             \/ pc'[w] = "recoveryFailed"
      BY <2>1
    <2>3. Carried(O)'
      BY <2>1, CarriedKept
    <2>4. (Gone(journal.owner) => \A m \in Members : dest[m] # journal.owner)'
      BY <1>t, <2>1 DEF Restoring, Gone
    <2>5. pc'[w] \in Running => pc'[w] = "unlink"
      BY <2>2 DEF Running, RecoverySteps, InstallSteps
    <2>6. pc'[w] = "unlink" => Restoring(w, O)'
      BY <2>1, <2>2, <2>4 DEF Restoring, Gone
    <2>7. pc'[w] = "unlink" => Linking(w)' /\ Replacing(w, O)'
      BY DEF Linking, Replacing
    <2>8. pc'[w] = "unlink" => Phase(w, O)'
      BY <1>t, <2>1, <2>6, <2>7 DEF Phase, BeforeRecord, InstallSteps
    <2> QED
      BY <2>1, <2>3, <2>5, <2>8
  <1> QED
    BY <1>1, <1>2, <1>3, <1>4, <1>5 DEF Failure

(* Every step keeps PairInv, unless it makes an overlap.                   *)
LEMMA PairInvStep ==
    ASSUME TransactionInv, NEW w \in Writers, Taken(w)
    PROVE  PairInv'
  <1> SUFFICES ASSUME ~ overlapped'
               PROVE  Settled' /\ Underway'
    BY DEF PairInv
  <1> USE DEF TransactionInv
  <1>1. ~ overlapped /\ \A v \in Writers \ {w} : pc'[v] \notin Running
    BY Alone
  <1>2. Settled /\ Underway
    BY <1>1 DEF PairInv
  <1>3. SUFFICES
            /\ journal' = Absent => Resting' /\ (pc'[w] \in Running => Preparing(w)')
            /\ journal' # Absent =>
                   \E O \in Originals : Carried(O)' /\ (pc'[w] \in Running => Phase(w, O)')
    <2>1. (journal' = Absent => Resting' /\ (pc'[w] \in Running => Preparing(w)')) => Settled'
      BY <1>1 DEF Settled
    <2>2. ASSUME NEW O \in Originals, pc'[w] \in Running => Phase(w, O)'
          PROVE  \A v \in Writers : pc'[v] \in Running => Phase(v, O)'
      BY <1>1, <2>2
    <2>3. (journal' # Absent =>
               \E O \in Originals : Carried(O)' /\ (pc'[w] \in Running => Phase(w, O)')) => Underway'
      BY <2>2 DEF Underway, Originals
    <2> QED
      BY <2>1, <2>3
  <1>4. CASE Begin(w)
    <2>1. UNCHANGED <<dest, tmp, backup, journal, latest>> /\ pc'[w] = "recover"
      BY <1>4 DEF Begin, GoTo, files, TypeOK
    <2>2. CASE journal = Absent
      <3>1. Resting'
        BY <1>2, <2>1, <2>2 DEF Settled, Resting, Whole, Gone, Cleared
      <3>2. Preparing(w)'
        BY <2>1 DEF Preparing, At
      <3> QED
        BY <2>1, <2>2, <3>1, <3>2
    <2>3. CASE journal # Absent
      <3>1. PICK O \in Originals : Carried(O)
        BY <1>2, <2>3 DEF Underway
      <3>2. Carried(O)'
        BY <2>1, <2>3, <3>1, CarriedKept
      <3>3. Phase(w, O)'
        BY <2>1 DEF Phase, BeforeRecord, InstallSteps, Restoring, Linking, Replacing, At
      <3> QED
        BY <2>1, <2>3, <3>2, <3>3
    <2> QED
      BY <2>2, <2>3
  <1>5. CASE ~ Begin(w)
    <2>1. pc[w] \in Running
      BY <1>5, Runs
    <2>2. CASE journal = Absent
      <3>1. Resting /\ Preparing(w)
        BY <1>2, <2>1, <2>2 DEF Settled
      <3> QED
        BY <1>5, <2>1, <2>2, <3>1, PreparingStep
    <2>3. CASE journal # Absent
      <3>1. PICK O \in Originals : Carried(O) /\ Phase(w, O)
        BY <1>2, <2>1, <2>3 DEF Underway, Originals
      <3>2. Recovery(w) \/ Replacement(w) \/ Failure(w)
        BY <1>5 DEF Taken
      <3>3. /\ journal' = Absent => Resting' /\ (pc'[w] \in Running => Preparing(w)')
            /\ journal' # Absent => Carried(O)' /\ (pc'[w] \in Running => Phase(w, O)')
        BY <2>1, <2>3, <3>1, <3>2, RecoveryStep, ReplacementStep, FailureStep
      <3> QED
        BY <3>3
    <2> QED
      BY <2>2, <2>3
  <1> QED
    BY <1>4, <1>5

(* Every step keeps the inductive invariant.                               *)
LEMMA TransactionInvStep ==
    ASSUME TransactionInv, [PairNext]_pairVars
    PROVE  TransactionInv'
  <1>1. ASSUME NEW w \in Writers, Taken(w) PROVE TransactionInv'
    <2>1. TypeOK'
      BY <1>1, TypeOKStep DEF TransactionInv
    <2>2. OneAtATime'
      BY <1>1, Alone DEF TransactionInv
    <2>3. FreshInv'
      BY <1>1, FreshStep DEF TransactionInv
    <2>4. PairInv'
      BY <1>1, PairInvStep
    <2> QED
      BY <2>1, <2>2, <2>3, <2>4 DEF TransactionInv
  <1>2. CASE UNCHANGED pairVars
    <2> USE <1>2 DEF pairVars, TransactionInv
    <2>1. TypeOK'
      BY DEF TypeOK
    <2>2. OneAtATime'
      BY DEF OneAtATime
    <2>3. FreshInv'
      BY DEF FreshInv, Fresh, Unseen, Cleared, At
    <2>4. \A O : Carried(O) = Carried(O)'
      BY DEF Carried, Gone
    <2>5. \A O, w : Phase(w, O) = Phase(w, O)'
      <3>1. \A O, w : Restoring(w, O) = Restoring(w, O)'
        BY DEF Restoring, Gone, Cleared, Whole, At
      <3>2. \A O, w : Replacing(w, O) = Replacing(w, O)'
        BY DEF Replacing, Gone, Cleared, At
      <3>3. \A w : Linking(w) = Linking(w)'
        BY DEF Linking, Cleared, At
      <3> QED
        BY <3>1, <3>2, <3>3 DEF Phase, At
    <2>6. Underway => Underway'
      BY <2>4, <2>5 DEF Underway
    <2>7. Settled => Settled'
      BY DEF Settled, Resting, Preparing, Whole, Gone, Cleared, At
    <2>8. PairInv'
      BY <2>6, <2>7 DEF PairInv
    <2> QED
      BY <2>1, <2>2, <2>3, <2>8
  <1> QED
    BY <1>1, <1>2 DEF PairNext, Taken

(***************************************************************************)
(* What follows.                                                           *)
(***************************************************************************)

(* Every state that BenchmarkPair reaches satisfies the inductive          *)
(* invariant.                                                              *)
THEOREM TransactionInductive == PairSpec => []TransactionInv
  BY TransactionInvInit, TransactionInvStep, PTL DEF PairSpec

(* Unless two writers overlap, results.json and decision.md are of one     *)
(* writer whenever there is no journal, and nothing of the last            *)
(* transaction is left over, wherever writers and recoveries crash and     *)
(* whatever call fails (write_benchmark_pair, recover_benchmark_pair).     *)
THEOREM PairIsKept == PairSpec => []PairKept
  <1>1. TransactionInv => PairKept
    BY DEF TransactionInv, PairInv, Settled, Resting, Whole, Gone, Cleared, PairKept, PairWhole,
           TransactionLeavesNothing
  <1> QED
    BY <1>1, TransactionInductive, PTL

(* Unless two writers overlap, only the transaction of a writer that may   *)
(* replace removes or replaces a file of one that has succeeded, whatever  *)
(* a recovery has to roll back (replace_existing).                         *)
THEOREM WrittenIsKept == PairSpec => WrittenStays
  <1>1. ASSUME TransactionInv, PairNext, NEW u \in Writers, NEW m \in Members,
               ~ overlapped, At(u, "written"), dest[m] = u, dest'[m] # u
        PROVE  journal # Absent /\ journal.owner \in Replace
    <2> USE DEF TransactionInv
    <2>1. PICK w \in Writers : Taken(w)
      BY <1>1 DEF PairNext, Taken
    <2>2. Unlink(w) \/ PutBack(w) \/ Link(w) \/ MoveAside(w) \/ Rename(w)
      <3>1. dest' # dest
        BY <1>1
      <3> QED
        BY <2>1, <3>1
           DEF Taken, Recovery, Replacement, Failure, files, Abandon, Begin, NoJournal,
               ReadJournal, DropBackup, PutBackRefused, DropTmp, Unjournal, Check, WriteTmp,
               Record, RecordRefused, UnlinkTmp, RemoveBackup, Commit, InstallRefused,
               InstallFails, CommitSyncFails, WriteFails, RecordSyncFails, RecoveryFails,
               RestoreFails, PairCrash
    <2>3. pc[w] \in {"unlink", "putBack", "link", "moveAside", "rename"}
      BY <2>2 DEF Unlink, PutBack, Link, MoveAside, Rename, At
    <2>4. pc[w] \in Running
      BY <2>3 DEF Running, RecoverySteps, InstallSteps
    <2>5. journal # Absent
      <3>1. ~ Preparing(w)
        BY <2>3 DEF Preparing
      <3> QED
        BY <1>1, <2>4, <3>1 DEF PairInv, Settled
    <2>6. PICK O \in Originals : Carried(O)
      BY <1>1, <2>5 DEF PairInv, Underway
    <2>7. journal.owner # u
      BY <1>1, <2>5 DEF FreshInv
    <2>8. u # Absent
      BY PairAssumption DEF Contents
    <2> QED
      BY <1>1, <2>5, <2>6, <2>7, <2>8 DEF Carried
  <1>2. TransactionInv /\ [PairNext]_pairVars =>
            [\A w \in Writers, m \in Members :
                ~ overlapped /\ At(w, "written") /\ dest[m] = w /\ dest'[m] # w
                    => journal # Absent /\ journal.owner \in Replace]_pairVars
    BY <1>1
  <1> QED
    BY <1>2, TransactionInductive, PTL DEF PairSpec, WrittenStays

--------------------------------------------------------------------------------
(***************************************************************************)
(* What is released of a version: the inductive invariant.                  *)
(***************************************************************************)
W == INSTANCE WellFoundedInduction

(* The steps of a run of Release Publish, by what must be so when a run is   *)
(* at one of them: the tag is of its commit; its project is dated; it has    *)
(* found the release it works on.                                            *)
FoundSteps == {"refresh", "remove", "send", "attach", "verify", "done"}
DatedSteps == FoundSteps \cup {"find", "create", "list"}
TaggedSteps == DatedSteps \cup {"homebrew", "manifest"}
PublishSteps ==
    TaggedSteps \cup {"candidate", "revalidate", "inspect", "upload", "registry", "tag"}

(* The files of a release, by name, and the run each is a build of.           *)
FileNames == {"linux", "windows", "SHA256SUMS", "manifest", "formula"}
FileMaps == UNION {[names -> Nat] : names \in SUBSET FileNames}

(* What is on crates.io, and the records of runs and of releases.             *)
CrateStates == [bytes : Release!Crates, yanked : BOOLEAN, by : {"workflow", "people"}]
PublishRuns ==
    [mode : {"publish", "recover"}, control : Release!Revisions, rev : Release!Revisions,
     asked : Release!Crates, crateSeen : BOOLEAN, tagSeen : BOOLEAN, id : Nat, sent : 0 .. 4,
     step : PublishSteps, status : {"running", "failed", "success"}]
ReleaseStates ==
    [tagged : BOOLEAN, named : BOOLEAN, target : Release!Revisions, public : BOOLEAN,
     files : FileMaps]

(* Types.                                                                    *)
ReleaseTypes ==
    /\ main \in Release!Revisions
    /\ crate \in CrateStates \cup {None}
    /\ tag \in Release!Revisions \cup {None}
    /\ publishes \in Seq(PublishRuns)
    /\ releases \in Seq(ReleaseStates)
    /\ homebrew \in [rev : Release!Revisions, ok : BOOLEAN] \cup {None}
    /\ verified \in [id : Nat, status : {"running", "failed", "success"}] \cup {None}
    /\ scoop \in [id : Nat, rev : Release!Revisions \cup {None}, ok : BOOLEAN] \cup {None}

(* The files of a release.                                                   *)
Held(id) == releases[id].files

(* crates.io has the crate the run asked for, and the tag is of its commit.  *)
InCrates(run) == crate # None /\ crate.bytes = run.asked
OfTheTag(run) == InCrates(run) /\ tag = run.rev

(* A run past its first check works on a clean crate of a commit that is of  *)
(* this version.                                                             *)
CheckedRun(run) ==
    /\ run.asked = Release!Packed(run.rev)
    /\ Project[run.rev].version = "this"
    /\ run.mode = "publish" => Release!VersionValid(Project[run.rev], TRUE)

(* What a run whose build is in a release has shown of its commit.           *)
ShippedRun(run) == CheckedRun(run) /\ OfTheTag(run) /\ Project[run.rev].dated

(* At most one run is at work, and none that has ended has a release open.   *)
OneAtWork ==
    /\ \A i, j \in DOMAIN publishes :
          publishes[i].status = "running" /\ publishes[j].status = "running" => i = j
    /\ \A i \in DOMAIN publishes : publishes[i].status # "running" =>
          publishes[i].step \in {"candidate", "revalidate", "manifest", "done"}

(* What each run has found out by the step it is at.                         *)
RunSound(run) ==
    /\ run.step # "candidate" => CheckedRun(run)
    /\ run.tagSeen => tag = run.rev
    /\ run.step = "tag" => InCrates(run)
    /\ run.step \in TaggedSteps => OfTheTag(run)
    /\ run.step \in DatedSteps => Project[run.rev].dated
    /\ run.step \in FoundSteps => run.id # 0
    /\ run.id \in {0} \cup DOMAIN releases
RunsSound == \A i \in DOMAIN publishes : RunSound(publishes[i])

(* While a run sends files, all that are there are of its build.             *)
SendsAlone ==
    \A i \in DOMAIN publishes : publishes[i].step = "send" =>
        \A f \in DOMAIN Held(publishes[i].id) : Held(publishes[i].id)[f] = i

(* The files of a release are of one build, and its run has shown its commit.*)
FilesSound ==
    \A id \in DOMAIN releases :
        \A f \in DOMAIN Held(id) : /\ \A g \in DOMAIN Held(id) : Held(id)[f] = Held(id)[g]
                                   /\ Held(id)[f] \in DOMAIN publishes
                                   /\ ShippedRun(publishes[Held(id)[f]])

(* All files are there, as `Verify` asks.                                     *)
Full(id) == DOMAIN Held(id) = FileNames

(* A crate the workflow has published is of a dated, well-formed project.    *)
CrateSound ==
    crate # None /\ crate.by = "workflow" =>
        Release!VersionValid(Project[crate.bytes.rev], TRUE) /\ ~crate.bytes.dirty

(* What the receivers and the verification were told of.                     *)
ToldSound ==
    /\ homebrew # None => /\ crate # None /\ crate.bytes = Release!Packed(homebrew.rev)
                          /\ tag = homebrew.rev
    /\ verified # None => verified.id \in DOMAIN releases /\ releases[verified.id].public
    /\ scoop # None => /\ scoop.id \in DOMAIN releases /\ releases[scoop.id].public
                       /\ Full(scoop.id) /\ scoop.rev = tag

(* A draft becomes public only where no release is.                          *)
OnePublic ==
    \A id, other \in DOMAIN releases : releases[id].public /\ releases[other].public => id = other

(* A run that has succeeded left its release full; it still is, unless       *)
(* another run has worked on it or a second release has been made.           *)
SuccessSound ==
    \A i \in DOMAIN publishes : publishes[i].status = "success" =>
        /\ publishes[i].id \in DOMAIN releases
        /\ \/ Full(publishes[i].id)
           \/ \E j \in DOMAIN publishes : j # i /\ publishes[j].id = publishes[i].id
           \/ Len(releases) > 1

(* The inductive invariant.                                                  *)
ReleaseInv ==
    /\ ReleaseTypes /\ OneAtWork /\ RunsSound /\ SendsAlone /\ FilesSound
    /\ CrateSound /\ ToldSound /\ OnePublic /\ SuccessSound
--------------------------------------------------------------------------------
(* An element of a sequence is replaced.                                    *)
LEMMA Replaced ==
    ASSUME NEW S, NEW s \in Seq(S), NEW i \in DOMAIN s, NEW e \in S, NEW t, t = [s EXCEPT ![i] = e]
    PROVE  /\ t \in Seq(S) /\ Len(t) = Len(s) /\ DOMAIN t = DOMAIN s
           /\ t[i] = e /\ \A j \in DOMAIN s \ {i} : t[j] = s[j]
  OBVIOUS

(* An element is appended to a sequence.                                    *)
LEMMA Appended ==
    ASSUME NEW S, NEW s \in Seq(S), NEW e \in S, NEW t, t = Append(s, e)
    PROVE  /\ t \in Seq(S) /\ Len(t) = Len(s) + 1 /\ DOMAIN t = DOMAIN s \cup {Len(s) + 1}
           /\ Len(s) + 1 \notin DOMAIN s
           /\ t[Len(s) + 1] = e /\ \A j \in DOMAIN s : t[j] = s[j]
  OBVIOUS

(* The runs and the releases are numbered from 1, and each has its type.    *)
LEMMA ReleaseElements ==
    ASSUME ReleaseTypes
    PROVE  /\ \A i \in DOMAIN publishes : publishes[i] \in PublishRuns
           /\ \A id \in DOMAIN releases : releases[id] \in ReleaseStates
           /\ \A id \in DOMAIN releases : id \in Nat /\ id # 0
           /\ \A i \in DOMAIN publishes : i \in Nat
  BY DEF ReleaseTypes

(* Before a version is published nothing of it is anywhere.                 *)
LEMMA ReleaseStarts == Release!Init => ReleaseInv
<1> SUFFICES ASSUME Release!Init
             PROVE  ReleaseInv
  OBVIOUS
<1>1. /\ DOMAIN publishes = {} /\ DOMAIN releases = {}
      /\ publishes \in Seq(PublishRuns) /\ releases \in Seq(ReleaseStates)
      /\ main \in Release!Revisions
      /\ crate = None /\ homebrew = None /\ verified = None /\ scoop = None /\ tag = None
  BY ProjectAssumption DEF Release!Init, Release!Revisions
<1> QED
  BY <1>1 DEF ReleaseInv, ReleaseTypes, OneAtWork, RunsSound, SendsAlone, FilesSound, CrateSound,
              ToldSound, OnePublic, SuccessSound

(* What a run was dispatched with never changes.                              *)
SameRun(run, other) ==
    /\ run.mode = other.mode /\ run.control = other.control
    /\ run.rev = other.rev /\ run.asked = other.asked

(* A step of one run that changes no release and neither crate nor tag: it  *)
(* is enough that what the run has found out by its new step is so.         *)
LEMMA RunMoves ==
    ASSUME ReleaseInv, NEW i \in DOMAIN publishes, publishes[i].status = "running",
           NEW run \in PublishRuns, publishes' = [publishes EXCEPT ![i] = run],
           SameRun(run, publishes[i]), RunSound(run),
           run.id = publishes[i].id \/ run.id # 0,
           run.status # "running" => run.step \in {"candidate", "revalidate", "manifest", "done"},
           run.status = "success" => run.id # 0 /\ Full(run.id),
           run.step = "send" => \A f \in DOMAIN Held(run.id) : Held(run.id)[f] = i,
           UNCHANGED <<main, crate, tag, releases, verified, scoop>>,
           \/ homebrew' = homebrew
           \/ /\ publishes[i].step = "homebrew"
              /\ homebrew' = [rev |-> publishes[i].rev, ok |-> FALSE]
    PROVE  ReleaseInv'
<1>1. /\ publishes' \in Seq(PublishRuns) /\ DOMAIN publishes' = DOMAIN publishes
      /\ publishes'[i] = run /\ \A j \in DOMAIN publishes \ {i} : publishes'[j] = publishes[j]
      /\ \A j \in DOMAIN publishes : SameRun(publishes'[j], publishes[j])
  BY Replaced DEF ReleaseInv, ReleaseTypes, SameRun
<1>2. ReleaseTypes'
  <2>1. publishes[i].rev \in Release!Revisions
    BY ReleaseElements DEF ReleaseInv, PublishRuns
  <2>2. homebrew' \in [rev : Release!Revisions, ok : BOOLEAN] \cup {None}
    <3>1. homebrew \in [rev : Release!Revisions, ok : BOOLEAN] \cup {None}
      BY DEF ReleaseInv, ReleaseTypes
    <3>2. [rev |-> publishes[i].rev, ok |-> FALSE] \in [rev : Release!Revisions, ok : BOOLEAN]
      BY <2>1
    <3> QED  BY <3>1, <3>2
  <2> QED  BY <1>1, <2>2 DEF ReleaseInv, ReleaseTypes
<1>3. OneAtWork'
  BY <1>1 DEF ReleaseInv, OneAtWork
<1>4. RunsSound'
  <2>1. \A j \in DOMAIN publishes : RunSound(publishes'[j])
    BY <1>1 DEF ReleaseInv, RunsSound
  <2>2. \A j \in DOMAIN publishes : RunSound(publishes'[j]) => RunSound(publishes[j])'
    BY DEF RunSound, CheckedRun, OfTheTag, InCrates
  <2> QED  BY <1>1, <2>1, <2>2 DEF RunsSound
<1>5. SendsAlone'
  <2>1. \A j \in DOMAIN publishes : publishes'[j].step = "send" =>
            \A f \in DOMAIN Held(publishes'[j].id) : Held(publishes'[j].id)[f] = j
    BY <1>1 DEF ReleaseInv, SendsAlone
  <2>2. \A j \in DOMAIN publishes : Held(publishes[j].id)' = Held(publishes'[j].id)
    BY DEF Held
  <2> SUFFICES ASSUME NEW j \in DOMAIN publishes, publishes'[j].step = "send"
               PROVE  \A f \in DOMAIN Held(publishes[j].id)' : Held(publishes[j].id)'[f] = j
    BY <1>1 DEF SendsAlone
  <2> QED  BY <2>1, <2>2
<1>6. FilesSound'
  <2>1. \A j \in DOMAIN publishes : ShippedRun(publishes[j]) => ShippedRun(publishes[j])'
    BY <1>1 DEF ShippedRun, CheckedRun, OfTheTag, InCrates, SameRun
  <2>2. \A id \in DOMAIN releases : Held(id)' = Held(id)
    BY DEF Held
  <2> QED  BY <1>1, <2>1, <2>2 DEF ReleaseInv, FilesSound
<1>7. CrateSound' /\ OnePublic'
  BY <1>1 DEF ReleaseInv, CrateSound, OnePublic
<1>8. ToldSound'
  <2>1. publishes[i].step = "homebrew" =>
            crate # None /\ crate.bytes = Release!Packed(publishes[i].rev) /\ tag = publishes[i].rev
    BY DEF ReleaseInv, RunsSound, RunSound, TaggedSteps, OfTheTag, InCrates, CheckedRun
  <2>2. homebrew' # None => /\ crate' # None /\ crate'.bytes = Release!Packed(homebrew'.rev)
                            /\ tag' = homebrew'.rev
    BY <2>1 DEF ReleaseInv, ToldSound
  <2> QED  BY <2>2 DEF ReleaseInv, ToldSound, Full, Held
<1>9. SuccessSound'
  <2> SUFFICES ASSUME NEW k \in DOMAIN publishes, publishes'[k].status = "success"
               PROVE  /\ publishes'[k].id \in DOMAIN releases
                      /\ \/ Full(publishes'[k].id)
                         \/ \E j \in DOMAIN publishes : j # k /\ publishes'[j].id = publishes'[k].id
                         \/ Len(releases) > 1
    BY <1>1 DEF SuccessSound, Full, Held
  <2>1. CASE k = i
    BY <1>1, <2>1 DEF RunSound
  <2>2. CASE k # i
    <3>1. publishes'[k] = publishes[k] /\ publishes[k].status = "success"
      BY <1>1, <2>2
    <3>2. publishes[k].id \in DOMAIN releases
      BY <3>1 DEF ReleaseInv, SuccessSound
    <3>3. CASE run.id # publishes[i].id /\ publishes[i].id = publishes[k].id
      <4>1. run.id \in DOMAIN releases /\ run.id # publishes[k].id
        BY <3>3 DEF RunSound
      <4>2. Len(releases) > 1
        BY <4>1, <3>2 DEF ReleaseInv, ReleaseTypes
      <4> QED  BY <3>1, <3>2, <4>2
    <3>4. CASE ~(run.id # publishes[i].id /\ publishes[i].id = publishes[k].id)
      BY <1>1, <3>1, <3>2, <3>4 DEF ReleaseInv, SuccessSound
    <3> QED  BY <3>3, <3>4
  <2> QED  BY <2>1, <2>2
<1> QED  BY <1>2, <1>3, <1>4, <1>5, <1>6, <1>7, <1>8, <1>9 DEF ReleaseInv

--------------------------------------------------------------------------------
(* A run at a step has found out what that step rests on.                   *)
LEMMA RunAt ==
    ASSUME ReleaseInv, NEW i \in DOMAIN publishes, NEW step, Release!At(i, step)
    PROVE  /\ publishes[i] \in PublishRuns /\ publishes[i].status = "running"
           /\ publishes[i].step = step /\ RunSound(publishes[i])
  BY ReleaseElements DEF ReleaseInv, RunsSound, Release!At, Release!Running

(* A run goes on to a step that needs no more than it has found out.        *)
LEMMA RunGoesTo ==
    ASSUME ReleaseInv, NEW i \in DOMAIN publishes, NEW step \in PublishSteps \ {"send"},
           publishes[i].status = "running", Release!To(i, step),
           RunSound([publishes[i] EXCEPT !.step = step]),
           UNCHANGED <<main, crate, tag, releases, verified, scoop, homebrew>>
    PROVE  ReleaseInv'
<1> DEFINE run == [publishes[i] EXCEPT !.step = step]
<1>1. publishes[i] \in PublishRuns
  BY ReleaseElements DEF ReleaseInv
<1>2. /\ run \in PublishRuns /\ run.id = publishes[i].id /\ run.status = "running" /\ run.step = step
      /\ SameRun(run, publishes[i])
  BY <1>1 DEF PublishRuns, SameRun
<1>3. publishes' = [publishes EXCEPT ![i] = run]
  BY DEF Release!To
<1> HIDE DEF run
<1>4. RunSound(run)
  BY DEF run
<1> QED  BY <1>2, <1>3, <1>4, RunMoves

(* The job `candidate` (release-publish.yml) lets only a clean crate of a   *)
(* commit of this version pass.                                             *)
LEMMA ReleaseCandidate ==
    ASSUME ReleaseInv, NEW i \in DOMAIN publishes, Release!Candidate(i)
    PROVE  ReleaseInv'
<1> DEFINE run == [publishes[i] EXCEPT !.step = "revalidate"]
<1>1. /\ publishes[i] \in PublishRuns /\ publishes[i].status = "running"
      /\ RunSound(publishes[i])
  BY RunAt DEF Release!Candidate
<1>2. /\ publishes[i].asked \in Release!Crates
      /\ publishes[i].asked.rev = publishes[i].rev /\ ~publishes[i].asked.dirty
      /\ Project[publishes[i].rev].version = "this"
      /\ publishes[i].mode = "publish" => Release!VersionValid(Project[publishes[i].rev], TRUE)
  BY <1>1 DEF PublishRuns, Release!Candidate, Release!CrateVerified, Release!ReleaseStateValid
<1>3. CheckedRun(publishes[i])
  BY <1>2 DEF CheckedRun, Release!Packed, Release!Crates
<1>4. RunSound(run)
  BY <1>1, <1>3 DEF RunSound, PublishRuns, CheckedRun, TaggedSteps, DatedSteps, FoundSteps
<1> QED  BY <1>1, <1>4, RunGoesTo
            DEF PublishSteps, Release!Candidate, Release!world, Release!receivers

(* `Revalidate dispatch-authorized release identity`.                       *)
LEMMA ReleaseRevalidate ==
    ASSUME ReleaseInv, NEW i \in DOMAIN publishes, Release!Revalidate(i)
    PROVE  ReleaseInv'
<1> DEFINE run == [publishes[i] EXCEPT !.step = "inspect"]
<1>1. /\ publishes[i] \in PublishRuns /\ publishes[i].status = "running"
      /\ publishes[i].step = "revalidate" /\ RunSound(publishes[i])
  BY RunAt DEF Release!Revalidate
<1>2. RunSound(run)
  BY <1>1 DEF RunSound, PublishRuns, CheckedRun, TaggedSteps, DatedSteps, FoundSteps
<1> QED  BY <1>1, <1>2, RunGoesTo
            DEF PublishSteps, Release!Revalidate, Release!world, Release!receivers

(* `Download and verify exact registry bytes`: from here on the crate on    *)
(* crates.io is the candidate's.                                            *)
LEMMA ReleaseRegistry ==
    ASSUME ReleaseInv, NEW i \in DOMAIN publishes, Release!Registry(i)
    PROVE  ReleaseInv'
<1> DEFINE run == [publishes[i] EXCEPT !.step = "tag"]
<1>1. /\ publishes[i] \in PublishRuns /\ publishes[i].status = "running"
      /\ publishes[i].step = "registry" /\ RunSound(publishes[i])
  BY RunAt DEF Release!Registry
<1>2. InCrates(publishes[i])
  BY DEF Release!Registry, Release!InRegistry, InCrates
<1>3. RunSound(run)
  BY <1>1, <1>2 DEF RunSound, PublishRuns, CheckedRun, InCrates, TaggedSteps, DatedSteps, FoundSteps
<1> QED  BY <1>1, <1>3, RunGoesTo
            DEF PublishSteps, Release!Registry, Release!world, Release!receivers

(* `Inspect immutable registry and tag state`: a tag it sees is of the      *)
(* run's commit.                                                            *)
LEMMA ReleaseInspect ==
    ASSUME ReleaseInv, NEW i \in DOMAIN publishes, Release!Inspect(i)
    PROVE  ReleaseInv'
<1> DEFINE run == [publishes[i] EXCEPT !.crateSeen = crate # None, !.tagSeen = tag # None,
                                       !.step = "upload"]
<1>1. /\ publishes[i] \in PublishRuns /\ publishes[i].status = "running"
      /\ publishes[i].step = "inspect" /\ RunSound(publishes[i])
  BY RunAt DEF Release!Inspect
<1>2. /\ run \in PublishRuns /\ run.id = publishes[i].id /\ run.status = "running"
      /\ run.step = "upload" /\ SameRun(run, publishes[i])
  BY <1>1 DEF PublishRuns, PublishSteps, SameRun
<1>3. publishes' = [publishes EXCEPT ![i] = run]
  BY <1>1 DEF Release!Inspect, PublishRuns
<1>4. RunSound(run)
  BY <1>1
     DEF RunSound, PublishRuns, CheckedRun, TaggedSteps, DatedSteps, FoundSteps, Release!Inspect
<1> HIDE DEF run
<1> QED  BY <1>1, <1>2, <1>3, <1>4, RunMoves DEF Release!Inspect, Release!world, Release!receivers

(* `Dispatch immutable release identity to Homebrew tap`: the crate and the *)
(* tag are of the run's commit by then.                                     *)
LEMMA ReleaseDispatchHomebrew ==
    ASSUME ReleaseInv, NEW i \in DOMAIN publishes, Release!DispatchHomebrew(i)
    PROVE  ReleaseInv'
<1> DEFINE run == [publishes[i] EXCEPT !.crateSeen = FALSE, !.tagSeen = FALSE, !.step = "manifest"]
<1>1. /\ publishes[i] \in PublishRuns /\ publishes[i].status = "running"
      /\ publishes[i].step = "homebrew" /\ RunSound(publishes[i])
  BY RunAt DEF Release!DispatchHomebrew
<1>2. /\ run \in PublishRuns /\ run.id = publishes[i].id /\ run.status = "running"
      /\ run.step = "manifest" /\ SameRun(run, publishes[i])
  BY <1>1 DEF PublishRuns, PublishSteps, TaggedSteps, SameRun
<1>3. publishes' = [publishes EXCEPT ![i] = run]
  BY <1>1 DEF Release!DispatchHomebrew, PublishRuns
<1>4. RunSound(run)
  BY <1>1
     DEF RunSound, PublishRuns, CheckedRun, OfTheTag, InCrates, TaggedSteps, DatedSteps, FoundSteps
<1> HIDE DEF run
<1> QED  BY <1>1, <1>2, <1>3, <1>4, RunMoves DEF Release!DispatchHomebrew, Release!world

(* `Generate release manifest, checksums, and Formula`: a project without a *)
(* date does not pass.                                                      *)
LEMMA ReleaseManifest ==
    ASSUME ReleaseInv, NEW i \in DOMAIN publishes, Release!Manifest(i)
    PROVE  ReleaseInv'
<1> DEFINE run == [publishes[i] EXCEPT !.step = "find"]
<1>1. /\ publishes[i] \in PublishRuns /\ publishes[i].status = "running"
      /\ publishes[i].step = "manifest" /\ RunSound(publishes[i])
  BY RunAt DEF Release!Manifest
<1>2. RunSound(run)
  BY <1>1 DEF RunSound, PublishRuns, CheckedRun, OfTheTag, InCrates, TaggedSteps, DatedSteps,
              FoundSteps, Release!Manifest
<1> QED  BY <1>1, <1>2, RunGoesTo
        DEF PublishSteps, TaggedSteps, DatedSteps, Release!Manifest, Release!world,
            Release!receivers

(* `Inspect existing GitHub Release`: the one release of the tag is taken,  *)
(* or none.                                                                 *)
LEMMA ReleaseFindRelease ==
    ASSUME ReleaseInv, NEW i \in DOMAIN publishes, Release!FindRelease(i)
    PROVE  ReleaseInv'
<1>1. /\ publishes[i] \in PublishRuns /\ publishes[i].status = "running"
      /\ publishes[i].step = "find" /\ RunSound(publishes[i])
  BY RunAt DEF Release!FindRelease
<1>2. CASE Release!To(i, "create")
  <2> DEFINE run == [publishes[i] EXCEPT !.step = "create"]
  <2>1. RunSound(run)
    BY <1>1 DEF RunSound, PublishRuns, CheckedRun, OfTheTag, InCrates, TaggedSteps, DatedSteps,
                FoundSteps
  <2> QED  BY <1>1, <1>2, <2>1, RunGoesTo
           DEF PublishSteps, TaggedSteps, DatedSteps, Release!FindRelease, Release!world,
               Release!receivers
<1>3. CASE ~Release!To(i, "create")
  <2>1. PICK id \in Release!Matches(publishes[i].rev) :
            publishes' = [publishes EXCEPT
                ![i].id = id, ![i].step = IF releases[id].public THEN "verify" ELSE "refresh"]
    BY <1>3 DEF Release!FindRelease
  <2>2. id \in DOMAIN releases /\ id \in Nat /\ id # 0
    BY ReleaseElements DEF Release!Matches, ReleaseInv
  <2> DEFINE run == [publishes[i] EXCEPT !.id = id,
                                         !.step = IF releases[id].public THEN "verify" ELSE "refresh"]
  <2>3. /\ run \in PublishRuns /\ run.id = id /\ run.status = "running"
        /\ run.step \in {"verify", "refresh"} /\ SameRun(run, publishes[i])
    BY <1>1, <2>2 DEF PublishRuns, PublishSteps, TaggedSteps, DatedSteps, FoundSteps, SameRun
  <2>4. publishes' = [publishes EXCEPT ![i] = run]
    BY <1>1, <2>1 DEF PublishRuns
  <2>5. RunSound(run)
    BY <1>1, <2>2
       DEF RunSound, PublishRuns, CheckedRun, OfTheTag, InCrates, TaggedSteps, DatedSteps,
                      FoundSteps
  <2> HIDE DEF run
  <2> QED  BY <1>1, <2>2, <2>3, <2>4, <2>5, RunMoves
           DEF Release!FindRelease, Release!world, Release!receivers
<1> QED  BY <1>2, <1>3

(* The draft that was created is found again by listing.                    *)
LEMMA ReleaseListDraft ==
    ASSUME ReleaseInv, NEW i \in DOMAIN publishes, Release!ListDraft(i)
    PROVE  ReleaseInv'
<1>1. /\ publishes[i] \in PublishRuns /\ publishes[i].status = "running"
      /\ publishes[i].step = "list" /\ RunSound(publishes[i])
  BY RunAt DEF Release!ListDraft
<1>2. PICK id \in DOMAIN releases :
          publishes' = [publishes EXCEPT ![i].id = id, ![i].step = "refresh"]
  BY DEF Release!ListDraft
<1>3. id \in Nat /\ id # 0
  BY ReleaseElements DEF ReleaseInv
<1> DEFINE run == [publishes[i] EXCEPT !.id = id, !.step = "refresh"]
<1>4. /\ run \in PublishRuns /\ run.id = id /\ run.status = "running"
      /\ run.step = "refresh" /\ SameRun(run, publishes[i])
  BY <1>1, <1>3 DEF PublishRuns, PublishSteps, TaggedSteps, DatedSteps, FoundSteps, SameRun
<1>5. publishes' = [publishes EXCEPT ![i] = run]
  BY <1>1, <1>2 DEF PublishRuns
<1>6. RunSound(run)
  BY <1>1, <1>3 DEF RunSound, PublishRuns, CheckedRun, OfTheTag, InCrates, TaggedSteps, DatedSteps,
                    FoundSteps
<1> HIDE DEF run
<1> QED  BY <1>1, <1>3, <1>4, <1>5, <1>6, RunMoves
         DEF Release!ListDraft, Release!world, Release!receivers

(* `Verify published no-op or refreshed draft assets`: a run that succeeds  *)
(* leaves its release full.                                                 *)
LEMMA ReleaseVerify ==
    ASSUME ReleaseInv, NEW i \in DOMAIN publishes, Release!Verify(i)
    PROVE  ReleaseInv'
<1> DEFINE run == [publishes[i] EXCEPT !.step = "done", !.status = "success"]
<1>1. /\ publishes[i] \in PublishRuns /\ publishes[i].status = "running"
      /\ publishes[i].step = "verify" /\ RunSound(publishes[i])
  BY RunAt DEF Release!Verify
<1>2. /\ run \in PublishRuns /\ run.id = publishes[i].id /\ run.status = "success"
      /\ run.step = "done" /\ SameRun(run, publishes[i])
  BY <1>1 DEF PublishRuns, PublishSteps, TaggedSteps, DatedSteps, FoundSteps, SameRun
<1>3. publishes' = [publishes EXCEPT ![i] = run]
  BY <1>1 DEF Release!Verify, PublishRuns
<1>4. RunSound(run) /\ run.id # 0
  BY <1>1
     DEF RunSound, PublishRuns, CheckedRun, OfTheTag, InCrates, TaggedSteps, DatedSteps, FoundSteps
<1>5. Full(publishes[i].id)
  <2>1. {Release!Files[k] : k \in DOMAIN Release!Files} = FileNames
    BY DEF Release!Files, FileNames
  <2> QED  BY <2>1 DEF Release!Verify, Full, Held
<1> HIDE DEF run
<1> QED  BY <1>1, <1>2, <1>3, <1>4, <1>5, RunMoves
            DEF Release!Verify, Release!world, Release!receivers

(* A run that fails goes back to the first step of the job it is in, and    *)
(* forgets what it had found out there.                                     *)
LEMMA ReleaseFail ==
    ASSUME ReleaseInv, NEW i \in DOMAIN publishes, Release!Fail(i)
    PROVE  ReleaseInv'
<1> DEFINE step == Release!JobOf(publishes[i].step)
           run == [publishes[i] EXCEPT !.status = "failed", !.step = step, !.sent = 0,
                                       !.crateSeen = FALSE, !.tagSeen = FALSE]
<1>1. /\ publishes[i] \in PublishRuns /\ publishes[i].status = "running"
      /\ RunSound(publishes[i])
  BY ReleaseElements DEF Release!Fail, Release!Running, ReleaseInv, RunsSound
<1>2. /\ step \in {"candidate", "revalidate", "manifest"}
      /\ step = "candidate" <=> publishes[i].step = "candidate"
      /\ step = "manifest" => publishes[i].step \in TaggedSteps
  BY <1>1 DEF PublishRuns, PublishSteps, TaggedSteps, DatedSteps, FoundSteps, Release!JobOf
<1> HIDE DEF step
<1>3. /\ run \in PublishRuns /\ run.id = publishes[i].id /\ run.status = "failed"
      /\ run.step = step /\ SameRun(run, publishes[i])
  <2>1. step \in PublishSteps /\ 0 \in 0 .. 4
    BY <1>2 DEF PublishSteps, TaggedSteps
  <2> QED  BY <1>1, <2>1 DEF PublishRuns, SameRun
<1>4. publishes' = [publishes EXCEPT ![i] = run]
  BY <1>1 DEF Release!Fail, PublishRuns, step
<1>5. RunSound(run)
  BY <1>1, <1>2 DEF RunSound, PublishRuns, CheckedRun, OfTheTag, InCrates, TaggedSteps, DatedSteps,
                    FoundSteps
<1> HIDE DEF run
<1> QED  BY <1>1, <1>2, <1>3, <1>4, <1>5, RunMoves
            DEF Release!Fail, Release!world, Release!receivers

--------------------------------------------------------------------------------
(* The files a release may have, each with the run whose build it is of.    *)
LEMMA FileMapsAre ==
    /\ <<>> \in FileMaps /\ DOMAIN <<>> = {}
    /\ \A held \in FileMaps : /\ DOMAIN held \subseteq FileNames
                              /\ \A f \in DOMAIN held : held[f] \in Nat
                              /\ DOMAIN held = {} => held = <<>>
    /\ \A names \in SUBSET FileNames : \A held \in [names -> Nat] : held \in FileMaps
<1>1. <<>> \in [{} -> Nat]
  OBVIOUS
<1>2. \A held \in [{} -> Nat] : held = <<>>
  OBVIOUS
<1> QED  BY <1>1, <1>2 DEF FileMaps

(* A step of a run that changes the release it works on: the files are of   *)
(* one build whose run has shown its commit, and a public release keeps its *)
(* files.                                                                   *)
LEMMA ReleaseMoves ==
    ASSUME ReleaseInv, NEW i \in DOMAIN publishes, publishes[i].status = "running",
           NEW id \in DOMAIN releases, id = publishes[i].id,
           NEW r \in ReleaseStates, releases' = [releases EXCEPT ![id] = r],
           r.public = releases[id].public, r.files = Held(id) \/ ~releases[id].public,
           \A f \in DOMAIN r.files :
               /\ \A g \in DOMAIN r.files : r.files[f] = r.files[g]
               /\ \/ r.files[f] = i /\ ShippedRun(publishes[i])
                  \/ f \in DOMAIN Held(id) /\ r.files[f] = Held(id)[f],
           NEW run \in PublishRuns, publishes' = [publishes EXCEPT ![i] = run],
           SameRun(run, publishes[i]), RunSound(run), run.id = id, run.status = "running",
           run.step = "send" => \A f \in DOMAIN r.files : r.files[f] = i,
           UNCHANGED <<main, crate, tag, verified, scoop, homebrew>>
    PROVE  ReleaseInv'
<1>1. /\ publishes' \in Seq(PublishRuns) /\ DOMAIN publishes' = DOMAIN publishes
      /\ publishes'[i] = run /\ \A j \in DOMAIN publishes \ {i} : publishes'[j] = publishes[j]
      /\ \A j \in DOMAIN publishes : SameRun(publishes'[j], publishes[j])
  BY Replaced DEF ReleaseInv, ReleaseTypes, SameRun
<1>2. /\ releases' \in Seq(ReleaseStates) /\ DOMAIN releases' = DOMAIN releases
      /\ Len(releases') = Len(releases)
      /\ releases'[id] = r /\ \A other \in DOMAIN releases \ {id} : releases'[other] = releases[other]
  BY Replaced DEF ReleaseInv, ReleaseTypes
<1>3. /\ Held(id)' = r.files /\ \A other \in DOMAIN releases \ {id} : Held(other)' = Held(other)
      /\ \A other \in DOMAIN releases : releases'[other].public = releases[other].public
      /\ \A other \in DOMAIN releases : releases[other].public => Held(other)' = Held(other)
  BY <1>2 DEF Held
<1>4. ReleaseTypes'
  BY <1>1, <1>2 DEF ReleaseInv, ReleaseTypes
<1>5. OneAtWork'
  BY <1>1 DEF ReleaseInv, OneAtWork
<1>6. RunsSound'
  <2>1. \A j \in DOMAIN publishes : RunSound(publishes'[j])
    BY <1>1 DEF ReleaseInv, RunsSound
  <2>2. \A j \in DOMAIN publishes : RunSound(publishes'[j]) => RunSound(publishes[j])'
    BY <1>2 DEF RunSound, CheckedRun, OfTheTag, InCrates
  <2> QED  BY <1>1, <2>1, <2>2 DEF RunsSound
<1>7. SendsAlone'
  <2>1. \A j \in DOMAIN publishes \ {i} : publishes[j].step # "send"
    BY DEF ReleaseInv, OneAtWork
  <2> QED  BY <1>1, <1>3, <2>1 DEF SendsAlone
<1>8. FilesSound'
  <2>1. \A j \in DOMAIN publishes : ShippedRun(publishes[j]) => ShippedRun(publishes[j])'
    BY <1>1 DEF ShippedRun, CheckedRun, OfTheTag, InCrates, SameRun
  <2> QED  BY <1>1, <1>2, <1>3, <2>1 DEF ReleaseInv, FilesSound
<1>9. CrateSound' /\ OnePublic'
  BY <1>2, <1>3 DEF ReleaseInv, CrateSound, OnePublic
<1>10. ToldSound'
  BY <1>2, <1>3 DEF ReleaseInv, ToldSound, Full
<1>11. SuccessSound'
  BY <1>1, <1>2, <1>3 DEF ReleaseInv, SuccessSound, Full
<1> QED  BY <1>4, <1>5, <1>6, <1>7, <1>8, <1>9, <1>10, <1>11 DEF ReleaseInv

(* A run that has found a release works on one that is there.               *)
LEMMA OpenRelease ==
    ASSUME ReleaseInv, NEW i \in DOMAIN publishes, publishes[i].step \in FoundSteps
    PROVE  /\ publishes[i].id \in DOMAIN releases
           /\ releases[publishes[i].id] \in ReleaseStates
           /\ Held(publishes[i].id) \in FileMaps
           /\ ShippedRun(publishes[i])
  BY ReleaseElements DEF ReleaseInv, RunsSound, RunSound, TaggedSteps, DatedSteps, FoundSteps,
                         ReleaseStates, Held, ShippedRun

(* A run attaches a draft to the tag and goes on.                           *)
LEMMA Attaching ==
    ASSUME ReleaseInv, NEW i \in DOMAIN publishes, publishes[i].status = "running",
           publishes[i].step \in {"refresh", "attach"}, NEW step \in {"remove", "verify"},
           ~releases[publishes[i].id].public, Release!To(i, step),
           Release!Attached(publishes[i].id, publishes[i].rev),
           UNCHANGED <<main, crate, tag, verified, scoop, homebrew>>
    PROVE  ReleaseInv'
<1> DEFINE id == publishes[i].id
           run == [publishes[i] EXCEPT !.step = step]
           r == [releases[id] EXCEPT !.tagged = TRUE, !.named = TRUE, !.target = publishes[i].rev]
<1>1. /\ publishes[i] \in PublishRuns /\ RunSound(publishes[i]) /\ publishes[i].step \in FoundSteps
  BY ReleaseElements DEF ReleaseInv, RunsSound, FoundSteps
<1>2. id \in DOMAIN releases /\ releases[id] \in ReleaseStates
  BY <1>1, OpenRelease
<1>3. /\ r \in ReleaseStates /\ r.files = Held(id) /\ r.public = releases[id].public
  BY <1>1, <1>2 DEF ReleaseStates, PublishRuns, Held
<1>4. releases' = [releases EXCEPT ![id] = r]
  BY <1>2 DEF Release!Attached, ReleaseStates
<1>5. /\ run \in PublishRuns /\ run.id = id /\ run.status = "running" /\ run.step = step
      /\ SameRun(run, publishes[i])
  BY <1>1 DEF PublishRuns, PublishSteps, TaggedSteps, DatedSteps, FoundSteps, SameRun
<1>6. publishes' = [publishes EXCEPT ![i] = run]
  BY DEF Release!To
<1>7. RunSound(run)
  BY <1>1
     DEF RunSound, PublishRuns, CheckedRun, OfTheTag, InCrates, TaggedSteps, DatedSteps, FoundSteps
<1>8. \A f \in DOMAIN r.files : /\ \A g \in DOMAIN r.files : r.files[f] = r.files[g]
                                /\ f \in DOMAIN Held(id) /\ r.files[f] = Held(id)[f]
  BY <1>2, <1>3 DEF ReleaseInv, FilesSound
<1> HIDE DEF run, r
<1> QED  BY <1>2, <1>3, <1>4, <1>5, <1>6, <1>7, <1>8, ReleaseMoves

(* Before the upload (`Refresh`) and after it (`Attach`), a draft is        *)
(* attached to the tag.                                                     *)
LEMMA ReleaseAttach ==
    ASSUME ReleaseInv, NEW i \in DOMAIN publishes, Release!Refresh(i) \/ Release!Attach(i)
    PROVE  ReleaseInv'
  BY RunAt, Attaching DEF Release!Refresh, Release!Attach, Release!receivers

(* The files an earlier run has left are removed one after another; only    *)
(* then are new ones sent.                                                  *)
LEMMA ReleaseRemoveFile ==
    ASSUME ReleaseInv, NEW i \in DOMAIN publishes, Release!RemoveFile(i)
    PROVE  ReleaseInv'
<1> DEFINE id == publishes[i].id
<1>1. /\ publishes[i] \in PublishRuns /\ publishes[i].status = "running"
      /\ publishes[i].step = "remove" /\ RunSound(publishes[i])
  BY RunAt DEF Release!RemoveFile
<1>2. id \in DOMAIN releases /\ releases[id] \in ReleaseStates /\ Held(id) \in FileMaps
  BY <1>1, OpenRelease DEF FoundSteps
<1>3. CASE releases[id].files = <<>>
  <2> DEFINE run == [publishes[i] EXCEPT !.step = "send"]
  <2>1. /\ run \in PublishRuns /\ run.id = id /\ run.status = "running" /\ run.step = "send"
        /\ SameRun(run, publishes[i])
    BY <1>1 DEF PublishRuns, PublishSteps, TaggedSteps, DatedSteps, FoundSteps, SameRun
  <2>2. publishes' = [publishes EXCEPT ![i] = run]
    BY <1>3 DEF Release!RemoveFile, Release!To
  <2>3. RunSound(run)
    BY <1>1 DEF RunSound, PublishRuns, CheckedRun, OfTheTag, InCrates, TaggedSteps, DatedSteps,
                FoundSteps
  <2>4. DOMAIN Held(id) = {}
    BY <1>3, FileMapsAre DEF Held
  <2> HIDE DEF run
  <2> QED  BY <1>1, <1>3, <2>1, <2>2, <2>3, <2>4, RunMoves DEF Release!RemoveFile, Release!receivers
<1>4. CASE releases[id].files # <<>>
  <2>1. PICK name : /\ releases' = [releases EXCEPT ![id].files =
                                [f \in DOMAIN Held(id) \ {name} |-> Held(id)[f]]]
                    /\ ~releases[id].public /\ UNCHANGED publishes
    BY <1>4 DEF Release!RemoveFile, Held
  <2> DEFINE newFiles == [f \in DOMAIN Held(id) \ {name} |-> Held(id)[f]]
             r == [releases[id] EXCEPT !.files = newFiles]
  <2>2. newFiles \in FileMaps
    <3>1. DOMAIN Held(id) \ {name} \in SUBSET FileNames
      BY <1>2, FileMapsAre
    <3>2. \A f \in DOMAIN Held(id) \ {name} : Held(id)[f] \in Nat
      BY <1>2, FileMapsAre
    <3>3. newFiles \in [DOMAIN Held(id) \ {name} -> Nat]
      BY <3>2
    <3> QED  BY <3>1, <3>3, FileMapsAre
  <2>3. DOMAIN newFiles \subseteq DOMAIN Held(id) /\ \A f \in DOMAIN newFiles : newFiles[f] = Held(id)[f]
    OBVIOUS
  <2>4. releases' = [releases EXCEPT ![id] = r]
    BY <1>2, <2>1 DEF ReleaseStates
  <2> HIDE DEF newFiles
  <2>5. r \in ReleaseStates /\ r.files = newFiles /\ r.public = releases[id].public
    BY <1>2, <2>2 DEF ReleaseStates
  <2> HIDE DEF r
  <2>6. \A f \in DOMAIN r.files : /\ \A g \in DOMAIN r.files : r.files[f] = r.files[g]
                                  /\ f \in DOMAIN Held(id) /\ r.files[f] = Held(id)[f]
    BY <1>2, <2>3, <2>5 DEF ReleaseInv, FilesSound
  <2>7. publishes' = [publishes EXCEPT ![i] = publishes[i]]
    BY <2>1 DEF ReleaseInv, ReleaseTypes
  <2>8. UNCHANGED <<main, crate, tag, verified, scoop, homebrew>>
    BY DEF Release!RemoveFile, Release!receivers
  <2>9. SameRun(publishes[i], publishes[i])
    BY DEF SameRun
  <2>10. publishes[i].id = id /\ publishes[i].step # "send"
    BY <1>1
  <2>11. r.files = Held(id) \/ ~releases[id].public
    BY <2>1
  <2> HIDE DEF id
  <2> QED  BY <1>1, <1>2, <2>4, <2>5, <2>6, <2>7, <2>8, <2>9, <2>10, <2>11, ReleaseMoves
<1> QED  BY <1>3, <1>4

(* A file is sent, into a draft that has none but those of this build.      *)
LEMMA ReleaseSendFile ==
    ASSUME ReleaseInv, NEW i \in DOMAIN publishes, Release!SendFile(i)
    PROVE  ReleaseInv'
<1> DEFINE id == publishes[i].id
           file == Release!Files[publishes[i].sent + 1]
<1>1. /\ publishes[i] \in PublishRuns /\ publishes[i].status = "running"
      /\ publishes[i].step = "send" /\ RunSound(publishes[i])
  BY RunAt DEF Release!SendFile
<1>2. /\ id \in DOMAIN releases /\ releases[id] \in ReleaseStates /\ Held(id) \in FileMaps
      /\ ShippedRun(publishes[i])
  BY <1>1, OpenRelease DEF FoundSteps
<1> DEFINE newFiles == [f \in DOMAIN Held(id) \cup {file} |-> IF f = file THEN i ELSE Held(id)[f]]
<1>3. PICK detached \in BOOLEAN :
          releases' = [releases EXCEPT ![id].files = newFiles, ![id].tagged = @ /\ ~detached]
  BY DEF Release!SendFile, Held
<1> DEFINE r == [releases[id] EXCEPT !.files = newFiles, !.tagged = @ /\ ~detached]
           last == publishes[i].sent + 1 = Len(Release!Files)
           sent == IF last THEN 0 ELSE publishes[i].sent + 1
           step == IF last THEN "attach" ELSE "send"
           run == [publishes[i] EXCEPT !.sent = sent, !.step = step]
<1>4. file \in FileNames
  BY <1>1 DEF PublishRuns, Release!Files, FileNames
<1>5. newFiles \in FileMaps
  <2>1. DOMAIN Held(id) \cup {file} \in SUBSET FileNames
    BY <1>2, <1>4, FileMapsAre
  <2>2. i \in Nat
    BY ReleaseElements DEF ReleaseInv
  <2>3. \A f \in DOMAIN Held(id) : Held(id)[f] \in Nat
    BY <1>2, FileMapsAre
  <2>4. newFiles \in [DOMAIN Held(id) \cup {file} -> Nat]
    BY <2>2, <2>3
  <2> QED  BY <2>1, <2>4, FileMapsAre
<1>6. \A f \in DOMAIN newFiles : newFiles[f] = i
  BY <1>1, <1>2 DEF ReleaseInv, SendsAlone
<1> HIDE DEF newFiles
<1>7. releases' = [releases EXCEPT ![id] = r]
  BY <1>2, <1>3 DEF ReleaseStates
<1>8. r \in ReleaseStates /\ r.files = newFiles /\ r.public = releases[id].public
  BY <1>2, <1>5 DEF ReleaseStates
<1>9. /\ run \in PublishRuns /\ run.id = id /\ run.status = "running"
      /\ run.step \in {"send", "attach"} /\ SameRun(run, publishes[i])
  <2>1. sent \in 0 .. 4
    BY <1>1 DEF PublishRuns, Release!Files
  <2>2. step \in {"send", "attach"} /\ step \in PublishSteps
    BY DEF PublishSteps, TaggedSteps, DatedSteps, FoundSteps
  <2> HIDE DEF sent, step
  <2> QED  BY <1>1, <2>1, <2>2 DEF PublishRuns, SameRun
<1>10. publishes' = [publishes EXCEPT ![i] = run]
  BY <1>1 DEF Release!SendFile, PublishRuns
<1>11. RunSound(run)
  BY <1>1
     DEF RunSound, PublishRuns, CheckedRun, OfTheTag, InCrates, TaggedSteps, DatedSteps, FoundSteps
<1> HIDE DEF r, run
<1>12. UNCHANGED <<main, crate, tag, verified, scoop, homebrew>> /\ ~releases[id].public
  BY DEF Release!SendFile, Release!receivers
<1>13. \A f \in DOMAIN r.files : r.files[f] = i /\ \A g \in DOMAIN r.files : r.files[f] = r.files[g]
  BY <1>6, <1>8
<1>14. ShippedRun(publishes[i])
  BY <1>1 DEF RunSound, ShippedRun, TaggedSteps, DatedSteps, FoundSteps
<1>15. publishes[i].status = "running" /\ publishes[i].id = id
  BY <1>1
<1> HIDE DEF id
<1> QED  BY <1>2, <1>7, <1>8, <1>9, <1>10, <1>11, <1>12, <1>13, <1>14, <1>15, ReleaseMoves

--------------------------------------------------------------------------------
(* What is on crates.io, and the tag, stay what they are.                    *)
OnceSet == /\ crate # None => crate' # None /\ crate'.bytes = crate.bytes
           /\ tag # None => tag' = tag

(* What a run has shown of its commit stays shown.                          *)
LEMMA SettledRuns ==
    ASSUME ReleaseInv, OnceSet, NEW j \in DOMAIN publishes, SameRun(publishes'[j], publishes[j])
    PROVE  /\ OfTheTag(publishes[j]) => OfTheTag(publishes[j])'
           /\ InCrates(publishes[j]) => InCrates(publishes[j])'
           /\ CheckedRun(publishes[j]) => CheckedRun(publishes[j])'
           /\ ShippedRun(publishes[j]) => ShippedRun(publishes[j])'
<1>1. publishes[j].rev \in Nat
  BY ReleaseElements, ProjectAssumption DEF ReleaseInv, PublishRuns, Release!Revisions
<1>2. publishes[j].rev # None
  BY <1>1, NothingAssumption
<1> QED  BY <1>2 DEF OnceSet, ShippedRun, CheckedRun, OfTheTag, InCrates, SameRun

(* What the receivers were told of stays so.                                *)
LEMMA SettledTold ==
    ASSUME ReleaseInv, OnceSet, UNCHANGED <<homebrew, scoop>>,
           DOMAIN releases \subseteq DOMAIN releases',
           \A id \in DOMAIN releases : releases[id].public =>
               releases'[id].public /\ Held(id)' = Held(id),
           verified' # None => verified'.id \in DOMAIN releases' /\ releases'[verified'.id].public
    PROVE  ToldSound'
<1>1. homebrew # None => homebrew.rev # None
  BY NothingAssumption, ProjectAssumption DEF ReleaseInv, ReleaseTypes, Release!Revisions
<1>2. scoop # None => tag # None
  <2> SUFFICES ASSUME scoop # None
               PROVE  tag # None
    OBVIOUS
  <2>1. scoop.id \in DOMAIN releases /\ "manifest" \in DOMAIN Held(scoop.id)
    BY DEF ReleaseInv, ToldSound, Full, FileNames
  <2>2. PICK j \in DOMAIN publishes : ShippedRun(publishes[j])
    BY <2>1 DEF ReleaseInv, FilesSound
  <2>3. publishes[j].rev \in Nat /\ tag = publishes[j].rev
    BY <2>2, ReleaseElements, ProjectAssumption
    DEF ReleaseInv, PublishRuns, Release!Revisions, ShippedRun, OfTheTag
  <2> QED  BY <2>3, NothingAssumption
<1> QED  BY <1>1, <1>2 DEF ReleaseInv, ToldSound, OnceSet, Full

(* A step that changes no release: the crate and the tag, once there, stay  *)
(* what they are.                                                           *)
LEMMA WorldMoves ==
    ASSUME ReleaseInv, ReleaseTypes', OnceSet, CrateSound', RunsSound',
           DOMAIN publishes' = DOMAIN publishes,
           \A j \in DOMAIN publishes :
               /\ SameRun(publishes'[j], publishes[j])
               /\ publishes'[j].id = publishes[j].id /\ publishes'[j].status = publishes[j].status
               /\ \/ publishes'[j].step = publishes[j].step
                  \/ publishes[j].status = "running" /\ publishes'[j].step # "send",
           UNCHANGED <<releases, verified, homebrew, scoop>>
    PROVE  ReleaseInv'
<1>1. OneAtWork'
  BY DEF ReleaseInv, OneAtWork
<1>2. SendsAlone'
  BY DEF ReleaseInv, SendsAlone, Held
<1>3. FilesSound'
  <2>1. \A j \in DOMAIN publishes : ShippedRun(publishes[j]) => ShippedRun(publishes[j])'
    BY SettledRuns
  <2>2. \A id \in DOMAIN releases : Held(id)' = Held(id)
    BY DEF Held
  <2> QED  BY <2>1, <2>2 DEF ReleaseInv, FilesSound
<1>4. ToldSound'
  BY SettledTold DEF Held, ReleaseInv, ToldSound
<1>5. OnePublic' /\ SuccessSound'
  BY DEF ReleaseInv, OnePublic, SuccessSound, Full, Held
<1> QED  BY <1>1, <1>2, <1>3, <1>4, <1>5 DEF ReleaseInv

(* A run that does not move has still found out what its step rests on.     *)
LEMMA RunStays ==
    ASSUME ReleaseInv, OnceSet, DOMAIN releases \subseteq DOMAIN releases',
           NEW j \in DOMAIN publishes, publishes'[j] = publishes[j]
    PROVE  RunSound(publishes[j])'
<1>1. RunSound(publishes[j]) /\ SameRun(publishes'[j], publishes[j])
  BY DEF ReleaseInv, RunsSound, SameRun
<1>2. publishes[j].rev \in Nat
  BY ReleaseElements, ProjectAssumption DEF ReleaseInv, PublishRuns, Release!Revisions
<1>3. tag = publishes[j].rev => tag' = publishes[j].rev
  BY <1>2, NothingAssumption DEF OnceSet
<1> QED  BY <1>1, <1>3, SettledRuns DEF RunSound

(* The same for all of them.                                                *)
LEMMA RunsStay ==
    ASSUME ReleaseInv, OnceSet, UNCHANGED publishes, DOMAIN releases \subseteq DOMAIN releases'
    PROVE  RunsSound'
  BY RunStays DEF RunsSound

(* People change the world, no run moves and no release changes.            *)
LEMMA PeopleMoves ==
    ASSUME ReleaseInv, ReleaseTypes', OnceSet, CrateSound',
           UNCHANGED <<publishes, releases, verified, homebrew, scoop>>
    PROVE  ReleaseInv'
  BY WorldMoves, RunsStay DEF SameRun

(* What is on crates.io, when anything is, is not nothing.                  *)
LEMMA CratesAre == \A state \in CrateStates : state # None
<1> SUFFICES ASSUME NEW state \in CrateStates
             PROVE  state # None
  OBVIOUS
<1>1. state = [bytes |-> state.bytes, yanked |-> state.yanked, by |-> state.by]
  BY DEF CrateStates
<1>2. state.bytes \in Release!Crates /\ state.yanked \in BOOLEAN /\ state.by \in {"workflow",
       "people"}
  BY DEF CrateStates
<1> QED  BY <1>1, <1>2, NothingAssumption

(* People push to main, publish a crate by hand, yank it, or push a tag     *)
(* where there is none.                                                     *)
LEMMA ReleasePeople ==
    ASSUME ReleaseInv, Release!Push \/ Release!PublishByHand \/ Release!Yank \/ Release!TagByHand
    PROVE  ReleaseInv'
<1>1. UNCHANGED <<publishes, releases, verified, homebrew, scoop>>
  BY DEF Release!Push, Release!PublishByHand, Release!Yank, Release!TagByHand, Release!receivers
<1>2. CASE Release!Push
  <2>1. main' \in Release!Revisions /\ UNCHANGED <<crate, tag>>
    BY <1>2, ProjectAssumption DEF Release!Push, ReleaseInv, ReleaseTypes, Release!Revisions
  <2>2. ReleaseTypes' /\ OnceSet /\ CrateSound'
    BY <1>1, <2>1 DEF ReleaseInv, ReleaseTypes, OnceSet, CrateSound
  <2> QED  BY <1>1, <2>2, PeopleMoves
<1>3. CASE Release!PublishByHand
  <2>1. PICK bytes \in Release!Crates : crate' = [bytes |-> bytes, yanked |-> FALSE,
         by |-> "people"]
    BY <1>3 DEF Release!PublishByHand
  <2>2. crate' \in CrateStates /\ crate' # None /\ crate = None /\ UNCHANGED <<main, tag>>
    BY <1>3, <2>1, CratesAre DEF Release!PublishByHand, CrateStates
  <2>3. ReleaseTypes' /\ OnceSet
    BY <1>1, <2>2 DEF ReleaseInv, ReleaseTypes, OnceSet
  <2>4. CrateSound'
    BY <2>1 DEF CrateSound
  <2> QED  BY <1>1, <2>3, <2>4, PeopleMoves
<1>4. CASE Release!Yank
  <2>1. crate \in CrateStates /\ crate' = [crate EXCEPT !.yanked = TRUE] /\ UNCHANGED <<main, tag>>
    BY <1>4 DEF Release!Yank, ReleaseInv, ReleaseTypes
  <2>2. /\ crate' \in CrateStates /\ crate' # None /\ crate # None
        /\ crate'.bytes = crate.bytes /\ crate'.by = crate.by
    BY <2>1, CratesAre DEF CrateStates
  <2>3. ReleaseTypes' /\ OnceSet /\ CrateSound'
    BY <1>1, <2>1, <2>2 DEF ReleaseInv, ReleaseTypes, OnceSet, CrateSound
  <2> QED  BY <1>1, <2>3, PeopleMoves
<1>5. CASE Release!TagByHand
  <2>1. tag' \in Release!Revisions /\ tag = None /\ UNCHANGED <<main, crate>>
    BY <1>5, ProjectAssumption DEF Release!TagByHand, ReleaseInv, ReleaseTypes, Release!Revisions
  <2>2. ReleaseTypes' /\ OnceSet /\ CrateSound'
    BY <1>1, <2>1 DEF ReleaseInv, ReleaseTypes, OnceSet, CrateSound
  <2> QED  BY <1>1, <2>2, PeopleMoves
<1> QED  BY <1>2, <1>3, <1>4, <1>5

(* A run makes the crate or the tag, where there is none, and goes on.      *)
LEMMA RunAndWorldMove ==
    ASSUME ReleaseInv, NEW i \in DOMAIN publishes, publishes[i].status = "running",
           NEW step \in PublishSteps \ {"send"}, Release!To(i, step),
           main' \in Release!Revisions, crate' \in CrateStates \cup {None},
           tag' \in Release!Revisions \cup {None}, OnceSet, CrateSound',
           UNCHANGED <<releases, verified, homebrew, scoop>>,
           RunSound(publishes[i])'
    PROVE  ReleaseInv'
<1> DEFINE run == [publishes[i] EXCEPT !.step = step]
<1>1. publishes[i] \in PublishRuns
  BY ReleaseElements DEF ReleaseInv
<1>2. /\ run \in PublishRuns /\ run.id = publishes[i].id /\ run.status = "running" /\ run.step = step
      /\ SameRun(run, publishes[i])
  BY <1>1 DEF PublishRuns, SameRun
<1>3. publishes' = [publishes EXCEPT ![i] = run]
  BY DEF Release!To
<1> HIDE DEF run
<1>4. /\ publishes' \in Seq(PublishRuns) /\ DOMAIN publishes' = DOMAIN publishes
      /\ publishes'[i] = run /\ \A j \in DOMAIN publishes \ {i} : publishes'[j] = publishes[j]
      /\ \A j \in DOMAIN publishes : SameRun(publishes'[j], publishes[j])
  BY <1>2, <1>3, Replaced DEF ReleaseInv, ReleaseTypes, SameRun
<1>5. ReleaseTypes'
  BY <1>4 DEF ReleaseInv, ReleaseTypes
<1>6. RunsSound'
  BY <1>4, RunStays DEF RunsSound
<1> QED  BY <1>2, <1>4, <1>5, <1>6, WorldMoves

(* `Publish exact crates.io package`: a run in mode publish has shown its   *)
(* project to be well formed and dated.                                     *)
LEMMA ReleaseUpload ==
    ASSUME ReleaseInv, NEW i \in DOMAIN publishes, Release!Upload(i)
    PROVE  ReleaseInv'
<1>1. /\ publishes[i] \in PublishRuns /\ publishes[i].status = "running"
      /\ publishes[i].step = "upload" /\ RunSound(publishes[i])
  BY RunAt DEF Release!Upload
<1>2. /\ publishes' = [publishes EXCEPT ![i].step = "registry"]
      /\ UNCHANGED <<main, tag, releases, verified, homebrew, scoop>>
  BY DEF Release!Upload, Release!To, Release!receivers
<1>3. publishes'[i] = [publishes[i] EXCEPT !.step = "registry"]
  BY <1>2 DEF ReleaseInv, ReleaseTypes
<1>4. /\ crate' \in CrateStates \cup {None} /\ OnceSet /\ CrateSound'
  <2>1. CASE UNCHANGED crate
    BY <1>2, <2>1 DEF ReleaseInv, ReleaseTypes, OnceSet, CrateSound
  <2>2. CASE crate # crate'
    <3>1. /\ crate = None /\ publishes[i].mode = "publish"
          /\ crate' = [bytes |-> Release!Packed(publishes[i].rev), yanked |-> FALSE,
                       by |-> "workflow"]
      BY <2>2 DEF Release!Upload
    <3>2. /\ Release!VersionValid(Project[publishes[i].rev], TRUE)
          /\ Release!Packed(publishes[i].rev) \in Release!Crates
      BY <1>1, <3>1 DEF RunSound, CheckedRun, PublishRuns, Release!Packed, Release!Crates
    <3>3. /\ crate' \in CrateStates
          /\ crate'.bytes.rev = publishes[i].rev /\ ~crate'.bytes.dirty
      BY <3>1, <3>2 DEF CrateStates, Release!Packed
    <3> QED  BY <1>2, <3>1, <3>2, <3>3 DEF OnceSet, CrateSound
  <2> QED  BY <2>1, <2>2
<1>5. RunSound(publishes[i])'
  BY <1>1, <1>2, <1>3 DEF RunSound, PublishRuns, CheckedRun, TaggedSteps, DatedSteps, FoundSteps
<1> QED  BY <1>1, <1>2, <1>4, <1>5, RunAndWorldMove
         DEF ReleaseInv, ReleaseTypes, PublishSteps, TaggedSteps, DatedSteps, FoundSteps, Release!To

(* `Create missing exact release tag`: after the crate has been verified,   *)
(* never over a tag that is there.                                          *)
LEMMA ReleaseMakeTag ==
    ASSUME ReleaseInv, NEW i \in DOMAIN publishes, Release!MakeTag(i)
    PROVE  ReleaseInv'
<1>1. /\ publishes[i] \in PublishRuns /\ publishes[i].status = "running"
      /\ publishes[i].step = "tag" /\ RunSound(publishes[i])
  BY RunAt DEF Release!MakeTag
<1>2. /\ publishes' = [publishes EXCEPT ![i].step = "homebrew"]
      /\ UNCHANGED <<main, crate, releases, verified, homebrew, scoop>>
  BY DEF Release!MakeTag, Release!To, Release!receivers
<1>3. publishes'[i] = [publishes[i] EXCEPT !.step = "homebrew"]
  BY <1>2 DEF ReleaseInv, ReleaseTypes
<1>4. tag' = publishes[i].rev /\ (tag # None => tag' = tag)
  BY <1>1 DEF Release!MakeTag, RunSound
<1>5. /\ tag' \in Release!Revisions /\ OnceSet /\ CrateSound'
  BY <1>1, <1>2, <1>4 DEF ReleaseInv, CrateSound, OnceSet, PublishRuns
<1>6. RunSound(publishes[i])'
  BY <1>1, <1>2, <1>3, <1>4 DEF RunSound, PublishRuns, CheckedRun, OfTheTag, InCrates, TaggedSteps,
                                DatedSteps, FoundSteps
<1> QED  BY <1>1, <1>2, <1>5, <1>6, RunAndWorldMove
         DEF ReleaseInv, ReleaseTypes, PublishSteps, TaggedSteps, Release!To

(* A run is dispatched when no other is at work.                            *)
LEMMA ReleaseDispatch ==
    ASSUME ReleaseInv, Release!Dispatch
    PROVE  ReleaseInv'
<1>1. PICK mode \in {"publish", "recover"}, rev \in 1 .. main :
          /\ mode = "recover" => crate # None
          /\ publishes' = Append(publishes,
                [mode |-> mode, control |-> main, rev |-> rev,
                 asked |-> IF mode = "publish" THEN Release!Packed(rev) ELSE crate.bytes,
                 crateSeen |-> FALSE, tagSeen |-> FALSE, id |-> 0, sent |-> 0,
                 step |-> "candidate", status |-> "running"])
  BY DEF Release!Dispatch
<1> DEFINE asked == IF mode = "publish" THEN Release!Packed(rev) ELSE crate.bytes
           run == [mode |-> mode, control |-> main, rev |-> rev, asked |-> asked,
                   crateSeen |-> FALSE, tagSeen |-> FALSE, id |-> 0, sent |-> 0,
                   step |-> "candidate", status |-> "running"]
           n == Len(publishes) + 1
<1>2. UNCHANGED <<main, crate, tag, releases, verified, homebrew, scoop>>
  BY DEF Release!Dispatch, Release!world, Release!receivers
<1>3. rev \in Release!Revisions /\ main \in Release!Revisions /\ asked \in Release!Crates
  <2>1. rev \in Release!Revisions /\ main \in Release!Revisions
    BY ProjectAssumption DEF ReleaseInv, ReleaseTypes, Release!Revisions
  <2>2. crate # None => crate.bytes \in Release!Crates
    BY DEF ReleaseInv, ReleaseTypes, CrateStates
  <2> QED  BY <1>1, <2>1, <2>2 DEF Release!Packed, Release!Crates
<1> HIDE DEF asked
<1>4. run \in PublishRuns
  <2>1. 0 \in 0 .. 4 /\ "candidate" \in PublishSteps
    BY DEF PublishSteps
  <2> QED  BY <1>3, <2>1 DEF PublishRuns
<1>5. run.step = "candidate" /\ run.status = "running" /\ ~run.tagSeen /\ run.id = 0
  OBVIOUS
<1>6. publishes' = Append(publishes, run)
  BY <1>1 DEF asked
<1> HIDE DEF run
<1>7. /\ publishes' \in Seq(PublishRuns) /\ DOMAIN publishes' = DOMAIN publishes \cup {n}
      /\ n \notin DOMAIN publishes
      /\ publishes'[n] = run /\ \A j \in DOMAIN publishes : publishes'[j] = publishes[j]
  BY <1>4, <1>6, Appended DEF ReleaseInv, ReleaseTypes
<1> HIDE DEF n
<1>8. ReleaseTypes'
  BY <1>2, <1>7 DEF ReleaseInv, ReleaseTypes
<1>9. OneAtWork'
  BY <1>5, <1>7 DEF ReleaseInv, OneAtWork, Release!Dispatch, Release!Running
<1>10. RunsSound'
  <2>1. RunSound(run)
    BY <1>5 DEF RunSound, TaggedSteps, DatedSteps, FoundSteps
  <2>2. \A j \in DOMAIN publishes' : RunSound(publishes'[j])
    BY <1>7, <2>1 DEF ReleaseInv, RunsSound
  <2>3. \A j \in DOMAIN publishes' : RunSound(publishes'[j]) => RunSound(publishes[j])'
    BY <1>2 DEF RunSound, CheckedRun, OfTheTag, InCrates
  <2> QED  BY <2>2, <2>3 DEF RunsSound
<1>11. SendsAlone'
  BY <1>2, <1>5, <1>7 DEF ReleaseInv, SendsAlone, Held
<1>12. FilesSound'
  <2>1. \A j \in DOMAIN publishes : ShippedRun(publishes[j]) => ShippedRun(publishes[j])'
    BY <1>2, <1>7 DEF ShippedRun, CheckedRun, OfTheTag, InCrates
  <2>2. \A id \in DOMAIN releases : Held(id)' = Held(id)
    BY <1>2 DEF Held
  <2> QED  BY <1>2, <1>7, <2>1, <2>2 DEF ReleaseInv, FilesSound
<1>13. CrateSound' /\ ToldSound' /\ OnePublic'
  BY <1>2 DEF ReleaseInv, CrateSound, ToldSound, OnePublic, Full, Held
<1>14. SuccessSound'
  BY <1>2, <1>5, <1>7 DEF ReleaseInv, SuccessSound, Full, Held
<1> QED  BY <1>8, <1>9, <1>10, <1>11, <1>12, <1>13, <1>14 DEF ReleaseInv

(* The failed jobs of a run are run again when no other is at work.         *)
LEMMA ReleaseRerun ==
    ASSUME ReleaseInv, NEW i \in DOMAIN publishes, Release!Rerun(i)
    PROVE  ReleaseInv'
<1> DEFINE run == [publishes[i] EXCEPT !.status = "running"]
<1>1. /\ publishes[i] \in PublishRuns /\ publishes[i].status = "failed" /\ RunSound(publishes[i])
      /\ publishes[i].step \in {"candidate", "revalidate", "manifest", "done"}
      /\ \A j \in DOMAIN publishes : publishes[j].status # "running"
      /\ UNCHANGED <<main, crate, tag, releases, verified, homebrew, scoop>>
  BY ReleaseElements
     DEF Release!Rerun, Release!Running, Release!world, Release!receivers, ReleaseInv,
                         RunsSound, OneAtWork
<1>2. /\ run \in PublishRuns /\ run.id = publishes[i].id /\ run.status = "running"
      /\ run.step = publishes[i].step /\ SameRun(run, publishes[i])
  BY <1>1 DEF PublishRuns, SameRun
<1>3. publishes' = [publishes EXCEPT ![i] = run]
  BY DEF Release!Rerun
<1>4. RunSound(run)
  BY <1>1 DEF RunSound, PublishRuns, CheckedRun, OfTheTag, InCrates
<1> HIDE DEF run
<1>5. /\ publishes' \in Seq(PublishRuns) /\ DOMAIN publishes' = DOMAIN publishes
      /\ publishes'[i] = run /\ \A j \in DOMAIN publishes \ {i} : publishes'[j] = publishes[j]
      /\ \A j \in DOMAIN publishes : /\ SameRun(publishes'[j], publishes[j])
                                     /\ publishes'[j].id = publishes[j].id
                                     /\ publishes'[j].step = publishes[j].step
  BY <1>2, <1>3, Replaced DEF ReleaseInv, ReleaseTypes, SameRun
<1>6. ReleaseTypes'
  BY <1>1, <1>5 DEF ReleaseInv, ReleaseTypes
<1>7. OneAtWork'
  BY <1>1, <1>5 DEF ReleaseInv, OneAtWork
<1>8. RunsSound'
  <2>1. OnceSet
    BY <1>1 DEF OnceSet
  <2>2. \A j \in DOMAIN publishes \ {i} : RunSound(publishes[j])'
    BY <1>1, <1>5, <2>1, RunStays
  <2>3. RunSound(publishes[i])'
    BY <1>1, <1>4, <1>5 DEF RunSound, CheckedRun, OfTheTag, InCrates
  <2> QED  BY <1>5, <2>2, <2>3 DEF RunsSound
<1>9. SendsAlone'
  <2>1. \A j \in DOMAIN publishes : publishes'[j].step = "send" =>
            \A f \in DOMAIN Held(publishes'[j].id) : Held(publishes'[j].id)[f] = j
    BY <1>5 DEF ReleaseInv, SendsAlone
  <2> QED  BY <1>1, <1>5, <2>1 DEF SendsAlone, Held
<1>10. FilesSound'
  <2>1. \A j \in DOMAIN publishes : ShippedRun(publishes[j]) => ShippedRun(publishes[j])'
    BY <1>1, <1>5 DEF ShippedRun, CheckedRun, OfTheTag, InCrates, SameRun
  <2>2. \A id \in DOMAIN releases : Held(id)' = Held(id)
    BY <1>1 DEF Held
  <2> QED  BY <1>1, <1>5, <2>1, <2>2 DEF ReleaseInv, FilesSound
<1>11. CrateSound' /\ ToldSound' /\ OnePublic'
  BY <1>1 DEF ReleaseInv, CrateSound, ToldSound, OnePublic, Full, Held
<1>12. SuccessSound'
  BY <1>1, <1>2, <1>5 DEF ReleaseInv, SuccessSound, Full, Held
<1> QED  BY <1>6, <1>7, <1>8, <1>9, <1>10, <1>11, <1>12 DEF ReleaseInv

--------------------------------------------------------------------------------
(* A draft is new: it has no file, and no run works on it.                  *)
LEMMA NewDraft ==
    ASSUME ReleaseInv, NEW r \in ReleaseStates, r.files = <<>>, ~r.public,
           releases' = Append(releases, r), ReleaseTypes', RunsSound',
           DOMAIN publishes' = DOMAIN publishes,
           \A j \in DOMAIN publishes :
               /\ SameRun(publishes'[j], publishes[j])
               /\ publishes'[j].id = publishes[j].id /\ publishes'[j].status = publishes[j].status
               /\ \/ publishes'[j].step = publishes[j].step
                  \/ publishes[j].status = "running" /\ publishes'[j].step # "send",
           UNCHANGED <<crate, tag, verified, homebrew, scoop>>
    PROVE  ReleaseInv'
<1>0. PICK n \in Nat : n = Len(releases) + 1
  BY DEF ReleaseInv, ReleaseTypes
<1>1. /\ DOMAIN releases' = DOMAIN releases \cup {n} /\ n \notin DOMAIN releases
      /\ Len(releases') = n /\ Len(releases) \in Nat
      /\ releases'[n] = r /\ \A id \in DOMAIN releases : releases'[id] = releases[id]
  BY <1>0, Appended DEF ReleaseInv, ReleaseTypes
<1>2. /\ DOMAIN Held(n)' = {} /\ \A id \in DOMAIN releases : Held(id)' = Held(id)
  BY <1>1, FileMapsAre DEF Held
<1>3. OneAtWork'
  BY DEF ReleaseInv, OneAtWork
<1>4. SendsAlone'
  <2>1. \A j \in DOMAIN publishes : publishes'[j].step = "send" =>
            /\ publishes[j].step = "send" /\ publishes[j].id \in DOMAIN releases
            /\ publishes'[j].id = publishes[j].id
    BY DEF ReleaseInv, RunsSound, RunSound, FoundSteps
  <2> QED  BY <1>2, <2>1 DEF ReleaseInv, SendsAlone
<1>5. FilesSound'
  <2>1. \A j \in DOMAIN publishes : ShippedRun(publishes[j]) => ShippedRun(publishes[j])'
    BY DEF ShippedRun, CheckedRun, OfTheTag, InCrates, SameRun
  <2> QED  BY <1>1, <1>2, <2>1 DEF ReleaseInv, FilesSound
<1>6. CrateSound' /\ OnePublic'
  <2>1. \A id \in DOMAIN releases' : releases'[id].public =>
            id \in DOMAIN releases /\ releases[id].public
    BY <1>1
  <2> QED  BY <2>1 DEF ReleaseInv, CrateSound, OnePublic
<1>7. ToldSound'
  BY <1>1, <1>2 DEF ReleaseInv, ToldSound, Full
<1>8. SuccessSound'
  <2>1. Len(releases') > Len(releases)
    BY <1>1
  <2> QED  BY <1>1, <1>2, <2>1 DEF ReleaseInv, SuccessSound, Full
<1> QED  BY <1>3, <1>4, <1>5, <1>6, <1>7, <1>8 DEF ReleaseInv

(* A person drafts a release.                                               *)
LEMMA ReleaseDraftByHand ==
    ASSUME ReleaseInv, Release!DraftByHand
    PROVE  ReleaseInv'
<1> DEFINE r == [tagged |-> TRUE, named |-> FALSE, target |-> main, public |-> FALSE,
       files |-> <<>>]
<1>1. /\ releases' = Append(releases, r)
      /\ UNCHANGED <<main, crate, tag, publishes, verified, homebrew, scoop>>
  BY DEF Release!DraftByHand, Release!receivers
<1>2. r \in ReleaseStates /\ r.files = <<>> /\ ~r.public
  BY FileMapsAre DEF ReleaseInv, ReleaseTypes, ReleaseStates
<1> HIDE DEF r
<1>3. releases' \in Seq(ReleaseStates) /\ DOMAIN releases \subseteq DOMAIN releases'
  BY <1>1, <1>2, Appended DEF ReleaseInv, ReleaseTypes
<1>4. ReleaseTypes'
  BY <1>1, <1>3 DEF ReleaseInv, ReleaseTypes
<1>5. RunsSound'
  BY <1>1, <1>3, RunsStay DEF OnceSet
<1> QED  BY <1>1, <1>2, <1>4, <1>5, NewDraft DEF SameRun

(* The workflow drafts one where it has found none.                         *)
LEMMA ReleaseCreateDraft ==
    ASSUME ReleaseInv, NEW i \in DOMAIN publishes, Release!CreateDraft(i)
    PROVE  ReleaseInv'
<1> DEFINE r == [tagged |-> TRUE, named |-> TRUE, target |-> publishes[i].rev, public |-> FALSE,
                 files |-> <<>>]
           run == [publishes[i] EXCEPT !.step = "list"]
<1>1. /\ releases' = Append(releases, r)
      /\ UNCHANGED <<main, crate, tag, verified, homebrew, scoop>>
  BY DEF Release!CreateDraft, Release!receivers
<1>2. /\ publishes[i] \in PublishRuns /\ publishes[i].status = "running"
      /\ publishes[i].step = "create" /\ RunSound(publishes[i])
  BY RunAt DEF Release!CreateDraft
<1>3. r \in ReleaseStates /\ r.files = <<>> /\ ~r.public
  BY <1>2, FileMapsAre DEF PublishRuns, ReleaseStates
<1> HIDE DEF r
<1>4. releases' \in Seq(ReleaseStates) /\ DOMAIN releases \subseteq DOMAIN releases'
  BY <1>1, <1>3, Appended DEF ReleaseInv, ReleaseTypes
<1>5. /\ run \in PublishRuns /\ run.id = publishes[i].id /\ run.status = "running"
      /\ run.step = "list" /\ SameRun(run, publishes[i])
  BY <1>2 DEF PublishRuns, PublishSteps, TaggedSteps, DatedSteps, SameRun
<1>6. publishes' = [publishes EXCEPT ![i] = run]
  BY DEF Release!CreateDraft, Release!To
<1>7. RunSound(run)
  BY <1>2
     DEF RunSound, PublishRuns, CheckedRun, OfTheTag, InCrates, TaggedSteps, DatedSteps, FoundSteps
<1> HIDE DEF run
<1>8. /\ publishes' \in Seq(PublishRuns) /\ DOMAIN publishes' = DOMAIN publishes
      /\ publishes'[i] = run /\ \A j \in DOMAIN publishes \ {i} : publishes'[j] = publishes[j]
  BY <1>5, <1>6, Replaced DEF ReleaseInv, ReleaseTypes
<1>9. ReleaseTypes'
  BY <1>1, <1>4, <1>8 DEF ReleaseInv, ReleaseTypes
<1>10. RunsSound'
  <2>1. OnceSet
    BY <1>1 DEF OnceSet
  <2>2. \A j \in DOMAIN publishes \ {i} : RunSound(publishes[j])'
    BY <1>4, <1>8, <2>1, RunStays
  <2>3. RunSound(publishes[i])'
    BY <1>1, <1>4, <1>7, <1>8 DEF RunSound, CheckedRun, OfTheTag, InCrates
  <2> QED  BY <1>8, <2>2, <2>3 DEF RunsSound
<1> QED  BY <1>1, <1>2, <1>3, <1>5, <1>8, <1>9, <1>10, NewDraft DEF SameRun

(* The draft of the tag becomes public, in the middle of a refresh too; a   *)
(* tag that is missing is made, and is of the commit the draft names.       *)
LEMMA ReleasePublishDraft ==
    ASSUME ReleaseInv, Release!PublishDraft
    PROVE  ReleaseInv'
<1>1. /\ \A id \in DOMAIN releases : ~releases[id].public
      /\ UNCHANGED <<main, crate, publishes, homebrew, scoop>>
  BY DEF Release!PublishDraft
<1>2. PICK id \in DOMAIN releases :
          /\ releases' = [releases EXCEPT ![id].public = TRUE]
          /\ tag' = IF tag = None THEN releases[id].target ELSE tag
          /\ verified' = [id |-> id, status |-> "running"]
  BY DEF Release!PublishDraft
<1> DEFINE r == [releases[id] EXCEPT !.public = TRUE]
<1>3. r \in ReleaseStates /\ r.files = Held(id) /\ r.public /\ id \in Nat
  BY ReleaseElements DEF ReleaseInv, ReleaseStates, Held
<1>4. releases' = [releases EXCEPT ![id] = r]
  BY <1>2
<1> HIDE DEF r
<1>5. /\ releases' \in Seq(ReleaseStates) /\ DOMAIN releases' = DOMAIN releases
      /\ Len(releases') = Len(releases)
      /\ releases'[id] = r /\ \A other \in DOMAIN releases \ {id} : releases'[other] = releases[other]
  BY <1>3, <1>4, Replaced DEF ReleaseInv, ReleaseTypes
<1>6. \A other \in DOMAIN releases : Held(other)' = Held(other)
  BY <1>3, <1>5 DEF Held
<1>7. OnceSet /\ tag' \in Release!Revisions \cup {None}
  <2>1. releases[id].target \in Release!Revisions
    BY ReleaseElements DEF ReleaseInv, ReleaseStates
  <2> QED  BY <1>1, <1>2, <2>1 DEF OnceSet, ReleaseInv, ReleaseTypes
<1>8. ReleaseTypes'
  <2>1. verified' \in [id : Nat, status : {"running", "failed", "success"}]
    BY <1>2, <1>3
  <2> QED  BY <1>1, <1>5, <1>7, <2>1 DEF ReleaseInv, ReleaseTypes
<1>9. OneAtWork' /\ SendsAlone' /\ CrateSound'
  <2>1. \A j \in DOMAIN publishes : publishes[j].step = "send" => publishes[j].id \in DOMAIN releases
    BY DEF ReleaseInv, RunsSound, RunSound, FoundSteps
  <2> QED  BY <1>1, <1>6, <2>1 DEF ReleaseInv, OneAtWork, SendsAlone, CrateSound
<1>10. RunsSound'
  BY <1>1, <1>5, <1>7, RunsStay
<1>11. FilesSound'
  <2>1. \A j \in DOMAIN publishes : ShippedRun(publishes[j]) => ShippedRun(publishes[j])'
    BY <1>1, <1>7, SettledRuns DEF SameRun
  <2> QED  BY <1>1, <1>5, <1>6, <2>1 DEF ReleaseInv, FilesSound
<1>12. ToldSound'
  <2>1. verified'.id \in DOMAIN releases' /\ releases'[verified'.id].public
    BY <1>2, <1>3, <1>5
  <2>2. \A other \in DOMAIN releases : releases[other].public =>
            releases'[other].public /\ Held(other)' = Held(other)
    BY <1>1
  <2> QED  BY <1>1, <1>5, <1>7, <2>1, <2>2, SettledTold
<1>13. OnePublic'
  BY <1>1, <1>5 DEF OnePublic
<1>14. SuccessSound'
  BY <1>1, <1>5, <1>6 DEF ReleaseInv, SuccessSound, Full
<1> QED  BY <1>8, <1>9, <1>10, <1>11, <1>12, <1>13, <1>14 DEF ReleaseInv

(* Only the receivers and the verification change.                           *)
LEMMA ReceiversMove ==
    ASSUME ReleaseInv, ReleaseTypes', ToldSound',
           UNCHANGED <<main, crate, tag, releases, publishes>>
    PROVE  ReleaseInv'
<1>1. OneAtWork' /\ SendsAlone' /\ CrateSound'
  BY DEF ReleaseInv, OneAtWork, SendsAlone, CrateSound, Held
<1>2. RunsSound'
  BY DEF ReleaseInv, RunsSound, RunSound, CheckedRun, OfTheTag, InCrates
<1>3. FilesSound'
  <2>1. \A j \in DOMAIN publishes : ShippedRun(publishes[j]) => ShippedRun(publishes[j])'
    BY DEF ShippedRun, CheckedRun, OfTheTag, InCrates
  <2>2. \A id \in DOMAIN releases : Held(id)' = Held(id)
    BY DEF Held
  <2> QED  BY <2>1, <2>2 DEF ReleaseInv, FilesSound
<1>4. OnePublic' /\ SuccessSound'
  BY DEF ReleaseInv, OnePublic, SuccessSound, Full, Held
<1> QED  BY <1>1, <1>2, <1>3, <1>4 DEF ReleaseInv

(* Release Publication Verification (release-published.yml) tells Scoop of  *)
(* a public release with all its files.                                     *)
LEMMA ReleaseVerifyPublication ==
    ASSUME ReleaseInv, Release!VerifyPublication
    PROVE  ReleaseInv'
<1>1. /\ verified # None /\ UNCHANGED <<main, crate, tag, releases, publishes, homebrew>>
      /\ verified.id \in DOMAIN releases /\ releases[verified.id].public /\ verified.id \in Nat
      /\ verified \in [id : Nat, status : {"running", "failed", "success"}]
  BY DEF Release!VerifyPublication, Release!world, ReleaseInv, ReleaseTypes, ToldSound
<1>2. \E status \in {"success", "failed"} : verified' = [verified EXCEPT !.status = status]
  BY DEF Release!VerifyPublication
<1>3. /\ verified' \in [id : Nat, status : {"running", "failed", "success"}]
      /\ verified'.id = verified.id
  BY <1>1, <1>2
<1>4. CASE UNCHANGED scoop
  <2>1. ReleaseTypes'
    BY <1>1, <1>3, <1>4 DEF ReleaseInv, ReleaseTypes
  <2>2. ToldSound'
    BY <1>1, <1>3, <1>4 DEF ReleaseInv, ToldSound, Full, Held
  <2> QED  BY <1>1, <2>1, <2>2, ReceiversMove
<1>5. CASE scoop' # scoop
  <2>1. /\ DOMAIN Held(verified.id) = {Release!Files[k] : k \in DOMAIN Release!Files}
        /\ scoop' = [id |-> verified.id, rev |-> tag, ok |-> FALSE]
    BY <1>5 DEF Release!VerifyPublication, Held
  <2>2. Full(verified.id)
    <3>1. {Release!Files[k] : k \in DOMAIN Release!Files} = FileNames
      BY DEF Release!Files, FileNames
    <3> QED  BY <2>1, <3>1 DEF Full
  <2>3. scoop' \in [id : Nat, rev : Release!Revisions \cup {None}, ok : BOOLEAN]
    BY <1>1, <2>1 DEF ReleaseInv, ReleaseTypes
  <2>4. ReleaseTypes'
    BY <1>1, <1>3, <2>3 DEF ReleaseInv, ReleaseTypes
  <2>5. ToldSound'
    BY <1>1, <1>3, <2>1, <2>2 DEF ReleaseInv, ToldSound, Full, Held
  <2> QED  BY <1>1, <2>4, <2>5, ReceiversMove
<1> QED  BY <1>4, <1>5

(* A receiver has taken what it was told of.                                *)
LEMMA ReleaseReceive ==
    ASSUME ReleaseInv, Release!Receive
    PROVE  ReleaseInv'
<1>1. UNCHANGED <<main, crate, tag, releases, publishes, verified>>
  BY DEF Release!Receive, Release!world
<1>2. CASE homebrew # None /\ homebrew' = [homebrew EXCEPT !.ok = TRUE] /\ UNCHANGED scoop
  <2>1. /\ homebrew' \in [rev : Release!Revisions, ok : BOOLEAN] /\ homebrew'.rev = homebrew.rev
    BY <1>2 DEF ReleaseInv, ReleaseTypes
  <2>2. ReleaseTypes'
    BY <1>1, <1>2, <2>1 DEF ReleaseInv, ReleaseTypes
  <2>3. ToldSound'
    BY <1>1, <1>2, <2>1 DEF ReleaseInv, ToldSound, Full, Held
  <2> QED  BY <1>1, <2>2, <2>3, ReceiversMove
<1>3. CASE scoop # None /\ scoop' = [scoop EXCEPT !.ok = TRUE] /\ UNCHANGED homebrew
  <2>1. /\ scoop' \in [id : Nat, rev : Release!Revisions \cup {None}, ok : BOOLEAN]
        /\ scoop'.rev = scoop.rev /\ scoop'.id = scoop.id
    BY <1>3 DEF ReleaseInv, ReleaseTypes
  <2>2. ReleaseTypes'
    BY <1>1, <1>3, <2>1 DEF ReleaseInv, ReleaseTypes
  <2>3. ToldSound'
    BY <1>1, <1>3, <2>1 DEF ReleaseInv, ToldSound, Full, Held
  <2> QED  BY <1>1, <2>2, <2>3, ReceiversMove
<1> QED  BY <1>2, <1>3 DEF Release!Receive

(* Every step of the publication keeps the invariant.                       *)
LEMMA ReleaseStep ==
    ASSUME ReleaseInv, Release!Next \/ UNCHANGED releaseVars
    PROVE  ReleaseInv'
<1>1. CASE UNCHANGED releaseVars
  BY <1>1, ReceiversMove DEF releaseVars, ReleaseInv, ReleaseTypes, ToldSound, Full, Held
<1>2. ASSUME NEW i \in DOMAIN publishes, Release!Publish(i)
      PROVE  ReleaseInv'
  BY <1>2, ReleaseCandidate, ReleaseRevalidate, ReleaseInspect, ReleaseUpload, ReleaseRegistry,
     ReleaseMakeTag, ReleaseDispatchHomebrew, ReleaseManifest, ReleaseFindRelease,
            ReleaseCreateDraft,
     ReleaseListDraft, ReleaseAttach, ReleaseRemoveFile, ReleaseSendFile, ReleaseVerify,
            ReleaseFail,
     ReleaseRerun
  DEF Release!Publish
<1> QED  BY <1>1, <1>2, ReleaseDispatch, ReleaseVerifyPublication, ReleaseReceive, ReleasePeople,
            ReleaseDraftByHand, ReleasePublishDraft DEF Release!Next

--------------------------------------------------------------------------------
(* The newest of the numbers of a sequence is one of them, and none is      *)
(* newer.                                                                   *)
LEMMA NewestIs ==
    ASSUME NEW n \in Nat, NEW S \in SUBSET (1 .. n), S # {}
    PROVE  Release!Newest(S) \in S
<1> DEFINE T == {n - k : k \in S}
           R == {q \in Nat \X Nat : q[1] < q[2]}
<1>1. T \subseteq Nat /\ T # {}
  <2>1. \A k \in S : n - k \in Nat
    OBVIOUS
  <2> QED  BY <2>1
<1>2. W!IsWellFoundedOn(R, Nat)
  BY W!NatLessThanWellFounded DEF W!OpToRel
<1>3. \E t \in T : \A u \in T : ~ (<<u, t>> \in R)
  <2> HIDE DEF T, R
  <2> QED  BY <1>1, <1>2, W!WFMin
<1>4. PICK m \in S : \A k \in S : ~ (<<n - k, n - m>> \in R)
  BY <1>3
<1>5. ASSUME NEW k \in S PROVE k <= m
  <2>1. n - k \in Nat /\ n - m \in Nat /\ ~ (<<n - k, n - m>> \in R)
    BY <1>4
  <2> QED  BY <2>1
<1> QED  BY <1>5 DEF Release!Newest

(* A release that is full is whole: its files are of one build, and the     *)
(* crate, the tag and the project are of that build's commit.               *)
LEMMA HeldIsWhole ==
    ASSUME ReleaseInv, NEW id \in DOMAIN releases, Full(id)
    PROVE  Release!Whole(releases[id])
<1> DEFINE j == Held(id)["manifest"]
<1>1. "manifest" \in DOMAIN Held(id)
  BY DEF Full, FileNames
<1>2. j \in DOMAIN publishes /\ ShippedRun(publishes[j]) /\ \A f \in DOMAIN Held(id) : Held(id)[f] = j
  BY <1>1 DEF ReleaseInv, FilesSound
<1>3. {Release!Files[k] : k \in DOMAIN Release!Files} = FileNames
  BY DEF Release!Files, FileNames
<1> QED  BY <1>2, <1>3 DEF Held, Full, Release!Whole, Release!ManifestRev, ShippedRun, CheckedRun,
                           OfTheTag, InCrates

(* The invariant says all that is asked of the receivers and of `release-   *)
(* status` (release_status.rs `inspect`).                                   *)
LEMMA ReleaseImplies == ReleaseInv => ReleaseExact
<1> SUFFICES ASSUME ReleaseInv
             PROVE  /\ Release!ScoopGetsWhole /\ Release!HomebrewGetsExact /\ Release!StatusSound
  BY DEF ReleaseExact
<1>1. Release!ScoopGetsWhole
  BY HeldIsWhole DEF ReleaseInv, ToldSound, FilesSound, Held, Release!ScoopGetsWhole
<1>2. Release!HomebrewGetsExact
  BY DEF ReleaseInv, ToldSound, CrateSound, Release!HomebrewGetsExact
<1>3. Release!StatusRelease # None => Release!StatusRelease \in DOMAIN releases
  <2> DEFINE S == {id \in DOMAIN releases : releases[id].tagged}
  <2>1. S \in SUBSET (1 .. Len(releases)) /\ Len(releases) \in Nat
    BY DEF ReleaseInv, ReleaseTypes
  <2>2. S # {} => Release!Newest(S) \in S
    BY <2>1, NewestIs
  <2> QED  BY <2>2 DEF Release!StatusRelease
<1>4. Release!StatusRun # None => Release!StatusRun \in DOMAIN publishes
  <2> DEFINE S == {i \in DOMAIN publishes : tag # None /\ publishes[i].control = tag}
  <2>1. S \in SUBSET (1 .. Len(publishes)) /\ Len(publishes) \in Nat
    BY DEF ReleaseInv, ReleaseTypes
  <2>2. S # {} => Release!Newest(S) \in S
    BY <2>1, NewestIs
  <2> QED  BY <2>2 DEF Release!StatusRun
<1>5. Release!Status = "complete" =>
          Release!Whole(releases[Release!StatusRelease]) /\ homebrew.rev = tag /\ scoop.rev = tag
  <2> SUFFICES ASSUME Release!Status = "complete"
               PROVE  /\ Release!Whole(releases[Release!StatusRelease])
                      /\ homebrew.rev = tag /\ scoop.rev = tag
    OBVIOUS
  <2>1. Release!Public /\ homebrew # None /\ scoop # None
    BY DEF Release!Status
  <2>2. Release!StatusRelease = scoop.id
    BY <1>3, <2>1 DEF ReleaseInv, ToldSound, OnePublic, Release!Public
  <2> QED  BY <2>1, <2>2, HeldIsWhole DEF ReleaseInv, ToldSound
<1>6. Release!Status = "awaiting-marketplace-publication" =>
          \/ Release!Whole(releases[Release!StatusRelease])
          \/ \E i \in DOMAIN publishes :
                 i # Release!StatusRun /\ publishes[i].id = Release!StatusRelease
          \/ Len(releases) > 1
  <2> SUFFICES ASSUME Release!Status = "awaiting-marketplace-publication", ~(Len(releases) > 1)
               PROVE  \/ Release!Whole(releases[Release!StatusRelease])
                      \/ \E i \in DOMAIN publishes :
                             i # Release!StatusRun /\ publishes[i].id = Release!StatusRelease
    OBVIOUS
  <2> DEFINE id == Release!StatusRelease
             run == Release!StatusRun
  <2>1. id \in DOMAIN releases /\ run \in DOMAIN publishes /\ publishes[run].status = "success"
    BY <1>3, <1>4 DEF Release!Status, Release!Ready
  <2> HIDE DEF id, run
  <2>2. publishes[run].id \in DOMAIN releases
    BY <2>1 DEF ReleaseInv, SuccessSound
  <2>3. publishes[run].id = id
    BY <2>1, <2>2 DEF ReleaseInv, ReleaseTypes
  <2>4. Full(id) \/ \E i \in DOMAIN publishes : i # run /\ publishes[i].id = id
    BY <2>1, <2>3 DEF ReleaseInv, SuccessSound
  <2> QED  BY <2>1, <2>4, HeldIsWhole DEF id, run
<1> QED  BY <1>1, <1>2, <1>5, <1>6 DEF Release!StatusSound

(* A step of the maintenance commands is a step of the publication or       *)
(* leaves it alone.                                                         *)
LEMMA MaintenanceStep ==
    ASSUME [XtaskNext]_xtaskVars
    PROVE  /\ Release!Next \/ UNCHANGED releaseVars
  BY DEF XtaskNext, xtaskVars

(* Whatever people and failures do between the steps of Release Publish:    *)
(* the files of a release are of one build; Homebrew and Scoop are told     *)
(* only of the commit the tag, the crate and the release are of; and        *)
(* `release-status` calls complete, or ready for the marketplace, only what *)
(* is whole, but for a draft another run has worked on or a second release. *)
THEOREM ReleaseIsExact == XtaskSpec => []ReleaseExact
<1>1. XtaskInit => ReleaseInv
  BY ReleaseStarts DEF XtaskInit
<1>2. ReleaseInv /\ [XtaskNext]_xtaskVars => ReleaseInv'
  BY MaintenanceStep, ReleaseStep
<1> QED  BY <1>1, <1>2, ReleaseImplies, PTL DEF XtaskSpec

--------------------------------------------------------------------------------
(***************************************************************************)
(* The benchmark: the inductive invariant.                                 *)
(***************************************************************************)
(* What a sample may turn out to be, and how far a run may be.               *)
Kinds == {"good"} \cup Benchmark!Flaws
RunStages == {"ready", "measuring", "writing", "told", "ended", "failed"}

(* A run that takes no more samples.                                         *)
Over(r) == r \in Benchmark!Runs /\ stage[r] \in {"told", "ended", "failed"}
(* A run that has written all it has to.                                     *)
Ended(r) == r \in Benchmark!Runs /\ stage[r] = "ended"

(* No sample is one that ends a run.                                         *)
Clean(kinds) ==
    \A i \in DOMAIN kinds :
        /\ kinds[i] \notin {"identity", "guard"}
        /\ i > 1 => ~(kinds[i - 1] = "provider" /\ kinds[i] = "provider")

(* The runs are those that may be invoked; each has its samples.             *)
BenchmarkTypes ==
    /\ DOMAIN opts = Benchmark!Runs /\ DOMAIN scoredBy = Benchmark!Runs
    /\ stage \in [Benchmark!Runs -> RunStages]
    /\ done \in [Benchmark!Runs -> Seq(Kinds)]

(* The samples of a run that goes on are such that it does, all but the last *)
(* where it stops.                                                           *)
SamplesClean ==
    \A r \in Benchmark!Runs :
        /\ stage[r] = "ready" => done[r] = <<>>
        /\ stage[r] = "measuring" => Clean(done[r])
        /\ stage[r] = "writing" /\ Benchmark!Termination(done[r]) = None => Clean(done[r])

(* Results that say they are complete are those of a run that is over.       *)
ResultsSound ==
    results # None /\ results.end = None =>
        /\ Over(results.run)
        /\ results.count = Len(opts[results.run].cells)
        /\ results.count = Len(done[results.run]) /\ Clean(done[results.run])

(* A run writes one manifest.                                                *)
ManifestSound == manifest # None => Ended(manifest.run)

(* As long as the manifest lies there that ratings name, what the reviewers  *)
(* saw lies there too, or has been touched.                                  *)
RatingsSound ==
    ratings # None =>
        /\ ratings.manifest # None /\ Ended(ratings.manifest.run)
        /\ ratings.manifest = manifest =>
              \A n \in DOMAIN ratings.seen :
                  n \in DOMAIN shelf /\ shelf[n] \in {ratings.seen[n], None}

(* A finalization has read results that are complete, a manifest of the same *)
(* run, and ratings of the reviews as that run wrote them.                   *)
Complete(source) ==
    /\ Over(source.run)
    /\ source.count = Len(opts[source.run].cells)
    /\ scoredBy[source.run].cells = source.corpus.cells

Rated(sheet, source) ==
    /\ sheet.reviewers >= 2
    /\ DOMAIN sheet.seen = Benchmark!SelectedReviews(source, source)
    /\ \A n \in DOMAIN sheet.seen : sheet.seen[n] = source.run

FinalizationSound ==
    fin # None =>
        /\ DOMAIN fin = {"source", "manifest", "ratings"}
        /\ Complete(fin.source)
        /\ fin.manifest # None =>
              /\ fin.manifest.run = fin.source.run
              /\ ratings # None /\ ratings.manifest = fin.manifest =>
                    \A n \in DOMAIN ratings.seen \cap Benchmark!Reviews(fin.source) :
                        ratings.seen[n] = fin.source.run
        /\ fin.ratings # None => fin.manifest # None /\ Rated(fin.ratings, fin.source)

(* What has been decided stands.                                             *)
FinalSound ==
    final # None /\ final.recommendation = "ship" =>
        /\ Complete(final.source) /\ Rated(final.ratings, final.source)
        /\ final.ratings.passes /\ Benchmark!ReleaseMatrix(opts[final.source.run])

BenchmarkInv ==
    /\ BenchmarkTypes /\ SamplesClean /\ ResultsSound /\ ManifestSound
    /\ RatingsSound /\ FinalizationSound /\ FinalSound

--------------------------------------------------------------------------------
(* Runs that are over stay as they are.                                      *)
Kept ==
    \A r \in Benchmark!Runs :
        stage[r] \in {"told", "ended", "failed"} =>
            /\ stage'[r] \in {"told", "ended", "failed"}
            /\ stage[r] = "ended" => stage'[r] = "ended"
            /\ opts'[r] = opts[r] /\ done'[r] = done[r] /\ scoredBy'[r] = scoredBy[r]

(* So for one run.                                                           *)
LEMMA OverStays ==
    ASSUME Kept, NEW r, Over(r)
    PROVE  /\ Over(r)' /\ (Ended(r) => Ended(r)')
           /\ opts'[r] = opts[r] /\ done'[r] = done[r] /\ scoredBy'[r] = scoredBy[r]
  BY DEF Kept, Over, Ended, Benchmark!Runs

(* What is derived from complete results stays what it is.                   *)
LEMMA SourceStays ==
    ASSUME Kept, NEW source, Complete(source)
    PROVE  /\ Complete(source)'
           /\ Benchmark!SelectedReviews(source, source)' = Benchmark!SelectedReviews(source, source)
           /\ Benchmark!Reviews(source)' = Benchmark!Reviews(source)
           /\ Benchmark!ReleaseMatrix(opts[source.run])' = Benchmark!ReleaseMatrix(opts[source.run])
<1>1. /\ Over(source.run)' /\ opts'[source.run] = opts[source.run]
      /\ done'[source.run] = done[source.run] /\ scoredBy'[source.run] = scoredBy[source.run]
  BY OverStays DEF Complete
<1>2. Complete(source)'
  BY <1>1 DEF Complete
<1>3. Benchmark!SelectedReviews(source, source)' = Benchmark!SelectedReviews(source, source)
  BY <1>1 DEF Benchmark!SelectedReviews, Benchmark!Recommended
<1>4. Benchmark!Reviews(source)' = Benchmark!Reviews(source)
  BY <1>1 DEF Benchmark!Reviews
<1> QED  BY <1>1, <1>2, <1>3, <1>4

(* A decision stays sound.                                                   *)
LEMMA FinalStays ==
    ASSUME BenchmarkInv, Kept, UNCHANGED final
    PROVE  FinalSound'
  BY SourceStays DEF BenchmarkInv, FinalSound, Rated

(* What a finalization has read stays sound while nobody rates.              *)
LEMMA FinalizationStays ==
    ASSUME BenchmarkInv, Kept, UNCHANGED <<fin, ratings>>
    PROVE  FinalizationSound'
  BY SourceStays DEF BenchmarkInv, FinalizationSound, Rated

(* Results that nobody writes stay sound.                                    *)
LEMMA ResultsStay ==
    ASSUME BenchmarkInv, Kept, UNCHANGED results
    PROVE  ResultsSound'
  BY OverStays DEF BenchmarkInv, ResultsSound

(* At first there is nothing.                                                *)
LEMMA BenchmarkStarts == Benchmark!Init => BenchmarkInv
<1> SUFFICES ASSUME Benchmark!Init
             PROVE  BenchmarkInv
  OBVIOUS
<1>1. /\ DOMAIN opts = Benchmark!Runs /\ DOMAIN scoredBy = Benchmark!Runs
      /\ stage = [r \in Benchmark!Runs |-> "ready"] /\ done = [r \in Benchmark!Runs |-> <<>>]
      /\ results = None /\ manifest = None /\ ratings = None /\ fin = None /\ final = None
  BY DEF Benchmark!Init
<1>2. BenchmarkTypes
  BY <1>1 DEF BenchmarkTypes, RunStages
<1> QED
  BY <1>1, <1>2 DEF BenchmarkInv, SamplesClean, ResultsSound, ManifestSound, RatingsSound,
                    FinalizationSound, FinalSound

(* A run is admitted, or only prepared.                                      *)
LEMMA BenchmarkStart ==
    ASSUME BenchmarkInv, NEW r \in Benchmark!Runs, Benchmark!Start(r) \/ Benchmark!Preflight(r)
    PROVE  BenchmarkInv'
<1>1. /\ stage[r] = "ready"
      /\ \/ stage' = [stage EXCEPT ![r] = "measuring"] /\ UNCHANGED results
         \/ stage' = [stage EXCEPT ![r] = "ended"] /\ results'.end # None
      /\ \A q \in Benchmark!Runs \ {r} : opts'[q] = opts[q] /\ scoredBy'[q] = scoredBy[q]
      /\ DOMAIN opts' = Benchmark!Runs /\ DOMAIN scoredBy' = Benchmark!Runs
      /\ UNCHANGED <<done, shelf, manifest, ratings, fin, final>>
  BY NothingAssumption DEF Benchmark!Start, Benchmark!Preflight, Benchmark!Begins, Benchmark!Result,
                           BenchmarkInv, BenchmarkTypes
<1>2. Kept
  BY <1>1 DEF Kept, BenchmarkInv, BenchmarkTypes
<1>3. BenchmarkTypes'
  BY <1>1 DEF BenchmarkInv, BenchmarkTypes, RunStages
<1>4. SamplesClean'
  <2>1. Clean(<<>>)
    BY DEF Clean
  <2> QED  BY <1>1, <2>1 DEF BenchmarkInv, BenchmarkTypes, SamplesClean
<1>5. ResultsSound'
  BY <1>1, <1>2, ResultsStay DEF ResultsSound
<1>6. ManifestSound' /\ RatingsSound'
  BY <1>1, <1>2, OverStays DEF BenchmarkInv, ManifestSound, RatingsSound, Over, Ended
<1>7. FinalizationSound' /\ FinalSound'
  BY <1>1, <1>2, FinalizationStays, FinalStays
<1> QED  BY <1>3, <1>4, <1>5, <1>6, <1>7 DEF BenchmarkInv

(* One more sample.                                                          *)
LEMMA BenchmarkMeasure ==
    ASSUME BenchmarkInv, NEW r \in Benchmark!Runs, NEW kind \in Kinds, Benchmark!Measure(r, kind)
    PROVE  BenchmarkInv'
<1> DEFINE kinds == Benchmark!Sampled(r, kind)
<1>1. /\ stage[r] = "measuring" /\ done' = [done EXCEPT ![r] = kinds]
      /\ \/ stage' = [stage EXCEPT ![r] = "failed"] /\ UNCHANGED results
         \/ /\ stage' = [stage EXCEPT ![r] = "writing"]
            /\ results' = Benchmark!Checkpoint(r, kinds)
         \/ /\ stage' = [stage EXCEPT ![r] = "measuring"] /\ Benchmark!Termination(kinds) = None
            /\ results' = Benchmark!Checkpoint(r, kinds)
      /\ UNCHANGED <<opts, scoredBy, manifest, ratings, fin, final>>
      /\ shelf' = shelf \/ shelf' = Benchmark!Recorded(r)
  <2> DEFINE cells == opts[r].cells
             i == Len(kinds)
             reviewed == opts[r].review /\ Benchmark!Valid(kind) /\ cells[i].context = 8192
             taken == reviewed /\ DOMAIN Benchmark!Recorded(r) = DOMAIN shelf
             refused == taken \/ kind = "late_guard"
  <2>1. /\ stage[r] = "measuring" /\ done' = [done EXCEPT ![r] = kinds]
        /\ shelf' = IF reviewed /\ ~taken THEN Benchmark!Recorded(r) ELSE shelf
        /\ results' = IF refused THEN results ELSE Benchmark!Checkpoint(r, kinds)
        /\ stage' = [stage EXCEPT ![r] =
                        IF refused THEN "failed"
                        ELSE IF Benchmark!Termination(kinds) # None \/ i = Len(cells) THEN "writing"
                        ELSE "measuring"]
        /\ UNCHANGED <<opts, scoredBy, manifest, ratings, fin, final>>
    BY DEF Benchmark!Measure
  <2> HIDE DEF kinds, refused, reviewed, taken, i
  <2> QED  BY <2>1
<1>2. kinds \in Seq(Kinds) /\ Clean(done[r]) /\ done[r] \in Seq(Kinds)
  BY <1>1 DEF Benchmark!Sampled, BenchmarkInv, BenchmarkTypes, SamplesClean
<1>3. Benchmark!Termination(kinds) = None => Clean(kinds)
  <2> SUFFICES ASSUME Benchmark!Termination(kinds) = None
               PROVE  Clean(kinds)
    OBVIOUS
  <2>1. /\ Len(kinds) = Len(done[r]) + 1 /\ Len(done[r]) \in Nat /\ kinds # <<>>
        /\ \A i \in 1 .. Len(done[r]) : kinds[i] = done[r][i]
        /\ DOMAIN kinds = 1 .. Len(done[r]) + 1 /\ DOMAIN done[r] = 1 .. Len(done[r])
    <3>1. PICK s \in Seq(Kinds) : s = done[r]
      BY <1>2
    <3>2. /\ Len(Append(s, kind)) = Len(s) + 1 /\ Len(s) \in Nat
          /\ \A i \in 1 .. Len(s) : Append(s, kind)[i] = s[i]
          /\ DOMAIN Append(s, kind) = 1 .. Len(s) + 1 /\ DOMAIN s = 1 .. Len(s)
      OBVIOUS
    <3>3. Append(s, kind) # <<>>
      <4>1. Len(Append(s, kind)) # Len(<<>>)
        <5>1. Len(<<>>) = 0
          OBVIOUS
        <5> QED  BY <3>2, <5>1
      <4> QED  BY <4>1
    <3>4. kinds = Append(s, kind)
      BY <3>1 DEF Benchmark!Sampled
    <3> HIDE DEF kinds
    <3> QED  BY <3>1, <3>2, <3>3, <3>4
  <2>2. kinds[Len(kinds)] \notin {"guard", "identity"}
    <3>1. kinds[Len(kinds)] = "guard" => Benchmark!Termination(kinds) = "resource_guard"
      BY <2>1 DEF Benchmark!Termination, Benchmark!Last
    <3>2. kinds[Len(kinds)] = "identity" =>
              Benchmark!Termination(kinds) = "provider_model_mismatch"
      BY <2>1 DEF Benchmark!Termination, Benchmark!Last
    <3> QED  BY <3>1, <3>2, NothingAssumption
  <2>3. ~ (/\ Len(kinds) >= 2
           /\ \A i \in {Len(kinds) - 1, Len(kinds)} : kinds[i] = "provider")
    BY <2>1, <2>2, NothingAssumption DEF Benchmark!Termination, Benchmark!Last
  <2> HIDE DEF kinds
  <2> SUFFICES ASSUME NEW i \in DOMAIN kinds
               PROVE  /\ kinds[i] \notin {"identity", "guard"}
                      /\ i > 1 => ~(kinds[i - 1] = "provider" /\ kinds[i] = "provider")
    BY DEF Clean
  <2>4. CASE i = Len(kinds)
    BY <2>1, <2>2, <2>3, <2>4
  <2>5. CASE i # Len(kinds)
    <3>1. i \in DOMAIN done[r] /\ kinds[i] = done[r][i]
          /\ (i > 1 => kinds[i - 1] = done[r][i - 1])
      BY <2>1, <2>5
    <3> QED  BY <3>1, <1>2 DEF Clean
  <2> QED  BY <2>4, <2>5
<1>4. Benchmark!Checkpoint(r, kinds).end # None
  BY NothingAssumption DEF Benchmark!Checkpoint, Benchmark!Result
<1> HIDE DEF kinds
<1>5. Kept
  BY <1>1 DEF Kept, BenchmarkInv, BenchmarkTypes
<1>6. BenchmarkTypes'
  BY <1>1, <1>2 DEF BenchmarkInv, BenchmarkTypes, RunStages
<1>7. SamplesClean'
  BY <1>1, <1>2, <1>3 DEF BenchmarkInv, BenchmarkTypes, SamplesClean
<1>8. ResultsSound'
  BY <1>1, <1>4, <1>5, ResultsStay DEF ResultsSound
<1>9. \A n \in DOMAIN shelf : n \in DOMAIN shelf' /\ shelf'[n] = shelf[n]
  BY <1>1 DEF Benchmark!Recorded
<1>10. ManifestSound' /\ RatingsSound'
  BY <1>1, <1>5, <1>9, OverStays DEF BenchmarkInv, ManifestSound, RatingsSound, Over, Ended
<1>11. FinalizationSound' /\ FinalSound'
  BY <1>1, <1>5, FinalizationStays, FinalStays
<1> QED  BY <1>6, <1>7, <1>8, <1>10, <1>11 DEF BenchmarkInv

(* The last results of a run, and its manifest.                              *)
LEMMA BenchmarkWrites ==
    ASSUME BenchmarkInv, NEW r \in Benchmark!Runs,
           Benchmark!WriteTerminal(r) \/ Benchmark!WriteManifest(r) \/ Benchmark!Die(r)
    PROVE  BenchmarkInv'
<1>1. /\ stage[r] \in {"measuring", "writing", "told"}
      /\ \E next \in {"told", "ended", "failed"} : stage' = [stage EXCEPT ![r] = next]
      /\ UNCHANGED <<opts, done, scoredBy, shelf, ratings, fin, final>>
  BY DEF Benchmark!WriteTerminal, Benchmark!WriteManifest, Benchmark!Die
<1>2. Kept
  BY <1>1 DEF Kept, BenchmarkInv, BenchmarkTypes
<1>3. BenchmarkTypes'
  BY <1>1 DEF BenchmarkInv, BenchmarkTypes, RunStages
<1>4. SamplesClean'
  BY <1>1 DEF BenchmarkInv, BenchmarkTypes, SamplesClean
<1>5. FinalizationSound' /\ FinalSound'
  BY <1>1, <1>2, FinalizationStays, FinalStays
<1>6. CASE Benchmark!WriteTerminal(r)
  <2>1. /\ stage[r] = "writing" /\ results' = Benchmark!Result(r, done[r], Benchmark!Termination(done[r]))
        /\ Benchmark!Termination(done[r]) = None => Len(done[r]) = Len(opts[r].cells)
        /\ UNCHANGED manifest
    BY <1>6 DEF Benchmark!WriteTerminal
  <2>2. Over(r)'
    BY <1>1 DEF Over, BenchmarkInv, BenchmarkTypes
  <2>3. ResultsSound'
    BY <1>1, <2>1, <2>2 DEF ResultsSound, Benchmark!Result, BenchmarkInv, SamplesClean
  <2>4. ManifestSound' /\ RatingsSound'
    BY <1>1, <1>2, <2>1, OverStays DEF BenchmarkInv, ManifestSound, RatingsSound, Over, Ended
  <2> QED  BY <1>3, <1>4, <1>5, <2>3, <2>4 DEF BenchmarkInv
<1>7. CASE Benchmark!WriteManifest(r)
  <2>1. /\ stage[r] = "told" /\ UNCHANGED results
        /\ stage' = [stage EXCEPT ![r] = IF manifest = None THEN "ended" ELSE "failed"]
        /\ IF manifest # None THEN manifest' = manifest ELSE manifest'.run = r
    BY <1>7 DEF Benchmark!WriteManifest
  <2>2. ResultsSound'
    BY <1>2, <2>1, ResultsStay
  <2>3. CASE manifest # None
    <3>1. ManifestSound' /\ RatingsSound'
      BY <1>1, <1>2, <2>1, <2>3, OverStays DEF BenchmarkInv, ManifestSound, RatingsSound, Over, Ended
    <3> QED  BY <1>3, <1>4, <1>5, <2>2, <3>1 DEF BenchmarkInv
  <2>4. CASE manifest = None
    <3>1. Ended(r)' /\ ~Ended(r)
      BY <2>1, <2>4 DEF Ended, BenchmarkInv, BenchmarkTypes
    <3>2. ManifestSound'
      BY <2>1, <2>4, <3>1 DEF ManifestSound
    <3>3. RatingsSound'
      BY <1>1, <1>2, <2>1, <2>4, <3>1, OverStays DEF BenchmarkInv, RatingsSound, Over, Ended
    <3> QED  BY <1>3, <1>4, <1>5, <2>2, <3>2, <3>3 DEF BenchmarkInv
  <2> QED  BY <1>3, <1>4, <1>5, <2>2, <2>3, <2>4 DEF BenchmarkInv
<1>8. CASE Benchmark!Die(r)
  <2>1. UNCHANGED <<results, manifest>>
    BY <1>8 DEF Benchmark!Die
  <2>2. ManifestSound' /\ RatingsSound'
    BY <1>1, <1>2, <2>1, OverStays DEF BenchmarkInv, ManifestSound, RatingsSound, Over, Ended
  <2> QED  BY <1>2, <1>3, <1>4, <1>5, <2>1, <2>2, ResultsStay DEF BenchmarkInv
<1> QED  BY <1>6, <1>7, <1>8

(* Steps that no run takes.                                                  *)
LEMMA RunsRest ==
    ASSUME BenchmarkInv, UNCHANGED <<opts, done, stage, scoredBy, results>>
    PROVE  Kept /\ BenchmarkTypes' /\ SamplesClean' /\ ResultsSound'
<1>1. Kept
  BY DEF Kept
<1>2. BenchmarkTypes' /\ SamplesClean'
  BY DEF BenchmarkInv, BenchmarkTypes, SamplesClean
<1> QED  BY <1>1, <1>2, ResultsStay

(* People edit the corpus, touch a review or empty the review directory.     *)
LEMMA BenchmarkEdits ==
    ASSUME BenchmarkInv, Benchmark!EditCorpus \/ Benchmark!EditShelf
    PROVE  BenchmarkInv'
<1>1. /\ UNCHANGED <<opts, done, stage, scoredBy, results, ratings, fin, final>>
      /\ \/ /\ UNCHANGED manifest
            /\ \/ UNCHANGED shelf
               \/ \E n \in DOMAIN shelf : shelf' = [shelf EXCEPT ![n] = None]
         \/ manifest' = None
  BY DEF Benchmark!EditCorpus, Benchmark!EditShelf
<1>2. ManifestSound'
  BY <1>1 DEF BenchmarkInv, ManifestSound, Ended
<1>3. RatingsSound'
  <2> SUFFICES ASSUME ratings # None
               PROVE  /\ ratings.manifest # None /\ Ended(ratings.manifest.run)
                      /\ ratings.manifest = manifest' =>
                            \A n \in DOMAIN ratings.seen :
                                n \in DOMAIN shelf' /\ shelf'[n] \in {ratings.seen[n], None}
    BY <1>1 DEF RatingsSound, Ended
  <2>1. ratings.manifest # None /\ Ended(ratings.manifest.run)
    BY DEF BenchmarkInv, RatingsSound
  <2>2. CASE manifest' = None
    BY <2>1, <2>2
  <2>3. CASE /\ UNCHANGED manifest
             /\ \/ UNCHANGED shelf
                \/ \E n \in DOMAIN shelf : shelf' = [shelf EXCEPT ![n] = None]
    <3>1. /\ DOMAIN shelf' = DOMAIN shelf
          /\ \A n \in DOMAIN shelf : shelf'[n] \in {shelf[n], None}
      BY <2>3
    <3>2. ratings.manifest = manifest =>
              \A n \in DOMAIN ratings.seen :
                  n \in DOMAIN shelf /\ shelf[n] \in {ratings.seen[n], None}
      BY DEF BenchmarkInv, RatingsSound
    <3> QED  BY <2>1, <2>3, <3>1, <3>2
  <2> QED  BY <1>1, <2>2, <2>3
<1> QED  BY <1>1, <1>2, <1>3, RunsRest, FinalizationStays, FinalStays DEF BenchmarkInv

(* Reviewers rate what lies in the directory.                                *)
LEMMA BenchmarkRate ==
    ASSUME BenchmarkInv, Benchmark!Rate
    PROVE  BenchmarkInv'
<1>1. /\ manifest # None /\ fin = None
      /\ UNCHANGED <<opts, done, stage, scoredBy, results, shelf, manifest, fin, final>>
  BY DEF Benchmark!Rate
<1>2. PICK ids, left : /\ ratings'.manifest = manifest
                       /\ ratings'.seen = [n \in (ids \cap DOMAIN shelf) \ left |-> shelf[n]]
  BY DEF Benchmark!Rate
<1>3. RatingsSound'
  BY <1>1, <1>2 DEF BenchmarkInv, RatingsSound, ManifestSound, Ended
<1>4. FinalizationSound' /\ ManifestSound'
  BY <1>1 DEF BenchmarkInv, FinalizationSound, ManifestSound, Ended
<1> QED  BY <1>1, <1>3, <1>4, RunsRest, FinalStays DEF BenchmarkInv

(* A finalization changes nothing that it reads.                             *)
LEMMA Finalizing ==
    ASSUME BenchmarkInv, FinalizationSound', FinalSound',
           UNCHANGED <<opts, done, stage, scoredBy, results, shelf, manifest, ratings>>
    PROVE  BenchmarkInv'
<1>1. ManifestSound' /\ RatingsSound'
  BY DEF BenchmarkInv, ManifestSound, RatingsSound, Ended
<1> QED  BY <1>1, RunsRest DEF BenchmarkInv

(* It begins with results that are complete and of the corpus on disk.       *)
LEMMA BenchmarkReadResults ==
    ASSUME BenchmarkInv, Benchmark!ReadResults
    PROVE  BenchmarkInv'
<1>1. /\ results # None /\ results.end = None /\ results.corpus = corpus
      /\ results.count = Len(opts[results.run].cells)
      /\ scoredBy[results.run].cells = corpus.cells
      /\ fin' = [source |-> results, manifest |-> None, ratings |-> None]
      /\ UNCHANGED <<opts, done, stage, scoredBy, results, shelf, manifest, ratings, final>>
  BY DEF Benchmark!ReadResults, Benchmark!BoundToCorpus, Benchmark!SamplesVerified
<1>2. Complete(results)'
  BY <1>1 DEF BenchmarkInv, ResultsSound, Complete, Over
<1>3. /\ DOMAIN fin' = {"source", "manifest", "ratings"} /\ fin'.source = results
      /\ fin'.manifest = None /\ fin'.ratings = None
  BY <1>1
<1>4. FinalizationSound'
  BY <1>1, <1>2, <1>3 DEF FinalizationSound
<1> QED  BY <1>1, <1>4, RunsRest, FinalStays, Finalizing

(* It goes on with the manifest of these results, whose reviews are as that  *)
(* run wrote them.                                                           *)
LEMMA BenchmarkReadReviews ==
    ASSUME BenchmarkInv, Benchmark!ReadReviews
    PROVE  BenchmarkInv'
<1>1. /\ fin # None /\ fin.manifest = None /\ manifest # None
      /\ Benchmark!Untouched(manifest) /\ manifest.run = fin.source.run
      /\ fin' = [fin EXCEPT !.manifest = manifest]
      /\ UNCHANGED <<opts, done, stage, scoredBy, results, shelf, manifest, ratings, final>>
  BY DEF Benchmark!ReadReviews, Benchmark!ReviewsCover
<1>2. /\ DOMAIN fin' = {"source", "manifest", "ratings"} /\ fin'.source = fin.source
      /\ fin'.manifest = manifest /\ fin'.ratings = fin.ratings /\ fin.ratings = None
      /\ Complete(fin.source)
  BY <1>1 DEF BenchmarkInv, FinalizationSound
<1>3. ASSUME ratings # None, ratings.manifest = manifest,
             NEW n \in DOMAIN ratings.seen \cap Benchmark!Reviews(fin.source)
      PROVE  ratings.seen[n] = fin.source.run
  <2>1. shelf[n] \in {ratings.seen[n], None}
    BY <1>3 DEF BenchmarkInv, RatingsSound
  <2>2. shelf[n] = fin.source.run
    BY <1>1, <1>3 DEF Benchmark!Untouched, Benchmark!Reviews
  <2>3. fin.source.run # None
    BY <1>2, NothingAssumption DEF Complete, Over, Benchmark!Runs
  <2> QED  BY <2>1, <2>2, <2>3
<1>4. FinalizationSound'
  <2>1. Complete(fin.source)' /\ Benchmark!Reviews(fin.source)' = Benchmark!Reviews(fin'.source)
    BY <1>1, <1>2, RunsRest, SourceStays
  <2> QED  BY <1>1, <1>2, <1>3, <2>1 DEF FinalizationSound
<1> QED  BY <1>1, <1>4, RunsRest, FinalStays, Finalizing

(* Then with the ratings that name it.                                       *)
LEMMA BenchmarkReadRatings ==
    ASSUME BenchmarkInv, Benchmark!ReadRatings
    PROVE  BenchmarkInv'
<1>1. /\ fin # None /\ fin.manifest # None /\ ratings # None
      /\ ratings.manifest = fin.manifest /\ ratings.reviewers >= 2
      /\ DOMAIN ratings.seen = Benchmark!SelectedReviews(fin.manifest, fin.source)
      /\ fin' = [fin EXCEPT !.ratings = ratings]
      /\ UNCHANGED <<opts, done, stage, scoredBy, results, shelf, manifest, ratings, final>>
  BY DEF Benchmark!ReadRatings, Benchmark!RatingsBind
<1>2. /\ DOMAIN fin' = {"source", "manifest", "ratings"} /\ fin'.source = fin.source
      /\ fin'.manifest = fin.manifest /\ fin'.ratings = ratings
      /\ Complete(fin.source) /\ fin.manifest.run = fin.source.run
      /\ \A n \in DOMAIN ratings.seen \cap Benchmark!Reviews(fin.source) :
             ratings.seen[n] = fin.source.run
  BY <1>1 DEF BenchmarkInv, FinalizationSound
<1>3. /\ DOMAIN ratings.seen = Benchmark!SelectedReviews(fin.source, fin.source)
      /\ DOMAIN ratings.seen \subseteq Benchmark!Reviews(fin.source)
  BY <1>1, <1>2 DEF Benchmark!SelectedReviews, Benchmark!Reviews
<1>4. Rated(ratings, fin.source)
  BY <1>1, <1>2, <1>3 DEF Rated
<1>5. FinalizationSound'
  <2>1. /\ Complete(fin.source)' /\ Benchmark!Reviews(fin.source)' = Benchmark!Reviews(fin'.source)
        /\ Benchmark!SelectedReviews(fin.source, fin.source)'
               = Benchmark!SelectedReviews(fin.source, fin.source)
    BY <1>1, <1>2, RunsRest, SourceStays
  <2>2. Rated(ratings, fin.source)'
    BY <1>1, <1>2, <1>4, <2>1 DEF Rated
  <2> QED  BY <1>1, <1>2, <2>1, <2>2 DEF FinalizationSound
<1> QED  BY <1>1, <1>5, RunsRest, FinalStays, Finalizing

(* What it decides of them is written, or it gives up.                       *)
LEMMA BenchmarkDecides ==
    ASSUME BenchmarkInv, Benchmark!WriteFinal \/ Benchmark!GiveUp
    PROVE  BenchmarkInv'
<1>1. /\ fin # None /\ fin' = None
      /\ UNCHANGED <<opts, done, stage, scoredBy, results, shelf, manifest, ratings>>
  BY DEF Benchmark!WriteFinal, Benchmark!GiveUp
<1>2. FinalizationSound'
  BY <1>1 DEF FinalizationSound
<1>3. FinalSound'
  <2>1. CASE Benchmark!GiveUp
    BY <1>1, <2>1, RunsRest, FinalStays DEF Benchmark!GiveUp
  <2>2. CASE Benchmark!WriteFinal
    <3>1. PICK source, sheet : source = fin.source /\ sheet = fin.ratings
      OBVIOUS
    <3>2. /\ fin.ratings # None
          /\ final'.source = source /\ final'.ratings = sheet
          /\ final'.recommendation = Benchmark!Recommendation(source, sheet.passes)
      BY <2>2, <3>1 DEF Benchmark!WriteFinal
    <3>3. Complete(source) /\ Rated(sheet, source)
      BY <1>1, <3>1, <3>2 DEF BenchmarkInv, FinalizationSound
    <3>4. final'.recommendation = "ship" =>
              Benchmark!Recommended(source) # None /\ sheet.passes
      BY <3>2 DEF Benchmark!Recommendation
    <3>5. Benchmark!Recommended(source) # None => Benchmark!ReleaseMatrix(opts[source.run])
      BY DEF Benchmark!Recommended, Benchmark!Best
    <3>6. Complete(source)' /\ Rated(sheet, source)'
      BY <1>1, <3>3, RunsRest, SourceStays DEF Rated
    <3> QED  BY <1>1, <3>2, <3>4, <3>5, <3>6 DEF FinalSound
  <2> QED  BY <2>1, <2>2
<1> QED  BY <1>1, <1>2, <1>3, Finalizing

(* Every step around the benchmark keeps the invariant.                      *)
LEMMA BenchmarkStep ==
    ASSUME BenchmarkInv, Benchmark!Next \/ UNCHANGED benchmarkVars
    PROVE  BenchmarkInv'
<1>1. CASE UNCHANGED benchmarkVars
  <2>1. UNCHANGED <<opts, done, stage, scoredBy, results, shelf, manifest, ratings, fin, final>>
    BY <1>1 DEF benchmarkVars
  <2> QED  BY <2>1, RunsRest, FinalStays, FinalizationStays, Finalizing
<1>2. CASE Benchmark!Next
  <2>1. CASE \E r \in Benchmark!Runs : \/ Benchmark!Start(r) \/ Benchmark!Preflight(r)
                                       \/ Benchmark!WriteTerminal(r) \/ Benchmark!WriteManifest(r)
                                       \/ Benchmark!Die(r)
                                       \/ \E kind \in Kinds : Benchmark!Measure(r, kind)
    BY <2>1, BenchmarkStart, BenchmarkMeasure, BenchmarkWrites
  <2>2. CASE Benchmark!EditCorpus \/ Benchmark!EditShelf \/ Benchmark!Rate
    BY <2>2, BenchmarkEdits, BenchmarkRate
  <2>3. CASE \/ Benchmark!ReadResults \/ Benchmark!ReadReviews \/ Benchmark!ReadRatings
             \/ Benchmark!WriteFinal \/ Benchmark!GiveUp
    BY <2>3, BenchmarkReadResults, BenchmarkReadReviews, BenchmarkReadRatings, BenchmarkDecides
  <2> QED  BY <1>2, <2>1, <2>2, <2>3 DEF Benchmark!Next, Kinds
<1> QED  BY <1>1, <1>2

(* The invariant says what is asked of the results and of the decision.      *)
LEMMA BenchmarkImplies == BenchmarkInv => BenchmarkHonest
<1> SUFFICES ASSUME BenchmarkInv
             PROVE  Benchmark!CompleteIsWhole /\ Benchmark!ShipIsReviewed
  BY DEF BenchmarkHonest
<1>1. Benchmark!CompleteIsWhole
  <2> SUFFICES ASSUME results # None, results.end = None
               PROVE  /\ results.count = Len(opts[results.run].cells)
                      /\ \A i \in 1 .. results.count :
                            /\ done[results.run][i] \notin {"identity", "guard"}
                            /\ i > 1 => ~(/\ done[results.run][i - 1] = "provider"
                                          /\ done[results.run][i] = "provider")
    BY DEF Benchmark!CompleteIsWhole
  <2>1. /\ Over(results.run) /\ results.count = Len(opts[results.run].cells)
        /\ results.count = Len(done[results.run]) /\ Clean(done[results.run])
    BY DEF BenchmarkInv, ResultsSound
  <2>2. DOMAIN done[results.run] = 1 .. results.count
    BY <2>1 DEF BenchmarkInv, BenchmarkTypes, Over
  <2> QED  BY <2>1, <2>2 DEF Clean
<1>2. Benchmark!ShipIsReviewed
  <2> SUFFICES ASSUME final # None, final.recommendation = "ship"
               PROVE  Benchmark!ShipIsReviewed
    BY DEF Benchmark!ShipIsReviewed
  <2>1. /\ Complete(final.source) /\ Rated(final.ratings, final.source)
        /\ final.ratings.passes /\ Benchmark!ReleaseMatrix(opts[final.source.run])
    BY DEF BenchmarkInv, FinalSound
  <2> QED  BY <2>1 DEF Complete, Rated, Benchmark!ShipIsReviewed, Benchmark!SelectedReviews
<1> QED  BY <1>1, <1>2

(* Whatever runs share the directories and whatever people edit meanwhile:   *)
(* results that say they are complete have every cell and no sample that     *)
(* should have ended the run (run/orchestration.rs), and a finalized "ship"  *)
(* is of one complete release matrix whose reviews two reviewers have seen   *)
(* as the run wrote them (finalization.rs, review.rs).                       *)
THEOREM BenchmarkIsHonest == XtaskSpec => []BenchmarkHonest
<1>1. XtaskInit => BenchmarkInv
  BY BenchmarkStarts DEF XtaskInit
<1>2. BenchmarkInv /\ [XtaskNext]_xtaskVars => BenchmarkInv'
  <2>1. [XtaskNext]_xtaskVars => Benchmark!Next \/ UNCHANGED benchmarkVars
    BY DEF XtaskNext, xtaskVars
  <2> QED  BY <2>1, BenchmarkStep
<1> QED  BY <1>1, <1>2, BenchmarkImplies, PTL DEF XtaskSpec
================================================================================
