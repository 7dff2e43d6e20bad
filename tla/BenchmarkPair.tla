---------------------------- MODULE BenchmarkPair ----------------------------
(***************************************************************************)
(* write_benchmark_pair of xtask: results.json and decision.md are written *)
(* as one transaction, recorded in a journal beside them, which the next   *)
(* write rolls back or completes before it does anything else.  One action *)
(* is one file-system call, or the checks and the call that follows them   *)
(* at once.  A writer may crash between any two of them and a call may     *)
(* fail.  No lock is taken: overlapped remembers whether two writers ever  *)
(* ran at the same time.                                                   *)
(***************************************************************************)
EXTENDS Integers

CONSTANTS
    Writers,   \* calls of write_benchmark_pair for one pair of paths
    Replace,   \* the writers that pass replace_existing (preflight, aggregate)
    Original,  \* the content of a file that was there at the start
    Absent,    \* no file
    MaxFaults  \* bound: crashes, failing calls and overlaps in one behaviour

-------------------------------------------------------------------------------
(* The two files, in the order in which every step treats them.            *)
Members == {"results", "decision"}
Contents == Writers \cup {Original}

(* BenchmarkPairTransaction: the temporaries and the backups bear names of *)
(* their own, so the owner stands for their paths.                         *)
Transactions == [owner : Writers, had : [Members -> BOOLEAN]]

ASSUME PairAssumption ==
    /\ Replace \subseteq Writers
    /\ Original \notin Writers
    /\ Absent \notin Contents \cup Transactions
    /\ MaxFaults \in Nat

VARIABLES
    dest,        \* the content of the two files
    tmp,         \* does the temporary of each writer exist?
    backup,      \* the content of the backup of each writer
    journal,     \* the transaction in the journal file, or Absent
    pc,          \* the next step of each writer
    member,      \* the file that step is about
    txn,         \* the transaction a writer carries out or recovers, or Absent
    broken,      \* has restore_pair failed for a file?
    recovering,  \* is the recovery the first thing or the rollback?
    latest,      \* history: the owner of the last journal written, or Absent
    overlapped,  \* history: have two writers run at the same time?
    faults       \* how many crashes, failures and overlaps have happened

files == <<dest, tmp, backup, journal>>
pairVars == <<dest, tmp, backup, journal, pc, member, txn, broken, recovering,
          latest, overlapped, faults>>

RecoverySteps == {"recover", "dropBackup", "unlink", "putBack", "dropTmp", "unjournal"}
InstallSteps == {"link", "unlinkTmp", "moveAside", "rename", "removeBackup", "commit"}
Running == RecoverySteps \cup InstallSteps \cup {"check", "write", "record"}
Final == {"written", "refused", "failed", "recoveryFailed", "crashed"}

TypeOK ==
    /\ dest \in [Members -> Contents \cup {Absent}]
    /\ tmp \in [Writers -> [Members -> BOOLEAN]]
    /\ backup \in [Writers -> [Members -> Contents \cup {Absent}]]
    /\ journal \in Transactions \cup {Absent}
    /\ pc \in [Writers -> {"idle"} \cup Running \cup Final]
    /\ member \in [Writers -> Members]
    /\ txn \in [Writers -> Transactions \cup {Absent}]
    /\ \A w \in Writers :
          pc[w] \in InstallSteps \cup (RecoverySteps \ {"recover"}) => txn[w] # Absent
    /\ broken \in [Writers -> BOOLEAN]
    /\ recovering \in [Writers -> {"first", "rollback"}]
    /\ latest \in Writers \cup {Absent}
    /\ overlapped \in BOOLEAN
    /\ faults \in 0 .. MaxFaults

PairInit ==
    /\ dest \in [Members -> {Original, Absent}]
    /\ tmp = [w \in Writers |-> [m \in Members |-> FALSE]]
    /\ backup = [w \in Writers |-> [m \in Members |-> Absent]]
    /\ journal = Absent
    /\ pc = [w \in Writers |-> "idle"]
    /\ member = [w \in Writers |-> "results"]
    /\ txn = [w \in Writers |-> Absent]
    /\ broken = [w \in Writers |-> FALSE]
    /\ recovering = [w \in Writers |-> "first"]
    /\ latest = Absent
    /\ overlapped = FALSE
    /\ faults = 0

At(w, step) == pc[w] = step

(* The next step, from the first file.                                     *)
GoTo(w, step) ==
    /\ pc' = [pc EXCEPT ![w] = step]
    /\ member' = [member EXCEPT ![w] = "results"]

(* The same step for the second file, or the next step after it.           *)
Then(w, step) ==
    IF member[w] = "results"
      THEN member' = [member EXCEPT ![w] = "decision"] /\ UNCHANGED pc
      ELSE GoTo(w, step)

Locals == <<broken, recovering>>
History == <<latest, overlapped>>

(* An error of the replacement: the writer calls recover_benchmark_pair.   *)
Rollback(w) ==
    /\ GoTo(w, "recover")
    /\ recovering' = [recovering EXCEPT ![w] = "rollback"]

-------------------------------------------------------------------------------
Fault == faults < MaxFaults /\ faults' = faults + 1

(* A writer that begins while another runs draws on the same bound.        *)
Begin(w) ==
    /\ At(w, "idle")
    /\ GoTo(w, "recover")
    /\ IF \E v \in Writers : pc[v] \in Running
         THEN overlapped' = TRUE /\ Fault
         ELSE UNCHANGED <<overlapped, faults>>
    /\ UNCHANGED <<files, txn, Locals, latest>>

-------------------------------------------------------------------------------
(* recover_benchmark_pair.                                                 *)

(* Where a recovery that has succeeded returns to.                         *)
Recovered(w) ==
    GoTo(w, IF recovering[w] = "first" THEN "check" ELSE "failed")

NoJournal(w) ==
    /\ At(w, "recover")
    /\ journal = Absent
    /\ Recovered(w)
    /\ UNCHANGED <<files, txn, Locals, History, faults>>

FullyInstalled(t) ==
    /\ \A m \in Members : dest[m] # Absent
    /\ \A m \in Members : ~ tmp[t.owner][m]

ReadJournal(w) ==
    /\ At(w, "recover")
    /\ journal # Absent
    /\ txn' = [txn EXCEPT ![w] = journal]
    /\ broken' = [broken EXCEPT ![w] = FALSE]
    /\ GoTo(w, IF FullyInstalled(journal) THEN "dropBackup" ELSE "unlink")
    /\ UNCHANGED <<files, recovering, History, faults>>

(* The transaction was complete: its backups are removed.                  *)
DropBackup(w) ==
    /\ At(w, "dropBackup")
    /\ backup' = [backup EXCEPT ![txn[w].owner][member[w]] = Absent]
    /\ Then(w, "unjournal")
    /\ UNCHANGED <<dest, tmp, journal, txn, Locals, History, faults>>

(* restore_pair_destination for each of the two files: what is at the path *)
(* is removed, whatever it is, and the backup renamed to it if the         *)
(* transaction says that there was an original.                            *)
Unlink(w) ==
    /\ At(w, "unlink")
    /\ dest' = [dest EXCEPT ![member[w]] = Absent]
    /\ pc' = [pc EXCEPT ![w] = "putBack"]
    /\ UNCHANGED <<tmp, backup, journal, member, txn, Locals, History, faults>>

(* The decision follows the results, whether or not these were restored;   *)
(* the recovery fails if either has failed.                                *)
AfterRestore(w, failed) ==
    GoTo(w, IF failed THEN "recoveryFailed" ELSE "dropTmp")

(* Mutant: the decision is not restored.                                   *)
RestoredOne(w, failed) ==
    /\ broken' = [broken EXCEPT ![w] = failed]
    /\ AfterRestore(w, failed)

Restored(w, failed) ==
    /\ broken' = [broken EXCEPT ![w] = failed]
    /\ IF member[w] = "results"
         THEN /\ pc' = [pc EXCEPT ![w] = "unlink"]
              /\ member' = [member EXCEPT ![w] = "decision"]
         ELSE AfterRestore(w, failed)

PutBack(w) ==
    LET m == member[w]
        o == txn[w].owner
        had == txn[w].had[m]
    IN  /\ At(w, "putBack")
        /\ had => backup[o][m] # Absent
        /\ dest' = IF had THEN [dest EXCEPT ![m] = backup[o][m]] ELSE dest
        /\ backup' = [backup EXCEPT ![o][m] = Absent]
        /\ Restored(w, broken[w])
        /\ UNCHANGED <<tmp, journal, txn, recovering, History, faults>>

(* There is no backup to rename.                                           *)
PutBackRefused(w) ==
    /\ At(w, "putBack")
    /\ txn[w].had[member[w]]
    /\ backup[txn[w].owner][member[w]] = Absent
    /\ Restored(w, TRUE)
    /\ UNCHANGED <<files, txn, recovering, History, faults>>

DropTmp(w) ==
    /\ At(w, "dropTmp")
    /\ tmp' = [tmp EXCEPT ![txn[w].owner][member[w]] = FALSE]
    /\ Then(w, "unjournal")
    /\ UNCHANGED <<dest, backup, journal, txn, Locals, History, faults>>

(* The journal is removed last; it is an error if it is not there.         *)
Unjournal(w) ==
    /\ At(w, "unjournal")
    /\ journal' = Absent
    /\ IF journal = Absent THEN GoTo(w, "recoveryFailed") ELSE Recovered(w)
    /\ UNCHANGED <<dest, tmp, backup, txn, Locals, History, faults>>

-------------------------------------------------------------------------------
(* write_benchmark_pair after the recovery.                                *)
(* Mutant: files that are there do not prevent the write.                  *)
CheckNothing(w) ==
    /\ At(w, "check")
    /\ GoTo(w, "write")
    /\ UNCHANGED <<files, txn, Locals, History, faults>>

Check(w) ==
    /\ At(w, "check")
    /\ GoTo(w, IF w \in Replace \/ \A m \in Members : dest[m] = Absent
                 THEN "write" ELSE "refused")
    /\ UNCHANGED <<files, txn, Locals, History, faults>>

WriteTmp(w) ==
    /\ At(w, "write")
    /\ tmp' = [tmp EXCEPT ![w][member[w]] = TRUE]
    /\ Then(w, "record")
    /\ UNCHANGED <<dest, backup, journal, txn, Locals, History, faults>>

(* write_transaction: the journal is linked into place, which another      *)
(* journal prevents.                                                       *)
Record(w) ==
    /\ At(w, "record")
    /\ journal = Absent
    /\ txn' = [txn EXCEPT ![w] = [owner |-> w, had |-> [m \in Members |-> dest[m] # Absent]]]
    /\ journal' = txn'[w]
    /\ latest' = w
    /\ GoTo(w, IF w \in Replace THEN "moveAside" ELSE "link")
    /\ UNCHANGED <<dest, tmp, backup, Locals, overlapped, faults>>

(* An error before or in write_transaction removes the temporaries.        *)
Abandon(w) ==
    /\ tmp' = [tmp EXCEPT ![w] = [m \in Members |-> FALSE]]
    /\ GoTo(w, "failed")
    /\ UNCHANGED <<dest, backup, txn, Locals, overlapped>>

RecordRefused(w) ==
    /\ At(w, "record")
    /\ journal # Absent
    /\ Abandon(w)
    /\ UNCHANGED <<journal, latest, faults>>

(* replace_existing is false: the temporaries are linked to the paths,     *)
(* then removed.                                                           *)
Link(w) ==
    /\ At(w, "link")
    /\ tmp[w][member[w]]
    /\ dest[member[w]] = Absent
    /\ dest' = [dest EXCEPT ![member[w]] = w]
    /\ Then(w, "unlinkTmp")
    /\ UNCHANGED <<tmp, backup, journal, txn, Locals, History, faults>>

UnlinkTmp(w) ==
    /\ At(w, "unlinkTmp")
    /\ tmp[w][member[w]]
    /\ tmp' = [tmp EXCEPT ![w][member[w]] = FALSE]
    /\ Then(w, "commit")
    /\ UNCHANGED <<dest, backup, journal, txn, Locals, History, faults>>

(* replace_existing is true: the originals are renamed aside, then the     *)
(* temporaries to the paths, then the backups are removed.                 *)
MoveAside(w) ==
    LET m == member[w]
    IN  /\ At(w, "moveAside")
        /\ txn[w].had[m] => dest[m] # Absent
        /\ IF txn[w].had[m]
             THEN /\ backup' = [backup EXCEPT ![w][m] = dest[m]]
                  /\ dest' = [dest EXCEPT ![m] = Absent]
             ELSE UNCHANGED <<dest, backup>>
        /\ Then(w, "rename")
        /\ UNCHANGED <<tmp, journal, txn, Locals, History, faults>>

Rename(w) ==
    /\ At(w, "rename")
    /\ tmp[w][member[w]]
    /\ dest' = [dest EXCEPT ![member[w]] = w]
    /\ tmp' = [tmp EXCEPT ![w][member[w]] = FALSE]
    /\ Then(w, "removeBackup")
    /\ UNCHANGED <<backup, journal, txn, Locals, History, faults>>

RemoveBackup(w) ==
    /\ At(w, "removeBackup")
    /\ backup' = [backup EXCEPT ![w][member[w]] = Absent]
    /\ Then(w, "commit")
    /\ UNCHANGED <<dest, tmp, journal, txn, Locals, History, faults>>

(* The journal is removed: the transaction is complete.                    *)
Commit(w) ==
    /\ At(w, "commit")
    /\ journal # Absent
    /\ journal' = Absent
    /\ GoTo(w, "written")
    /\ UNCHANGED <<dest, tmp, backup, txn, Locals, History, faults>>

(* The call is refused because another writer has interfered.              *)
Interfered(w) ==
    \/ At(w, "link") /\ (~ tmp[w][member[w]] \/ dest[member[w]] # Absent)
    \/ pc[w] \in {"unlinkTmp", "rename"} /\ ~ tmp[w][member[w]]
    \/ At(w, "moveAside") /\ txn[w].had[member[w]] /\ dest[member[w]] = Absent
    \/ At(w, "commit") /\ journal = Absent

InstallRefused(w) ==
    /\ Interfered(w)
    /\ Rollback(w)
    /\ UNCHANGED <<files, txn, broken, History, faults>>

-------------------------------------------------------------------------------
(* A call of the replacement fails and has no effect, or the sync of the   *)
(* directory after the call before it fails.                               *)
InstallFails(w) ==
    /\ pc[w] \in InstallSteps
    /\ Rollback(w)
    /\ Fault
    /\ UNCHANGED <<files, txn, broken, History>>

(* The sync after the removal of the journal fails.                        *)
CommitSyncFails(w) ==
    /\ At(w, "commit")
    /\ journal # Absent
    /\ journal' = Absent
    /\ Rollback(w)
    /\ Fault
    /\ UNCHANGED <<dest, tmp, backup, txn, broken, History>>

(* The temporaries or the journal cannot be written.                       *)
WriteFails(w) ==
    /\ pc[w] \in {"write", "record"}
    /\ Abandon(w)
    /\ Fault
    /\ UNCHANGED <<journal, latest>>

(* The journal is in place and what follows in write_transaction fails:    *)
(* the journal stays, without its temporaries.                             *)
RecordSyncFails(w) ==
    /\ At(w, "record")
    /\ journal = Absent
    /\ journal' = [owner |-> w, had |-> [m \in Members |-> dest[m] # Absent]]
    /\ latest' = w
    /\ Abandon(w)
    /\ Fault

(* A call of the recovery fails and has no effect.  A file that cannot be  *)
(* restored does not keep the other from being restored.                   *)
RecoveryFails(w) ==
    /\ pc[w] \in RecoverySteps \ {"unlink", "putBack"}
    /\ At(w, "recover") => journal # Absent
    /\ GoTo(w, "recoveryFailed")
    /\ Fault
    /\ UNCHANGED <<files, txn, Locals, History>>

RestoreFails(w) ==
    /\ pc[w] \in {"unlink", "putBack"}
    /\ Restored(w, TRUE)
    /\ Fault
    /\ UNCHANGED <<files, txn, recovering, History>>

PairCrash(w) ==
    /\ pc[w] \in Running
    /\ GoTo(w, "crashed")
    /\ Fault
    /\ UNCHANGED <<files, txn, Locals, History>>

-------------------------------------------------------------------------------
Recovery(w) ==
    \/ NoJournal(w) \/ ReadJournal(w) \/ DropBackup(w) \/ Unlink(w) \/ PutBack(w)
    \/ PutBackRefused(w) \/ DropTmp(w) \/ Unjournal(w)

Replacement(w) ==
    \/ Check(w) \/ WriteTmp(w) \/ Record(w) \/ RecordRefused(w)
    \/ Link(w) \/ UnlinkTmp(w) \/ MoveAside(w) \/ Rename(w)
    \/ RemoveBackup(w) \/ Commit(w) \/ InstallRefused(w)

Failure(w) ==
    \/ InstallFails(w) \/ CommitSyncFails(w) \/ WriteFails(w) \/ RecordSyncFails(w)
    \/ RecoveryFails(w) \/ RestoreFails(w) \/ PairCrash(w)

PairNext == \E w \in Writers :
            Begin(w) \/ Recovery(w) \/ Replacement(w) \/ Failure(w)

PairSpec == PairInit /\ [][PairNext]_pairVars

-------------------------------------------------------------------------------
(* Unless two writers overlap: without a journal the two files are of one  *)
(* writer, or neither is of any, whatever failed or crashed since.         *)
PairWhole ==
    ~ overlapped /\ journal = Absent =>
        \A w \in Writers : dest["results"] = w <=> dest["decision"] = w

(* Unless two writers overlap: when the journal of a transaction is gone,  *)
(* so are its temporaries and its backups.                                 *)
TransactionLeavesNothing ==
    ~ overlapped /\ journal = Absent /\ latest # Absent =>
        \A m \in Members : ~ tmp[latest][m] /\ backup[latest][m] = Absent

(* Both, after any sequence of crashes and failing calls of                *)
(* write_benchmark_pair and recover_benchmark_pair.                        *)
PairKept == PairWhole /\ TransactionLeavesNothing

(* Unless two writers overlap: nothing but the transaction of a replacing  *)
(* writer removes or replaces a file of a writer that has succeeded; the   *)
(* finalization refuses to.                                                *)
WrittenStays ==
    [][\A w \in Writers, m \in Members :
          ~ overlapped /\ At(w, "written") /\ dest[m] = w /\ dest'[m] # w
              => journal # Absent /\ journal.owner \in Replace]_pairVars

(* Unless two writers overlap: while a transaction is not installed, every *)
(* file it replaces is at its path or in its backup.                       *)
OriginalsSurvive ==
    ~ overlapped /\ journal # Absent /\ ~ FullyInstalled(journal) =>
        \A m \in Members : journal.had[m] =>
            \/ dest[m] \notin {Absent, journal.owner}
            \/ backup[journal.owner][m] # Absent
==============================================================================
