---------------------------- MODULE CommandsProofs ----------------------------
(* What the commands around the published report keep, proved for any number *)
(* of processes, names, reports and runs: no named baseline is lost, no pack *)
(* of prompts is mixed or costs people a file, and the latest files that     *)
(* `init` promotes are of one run; a gate that passes has seen every file;   *)
(* a request for advice ends soon when memory runs out; the token cache and  *)
(* the settings are kept (ScanProofs); a verdict of approved is that of      *)
(* every rule, and a command advises by the rules that were locked. Each     *)
(* part has an invariant of its own; a step of MCCommands is a step of one   *)
(* of them and leaves the others alone.                                      *)
EXTENDS MCCommands, ScanProofs, TLAPS

-------------------------------------------------------------------------------
(* Named baselines.                                                          *)

(* A report whose object is in the store.                                    *)
Stored(r) == r \in objects \ Unready

(* The places and the record of a process that works on named baselines.     *)
Places == {"idle", "decide", "admit", "object", "probe", "aside", "install", "restore", "drop",
           "remove", "done", "dead"}
WriterRecord == [at : Places, command : Baseline!Commands \cup {None}, name : Names \cup {None},
                 report : Reports \cup {None}, replace : BOOLEAN]
BaselineTypes ==
    /\ ref \in [Names -> Reports \cup {None}]
    /\ backup \in [Writers -> Reports \cup {None}]
    /\ writer \in [Writers -> WriterRecord]
    /\ owed \in [Names -> SUBSET Reports] /\ objects \subseteq Reports

(* A process at work is at work on a name.                                   *)
WorksOnName ==
    \A p \in Writers : writer[p].at \notin {"idle", "done", "dead"} => writer[p].name \in Names

(* What a name or a backup refers to is stored, and what a process is about  *)
(* to put there can be: it is ready, and it is stored once the process       *)
(* looks at the name again.                                                  *)
StoredAll ==
    /\ \A n \in Names : ref[n] # None => Stored(ref[n])
    /\ \A p \in Writers :
          /\ backup[p] # None => /\ Stored(backup[p])
                                 /\ writer[p].at \in {"install", "restore", "drop", "dead"}
          /\ writer[p].at \in {"decide", "admit", "object"} /\ writer[p].command # "remove" =>
                writer[p].report \in Reports \ Unready
          /\ writer[p].at \in {"admit", "object"} => writer[p].command # "remove"
          /\ writer[p].at \in {"probe", "aside", "install"} => Stored(writer[p].report)
          /\ writer[p].at \in {"restore", "drop"} => backup[p] # None

(* Where no other process has met a name since p looked at it, the name is   *)
(* as p left it: free where p installs or restores.                          *)
NameFree ==
    \A p \in Writers : p \notin met =>
        /\ writer[p].at \in {"install", "restore"} => ref[writer[p].name] = None
        /\ writer[p].at \in {"object", "probe"} /\ ~writer[p].replace => ref[writer[p].name] = None
        /\ writer[p].at = "aside" => writer[p].replace
        /\ writer[p].at = "install" /\ backup[p] # None => writer[p].replace

(* What has been promised is under its name or in the backup of the process  *)
(* that is at work on it, or died at it.                                     *)
OwedKept ==
    \A n \in Names : \A r \in owed[n] :
        \/ ref[n] = r
        \/ \E p \in Writers : /\ backup[p] = r /\ writer[p].name = n
                              /\ writer[p].at \in {"install", "restore", "dead"}

(* It is stored.                                                             *)
OwedStored == \A n \in Names : \A r \in owed[n] : Stored(r)

(* The invariant of the named baselines.                                     *)
BaselineInv == BaselineTypes /\ WorksOnName /\ StoredAll /\ NameFree /\ OwedKept /\ OwedStored

(* Nothing is stored or owed where the processes begin.                      *)
LEMMA BaselineStarts == Baseline!Init => BaselineInv
  BY NoReportAssumption
  DEF Baseline!Init, Baseline!NoWriter, WriterRecord, Places, BaselineInv, BaselineTypes,
  WorksOnName, StoredAll,
      NameFree, OwedKept, OwedStored, Stored

(* What a step of p makes of p's own record and of the others'.               *)
LEMMA WriterGoes ==
    ASSUME BaselineTypes, NEW p \in Writers, NEW place \in Places, Baseline!Goto(p, place)
    PROVE  /\ writer'[p].at = place /\ writer'[p].command = writer[p].command
           /\ writer'[p].name = writer[p].name /\ writer'[p].report = writer[p].report
           /\ writer'[p].replace = writer[p].replace
           /\ \A q \in Writers \ {p} : writer'[q] = writer[q]
           /\ writer' \in [Writers -> WriterRecord]
  BY DEF BaselineTypes, WriterRecord, Baseline!Goto

(* The same where the step also settles whether the name may be replaced.    *)
LEMMA WriterAdmitted ==
    ASSUME BaselineTypes, NEW p \in Writers, NEW replace \in BOOLEAN, NEW place \in Places,
           Baseline!Admitted(p, replace, place)
    PROVE  /\ writer'[p].at = place /\ writer'[p].command = writer[p].command
           /\ writer'[p].name = writer[p].name /\ writer'[p].report = writer[p].report
           /\ writer'[p].replace = replace
           /\ \A q \in Writers \ {p} : writer'[q] = writer[q]
           /\ writer' \in [Writers -> WriterRecord]
<1> DEFINE w == [writer[p] EXCEPT !.at = place, !.replace = replace]
<1>1. /\ w \in WriterRecord /\ w.at = place /\ w.replace = replace
      /\ w.command = writer[p].command /\ w.name = writer[p].name /\ w.report = writer[p].report
  BY DEF BaselineTypes, WriterRecord
<1>2. writer' = [writer EXCEPT ![p] = w]
  BY DEF BaselineTypes, WriterRecord, Baseline!Admitted
<1> HIDE DEF w
<1> QED  BY <1>1, <1>2 DEF BaselineTypes

(* A command begins (cli/baseline_compare.rs `run_baseline`): a report that  *)
(* is not ready ends it.                                                     *)
LEMMA BaselineStart ==
    ASSUME BaselineInv, NEW p \in Writers, Baseline!Start(p)
    PROVE  BaselineInv'
<1> USE NoReportAssumption DEF Baseline!Quiet
<1>1. /\ writer[p].at = "idle" /\ writer'[p].at \in {"decide", "done"}
      /\ writer'[p].command # "remove" => writer'[p].report \in Reports
      /\ writer'[p].at = "decide" => writer'[p].report \notin Unready
      /\ writer'[p].name \in Names
      /\ \A q \in Writers \ {p} : writer'[q] = writer[q]
      /\ writer' \in [Writers -> WriterRecord]
      /\ UNCHANGED <<ref, objects, backup, owed, met>>
  <2>1. PICK c \in Baseline!Commands, n \in Names, r \in Reports \cup {None} :
              /\ writer[p].at = "idle"
              /\ r = None <=> c = "remove"
              /\ writer' = [writer EXCEPT ![p] = [Baseline!NoWriter EXCEPT
                               !.at = IF r \in Unready THEN "done" ELSE "decide",
                               !.command = c, !.name = n, !.report = r]]
    BY DEF Baseline!Start, Baseline!At
  <2>2. Baseline!NoWriter \in WriterRecord
    BY DEF Baseline!NoWriter, WriterRecord, Places
  <2> QED  BY <2>1, <2>2 DEF Baseline!Start, BaselineInv, BaselineTypes, WriterRecord, Places
<1>2. BaselineTypes'
  BY <1>1 DEF BaselineInv, BaselineTypes, WorksOnName, StoredAll, Stored
<1>3. WorksOnName'
  BY <1>1 DEF BaselineInv, WorksOnName, BaselineTypes
<1>4. StoredAll'
  BY <1>1 DEF BaselineInv, StoredAll, Stored, BaselineTypes, WorksOnName
<1>5. NameFree'
  BY <1>1 DEF BaselineInv, NameFree, StoredAll, BaselineTypes, WorksOnName
<1>6. OwedKept'
  BY <1>1 DEF BaselineInv, OwedKept, NameFree, StoredAll, BaselineTypes, WorksOnName
<1>7. OwedStored'
  BY <1>1 DEF BaselineInv, OwedStored, StoredAll, Stored, BaselineTypes, WorksOnName
<1> QED
  BY <1>2, <1>3, <1>4, <1>5, <1>6, <1>7 DEF BaselineInv

(* What a command decides of the name before it stores anything.             *)
LEMMA BaselineAsk ==
    ASSUME BaselineInv, NEW p \in Writers,
           Baseline!Ensure(p) \/ Baseline!Create(p) \/ Baseline!Update(p) \/ Baseline!Remove(p)
    PROVE  BaselineInv'
<1> USE NoReportAssumption DEF Baseline!Quiet
<1>1. /\ writer[p].at = "decide" /\ writer'[p].at \in {"admit", "remove", "done"}
      /\ writer'[p].at = "admit" => writer[p].command # "remove"
      /\ writer'[p].command = writer[p].command /\ writer'[p].name = writer[p].name
      /\ writer'[p].report = writer[p].report
      /\ \A q \in Writers \ {p} : writer'[q] = writer[q]
      /\ writer' \in [Writers -> WriterRecord]
      /\ UNCHANGED <<ref, objects, backup, owed, met>>
  BY WriterGoes, WriterAdmitted
  DEF Baseline!Ensure, Baseline!Create, Baseline!Update, Baseline!Remove, Baseline!At,
  Baseline!Is, BaselineInv, BaselineTypes, WriterRecord, Places
<1>2. BaselineTypes'
  BY <1>1 DEF BaselineInv, BaselineTypes, WorksOnName, StoredAll, Stored
<1>3. WorksOnName'
  BY <1>1 DEF BaselineInv, WorksOnName, BaselineTypes
<1>4. StoredAll'
  BY <1>1 DEF BaselineInv, StoredAll, Stored, BaselineTypes, WorksOnName
<1>5. NameFree'
  BY <1>1 DEF BaselineInv, NameFree, StoredAll, BaselineTypes, WorksOnName
<1>6. OwedKept'
  BY <1>1 DEF BaselineInv, OwedKept, NameFree, StoredAll, BaselineTypes, WorksOnName
<1>7. OwedStored'
  BY <1>1 DEF BaselineInv, OwedStored, StoredAll, Stored, BaselineTypes, WorksOnName
<1> QED
  BY <1>2, <1>3, <1>4, <1>5, <1>6, <1>7 DEF BaselineInv

(* `baseline remove` takes the name away and with it what was owed.          *)
LEMMA BaselineRemove ==
    ASSUME BaselineInv, NEW p \in Writers, Baseline!RemoveReference(p)
    PROVE  BaselineInv'
<1> USE NoReportAssumption
        DEF Baseline!Quiet, Baseline!Meet, Baseline!Busy, Baseline!Own, Baseline!Wanted,
            Baseline!Exists, Baseline!Lost
<1>1. /\ writer[p].at = "remove" /\ writer'[p].at = "done"
      /\ writer'[p].command = writer[p].command /\ writer'[p].name = writer[p].name
      /\ writer'[p].report = writer[p].report
      /\ \A q \in Writers \ {p} : writer'[q] = writer[q]
      /\ writer' \in [Writers -> WriterRecord]
      /\ writer'[p].replace = writer[p].replace
      /\ ref' = [ref EXCEPT ![writer[p].name] = None]
      /\ owed' = [owed EXCEPT ![writer[p].name] = {}]
      /\ met' = met \cup {q \in Writers \ {p} : writer[q].at \notin {"idle", "done", "dead"}
                                              /\ writer[q].name = writer[p].name}
      /\ UNCHANGED <<objects, backup>>
  BY WriterGoes DEF Baseline!RemoveReference, Baseline!At, BaselineInv, Places
<1>2. BaselineTypes'
  BY <1>1 DEF BaselineInv, BaselineTypes, WorksOnName, StoredAll, Stored
<1>3. WorksOnName'
  BY <1>1 DEF BaselineInv, WorksOnName, BaselineTypes
<1>4. StoredAll'
  BY <1>1 DEF BaselineInv, StoredAll, Stored, BaselineTypes, WorksOnName
<1>5. NameFree'
  BY <1>1 DEF BaselineInv, NameFree, StoredAll, BaselineTypes, WorksOnName
<1>6. OwedKept'
  BY <1>1 DEF BaselineInv, OwedKept, NameFree, StoredAll, BaselineTypes, WorksOnName
<1>7. OwedStored'
  BY <1>1 DEF BaselineInv, OwedStored, StoredAll, Stored, BaselineTypes, WorksOnName
<1> QED
  BY <1>2, <1>3, <1>4, <1>5, <1>6, <1>7 DEF BaselineInv

(* The name is looked at and the command goes on, or gives up                *)
(* (`write_named_baseline`).                                                 *)
LEMMA BaselineAdmit ==
    ASSUME BaselineInv, NEW p \in Writers, Baseline!Admit(p)
    PROVE  BaselineInv'
<1> USE NoReportAssumption
        DEF Baseline!Quiet, Baseline!Meet, Baseline!Busy, Baseline!Own, Baseline!Wanted,
            Baseline!Exists, Baseline!Lost
<1>1. /\ writer[p].at = "admit" /\ writer'[p].at \in {"done", "object"}
      /\ writer'[p].at = "object" => ref[writer[p].name] = None \/ writer[p].replace
      /\ writer'[p].command = writer[p].command /\ writer'[p].name = writer[p].name
      /\ writer'[p].report = writer[p].report
      /\ \A q \in Writers \ {p} : writer'[q] = writer[q]
      /\ writer' \in [Writers -> WriterRecord]
      /\ writer'[p].replace = writer[p].replace
      /\ UNCHANGED <<ref, objects, backup, owed, met>>
  BY WriterGoes DEF Baseline!Admit, Baseline!At, BaselineInv, Places
<1>2. BaselineTypes'
  BY <1>1 DEF BaselineInv, BaselineTypes, WorksOnName, StoredAll, Stored
<1>3. WorksOnName'
  BY <1>1 DEF BaselineInv, WorksOnName, BaselineTypes
<1>4. StoredAll'
  BY <1>1 DEF BaselineInv, StoredAll, Stored, BaselineTypes, WorksOnName
<1>5. NameFree'
  BY <1>1 DEF BaselineInv, NameFree, StoredAll, BaselineTypes, WorksOnName
<1>6. OwedKept'
  BY <1>1 DEF BaselineInv, OwedKept, NameFree, StoredAll, BaselineTypes, WorksOnName
<1>7. OwedStored'
  BY <1>1 DEF BaselineInv, OwedStored, StoredAll, Stored, BaselineTypes, WorksOnName
<1> QED
  BY <1>2, <1>3, <1>4, <1>5, <1>6, <1>7 DEF BaselineInv

(* The object is stored before any name refers to it.                        *)
LEMMA BaselineStore ==
    ASSUME BaselineInv, NEW p \in Writers, Baseline!StoreObject(p)
    PROVE  BaselineInv'
<1> USE NoReportAssumption
        DEF Baseline!Quiet, Baseline!Meet, Baseline!Busy, Baseline!Own, Baseline!Wanted,
            Baseline!Exists, Baseline!Lost
<1>1. /\ writer[p].at = "object" /\ writer'[p].at = "probe"
      /\ writer'[p].command = writer[p].command /\ writer'[p].name = writer[p].name
      /\ writer'[p].report = writer[p].report
      /\ \A q \in Writers \ {p} : writer'[q] = writer[q]
      /\ writer' \in [Writers -> WriterRecord]
      /\ writer'[p].replace = writer[p].replace
      /\ objects' = objects \cup {writer[p].report}
      /\ UNCHANGED <<ref, backup, owed, met>>
  BY WriterGoes DEF Baseline!StoreObject, Baseline!At, BaselineInv, Places
<1>2. BaselineTypes'
  BY <1>1 DEF BaselineInv, BaselineTypes, WorksOnName, StoredAll, Stored
<1>3. WorksOnName'
  BY <1>1 DEF BaselineInv, WorksOnName, BaselineTypes
<1>4. StoredAll'
  BY <1>1 DEF BaselineInv, StoredAll, Stored, BaselineTypes, WorksOnName
<1>5. NameFree'
  BY <1>1 DEF BaselineInv, NameFree, StoredAll, BaselineTypes, WorksOnName
<1>6. OwedKept'
  BY <1>1 DEF BaselineInv, OwedKept, NameFree, StoredAll, BaselineTypes, WorksOnName
<1>7. OwedStored'
  BY <1>1 DEF BaselineInv, OwedStored, StoredAll, Stored, BaselineTypes, WorksOnName
<1> QED
  BY <1>2, <1>3, <1>4, <1>5, <1>6, <1>7 DEF BaselineInv

(* The last look at the name before its file is replaced.                    *)
LEMMA BaselineProbe ==
    ASSUME BaselineInv, NEW p \in Writers, Baseline!Probe(p)
    PROVE  BaselineInv'
<1> USE NoReportAssumption
        DEF Baseline!Quiet, Baseline!Meet, Baseline!Busy, Baseline!Own, Baseline!Wanted,
            Baseline!Exists, Baseline!Lost
<1>1. /\ writer[p].at = "probe"
      /\ writer'[p].at = IF ref[writer[p].name] # None THEN "aside" ELSE "install"
      /\ writer'[p].command = writer[p].command /\ writer'[p].name = writer[p].name
      /\ writer'[p].report = writer[p].report
      /\ \A q \in Writers \ {p} : writer'[q] = writer[q]
      /\ writer' \in [Writers -> WriterRecord]
      /\ writer'[p].replace = writer[p].replace
      /\ UNCHANGED <<ref, objects, backup, owed, met>>
  BY WriterGoes DEF Baseline!Probe, Baseline!At, BaselineInv, Places
<1>2. BaselineTypes'
  BY <1>1 DEF BaselineInv, BaselineTypes, WorksOnName, StoredAll, Stored
<1>3. WorksOnName'
  BY <1>1 DEF BaselineInv, WorksOnName, BaselineTypes
<1>4. StoredAll'
  BY <1>1 DEF BaselineInv, StoredAll, Stored, BaselineTypes, WorksOnName
<1>5. NameFree'
  BY <1>1 DEF BaselineInv, NameFree, StoredAll, BaselineTypes, WorksOnName
<1>6. OwedKept'
  BY <1>1 DEF BaselineInv, OwedKept, NameFree, StoredAll, BaselineTypes, WorksOnName
<1>7. OwedStored'
  BY <1>1 DEF BaselineInv, OwedStored, StoredAll, Stored, BaselineTypes, WorksOnName
<1> QED
  BY <1>2, <1>3, <1>4, <1>5, <1>6, <1>7 DEF BaselineInv

(* The file of the name is moved aside: what it referred to is in the        *)
(* backup.                                                                   *)
LEMMA BaselineMoveAside ==
    ASSUME BaselineInv, NEW p \in Writers, Baseline!MoveAside(p)
    PROVE  BaselineInv'
<1> USE NoReportAssumption
        DEF Baseline!Quiet, Baseline!Meet, Baseline!Busy, Baseline!Own, Baseline!Wanted,
            Baseline!Exists, Baseline!Lost
<1>1. /\ writer[p].at = "aside"
      /\ writer'[p].command = writer[p].command /\ writer'[p].name = writer[p].name
      /\ writer'[p].report = writer[p].report
      /\ \A q \in Writers \ {p} : writer'[q] = writer[q]
      /\ writer' \in [Writers -> WriterRecord]
      /\ writer'[p].replace = writer[p].replace
      /\ \/ /\ ref[writer[p].name] # None /\ writer'[p].at = "install"
            /\ backup' = [backup EXCEPT ![p] = ref[writer[p].name]]
            /\ ref' = [ref EXCEPT ![writer[p].name] = None]
            /\ met' = met \cup {q \in Writers \ {p} : writer[q].at \notin {"idle", "done", "dead"}
                                              /\ writer[q].name = writer[p].name}
         \/ writer'[p].at = "done" /\ UNCHANGED <<ref, backup, met>>
      /\ UNCHANGED <<objects, owed>>
  BY WriterGoes DEF Baseline!MoveAside, Baseline!At, BaselineInv, Places
<1>2. BaselineTypes'
  BY <1>1 DEF BaselineInv, BaselineTypes, WorksOnName, StoredAll, Stored
<1>3. WorksOnName'
  BY <1>1 DEF BaselineInv, WorksOnName, BaselineTypes
<1>4. StoredAll'
  BY <1>1 DEF BaselineInv, StoredAll, Stored, BaselineTypes, WorksOnName
<1>5. NameFree'
  BY <1>1 DEF BaselineInv, NameFree, StoredAll, BaselineTypes, WorksOnName
<1>6. OwedKept'
  BY <1>1 DEF BaselineInv, OwedKept, NameFree, StoredAll, BaselineTypes, WorksOnName
<1>7. OwedStored'
  BY <1>1 DEF BaselineInv, OwedStored, StoredAll, Stored, BaselineTypes, WorksOnName
<1> QED
  BY <1>2, <1>3, <1>4, <1>5, <1>6, <1>7 DEF BaselineInv

(* The new file takes the name: the report is owed from now on.              *)
LEMMA BaselineInstall ==
    ASSUME BaselineInv, NEW p \in Writers, Baseline!Install(p)
    PROVE  BaselineInv'
<1> USE NoReportAssumption
        DEF Baseline!Quiet, Baseline!Meet, Baseline!Busy, Baseline!Own, Baseline!Wanted,
            Baseline!Exists, Baseline!Lost
<1>1. /\ writer[p].at = "install" /\ writer'[p].at = IF backup[p] = None THEN "done" ELSE "drop"
      /\ writer'[p].command = writer[p].command /\ writer'[p].name = writer[p].name
      /\ writer'[p].report = writer[p].report
      /\ \A q \in Writers \ {p} : writer'[q] = writer[q]
      /\ writer' \in [Writers -> WriterRecord]
      /\ writer'[p].replace = writer[p].replace
      /\ ref' = [ref EXCEPT ![writer[p].name] = writer[p].report]
      /\ owed' = [owed EXCEPT ![writer[p].name] = {writer[p].report}
                 \cup (IF writer[p].replace \/ p \in met THEN {} ELSE owed[writer[p].name])]
      /\ met' = met \cup {q \in Writers \ {p} : writer[q].at \notin {"idle", "done", "dead"}
                                              /\ writer[q].name = writer[p].name}
      /\ UNCHANGED <<objects, backup>>
  BY WriterGoes DEF Baseline!Install, Baseline!At, BaselineInv, Places
<1>2. BaselineTypes'
  BY <1>1 DEF BaselineInv, BaselineTypes, WorksOnName, StoredAll, Stored
<1>3. WorksOnName'
  BY <1>1 DEF BaselineInv, WorksOnName, BaselineTypes
<1>4. StoredAll'
  BY <1>1 DEF BaselineInv, StoredAll, Stored, BaselineTypes, WorksOnName
<1>5. NameFree'
  BY <1>1 DEF BaselineInv, NameFree, StoredAll, BaselineTypes, WorksOnName
<1>6. OwedKept'
  BY <1>1 DEF BaselineInv, OwedKept, NameFree, StoredAll, BaselineTypes, WorksOnName
<1>7. OwedStored'
  BY <1>1 DEF BaselineInv, OwedStored, StoredAll, Stored, BaselineTypes, WorksOnName
<1> QED
  BY <1>2, <1>3, <1>4, <1>5, <1>6, <1>7 DEF BaselineInv

(* It does not: the backup, if there is one, is put back or left.            *)
LEMMA BaselineInstallFails ==
    ASSUME BaselineInv, NEW p \in Writers, Baseline!InstallFails(p)
    PROVE  BaselineInv'
<1> USE NoReportAssumption
        DEF Baseline!Quiet, Baseline!Meet, Baseline!Busy, Baseline!Own, Baseline!Wanted,
            Baseline!Exists, Baseline!Lost
<1>1. /\ writer[p].at = "install" /\ writer'[p].at = IF backup[p] = None THEN "done" ELSE "restore"
      /\ writer'[p].command = writer[p].command /\ writer'[p].name = writer[p].name
      /\ writer'[p].report = writer[p].report
      /\ \A q \in Writers \ {p} : writer'[q] = writer[q]
      /\ writer' \in [Writers -> WriterRecord]
      /\ writer'[p].replace = writer[p].replace
      /\ UNCHANGED <<ref, objects, backup, owed, met>>
  BY WriterGoes DEF Baseline!InstallFails, Baseline!At, BaselineInv, Places
<1>2. BaselineTypes'
  BY <1>1 DEF BaselineInv, BaselineTypes, WorksOnName, StoredAll, Stored
<1>3. WorksOnName'
  BY <1>1 DEF BaselineInv, WorksOnName, BaselineTypes
<1>4. StoredAll'
  BY <1>1 DEF BaselineInv, StoredAll, Stored, BaselineTypes, WorksOnName
<1>5. NameFree'
  BY <1>1 DEF BaselineInv, NameFree, StoredAll, BaselineTypes, WorksOnName
<1>6. OwedKept'
  BY <1>1 DEF BaselineInv, OwedKept, NameFree, StoredAll, BaselineTypes, WorksOnName
<1>7. OwedStored'
  BY <1>1 DEF BaselineInv, OwedStored, StoredAll, Stored, BaselineTypes, WorksOnName
<1> QED
  BY <1>2, <1>3, <1>4, <1>5, <1>6, <1>7 DEF BaselineInv

(* The backup comes back to the name, or is left where it is.                *)
LEMMA BaselineRestore ==
    ASSUME BaselineInv, NEW p \in Writers, Baseline!Restore(p)
    PROVE  BaselineInv'
<1> USE NoReportAssumption
        DEF Baseline!Quiet, Baseline!Meet, Baseline!Busy, Baseline!Own, Baseline!Wanted,
            Baseline!Exists, Baseline!Lost
<1>1. /\ writer[p].at = "restore" /\ writer'[p].at = "done"
      /\ writer'[p].command = writer[p].command /\ writer'[p].name = writer[p].name
      /\ writer'[p].report = writer[p].report
      /\ \A q \in Writers \ {p} : writer'[q] = writer[q]
      /\ writer' \in [Writers -> WriterRecord]
      /\ writer'[p].replace = writer[p].replace
      /\ ref' = [ref EXCEPT ![writer[p].name] = backup[p]]
      /\ backup' = [backup EXCEPT ![p] = None]
      /\ owed' = IF p \in met THEN [owed EXCEPT ![writer[p].name] = {backup[p]}] ELSE owed
      /\ met' = met \cup {q \in Writers \ {p} : writer[q].at \notin {"idle", "done", "dead"}
                                              /\ writer[q].name = writer[p].name}
      /\ UNCHANGED objects
  BY WriterGoes DEF Baseline!Restore, Baseline!At, BaselineInv, Places
<1>2. BaselineTypes'
  BY <1>1 DEF BaselineInv, BaselineTypes, WorksOnName, StoredAll, Stored
<1>3. WorksOnName'
  BY <1>1 DEF BaselineInv, WorksOnName, BaselineTypes
<1>4. StoredAll'
  BY <1>1 DEF BaselineInv, StoredAll, Stored, BaselineTypes, WorksOnName
<1>5. NameFree'
  BY <1>1 DEF BaselineInv, NameFree, StoredAll, BaselineTypes, WorksOnName
<1>6. OwedKept'
  BY <1>1 DEF BaselineInv, OwedKept, NameFree, StoredAll, BaselineTypes, WorksOnName
<1>7. OwedStored'
  BY <1>1 DEF BaselineInv, OwedStored, StoredAll, Stored, BaselineTypes, WorksOnName
<1> QED
  BY <1>2, <1>3, <1>4, <1>5, <1>6, <1>7 DEF BaselineInv

(* The backup of a name that has its new file goes.                          *)
LEMMA BaselineDrop ==
    ASSUME BaselineInv, NEW p \in Writers, Baseline!DropBackup(p)
    PROVE  BaselineInv'
<1> USE NoReportAssumption
        DEF Baseline!Quiet, Baseline!Meet, Baseline!Busy, Baseline!Own, Baseline!Wanted,
            Baseline!Exists, Baseline!Lost
<1>1. /\ writer[p].at = "drop" /\ writer'[p].at = "done"
      /\ writer'[p].command = writer[p].command /\ writer'[p].name = writer[p].name
      /\ writer'[p].report = writer[p].report
      /\ \A q \in Writers \ {p} : writer'[q] = writer[q]
      /\ writer' \in [Writers -> WriterRecord]
      /\ writer'[p].replace = writer[p].replace
      /\ backup' = [backup EXCEPT ![p] = None]
      /\ UNCHANGED <<ref, objects, owed, met>>
  BY WriterGoes DEF Baseline!DropBackup, Baseline!At, BaselineInv, Places
<1>2. BaselineTypes'
  BY <1>1 DEF BaselineInv, BaselineTypes, WorksOnName, StoredAll, Stored
<1>3. WorksOnName'
  BY <1>1 DEF BaselineInv, WorksOnName, BaselineTypes
<1>4. StoredAll'
  BY <1>1 DEF BaselineInv, StoredAll, Stored, BaselineTypes, WorksOnName
<1>5. NameFree'
  BY <1>1 DEF BaselineInv, NameFree, StoredAll, BaselineTypes, WorksOnName
<1>6. OwedKept'
  BY <1>1 DEF BaselineInv, OwedKept, NameFree, StoredAll, BaselineTypes, WorksOnName
<1>7. OwedStored'
  BY <1>1 DEF BaselineInv, OwedStored, StoredAll, Stored, BaselineTypes, WorksOnName
<1> QED
  BY <1>2, <1>3, <1>4, <1>5, <1>6, <1>7 DEF BaselineInv

(* A process that dies leaves its backup.                                    *)
LEMMA BaselineCrash ==
    ASSUME BaselineInv, NEW p \in Writers, Baseline!Crash(p)
    PROVE  BaselineInv'
<1> USE NoReportAssumption DEF Baseline!Quiet, Baseline!Busy
<1>1. /\ writer[p].at \notin {"idle", "done", "dead"} /\ writer'[p].at = "dead"
      /\ writer'[p].command = writer[p].command /\ writer'[p].name = writer[p].name
      /\ writer'[p].report = writer[p].report
      /\ \A q \in Writers \ {p} : writer'[q] = writer[q]
      /\ writer' \in [Writers -> WriterRecord]
      /\ writer'[p].replace = writer[p].replace
      /\ UNCHANGED <<ref, objects, backup, owed, met>>
  BY WriterGoes DEF Baseline!Crash, BaselineInv, Places
<1>2. BaselineTypes'
  BY <1>1 DEF BaselineInv, BaselineTypes, WorksOnName, StoredAll, Stored
<1>3. WorksOnName'
  BY <1>1 DEF BaselineInv, WorksOnName, BaselineTypes
<1>4. StoredAll'
  BY <1>1 DEF BaselineInv, StoredAll, Stored, BaselineTypes, WorksOnName
<1>5. NameFree'
  BY <1>1 DEF BaselineInv, NameFree, StoredAll, BaselineTypes, WorksOnName
<1>6. OwedKept'
  BY <1>1 DEF BaselineInv, OwedKept, NameFree, StoredAll, BaselineTypes, WorksOnName
<1>7. OwedStored'
  BY <1>1 DEF BaselineInv, OwedStored, StoredAll, Stored, BaselineTypes, WorksOnName
<1> QED
  BY <1>2, <1>3, <1>4, <1>5, <1>6, <1>7 DEF BaselineInv

(* Every step of the named baselines keeps the invariant, and so does every  *)
(* step of the others.                                                       *)
LEMMA BaselineStep ==
    ASSUME BaselineInv, Baseline!Next \/ UNCHANGED baselineVars
    PROVE  BaselineInv'
<1>1. CASE UNCHANGED baselineVars
  BY <1>1 DEF baselineVars, BaselineInv, BaselineTypes, WorksOnName, StoredAll, NameFree, OwedKept,
              OwedStored, Stored
<1>2. ASSUME NEW p \in Writers, Baseline!Step(p)
      PROVE  BaselineInv'
  BY <1>2, BaselineStart, BaselineAsk, BaselineRemove, BaselineAdmit, BaselineStore, BaselineProbe,
     BaselineMoveAside, BaselineInstall, BaselineInstallFails, BaselineRestore, BaselineDrop,
     BaselineCrash DEF Baseline!Step
<1> QED  BY <1>1, <1>2 DEF Baseline!Next

(* The invariant says what is promised of the named baselines.               *)
LEMMA BaselineImplies == BaselineInv => Baseline!BaselinesKept
  BY DEF BaselineInv, OwedKept, OwedStored, Stored, Baseline!BaselinesKept

-------------------------------------------------------------------------------
(* Exports of prompts.                                                       *)

(* A content holds a pack whole or not at all.                               *)
WholeParts(content) == \A q \in Packers : content \cap Prompt!Pack(q) \in {{}, Prompt!Pack(q)}
WholePacks(content) == content \in SUBSET Prompt!Content /\ WholeParts(content)

(* The record of a process that exports.                                     *)
PackPlaces == {"idle", "build", "payload", "manifest", "probe", "aside", "install", "restore",
               "drop", "done", "dead"}
PackerRecord == [at : PackPlaces, force : BOOLEAN]
PackTypes == /\ output # None => WholePacks(output)
             /\ temp \in [Packers -> (SUBSET Prompt!Content) \cup {None}]
             /\ hidden \in [Packers -> (SUBSET Prompt!Content) \cup {None}]
             /\ \A p \in Packers : hidden[p] # None => WholePacks(hidden[p])
             /\ packer \in [Packers -> PackerRecord]
             /\ due \subseteq Prompt!Content

(* What is in a temporary directory follows from where its process is.       *)
TempWhole ==
    \A p \in Packers :
        /\ packer[p].at = "payload" => temp[p] = {}
        /\ packer[p].at = "manifest" => temp[p] = {<<"pack", p, "payload">>}
        /\ packer[p].at \in {"probe", "aside", "install"} => temp[p] = Prompt!Pack(p)
        /\ packer[p].at = "restore" => hidden[p] # None

(* A process that may not replace, and that nobody has crossed, has no full  *)
(* directory before it.                                                      *)
Unseen ==
    \A p \in Packers :
        packer[p].at \in {"build", "payload", "manifest", "probe", "aside"}
            /\ ~packer[p].force /\ p \notin crossed => ~Prompt!Full

(* What people keep in the directory is there.                               *)
DueThere == due \subseteq IF output = None THEN {} ELSE output

(* The invariant of the exports.                                             *)
PackInv == PackTypes /\ TempWhole /\ Unseen /\ DueThere

(* A pack is its two parts.                                                  *)
LEMMA PackIs ==
    ASSUME NEW p \in Packers
    PROVE  Prompt!Pack(p) = {<<"pack", p, "payload">>, <<"pack", p, "manifest">>}
  BY DEF Prompt!Pack, Prompt!Parts

(* The packs of two processes have no part in common, and none with what     *)
(* people keep.                                                              *)
LEMMA PacksApart ==
    ASSUME NEW p \in Packers
    PROVE  /\ Prompt!Pack(p) \subseteq Prompt!Content
           /\ \A q \in Packers \ {p} : Prompt!Pack(p) \cap Prompt!Pack(q) = {}
           /\ Prompt!Pack(p) \cap Prompt!People = {}
  BY DEF Prompt!Pack, Prompt!Parts, Prompt!People, Prompt!Content

(* A pack by itself is whole.                                                *)
LEMMA PackIsWhole ==
    ASSUME NEW p \in Packers
    PROVE  WholePacks(Prompt!Pack(p)) /\ Prompt!Pack(p) # None
  BY PacksApart, NoContentAssumption DEF WholePacks, WholeParts

(* A file of people beside whole packs leaves them whole.                    *)
LEMMA FilesAreNoParts ==
    ASSUME NEW content, WholePacks(content), NEW f \in Prompt!People
    PROVE  WholePacks(content \cup {f})
<1>1. f \in Prompt!Content
  BY DEF Prompt!Content
<1>2. \A q \in Packers : (content \cup {f}) \cap Prompt!Pack(q) = content \cap Prompt!Pack(q)
  BY PacksApart
<1> QED  BY <1>1, <1>2 DEF WholePacks, WholeParts

(* So is an empty directory, which is there.                                 *)
LEMMA NothingIsWhole == WholePacks({}) /\ {} # None
  BY NoContentAssumption DEF WholePacks, WholeParts

(* There is no directory where the processes begin.                          *)
LEMMA PackStarts == Prompt!Init => PackInv
  BY DEF Prompt!Init, PackInv, PackTypes, PackerRecord, PackPlaces, TempWhole, Unseen, DueThere

(* What a step of p makes of p's own record and of the others'.              *)
LEMMA PackerGoes ==
    ASSUME PackTypes, NEW p \in Packers, NEW place \in PackPlaces, Prompt!Enter(p, place)
    PROVE  /\ packer'[p].at = place /\ packer'[p].force = packer[p].force
           /\ \A q \in Packers \ {p} : packer'[q] = packer[q]
           /\ packer' \in [Packers -> PackerRecord]
  BY DEF PackTypes, PackerRecord, PackPlaces, Prompt!Enter

(* People make the directory or put a file of theirs into it.                *)
LEMMA PeopleKeepPacks ==
    ASSUME PackInv, Prompt!MakeDirectory \/ Prompt!AddFile
    PROVE  PackInv'
<1>1. CASE Prompt!MakeDirectory
  BY <1>1, NothingIsWhole
  DEF Prompt!MakeDirectory, Prompt!Full, PackInv, PackTypes, TempWhole, Unseen, DueThere
<1>2. CASE Prompt!AddFile
  <2>1. PICK f \in Prompt!People \ due :
          /\ output' = (IF output = None THEN {} ELSE output) \cup {f}
          /\ due' = due \cup {f} /\ crossed' = crossed \cup Prompt!Working
          /\ UNCHANGED <<temp, hidden, packer>>
    BY <1>2 DEF Prompt!AddFile
  <2>2. WholePacks(output') /\ output' # None
    BY <2>1, FilesAreNoParts, NothingIsWhole, NoContentAssumption DEF PackInv, PackTypes, WholePacks
  <2>3. PackTypes'
    BY <2>1, <2>2 DEF PackInv, PackTypes, WholePacks, Prompt!Content
  <2>4. Unseen'
    BY <2>1 DEF PackInv, Unseen, Prompt!Working
  <2> QED  BY <2>1, <2>2, <2>3, <2>4 DEF PackInv, TempWhole, DueThere
<1> QED  BY <1>1, <1>2

(* The first look at the output (report_ops/github.rs `write_prompt_pack`).  *)
LEMMA PackLook ==
    ASSUME PackInv, NEW p \in Packers, Prompt!Look(p)
    PROVE  PackInv'
<1>1. /\ packer[p].at = "idle" /\ packer'[p].at \in {"build", "done"}
      /\ packer'[p].at = "build" => packer'[p].force \/ ~Prompt!Full
      /\ \A q \in Packers \ {p} : packer'[q] = packer[q]
      /\ packer' \in [Packers -> PackerRecord]
      /\ UNCHANGED <<output, temp, hidden, due, crossed>>
  BY DEF Prompt!Look, Prompt!Stage, PackInv, PackTypes, PackerRecord, PackPlaces
<1>2. PackTypes'
  BY <1>1, PackIsWhole, NothingIsWhole, NoContentAssumption DEF PackInv, PackTypes, TempWhole,
     WholePacks
<1>3. TempWhole'
  BY <1>1, PackIs DEF PackInv, PackTypes, TempWhole
<1>4. Unseen'
  BY <1>1 DEF PackInv, PackTypes, TempWhole, Unseen, Prompt!Full, Prompt!Working
<1>5. DueThere'
  BY <1>1 DEF PackInv, PackTypes, Unseen, DueThere, Prompt!Full
<1> QED  BY <1>2, <1>3, <1>4, <1>5 DEF PackInv

(* The temporary directory is made, empty.                                   *)
LEMMA PackBuild ==
    ASSUME PackInv, NEW p \in Packers, Prompt!Build(p)
    PROVE  PackInv'
<1>1. /\ packer[p].at = "build" /\ packer'[p].at = "payload"
      /\ temp' = [temp EXCEPT ![p] = {}]
      /\ \A q \in Packers \ {p} : packer'[q] = packer[q]
      /\ packer' \in [Packers -> PackerRecord]
      /\ packer'[p].force = packer[p].force
      /\ UNCHANGED <<output, hidden, due, crossed>>
  BY PackerGoes DEF Prompt!Stage, Prompt!Cross, PackInv, PackPlaces, Prompt!Build
<1>2. PackTypes'
  BY <1>1, PackIsWhole, NothingIsWhole, NoContentAssumption DEF PackInv, PackTypes, TempWhole,
     WholePacks
<1>3. TempWhole'
  BY <1>1, PackIs DEF PackInv, PackTypes, TempWhole
<1>4. Unseen'
  BY <1>1 DEF PackInv, PackTypes, TempWhole, Unseen, Prompt!Full, Prompt!Working
<1>5. DueThere'
  BY <1>1 DEF PackInv, PackTypes, Unseen, DueThere, Prompt!Full
<1> QED  BY <1>2, <1>3, <1>4, <1>5 DEF PackInv

(* One part is written, then the other.                                      *)
LEMMA PackWrite ==
    ASSUME PackInv, NEW p \in Packers,
           \/ Prompt!WritePart(p, "payload", "manifest")
           \/ Prompt!WritePart(p, "manifest", "probe")
    PROVE  PackInv'
<1>1. /\ \/ packer[p].at = "payload" /\ packer'[p].at = "manifest"
            /\ temp' = [temp EXCEPT ![p] = @ \cup {<<"pack", p, "payload">>}]
         \/ packer[p].at = "manifest" /\ packer'[p].at = "probe"
            /\ temp' = [temp EXCEPT ![p] = @ \cup {<<"pack", p, "manifest">>}]
      /\ \A q \in Packers \ {p} : packer'[q] = packer[q]
      /\ packer' \in [Packers -> PackerRecord]
      /\ packer'[p].force = packer[p].force
      /\ UNCHANGED <<output, hidden, due, crossed>>
  BY PackerGoes DEF Prompt!Stage, Prompt!Cross, PackInv, PackPlaces, Prompt!WritePart
<1>2. PackTypes'
  <2>1. temp'[p] \in SUBSET Prompt!Content
    BY <1>1, PackIs, PackIsWhole, NoContentAssumption
       DEF PackInv, PackTypes, TempWhole, WholePacks
  <2>2. \A q \in Packers \ {p} : temp'[q] = temp[q]
    BY <1>1 DEF PackInv, PackTypes
  <2>3. temp' \in [Packers -> (SUBSET Prompt!Content) \cup {None}]
    BY <1>1, <2>1, <2>2 DEF PackInv, PackTypes
  <2> QED  BY <1>1, <2>3 DEF PackInv, PackTypes, WholePacks, WholeParts
<1>3. TempWhole'
  <2>1. \/ packer'[p].at = "manifest" /\ temp'[p] = {<<"pack", p, "payload">>}
        \/ packer'[p].at = "probe" /\ temp'[p] = Prompt!Pack(p)
    BY <1>1, PackIs DEF PackInv, PackTypes, TempWhole
  <2>2. \A q \in Packers \ {p} :
            packer'[q] = packer[q] /\ temp'[q] = temp[q] /\ hidden'[q] = hidden[q]
    BY <1>1 DEF PackInv, PackTypes
  <2> QED  BY <2>1, <2>2 DEF PackInv, TempWhole
<1>4. Unseen'
  BY <1>1 DEF PackInv, PackTypes, TempWhole, Unseen, Prompt!Full, Prompt!Working
<1>5. DueThere'
  BY <1>1 DEF PackInv, PackTypes, Unseen, DueThere, Prompt!Full
<1> QED  BY <1>2, <1>3, <1>4, <1>5 DEF PackInv

(* The second look at the output, before the directory is renamed.           *)
LEMMA PackProbe ==
    ASSUME PackInv, NEW p \in Packers, Prompt!Probe(p)
    PROVE  PackInv'
<1>1. /\ packer[p].at = "probe" /\ packer'[p].at \in {"aside", "install"}
      /\ \A q \in Packers \ {p} : packer'[q] = packer[q]
      /\ packer' \in [Packers -> PackerRecord]
      /\ packer'[p].force = packer[p].force
      /\ UNCHANGED <<output, temp, hidden, due, crossed>>
  BY PackerGoes DEF Prompt!Stage, Prompt!Cross, PackInv, PackPlaces, Prompt!Probe
<1>2. PackTypes'
  BY <1>1, PackIsWhole, NothingIsWhole, NoContentAssumption DEF PackInv, PackTypes, TempWhole,
     WholePacks
<1>3. TempWhole'
  BY <1>1, PackIs DEF PackInv, PackTypes, TempWhole
<1>4. Unseen'
  BY <1>1 DEF PackInv, PackTypes, TempWhole, Unseen, Prompt!Full, Prompt!Working
<1>5. DueThere'
  BY <1>1 DEF PackInv, PackTypes, Unseen, DueThere, Prompt!Full
<1> QED  BY <1>2, <1>3, <1>4, <1>5 DEF PackInv

(* The output is moved aside, whole.                                         *)
LEMMA PackMoveAside ==
    ASSUME PackInv, NEW p \in Packers, Prompt!MoveAside(p)
    PROVE  PackInv'
<1>1. /\ packer[p].at = "aside"
      /\ \/ output = None /\ packer'[p].at = "done" /\ UNCHANGED <<output, hidden, due, crossed>>
         \/ /\ output # None /\ packer'[p].at = "install"
            /\ hidden' = [hidden EXCEPT ![p] = output] /\ output' = None
            /\ due' = IF packer[p].force \/ p \in crossed THEN due \ output ELSE due
            /\ crossed' = crossed \cup (Prompt!Working \ {p})
      /\ \A q \in Packers \ {p} : packer'[q] = packer[q]
      /\ packer' \in [Packers -> PackerRecord]
      /\ packer'[p].force = packer[p].force
      /\ UNCHANGED <<temp>>
  BY PackerGoes DEF Prompt!Stage, Prompt!Cross, PackInv, PackPlaces, Prompt!MoveAside
<1>2. PackTypes'
  BY <1>1, PackIsWhole, NothingIsWhole, NoContentAssumption DEF PackInv, PackTypes, TempWhole,
     WholePacks
<1>3. TempWhole'
  BY <1>1, PackIs DEF PackInv, PackTypes, TempWhole
<1>4. Unseen'
  BY <1>1 DEF PackInv, PackTypes, TempWhole, Unseen, Prompt!Full, Prompt!Working
<1>5. DueThere'
  BY <1>1 DEF PackInv, PackTypes, Unseen, DueThere, Prompt!Full
<1> QED  BY <1>2, <1>3, <1>4, <1>5 DEF PackInv

(* The temporary directory, both of whose parts are there, takes its place.  *)
LEMMA PackInstall ==
    ASSUME PackInv, NEW p \in Packers, Prompt!Install(p)
    PROVE  PackInv'
<1>1. /\ packer[p].at = "install" /\ ~Prompt!Full
      /\ output' = temp[p] /\ temp' = [temp EXCEPT ![p] = None]
      /\ due' = due \cup temp[p]
      /\ packer'[p].at \in {"done", "drop"}
      /\ crossed' = crossed \cup (Prompt!Working \ {p})
      /\ \A q \in Packers \ {p} : packer'[q] = packer[q]
      /\ packer' \in [Packers -> PackerRecord]
      /\ packer'[p].force = packer[p].force
      /\ UNCHANGED <<hidden>>
  BY PackerGoes DEF Prompt!Stage, Prompt!Cross, PackInv, PackPlaces, Prompt!Install
<1>2. PackTypes'
  BY <1>1, PackIsWhole, NothingIsWhole, NoContentAssumption DEF PackInv, PackTypes, TempWhole,
     WholePacks
<1>3. TempWhole'
  BY <1>1, PackIs DEF PackInv, PackTypes, TempWhole
<1>4. Unseen'
  BY <1>1 DEF PackInv, PackTypes, TempWhole, Unseen, Prompt!Full, Prompt!Working
<1>5. DueThere'
  BY <1>1, PackIsWhole DEF PackInv, PackTypes, TempWhole, DueThere, Prompt!Full
<1> QED  BY <1>2, <1>3, <1>4, <1>5 DEF PackInv

(* It does not: what was moved aside is to be put back.                      *)
LEMMA PackInstallFails ==
    ASSUME PackInv, NEW p \in Packers, Prompt!InstallFails(p)
    PROVE  PackInv'
<1>1. /\ packer[p].at = "install" /\ temp' = [temp EXCEPT ![p] = None]
      /\ packer'[p].at = IF hidden[p] = None THEN "done" ELSE "restore"
      /\ \A q \in Packers \ {p} : packer'[q] = packer[q]
      /\ packer' \in [Packers -> PackerRecord]
      /\ packer'[p].force = packer[p].force
      /\ UNCHANGED <<output, hidden, due, crossed>>
  BY PackerGoes DEF Prompt!Stage, Prompt!Cross, PackInv, PackPlaces, Prompt!InstallFails
<1>2. PackTypes'
  BY <1>1, PackIsWhole, NothingIsWhole, NoContentAssumption DEF PackInv, PackTypes, TempWhole,
     WholePacks
<1>3. TempWhole'
  BY <1>1, PackIs DEF PackInv, PackTypes, TempWhole
<1>4. Unseen'
  BY <1>1 DEF PackInv, PackTypes, TempWhole, Unseen, Prompt!Full, Prompt!Working
<1>5. DueThere'
  BY <1>1 DEF PackInv, PackTypes, Unseen, DueThere, Prompt!Full
<1> QED  BY <1>2, <1>3, <1>4, <1>5 DEF PackInv

(* What was moved aside comes back, or the process ends without it.          *)
LEMMA PackRestore ==
    ASSUME PackInv, NEW p \in Packers, Prompt!Restore(p)
    PROVE  PackInv'
<1>1. /\ packer[p].at = "restore" /\ packer'[p].at = "done"
      /\ \/ /\ ~Prompt!Full /\ output' = hidden[p]
            /\ hidden' = [hidden EXCEPT ![p] = None]
            /\ crossed' = crossed \cup (Prompt!Working \ {p})
         \/ UNCHANGED <<output, hidden, crossed>>
      /\ \A q \in Packers \ {p} : packer'[q] = packer[q]
      /\ packer' \in [Packers -> PackerRecord]
      /\ packer'[p].force = packer[p].force
      /\ UNCHANGED <<temp, due>>
  BY PackerGoes DEF Prompt!Stage, Prompt!Cross, PackInv, PackPlaces, Prompt!Restore
<1>2. PackTypes'
  BY <1>1, PackIsWhole, NothingIsWhole, NoContentAssumption DEF PackInv, PackTypes, TempWhole,
     WholePacks
<1>3. TempWhole'
  BY <1>1, PackIs DEF PackInv, PackTypes, TempWhole
<1>4. Unseen'
  BY <1>1 DEF PackInv, PackTypes, TempWhole, Unseen, Prompt!Full, Prompt!Working
<1>5. DueThere'
  BY <1>1 DEF PackInv, PackTypes, Unseen, DueThere, Prompt!Full
<1> QED  BY <1>2, <1>3, <1>4, <1>5 DEF PackInv

(* What was moved aside goes.                                                *)
LEMMA PackDrop ==
    ASSUME PackInv, NEW p \in Packers, Prompt!DropBackup(p)
    PROVE  PackInv'
<1>1. /\ packer[p].at = "drop" /\ packer'[p].at = "done"
      /\ hidden' = [hidden EXCEPT ![p] = None]
      /\ \A q \in Packers \ {p} : packer'[q] = packer[q]
      /\ packer' \in [Packers -> PackerRecord]
      /\ packer'[p].force = packer[p].force
      /\ UNCHANGED <<output, temp, due, crossed>>
  BY PackerGoes DEF Prompt!Stage, Prompt!Cross, PackInv, PackPlaces, Prompt!DropBackup
<1>2. PackTypes'
  BY <1>1, PackIsWhole, NothingIsWhole, NoContentAssumption DEF PackInv, PackTypes, TempWhole,
     WholePacks
<1>3. TempWhole'
  BY <1>1, PackIs DEF PackInv, PackTypes, TempWhole
<1>4. Unseen'
  BY <1>1 DEF PackInv, PackTypes, TempWhole, Unseen, Prompt!Full, Prompt!Working
<1>5. DueThere'
  BY <1>1 DEF PackInv, PackTypes, Unseen, DueThere, Prompt!Full
<1> QED  BY <1>2, <1>3, <1>4, <1>5 DEF PackInv

(* A process that dies leaves what it made.                                  *)
LEMMA PackCrash ==
    ASSUME PackInv, NEW p \in Packers, Prompt!Crash(p)
    PROVE  PackInv'
<1>1. /\ packer'[p].at = "dead"
      /\ \A q \in Packers \ {p} : packer'[q] = packer[q]
      /\ packer' \in [Packers -> PackerRecord]
      /\ packer'[p].force = packer[p].force
      /\ UNCHANGED <<output, temp, hidden, due, crossed>>
  BY PackerGoes DEF Prompt!Stage, Prompt!Cross, PackInv, PackPlaces, Prompt!Crash
<1>2. PackTypes'
  BY <1>1, PackIsWhole, NothingIsWhole, NoContentAssumption DEF PackInv, PackTypes, TempWhole,
     WholePacks
<1>3. TempWhole'
  BY <1>1, PackIs DEF PackInv, PackTypes, TempWhole
<1>4. Unseen'
  BY <1>1 DEF PackInv, PackTypes, TempWhole, Unseen, Prompt!Full, Prompt!Working
<1>5. DueThere'
  BY <1>1 DEF PackInv, PackTypes, Unseen, DueThere, Prompt!Full
<1> QED  BY <1>2, <1>3, <1>4, <1>5 DEF PackInv

(* Every step of the exports keeps the invariant.                            *)
LEMMA PackStep ==
    ASSUME PackInv, Prompt!Next \/ UNCHANGED promptVars
    PROVE  PackInv'
<1>1. CASE UNCHANGED promptVars
  BY <1>1 DEF promptVars, PackInv, PackTypes, TempWhole, Unseen, DueThere, Prompt!Full
<1>2. ASSUME NEW p \in Packers, Prompt!Step(p)
      PROVE  PackInv'
  BY <1>2, PackLook, PackBuild, PackWrite, PackProbe, PackMoveAside, PackInstall, PackInstallFails,
     PackRestore, PackDrop, PackCrash DEF Prompt!Step
<1> QED  BY <1>1, <1>2, PeopleKeepPacks DEF Prompt!Next

(* The invariant says what is promised of the export.                        *)
LEMMA PackImplies == PackInv => Prompt!PackKept
  BY DEF PackInv, PackTypes, DueThere, WholePacks, WholeParts, Prompt!PackKept

-------------------------------------------------------------------------------
(* The promotion of the latest files.                                        *)

(* The private latest files that are there are of one run.                   *)
OneRun ==
    \A f, g \in Promotion!Latest : private[f] = private[g] \/ private[f] = None \/ private[g] = None

(* Where no scan has come between, what is still to move is of the run of    *)
(* what has moved.                                                           *)
Joining ==
    (Promotion!Promoting /\ ~torn) =>
        \A f, g, h \in Promotion!Latest :
            durable[f] # None /\ private[g] # None /\ durable[h] = None => durable[f] = private[g]

(* A file that is about to be renamed is there and has no durable one.       *)
Chosen ==
    init.at = "rename" => /\ init.file \in Promotion!Latest
                          /\ torn \/ (durable[init.file] = None /\ private[init.file] # None)

(* The record of `init`, and the types of what it moves.                     *)
PromotionRecord == [at : {"idle", "configure", "gate", "move", "rename"}, ready : BOOLEAN,
                    eligible : BOOLEAN, todo : SUBSET Promotion!Latest,
                    file : Promotion!Latest \cup {None}]
PromotionTypes == /\ private \in [Promotion!Latest -> Nat \cup {None}]
                  /\ durable \in [Promotion!Latest -> Nat \cup {None}]
                  /\ runs \in Nat
                  /\ torn \in BOOLEAN
                  /\ init \in PromotionRecord

(* The invariant of the promotion.                                           *)
PromotionInv == PromotionTypes /\ OneRun /\ Joining /\ Chosen /\ Promotion!LatestOfOneRun

(* The record of an `init` that is not at work.                              *)
LEMMA NoPromotion == Promotion!NoInit \in PromotionRecord /\ Promotion!NoInit.at = "idle"
  BY DEF Promotion!NoInit, PromotionRecord

(* No latest file is there at first.                                         *)
LEMMA PromotionStarts == Promotion!Init => PromotionInv
<1> SUFFICES ASSUME Promotion!Init
             PROVE  PromotionInv
  OBVIOUS
<1>1. /\ private = [f \in Promotion!Latest |-> None] /\ durable = [f \in Promotion!Latest |-> None]
      /\ runs = 0 /\ torn = FALSE /\ init \in PromotionRecord /\ init.at = "idle"
  BY NoPromotion DEF Promotion!Init, Promotion!Absent
<1> QED  BY <1>1 DEF PromotionInv, PromotionTypes, OneRun, Joining, Chosen, Promotion!Promoting,
                     Promotion!LatestOfOneRun

(* A `find` writes all latest files of its side, of a run no file is of      *)
(* yet.                                                                      *)
LEMMA PromotionFinds ==
    ASSUME PromotionInv, Promotion!FindPrivate \/ Promotion!FindDurable
    PROVE  PromotionInv'
<1>1. /\ \/ /\ private' = [f \in Promotion!Latest |-> runs + 1] /\ durable' = durable
            /\ torn' = (torn \/ Promotion!Promoting)
         \/ /\ durable' = [f \in Promotion!Latest |-> runs + 1] /\ private' = private
            /\ torn' = Promotion!Promoting
      /\ runs' = runs + 1 /\ init' = init
  BY NoPromotion DEF PromotionInv, PromotionTypes, PromotionRecord, Promotion!FindPrivate,
     Promotion!FindDurable, Promotion!Scan, Promotion!OfRun
<1>2. PromotionTypes'
  <2>1. /\ private' \in [Promotion!Latest -> Nat \cup {None}]
        /\ durable' \in [Promotion!Latest -> Nat \cup {None}]
        /\ runs' \in Nat
        /\ init' \in PromotionRecord'
    BY <1>1 DEF PromotionInv, PromotionTypes, PromotionRecord
  <2>2. torn' = TRUE \/ torn' = FALSE
    <3>1. torn = TRUE \/ torn = FALSE
      BY DEF PromotionInv, PromotionTypes
    <3>2. CASE Promotion!Promoting
      BY <1>1, <3>2
    <3>3. CASE ~Promotion!Promoting
      BY <1>1, <3>1, <3>3
    <3> QED  BY <3>2, <3>3
  <2> QED  BY <2>1, <2>2 DEF PromotionTypes
<1>3. OneRun'
  BY <1>1 DEF PromotionInv, PromotionTypes, OneRun, Chosen
<1>4. Joining'
  BY <1>1 DEF PromotionInv, PromotionTypes, OneRun, Joining, Chosen, Promotion!Promoting
<1>5. Chosen'
  BY <1>1 DEF PromotionInv, PromotionTypes, Chosen, Promotion!Promoting
<1>6. Promotion!LatestOfOneRun'
  BY <1>1 DEF PromotionInv, PromotionTypes, Joining, Chosen, Promotion!LatestOfOneRun,
              Promotion!Promoting
<1> QED  BY <1>2, <1>3, <1>4, <1>5, <1>6 DEF PromotionInv

(* People change the configuration or check another commit out: no file      *)
(* moves.                                                                    *)
LEMMA PromotionEdits ==
    ASSUME PromotionInv, Promotion!Edit \/ Promotion!Checkout
    PROVE  PromotionInv'
<1>1. UNCHANGED <<private, durable, runs, init, torn>>
  BY NoPromotion DEF PromotionInv, PromotionTypes, PromotionRecord, Promotion!Edit,
     Promotion!Checkout
<1>2. PromotionTypes'
  BY <1>1 DEF PromotionInv, PromotionTypes, PromotionRecord
<1>3. OneRun'
  BY <1>1 DEF PromotionInv, PromotionTypes, OneRun, Chosen
<1>4. Joining'
  BY <1>1 DEF PromotionInv, PromotionTypes, OneRun, Joining, Chosen, Promotion!Promoting
<1>5. Chosen'
  BY <1>1 DEF PromotionInv, PromotionTypes, Chosen, Promotion!Promoting
<1>6. Promotion!LatestOfOneRun'
  BY <1>1 DEF PromotionInv, PromotionTypes, Joining, Chosen, Promotion!LatestOfOneRun,
              Promotion!Promoting
<1> QED  BY <1>2, <1>3, <1>4, <1>5, <1>6 DEF PromotionInv

(* `init` begins, writes its configuration, ends or dies.                    *)
LEMMA PromotionBegins ==
    ASSUME PromotionInv,
           Promotion!Begin \/ Promotion!Configure \/ Promotion!Finish \/ Promotion!Crash
    PROVE  PromotionInv'
<1>1. /\ UNCHANGED <<private, durable, runs, torn>>
      /\ init'.at \in {"idle", "configure", "gate"}
      /\ init' \in PromotionRecord
  BY NoPromotion DEF PromotionInv, PromotionTypes, PromotionRecord, Promotion!Begin,
     Promotion!Configure, Promotion!Finish, Promotion!Crash, Promotion!Quiet
<1>2. PromotionTypes'
  BY <1>1 DEF PromotionInv, PromotionTypes, PromotionRecord
<1>3. OneRun'
  BY <1>1 DEF PromotionInv, PromotionTypes, OneRun, Chosen
<1>4. Joining'
  BY <1>1 DEF PromotionInv, PromotionTypes, OneRun, Joining, Chosen, Promotion!Promoting
<1>5. Chosen'
  BY <1>1 DEF PromotionInv, PromotionTypes, Chosen, Promotion!Promoting
<1>6. Promotion!LatestOfOneRun'
  BY <1>1 DEF PromotionInv, PromotionTypes, Joining, Chosen, Promotion!LatestOfOneRun,
              Promotion!Promoting
<1> QED  BY <1>2, <1>3, <1>4, <1>5, <1>6 DEF PromotionInv

(* The gate of `init` before it moves the latest files (cli/init.rs          *)
(* `promote_first_run_state`).                                               *)
LEMMA PromotionGate ==
    ASSUME PromotionInv, Promotion!Gate
    PROVE  PromotionInv'
<1>1. /\ UNCHANGED <<private, durable, runs>>
      /\ \/ init'.at = "idle" /\ UNCHANGED torn
         \/ /\ init'.at = "move"
            /\ torn' = (torn \/ \E f, g \in Promotion!Latest :
                                    durable[f] = None /\ durable[g] # None)
      /\ init' \in PromotionRecord
  BY NoPromotion DEF PromotionInv, PromotionTypes, PromotionRecord, Promotion!Gate, Promotion!Quiet
<1>2. PromotionTypes'
  BY <1>1 DEF PromotionInv, PromotionTypes, PromotionRecord
<1>3. OneRun'
  BY <1>1 DEF PromotionInv, PromotionTypes, OneRun, Chosen
<1>4. Joining'
  BY <1>1 DEF PromotionInv, PromotionTypes, OneRun, Joining, Chosen, Promotion!Promoting
<1>5. Chosen'
  BY <1>1 DEF PromotionInv, PromotionTypes, Chosen, Promotion!Promoting
<1>6. Promotion!LatestOfOneRun'
  BY <1>1 DEF PromotionInv, PromotionTypes, Joining, Chosen, Promotion!LatestOfOneRun,
              Promotion!Promoting
<1> QED  BY <1>2, <1>3, <1>4, <1>5, <1>6 DEF PromotionInv

(* A file is looked at: it is moved where it is not there yet.               *)
LEMMA PromotionLooks ==
    ASSUME PromotionInv, \E f \in Promotion!Latest : Promotion!LookAt(f)
    PROVE  PromotionInv'
<1>0. PICK f \in Promotion!Latest : Promotion!LookAt(f)
  OBVIOUS
<1>1. /\ UNCHANGED <<private, durable, runs, torn>>
      /\ init.at = "move"
      /\ \/ init'.at = "move"
         \/ /\ init'.at = "rename" /\ init'.file \in Promotion!Latest
            /\ durable[init'.file] = None /\ private[init'.file] # None
      /\ init' \in PromotionRecord
  <2>1. /\ UNCHANGED <<private, durable, runs, torn>>
        /\ init \in PromotionRecord /\ init.at = "move"
    BY <1>0 DEF PromotionInv, PromotionTypes, Promotion!LookAt, Promotion!Quiet
  <2>2. CASE private[f] = None \/ Promotion!Retained(f)
    <3>1. init' = [init EXCEPT !.todo = @ \ {f}]
      BY <1>0, <2>2 DEF Promotion!LookAt
    <3> QED  BY <2>1, <3>1 DEF PromotionRecord
  <2>3. CASE ~ (private[f] = None \/ Promotion!Retained(f))
    <3>1. init' = [init EXCEPT !.at = "rename", !.file = f]
      BY <1>0, <2>3 DEF Promotion!LookAt
    <3>2. init' \in PromotionRecord /\ init'.at = "rename" /\ init'.file = f
      BY <2>1, <3>1 DEF PromotionRecord
    <3> QED  BY <2>1, <2>3, <3>2 DEF Promotion!Retained
  <2> QED  BY <2>2, <2>3
<1>2. PromotionTypes'
  BY <1>1 DEF PromotionInv, PromotionTypes, PromotionRecord
<1>3. OneRun'
  BY <1>1 DEF PromotionInv, PromotionTypes, OneRun, Chosen
<1>4. Joining'
  BY <1>1 DEF PromotionInv, PromotionTypes, OneRun, Joining, Chosen, Promotion!Promoting
<1>5. Chosen'
  BY <1>1 DEF PromotionInv, PromotionTypes, Chosen, Promotion!Promoting
<1>6. Promotion!LatestOfOneRun'
  BY <1>1 DEF PromotionInv, PromotionTypes, Joining, Chosen, Promotion!LatestOfOneRun,
              Promotion!Promoting
<1> QED  BY <1>2, <1>3, <1>4, <1>5, <1>6 DEF PromotionInv

(* It is renamed into the durable directory.                                 *)
LEMMA PromotionRenames ==
    ASSUME PromotionInv, Promotion!Rename
    PROVE  PromotionInv'
<1>1. /\ init.at = "rename" /\ init'.at = "move"
      /\ durable' = [durable EXCEPT ![init.file] = private[init.file]]
      /\ private' = [private EXCEPT ![init.file] = None]
      /\ UNCHANGED <<runs, torn>>
      /\ init' \in PromotionRecord
  BY NoPromotion DEF PromotionInv, PromotionTypes, PromotionRecord, Promotion!Rename
<1>2. PromotionTypes'
  BY <1>1 DEF PromotionInv, PromotionTypes, PromotionRecord
<1>3. OneRun'
  BY <1>1 DEF PromotionInv, PromotionTypes, OneRun, Chosen
<1>4. Joining'
  BY <1>1 DEF PromotionInv, PromotionTypes, OneRun, Joining, Chosen, Promotion!Promoting
<1>5. Chosen'
  BY <1>1 DEF PromotionInv, PromotionTypes, Chosen, Promotion!Promoting
<1>6. Promotion!LatestOfOneRun'
  BY <1>1 DEF PromotionInv, PromotionTypes, Joining, Chosen, Promotion!LatestOfOneRun,
              Promotion!Promoting
<1> QED  BY <1>2, <1>3, <1>4, <1>5, <1>6 DEF PromotionInv

(* Every step around `init` keeps the invariant.                             *)
LEMMA PromotionStep ==
    ASSUME PromotionInv, Promotion!Next \/ UNCHANGED promotionVars
    PROVE  PromotionInv'
<1>1. CASE UNCHANGED promotionVars
  BY <1>1 DEF promotionVars, PromotionInv, PromotionTypes, OneRun, Joining, Chosen,
     Promotion!Promoting,
              Promotion!LatestOfOneRun
<1> QED  BY <1>1, PromotionFinds, PromotionEdits, PromotionBegins, PromotionGate, PromotionLooks,
            PromotionRenames DEF Promotion!Next

-------------------------------------------------------------------------------
(* All three.                                                                *)

(* A step of the commands is, for each of the three parts, a step of that    *)
(* part or none.                                                             *)
LEMMA ComponentsStep ==
    ASSUME [CommandsNext]_commandVars
    PROVE  /\ Baseline!Next \/ UNCHANGED baselineVars
           /\ Prompt!Next \/ UNCHANGED promptVars
           /\ Promotion!Next \/ UNCHANGED promotionVars
           /\ work' = work
  BY DEF CommandsNext, StateStep, DetectorStep, ReaderStep, AdviceStep, commandVars, stateVars

(* Whatever processes meet and wherever they die: a named baseline that has  *)
(* been promised is under its name or in a backup, with its object stored;   *)
(* the directory of an export holds whole packs and all that people keep     *)
(* there; and the latest files that `init` has promoted are of one run       *)
(* where no scan came between.                                               *)
THEOREM OutputsAreKept == CommandsSpec => []OutputsKept
<1> DEFINE OutputsInv == BaselineInv /\ PackInv /\ PromotionInv
<1>1. CommandsInit => OutputsInv
  BY BaselineStarts, PackStarts, PromotionStarts DEF CommandsInit
<1>2. OutputsInv /\ [CommandsNext]_commandVars => OutputsInv'
  BY ComponentsStep, BaselineStep, PackStep, PromotionStep
<1>3. OutputsInv => OutputsKept
  BY BaselineImplies, PackImplies DEF PromotionInv, OutputsKept
<1> QED  BY <1>1, <1>2, <1>3, PTL DEF CommandsSpec

-------------------------------------------------------------------------------
(* The two gates.                                                            *)

(* The reports are of analyses, and a gate has run on those that are there.  *)
GatesInv ==
    /\ {baseReport, headReport} \subseteq Gates!Analyses \cup {None}
    /\ verdict.command # None => headReport # None
    /\ verdict.command = "compare" => baseReport # None
    /\ Gates!PassMeansBelow /\ Gates!CleanMeansNoWorse

(* A record of a file: its score is a number, its content is known where it  *)
(* could be read, and what could not be read has no score.                   *)
LEMMA RecordsAre ==
    ASSUME NEW record \in Gates!Records
    PROVE  /\ record # None /\ record.score \in Nat
           /\ record.kind \in {"source", "generated", "unreadable"}
           /\ record.kind # "unreadable" => record.content # None
           /\ record.kind = "unreadable" => record.score = 0
<1>1. record # None
  BY ScoresAssumption
<1>2. Gates!OneContent \in Contents
  BY ScoresAssumption DEF Gates!OneContent
<1>3. Gates!Max(Scores) \in Nat
  BY ScoresAssumption DEF Gates!Max
<1> QED  BY <1>1, <1>2, <1>3, ScoresAssumption DEF Gates!Records

(* Analyses have a record or none for each path.                             *)
LEMMA AnalysesAre ==
    ASSUME NEW a \in Gates!Analyses
    PROVE  /\ a # None /\ a.file \in [TwoFiles -> Gates!Records \cup {None}]
           /\ a.flaw = "no index" => a.profile = "compact"
  BY ScoresAssumption DEF Gates!Analyses, Gates!Flaws

(* A report that is ready says of every file what the analysis has found:    *)
(* both its indexes have every one, and each could be read.                  *)
LEMMA ReadyIsWhole ==
    ASSUME NEW a \in Gates!Analyses, NEW requireClean, NEW allow,
           Gates!Ready(Gates!Report(a), requireClean, allow)
    PROVE  LET told == Gates!Report(a)
               whole == [p \in Gates!Present(a.file) |-> a.file[p]]
           IN /\ Gates!Index(told.policy, told) = whole
              /\ Gates!Index(told.compare, told) = whole
              /\ \A p \in Gates!Present(a.file) :
                    a.file[p] \in Gates!Records /\ a.file[p].kind # "unreadable"
<1> DEFINE told == Gates!Report(a)
           whole == [p \in Gates!Present(a.file) |-> a.file[p]]
<1>1. Gates!Present(a.file) \subseteq TwoFiles
      /\ \A p \in Gates!Present(a.file) : a.file[p] \in Gates!Records
  BY AnalysesAre DEF Gates!Present
<1>2. whole # None
  <2>1. whole \in [Gates!Present(a.file) -> Gates!Records]
    BY <1>1
  <2> QED  BY <1>1, <2>1, ScoresAssumption
<1>3. told.analysed = Gates!AnalysisComplete(a) /\ told.profile = a.profile
  BY DEF Gates!Report
<1>4. Gates!AnalysisComplete(a) /\ ~(told.profile = "compact" /\ told.policy = None)
  BY <1>3 DEF Gates!Ready, Gates!Blockers
<1>5. told.policy = told.compare
      /\ told.policy = IF a.flaw = "no index" THEN None ELSE whole
  <2>1. Gates!Present(a.file) \ Gates!Omitted(a) = Gates!Present(a.file)
    BY <1>4 DEF Gates!AnalysisComplete
  <2> QED  BY <2>1 DEF Gates!Report, Gates!Restrict
<1>6. told.policy = whole /\ told.compare = whole
  BY <1>2, <1>3, <1>4, <1>5, AnalysesAre
<1>7. \A p \in Gates!Present(a.file) : a.file[p].kind # "unreadable"
  BY <1>4 DEF Gates!AnalysisComplete, Gates!Unread
<1> HIDE DEF told, whole
<1> QED  BY <1>1, <1>2, <1>6, <1>7 DEF Gates!Index, told, whole

(* What fails in the head and is no regression failed as badly in the base,  *)
(* or is of a content that was there.                                        *)
LEMMA NoRegressionIsNoWorse ==
    ASSUME NEW a \in Gates!Analyses, NEW c \in Gates!Analyses, NEW drift,
           \A p \in Gates!Present(a.file) : a.file[p].kind # "unreadable",
           \A p \in Gates!Present(c.file) : c.file[p].kind # "unreadable",
           Gates!Regressions([p \in Gates!Present(a.file) |-> a.file[p]],
                             [p \in Gates!Present(c.file) |-> c.file[p]], drift) = {},
           NEW p \in Gates!Present(c.file), Gates!Rank(c.file[p].score) >= Gates!Failing
    PROVE  \/ a.file[p] # None /\ Gates!Rank(a.file[p].score) >= Gates!Rank(c.file[p].score)
           \/ \E q \in Gates!Present(a.file) :
                 a.file[q].content = c.file[p].content /\ (q = p \/ c.file[q] = None)
<1> DEFINE old == [q \in Gates!Present(a.file) |-> a.file[q]]
           new == [q \in Gates!Present(c.file) |-> c.file[q]]
           renamed == UNION {{r[1], r[2]} : r \in Gates!Renames(old, new)}
           at(r, q) == IF q \in DOMAIN r THEN r[q] ELSE None
           b == at(old, p)
           h == at(new, p)
<1>1. /\ p \in DOMAIN new /\ h = c.file[p] /\ h \in Gates!Records /\ h.kind # "unreadable"
      /\ p \in TwoFiles
  BY AnalysesAre DEF Gates!Present
<1>2. CASE p \in renamed
  <2>1. PICK r \in Gates!Renames(old, new) : p = r[1] \/ p = r[2]
    BY <1>2
  <2>2. /\ r[1] \in DOMAIN old \ DOMAIN new /\ r[2] \in DOMAIN new \ DOMAIN old
        /\ new[r[2]].content = old[r[1]].content
    BY DEF Gates!Renames
  <2>3. r[2] = p
    BY <2>1, <2>2, <1>1
  <2>4. r[1] \in Gates!Present(a.file) /\ c.file[r[1]] = None
    BY <2>2, AnalysesAre DEF Gates!Present
  <2> QED  BY <1>1, <2>2, <2>3, <2>4
<1>3. CASE p \notin renamed
  <2>1. ~ Gates!Regressed(Gates!DeltaStatus(b, h), b, h, drift)
    BY <1>1, <1>3 DEF Gates!Regressions
  <2>2. h # None /\ h.content # None /\ Gates!Rank(h.score) >= Gates!Failing
    BY <1>1, RecordsAre
  <2>3. b # None /\ b = a.file[p] /\ p \in Gates!Present(a.file)
    <3>1. b # None
      BY <2>1, <2>2 DEF Gates!Regressed, Gates!DeltaStatus
    <3> QED  BY <3>1 DEF Gates!Present
  <2>4. b \in Gates!Records /\ b.content # None
    <3>1. b \in Gates!Records
      BY <2>3, AnalysesAre DEF Gates!Present
    <3> QED  BY <2>3, <3>1, RecordsAre
  <2>5. CASE b.content = h.content
    BY <1>1, <2>3, <2>5
  <2>6. CASE b.content # h.content
    <3>1. Gates!DeltaStatus(b, h) = "source_changed"
      BY <2>2, <2>3, <2>4, <2>6 DEF Gates!DeltaStatus, Gates!Known
    <3>2. ~ (Gates!Rank(h.score) > Gates!Rank(b.score))
      BY <2>1, <3>1 DEF Gates!Regressed
    <3>3. Gates!Rank(h.score) \in Int /\ Gates!Rank(b.score) \in Int
      BY <1>1, <2>4, RecordsAre DEF Gates!Rank
    <3>4. Gates!Rank(b.score) >= Gates!Rank(h.score)
      BY <3>2, <3>3
    <3> QED  BY <1>1, <2>3, <3>4
  <2> QED  BY <2>5, <2>6
<1> QED  BY <1>2, <1>3

(* `check` says pass.                                                        *)
LEMMA GatesCheck ==
    ASSUME GatesInv, NEW allow \in BOOLEAN, Gates!Check(allow)
    PROVE  GatesInv'
<1> DEFINE told == Gates!Report(headReport)
<1>1. /\ headReport # None /\ verdict'.command = "check"
      /\ verdict'.said = "pass" => /\ Gates!Ready(told, FALSE, allow)
                                   /\ Gates!FailingRecords(told) = {}
      /\ UNCHANGED <<baseReport, headReport>>
  BY DEF Gates!Check
<1>2. ASSUME verdict'.said = "pass", NEW p \in Gates!Present(headReport.file)
      PROVE  headReport.file[p].kind # "source"
             \/ Gates!Rank(headReport.file[p].score) < Gates!Failing
  <2>1. headReport \in Gates!Analyses
    BY <1>1 DEF GatesInv
  <2>2. /\ Gates!Index(told.policy, told)
              = [q \in Gates!Present(headReport.file) |-> headReport.file[q]]
        /\ headReport.file[p] \in Gates!Records
    BY <1>1, <1>2, <2>1, ReadyIsWhole
  <2>3. headReport.file[p].kind = "generated"
        \/ ~ (Gates!Rank(headReport.file[p].score) >= Gates!Failing)
    BY <1>1, <1>2, <2>2 DEF Gates!FailingRecords
  <2>4. Gates!Rank(headReport.file[p].score) \in Int
    BY <2>2, RecordsAre DEF Gates!Rank
  <2> QED  BY <2>3, <2>4 DEF Gates!Failing
<1> QED  BY <1>1, <1>2 DEF GatesInv, Gates!PassMeansBelow, Gates!CleanMeansNoWorse, Gates!Present

(* `compare` says clean.                                                     *)
LEMMA GatesCompare ==
    ASSUME GatesInv, NEW force \in BOOLEAN, NEW allow \in BOOLEAN, NEW drift \in BOOLEAN,
           Gates!Compare(force, allow, drift)
    PROVE  GatesInv'
<1> DEFINE old == Gates!Report(baseReport)
           new == Gates!Report(headReport)
<1>1. /\ baseReport # None /\ headReport # None /\ verdict'.command = "compare"
      /\ verdict'.said = "clean" =>
            /\ Gates!Ready(old, ~ force, allow) /\ Gates!Ready(new, FALSE, allow)
            /\ Gates!Regressions(Gates!Index(old.compare, old), Gates!Index(new.compare, new),
                                 drift) = {}
      /\ UNCHANGED <<baseReport, headReport>>
  BY DEF Gates!Compare
<1>2. baseReport \in Gates!Analyses /\ headReport \in Gates!Analyses
  BY <1>1 DEF GatesInv
<1>3. ASSUME verdict'.said = "clean", NEW p \in Gates!Present(headReport.file),
             Gates!Rank(headReport.file[p].score) >= Gates!Failing
      PROVE  \/ /\ baseReport.file[p] # None
                /\ Gates!Rank(baseReport.file[p].score) >= Gates!Rank(headReport.file[p].score)
             \/ \E q \in Gates!Present(baseReport.file) :
                   /\ baseReport.file[q].content = headReport.file[p].content
                   /\ q = p \/ headReport.file[q] = None
  <2>1. /\ Gates!Index(old.compare, old)
              = [q \in Gates!Present(baseReport.file) |-> baseReport.file[q]]
        /\ \A q \in Gates!Present(baseReport.file) : baseReport.file[q].kind # "unreadable"
    BY <1>1, <1>2, <1>3, ReadyIsWhole
  <2>2. /\ Gates!Index(new.compare, new)
              = [q \in Gates!Present(headReport.file) |-> headReport.file[q]]
        /\ \A q \in Gates!Present(headReport.file) : headReport.file[q].kind # "unreadable"
    BY <1>1, <1>2, <1>3, ReadyIsWhole
  <2>3. Gates!Regressions([q \in Gates!Present(baseReport.file) |-> baseReport.file[q]],
                          [q \in Gates!Present(headReport.file) |-> headReport.file[q]],
                          drift) = {}
    BY <1>1, <1>3, <2>1, <2>2
  <2> HIDE DEF old, new
  <2> QED  BY <1>2, <1>3, <2>1, <2>2, <2>3, NoRegressionIsNoWorse
<1>4. Gates!CleanMeansNoWorse'
  BY <1>1, <1>3 DEF Gates!CleanMeansNoWorse, Gates!Present
<1> QED  BY <1>1, <1>4 DEF GatesInv, Gates!PassMeansBelow

(* Every step around the gates keeps the invariant.                          *)
LEMMA GatesStep ==
    ASSUME GatesInv, Gates!Next \/ UNCHANGED gateVars
    PROVE  GatesInv'
<1>1. CASE UNCHANGED gateVars
  BY <1>1 DEF gateVars, GatesInv, Gates!PassMeansBelow, Gates!CleanMeansNoWorse, Gates!Present
<1>2. CASE Gates!AnalyseBase \/ Gates!AnalyseHead
  <2>1. /\ headReport = None /\ UNCHANGED verdict
        /\ {baseReport', headReport'} \subseteq Gates!Analyses \cup {None}
    BY <1>2 DEF GatesInv, Gates!AnalyseBase, Gates!AnalyseHead
  <2>2. verdict.command = None
    BY <2>1 DEF GatesInv
  <2> QED  BY <2>1, <2>2, ScoresAssumption
           DEF GatesInv, Gates!PassMeansBelow, Gates!CleanMeansNoWorse
<1> QED  BY <1>1, <1>2, GatesCheck, GatesCompare DEF Gates!Next

(* Whatever the two analyses are like: a `check` that passes has seen every  *)
(* source file below the threshold, and a `compare` that is clean hides no   *)
(* file that got worse (cli/check.rs, report_ops/compare).                   *)
THEOREM GatesAreSound == CommandsSpec => []GatesSound
<1>1. CommandsInit => GatesInv
  BY ScoresAssumption
     DEF CommandsInit, Gates!Init, GatesInv, Gates!PassMeansBelow, Gates!CleanMeansNoWorse
<1>2. GatesInv /\ [CommandsNext]_commandVars => GatesInv'
  <2>1. [CommandsNext]_commandVars => Gates!Next \/ UNCHANGED gateVars
    BY DEF CommandsNext, StateStep, DetectorStep, ReaderStep, AdviceStep, commandVars,
           analysisVars, readerVars
  <2> QED  BY <2>1, GatesStep
<1>3. GatesInv => GatesSound
  BY DEF GatesInv, GatesSound
<1> QED  BY <1>1, <1>2, <1>3, PTL DEF CommandsSpec

-------------------------------------------------------------------------------
(* A request for advice, and the thread that samples the host's memory.      *)

(* Before the request no tick has passed and nothing has been sampled.       *)
Unasked == pc \in {"idle", "report", "configure", "probe", "connect"}

RequestTypes ==
    /\ low \in BOOLEAN /\ waiting \in BOOLEAN
    /\ now \in Nat /\ lowFor \in Nat /\ heartbeat \in Nat /\ lag \in {0, 1}
    /\ hand \in {"none", "ok", "low", "failed"} /\ seen \in {"none", "ok", "low", "failed"}
    /\ Unasked => /\ now = 0 /\ ~ waiting /\ lowFor = 0
                  /\ hand = "none" /\ seen = "none" /\ heartbeat = 0

(* The request goes on only where the last sample has been published not     *)
(* long ago, and where time is left.                                         *)
Paced ==
    /\ now - heartbeat <= Heartbeat + 1 /\ now <= Timeout
    /\ waiting => now - heartbeat <= Heartbeat /\ now < Timeout
    /\ seen = "none" => heartbeat = 0
    /\ seen # "none" => heartbeat + lag <= now
    /\ hand # "none" => lag <= now

(* When a sample says that there is memory, there was when it was taken, and *)
(* it was taken after the one before it had been published.                  *)
Sampled ==
    /\ lowFor <= now
    /\ low /\ hand = "ok" => lowFor + heartbeat + lag <= now
    /\ low /\ seen = "ok" => lowFor + heartbeat + 2 * lag <= now + Heartbeat + 1

Reacting ==
    low => /\ lowFor <= 2 * Heartbeat + 2
           /\ waiting => lowFor <= 2 * Heartbeat + 1

(* A provider that is contacted has the consent of the caller, and an answer *)
(* that is taken for one is whole.                                           *)
AnswerSound ==
    /\ pc \in {"probe", "connect", "write", "read", "validate"} /\ ~ call.mock => call.consent
    /\ pc = "validate" => got = answer.size /\ (~ call.mock => answer.ok)
    /\ pc = "idle" => stored = None
    /\ Provider!OnlyWholeStored

RequestInv ==
    /\ RequestTypes /\ AnswerSound
    /\ Provider!Requesting => Paced /\ Sampled /\ Reacting

(* At first nothing is asked.                                                *)
LEMMA RequestStarts == Provider!Init => RequestInv
<1> SUFFICES ASSUME Provider!Init
             PROVE  RequestInv
  OBVIOUS
<1>1. RequestTypes
  BY DEF Provider!Init, RequestTypes
<1>2. AnswerSound
  BY DEF Provider!Init, AnswerSound, Provider!OnlyWholeStored
<1>3. ~ Provider!Requesting
  BY DEF Provider!Init, Provider!Requesting
<1> QED  BY <1>1, <1>2, <1>3 DEF RequestInv

(* Steps that concern the host and the clock only.                           *)
LEMMA AnswerUnmoved ==
    ASSUME AnswerSound, UNCHANGED <<pc, call, answer, got, stored>>
    PROVE  AnswerSound'
  BY DEF AnswerSound, Provider!OnlyWholeStored

(* Whatever the step, an answer that is taken for one is whole.              *)
LEMMA AnswerStep ==
    ASSUME AnswerSound, Provider!Next
    PROVE  AnswerSound'
<1>1. ASSUME NEW c \in Invocations, Provider!Start(c)
      PROVE  AnswerSound'
  BY <1>1 DEF Provider!Start, Provider!memory, Provider!sampler, Provider!request,
              AnswerSound, Provider!OnlyWholeStored
<1>2. ASSUME NEW ok \in BOOLEAN,
             Provider!BuildContext(ok) \/ Provider!Probe(ok) \/ Provider!Connect(ok)
      PROVE  AnswerSound'
  <2>1. /\ UNCHANGED <<call, answer, got, stored>> /\ pc' \notin {"validate", "idle"}
        /\ pc' \in {"probe", "connect", "write", "read", "validate"} => pc \in {"probe", "connect"}
    BY <1>2 DEF Provider!BuildContext, Provider!Probe, Provider!Connect, Provider!memory,
                Provider!request
  <2> QED  BY <2>1 DEF AnswerSound, Provider!OnlyWholeStored
<1>3. CASE Provider!Configure
  <2>1. /\ UNCHANGED <<call, stored>> /\ pc' \in {"validate", "probe", "refused"}
        /\ pc' = "validate" => call.mock /\ \E a \in Replies : answer' = a /\ got' = a.size
        /\ pc' = "probe" => call.mock \/ call.consent
    BY <1>3 DEF Provider!Configure, Provider!memory
  <2> QED  BY <2>1 DEF AnswerSound, Provider!OnlyWholeStored
<1>4. CASE \/ Provider!Press \/ Provider!Publish \/ Provider!Block \/ Provider!Tick
           \/ \E told \in {"measured", "failed"} : Provider!Measure(told)
  <2>1. UNCHANGED <<pc, call, answer, got, stored>>
    BY <1>4 DEF Provider!Press, Provider!Publish, Provider!Block, Provider!Tick,
                Provider!Measure, Provider!memory, Provider!sampler, Provider!request
  <2> QED  BY <2>1, AnswerUnmoved
<1>5. CASE Provider!Abort \/ Provider!Write
  <2>1. /\ UNCHANGED <<call, answer, got, stored>> /\ pc' \in {"refused", "read", "write"}
        /\ pc' # "refused" => pc = "write"
    BY <1>5 DEF Provider!Abort, Provider!Write, Provider!memory, Provider!sampler,
                Provider!request
  <2> QED  BY <2>1 DEF AnswerSound, Provider!OnlyWholeStored
<1>6. ASSUME NEW k \in 0 .. 2, NEW a \in Replies, Provider!Read(k, a)
      PROVE  AnswerSound'
  <2>1. /\ UNCHANGED <<call, stored>> /\ pc = "read" /\ answer' = a
        /\ pc' \in {"refused", "read", "validate"}
        /\ pc' = "validate" => Provider!Decoded(a, got') /\ Provider!Parsed(a, got')
    BY <1>6 DEF Provider!Read
  <2>2. pc' = "validate" => got' = answer'.size /\ answer'.ok
    BY <2>1 DEF Provider!Decoded, Provider!Parsed
  <2> QED  BY <2>1, <2>2 DEF AnswerSound, Provider!OnlyWholeStored
<1>7. CASE Provider!Finish
  <2>1. /\ UNCHANGED <<call, answer, got>> /\ pc = "validate" /\ pc' \in {"done", "refused"}
        /\ \/ UNCHANGED stored
           \/ Provider!Valid(answer) /\ stored' = [of |-> answer, read |-> got]
    BY <1>7 DEF Provider!Finish, Provider!request
  <2>2. CASE Provider!Valid(answer) /\ stored' = [of |-> answer, read |-> got]
    BY <2>1, <2>2 DEF AnswerSound, Provider!OnlyWholeStored, Provider!Valid
  <2> QED  BY <2>1, <2>2 DEF AnswerSound, Provider!OnlyWholeStored
<1> QED  BY <1>1, <1>2, <1>3, <1>4, <1>5, <1>6, <1>7 DEF Provider!Next

(* The same of time and memory: what is neither changes nothing, and outside *)
(* a request nothing is asked of them.                                       *)
LEMMA TimeUnmoved ==
    ASSUME RequestTypes, Provider!Requesting => Paced /\ Sampled /\ Reacting,
           UNCHANGED <<low, lowFor, now, waiting, hand, seen, heartbeat, lag>>,
           Unasked' => Unasked, Provider!Requesting' => Provider!Requesting
    PROVE  RequestTypes' /\ (Provider!Requesting' => Paced' /\ Sampled' /\ Reacting')
  BY DEF RequestTypes, Paced, Sampled, Reacting

(* Every step keeps what is said of time and memory.                         *)
LEMMA TimeStep ==
    ASSUME RequestTypes, Provider!Requesting => Paced /\ Sampled /\ Reacting, Provider!Next
    PROVE  RequestTypes' /\ (Provider!Requesting' => Paced' /\ Sampled' /\ Reacting')
<1> DEFINE Timed == Paced /\ Sampled /\ Reacting
<1>1. CASE \/ \E c \in Invocations : Provider!Start(c)
           \/ \E ok \in BOOLEAN : Provider!BuildContext(ok) \/ Provider!Probe(ok)
           \/ Provider!Configure
  <2>1. /\ UNCHANGED <<low, lowFor, now, waiting, hand, seen, heartbeat, lag>>
        /\ Unasked /\ pc' \notin {"write", "read"}
    BY <1>1 DEF Provider!Start, Provider!BuildContext, Provider!Probe, Provider!Configure,
                Provider!memory, Provider!sampler, Provider!request, Unasked
  <2> QED  BY <2>1, TimeUnmoved DEF Provider!Requesting
<1>2. ASSUME NEW ok \in BOOLEAN, Provider!Connect(ok)
      PROVE  RequestTypes' /\ (Provider!Requesting' => Timed')
  <2>1. /\ UNCHANGED <<low, lowFor, now, waiting, hand, seen, heartbeat>> /\ lag' \in {0, 1, lag}
        /\ Unasked /\ pc' \in {"write", "refused"}
    BY <1>2 DEF Provider!Connect, Provider!memory, Provider!request, Unasked
  <2>2. now = 0 /\ ~ waiting /\ lowFor = 0 /\ hand = "none" /\ seen = "none" /\ heartbeat = 0
    BY <2>1 DEF RequestTypes
  <2>3. RequestTypes'
    BY <2>1, <2>2 DEF RequestTypes, Unasked
  <2>4. Paced' /\ Sampled' /\ Reacting'
    BY <2>1, <2>2, TicksAssumption DEF Paced, Sampled, Reacting
  <2> QED  BY <2>3, <2>4
<1>3. CASE Provider!Press
  <2>1. /\ UNCHANGED <<pc, now, waiting, hand, seen, heartbeat, lag>>
        /\ low' \in BOOLEAN /\ lowFor' = 0
    BY <1>3 DEF Provider!Press, Provider!sampler, Provider!request, RequestTypes
  <2> QED  BY <2>1, TicksAssumption DEF RequestTypes, Unasked, Provider!Requesting, Paced,
                                        Sampled, Reacting
<1>4. ASSUME NEW told \in {"measured", "failed"}, Provider!Measure(told)
      PROVE  RequestTypes' /\ (Provider!Requesting' => Timed')
  <2>1. /\ UNCHANGED <<pc, low, lowFor, now, waiting, seen, heartbeat, lag>>
        /\ Provider!Requesting /\ lag <= now /\ (seen = "none" \/ now > heartbeat + lag)
        /\ hand' \in {"failed", "low", "ok"} /\ (hand' = "ok" => ~ low)
    BY <1>4 DEF Provider!Measure, Provider!memory, Provider!request, RequestTypes
  <2> QED  BY <2>1, TicksAssumption DEF RequestTypes, Unasked, Provider!Requesting, Paced,
                                        Sampled, Reacting
<1>5. CASE Provider!Publish
  <2>1. /\ UNCHANGED <<pc, low, lowFor, now, waiting, lag>>
        /\ Provider!Requesting /\ hand # "none" /\ hand' = "none"
        /\ seen' = hand /\ heartbeat' = now - lag
    BY <1>5 DEF Provider!Publish, Provider!memory, Provider!request
  <2>2. RequestTypes'
    BY <2>1 DEF RequestTypes, Unasked, Provider!Requesting, Paced
  <2>3. Paced' /\ Reacting'
    BY <2>1, TicksAssumption DEF RequestTypes, Paced, Reacting
  <2>4. Sampled'
    BY <2>1, TicksAssumption DEF RequestTypes, Paced, Sampled
  <2> QED  BY <2>2, <2>3, <2>4
<1>6. CASE Provider!Block
  <2>1. /\ UNCHANGED <<pc, low, lowFor, now, hand, seen, heartbeat, lag>> /\ waiting' = TRUE
        /\ Provider!Requesting /\ now < Timeout /\ seen \notin {"failed", "low"}
        /\ ~ Provider!Stalled
    BY <1>6 DEF Provider!Block, Provider!Proceeds, Provider!Round, Provider!Enforce,
                Provider!memory, Provider!sampler
  <2>2. now - heartbeat <= Heartbeat
    BY <2>1, TicksAssumption DEF Provider!Stalled, RequestTypes
  <2>3. Reacting'
    BY <2>1, <2>2, TicksAssumption DEF RequestTypes, Paced, Sampled, Reacting
  <2> QED  BY <2>1, <2>2, <2>3, TicksAssumption
           DEF RequestTypes, Unasked, Provider!Requesting, Paced, Sampled
<1>7. CASE Provider!Tick
  <2>1. /\ UNCHANGED <<pc, low, hand, seen, heartbeat, lag>> /\ waiting /\ waiting' = FALSE
        /\ Provider!Requesting /\ now' = now + 1
        /\ lowFor' = IF low THEN lowFor + 1 ELSE 0
    BY <1>7 DEF Provider!Tick, Provider!sampler
  <2>2. RequestTypes'
    <3>1. now' \in Nat /\ lowFor' \in Nat /\ ~ Unasked'
      BY <2>1 DEF RequestTypes, Unasked, Provider!Requesting
    <3> QED  BY <2>1, <3>1 DEF RequestTypes
  <2>3. Paced' /\ Sampled' /\ Reacting'
    BY <2>1, TicksAssumption DEF RequestTypes, Paced, Sampled, Reacting
  <2> QED  BY <2>2, <2>3
<1>8. CASE \/ Provider!Abort \/ Provider!Write \/ Provider!Finish
           \/ \E k \in 0 .. 2, a \in Replies : Provider!Read(k, a)
  <2>1. /\ UNCHANGED <<low, lowFor, now, waiting, hand, seen, heartbeat, lag>>
        /\ pc' \in {"read", "write", "validate", "done", "refused"}
        /\ pc' \in {"read", "write"} => pc \in {"read", "write"}
    BY <1>8 DEF Provider!Abort, Provider!Write, Provider!Finish, Provider!Read,
                Provider!memory, Provider!sampler, Provider!request
  <2> QED  BY <2>1, TimeUnmoved DEF Unasked, Provider!Requesting
<1> QED  BY <1>1, <1>2, <1>3, <1>4, <1>5, <1>6, <1>7, <1>8 DEF Provider!Next

(* However slow the sampler is, fails or hangs, and however the provider     *)
(* frames and cuts its answer: a request ends within two heartbeats and two  *)
(* ticks of the host's memory running out (advice/resources.rs `enforce`),   *)
(* and only a whole answer of the requested model is kept (advice/provider). *)
THEOREM AdviceIsBounded == CommandsSpec => []AdviceBounded
<1>1. CommandsInit => RequestInv
  BY RequestStarts DEF CommandsInit
<1>2. RequestInv /\ [CommandsNext]_commandVars => RequestInv'
  <2>1. [CommandsNext]_commandVars => Provider!Next \/ UNCHANGED requestVars
    BY DEF CommandsNext, StateStep, DetectorStep, ReaderStep, AdviceStep, commandVars, adviceVars
  <2>2. ASSUME RequestInv, UNCHANGED requestVars
        PROVE  RequestInv'
    BY <2>2, AnswerUnmoved, TimeUnmoved
       DEF requestVars, RequestInv, Unasked, Provider!Requesting
  <2> QED  BY <2>1, <2>2, AnswerStep, TimeStep DEF RequestInv
<1>3. RequestInv => AdviceBounded
  BY DEF RequestInv, AnswerSound, Paced, Reacting, AdviceBounded, Provider!ReactionBounded
<1> QED  BY <1>1, <1>2, <1>3, PTL DEF CommandsSpec

-------------------------------------------------------------------------------
(* What a scan works with.                                                   *)

(* The token cache. Whatever is damaged, moved aside or pruned in between: a *)
(* scan ends with the token data it would compute without the cache, and     *)
(* leaves the cache within its limits or reports what failed                 *)
(* (analyze/cache.rs `enforce_limits`).                                      *)
THEOREM CacheIsKept == CommandsSpec => []CacheKept
<1>1. CommandsInit => CacheInv
  BY CacheStarts DEF CommandsInit
<1>2. CacheInv /\ [CommandsNext]_commandVars => CacheInv'
  <2>1. [CommandsNext]_commandVars => Cache!Next \/ UNCHANGED cacheVars
    BY DEF CommandsNext, StateStep, DetectorStep, ReaderStep, AdviceStep, commandVars, stateVars
  <2> QED  BY <2>1, CacheStep
<1>3. CacheInv => CacheKept
  BY CacheImplies DEF CacheKept
<1> QED  BY <1>1, <1>2, <1>3, PTL DEF CommandsSpec

(* The configuration. Whatever people edit in between and wherever it is     *)
(* interrupted: a finished `config migrate` has kept every effective value   *)
(* but the context bands, its file loads, and the old one is in the backup   *)
(* (cli/reporting.rs); and reports that `compare` takes for compatible were  *)
(* made with the same analysis settings.                                     *)
THEOREM SettingsAreKept == CommandsSpec => []ConfigKept
<1>1. CommandsInit => SettingsInv
  BY SettingsStart DEF CommandsInit
<1>2. SettingsInv /\ [CommandsNext]_commandVars => SettingsInv'
  <2>1. [CommandsNext]_commandVars => Settings!Next \/ UNCHANGED settingVars
    BY DEF CommandsNext, StateStep, DetectorStep, ReaderStep, AdviceStep, commandVars, stateVars
  <2> QED  BY <2>1, SettingsStep
<1>3. SettingsInv => ConfigKept
  BY SameSettings DEF SettingsInv, ConfigKept
<1> QED  BY <1>1, <1>2, <1>3, PTL DEF CommandsSpec

-------------------------------------------------------------------------------
(* The verdict of an answer.                                                 *)

(* The order of the verdicts.                                                *)
LEMMA Ranks ==
    /\ Input!Rank("approve") = 1 /\ Input!Rank("abstain") = 2 /\ Input!Rank("revise") = 3
    /\ Input!Rank("reject") = 4
  BY DEF Input!Rank, Input!Verdicts

(* The aggregate of some verdicts is one of them that none is stricter than. *)
LEMMA StrictestIs ==
    ASSUME NEW S \in SUBSET {"approve", "abstain", "revise", "reject"}, S # {}
    PROVE  \E v \in S : /\ Input!Aggregate(S) = v
                        /\ \A other \in S : Input!Rank(other) <= Input!Rank(v)
<1> DEFINE ranks == {Input!Rank(v) : v \in S}
<1>1. ranks \subseteq {1, 2, 3, 4} /\ ranks # {}
  BY Ranks
<1>2. \E x \in ranks : \A y \in ranks : x >= y
  <2>1. \A x \in ranks : x \in {1, 2, 3, 4}
    BY <1>1
  <2> HIDE DEF ranks
  <2>2. CASE 4 \in ranks
    BY <2>1, <2>2
  <2>3. CASE 4 \notin ranks /\ 3 \in ranks
    BY <2>1, <2>3
  <2>4. CASE 4 \notin ranks /\ 3 \notin ranks /\ 2 \in ranks
    BY <2>1, <2>4
  <2>5. CASE 4 \notin ranks /\ 3 \notin ranks /\ 2 \notin ranks
    <3>1. PICK x \in ranks : TRUE
      BY <1>1
    <3> QED  BY <2>1, <2>5, <3>1
  <2> QED  BY <2>2, <2>3, <2>4, <2>5
<1>3. Input!Max(ranks) \in ranks /\ \A y \in ranks : Input!Max(ranks) >= y
  <2> HIDE DEF ranks
  <2> QED  BY <1>2 DEF Input!Max
<1>4. PICK v \in S : Input!Max(ranks) = Input!Rank(v)
  BY <1>3
<1>5. Input!Verdicts[Input!Rank(v)] = v
  BY Ranks DEF Input!Verdicts
<1>6. Input!Aggregate(S) = v
  BY <1>4, <1>5 DEF Input!Aggregate
<1>7. ASSUME NEW other \in S
      PROVE  Input!Rank(other) <= Input!Rank(v)
  <2>1. Input!Rank(other) \in ranks
    OBVIOUS
  <2> HIDE DEF ranks
  <2> QED  BY <1>3, <1>4, <2>1, Ranks
<1> QED  BY <1>6, <1>7

(* It approves only where all do.                                            *)
LEMMA ApprovedByAll ==
    ASSUME NEW S \in SUBSET {"approve", "abstain", "revise", "reject"},
           Input!Aggregate(S) = "approve"
    PROVE  S = {"approve"}
<1>1. S # {}
  BY DEF Input!Aggregate
<1>2. \A other \in S : Input!Rank(other) <= 1
  BY <1>1, StrictestIs, Ranks
<1>3. \A other \in S : other = "approve"
  BY <1>2, Ranks
<1> QED  BY <1>1, <1>3

(* No verdict before the answer, and then the one that the rules give.       *)
VerdictInv ==
    /\ stage \in {"idle", "excerpts", "seal", "ready"} => advised = None
    /\ Input!VerdictFollowsRules

(* An answer is taken only when it is whole: each candidate by each rule.    *)
LEMMA VerdictOfAnswer ==
    ASSUME VerdictInv, NEW r \in Input!Responses, Input!Respond(r)
    PROVE  VerdictInv'
<1> USE DEF VerdictInv, Input!VerdictFollowsRules
<1>0. Input!Candidates' = Input!Candidates /\ response' = r /\ stage = "ready"
  BY DEF Input!Respond, Input!Candidates
<1>1. CASE ~ Input!Whole(r)
  <2>1. advised' = None
    BY <1>1 DEF Input!Respond, Input!Refuse
  <2> QED  BY <1>0, <1>1, <2>1, NoVerdictAssumption DEF Input!Respond
<1>2. CASE Input!Whole(r)
  <2>1. advised' = Input!Aggregate({Input!OfCandidate(r, c) : c \in DOMAIN r.of})
        /\ stage' \in {"accepted", "valid"}
    BY <1>2, <1>0 DEF Input!Respond
  <2>2. DOMAIN r.of = Input!Candidates /\ \A c \in Input!Candidates : DOMAIN r.of[c] = TwoRules
    BY <1>2 DEF Input!Whole
  <2>3. \A c \in Input!Candidates, rule \in TwoRules :
           r.of[c][rule] \in {"approve", "revise", "abstain"}
    BY <2>2 DEF Input!Responses
  <2>4. SUFFICES ASSUME advised' = "approve", NEW c \in Input!Candidates, NEW rule \in TwoRules
                 PROVE  r.of[c][rule] = "approve"
    BY <1>0, <2>1
  <2>5. \A d \in Input!Candidates :
           Input!OfCandidate(r, d) \in {"approve", "abstain", "revise", "reject"}
    <3> SUFFICES ASSUME NEW d \in Input!Candidates
                 PROVE  Input!OfCandidate(r, d) \in {"approve", "abstain", "revise", "reject"}
      OBVIOUS
    <3> DEFINE verdicts == {r.of[d][q] : q \in DOMAIN r.of[d]}
    <3>1. verdicts \subseteq {"approve", "abstain", "revise", "reject"}
      BY <2>2, <2>3
    <3>2. Input!OfCandidate(r, d) = Input!Aggregate(verdicts)
      BY DEF Input!OfCandidate
    <3> HIDE DEF verdicts
    <3>3. CASE verdicts = {}
      BY <3>2, <3>3 DEF Input!Aggregate
    <3> QED  BY <3>1, <3>2, <3>3, StrictestIs
  <2>6. Input!OfCandidate(r, c) = "approve"
    BY <2>1, <2>2, <2>4, <2>5, ApprovedByAll
  <2>7. {r.of[c][q] : q \in DOMAIN r.of[c]} \subseteq {"approve", "abstain", "revise", "reject"}
    BY <2>2, <2>3
  <2>8. {r.of[c][q] : q \in DOMAIN r.of[c]} = {"approve"}
    BY <2>6, <2>7, ApprovedByAll DEF Input!OfCandidate
  <2> QED  BY <2>2, <2>8
<1> QED  BY <1>1, <1>2

(* Every other step leaves verdict, answer and candidates alone.             *)
LEMMA VerdictStep ==
    ASSUME VerdictInv, Input!Next \/ UNCHANGED inputVars
    PROVE  VerdictInv'
<1>1. CASE UNCHANGED inputVars
  BY <1>1 DEF inputVars, VerdictInv, Input!VerdictFollowsRules, Input!Candidates
<1>2. ASSUME NEW r \in Asked, Input!Begin(r)
      PROVE  VerdictInv'
  BY <1>2, NoVerdictAssumption DEF Input!Begin, Input!Refuse, VerdictInv, Input!VerdictFollowsRules
<1>3. ASSUME \/ \E path \in {s.path : s \in Input!Range(todo)} \cap DOMAIN TrackedFiles :
                   Input!Edit(path)
             \/ \E fits \in BOOLEAN : Input!Seal(fits)
             \/ Input!Take \/ Input!Fit
      PROVE  VerdictInv'
  <2>1. /\ stage' \in {"excerpts", "seal", "ready", "refused"} /\ UNCHANGED <<asked, advised>>
        /\ stage \in {"excerpts", "seal"}
    BY <1>3 DEF Input!Edit, Input!Take, Input!Omit, Input!Skip, Input!Excerpt, Input!Fit,
                Input!Seal, Input!Refuse
  <2> QED  BY <2>1, NoVerdictAssumption DEF VerdictInv, Input!VerdictFollowsRules
<1>4. ASSUME Input!LookUp \/ Input!Keep \/ \E name \in {"own", "other"} : Input!Another(name)
      PROVE  VerdictInv'
  BY <1>4
     DEF Input!LookUp, Input!Keep, Input!Another, Input!Compare, Input!Refuse, VerdictInv,
         Input!VerdictFollowsRules, Input!Candidates
<1> QED  BY <1>1, <1>2, <1>3, <1>4, VerdictOfAnswer DEF Input!Next

(* Whatever verdicts a provider claims, advice approves only what every rule *)
(* approves of every candidate (policy/model.rs `aggregate_verdict`).        *)
THEOREM ApprovedByEveryRule == CommandsSpec => [](work = "inputs" => Input!VerdictFollowsRules)
<1>1. CommandsInit => VerdictInv
  BY NoVerdictAssumption DEF CommandsInit, Input!Init, VerdictInv, Input!VerdictFollowsRules
<1>2. VerdictInv /\ [CommandsNext]_commandVars => VerdictInv'
  <2>1. [CommandsNext]_commandVars => Input!Next \/ UNCHANGED inputVars
    BY DEF CommandsNext, StateStep, DetectorStep, ReaderStep, AdviceStep, commandVars, adviceVars
  <2> QED  BY <2>1, VerdictStep
<1>3. VerdictInv => (work = "inputs" => Input!VerdictFollowsRules)
  BY DEF VerdictInv
<1> QED  BY <1>1, <1>2, <1>3, PTL DEF CommandsSpec

-------------------------------------------------------------------------------
(* The rules that advice is given by.                                        *)

(* The rules of the packs that a lock names: a digest covers the manifest.   *)
RulesOf(packs) == Policies!FlattenSeq([i \in DOMAIN packs |-> packs[i].content.manifest.rules])

(* A lock that was written for rules that its packs still give.              *)
LockReviewed(l) ==
    l # None => \E kept \in reviewed : kept.lock = l /\ kept.rules = RulesOf(l.packs)

(* The lock in place and the committed one, which a checkout brings back.    *)
ReviewInv == LockReviewed(policyLock) /\ LockReviewed(committed.lock)

(* What is compiled is what its lock covers.                                 *)
LEMMA CompiledFromLock ==
    ASSUME NEW dirs, Policies!Compiled(dirs) # None
    PROVE  Policies!Compiled(dirs).rules = RulesOf(Policies!Compiled(dirs).packs)
<1> DEFINE packs == Policies!Ordered(dirs)
           locks == [i \in DOMAIN packs |-> Policies!PackLock(packs[i])]
<1>1. Policies!Compiled(dirs).packs = locks
      /\ Policies!Compiled(dirs).rules
            = Policies!FlattenSeq([i \in DOMAIN packs |-> Policies!ManifestOf(packs[i]).rules])
  BY DEF Policies!Compiled
<1>2. \A i \in DOMAIN packs : locks[i].content.manifest = Policies!ManifestOf(packs[i])
  BY DEF Policies!PackLock, Policies!Digest
<1>3. [i \in DOMAIN packs |-> Policies!ManifestOf(packs[i]).rules]
         = [i \in DOMAIN locks |-> locks[i].content.manifest.rules]
  BY <1>2
<1> HIDE DEF locks, packs
<1> QED  BY <1>1, <1>3 DEF RulesOf

(* No command writes another lock, whatever it does to packs and selection.  *)
LEMMA ReviewStep ==
    ASSUME ReviewInv, Policies!Next \/ UNCHANGED policyVars
    PROVE  ReviewInv'
<1>1. CASE UNCHANGED policyVars
  BY <1>1 DEF policyVars, ReviewInv, LockReviewed
<1>2. ASSUME NEW dir \in Directories, NEW select \in BOOLEAN, Policies!Install(dir, select)
      PROVE  ReviewInv'
  <2>1. policyLock' \in {policyLock, None} /\ UNCHANGED <<committed, reviewed>>
    BY <1>2 DEF Policies!Install
  <2> QED  BY <2>1 DEF ReviewInv, LockReviewed
<1>3. ASSUME NEW dir \in Directories, NEW unselect \in BOOLEAN,
             Policies!RemovePack(Policies!IdOf(dir), unselect)
      PROVE  ReviewInv'
  <2>1. policyLock' \in {policyLock, None} /\ UNCHANGED <<committed, reviewed>>
    BY <1>3 DEF Policies!RemovePack
  <2> QED  BY <2>1 DEF ReviewInv, LockReviewed
<1>4. ASSUME Policies!Lock
      PROVE  ReviewInv'
  <2> DEFINE set == Policies!SelectedSet
             record == [lock |-> policyLock', list |-> Policies!ToSet(Policies!Listed),
                       rules |-> set.rules]
  <2>1. /\ set # None /\ policyLock' = [packs |-> set.packs] /\ committed' = committed
        /\ reviewed' = reviewed \cup {record}
    BY <1>4 DEF Policies!Lock
  <2>2. set.rules = RulesOf(set.packs)
    BY <2>1, CompiledFromLock DEF Policies!SelectedSet
  <2>3. record.lock = policyLock' /\ record.rules = RulesOf(policyLock'.packs)
    BY <2>1, <2>2
  <2> HIDE DEF set, record
  <2> QED  BY <2>1, <2>3 DEF ReviewInv, LockReviewed
<1>5. ASSUME NEW list \in HandWritten, Policies!EditSelection(list)
      PROVE  ReviewInv'
  BY <1>5 DEF Policies!EditSelection, ReviewInv, LockReviewed
<1>6. ASSUME Policies!Commit
      PROVE  ReviewInv'
  BY <1>6 DEF Policies!Commit, ReviewInv, LockReviewed
<1>7. ASSUME Policies!Checkout
      PROVE  ReviewInv'
  BY <1>7 DEF Policies!Checkout, ReviewInv, LockReviewed
<1> QED  BY <1>1, <1>2, <1>3, <1>4, <1>5, <1>6, <1>7 DEF Policies!Next

(* With packs selected and a lock there, the rules of `advise` are those for *)
(* which this lock was written; a request narrows them.                      *)
OnlyLockedRules ==
    policyLock # None /\ Policies!Listed # <<>> /\ Policies!Resolved({}) # None =>
        \E kept \in reviewed :
            kept.lock = policyLock /\ Policies!Resolved({}).rules = kept.rules

(* However packs are installed again with other content, removed, selected   *)
(* by hand, and files checked out in between: under a lock `advise` applies  *)
(* the rules that were reviewed with it, or refuses (policy/lifecycle.rs     *)
(* `resolve_for_advice`).                                                    *)
THEOREM AdvisesByReviewedRules == CommandsSpec => [](work = "policies" => OnlyLockedRules)
<1>1. CommandsInit => ReviewInv
  BY DEF CommandsInit, Policies!Init, ReviewInv, LockReviewed
<1>2. ReviewInv /\ [CommandsNext]_commandVars => ReviewInv'
  <2>1. [CommandsNext]_commandVars => Policies!Next \/ UNCHANGED policyVars
    BY DEF CommandsNext, StateStep, DetectorStep, ReaderStep, AdviceStep, commandVars, stateVars
  <2> QED  BY <2>1, ReviewStep
<1>3. ReviewInv => OnlyLockedRules
  <2> SUFFICES ASSUME ReviewInv, policyLock # None, Policies!Listed # <<>>,
                      Policies!Resolved({}) # None
               PROVE  \E kept \in reviewed :
                         kept.lock = policyLock /\ Policies!Resolved({}).rules = kept.rules
    BY DEF OnlyLockedRules
  <2> DEFINE set == Policies!SelectedSet
  <2>1. set # None /\ policyLock = [packs |-> set.packs] /\ Policies!Resolved({}) = set
    BY DEF Policies!Resolved
  <2>2. set.rules = RulesOf(set.packs)
    BY <2>1, CompiledFromLock DEF Policies!SelectedSet
  <2>3. PICK kept \in reviewed : kept.lock = policyLock /\ kept.rules = RulesOf(policyLock.packs)
    BY DEF ReviewInv, LockReviewed
  <2>4. policyLock.packs = set.packs
    BY <2>1
  <2> HIDE DEF set
  <2> QED  BY <2>1, <2>2, <2>3, <2>4
<1>4. ReviewInv => (work = "policies" => OnlyLockedRules)
  BY <1>3
<1> QED  BY <1>1, <1>2, <1>4, PTL DEF CommandsSpec
===============================================================================
