----------------------------- MODULE NamedBaseline -----------------------------
(***************************************************************************)
(* The named baselines (src/cli/baseline_compare.rs): `baseline ensure`,     *)
(* `create`, `update` and `remove` of several processes over the references  *)
(* in one directory, with crashes and failing renames.                       *)
(*                                                                           *)
(* A reference names the report it stands for by digest, and the compressed  *)
(* report is an object that is never removed; a file is replaced by two      *)
(* renames, its old content waiting in `.baseline-<pid>-backup` in between.  *)
(***************************************************************************)
EXTENDS Naturals

CONSTANTS Writers,   \* process numbers (naturals, given in order), one command each
          Names,     \* baseline names
          Reports,   \* canonical reports that may become a baseline
          Unready,   \* those that are not comparison-ready (see ReportGates)
          None

Commands == {"create", "create --force", "ensure", "ensure --replace", "update", "remove"}

VARIABLES ref,      \* the reference of each name
          objects,  \* the stored objects
          backup,   \* the hidden backup of each process
          writer,   \* the command of each process
          owed,     \* what was stored under a name and nobody agreed to lose
          met       \* processes that met another one at work on their name

vars == <<ref, objects, backup, writer, owed, met>>

NoWriter == [at |-> "idle", command |-> None, name |-> None, report |-> None, replace |-> FALSE]

(* The baselines of earlier commands are there.                             *)
Init == /\ ref \in [Names -> (Reports \ Unready) \cup {None}]
        /\ objects = {ref[n] : n \in Names} \ {None}
        /\ backup = [p \in Writers |-> None]
        /\ writer = [p \in Writers |-> NoWriter]
        /\ owed = [n \in Names |-> {ref[n]} \ {None}] /\ met = {}

At(p, place) == writer[p].at = place
Goto(p, place) == writer' = [writer EXCEPT ![p].at = place]
Admitted(p, replace, place) == writer' = [writer EXCEPT ![p].at = place, ![p].replace = replace]
Busy == {p \in Writers : writer[p].at \notin {"idle", "done", "dead"}}

(* The name p works on, and the report it asked for.                        *)
Own(p) == writer[p].name
Wanted(p) == writer[p].report
Exists(n) == ref[n] # None

(* Every change of a reference is noticed by the others that work on it.    *)
Meet(p) == met' = met \cup {q \in Busy \ {p} : Own(q) = Own(p)}
Quiet == UNCHANGED <<ref, objects, backup, owed, met>>

(***************************************************************************)
(* `run_baseline`: what each command asks before it writes.  A report that   *)
(* is not comparison-ready ends it.                                          *)
(***************************************************************************)
Start(p) == \E c \in Commands, n \in Names, r \in Reports \cup {None} :
    /\ At(p, "idle") /\ \A q \in Writers : At(q, "idle") => p <= q
    /\ r = None <=> c = "remove"
    /\ writer' = [writer EXCEPT ![p] = [NoWriter EXCEPT
                     !.at = IF r \in Unready THEN "done" ELSE "decide",
                     !.command = c, !.name = n, !.report = r]]
    /\ Quiet

Is(p, command) == writer[p].command = command

Ensure(p) ==
    /\ At(p, "decide") /\ (Is(p, "ensure") \/ Is(p, "ensure --replace"))
    /\ CASE ref[Own(p)] = None -> Admitted(p, FALSE, "admit")
         [] ref[Own(p)] = Wanted(p) -> Goto(p, "done")                      \* "unchanged"
         [] OTHER -> IF Is(p, "ensure") THEN Goto(p, "done")              \* baseline_drift
                     ELSE Admitted(p, TRUE, "admit")
    /\ Quiet

Create(p) == /\ At(p, "decide") /\ (Is(p, "create") \/ Is(p, "create --force"))
             /\ Admitted(p, Is(p, "create --force"), "admit")
             /\ Quiet

Update(p) == /\ At(p, "decide") /\ Is(p, "update")
             /\ IF Exists(Own(p)) THEN Admitted(p, TRUE, "admit") ELSE Goto(p, "done")
             /\ Quiet

Remove(p) == /\ At(p, "decide") /\ Is(p, "remove")
             /\ Goto(p, IF Exists(Own(p)) THEN "remove" ELSE "done")
             /\ Quiet

RemoveReference(p) ==
    /\ At(p, "remove") /\ Goto(p, "done")
    /\ ref' = [ref EXCEPT ![Own(p)] = None]
    /\ owed' = [owed EXCEPT ![Own(p)] = {}]
    /\ Meet(p) /\ UNCHANGED <<objects, backup>>

(***************************************************************************)
(* `write_named_baseline`.                                                  *)
(***************************************************************************)
(* Mutant: the name is taken whether or not it is free.                     *)
AdmitAnyName(p) == /\ At(p, "admit") /\ Goto(p, "object") /\ Quiet

Admit(p) == /\ At(p, "admit")
            /\ Goto(p, IF Exists(Own(p)) /\ ~ writer[p].replace THEN "done" ELSE "object")
            /\ Quiet

StoreObject(p) == /\ At(p, "object") /\ Goto(p, "probe")
                  /\ objects' = objects \cup {Wanted(p)}
                  /\ UNCHANGED <<ref, backup, owed, met>>

Probe(p) == /\ At(p, "probe")
            /\ Goto(p, IF Exists(Own(p)) THEN "aside" ELSE "install")
            /\ Quiet

(* The rename fails when another process has taken the file away.           *)
MoveAside(p) ==
    /\ At(p, "aside")
    /\ IF Exists(Own(p))
       THEN /\ backup' = [backup EXCEPT ![p] = ref[Own(p)]]
            /\ ref' = [ref EXCEPT ![Own(p)] = None]
            /\ Goto(p, "install") /\ Meet(p)
       ELSE Goto(p, "done") /\ UNCHANGED <<ref, backup, met>>
    /\ UNCHANGED <<objects, owed>>

(* Losing what is owed takes consent, or another process at the same work.  *)
Lost(p) == writer[p].replace \/ p \in met

Install(p) ==
    /\ At(p, "install")
    /\ ref' = [ref EXCEPT ![Own(p)] = Wanted(p)]
    /\ owed' = [owed EXCEPT ![Own(p)] = {Wanted(p)} \cup (IF Lost(p) THEN {} ELSE @)]
    /\ Goto(p, IF backup[p] = None THEN "done" ELSE "drop")
    /\ Meet(p) /\ UNCHANGED <<objects, backup>>

InstallFails(p) ==
    /\ At(p, "install") /\ Goto(p, IF backup[p] = None THEN "done" ELSE "restore") /\ Quiet

Restore(p) ==
    /\ At(p, "restore") /\ Goto(p, "done")
    /\ ref' = [ref EXCEPT ![Own(p)] = backup[p]]
    /\ backup' = [backup EXCEPT ![p] = None]
    /\ owed' = IF p \in met THEN [owed EXCEPT ![Own(p)] = {backup[p]}] ELSE owed
    /\ Meet(p) /\ UNCHANGED objects

DropBackup(p) == /\ At(p, "drop") /\ Goto(p, "done")
                 /\ backup' = [backup EXCEPT ![p] = None]
                 /\ UNCHANGED <<ref, objects, owed, met>>

Crash(p) == p \in Busy /\ Goto(p, "dead") /\ Quiet

Step(p) == \/ Start(p) \/ Ensure(p) \/ Create(p) \/ Update(p) \/ Remove(p) \/ RemoveReference(p)
           \/ Admit(p) \/ StoreObject(p) \/ Probe(p) \/ MoveAside(p) \/ Install(p)
           \/ InstallFails(p) \/ Restore(p) \/ DropBackup(p) \/ Crash(p)

Next == \E p \in Writers : Step(p)
Spec == Init /\ [][Next]_vars

(***************************************************************************)
(* Properties.                                                              *)
(***************************************************************************)
TypeOK ==
    /\ ref \in [Names -> Reports \cup {None}] /\ objects \subseteq Reports
    /\ backup \in [Writers -> Reports \cup {None}]
    /\ writer \in [Writers -> [at : {"idle", "decide", "admit", "object", "probe", "aside", "install",
                                     "restore", "drop", "remove", "done", "dead"},
                               command : Commands \cup {None}, name : Names \cup {None},
                               report : Reports \cup {None}, replace : BOOLEAN]]
    /\ owed \in [Names -> SUBSET Reports] /\ met \subseteq Writers

(* A report that was stored under a name, and that no command with consent   *)
(* (--force, --replace, update, remove) has replaced, can still be read      *)
(* under the name or lies in a backup, and its object is there: a crash and  *)
(* a failing rename lose no baseline, and a command without consent loses    *)
(* one only where two processes worked on the name at once.                  *)
BaselinesKept == \A n \in Names : \A r \in owed[n] :
                    /\ r \in objects \ Unready
                    /\ ref[n] = r \/ \E p \in Writers : backup[p] = r
===============================================================================
