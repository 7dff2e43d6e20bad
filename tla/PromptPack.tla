------------------------------ MODULE PromptPack ------------------------------
(***************************************************************************)
(* The export of a prompt pack (src/report_ops/github.rs                     *)
(* `write_prompt_pack`): several processes that write the same output        *)
(* directory while people put files into it, with crashes and failing        *)
(* renames.                                                                  *)
(*                                                                           *)
(* A pack is built in `.<name>-<pid>-tmp` and renamed into place; what was   *)
(* there waits in `.<name>-<pid>-backup`.  Renaming a directory onto another *)
(* succeeds only when that one is empty.                                     *)
(***************************************************************************)
EXTENDS Naturals

CONSTANTS Packers,  \* process numbers (naturals, given in order), one export each
          Strays,    \* what people may put into the directory
          None

Parts == {"payload", "manifest"}
Pack(p) == {"pack"} \X {p} \X Parts
People == {"people"} \X Strays

VARIABLES output,   \* the content of the output directory; None when there is none
          temp,     \* the temporary directory of each process
          hidden,   \* the backup directory of each process
          packer,   \* where each process is, and whether it was given --force
          due,      \* content that nobody agreed to lose
          crossed   \* processes for which the directory changed after they looked

vars == <<output, temp, hidden, packer, due, crossed>>

Init == /\ output = None
        /\ temp = [p \in Packers |-> None] /\ hidden = [p \in Packers |-> None]
        /\ packer = [p \in Packers |-> [at |-> "idle", force |-> FALSE]]
        /\ due = {} /\ crossed = {}

Stage(p, place) == packer[p].at = place
Enter(p, place) == packer' = [packer EXCEPT ![p].at = place]
Working == {p \in Packers : packer[p].at \notin {"idle", "done", "dead"}}
Cross(p) == crossed' = crossed \cup (Working \ {p})
Full == output # None /\ output # {}

(***************************************************************************)
(* People make the directory and put files into it.                         *)
(***************************************************************************)
MakeDirectory == /\ output = None /\ output' = {}
                 /\ UNCHANGED <<temp, hidden, packer, due, crossed>>

AddFile == \E f \in People \ due :
    /\ (output # None => f \notin output)
    /\ output' = (IF output = None THEN {} ELSE output) \cup {f}
    /\ due' = due \cup {f}
    /\ crossed' = crossed \cup Working
    /\ UNCHANGED <<temp, hidden, packer>>

(***************************************************************************)
(* `write_prompt_pack`.                                                     *)
(***************************************************************************)
Look(p) == \E force \in BOOLEAN :
    /\ Stage(p, "idle") /\ \A q \in Packers : Stage(q, "idle") => p <= q
    /\ packer' = [packer EXCEPT ![p] = [at |-> IF Full /\ ~ force THEN "done" ELSE "build",
                                        force |-> force]]
    /\ UNCHANGED <<output, temp, hidden, due, crossed>>

Build(p) == /\ Stage(p, "build") /\ Enter(p, "payload")
            /\ temp' = [temp EXCEPT ![p] = {}]
            /\ UNCHANGED <<output, hidden, due, crossed>>

(* The payload files first, then the manifest that binds their digests.     *)
WritePart(p, part, next) == /\ Stage(p, part) /\ Enter(p, next)
                            /\ temp' = [temp EXCEPT ![p] = @ \cup {<<"pack", p, part>>}]
                            /\ UNCHANGED <<output, hidden, due, crossed>>

Probe(p) == /\ Stage(p, "probe") /\ Enter(p, IF output # None THEN "aside" ELSE "install")
            /\ UNCHANGED <<output, temp, hidden, due, crossed>>

(* With --force its content may go; so may what came after the look.         *)
MoveAside(p) ==
    /\ Stage(p, "aside")
    /\ IF output = None THEN Enter(p, "done") /\ UNCHANGED <<output, hidden, due, crossed>>
       ELSE /\ hidden' = [hidden EXCEPT ![p] = output] /\ output' = None
            /\ due' = IF packer[p].force \/ p \in crossed THEN due \ output ELSE due
            /\ Enter(p, "install") /\ Cross(p)
    /\ UNCHANGED temp

Install(p) ==
    /\ Stage(p, "install") /\ ~ Full
    /\ output' = temp[p] /\ temp' = [temp EXCEPT ![p] = None]
    /\ due' = due \cup temp[p]
    /\ Enter(p, IF hidden[p] = None THEN "done" ELSE "drop")
    /\ Cross(p) /\ UNCHANGED hidden

(* Something is in the way, or the rename fails.                            *)
InstallFails(p) ==
    /\ Stage(p, "install") /\ temp' = [temp EXCEPT ![p] = None]
    /\ Enter(p, IF hidden[p] = None THEN "done" ELSE "restore")
    /\ UNCHANGED <<output, hidden, due, crossed>>

(* The result of the second rename is ignored.                              *)
Restore(p) ==
    /\ Stage(p, "restore") /\ Enter(p, "done")
    /\ \/ /\ ~ Full /\ output' = hidden[p]
          /\ hidden' = [hidden EXCEPT ![p] = None] /\ Cross(p)
       \/ Full /\ UNCHANGED <<output, hidden, crossed>>
    /\ UNCHANGED <<temp, due>>

DropBackup(p) == /\ Stage(p, "drop") /\ Enter(p, "done")
                 /\ hidden' = [hidden EXCEPT ![p] = None]
                 /\ UNCHANGED <<output, temp, due, crossed>>

Crash(p) == /\ p \in Working /\ Enter(p, "dead")
            /\ UNCHANGED <<output, temp, hidden, due, crossed>>

Step(p) == \/ Look(p) \/ Build(p)
           \/ WritePart(p, "payload", "manifest") \/ WritePart(p, "manifest", "probe")
           \/ Probe(p) \/ MoveAside(p) \/ Install(p) \/ InstallFails(p) \/ Restore(p)
           \/ DropBackup(p) \/ Crash(p)

Next == MakeDirectory \/ AddFile \/ \E p \in Packers : Step(p)
Spec == Init /\ [][Next]_vars

(***************************************************************************)
(* Properties.                                                              *)
(***************************************************************************)
Content == People \cup ({"pack"} \X Packers \X Parts)
TypeOK == /\ output \in (SUBSET Content) \cup {None}
          /\ \A p \in Packers : {temp[p], hidden[p]} \subseteq (SUBSET Content) \cup {None}
          /\ packer \in [Packers -> [at : {"idle", "build", "payload", "manifest", "probe", "aside",
                                          "install", "restore", "drop", "done", "dead"},
                                    force : BOOLEAN]]
          /\ due \subseteq Content /\ crossed \subseteq Packers

(* What people and exports put into the directory, and no later export with  *)
(* --force was meant to replace, is in the directory or in a backup beside   *)
(* it, unless it came after an export had looked; and whatever crashes, a    *)
(* pack that can be seen there has all its files.                            *)
PackKept ==
    /\ due \subseteq (IF output = None THEN {} ELSE output)
                     \cup UNION {IF hidden[p] = None THEN {} ELSE hidden[p] : p \in Packers}
    /\ output # None => \A p \in Packers : output \cap Pack(p) \in {{}, Pack(p)}
===============================================================================
