----------------------------- MODULE PolicyPacks -----------------------------
(***************************************************************************)
(* The policy packs of git-slop: the content-addressed cache of a user and *)
(* its index, the selection and the lock of a repository, and the commands *)
(* `policy install`, `policy remove`, `policy lock` and the resolution of  *)
(* `advise`.  No command takes a lock.  One action is one read or one      *)
(* file-system call with the check before it.  A command may stop at any   *)
(* step: a crash, or a call that fails.                                    *)
(***************************************************************************)
EXTENDS Integers, FiniteSets, Functions

CONSTANTS
    Procs,     \* processes, each of which runs one command
    Digests,   \* the contents of packs
    IdOf,      \* the pack of each content: the digest covers its manifest
    Commands,  \* the commands that are given
    None,      \* no file
    MaxFaults  \* bound: crashes, failing calls, edited sources and overlaps

Ids == {IdOf[d] : d \in Digests}

Install(d, select) == [do |-> "install", id |-> IdOf[d], digest |-> d, flag |-> select]
Remove(i, unselect) == [do |-> "remove", id |-> i, digest |-> None, flag |-> unselect]
Lock == [do |-> "lock", id |-> None, digest |-> None, flag |-> FALSE]
Advise == [do |-> "advise", id |-> None, digest |-> None, flag |-> FALSE]

AllCommands ==
    {Install(d, select) : d \in Digests, select \in BOOLEAN}
        \cup {Remove(i, unselect) : i \in Ids, unselect \in BOOLEAN}
        \cup {Lock, Advise}

ASSUME CommandsAssumption ==
    /\ Commands \subseteq AllCommands
    /\ MaxFaults \in Nat

(* What an index or a lock says: the content of some of the packs.         *)
Maps == {m \in UNION {[S -> Digests] : S \in SUBSET Ids} :
            \A i \in DOMAIN m : IdOf[m[i]] = i}

Put(m, i, d) == [j \in DOMAIN m \cup {i} |-> IF j = i THEN d ELSE m[j]]
Drop(m, i) == Restrict(m, DOMAIN m \ {i})
EmptyMap == Restrict(IdOf, {})

(* No file is not a file.                                                  *)
ASSUME NoneAssumption ==
    /\ \A c \in AllCommands : c # None
    /\ \A m \in Maps : m # None
    /\ \A s \in SUBSET Ids : s # None

VARIABLES
    index,      \* index.json of the cache, or None
    cache,      \* the directory of each content in the cache
    selection,  \* .slop/policies.yaml of the repository, or None
    lock,       \* .slop/policy-lock.json of the repository, or None
    pc,         \* the next step of each process
    cmd,        \* its command, or None
    sel,        \* the selection it has read
    todo,       \* the packs it has still to look up in the cache
    seen,       \* the content the index gave it for one of them
    found,      \* the packs it has looked up
    new,        \* the index it writes
    old,        \* the index and the selection it has renamed aside, or None
    chosen,     \* history: the selection that was last written
    locked,     \* history: every lock that was ever written
    overlapped, \* history: have two commands run at the same time?
    faults      \* how many of what MaxFaults bounds have happened

files == <<index, cache, selection, lock>>
locals == <<cmd, sel, todo, seen, found, new, old>>
history == <<chosen, locked, overlapped>>
vars == <<files, pc, locals, history, faults>>

LookupSteps == {"lookup", "load"}
StoreSteps == {"probe", "place", "readIndex", "empty", "rmdir"}
IndexSteps == {"asideIndex", "replaceIndex"}
SelectionSteps == {"asideSelection", "replaceSelection"}
Running == LookupSteps \cup StoreSteps \cup IndexSteps \cup SelectionSteps
               \cup {"select", "unlock", "writeLock", "compare"}
Final == {"done", "failed", "stopped"}

(* A directory goes away file by file; "wrong" has content of another      *)
(* digest than its name says.                                              *)
Directories == {"absent", "empty", "part", "whole", "wrong"}

TypeOK ==
    /\ index \in Maps \cup {None}
    /\ cache \in [Digests -> Directories]
    /\ selection \in (SUBSET Ids) \cup {None}
    /\ lock \in Maps \cup {None}
    /\ pc \in [Procs -> {"idle"} \cup Running \cup Final]
    /\ cmd \in [Procs -> Commands \cup {None}]
    /\ sel \in [Procs -> SUBSET Ids]
    /\ todo \in [Procs -> SUBSET Ids]
    /\ seen \in [Procs -> Digests \cup {None}]
    /\ found \in [Procs -> Maps]
    /\ new \in [Procs -> Maps]
    /\ old \in [Procs -> [index : Maps \cup {None}, selection : (SUBSET Ids) \cup {None}]]
    /\ chosen \subseteq Ids
    /\ locked \subseteq Maps
    /\ overlapped \in BOOLEAN
    /\ faults \in 0 .. MaxFaults

(* What earlier commands may have left: packs that are installed, some of  *)
(* them selected, and no lock or the lock of the selection.                *)
Init ==
    /\ index \in Maps \cup {None}
    /\ LET installed == IF index = None THEN EmptyMap ELSE index
       IN  /\ cache = [d \in Digests |-> IF d \in Range(installed) THEN "whole" ELSE "absent"]
           /\ chosen \in SUBSET DOMAIN installed
           /\ lock \in {None, Restrict(installed, chosen)}
    /\ selection = IF chosen = {} THEN None ELSE chosen
    /\ pc = [p \in Procs |-> "idle"]
    /\ cmd = [p \in Procs |-> None]
    /\ sel = [p \in Procs |-> {}]
    /\ todo = [p \in Procs |-> {}]
    /\ seen = [p \in Procs |-> None]
    /\ found = [p \in Procs |-> EmptyMap]
    /\ new = [p \in Procs |-> EmptyMap]
    /\ old = [p \in Procs |-> [index |-> None, selection |-> None]]
    /\ locked = {lock} \ {None}
    /\ overlapped = FALSE
    /\ faults = 0

At(p, step) == pc[p] = step
GoTo(p, step) == pc' = [pc EXCEPT ![p] = step]
Does(p, command) == cmd[p] # None /\ cmd[p].do = command

Fault == faults < MaxFaults /\ faults' = faults + 1

(* A command that begins while another runs draws on the same bound.       *)
Begin(p) ==
    /\ At(p, "idle")
    /\ \E c \in Commands :
        /\ cmd' = [cmd EXCEPT ![p] = c]
        /\ todo' = [todo EXCEPT ![p] = IF c.do = "install" THEN {c.id} ELSE {}]
        /\ GoTo(p, IF c.do = "install" THEN "lookup" ELSE "select")
    /\ IF \E q \in Procs : pc[q] \in Running
         THEN overlapped' = TRUE /\ Fault
         ELSE UNCHANGED <<overlapped, faults>>
    /\ UNCHANGED <<files, sel, seen, found, new, old, chosen, locked>>

-------------------------------------------------------------------------------
(* store::installed for each pack in todo: the index is read, then the     *)
(* directory it names is loaded and compared with the digest.              *)
Lookup(p) ==
    /\ At(p, "lookup")
    /\ index # None
    /\ \E i \in todo[p] \cap DOMAIN index :
        seen' = [seen EXCEPT ![p] = index[i]]
    /\ GoTo(p, "load")
    /\ UNCHANGED <<files, cmd, sel, todo, found, new, old, history, faults>>

Load(p) ==
    LET i == IdOf[seen[p]]
    IN  /\ At(p, "load")
        /\ cache[seen[p]] = "whole"
        /\ found' = [found EXCEPT ![p] = Put(@, i, seen[p])]
        /\ todo' = [todo EXCEPT ![p] = @ \ {i}]
        /\ GoTo(p, "lookup")
        /\ UNCHANGED <<files, cmd, sel, seen, new, old, history, faults>>

(* The pack is not in the index or its directory is not what it should be: *)
(* an error for `lock` and `advise`, nothing for `install`.                *)
Missing(p) ==
    \/ At(p, "load") /\ cache[seen[p]] # "whole"
    \/ At(p, "lookup") /\ todo[p] # {} /\ index = None
    \/ At(p, "lookup") /\ index # None /\ todo[p] \ DOMAIN index # {}

LookupMisses(p) ==
    /\ Missing(p)
    /\ todo' = [todo EXCEPT ![p] = {}]
    /\ GoTo(p, IF Does(p, "install") THEN "select" ELSE "failed")
    /\ UNCHANGED <<files, cmd, sel, seen, found, new, old, history, faults>>

(* A selection with no pack needs no lock: `advise` goes on with the core  *)
(* pack only.                                                              *)
LookedUp(p) ==
    /\ At(p, "lookup")
    /\ todo[p] = {}
    /\ GoTo(p, CASE Does(p, "install") -> "select"
                 [] Does(p, "lock") -> "writeLock"
                 [] Does(p, "advise") -> IF sel[p] = {} THEN "done" ELSE "compare")
    /\ UNCHANGED <<files, locals, history, faults>>

-------------------------------------------------------------------------------
(* read_selection: no file is an empty selection.                          *)
Selection == IF selection = None THEN {} ELSE selection

ReadSelection(p) ==
    /\ At(p, "select")
    /\ sel' = [sel EXCEPT ![p] = Selection]
    /\ \/ /\ Does(p, "install")
          /\ GoTo(p, "probe")
          /\ UNCHANGED todo
       \/ /\ Does(p, "remove")
          /\ GoTo(p, CASE cmd[p].id \notin Selection -> "readIndex"
                       [] cmd[p].id \in Selection /\ cmd[p].flag -> "asideSelection"
                       [] OTHER -> "failed")
          /\ UNCHANGED todo
       \/ /\ Does(p, "lock") \/ Does(p, "advise")
          /\ todo' = [todo EXCEPT ![p] = Selection]
          /\ GoTo(p, "lookup")
    /\ UNCHANGED <<files, cmd, seen, found, new, old, history, faults>>

-------------------------------------------------------------------------------
(* store::install: a directory that exists is validated.                   *)
(* Mutant: it is not.                                                      *)
ProbeExists(p) ==
    /\ At(p, "probe")
    /\ GoTo(p, IF cache[cmd[p].digest] = "absent" THEN "place" ELSE "readIndex")
    /\ UNCHANGED <<files, locals, history, faults>>

Probe(p) ==
    /\ At(p, "probe")
    /\ GoTo(p, CASE cache[cmd[p].digest] = "absent" -> "place"
                 [] cache[cmd[p].digest] = "whole" -> "readIndex"
                 [] OTHER -> "failed")
    /\ UNCHANGED <<files, locals, history, faults>>

(* The declared files are copied into a directory of the process, which is *)
(* renamed into place.  The source may have changed since its digest was   *)
(* computed.                                                               *)
Place(p) ==
    LET d == cmd[p].digest
    IN  /\ At(p, "place")
        /\ cache[d] \in {"absent", "empty"}
        /\ \/ cache' = [cache EXCEPT ![d] = "whole"] /\ UNCHANGED faults
           \/ cache' = [cache EXCEPT ![d] = "wrong"] /\ Fault
        /\ GoTo(p, "readIndex")
        /\ UNCHANGED <<index, selection, lock, locals, history>>

PlaceRefused(p) ==
    /\ At(p, "place")
    /\ cache[cmd[p].digest] \notin {"absent", "empty"}
    /\ GoTo(p, "failed")
    /\ UNCHANGED <<files, locals, history, faults>>

(* read_index: no file is an empty index.  What is written back is what    *)
(* was read, with the entry of the command put in or taken out.            *)
Index == IF index = None THEN EmptyMap ELSE index

(* Mutant: an install writes back the digest that it has looked up.        *)
ReadIndexKeeping(p) ==
    LET c == cmd[p]
    IN  /\ At(p, "readIndex")
        /\ \/ /\ Does(p, "install")
              /\ new' = [new EXCEPT ![p] = Put(Index, c.id, seen[p])]
              /\ GoTo(p, "asideIndex")
              /\ UNCHANGED seen
           \/ /\ Does(p, "remove")
              /\ c.id \in DOMAIN Index
              /\ new' = [new EXCEPT ![p] = Drop(Index, c.id)]
              /\ GoTo(p, "asideIndex")
              /\ seen' = [seen EXCEPT ![p] = Index[c.id]]
           \/ /\ Does(p, "remove")
              /\ c.id \notin DOMAIN Index
              /\ GoTo(p, "done")
              /\ UNCHANGED <<new, seen>>
        /\ UNCHANGED <<files, cmd, sel, todo, found, old, history, faults>>

ReadIndex(p) ==
    LET c == cmd[p]
    IN  /\ At(p, "readIndex")
        /\ \/ /\ Does(p, "install")
              /\ new' = [new EXCEPT ![p] = Put(Index, c.id, c.digest)]
              /\ GoTo(p, "asideIndex")
              /\ UNCHANGED seen
           \/ /\ Does(p, "remove")
              /\ c.id \in DOMAIN Index
              /\ new' = [new EXCEPT ![p] = Drop(Index, c.id)]
              /\ GoTo(p, "asideIndex")
              /\ seen' = [seen EXCEPT ![p] = Index[c.id]]
           \/ /\ Does(p, "remove")
              /\ c.id \notin DOMAIN Index
              /\ GoTo(p, "done")
              /\ UNCHANGED <<new, seen>>
        /\ UNCHANGED <<files, cmd, sel, todo, found, old, history, faults>>

-------------------------------------------------------------------------------
(* write_text_atomically: the file is renamed aside, the new one renamed   *)
(* into its place, the old one removed.  In between there is no file.  An  *)
(* error of the removal, which nobody else sees, is one of the next step.  *)
SelectionChanged(p) == cmd[p].flag /\ cmd[p].id \notin sel[p]

NewSelection(p) ==
    IF Does(p, "install") THEN sel[p] \cup {cmd[p].id} ELSE sel[p] \ {cmd[p].id}

AsideIndex(p) ==
    /\ At(p, "asideIndex")
    /\ old' = [old EXCEPT ![p].index = index]
    /\ index' = None
    /\ GoTo(p, "replaceIndex")
    /\ UNCHANGED <<cache, selection, lock, cmd, sel, todo, seen, found, new, history, faults>>

ReplaceIndex(p) ==
    /\ At(p, "replaceIndex")
    /\ index' = new[p]
    /\ old' = [old EXCEPT ![p].index = None]
    /\ GoTo(p, CASE Does(p, "remove") -> "empty"
                 [] Does(p, "install") /\ SelectionChanged(p) -> "asideSelection"
                 [] OTHER -> "unlock")
    /\ UNCHANGED <<cache, selection, lock, cmd, sel, todo, seen, found, new, history, faults>>

AsideSelection(p) ==
    /\ At(p, "asideSelection")
    /\ old' = [old EXCEPT ![p].selection = selection]
    /\ selection' = None
    /\ GoTo(p, "replaceSelection")
    /\ UNCHANGED <<index, cache, lock, cmd, sel, todo, seen, found, new, history, faults>>

ReplaceSelection(p) ==
    /\ At(p, "replaceSelection")
    /\ selection' = NewSelection(p)
    /\ chosen' = NewSelection(p)
    /\ old' = [old EXCEPT ![p].selection = None]
    /\ GoTo(p, "unlock")
    /\ UNCHANGED <<index, cache, lock, cmd, sel, todo, seen, found, new, locked,
                   overlapped, faults>>

-------------------------------------------------------------------------------
(* The lock is removed when the selection or the content of a selected     *)
(* pack has changed.                                                       *)
ContentChanged(p) ==
    /\ cmd[p].id \in sel[p]
    /\ cmd[p].id \in DOMAIN found[p] => found[p][cmd[p].id] # cmd[p].digest

(* Mutant: only a change of the selection removes the lock.                *)
UnlockSelection(p) ==
    /\ At(p, "unlock")
    /\ lock' = IF Does(p, "remove") \/ SelectionChanged(p) THEN None ELSE lock
    /\ GoTo(p, IF Does(p, "remove") THEN "readIndex" ELSE "done")
    /\ UNCHANGED <<index, cache, selection, locals, history, faults>>

Unlock(p) ==
    /\ At(p, "unlock")
    /\ lock' = IF Does(p, "remove") \/ SelectionChanged(p) \/ ContentChanged(p)
                 THEN None ELSE lock
    /\ GoTo(p, IF Does(p, "remove") THEN "readIndex" ELSE "done")
    /\ UNCHANGED <<index, cache, selection, locals, history, faults>>

(* store::remove after the index: the directory goes file by file.  No     *)
(* other entry can name it, since the digest covers the id.                *)
EmptyDirectory(p) ==
    LET d == seen[p]
    IN  /\ At(p, "empty")
        /\ cache' = IF cache[d] \in {"whole", "wrong"} THEN [cache EXCEPT ![d] = "part"]
                    ELSE IF cache[d] = "part" THEN [cache EXCEPT ![d] = "empty"]
                    ELSE cache
        /\ GoTo(p, CASE cache[d] \in {"whole", "wrong"} -> "empty"
                     [] cache[d] \in {"part", "empty"} -> "rmdir"
                     [] OTHER -> "done")
        /\ UNCHANGED <<index, selection, lock, locals, history, faults>>

(* The directory itself, unless another command has put one in its place.  *)
RemoveDirectory(p) ==
    LET d == seen[p]
    IN  /\ At(p, "rmdir")
        /\ cache' = IF cache[d] = "empty" THEN [cache EXCEPT ![d] = "absent"] ELSE cache
        /\ GoTo(p, IF cache[d] = "empty" THEN "done" ELSE "failed")
        /\ UNCHANGED <<index, selection, lock, locals, history, faults>>

-------------------------------------------------------------------------------
(* lock_selected_packs writes what it has found, with a single rename.     *)
WriteLock(p) ==
    /\ At(p, "writeLock")
    /\ lock' = found[p]
    /\ locked' = locked \cup {found[p]}
    /\ GoTo(p, "done")
    /\ UNCHANGED <<index, cache, selection, locals, chosen, overlapped, faults>>

(* Mutant: the names of the packs are compared, not their contents.        *)
CompareNames(p) ==
    /\ At(p, "compare")
    /\ GoTo(p, IF lock # None /\ DOMAIN lock = DOMAIN found[p] THEN "done" ELSE "failed")
    /\ UNCHANGED <<files, locals, history, faults>>

(* resolve_for_advice: what was found must be what is locked.              *)
Compare(p) ==
    /\ At(p, "compare")
    /\ GoTo(p, IF lock = found[p] THEN "done" ELSE "failed")
    /\ UNCHANGED <<files, locals, history, faults>>

-------------------------------------------------------------------------------
(* A crash, or a call that fails and has no effect: the command stops and  *)
(* what it did so far stays.                                               *)
Stop(p) ==
    /\ pc[p] \in Running
    /\ GoTo(p, "stopped")
    /\ Fault
    /\ UNCHANGED <<files, locals, history>>

(* The second rename fails: the file that was renamed aside is put back.   *)
ReplaceFails(p) ==
    /\ \/ /\ At(p, "replaceIndex")
          /\ old[p].index # None
          /\ index' = old[p].index
          /\ UNCHANGED selection
       \/ /\ At(p, "replaceSelection")
          /\ old[p].selection # None
          /\ selection' = old[p].selection
          /\ UNCHANGED index
    /\ GoTo(p, "failed")
    /\ Fault
    /\ UNCHANGED <<cache, lock, locals, history>>

Step(p) ==
    \/ Begin(p) \/ Lookup(p) \/ Load(p) \/ LookupMisses(p) \/ LookedUp(p)
    \/ ReadSelection(p) \/ Probe(p) \/ Place(p) \/ PlaceRefused(p) \/ ReadIndex(p)
    \/ AsideIndex(p) \/ ReplaceIndex(p) \/ AsideSelection(p) \/ ReplaceSelection(p)
    \/ Unlock(p) \/ EmptyDirectory(p) \/ RemoveDirectory(p)
    \/ WriteLock(p) \/ Compare(p)

Next == \E p \in Procs : Step(p) \/ Stop(p) \/ ReplaceFails(p)

Spec == Init /\ [][Next]_vars

-------------------------------------------------------------------------------
(* Unless two commands overlap: whatever is stopped, every pack of the     *)
(* index has its directory, whole as far as it was copied: an install      *)
(* writes the directory before the index, a remove the index before the    *)
(* directory, and neither takes a half-removed directory for a pack.       *)
IndexNeverDangles ==
    ~ overlapped /\ index # None =>
        \A i \in DOMAIN index : cache[index[i]] \in {"whole", "wrong"}

(* `advise` never goes on with content that no `policy lock` has recorded  *)
(* for exactly the packs it uses, whatever other commands change, remove   *)
(* or leave half done meanwhile (resolve_for_advice).                      *)
OnlyLockedContent ==
    \A p \in Procs :
        Does(p, "advise") /\ At(p, "done") /\ DOMAIN found[p] # {} => found[p] \in locked

(* Unless two commands overlap or one is stopped: between commands, a lock *)
(* that exists is the one of the selection and of the installed content.   *)
LockFollowsSelection ==
    ~ overlapped /\ faults = 0 /\ lock # None /\ (\A p \in Procs : pc[p] \notin Running)
        => lock = Restrict(Index, Selection \cap DOMAIN Index)

(* "Changed, missing, incompatible, or unlocked selected content fails     *)
(* instead of falling back" (docs/policy-packs.md:82-84): unless two       *)
(* commands overlap, `advise` goes on only with all packs of the selection *)
(* that was last written.                                                  *)
SelectionIsHonoured ==
    [][\A p \in Procs :
          ~ overlapped /\ Does(p, "advise") /\ ~ At(p, "done") /\ pc'[p] = "done"
              => DOMAIN found[p] = chosen]_vars
==============================================================================
