-------------------------- MODULE PolicyPacksProofs --------------------------
(***************************************************************************)
(* Proofs about PolicyPacks, for any number of overlapping commands,       *)
(* crashes and failing calls: its type invariant, and that `advise` uses   *)
(* only content that was locked.  For commands that run one at a time: an  *)
(* index entry has its directory, and a lock is that of the selection.     *)
(***************************************************************************)
EXTENDS PolicyPacks, TLAPS

(***************************************************************************)
(* Indexes and locks.                                                      *)
(***************************************************************************)

(* A map with an entry put in is a map, if the content is of that pack.    *)
LEMMA PutType ==
    ASSUME NEW m \in Maps, NEW d \in Digests
    PROVE  /\ Put(m, IdOf[d], d) \in Maps
           /\ DOMAIN Put(m, IdOf[d], d) = DOMAIN m \cup {IdOf[d]}
  <1>1. PICK S \in SUBSET Ids : m \in [S -> Digests]
    BY DEF Maps
  <1>2. IdOf[d] \in Ids
    BY DEF Ids
  <1>3. Put(m, IdOf[d], d) \in [S \cup {IdOf[d]} -> Digests]
    BY <1>1 DEF Put
  <1>4. S \cup {IdOf[d]} \in SUBSET Ids
    BY <1>1, <1>2
  <1>5. \A i \in DOMAIN Put(m, IdOf[d], d) : IdOf[Put(m, IdOf[d], d)[i]] = i
    BY <1>1 DEF Put, Maps
  <1> QED
    BY <1>1, <1>3, <1>4, <1>5 DEF Maps

(* So is one with an entry taken out.                                      *)
LEMMA DropType ==
    ASSUME NEW m \in Maps, NEW i
    PROVE  Drop(m, i) \in Maps
  <1>1. PICK S \in SUBSET Ids : m \in [S -> Digests]
    BY DEF Maps
  <1>2. Drop(m, i) \in [S \ {i} -> Digests]
    BY <1>1 DEF Drop, Restrict
  <1>3. \A j \in DOMAIN Drop(m, i) : IdOf[Drop(m, i)[j]] = j
    BY <1>1 DEF Drop, Restrict, Maps
  <1> QED
    BY <1>1, <1>2, <1>3 DEF Maps

(* The empty map is one, and a map names packs by their contents.          *)
LEMMA MapsType ==
    /\ EmptyMap \in Maps
    /\ DOMAIN EmptyMap = {}
    /\ \A m \in Maps : \A i \in DOMAIN m : m[i] \in Digests /\ IdOf[m[i]] = i /\ i \in Ids
  <1>1. EmptyMap \in [{} -> Digests] /\ DOMAIN EmptyMap = {}
    BY DEF EmptyMap, Restrict
  <1> QED
    BY <1>1 DEF Maps

(* What a command names.                                                   *)
LEMMA CommandsType ==
    \A c \in Commands :
        /\ c # None
        /\ c.do = "install" => c.digest \in Digests /\ c.id = IdOf[c.digest] /\ c.id \in Ids
        /\ c.do \in {"install", "remove", "lock", "advise"}
  BY CommandsAssumption, NoneAssumption
     DEF AllCommands, Install, Remove, Lock, Advise, Ids

(***************************************************************************)
(* The inductive invariant.                                                *)
(***************************************************************************)

(* Which steps a command takes, and what it has found by then: `advise`    *)
(* never comes to a step that writes, it has found nothing before it looks *)
(* packs up, and it looks up only the selection that it has read.          *)
Course ==
    \A p \in Procs :
        /\ ~ At(p, "idle") => cmd[p] # None
        /\ At(p, "idle") => DOMAIN found[p] = {}
        /\ At(p, "load") => seen[p] \in Digests
        /\ Does(p, "remove") => pc[p] \notin LookupSteps
        /\ Does(p, "advise") =>
               /\ pc[p] \in LookupSteps \cup {"select", "compare"} \cup Final
               /\ At(p, "select") => DOMAIN found[p] = {}
               /\ pc[p] \in LookupSteps =>
                      todo[p] \cup DOMAIN found[p] \subseteq sel[p]
               /\ At(p, "load") => IdOf[seen[p]] \in sel[p]

(* Only `policy lock` makes a lock.                                        *)
LockIsLocked == lock # None => lock \in locked

IInv == TypeOK /\ Course /\ LockIsLocked /\ OnlyLockedContent

(* The initial state has the right types.                                  *)
LEMMA TypeOKInit == Init => TypeOK
  <1> SUFFICES ASSUME Init PROVE TypeOK
    OBVIOUS
  <1> DEFINE installed == IF index = None THEN EmptyMap ELSE index
  <1>1. installed \in Maps /\ index \in Maps \cup {None}
    BY MapsType DEF Init
  <1>2. chosen \subseteq DOMAIN installed /\ lock \in {None, Restrict(installed, chosen)}
    BY DEF Init
  <1>3. chosen \subseteq Ids
    BY <1>1, <1>2, MapsType
  <1>4. Restrict(installed, chosen) \in Maps
    <2>1. PICK S \in SUBSET Ids : installed \in [S -> Digests]
      BY <1>1 DEF Maps
    <2>2. Restrict(installed, chosen) \in [chosen -> Digests]
      BY <1>2, <2>1 DEF Restrict
    <2>3. \A j \in chosen : IdOf[Restrict(installed, chosen)[j]] = j
      BY <1>1, <1>2, MapsType DEF Restrict
    <2> QED
      BY <1>3, <2>2, <2>3 DEF Maps
  <1>5. lock \in Maps \cup {None} /\ locked \subseteq Maps
    BY <1>2, <1>4 DEF Init
  <1>6. selection \in (SUBSET Ids) \cup {None}
    BY <1>3 DEF Init
  <1>7. cache \in [Digests -> Directories]
    BY DEF Init, Directories
  <1>8. /\ pc \in [Procs -> {"idle"} \cup Running \cup Final]
        /\ cmd \in [Procs -> Commands \cup {None}]
        /\ seen \in [Procs -> Digests \cup {None}]
        /\ overlapped \in BOOLEAN
    BY DEF Init
  <1>9. sel \in [Procs -> SUBSET Ids] /\ todo \in [Procs -> SUBSET Ids]
    BY DEF Init
  <1>10. found \in [Procs -> Maps] /\ new \in [Procs -> Maps]
    BY MapsType DEF Init
  <1>11. old \in [Procs -> [index : Maps \cup {None}, selection : (SUBSET Ids) \cup {None}]]
    BY DEF Init
  <1>12. faults \in 0 .. MaxFaults
    BY CommandsAssumption DEF Init
  <1> QED
    BY <1>1, <1>3, <1>5, <1>6, <1>7, <1>8, <1>9, <1>10, <1>11, <1>12 DEF TypeOK

(* In the initial state no command has begun.                              *)
LEMMA IInvInit == Init => IInv
  <1> SUFFICES ASSUME Init PROVE IInv
    OBVIOUS
  <1>1. Course
    BY MapsType DEF Init, Course, At, Does, LookupSteps, Final
  <1>2. LockIsLocked
    BY DEF Init, LockIsLocked
  <1>3. OnlyLockedContent
    BY DEF Init, OnlyLockedContent, Does, At
  <1> QED
    BY <1>1, <1>2, <1>3, TypeOKInit DEF IInv

(***************************************************************************)
(* Every step keeps it.                                                    *)
(***************************************************************************)

(* Every step keeps the types: one case for each action.                   *)
LEMMA TypeOKStep ==
    ASSUME TypeOK, Course, [Next]_vars
    PROVE  TypeOK'
  <1> USE CommandsAssumption, CommandsType, MapsType
      DEF TypeOK, GoTo, At, files, locals, history, Fault
  <1> USE DEF Running, Final, LookupSteps, StoreSteps, IndexSteps, SelectionSteps
  <1>1. ASSUME NEW p \in Procs, Begin(p) PROVE TypeOK'
    <2>1. PICK c \in Commands :
              /\ cmd' = [cmd EXCEPT ![p] = c]
              /\ todo' = [todo EXCEPT ![p] = IF c.do = "install" THEN {c.id} ELSE {}]
              /\ GoTo(p, IF c.do = "install" THEN "lookup" ELSE "select")
      BY <1>1 DEF Begin
    <2>2. (IF c.do = "install" THEN {c.id} ELSE {}) \in SUBSET Ids
      BY CommandsType
    <2>3. cmd' \in [Procs -> Commands \cup {None}] /\ todo' \in [Procs -> SUBSET Ids]
      BY <2>1, <2>2
    <2>4. pc' \in [Procs -> {"idle"} \cup Running \cup Final]
      BY <2>1
    <2>5. overlapped' \in BOOLEAN /\ faults' \in 0 .. MaxFaults
      <3>1. CASE \E q \in Procs : pc[q] \in Running
        <4>1. overlapped' = TRUE /\ Fault
          BY <1>1, <3>1 DEF Begin
        <4> QED
          BY <4>1
      <3>2. CASE ~ \E q \in Procs : pc[q] \in Running
        <4>1. overlapped' = overlapped /\ faults' = faults
          BY <1>1, <3>2 DEF Begin
        <4> QED
          BY <4>1
      <3> QED
        BY <3>1, <3>2
    <2> QED
      BY <1>1, <2>3, <2>4, <2>5 DEF Begin
  <1>2. ASSUME NEW p \in Procs, Lookup(p) PROVE TypeOK'
    BY <1>2 DEF Lookup
  <1>3. ASSUME NEW p \in Procs, Load(p) PROVE TypeOK'
    <2>1. seen[p] \in Digests
      BY <1>3 DEF Load, Course
    <2>2. Put(found[p], IdOf[seen[p]], seen[p]) \in Maps
      BY <2>1, PutType
    <2>3. found' \in [Procs -> Maps]
      BY <1>3, <2>2 DEF Load
    <2> QED
      BY <1>3, <2>3 DEF Load
  <1>4. ASSUME NEW p \in Procs, LookupMisses(p) PROVE TypeOK'
    BY <1>4 DEF LookupMisses
  <1>5. ASSUME NEW p \in Procs, LookedUp(p) PROVE TypeOK'
    <2>1. Does(p, "install") \/ Does(p, "lock") \/ Does(p, "advise")
      BY <1>5 DEF LookedUp, Course, Does
    <2> QED
      BY <1>5, <2>1 DEF LookedUp, Does
  <1>6. ASSUME NEW p \in Procs, ReadSelection(p) PROVE TypeOK'
    BY <1>6 DEF ReadSelection, Selection
  <1>7. ASSUME NEW p \in Procs, Probe(p) PROVE TypeOK'
    BY <1>7 DEF Probe
  <1>8. ASSUME NEW p \in Procs, Place(p) PROVE TypeOK'
    BY <1>8 DEF Place, Directories
  <1>9. ASSUME NEW p \in Procs, PlaceRefused(p) PROVE TypeOK'
    BY <1>9 DEF PlaceRefused
  <1>10. ASSUME NEW p \in Procs, ReadIndex(p) PROVE TypeOK'
    <2>1. Index \in Maps
      BY DEF Index
    <2>2. Does(p, "install") => Put(Index, cmd[p].id, cmd[p].digest) \in Maps
      <3>1. SUFFICES ASSUME Does(p, "install")
                     PROVE  Put(Index, cmd[p].id, cmd[p].digest) \in Maps
        OBVIOUS
      <3>2. cmd[p].digest \in Digests /\ cmd[p].id = IdOf[cmd[p].digest]
        BY <3>1, CommandsType DEF Does
      <3> QED
        BY <2>1, <3>2, PutType
    <2>3. Drop(Index, cmd[p].id) \in Maps
      BY <2>1, DropType
    <2>4. new' \in [Procs -> Maps]
      BY <1>10, <2>2, <2>3 DEF ReadIndex
    <2>5. seen' \in [Procs -> Digests \cup {None}]
      <3>1. cmd[p].id \in DOMAIN Index => Index[cmd[p].id] \in Digests
        BY <2>1, MapsType
      <3> QED
        BY <1>10, <3>1 DEF ReadIndex
    <2> QED
      BY <1>10, <2>4, <2>5 DEF ReadIndex
  <1>11. ASSUME NEW p \in Procs, AsideIndex(p) PROVE TypeOK'
    <2>1. old' \in [Procs -> [index : Maps \cup {None}, selection : (SUBSET Ids) \cup {None}]]
      BY <1>11 DEF AsideIndex
    <2> QED
      BY <1>11, <2>1 DEF AsideIndex
  <1>12. ASSUME NEW p \in Procs, ReplaceIndex(p) PROVE TypeOK'
    <2>1. index' \in Maps \cup {None} /\ pc' \in [Procs -> {"idle"} \cup Running \cup Final]
      BY <1>12 DEF ReplaceIndex
    <2>2. old' \in [Procs -> [index : Maps \cup {None}, selection : (SUBSET Ids) \cup {None}]]
      BY <1>12 DEF ReplaceIndex
    <2> QED
      BY <1>12, <2>1, <2>2 DEF ReplaceIndex
  <1>13. ASSUME NEW p \in Procs, AsideSelection(p) PROVE TypeOK'
    <2>1. old' \in [Procs -> [index : Maps \cup {None}, selection : (SUBSET Ids) \cup {None}]]
      BY <1>13 DEF AsideSelection
    <2> QED
      BY <1>13, <2>1 DEF AsideSelection
  <1>14. ASSUME NEW p \in Procs, ReplaceSelection(p) PROVE TypeOK'
    <2>1. NewSelection(p) \in SUBSET Ids
      BY DEF NewSelection, Does
    <2>2. old' \in [Procs -> [index : Maps \cup {None}, selection : (SUBSET Ids) \cup {None}]]
      BY <1>14 DEF ReplaceSelection
    <2> QED
      BY <1>14, <2>1, <2>2 DEF ReplaceSelection
  <1>15. ASSUME NEW p \in Procs, Unlock(p) PROVE TypeOK'
    BY <1>15 DEF Unlock
  <1>16. ASSUME NEW p \in Procs, EmptyDirectory(p) PROVE TypeOK'
    BY <1>16 DEF EmptyDirectory, Directories
  <1>17. ASSUME NEW p \in Procs, RemoveDirectory(p) PROVE TypeOK'
    BY <1>17 DEF RemoveDirectory, Directories
  <1>18. ASSUME NEW p \in Procs, WriteLock(p) PROVE TypeOK'
    BY <1>18 DEF WriteLock
  <1>19. ASSUME NEW p \in Procs, Compare(p) PROVE TypeOK'
    BY <1>19 DEF Compare
  <1>20. ASSUME NEW p \in Procs, Stop(p) PROVE TypeOK'
    BY <1>20 DEF Stop
  <1>21. ASSUME NEW p \in Procs, ReplaceFails(p) PROVE TypeOK'
    BY <1>21 DEF ReplaceFails
  <1>22. CASE UNCHANGED vars
    BY <1>22 DEF vars
  <1> QED
    BY <1>1, <1>2, <1>3, <1>4, <1>5, <1>6, <1>7, <1>8, <1>9, <1>10, <1>11, <1>12,
       <1>13, <1>14, <1>15, <1>16, <1>17, <1>18, <1>19, <1>20, <1>21, <1>22
       DEF Next, Step

(* A step of one process leaves the command, the course and the findings   *)
(* of the others alone.                                                    *)
LEMMA OthersKeep ==
    ASSUME TypeOK, NEW p \in Procs, Step(p) \/ Stop(p) \/ ReplaceFails(p),
           NEW q \in Procs, q # p
    PROVE  /\ pc'[q] = pc[q] /\ cmd'[q] = cmd[q] /\ sel'[q] = sel[q]
           /\ todo'[q] = todo[q] /\ seen'[q] = seen[q] /\ found'[q] = found[q]
  <1> USE DEF TypeOK, GoTo, files, locals, history
  <1>1. ASSUME Begin(p) \/ Lookup(p) \/ Load(p) \/ LookupMisses(p) \/ LookedUp(p)
        PROVE  /\ pc'[q] = pc[q] /\ cmd'[q] = cmd[q] /\ sel'[q] = sel[q]
               /\ todo'[q] = todo[q] /\ seen'[q] = seen[q] /\ found'[q] = found[q]
    BY <1>1 DEF Begin, Lookup, Load, LookupMisses, LookedUp
  <1>2. ASSUME ReadSelection(p) \/ Probe(p) \/ Place(p) \/ PlaceRefused(p) \/ ReadIndex(p)
        PROVE  /\ pc'[q] = pc[q] /\ cmd'[q] = cmd[q] /\ sel'[q] = sel[q]
               /\ todo'[q] = todo[q] /\ seen'[q] = seen[q] /\ found'[q] = found[q]
    BY <1>2 DEF ReadSelection, Probe, Place, PlaceRefused, ReadIndex
  <1>3. ASSUME AsideIndex(p) \/ ReplaceIndex(p) \/ AsideSelection(p) \/ ReplaceSelection(p)
        PROVE  /\ pc'[q] = pc[q] /\ cmd'[q] = cmd[q] /\ sel'[q] = sel[q]
               /\ todo'[q] = todo[q] /\ seen'[q] = seen[q] /\ found'[q] = found[q]
    BY <1>3 DEF AsideIndex, ReplaceIndex, AsideSelection, ReplaceSelection
  <1>4. ASSUME \/ Unlock(p) \/ EmptyDirectory(p) \/ RemoveDirectory(p) \/ WriteLock(p)
               \/ Compare(p) \/ Stop(p) \/ ReplaceFails(p)
        PROVE  /\ pc'[q] = pc[q] /\ cmd'[q] = cmd[q] /\ sel'[q] = sel[q]
               /\ todo'[q] = todo[q] /\ seen'[q] = seen[q] /\ found'[q] = found[q]
    BY <1>4 DEF Unlock, EmptyDirectory, RemoveDirectory, WriteLock, Compare, Stop,
                ReplaceFails
  <1> QED
    BY <1>1, <1>2, <1>3, <1>4 DEF Step

(* What Course says of one process.                                        *)
CourseOf(p) ==
    /\ ~ At(p, "idle") => cmd[p] # None
    /\ At(p, "idle") => DOMAIN found[p] = {}
    /\ At(p, "load") => seen[p] \in Digests
    /\ Does(p, "remove") => pc[p] \notin LookupSteps
    /\ Does(p, "advise") =>
           /\ pc[p] \in LookupSteps \cup {"select", "compare"} \cup Final
           /\ At(p, "select") => DOMAIN found[p] = {}
           /\ pc[p] \in LookupSteps =>
                  todo[p] \cup DOMAIN found[p] \subseteq sel[p]
           /\ At(p, "load") => IdOf[seen[p]] \in sel[p]

(* Every step keeps the course of the process that takes it.               *)
LEMMA CourseStep ==
    ASSUME TypeOK, Course, NEW p \in Procs, Step(p) \/ Stop(p) \/ ReplaceFails(p)
    PROVE  CourseOf(p)'
  <1>0. CourseOf(p)
    BY DEF Course, CourseOf
  <1> USE <1>0 DEF TypeOK, CourseOf, GoTo, At, Does, files, locals, history
  <1> USE DEF LookupSteps, Final
  <1>1. ASSUME Begin(p) PROVE CourseOf(p)'
    <2>1. PICK c \in Commands :
              /\ cmd' = [cmd EXCEPT ![p] = c]
              /\ todo' = [todo EXCEPT ![p] = IF c.do = "install" THEN {c.id} ELSE {}]
              /\ GoTo(p, IF c.do = "install" THEN "lookup" ELSE "select")
      BY <1>1 DEF Begin
    <2>2. /\ cmd'[p] = c /\ c # None
          /\ pc'[p] = IF c.do = "install" THEN "lookup" ELSE "select"
      BY <2>1, CommandsType
    <2>3. found' = found /\ DOMAIN found[p] = {}
      BY <1>1 DEF Begin
    <2> QED
      BY <2>2, <2>3
  <1>2. ASSUME Lookup(p) PROVE CourseOf(p)'
    <2>1. PICK i \in todo[p] \cap DOMAIN index : seen' = [seen EXCEPT ![p] = index[i]]
      BY <1>2 DEF Lookup
    <2>2. index \in Maps
      BY <1>2 DEF Lookup
    <2>3. index[i] \in Digests /\ IdOf[index[i]] = i
      BY <2>2, MapsType
    <2>4. seen'[p] = index[i] /\ pc'[p] = "load"
      BY <1>2, <2>1 DEF Lookup
    <2>5. /\ cmd' = cmd /\ sel' = sel /\ todo' = todo /\ found' = found
          /\ pc[p] = "lookup"
      BY <1>2 DEF Lookup
    <2> QED
      BY <2>3, <2>4, <2>5
  <1>3. ASSUME Load(p) PROVE CourseOf(p)'
    <2>1. seen[p] \in Digests
      BY <1>3 DEF Load
    <2>2. found'[p] = Put(found[p], IdOf[seen[p]], seen[p])
      BY <1>3 DEF Load
    <2>3. DOMAIN found'[p] = DOMAIN found[p] \cup {IdOf[seen[p]]}
      BY <2>1, <2>2, PutType
    <2>4. /\ todo'[p] \subseteq todo[p] /\ pc'[p] = "lookup" /\ pc[p] = "load"
          /\ cmd' = cmd /\ sel' = sel
      BY <1>3 DEF Load
    <2> QED
      BY <2>3, <2>4
  <1>4. ASSUME LookupMisses(p) PROVE CourseOf(p)'
    <2>1. pc[p] \in LookupSteps
      BY <1>4 DEF LookupMisses, Missing
    <2>2. /\ pc'[p] = IF Does(p, "install") THEN "select" ELSE "failed"
          /\ cmd' = cmd
      BY <1>4 DEF LookupMisses
    <2> QED
      BY <2>1, <2>2
  <1>5. ASSUME LookedUp(p) PROVE CourseOf(p)'
    <2>1. pc[p] = "lookup" /\ cmd' = cmd /\ found' = found
      BY <1>5 DEF LookedUp
    <2>2. CASE Does(p, "install")
      BY <1>5, <2>1, <2>2 DEF LookedUp
    <2>3. CASE Does(p, "lock")
      BY <1>5, <2>1, <2>3 DEF LookedUp
    <2>4. CASE Does(p, "advise")
      BY <1>5, <2>1, <2>4 DEF LookedUp
    <2>5. Does(p, "install") \/ Does(p, "lock") \/ Does(p, "advise")
      BY <2>1, CommandsType
    <2> QED
      BY <2>2, <2>3, <2>4, <2>5
  <1>6. ASSUME ReadSelection(p) PROVE CourseOf(p)'
    <2>1. pc[p] = "select" /\ cmd' = cmd /\ found' = found /\ sel'[p] = Selection
      BY <1>6 DEF ReadSelection
    <2>2. CASE Does(p, "install")
      BY <1>6, <2>1, <2>2 DEF ReadSelection
    <2>3. CASE Does(p, "remove")
      BY <1>6, <2>1, <2>3 DEF ReadSelection
    <2>4. CASE Does(p, "lock") \/ Does(p, "advise")
      <3>1. todo'[p] = Selection /\ pc'[p] = "lookup"
        BY <1>6, <2>4 DEF ReadSelection
      <3> QED
        BY <2>1, <2>4, <3>1
    <2> QED
      BY <2>1, <2>2, <2>3, <2>4, CommandsType
  <1>7. ASSUME Probe(p) \/ Place(p) \/ PlaceRefused(p) PROVE CourseOf(p)'
    BY <1>7 DEF Probe, Place, PlaceRefused
  <1>8. ASSUME ReadIndex(p) PROVE CourseOf(p)'
    BY <1>8 DEF ReadIndex
  <1>9. ASSUME AsideIndex(p) \/ ReplaceIndex(p) PROVE CourseOf(p)'
    BY <1>9 DEF AsideIndex, ReplaceIndex
  <1>10. ASSUME AsideSelection(p) \/ ReplaceSelection(p) PROVE CourseOf(p)'
    BY <1>10 DEF AsideSelection, ReplaceSelection
  <1>11. ASSUME Unlock(p) \/ WriteLock(p) \/ Compare(p) PROVE CourseOf(p)'
    BY <1>11 DEF Unlock, WriteLock, Compare
  <1>12. ASSUME EmptyDirectory(p) \/ RemoveDirectory(p) PROVE CourseOf(p)'
    BY <1>12 DEF EmptyDirectory, RemoveDirectory
  <1>13. ASSUME Stop(p) PROVE CourseOf(p)'
    BY <1>13 DEF Stop, Running, StoreSteps, IndexSteps, SelectionSteps
  <1>14. ASSUME ReplaceFails(p) PROVE CourseOf(p)'
    BY <1>14 DEF ReplaceFails
  <1> QED
    BY <1>1, <1>2, <1>3, <1>4, <1>5, <1>6, <1>7, <1>8, <1>9, <1>10, <1>11, <1>12,
       <1>13, <1>14 DEF Step

(* No step makes a lock but that of `policy lock`, and what was once       *)
(* locked remains so.                                                      *)
LEMMA LockedStep ==
    ASSUME TypeOK, NEW p \in Procs, Step(p) \/ Stop(p) \/ ReplaceFails(p)
    PROVE  /\ locked \subseteq locked'
           /\ lock' \in {lock, None} \/ lock' \in locked'
  <1> USE DEF files, locals, history
  <1>1. ASSUME Begin(p) \/ Lookup(p) \/ Load(p) \/ LookupMisses(p) \/ LookedUp(p)
        PROVE  locked' = locked /\ lock' = lock
    BY <1>1 DEF Begin, Lookup, Load, LookupMisses, LookedUp
  <1>2. ASSUME ReadSelection(p) \/ Probe(p) \/ Place(p) \/ PlaceRefused(p) \/ ReadIndex(p)
        PROVE  locked' = locked /\ lock' = lock
    BY <1>2 DEF ReadSelection, Probe, Place, PlaceRefused, ReadIndex
  <1>3. ASSUME AsideIndex(p) \/ ReplaceIndex(p) \/ AsideSelection(p) \/ ReplaceSelection(p)
        PROVE  locked' = locked /\ lock' = lock
    BY <1>3 DEF AsideIndex, ReplaceIndex, AsideSelection, ReplaceSelection
  <1>4. ASSUME \/ EmptyDirectory(p) \/ RemoveDirectory(p) \/ Compare(p) \/ Stop(p)
               \/ ReplaceFails(p)
        PROVE  locked' = locked /\ lock' = lock
    BY <1>4 DEF EmptyDirectory, RemoveDirectory, Compare, Stop, ReplaceFails
  <1>5. ASSUME Unlock(p) PROVE locked' = locked /\ lock' \in {lock, None}
    BY <1>5 DEF Unlock
  <1>6. ASSUME WriteLock(p) PROVE locked' = locked \cup {found[p]} /\ lock' = found[p]
    BY <1>6 DEF WriteLock
  <1> QED
    BY <1>1, <1>2, <1>3, <1>4, <1>5, <1>6 DEF Step

(* An `advise` that is done has found nothing or has compared what it      *)
(* found with the lock.                                                    *)
LEMMA AdviseEnds ==
    ASSUME TypeOK, Course, LockIsLocked, OnlyLockedContent,
           NEW p \in Procs, Step(p) \/ Stop(p) \/ ReplaceFails(p),
           Does(p, "advise")', At(p, "done")', DOMAIN found'[p] # {}
    PROVE  found'[p] \in locked'
  <1> USE DEF TypeOK, GoTo, At, Does, LookupSteps, Final
  <1>1. ~ Begin(p)
    <2>1. SUFFICES ASSUME Begin(p) PROVE FALSE
      OBVIOUS
    <2>2. pc'[p] \in {"lookup", "select"}
      BY <2>1 DEF Begin
    <2> QED
      BY <2>2
  <1>2. cmd'[p] = cmd[p]
    BY <1>1 DEF Step, Lookup, Load, LookupMisses, LookedUp, ReadSelection, Probe, Place,
                PlaceRefused, ReadIndex, AsideIndex, ReplaceIndex, AsideSelection,
                ReplaceSelection, Unlock, EmptyDirectory, RemoveDirectory, WriteLock,
                Compare, Stop, ReplaceFails, locals
  <1>3. /\ Does(p, "advise")
        /\ pc[p] \in LookupSteps \cup {"select", "compare"} \cup Final
        /\ pc[p] \in LookupSteps => DOMAIN found[p] \subseteq sel[p]
    BY <1>2 DEF Course
  <1>4. LookedUp(p) \/ Compare(p)
    BY <1>1, <1>3
       DEF Step, Lookup, Load, LookupMisses, ReadSelection, Probe, Place,
           PlaceRefused, ReadIndex, AsideIndex, ReplaceIndex, AsideSelection,
           ReplaceSelection, Unlock, EmptyDirectory, RemoveDirectory, WriteLock,
           Stop, ReplaceFails
  <1>5. ~ LookedUp(p)
    <2>1. SUFFICES ASSUME LookedUp(p) PROVE FALSE
      OBVIOUS
    <2>2. /\ found' = found /\ pc[p] = "lookup"
          /\ pc'[p] = IF sel[p] = {} THEN "done" ELSE "compare"
      BY <2>1, <1>3 DEF LookedUp, locals
    <2> QED
      BY <1>3, <2>2
  <1>6. /\ lock = found[p] /\ found' = found /\ locked' = locked
    BY <1>4, <1>5 DEF Compare, locals, history
  <1>7. found[p] # None
    BY NoneAssumption
  <1> QED
    BY <1>6, <1>7 DEF LockIsLocked

(* Every step keeps the inductive invariant: the other processes keep what *)
(* they have, and what was locked remains so.                              *)
LEMMA IInvStep ==
    ASSUME IInv, [Next]_vars
    PROVE  IInv'
  <1> USE DEF IInv
  <1>1. TypeOK'
    BY TypeOKStep
  <1>2. ASSUME NEW p \in Procs, Step(p) \/ Stop(p) \/ ReplaceFails(p)
        PROVE  Course' /\ LockIsLocked' /\ OnlyLockedContent'
    <2>1. ASSUME NEW q \in Procs PROVE CourseOf(q)'
      <3>1. CASE q = p
        BY <1>2, <3>1, CourseStep
      <3>2. CASE q # p
        BY <1>2, <3>2, OthersKeep DEF Course, CourseOf, At, Does
      <3> QED
        BY <3>1, <3>2
    <2>2. Course'
      BY <2>1 DEF Course, CourseOf
    <2>3. LockIsLocked'
      BY <1>2, LockedStep DEF LockIsLocked
    <2>4. ASSUME NEW q \in Procs, Does(q, "advise")', At(q, "done")', DOMAIN found'[q] # {}
          PROVE  found'[q] \in locked'
      <3>1. CASE q = p
        BY <1>2, <2>4, <3>1, AdviseEnds
      <3>2. CASE q # p
        <4>1. found[q] \in locked /\ found'[q] = found[q]
          BY <1>2, <2>4, <3>2, OthersKeep DEF OnlyLockedContent, At, Does
        <4> QED
          BY <1>2, <4>1, LockedStep
      <3> QED
        BY <3>1, <3>2
    <2>5. OnlyLockedContent'
      BY <2>4 DEF OnlyLockedContent
    <2> QED
      BY <2>2, <2>3, <2>5
  <1>3. ASSUME UNCHANGED vars
        PROVE  Course' /\ LockIsLocked' /\ OnlyLockedContent'
    BY <1>3 DEF vars, files, locals, history, Course, LockIsLocked, OnlyLockedContent,
                At, Does
  <1> QED
    BY <1>1, <1>2, <1>3 DEF Next

(***************************************************************************)
(* What follows.                                                           *)
(***************************************************************************)

(* Every state that PolicyPacks reaches satisfies the inductive invariant. *)
THEOREM Inductive == Spec => []IInv
  BY IInvInit, IInvStep, PTL DEF Spec

(* In every state the variables have their types: the index and the lock   *)
(* only ever give a pack a content of that pack, whatever commands do and  *)
(* wherever they stop.                                                     *)
THEOREM TypeCorrect == Spec => []TypeOK
  <1>1. IInv => TypeOK
    BY DEF IInv
  <1> QED
    BY <1>1, Inductive, PTL

(* `advise` uses only packs with contents that a `policy lock` has         *)
(* recorded together, for any number of overlapping and failing commands   *)
(* (resolve_for_advice).                                                   *)
THEOREM OnlyLockedIsUsed == Spec => []OnlyLockedContent
  <1>1. IInv => OnlyLockedContent
    BY DEF IInv
  <1> QED
    BY <1>1, Inductive, PTL

(***************************************************************************)
(* The index and its directories, and the lock and its selection, when     *)
(* commands run one at a time.                                             *)
(***************************************************************************)

(* Nobody else runs while a command does; an overlap is one of the faults. *)
OneAtATime ==
    /\ ~ overlapped => \A p, q \in Procs : pc[p] \in Running /\ pc[q] \in Running => p = q
    /\ overlapped => faults # 0

Stored(d) == cache[d] \in {"whole", "wrong"}
AllStored(m) == \A i \in DOMAIN m : Stored(m[i])

(* What a running command knows of the directories: an install writes the  *)
(* index only with its directory in place, a remove takes the directory    *)
(* away only when the index no longer names it.                            *)
StoredPhase(p) ==
    /\ pc[p] \in {"probe", "place"} => Does(p, "install")
    /\ At(p, "readIndex") /\ Does(p, "install") => Stored(cmd[p].digest)
    /\ pc[p] \in IndexSteps => AllStored(new[p])
    /\ pc[p] \in IndexSteps /\ Does(p, "remove") =>
           /\ seen[p] \in Digests
           /\ IdOf[seen[p]] = cmd[p].id
           /\ cmd[p].id \notin DOMAIN new[p]
    /\ At(p, "replaceIndex") /\ old[p].index # None => AllStored(old[p].index)
    /\ pc[p] \in {"empty", "rmdir"} =>
           /\ seen[p] \in Digests
           /\ index # None => IdOf[seen[p]] \notin DOMAIN index

StoredInv ==
    ~ overlapped =>
        /\ index # None => AllStored(index)
        /\ \A p \in Procs : pc[p] \in Running => StoredPhase(p)

(* A command runs from its beginning to its end, and only its beginning    *)
(* can make an overlap.                                                    *)
LEMMA Runs ==
    ASSUME TypeOK, NEW p \in Procs, Step(p) \/ Stop(p) \/ ReplaceFails(p), ~ Begin(p)
    PROVE  /\ pc[p] \in Running
           /\ cmd' = cmd /\ overlapped' = overlapped
           /\ faults' = faults \/ faults' = faults + 1
  <1> USE DEF At, locals, history, Fault, Running, LookupSteps, StoreSteps, IndexSteps,
              SelectionSteps
  <1>1. CASE Lookup(p) \/ Load(p) \/ LookupMisses(p) \/ LookedUp(p) \/ ReadSelection(p)
    BY <1>1 DEF Lookup, Load, LookupMisses, Missing, LookedUp, ReadSelection
  <1>2. CASE Probe(p) \/ Place(p) \/ PlaceRefused(p) \/ ReadIndex(p)
    BY <1>2 DEF Probe, Place, PlaceRefused, ReadIndex
  <1>3. CASE AsideIndex(p) \/ ReplaceIndex(p) \/ AsideSelection(p) \/ ReplaceSelection(p)
    BY <1>3 DEF AsideIndex, ReplaceIndex, AsideSelection, ReplaceSelection
  <1>4. CASE \/ Unlock(p) \/ EmptyDirectory(p) \/ RemoveDirectory(p) \/ WriteLock(p)
             \/ Compare(p)
    BY <1>4 DEF Unlock, EmptyDirectory, RemoveDirectory, WriteLock, Compare
  <1>5. CASE Stop(p) \/ ReplaceFails(p)
    BY <1>5 DEF Stop, ReplaceFails
  <1> QED
    BY <1>1, <1>2, <1>3, <1>4, <1>5 DEF Step

(* A step keeps commands apart, unless it begins an overlap, and then the  *)
(* process that takes it is the only one that may run after it.            *)
LEMMA Alone ==
    ASSUME TypeOK, OneAtATime, NEW p \in Procs, Step(p) \/ Stop(p) \/ ReplaceFails(p)
    PROVE  /\ OneAtATime'
           /\ ~ overlapped' =>
                  ~ overlapped /\ \A q \in Procs \ {p} : pc'[q] = pc[q] /\ pc'[q] \notin Running
           /\ faults' = 0 => faults = 0
  <1> USE DEF TypeOK
  <1>0. \A q \in Procs \ {p} : pc'[q] = pc[q]
    BY OthersKeep
  <1>a. faults \in Nat
    BY CommandsAssumption
  <1>1. CASE Begin(p)
    <2>1. CASE \E q \in Procs : pc[q] \in Running
      <3>1. overlapped' = TRUE /\ faults' = faults + 1
        BY <1>1, <2>1 DEF Begin, Fault
      <3> QED
        BY <1>a, <3>1 DEF OneAtATime
    <2>2. CASE ~ \E q \in Procs : pc[q] \in Running
      <3>1. overlapped' = overlapped /\ faults' = faults
        BY <1>1, <2>2 DEF Begin
      <3> QED
        BY <1>0, <2>2, <3>1 DEF OneAtATime
    <2> QED
      BY <2>1, <2>2
  <1>2. CASE ~ Begin(p)
    <2>1. /\ pc[p] \in Running /\ overlapped' = overlapped
          /\ faults' = faults \/ faults' = faults + 1
      BY <1>2, Runs
    <2>2. ~ overlapped => \A q \in Procs \ {p} : pc[q] \notin Running
      BY <2>1 DEF OneAtATime
    <2> QED
      BY <1>0, <1>a, <2>1, <2>2 DEF OneAtATime
  <1> QED
    BY <1>1, <1>2

(* Every step of a command keeps what it knows of the directories.         *)
LEMMA StoredStep ==
    ASSUME TypeOK, Course, OneAtATime, StoredInv,
           NEW p \in Procs, Step(p) \/ Stop(p) \/ ReplaceFails(p)
    PROVE  StoredInv'
  <1> SUFFICES ASSUME ~ overlapped'
               PROVE  /\ (index # None => AllStored(index))'
                      /\ pc'[p] \in Running => StoredPhase(p)'
    BY Alone DEF StoredInv
  <1> USE DEF TypeOK, GoTo, At, Does, files, locals, history
  <1> USE DEF IndexSteps
  <1>0. /\ index # None => AllStored(index)
        /\ pc[p] \in Running => StoredPhase(p)
    BY Alone DEF StoredInv
  <1>1. CASE Begin(p)
    <2>1. pc'[p] \in {"lookup", "select"} /\ index' = index /\ cache' = cache
      BY <1>1 DEF Begin
    <2> QED
      BY <1>0, <2>1 DEF StoredPhase, AllStored, Stored
  <1> SUFFICES ASSUME ~ Begin(p)
               PROVE  /\ (index # None => AllStored(index))'
                      /\ pc'[p] \in Running => StoredPhase(p)'
    BY <1>1
  <1>2. StoredPhase(p) /\ cmd' = cmd
    BY <1>0, Runs
  <1>3. CASE Lookup(p) \/ Load(p) \/ Compare(p)
    BY <1>0, <1>3 DEF Lookup, Load, Compare, StoredPhase, AllStored, Stored, Running
  <1>4. CASE LookupMisses(p)
    BY <1>0, <1>4 DEF LookupMisses, StoredPhase, AllStored, Stored, Running
  <1>5. CASE LookedUp(p)
    <2>1. /\ pc'[p] \in {"select", "writeLock", "done", "compare"}
          /\ index' = index /\ cache' = cache
      <3>1. Does(p, "install") \/ Does(p, "lock") \/ Does(p, "advise")
        BY <1>5, CommandsType DEF LookedUp, Course, LookupSteps
      <3> QED
        BY <1>5, <3>1 DEF LookedUp
    <2> QED
      BY <1>0, <2>1 DEF StoredPhase, AllStored, Stored
  <1>6. CASE ReadSelection(p)
    <2>1. index' = index /\ cache' = cache
      BY <1>6 DEF ReadSelection
    <2>2. CASE Does(p, "install")
      <3>1. pc'[p] = "probe"
        BY <1>6, <2>2 DEF ReadSelection
      <3> QED
        BY <1>0, <1>2, <2>1, <2>2, <3>1 DEF StoredPhase, AllStored, Stored
    <2>3. CASE ~ Does(p, "install")
      <3>1. pc'[p] \in {"readIndex", "asideSelection", "failed", "lookup"}
        BY <1>6, <2>3 DEF ReadSelection
      <3> QED
        BY <1>0, <1>2, <2>1, <2>3, <3>1 DEF StoredPhase, AllStored, Stored
    <2> QED
      BY <2>2, <2>3
  <1>7. CASE Probe(p)
    <2>1. /\ index' = index /\ cache' = cache
          /\ pc'[p] \in {"place", "readIndex", "failed"}
          /\ pc'[p] = "readIndex" => cache[cmd[p].digest] = "whole"
          /\ Does(p, "install")
      BY <1>2, <1>7 DEF Probe, StoredPhase
    <2> QED
      BY <1>0, <1>2, <2>1 DEF StoredPhase, AllStored, Stored
  <1>8. CASE Place(p)
    <2>1. /\ index' = index /\ pc'[p] = "readIndex"
          /\ \E content \in {"whole", "wrong"} : cache' = [cache EXCEPT ![cmd[p].digest] = content]
          /\ Does(p, "install") /\ cmd[p].digest \in Digests
      BY <1>2, <1>8, CommandsType DEF Place, StoredPhase
    <2>2. \A d \in Digests : Stored(d) => Stored(d)'
      BY <2>1 DEF Stored
    <2>3. Stored(cmd[p].digest)'
      BY <1>2, <2>1 DEF Stored
    <2>4. (index # None => AllStored(index))'
      <3>1. index # None => \A i \in DOMAIN index : index[i] \in Digests
        BY MapsType
      <3> QED
        BY <1>0, <2>1, <2>2, <3>1 DEF AllStored
    <2> QED
      BY <2>1, <2>3, <2>4 DEF StoredPhase
  <1>9. CASE PlaceRefused(p) \/ WriteLock(p) \/ Stop(p)
    BY <1>0, <1>9 DEF PlaceRefused, WriteLock, Stop, AllStored, Stored, Running,
                      StoreSteps, SelectionSteps, LookupSteps
  <1>10. CASE ReadIndex(p)
    <2>1. index' = index /\ cache' = cache /\ pc[p] = "readIndex"
      BY <1>10 DEF ReadIndex
    <2>2. Index \in Maps /\ AllStored(Index)
      BY <1>0, MapsType DEF Index, AllStored
    <2>3. CASE Does(p, "install")
      <3>1. pc'[p] = "asideIndex" /\ new'[p] = Put(Index, cmd[p].id, cmd[p].digest)
        BY <1>10, <2>3 DEF ReadIndex
      <3>2. Stored(cmd[p].digest)
        BY <1>2, <2>1, <2>3 DEF StoredPhase
      <3>3. AllStored(new'[p])
        BY <2>2, <3>1, <3>2 DEF AllStored, Put
      <3> QED
        BY <1>0, <1>2, <2>1, <2>3, <3>1, <3>3 DEF StoredPhase, AllStored, Stored
    <2>4. CASE ~ Does(p, "install") /\ cmd[p].id \in DOMAIN Index
      <3>1. /\ pc'[p] = "asideIndex" /\ new'[p] = Drop(Index, cmd[p].id)
            /\ seen'[p] = Index[cmd[p].id]
        BY <1>10, <2>4 DEF ReadIndex
      <3>2. AllStored(new'[p]) /\ cmd[p].id \notin DOMAIN new'[p]
        BY <2>2, <3>1 DEF AllStored, Drop, Restrict
      <3>3. seen'[p] \in Digests /\ IdOf[seen'[p]] = cmd[p].id
        BY <2>2, <2>4, <3>1, MapsType
      <3> QED
        BY <1>0, <1>2, <2>1, <3>1, <3>2, <3>3 DEF StoredPhase, AllStored, Stored
    <2>5. CASE ~ Does(p, "install") /\ cmd[p].id \notin DOMAIN Index
      <3>1. pc'[p] = "done"
        BY <1>10, <2>5 DEF ReadIndex
      <3> QED
        BY <1>0, <2>1, <3>1 DEF AllStored, Stored, Running, LookupSteps, StoreSteps, SelectionSteps
    <2> QED
      BY <2>3, <2>4, <2>5
  <1>11. CASE AsideIndex(p)
    <2>1. /\ index' = None /\ cache' = cache /\ new' = new /\ seen' = seen
          /\ pc[p] = "asideIndex" /\ pc'[p] = "replaceIndex" /\ old'[p].index = index
      BY <1>11 DEF AsideIndex
    <2> QED
      BY <1>0, <1>2, <2>1 DEF StoredPhase, AllStored, Stored
  <1>12. CASE ReplaceIndex(p)
    <2>1. /\ index' = new[p] /\ cache' = cache /\ seen' = seen /\ pc[p] = "replaceIndex"
          /\ pc'[p] \in {"empty", "asideSelection", "unlock"}
          /\ pc'[p] = "empty" => Does(p, "remove")
      BY <1>12 DEF ReplaceIndex
    <2>2. AllStored(new[p])
      BY <1>2, <2>1 DEF StoredPhase
    <2> QED
      BY <1>2, <2>1, <2>2 DEF StoredPhase, AllStored, Stored
  <1>13. CASE AsideSelection(p) \/ ReplaceSelection(p) \/ Unlock(p)
    <2>1. /\ index' = index /\ cache' = cache
          /\ pc'[p] \in {"replaceSelection", "unlock", "readIndex", "done"}
      BY <1>13 DEF AsideSelection, ReplaceSelection, Unlock
    <2>2. pc'[p] = "readIndex" => ~ Does(p, "install")
      BY <1>13 DEF AsideSelection, ReplaceSelection, Unlock
    <2> QED
      BY <1>0, <1>2, <2>1, <2>2 DEF StoredPhase, AllStored, Stored
  <1>14. CASE EmptyDirectory(p) \/ RemoveDirectory(p)
    <2>1. /\ index' = index /\ seen' = seen /\ pc[p] \in {"empty", "rmdir"}
          /\ pc'[p] \in {"empty", "rmdir", "done", "failed"}
          /\ \A d \in Digests : d # seen[p] => cache'[d] = cache[d]
      BY <1>14 DEF EmptyDirectory, RemoveDirectory
    <2>2. (index # None => AllStored(index))'
      <3>1. index # None => \A i \in DOMAIN index : index[i] \in Digests /\ index[i] # seen[p]
        BY <1>2, <2>1, MapsType DEF StoredPhase
      <3> QED
        BY <1>0, <2>1, <3>1 DEF AllStored, Stored
    <2> QED
      BY <1>2, <2>1, <2>2 DEF StoredPhase
  <1>15. CASE ReplaceFails(p)
    <2>1. pc'[p] = "failed" /\ cache' = cache
      BY <1>15 DEF ReplaceFails
    <2>2. \/ index' = index
          \/ pc[p] = "replaceIndex" /\ old[p].index # None /\ index' = old[p].index
      BY <1>15, Zenon DEF ReplaceFails
    <2> QED
      BY <1>0, <1>2, <2>1, <2>2 DEF StoredPhase, AllStored, Stored, Running, LookupSteps,
           StoreSteps, SelectionSteps
  <1> QED
    BY <1>3, <1>4, <1>5, <1>6, <1>7, <1>8, <1>9, <1>10, <1>11, <1>12, <1>13, <1>14, <1>15
       DEF Step

(* A lock that exists is that of the selection and of the contents in m.   *)
Followed(m) == lock # None => lock = Restrict(m, Selection \cap DOMAIN m)
Agrees(f, m) == \A i \in DOMAIN f : i \in DOMAIN m /\ f[i] = m[i]

(* The index that the others would see if p were not writing it.           *)
IndexOf(p) ==
    IF ~ At(p, "replaceIndex") THEN Index
    ELSE IF old[p].index = None THEN EmptyMap ELSE old[p].index

(* What each command knows at each step: what it has looked up and the     *)
(* selection that it has read are still so, what it writes is the index    *)
(* with one entry changed, and it comes to write the selection only to     *)
(* change it.                                                              *)
LookingUp(p) ==
    /\ pc[p] \in LookupSteps \cup {"select"} => Agrees(found[p], Index)
    /\ At(p, "load") =>
           /\ IdOf[seen[p]] \in DOMAIN Index
           /\ Index[IdOf[seen[p]]] = seen[p]

Locking(p) ==
    /\ Does(p, "lock") =>
           /\ pc[p] \in LookupSteps \cup {"select", "writeLock"}
           /\ At(p, "select") => DOMAIN found[p] = {}
           /\ pc[p] \in LookupSteps =>
                  sel[p] = Selection /\ todo[p] \cup DOMAIN found[p] = sel[p]
           /\ At(p, "load") => IdOf[seen[p]] \in todo[p]
           /\ At(p, "writeLock") => DOMAIN found[p] = Selection /\ Agrees(found[p], Index)
    /\ At(p, "writeLock") => Does(p, "lock")

Removing(p) ==
    Does(p, "remove") =>
        /\ pc[p] \in {"readIndex"} \cup IndexSteps => lock = None \/ cmd[p].id \notin Selection
        /\ pc[p] \in IndexSteps => new[p] = Drop(IndexOf(p), cmd[p].id)

Installing(p) ==
    Does(p, "install") =>
        /\ pc[p] \notin {"empty", "rmdir", "compare"}
        /\ pc[p] \in {"probe", "place", "readIndex"} \cup IndexSteps =>
               sel[p] = Selection /\ Agrees(found[p], IndexOf(p))
        /\ pc[p] \in IndexSteps => new[p] = Put(IndexOf(p), cmd[p].id, cmd[p].digest)
        /\ pc[p] \in SelectionSteps => SelectionChanged(p)

Following(p) ==
    /\ pc[p] \notin SelectionSteps \cup {"unlock"} => Followed(IndexOf(p))
    /\ At(p, "unlock") /\ Does(p, "install") /\ ~ SelectionChanged(p) /\ ~ ContentChanged(p)
           => Followed(Index)
    /\ pc[p] \in SelectionSteps \cup {"unlock"} => Does(p, "remove") \/ Does(p, "install")

LockPhase(p) == LookingUp(p) /\ Locking(p) /\ Removing(p) /\ Installing(p) /\ Following(p)

(* Between commands and before they come to write, a lock follows the      *)
(* selection.                                                              *)
LockInv ==
    faults = 0 =>
        /\ (\A p \in Procs : pc[p] \notin Running) => Followed(Index)
        /\ \A p \in Procs : pc[p] \in Running => LockPhase(p)

(* A lock is not disturbed by an entry of a pack that it does not name, nor *)
(* by one that says what the index says.                                   *)
LEMMA FollowedPut ==
    ASSUME NEW m \in Maps, NEW i, NEW d, Followed(m),
           i \notin Selection \/ (i \in DOMAIN m /\ m[i] = d)
    PROVE  Followed(Put(m, i, d))
  <1>1. CASE i \notin Selection
    <2>1. Selection \cap DOMAIN Put(m, i, d) = Selection \cap DOMAIN m
      BY <1>1 DEF Put
    <2>2. \A j \in Selection \cap DOMAIN m : Put(m, i, d)[j] = m[j]
      BY <1>1 DEF Put
    <2>3. Restrict(Put(m, i, d), Selection \cap DOMAIN Put(m, i, d))
            = Restrict(m, Selection \cap DOMAIN m)
      BY <2>1, <2>2 DEF Restrict
    <2> QED
      BY <2>3 DEF Followed
  <1>2. CASE i \in DOMAIN m /\ m[i] = d
    <2>1. Selection \cap DOMAIN Put(m, i, d) = Selection \cap DOMAIN m
      BY <1>2 DEF Put
    <2>2. \A j \in Selection \cap DOMAIN m : Put(m, i, d)[j] = m[j]
      BY <1>2 DEF Put
    <2>3. Restrict(Put(m, i, d), Selection \cap DOMAIN Put(m, i, d))
            = Restrict(m, Selection \cap DOMAIN m)
      BY <2>1, <2>2 DEF Restrict
    <2> QED
      BY <2>3 DEF Followed
  <1> QED
    BY <1>1, <1>2

LEMMA FollowedDrop ==
    ASSUME NEW m \in Maps, NEW i, Followed(m), lock = None \/ i \notin Selection
    PROVE  Followed(Drop(m, i))
  <1>1. CASE i \notin Selection
    <2>1. Selection \cap DOMAIN Drop(m, i) = Selection \cap DOMAIN m
      BY <1>1 DEF Drop, Restrict
    <2>2. \A j \in Selection \cap DOMAIN m : Drop(m, i)[j] = m[j]
      BY <1>1 DEF Drop, Restrict
    <2>3. Restrict(Drop(m, i), Selection \cap DOMAIN Drop(m, i))
            = Restrict(m, Selection \cap DOMAIN m)
      BY <2>1, <2>2 DEF Restrict
    <2> QED
      BY <2>3 DEF Followed
  <1> QED
    BY <1>1 DEF Followed

(* What has the contents of the index for all of the selection is the lock *)
(* that follows it.                                                        *)
LEMMA AgreesIsRestrict ==
    ASSUME NEW f \in Maps, NEW m \in Maps, Agrees(f, m)
    PROVE  f = Restrict(m, DOMAIN f \cap DOMAIN m)
  <1>1. DOMAIN f \cap DOMAIN m = DOMAIN f
    BY DEF Agrees
  <1>2. f = [j \in DOMAIN f |-> f[j]]
    BY DEF Maps
  <1> QED
    BY <1>1, <1>2 DEF Agrees, Restrict

(* The initial lock is that of the initial selection.                      *)
LEMMA FilesInit ==
    ASSUME Init
    PROVE  OneAtATime /\ StoredInv /\ LockInv
  <1> USE DEF Init
  <1>0. \A p \in Procs : pc[p] \notin Running
    BY DEF Running, LookupSteps, StoreSteps, IndexSteps, SelectionSteps
  <1>1. OneAtATime
    BY <1>0 DEF OneAtATime
  <1>2. index # None => AllStored(index)
    <2>1. SUFFICES ASSUME index # None, NEW i \in DOMAIN index
                   PROVE  Stored(index[i])
      BY DEF AllStored
    <2>2. index \in Maps /\ index[i] \in Digests /\ index[i] \in Range(index)
      BY <2>1, MapsType DEF Range
    <2> QED
      BY <2>1, <2>2 DEF Stored
  <1>3. Followed(Index)
    <2>1. lock # None => lock = Restrict(Index, chosen) /\ chosen \subseteq DOMAIN Index
      BY DEF Index
    <2>2. Selection = chosen
      <3>1. CASE chosen = {}
        BY <3>1 DEF Selection
      <3>2. CASE chosen # {}
        <4>1. chosen \in SUBSET Ids
          BY TypeOKInit DEF TypeOK
        <4>2. selection = chosen \/ selection = None
          BY <3>2
        <4> QED
          BY <3>2, <4>1, <4>2, NoneAssumption DEF Selection
      <3> QED
        BY <3>1, <3>2
    <2>3. chosen \subseteq DOMAIN Index => chosen \cap DOMAIN Index = chosen
      OBVIOUS
    <2> QED
      BY <2>1, <2>2, <2>3 DEF Followed
  <1> QED
    BY <1>0, <1>1, <1>2, <1>3 DEF StoredInv, LockInv

(* Every step of a command that is not disturbed keeps what it knows of    *)
(* the index, the selection and the lock.                                  *)
LEMMA LockStep ==
    ASSUME TypeOK, Course, OneAtATime, StoredInv, LockInv,
           NEW p \in Procs, Step(p) \/ Stop(p) \/ ReplaceFails(p)
    PROVE  LockInv'
  <1> SUFFICES ASSUME faults' = 0
               PROVE  /\ pc'[p] \in Running => LockPhase(p)'
                      /\ pc'[p] \notin Running => Followed(Index)'
    <2>1. OneAtATime'
      BY Alone
    <2>2. faults' = 0 => ~ overlapped'
      BY <2>1 DEF OneAtATime
    <2> QED
      BY <2>2, Alone DEF LockInv
  <1>a. faults = 0 /\ ~ overlapped
    BY Alone DEF OneAtATime
  <1> USE DEF TypeOK, GoTo, At, Does, files, locals, history
  <1> USE DEF LookupSteps, IndexSteps, SelectionSteps
  <1>0. /\ pc[p] \in Running => LockPhase(p) /\ StoredPhase(p)
        /\ (\A q \in Procs : pc[q] \notin Running) => Followed(Index)
    BY <1>a DEF LockInv, StoredInv
  <1>i. Index \in Maps
    BY MapsType DEF Index
  <1>1. CASE Begin(p)
    <2>1. PICK c \in Commands :
              /\ cmd' = [cmd EXCEPT ![p] = c]
              /\ todo' = [todo EXCEPT ![p] = IF c.do = "install" THEN {c.id} ELSE {}]
              /\ GoTo(p, IF c.do = "install" THEN "lookup" ELSE "select")
      BY <1>1 DEF Begin
    <2>2. /\ index' = index /\ selection' = selection /\ lock' = lock /\ found' = found
          /\ cmd'[p] = c /\ pc[p] = "idle"
          /\ pc'[p] = IF c.do = "install" THEN "lookup" ELSE "select"
      BY <1>1, <2>1 DEF Begin
    <2>3. \A q \in Procs : pc[q] \notin Running
      <3>1. SUFFICES ASSUME \E q \in Procs : pc[q] \in Running PROVE FALSE
        OBVIOUS
      <3>2. faults' = faults + 1
        BY <1>1, <3>1 DEF Begin, Fault
      <3> QED
        BY <1>a, <3>2
    <2>4. Followed(Index) /\ DOMAIN found[p] = {}
      BY <1>0, <2>2, <2>3 DEF Course
    <2>5. LookingUp(p)' /\ Locking(p)' /\ Removing(p)' /\ Installing(p)'
      BY <2>2, <2>4 DEF LookingUp, Locking, Removing, Installing, Agrees
    <2>6. Following(p)'
      BY <2>2, <2>4 DEF Following, IndexOf, Followed, Index, Selection
    <2>7. pc'[p] \in Running
      BY <2>2 DEF Running
    <2> QED
      BY <2>5, <2>6, <2>7 DEF LockPhase
  <1> SUFFICES ASSUME ~ Begin(p)
               PROVE  /\ pc'[p] \in Running => LockPhase(p)'
                      /\ pc'[p] \notin Running => Followed(Index)'
    BY <1>1
  <1>2. LockPhase(p) /\ StoredPhase(p) /\ cmd' = cmd /\ cmd[p] \in Commands
    BY <1>0, Runs DEF Course, Running, StoreSteps
  <1>3. ~ Stop(p) /\ ~ ReplaceFails(p)
    BY <1>a DEF Stop, ReplaceFails, Fault
  <1>4. CASE Lookup(p)
    <2>1. PICK i \in todo[p] \cap DOMAIN index : seen' = [seen EXCEPT ![p] = index[i]]
      BY <1>4 DEF Lookup
    <2>2. /\ index # None /\ index' = index /\ selection' = selection /\ lock' = lock
          /\ found' = found /\ sel' = sel /\ todo' = todo
          /\ pc[p] = "lookup" /\ pc'[p] = "load" /\ seen'[p] = index[i]
      BY <1>4, <2>1 DEF Lookup
    <2>3. IdOf[seen'[p]] = i /\ i \in DOMAIN Index /\ Index[i] = seen'[p]
      BY <2>1, <2>2, MapsType DEF Index
    <2>4. Index' = Index /\ Selection' = Selection
      BY <2>2 DEF Index, Selection
    <2>5. LookingUp(p)'
      BY <1>2, <2>2, <2>3, <2>4 DEF LockPhase, LookingUp, Agrees
    <2>6. Locking(p)'
      BY <1>2, <2>1, <2>2, <2>3, <2>4 DEF LockPhase, Locking
    <2>7. Removing(p)' /\ Installing(p)'
      BY <1>2, <2>2 DEF Removing, Installing
    <2>8. Following(p)'
      BY <1>2, <2>2, <2>4 DEF LockPhase, Following, IndexOf, Followed
    <2>9. pc'[p] \in Running
      BY <2>2 DEF Running
    <2> QED
      BY <2>5, <2>6, <2>7, <2>8, <2>9 DEF LockPhase
  <1>5. CASE Load(p)
    <2>1. /\ index' = index /\ selection' = selection /\ lock' = lock /\ sel' = sel
          /\ pc[p] = "load" /\ pc'[p] = "lookup" /\ todo'[p] = todo[p] \ {IdOf[seen[p]]}
          /\ found'[p] = Put(found[p], IdOf[seen[p]], seen[p])
      BY <1>5 DEF Load
    <2>2. Index' = Index /\ Selection' = Selection
      BY <2>1 DEF Index, Selection
    <2>3. DOMAIN found'[p] = DOMAIN found[p] \cup {IdOf[seen[p]]}
      BY <2>1 DEF Put
    <2>4. Agrees(found'[p], Index)
      BY <1>2, <2>1 DEF LockPhase, LookingUp, Agrees, Put
    <2>5. LookingUp(p)'
      BY <2>1, <2>2, <2>4 DEF LookingUp, Agrees
    <2>6. Locking(p)'
      BY <1>2, <2>1, <2>2, <2>3 DEF LockPhase, Locking
    <2>7. Removing(p)' /\ Installing(p)'
      BY <1>2, <2>1 DEF Removing, Installing
    <2>8. Following(p)'
      BY <1>2, <2>1, <2>2 DEF LockPhase, Following, IndexOf, Followed
    <2>9. pc'[p] \in Running
      BY <2>1 DEF Running
    <2> QED
      BY <2>5, <2>6, <2>7, <2>8, <2>9 DEF LockPhase
  <1>6. CASE LookupMisses(p)
    <2>1. /\ index' = index /\ selection' = selection /\ lock' = lock /\ found' = found
          /\ pc[p] \in LookupSteps
          /\ pc'[p] = IF Does(p, "install") THEN "select" ELSE "failed"
      BY <1>6 DEF LookupMisses, Missing
    <2>2. Index' = Index /\ Selection' = Selection
      BY <2>1 DEF Index, Selection
    <2>3. Followed(Index)'
      BY <1>2, <2>1, <2>2 DEF LockPhase, Following, IndexOf, Followed
    <2>4. pc'[p] \in Running => Does(p, "install") /\ pc'[p] = "select"
      BY <2>1 DEF Running, StoreSteps
    <2>5. LookingUp(p)' /\ (Does(p, "install") => Locking(p)' /\ Removing(p)' /\ Installing(p)')
      BY <1>2, <2>1, <2>2 DEF LockPhase, LookingUp, Locking, Removing, Installing, Agrees
    <2>6. Does(p, "install") => Following(p)'
      BY <1>2, <2>1, <2>3 DEF Following, IndexOf
    <2> QED
      BY <2>3, <2>4, <2>5, <2>6 DEF LockPhase
  <1>7. CASE LookedUp(p)
    <2>1. /\ index' = index /\ selection' = selection /\ lock' = lock /\ found' = found
          /\ sel' = sel /\ pc[p] = "lookup" /\ todo[p] = {}
      BY <1>7 DEF LookedUp
    <2>2. Index' = Index /\ Selection' = Selection
      BY <2>1 DEF Index, Selection
    <2>3. Followed(Index)'
      BY <1>2, <2>1, <2>2 DEF LockPhase, Following, IndexOf, Followed
    <2>4. Agrees(found[p], Index)
      BY <1>2, <2>1 DEF LockPhase, LookingUp
    <2>5. CASE Does(p, "install")
      <3>1. pc'[p] = "select"
        BY <1>7, <2>5 DEF LookedUp
      <3>2. LookingUp(p)' /\ Locking(p)' /\ Removing(p)' /\ Installing(p)'
        BY <1>2, <2>1, <2>2, <2>4, <2>5, <3>1
           DEF LookingUp, Locking, Removing, Installing, Agrees
      <3>3. Following(p)'
        BY <2>3, <3>1 DEF Following, IndexOf
      <3> QED
        BY <3>1, <3>2, <3>3 DEF LockPhase, Running
    <2>6. CASE Does(p, "lock")
      <3>1. pc'[p] = "writeLock"
        BY <1>7, <2>6 DEF LookedUp
      <3>2. DOMAIN found[p] = Selection
        BY <1>2, <2>1, <2>6 DEF LockPhase, Locking
      <3>3. LookingUp(p)' /\ Removing(p)' /\ Installing(p)'
        BY <1>2, <2>6, <3>1 DEF LookingUp, Removing, Installing
      <3>4. Locking(p)'
        BY <1>2, <2>1, <2>2, <2>4, <2>6, <3>1, <3>2 DEF Locking, Agrees
      <3>5. Following(p)'
        BY <2>3, <3>1 DEF Following, IndexOf
      <3> QED
        BY <3>1, <3>3, <3>4, <3>5 DEF LockPhase, Running
    <2>7. CASE Does(p, "advise")
      <3>1. pc'[p] \in {"done", "compare"}
        BY <1>7, <2>7 DEF LookedUp
      <3>2. LookingUp(p)' /\ Locking(p)' /\ Removing(p)' /\ Installing(p)'
        BY <1>2, <2>7, <3>1 DEF LookingUp, Locking, Removing, Installing
      <3>3. Following(p)'
        BY <2>3, <3>1 DEF Following, IndexOf
      <3> QED
        BY <2>3, <3>2, <3>3 DEF LockPhase
    <2> QED
      BY <1>2, <2>1, <2>5, <2>6, <2>7, CommandsType DEF Course
  <1>8. CASE ReadSelection(p)
    <2>1. /\ index' = index /\ selection' = selection /\ lock' = lock /\ found' = found
          /\ pc[p] = "select" /\ sel'[p] = Selection
      BY <1>8 DEF ReadSelection
    <2>2. Index' = Index /\ Selection' = Selection
      BY <2>1 DEF Index, Selection
    <2>3. Followed(Index)'
      BY <1>2, <2>1, <2>2 DEF LockPhase, Following, IndexOf, Followed
    <2>4. Agrees(found[p], Index)
      BY <1>2, <2>1 DEF LockPhase, LookingUp
    <2>5. CASE Does(p, "install")
      <3>1. pc'[p] = "probe"
        BY <1>8, <2>5 DEF ReadSelection
      <3>2. LookingUp(p)' /\ Locking(p)' /\ Removing(p)'
        BY <1>2, <2>5, <3>1 DEF LookingUp, Locking, Removing
      <3>3. Installing(p)'
        BY <1>2, <2>1, <2>2, <2>4, <3>1 DEF Installing, IndexOf, Agrees
      <3>4. Following(p)'
        BY <2>3, <3>1 DEF Following, IndexOf
      <3> QED
        BY <3>1, <3>2, <3>3, <3>4 DEF LockPhase, Running, StoreSteps
    <2>6. CASE Does(p, "remove")
      <3>1. /\ pc'[p] \in {"readIndex", "asideSelection", "failed"}
            /\ pc'[p] = "readIndex" => cmd[p].id \notin Selection
        BY <1>8, <2>6 DEF ReadSelection
      <3>2. LookingUp(p)' /\ Locking(p)' /\ Installing(p)'
        BY <1>2, <2>6, <3>1 DEF LookingUp, Locking, Installing
      <3>3. Removing(p)'
        BY <1>2, <2>2, <3>1 DEF Removing
      <3>4. Following(p)'
        BY <1>2, <2>3, <2>6, <3>1 DEF Following, IndexOf
      <3> QED
        BY <2>3, <3>2, <3>3, <3>4 DEF LockPhase
    <2>7. CASE Does(p, "lock") \/ Does(p, "advise")
      <3>1. pc'[p] = "lookup" /\ todo'[p] = Selection
        BY <1>8, <2>7 DEF ReadSelection
      <3>2. LookingUp(p)'
        BY <2>1, <2>2, <2>4, <3>1 DEF LookingUp, Agrees
      <3>3. Locking(p)'
        <4>1. Does(p, "lock") => DOMAIN found[p] = {}
          BY <1>2, <2>1 DEF LockPhase, Locking
        <4> QED
          BY <1>2, <2>1, <2>2, <3>1, <4>1 DEF Locking
      <3>4. Removing(p)' /\ Installing(p)'
        BY <1>2, <2>7, <3>1 DEF Removing, Installing
      <3>5. Following(p)'
        BY <2>3, <3>1 DEF Following, IndexOf
      <3> QED
        BY <3>1, <3>2, <3>3, <3>4, <3>5 DEF LockPhase, Running
    <2> QED
      BY <1>2, <2>5, <2>6, <2>7, CommandsType
  <1>9. CASE Probe(p) \/ Place(p) \/ PlaceRefused(p)
    <2>1. /\ index' = index /\ selection' = selection /\ lock' = lock /\ found' = found
          /\ sel' = sel
          /\ pc[p] \in {"probe", "place"} /\ pc'[p] \in {"place", "readIndex", "failed"}
      BY <1>9 DEF Probe, Place, PlaceRefused
    <2>2. Does(p, "install")
      BY <1>2, <2>1 DEF StoredPhase
    <2>3. Index' = Index /\ Selection' = Selection
      BY <2>1 DEF Index, Selection
    <2>4. Followed(Index)'
      BY <1>2, <2>1, <2>3 DEF LockPhase, Following, IndexOf, Followed
    <2>5. LookingUp(p)' /\ Locking(p)' /\ Removing(p)'
      BY <1>2, <2>1, <2>2 DEF LookingUp, Locking, Removing
    <2>6. Installing(p)'
      BY <1>2, <2>1, <2>2, <2>3 DEF LockPhase, Installing, IndexOf, Agrees
    <2>7. Following(p)'
      BY <2>1, <2>4 DEF Following, IndexOf
    <2> QED
      BY <2>4, <2>5, <2>6, <2>7 DEF LockPhase
  <1>10. CASE ReadIndex(p)
    <2>1. /\ index' = index /\ selection' = selection /\ lock' = lock /\ found' = found
          /\ sel' = sel /\ pc[p] = "readIndex" /\ pc'[p] \in {"asideIndex", "done"}
      BY <1>10 DEF ReadIndex
    <2>2. Index' = Index /\ Selection' = Selection
      BY <2>1 DEF Index, Selection
    <2>3. Followed(Index)'
      BY <1>2, <2>1, <2>2 DEF LockPhase, Following, IndexOf, Followed
    <2>4. LookingUp(p)' /\ Locking(p)'
      BY <1>2, <2>1 DEF LookingUp, Locking, LockPhase
    <2>5. Following(p)'
      BY <2>1, <2>3 DEF Following, IndexOf
    <2>6. CASE Does(p, "install")
      <3>1. pc'[p] = "asideIndex" /\ new'[p] = Put(Index, cmd[p].id, cmd[p].digest)
        BY <1>10, <2>6 DEF ReadIndex
      <3>2. Removing(p)'
        BY <1>2, <2>6 DEF Removing
      <3>3. Installing(p)'
        BY <1>2, <2>1, <2>2, <2>6, <3>1 DEF LockPhase, Installing, IndexOf, Agrees
      <3> QED
        BY <2>3, <2>4, <2>5, <3>2, <3>3 DEF LockPhase
    <2>7. CASE Does(p, "remove")
      <3>1. pc'[p] = "asideIndex" => new'[p] = Drop(Index, cmd[p].id)
        BY <1>10, <2>7 DEF ReadIndex
      <3>2. Installing(p)'
        BY <1>2, <2>7 DEF Installing
      <3>3. Removing(p)'
        BY <1>2, <2>1, <2>2, <2>7, <3>1 DEF LockPhase, Removing, IndexOf
      <3> QED
        BY <2>3, <2>4, <2>5, <3>2, <3>3 DEF LockPhase
    <2>8. Does(p, "install") \/ Does(p, "remove")
      BY <1>10 DEF ReadIndex
    <2> QED
      BY <2>6, <2>7, <2>8
  <1>11. CASE AsideIndex(p)
    <2>1. /\ selection' = selection /\ lock' = lock /\ found' = found /\ sel' = sel
          /\ new' = new /\ pc[p] = "asideIndex" /\ pc'[p] = "replaceIndex"
          /\ old'[p].index = index
      BY <1>11 DEF AsideIndex
    <2>2. IndexOf(p)' = Index /\ IndexOf(p) = Index /\ Selection' = Selection
      BY <2>1 DEF IndexOf, Index, Selection
    <2>3. LookingUp(p)' /\ Locking(p)'
      BY <1>2, <2>1 DEF LookingUp, Locking, LockPhase
    <2>4. Following(p)'
      BY <1>2, <2>1, <2>2 DEF LockPhase, Following, Followed
    <2>5. Removing(p)'
      BY <1>2, <2>1, <2>2 DEF LockPhase, Removing
    <2>6. Installing(p)'
      BY <1>2, <2>1, <2>2 DEF LockPhase, Installing, Agrees
    <2>7. pc'[p] \in Running
      BY <2>1 DEF Running
    <2> QED
      BY <2>3, <2>4, <2>5, <2>6, <2>7 DEF LockPhase
  <1>12. CASE ReplaceIndex(p)
    <2> DEFINE m == IndexOf(p)
    <2>1. /\ index' = new[p] /\ selection' = selection /\ lock' = lock /\ found' = found
          /\ sel' = sel /\ pc[p] = "replaceIndex"
          /\ pc'[p] = IF Does(p, "remove") THEN "empty"
                      ELSE IF Does(p, "install") /\ SelectionChanged(p) THEN "asideSelection"
                      ELSE "unlock"
      BY <1>12 DEF ReplaceIndex
    <2>2. m \in Maps /\ Followed(m) /\ new[p] # None
      BY <1>2, <1>i, <2>1, MapsType, NoneAssumption DEF LockPhase, Following, IndexOf
    <2>3. Index' = new[p] /\ Selection' = Selection /\ SelectionChanged(p)' = SelectionChanged(p)
      BY <1>2, <2>1, <2>2 DEF Index, Selection, SelectionChanged
    <2>4. LookingUp(p)'
      BY <2>1 DEF LookingUp
    <2>5. CASE Does(p, "remove")
      <3>1. pc'[p] = "empty"
        BY <2>1, <2>5
      <3>2. /\ new[p] = Drop(m, cmd[p].id)
            /\ lock = None \/ cmd[p].id \notin Selection
        BY <1>2, <2>1, <2>5 DEF LockPhase, Removing
      <3>3. Followed(new[p])
        BY <2>2, <3>2, FollowedDrop
      <3>4. Followed(Index)'
        BY <2>1, <2>3, <3>3 DEF Followed
      <3>5. Locking(p)' /\ Installing(p)' /\ Removing(p)'
        BY <1>2, <2>5, <3>1 DEF Locking, Installing, Removing
      <3>6. Following(p)'
        BY <3>1, <3>4 DEF Following, IndexOf
      <3> QED
        BY <2>4, <3>4, <3>5, <3>6 DEF LockPhase
    <2>6. CASE Does(p, "install")
      <3>1. /\ pc'[p] \in {"asideSelection", "unlock"}
            /\ pc'[p] = "asideSelection" => SelectionChanged(p)
        BY <2>1, <2>6
      <3>2. /\ new[p] = Put(m, cmd[p].id, cmd[p].digest)
            /\ sel[p] = Selection /\ Agrees(found[p], m)
        BY <1>2, <2>1, <2>6 DEF LockPhase, Installing
      <3>3. Locking(p)' /\ Removing(p)'
        BY <1>2, <2>6, <3>1 DEF Locking, Removing
      <3>4. Installing(p)'
        BY <1>2, <2>3, <3>1 DEF Installing
      <3>5. ASSUME ~ SelectionChanged(p), ~ ContentChanged(p)
            PROVE  Followed(new[p])
        <4>1. cmd[p].id \notin Selection \/ (cmd[p].id \in DOMAIN m /\ m[cmd[p].id] = cmd[p].digest)
          BY <3>2, <3>5 DEF ContentChanged, Agrees
        <4> QED
          BY <2>2, <3>2, <4>1, FollowedPut
      <3>6. ContentChanged(p)' = ContentChanged(p)
        BY <1>2, <2>1 DEF ContentChanged
      <3>7. (At(p, "unlock") /\ ~ SelectionChanged(p) /\ ~ ContentChanged(p) => Followed(Index))'
        BY <2>1, <2>3, <3>5, <3>6 DEF Followed
      <3>8. Following(p)'
        BY <1>2, <2>6, <3>1, <3>7 DEF Following
      <3>9. pc'[p] \in Running
        BY <3>1 DEF Running
      <3> QED
        BY <2>4, <3>3, <3>4, <3>8, <3>9 DEF LockPhase
    <2>7. Does(p, "install") \/ Does(p, "remove")
      BY <1>2, <2>1, CommandsType DEF Course, Final, LockPhase, Locking
    <2> QED
      BY <2>5, <2>6, <2>7
  <1>13. CASE AsideSelection(p) \/ ReplaceSelection(p)
    <2>1. /\ pc[p] \in SelectionSteps /\ pc'[p] \in {"replaceSelection", "unlock"}
          /\ sel' = sel
      BY <1>13 DEF AsideSelection, ReplaceSelection
    <2>2. /\ Does(p, "remove") \/ Does(p, "install")
          /\ Does(p, "install") => SelectionChanged(p)
      BY <1>2, <2>1 DEF LockPhase, Following, Installing
    <2>3. SelectionChanged(p)' = SelectionChanged(p)
      BY <1>2, <2>1 DEF SelectionChanged
    <2>4. LookingUp(p)' /\ Locking(p)' /\ Removing(p)' /\ Installing(p)'
      BY <1>2, <2>1, <2>2, <2>3 DEF LookingUp, Locking, Removing, Installing, LockPhase
    <2>5. Following(p)'
      BY <1>2, <2>1, <2>2, <2>3 DEF Following
    <2>6. pc'[p] \in Running
      BY <2>1 DEF Running
    <2> QED
      BY <2>4, <2>5, <2>6 DEF LockPhase
  <1>14. CASE Unlock(p)
    <2>1. /\ index' = index /\ selection' = selection /\ pc[p] = "unlock"
          /\ pc'[p] = IF Does(p, "remove") THEN "readIndex" ELSE "done"
          /\ lock' = IF Does(p, "remove") \/ SelectionChanged(p) \/ ContentChanged(p)
                       THEN None ELSE lock
      BY <1>14 DEF Unlock
    <2>2. Index' = Index /\ Selection' = Selection
      BY <2>1 DEF Index, Selection
    <2>3. Followed(Index)'
      <3>1. lock' = None \/ (lock' = lock /\ Followed(Index))
        BY <1>2, <2>1 DEF LockPhase, Following
      <3> QED
        BY <2>2, <3>1 DEF Followed
    <2>4. CASE Does(p, "remove")
      <3>1. pc'[p] = "readIndex" /\ lock' = None
        BY <2>1, <2>4
      <3>2. LookingUp(p)' /\ Locking(p)' /\ Installing(p)' /\ Removing(p)'
        BY <1>2, <2>4, <3>1 DEF LookingUp, Locking, Installing, Removing
      <3>3. Following(p)'
        BY <2>3, <3>1 DEF Following, IndexOf
      <3> QED
        BY <2>3, <3>2, <3>3 DEF LockPhase
    <2>5. CASE ~ Does(p, "remove")
      <3>1. pc'[p] = "done"
        BY <2>1, <2>5
      <3> QED
        BY <2>3, <3>1 DEF Running, StoreSteps
    <2> QED
      BY <2>4, <2>5
  <1>15. CASE EmptyDirectory(p) \/ RemoveDirectory(p)
    <2>1. /\ index' = index /\ selection' = selection /\ lock' = lock
          /\ pc[p] \in {"empty", "rmdir"} /\ pc'[p] \in {"empty", "rmdir", "done", "failed"}
      BY <1>15 DEF EmptyDirectory, RemoveDirectory
    <2>2. Index' = Index /\ Selection' = Selection
      BY <2>1 DEF Index, Selection
    <2>3. Followed(Index)'
      BY <1>2, <2>1, <2>2 DEF LockPhase, Following, IndexOf, Followed
    <2>4. ~ Does(p, "install") /\ ~ Does(p, "lock")
      BY <1>2, <2>1 DEF LockPhase, Installing, Locking
    <2>5. LookingUp(p)' /\ Locking(p)' /\ Removing(p)' /\ Installing(p)'
      BY <1>2, <2>1, <2>4 DEF LookingUp, Locking, Removing, Installing
    <2>6. Following(p)'
      BY <2>1, <2>3 DEF Following, IndexOf
    <2> QED
      BY <2>3, <2>5, <2>6 DEF LockPhase
  <1>16. CASE WriteLock(p)
    <2>1. /\ index' = index /\ selection' = selection /\ lock' = found[p]
          /\ pc[p] = "writeLock" /\ pc'[p] = "done"
      BY <1>16 DEF WriteLock
    <2>2. Index' = Index /\ Selection' = Selection
      BY <2>1 DEF Index, Selection
    <2>3. found[p] = Restrict(Index, Selection \cap DOMAIN Index)
      <3>1. DOMAIN found[p] = Selection /\ Agrees(found[p], Index)
        BY <1>2, <2>1 DEF LockPhase, Locking
      <3> QED
        BY <1>i, <3>1, AgreesIsRestrict
    <2>4. Followed(Index)'
      BY <2>1, <2>2, <2>3 DEF Followed
    <2> QED
      BY <2>1, <2>4 DEF Running, StoreSteps
  <1>17. CASE Compare(p)
    <2>1. /\ index' = index /\ selection' = selection /\ lock' = lock
          /\ pc[p] = "compare" /\ pc'[p] \in {"done", "failed"}
      BY <1>17 DEF Compare
    <2>2. Index' = Index /\ Selection' = Selection
      BY <2>1 DEF Index, Selection
    <2>3. Followed(Index)'
      BY <1>2, <2>1, <2>2 DEF LockPhase, Following, IndexOf, Followed
    <2> QED
      BY <2>1, <2>3 DEF Running, StoreSteps
  <1> QED
    BY <1>3, <1>4, <1>5, <1>6, <1>7, <1>8, <1>9, <1>10, <1>11, <1>12, <1>13, <1>14, <1>15,
       <1>16, <1>17 DEF Step

(* What commands know of each other's files is kept by every step.         *)
LEMMA FilesStep ==
    ASSUME IInv, OneAtATime, StoredInv, LockInv, [Next]_vars
    PROVE  OneAtATime' /\ StoredInv' /\ LockInv'
  <1>1. ASSUME NEW p \in Procs, Step(p) \/ Stop(p) \/ ReplaceFails(p)
        PROVE  OneAtATime' /\ StoredInv' /\ LockInv'
    BY <1>1, Alone, StoredStep, LockStep DEF IInv
  <1>2. CASE UNCHANGED vars
    <2> USE <1>2 DEF vars, files, locals, history, At, Does
    <2>1. OneAtATime'
      BY DEF OneAtATime
    <2>2. StoredInv'
      BY DEF StoredInv, StoredPhase, AllStored, Stored
    <2>3. \A p \in Procs : LookingUp(p) = LookingUp(p)' /\ Locking(p) = Locking(p)'
      BY DEF LookingUp, Locking, Agrees, Index, Selection
    <2>4. \A p \in Procs : Removing(p) = Removing(p)' /\ Installing(p) = Installing(p)'
      BY DEF Removing, Installing, Agrees, IndexOf, Index, Selection, SelectionChanged
    <2>5. \A p \in Procs : Following(p) = Following(p)'
      BY DEF Following, Followed, IndexOf, Index, Selection, SelectionChanged, ContentChanged
    <2>6. Followed(Index) = Followed(Index)'
      BY DEF Followed, Index, Selection
    <2>7. LockInv'
      BY <2>3, <2>4, <2>5, <2>6 DEF LockInv, LockPhase
    <2> QED
      BY <2>1, <2>2, <2>7
  <1> QED
    BY <1>1, <1>2 DEF Next

(* In every state what the commands know is so.                            *)
THEOREM FilesInductive == Spec => [](OneAtATime /\ StoredInv /\ LockInv)
  BY FilesInit, FilesStep, Inductive, PTL DEF Spec

(* Unless two commands overlap, every pack of the index has its directory, *)
(* wherever commands stop and whatever call fails (store::install,         *)
(* store::remove).                                                         *)
THEOREM IndexHolds == Spec => []IndexNeverDangles
  <1>1. StoredInv => IndexNeverDangles
    BY DEF StoredInv, AllStored, Stored, IndexNeverDangles
  <1> QED
    BY <1>1, FilesInductive, PTL

(* Unless two commands overlap or one is stopped, a lock that exists is    *)
(* the one of the selection and of the installed contents: whoever changes *)
(* one of them removes the lock.                                           *)
THEOREM LockIsCurrent == Spec => []LockFollowsSelection
  <1>1. LockInv => LockFollowsSelection
    BY DEF LockInv, Followed, LockFollowsSelection
  <1> QED
    BY <1>1, FilesInductive, PTL
==============================================================================
