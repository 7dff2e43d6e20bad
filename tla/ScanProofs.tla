------------------------------ MODULE ScanProofs ------------------------------
(***************************************************************************)
(* Proofs about what a scan works with. Snapshot, for any number of files, *)
(* edits, commits and moves of HEAD: a report mixes contents only of a     *)
(* file that changed and changed back under the scan, and a verdict of     *)
(* current is about the contents the report analysed. TokenCache, for any  *)
(* files, limits, scans, prunes and damage: what a scan takes from the     *)
(* cache is what the file's text would give, and a scan that ends well     *)
(* left the cache within its limits. Configuration, for any edits and      *)
(* interruptions: a migration keeps every setting but the context bands.   *)
(* Of the texts and the defaults only DefaultsAssumption is used.          *)
(***************************************************************************)
EXTENDS MCScan, Induction, TLAPS

(***************************************************************************)
(* Types.                                                                  *)
(***************************************************************************)

ReadType == [content : Contents, edits : Nat]

ScanType ==
    [phase : {"status", "start", "inventory", "endStatus", "endContent"},
     head : Nat, moves : Nat, status : (SUBSET Files) \cup {None},
     start : Seq(ReadType), analysed : Seq(ReadType), reads : Seq(ReadType)]

ReportType ==
    [head : Nat, status : (SUBSET Files) \cup {None}, start : Seq(Contents),
     analysed : Seq(Contents), returned : SUBSET Nat, headMoved : BOOLEAN]

CheckType ==
    [of : ReportType, head : Nat, moves : Nat, headMoved : BOOLEAN,
     current : BOOLEAN \cup {None}]

TypeOK ==
    /\ disk \in [Files -> Contents]
    /\ edits \in [Files -> Nat]
    /\ commits \in Seq([Files -> Contents])
    /\ head \in DOMAIN commits
    /\ moves \in Nat
    /\ drifted \in BOOLEAN
    /\ scan \in ScanType \cup {None}
    /\ report \in ReportType \cup {None}
    /\ check \in CheckType \cup {None}

(***************************************************************************)
(* The inductive invariant.                                                *)
(***************************************************************************)

(* Of two sights of a file, the second is the later one: it counts no      *)
(* fewer changes, and more if the content differs.                         *)
Before(a, b) ==
    /\ a.edits <= b.edits
    /\ a.content # b.content => a.edits < b.edits

(* What a read of the i-th path would see.                                 *)
Now(i) == [content |-> disk[Paths[i]], edits |-> edits[Paths[i]]]

(* The i-th file had the content of the scan's HEAD, after it was analysed *)
(* and before what the scan reads at the end.                              *)
Seen(i, n) ==
    LET c == [content |-> commits[scan.head][Paths[i]], edits |-> n]
    IN /\ Before(scan.analysed[i], c)
       /\ Before(c, Now(i))
       /\ i \in DOMAIN scan.reads => Before(c, scan.reads[i])

(* How far the scan is in each phase.                                      *)
ScanLengths ==
    /\ Len(scan.reads) < Len(Paths)
    /\ scan.phase \in {"status", "endStatus"} => scan.reads = <<>>
    /\ scan.phase \in {"status", "start"} => scan.start = <<>> /\ scan.analysed = <<>>
    /\ scan.phase = "inventory" => scan.analysed = <<>>
    /\ scan.phase \in {"inventory", "endStatus", "endContent"} =>
          Len(scan.start) = Len(Paths)
    /\ scan.phase \in {"endStatus", "endContent"} =>
          Len(scan.analysed) = Len(Paths)

(* The reads of a scan follow one another, and the present follows them.   *)
ScanOrder ==
    /\ \A i \in DOMAIN scan.start : Before(scan.start[i], Now(i))
    /\ \A i \in DOMAIN scan.analysed :
          Before(scan.start[i], scan.analysed[i]) /\ Before(scan.analysed[i], Now(i))
    /\ \A i \in DOMAIN scan.reads :
          /\ Before(scan.reads[i], Now(i))
          /\ scan.phase = "inventory" => Before(scan.start[i], scan.reads[i])
          /\ scan.phase = "endContent" => Before(scan.analysed[i], scan.reads[i])

ScanInv ==
    scan # None =>
       /\ ScanLengths
       /\ ScanOrder
       /\ scan.head \in DOMAIN commits
       /\ scan.moves <= moves
       /\ scan.moves = moves => scan.head = head
       /\ scan.phase = "endContent" /\ scan.moves = moves =>
             \A i \in DOMAIN Paths : Paths[i] \notin scan.status => \E n \in Nat : Seen(i, n)

(* What a report says of the contents, and of the commit it is of.         *)
Sound(r) ==
    /\ r.head \in DOMAIN commits
    /\ \A i \in DOMAIN Paths :
          /\ r.analysed[i] = r.start[i] \/ i \in r.returned
          /\ ~ r.headMoved /\ Paths[i] \notin r.status =>
                r.analysed[i] = commits[r.head][Paths[i]] \/ i \in r.returned

CheckInv ==
    check # None =>
       /\ Sound(check.of)
       /\ check.moves <= moves
       /\ check.moves = moves => check.head = head

IInv ==
    /\ TypeOK
    /\ ScanInv
    /\ report # None => Sound(report)
    /\ CheckInv

(***************************************************************************)
(* Lemmas.                                                                 *)
(***************************************************************************)

(* One sight of a file comes before itself, and the order is transitive.   *)
LEMMA BeforeFacts ==
    /\ \A a \in ReadType : Before(a, a)
    /\ \A a, b, c \in ReadType : Before(a, b) /\ Before(b, c) => Before(a, c)
  BY DEF Before, ReadType

(* Every path is tracked, and what a read would see is a read.             *)
LEMMA NowFacts ==
    ASSUME ConstantTypes, TypeOK
    PROVE  /\ Len(Paths) \in Nat \ {0} /\ DOMAIN Paths = 1 .. Len(Paths)
           /\ \A i \in DOMAIN Paths : Paths[i] \in Files /\ Now(i) \in ReadType
  <1>1. Len(Paths) \in Nat \ {0} /\ DOMAIN Paths = 1 .. Len(Paths)
    BY DEF ConstantTypes
  <1>2. \A i \in DOMAIN Paths : Paths[i] \in Files
    BY <1>1 DEF ConstantTypes
  <1> QED
    BY <1>1, <1>2 DEF Now, ReadType, TypeOK

(* The length of what has been read, and its parts.                        *)
LEMMA ReadsFacts ==
    ASSUME NEW s \in Seq(ReadType)
    PROVE  /\ Len(s) \in Nat /\ DOMAIN s = 1 .. Len(s)
           /\ \A i \in DOMAIN s : s[i] \in ReadType
  OBVIOUS

(* Nothing read yet.                                                       *)
LEMMA NoReads == <<>> \in Seq(ReadType) /\ Len(<<>>) = 0 /\ DOMAIN <<>> = {}
  OBVIOUS

(* Reading one more path.                                                  *)
LEMMA AppendRead ==
    ASSUME NEW s \in Seq(ReadType), NEW r \in ReadType
    PROVE  /\ Append(s, r) \in Seq(ReadType)
           /\ Len(Append(s, r)) = Len(s) + 1
           /\ DOMAIN Append(s, r) = 1 .. Len(s) + 1
           /\ \A i \in DOMAIN s : Append(s, r)[i] = s[i]
           /\ Append(s, r)[Len(s) + 1] = r
  OBVIOUS

(* What a scan has read is of paths, in their order.                       *)
LEMMA ReadFacts ==
    ASSUME ConstantTypes, TypeOK, scan # None, ScanLengths
    PROVE  /\ scan \in ScanType
           /\ \A s \in {scan.start, scan.analysed, scan.reads} :
                 /\ s \in Seq(ReadType)
                 /\ \A i \in DOMAIN s : i \in DOMAIN Paths /\ s[i] \in ReadType
  <1>1. scan \in ScanType
    BY DEF TypeOK
  <1>2. /\ scan.start \in Seq(ReadType) /\ scan.analysed \in Seq(ReadType)
        /\ scan.reads \in Seq(ReadType)
        /\ scan.phase \in {"status", "start", "inventory", "endStatus", "endContent"}
    BY <1>1 DEF ScanType
  <1>3. /\ Len(scan.start) <= Len(Paths) /\ Len(scan.analysed) <= Len(Paths)
        /\ Len(scan.reads) <= Len(Paths)
    <2>1. Len(Paths) \in Nat /\ Len(scan.reads) \in Nat
      <3>1. Len(Paths) \in Nat
        BY NowFacts
      <3>2. Len(scan.reads) \in Nat
        BY <1>2, ReadsFacts
      <3> QED
        BY <3>1, <3>2
    <2>2. /\ scan.start = <<>> \/ Len(scan.start) = Len(Paths)
          /\ scan.analysed = <<>> \/ Len(scan.analysed) = Len(Paths)
      BY <1>2 DEF ScanLengths
    <2>3. Len(scan.reads) < Len(Paths)
      BY DEF ScanLengths
    <2> QED
      BY <2>1, <2>2, <2>3
  <1>4. ASSUME NEW s \in Seq(ReadType), Len(s) <= Len(Paths), NEW i \in DOMAIN s
        PROVE  i \in DOMAIN Paths /\ s[i] \in ReadType
    BY <1>4, NowFacts, ReadsFacts
  <1> QED
    BY <1>1, <1>2, <1>3, <1>4

(* At the start nothing is read, reported or judged.                       *)
LEMMA InitInv ==
    ASSUME ConstantTypes PROVE Init => IInv
  <1> SUFFICES ASSUME Init PROVE IInv
    OBVIOUS
  <1>1. 1 \in DOMAIN Trees /\ Trees[1] \in [Files -> Contents]
    BY DEF ConstantTypes
  <1>2. TypeOK
    BY <1>1 DEF Init, TypeOK, ConstantTypes
  <1> QED
    BY <1>2 DEF Init, IInv, ScanInv, CheckInv

(***************************************************************************)
(* People preserve the invariant.                                          *)
(***************************************************************************)

(* What people do comes after what has been read, and leaves the commits   *)
(* that exist as they are.                                                 *)
WorldLater ==
    /\ disk' \in [Files -> Contents]
    /\ edits' \in [Files -> Nat]
    /\ commits' \in Seq([Files -> Contents])
    /\ head' \in DOMAIN commits'
    /\ moves' \in Nat
    /\ \A i \in DOMAIN Paths : Before(Now(i), Now(i)')
    /\ DOMAIN commits \subseteq DOMAIN commits'
    /\ \A h \in DOMAIN commits : commits'[h] = commits[h]
    /\ moves <= moves' /\ (moves' = moves => head' = head)

(* What people do under a scan or a verdict keeps the invariant.           *)
LEMMA LaterInv ==
    ASSUME ConstantTypes, IInv, WorldLater, UNCHANGED <<scan, report, check>>,
           drifted' \in BOOLEAN
    PROVE  IInv'
  <1>1. TypeOK'
    BY DEF WorldLater, IInv, TypeOK
  <1>2. \A i \in DOMAIN Paths : Now(i) \in ReadType /\ Now(i)' \in ReadType
    BY <1>1, NowFacts DEF IInv, Now, ReadType, TypeOK
  <1>3. \A i \in DOMAIN Paths, r \in ReadType : Before(r, Now(i)) => Before(r, Now(i)')
    BY <1>2, BeforeFacts DEF WorldLater
  <1>4. ASSUME scan # None
        PROVE  /\ scan \in ScanType
               /\ \A t \in {scan.start, scan.analysed, scan.reads} :
                     \A i \in DOMAIN t : i \in DOMAIN Paths /\ t[i] \in ReadType
    BY <1>4, ReadFacts DEF IInv, ScanInv
  <1>5. ASSUME scan # None PROVE ScanOrder'
    BY <1>3, <1>4, <1>5 DEF IInv, ScanInv, ScanOrder
  <1>6. ASSUME scan # None
        PROVE  /\ scan.moves <= moves'
               /\ scan.moves = moves' => moves' = moves /\ scan.head = head'
    <2>1. scan.moves \in Nat /\ moves \in Nat /\ moves' \in Nat
      BY <1>1, <1>4, <1>6 DEF IInv, TypeOK, ScanType
    <2> QED
      <3>1. scan.moves <= moves /\ (scan.moves = moves => scan.head = head)
        BY <1>6 DEF IInv, ScanInv
      <3>2. moves <= moves' /\ (moves' = moves => head' = head)
        BY DEF WorldLater
      <3> QED
        BY <2>1, <3>1, <3>2
  <1>7. ASSUME scan # None, scan.phase = "endContent", scan.moves = moves',
               NEW i \in DOMAIN Paths, Paths[i] \notin scan.status
        PROVE  \E n \in Nat : Seen(i, n)'
    <2>1. PICK n \in Nat : Seen(i, n)
      BY <1>6, <1>7 DEF IInv, ScanInv
    <2>2. commits[scan.head] \in [Files -> Contents]
      <3>1. scan.head \in DOMAIN commits
        BY <1>7 DEF IInv, ScanInv
      <3>2. commits \in Seq([Files -> Contents])
        BY DEF IInv, TypeOK
      <3> QED
        BY <3>1, <3>2
    <2>3. [content |-> commits[scan.head][Paths[i]], edits |-> n] \in ReadType
      BY <2>2, NowFacts DEF ReadType, IInv
    <2>4. commits'[scan.head] = commits[scan.head]
      BY <1>7 DEF IInv, ScanInv, WorldLater
    <2> QED
      BY <1>3, <2>1, <2>3, <2>4 DEF Seen
  <1>8. ScanInv'
    <2>1. ASSUME scan # None PROVE ScanLengths' /\ scan.head \in DOMAIN commits'
      BY <2>1 DEF IInv, ScanInv, ScanLengths, WorldLater
    <2> QED
      BY <1>5, <1>6, <1>7, <2>1 DEF ScanInv
  <1>9. \A r : Sound(r) => Sound(r)'
    BY DEF Sound, WorldLater
  <1>10. CheckInv'
    BY <1>9 DEF IInv, CheckInv, WorldLater, TypeOK, CheckType
  <1> QED
    BY <1>1, <1>8, <1>9, <1>10 DEF IInv

(* A file that changes has one more change.                                *)
LEMMA RewriteLater ==
    ASSUME ConstantTypes, TypeOK, NEW tree \in [Files -> Contents], Rewrite(tree)
    PROVE  /\ disk' \in [Files -> Contents] /\ edits' \in [Files -> Nat]
           /\ \A i \in DOMAIN Paths : Before(Now(i), Now(i)')
  <1>1. disk' \in [Files -> Contents] /\ edits' \in [Files -> Nat]
    BY DEF Rewrite, TypeOK
  <1>2. ASSUME NEW f \in Files
        PROVE  /\ edits[f] <= edits'[f]
               /\ disk[f] # disk'[f] => edits[f] < edits'[f]
    BY DEF Rewrite, TypeOK
  <1> QED
    BY <1>1, <1>2, NowFacts DEF Before, Now

(* Edits, commits and moves of HEAD come after what has been read.         *)
LEMMA PeopleInv ==
    ASSUME ConstantTypes, IInv, Edit \/ Commit \/ MoveHead \/ Drift PROVE IInv'
  <1>1. CASE Edit
    <2>1. PICK f \in Files, c \in Contents : Rewrite([disk EXCEPT ![f] = c])
      BY <1>1 DEF Edit
    <2>2. [disk EXCEPT ![f] = c] \in [Files -> Contents]
      BY DEF IInv, TypeOK
    <2>3. /\ disk' \in [Files -> Contents] /\ edits' \in [Files -> Nat]
          /\ \A i \in DOMAIN Paths : Before(Now(i), Now(i)')
      BY <2>1, <2>2, RewriteLater DEF IInv
    <2>4. WorldLater
      BY <1>1, <2>3 DEF Edit, WorldLater, IInv, TypeOK
    <2> QED
      BY <1>1, <2>4, LaterInv DEF Edit, IInv, TypeOK
  <1>2. CASE Commit
    <2>1. WorldLater
      <3>1. \A i \in DOMAIN Paths : Now(i)' = Now(i)
        BY <1>2 DEF Commit, Now
      <3>2. /\ commits' \in Seq([Files -> Contents])
            /\ head' \in DOMAIN commits'
            /\ DOMAIN commits \subseteq DOMAIN commits'
            /\ \A h \in DOMAIN commits : commits'[h] = commits[h]
        BY <1>2 DEF Commit, IInv, TypeOK
      <3> QED
        BY <1>2, <3>1, <3>2, NowFacts, BeforeFacts DEF Commit, WorldLater, IInv, TypeOK
    <2> QED
      BY <1>2, <2>1, LaterInv DEF Commit, IInv, TypeOK
  <1>3. CASE MoveHead
    <2>1. PICK i \in DOMAIN commits \ {head} :
            head' = i /\ (Rewrite(commits[i]) \/ UNCHANGED <<disk, edits>>)
      BY <1>3 DEF MoveHead
    <2>2. commits[i] \in [Files -> Contents]
      BY DEF IInv, TypeOK
    <2>3. /\ disk' \in [Files -> Contents] /\ edits' \in [Files -> Nat]
          /\ \A j \in DOMAIN Paths : Before(Now(j), Now(j)')
      <3>1. CASE Rewrite(commits[i])
        BY <2>2, <3>1, RewriteLater DEF IInv
      <3>2. CASE UNCHANGED <<disk, edits>>
        BY <3>2, NowFacts, BeforeFacts DEF Now, IInv, TypeOK
      <3> QED
        BY <2>1, <3>1, <3>2
    <2>4. WorldLater
      BY <1>3, <2>1, <2>3 DEF MoveHead, WorldLater, IInv, TypeOK
    <2> QED
      BY <1>3, <2>4, LaterInv DEF MoveHead, IInv, TypeOK
  <1>4. CASE Drift
    <2>1. WorldLater
      BY <1>4, NowFacts, BeforeFacts DEF Drift, WorldLater, Now, IInv, TypeOK
    <2> QED
      BY <1>4, <2>1, LaterInv DEF Drift
  <1> QED
    BY <1>1, <1>2, <1>3, <1>4

(***************************************************************************)
(* The scan preserves the invariant.                                       *)
(***************************************************************************)

(* A step of the scan changes the scan only.                               *)
LEMMA ScanStep ==
    ASSUME IInv, Quiet, report' = report, scan' \in ScanType \cup {None}, ScanInv'
    PROVE  IInv'
  <1>1. TypeOK'
    BY DEF IInv, TypeOK, Quiet
  <1>2. \A r : Sound(r)' <=> Sound(r)
    BY DEF Sound, Quiet
  <1> QED
    BY <1>1, <1>2 DEF IInv, CheckInv, Quiet

(* A scan starts with nothing read, at the present HEAD.                   *)
LEMMA StartScanInv ==
    ASSUME ConstantTypes, IInv, StartScan PROVE IInv'
  <1>1. head \in Nat /\ moves \in Nat
    BY DEF IInv, TypeOK
  <1>2. scan' \in ScanType
    <2>1. /\ scan'.phase = "status" /\ scan'.head = head /\ scan'.moves = moves
          /\ scan'.status = None
          /\ scan'.start = <<>> /\ scan'.analysed = <<>> /\ scan'.reads = <<>>
      BY DEF StartScan
    <2>2. /\ head \in Nat /\ moves \in Nat /\ None \in (SUBSET Files) \cup {None}
          /\ <<>> \in Seq(ReadType)
      BY <1>1, NoReads
    <2> QED
      BY <2>2 DEF StartScan, ScanType
  <1>3. ScanLengths' /\ ScanOrder'
    BY NowFacts DEF StartScan, ScanLengths, ScanOrder, IInv
  <1>4. ScanInv'
    BY <1>1, <1>3 DEF StartScan, Quiet, ScanInv, IInv, TypeOK
  <1> QED
    BY <1>2, <1>4, ScanStep DEF StartScan

(* The first status comes before any content.                              *)
LEMMA StartStatusInv ==
    ASSUME ConstantTypes, IInv, StartStatus PROVE IInv'
  <1>1. scan # None /\ scan.phase = "status" /\ scan \in ScanType
    BY DEF StartStatus, At, IInv, TypeOK
  <1>2. Status \subseteq Files
    BY DEF Status
  <1>3. /\ scan' \in ScanType /\ scan'.phase = "start"
        /\ \A field \in {"head", "moves", "start", "analysed", "reads"} :
              scan'[field] = scan[field]
    BY <1>1, <1>2 DEF StartStatus, ScanType
  <1>4. scan.start = <<>> /\ scan.analysed = <<>> /\ scan.reads = <<>>
    BY <1>1 DEF IInv, ScanInv, ScanLengths
  <1>5. ScanLengths' /\ ScanOrder'
    BY <1>1, <1>3, <1>4, NowFacts DEF ScanLengths, ScanOrder, IInv
  <1>6. ScanInv'
    BY <1>1, <1>3, <1>5 DEF StartStatus, Quiet, ScanInv, IInv
  <1> QED
    BY <1>3, <1>6, ScanStep DEF StartStatus

(* One more path is read.                                                  *)
LEMMA NextRead ==
    ASSUME ConstantTypes, IInv, scan # None
    PROVE  LET reads == Append(scan.reads, Read)
           IN /\ reads \in Seq(ReadType)
              /\ Len(reads) \in 1 .. Len(Paths) /\ Len(reads) = Len(scan.reads) + 1
              /\ DOMAIN reads = 1 .. Len(reads)
              /\ reads[Len(reads)] = Now(Len(reads))
              /\ \A i \in DOMAIN reads :
                    /\ i # Len(reads) => i \in DOMAIN scan.reads /\ reads[i] = scan.reads[i]
                    /\ i \in DOMAIN Paths /\ reads[i] \in ReadType
                    /\ Before(reads[i], Now(i))
  <1> DEFINE n == Len(scan.reads) + 1
             reads == Append(scan.reads, Read)
  <1>1. /\ scan.reads \in Seq(ReadType)
        /\ \A i \in DOMAIN scan.reads : Before(scan.reads[i], Now(i))
    BY ReadFacts DEF IInv, ScanInv, ScanOrder
  <1>2. Len(scan.reads) \in Nat /\ DOMAIN scan.reads = 1 .. Len(scan.reads)
    BY <1>1, ReadsFacts
  <1>3. Len(scan.reads) < Len(Paths)
    BY DEF IInv, ScanInv, ScanLengths
  <1>4. n \in DOMAIN Paths
    BY <1>2, <1>3, NowFacts DEF IInv
  <1>5. Read = Now(n) /\ Read \in ReadType
    BY <1>4, NowFacts DEF Read, NextPath, Now, IInv
  <1>6. /\ reads \in Seq(ReadType) /\ Len(reads) = n /\ DOMAIN reads = 1 .. n
        /\ \A i \in DOMAIN scan.reads : reads[i] = scan.reads[i]
        /\ reads[n] = Now(n)
    BY <1>1, <1>5, AppendRead
  <1>7. Len(reads) \in 1 .. Len(Paths)
    BY <1>2, <1>3, <1>6, NowFacts DEF IInv
  <1>8. Before(Now(n), Now(n))
    BY <1>5, BeforeFacts
  <1>9. ASSUME NEW i \in DOMAIN reads
        PROVE  /\ i # n => i \in DOMAIN scan.reads /\ reads[i] = scan.reads[i]
               /\ i \in DOMAIN Paths /\ reads[i] \in ReadType
               /\ Before(reads[i], Now(i))
    <2>1. i # n => i \in DOMAIN scan.reads
      BY <1>2, <1>6, <1>9
    <2>2. i \in DOMAIN Paths
      BY <1>2, <1>3, <1>6, <1>9, NowFacts DEF IInv
    <2> QED
      BY <1>1, <1>6, <1>8, <1>9, <2>1, <2>2, ReadsFacts
  <1> QED
    BY <1>6, <1>7, <1>9

(* The first contents are read in the order of the paths.                  *)
LEMMA StartContentInv ==
    ASSUME ConstantTypes, IInv, StartContent PROVE IInv'
  <1> DEFINE reads == Append(scan.reads, Read)
  <1>1. /\ scan # None /\ scan.phase = "start" /\ scan \in ScanType
        /\ scan.start = <<>> /\ scan.analysed = <<>>
    BY DEF StartContent, ReadFile, At, IInv, TypeOK, ScanInv, ScanLengths
  <1>2. /\ reads \in Seq(ReadType) /\ Len(reads) \in 1 .. Len(Paths)
        /\ \A i \in DOMAIN reads : Before(reads[i], Now(i))
    BY <1>1, NextRead
  <1>3. \A i : Now(i)' = Now(i)
    BY DEF StartContent, ReadFile, Quiet, Now
  <1>4. CASE AllRead(reads)
    <2>1. scan' = [scan EXCEPT !.phase = "inventory", !.reads = <<>>, !.start = reads]
      BY <1>4 DEF StartContent, ReadFile
    <2>2. /\ scan' \in ScanType /\ scan'.phase = "inventory"
          /\ scan'.reads = <<>> /\ scan'.start = reads /\ scan'.analysed = <<>>
          /\ scan'.head = scan.head /\ scan'.moves = scan.moves
      BY <1>1, <1>2, <2>1 DEF ScanType
    <2>3. ScanLengths' /\ ScanOrder'
      <3>0. Len(Paths) \in Nat \ {0}
        BY NowFacts DEF IInv
      <3>1. ScanLengths'
        BY <1>2, <1>3, <1>4, <2>2, <3>0, NoReads
          DEF ScanLengths, AllRead
      <3>2. ScanOrder'
        BY <1>2, <1>3, <1>4, <2>2, NoReads DEF ScanOrder, IInv, ScanInv
      <3> QED
        BY <3>1, <3>2
    <2> QED
      BY <1>1, <2>2, <2>3, ScanStep DEF StartContent, ReadFile, ScanInv, Quiet, IInv
  <1>5. CASE ~ AllRead(reads)
    <2>1. scan' = [scan EXCEPT !.reads = reads]
      BY <1>5 DEF StartContent, ReadFile
    <2>2. /\ scan' \in ScanType /\ scan'.phase = "start" /\ scan'.reads = reads
          /\ scan'.start = scan.start /\ scan'.analysed = <<>>
          /\ scan'.head = scan.head /\ scan'.moves = scan.moves
      BY <1>1, <1>2, <2>1 DEF ScanType
    <2>3. ScanLengths' /\ ScanOrder'
      <3>0. Len(Paths) \in Nat \ {0}
        BY NowFacts DEF IInv
      <3>1. ScanLengths'
        BY <1>1, <1>2, <1>3, <1>5, <2>2, <3>0, NoReads
          DEF ScanLengths, AllRead
      <3>2. ScanOrder'
        BY <1>1, <1>2, <1>3, <1>5, <2>2, NoReads DEF ScanOrder, IInv, ScanInv
      <3> QED
        BY <3>1, <3>2
    <2> QED
      BY <1>1, <2>2, <2>3, ScanStep DEF StartContent, ReadFile, ScanInv, Quiet, IInv
  <1> QED
    BY <1>4, <1>5

(* A file is analysed after its first content was read.                    *)
LEMMA InventoryInv ==
    ASSUME ConstantTypes, IInv, Inventory PROVE IInv'
  <1> DEFINE reads == Append(scan.reads, Read)
  <1>1. /\ scan # None /\ scan.phase = "inventory" /\ scan \in ScanType
        /\ Len(scan.start) = Len(Paths) /\ scan.analysed = <<>>
    BY DEF Inventory, ReadFile, At, IInv, TypeOK, ScanInv, ScanLengths
  <1>2. /\ reads \in Seq(ReadType) /\ Len(reads) \in 1 .. Len(Paths)
        /\ DOMAIN reads = 1 .. Len(reads)
        /\ reads[Len(reads)] = Now(Len(reads))
        /\ \A i \in DOMAIN reads :
              /\ Before(reads[i], Now(i))
              /\ i # Len(reads) => i \in DOMAIN scan.reads /\ reads[i] = scan.reads[i]
    BY <1>1, NextRead
  <1>3. DOMAIN scan.start = 1 .. Len(Paths)
    BY <1>1, ReadFacts, ReadsFacts DEF IInv, ScanInv
  <1>4. \A i \in DOMAIN reads : Before(scan.start[i], reads[i])
    BY <1>1, <1>2, <1>3 DEF IInv, ScanInv, ScanOrder
  <1>5. \A i : Now(i)' = Now(i)
    BY DEF Inventory, ReadFile, Quiet, Now
  <1>6. CASE AllRead(reads)
    <2>1. scan' = [scan EXCEPT !.phase = "endStatus", !.reads = <<>>, !.analysed = reads]
      BY <1>6 DEF Inventory, ReadFile
    <2>2. /\ scan' \in ScanType /\ scan'.phase = "endStatus"
          /\ scan'.reads = <<>> /\ scan'.start = scan.start /\ scan'.analysed = reads
          /\ scan'.head = scan.head /\ scan'.moves = scan.moves
      BY <1>1, <1>2, <2>1 DEF ScanType
    <2>3. ScanLengths' /\ ScanOrder'
      <3>0. Len(Paths) \in Nat \ {0}
        BY NowFacts DEF IInv
      <3>1. ScanLengths'
        BY <1>1, <1>6, <2>2, <3>0, NoReads
          DEF ScanLengths, AllRead
      <3>2. ScanOrder'
        BY <1>1, <1>2, <1>4, <1>5, <1>6, <2>2, NoReads DEF ScanOrder, IInv, ScanInv
      <3> QED
        BY <3>1, <3>2
    <2> QED
      BY <1>1, <2>2, <2>3, ScanStep DEF Inventory, ReadFile, ScanInv, Quiet, IInv
  <1>7. CASE ~ AllRead(reads)
    <2>1. scan' = [scan EXCEPT !.reads = reads]
      BY <1>7 DEF Inventory, ReadFile
    <2>2. /\ scan' \in ScanType /\ scan'.phase = "inventory" /\ scan'.reads = reads
          /\ scan'.start = scan.start /\ scan'.analysed = <<>>
          /\ scan'.head = scan.head /\ scan'.moves = scan.moves
      BY <1>1, <1>2, <2>1 DEF ScanType
    <2>3. ScanLengths' /\ ScanOrder'
      <3>0. Len(Paths) \in Nat \ {0}
        BY NowFacts DEF IInv
      <3>1. ScanLengths'
        BY <1>1, <1>2, <1>7, <2>2, <3>0, NoReads
          DEF ScanLengths, AllRead
      <3>2. ScanOrder'
        BY <1>1, <1>2, <1>4, <1>5, <1>7, <2>2, NoReads DEF ScanOrder, IInv, ScanInv
      <3> QED
        BY <3>1, <3>2
    <2> QED
      BY <1>1, <2>2, <2>3, ScanStep DEF Inventory, ReadFile, ScanInv, Quiet, IInv
  <1> QED
    BY <1>6, <1>7

(* A file that git calls unmodified has the content of the scan's HEAD.    *)
LEMMA EndStatusInv ==
    ASSUME ConstantTypes, IInv, EndStatus PROVE IInv'
  <1>1. /\ scan # None /\ scan.phase = "endStatus" /\ scan \in ScanType
        /\ scan.reads = <<>>
        /\ Len(scan.start) = Len(Paths) /\ Len(scan.analysed) = Len(Paths)
    BY DEF EndStatus, At, IInv, TypeOK, ScanInv, ScanLengths
  <1>2. CASE Status # scan.status
    BY <1>2, ScanStep DEF EndStatus, Abandon, ScanInv
  <1>3. CASE Status = scan.status
    <2>1. /\ scan' \in ScanType /\ scan'.phase = "endContent"
          /\ \A field \in {"head", "moves", "status", "start", "analysed", "reads"} :
                scan'[field] = scan[field]
      BY <1>1, <1>3 DEF EndStatus, ScanType
    <2>2. \A i : Now(i)' = Now(i)
      BY DEF EndStatus, Quiet, Now
    <2>3. ScanLengths' /\ ScanOrder'
      <3>0. Len(Paths) \in Nat \ {0}
        BY NowFacts DEF IInv
      <3>1. ScanLengths'
        BY <1>1, <2>1, <2>2, <3>0, NoReads
          DEF ScanLengths, AllRead
      <3>2. ScanOrder'
        BY <1>1, <2>1, <2>2, NoReads DEF ScanOrder, IInv, ScanInv
      <3> QED
        BY <3>1, <3>2
    <2>4. ASSUME scan.moves = moves, NEW i \in DOMAIN Paths, Paths[i] \notin scan.status
          PROVE  \E n \in Nat : Seen(i, n)'
      <3>1. disk[Paths[i]] = commits[scan.head][Paths[i]]
        <4>1. Paths[i] \in Files /\ scan.head = head
          BY <1>1, <2>4, NowFacts DEF IInv, ScanInv
        <4> QED
          BY <1>3, <2>4, <4>1 DEF Status
      <3>2. Now(i) = [content |-> commits[scan.head][Paths[i]],
                      edits |-> edits[Paths[i]]]
        BY <3>1 DEF Now
      <3>3. Now(i) \in ReadType /\ edits[Paths[i]] \in Nat
        BY NowFacts DEF IInv, TypeOK
      <3>4. Before(scan.analysed[i], Now(i)) /\ Before(Now(i), Now(i))
        <4>1. i \in DOMAIN scan.analysed
          BY <1>1, NowFacts, ReadFacts, ReadsFacts DEF IInv, ScanInv, ScanLengths
        <4> QED
          BY <1>1, <3>3, <4>1, BeforeFacts DEF IInv, ScanInv, ScanOrder
      <3>5. Seen(i, edits[Paths[i]])'
        <4>1. /\ scan'.analysed = scan.analysed /\ scan'.reads = <<>>
              /\ scan'.head = scan.head
          BY <1>1, <2>1
        <4>2. commits' = commits /\ edits' = edits
          BY DEF EndStatus, Quiet
        <4> QED
          BY <2>2, <3>2, <3>4, <4>1, <4>2, NoReads DEF Seen
      <3> QED
        BY <3>3, <3>5 DEF EndStatus, Quiet
    <2>5. ScanInv'
      BY <1>1, <2>1, <2>3, <2>4 DEF EndStatus, Quiet, ScanInv, IInv
    <2> QED
      BY <1>3, <2>1, <2>5, ScanStep DEF EndStatus
  <1> QED
    BY <1>2, <1>3

(* While the scan reads the contents again, the sight of the file that git *)
(* called unmodified stays between the two reads.                          *)
LEMMA EndReadInv ==
    ASSUME ConstantTypes, IInv, EndContent, ~ AllRead(Append(scan.reads, Read))
    PROVE  IInv'
  <1> DEFINE reads == Append(scan.reads, Read)
  <1>1. /\ scan # None /\ scan.phase = "endContent" /\ scan \in ScanType
        /\ Len(scan.start) = Len(Paths) /\ Len(scan.analysed) = Len(Paths)
    BY DEF EndContent, At, IInv, TypeOK, ScanInv, ScanLengths
  <1>2. /\ reads \in Seq(ReadType) /\ Len(reads) \in 1 .. Len(Paths)
        /\ DOMAIN reads = 1 .. Len(reads)
        /\ reads[Len(reads)] = Now(Len(reads))
        /\ \A i \in DOMAIN reads :
              /\ Before(reads[i], Now(i))
              /\ i # Len(reads) => i \in DOMAIN scan.reads /\ reads[i] = scan.reads[i]
    BY <1>1, NextRead
  <1>3. DOMAIN scan.analysed = 1 .. Len(Paths)
    BY <1>1, ReadFacts, ReadsFacts DEF IInv, ScanInv
  <1>4. \A i \in DOMAIN reads : Before(scan.analysed[i], reads[i])
    BY <1>1, <1>2, <1>3 DEF IInv, ScanInv, ScanOrder
  <1>5. \A i : Now(i)' = Now(i)
    BY DEF EndContent, Quiet, Now
  <1>6. scan' = [scan EXCEPT !.reads = reads]
    BY DEF EndContent
  <1>7. /\ scan' \in ScanType /\ scan'.phase = "endContent" /\ scan'.reads = reads
        /\ \A field \in {"head", "moves", "status", "start", "analysed"} :
              scan'[field] = scan[field]
    BY <1>1, <1>2, <1>6 DEF ScanType
  <1>8. ScanLengths'
    <2>1. Len(Paths) \in Nat \ {0}
      BY NowFacts DEF IInv
    <2> QED
      BY <1>1, <1>2, <1>7, <2>1 DEF ScanLengths, AllRead
  <1>9. ScanOrder'
    BY <1>1, <1>2, <1>4, <1>5, <1>7 DEF ScanOrder, IInv, ScanInv
  <1>10. ASSUME NEW i \in DOMAIN Paths, NEW n \in Nat, Seen(i, n) PROVE Seen(i, n)'
    <2>1. /\ scan'.analysed = scan.analysed /\ scan'.head = scan.head
          /\ commits' = commits
      BY <1>7 DEF EndContent, Quiet
    <2> QED
      BY <1>2, <1>5, <1>7, <1>10, <2>1 DEF Seen
  <1>11. ScanInv'
    BY <1>1, <1>7, <1>8, <1>9, <1>10 DEF EndContent, Quiet, ScanInv, IInv
  <1> QED
    BY <1>7, <1>11, ScanStep DEF EndContent

(* Two changes are needed to leave a content and to come back to it.       *)
LEMMA ReturnTakesTwo ==
    ASSUME NEW a \in ReadType, NEW b \in ReadType, NEW c \in ReadType,
           Before(a, b), Before(b, c), a.content = c.content, a.content # b.content
    PROVE  c.edits >= a.edits + 2
  BY DEF Before, ReadType

(* A report is sound: contents that are equal at both ends, and differ in  *)
(* between, are of a file that changed and changed back.                   *)
LEMMA ReportInv ==
    ASSUME ConstantTypes, IInv, EndContent, AllRead(Append(scan.reads, Read))
    PROVE  IInv'
  <1> DEFINE reads == Append(scan.reads, Read)
             back == {i \in DOMAIN reads : reads[i].edits >= scan.start[i].edits + 2}
             made == [head |-> scan.head, status |-> scan.status,
                      start |-> TextsOf(scan.start), analysed |-> TextsOf(scan.analysed),
                      returned |-> back, headMoved |-> moves # scan.moves]
  <1>1. /\ scan # None /\ scan.phase = "endContent" /\ scan \in ScanType
        /\ Len(scan.start) = Len(Paths) /\ Len(scan.analysed) = Len(Paths)
    BY DEF EndContent, At, IInv, TypeOK, ScanInv, ScanLengths
  <1>2. /\ Len(Paths) \in Nat /\ DOMAIN Paths = 1 .. Len(Paths)
        /\ scan.start \in Seq(ReadType) /\ scan.analysed \in Seq(ReadType)
        /\ DOMAIN scan.start = DOMAIN Paths /\ DOMAIN scan.analysed = DOMAIN Paths
    BY <1>1, NowFacts, ReadFacts, ReadsFacts DEF IInv, ScanInv
  <1>3. /\ DOMAIN reads = DOMAIN Paths
        /\ reads[Len(reads)] = Now(Len(reads))
        /\ \A i \in DOMAIN Paths :
              /\ reads[i] \in ReadType /\ Before(reads[i], Now(i))
              /\ i # Len(reads) => i \in DOMAIN scan.reads /\ reads[i] = scan.reads[i]
    BY <1>1, <1>2, NextRead DEF AllRead
  <1>4. /\ scan' = None
        /\ report' = report \/ (UnchangedContent(reads) /\ report' = made)
    <2>1. ASSUME UnchangedContent(reads) PROVE scan' = None /\ report' = made
      BY <2>1, Zenon DEF EndContent
    <2>2. ASSUME ~ UnchangedContent(reads) PROVE scan' = None /\ report' = report
      BY <2>2, Zenon DEF EndContent
    <2> QED
      BY <2>1, <2>2
  <1>5. ASSUME NEW i \in DOMAIN Paths
        PROVE  /\ scan.start[i] \in ReadType /\ scan.analysed[i] \in ReadType
               /\ Before(scan.start[i], scan.analysed[i])
               /\ Before(scan.analysed[i], reads[i])
    <2>1. scan.start[i] \in ReadType /\ scan.analysed[i] \in ReadType
      BY <1>2, ReadsFacts
    <2>2. Before(scan.start[i], scan.analysed[i]) /\ Before(scan.analysed[i], Now(i))
      BY <1>1, <1>2 DEF IInv, ScanInv, ScanOrder
    <2>3. Before(scan.analysed[i], reads[i])
      BY <1>1, <1>3, <2>2 DEF IInv, ScanInv, ScanOrder
    <2> QED
      BY <2>1, <2>2, <2>3
  <1>6. made \in ReportType
    <2>1. TextsOf(scan.start) \in Seq(Contents) /\ TextsOf(scan.analysed) \in Seq(Contents)
      <3>1. /\ TextsOf(scan.start) \in [1 .. Len(Paths) -> Contents]
            /\ TextsOf(scan.analysed) \in [1 .. Len(Paths) -> Contents]
        BY <1>2, <1>5 DEF TextsOf, ReadType
      <3> QED
        BY <1>2, <3>1
    <2>2. back \subseteq Nat
      <3>1. DOMAIN Paths \subseteq Nat
        BY <1>2
      <3>2. back \subseteq DOMAIN Paths
        BY <1>3, Zenon
      <3> QED
        BY <3>1, <3>2
    <2>3. scan.head \in Nat /\ scan.status \in (SUBSET Files) \cup {None}
      BY <1>1 DEF ScanType
    <2> QED
      BY <2>1, <2>2, <2>3 DEF ReportType
  <1>7. ASSUME UnchangedContent(reads) PROVE Sound(made)
    <2>1. scan.head \in DOMAIN commits
      BY <1>1 DEF IInv, ScanInv
    <2>2. ASSUME NEW i \in DOMAIN Paths
          PROVE  /\ reads[i].content = scan.start[i].content
                 /\ TextsOf(scan.start)[i] = scan.start[i].content
                 /\ TextsOf(scan.analysed)[i] = scan.analysed[i].content
      BY <1>2, <1>3, <1>7 DEF UnchangedContent, TextsOf
    <2>3. ASSUME NEW i \in DOMAIN Paths, scan.analysed[i].content # scan.start[i].content
          PROVE  i \in back
      BY <1>3, <1>5, <2>2, <2>3, ReturnTakesTwo
    <2>4. ASSUME NEW i \in DOMAIN Paths, moves = scan.moves, Paths[i] \notin scan.status
          PROVE  \/ scan.analysed[i].content = commits[scan.head][Paths[i]]
                 \/ i \in back
      <3> DEFINE text == commits[scan.head][Paths[i]]
      <3>1. PICK n \in Nat : Seen(i, n)
        BY <1>1, <2>4 DEF IInv, ScanInv
      <3>2. text \in Contents
        <4>1. commits \in Seq([Files -> Contents]) /\ Paths[i] \in Files
          BY NowFacts DEF IInv, TypeOK
        <4> QED
          BY <2>1, <4>1
      <3>3. [content |-> text, edits |-> n] \in ReadType
        BY <3>2 DEF ReadType
      <3>4. /\ Before(scan.analysed[i], [content |-> text, edits |-> n])
            /\ Before([content |-> text, edits |-> n], reads[i])
        BY <1>3, <3>1 DEF Seen
      <3>5. CASE scan.analysed[i].content # scan.start[i].content
        BY <2>3, <3>5
      <3>6. CASE scan.analysed[i].content = scan.start[i].content /\ text # scan.start[i].content
        <4>1. Before(scan.start[i], [content |-> text, edits |-> n])
          BY <1>5, <3>3, <3>4, BeforeFacts
        <4> QED
          BY <1>3, <1>5, <2>2, <3>3, <3>4, <3>6, <4>1, ReturnTakesTwo
      <3> QED
        BY <3>5, <3>6
    <2> QED
      BY <2>1, <2>2, <2>3, <2>4 DEF Sound
  <1>8. \A r : Sound(r)' <=> Sound(r)
    BY DEF Sound, EndContent, Quiet
  <1>9. TypeOK'
    BY <1>4, <1>6 DEF IInv, TypeOK, EndContent, Quiet
  <1> QED
    BY <1>4, <1>7, <1>8, <1>9 DEF IInv, ScanInv, CheckInv, EndContent, Quiet

(***************************************************************************)
(* The verdict preserves the invariant.                                    *)
(***************************************************************************)

(* A verdict is on a sound report.                                         *)
LEMMA CheckStepInv ==
    ASSUME ConstantTypes, IInv, StartCheck \/ Evaluate PROVE IInv'
  <1>1. /\ UNCHANGED <<disk, edits, commits, head, moves, drifted, scan, report>>
        /\ \A r : Sound(r)' <=> Sound(r)
    BY DEF StartCheck, Evaluate, Sound
  <1>2. check' \in CheckType
    <2>1. CASE StartCheck
      BY <2>1 DEF StartCheck, CheckType, IInv, TypeOK
    <2>2. CASE Evaluate
      <3>1. check \in CheckType
        BY <2>2 DEF Evaluate, IInv, TypeOK
      <3>2. PICK m \in BOOLEAN, c \in BOOLEAN :
              check' = [check EXCEPT !.headMoved = m, !.current = c]
        BY <2>2, Zenon DEF Evaluate
      <3> QED
        BY <3>1, <3>2 DEF CheckType
    <2> QED
      BY <2>1, <2>2
  <1>3. TypeOK'
    BY <1>1, <1>2 DEF IInv, TypeOK
  <1>4. ScanInv'
    BY <1>1 DEF IInv, ScanInv, ScanLengths, ScanOrder, Seen, Now
  <1>5. CheckInv'
    <2>1. CASE StartCheck
      BY <1>1, <2>1 DEF StartCheck, CheckInv, IInv, TypeOK
    <2>2. CASE Evaluate
      BY <1>1, <2>2 DEF Evaluate, CheckInv, IInv, TypeOK, CheckType
    <2> QED
      BY <2>1, <2>2
  <1> QED
    BY <1>1, <1>3, <1>4, <1>5 DEF IInv

(***************************************************************************)
(* The theorems.                                                           *)
(***************************************************************************)

(* Every step preserves the invariant.                                     *)
LEMMA NextInv ==
    ASSUME ConstantTypes PROVE IInv /\ [Next]_vars => IInv'
  <1> SUFFICES ASSUME IInv, [Next]_vars PROVE IInv'
    OBVIOUS
  <1>1. CASE EndContent
    BY <1>1, EndReadInv, ReportInv
  <1>2. CASE UNCHANGED vars
    BY <1>2 DEF vars, IInv, TypeOK, ScanInv, ScanLengths, ScanOrder, Seen, Now, Sound,
                CheckInv
  <1> QED
    BY <1>1, <1>2, PeopleInv, StartScanInv, StartStatusInv, StartContentInv,
       InventoryInv, EndStatusInv, CheckStepInv DEF Next

(* The order of what was read, what is on disk and what HEAD names, in     *)
(* every reachable state.                                                  *)
THEOREM Inductive ==
    ASSUME ConstantTypes PROVE Spec => []IInv
  <1>1. Init => IInv
    BY InitInv
  <1>2. IInv /\ [Next]_vars => IInv'
    BY NextInv
  <1> QED
    BY <1>1, <1>2, PTL DEF Spec

(* A report mixes contents only of a file that changed and changed back    *)
(* under the scan.                                                         *)
THEOREM MixesOnlyByReturn ==
    ASSUME ConstantTypes PROVE Spec => []MixedOnlyByReturn
  <1>1. IInv => MixedOnlyByReturn
    BY DEF IInv, Sound, MixedOnlyByReturn
  <1>2. Spec => []IInv
    BY Inductive
  <1> QED
    BY <1>1, <1>2, PTL

(* When a verdict ends in current, the disk holds what the report analysed.*)
LEMMA CurrentIsAnalyzed ==
    ASSUME ConstantTypes, IInv, [Next]_vars, NEW i \in DOMAIN Paths,
           check' # check, check'.current = TRUE,
           ~ check'.headMoved, ~ check'.of.headMoved, Paths[i] \notin Status
    PROVE  disk[Paths[i]] = check'.of.analysed[i] \/ i \in check'.of.returned
  <1>1. ~ StartCheck
    <2>1. None # TRUE
      BY DEF ConstantTypes
    <2>2. ASSUME StartCheck PROVE check'.current = None
      BY <2>2 DEF StartCheck
    <2> QED
      BY <2>1, <2>2
  <1>2. Evaluate
    BY <1>1 DEF Next, vars, Edit, Commit, MoveHead, Drift, StartScan, StartStatus,
                StartContent, Inventory, ReadFile, EndStatus, EndContent, Quiet
  <1>3. /\ check # None /\ check \in CheckType /\ check'.of = check.of
        /\ check'.headMoved = (check.moves # moves)
        /\ check'.current = (/\ check.of.head = check.head
                             /\ SameWorktree(check.of)
                             /\ ~ drifted)
    BY <1>2 DEF Evaluate, IInv, TypeOK, CheckType
  <1>4. check.of.head = head /\ check.of.status = Status
    BY <1>3 DEF SameWorktree, IInv, CheckInv
  <1>5. \/ check.of.analysed[i] = commits[head][Paths[i]]
        \/ i \in check.of.returned
    BY <1>3, <1>4 DEF IInv, CheckInv, Sound
  <1>6. disk[Paths[i]] = commits[head][Paths[i]]
    BY NowFacts DEF Status, IInv
  <1> QED
    BY <1>3, <1>5, <1>6

(* At the moment a report is called current, a file that git calls         *)
(* unmodified has the content the report analysed, but for a file that     *)
(* changed and changed back under the scan, and for a HEAD that moved.     *)
THEOREM CurrentIsOfTheAnalyzed ==
    ASSUME ConstantTypes PROVE Spec => CurrentOnlyForAnalyzed
  <1>1. Spec => []IInv
    BY Inductive
  <1>2. IInv /\ [Next]_vars =>
          [\A i \in DOMAIN Paths :
              /\ check' # check /\ check'.current = TRUE
              /\ ~ check'.headMoved /\ ~ check'.of.headMoved
              /\ Paths[i] \notin Status
              => \/ disk[Paths[i]] = check'.of.analysed[i]
                 \/ i \in check'.of.returned]_vars
    BY CurrentIsAnalyzed
  <1> QED
    BY <1>1, <1>2, PTL DEF Spec, CurrentOnlyForAnalyzed

-------------------------------------------------------------------------------
(* The token cache.                                                          *)

(* The keys of a scan's rows, their token data, and the rows that may be there: *)
(* a payload is what the key says, or is lost.                               *)
CacheKeys ==
    {<<CachedFiles[i].text, t, CachedFiles[i].mode>> : i \in DOMAIN CachedFiles, t \in Tokenizers}
TokenData == {Cache!Computed(k[1], k[2], k[3]) : k \in CacheKeys}
Row == {r \in [key : CacheKeys, payload : TokenData \cup {None}] :
           r.payload # None => r.payload = Cache!Computed(r.key[1], r.key[2], r.key[3])}

SizeOf(row) == PayloadSize[row.key[3]]

(* The sizes of payloads.                                                    *)
LEMMA SizesAre == \A k \in CacheKeys : PayloadSize[k[3]] \in Nat
<1> SUFFICES ASSUME NEW i \in DOMAIN CachedFiles, NEW t \in Tokenizers
             PROVE  PayloadSize[CachedFiles[i].mode] \in Nat
  BY DEF CacheKeys
<1> QED  BY SizesAssumption

(* The bytes of a row.                                                       *)
LEMMA RowSize == \A row \in Row : SizeOf(row) \in Nat
  BY SizesAre DEF Row, SizeOf

(* The bytes of the first rows.                                              *)
RunningSum(f, rows) ==
    /\ f \in [0 .. Len(rows) -> Nat] /\ f[0] = 0
    /\ \A i \in 1 .. Len(rows) : f[i] = f[i - 1] + SizeOf(rows[i])

(* The bytes of all rows are the last of them.                               *)
LEMMA BytesAre ==
    ASSUME NEW rows \in Seq(Row)
    PROVE  \E f : RunningSum(f, rows) /\ Cache!Bytes(rows) = f[Len(rows)]
<1> DEFINE n == Len(rows)
           step == [i \in 1 .. n |-> [sum \in Nat |-> sum + SizeOf(rows[i])]]
           Sum(f) == f = [i \in 0 .. Len(rows) |-> IF i = 0 THEN 0 ELSE f[i - 1] + SizeOf(rows[i])]
           chosen == CHOOSE f : Sum(f)
<1>1. n \in Nat /\ \A i \in 1 .. n : rows[i] \in Row /\ SizeOf(rows[i]) \in Nat
  BY RowSize
<1>2. step \in Steps(n, Nat)
  BY <1>1 DEF Steps
<1>3. PICK g : Along(g, n, Nat, 0, step)
  <2>1. 0 \in Nat
    OBVIOUS
  <2> HIDE DEF step, n
  <2> QED  BY <1>1, <1>2, <2>1, Recursion
<1>4. ASSUME NEW i \in 0 .. n PROVE g[i] = IF i = 0 THEN 0 ELSE g[i - 1] + SizeOf(rows[i])
  <2>1. CASE i = 0
    BY <1>3, <2>1 DEF Along
  <2>2. CASE i # 0
    <3>1. i \in 1 .. n /\ i - 1 \in 0 .. n
      BY <1>1, <2>2
    <3>2. g[i - 1] \in Nat /\ g[i] = step[i][g[i - 1]]
      BY <1>3, <3>1 DEF Along
    <3> QED  BY <2>2, <3>1, <3>2
  <2> QED  BY <2>1, <2>2
<1>5. Sum(chosen)
  <2>1. g = [i \in 0 .. Len(rows) |-> g[i]]
    BY <1>3 DEF Along
  <2> HIDE DEF step
  <2>2. Sum(g)
    BY <1>4, <2>1
  <2> QED  BY <2>2
<1>6. Cache!Bytes(rows) = chosen[Len(rows)]
  BY DEF Cache!Bytes, SizeOf
<1> HIDE DEF chosen
<1>7. chosen[0] = 0 /\ \A i \in 1 .. n : chosen[i] = chosen[i - 1] + SizeOf(rows[i])
  BY <1>1, <1>5
<1>8. 0 .. n \subseteq {i \in 0 .. n : chosen[i] \in Nat}
  <2> DEFINE S == {i \in 0 .. n : chosen[i] \in Nat}
  <2>1. 0 \in S
    BY <1>1, <1>7
  <2>2. ASSUME NEW k \in 1 .. n, k - 1 \in S PROVE k \in S
    BY <1>1, <1>7, <2>2
  <2> HIDE DEF S, n
  <2>3. 0 .. n \subseteq S
    BY <1>1, <2>1, <2>2, UpTo
  <2> QED  BY <2>3 DEF S
<1>9. chosen \in [0 .. Len(rows) -> Nat]
  BY <1>5, <1>8
<1> QED  BY <1>6, <1>7, <1>9 DEF RunningSum

(* They depend on the keys only.                                             *)
LEMMA SumsAgree ==
    ASSUME NEW rows \in Seq(Row), NEW others \in Seq(Row), NEW n \in Nat,
           n <= Len(rows), n <= Len(others), NEW f, NEW g, RunningSum(f, rows), RunningSum(g, others),
           \A i \in 1 .. n : rows[i].key = others[i].key
    PROVE  f[n] = g[n]
<1> DEFINE S == {i \in 0 .. n : f[i] = g[i]}
<1>1. 0 \in S
  BY DEF RunningSum
<1>2. ASSUME NEW k \in 1 .. n, k - 1 \in S PROVE k \in S
  <2>1. k \in 1 .. Len(rows) /\ k \in 1 .. Len(others)
    OBVIOUS
  <2>2. f[k] = f[k - 1] + SizeOf(rows[k]) /\ g[k] = g[k - 1] + SizeOf(others[k])
    BY <2>1 DEF RunningSum
  <2> QED  BY <1>2, <2>2 DEF SizeOf
<1>3. 0 .. n \subseteq S
  <2> HIDE DEF S
  <2> QED  BY <1>1, <1>2, UpTo
<1> QED  BY <1>3

(* A row that is appended adds its own.                                      *)
LEMMA BytesOfAppended ==
    ASSUME NEW rows \in Seq(Row), NEW row \in Row
    PROVE  Cache!Bytes(Append(rows, row)) = Cache!Bytes(rows) + SizeOf(row)
<1> DEFINE n == Len(rows)
           more == Append(rows, row)
<1>1. /\ more \in Seq(Row) /\ Len(more) = n + 1 /\ more[n + 1] = row /\ n \in Nat
      /\ \A i \in 1 .. n : rows[i].key = more[i].key
  OBVIOUS
<1>2. PICK f : RunningSum(f, rows) /\ Cache!Bytes(rows) = f[n]
  BY BytesAre
<1> HIDE DEF more
<1>3. PICK g : RunningSum(g, more) /\ Cache!Bytes(more) = g[Len(more)]
  BY <1>1, BytesAre
<1>4. f[n] = g[n]
  <2>1. n <= Len(rows) /\ n <= Len(more)
    BY <1>1
  <2> HIDE DEF n
  <2> QED  BY <1>1, <1>2, <1>3, <2>1, SumsAgree
<1>5. g[n + 1] = g[n] + SizeOf(more[n + 1])
  <2>1. n + 1 \in 1 .. Len(more) /\ n + 1 - 1 = n
    BY <1>1
  <2> QED  BY <1>1, <1>3, <2>1 DEF RunningSum
<1>6. Cache!Bytes(more) = Cache!Bytes(rows) + SizeOf(row)
  BY <1>1, <1>2, <1>3, <1>4, <1>5
<1> QED  BY <1>6 DEF more

(* Rows with the same keys have as many.                                     *)
LEMMA BytesOfKeys ==
    ASSUME NEW rows \in Seq(Row), NEW others \in Seq(Row), Len(rows) = Len(others),
           \A i \in 1 .. Len(rows) : rows[i].key = others[i].key
    PROVE  Cache!Bytes(rows) = Cache!Bytes(others)
<1>1. PICK f : RunningSum(f, rows) /\ Cache!Bytes(rows) = f[Len(rows)]
  BY BytesAre
<1>2. PICK g : RunningSum(g, others) /\ Cache!Bytes(others) = g[Len(others)]
  BY BytesAre
<1>3. Len(rows) \in Nat /\ Len(rows) <= Len(rows) /\ Len(rows) <= Len(others)
  OBVIOUS
<1>4. f[Len(rows)] = g[Len(rows)]
  BY <1>1, <1>2, <1>3, SumsAgree
<1> QED  BY <1>1, <1>2, <1>4

(* What is left of the first rows.                                           *)
Leaves(f, rows, keys) ==
    /\ f \in [0 .. Len(rows) -> Seq(Row)] /\ f[0] = <<>>
    /\ \A i \in 1 .. Len(rows) :
          f[i] = IF rows[i].key \in keys THEN f[i - 1] ELSE Append(f[i - 1], rows[i])

(* What is left of all rows is the last of them.                             *)
LEMMA LeftAre ==
    ASSUME NEW rows \in Seq(Row), NEW keys
    PROVE  \E f : Leaves(f, rows, keys) /\ Cache!Without(rows, keys) = f[Len(rows)]
<1> DEFINE n == Len(rows)
           step == [i \in 1 .. n |-> [left \in Seq(Row) |->
                       IF rows[i].key \in keys THEN left ELSE Append(left, rows[i])]]
           Left(f) == f = [i \in 0 .. Len(rows) |->
                             IF i = 0 THEN <<>>
                             ELSE IF rows[i].key \in keys THEN f[i - 1] ELSE Append(f[i - 1], rows[i])]
           chosen == CHOOSE f : Left(f)
<1>1. n \in Nat /\ \A i \in 1 .. n : rows[i] \in Row
  OBVIOUS
<1>2. step \in Steps(n, Seq(Row))
  BY <1>1 DEF Steps
<1>3. PICK g : Along(g, n, Seq(Row), <<>>, step)
  <2>1. <<>> \in Seq(Row)
    OBVIOUS
  <2> HIDE DEF step, n
  <2> QED  BY <1>1, <1>2, <2>1, Recursion
<1>4. ASSUME NEW i \in 0 .. n
      PROVE  g[i] = IF i = 0 THEN <<>>
                    ELSE IF rows[i].key \in keys THEN g[i - 1] ELSE Append(g[i - 1], rows[i])
  <2>1. CASE i = 0
    BY <1>3, <2>1 DEF Along
  <2>2. CASE i # 0
    <3>1. i \in 1 .. n /\ i - 1 \in 0 .. n
      BY <1>1, <2>2
    <3>2. g[i - 1] \in Seq(Row) /\ g[i] = step[i][g[i - 1]]
      BY <1>3, <3>1 DEF Along
    <3> QED  BY <2>2, <3>1, <3>2
  <2> QED  BY <2>1, <2>2
<1>5. Left(chosen)
  <2>1. g = [i \in 0 .. Len(rows) |-> g[i]]
    BY <1>3 DEF Along
  <2> HIDE DEF step
  <2>2. Left(g)
    BY <1>4, <2>1
  <2> QED  BY <2>2
<1>6. Cache!Without(rows, keys) = chosen[Len(rows)]
  BY DEF Cache!Without
<1> HIDE DEF chosen
<1>7. /\ chosen[0] = <<>>
      /\ \A i \in 1 .. n : chosen[i] = IF rows[i].key \in keys THEN chosen[i - 1]
                                       ELSE Append(chosen[i - 1], rows[i])
  <2>1. \A i \in 0 .. Len(rows) :
           chosen[i] = IF i = 0 THEN <<>>
                       ELSE IF rows[i].key \in keys THEN chosen[i - 1]
                       ELSE Append(chosen[i - 1], rows[i])
    BY <1>5
  <2> QED  BY <1>1, <2>1
<1>8. 0 .. n \subseteq {i \in 0 .. n : chosen[i] \in Seq(Row)}
  <2> DEFINE S == {i \in 0 .. n : chosen[i] \in Seq(Row)}
  <2>1. 0 \in S
    <3>1. <<>> \in Seq(Row) /\ 0 \in 0 .. n
      BY <1>1
    <3> QED  BY <1>7, <3>1
  <2>2. ASSUME NEW k \in 1 .. n, k - 1 \in S PROVE k \in S
    <3>1. chosen[k - 1] \in Seq(Row) /\ rows[k] \in Row
      BY <1>1, <2>2
    <3>2. Append(chosen[k - 1], rows[k]) \in Seq(Row)
      BY <3>1
    <3>3. chosen[k] \in Seq(Row)
      <4>1. chosen[k] \in {chosen[k - 1], Append(chosen[k - 1], rows[k])}
        BY <1>7
      <4> QED  BY <3>1, <3>2, <4>1
    <3> QED  BY <3>3
  <2> HIDE DEF S, n
  <2>3. 0 .. n \subseteq S
    BY <1>1, <2>1, <2>2, UpTo
  <2> QED  BY <2>3 DEF S
<1>9. chosen \in [0 .. Len(rows) -> Seq(Row)]
  BY <1>5, <1>8
<1> QED  BY <1>6, <1>7, <1>9 DEF Leaves

(* Fewer rows and bytes are left, by those of any row that was there.        *)
LEMMA LeftAreFewer ==
    ASSUME NEW rows \in Seq(Row), NEW keys, NEW key
    PROVE  LET left == Cache!Without(rows, keys)
               gone == key \in keys /\ \E i \in 1 .. Len(rows) : rows[i].key = key
           IN /\ left \in Seq(Row)
              /\ Len(left) <= Len(rows) - (IF gone THEN 1 ELSE 0)
              /\ Cache!Bytes(left) <= Cache!Bytes(rows) - (IF gone THEN PayloadSize[key[3]] ELSE 0)
              /\ (IF gone THEN PayloadSize[key[3]] ELSE 0) \in Nat
<1> DEFINE n == Len(rows)
           gone(m) == key \in keys /\ \E i \in 1 .. m : rows[i].key = key
           count(m) == IF gone(m) THEN 1 ELSE 0
           size(m) == IF gone(m) THEN PayloadSize[key[3]] ELSE 0
           left == Cache!Without(rows, keys)
<1>1. PICK f : RunningSum(f, rows) /\ Cache!Bytes(rows) = f[n]
  BY BytesAre
<1>2. PICK g : Leaves(g, rows, keys) /\ Cache!Without(rows, keys) = g[n]
  BY LeftAre
<1>3. /\ n \in Nat
      /\ \A m \in 0 .. n : /\ f[m] \in Nat /\ g[m] \in Seq(Row) /\ Cache!Bytes(g[m]) \in Nat
                           /\ size(m) \in Nat
  <2>1. n \in Nat
    OBVIOUS
  <2>2. ASSUME NEW m \in 0 .. n PROVE f[m] \in Nat /\ g[m] \in Seq(Row)
    BY <1>1, <1>2 DEF RunningSum, Leaves
  <2>3. ASSUME NEW m \in 0 .. n PROVE Cache!Bytes(g[m]) \in Nat
    <3>1. g[m] \in Seq(Row) /\ Len(g[m]) \in Nat
      BY <2>2
    <3> QED  BY <3>1, BytesAre DEF RunningSum
  <2>4. ASSUME NEW m \in 0 .. n PROVE size(m) \in Nat
    <3>1. CASE gone(m)
      <4>1. PICK i \in 1 .. m : rows[i].key = key
        BY <3>1
      <4>2. rows[i] \in Row
        BY <2>1
      <4> QED  BY <4>1, <4>2, RowSize, <3>1 DEF SizeOf
    <3>2. CASE ~ gone(m)
      BY <3>2
    <3> QED  BY <3>1, <3>2
  <2> QED  BY <2>1, <2>2, <2>3, <2>4
<1> DEFINE S == {m \in 0 .. n : Len(g[m]) <= m - count(m) /\ Cache!Bytes(g[m]) <= f[m] - size(m)}
<1>4. 0 \in S
  <2>1. g[0] = <<>> /\ f[0] = 0 /\ ~ gone(0)
    BY <1>1, <1>2 DEF Leaves, RunningSum
  <2>2. Cache!Bytes(<<>>) = 0
    <3>1. <<>> \in Seq(Row) /\ Len(<<>>) = 0
      OBVIOUS
    <3> QED  BY <3>1, BytesAre DEF RunningSum
  <2>3. count(0) = 0 /\ size(0) = 0 /\ Len(g[0]) = 0 /\ 0 \in 0 .. n
    BY <1>3, <2>1
  <2> HIDE DEF count, size
  <2> QED  BY <2>1, <2>2, <2>3
<1>5. ASSUME NEW k \in 1 .. n, k - 1 \in S PROVE k \in S
  <2>1. /\ k - 1 \in 0 .. n /\ k \in 0 .. n /\ k \in 1 .. Len(rows)
        /\ rows[k] \in Row
    BY <1>3
  <2>2. /\ g[k] = IF rows[k].key \in keys THEN g[k - 1] ELSE Append(g[k - 1], rows[k])
        /\ f[k] = f[k - 1] + SizeOf(rows[k])
    BY <1>1, <1>2, <2>1 DEF Leaves, RunningSum
  <2>3. SizeOf(rows[k]) \in Nat
    BY <2>1, RowSize
  <2>4. gone(k) <=> gone(k - 1) \/ (key \in keys /\ rows[k].key = key)
    <3>1. \A i : i \in 1 .. k <=> i \in 1 .. (k - 1) \/ i = k
      BY <2>1
    <3> QED  BY <3>1
  <2>5. /\ Len(g[k - 1]) <= k - 1 - count(k - 1)
        /\ Cache!Bytes(g[k - 1]) <= f[k - 1] - size(k - 1)
    BY <1>5
  <2>6. /\ f[k - 1] \in Nat /\ g[k - 1] \in Seq(Row) /\ Cache!Bytes(g[k - 1]) \in Nat
        /\ size(k - 1) \in Nat /\ size(k) \in Nat /\ count(k - 1) \in 0 .. 1 /\ count(k) \in 0 .. 1
    BY <1>3, <2>1
  <2>7. CASE rows[k].key \notin keys
    <3>1. /\ Cache!Bytes(g[k]) = Cache!Bytes(g[k - 1]) + SizeOf(rows[k])
          /\ Len(g[k]) = Len(g[k - 1]) + 1 /\ Len(g[k - 1]) \in Nat
      BY <2>1, <2>2, <2>6, <2>7, BytesOfAppended
    <3>2. count(k) = count(k - 1) /\ size(k) = size(k - 1)
      <4> HIDE DEF gone
      <4> QED  BY <2>4, <2>7
    <3> HIDE DEF count, size
    <3>3. Len(g[k]) <= k - count(k)
      BY <2>5, <2>6, <3>1, <3>2
    <3>4. Cache!Bytes(g[k]) <= f[k] - size(k)
      BY <2>2, <2>3, <2>5, <2>6, <3>1, <3>2
    <3> QED  BY <2>1, <3>3, <3>4
  <2>8. CASE rows[k].key \in keys
    <3>1. g[k] = g[k - 1] /\ Len(g[k - 1]) \in Nat
      BY <2>2, <2>6, <2>8
    <3>2. count(k) <= count(k - 1) + 1 /\ size(k) <= size(k - 1) + SizeOf(rows[k])
      <4>1. rows[k].key = key => SizeOf(rows[k]) = PayloadSize[key[3]]
        BY DEF SizeOf
      <4>2. gone(k) => gone(k - 1) \/ rows[k].key = key
        BY <2>4
      <4>3. CASE gone(k - 1)
        <5>1. gone(k)
          BY <2>4, <4>3
        <5> HIDE DEF gone
        <5> QED  BY <2>3, <2>6, <4>3, <5>1
      <4>4. CASE ~ gone(k - 1)
        <5> HIDE DEF gone
        <5> QED  BY <2>3, <2>6, <4>1, <4>2, <4>4
      <4> QED  BY <4>3, <4>4
    <3> HIDE DEF count, size
    <3> QED  BY <2>1, <2>2, <2>3, <2>5, <2>6, <3>1, <3>2
  <2> QED  BY <2>7, <2>8
<1>6. n \in S
  <2> HIDE DEF S, n
  <2>1. 0 .. n \subseteq S
    BY <1>3, <1>4, <1>5, UpTo
  <2> QED  BY <1>3, <2>1
<1>7. g[n] \in Seq(Row) /\ size(n) \in Nat
  BY <1>3
<1> QED  BY <1>1, <1>2, <1>6, <1>7

(* The databases: the payload of a row is what the key says, or is lost.     *)
CacheFile == [version : {1, 2}, sound : BOOLEAN, rows : Seq(Row)]

(* The files of a scan, their keys and their token data.                     *)
Total == Len(CachedFiles)
FileKey(i, t) == Cache!Key(CachedFiles[i].text, t, CachedFiles[i].mode)
FileData(i, t) == Cache!Computed(CachedFiles[i].text, t, CachedFiles[i].mode)

(* A scan has the data of the files it has been through; it counts no fewer  *)
(* rows and bytes than there are, until it ends within the limits or knows   *)
(* of a failure.                                                             *)
Counts == [entries : Int, bytes : Int, failed : Nat, candidate : CacheKeys \cup {None}]
ScanRecord == [pc : {"get", "put", "stats", "evict", "done"}, tokenizer : Tokenizers, cache : Nat,
               file : Nat, data : Seq(TokenData), stats : Counts \cup {None}]
DataSoFar(s) == s.data = [i \in 1 .. s.file - 1 |-> FileData(i, s.tokenizer)]
NotMissed(s, all) ==
    /\ s.cache \in 1 .. Len(all) /\ s.stats \in Counts /\ s.stats.failed = 0
    /\ s.stats.entries >= Len(all[s.cache].rows)
    /\ s.stats.bytes >= Cache!Bytes(all[s.cache].rows)
Ended(s, all) ==
    \/ s.stats = None \/ s.stats.failed # 0
    \/ /\ s.cache \in 1 .. Len(all)
       /\ Cache!Within(Len(all[s.cache].rows), Cache!Bytes(all[s.cache].rows))
Scanning(s, all) ==
    /\ s \in ScanRecord /\ s.cache \in 0 .. Len(all) /\ DataSoFar(s)
    /\ IF s.pc \in {"get", "put"} THEN s.file \in 1 .. Total /\ s.stats = None ELSE s.file = Total + 1
    /\ s.pc = "stats" => s.stats = None
    /\ s.pc = "evict" => NotMissed(s, all)
    /\ s.pc = "done" => Ended(s, all)

(* A prune is at work on a database.                                         *)
Pruning(p, all) ==
    /\ p = [pc |-> p.pc, limit |-> p.limit, db |-> p.db, entries |-> p.entries, bytes |-> p.bytes,
            selected |-> p.selected]
    /\ p.pc \in {"select", "delete"} /\ p.db \in 1 .. Len(all)

(* The invariant of the token cache.                                         *)
CacheInv ==
    /\ dbs \in Seq(CacheFile) /\ live \in 0 .. Len(dbs)
    /\ cacheScan = Cache!Idle \/ Scanning(cacheScan, dbs)
    /\ pruner = Cache!Idle \/ Pruning(pruner, dbs)

(* There are files, and every row that a scan stores is one.                 *)
LEMMA FilesAre ==
    /\ Total \in Nat /\ Total >= 1 /\ DOMAIN CachedFiles = 1 .. Total
    /\ \A i \in 1 .. Total, t \in Tokenizers :
          /\ FileKey(i, t) \in CacheKeys /\ FileData(i, t) \in TokenData
          /\ [key |-> FileKey(i, t), payload |-> FileData(i, t)] \in Row
<1>1. /\ Total \in Nat /\ Total >= 1 /\ DOMAIN CachedFiles = 1 .. Total
  BY SizesAssumption DEF Total
<1>2. ASSUME NEW i \in 1 .. Total, NEW t \in Tokenizers
      PROVE  /\ FileKey(i, t) \in CacheKeys /\ FileData(i, t) \in TokenData
             /\ [key |-> FileKey(i, t), payload |-> FileData(i, t)] \in Row
  <2>1. FileKey(i, t) \in CacheKeys
    BY <1>1 DEF FileKey, CacheKeys, Cache!Key
  <2>2. FileData(i, t) = Cache!Computed(FileKey(i, t)[1], FileKey(i, t)[2], FileKey(i, t)[3])
    BY DEF FileKey, FileData, Cache!Key
  <2>3. FileData(i, t) \in TokenData
    BY <2>1, <2>2 DEF TokenData
  <2> QED  BY <2>1, <2>2, <2>3 DEF Row
<1> QED  BY <1>1, <1>2

(* How many rows and bytes a database has.                                   *)
LEMMA CountsAre ==
    ASSUME NEW rows \in Seq(Row)
    PROVE  Len(rows) \in Nat /\ Cache!Bytes(rows) \in Nat
<1>1. Len(rows) \in Nat /\ Len(rows) \in 0 .. Len(rows)
  OBVIOUS
<1> QED  BY <1>1, BytesAre DEF RunningSum

(* Databases of which none is gone and none has more.                        *)
NoMore(old, new) ==
    /\ new \in Seq(CacheFile) /\ Len(new) >= Len(old)
    /\ \A i \in 1 .. Len(old) : /\ Len(new[i].rows) <= Len(old[i].rows)
                                /\ Cache!Bytes(new[i].rows) <= Cache!Bytes(old[i].rows)

(* What others take away does not disturb a scan.                            *)
LEMMA ScanUndisturbed ==
    ASSUME NEW old \in Seq(CacheFile), NEW new, NoMore(old, new), NEW s, Scanning(s, old)
    PROVE  Scanning(s, new)
<1>1. /\ \A i \in 1 .. Len(old) : /\ i \in 1 .. Len(new) /\ old[i].rows \in Seq(Row)
                                  /\ new[i].rows \in Seq(Row)
      /\ Len(old) \in Nat /\ Len(new) \in Nat /\ Len(new) >= Len(old)
  <2>1. new \in Seq(CacheFile) /\ Len(new) >= Len(old) /\ Len(old) \in Nat /\ Len(new) \in Nat
    BY DEF NoMore
  <2>2. \A i \in 1 .. Len(old) : i \in 1 .. Len(new) /\ old[i] \in CacheFile /\ new[i] \in CacheFile
    BY <2>1
  <2>3. \A file1 \in CacheFile : file1.rows \in Seq(Row)
    BY DEF CacheFile
  <2> QED  BY <2>1, <2>2, <2>3
<1>2. \A i \in 1 .. Len(old) :
         /\ Len(old[i].rows) \in Nat /\ Cache!Bytes(old[i].rows) \in Nat
         /\ Len(new[i].rows) \in Nat /\ Cache!Bytes(new[i].rows) \in Nat
         /\ Len(new[i].rows) <= Len(old[i].rows)
         /\ Cache!Bytes(new[i].rows) <= Cache!Bytes(old[i].rows)
  BY <1>1, CountsAre DEF NoMore
<1>3. s.cache \in 0 .. Len(new)
  BY <1>1 DEF Scanning
<1>4. NotMissed(s, old) => NotMissed(s, new)
  <2> SUFFICES ASSUME NotMissed(s, old)
               PROVE  NotMissed(s, new)
    OBVIOUS
  <2>1. s.cache \in 1 .. Len(old) /\ s.stats.entries \in Int /\ s.stats.bytes \in Int
    BY DEF NotMissed, Counts
  <2>2. /\ s.stats.entries >= Len(old[s.cache].rows)
        /\ s.stats.bytes >= Cache!Bytes(old[s.cache].rows)
    BY DEF NotMissed
  <2>3. /\ s.stats.entries >= Len(new[s.cache].rows)
        /\ s.stats.bytes >= Cache!Bytes(new[s.cache].rows)
    <3> DEFINE was == old[s.cache].rows
               is == new[s.cache].rows
    <3>1. /\ Len(was) \in Nat /\ Cache!Bytes(was) \in Nat /\ Len(is) \in Nat /\ Cache!Bytes(is) \in Nat
          /\ Len(is) <= Len(was) /\ Cache!Bytes(is) <= Cache!Bytes(was)
      BY <1>2, <2>1
    <3>2. s.stats.entries >= Len(was) /\ s.stats.bytes >= Cache!Bytes(was)
      BY <2>2
    <3> HIDE DEF was, is
    <3>3. s.stats.entries >= Len(is) /\ s.stats.bytes >= Cache!Bytes(is)
      BY <2>1, <3>1, <3>2
    <3> QED  BY <3>3 DEF is
  <2> QED  BY <1>1, <2>1, <2>3 DEF NotMissed
<1>5. Ended(s, old) => Ended(s, new)
  BY <1>1, <1>2, SizesAssumption DEF Ended, Cache!Within
<1> QED  BY <1>3, <1>4, <1>5 DEF Scanning

(* What a file is opened as: the databases there are stay as they are.       *)
OpenedAs(opened) ==
    /\ opened[1] \in Seq(CacheFile) /\ Len(opened[1]) >= Len(dbs)
    /\ opened[2] \in 0 .. Len(opened[1]) /\ opened[3] \in 0 .. Len(opened[1])

(* A database is opened, or refused.                                         *)
LEMMA OpenedIs ==
    ASSUME CacheInv, NEW at \in 0 .. Len(dbs)
    PROVE  OpenedAs(Cache!Opened(dbs, at))
<1>1. dbs \in Seq(CacheFile) /\ Len(dbs) \in Nat
  BY DEF CacheInv
<1>2. CASE at = 0
  <2>1. Cache!Created \in CacheFile
    BY DEF Cache!Created, CacheFile
  <2>2. Append(dbs, Cache!Created) \in Seq(CacheFile) /\ Len(Append(dbs, Cache!Created)) = Len(dbs) + 1
    BY <1>1, <2>1
  <2>3. Cache!Opened(dbs, at) = <<Append(dbs, Cache!Created), Len(dbs) + 1, Len(dbs) + 1>>
    BY <1>2 DEF Cache!Opened
  <2> QED  BY <1>1, <2>2, <2>3 DEF OpenedAs
<1>3. CASE at # 0
  <2>1. Cache!Opened(dbs, at) \in {<<dbs, at, at>>, <<dbs, at, 0>>}
    BY <1>3 DEF Cache!Opened
  <2> QED  BY <1>1, <2>1 DEF OpenedAs
<1> QED  BY <1>2, <1>3

(* The same of a second attempt.                                             *)
LEMMA ReopenedIs ==
    ASSUME CacheInv
    PROVE  /\ \A q \in BOOLEAN : OpenedAs(Cache!Reopened(q))
           /\ \A opened \in Cache!Retried : OpenedAs(opened)
<1>1. dbs \in Seq(CacheFile) /\ Len(dbs) \in Nat /\ live \in 0 .. Len(dbs) /\ 0 \in 0 .. Len(dbs)
  BY DEF CacheInv
<1>2. \A q : OpenedAs(Cache!Reopened(q))
  BY <1>1, OpenedIs DEF Cache!Reopened
<1>3. OpenedAs(<<dbs, live, 0>>)
  BY <1>1 DEF OpenedAs
<1> QED  BY <1>2, <1>3 DEF Cache!Retried

(* Others change the databases: a scan and a prune go on.                    *)
LEMMA OthersTake ==
    ASSUME CacheInv, NoMore(dbs, dbs'), UNCHANGED cacheScan, live' \in {live, 0},
           UNCHANGED pruner \/ pruner' = Cache!Idle
    PROVE  CacheInv'
<1>1. /\ dbs \in Seq(CacheFile) /\ dbs' \in Seq(CacheFile) /\ Len(dbs') >= Len(dbs)
      /\ Len(dbs) \in Nat /\ Len(dbs') \in Nat /\ live \in 0 .. Len(dbs)
  BY DEF CacheInv, NoMore
<1>2. live' \in 0 .. Len(dbs')
  BY <1>1
<1>3. cacheScan' = Cache!Idle \/ Scanning(cacheScan', dbs')
  BY <1>1, ScanUndisturbed DEF CacheInv
<1>4. pruner' = Cache!Idle \/ Pruning(pruner', dbs')
  BY <1>1 DEF CacheInv, Pruning
<1> QED  BY <1>1, <1>2, <1>3, <1>4 DEF CacheInv, Cache!Idle, Scanning, Pruning, DataSoFar,
                                       NotMissed, Ended

(* A page, a payload or the version is damaged: the rows keep their keys.    *)
LEMMA CacheDamage ==
    ASSUME CacheInv, Cache!Damage
    PROVE  CacheInv'
<1>1. /\ dbs \in Seq(CacheFile) /\ Len(dbs) \in Nat /\ live \in 1 .. Len(dbs)
      /\ UNCHANGED <<live, cacheScan, pruner>>
  BY DEF CacheInv, Cache!Damage
<1>2. dbs[live] \in CacheFile /\ dbs[live].rows \in Seq(Row)
  <2>1. dbs[live] \in CacheFile
    BY <1>1
  <2> QED  BY <2>1 DEF CacheFile
<1>3. PICK damaged \in CacheFile :
         /\ dbs' = [dbs EXCEPT ![live] = damaged] /\ Len(damaged.rows) = Len(dbs[live].rows)
         /\ Cache!Bytes(damaged.rows) = Cache!Bytes(dbs[live].rows)
  <2>1. CASE dbs' = [dbs EXCEPT ![live].sound = FALSE]
    <3> DEFINE damaged == [dbs[live] EXCEPT !.sound = FALSE]
    <3>1. damaged \in CacheFile /\ damaged.rows = dbs[live].rows
      BY <1>2 DEF CacheFile
    <3> QED  BY <2>1, <3>1
  <2>2. CASE dbs' = [dbs EXCEPT ![live].version = 2]
    <3> DEFINE damaged == [dbs[live] EXCEPT !.version = 2]
    <3>1. damaged \in CacheFile /\ damaged.rows = dbs[live].rows
      BY <1>2 DEF CacheFile
    <3> QED  BY <2>2, <3>1
  <2>3. ASSUME NEW i \in DOMAIN dbs[live].rows, dbs' = [dbs EXCEPT ![live].rows[i].payload = None]
        PROVE  \E damaged \in CacheFile :
                  /\ dbs' = [dbs EXCEPT ![live] = damaged]
                  /\ Len(damaged.rows) = Len(dbs[live].rows)
                  /\ Cache!Bytes(damaged.rows) = Cache!Bytes(dbs[live].rows)
    <3> DEFINE rows == dbs[live].rows
               row == [rows[i] EXCEPT !.payload = None]
               others == [rows EXCEPT ![i] = row]
               damaged == [dbs[live] EXCEPT !.rows = others]
    <3>1. rows[i] \in Row
      BY <1>2
    <3>2. row \in Row /\ row.key = rows[i].key
      BY <3>1 DEF Row
    <3>3. /\ others \in Seq(Row) /\ Len(others) = Len(rows)
          /\ \A j \in 1 .. Len(rows) : rows[j].key = others[j].key
      <4> HIDE DEF row
      <4> QED  BY <1>2, <3>2
    <3>4. Cache!Bytes(rows) = Cache!Bytes(others)
      <4> HIDE DEF others
      <4> QED  BY <1>2, <3>3, BytesOfKeys
    <3>5. damaged \in CacheFile /\ damaged.rows = others
      <4> HIDE DEF others
      <4> QED  BY <1>2, <3>3 DEF CacheFile
    <3>6. dbs' = [dbs EXCEPT ![live] = damaged]
      BY <2>3
    <3> HIDE DEF damaged
    <3> QED  BY <3>3, <3>4, <3>5, <3>6
  <2> QED  BY <2>1, <2>2, <2>3 DEF Cache!Damage, Cache!RowsOf
<1>4. NoMore(dbs, dbs')
  <2>1. /\ dbs' \in Seq(CacheFile) /\ Len(dbs') = Len(dbs)
        /\ \A i \in 1 .. Len(dbs) : dbs'[i] = IF i = live THEN damaged ELSE dbs[i]
    BY <1>1, <1>3
  <2>2. \A i \in 1 .. Len(dbs) : /\ Len(dbs'[i].rows) = Len(dbs[i].rows)
                                 /\ Cache!Bytes(dbs'[i].rows) = Cache!Bytes(dbs[i].rows)
    BY <1>3, <2>1
  <2>3. \A i \in 1 .. Len(dbs) : Len(dbs[i].rows) \in Nat /\ Cache!Bytes(dbs[i].rows) \in Nat
    <3> SUFFICES ASSUME NEW i \in 1 .. Len(dbs)
                 PROVE  Len(dbs[i].rows) \in Nat /\ Cache!Bytes(dbs[i].rows) \in Nat
      OBVIOUS
    <3>1. dbs[i] \in CacheFile
      BY <1>1
    <3>2. dbs[i].rows \in Seq(Row)
      BY <3>1 DEF CacheFile
    <3> QED  BY <3>2, CountsAre
  <2> QED  BY <1>1, <2>1, <2>2, <2>3 DEF NoMore
<1>5. CacheInv
  OBVIOUS
<1> QED  BY <1>1, <1>4, <1>5, OthersTake

(* What is left are rows, and not more.                                      *)
LEMMA LeftAreRows ==
    ASSUME NEW rows \in Seq(Row), NEW keys
    PROVE  /\ Cache!Without(rows, keys) \in Seq(Row)
           /\ Len(Cache!Without(rows, keys)) <= Len(rows)
           /\ Cache!Bytes(Cache!Without(rows, keys)) <= Cache!Bytes(rows)
<1> DEFINE left == Cache!Without(rows, keys)
           gone == None \in keys /\ \E i \in 1 .. Len(rows) : rows[i].key = None
           size == IF gone THEN PayloadSize[None[3]] ELSE 0
           count == IF gone THEN 1 ELSE 0
<1>1. /\ left \in Seq(Row) /\ Len(left) <= Len(rows) - count
      /\ Cache!Bytes(left) <= Cache!Bytes(rows) - size /\ size \in Nat
  BY LeftAreFewer
<1>2. count \in 0 .. 1
  OBVIOUS
<1>3. Len(left) \in Nat /\ Cache!Bytes(left) \in Nat /\ Len(rows) \in Nat /\ Cache!Bytes(rows) \in Nat
  BY <1>1, CountsAre
<1> HIDE DEF count, size
<1> QED  BY <1>1, <1>2, <1>3

(* The rows of one database are replaced.                                    *)
LEMMA RowsReplaced ==
    ASSUME dbs \in Seq(CacheFile), NEW db \in 1 .. Len(dbs), NEW rows \in Seq(Row),
           dbs' = [dbs EXCEPT ![db].rows = rows]
    PROVE  /\ dbs' \in Seq(CacheFile) /\ Len(dbs') = Len(dbs) /\ dbs'[db].rows = rows
           /\ dbs[db] \in CacheFile /\ dbs[db].rows \in Seq(Row)
           /\ \A i \in 1 .. Len(dbs) : i # db => dbs'[i] = dbs[i]
<1> DEFINE new == [dbs[db] EXCEPT !.rows = rows]
<1>1. dbs[db] \in CacheFile
  OBVIOUS
<1>2. new \in CacheFile /\ new.rows = rows /\ dbs[db].rows \in Seq(Row)
  BY <1>1 DEF CacheFile
<1>3. dbs' = [dbs EXCEPT ![db] = new]
  OBVIOUS
<1> HIDE DEF new
<1> QED  BY <1>1, <1>2, <1>3

(* Rows of one database are removed.                                         *)
LEMMA RowsRemoved ==
    ASSUME dbs \in Seq(CacheFile), NEW db \in 1 .. Len(dbs), NEW keys,
           dbs' = [dbs EXCEPT ![db].rows = Cache!Without(dbs[db].rows, keys)]
    PROVE  NoMore(dbs, dbs')
<1>1. dbs[db] \in CacheFile
  OBVIOUS
<1>2. dbs[db].rows \in Seq(Row)
  BY <1>1 DEF CacheFile
<1> DEFINE left == Cache!Without(dbs[db].rows, keys)
<1>3. /\ left \in Seq(Row) /\ Len(left) <= Len(dbs[db].rows)
      /\ Cache!Bytes(left) <= Cache!Bytes(dbs[db].rows)
  BY <1>2, LeftAreRows
<1> HIDE DEF left
<1>4. dbs' = [dbs EXCEPT ![db].rows = left]
  BY DEF left
<1>5. /\ dbs' \in Seq(CacheFile) /\ Len(dbs') = Len(dbs) /\ dbs'[db].rows = left
      /\ \A i \in 1 .. Len(dbs) : i # db => dbs'[i] = dbs[i]
  BY <1>3, <1>4, RowsReplaced
<1>6. ASSUME NEW i \in 1 .. Len(dbs)
      PROVE  /\ Len(dbs'[i].rows) <= Len(dbs[i].rows)
             /\ Cache!Bytes(dbs'[i].rows) <= Cache!Bytes(dbs[i].rows)
  <2>1. CASE i = db
    BY <1>3, <1>5, <2>1
  <2>2. CASE i # db
    <3>1. dbs[i] \in CacheFile /\ dbs'[i] = dbs[i]
      BY <1>5, <2>2
    <3>2. dbs[i].rows \in Seq(Row)
      BY <3>1 DEF CacheFile
    <3>3. Len(dbs[i].rows) \in Nat /\ Cache!Bytes(dbs[i].rows) \in Nat
      BY <3>2, CountsAre
    <3> DEFINE same == dbs[i].rows
    <3>4. dbs'[i].rows = same
      BY <3>1
    <3> HIDE DEF same
    <3>5. Len(same) <= Len(same) /\ Cache!Bytes(same) <= Cache!Bytes(same)
      BY <3>3 DEF same
    <3> QED  BY <3>4, <3>5 DEF same
  <2> QED  BY <2>1, <2>2
<1>7. Len(dbs) \in Nat
  OBVIOUS
<1> QED  BY <1>5, <1>6, <1>7 DEF NoMore

(* A step of the scan.                                                       *)
LEMMA ScanGoesOn ==
    ASSUME CacheInv, dbs' \in Seq(CacheFile), Len(dbs') >= Len(dbs), live' \in 0 .. Len(dbs'),
           UNCHANGED pruner, Scanning(cacheScan', dbs')
    PROVE  CacheInv'
<1>1. Len(dbs) \in Nat /\ Len(dbs') \in Nat
  BY DEF CacheInv
<1>2. pruner' = Cache!Idle \/ Pruning(pruner', dbs')
  BY <1>1 DEF CacheInv, Pruning
<1> QED  BY <1>2 DEF CacheInv, Cache!Idle, Scanning, Pruning, DataSoFar, NotMissed, Ended

(* The scan learns the data of its file, and goes on with some cache or none.*)
LEMMA LearnedIs ==
    ASSUME Scanning(cacheScan, dbs), cacheScan.pc \in {"get", "put"}, NEW all \in Seq(CacheFile),
           NEW c \in 0 .. Len(all)
    PROVE  LET value == FileData(cacheScan.file, cacheScan.tokenizer)
           IN Scanning([Cache!Learned(value) EXCEPT !.cache = c], all)
<1> DEFINE i == cacheScan.file
           t == cacheScan.tokenizer
           value == FileData(i, t)
           l == [Cache!Learned(value) EXCEPT !.cache = c]
           more == Append(cacheScan.data, value)
<1>1. /\ i \in 1 .. Total /\ t \in Tokenizers /\ cacheScan.stats = None /\ Total \in Nat
      /\ cacheScan.data = [j \in 1 .. i - 1 |-> FileData(j, t)] /\ cacheScan \in ScanRecord
      /\ cacheScan.data \in Seq(TokenData) /\ Len(all) \in Nat
  BY FilesAre DEF Scanning, DataSoFar, ScanRecord
<1>2. value \in TokenData
  BY <1>1, FilesAre
<1>3. more \in Seq(TokenData) /\ more = [j \in 1 .. i |-> FileData(j, t)]
  <2> HIDE DEF i, t
  <2>1. Len(cacheScan.data) = i - 1
    BY <1>1
  <2> DEFINE d == cacheScan.data
  <2>2. d \in Seq(TokenData) /\ Len(d) = i - 1 /\ d = [j \in 1 .. i - 1 |-> FileData(j, t)]
    BY <1>1, <2>1
  <2> HIDE DEF d, value
  <2>3. /\ Append(d, value) \in Seq(TokenData) /\ Len(Append(d, value)) = i
        /\ Append(d, value)[i] = value /\ \A j \in 1 .. i - 1 : Append(d, value)[j] = d[j]
    BY <1>1, <1>2, <2>2
  <2>4. \A j \in 1 .. i : Append(d, value)[j] = FileData(j, t)
    BY <1>1, <2>2, <2>3 DEF value
  <2>5. Append(d, value) = [j \in 1 .. i |-> Append(d, value)[j]]
    <3> DEFINE m == Append(d, value)
    <3> HIDE DEF m
    <3>1. m \in Seq(TokenData) /\ Len(m) = i
      BY <2>3 DEF m
    <3>2. m = [j \in 1 .. i |-> m[j]]
      BY <3>1
    <3> QED  BY <3>2 DEF m
  <2> QED  BY <2>3, <2>4, <2>5 DEF d
<1>4. /\ l.pc = (IF i = Total THEN "stats" ELSE "get") /\ l.tokenizer = t /\ l.cache = c
      /\ l.file = i + 1 /\ l.data = more /\ l.stats = None /\ l \in ScanRecord
  <2> DEFINE place == IF i = Total THEN "stats" ELSE "get"
  <2>1. place \in {"get", "stats"} /\ i + 1 \in Nat /\ c \in Nat
    BY <1>1
  <2>2. l = [cacheScan EXCEPT !.data = more, !.file = i + 1, !.pc = place, !.cache = c]
    BY <1>1 DEF Cache!Learned, Total, ScanRecord
  <2> HIDE DEF place, l, more
  <2>3. /\ l.pc = place /\ l.tokenizer = t /\ l.cache = c /\ l.file = i + 1 /\ l.data = more
        /\ l.stats = None /\ l \in ScanRecord
    BY <1>1, <1>3, <2>1, <2>2 DEF ScanRecord
  <2> QED  BY <2>3 DEF place
<1> HIDE DEF l, more, i, t
<1>5. DataSoFar(l)
  BY <1>1, <1>3, <1>4 DEF DataSoFar
<1> QED  BY <1>1, <1>4, <1>5 DEF Scanning, l, i, t

(* A scan opens the cache, or goes without (analyze/cache.rs `open`).        *)
LEMMA CacheOpen ==
    ASSUME CacheInv, NEW t \in Tokenizers, Cache!Open(t)
    PROVE  CacheInv'
<1>1. PICK opened \in (IF Cache!Opened(dbs, live)[3] # 0 THEN {Cache!Opened(dbs, live)}
                     ELSE {Cache!Reopened(q) : q \in BOOLEAN})
                    \cup (IF Cache!Busy THEN Cache!Retried ELSE {}) :
         /\ dbs' = opened[1] /\ live' = opened[2]
         /\ cacheScan' = [pc |-> "get", tokenizer |-> t, cache |-> opened[3], file |-> 1,
                          data |-> <<>>, stats |-> None]
  BY DEF Cache!Open
<1>2. UNCHANGED pruner
  BY DEF Cache!Open
<1>3. OpenedAs(opened)
  <2>1. OpenedAs(Cache!Opened(dbs, live))
    BY OpenedIs DEF CacheInv
  <2>2. \/ opened = Cache!Opened(dbs, live) \/ opened \in Cache!Retried
        \/ \E q \in BOOLEAN : opened = Cache!Reopened(q)
    BY <1>1
  <2> QED  BY <2>1, <2>2, ReopenedIs
<1>4. /\ dbs' \in Seq(CacheFile) /\ Len(dbs') >= Len(dbs) /\ live' \in 0 .. Len(dbs')
      /\ opened[3] \in 0 .. Len(dbs') /\ opened[3] \in Nat
  BY <1>1, <1>3 DEF OpenedAs
<1>5. Scanning(cacheScan', dbs')
  <2>1. <<>> \in Seq(TokenData) /\ <<>> = [i \in 1 .. 1 - 1 |-> FileData(i, t)]
    OBVIOUS
  <2>2. cacheScan' \in ScanRecord /\ DataSoFar(cacheScan')
    BY <1>1, <1>4, <2>1 DEF ScanRecord, DataSoFar
  <2> QED  BY <1>1, <1>4, <2>2, FilesAre DEF Scanning
<1> QED  BY <1>2, <1>4, <1>5, ScanGoesOn

(* A row that is found is what the file's own data would be.                 *)
LEMMA HitIsExact ==
    ASSUME CacheInv, Scanning(cacheScan, dbs), cacheScan.pc = "get", NEW row \in Cache!Hit
    PROVE  /\ cacheScan.cache \in 1 .. Len(dbs) /\ row \in Row
           /\ row.payload = FileData(cacheScan.file, cacheScan.tokenizer)
<1>1. /\ cacheScan.cache # 0 /\ row \in Cache!ToSet(dbs[cacheScan.cache].rows)
      /\ row.key = Cache!CurrentKey /\ row.payload # None
  BY DEF Cache!Hit, Cache!RowsOf
<1>2. cacheScan.cache \in 1 .. Len(dbs) /\ dbs \in Seq(CacheFile)
  BY <1>1 DEF Scanning, CacheInv
<1>3. dbs[cacheScan.cache] \in CacheFile
  BY <1>2
<1>4. dbs[cacheScan.cache].rows \in Seq(Row)
  BY <1>3 DEF CacheFile
<1>5. row \in Row
  BY <1>1, <1>4 DEF Cache!ToSet
<1>6. row.payload = Cache!Computed(row.key[1], row.key[2], row.key[3])
  BY <1>1, <1>5 DEF Row
<1> QED  BY <1>1, <1>2, <1>5, <1>6
         DEF Cache!CurrentKey, Cache!Current, Cache!Key, FileData

(* A lookup that finds it.                                                   *)
LEMMA CacheGetHit ==
    ASSUME CacheInv, NEW touch \in BOOLEAN, Cache!GetHit(touch)
    PROVE  CacheInv'
<1>1. /\ cacheScan.pc = "get" /\ Cache!Hit # {} /\ UNCHANGED <<live, pruner>>
  BY DEF Cache!GetHit
<1>2. Scanning(cacheScan, dbs) /\ dbs \in Seq(CacheFile) /\ live \in 0 .. Len(dbs)
  BY <1>1 DEF CacheInv, Cache!Idle
<1> DEFINE row == CHOOSE r \in Cache!Hit : TRUE
           c == cacheScan.cache
<1>3. row \in Cache!Hit
  BY <1>1
<1>4. /\ cacheScan' = Cache!Learned(row.payload)
      /\ dbs' = IF touch
                THEN [dbs EXCEPT ![c].rows = Append(Cache!Without(dbs[c].rows, {row.key}), row)]
                ELSE dbs
  BY DEF Cache!GetHit
<1> HIDE DEF row
<1>5. c \in 1 .. Len(dbs) /\ row \in Row /\ row.payload = FileData(cacheScan.file, cacheScan.tokenizer)
  BY <1>1, <1>2, <1>3, HitIsExact
<1>6. dbs' \in Seq(CacheFile) /\ Len(dbs') = Len(dbs)
  <2>1. CASE ~ touch
    BY <1>2, <1>4, <2>1
  <2>2. CASE touch
    <3>1. dbs[c] \in CacheFile
      BY <1>2, <1>5
    <3>2. dbs[c].rows \in Seq(Row)
      BY <3>1 DEF CacheFile
    <3> DEFINE left == Cache!Without(dbs[c].rows, {row.key})
               rows == Append(left, row)
    <3>3. left \in Seq(Row)
      BY <3>2, LeftAreRows
    <3>4. rows \in Seq(Row)
      <4> HIDE DEF left
      <4> QED  BY <1>5, <3>3
    <3>5. dbs' = [dbs EXCEPT ![c].rows = rows]
      BY <1>4, <2>2
    <3> HIDE DEF rows, c
    <3> QED  BY <1>2, <1>5, <3>4, <3>5, RowsReplaced
  <2> QED  BY <2>1, <2>2
<1>7. Scanning(cacheScan', dbs')
  <2>1. c \in 0 .. Len(dbs')
    BY <1>5, <1>6
  <2> DEFINE value == FileData(cacheScan.file, cacheScan.tokenizer)
  <2>2. Scanning([Cache!Learned(value) EXCEPT !.cache = c], dbs')
    BY <1>1, <1>2, <1>6, <2>1, LearnedIs
  <2>3. [Cache!Learned(value) EXCEPT !.cache = c] = Cache!Learned(value)
    BY <1>2 DEF Cache!Learned, Scanning, ScanRecord
  <2> HIDE DEF c
  <2> QED  BY <1>4, <1>5, <2>2, <2>3
<1>8. Len(dbs) \in Nat
  BY <1>2
<1> QED  BY <1>1, <1>2, <1>6, <1>7, <1>8, ScanGoesOn

(* One that does not.                                                        *)
LEMMA CacheGetMiss ==
    ASSUME CacheInv, Cache!GetMiss
    PROVE  CacheInv'
<1>1. /\ cacheScan.pc = "get" /\ cacheScan' = [cacheScan EXCEPT !.pc = "put"]
      /\ UNCHANGED <<dbs, live, pruner>>
  BY DEF Cache!GetMiss
<1>2. /\ Scanning(cacheScan, dbs) /\ dbs \in Seq(CacheFile) /\ live \in 0 .. Len(dbs)
      /\ Len(dbs) \in Nat
  BY <1>1 DEF CacheInv, Cache!Idle
<1>3. Scanning(cacheScan', dbs)
  BY <1>1, <1>2 DEF Scanning, ScanRecord, DataSoFar
<1> QED  BY <1>1, <1>2, <1>3, ScanGoesOn

(* A statement that fails: the scan goes on with what can be opened.         *)
LEMMA CacheFails ==
    ASSUME CacheInv, Cache!GetFails \/ Cache!PutFails
    PROVE  CacheInv'
<1> DEFINE value == FileData(cacheScan.file, cacheScan.tokenizer)
<1>1. PICK opened \in {[cacheScan EXCEPT !.pc = "put"], Cache!Learned(value)} :
         Cache!Fails(opened) /\ cacheScan.pc \in {"get", "put"}
  BY DEF Cache!GetFails, Cache!PutFails, Cache!Value, Cache!Current, FileData
<1>2. PICK after : /\ OpenedAs(after) /\ dbs' = after[1] /\ live' = after[2]
                   /\ cacheScan' = [opened EXCEPT !.cache = after[3]]
  <2>1. PICK after \in (IF Cache!Busy THEN Cache!Retried ELSE {})
                       \cup (IF dbs[cacheScan.cache].sound THEN {}
                             ELSE {Cache!Reopened(q) : q \in BOOLEAN}) :
           /\ dbs' = after[1] /\ live' = after[2] /\ cacheScan' = [opened EXCEPT !.cache = after[3]]
    BY <1>1 DEF Cache!Fails
  <2>2. after \in Cache!Retried \/ \E q \in BOOLEAN : after = Cache!Reopened(q)
    BY <2>1
  <2>3. OpenedAs(after)
    BY <2>2, ReopenedIs
  <2> QED  BY <2>1, <2>3
<1>3. /\ Scanning(cacheScan, dbs) /\ dbs \in Seq(CacheFile) /\ Len(dbs) \in Nat /\ UNCHANGED pruner
  BY <1>1 DEF CacheInv, Cache!Idle, Cache!Fails
<1>4. /\ dbs' \in Seq(CacheFile) /\ Len(dbs') >= Len(dbs) /\ live' \in 0 .. Len(dbs')
      /\ after[3] \in 0 .. Len(dbs') /\ after[3] \in Nat
  BY <1>2 DEF OpenedAs
<1>5. Scanning(cacheScan', dbs')
  <2>1. CASE opened = Cache!Learned(value)
    <3> DEFINE c == after[3]
    <3>1. c \in 0 .. Len(dbs')
      BY <1>4
    <3>2. Scanning([Cache!Learned(value) EXCEPT !.cache = c], dbs')
      <4> HIDE DEF c
      <4> QED  BY <1>1, <1>3, <1>4, <3>1, LearnedIs
    <3> QED  BY <1>2, <2>1, <3>2
  <2>2. CASE opened = [cacheScan EXCEPT !.pc = "put"]
    <3>1. cacheScan' = [cacheScan EXCEPT !.pc = "put", !.cache = after[3]]
      BY <1>2, <2>2
    <3> QED  BY <1>1, <1>3, <1>4, <3>1 DEF Scanning, ScanRecord, DataSoFar
  <2> QED  BY <1>1, <2>1, <2>2
<1> QED  BY <1>3, <1>4, <1>5, ScanGoesOn

(* The data of a file are stored.                                            *)
LEMMA CachePut ==
    ASSUME CacheInv, Cache!Put
    PROVE  CacheInv'
<1> DEFINE c == cacheScan.cache
           value == FileData(cacheScan.file, cacheScan.tokenizer)
           row == [key |-> FileKey(cacheScan.file, cacheScan.tokenizer), payload |-> value]
<1>1. /\ cacheScan.pc = "put" /\ UNCHANGED <<live, pruner>>
      /\ cacheScan' = Cache!Learned(value)
      /\ dbs' = IF c = 0 THEN dbs
                ELSE [dbs EXCEPT ![c].rows = Append(Cache!Without(dbs[c].rows, {row.key}), row)]
  BY DEF Cache!Put, Cache!Value, Cache!CurrentKey, Cache!Current, FileKey, FileData
<1>2. /\ Scanning(cacheScan, dbs) /\ dbs \in Seq(CacheFile) /\ live \in 0 .. Len(dbs)
      /\ Len(dbs) \in Nat
  BY <1>1 DEF CacheInv, Cache!Idle
<1>3. c \in 0 .. Len(dbs) /\ row \in Row
  BY <1>1, <1>2, FilesAre DEF Scanning, ScanRecord
<1>4. dbs' \in Seq(CacheFile) /\ Len(dbs') = Len(dbs)
  <2> HIDE DEF row
  <2>1. CASE c = 0
    BY <1>1, <1>2, <2>1
  <2>2. CASE c # 0
    <3>1. c \in 1 .. Len(dbs) /\ dbs[c] \in CacheFile
      BY <1>2, <1>3, <2>2
    <3>2. dbs[c].rows \in Seq(Row)
      BY <3>1 DEF CacheFile
    <3> DEFINE left == Cache!Without(dbs[c].rows, {row.key})
               rows == Append(left, row)
    <3>3. left \in Seq(Row)
      BY <3>2, LeftAreRows
    <3>4. rows \in Seq(Row)
      <4> HIDE DEF left
      <4> QED  BY <1>3, <3>3
    <3>5. dbs' = [dbs EXCEPT ![c].rows = rows]
      BY <1>1, <2>2
    <3> HIDE DEF rows, c
    <3> QED  BY <1>2, <3>1, <3>4, <3>5, RowsReplaced
  <2> QED  BY <2>1, <2>2
<1>5. Scanning(cacheScan', dbs')
  <2>1. c \in 0 .. Len(dbs')
    BY <1>3, <1>4
  <2>2. Scanning([Cache!Learned(value) EXCEPT !.cache = c], dbs')
    BY <1>1, <1>2, <1>4, <2>1, LearnedIs
  <2>3. [Cache!Learned(value) EXCEPT !.cache = c] = Cache!Learned(value)
    BY <1>2 DEF Cache!Learned, Scanning, ScanRecord
  <2> QED  BY <1>1, <2>2, <2>3
<1> QED  BY <1>1, <1>2, <1>4, <1>5, ScanGoesOn

(* The limits are looked at: what there is is counted, once.                 *)
LEMMA CacheStats ==
    ASSUME CacheInv, Cache!Stats
    PROVE  CacheInv'
<1> DEFINE c == cacheScan.cache
           rows == dbs[c].rows
           counts == [entries |-> Len(rows), bytes |-> Cache!Bytes(rows), failed |-> 0,
                      candidate |-> None]
<1>1. /\ cacheScan.pc = "stats" /\ UNCHANGED <<dbs, live, pruner>>
      /\ cacheScan' = IF c = 0 THEN [cacheScan EXCEPT !.pc = "done"]
                      ELSE [cacheScan EXCEPT !.pc = "evict", !.stats = counts]
  BY DEF Cache!Stats, Cache!RowsOf
<1>2. /\ Scanning(cacheScan, dbs) /\ dbs \in Seq(CacheFile) /\ live \in 0 .. Len(dbs)
      /\ Len(dbs) \in Nat
  BY <1>1 DEF CacheInv, Cache!Idle
<1>3. c \in 0 .. Len(dbs) /\ cacheScan.stats = None /\ cacheScan \in ScanRecord
  BY <1>1, <1>2 DEF Scanning
<1>4. CASE c = 0
  BY <1>1, <1>2, <1>4, ScanGoesOn DEF Scanning, ScanRecord, DataSoFar, Ended
<1>5. CASE c # 0
  <2>1. c \in 1 .. Len(dbs) /\ dbs[c] \in CacheFile
    BY <1>2, <1>3, <1>5
  <2>2. rows \in Seq(Row)
    BY <2>1 DEF CacheFile
  <2>3. Len(rows) \in Nat /\ Cache!Bytes(rows) \in Nat
    <3> HIDE DEF rows
    <3> QED  BY <2>2, CountsAre
  <2>4. counts \in Counts /\ counts.failed = 0 /\ counts.entries = Len(rows)
        /\ counts.bytes = Cache!Bytes(rows)
    <3> HIDE DEF rows
    <3> QED  BY <2>3 DEF Counts
  <2> HIDE DEF counts
  <2>5. /\ cacheScan' \in ScanRecord /\ cacheScan'.pc = "evict" /\ cacheScan'.stats = counts
        /\ cacheScan'.cache = c /\ cacheScan'.file = cacheScan.file
        /\ cacheScan'.data = cacheScan.data /\ cacheScan'.tokenizer = cacheScan.tokenizer
    BY <1>1, <1>3, <1>5, <2>4 DEF ScanRecord
  <2>6. NotMissed(cacheScan', dbs)
    BY <2>1, <2>3, <2>4, <2>5 DEF NotMissed
  <2>7. Scanning(cacheScan', dbs')
    BY <1>1, <1>2, <2>5, <2>6 DEF Scanning, DataSoFar
  <2> QED  BY <1>1, <1>2, <2>7, ScanGoesOn
<1> QED  BY <1>4, <1>5

(* The oldest entry is chosen, or the scan ends: its counts are within the   *)
(* limits and there is no more than it counted, or there is nothing.         *)
LEMMA CacheCandidate ==
    ASSUME CacheInv, Cache!Candidate
    PROVE  CacheInv'
<1> DEFINE c == cacheScan.cache
           rows == dbs[c].rows
           counts == cacheScan.stats
           enough == Cache!Enough(counts) \/ rows = <<>>
<1>1. /\ cacheScan.pc = "evict" /\ UNCHANGED <<dbs, live, pruner>>
      /\ cacheScan' = IF enough THEN [cacheScan EXCEPT !.pc = "done"]
                      ELSE [cacheScan EXCEPT !.stats.candidate = Head(rows).key]
  BY DEF Cache!Candidate, Cache!RowsOf
<1>2. /\ Scanning(cacheScan, dbs) /\ dbs \in Seq(CacheFile) /\ live \in 0 .. Len(dbs)
      /\ Len(dbs) \in Nat
  BY <1>1 DEF CacheInv, Cache!Idle
<1>3. /\ NotMissed(cacheScan, dbs) /\ c \in 1 .. Len(dbs) /\ cacheScan \in ScanRecord
      /\ counts \in Counts /\ counts.entries \in Int /\ counts.bytes \in Int
      /\ counts.entries >= Len(rows) /\ counts.bytes >= Cache!Bytes(rows)
  BY <1>1, <1>2 DEF Scanning, NotMissed, Counts
<1>4. rows \in Seq(Row)
  <2>1. dbs[c] \in CacheFile
    BY <1>2, <1>3
  <2> QED  BY <2>1 DEF CacheFile
<1>5. Len(rows) \in Nat /\ Cache!Bytes(rows) \in Nat
  <2> HIDE DEF rows
  <2> QED  BY <1>4, CountsAre
<1>6. CASE enough
  <2>1. Cache!Within(Len(rows), Cache!Bytes(rows))
    <3>1. CASE rows = <<>>
      <4>1. Len(rows) = 0
        BY <3>1
      <4>2. Cache!Bytes(rows) = 0
        BY <1>4, <4>1, BytesAre DEF RunningSum
      <4> QED  BY <4>1, <4>2, SizesAssumption DEF Cache!Within
    <3>2. CASE Cache!Enough(counts)
      <4> HIDE DEF rows, counts
      <4> QED  BY <1>3, <1>5, <3>2, SizesAssumption DEF Cache!Enough, Cache!Within
    <3> QED  BY <1>6, <3>1, <3>2
  <2>2. /\ cacheScan' \in ScanRecord /\ cacheScan'.pc = "done" /\ cacheScan'.cache = c
        /\ cacheScan'.file = cacheScan.file /\ cacheScan'.stats = cacheScan.stats
        /\ cacheScan'.data = cacheScan.data /\ cacheScan'.tokenizer = cacheScan.tokenizer
    BY <1>1, <1>3, <1>6 DEF ScanRecord
  <2>3. Ended(cacheScan', dbs)
    BY <1>3, <2>1, <2>2 DEF Ended
  <2>4. Scanning(cacheScan', dbs')
    BY <1>1, <1>2, <2>2, <2>3 DEF Scanning, DataSoFar
  <2> QED  BY <1>1, <1>2, <2>4, ScanGoesOn
<1>7. CASE ~ enough
  <2> DEFINE k == Head(rows).key
             chosen == [counts EXCEPT !.candidate = k]
  <2>1. Head(rows) \in Row
    BY <1>4, <1>7
  <2>2. k \in CacheKeys
    BY <2>1 DEF Row
  <2>3. chosen \in Counts /\ chosen.entries = counts.entries /\ chosen.bytes = counts.bytes
        /\ chosen.failed = counts.failed
    <3> HIDE DEF k
    <3> QED  BY <1>3, <2>2 DEF Counts
  <2>4. cacheScan' = [cacheScan EXCEPT !.stats = chosen]
    BY <1>1, <1>7
  <2> HIDE DEF chosen
  <2>5. /\ cacheScan' \in ScanRecord /\ cacheScan'.pc = "evict" /\ cacheScan'.cache = c
        /\ cacheScan'.file = cacheScan.file /\ cacheScan'.stats = chosen
        /\ cacheScan'.data = cacheScan.data /\ cacheScan'.tokenizer = cacheScan.tokenizer
    BY <1>1, <1>3, <2>3, <2>4 DEF ScanRecord
  <2>6. NotMissed(cacheScan', dbs)
    BY <1>3, <2>3, <2>5 DEF NotMissed
  <2>7. Scanning(cacheScan', dbs')
    BY <1>1, <1>2, <2>5, <2>6 DEF Scanning, DataSoFar
  <2> QED  BY <1>1, <1>2, <2>7, ScanGoesOn
<1> QED  BY <1>6, <1>7

(* An entry is removed and taken off the counts: it was there, with its      *)
(* bytes. When it was not, the scan counts a failure and ends.               *)
LEMMA CacheEvict ==
    ASSUME CacheInv, Cache!Evict
    PROVE  CacheInv'
<1> DEFINE c == cacheScan.cache
           rows == dbs[c].rows
           counts == cacheScan.stats
           key == counts.candidate
           left == Cache!Without(rows, {key})
           there == \E i \in 1 .. Len(rows) : rows[i].key = key
<1>1. /\ cacheScan.pc = "evict" /\ key # None /\ UNCHANGED <<live, pruner>>
      /\ dbs' = [dbs EXCEPT ![c].rows = left]
  BY DEF Cache!Evict, Cache!RowsOf
<1>2. /\ Scanning(cacheScan, dbs) /\ dbs \in Seq(CacheFile) /\ live \in 0 .. Len(dbs)
      /\ Len(dbs) \in Nat
  BY <1>1 DEF CacheInv, Cache!Idle
<1>3. /\ NotMissed(cacheScan, dbs) /\ c \in 1 .. Len(dbs) /\ cacheScan \in ScanRecord
      /\ counts \in Counts /\ counts.entries \in Int /\ counts.bytes \in Int /\ counts.failed = 0
      /\ counts.entries >= Len(rows) /\ counts.bytes >= Cache!Bytes(rows) /\ key \in CacheKeys
  BY <1>1, <1>2 DEF Scanning, NotMissed, Counts
<1>4. rows \in Seq(Row)
  <2>1. dbs[c] \in CacheFile
    BY <1>2, <1>3
  <2> QED  BY <2>1 DEF CacheFile
<1>5. /\ there => cacheScan' = [cacheScan EXCEPT !.stats =
                       [counts EXCEPT !.entries = @ - 1, !.bytes = @ - PayloadSize[key[3]],
                                      !.candidate = None]]
      /\ ~ there => cacheScan' = [cacheScan EXCEPT !.stats.failed = @ + 1, !.pc = "done"]
  <2>1. (\E row \in Cache!ToSet(rows) : row.key = key) <=> there
    <3>1. Cache!ToSet(rows) = {rows[i] : i \in 1 .. Len(rows)}
      BY <1>4 DEF Cache!ToSet
    <3> QED  BY <3>1
  <2> QED  BY <2>1 DEF Cache!Evict, Cache!RowsOf
<1>6. NoMore(dbs, dbs')
  BY <1>1, <1>2, <1>3, RowsRemoved
<1>7. /\ left \in Seq(Row)
      /\ Len(left) <= Len(rows) - (IF there THEN 1 ELSE 0)
      /\ Cache!Bytes(left) <= Cache!Bytes(rows) - (IF there THEN PayloadSize[key[3]] ELSE 0)
  BY <1>4, LeftAreFewer
<1>8. /\ dbs' \in Seq(CacheFile) /\ Len(dbs') = Len(dbs) /\ dbs'[c].rows = left
  <2> HIDE DEF left, c
  <2> QED  BY <1>1, <1>2, <1>3, <1>7, RowsReplaced
<1>9. CASE there
  <2> DEFINE size == PayloadSize[key[3]]
             less == [counts EXCEPT !.entries = counts.entries - 1, !.bytes = counts.bytes - size,
                                    !.candidate = None]
  <2>1. size \in Nat
    BY <1>3, SizesAre
  <2>2. /\ Len(left) \in Nat /\ Cache!Bytes(left) \in Nat /\ Len(rows) \in Nat
        /\ Cache!Bytes(rows) \in Nat
    <3> HIDE DEF left, rows
    <3> QED  BY <1>4, <1>7, CountsAre
  <2>3. Len(left) <= Len(rows) - 1 /\ Cache!Bytes(left) <= Cache!Bytes(rows) - size
    BY <1>7, <1>9
  <2>4. /\ less \in Counts /\ less.failed = 0 /\ less.entries = counts.entries - 1
        /\ less.bytes = counts.bytes - size
    <3>1. counts \in Counts /\ counts.failed = 0
      BY <1>3
    <3> DEFINE entries == counts.entries - 1
               bytes == counts.bytes - size
    <3>2. entries \in Int /\ bytes \in Int
      BY <1>3, <2>1
    <3>3. less = [counts EXCEPT !.entries = entries, !.bytes = bytes, !.candidate = None]
      OBVIOUS
    <3> HIDE DEF size, counts, entries, bytes, less
    <3>4. less \in Counts /\ less.failed = 0 /\ less.entries = entries /\ less.bytes = bytes
      BY <3>1, <3>2, <3>3 DEF Counts
    <3> QED  BY <3>4 DEF entries, bytes
  <2>5. cacheScan' = [cacheScan EXCEPT !.stats = less]
    BY <1>5, <1>9
  <2> HIDE DEF less
  <2>6. /\ cacheScan' \in ScanRecord /\ cacheScan'.pc = "evict" /\ cacheScan'.cache = c
        /\ cacheScan'.file = cacheScan.file /\ cacheScan'.stats = less
        /\ cacheScan'.data = cacheScan.data /\ cacheScan'.tokenizer = cacheScan.tokenizer
    BY <1>1, <1>3, <2>4, <2>5 DEF ScanRecord
  <2>7. less.entries >= Len(left) /\ less.bytes >= Cache!Bytes(left)
    <3> HIDE DEF left, rows, counts, size
    <3> QED  BY <1>3, <2>1, <2>2, <2>3, <2>4
  <2>8. NotMissed(cacheScan', dbs')
    BY <1>3, <1>8, <2>4, <2>6, <2>7 DEF NotMissed
  <2>9. Scanning(cacheScan', dbs')
    BY <1>1, <1>2, <1>8, <2>6, <2>8 DEF Scanning, DataSoFar
  <2> QED  BY <1>1, <1>2, <1>8, <2>9, ScanGoesOn
<1>10. CASE ~ there
  <2> DEFINE failed == [counts EXCEPT !.failed = counts.failed + 1]
  <2>1. failed \in Counts /\ failed.failed = 1
    BY <1>3 DEF Counts
  <2>2. cacheScan' = [cacheScan EXCEPT !.stats = failed, !.pc = "done"]
    BY <1>5, <1>10
  <2> HIDE DEF failed
  <2>3. /\ cacheScan' \in ScanRecord /\ cacheScan'.pc = "done" /\ cacheScan'.cache = c
        /\ cacheScan'.file = cacheScan.file /\ cacheScan'.stats = failed
        /\ cacheScan'.data = cacheScan.data /\ cacheScan'.tokenizer = cacheScan.tokenizer
    BY <1>1, <1>3, <2>1, <2>2 DEF ScanRecord
  <2>4. Scanning(cacheScan', dbs')
    BY <1>1, <1>2, <1>8, <2>1, <2>3 DEF Scanning, DataSoFar, Ended
  <2> QED  BY <1>1, <1>2, <1>8, <2>4, ScanGoesOn
<1> QED  BY <1>9, <1>10

(* A count, a lookup or a removal that fails ends the scan.                  *)
LEMMA CacheLimitsFail ==
    ASSUME CacheInv, Cache!LimitsFail
    PROVE  CacheInv'
<1>1. /\ cacheScan.pc \in {"stats", "evict"} /\ UNCHANGED <<dbs, pruner>> /\ live' \in {live, 0}
      /\ \/ /\ cacheScan.pc = "evict"
            /\ cacheScan' = [cacheScan EXCEPT !.stats.failed = @ + 1, !.pc = "done"]
         \/ cacheScan' = [cacheScan EXCEPT !.stats = None, !.pc = "done"]
  BY DEF Cache!LimitsFail
<1>2. /\ Scanning(cacheScan, dbs) /\ dbs \in Seq(CacheFile) /\ live' \in 0 .. Len(dbs)
      /\ Len(dbs) \in Nat /\ cacheScan \in ScanRecord
  BY <1>1 DEF CacheInv, Cache!Idle, Scanning
<1>3. CASE cacheScan' = [cacheScan EXCEPT !.stats = None, !.pc = "done"]
  <2>1. Scanning(cacheScan', dbs)
    BY <1>1, <1>2, <1>3 DEF Scanning, ScanRecord, DataSoFar, Ended
  <2> QED  BY <1>1, <1>2, <2>1, ScanGoesOn
<1>4. CASE /\ cacheScan.pc = "evict"
           /\ cacheScan' = [cacheScan EXCEPT !.stats.failed = @ + 1, !.pc = "done"]
  <2> DEFINE counts == cacheScan.stats
             failed == [counts EXCEPT !.failed = counts.failed + 1]
  <2>1. counts \in Counts /\ counts.failed = 0
    BY <1>2, <1>4 DEF Scanning, NotMissed
  <2>2. failed \in Counts /\ failed.failed = 1
    <3> HIDE DEF counts
    <3> QED  BY <2>1 DEF Counts
  <2>3. cacheScan' = [cacheScan EXCEPT !.stats = failed, !.pc = "done"]
    BY <1>4
  <2> HIDE DEF failed
  <2>4. /\ cacheScan' \in ScanRecord /\ cacheScan'.pc = "done" /\ cacheScan'.cache = cacheScan.cache
        /\ cacheScan'.file = cacheScan.file /\ cacheScan'.stats = failed
        /\ cacheScan'.data = cacheScan.data /\ cacheScan'.tokenizer = cacheScan.tokenizer
    BY <1>2, <2>2, <2>3 DEF ScanRecord
  <2>5. Scanning(cacheScan', dbs)
    BY <1>2, <1>4, <2>2, <2>4 DEF Scanning, DataSoFar, Ended
  <2> QED  BY <1>1, <1>2, <2>5, ScanGoesOn
<1> QED  BY <1>1, <1>3, <1>4

(* `cache prune` counts, selects and removes.                                *)
LEMMA CachePrunes ==
    ASSUME CacheInv,
           Cache!PruneSelect \/ Cache!PruneDelete \/ \E limit : Cache!PruneCount(limit)
    PROVE  CacheInv'
<1>1. dbs \in Seq(CacheFile) /\ Len(dbs) \in Nat /\ live \in 0 .. Len(dbs)
  BY DEF CacheInv
<1>2. ASSUME Pruning(pruner', dbs), UNCHANGED <<dbs, live, cacheScan>>
      PROVE  CacheInv'
  BY <1>1, <1>2 DEF CacheInv, Scanning, Pruning, DataSoFar, NotMissed, Ended, Cache!Idle
<1>3. ASSUME NEW limit, Cache!PruneCount(limit)
      PROVE  CacheInv'
  <2>1. Pruning(pruner', dbs) /\ UNCHANGED <<dbs, live, cacheScan>>
    BY <1>1, <1>3 DEF Cache!PruneCount, Pruning
  <2> QED  BY <1>2, <2>1
<1>4. ASSUME Cache!PruneSelect
      PROVE  CacheInv'
  <2>1. PICK keys : pruner' = [pruner EXCEPT !.pc = "delete", !.selected = keys]
    BY <1>4 DEF Cache!PruneSelect
  <2>2. Pruning(pruner, dbs) /\ UNCHANGED <<dbs, live, cacheScan>>
    BY <1>4 DEF Cache!PruneSelect, CacheInv, Cache!Idle
  <2>3. pruner' = [pc |-> "delete", limit |-> pruner.limit, db |-> pruner.db,
                   entries |-> pruner.entries, bytes |-> pruner.bytes, selected |-> keys]
    BY <2>1, <2>2 DEF Pruning
  <2>4. Pruning(pruner', dbs)
    BY <2>2, <2>3 DEF Pruning
  <2> QED  BY <1>2, <2>2, <2>4
<1>5. ASSUME Cache!PruneDelete
      PROVE  CacheInv'
  <2>1. /\ pruner.db \in 1 .. Len(dbs)
        /\ dbs' = [dbs EXCEPT ![pruner.db].rows =
                      Cache!Without(dbs[pruner.db].rows, pruner.selected)]
        /\ pruner' = Cache!Idle /\ UNCHANGED <<live, cacheScan>>
    BY <1>5 DEF Cache!PruneDelete, CacheInv, Cache!Idle, Pruning
  <2> DEFINE db == pruner.db
             keys == pruner.selected
  <2>2. /\ db \in 1 .. Len(dbs)
        /\ dbs' = [dbs EXCEPT ![db].rows = Cache!Without(dbs[db].rows, keys)]
    BY <2>1
  <2>3. NoMore(dbs, dbs')
    <3> HIDE DEF db, keys
    <3> QED  BY <1>1, <2>2, RowsRemoved
  <2> QED  BY <2>1, <2>3, OthersTake
<1> QED  BY <1>3, <1>4, <1>5

(* Every step keeps it.                                                      *)
LEMMA CacheStep ==
    ASSUME CacheInv, Cache!Next \/ UNCHANGED cacheVars
    PROVE  CacheInv'
<1>1. CASE UNCHANGED cacheVars
  BY <1>1 DEF cacheVars, CacheInv, Cache!Idle, Scanning, Pruning, DataSoFar, NotMissed, Ended
<1> QED  BY <1>1, CacheDamage, CacheOpen, CacheGetHit, CacheGetMiss, CacheFails, CachePut,
            CacheStats, CacheCandidate, CacheEvict, CacheLimitsFail, CachePrunes
         DEF Cache!Next

(* No scan has begun where the commands begin.                               *)
LEMMA CacheStarts == Cache!Init => CacheInv
  BY DEF Cache!Init, CacheInv

(* A scan that has ended has the data of all files, within the limits.       *)
LEMMA CacheImplies == CacheInv => Cache!CacheTransparent /\ Cache!CacheBounded
<1> SUFFICES ASSUME CacheInv, cacheScan.pc = "done"
             PROVE  Cache!CacheTransparent /\ Cache!CacheBounded
  BY DEF Cache!CacheTransparent, Cache!CacheBounded
<1>1. Scanning(cacheScan, dbs)
  BY DEF CacheInv, Cache!Idle
<1>2. Cache!CacheTransparent
  <2>1. cacheScan.file - 1 = Total
    BY <1>1, FilesAre DEF Scanning
  <2>2. cacheScan.data = [i \in 1 .. Total |-> FileData(i, cacheScan.tokenizer)]
    BY <1>1, <2>1 DEF Scanning, DataSoFar
  <2> QED  BY <2>2, FilesAre DEF Cache!CacheTransparent, FileData
<1>3. Cache!CacheBounded
  BY <1>1 DEF Scanning, Ended, Cache!CacheBounded, Cache!RowsOf
<1> QED  BY <1>2, <1>3

-------------------------------------------------------------------------------
(* The configuration: its migration, and the digests of a comparison.        *)

(* What stands for the file after a migration of t.                          *)
MigratedText(t) == [schema |-> 2, leaves |-> Settings!Diff(Settings!Effective(t))]

(* A leaf that `config migrate` leaves out though it differs.                *)
Skipped(p) == \E i \in DOMAIN p : p[i] \in Settings!LegacySections

(* The context bands are what a migration leaves out.                        *)
LEMMA BandsAreSkipped ==
    /\ Skipped(Settings!ContextBands \o <<"healthy">>)
    /\ Skipped(Settings!ContextBands \o <<"warning">>)
    /\ ~ Skipped(<<"history", "max_commits">>)
    /\ ~ Skipped(<<"scoring", "context_weight">>) /\ ~ Skipped(<<"scoring", "churn_weight">>)
    /\ ~ Skipped(Settings!SlopBand)
<1>1. ASSUME NEW name
      PROVE  Skipped(Settings!ContextBands \o <<name>>)
  <2> DEFINE path == Settings!ContextBands \o <<name>>
  <2>1. 2 \in DOMAIN path /\ path[2] = "context_bands"
    BY DEF Settings!ContextBands
  <2>2. Skipped(path)
    <3> HIDE DEF path
    <3> QED  BY <2>1 DEF Skipped, Settings!LegacySections
  <2> QED  BY <2>2
<1>2. /\ ~ Skipped(<<"history", "max_commits">>)
      /\ ~ Skipped(<<"scoring", "context_weight">>) /\ ~ Skipped(<<"scoring", "churn_weight">>)
      /\ ~ Skipped(Settings!SlopBand)
  BY DEF Skipped, Settings!LegacySections, Settings!SlopBand
<1> QED  BY <1>1, <1>2

(* The values that the new file gives.                                       *)
LEMMA MigratedValues ==
    ASSUME NEW t \in Texts \cup {None}, Settings!Effective(t) # None
    PROVE  LET loaded == Settings!Effective(t)
               after == Settings!Merged(Settings!Diff(loaded))
           IN /\ DOMAIN after = Settings!Leaves
              /\ \A p \in Settings!Leaves :
                    after[p] = IF Skipped(p) THEN SmallDefaults[p] ELSE loaded[p]
  BY DEF Settings!Merged, Settings!Diff, Settings!Over, Settings!Restrict, Settings!Leaves,
         Skipped

(* What a migration writes loads again: what it leaves out has its default,  *)
(* and the bands of the defaults increase.                                   *)
LEMMA MigratedLoads ==
    ASSUME NEW t \in Texts \cup {None}, Settings!Effective(t) # None
    PROVE  LET after == Settings!Effective(MigratedText(t))
           IN after = Settings!Merged(Settings!Diff(Settings!Effective(t))) /\ after # None
<1> DEFINE loaded == Settings!Effective(t)
           kept == Settings!Diff(loaded)
           after == Settings!Merged(kept)
<1>1. Settings!Normalized(MigratedText(t)) = kept
  <2>1. Settings!LegacyBand \notin DOMAIN kept /\ kept = [p \in DOMAIN kept |-> kept[p]]
    BY DefaultsAssumption DEF Settings!Diff, Settings!Restrict
  <2>2. MigratedText(t).schema = 2 /\ MigratedText(t).leaves = kept
    BY DEF MigratedText
  <2> HIDE DEF kept
  <2>3. Settings!Without(kept, {Settings!LegacyBand}) = kept
    BY <2>1 DEF Settings!Without, Settings!Restrict
  <2> QED  BY <2>1, <2>2, <2>3 DEF Settings!Normalized, Settings!Renamed
<1>2. DOMAIN kept \subseteq Settings!Leaves
  BY DEF Settings!Diff, Settings!Restrict
<1>3. Settings!Valid(loaded)
  <2>1. CASE t = None
    BY <2>1, DefaultsAssumption DEF Settings!Effective
  <2>2. CASE t # None
    BY <2>2 DEF Settings!Effective
  <2> QED  BY <2>1, <2>2
<1>4. \A p \in Settings!Leaves : after[p] = IF Skipped(p) THEN SmallDefaults[p] ELSE loaded[p]
  BY MigratedValues
<1>5. Settings!Valid(after)
  <2> HIDE DEF after, loaded
  <2>1. \A p \in {Settings!ContextBands \o <<"healthy">>, Settings!ContextBands \o <<"warning">>} :
           after[p] = SmallDefaults[p]
    BY <1>4, BandsAreSkipped, DefaultsAssumption
  <2>2. \A p \in {<<"history", "max_commits">>, <<"scoring", "context_weight">>,
                 <<"scoring", "churn_weight">>, Settings!SlopBand} : after[p] = loaded[p]
    BY <1>4, BandsAreSkipped, DefaultsAssumption
  <2>3. Settings!Valid(SmallDefaults)
    BY DefaultsAssumption
  <2> QED  BY <1>3, <2>1, <2>2, <2>3 DEF Settings!Valid
<1>6. MigratedText(t) # None /\ after # None
  BY DefaultsAssumption DEF MigratedText
<1>7. Settings!Shaped(kept) /\ MigratedText(t).schema \in {1, 2}
  BY <1>2 DEF Settings!Shaped, MigratedText
<1> HIDE DEF kept
<1>8. Settings!Effective(MigratedText(t)) = after
  BY <1>1, <1>5, <1>6, <1>7 DEF Settings!Effective
<1>9. after = Settings!Merged(Settings!Diff(Settings!Effective(t)))
  BY DEF kept
<1> QED  BY <1>6, <1>8, <1>9

(* The texts that the file and the one moved aside may be.                   *)
Legible(t) == t \in Texts \cup {None} \/ t.schema = 2

(* What a migration that has read the file is about to write.                *)
Reads(m) ==
    \E t \in Texts \cup {None} :
        Settings!Effective(t) # None /\ m.from = t /\ m.to = MigratedText(t)

(* The old file is in the backup, unless somebody edited it since.           *)
CopyHolds(m, old) ==
    /\ m = [pc |-> m.pc, keep |-> m.keep, from |-> m.from, to |-> m.to, copied |-> m.copied]
    /\ m.copied \in Nat /\ m.copied <= configEdits
    /\ m.keep /\ old # None => bak = old \/ configEdits # m.copied

(* The invariant of a migration.                                             *)
SettingsInv ==
    /\ configEdits \in Nat /\ Legible(file) /\ Legible(previous)
    /\ migration.pc = "load" => file \in Texts \cup {None}
    /\ migration.pc \in {"backup", "aside", "replace"} => Reads(migration)
    /\ migration.pc = "aside" => CopyHolds(migration, file)
    /\ migration.pc = "replace" => CopyHolds(migration, previous)
    /\ Settings!MigrationKeepsRest

(* Every step of a migration, an edit or a scan keeps it.                    *)
LEMMA SettingsStep ==
    ASSUME SettingsInv, Settings!Next \/ UNCHANGED settingVars
    PROVE  SettingsInv'
<1> USE DEF SettingsInv, Settings!Migrating
<1>1. CASE UNCHANGED settingVars
  BY <1>1 DEF settingVars, Legible, Reads, CopyHolds, Settings!MigrationKeepsRest
<1>2. ASSUME NEW keep \in BOOLEAN, Settings!Migrate(keep)
      PROVE  SettingsInv'
  BY <1>2 DEF Settings!Migrate, Legible, Settings!MigrationKeepsRest
<1>3. ASSUME Settings!Load
      PROVE  SettingsInv'
  BY <1>3 DEF Settings!Load, Settings!Idle, Legible, Reads, MigratedText,
              Settings!MigrationKeepsRest
<1>4. ASSUME Settings!Preview \/ Settings!Interrupted \/ Settings!Restore
      PROVE  SettingsInv'
  BY <1>4 DEF Settings!Preview, Settings!Interrupted, Settings!Restore, Settings!Idle, Legible,
              Settings!MigrationKeepsRest
<1>5. ASSUME Settings!Backup
      PROVE  SettingsInv'
  BY <1>5 DEF Settings!Backup, Settings!Copied, Legible, Reads, CopyHolds,
              Settings!MigrationKeepsRest
<1>6. ASSUME Settings!Aside
      PROVE  SettingsInv'
  BY <1>6 DEF Settings!Aside, Legible, Reads, CopyHolds, Settings!MigrationKeepsRest
<1>7. ASSUME Settings!Replace
      PROVE  SettingsInv'
  <2>1. PICK t \in Texts \cup {None} : /\ Settings!Effective(t) # None /\ migration.from = t
                                     /\ migration.to = MigratedText(t)
    BY <1>7 DEF Settings!Replace, Reads
  <2>2. migration'.kept /\ migration'.pc = "done" /\ migration'.from = t
        /\ migration'.to = MigratedText(t)
    BY <1>7, <2>1 DEF Settings!Replace, CopyHolds
  <2>3. MigratedText(t).schema = 2
    BY DEF MigratedText
  <2>4. \A p \in Settings!Leaves : Skipped(p) => Settings!Prefixed(p, Settings!ContextBands)
    BY DefaultsAssumption DEF Skipped
  <2>5. Settings!MigrationKeepsRest'
    BY <2>1, <2>2, <2>3, <2>4, MigratedLoads, MigratedValues DEF Settings!MigrationKeepsRest
  <2>6. /\ file' = MigratedText(t) /\ previous' = None /\ configEdits' = configEdits
    BY <1>7, <2>1 DEF Settings!Replace
  <2> QED  BY <2>2, <2>3, <2>5, <2>6 DEF Legible
<1>8. ASSUME Settings!Edit
      PROVE  SettingsInv'
  BY <1>8 DEF Settings!Edit, Legible, Reads, CopyHolds, Settings!MigrationKeepsRest
<1>9. ASSUME Settings!Find
      PROVE  SettingsInv'
  BY <1>9 DEF Settings!Find, Legible, Reads, CopyHolds, Settings!MigrationKeepsRest
<1> QED  BY <1>1, <1>2, <1>3, <1>4, <1>5, <1>6, <1>7, <1>8, <1>9 DEF Settings!Next

(* The digested sections are all but four.                                   *)
LEMMA SameSettings == Settings!ComparedAlike
<1> SUFFICES ASSUME Settings!Compatible(baseConfig, headConfig), NEW p \in Settings!Leaves,
                    baseConfig[p] # headConfig[p]
             PROVE  p[1] \in {"health", "check", "output", "semantic_drift"}
  BY DEF Settings!ComparedAlike
<1>1. ASSUME NEW sections,
             Settings!Selected(baseConfig, sections) = Settings!Selected(headConfig, sections)
      PROVE  p[1] \notin sections
  <2> SUFFICES ASSUME p[1] \in sections
               PROVE  FALSE
    OBVIOUS
  <2>1. /\ Settings!Selected(baseConfig, sections)[p] = baseConfig[p]
        /\ Settings!Selected(headConfig, sections)[p] = headConfig[p]
    BY DEF Settings!Selected, Settings!Restrict
  <2> QED  BY <1>1, <2>1
<1> QED  BY <1>1, DefaultsAssumption DEF Settings!Compatible

(* No migration has begun where the commands begin.                          *)
LEMMA SettingsStart == Settings!Init => SettingsInv
  BY DEF Settings!Init, Settings!Idle, SettingsInv, Legible, Settings!MigrationKeepsRest
===============================================================================
