-------------------------------- MODULE History --------------------------------
(***************************************************************************)
(* What a scan learns of a file from `git log` (src/history/): the commits   *)
(* are walked from the newest to the oldest, and a rename met on the way     *)
(* makes the older name an alias of the path the file has today.             *)
(*                                                                           *)
(* The files of people come and go under the names; a file is a number, so   *)
(* that the properties can tell the file from its name.  The metrics of a    *)
(* path (revisions, churn, authors, days since the last human edit) are sums *)
(* over the commits attributed to it: the model keeps the set of commits.    *)
(***************************************************************************)
EXTENDS Naturals, Sequences, FiniteSetsExt, SequencesExt, Functions

CONSTANTS Words,        \* names a file may have
          Caps,         \* values of history.max_commits
          Sinces,       \* commits the churn window may begin with
          None,
          MaxLog        \* commits

VARIABLES log,        \* the commits, oldest first: [changes, of, side, binary]
          tree,       \* the file each name holds
          made,       \* files made so far
          metrics     \* what the scan found; None before it

vars == <<log, tree, made, metrics>>

Init == log = <<>> /\ tree = [p \in Words |-> None] /\ made = 0 /\ metrics = None

(***************************************************************************)
(* Git.  `of` says which file each path of the commit was.  A rename is      *)
(* reported only from a path that is gone to a path that is new; copies are  *)
(* not asked for, and a merge commit lists no path.                          *)
(***************************************************************************)
Record(changes, of, side, binary) ==
    [changes |-> changes, of |-> of, side |-> side, binary |-> binary]
Path(status, p) == [status |-> status, old |-> p, new |-> p]
Held == {p \in Words : tree[p] # None}

Commits(records) == /\ metrics = None /\ Len(log) + Len(records) <= MaxLog
                    /\ log' = log \o records
                    /\ UNCHANGED metrics

Import == /\ log = <<>>
          /\ \E ps \in SUBSET Words \ {{}} :
                LET seq == SetToSeq(ps)
                    of == [p \in ps |-> CHOOSE i \in DOMAIN seq : seq[i] = p]
                IN /\ Commits(<<Record({Path("A", p) : p \in ps}, of, FALSE, FALSE)>>)
                   /\ tree' = [p \in Words |-> IF p \in ps THEN of[p] ELSE None]
                   /\ made' = Cardinality(ps)

Create == \E p \in Words \ Held :
    /\ log # <<>>
    /\ Commits(<<Record({Path("A", p)}, p :> made + 1, FALSE, FALSE)>>)
    /\ tree' = [tree EXCEPT ![p] = made + 1] /\ made' = made + 1

Edit == \E p \in Held, binary \in BOOLEAN :
    /\ Commits(<<Record({Path("M", p)}, p :> tree[p], FALSE, binary)>>)
    /\ UNCHANGED <<tree, made>>

Delete == \E p \in Held :
    /\ Commits(<<Record({Path("D", p)}, p :> tree[p], FALSE, FALSE)>>)
    /\ tree' = [tree EXCEPT ![p] = None] /\ UNCHANGED made

Rename == \E p \in Held, q \in Words \ Held :
    /\ Commits(<<Record({[status |-> "R", old |-> p, new |-> q]},
                        (p :> tree[p]) @@ (q :> tree[p]), FALSE, FALSE)>>)
    /\ tree' = [tree EXCEPT ![p] = None, ![q] = tree[p]] /\ UNCHANGED made

(* An edit under the old name on a branch that left before the rename, dated *)
(* after it, and the merge that carries it over.                             *)
SideEdit == \E i \in DOMAIN log : \E c \in log[i].changes :
    /\ c.status = "R" /\ log[i].of[c.old] \in Range(tree)
    /\ Commits(<<Record({Path("M", c.old)}, c.old :> log[i].of[c.old], TRUE, FALSE),
                 Record({}, <<>>, FALSE, FALSE)>>)
    /\ UNCHANGED <<tree, made>>

(***************************************************************************)
(* The two logs the scan asks for.  Without --find-renames a rename is a     *)
(* removal and an addition; a binary entry of --numstat is left out.         *)
(***************************************************************************)
Changes(i, follow) ==
    IF follow THEN log[i].changes
    ELSE UNION {IF c.status = "R" THEN {Path("D", c.old), Path("A", c.new)} ELSE {c}
                : c \in log[i].changes}

Entries(i, follow) == IF log[i].binary THEN {} ELSE Changes(i, follow)
Listed(i, follow, numstat) == IF numstat THEN Entries(i, follow) ELSE Changes(i, follow)

(* The commits from `since` on, newest first; one more than the cap is asked *)
(* for, to know whether the cap was reached.                                 *)
Fetched(since, cap) ==
    LET all == Reverse([i \in 1 .. Len(log) |-> i])
        inWindow == SelectSeq(all, LAMBDA i : i >= since)
    IN SubSeq(inWindow, 1, Min({cap + 1, Len(inWindow)}))
Truncated(commits, cap) == SubSeq(commits, 1, Min({cap, Len(commits)}))

(***************************************************************************)
(* Lineage.  `aliases` maps a name to the tracked path it stands for.        *)
(***************************************************************************)
Identity(tracked) == [p \in Words |-> IF p \in tracked THEN p ELSE None]

(* Mutant: the older name stands for the name after it, not for today's path. *)
OneStepAliases(aliases, i) ==
    LET renames == {c \in log[i].changes : c.status = "R" /\ aliases[c.new] # None}
    IN [p \in Words |-> IF \E c \in renames : c.old = p
                        THEN (CHOOSE c \in renames : c.old = p).new
                        ELSE aliases[p]]

ApplyRenameAliases(aliases, i) ==
    LET renames == {c \in log[i].changes : c.status = "R" /\ aliases[c.new] # None}
    IN [p \in Words |-> IF \E c \in renames : c.old = p
                        THEN aliases[(CHOOSE c \in renames : c.old = p).new]
                        ELSE aliases[p]]

MappedWithLineage(c, aliases) ==
    {IF aliases[c.new] # None THEN aliases[c.new] ELSE aliases[c.old]} \ {None}
MappedExact(c, tracked) ==
    IF c.new \in tracked THEN {c.new} ELSE {c.old} \cap tracked

(* One pass over the commits: the paths each commit is attributed to.  The   *)
(* aliases grow after the commit has been attributed.                        *)
Attribute(commits, tracked, follow, numstat) ==
    LET visit(s, i) ==
          [aliases |-> IF follow THEN ApplyRenameAliases(s.aliases, i) ELSE s.aliases,
           paths |-> [s.paths EXCEPT ![i] =
               UNION {IF follow THEN MappedWithLineage(c, s.aliases) ELSE MappedExact(c, tracked)
                      : c \in Listed(i, follow, numstat)}]]
    IN FoldLeft(visit, [aliases |-> Identity(tracked),
                        paths |-> [i \in DOMAIN log |-> {}]], commits).paths

TouchesOf(attributed, p) == {i \in DOMAIN attributed : p \in attributed[i]}

(* Oldest commit of the lineage; without renames, the oldest one that added  *)
(* the path, or else the oldest one that touched it.                         *)
FirstSeen(p, tracked, follow, commits) ==
    LET touches == IF follow
                   THEN TouchesOf(Attribute(commits, tracked, TRUE, FALSE), p)
                   ELSE {i \in Range(commits) : \E c \in Changes(i, FALSE) : c.new = p}
        added == {i \in touches : Path("A", p) \in Changes(i, FALSE)}
    IN IF touches = {} THEN 0
       ELSE IF ~follow /\ added # {} THEN Min(added) ELSE Min(touches)

NoHistory(p) == [commits |-> {}, first |-> 0]

(* analyze_history for the tracked paths.                                    *)
Analyze == \E follow \in BOOLEAN, cap \in Caps, since \in Sinces :
    LET full == Fetched(1, cap)
        window == Fetched(since, cap)
        churn == Attribute(Truncated(window, cap), Held, follow, TRUE)
    IN /\ metrics = None
       /\ metrics' =
            IF log = <<>> \/ Held = {}
            THEN [follow |-> follow, since |-> since, fullCapped |-> FALSE,
                  windowCapped |-> FALSE, files |-> [p \in Held |-> NoHistory(p)]]
            ELSE [follow |-> follow, since |-> since,
                  fullCapped |-> Len(full) > cap, windowCapped |-> Len(window) > cap,
                  files |-> [p \in Held |->
                      [commits |-> TouchesOf(churn, p),
                       first |-> FirstSeen(p, Held, follow, Truncated(full, cap))]]]
       /\ UNCHANGED <<log, tree, made>>

Next == Import \/ Create \/ Edit \/ Delete \/ Rename \/ SideEdit \/ Analyze

Spec == Init /\ [][Next]_vars

(***************************************************************************)
(* Properties.                                                              *)
(***************************************************************************)
Touched(f) == {i \in DOMAIN log : \E p \in DOMAIN log[i].of : log[i].of[p] = f}
OnSide(i) == log[i].side

(* With renames followed, a commit attributed to a path is one of the file   *)
(* it holds today, or one of a file that no longer exists: never of a file   *)
(* that lives under another name.  No commit of the file is missed, and none *)
(* is before its first sighting, unless a cap that was reached says so, the  *)
(* commit is binary, or it was made under the old name beside the rename.    *)
HistoriesApart ==
    metrics # None /\ metrics.follow =>
        \A p \in Held :
            LET m == metrics.files[p]
                own == Touched(tree[p])
                plain == {i \in own : ~OnSide(i)}
            IN /\ \A i \in m.commits \ own :
                    OnSide(i) \/ ~(Range(log[i].of) \subseteq Range(tree))
               /\ ~metrics.windowCapped =>
                    {i \in plain : i >= metrics.since /\ ~log[i].binary} \subseteq m.commits
               /\ ~metrics.fullCapped /\ plain # {} => m.first # 0 /\ m.first <= Min(plain)
===============================================================================
