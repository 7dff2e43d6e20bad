------------------------------ MODULE PolicySet ------------------------------
(***************************************************************************)
(* What is in a policy pack: which directories are accepted as packs, what *)
(* their digest covers, how the packs a repository selects are compiled    *)
(* into one rule set, and which rules `advise` takes from it.  A command   *)
(* is one step here: PolicyPacks has its single calls and their            *)
(* interleaving.  `policy show`, `policy test` and the resolution for      *)
(* `advise` write nothing: they are operators on the state.                *)
(*                                                                         *)
(* A pack or a rule is named by its segments, numbers that stand for the   *)
(* words in their order.  A digest is what it is taken of.                 *)
(***************************************************************************)
EXTENDS Naturals, FiniteSets, SequencesExt

CONSTANTS Core,         \* the directory built into the program
          Sources,      \* the directories people offer
          EditedLists,  \* selections people write by hand
          Requests,     \* the --policy options of a call of `advise`
          None,
          Runtime,      \* the version of the program
          MaxFiles, MaxFileBytes, MaxTotalBytes, MaxRules,
          MaxCommands   \* bound: commands and other changes

VARIABLES index,      \* the digest of each installed pack
          cache,      \* the directory kept for each digest
          selection,  \* the packs .slop/policies.yaml lists; None: no file
          lock,       \* .slop/policy-lock.json; None: no file
          committed,  \* selection and lock as the repository keeps them
          receipt,    \* what the last command said it changed, and what was before
          reviewed,   \* history: locks written, with the rules they were written for
          commands

vars == <<index, cache, selection, lock, committed, receipt, reviewed, commands>>

Manifest == "git-slop-policy.yaml"
Always == {"README.md", "LICENSE", "LICENCE"}

Init == /\ index = <<>> /\ cache = <<>>
        /\ selection = None /\ lock = None
        /\ committed = [selection |-> None, lock |-> None]
        /\ receipt = None
        /\ reviewed = {} /\ commands = 0

-----------------------------------------------------------------------------
(* A directory maps its files to their kind, size, text and encoding.  The   *)
(* text of the manifest is the manifest, that of a test its golden cases.    *)
ManifestOf(dir) == dir[Manifest].text
IdOf(dir) == ManifestOf(dir).id
CoreId == IdOf(Core)

Declared(m) == {Manifest} \cup ToSet(m.entrypoints) \cup ToSet(m.tests)

Bytes(dir) == FoldSet(LAMBDA f, sum : dir[f].size + sum, 0, DOMAIN dir)

(* collect_pack_files: no links, and no more than is allowed.                *)
Collected(dir) ==
    /\ \A f \in DOMAIN dir : dir[f].kind = "file" /\ dir[f].size <= MaxFileBytes
    /\ Cardinality(DOMAIN dir) <= MaxFiles
    /\ Bytes(dir) <= MaxTotalBytes

(* normalized_text: ends of line are made alike, other forms refused.        *)
Readable(file) == file.form # "nfd"

(* A rule that is sound has the fields the schema asks for.                  *)
RulesValid(m) ==
    /\ Len(m.rules) \in 1 .. MaxRules
    /\ \A i \in DOMAIN m.rules :
          /\ IsStrictPrefix(m.id, m.rules[i].id)
          /\ m.rules[i].sound
          /\ \A j \in DOMAIN m.rules : m.rules[i].id = m.rules[j].id => i = j

ManifestValid(m) ==
    /\ Len(m.id) >= 2
    /\ ~IsPrefix(CoreId, m.id)
    /\ m.needs <= Runtime
    /\ m.entrypoints # <<>>
    /\ RulesValid(m)

Accepted(dir) ==
    /\ Collected(dir)
    /\ Manifest \in DOMAIN dir
    /\ \A f \in DOMAIN dir : Readable(dir[f])
    /\ ManifestValid(ManifestOf(dir))
    /\ Declared(ManifestOf(dir)) \subseteq DOMAIN dir
    /\ DOMAIN dir \subseteq Declared(ManifestOf(dir)) \cup Always

Texts(dir, paths) == [i \in DOMAIN paths |-> <<paths[i], dir[paths[i]].text>>]

Digest(dir) == LET m == ManifestOf(dir)
               IN [manifest |-> m, entrypoints |-> Texts(dir, m.entrypoints),
                   tests |-> Texts(dir, m.tests)]

(* What `install` copies.                                                    *)
Copied(dir) == [f \in DOMAIN dir \cap (Declared(ManifestOf(dir)) \cup Always) |-> dir[f]]

(* The directory of an installed pack, or None when it does not load: it is  *)
(* read and validated again, under its name and its digest.                  *)
Installed(id) ==
    IF id \notin DOMAIN index THEN None
    ELSE LET dir == cache[index[id]]
         IN IF Accepted(dir) /\ IdOf(dir) = id /\ Digest(dir) = index[id] THEN dir ELSE None

-----------------------------------------------------------------------------
(* Compilation.                                                              *)

Before(a, b) == \/ IsStrictPrefix(a, b)
                \/ \E i \in DOMAIN a \cap DOMAIN b :
                      a[i] < b[i] /\ \A j \in 1 .. i - 1 : a[j] = b[j]

(* The built-in pack, then the others in the order of their names.           *)
Ordered(dirs) == <<Core>> \o SortSeq(dirs, LAMBDA a, b : Before(IdOf(a), IdOf(b)))

PackLock(dir) == [id |-> IdOf(dir), source |-> IF dir = Core THEN "built-in" ELSE "user-cache",
                  content |-> Digest(dir)]

Unique(s) == Cardinality(ToSet(s)) = Len(s)

Compiled(dirs) ==
    LET packs == Ordered(dirs)
        rules == FlattenSeq([i \in DOMAIN packs |-> ManifestOf(packs[i]).rules])
        ids == [i \in DOMAIN rules |-> rules[i].id]
    IN IF Unique([i \in DOMAIN packs |-> IdOf(packs[i])]) /\ Unique(ids)
       THEN [packs |-> [i \in DOMAIN packs |-> PackLock(packs[i])],
             rules |-> rules,
             conflicts |-> UNION {{{r.id, other} : other \in r.conflicts \cap ToSet(ids)} :
                                     r \in ToSet(rules)}]
       ELSE None

(* read_selection: no file selects nothing; the core is never listed.        *)
Listed == IF selection = None THEN <<>> ELSE selection
SelectionReadable == CoreId \notin ToSet(Listed) /\ Unique(Listed)

SelectedSet ==
    LET dirs == [i \in DOMAIN Listed |-> Installed(Listed[i])]
    IN IF SelectionReadable /\ None \notin ToSet(dirs) THEN Compiled(dirs) ELSE None

(* resolve_for_advice: what is compiled must be what was locked; the rules   *)
(* of a request are those it names and those within its name.                *)
Named(request, id) == \E r \in request : IsPrefix(r, id)

Resolved(request) ==
    LET set == SelectedSet
        known == {p.id : p \in ToSet(set.packs)} \cup {r.id : r \in ToSet(set.rules)}
        rules == SelectSeq(set.rules, LAMBDA r : IsPrefix(CoreId, r.id) \/ Named(request, r.id))
        retained == {r.id : r \in ToSet(rules)}
    IN IF \/ set = None
          \/ Listed # <<>> /\ lock # [packs |-> set.packs]
          \/ ~(request \subseteq known)
       THEN None
       ELSE IF request = {} THEN set
       ELSE [set EXCEPT !.rules = rules, !.conflicts = {c \in @ : c \subseteq retained}]

(* build.rs: the rules shown to the provider are those for `advise`.         *)
Applied(request) == SelectSeq(Resolved(request).rules, LAMBDA r : r.advise)

(* show_pack_or_rule: the packs one after the other, in the order of the     *)
(* index, for a rule of that name.                                           *)
Shown(id) ==
    LET ids == SetToSortSeq(DOMAIN index, Before)
        dirs == <<Core>> \o [i \in DOMAIN ids |-> Installed(ids[i])]
        having == {i \in DOMAIN dirs : \E r \in ToSet(ManifestOf(dirs[i]).rules) : r.id = id}
    IN IF None \in ToSet(dirs) \/ having = {} THEN None
       ELSE CHOOSE r \in ToSet(ManifestOf(dirs[CHOOSE i \in having : \A j \in having : i <= j]).rules) :
               r.id = id

-----------------------------------------------------------------------------
(* test_pack: the cases of all files have names of their own, evaluate rules *)
(* of the pack, and expect the strictest of their verdicts.                  *)
Rank == [approve |-> 0, abstain |-> 1, revise |-> 2, reject |-> 3]

Strictest(verdicts) == CHOOSE v \in verdicts : \A other \in verdicts : Rank[other] <= Rank[v]

Cases(dir) == LET tests == ManifestOf(dir).tests
              IN FlattenSeq([i \in DOMAIN tests |-> dir[tests[i]].text])

TestPassed(dir) ==
    LET cases == Cases(dir)
    IN /\ Unique([i \in DOMAIN cases |-> cases[i].id])
       /\ \A c \in ToSet(cases) :
             /\ DOMAIN c.verdicts # {}
             /\ DOMAIN c.verdicts \subseteq {r.id : r \in ToSet(ManifestOf(dir).rules)}
             /\ Strictest({c.verdicts[r] : r \in DOMAIN c.verdicts}) = c.expected

-----------------------------------------------------------------------------
(* The commands that write.  No two packs have one digest: it covers the name. *)

Count == commands < MaxCommands /\ commands' = commands + 1

(* Mutant: a lock that is gone is not asked for.                             *)
ToStageThere(newSelection, newLock, withLock) ==
    (IF newSelection # None THEN {"policies.yaml"} ELSE {})
        \cup (IF newLock # None THEN {"policy-lock.json"} ELSE {})

(* The files a receipt asks to commit: those that are there, and the lock    *)
(* where it was invalidated.                                                 *)
ToStage(newSelection, newLock, withLock) ==
    (IF newSelection # None THEN {"policies.yaml"} ELSE {})
        \cup (IF withLock \/ newLock # None THEN {"policy-lock.json"} ELSE {})

Receipt(changed, stage) ==
    [changed |-> changed, stage |-> stage,
     before |-> [selection |-> selection, lock |-> lock]]

Install(dir, select) ==
    LET id == IdOf(dir)
        adds == select /\ ~Contains(Listed, id)
        list == IF adds THEN SortSeq(Append(Listed, id), Before) ELSE Listed
        differs == /\ Contains(list, id)
                   /\ Installed(id) = None \/ Digest(Installed(id)) # Digest(dir)
        unlocks == (adds \/ differs) /\ lock # None
        newSelection == IF adds THEN list ELSE selection
    IN /\ Accepted(dir) /\ SelectionReadable /\ Count
       /\ Digest(dir) \in DOMAIN cache => Accepted(cache[Digest(dir)])
       /\ cache' = [d \in DOMAIN cache \cup {Digest(dir)} |->
                       IF d \in DOMAIN cache THEN cache[d] ELSE Copied(dir)]
       /\ index' = [i \in DOMAIN index \cup {id} |-> IF i = id THEN Digest(dir) ELSE index[i]]
       /\ selection' = newSelection
       /\ lock' = IF unlocks THEN None ELSE lock
       /\ receipt' = Receipt((IF adds THEN {"policies.yaml"} ELSE {})
                                \cup (IF unlocks THEN {"policy-lock.json"} ELSE {}),
                             IF adds \/ unlocks THEN ToStage(newSelection, lock', TRUE) ELSE {})
       /\ UNCHANGED <<committed, reviewed>>

RemovePack(id, unselect) ==
    LET selected == Contains(Listed, id)
        digest == index[id]
        others == [i \in DOMAIN index \ {id} |-> index[i]]
        newSelection == IF selected THEN SelectSeq(selection, LAMBDA i : i # id) ELSE selection
        unlocks == selected /\ lock # None
    IN /\ SelectionReadable /\ (selected => unselect) /\ Count
       /\ id \in DOMAIN index \/ selected
       /\ selection' = newSelection
       /\ lock' = IF unlocks THEN None ELSE lock
       /\ index' = others
       /\ cache' = IF id \in DOMAIN index
                   THEN [d \in DOMAIN cache \ {digest} |-> cache[d]] ELSE cache
       /\ receipt' = Receipt((IF selected THEN {"policies.yaml"} ELSE {})
                                \cup (IF unlocks THEN {"policy-lock.json"} ELSE {}),
                             IF selected THEN ToStage(newSelection, lock', unlocks) ELSE {})
       /\ UNCHANGED <<committed, reviewed>>

Lock == /\ SelectedSet # None /\ Count
        /\ lock' = [packs |-> SelectedSet.packs]
        /\ reviewed' = reviewed \cup {[lock |-> lock', list |-> ToSet(Listed),
                                       rules |-> SelectedSet.rules]}
        /\ receipt' = Receipt({"policy-lock.json"}, ToStage(selection, lock', TRUE))
        /\ UNCHANGED <<index, cache, selection, committed>>

(* People edit the selection, commit both files, and check them out again.   *)
EditSelection(list) == /\ Count
                       /\ selection' = list
                       /\ receipt' = None
                       /\ UNCHANGED <<index, cache, lock, committed, reviewed>>

Commit == /\ committed # [selection |-> selection, lock |-> lock] /\ Count
          /\ committed' = [selection |-> selection, lock |-> lock]
          /\ receipt' = None
          /\ UNCHANGED <<index, cache, selection, lock, reviewed>>

Checkout == /\ committed # [selection |-> selection, lock |-> lock] /\ Count
            /\ selection' = committed.selection
            /\ lock' = committed.lock
            /\ receipt' = None
            /\ UNCHANGED <<index, cache, committed, reviewed>>

Next == \/ \E dir \in Sources, select \in BOOLEAN : Install(dir, select)
        \/ \E dir \in Sources, unselect \in BOOLEAN : RemovePack(IdOf(dir), unselect)
        \/ Lock
        \/ \E list \in EditedLists : EditSelection(list)
        \/ Commit \/ Checkout

Spec == Init /\ [][Next]_vars

-----------------------------------------------------------------------------
(* What `advise` applies beyond the core was compiled for a lock that still  *)
(* stands, word for word, however packs were reinstalled and files checked   *)
(* out in between: changed content fails instead of being applied.           *)
OnlyReviewedRules ==
    \A request \in Requests :
        LET set == Resolved(request)
        IN set # None =>
              \/ ToSet(set.rules) \subseteq ToSet(ManifestOf(Core).rules)
              \/ \E l \in reviewed : l.lock = lock /\ ToSet(set.rules) \subseteq ToSet(l.rules)

(* A request leaves no core rule out, takes in the rules it names and those  *)
(* of the packs it names, and tells each conflict between two rules that are *)
(* applied.  It takes in another pack's rules only where the name of that    *)
(* pack continues a name that was asked for.                                 *)
RequestExact ==
    \A request \in Requests \ {{}} :
        LET set == Resolved(request)
            all == Resolved({})
        IN set # None =>
              /\ \A r \in ToSet(ManifestOf(Core).rules) : Contains(set.rules, r)
              /\ \A p \in {d \in {Installed(i) : i \in ToSet(Listed)} : IdOf(d) \in request} :
                    ToSet(ManifestOf(p).rules) \subseteq ToSet(set.rules)
              /\ \A c \in all.conflicts :
                    c \in set.conflicts <=> c \subseteq {r.id : r \in ToSet(set.rules)}
              /\ \A p \in {Installed(i) : i \in ToSet(Listed)} :
                    \A r \in ToSet(ManifestOf(p).rules) \cap ToSet(set.rules) :
                        \/ r.id \in request \/ IdOf(p) \in request
                        \/ \E q \in request : IsStrictPrefix(q, IdOf(p))

(* `advise` refuses a locked selection only where something has changed since*)
(* or a pack is gone: neither the order in the selection nor the form of the *)
(* source matters.                                                           *)
RefusalHasCause ==
    \A l \in reviewed :
        (/\ lock = l.lock /\ SelectionReadable /\ ToSet(Listed) = l.list
         /\ \A p \in ToSet(l.lock.packs) :
               p.id # CoreId => p.id \in DOMAIN index /\ index[p.id] = p.content)
            => Resolved({}) # None

(* What was accepted is accepted again from the cache.                       *)
InstalledLoads == \A id \in DOMAIN index : Installed(id) # None

(* The receipt of a command names every file of the repository that it       *)
(* changed, and asks to commit each of them.                                 *)
ReceiptTold ==
    receipt # None =>
        /\ selection # receipt.before.selection =>
              "policies.yaml" \in receipt.changed \cap receipt.stage
        /\ lock # receipt.before.lock => "policy-lock.json" \in receipt.changed \cap receipt.stage

(* A rule that `advise` applies is the rule `policy show` shows, unless two  *)
(* installed packs, one of them not selected, define a rule of that name.    *)
AppliedIsShown ==
    Resolved({}) # None =>
        \A r \in ToSet(Applied({})) :
            \/ Shown(r.id) = r
            \/ \E id \in DOMAIN index \ ToSet(Listed) :
                  \E other \in ToSet(ManifestOf(Installed(id)).rules) : other.id = r.id

(* A golden case that passes as approved approves every rule it evaluates.   *)
GoldenSound ==
    \A id \in DOMAIN index :
        TestPassed(Installed(id)) =>
            \A c \in ToSet(Cases(Installed(id))) :
                c.expected = "approve" => \A r \in DOMAIN c.verdicts : c.verdicts[r] = "approve"

PoliciesSound == /\ OnlyReviewedRules /\ RequestExact /\ RefusalHasCause /\ InstalledLoads
                 /\ ReceiptTold /\ AppliedIsShown /\ GoldenSound
==============================================================================
