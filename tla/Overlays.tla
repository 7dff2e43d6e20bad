------------------------------- MODULE Overlays -------------------------------
(***************************************************************************)
(* The relationships between files and the duplicate sets built from them    *)
(* (src/overlays/): what changed together in the commits, which files are    *)
(* alike, the caps on both, what each file reports of them, and the clusters *)
(* that consolidation is proposed for.                                       *)
(*                                                                           *)
(* Files are numbers in the order of their paths.  The analysis is three     *)
(* steps: coordination, relationships, clusters.                             *)
(***************************************************************************)
EXTENDS Naturals, Sequences, FiniteSetsExt, SequencesExt, Functions, Relation

CONSTANTS FileCount, Commits,     \* commits the history may hold: [kind, touched]
          MaxHistory,             \* commits in it
          BulkFiles,              \* organization.max_commit_files
          PairCaps,               \* values of organization.max_pairs_per_file
          CandidateLimit, LexicalCap, TemporalCap, Roots,
          Likenesses,             \* what pairs may be like: "exact", "near" or "none"
          None

Nodes == 1 .. FileCount
Pairs == {pair \in Nodes \X Nodes : pair[1] < pair[2]}
Ends(pair) == {pair[1], pair[2]}
Pair(a, b) == IF a < b THEN <<a, b>> ELSE <<b, a>>

VARIABLES history,     \* commits read
          maxPairs,    \* the cap of this analysis
          facts,       \* coordination: neighbours of each file with their support
          alike,       \* "exact", "near" or "none", of every pair
          order,       \* candidates, largest first
          relations,   \* relationships retained, and those suppressed by the pair cap
          clusters     \* duplicate sets
vars == <<history, maxPairs, facts, alike, order, relations, clusters>>

Init == /\ history = <<>> /\ maxPairs \in PairCaps
        /\ facts = None /\ alike = None /\ order = None
        /\ relations = None /\ clusters = None

ReadCommit == /\ facts = None /\ Len(history) < MaxHistory
              /\ \E c \in Commits : history' = Append(history, c)
              /\ UNCHANGED <<maxPairs, facts, alike, order, relations, clusters>>

(***************************************************************************)
(* Coordination.  Merges, imports and bulk commits say nothing; the          *)
(* neighbours kept are those with most support, then by path.                *)
(***************************************************************************)
Counts(c) == /\ c.kind \notin {"merge", "import"}
             /\ Cardinality(c.touched) <= BulkFiles
Support(a, b) == Cardinality({i \in DOMAIN history :
                               Counts(history[i]) /\ {a, b} \subseteq history[i].touched})
CommitCount(a) == Support(a, a)
Neighbours(a) == {b \in Nodes \ {a} : Support(a, b) > 0}

Kept(a) == LET ranked == SetToSortSeq(Neighbours(a), LAMBDA b, c :
                            \/ Support(a, b) > Support(a, c)
                            \/ (Support(a, b) = Support(a, c) /\ b < c))
           IN Range(SubSeq(ranked, 1, Min({maxPairs, Len(ranked)})))

CoordinationFacts == /\ facts = None
                     /\ facts' = [a \in Nodes |-> Kept(a)]
                     /\ UNCHANGED <<history, maxPairs, alike, order, relations, clusters>>

(***************************************************************************)
(* Relationships.                                                           *)
(***************************************************************************)
(* The files large enough, the largest first; `small` is left out and `big`  *)
(* leads.                                                                    *)
Candidates(big, small) ==
    LET all == SetToSortSeq(Nodes \ {small}, LAMBDA a, b : a = big \/ (b # big /\ a < b))
    IN SubSeq(all, 1, Min({CandidateLimit, Len(all)}))

PairsSetToSortSeq(seq) ==
    FlattenSeq([i \in 1 .. Len(seq) |-> [j \in 1 .. Len(seq) - i |-> Pair(seq[i], seq[i + j])]])

Alike(l, seq) == SelectSeq(PairsSetToSortSeq(seq), LAMBDA p : l[p] # "none")

(* The pairs, taken in the order of the candidates until an end has its      *)
(* fill; a pair dropped counts as suppressed for both ends.                  *)
TakePair(s, p) ==
    IF \E e \in Ends(p) : Cardinality({q \in s.kept : e \in Ends(q)}) >= maxPairs
    THEN [s EXCEPT !.dropped = @ \cup {p}]
    ELSE [s EXCEPT !.kept = @ \cup {p}]

DuplicatePairs(l, seq) ==
    FoldLeft(TakePair, [kept |-> {}, dropped |-> {}], Alike(l, seq))

(* Edges of either end's neighbours, strong enough to lift above chance.     *)
Lifted(p) == Support(p[1], p[2]) * Len(history) >= CommitCount(p[1]) * CommitCount(p[2])
TemporalEdges ==
    LET edges == {p \in Pairs : (p[2] \in facts[p[1]] \/ p[1] \in facts[p[2]]) /\ Lifted(p)}
        ranked == SetToSortSeq(edges, LAMBDA p, q :
                     \/ Support(p[1], p[2]) > Support(q[1], q[2])
                     \/ /\ Support(p[1], p[2]) = Support(q[1], q[2])
                        /\ p[1] < q[1] \/ (p[1] = q[1] /\ p[2] < q[2]))
    IN Range(SubSeq(ranked, 1, Min({TemporalCap, Len(ranked)})))

(* Files of different top-level roots that share their terms.                *)
LexicalEdges(seq, terms) ==
    LET apart == SelectSeq(PairsSetToSortSeq(seq), LAMBDA p : Roots[p[1]] # Roots[p[2]])
    IN IF terms THEN Range(SubSeq(apart, 1, Min({LexicalCap, Len(apart)}))) ELSE {}

(* A file names its strongest relationships up to the cap; what it counts as *)
(* suppressed is the rest and the pairs dropped.  A file with none retained  *)
(* says nothing.                                                             *)
References(kept, dropped, temporal, lexical) ==
    LET of(e, pairs) == Cardinality({p \in pairs : e \in Ends(p)})
        count(e) == of(e, kept) + of(e, temporal) + of(e, lexical)
    IN [e \in {x \in Nodes : count(x) > 0} |->
          LET retained == Min({count(e), maxPairs})
              raw == count(e) + of(e, dropped)
          IN [retained |-> retained, raw |-> raw, suppressed |-> raw - retained]]

BuildRelationships ==
    /\ facts # None /\ relations = None
    /\ \E l \in Likenesses, big, small \in {0, FileCount}, terms \in BOOLEAN :
          LET seq == Candidates(big, small)
              pairs == DuplicatePairs(l, seq)
              temporal == TemporalEdges
              lexical == LexicalEdges(seq, terms)
          IN /\ alike' = l /\ order' = seq
             /\ relations' = [duplicates |-> pairs.kept, temporal |-> temporal, lexical |-> lexical,
                              references |-> References(pairs.kept, pairs.dropped, temporal, lexical)]
    /\ UNCHANGED <<history, maxPairs, facts, clusters>>

(***************************************************************************)
(* Clusters: a walk from every file not yet visited.  A file is marked when  *)
(* it is put on the stack.                                                   *)
(***************************************************************************)
Adjacent(a) == {b \in Nodes : b # a /\ Pair(a, b) \in relations.duplicates}

WalkStep(s, n) ==
    IF s.stack = <<>> THEN s
    ELSE LET path == Last(s.stack)
             fresh == Adjacent(path) \ s.visited
         IN [visited |-> s.visited \cup fresh,
             stack |-> Front(s.stack) \o SetToSortSeq(fresh, LAMBDA a, b : a > b),
             members |-> Append(s.members, path)]

WalkFrom(start, visited) ==
    FoldLeft(WalkStep, [visited |-> visited \cup {start}, stack |-> <<start>>, members |-> <<>>],
             [n \in 1 .. FileCount |-> n])

BuildClusters ==
    /\ relations # None /\ clusters = None
    /\ LET visit(s, start) ==
             IF start \in s.visited \/ Adjacent(start) = {} THEN s
             ELSE LET walk == WalkFrom(start, s.visited)
                  IN [visited |-> walk.visited, sets |-> Append(s.sets, walk.members)]
       IN clusters' = FoldLeft(visit, [visited |-> {}, sets |-> <<>>],
                               [n \in 1 .. FileCount |-> n]).sets
    /\ UNCHANGED <<history, maxPairs, facts, alike, order, relations>>

Next == ReadCommit \/ CoordinationFacts \/ BuildRelationships \/ BuildClusters

Spec == Init /\ [][Next]_vars

(***************************************************************************)
(* Properties.                                                              *)
(***************************************************************************)
(* No file is in more than maxPairs duplicate relationships, and a pair of   *)
(* candidates found alike but not retained is counted as suppressed by at    *)
(* least one of its files: a cap never drops a duplicate in silence.         *)
SuppressionTold ==
    relations # None =>
        /\ \A e \in Nodes : Cardinality({p \in relations.duplicates : e \in Ends(p)}) <= maxPairs
        /\ \A p \in Range(Alike(alike, order)) \ relations.duplicates :
              \E e \in Ends(p) \cap DOMAIN relations.references :
                  relations.references[e].suppressed > 0

(* The duplicate sets are the connected components of the duplicate          *)
(* relationships: every file that has one is in one set, once, and two files *)
(* share a set exactly when a chain of duplicates joins them.                *)
ClustersAreComponents ==
    clusters # None =>
        LET joined == TransitiveClosure([p \in Nodes \X Nodes |-> p[1] # p[2]
                          /\ Pair(p[1], p[2]) \in relations.duplicates], Nodes)
        IN /\ \A k \in DOMAIN clusters : IsInjective(clusters[k])
           /\ \A a, b \in Nodes : a # b =>
                 (joined[<<a, b>>] <=>
                    \E k \in DOMAIN clusters : {a, b} \subseteq Range(clusters[k]))
           /\ \A j, k \in DOMAIN clusters :
                 j # k => Range(clusters[j]) \cap Range(clusters[k]) = {}
===============================================================================
