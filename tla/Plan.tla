-------------------------------- MODULE Plan --------------------------------
(* `plan` (src/report_ops/plan): the slices of work proposed for a file, a   *)
(* folder, a cluster or a relationship of a report, from the evidence the    *)
(* report holds about it (src/report_ops/access.rs, evidence.rs). Candidates *)
(* are cut to a size, merged when they have the same scope, ranked, and left *)
(* out when another slice says all they say.                                 *)
(*                                                                           *)
(* Files and identifiers are numbers, in the order of their names. Not       *)
(* modelled: titles, commands and the other wording of a slice.              *)
EXTENDS Integers, Sequences, FiniteSets, SequencesExt, FiniteSetsExt, TLC

CONSTANTS FileCount,    \* files of the report
          FolderOf,     \* FolderOf[f]: its folder, its top-level root too
          ScoresTried,  \* functions from files to slop scores
          Derived,      \* generated files, each with the file it is made from
          Flagged,      \* files with reason codes
          Pairs,        \* relationships that may be found: records
          Groups,       \* clusters that may be found: records
          MaxSlice,     \* MAX_SLICE_FILES
          MaxSlices,    \* --max-slices
          None

VARIABLES scores,       \* slop_score of each file
          pairs,        \* the relationships of the report, positions in Pairs
          groups,       \* its clusters, positions in Groups
          plan          \* what `plan` proposes, with its candidates

vars == <<scores, pairs, groups, plan>>

PlanFiles == 1 .. FileCount

Init == /\ scores = CHOOSE s \in ScoresTried : TRUE
        /\ pairs = {} /\ groups = {} /\ plan = None

-----------------------------------------------------------------------------
(* Order.                                                                    *)

Place(x, s) == CHOOSE i \in DOMAIN s : s[i] = x

(* The first key that differs decides; keys are numbers.                     *)
Before(a, b) == \E i \in DOMAIN a : a[i] < b[i] /\ \A j \in 1 .. i - 1 : a[j] = b[j]

(* What is paired with its key, in the order of the keys.                    *)
InOrder(keyed) ==
    FoldLeft(LAMBDA s, p : Append(s, p[2]), <<>>,
             SortSeq(FoldSet(LAMBDA p, s : Append(s, p), <<>>, keyed),
                     LAMBDA p, q : Before(p[1], q[1])))

(* sort_scope_paths: anchors in their order, then the worst score first.     *)
PathKey(f, anchors) == IF f \in Range(anchors) THEN <<0, Place(f, anchors), f>>
                       ELSE <<1, -scores[f], f>>

Ordered(fs, anchors) == InOrder({<<PathKey(f, anchors), f>> : f \in fs})

Upto(s, n) == SubSeq(s, 1, Min({n, Len(s)}))

InFolder(f, folder) == FolderOf[f] = folder

(* How many of the files are in the folder looked at, or else are anchors.   *)
Focus(fs, anchors, folder) ==
    IF folder = None THEN Cardinality(fs \cap Range(anchors))
    ELSE Cardinality({f \in fs : InFolder(f, folder)})

Anchored(fs, anchors) == Cardinality(fs \cap Range(anchors))

RelationshipKey(r, anchors, folder) ==
    <<-Focus(Pairs[r].ends, anchors, folder), -Anchored(Pairs[r].ends, anchors),
      -Pairs[r].evidence, r>>

RankRelationships(S, anchors, folder) ==
    InOrder({<<RelationshipKey(r, anchors, folder), r>> :
               r \in {p \in S : folder # None => Focus(Pairs[p].ends, anchors, folder) > 0}})

(* Roots are compared by number; a density is a quotient, here in 60ths.     *)
RootsOf(fs) == {FolderOf[f] : f \in fs}

ClusterKey(c, anchors, folder) ==
    LET m == Groups[c].members
    IN <<-((60 * Focus(m, anchors, folder)) \div Cardinality(m)), -Anchored(m, anchors),
         Cardinality(m), -Focus(m, anchors, folder), Cardinality(RootsOf(m)),
         -Groups[c].evidence, c>>

RankClusters(S, anchors, folder) ==
    InOrder({<<ClusterKey(c, anchors, folder), c>> :
               c \in {d \in S : folder # None => Focus(Groups[d].members, anchors, folder) > 0}})

SharedClusters(r) ==
    RankClusters({c \in groups : Pairs[r].ends \subseteq Groups[c].members},
                 <<Min(Pairs[r].ends), Max(Pairs[r].ends)>>, None)

-----------------------------------------------------------------------------
(* What is planned for.                                                      *)

Hotspots(folder) == Upto(Ordered({f \in PlanFiles : InFolder(f, folder)}, <<>>), MaxSlice)

Generator(f) == IF f \in DOMAIN Derived THEN Derived[f] ELSE f

(* plan_context_for_path: a folder stands for its worst files, a generated   *)
(* file for the file it is made from.                                        *)
PathContext(kind, of) ==
    LET folder == IF kind = "folder" THEN of ELSE None
        anchors == IF kind = "folder" THEN Hotspots(of) ELSE <<Generator(of)>>
        touches(fs) == IF kind = "folder" THEN \E f \in fs : InFolder(f, of) ELSE of \in fs
    IN [kind |-> kind, folder |-> folder, anchors |-> anchors, first |-> anchors,
        rels |-> RankRelationships({r \in pairs : touches(Pairs[r].ends)}, anchors, folder),
        clus |-> RankClusters({c \in groups : touches(Groups[c].members)}, anchors, folder)]

(* cluster_anchor_candidates: a broad cluster starts with its strongest      *)
(* relationship, or with the worst files of one root.                        *)
Broad(c) == Cardinality(Groups[c].members) > MaxSlice
            \/ Cardinality(RootsOf(Groups[c].members)) > 2

OfRoot(c, root) == Ordered({f \in Groups[c].members : FolderOf[f] = root}, <<>>)

RootKey(s, root) ==
    <<-FoldSeq(LAMBDA f, sum : sum + scores[f], 0, Upto(s, 2)), -scores[s[1]], root>>

WorstRoot(c) ==
    LET files[root \in RootsOf(Groups[c].members)] == OfRoot(c, root)
        double == {root \in DOMAIN files : Len(files[root]) >= 2}
        tried == IF double = {} THEN DOMAIN files ELSE double
    IN Upto(files[InOrder({<<RootKey(files[root], root), root>> : root \in tried})[1]], 3)

ClusterContext(c) ==
    LET members == InOrder({<<<<f>>, f>> : f \in Groups[c].members})
        rels == RankRelationships({r \in pairs : Pairs[r].ends \subseteq Groups[c].members},
                                  members, None)
    IN [kind |-> "cluster", folder |-> None, anchors |-> members, rels |-> rels, clus |-> <<c>>,
        first |-> IF ~Broad(c) THEN members
                  ELSE IF rels # <<>> THEN <<Min(Pairs[rels[1]].ends), Max(Pairs[rels[1]].ends)>>
                  ELSE WorstRoot(c)]

RelationshipContext(r) ==
    LET ends == <<Min(Pairs[r].ends), Max(Pairs[r].ends)>>
    IN [kind |-> "relationship", folder |-> None, anchors |-> ends, first |-> ends,
        rels |-> <<r>>, clus |-> SharedClusters(r)]

-----------------------------------------------------------------------------
(* Candidates.                                                               *)

(* build_scope: the first MAX_SLICE_FILES, and what is left out.             *)
Slice(class, fs, anchors, rels, clus) ==
    LET all == Ordered(fs, anchors)
    IN [class |-> class, scope |-> Upto(all, MaxSlice),
        out |-> Range(all) \ Range(Upto(all, MaxSlice)), rels |-> rels, clus |-> clus]

AnchorSlice(x) == Slice(0, Range(x.first), x.first, Range(Upto(x.rels, 3)), Range(Upto(x.clus, 3)))

InFocus(fs, folder) == {f \in fs : InFolder(f, folder)}

(* A slice of a folder has two of its files, or one and one from elsewhere.  *)
Focused(s, folder) ==
    folder = None \/ (InFocus(Range(s.scope), folder) # {} /\ Len(s.scope) >= 2)

RelationshipSlice(x, r) ==
    Slice(1, Pairs[r].ends, x.anchors, {r}, Range(Upto(SharedClusters(r), 3)))

RelationshipTaken(x, s) == Len(s.scope) >= 2 /\ Focused(s, x.folder)

(* Of a cluster seen from a folder: the files of the folder and the worst of *)
(* the others.                                                               *)
ClusterScope(x, c) ==
    LET m == Groups[c].members
    IN IF x.folder = None THEN m
       ELSE InFocus(m, x.folder) \cup Range(Upto(Ordered(m \ InFocus(m, x.folder), <<>>), 1))

Small(c) == Cardinality(Groups[c].members) <= 8 \/ Groups[c].compact

ClusterSlice(x, c) ==
    LET s == Slice(3, ClusterScope(x, c), x.anchors, Range(Upto(RankRelationships(
                 {r \in pairs : Pairs[r].ends \subseteq Groups[c].members}, <<>>, None), 3)), {c})
        out == s.out \cup (Groups[c].members \ Range(s.scope))
    IN [s EXCEPT !.out = out, !.class = IF Small(c) /\ out = {} THEN 2 ELSE 3]

ClusterTaken(x, c, s) ==
    LET beyond == Range(s.scope) \ Range(x.anchors)
    IN /\ Focused(s, x.folder)
       /\ \/ Small(c) \/ 2 * Len(s.scope) >= Cardinality(Groups[c].members)
          \/ x.kind = "folder" /\ Cardinality(InFocus(Range(s.scope), x.folder)) >= 2
       /\ x.kind = "file" => beyond # {}
       /\ x.kind = "relationship" => beyond # {} /\ Cardinality(s.out) <= Len(s.scope)

(* plan_candidates: what each kind of selector takes, and how many.          *)
RelationshipSlices(x) ==
    LET tried == IF x.kind = "file" THEN Upto(x.rels, 3) ELSE x.rels
        taken == SelectSeq([i \in DOMAIN tried |-> RelationshipSlice(x, tried[i])],
                           LAMBDA s : RelationshipTaken(x, s))
    IN CASE x.kind = "cluster" -> Upto(taken, 2)
         [] x.kind = "relationship" -> <<>>
         [] OTHER -> taken

ClusterSlices(x) ==
    LET taken == FoldLeft(LAMBDA acc, t : IF ClusterTaken(x, t[1], t[2]) THEN Append(acc, t[2])
                                          ELSE acc,
                          <<>>, [i \in DOMAIN x.clus |-> <<x.clus[i], ClusterSlice(x, x.clus[i])>>])
    IN CASE x.kind = "folder" -> taken
         [] x.kind = "cluster" -> <<>>
         [] OTHER -> Upto(taken, 2)

CandidateSlices(x) == <<AnchorSlice(x)>> \o RelationshipSlices(x) \o ClusterSlices(x)

-----------------------------------------------------------------------------
(* Merging and ranking.                                                      *)

Joined(a, b) == [a EXCEPT !.out = @ \cup b.out, !.rels = @ \cup b.rels,
                          !.clus = @ \cup b.clus, !.class = Min({a.class, b.class})]

Merge(slices) ==
    FoldLeft(LAMBDA acc, s :
                 IF \E i \in DOMAIN acc : acc[i].scope = s.scope
                 THEN LET i == CHOOSE j \in DOMAIN acc : acc[j].scope = s.scope
                      IN [acc EXCEPT ![i] = Joined(acc[i], s)]
                 ELSE Append(acc, s),
             <<>>, slices)

TopScores(s) ==
    FoldSeq(LAMBDA f, sum : sum + scores[f], 0, Upto(Ordered(Range(s.scope), <<>>), 3))

(* Scopes are compared as sequences; a shorter one comes first.              *)
Padded(scope) == [i \in 1 .. MaxSlice |-> IF i \in DOMAIN scope THEN scope[i] ELSE 0]

RankKey(x, s) ==
    IF x.kind \in {"file", "folder"}
    THEN <<Min({s.class, 1}), -TopScores(s), Cardinality(s.out)>> \o Padded(s.scope)
    ELSE <<s.class, -Cardinality(s.rels), -Cardinality(s.clus), Cardinality(s.out),
           -TopScores(s)>> \o Padded(s.scope)

(* Mutant: a slice inside another goes, whatever evidence only it cites.     *)
SuppressedByScope(s, kept) ==
    \E i \in DOMAIN kept : Range(s.scope) \subseteq Range(kept[i].scope)
                           /\ Range(s.scope) # Range(kept[i].scope)

Suppressed(s, kept) ==
    \E i \in DOMAIN kept : /\ Range(s.scope) \subseteq Range(kept[i].scope)
                           /\ Range(s.scope) # Range(kept[i].scope)
                           /\ s.rels \subseteq kept[i].rels
                           /\ s.clus \subseteq kept[i].clus

Ranked(x, slices) ==
    FoldLeft(LAMBDA kept, s : IF Suppressed(s, kept) THEN kept ELSE Append(kept, s),
             <<>>,
             InOrder({<<RankKey(x, s), s>> : s \in Range(slices)}))

(* enrich_plan_slice: a slice with derived files is for whoever makes them,  *)
(* and one without evidence is not to be changed before there is some.       *)
NonActionable(x, s) == x.derived \/ Range(s.scope) \cap DOMAIN Derived # {}

TopScore(s) == Max({scores[f] : f \in Range(s.scope)})

AnchorEvidence(s) == TopScore(s) >= 40 \/ Range(s.scope) \cap Flagged # {}

SupportedRels(s) == {r \in s.rels : Pairs[r].supported}

PlanType(x, s) ==
    IF ~NonActionable(x, s) /\ (AnchorEvidence(s) \/ SupportedRels(s) # {})
    THEN "intervention" ELSE "investigation"

(* What its objective, its criteria and its outcome ask for.                 *)
Objective(x, s) ==
    IF NonActionable(x, s) THEN "find_generator"
    ELSE IF ~AnchorEvidence(s) /\ SupportedRels(s) = {} THEN "find_evidence"
    ELSE "resolve"

(* Priority and the band to come down to, by the worst score in the scope.   *)
Urgency(s) == CASE TopScore(s) >= 75 -> [priority |-> "now", band |-> "moderate_or_lower"]
                [] TopScore(s) \in 40 .. 74 -> [priority |-> "next", band |-> "low"]
                [] TopScore(s) < 40 -> [priority |-> "later", band |-> None]

Enriched(x, s) == [scope |-> s.scope, out |-> s.out, class |-> PlanType(x, s),
                   objective |-> Objective(x, s), urgency |-> Urgency(s),
                   cap |-> Len(s.scope)]

-----------------------------------------------------------------------------
Measure(s) == /\ plan = None /\ pairs = {} /\ groups = {} /\ scores # s
              /\ scores' = s /\ UNCHANGED <<pairs, groups, plan>>

FindPair(r) == /\ plan = None /\ groups = {} /\ \A q \in pairs : q < r
               /\ pairs' = pairs \cup {r} /\ UNCHANGED <<scores, groups, plan>>

FindGroup(c) == /\ plan = None /\ \A d \in groups : d < c
                /\ groups' = groups \cup {c} /\ UNCHANGED <<scores, pairs, plan>>

(* What is to be planned for, and whether it is a generated file.            *)
Contexts ==
    {PathContext("file", f) @@ [derived |-> f \in DOMAIN Derived] : f \in PlanFiles}
    \cup {x @@ [derived |-> FALSE] :
             x \in {PathContext("folder", FolderOf[f]) : f \in PlanFiles}
                  \cup {ClusterContext(c) : c \in groups}
                  \cup {RelationshipContext(r) : r \in pairs}}

PlanFor(x) ==
    \E candidates \in {CandidateSlices(x)} :
       LET ranked == Ranked(x, Merge(candidates))
           slices == Upto(ranked, MaxSlices)
       IN /\ plan = None
          /\ plan' = [candidates |-> Range(candidates), ranked |-> ranked,
                      slices |-> [i \in DOMAIN slices |-> Enriched(x, slices[i])]]
          /\ UNCHANGED <<scores, pairs, groups>>

Next == \/ \E s \in ScoresTried : Measure(s)
        \/ \E r \in DOMAIN Pairs : FindPair(r)
        \/ \E c \in DOMAIN Groups : FindGroup(c)
        \/ \E x \in Contexts : PlanFor(x)

Spec == Init /\ [][Next]_vars

-----------------------------------------------------------------------------
(* Cutting, merging and leaving out lose no evidence: whatever a candidate   *)
(* slice cites is cited by a slice of the ranking that holds all its files.  *)
(* The anchor's slice is first, no file is both in and out of a scope, no    *)
(* slice that is to be changed has a derived file in its scope, and what a   *)
(* slice asks for goes with its type, its cap and its urgency.               *)
EvidenceKept ==
    plan # None =>
        /\ \A c \in plan.candidates : \E i \in DOMAIN plan.ranked :
              /\ Range(c.scope) \subseteq Range(plan.ranked[i].scope)
              /\ c.rels \subseteq plan.ranked[i].rels
              /\ c.clus \subseteq plan.ranked[i].clus
        /\ plan.ranked[1].class = 0
        /\ \A i \in DOMAIN plan.slices :
              /\ Range(plan.slices[i].scope) \cap plan.slices[i].out = {}
              /\ plan.slices[i].class = "intervention" =>
                     Range(plan.slices[i].scope) \cap DOMAIN Derived = {}
              /\ plan.slices[i].class = "intervention" <=> plan.slices[i].objective = "resolve"
              /\ plan.slices[i].objective = "find_evidence" => plan.slices[i].urgency.band = None
              /\ plan.slices[i].cap \in 1 .. MaxSlice
=============================================================================
