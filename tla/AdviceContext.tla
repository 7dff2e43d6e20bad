--------------------------- MODULE AdviceContext ---------------------------
(* The input of an advice call (src/advice/context) and the verdict that is  *)
(* computed from the answer (src/advice/validate.rs): excerpts of the files  *)
(* the plan names are read one by one, cut to a budget of bytes and then of  *)
(* tokens, and everything cut is told in the input. The input is kept in a   *)
(* cache under its digest once its answer is valid.                          *)
(*                                                                           *)
(* Sizes are in units of 256 bytes. The tokens of an excerpt are its units   *)
(* times the density of its text. A path is the sequence of its parts. Not   *)
(* modelled: the text of candidates and rules, evaluation scenarios, and the *)
(* cap of a citation list.                                                   *)
EXTENDS Integers, Sequences, FiniteSets, SequencesExt, FiniteSetsExt

CONSTANTS Requests,     \* what is asked for: records, see Begin
          Files,        \* the tracked files: path -> [size, density, kind, reported]
          SlicesOf,     \* the report's plans: target -> sequence of [sources, tests]
          Rules,        \* rule identifiers that apply to advice
          MaxFiles,     \* MAX_CONTEXT_FILES
          PerExcerpt,   \* --excerpt-bytes
          Least,        \* 512 bytes: no excerpt is cut below it
          MaxBytes,     \* bytes left for excerpts after candidates and policies
          MaxTokens,    \* --max-context-tokens
          MaxRounds,    \* rounds of fit_token_budget: 256
          None

VARIABLES stage,        \* what happens next
          asked,        \* the request
          edited,       \* files changed on disk since the report
          todo,         \* selections not yet read
          excerpts,     \* repository_excerpts
          missing,      \* missing_evidence
          remaining,    \* limits.remaining_bytes
          compacted,    \* limits.truncation.candidate_details_compacted
          summary,      \* limits.truncation
          rounds,       \* rounds of fit_token_budget done
          response,     \* what the provider answered
          verdict,      \* the aggregate computed from it
          entry         \* the context cache's file of this digest: "own", "other"

vars == <<stage, asked, edited, todo, excerpts, missing, remaining, compacted,
          summary, rounds, response, verdict, entry>>

input == <<todo, excerpts, missing, remaining, compacted, summary, rounds>>

NoSummary == [occurred |-> FALSE, cut |-> {}, omitted |-> {}, details |-> FALSE]

Init == /\ stage = "idle" /\ asked = None /\ edited = {}
        /\ todo = <<>> /\ excerpts = <<>> /\ missing = {}
        /\ remaining = MaxBytes /\ compacted = FALSE /\ summary = NoSummary
        /\ rounds = 0 /\ response = None /\ verdict = None /\ entry = None

Refuse == stage' = "refused" /\ UNCHANGED <<asked, edited, input, response, verdict, entry>>

-----------------------------------------------------------------------------
(* Choosing what to read.                                                    *)

(* AdviceSelector::Top: what `explain` puts first, filled up with refactor   *)
(* candidates.                                                               *)
TopPaths(explained, refactors, count) ==
    LET more == SelectSeq(refactors, LAMBDA path : path \notin Range(explained))
        paths == explained \o more
    IN SubSeq(paths, 1, Min({count, Len(paths)}))

(* plan_payloads: the plan of the one target, or the first slice of each of  *)
(* the top ones.                                                             *)
Plans(r) ==
    IF r.selector = "one" THEN {[target |-> r.target, slices |-> SlicesOf[r.target]]}
    ELSE {[target |-> path, slices |-> SubSeq(SlicesOf[path], 1, 1)] :
             path \in Range(TopPaths(r.explained, r.refactors, r.count))}

(* build_candidates: a candidate is told by its target and its slice.        *)
BuildCandidates(r) ==
    UNION {{[target |-> plan.target, slice |-> plan.slices[i]] : i \in DOMAIN plan.slices} :
              plan \in Plans(r)}

Sources(r) == UNION {c.slice.sources : c \in BuildCandidates(r)}
Tests(r) == UNION {c.slice.tests : c \in BuildCandidates(r)}

(* guidance_candidates: the AGENTS.md of each directory above a source, the  *)
(* deepest first, and the root's documents. A path may come twice:           *)
(* Selections merges it.                                                     *)
Guidance(sources) ==
    LET Above(path) == [k \in 1 .. Len(path) - 1 |->
                          Append(SubSeq(path, 1, Len(path) - k), "AGENTS.md")]
        order == SetToSeq(sources)
    IN FlattenSeq([i \in DOMAIN order |-> Above(order[i])])
         \o <<<<"AGENTS.md">>, <<"CONTRIBUTING.md">>, <<"README.md">>,
              <<"docs", "architecture.md">>>>

(* add_excerpt_selection: a path chosen twice is read once, and is required  *)
(* when one of its roles requires it.                                        *)
AddSelection(selections, s) ==
    IF \E i \in DOMAIN selections : selections[i].path = s.path
    THEN [i \in DOMAIN selections |->
            IF selections[i].path = s.path
            THEN [s EXCEPT !.required = @ \/ selections[i].required]
            ELSE selections[i]]
    ELSE Append(selections, s)

(* Guidance, then what the candidates change, then what verifies them.       *)
Selections(r) ==
    LET Chosen(paths, required) ==
            [i \in DOMAIN paths |-> [path |-> paths[i], required |-> required]]
    IN FoldLeft(AddSelection, <<>>,
                Chosen(Guidance(Sources(r)), FALSE)
                  \o Chosen(SetToSeq(Sources(r)), TRUE)
                  \o Chosen(SetToSeq(Tests(r)), TRUE))

(* A request is for one target or for the top ones; `tokens` are those of    *)
(* its candidates and policies, `details` those that compacting gives back.  *)
Begin(r) ==
    /\ stage = "idle"
    /\ IF \/ r.selector = "top" /\ r.count \notin 1 .. 20
          \/ BuildCandidates(r) = {}
       THEN Refuse
       ELSE /\ asked' = r /\ todo' = Selections(r) /\ stage' = "excerpts"
            /\ UNCHANGED <<edited, excerpts, missing, remaining, compacted,
                           summary, rounds, response, verdict, entry>>

-----------------------------------------------------------------------------
(* Reading the excerpts.                                                     *)

(* Somebody edits a file while the input is being built.                     *)
Edit(path) ==
    /\ stage = "excerpts" /\ path \notin edited
    /\ edited' = edited \cup {path}
    /\ UNCHANGED <<stage, asked, input, response, verdict, entry>>

Allowance == Min({PerExcerpt, remaining - Least})

Omit(s, reason) ==
    /\ missing' = missing \cup {[path |-> s.path, reason |-> reason]}
    /\ todo' = Tail(todo)
    /\ UNCHANGED <<stage, asked, edited, excerpts, remaining, compacted, summary,
                   rounds, response, verdict, entry>>

Skip == /\ todo' = Tail(todo)
        /\ UNCHANGED <<stage, asked, edited, excerpts, missing, remaining, compacted,
                       summary, rounds, response, verdict, entry>>

(* A tracked path that is ignored, leads through a link or is not text is    *)
(* not read.                                                                 *)
Tracked(path) == path \in DOMAIN Files
Readable(path) == Tracked(path) /\ Files[path].kind = "text"

(* excerpt: a file that may not be read, or is no longer what the report     *)
(* says it was, refuses the whole input.                                     *)
Stale(path) == Files[path].reported /\ path \in edited

Excerpt(path) ==
    IF ~Readable(path) \/ Stale(path) THEN Refuse
    ELSE LET file == Files[path]
             returned == Min({file.size, Allowance})
         IN /\ excerpts' = Append(excerpts,
                  [path |-> path, density |-> file.density, original |-> file.size,
                   returned |-> returned, truncated |-> returned < file.size,
                   reason |-> IF returned < file.size THEN "per_excerpt_bytes" ELSE "",
                   asReported |-> path \notin edited])
            /\ remaining' = remaining - returned
            /\ todo' = Tail(todo)
            /\ UNCHANGED <<stage, asked, edited, missing, compacted, summary,
                           rounds, response, verdict, entry>>

(* One selection: the limit of files, a guidance file that is not there, the *)
(* budget of bytes, and then the file.                                       *)
Take ==
    /\ stage = "excerpts" /\ todo # <<>>
    /\ LET s == Head(todo)
       IN CASE Len(excerpts) >= MaxFiles -> Omit(s, "context_file_limit")
            [] Len(excerpts) < MaxFiles /\ ~s.required /\ ~Tracked(s.path) -> Skip
            [] OTHER -> IF Allowance < Least THEN Omit(s, "context_byte_budget")
                        ELSE Excerpt(s.path)

-----------------------------------------------------------------------------
(* Fitting the budget of tokens.                                             *)

(* refresh_truncation_summary: the figures of the excerpts and omissions     *)
(* handed to it.                                                             *)
Summary(es, ms, details) ==
    LET cut == {[path |-> es[i].path, returned |-> es[i].returned] :
                   i \in {j \in DOMAIN es : es[j].truncated}}
    IN [occurred |-> cut # {} \/ ms # {} \/ details,
        cut |-> cut, omitted |-> ms, details |-> details]

Tokens == asked.tokens - (IF compacted THEN asked.details ELSE 0)
          + FoldSeq(LAMBDA e, sum : sum + e.density * e.returned, 0, excerpts)

Excess == Tokens - MaxTokens

Shrinkable == {i \in DOMAIN excerpts : excerpts[i].returned > Least}

(* The last excerpt that can be cut is cut by four bytes for each token too  *)
(* many, and by 256 bytes at least.                                          *)
Shrink ==
    LET i == Max(Shrinkable)
        previous == excerpts[i].returned
        target == Max({previous - Max({Excess, 1}), Least})
        cut == [excerpts EXCEPT ![i].returned = target, ![i].truncated = TRUE,
                                ![i].reason = "context_token_budget"]
    IN /\ excerpts' = cut
       /\ remaining' = remaining + (previous - target)
       /\ summary' = Summary(cut, missing, compacted)
       /\ UNCHANGED <<missing, compacted>>

(* Mutant: the excerpt goes without a word.                                  *)
DropSilently ==
    LET kept == Front(excerpts)
    IN /\ excerpts' = kept
       /\ summary' = Summary(kept, missing, compacted)
       /\ UNCHANGED <<missing, remaining, compacted>>

(* When all are as short as they may be, the last excerpt goes. Its bytes    *)
(* are not given back.                                                       *)
Drop ==
    LET kept == Front(excerpts)
        told == missing \cup {[path |-> Last(excerpts).path,
                               reason |-> "context_token_budget"]}
    IN /\ excerpts' = kept /\ missing' = told
       /\ summary' = Summary(kept, told, compacted)
       /\ UNCHANGED <<remaining, compacted>>

(* compact_single_candidate_details, once, when no excerpt is left.          *)
Compact ==
    LET told == missing \cup {[path |-> <<"candidate-context">>,
                               reason |-> "context_token_budget"]}
    IN /\ compacted' = TRUE /\ missing' = told
       /\ summary' = Summary(excerpts, told, TRUE)
       /\ UNCHANGED <<excerpts, remaining>>

Fits == Excess <= 0

(* One round of fit_token_budget.                                            *)
Fit ==
    /\ stage = "excerpts" /\ todo = <<>>
    /\ IF rounds = MaxRounds
          \/ (~Fits /\ excerpts = <<>> /\ (compacted \/ Cardinality(BuildCandidates(asked)) # 1))
       THEN Refuse
       ELSE /\ rounds' = rounds + 1
            /\ stage' = IF Fits THEN "seal" ELSE "excerpts"
            /\ CASE Fits -> /\ summary' = Summary(excerpts, missing, compacted)
                            /\ UNCHANGED <<excerpts, missing, remaining, compacted>>
                 [] ~Fits /\ Shrinkable # {} -> Shrink
                 [] ~Fits /\ Shrinkable = {} /\ excerpts # <<>> -> Drop
                 [] OTHER -> Compact
            /\ UNCHANGED <<asked, edited, todo, response, verdict, entry>>

(* The compiled input is measured again with its digest and its own count,   *)
(* for which sixteen tokens and eight KiB were kept free.                    *)
Seal(fits) ==
    /\ stage = "seal"
    /\ stage' = IF fits THEN "ready" ELSE "refused"
    /\ UNCHANGED <<asked, edited, input, response, verdict, entry>>

-----------------------------------------------------------------------------
(* The answer.                                                               *)

Verdicts == <<"approve", "abstain", "revise", "reject">>

Rank(v) == CHOOSE i \in DOMAIN Verdicts : Verdicts[i] = v

(* aggregate_verdict: the strictest, and "abstain" of nothing.               *)
Aggregate(S) == IF S = {} THEN "abstain"
                ELSE Verdicts[Max({Rank(v) : v \in S})]

(* A response gives each candidate it names a verdict for each rule it       *)
(* names, and may claim any verdict of its own; it is valid when it names    *)
(* all of both and cites only what the input indexes.                        *)
Candidates == 1 .. Cardinality(BuildCandidates(asked))

Whole(r) == /\ DOMAIN r.of = Candidates
            /\ \A c \in Candidates : DOMAIN r.of[c] = Rules
            /\ r.cites

OfCandidate(r, c) == Aggregate({r.of[c][rule] : rule \in DOMAIN r.of[c]})

Respond(r) ==
    /\ stage = "ready"
    /\ response' = r
    /\ IF Whole(r)
       THEN /\ stage' = IF asked.ephemeral THEN "accepted" ELSE "valid"
            /\ verdict' = Aggregate({OfCandidate(r, c) : c \in DOMAIN r.of})
       ELSE stage' = "refused" /\ UNCHANGED verdict
    /\ UNCHANGED <<asked, edited, input, entry>>

(* cache_input, with the answer valid: a file that is there must be this     *)
(* input, and one that is not is put in place without replacing another.     *)
Compare == IF entry = "own"
           THEN stage' = "accepted" /\ UNCHANGED <<asked, edited, input, response, verdict, entry>>
           ELSE Refuse

LookUp == /\ stage = "valid"
          /\ IF entry # None THEN Compare
             ELSE stage' = "keep" /\ UNCHANGED <<asked, edited, input, response, verdict, entry>>

Keep == /\ stage = "keep"
        /\ \/ entry = None /\ entry' = "own" /\ stage' = "accepted"
              /\ UNCHANGED <<asked, edited, input, response, verdict>>
           \/ entry = None /\ Refuse
           \/ entry # None /\ Compare

(* A file of this digest was there before, or somebody else puts it there.   *)
Another(file) == /\ stage \in {"valid", "keep"} /\ entry = None
                 /\ entry' = file
                 /\ UNCHANGED <<stage, asked, edited, input, response, verdict>>

Responses ==
    [of : UNION {[C -> UNION {[R -> {"approve", "revise", "abstain"}] : R \in SUBSET Rules}] :
                    C \in {1 .. n : n \in 0 .. 2}},
     cites : BOOLEAN]

Next == \/ \E r \in Requests : Begin(r)
        \/ \E path \in {s.path : s \in Range(todo)} \cap DOMAIN Files : Edit(path)
        \/ Take \/ Fit
        \/ \E fits \in BOOLEAN : Seal(fits)
        \/ stage = "ready" /\ \E r \in Responses : Respond(r)
        \/ LookUp \/ Keep
        \/ \E file \in {"own", "other"} : Another(file)

Spec == Init /\ [][Next]_vars

-----------------------------------------------------------------------------
(* The excerpts in the input are of the files as the report saw them, an     *)
(* excerpt that is not its whole file is told with its size, a file that a   *)
(* candidate changes or is verified by is in the input or is told to be      *)
(* missing whatever else it was chosen for, the bytes granted are not        *)
(* exceeded whatever was cut and dropped to make the input fit, and the file *)
(* of the context cache is the input that was answered.                      *)
Needed == Sources(asked) \cup Tests(asked)

Contained(path) ==
    \E i \in DOMAIN excerpts :
        /\ excerpts[i].path = path
        /\ Files[path].reported => excerpts[i].asReported
        /\ \/ excerpts[i].returned = Files[path].size
           \/ [path |-> path, returned |-> excerpts[i].returned] \in summary.cut

ContextTold ==
    /\ stage \in {"ready", "valid", "accepted"} =>
         /\ \A path \in Needed :
               Contained(path) \/ \E m \in summary.omitted : m.path = path
         /\ summary.occurred \/ \A path \in Needed : Contained(path)
         /\ remaining + FoldSeq(LAMBDA e, sum : sum + e.returned, 0, excerpts) <= MaxBytes
         /\ Tokens <= MaxTokens
    /\ stage = "accepted" /\ ~asked.ephemeral => entry = "own"

(* Advice approves only what every rule approves of every candidate,         *)
(* whatever verdicts the provider claims for the candidates or the whole.    *)
VerdictFollowsRules ==
    verdict = "approve" =>
        \A c \in Candidates, rule \in Rules : response.of[c][rule] = "approve"
=============================================================================
