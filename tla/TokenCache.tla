------------------------------ MODULE TokenCache ------------------------------
(***************************************************************************)
(* The packed token cache of a state directory                             *)
(* (src/analyze/cache.rs, src/cache.rs): a scan looks up the token           *)
(* data of every file by content, computes and stores what is missing, and   *)
(* cuts the cache to its limits, while `cache prune`, which takes no lock,   *)
(* removes entries.  Scans of one state directory exclude each other.        *)
(*                                                                         *)
(* A database that fails is moved aside and a new one is opened; a process   *)
(* that has the moved file open goes on with it.  Sizes are those of the     *)
(* payloads; `accessed_at` is the order of the scans.                        *)
(***************************************************************************)
EXTENDS Integers, Sequences, FiniteSets, FiniteSetsExt, SequencesExt

CONSTANTS Files,      \* files: [text, mode], analysed in this order
          Tokenizers, \* the tokenizers a configuration may name
          SizeOf,     \* the size of the payload in each mode
          MaxEntries, \* resources.cache_max_entries
          MaxBytes,   \* resources.cache_max_bytes
          MaxScans,   \* bound: scans in a behaviour
          MaxDamage,  \* bound: faults in a behaviour
          None

VARIABLES dbs,      \* every database file so far: [version, sound, rows]
          live,     \* the one at the cache path; 0 when there is none
          scan,     \* the scan
          pruner,   \* the `cache prune`
          scans,    \* scans so far
          damage    \* faults so far

vars == <<dbs, live, scan, pruner, scans, damage>>

(* token_cache_key: everything the token data depend on.                     *)
Key(text, tokenizer, mode) == <<text, tokenizer, mode>>

(* What the tokenizer and the structural analysis make of a file.            *)
Computed(text, tokenizer, mode) == [text |-> text, tokenizer |-> tokenizer, mode |-> mode]

Created == [version |-> 1, sound |-> TRUE, rows |-> <<>>]
Idle == [pc |-> "idle"]
Init == /\ dbs = <<>> /\ live = 0 /\ scans = 0 /\ damage = 0
        /\ scan = Idle /\ pruner = Idle

(* Rows are kept in the order of accessed_at: [key, payload].                *)
Bytes(rows) ==
    LET sum[n \in 0 .. Len(rows)] == IF n = 0 THEN 0 ELSE sum[n - 1] + SizeOf[rows[n].key[3]]
    IN sum[Len(rows)]
Without(rows, keys) ==
    LET left[n \in 0 .. Len(rows)] ==
            IF n = 0 THEN <<>>
            ELSE IF rows[n].key \in keys THEN left[n - 1] ELSE Append(left[n - 1], rows[n])
    IN left[Len(rows)]
RowsOf(db) == dbs[db].rows
Within(entries, bytes) == entries <= MaxEntries /\ bytes <= MaxBytes

-----------------------------------------------------------------------------
(* Faults: a page is damaged, or a payload no longer decodes; a database of  *)
(* another version is put in place.                                          *)
Damage ==
    /\ damage < MaxDamage /\ live # 0
    /\ \/ dbs' = [dbs EXCEPT ![live].sound = FALSE]
       \/ dbs' = [dbs EXCEPT ![live].version = 2]
       \/ \E i \in DOMAIN RowsOf(live) : dbs' = [dbs EXCEPT ![live].rows[i].payload = None]
    /\ damage' = damage + 1
    /\ UNCHANGED <<live, scan, pruner, scans>>

-----------------------------------------------------------------------------
(* A scan.                                                                   *)

(* TokenCache::open: <<database files, live file, opened>>. A file that is   *)
(* damaged or of another version is refused.                                 *)
Opened(files, at) ==
    IF at = 0
    THEN <<Append(files, Created), Len(files) + 1, Len(files) + 1>>
    ELSE IF files[at].sound /\ files[at].version = 1 THEN <<files, at, at>> ELSE <<files, at, 0>>

(* quarantine_cache, then a second attempt to open. A busy database stays,   *)
(* and may still be busy.                                                    *)
Reopened(moved) == Opened(dbs, IF moved THEN 0 ELSE live)
Busy == pruner.pc = "delete"
Retried == {Reopened(FALSE), <<dbs, live, 0>>}

Open(t) ==
    /\ scan.pc \in {"idle", "done"} /\ scans < MaxScans
    /\ scans' = scans + 1
    /\ LET first == Opened(dbs, live) IN
       \E next \in (IF first[3] # 0 THEN {first} ELSE {Reopened(q) : q \in BOOLEAN})
                   \cup (IF Busy THEN Retried ELSE {}) :
             /\ dbs' = next[1] /\ live' = next[2]
             /\ scan' = [pc |-> "get", tokenizer |-> t, cache |-> next[3], file |-> 1,
                         data |-> <<>>, stats |-> None]
    /\ UNCHANGED <<pruner, damage>>

Current == Files[scan.file]
CurrentKey == Key(Current.text, scan.tokenizer, Current.mode)

(* The token data of the current file are known.                             *)
Learned(value) == [scan EXCEPT !.data = Append(@, value), !.file = @ + 1,
                               !.pc = IF scan.file = Len(Files) THEN "stats" ELSE "get"]

(* A lookup: a hit when there is a row whose payload decodes. An hour after  *)
(* the last access it counts as used again.                                  *)
Hit == IF scan.cache = 0 THEN {}
       ELSE {row \in ToSet(RowsOf(scan.cache)) : row.key = CurrentKey /\ row.payload # None}

GetHit(touch) ==
    /\ scan.pc = "get" /\ Hit # {}
    /\ LET row == CHOOSE r \in Hit : TRUE IN
       /\ scan' = Learned(row.payload)
       /\ dbs' = IF touch THEN [dbs EXCEPT ![scan.cache].rows =
                                Append(Without(@, {row.key}), row)] ELSE dbs
    /\ UNCHANGED <<live, pruner, scans, damage>>

GetMiss ==
    /\ scan.pc = "get" /\ Hit = {}
    /\ scan' = [scan EXCEPT !.pc = "put"]
    /\ UNCHANGED <<dbs, live, pruner, scans, damage>>

(* A statement fails, because the database is busy, or damaged, or was moved:*)
(* it is moved aside unless it is busy, and the next statements go to what   *)
(* can be opened then, if anything. The file is computed all the same.       *)
Fails(next) ==
    /\ scan.cache # 0
    /\ \E after \in (IF Busy THEN Retried ELSE {})
                   \cup (IF dbs[scan.cache].sound THEN {} ELSE {Reopened(q) : q \in BOOLEAN}) :
          /\ dbs' = after[1] /\ live' = after[2]
          /\ scan' = [next EXCEPT !.cache = after[3]]
    /\ UNCHANGED <<pruner, scans, damage>>

Value == Computed(Current.text, scan.tokenizer, Current.mode)
GetFails == scan.pc = "get" /\ Fails([scan EXCEPT !.pc = "put"])
PutFails == scan.pc = "put" /\ Fails(Learned(Value))

Put ==
    /\ scan.pc = "put"
    /\ scan' = Learned(Value)
    /\ dbs' = IF scan.cache = 0 THEN dbs
              ELSE [dbs EXCEPT ![scan.cache].rows =
                       Append(Without(@, {CurrentKey}), [key |-> CurrentKey, payload |-> Value])]
    /\ UNCHANGED <<live, pruner, scans, damage>>

(* enforce_limits: counts once, then removes the oldest entry until its own  *)
(* count is within the limits, or until an entry is already gone.            *)
Stats ==
    /\ scan.pc = "stats"
    /\ scan' = IF scan.cache = 0 THEN [scan EXCEPT !.pc = "done"]
               ELSE [scan EXCEPT !.pc = "evict",
                        !.stats = [entries |-> Len(RowsOf(scan.cache)),
                                   bytes |-> Bytes(RowsOf(scan.cache)), failed |-> 0,
                                   candidate |-> None]]
    /\ UNCHANGED <<dbs, live, pruner, scans, damage>>

(* Mutant: the loop ends when one of the limits is met.                      *)
EnoughOne(s) == s.entries <= MaxEntries \/ s.bytes <= MaxBytes
Enough(s) == Within(s.entries, s.bytes)

Candidate ==
    /\ scan.pc = "evict" /\ scan.stats.candidate = None
    /\ scan' = IF Enough(scan.stats) \/ RowsOf(scan.cache) = <<>>
               THEN [scan EXCEPT !.pc = "done"]
               ELSE [scan EXCEPT !.stats.candidate = Head(RowsOf(scan.cache)).key]
    /\ UNCHANGED <<dbs, live, pruner, scans, damage>>

Evict ==
    /\ scan.pc = "evict" /\ scan.stats.candidate # None
    /\ LET counts == scan.stats
           key == counts.candidate
           there == \E row \in ToSet(RowsOf(scan.cache)) : row.key = key
       IN /\ dbs' = [dbs EXCEPT ![scan.cache].rows = Without(@, {key})]
          /\ scan' = IF there
                     THEN [scan EXCEPT !.stats = [counts EXCEPT !.entries = @ - 1,
                              !.bytes = @ - SizeOf[key[3]], !.candidate = None]]
                     ELSE [scan EXCEPT !.stats.failed = @ + 1, !.pc = "done"]
    /\ UNCHANGED <<live, pruner, scans, damage>>

(* A count or a lookup that fails moves the cache aside; a removal that fails *)
(* is only counted.                                                          *)
LimitsFail ==
    /\ scan.pc \in {"stats", "evict"} /\ scan.cache # 0
    /\ IF scan.pc = "evict" /\ scan.stats.candidate # None
       THEN /\ Busy \/ ~dbs[scan.cache].sound
            /\ scan' = [scan EXCEPT !.stats.failed = @ + 1, !.pc = "done"]
            /\ UNCHANGED live
       ELSE /\ ~dbs[scan.cache].sound
            /\ scan' = [scan EXCEPT !.stats = None, !.pc = "done"]
            /\ live' \in {live, 0}
    /\ UNCHANGED <<dbs, pruner, scans, damage>>

-----------------------------------------------------------------------------
(* cache prune --yes, whose limits are arguments: it counts, reads the keys  *)
(* in the order of their age, and removes what is too much in a transaction. *)
PruneCount(limit) ==
    /\ pruner.pc = "idle" /\ live # 0
    /\ pruner' = [pc |-> "select", limit |-> limit, db |-> live, entries |-> Len(RowsOf(live)),
                  bytes |-> Bytes(RowsOf(live)), selected |-> {}]
    /\ UNCHANGED <<dbs, live, scan, scans, damage>>

PruneSelect ==
    /\ pruner.pc = "select"
    /\ LET rows == RowsOf(pruner.db)
           Left(n) == [entries |-> pruner.entries - n,
                       bytes |-> pruner.bytes - Bytes(SubSeq(rows, 1, n))]
           enough == {n \in 0 .. Len(rows) : \/ n = Len(rows)
                                             \/ /\ Left(n).entries <= pruner.limit.entries
                                                /\ Left(n).bytes <= pruner.limit.bytes}
       IN pruner' = [pruner EXCEPT !.pc = "delete",
                                   !.selected = {rows[i].key : i \in 1 .. Min(enough)}]
    /\ UNCHANGED <<dbs, live, scan, scans, damage>>

PruneDelete ==
    /\ pruner.pc = "delete"
    /\ dbs' = [dbs EXCEPT ![pruner.db].rows = Without(@, pruner.selected)]
    /\ pruner' = Idle
    /\ UNCHANGED <<live, scan, scans, damage>>

Next == \/ Damage \/ GetMiss \/ GetFails \/ PutFails \/ LimitsFail \/ Put \/ Stats \/ Candidate \/ Evict
        \/ PruneSelect \/ PruneDelete
        \/ \E t \in Tokenizers : Open(t)
        \/ \E touch \in BOOLEAN : GetHit(touch)
        \/ \E limit \in {[entries |-> 0, bytes |-> 0], [entries |-> MaxEntries, bytes |-> 1]} :
              PruneCount(limit)

Spec == Init /\ [][Next]_vars

-----------------------------------------------------------------------------
(* The cache is never needed for correctness: whatever is stored, removed,   *)
(* damaged or moved aside, by this scan, an earlier one with another         *)
(* tokenizer, or a prune in between, a scan ends with the token data it      *)
(* would compute without the cache, for every file.                          *)
CacheTransparent ==
    scan.pc = "done" =>
        scan.data = [i \in DOMAIN Files |->
                        Computed(Files[i].text, scan.tokenizer, Files[i].mode)]

(* A scan that reports no failed eviction leaves its cache within both       *)
(* limits, though it counted the entries only once and a prune may have      *)
(* removed some since.                                                       *)
CacheBounded ==
    scan.pc = "done" /\ scan.stats # None /\ scan.stats.failed = 0 =>
        Within(Len(RowsOf(scan.cache)), Bytes(RowsOf(scan.cache)))
===============================================================================
