------------------------------ MODULE Retention ------------------------------
(***************************************************************************)
(* Which run directories the two retention algorithms of git-slop keep:    *)
(* the one that `find` applies before and after every publication          *)
(* (enforce_retention, src/report/write/storage.rs) and the one that       *)
(* `prune` applies (plan_run_prune, src/cli/listing.rs).  Both sort the    *)
(* directory names in descending string order and walk the sorted list.    *)
(*                                                                         *)
(* An entry is [place, key, bytes].  A key is the name of the directory as *)
(* a sequence of numbers that compares as the string does: the time stamp, *)
(* then the decimal digits of the "-N" suffix of unique_run_root.          *)
(***************************************************************************)
EXTENDS Integers, Sequences, FiniteSets

(* The decimal digits of n, the most significant first.                    *)
Digits(n) ==
    LET digits[k \in 0 .. n] ==
            IF k < 10 THEN <<k>> ELSE Append(digits[k \div 10], k % 10)
    IN  digits[n]

(* The name that unique_run_root gives: the bare time stamp (n = 1) or the *)
(* time stamp followed by "-n".  Time stamps have one width, so they       *)
(* compare as numbers do.                                                  *)
RunKey(stamp, n) == IF n = 1 THEN <<stamp>> ELSE <<stamp>> \o Digits(n)

(* A directory still named ".run-...": '.' sorts below every digit.        *)
HiddenKey == <<0>>

(* s is a smaller string than t.                                           *)
StringBefore(s, t) ==
    \E k \in 1 .. Len(t) :
        /\ k > Len(s) \/ s[k] < t[k]
        /\ \A i \in 1 .. (k - 1) : i <= Len(s) /\ s[i] = t[i]

(* sort_by_key(Reverse(file_name)): the greatest name comes first.         *)
Descending(entries) ==
    CHOOSE sorted \in [1 .. Cardinality(entries) -> entries] :
        /\ \A e \in entries : \E i \in DOMAIN sorted : sorted[i] = e
        /\ \A i, j \in DOMAIN sorted :
              i < j => ~ StringBefore(sorted[i].key, sorted[j].key)

(* The test enforce_retention makes of the entry at position i, when the   *)
(* entries before it that are retained have so many bytes.                 *)
FindKeeps(i, before, bytes, keep, maxBytes) ==
    \/ i = 1 /\ keep > 0
    \/ i <= keep /\ before + bytes <= maxBytes

(* The positions enforce_retention removes: an entry that is not retained  *)
(* adds nothing to the bytes, so a smaller one after it may be retained.   *)
FindDrops(sorted, keep, maxBytes) ==
    LET after[i \in 0 .. Len(sorted)] ==
            IF i = 0 THEN 0
            ELSE LET before == after[i - 1]
                     bytes == sorted[i].bytes
                 IN  IF FindKeeps(i, before, bytes, keep, maxBytes)
                     THEN before + bytes ELSE before
    IN  {i \in 1 .. Len(sorted) :
            ~ FindKeeps(i, after[i - 1], sorted[i].bytes, keep, maxBytes)}

(* The positions plan_run_prune selects: the first entry that fails the    *)
(* same test exhausts the retained prefix.                                 *)
PruneDrops(sorted, keep, maxBytes) ==
    LET total[i \in 0 .. Len(sorted)] ==
            IF i = 0 THEN 0 ELSE total[i - 1] + sorted[i].bytes
    IN  {i \in 1 .. Len(sorted) : \E k \in 1 .. i :
            ~ FindKeeps(k, total[k - 1], sorted[k].bytes, keep, maxBytes)}

PlacesAt(entries, sorted, positions) ==
    {e.place : e \in {d \in entries : \E i \in positions : sorted[i] = d}}

(* The directories that enforce_retention(keep, maxBytes) removes.         *)
FindRemoves(entries, keep, maxBytes) ==
    LET sorted == Descending(entries)
    IN  PlacesAt(entries, sorted, FindDrops(sorted, keep, maxBytes))

(* The directories that plan_run_prune(keep, maxBytes) selects.            *)
PruneRemoves(entries, keep, maxBytes) ==
    LET sorted == Descending(entries)
    IN  PlacesAt(entries, sorted, PruneDrops(sorted, keep, maxBytes))
==============================================================================
