------------------------------ MODULE SimIndex ------------------------------
(***************************************************************************)
(* The in-memory inverted index of the similarity join                     *)
(* (executor/simjoinUtil.c): (trigram; tuple) entries are appended,        *)
(* ExecFinalizeSimInvertedIndex sorts them, and a probe finds the postings *)
(* list of a trigram by binary search and walks it with                    *)
(* ExecGetNextEntryId.  One iteration of the search loop is one step.      *)
(*                                                                         *)
(* A trigram is its place in the order of CMPTRGM, a tuple its address.    *)
(* Addresses are 64-bit in the code (uint64, so that differences wrap);    *)
(* here they wrap modulo 2 * Half.                                         *)
(***************************************************************************)
EXTENDS Integers, Sequences, FiniteSets

CONSTANTS Trigrams,     \* the trigrams, as integers ordered like CMPTRGM
          Addresses,    \* where a tuple can be
          Half,         \* half of the address space (2^63)
          MaxEntries    \* bound: entries stored; the array of line 17 holds 50000

ASSUME TrigramAssumption == Trigrams \subseteq Int
ASSUME AddressAssumption ==
    /\ Half \in Nat \ {0}
    /\ Addresses \subseteq 0 .. Half - 1   \* user space is the lower half
ASSUME BoundAssumption == MaxEntries \in Nat

VARIABLES entries,      \* SimInvertedIndex.entries[0 .. numEntries - 1]
          finalized,    \* SimInvertedIndex.finalized
          pc,           \* where the caller is
          key,          \* the trigram probed for
          imin, imax,   \* locals of the binary search
          imid,
          id,           \* the SimIndexEntryId the caller holds
          walked,       \* history: the entries of the list the caller has seen
          stored        \* history: the entries in the order they were stored

vars == <<entries, finalized, pc, key, imin, imax, imid, id, walked, stored>>
search == <<key, imin, imax, imid>>

Entry == [trgm : Trigrams, tup : Addresses]
NULL_ENTRY_ID == -1
numEntries == Len(entries)
GET_ENTRY(i) == entries[i + 1]
GET_TRGM(i) == GET_ENTRY(i).trgm

CMPTRGM(a, b) == IF a = b THEN 0 ELSE IF a < b THEN -1 ELSE 1

\* Mutant: the difference is cut to half its width.
cmptupTruncated(a, b) ==
    LET x == (a - b) % Half
    IN IF x = 0 THEN 0 ELSE IF x >= Half \div 2 THEN -1 ELSE 1

\* The difference of two unsigned addresses, read as a signed one.
cmptup(a, b) ==
    LET x == (a - b) % (2 * Half)
    IN IF x = 0 THEN 0 ELSE IF x >= Half THEN -1 ELSE 1

cmpIndex(a, b) ==
    IF a.trgm # b.trgm THEN CMPTRGM(a.trgm, b.trgm) ELSE cmptup(a.tup, b.tup)

Init ==
    /\ entries = <<>>
    /\ stored = <<>>
    /\ finalized = FALSE
    /\ pc = "idle"
    /\ key \in Trigrams
    /\ imin = 0
    /\ imax = -1
    /\ imid = 0
    /\ id = NULL_ENTRY_ID
    /\ walked = <<>>

\* Callers store all entries before they finalize (line 41); the code does not
\* look.
ExecStoreSimIndexEntry(e) ==
    /\ pc = "idle"
    /\ ~finalized
    /\ numEntries < MaxEntries
    /\ entries' = Append(entries, e)
    /\ stored' = Append(stored, e)
    /\ UNCHANGED <<finalized, pc, key, imin, imax, imid, id, walked>>

\* The orders qsort can leave n entries in when cmpIndex is its comparison:
\* qsort is not stable, so equal entries come in any order.
Arrangements(n) ==
    {p \in [1 .. n -> 1 .. n] :
        /\ \A i, j \in 1 .. n : p[i] = p[j] => i = j
        /\ \A i, j \in 1 .. n : i < j => cmpIndex(entries[p[i]], entries[p[j]]) <= 0}

ExecFinalizeSimInvertedIndex ==
    /\ pc = "idle"
    /\ ~finalized
    /\ \E p \in Arrangements(numEntries) :
          entries' = [i \in 1 .. numEntries |-> entries[p[i]]]
    /\ finalized' = TRUE
    /\ UNCHANGED <<pc, key, imin, imax, imid, id, walked, stored>>

----------------------------------------------------------------------------
(* ExecGetFirstEntryIdForTrigram.                                          *)

\* Not finalized: elog(ERROR), and the query that owned the index is over.
ProbeTooEarly(t) ==
    /\ pc = "idle"
    /\ ~finalized
    /\ pc' = "error"
    /\ key' = t
    /\ UNCHANGED <<entries, finalized, imin, imax, imid, id, walked, stored>>

FirstProbe(t) ==
    /\ pc = "idle"
    /\ finalized
    /\ pc' = "search"
    /\ key' = t
    /\ imin' = 0
    /\ imax' = numEntries - 1
    /\ walked' = <<>>
    /\ UNCHANGED <<entries, finalized, imid, id, stored>>

Mid == (imin + imax) \div 2

\* Mutant: the middle stays in the interval.
AboveKeeping(m) == m

Above(m) == m + 1

\* Mutant: an entry too many leaves it.
BelowSkipping(m) == m - 2

Below(m) == m - 1

SearchUpper ==
    /\ pc = "search"
    /\ imax >= imin
    /\ CMPTRGM(GET_TRGM(Mid), key) < 0
    /\ imin' = Above(Mid)
    /\ UNCHANGED <<entries, finalized, pc, key, imax, imid, id, walked, stored>>

SearchLower ==
    /\ pc = "search"
    /\ imax >= imin
    /\ CMPTRGM(GET_TRGM(Mid), key) > 0
    /\ imax' = Below(Mid)
    /\ UNCHANGED <<entries, finalized, pc, key, imin, imid, id, walked, stored>>

Hit ==
    /\ pc = "search"
    /\ imax >= imin
    /\ CMPTRGM(GET_TRGM(Mid), key) = 0
    /\ imid' = Mid
    /\ pc' = "scan"
    /\ UNCHANGED <<entries, finalized, key, imin, imax, id, walked, stored>>

KeyNotFound ==
    /\ pc = "search"
    /\ imax < imin
    /\ id' = NULL_ENTRY_ID
    /\ pc' = "found"
    /\ UNCHANGED <<entries, finalized, key, imin, imax, imid, walked, stored>>

\* Scan backwards to the start of the list.
ScanBack ==
    /\ pc = "scan"
    /\ imid >= 0
    /\ CMPTRGM(key, GET_TRGM(imid)) = 0
    /\ imid' = imid - 1
    /\ UNCHANGED <<entries, finalized, pc, key, imin, imax, id, walked, stored>>

\* Mutant: the entry the scan stopped at is returned.
ListStartStay(m) == m

\* The scan stopped one entry before the list.
ListStart(m) == m + 1

ScanEnds ==
    /\ pc = "scan"
    /\ IF imid >= 0
       THEN /\ CMPTRGM(key, GET_TRGM(imid)) # 0
            /\ id' = ListStart(imid)
       ELSE id' = 0
    /\ pc' = "found"
    /\ UNCHANGED <<entries, finalized, key, imin, imax, imid, walked, stored>>

----------------------------------------------------------------------------
(* ExecGetNextEntryId, called with the id the caller has just used.        *)

\* Mutant: the last entry of the array is never reached.
NextIdWithoutBound(i) == IF i + 2 < numEntries /\ GET_TRGM(i) = GET_TRGM(i + 1)
                         THEN i + 1 ELSE NULL_ENTRY_ID

NextId(i) ==
    IF i + 1 < numEntries /\ CMPTRGM(GET_TRGM(i), GET_TRGM(i + 1)) = 0
    THEN i + 1
    ELSE NULL_ENTRY_ID

ExecGetNextEntryId ==
    /\ pc = "found"
    /\ id # NULL_ENTRY_ID
    /\ walked' = Append(walked, GET_ENTRY(id))
    /\ id' = NextId(id)
    /\ UNCHANGED <<entries, finalized, pc, key, imin, imax, imid, stored>>

\* The caller has reached the end of the list and probes for another trigram.
ListDone ==
    /\ pc = "found"
    /\ id = NULL_ENTRY_ID
    /\ pc' = "idle"
    /\ walked' = <<>>
    /\ UNCHANGED <<entries, finalized, key, imin, imax, imid, id, stored>>

SearchStep == SearchUpper \/ SearchLower \/ Hit \/ KeyNotFound \/ ScanBack \/ ScanEnds

Next ==
    \/ \E e \in Entry : ExecStoreSimIndexEntry(e)
    \/ ExecFinalizeSimInvertedIndex
    \/ \E t \in Trigrams : ProbeTooEarly(t)
    \/ \E t \in Trigrams : FirstProbe(t)
    \/ SearchStep
    \/ ExecGetNextEntryId
    \/ ListDone

Spec == Init /\ [][Next]_vars

\* A probe is a loop of one process: it goes on while it can.
FairSpec == Spec /\ WF_vars(SearchStep) /\ WF_vars(ExecGetNextEntryId)

----------------------------------------------------------------------------
(* Properties.                                                             *)

Ids == 0 .. numEntries - 1

\* The index holds entries, and every position that a step is about to use to
\* address the array (lines 73, 85 and 111) is inside it.
TypeOK ==
    /\ entries \in Seq(Entry)
    /\ stored \in Seq(Entry)
    /\ walked \in Seq(Entry)
    /\ finalized \in BOOLEAN
    /\ pc \in {"idle", "search", "scan", "found", "error"}
    /\ key \in Trigrams
    /\ imin \in 0 .. numEntries
    /\ imax \in -1 .. numEntries - 1
    /\ pc = "search" /\ imax >= imin => Mid \in Ids
    /\ pc = "scan" => imid \in -1 .. numEntries - 1
    /\ id \in -1 .. numEntries - 1

\* simjoinUtil.c:42, "all records are in sorted order within each l_t": once
\* finalized, the entries of a trigram lie together and their tuples ascend by
\* address, which is what lets the lists of an outer tuple be merged.
PostingsSorted ==
    finalized =>
        \A i, j \in Ids : i < j =>
            /\ GET_TRGM(i) <= GET_TRGM(j)
            /\ GET_TRGM(i) = GET_TRGM(j) => GET_ENTRY(i).tup <= GET_ENTRY(j).tup

\* i is the first entry of t's list, or there is none (lines 53-57).
IsFirstEntryFor(t, i) ==
    \/ /\ i = NULL_ENTRY_ID
       /\ \A j \in Ids : GET_TRGM(j) # t
    \/ /\ i \in Ids
       /\ GET_TRGM(i) = t
       /\ \A j \in Ids : GET_TRGM(j) = t => i <= j

\* simjoinUtil.c:54, "the Id for the FIRST IndexEntry that contains this
\* trigram": the binary search never misses a list and never returns its
\* middle, whatever the number of entries and wherever the list lies.
FirstEntryFound ==
    pc = "found" /\ walked = <<>> => IsFirstEntryFor(key, id)

\* How often e occurs in s.
Count(e, s) == Cardinality({i \in DOMAIN s : s[i] = e})

\* A walk from the first entry to NULL_ENTRY_ID meets every entry that was
\* stored for the trigram as often as it was stored, and no other entry.
WholeListWalked ==
    pc = "found" /\ id = NULL_ENTRY_ID =>
        \A e \in Entry :
            Count(e, walked) = IF e.trgm = key THEN Count(e, stored) ELSE 0

\* Every probe returns: the interval of the binary search shrinks and the
\* backward scan stops.
ProbeReturns == pc = "search" ~> pc = "found"

=============================================================================
