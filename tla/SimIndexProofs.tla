--------------------------- MODULE SimIndexProofs ---------------------------
(***************************************************************************)
(* Proofs about SimIndex: for any number of entries, any trigrams and any  *)
(* addresses of the lower half, a probe finds the first entry of its list, *)
(* and a walk from there meets all of the list.                            *)
(***************************************************************************)
EXTENDS SimIndex, FiniteSetTheorems, TLAPS

\* Trigrams ascend in a finalized index.
Ordered ==
    finalized => \A i, j \in Ids : i < j => GET_TRGM(i) <= GET_TRGM(j)

\* Outside [imin, imax] no entry holds the key.
Narrowing ==
    pc = "search" =>
        /\ \A j \in Ids : j < imin => GET_TRGM(j) < key
        /\ \A j \in Ids : j > imax => GET_TRGM(j) > key

\* The backward scan stands on an entry of the list or just before one.
Scanning ==
    pc = "scan" =>
        \/ imid \in Ids /\ GET_TRGM(imid) = key
        \/ imid + 1 \in Ids /\ GET_TRGM(imid + 1) = key

\* A probe only goes on in a finalized index.
ProbesFinalized == pc \in {"search", "scan", "found"} => finalized

SearchInv ==
    /\ TypeOK
    /\ Ordered
    /\ ProbesFinalized
    /\ Narrowing
    /\ Scanning
    /\ FirstEntryFound

LEMMA EntryFacts ==
    ASSUME TypeOK
    PROVE  /\ numEntries \in Nat
           /\ \A i \in Ids : GET_ENTRY(i) \in Entry
           /\ \A i \in Ids : GET_TRGM(i) \in Int
           /\ \A i \in Ids : GET_ENTRY(i).tup \in Int
<1>1. entries \in Seq(Entry)
  BY DEF TypeOK
<1>2. numEntries \in Nat /\ numEntries = Len(entries)
  BY <1>1 DEF numEntries
<1>3. ASSUME NEW i \in Ids PROVE GET_ENTRY(i) \in Entry
  <2>1. i + 1 \in 1 .. Len(entries)
    BY <1>2 DEF Ids
  <2> QED
    BY <1>1, <2>1 DEF GET_ENTRY
<1>4. \A e \in Entry : e.trgm \in Int /\ e.tup \in Int
  <2>1. Trigrams \subseteq Int /\ Addresses \subseteq Int
    BY TrigramAssumption, AddressAssumption DEF TrigramAssumption, AddressAssumption
  <2> QED
    BY <2>1 DEF Entry
<1> QED
  BY <1>2, <1>3, <1>4 DEF GET_TRGM

\* CMPTRGM is the order of the trigrams.
LEMMA TrigramOrder ==
    ASSUME NEW a \in Int, NEW b \in Int
    PROVE  /\ CMPTRGM(a, b) < 0 <=> a < b
           /\ CMPTRGM(a, b) = 0 <=> a = b
           /\ CMPTRGM(a, b) > 0 <=> a > b
BY DEF CMPTRGM

\* In the lower half of the address space cmptup is the order of addresses.
LEMMA TupleOrder ==
    ASSUME NEW a \in Addresses, NEW b \in Addresses
    PROVE  cmptup(a, b) <= 0 <=> a <= b
<1> DEFINE M == 2 * Half
<1>1. /\ a \in 0 .. Half - 1
      /\ b \in 0 .. Half - 1
      /\ Half \in Nat \ {0}
  BY AddressAssumption
<1>2. M \in Nat \ {0}
  BY <1>1
<1>3. CASE a >= b
  <2>1. (a - b) % M = a - b
    BY <1>1, <1>2, <1>3, SMTT(30)
  <2> QED
    BY <2>1, <1>1, <1>3 DEF cmptup
<1>4. CASE a < b
  <2>1. (a - b) % M = (a - b) + M
    BY <1>1, <1>2, <1>4, SMTT(30)
  <2> QED
    BY <2>1, <1>1, <1>4 DEF cmptup
<1> QED
  BY <1>1, <1>3, <1>4

LEMMA IndexOrder ==
    ASSUME NEW a \in Entry, NEW b \in Entry, cmpIndex(a, b) <= 0
    PROVE  /\ a.trgm <= b.trgm
           /\ a.trgm = b.trgm => a.tup <= b.tup
<1>1. a.trgm \in Int /\ b.trgm \in Int /\ a.tup \in Addresses /\ b.tup \in Addresses
  BY TrigramAssumption DEF Entry
<1>2. CASE a.trgm # b.trgm
  BY <1>1, <1>2, TrigramOrder DEF cmpIndex, CMPTRGM
<1>3. CASE a.trgm = b.trgm
  BY <1>1, <1>3, TupleOrder DEF cmpIndex
<1> QED
  BY <1>2, <1>3


----------------------------------------------------------------------------
(* The invariant holds initially.                                          *)

LEMMA InitInv == Init => SearchInv
<1> SUFFICES ASSUME Init PROVE SearchInv
  OBVIOUS
<1>1. <<>> \in Seq(Entry) /\ Len(<<>>) = 0
  OBVIOUS
<1>2. numEntries = 0 /\ Ids = {}
  BY <1>1 DEF Init, numEntries, Ids
<1>3. TypeOK
  <2>1. /\ entries \in Seq(Entry) /\ stored \in Seq(Entry) /\ walked \in Seq(Entry)
        /\ finalized \in BOOLEAN
        /\ key \in Trigrams
        /\ pc = "idle"
    BY <1>1 DEF Init
  <2>2. imin \in 0 .. numEntries /\ imax \in -1 .. numEntries - 1 /\ id \in -1 .. numEntries - 1
    BY <1>2 DEF Init, NULL_ENTRY_ID
  <2> QED
    BY <2>1, <2>2 DEF TypeOK
<1> QED
  BY <1>2, <1>3
     DEF Init, SearchInv, Ordered, ProbesFinalized, Narrowing, Scanning, FirstEntryFound

----------------------------------------------------------------------------
(* The steps that change the index.                                        *)

LEMMA StoreStep ==
    ASSUME SearchInv, NEW e \in Entry, ExecStoreSimIndexEntry(e)
    PROVE  SearchInv'
<1>1. /\ entries' = Append(entries, e)
      /\ stored' = Append(stored, e)
      /\ pc = "idle" /\ ~finalized
      /\ UNCHANGED <<finalized, pc, key, imin, imax, imid, id, walked>>
  BY DEF ExecStoreSimIndexEntry
<1>2. entries' \in Seq(Entry) /\ stored' \in Seq(Entry) /\ numEntries' = numEntries + 1
  BY <1>1 DEF SearchInv, TypeOK, numEntries
<1>3. numEntries \in Nat
  BY EntryFacts DEF SearchInv
<1>4. TypeOK'
  <2>1. TypeOK
    BY DEF SearchInv
  <2>2. imin' \in 0 .. numEntries' /\ imax' \in -1 .. numEntries' - 1 /\ id' \in -1 .. numEntries' - 1
    BY <1>1, <1>2, <1>3, <2>1 DEF TypeOK
  <2> QED
    BY <1>1, <1>2, <2>1, <2>2 DEF TypeOK
<1> QED
  BY <1>1, <1>4
     DEF SearchInv, Ordered, ProbesFinalized, Narrowing, Scanning, FirstEntryFound

\* qsort leaves the entries it is given, in an order cmpIndex accepts.
LEMMA FinalizeSorts ==
    ASSUME TypeOK, ExecFinalizeSimInvertedIndex
    PROVE  /\ entries' \in Seq(Entry)
           /\ numEntries' = numEntries
           /\ \A i, j \in Ids : i < j =>
                 /\ GET_TRGM(i)' <= GET_TRGM(j)'
                 /\ GET_TRGM(i)' = GET_TRGM(j)' => GET_ENTRY(i)'.tup <= GET_ENTRY(j)'.tup
<1>1. PICK p \in Arrangements(numEntries) :
          entries' = [i \in 1 .. numEntries |-> entries[p[i]]]
  BY DEF ExecFinalizeSimInvertedIndex
<1>2. numEntries \in Nat /\ entries \in Seq(Entry) /\ numEntries = Len(entries)
  BY EntryFacts DEF numEntries, TypeOK
<1>3. /\ p \in [1 .. numEntries -> 1 .. numEntries]
      /\ \A i, j \in 1 .. numEntries :
            i < j => cmpIndex(entries[p[i]], entries[p[j]]) <= 0
  BY DEF Arrangements
<1>4. \A i \in 1 .. numEntries : entries[p[i]] \in Entry
  BY <1>2, <1>3
<1>5. entries' \in [1 .. numEntries -> Entry]
  BY <1>1, <1>4
<1>6. entries' \in Seq(Entry) /\ Len(entries') = numEntries
  BY <1>5, <1>2
<1>7. numEntries' = numEntries
  BY <1>6 DEF numEntries
<1>8. ASSUME NEW i \in Ids, NEW j \in Ids, i < j
      PROVE  /\ GET_TRGM(i)' <= GET_TRGM(j)'
             /\ GET_TRGM(i)' = GET_TRGM(j)' => GET_ENTRY(i)'.tup <= GET_ENTRY(j)'.tup
  <2>1. i + 1 \in 1 .. numEntries /\ j + 1 \in 1 .. numEntries /\ i + 1 < j + 1
    BY <1>2, <1>8 DEF Ids
  <2>2. cmpIndex(entries[p[i + 1]], entries[p[j + 1]]) <= 0
    BY <1>3, <2>1
  <2>3. /\ GET_ENTRY(i)' = entries[p[i + 1]]
        /\ GET_ENTRY(j)' = entries[p[j + 1]]
    BY <1>1, <2>1 DEF GET_ENTRY
  <2> QED
    BY <1>4, <2>1, <2>2, <2>3, IndexOrder DEF GET_TRGM
<1> QED
  BY <1>6, <1>7, <1>8

LEMMA FinalizeStep ==
    ASSUME SearchInv, ExecFinalizeSimInvertedIndex
    PROVE  SearchInv'
<1>1. /\ pc = "idle"
      /\ finalized' = TRUE
      /\ UNCHANGED <<pc, key, imin, imax, imid, id, walked, stored>>
  BY DEF ExecFinalizeSimInvertedIndex
<1>2. TypeOK
  BY DEF SearchInv
<1>3. /\ entries' \in Seq(Entry)
      /\ numEntries' = numEntries
      /\ \A i, j \in Ids : i < j => GET_TRGM(i)' <= GET_TRGM(j)'
  BY <1>2, FinalizeSorts
<1>4. Ids' = Ids
  BY <1>3 DEF Ids
<1>5. TypeOK'
  BY <1>1, <1>2, <1>3 DEF TypeOK
<1>6. Ordered'
  BY <1>3, <1>4 DEF Ordered
<1> QED
  BY <1>1, <1>5, <1>6
     DEF SearchInv, ProbesFinalized, Narrowing, Scanning, FirstEntryFound

----------------------------------------------------------------------------
(* The steps that leave the index alone: entries, and with them every      *)
(* operator that reads the array, keep their meaning.                      *)

LEMMA IndexKept ==
    ASSUME entries' = entries
    PROVE  /\ numEntries' = numEntries
           /\ Ids' = Ids
           /\ \A i \in Int : GET_TRGM(i)' = GET_TRGM(i)
BY DEF numEntries, Ids, GET_TRGM, GET_ENTRY

LEMMA FirstProbeStep ==
    ASSUME SearchInv, NEW t \in Trigrams, FirstProbe(t)
    PROVE  SearchInv'
<1>1. /\ finalized /\ pc' = "search" /\ key' = t
      /\ imin' = 0 /\ imax' = numEntries - 1 /\ walked' = <<>>
      /\ UNCHANGED <<entries, finalized, imid, id, stored>>
  BY DEF FirstProbe
<1>2. /\ numEntries' = numEntries /\ Ids' = Ids
      /\ \A i \in Int : GET_TRGM(i)' = GET_TRGM(i)
  BY <1>1, IndexKept
<1>3. TypeOK /\ numEntries \in Nat
  BY EntryFacts DEF SearchInv
<1>4. imax' >= imin' => Mid' \in Ids'
  BY <1>1, <1>2, <1>3, SMTT(20) DEF Mid, Ids
<1>5. TypeOK'
  <2>1. walked' \in Seq(Entry) /\ key' \in Trigrams
    BY <1>1
  <2>2. imin' \in 0 .. numEntries' /\ imax' \in -1 .. numEntries' - 1 /\ id' \in -1 .. numEntries' - 1
    BY <1>1, <1>2, <1>3 DEF TypeOK
  <2> QED
    BY <1>1, <1>2, <1>3, <1>4, <2>1, <2>2 DEF TypeOK
<1>6. Ordered'
  BY <1>1, <1>2 DEF SearchInv, Ordered, Ids
<1>7. Narrowing'
  BY <1>1, <1>2, <1>3 DEF Narrowing, Ids
<1> QED
  BY <1>1, <1>5, <1>6, <1>7
     DEF SearchInv, ProbesFinalized, Scanning, FirstEntryFound

\* The midpoint of a non-empty interval lies in it.
LEMMA MidInside ==
    ASSUME TypeOK, imax >= imin
    PROVE  Mid \in Ids /\ imin <= Mid /\ Mid <= imax
<1>1. imin \in 0 .. numEntries /\ imax \in -1 .. numEntries - 1 /\ numEntries \in Nat
  BY EntryFacts DEF TypeOK
<1> QED
  BY <1>1, SMTT(20) DEF Mid, Ids

LEMMA SearchUpperStep ==
    ASSUME SearchInv, SearchUpper
    PROVE  SearchInv'
<1>1. /\ pc = "search" /\ imax >= imin
      /\ CMPTRGM(GET_TRGM(Mid), key) < 0
      /\ imin' = Mid + 1
      /\ UNCHANGED <<entries, finalized, pc, key, imax, imid, id, walked, stored>>
  BY DEF SearchUpper, Above
<1>2. /\ numEntries' = numEntries /\ Ids' = Ids
      /\ \A i \in Int : GET_TRGM(i)' = GET_TRGM(i)
  BY <1>1, IndexKept
<1>3. TypeOK /\ numEntries \in Nat /\ Mid \in Ids /\ imin <= Mid /\ Mid <= imax
  BY <1>1, EntryFacts, MidInside DEF SearchInv
<1>4. /\ key \in Int /\ \A i \in Ids : GET_TRGM(i) \in Int
      /\ imax \in -1 .. numEntries - 1
  BY <1>3, EntryFacts, TrigramAssumption DEF TypeOK, TrigramAssumption
<1>5. GET_TRGM(Mid) < key
  BY <1>1, <1>3, <1>4, TrigramOrder
<1>6. \A j \in Ids : j < imin' => GET_TRGM(j) < key
  <2>1. \A j \in Ids : j < Mid => GET_TRGM(j) <= GET_TRGM(Mid)
    BY <1>1, <1>3 DEF SearchInv, Ordered, ProbesFinalized
  <2>2. Mid \in Int /\ \A j \in Ids : j \in Int
    BY <1>3 DEF Ids
  <2>3. ASSUME NEW j \in Ids, j < imin' PROVE GET_TRGM(j) < key
    <3>1. j < Mid \/ j = Mid
      BY <1>1, <2>2, <2>3
    <3> QED
      BY <1>3, <1>4, <1>5, <2>1, <3>1
  <2> QED
    BY <2>3
<1>7. imax' >= imin' => Mid' \in Ids'
  BY <1>1, <1>2, <1>3, <1>4, SMTT(20) DEF Mid, Ids
<1>8. imin' \in 0 .. numEntries'
  BY <1>1, <1>2, <1>3 DEF Ids
<1>9. TypeOK'
  BY <1>1, <1>2, <1>3, <1>7, <1>8 DEF TypeOK
<1>10. Ordered'
  BY <1>1, <1>2 DEF SearchInv, Ordered, Ids
<1>11. Narrowing'
  BY <1>1, <1>2, <1>6 DEF SearchInv, Narrowing, Ids
<1> QED
  BY <1>1, <1>9, <1>10, <1>11
     DEF SearchInv, ProbesFinalized, Scanning, FirstEntryFound

LEMMA SearchLowerStep ==
    ASSUME SearchInv, SearchLower
    PROVE  SearchInv'
<1>1. /\ pc = "search" /\ imax >= imin
      /\ CMPTRGM(GET_TRGM(Mid), key) > 0
      /\ imax' = Mid - 1
      /\ UNCHANGED <<entries, finalized, pc, key, imin, imid, id, walked, stored>>
  BY DEF SearchLower, Below
<1>2. /\ numEntries' = numEntries /\ Ids' = Ids
      /\ \A i \in Int : GET_TRGM(i)' = GET_TRGM(i)
  BY <1>1, IndexKept
<1>3. TypeOK /\ numEntries \in Nat /\ Mid \in Ids /\ imin <= Mid /\ Mid <= imax
  BY <1>1, EntryFacts, MidInside DEF SearchInv
<1>4. /\ key \in Int /\ \A i \in Ids : GET_TRGM(i) \in Int
      /\ imin \in 0 .. numEntries
  BY <1>3, EntryFacts, TrigramAssumption DEF TypeOK, TrigramAssumption
<1>5. GET_TRGM(Mid) > key
  BY <1>1, <1>3, <1>4, TrigramOrder
<1>6. \A j \in Ids : j > imax' => GET_TRGM(j) > key
  <2>1. \A j \in Ids : Mid < j => GET_TRGM(Mid) <= GET_TRGM(j)
    BY <1>1, <1>3 DEF SearchInv, Ordered, ProbesFinalized
  <2>2. Mid \in Int /\ \A j \in Ids : j \in Int
    BY <1>3 DEF Ids
  <2>3. ASSUME NEW j \in Ids, j > imax' PROVE GET_TRGM(j) > key
    <3>1. Mid < j \/ j = Mid
      BY <1>1, <2>2, <2>3
    <3> QED
      BY <1>3, <1>4, <1>5, <2>1, <3>1
  <2> QED
    BY <2>3
<1>7. imax' >= imin' => Mid' \in Ids'
  BY <1>1, <1>2, <1>3, <1>4, SMTT(20) DEF Mid, Ids
<1>8. imax' \in -1 .. numEntries' - 1
  BY <1>1, <1>2, <1>3 DEF Ids
<1>9. TypeOK'
  BY <1>1, <1>2, <1>3, <1>7, <1>8 DEF TypeOK
<1>10. Ordered'
  BY <1>1, <1>2 DEF SearchInv, Ordered, Ids
<1>11. Narrowing'
  BY <1>1, <1>2, <1>6 DEF SearchInv, Narrowing, Ids
<1> QED
  BY <1>1, <1>9, <1>10, <1>11
     DEF SearchInv, ProbesFinalized, Scanning, FirstEntryFound

LEMMA HitStep ==
    ASSUME SearchInv, Hit
    PROVE  SearchInv'
<1>1. /\ pc = "search" /\ imax >= imin
      /\ CMPTRGM(GET_TRGM(Mid), key) = 0
      /\ imid' = Mid /\ pc' = "scan"
      /\ UNCHANGED <<entries, finalized, key, imin, imax, id, walked, stored>>
  BY DEF Hit
<1>2. /\ numEntries' = numEntries /\ Ids' = Ids
      /\ \A i \in Int : GET_TRGM(i)' = GET_TRGM(i)
  BY <1>1, IndexKept
<1>3. TypeOK /\ numEntries \in Nat /\ Mid \in Ids
  BY <1>1, EntryFacts, MidInside DEF SearchInv
<1>4. key \in Int /\ GET_TRGM(Mid) \in Int
  BY <1>3, EntryFacts, TrigramAssumption DEF TypeOK, TrigramAssumption
<1>5. GET_TRGM(Mid) = key
  BY <1>1, <1>4, TrigramOrder
<1>6. Scanning'
  BY <1>1, <1>2, <1>3, <1>5 DEF Scanning, Ids
<1>7. imid' \in -1 .. numEntries' - 1
  BY <1>1, <1>2, <1>3 DEF Ids
<1>8. TypeOK'
  BY <1>1, <1>2, <1>3, <1>7 DEF TypeOK
<1>9. Ordered'
  BY <1>1, <1>2 DEF SearchInv, Ordered, Ids
<1> QED
  BY <1>1, <1>6, <1>8, <1>9
     DEF SearchInv, ProbesFinalized, Narrowing, FirstEntryFound

\* An empty interval: no entry holds the key.
LEMMA KeyNotFoundStep ==
    ASSUME SearchInv, KeyNotFound
    PROVE  SearchInv'
<1>1. /\ pc = "search" /\ imax < imin
      /\ id' = NULL_ENTRY_ID /\ pc' = "found"
      /\ UNCHANGED <<entries, finalized, key, imin, imax, imid, walked, stored>>
  BY DEF KeyNotFound
<1>2. /\ numEntries' = numEntries /\ Ids' = Ids
      /\ \A i \in Int : GET_TRGM(i)' = GET_TRGM(i)
  BY <1>1, IndexKept
<1>3. /\ TypeOK /\ numEntries \in Nat
      /\ key \in Int /\ \A i \in Ids : GET_TRGM(i) \in Int
      /\ imin \in Int /\ imax \in Int /\ \A i \in Ids : i \in Int
  BY EntryFacts, TrigramAssumption DEF SearchInv, TypeOK, TrigramAssumption, Ids
<1>4. \A j \in Ids : GET_TRGM(j) # key
  <2>1. \A j \in Ids : j < imin \/ j > imax
    BY <1>1, <1>3
  <2> QED
    BY <1>1, <1>3, <2>1 DEF SearchInv, Narrowing
<1>5. FirstEntryFound'
  BY <1>1, <1>2, <1>3, <1>4 DEF FirstEntryFound, IsFirstEntryFor, NULL_ENTRY_ID
<1>6. TypeOK'
  BY <1>1, <1>2, <1>3 DEF TypeOK, NULL_ENTRY_ID
<1>7. Ordered'
  BY <1>1, <1>2 DEF SearchInv, Ordered, Ids
<1> QED
  BY <1>1, <1>5, <1>6, <1>7
     DEF SearchInv, ProbesFinalized, Narrowing, Scanning

LEMMA ScanBackStep ==
    ASSUME SearchInv, ScanBack
    PROVE  SearchInv'
<1>1. /\ pc = "scan" /\ imid >= 0
      /\ CMPTRGM(key, GET_TRGM(imid)) = 0
      /\ imid' = imid - 1
      /\ UNCHANGED <<entries, finalized, pc, key, imin, imax, id, walked, stored>>
  BY DEF ScanBack
<1>2. /\ numEntries' = numEntries /\ Ids' = Ids
      /\ \A i \in Int : GET_TRGM(i)' = GET_TRGM(i)
  BY <1>1, IndexKept
<1>3. /\ TypeOK /\ numEntries \in Nat
      /\ key \in Int /\ \A i \in Ids : GET_TRGM(i) \in Int
      /\ imid \in Ids
  BY <1>1, EntryFacts, TrigramAssumption DEF SearchInv, TypeOK, TrigramAssumption, Ids
<1>4. GET_TRGM(imid) = key
  BY <1>1, <1>3, TrigramOrder
<1>5. imid' + 1 = imid /\ imid' \in -1 .. numEntries - 1
  BY <1>1, <1>3 DEF Ids
<1>6. Scanning'
  BY <1>1, <1>2, <1>3, <1>4, <1>5 DEF Scanning, Ids
<1>7. TypeOK'
  BY <1>1, <1>2, <1>3, <1>5 DEF TypeOK
<1>8. Ordered'
  BY <1>1, <1>2 DEF SearchInv, Ordered, Ids
<1> QED
  BY <1>1, <1>6, <1>7, <1>8
     DEF SearchInv, ProbesFinalized, Narrowing, FirstEntryFound

\* Where the scan ends the list begins: the entries before hold smaller trigrams.
LEMMA ScanEndsStep ==
    ASSUME SearchInv, ScanEnds
    PROVE  SearchInv'
<1>1. /\ pc = "scan" /\ pc' = "found"
      /\ IF imid >= 0
         THEN CMPTRGM(key, GET_TRGM(imid)) # 0 /\ id' = imid + 1
         ELSE id' = 0
      /\ UNCHANGED <<entries, finalized, key, imin, imax, imid, walked, stored>>
  BY DEF ScanEnds, ListStart
<1>2. /\ numEntries' = numEntries /\ Ids' = Ids
      /\ \A i \in Int : GET_TRGM(i)' = GET_TRGM(i)
  BY <1>1, IndexKept
<1>3. /\ TypeOK /\ numEntries \in Nat
      /\ key \in Int /\ \A i \in Ids : GET_TRGM(i) \in Int
      /\ imid \in -1 .. numEntries - 1
      /\ \A i \in Ids : i \in Int
  BY <1>1, EntryFacts, TrigramAssumption DEF SearchInv, TypeOK, TrigramAssumption, Ids
<1>4. /\ id' = imid + 1
      /\ imid \in Ids => GET_TRGM(imid) # key
  <2>1. CASE imid >= 0
    <3>1. imid \in Ids
      BY <1>3, <2>1 DEF Ids
    <3> QED
      BY <1>1, <1>3, <2>1, <3>1, TrigramOrder
  <2>2. CASE ~(imid >= 0)
    BY <1>1, <1>3, <2>2 DEF Ids
  <2> QED
    BY <2>1, <2>2
<1>5. id' \in Ids /\ GET_TRGM(id') = key
  BY <1>1, <1>4 DEF SearchInv, Scanning
<1>6. ASSUME NEW j \in Ids, GET_TRGM(j) = key PROVE id' <= j
  <2>1. SUFFICES ASSUME j < id' PROVE FALSE
    BY <1>3, <1>5, <1>6
  <2>2. imid \in Ids /\ j <= imid
    BY <1>3, <1>4, <2>1 DEF Ids
  <2>3. GET_TRGM(imid) <= key /\ GET_TRGM(imid) # key
    BY <1>1, <1>3, <1>4, <1>5, <2>2 DEF SearchInv, Ordered, ProbesFinalized
  <2>4. j < imid
    BY <1>3, <1>6, <2>2, <2>3
  <2>5. GET_TRGM(j) <= GET_TRGM(imid)
    BY <1>1, <2>2, <2>4 DEF SearchInv, Ordered, ProbesFinalized
  <2> QED
    BY <1>3, <1>6, <2>2, <2>3, <2>5
<1>7. FirstEntryFound'
  <2>1. /\ id' \in Ids' /\ entries'[id' + 1].trgm = key'
        /\ \A j \in Ids' : entries'[j + 1].trgm = key' => id' <= j
    BY <1>1, <1>2, <1>5, <1>6 DEF GET_TRGM, GET_ENTRY
  <2> QED
    BY <2>1 DEF FirstEntryFound, IsFirstEntryFor, GET_TRGM, GET_ENTRY
<1>8. TypeOK'
  <2>1. id' \in -1 .. numEntries' - 1
    BY <1>2, <1>3, <1>5 DEF Ids
  <2> QED
    BY <1>1, <1>2, <1>3, <2>1 DEF TypeOK
<1>9. Ordered'
  BY <1>1, <1>2 DEF SearchInv, Ordered, Ids
<1> QED
  BY <1>1, <1>7, <1>8, <1>9
     DEF SearchInv, ProbesFinalized, Narrowing, Scanning

LEMMA NextEntryStep ==
    ASSUME SearchInv, ExecGetNextEntryId
    PROVE  SearchInv'
<1>1. /\ pc = "found" /\ id # NULL_ENTRY_ID
      /\ walked' = Append(walked, GET_ENTRY(id))
      /\ id' = NextId(id)
      /\ UNCHANGED <<entries, finalized, pc, key, imin, imax, imid, stored>>
  BY DEF ExecGetNextEntryId
<1>2. /\ numEntries' = numEntries /\ Ids' = Ids
      /\ \A i \in Int : GET_TRGM(i)' = GET_TRGM(i)
  BY <1>1, IndexKept
<1>3. TypeOK /\ numEntries \in Nat /\ id \in Ids
  BY <1>1, EntryFacts DEF SearchInv, TypeOK, NULL_ENTRY_ID, Ids
<1>4. GET_ENTRY(id) \in Entry /\ walked \in Seq(Entry)
  BY <1>3, EntryFacts DEF TypeOK
<1>5. walked' \in Seq(Entry) /\ Len(walked') = Len(walked) + 1
  BY <1>1, <1>4
<1>6. walked' # <<>>
  BY <1>4, <1>5
<1>7. id' \in -1 .. numEntries' - 1
  BY <1>1, <1>2, <1>3 DEF NextId, NULL_ENTRY_ID, Ids
<1>8. TypeOK'
  BY <1>1, <1>2, <1>3, <1>5, <1>7 DEF TypeOK
<1>9. Ordered'
  BY <1>1, <1>2 DEF SearchInv, Ordered, Ids
<1> QED
  BY <1>1, <1>6, <1>8, <1>9
     DEF SearchInv, ProbesFinalized, Narrowing, Scanning, FirstEntryFound

\* The caller comes back, or is thrown out with an error: nothing is probed.
LEMMA CallerStep ==
    ASSUME SearchInv,
           ListDone \/ \E t \in Trigrams : ProbeTooEarly(t)
    PROVE  SearchInv'
<1>1. /\ pc' \in {"idle", "error"} /\ key' \in Trigrams /\ walked' \in Seq(Entry)
      /\ UNCHANGED <<entries, finalized, imin, imax, imid, id, stored>>
  <2>1. CASE ListDone
    BY <2>1 DEF ListDone, SearchInv, TypeOK
  <2>2. CASE \E t \in Trigrams : ProbeTooEarly(t)
    BY <2>2 DEF ProbeTooEarly, SearchInv, TypeOK
  <2> QED
    BY <2>1, <2>2
<1>2. /\ numEntries' = numEntries /\ Ids' = Ids
      /\ \A i \in Int : GET_TRGM(i)' = GET_TRGM(i)
  BY <1>1, IndexKept
<1>3. TypeOK'
  BY <1>1, <1>2 DEF SearchInv, TypeOK
<1>4. Ordered'
  BY <1>1, <1>2 DEF SearchInv, Ordered, Ids
<1> QED
  BY <1>1, <1>3, <1>4
     DEF SearchInv, ProbesFinalized, Narrowing, Scanning, FirstEntryFound

LEMMA Stutter == ASSUME SearchInv, UNCHANGED vars PROVE SearchInv'
<1>1. UNCHANGED <<entries, finalized, pc, key, imin, imax, imid, id, walked, stored>>
  BY DEF vars
<1>2. /\ numEntries' = numEntries /\ Ids' = Ids
      /\ \A i \in Int : GET_TRGM(i)' = GET_TRGM(i)
  BY <1>1, IndexKept
<1>3. TypeOK /\ TypeOK'
  BY <1>1, <1>2 DEF SearchInv, TypeOK, Mid, Ids
<1>4. Ordered' /\ Narrowing'
  BY <1>1, <1>2 DEF SearchInv, Ordered, Narrowing, Ids
<1>5. id \in Int /\ (pc = "scan" => imid \in Int)
  BY <1>3, EntryFacts DEF TypeOK
<1>6. Scanning'
  BY <1>1, <1>2, <1>5 DEF SearchInv, Scanning
<1>7. FirstEntryFound'
  BY <1>1, <1>2, <1>5 DEF SearchInv, FirstEntryFound, IsFirstEntryFor, Ids
<1> QED
  BY <1>1, <1>3, <1>4, <1>6, <1>7 DEF SearchInv, ProbesFinalized

----------------------------------------------------------------------------

LEMMA StepInv == ASSUME SearchInv, [Next]_vars PROVE SearchInv'
<1>1. CASE \E e \in Entry : ExecStoreSimIndexEntry(e)
  BY <1>1, StoreStep
<1>2. CASE ExecFinalizeSimInvertedIndex
  BY <1>2, FinalizeStep
<1>3. CASE \E t \in Trigrams : FirstProbe(t)
  BY <1>3, FirstProbeStep
<1>4. CASE SearchStep
  BY <1>4, SearchUpperStep, SearchLowerStep, HitStep, KeyNotFoundStep, ScanBackStep,
     ScanEndsStep DEF SearchStep
<1>5. CASE ExecGetNextEntryId
  BY <1>5, NextEntryStep
<1>6. CASE ListDone \/ \E t \in Trigrams : ProbeTooEarly(t)
  BY <1>6, CallerStep
<1>7. CASE UNCHANGED vars
  BY <1>7, Stutter
<1> QED
  BY <1>1, <1>2, <1>3, <1>4, <1>5, <1>6, <1>7 DEF Next

\* The inductive invariant of the search: of every key only the interval, and
\* in the backward scan only what lies before the scan, is left to look at.
THEOREM SearchInvariant == Spec => []SearchInv
<1>1. Init => SearchInv
  BY InitInv
<1>2. SearchInv /\ [Next]_vars => SearchInv'
  BY StepInv
<1> QED
  BY <1>1, <1>2, PTL DEF Spec

\* ExecGetFirstEntryIdForTrigram returns the first entry of the trigram's list,
\* or NULL_ENTRY_ID exactly when there is none, for every size of the index.
THEOREM FirstEntryFoundHolds == Spec => []FirstEntryFound
<1>1. SearchInv => FirstEntryFound
  BY DEF SearchInv
<1> QED
  BY <1>1, SearchInvariant, PTL

\* No step of a probe addresses the array outside the entries stored.
THEOREM TypeOKHolds == Spec => []TypeOK
<1>1. SearchInv => TypeOK
  BY DEF SearchInv
<1> QED
  BY <1>1, SearchInvariant, PTL

----------------------------------------------------------------------------
\* The index only changes before it is finalized, and finalizing sorts it.
LEMMA PostingsStep ==
    ASSUME TypeOK, PostingsSorted, [Next]_vars
    PROVE  PostingsSorted'
<1>1. CASE \E e \in Entry : ExecStoreSimIndexEntry(e)
  BY <1>1 DEF ExecStoreSimIndexEntry, PostingsSorted
<1>2. CASE ExecFinalizeSimInvertedIndex
  <2>1. Ids' = Ids
    BY <1>2, FinalizeSorts DEF Ids
  <2> QED
    BY <1>2, <2>1, FinalizeSorts DEF PostingsSorted
<1>3. CASE UNCHANGED <<entries, finalized>>
  <2>1. /\ Ids' = Ids
        /\ \A i \in Ids : GET_TRGM(i)' = GET_TRGM(i) /\ GET_ENTRY(i)' = GET_ENTRY(i)
    BY <1>3 DEF Ids, numEntries, GET_TRGM, GET_ENTRY
  <2> QED
    BY <1>3, <2>1 DEF PostingsSorted
<1>4. \/ UNCHANGED <<entries, finalized>>
      \/ \E e \in Entry : ExecStoreSimIndexEntry(e)
      \/ ExecFinalizeSimInvertedIndex
  BY DEF Next, vars, SearchStep, SearchUpper, SearchLower, Hit, KeyNotFound, ScanBack,
         ScanEnds, FirstProbe, ProbeTooEarly, ExecGetNextEntryId, ListDone
<1> QED
  BY <1>1, <1>2, <1>3, <1>4

\* A finalized index holds each postings list in one piece, sorted by tuple.
THEOREM PostingsSortedHolds == Spec => []PostingsSorted
<1>1. Init => PostingsSorted
  BY DEF Init, PostingsSorted
<1>2. TypeOK /\ PostingsSorted /\ [Next]_vars => PostingsSorted'
  BY PostingsStep
<1> QED
  BY <1>1, <1>2, TypeOKHolds, PTL DEF Spec

----------------------------------------------------------------------------
(* Walking a list: what ExecGetNextEntryId has gone through.               *)

\* Finalizing keeps every entry as often as it was stored.
EntriesKept ==
    /\ ~finalized => entries = stored
    /\ \A e \in Entry : Count(e, entries) = Count(e, stored)

\* f is where the list of the key begins (anywhere, when the list is empty),
\* and the caller has seen what lies between f and its id; once there is no id,
\* that is all of the list.
WalkedFrom(f) ==
    /\ f + Len(walked) <= numEntries
    /\ \A k \in 1 .. Len(walked) :
          walked[k] = entries[f + k] /\ entries[f + k].trgm = key
    /\ \A j \in Ids : GET_TRGM(j) = key => f <= j
    /\ IF id = NULL_ENTRY_ID
       THEN \A j \in Ids : GET_TRGM(j) = key => j < f + Len(walked)
       ELSE id = f + Len(walked) /\ GET_TRGM(id) = key

WalkInv ==
    /\ EntriesKept
    /\ pc \in {"search", "scan"} => walked = <<>>
    /\ pc = "found" /\ walked # <<>> => \E f \in Nat : WalkedFrom(f)

\* Two sequences that hold e at places that correspond hold it as often.
LEMMA SameCount ==
    ASSUME NEW s \in Seq(Entry), NEW t \in Seq(Entry), NEW e,
           NEW h \in [1 .. Len(s) -> 1 .. Len(t)],
           \A i, j \in 1 .. Len(s) : h[i] = h[j] => i = j,
           \A i \in 1 .. Len(s) : s[i] = t[h[i]],
           \A j \in 1 .. Len(t) : t[j] = e => \E i \in 1 .. Len(s) : h[i] = j
    PROVE  Count(e, s) = Count(e, t)
<1> DEFINE S == {i \in 1 .. Len(s) : s[i] = e}
           T == {j \in 1 .. Len(t) : t[j] = e}
           g == [i \in S |-> h[i]]
<1>1. IsFiniteSet(S)
  <2>1. IsFiniteSet(1 .. Len(s))
    BY FS_Interval
  <2> QED
    BY <2>1, FS_Subset
<1>2. g \in [S -> T]
  OBVIOUS
<1>3. \A i, j \in S : g[i] = g[j] => i = j
  OBVIOUS
<1>4. \A j \in T : \E i \in S : g[i] = j
  <2>1. ASSUME NEW j \in T PROVE \E i \in S : g[i] = j
    <3>1. PICK i \in 1 .. Len(s) : h[i] = j
      OBVIOUS
    <3>2. i \in S
      BY <3>1
    <3> QED
      BY <3>1, <3>2
  <2> QED
    BY <2>1
<1>5. Count(e, s) = Cardinality(S) /\ Count(e, t) = Cardinality(T)
  <2>1. DOMAIN s = 1 .. Len(s) /\ DOMAIN t = 1 .. Len(t)
    OBVIOUS
  <2> QED
    BY <2>1, Zenon DEF Count
<1> HIDE DEF S, T, g
<1>6. g \in Bijection(S, T)
  BY <1>2, <1>3, <1>4, Zenon DEF Bijection, Injection, Surjection, IsInjective
<1>7. ExistsBijection(S, T)
  BY <1>6, Zenon DEF ExistsBijection
<1>8. Cardinality(T) = Cardinality(S)
  BY <1>1, <1>7, FS_Bijection
<1> QED
  BY <1>5, <1>8

LEMMA InitWalk == Init => WalkInv
<1>1. Init => entries = stored /\ ~finalized /\ pc = "idle"
  BY DEF Init
<1> QED
  BY <1>1 DEF WalkInv, EntriesKept

LEMMA StoreWalk ==
    ASSUME SearchInv, WalkInv, NEW e \in Entry, ExecStoreSimIndexEntry(e)
    PROVE  WalkInv'
<1>1. /\ entries' = Append(entries, e) /\ stored' = Append(stored, e)
      /\ pc = "idle" /\ ~finalized /\ UNCHANGED <<finalized, pc>>
  BY DEF ExecStoreSimIndexEntry
<1>2. entries' = stored'
  BY <1>1 DEF WalkInv, EntriesKept
<1>3. EntriesKept'
  BY <1>1, <1>2, Zenon DEF EntriesKept, Count
<1> QED
  BY <1>1, <1>3 DEF WalkInv

\* What qsort returns is a permutation of what it was given.
LEMMA FinalizeWalk ==
    ASSUME SearchInv, WalkInv, ExecFinalizeSimInvertedIndex
    PROVE  WalkInv'
<1> DEFINE n == numEntries
<1>1. PICK p \in Arrangements(n) : entries' = [i \in 1 .. n |-> entries[p[i]]]
  BY DEF ExecFinalizeSimInvertedIndex
<1>2. pc = "idle" /\ pc' = "idle" /\ finalized' /\ stored' = stored
  BY DEF ExecFinalizeSimInvertedIndex
<1>3. n \in Nat /\ entries \in Seq(Entry) /\ n = Len(entries)
  BY EntryFacts DEF SearchInv, TypeOK, numEntries
<1>4. entries' \in Seq(Entry) /\ numEntries' = n
  BY FinalizeSorts DEF SearchInv
<1>5. p \in [1 .. n -> 1 .. n] /\ \A i, j \in 1 .. n : p[i] = p[j] => i = j
  BY DEF Arrangements
<1>6. p \in Surjection(1 .. n, 1 .. n)
  <2>1. p \in Injection(1 .. n, 1 .. n)
    BY <1>5, Zenon DEF Injection, IsInjective
  <2>2. IsFiniteSet(1 .. n)
    BY <1>3, FS_Interval
  <2> QED
    BY <2>1, <2>2, FS_Injection
<1>7. \A j \in 1 .. n : \E i \in 1 .. n : p[i] = j
  BY <1>6, Zenon DEF Surjection
<1>8. Len(entries') = n
  BY <1>4 DEF numEntries
<1>9. ASSUME NEW e \in Entry PROVE Count(e, entries') = Count(e, stored)
  <2>1. Count(e, entries') = Count(e, entries)
    <3>1. PICK s : s = entries'
      OBVIOUS
    <3>2. s \in Seq(Entry) /\ Len(s) = n /\ \A i \in 1 .. n : s[i] = entries[p[i]]
      BY <1>1, <1>4, <1>8, <3>1
    <3>3. /\ p \in [1 .. Len(s) -> 1 .. Len(entries)]
          /\ \A i, j \in 1 .. Len(s) : p[i] = p[j] => i = j
          /\ \A i \in 1 .. Len(s) : s[i] = entries[p[i]]
          /\ \A j \in 1 .. Len(entries) : entries[j] = e => \E i \in 1 .. Len(s) : p[i] = j
      BY <1>3, <1>5, <1>7, <3>2
    <3>4. Count(e, s) = Count(e, entries)
      BY <1>3, <3>2, <3>3, SameCount, Zenon
    <3> QED
      BY <3>1, <3>4
  <2> QED
    BY <2>1 DEF WalkInv, EntriesKept
<1>10. EntriesKept'
  BY <1>2, <1>9, Zenon DEF EntriesKept, Count
<1> QED
  BY <1>2, <1>10 DEF WalkInv

\* The caller starts where the list does.
LEMMA WalkStarts ==
    ASSUME SearchInv, WalkInv, pc = "found"
    PROVE  \E f \in Nat : WalkedFrom(f)
<1>1. CASE walked # <<>>
  BY <1>1 DEF WalkInv
<1>2. CASE walked = <<>>
  <2>1. IsFirstEntryFor(key, id)
    BY <1>2 DEF SearchInv, FirstEntryFound
  <2>2. Len(walked) = 0 /\ numEntries \in Nat
    BY <1>2, EntryFacts DEF SearchInv
  <2>3. CASE id = NULL_ENTRY_ID
    <3>1. \A j \in Ids : GET_TRGM(j) # key
      BY <2>1, <2>3 DEF IsFirstEntryFor, Ids, NULL_ENTRY_ID
    <3>2. WalkedFrom(0)
      BY <2>2, <2>3, <3>1 DEF WalkedFrom
    <3> QED
      BY <3>2
  <2>4. CASE id # NULL_ENTRY_ID
    <3>1. /\ id \in Ids /\ GET_TRGM(id) = key
          /\ \A j \in Ids : GET_TRGM(j) = key => id <= j
      BY <2>1, <2>4 DEF IsFirstEntryFor
    <3>2. id \in Nat
      BY <2>2, <3>1 DEF Ids
    <3>3. WalkedFrom(id)
      BY <2>2, <2>4, <3>1, <3>2 DEF WalkedFrom, Ids
    <3> QED
      BY <3>2, <3>3
  <2> QED
    BY <2>3, <2>4
<1> QED
  BY <1>1, <1>2

\* The steps up to the first entry of the list.
LEMMA ProbeWalk ==
    ASSUME WalkInv, UNCHANGED <<entries, finalized, stored>>,
           \/ pc' \in {"search", "scan", "found"} /\ walked' = <<>>
           \/ pc' \in {"idle", "error"}
    PROVE  WalkInv'
<1>1. EntriesKept'
  BY Zenon DEF WalkInv, EntriesKept, Count
<1> QED
  BY <1>1 DEF WalkInv

\* One entry further; the list ends where the next entry has another trigram.
LEMMA NextEntryWalk ==
    ASSUME SearchInv, WalkInv, ExecGetNextEntryId
    PROVE  WalkInv'
<1>1. /\ pc = "found" /\ id # NULL_ENTRY_ID
      /\ walked' = Append(walked, entries[id + 1])
      /\ id' = NextId(id)
      /\ UNCHANGED <<entries, finalized, pc, key, stored>>
  BY DEF ExecGetNextEntryId, GET_ENTRY
<1>2. PICK f \in Nat : WalkedFrom(f)
  BY <1>1, WalkStarts
<1>3. /\ numEntries' = numEntries /\ Ids' = Ids
      /\ \A i \in Int : GET_TRGM(i)' = GET_TRGM(i)
  BY <1>1, IndexKept
<1>4. /\ numEntries \in Nat /\ walked \in Seq(Entry) /\ Len(walked) \in Nat
      /\ id \in Ids /\ entries[id + 1] \in Entry /\ key \in Int
      /\ \A i \in Ids : GET_TRGM(i) \in Int
  <2>1. TypeOK
    BY DEF SearchInv
  <2>2. id \in Ids
    BY <1>1, <2>1, EntryFacts DEF TypeOK, NULL_ENTRY_ID, Ids
  <2> QED
    BY <2>1, <2>2, EntryFacts, TrigramAssumption DEF TypeOK, GET_ENTRY
<1>5. id = f + Len(walked) /\ GET_TRGM(id) = key
  BY <1>1, <1>2 DEF WalkedFrom
<1>6. /\ Len(walked') = Len(walked) + 1 /\ walked'[Len(walked) + 1] = entries[id + 1]
      /\ \A k \in 1 .. Len(walked) : walked'[k] = walked[k]
  BY <1>1, <1>4
<1>7. f + Len(walked') <= numEntries
  BY <1>4, <1>5, <1>6 DEF Ids
<1>8. ASSUME NEW k \in 1 .. Len(walked')
      PROVE  walked'[k] = entries[f + k] /\ entries[f + k].trgm = key
  <2>1. CASE k = Len(walked) + 1
    <3>1. f + k = id + 1
      BY <1>4, <1>5, <2>1
    <3> QED
      BY <1>5, <1>6, <2>1, <3>1 DEF GET_TRGM, GET_ENTRY
  <2>2. CASE k \in 1 .. Len(walked)
    BY <1>2, <1>6, <2>2 DEF WalkedFrom
  <2> QED
    BY <1>4, <1>6, <2>1, <2>2
<1>9. \A j \in Ids : GET_TRGM(j) = key => f <= j
  BY <1>2 DEF WalkedFrom
<1>10. CASE id + 1 < numEntries /\ CMPTRGM(GET_TRGM(id), GET_TRGM(id + 1)) = 0
  <2>1. id + 1 \in Ids /\ id' = id + 1 /\ id' # NULL_ENTRY_ID
    BY <1>1, <1>4, <1>10 DEF Ids, NextId, NULL_ENTRY_ID
  <2>2. GET_TRGM(id + 1) = key
    BY <1>4, <1>5, <1>10, <2>1, TrigramOrder
  <2>3. id' = f + Len(walked') /\ GET_TRGM(id)' = key
    BY <1>1, <1>3, <1>4, <1>5, <1>6, <2>1, <2>2 DEF Ids, GET_TRGM, GET_ENTRY
  <2>4. WalkedFrom(f)'
    BY <1>1, <1>3, <1>7, <1>8, <1>9, <2>1, <2>3 DEF WalkedFrom, GET_TRGM, GET_ENTRY
  <2> QED
    BY <1>1, <2>4, Zenon DEF WalkInv, EntriesKept, Count
<1>11. CASE ~(id + 1 < numEntries /\ CMPTRGM(GET_TRGM(id), GET_TRGM(id + 1)) = 0)
  <2>1. id' = NULL_ENTRY_ID
    BY <1>1, <1>11, Zenon DEF NextId
  <2>2. ASSUME NEW j \in Ids, GET_TRGM(j) = key PROVE j < f + Len(walked')
    <3>1. SUFFICES ASSUME id < j PROVE FALSE
      BY <1>4, <1>5, <1>6 DEF Ids
    <3>2. id + 1 \in Ids /\ id + 1 < numEntries
      BY <1>4, <3>1 DEF Ids
    <3>3. GET_TRGM(id + 1) # key
      BY <1>4, <1>5, <1>11, <3>2, TrigramOrder
    <3>4. key <= GET_TRGM(id + 1)
      BY <1>1, <1>4, <1>5, <3>2 DEF SearchInv, Ordered, ProbesFinalized, Ids
    <3>5. GET_TRGM(id + 1) <= GET_TRGM(j)
      <4>1. id + 1 = j \/ id + 1 < j
        BY <1>4, <3>1 DEF Ids
      <4>2. id + 1 < j => GET_TRGM(id + 1) <= GET_TRGM(j)
        BY <1>1, <3>2 DEF SearchInv, Ordered, ProbesFinalized
      <4> QED
        BY <1>4, <3>2, <4>1, <4>2
    <3> QED
      BY <1>4, <2>2, <3>2, <3>3, <3>4, <3>5
  <2>3. WalkedFrom(f)'
    BY <1>1, <1>3, <1>7, <1>8, <1>9, <2>1, <2>2 DEF WalkedFrom, GET_TRGM, GET_ENTRY
  <2> QED
    BY <1>1, <2>3, Zenon DEF WalkInv, EntriesKept, Count
<1> QED
  BY <1>10, <1>11

LEMMA StepWalk == ASSUME SearchInv, WalkInv, [Next]_vars PROVE WalkInv'
<1>1. CASE \E e \in Entry : ExecStoreSimIndexEntry(e)
  BY <1>1, StoreWalk
<1>2. CASE ExecFinalizeSimInvertedIndex
  BY <1>2, FinalizeWalk
<1>3. CASE \E t \in Trigrams : ProbeTooEarly(t) \/ FirstProbe(t)
  BY <1>3, ProbeWalk DEF ProbeTooEarly, FirstProbe
<1>4. CASE SearchStep
  <2>1. UNCHANGED <<entries, finalized, stored, walked>>
    BY <1>4 DEF SearchStep, SearchUpper, SearchLower, Hit, KeyNotFound, ScanBack, ScanEnds
  <2>2. pc \in {"search", "scan"} /\ pc' \in {"search", "scan", "found"}
    BY <1>4 DEF SearchStep, SearchUpper, SearchLower, Hit, KeyNotFound, ScanBack, ScanEnds
  <2>3. walked' = <<>>
    BY <2>1, <2>2 DEF WalkInv
  <2> QED
    BY <2>1, <2>2, <2>3, ProbeWalk
<1>5. CASE ExecGetNextEntryId
  BY <1>5, NextEntryWalk
<1>6. CASE ListDone
  BY <1>6, ProbeWalk DEF ListDone
<1>7. CASE UNCHANGED vars
  BY <1>7, Zenon DEF vars, WalkInv, WalkedFrom, EntriesKept, Count, Ids, numEntries,
     GET_TRGM, GET_ENTRY
<1> QED
  BY <1>1, <1>2, <1>3, <1>4, <1>5, <1>6, <1>7 DEF Next

LEMMA WalkIsWhole ==
    ASSUME SearchInv, WalkInv
    PROVE  WholeListWalked
<1> SUFFICES ASSUME pc = "found", id = NULL_ENTRY_ID, NEW e \in Entry
             PROVE  Count(e, walked) = IF e.trgm = key THEN Count(e, stored) ELSE 0
  BY Zenon DEF WholeListWalked
<1>1. PICK f \in Nat : WalkedFrom(f)
  BY WalkStarts
<1>2. /\ walked \in Seq(Entry) /\ entries \in Seq(Entry) /\ numEntries = Len(entries)
      /\ numEntries \in Nat /\ Len(walked) \in Nat
  BY EntryFacts DEF SearchInv, TypeOK, numEntries
<1>3. /\ f + Len(walked) <= numEntries
      /\ \A k \in 1 .. Len(walked) : walked[k] = entries[f + k] /\ entries[f + k].trgm = key
      /\ \A j \in Ids : GET_TRGM(j) = key => f <= j
      /\ \A j \in Ids : GET_TRGM(j) = key => j < f + Len(walked)
  BY <1>1, Zenon DEF WalkedFrom
<1>4. CASE e.trgm = key
  <2> DEFINE h == [k \in 1 .. Len(walked) |-> f + k]
  <2>1. h \in [1 .. Len(walked) -> 1 .. Len(entries)]
    BY <1>2, <1>3
  <2>2. \A i, j \in 1 .. Len(walked) : h[i] = h[j] => i = j
    BY <1>2
  <2>3. \A k \in 1 .. Len(walked) : walked[k] = entries[h[k]]
    BY <1>3
  <2>4. ASSUME NEW j \in 1 .. Len(entries), entries[j] = e
        PROVE  \E i \in 1 .. Len(walked) : h[i] = j
    <3>1. j - 1 \in Ids /\ GET_TRGM(j - 1) = key
      BY <1>2, <1>4, <2>4 DEF Ids, GET_TRGM, GET_ENTRY
    <3>2. f <= j - 1 /\ j - 1 < f + Len(walked)
      BY <1>3, <3>1
    <3>3. j - f \in 1 .. Len(walked) /\ h[j - f] = j
      BY <1>2, <3>2
    <3> QED
      BY <3>3
  <2> HIDE DEF h
  <2>5. Count(e, walked) = Count(e, entries)
    BY <1>2, <2>1, <2>2, <2>3, <2>4, SameCount
  <2> QED
    BY <1>4, <2>5, Zenon DEF WalkInv, EntriesKept
<1>5. CASE e.trgm # key
  <2>1. {k \in DOMAIN walked : walked[k] = e} = {}
    BY <1>2, <1>3, <1>5
  <2>2. Cardinality({}) = 0
    BY FS_EmptySet
  <2> QED
    BY <1>5, <2>1, <2>2, Zenon DEF Count
<1> QED
  BY <1>4, <1>5

\* Following ExecGetNextEntryId from the first entry of a list to NULL_ENTRY_ID
\* meets each entry stored for the trigram as often as it was stored, and no
\* other, for every size of the index and wherever the list lies in it.
THEOREM WholeListWalkedHolds == Spec => []WholeListWalked
<1>1. Init => WalkInv
  BY InitWalk
<1>2. SearchInv /\ WalkInv /\ [Next]_vars => WalkInv'
  BY StepWalk
<1>3. SearchInv /\ WalkInv => WholeListWalked
  BY WalkIsWhole
<1> QED
  BY <1>1, <1>2, <1>3, SearchInvariant, PTL DEF Spec
=============================================================================
