SPECIFICATION FairSpec
CONSTANTS
    Trigrams = {1, 2, 3}
    Addresses = {0, 2, 3}
    Half = 4
    MaxEntries = 4
CHECK_DEADLOCK FALSE
INVARIANTS
  TypeOK
  PostingsSorted
  FirstEntryFound
