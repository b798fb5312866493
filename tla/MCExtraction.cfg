SPECIFICATION FairSpec
CONSTANTS
    Workers = {w1, w2, w3}
    Documents <- MCDocuments
    Cves <- MCCves
    CvesOf <- MCCvesOf
    NULL = NULL
    c1 = c1
    c2 = c2
    c3 = c3
    d1 = d1
    d2 = d2
    d3 = d3
INVARIANTS
    TypeOK
    DictionaryCovers
    LinksLostToRaces
    EveryCveLinked
    DeadlockNeedsDisorder
PROPERTIES
    IndexesAtomically
    EveryStoreEnds
CHECK_DEADLOCK FALSE
