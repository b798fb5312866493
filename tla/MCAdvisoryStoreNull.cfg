SPECIFICATION Spec
CONSTANTS
    a1 = a1
    a2 = a2
    w1 = w1
    w2 = w2
    NULL = NULL
    Advisories <- MCAdvisories
    Workers <- MCWorkers
    Revisions <- MCIncomplete
    MaxDocId = 4
INVARIANTS
    StoredOnlyOnce
