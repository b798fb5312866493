SPECIFICATION FairSpec
CONSTANTS
    Requests <- MCRequests
    r1 = r1
    r2 = r2
INVARIANTS
    TypeOK
    AnsweredUnlessFailed
    CauseReported
    NobodyStuckAtShutdown
PROPERTIES
    StopsAltogether
CHECK_DEADLOCK FALSE
