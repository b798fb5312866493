SPECIFICATION FairSpec
CONSTANTS
    a1 = a1
    a2 = a2
    a3 = a3
    NULL = NULL
    Advisories = {a1, a2, a3}
    Revisions <- MCRevisions
    LabelOf <- MCLabelOf
    ScoreOf <- MCScoreOf
    PaddedNames <- MCPaddedNames
    LongNames = {}
    PublishableTLP = {"WHITE", "UNLABELED"}
    Queries <- MCQueries
    Matches <- MCMatches
    Limits = {0, 1}
    MaxLimit = 2
    MaxOffset = 1
    MaxDocuments = 4
    MaxCommits = 2
INVARIANTS
    TypeOK
    WalkComplete
    GatesAgree
    RowResolves
    FacetsMatchList
PROPERTIES
    WalkEnds
CHECK_DEADLOCK FALSE
