SPECIFICATION Spec
CONSTANTS
    a1 = a1
    a2 = a2
    a3 = a3
    i1 = i1
    i2 = i2
    f1 = f1
    f2 = f2
    f3 = f3
    NULL = NULL
    Advisories <- MCTwo
    Revisions <- MCTwoRevisions
    Ingesters <- MCTwoIngesters
    Feeds <- MCFeeds
    PublicFeeds <- MCPublicFeeds
    FeedOf <- MCTwoFeedOf
    Public <- MCPublic
    Keyless <- MCKeyless
    Rejected <- MCRejected
    MinCorpus = 10
    FaultKinds = {"feed", "file", "abort"}
    MaxFaults = 1
    MaxEdits = 1
SYMMETRY MCSymmetry
INVARIANTS
    TypeOK
    OnlyPublicStored
PROPERTIES
    SweepJustified
    PullComplete
