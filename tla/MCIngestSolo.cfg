SPECIFICATION FairSpec
CONSTANTS
    a1 = a1
    a2 = a2
    a3 = a3
    i1 = i1
    i2 = i2
    f1 = f1
    f2 = f2
    f3 = f3
    NULL = NULL
    Advisories <- MCThree
    Revisions <- MCThreeRevisions
    Ingesters <- MCOneIngester
    Feeds <- MCPublicFeeds
    PublicFeeds <- MCPublicFeeds
    FeedOf <- MCThreeFeedOf
    Public <- MCPublic
    Keyless <- MCKeyless
    Rejected <- MCRejected
    MinCorpus = 2
    FaultKinds = {"feed", "file", "abort"}
    MaxFaults = 2
    MaxEdits = 1
PROPERTIES
    SweepBounded
    SweepMirrors
    PublishedGetsServed
    RetiredGetsWithdrawn
