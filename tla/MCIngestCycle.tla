---------------------------- MODULE MCIngestCycle ----------------------------
(* Two feeds that may be published and, in the runs that have room for it,    *)
(* one that may not; up to three advisories. The first has an update in       *)
(* another feed and a version that its own label restricts; the second a      *)
(* document the database refuses.                                             *)
EXTENDS IngestCycle, TLC

CONSTANTS a1, a2, a3, i1, i2, f1, f2, f3

Rev(a, v) == [adv |-> a, version |-> v, len |-> v, status |-> "final", date |-> v]

MCFeeds == {f1, f2, f3}
MCPublicFeeds == {f1, f2}

MCTwo == {a1, a2}
MCThree == {a1, a2, a3}
MCTwoIngesters == {i1, i2}
MCOneIngester == {i1}

MCRestricted == Rev(a1, 3)
MCRefused == Rev(a2, 2)

MCTwoRevisions == {Rev(a1, 1), Rev(a1, 2), MCRestricted, Rev(a2, 1), MCRefused}
MCThreeRevisions == {Rev(a1, 1), Rev(a1, 2), MCRestricted, Rev(a2, 1), Rev(a3, 1)}

MCFeedOf(r) == IF r.adv = a1 /\ r.version # 2 THEN f1 ELSE f2
MCTwoFeedOf == [r \in MCTwoRevisions |-> MCFeedOf(r)]
MCThreeFeedOf == [r \in MCThreeRevisions |-> MCFeedOf(r)]

MCPublic == Revisions \ {MCRestricted}
MCKeyless == {}
MCRejected == Revisions \intersect {MCRefused}

MCSymmetry == Permutations(Ingesters)
==============================================================================
