--------------------------- MODULE MCAdvisoryStore ---------------------------
(* Two workers, two advisories.  Revisions of the first: an initial one, an   *)
(* update of the same day, a later one, and one without a date.               *)
EXTENDS AdvisoryStore, TLC

CONSTANTS a1, a2, w1, w2

MCAdvisories == {a1, a2}
MCWorkers == {w1, w2}

Rev(a, v, len, date) ==
    [adv |-> a, version |-> v, len |-> len, status |-> "final", date |-> date]

MCRevisions ==
    { Rev(a1, 1, 1, 10), Rev(a1, 2, 2, 10), Rev(a1, 1, 3, 5), Rev(a2, 1, 1, NULL) }

\* A document whose tracking object has no revision_history.
MCIncomplete == { Rev(a1, 1, NULL, 10) }

MCSymmetry == Permutations(MCWorkers)
==============================================================================
