----------------------------- MODULE AdvisoryLog -----------------------------
(***************************************************************************)
(* What the advisory store of securityportal-api promises its callers: for *)
(* every advisory the set of revisions that were ever accepted, the        *)
(* revision that currently leads, and whether the advisory is withdrawn.   *)
(* Storing a revision and withdrawing absent advisories are atomic here;   *)
(* AdvisoryStore shows that the transactions of pkg/database implement     *)
(* this, and IngestCycle builds on it.                                     *)
(***************************************************************************)
EXTENDS RevisionOrder

VARIABLES
    stored,       \* stored[a]: the revisions kept for advisory a
    head,         \* head[a]: the revision served as current, NULL before the first
    withdrawn     \* the tombstoned advisories

logVars == <<stored, head, withdrawn>>

Known == {a \in Advisories : head[a] # NULL}

LogTypeOK ==
    /\ stored \in [Advisories -> SUBSET Revisions]
    /\ head \in [Advisories -> Revisions \union {NULL}]
    /\ withdrawn \subseteq Advisories

LogInit ==
    /\ stored = [a \in Advisories |-> {}]
    /\ head = [a \in Advisories |-> NULL]
    /\ withdrawn = {}

\* A revision of a that is not there yet is kept and leads when it is newer.
Accept(r) ==
    /\ stored' = [stored EXCEPT ![r.adv] = @ \union {r}]
    /\ head' = [head EXCEPT ![r.adv] = IF @ = NULL \/ Newer(r, @) THEN r ELSE @]

\* A revision whose key is taken is dropped.
Duplicate(r) ==
    /\ \E s \in stored[r.adv] : SameRevisionKey(r, s)
    /\ UNCHANGED <<stored, head>>

Keep(r) == Duplicate(r) \/ (Accept(r) /\ \A s \in stored[r.adv] : ~SameRevisionKey(r, s))

\* Either way the advisory is published (again).  Variant: the tombstone stays.
StoreUnderTombstone(r) == Keep(r) /\ UNCHANGED withdrawn
Store(r) == Keep(r) /\ withdrawn' = withdrawn \ {r.adv}

\* The deletion sweep: nothing is removed, stored advisories are flagged.
Withdraw(gone) ==
    /\ gone \subseteq Known
    /\ withdrawn' = withdrawn \union gone
    /\ UNCHANGED <<stored, head>>

LogNext ==
    \/ \E r \in Revisions : Store(r)
    \/ \E gone \in SUBSET Advisories : Withdraw(gone)

LogSpec == LogInit /\ [][LogNext]_logVars
==============================================================================
