--------------------------- MODULE RevisionOrder ---------------------------
(***************************************************************************)
(* Advisory revisions as the database compares them: the columns that      *)
(* 000-setup.sql derives from a CSAF document, when one revision is newer  *)
(* than another, and when two count as the same revision.                  *)
(***************************************************************************)
EXTENDS Integers

CONSTANTS
    Advisories,   \* natural keys (tracking_id, publisher), database.AdvisoryKey
    Revisions,    \* CSAF documents the provider can serve, see Revision
    NULL          \* SQL NULL, and "no row"

(***************************************************************************)
(* The columns of a documents row that the database derives from the CSAF  *)
(* JSON and that decide its fate: the revision key (version,               *)
(* rev_history_length, tracking_status) and the release date.  All but     *)
(* version may be NULL, because the JSON need not carry them.              *)
(***************************************************************************)
Revision ==
    [ adv     : Advisories,
      version : Nat,
      len     : Nat \union {NULL},
      status  : {"draft", "interim", "final"} \union {NULL},
      date    : Nat \union {NULL} ]

ASSUME RevisionAssumption ==
    /\ NULL \notin Nat
    /\ NULL \notin Revisions
    /\ Revisions \subseteq Revision

\* SQL comparisons: unknown, hence not true, as soon as an operand is NULL.
SqlGreater(x, y) == x # NULL /\ y # NULL /\ x > y
SqlEqual(x, y)   == x # NULL /\ y # NULL /\ x = y

\* update_advisory's IF: newer by release date, then by revision history length.
Newer(new, old) ==
    \/ SqlGreater(new.date, old.date)
    \/ SqlEqual(new.date, old.date) /\ SqlGreater(new.len, old.len)

\* UNIQUE (advisories_id, version, rev_history_length, tracking_status), where
\* two NULLs are distinct.
SameRevisionKey(r, s) ==
    /\ r.adv = s.adv
    /\ r.version = s.version
    /\ SqlEqual(r.len, s.len)
    /\ SqlEqual(r.status, s.status)
==============================================================================
