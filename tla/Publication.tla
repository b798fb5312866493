----------------------------- MODULE Publication -----------------------------
(***************************************************************************)
(* The publication policy in its two forms: config.IsPublishable, which    *)
(* the ingestion asks in Go, and the set that PublishableTLPSet hands to   *)
(* the SQL of every read.  And the other columns of a revision by which    *)
(* reads select: the severity score and the publisher's name.              *)
(***************************************************************************)
EXTENDS RevisionOrder

CONSTANTS
    LabelOf,          \* LabelOf[r]: the TLP label of the document, see Label
    ScoreOf,          \* ScoreOf[r]: documents.critical in hundredths, or NULL
    PaddedNames,      \* documents whose publisher name has white space around it
    LongNames,        \* documents whose publisher name is longer than maxSegmentBytes
    PublishableTLP    \* Config.PublishableTLP, as parseTLPLabels leaves it

TlpNames == {"UNLABELED", "WHITE", "CLEAR", "GREEN", "AMBER", "RED"}

\* A label up to its case, which both forms of the policy ignore.
Label == [name : TlpNames, padded : BOOLEAN]

ASSUME PublicationAssumption ==
    /\ LabelOf \in [Revisions -> Label \union {NULL}]
    /\ NULL \notin Label
    /\ ScoreOf \in [Revisions -> 0 .. 1000 \union {NULL}]
    /\ PublishableTLP \subseteq TlpNames \ {"CLEAR"}

------------------------------------------------------------------------------
\* TLP 2.0's CLEAR is the WHITE of TLP 1.0.
NormalizeTLP(name) == IF name = "CLEAR" THEN "WHITE" ELSE name

\* The gate of ingestion trims the label and folds it.
IsPublishable(label) == label # NULL /\ NormalizeTLP(label.name) \in PublishableTLP

\* Variant: CLEAR is not added.
CanonicalTLPSet == PublishableTLP
PublishableTLPSet == PublishableTLP \union (IF "WHITE" \in PublishableTLP THEN {"CLEAR"} ELSE {})

\* upper(d.tlp) = ANY(...): does not trim.
Served(r) == LabelOf[r] # NULL /\ ~LabelOf[r].padded /\ LabelOf[r].name \in PublishableTLPSet

------------------------------------------------------------------------------
Bands == {"none", "low", "medium", "high", "critical"}

\* The CASE of facetSeverity.  Variant: the upper bounds are included.
ClosedFacetBand(r) ==
    LET s == ScoreOf[r] IN
    IF s = NULL \/ s = 0 THEN "none"
    ELSE IF s <= 400 THEN "low" ELSE IF s <= 700 THEN "medium"
    ELSE IF s <= 900 THEN "high" ELSE "critical"
FacetBand(r) ==
    LET s == ScoreOf[r] IN
    IF s = NULL \/ s = 0 THEN "none"
    ELSE IF s < 400 THEN "low" ELSE IF s < 700 THEN "medium"
    ELSE IF s < 900 THEN "high" ELSE "critical"

SeverityBands ==
    [ none |-> <<0, 0>>, low |-> <<10, 390>>, medium |-> <<400, 690>>,
      high |-> <<700, 890>>, critical |-> <<900, 1000>> ]

\* severityCondition for one band.
InBand(b, r) ==
    IF b = "none" THEN ScoreOf[r] \in {NULL, 0}
    ELSE ScoreOf[r] # NULL /\ ScoreOf[r] \in SeverityBands[b][1] .. SeverityBands[b][2]

\* A score that no band of the filter contains, such as 3.95.
InGap(r) == \A b \in Bands : ~InBand(b, r)
==============================================================================
