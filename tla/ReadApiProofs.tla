---------------------------- MODULE ReadApiProofs ----------------------------
(***************************************************************************)
(* Proofs about ReadApi for every set of advisories, revisions, labels and *)
(* scores, every limit and any number of commits.                          *)
(***************************************************************************)
EXTENDS ReadApi, FiniteSetTheorems, TLAPS

\* The current revision of an advisory is the row that its id names.
HeadRows ==
    \A a \in Advisories :
        head[a] # NULL =>
            /\ head[a].adv = a
            /\ headId[a] \in DOMAIN documents
            /\ documents[headId[a]] = head[a]

\* The row that a client keeps: it is still there, and only newer revisions took the lead.
RowKept ==
    row # NULL =>
        /\ row.id \in DOMAIN documents
        /\ documents[row.id] = row.rev
        /\ Served(row.rev)
        /\ head[row.rev.adv] # NULL
        /\ head[row.rev.adv] = row.rev \/ Newer(head[row.rev.adv], row.rev)

\* A row that stays in the list and was not moved is behind the offset until it is seen,
\* before it from then on, and before the end when the count announced no further page.
WalkTracked ==
    /\ InWalk => always \subseteq List
    /\ InWalk => \A a \in always \ risen : a \in seen \/ walk.offset <= Rank(a)
    /\ InWalk => \A a \in (always \intersect seen) \ sunk : Rank(a) < walk.offset
    /\ walk.step = "counted" /\ ~walk.next =>
          \A a \in always \ pushed : Rank(a) < walk.offset + walk.limit
    /\ repeated \intersect always \subseteq sunk
    /\ walk.step = "done" => always \ (risen \union pushed) \subseteq seen

\* A count still holds for the advisories that no commit has changed since.
FacetsTracked ==
    /\ facets.step \in {"tlp", "shown"} =>
          \A a \in Advisories \ touched["tlp"], n \in TlpNames :
              a \in facets.tlp[n] <=> Visible(a) /\ LabelOf[head[a]].name = n
    /\ facets.step = "shown" =>
          /\ touched["severity"] \subseteq touched["tlp"]
          /\ \A a \in Advisories \ touched["severity"], b \in Bands :
                a \in facets.severity[b] <=> Visible(a) /\ FacetBand(head[a]) = b

IInv == TypeOK /\ HeadRows /\ RowKept /\ WalkTracked /\ FacetsTracked

------------------------------------------------------------------------------
(* The order of revisions                                                  *)

LEMMA NewerTransitive ==
    ASSUME NEW r \in Revisions, NEW s \in Revisions, NEW t \in Revisions,
           Newer(r, s), Newer(s, t)
    PROVE  Newer(r, t)
<1>1. /\ r.date \in Nat \union {NULL} /\ r.len \in Nat \union {NULL}
      /\ s.date \in Nat \union {NULL} /\ s.len \in Nat \union {NULL}
      /\ t.date \in Nat \union {NULL} /\ t.len \in Nat \union {NULL}
  BY RevisionAssumption DEF Revision
<1> QED
  BY <1>1, RevisionAssumption DEF Newer, SqlGreater, SqlEqual

LEMMA AdvOfRevision ==
    ASSUME NEW r \in Revisions
    PROVE  r.adv \in Advisories /\ r # NULL
BY RevisionAssumption DEF Revision

------------------------------------------------------------------------------
(* Ranks                                                                   *)

LEMMA ListFinite ==
    /\ IsFiniteSet(List)
    /\ Cardinality(List) \in Nat
<1>1. List \subseteq Advisories
  BY DEF List
<1> QED
  BY <1>1, FS_Subset, FS_CardinalityType, ReadAssumption

LEMMA RankNat == \A a : Rank(a) \in Nat
<1> TAKE a
<1>1. {b \in List : SortsBefore(b, a)} \subseteq List
  OBVIOUS
<1> QED
  BY <1>1, ListFinite, FS_Subset, FS_CardinalityType DEF Rank

\* No row precedes itself, so its rank is below the number of rows.
LEMMA RankBelowTotal ==
    ASSUME TypeOK, NEW a \in List
    PROVE  Rank(a) < Cardinality(List)
<1>1. head[a] \in Revisions
  BY DEF List, Selected, Visible, TypeOK, LogTypeOK
<1>2. SortKey(a) = NULL \/ SortKey(a) \in Nat
  <2>1. head[a].date \in Nat \union {NULL}
    BY <1>1, RevisionAssumption DEF Revision
  <2>2. ScoreOf[head[a]] \in 0 .. 1000 \union {NULL}
    BY <1>1, PublicationAssumption
  <2>3. ScoreOf[head[a]] = NULL \/ ScoreOf[head[a]] \in Nat
    <3>1. \A n \in 0 .. 1000 : n \in Nat
      OBVIOUS
    <3> QED
      BY <2>2, <3>1
  <2>4. SortKey(a) = head[a].date \/ SortKey(a) = ScoreOf[head[a]]
    BY DEF SortKey
  <2> QED
    BY <2>1, <2>3, <2>4
<1>3. headId[a] \in Nat
  BY DEF TypeOK, List
<1>4. ~SortsBefore(a, a)
  BY <1>2, <1>3 DEF SortsBefore, SqlGreater
<1> DEFINE before == {b \in List : SortsBefore(b, a)}
<1>5. before \in SUBSET List /\ before # List
  BY <1>4
<1> HIDE DEF before
<1>6. Cardinality(before) <= Cardinality(List) /\ Cardinality(before) # Cardinality(List)
  BY <1>5, ListFinite, FS_Subset, Zenon
<1>7. Cardinality(before) \in Nat
  BY RankNat DEF before, Rank
<1> QED
  BY <1>6, <1>7, ListFinite DEF before, Rank

\* The list and the ranks depend on the table and on the parameters of the walk only.
LEMMA RanksStay ==
    ASSUME UNCHANGED <<head, withdrawn, headId>>, walk'.query = walk.query
    PROVE  /\ List' = List
           /\ \A a : Rank(a)' = Rank(a)
<1>1. \A a : SortKey(a)' = SortKey(a)
  BY DEF SortKey
<1>2. \A a, b : SortsBefore(a, b)' <=> SortsBefore(a, b)
  BY <1>1 DEF SortsBefore
<1>3. List' = List
  BY DEF List, Selected, Visible
<1> QED
  BY <1>2, <1>3 DEF Rank

------------------------------------------------------------------------------
(* What a commit does to the table                                         *)

LEMMA StoreTypes ==
    ASSUME TypeOK, NEW r \in Revisions, StoreDocument(r)
    PROVE  LogTypeOK' /\ documents' \in Seq(Revisions) /\ headId' \in [Advisories -> Nat]
<1>1. r.adv \in Advisories
  BY AdvOfRevision
<1>2. Keep(r) /\ withdrawn' = withdrawn \ {r.adv}
  BY DEF StoreDocument, Store
<1>3. LogTypeOK /\ documents \in Seq(Revisions) /\ headId \in [Advisories -> Nat]
  BY DEF TypeOK
<1>4. LogTypeOK'
  BY <1>1, <1>2, <1>3 DEF LogTypeOK, Keep, Duplicate, Accept
<1>5. documents' \in Seq(Revisions) /\ headId' \in [Advisories -> Nat]
  <2>1. CASE UNCHANGED <<documents, headId>>
    BY <2>1, <1>3
  <2>2. CASE \E n \in Nat :
               /\ documents' = Append(documents, r)
               /\ headId' = [headId EXCEPT ![r.adv] = n]
    BY <2>2, <1>1, <1>3
  <2>3. Len(documents) + 1 \in Nat /\ headId[r.adv] \in Nat
    BY <1>1, <1>3
  <2>4. \/ UNCHANGED <<documents, headId>>
        \/ /\ documents' = Append(documents, r)
           /\ headId' = [headId EXCEPT ![r.adv] =
                 IF head[r.adv] = NULL \/ Newer(r, head[r.adv]) THEN Len(documents) + 1 ELSE @]
    BY DEF StoreDocument
  <2> QED
    BY <2>1, <2>2, <2>3, <2>4
<1> QED
  BY <1>4, <1>5

\* Rows are only added, a head only gives way to a newer one, and its id follows it.
LEMMA StoreTable ==
    ASSUME TypeOK, HeadRows, NEW r \in Revisions, StoreDocument(r)
    PROVE  /\ \A i \in DOMAIN documents : i \in DOMAIN documents' /\ documents'[i] = documents[i]
           /\ \A a \in Advisories :
                 head[a] # NULL =>
                     head'[a] # NULL /\ (head'[a] = head[a] \/ Newer(head'[a], head[a]))
           /\ HeadRows'
<1>1. r.adv \in Advisories /\ r # NULL
  BY AdvOfRevision
<1>2. head \in [Advisories -> Revisions \union {NULL}] /\ documents \in Seq(Revisions)
      /\ headId \in [Advisories -> Nat]
  BY DEF TypeOK, LogTypeOK
<1>3. CASE \E s \in stored[r.adv] : SameRevisionKey(r, s)
  <2>1. UNCHANGED <<head, documents, headId>>
    BY <1>3 DEF StoreDocument, Store, Keep, Duplicate
  <2> QED
    BY <2>1 DEF HeadRows
<1>4. CASE ~ \E s \in stored[r.adv] : SameRevisionKey(r, s)
  <2>1. /\ head' = [head EXCEPT ![r.adv] = IF @ = NULL \/ Newer(r, @) THEN r ELSE @]
        /\ documents' = Append(documents, r)
        /\ headId' = [headId EXCEPT ![r.adv] =
               IF head[r.adv] = NULL \/ Newer(r, head[r.adv]) THEN Len(documents) + 1 ELSE @]
    BY <1>4 DEF StoreDocument, Store, Keep, Duplicate, Accept
  <2>2. /\ DOMAIN documents = 1 .. Len(documents)
        /\ DOMAIN documents' = 1 .. Len(documents) + 1
        /\ Len(documents) \in Nat
        /\ documents'[Len(documents) + 1] = r
        /\ \A i \in 1 .. Len(documents) : documents'[i] = documents[i]
    BY <1>2, <2>1
  <2>3. \A i \in DOMAIN documents : i \in DOMAIN documents' /\ documents'[i] = documents[i]
    BY <2>2
  <2>4. \A a \in Advisories :
           \/ head'[a] = head[a] /\ headId'[a] = headId[a]
           \/ a = r.adv /\ head'[a] = r /\ headId'[a] = Len(documents) + 1
              /\ (head[a] = NULL \/ Newer(r, head[a]))
    BY <1>1, <1>2, <2>1
  <2>5. HeadRows'
    <3> SUFFICES ASSUME NEW a \in Advisories, head'[a] # NULL
                 PROVE  /\ head'[a].adv = a
                        /\ headId'[a] \in DOMAIN documents'
                        /\ documents'[headId'[a]] = head'[a]
      BY DEF HeadRows
    <3>1. CASE head'[a] = head[a] /\ headId'[a] = headId[a]
      BY <3>1, <2>3 DEF HeadRows
    <3>2. CASE a = r.adv /\ head'[a] = r /\ headId'[a] = Len(documents) + 1
      <4>1. Len(documents) + 1 \in DOMAIN documents'
        BY <2>2
      <4> QED
        BY <3>2, <4>1, <2>2
    <3> QED
      BY <3>1, <3>2, <2>4
  <2> QED
    BY <2>3, <2>4, <2>5, <1>1
<1> QED
  BY <1>3, <1>4

LEMMA TombstoneTable ==
    ASSUME TypeOK, NEW gone \in SUBSET Advisories, TombstoneAbsent(gone)
    PROVE  LogTypeOK' /\ UNCHANGED <<stored, head, documents, headId>>
BY DEF TombstoneAbsent, Withdraw, Known, TypeOK, LogTypeOK

\* What a commit leaves alone, and what it records of the moves it causes.
LEMMA ObserveFacts ==
    ASSUME TypeOK, Observe
    PROVE  /\ UNCHANGED <<walk, seen, row, facets, repeated>>
           /\ always' \subseteq always
           /\ InWalk => always' \subseteq List'
           /\ risen \subseteq risen' /\ sunk \subseteq sunk' /\ pushed \subseteq pushed'
           /\ InWalk => \A a \in always' \ risen' : Rank(a)' >= Rank(a)
           /\ InWalk => \A a \in always' \ sunk' : Rank(a)' <= Rank(a)
           /\ InWalk => \A a \in always' \ pushed' : Rank(a)' <= Rank(a)
           /\ ~InWalk => UNCHANGED <<always, risen, sunk, pushed>>
<1>1. \A a : Rank(a) \in Nat
  BY RankNat
<1>2. (\A a : Rank(a) \in Nat)'
  BY RankNat, PTL
<1> QED
  BY <1>1, <1>2 DEF Observe

------------------------------------------------------------------------------
(* Types                                                                   *)

\* The steps of the clients.
Client ==
    \/ \E n \in Limits, q \in Queries : StartWalk(n, q)
    \/ CountRows \/ (\E follows \in BOOLEAN : PageRows(follows))
    \/ RefuseOffset \/ EndWalk
    \/ (\E a \in Advisories : PickRow(a)) \/ DropRow
    \/ CountTlp \/ CountSeverity \/ CloseFacets

Commit ==
    \/ \E r \in Revisions : StoreDocument(r)
    \/ \E gone \in SUBSET Advisories : TombstoneAbsent(gone)

LEMMA StepKinds == [Next]_vars => Commit \/ Client \/ UNCHANGED vars
BY DEF Next, Commit, Client

LEMMA ClientTable == Client => UNCHANGED <<stored, head, withdrawn, documents, headId>>
BY DEF Client, StartWalk, CountRows, PageRows, RefuseOffset, EndWalk, PickRow, DropRow,
       CountTlp, CountSeverity, CloseFacets, table, logVars

LEMMA CommitObserves == Commit => Observe
BY DEF Commit, StoreDocument, TombstoneAbsent

WalkTypes ==
    /\ walk \in Walk
    /\ seen \subseteq Advisories
    /\ always \subseteq Advisories /\ repeated \subseteq Advisories
    /\ risen \subseteq Advisories /\ sunk \subseteq Advisories /\ pushed \subseteq Advisories

FacetTypes ==
    /\ facets \in [ step : {"none", "tlp", "shown"},
                    tlp : [TlpNames -> SUBSET Advisories],
                    severity : [Bands -> SUBSET Advisories] ]
    /\ touched \in [{"tlp", "severity"} -> SUBSET Advisories]

LEMMA TypeParts ==
    TypeOK <=> /\ LogTypeOK
               /\ documents \in Seq(Revisions)
               /\ headId \in [Advisories -> Nat]
               /\ WalkTypes
               /\ row = NULL \/ row \in Row
               /\ FacetTypes
               /\ commits \in 0 .. MaxCommits
BY Zenon DEF TypeOK, WalkTypes, FacetTypes

LEMMA CommitTypes ==
    ASSUME TypeOK, Commit
    PROVE  TypeOK'
<1>1. LogTypeOK' /\ documents' \in Seq(Revisions) /\ headId' \in [Advisories -> Nat]
  <2>1. CASE \E r \in Revisions : StoreDocument(r)
    BY <2>1, StoreTypes
  <2>2. CASE \E gone \in SUBSET Advisories : TombstoneAbsent(gone)
    BY <2>2, TombstoneTable DEF TypeOK
  <2> QED
    BY <2>1, <2>2 DEF Commit
<1>2. Observe
  BY CommitObserves
<1>3. WalkTypes'
  BY <1>2, TypeParts DEF Observe, WalkTypes
<1>4. FacetTypes'
  <2>1. UNCHANGED facets
    BY <1>2 DEF Observe
  <2>2. touched' \in [{"tlp", "severity"} -> SUBSET Advisories]
    <3>1. touched \in [{"tlp", "severity"} -> SUBSET Advisories]
      BY TypeParts DEF FacetTypes
    <3>2. \E changed \in SUBSET Advisories :
             touched' = [s \in {"tlp", "severity"} |->
                            IF facets.step = "none" THEN {} ELSE touched[s] \union changed]
      BY <1>2 DEF Observe
    <3> QED
      BY <3>1, <3>2
  <2> QED
    BY <2>1, <2>2, TypeParts DEF FacetTypes
<1>5. commits' \in 0 .. MaxCommits
  BY <1>2, ReadAssumption DEF Observe, TypeOK
<1>6. UNCHANGED row
  BY <1>2 DEF Observe
<1> QED
  BY <1>1, <1>3, <1>4, <1>5, <1>6, TypeParts DEF TypeOK, WalkTypes, FacetTypes

LEMMA WalkTypeStep ==
    ASSUME TypeOK, Client
    PROVE  WalkTypes'
<1>1. WalkTypes
  BY TypeParts
<1>2. walk.limit \in Nat /\ walk.offset \in Nat /\ MaxLimit \in Nat
  BY <1>1, ReadAssumption DEF WalkTypes, Walk
<1>3. NoWalk \in Walk
  BY DEF NoWalk, Walk, NoParameters, Query
<1>4. ASSUME NEW n \in Limits, NEW q \in Queries, StartWalk(n, q)
      PROVE  WalkTypes'
  <2>1. ClampedLimit(n) \in Nat /\ q \in Query
    BY <1>2, ReadAssumption DEF ClampedLimit
  <2> QED
    BY <1>4, <2>1 DEF StartWalk, WalkTypes, Walk
<1>5. CASE CountRows
  <2>1. HasNext(Cardinality(List)) \in BOOLEAN
    BY <1>2, ListFinite DEF HasNext
  <2> QED
    BY <1>1, <1>5, <2>1 DEF CountRows, WalkTypes, Walk
<1>6. ASSUME NEW follows \in BOOLEAN, PageRows(follows)
      PROVE  WalkTypes'
  <2>1. Page \subseteq Advisories
    BY DEF Page, List
  <2>2. NextOffset \in Nat
    BY <1>2 DEF NextOffset
  <2> QED
    BY <1>1, <1>6, <2>1, <2>2 DEF PageRows, WalkTypes, Walk
<1>7. CASE RefuseOffset
  BY <1>1, <1>7 DEF RefuseOffset, history, WalkTypes, Walk
<1>8. CASE ForgetWalk
  BY <1>3, <1>8 DEF ForgetWalk, WalkTypes
<1>9. CASE UNCHANGED <<walk, seen, history>>
  BY <1>1, <1>9 DEF WalkTypes, history
<1> QED
  BY <1>4, <1>5, <1>6, <1>7, <1>8, <1>9
  DEF Client, EndWalk, PickRow, DropRow, CountTlp, CountSeverity, CloseFacets

LEMMA FacetTypeStep ==
    ASSUME TypeOK, Client
    PROVE  FacetTypes'
<1>1. FacetTypes
  BY TypeParts
<1>2. CASE CountTlp
  <2> DEFINE counts == [n \in TlpNames |->
                           {a \in Advisories : Visible(a) /\ LabelOf[head[a]].name = n}]
  <2>1. counts \in [TlpNames -> SUBSET Advisories]
    OBVIOUS
  <2>2. facets' = [facets EXCEPT !.step = "tlp", !.tlp = counts] /\ UNCHANGED touched
    BY <1>2 DEF CountTlp
  <2> HIDE DEF counts
  <2> QED
    BY <1>1, <2>1, <2>2 DEF FacetTypes
<1>3. CASE CountSeverity
  <2> DEFINE counts == [b \in Bands |->
                           {a \in Advisories : Visible(a) /\ FacetBand(head[a]) = b}]
  <2>1. counts \in [Bands -> SUBSET Advisories]
    OBVIOUS
  <2>2. /\ facets' = [facets EXCEPT !.step = "shown", !.severity = counts]
        /\ touched' = [touched EXCEPT !["severity"] = {}]
    BY <1>3 DEF CountSeverity
  <2> HIDE DEF counts
  <2> QED
    BY <1>1, <2>1, <2>2 DEF FacetTypes
<1>4. CASE CloseFacets
  BY <1>4 DEF CloseFacets, NoCounts, FacetTypes
<1>5. CASE UNCHANGED <<facets, touched>>
  BY <1>1, <1>5 DEF FacetTypes
<1> QED
  BY <1>2, <1>3, <1>4, <1>5
  DEF Client, StartWalk, CountRows, PageRows, RefuseOffset, EndWalk, PickRow, DropRow

LEMMA RowTypeStep ==
    ASSUME TypeOK, Client
    PROVE  row' = NULL \/ row' \in Row
<1>1. ASSUME NEW a \in Advisories, PickRow(a)
      PROVE  row' \in Row
  <2>1. head[a] \in Revisions /\ headId[a] \in Nat
    BY <1>1 DEF PickRow, Page, List, Selected, Visible, TypeOK, LogTypeOK
  <2> QED
    BY <1>1, <2>1 DEF PickRow, Row
<1>2. CASE DropRow
  BY <1>2 DEF DropRow
<1>3. CASE UNCHANGED row
  BY <1>3 DEF TypeOK
<1> QED
  BY <1>1, <1>2, <1>3
  DEF Client, StartWalk, CountRows, PageRows, RefuseOffset, EndWalk, CountTlp,
      CountSeverity, CloseFacets

LEMMA ClientTypes ==
    ASSUME TypeOK, Client
    PROVE  TypeOK'
<1>1. commits' \in 0 .. MaxCommits
  <2>1. commits' = commits \/ commits' = 0
    BY DEF Client, StartWalk, CountRows, PageRows, RefuseOffset, EndWalk, PickRow, DropRow,
           CountTlp, CountSeverity, CloseFacets
  <2> QED
    BY <2>1, ReadAssumption DEF TypeOK
<1>2. LogTypeOK' /\ documents' \in Seq(Revisions) /\ headId' \in [Advisories -> Nat]
  BY ClientTable DEF TypeOK, LogTypeOK
<1> QED
  BY <1>1, <1>2, WalkTypeStep, FacetTypeStep, RowTypeStep
  DEF TypeOK, WalkTypes, FacetTypes

LEMMA TypeStep ==
    ASSUME TypeOK, [Next]_vars
    PROVE  TypeOK'
<1>1. CASE UNCHANGED vars
  BY <1>1 DEF vars, table, logVars, history, TypeOK, LogTypeOK
<1> QED
  BY <1>1, StepKinds, CommitTypes, ClientTypes

LEMMA InitFacts == Init => IInv
<1> SUFFICES ASSUME Init
             PROVE  IInv
  OBVIOUS
<1>1. NoWalk \in Walk /\ NoWalk.step = "idle"
  BY DEF NoWalk, Walk, NoParameters, Query
<1>2. FacetTypes
  BY DEF Init, FacetTypes, NoCounts
<1>3. documents \in Seq(Revisions)
  BY DEF Init
<1>4. TypeOK
  BY <1>1, <1>2, <1>3, ReadAssumption DEF Init, LogInit, TypeOK, LogTypeOK, FacetTypes
<1>5. HeadRows
  BY DEF Init, LogInit, HeadRows
<1>6. RowKept
  BY DEF Init, RowKept
<1>7. WalkTracked
  BY <1>1 DEF Init, WalkTracked, InWalk
<1>8. FacetsTracked
  BY DEF Init, FacetsTracked, NoCounts
<1> QED
  BY <1>4, <1>5, <1>6, <1>7, <1>8 DEF IInv

------------------------------------------------------------------------------
(* The rows behind the links                                               *)

LEMMA HeadRowsStep ==
    ASSUME TypeOK, HeadRows, [Next]_vars
    PROVE  HeadRows'
<1>1. CASE UNCHANGED <<head, documents, headId>>
  BY <1>1 DEF HeadRows
<1>2. CASE Commit
  BY <1>1, <1>2, StoreTable, TombstoneTable DEF Commit
<1> QED
  BY <1>1, <1>2, StepKinds, ClientTable DEF vars, table, logVars

LEMMA RowKeptStep ==
    ASSUME TypeOK, HeadRows, RowKept, [Next]_vars
    PROVE  RowKept'
<1>1. CASE UNCHANGED <<head, documents, row>>
  BY <1>1 DEF RowKept
<1>2. ASSUME NEW r \in Revisions, StoreDocument(r)
      PROVE  RowKept'
  <2> SUFFICES ASSUME row' # NULL
               PROVE  RowKept'
    BY DEF RowKept
  <2>1. row' = row
    BY <1>2 DEF StoreDocument, Observe
  <2>2. row.rev \in Revisions
    BY <2>1 DEF TypeOK, Row
  <2> DEFINE a == row.rev.adv
  <2>3. a \in Advisories /\ head[a] \in Revisions
    BY <2>1, <2>2, AdvOfRevision DEF RowKept, TypeOK, LogTypeOK
  <2>4. head'[a] # NULL /\ (head'[a] = head[a] \/ Newer(head'[a], head[a]))
    BY <1>2, <2>1, <2>3, StoreTable DEF RowKept
  <2>5. head'[a] \in Revisions
    BY <1>2, <2>3, <2>4, StoreTypes DEF LogTypeOK
  <2>6. head'[a] = row.rev \/ Newer(head'[a], row.rev)
    BY <2>1, <2>2, <2>3, <2>4, <2>5, NewerTransitive DEF RowKept
  <2>7. row.id \in DOMAIN documents' /\ documents'[row.id] = row.rev
    BY <1>2, <2>1, StoreTable DEF RowKept
  <2> QED
    BY <2>1, <2>4, <2>6, <2>7 DEF RowKept
<1>3. ASSUME NEW gone \in SUBSET Advisories, TombstoneAbsent(gone)
      PROVE  RowKept'
  BY <1>1, <1>3, TombstoneTable DEF TombstoneAbsent, Observe
<1>4. ASSUME NEW a \in Advisories, PickRow(a)
      PROVE  RowKept'
  <2>1. Visible(a) /\ a \in Advisories
    BY <1>4 DEF PickRow, Page, List, Selected
  <2>2. row' = [id |-> headId[a], rev |-> head[a]] /\ UNCHANGED <<head, documents>>
    BY <1>4 DEF PickRow, table, logVars
  <2> QED
    BY <2>1, <2>2 DEF RowKept, HeadRows, Visible
<1>5. CASE DropRow
  BY <1>5 DEF DropRow, RowKept
<1>6. CASE Client
  BY <1>1, <1>4, <1>5, <1>6, ClientTable
  DEF Client, StartWalk, CountRows, PageRows, RefuseOffset, EndWalk, CountTlp,
      CountSeverity, CloseFacets
<1> QED
  BY <1>1, <1>2, <1>3, <1>6, StepKinds DEF Commit, vars, table, logVars

------------------------------------------------------------------------------
(* The walk                                                                *)

\* A commit moves a row back or forth, and says so.
LEMMA WalkCommit ==
    ASSUME TypeOK, WalkTracked, Commit
    PROVE  WalkTracked'
<1>1. /\ UNCHANGED <<walk, seen, repeated>>
      /\ always' \subseteq always
      /\ risen \subseteq risen' /\ sunk \subseteq sunk' /\ pushed \subseteq pushed'
  BY CommitObserves, ObserveFacts
<1>2. CASE ~InWalk
  <2>1. UNCHANGED <<always, risen, sunk, pushed>> /\ ~InWalk' /\ walk.step # "counted"
    BY <1>1, <1>2, CommitObserves, ObserveFacts DEF InWalk
  <2> QED
    BY <1>1, <2>1 DEF WalkTracked
<1>3. CASE InWalk
  <2>1. walk.limit \in Nat /\ walk.offset \in Nat
    BY DEF TypeOK, Walk
  <2>2. \A a : Rank(a) \in Nat
    BY RankNat
  <2>3. (\A a : Rank(a) \in Nat)'
    BY RankNat, PTL
  <2>4. always' \subseteq List'
    BY <1>3, CommitObserves, ObserveFacts
  <2>5. \A a \in always' \ risen' : a \in seen \/ walk.offset <= Rank(a)'
    <3> TAKE a \in always' \ risen'
    <3>1. a \in seen \/ walk.offset <= Rank(a)
      BY <1>1, <1>3 DEF WalkTracked
    <3>2. Rank(a)' >= Rank(a)
      BY <1>3, CommitObserves, ObserveFacts
    <3> QED
      BY <3>1, <3>2, <2>1, <2>2, <2>3
  <2>6. \A a \in (always' \intersect seen) \ sunk' : Rank(a)' < walk.offset
    <3> TAKE a \in (always' \intersect seen) \ sunk'
    <3>1. Rank(a) < walk.offset
      BY <1>1, <1>3 DEF WalkTracked
    <3>2. Rank(a)' <= Rank(a)
      BY <1>3, CommitObserves, ObserveFacts
    <3> QED
      BY <3>1, <3>2, <2>1, <2>2, <2>3
  <2>7. ASSUME walk.step = "counted", ~walk.next, NEW a \in always' \ pushed'
        PROVE  Rank(a)' < walk.offset + walk.limit
    <3>1. Rank(a) < walk.offset + walk.limit
      BY <1>1, <2>7 DEF WalkTracked
    <3>2. Rank(a)' <= Rank(a)
      BY <1>3, CommitObserves, ObserveFacts
    <3> QED
      BY <3>1, <3>2, <2>1, <2>2, <2>3
  <2>8. repeated \intersect always' \subseteq sunk'
    BY <1>1 DEF WalkTracked
  <2>9. walk.step # "done"
    BY <1>3 DEF InWalk
  <2> QED
    BY <1>1, <2>4, <2>5, <2>6, <2>7, <2>8, <2>9 DEF WalkTracked
<1> QED
  BY <1>2, <1>3

LEMMA WalkStart ==
    ASSUME TypeOK, NEW n \in Limits, NEW q \in Queries, StartWalk(n, q)
    PROVE  WalkTracked'
<1>1. /\ walk'.step = "request" /\ walk'.query = q /\ walk'.offset = 0
      /\ seen' = {} /\ repeated' = {}
      /\ UNCHANGED <<head, withdrawn>>
  BY DEF StartWalk, table, logVars
<1>2. always' = {a \in Advisories : Visible(a) /\ (q.filtered => head[a] \in Matches)}
  BY DEF StartWalk
<1>3. List' = always'
  BY <1>1, <1>2 DEF List, Selected, Visible
<1>4. (\A a : Rank(a) \in Nat)'
  BY RankNat, PTL
<1>5. \A a : 0 <= Rank(a)'
  BY <1>4
<1> QED
  BY <1>1, <1>3, <1>5 DEF WalkTracked

\* The count says what lies behind the page.
LEMMA WalkCount ==
    ASSUME TypeOK, WalkTracked, CountRows
    PROVE  WalkTracked'
<1>1. /\ walk.step = "request" /\ walk'.step = "counted"
      /\ walk'.query = walk.query /\ walk'.offset = walk.offset /\ walk'.limit = walk.limit
      /\ walk'.next = HasNext(Cardinality(List))
  BY DEF CountRows, TypeOK, Walk
<1>2. /\ UNCHANGED <<head, withdrawn, headId, seen, always, repeated, risen, sunk>>
      /\ pushed' = {}
  BY DEF CountRows, table, logVars
<1>3. List' = List /\ \A a : Rank(a)' = Rank(a)
  BY <1>1, <1>2, RanksStay
<1>4. walk.limit \in Nat /\ walk.offset \in Nat
  BY DEF TypeOK, Walk
<1>5. always \subseteq List
  BY <1>1 DEF WalkTracked, InWalk
<1>6. ASSUME ~HasNext(Cardinality(List)), NEW a \in always
      PROVE  Rank(a) < walk.offset + walk.limit
  <2>1. Rank(a) < Cardinality(List)
    BY <1>5, RankBelowTotal
  <2>2. Rank(a) \in Nat /\ Cardinality(List) \in Nat
    BY RankNat, ListFinite
  <2> QED
    BY <1>4, <1>6, <2>1, <2>2 DEF HasNext
<1>7. InWalk /\ InWalk'
  BY <1>1 DEF InWalk
<1>8. /\ \A a \in always' \ risen' : a \in seen' \/ walk'.offset <= Rank(a)'
      /\ \A a \in (always' \intersect seen') \ sunk' : Rank(a)' < walk'.offset
      /\ repeated' \intersect always' \subseteq sunk'
  BY <1>1, <1>2, <1>3, <1>7 DEF WalkTracked
<1>9. ~walk'.next => \A a \in always' \ pushed' : Rank(a)' < walk'.offset + walk'.limit
  BY <1>1, <1>2, <1>3, <1>6
<1> QED
  BY <1>1, <1>2, <1>3, <1>5, <1>8, <1>9 DEF WalkTracked

\* The page shows what lies between the offset and its end.
LEMMA WalkPage ==
    ASSUME TypeOK, WalkTracked, NEW follows \in BOOLEAN, PageRows(follows)
    PROVE  WalkTracked'
<1>1. /\ UNCHANGED <<head, withdrawn, headId, always, risen, sunk, pushed>>
      /\ seen' = seen \union Page
      /\ repeated' = repeated \union (seen \intersect Page)
      /\ walk.step = "counted"
  BY DEF PageRows, table, logVars
<1>2. walk'.query = walk.query
  BY DEF PageRows, TypeOK, Walk
<1>3. List' = List /\ \A a : Rank(a)' = Rank(a)
  BY <1>1, <1>2, RanksStay
<1>4. walk.limit \in Nat /\ walk.offset \in Nat /\ \A a : Rank(a) \in Nat
  BY RankNat DEF TypeOK, Walk
<1>5. InWalk /\ always \subseteq List
  BY <1>1 DEF WalkTracked, InWalk
<1>6. repeated' \intersect always' \subseteq sunk'
  <2> SUFFICES ASSUME NEW a \in always, a \in seen, a \in Page, a \notin sunk
               PROVE  FALSE
    BY <1>1 DEF WalkTracked
  <2>1. Rank(a) < walk.offset
    BY <1>5 DEF WalkTracked
  <2>2. walk.offset <= Rank(a)
    BY DEF Page
  <2> QED
    BY <1>4, <2>1, <2>2
<1>7. CASE ~walk.next
  <2>1. walk'.step = "done" /\ ~InWalk'
    BY <1>7 DEF PageRows, InWalk, TypeOK, Walk
  <2>2. \A a \in always \ (risen \union pushed) : a \in seen \/ a \in Page
    <3> TAKE a \in always \ (risen \union pushed)
    <3>1. a \in seen \/ walk.offset <= Rank(a)
      BY <1>5 DEF WalkTracked
    <3>2. Rank(a) < walk.offset + walk.limit
      BY <1>1, <1>7 DEF WalkTracked
    <3> QED
      BY <1>5, <3>1, <3>2 DEF Page
  <2> QED
    BY <1>1, <1>6, <2>1, <2>2 DEF WalkTracked
<1>8. CASE walk.next /\ walk'.step = "request" /\ walk'.offset = NextOffset
  <2>1. \A a \in always \ risen : a \in seen \union Page \/ NextOffset <= Rank(a)
    <3> TAKE a \in always \ risen
    <3>1. a \in seen \/ walk.offset <= Rank(a)
      BY <1>5 DEF WalkTracked
    <3>2. Rank(a) < NextOffset \/ NextOffset <= Rank(a)
      BY <1>4 DEF NextOffset
    <3>3. CASE walk.offset <= Rank(a) /\ Rank(a) < NextOffset
      BY <1>5, <3>3 DEF Page, NextOffset
    <3> QED
      BY <3>1, <3>2, <3>3
  <2>2. \A a \in (always \intersect (seen \union Page)) \ sunk : Rank(a) < NextOffset
    <3> TAKE a \in (always \intersect (seen \union Page)) \ sunk
    <3>1. CASE a \in seen
      <4>1. Rank(a) < walk.offset
        BY <1>5, <3>1 DEF WalkTracked
      <4> QED
        BY <1>4, <4>1 DEF NextOffset
    <3>2. CASE a \in Page
      BY <3>2 DEF Page, NextOffset
    <3> QED
      BY <3>1, <3>2
  <2> QED
    BY <1>1, <1>3, <1>5, <1>6, <1>8, <2>1, <2>2 DEF WalkTracked
<1>9. CASE walk'.step = "broken"
  BY <1>6, <1>9 DEF WalkTracked, InWalk
<1>10. \/ ~walk.next \/ walk'.step = "broken"
       \/ walk.next /\ walk'.step = "request" /\ walk'.offset = NextOffset
  BY DEF PageRows, TypeOK, Walk
<1> QED
  BY <1>7, <1>8, <1>9, <1>10

LEMMA WalkStep ==
    ASSUME TypeOK, WalkTracked, [Next]_vars
    PROVE  WalkTracked'
<1>1. CASE Commit
  BY <1>1, WalkCommit
<1>2. CASE \E n \in Limits, q \in Queries : StartWalk(n, q)
  BY <1>2, WalkStart
<1>3. CASE CountRows
  BY <1>3, WalkCount
<1>4. CASE \E follows \in BOOLEAN : PageRows(follows)
  BY <1>4, WalkPage
<1>5. CASE RefuseOffset
  <2>1. walk'.step = "refused" /\ UNCHANGED <<repeated, always, sunk>>
    BY <1>5 DEF RefuseOffset, history, TypeOK, Walk
  <2> QED
    BY <2>1 DEF WalkTracked, InWalk
<1>6. CASE ForgetWalk
  BY <1>6 DEF ForgetWalk, NoWalk, WalkTracked, InWalk
<1>7. CASE UNCHANGED <<head, withdrawn, headId, walk, seen, history>>
  <2>1. List' = List /\ \A a : Rank(a)' = Rank(a)
    BY <1>7, RanksStay
  <2> QED
    BY <1>7, <2>1 DEF WalkTracked, InWalk, history
<1>8. CASE Client
  BY <1>2, <1>3, <1>4, <1>5, <1>6, <1>7, <1>8, ClientTable
  DEF Client, EndWalk, PickRow, DropRow, CountTlp, CountSeverity, CloseFacets
<1> QED
  BY <1>1, <1>7, <1>8, StepKinds DEF vars, table, logVars

------------------------------------------------------------------------------
(* The facets                                                              *)

LEMMA FacetsCommit ==
    ASSUME TypeOK, FacetsTracked, Commit
    PROVE  FacetsTracked'
<1>1. UNCHANGED facets
  BY CommitObserves DEF Observe
<1>2. touched' = [s \in {"tlp", "severity"} |->
           IF facets.step = "none" THEN {}
           ELSE touched[s] \union {a \in Advisories : \/ head'[a] # head[a]
                                                      \/ (a \in withdrawn') # (a \in withdrawn)}]
  BY CommitObserves DEF Observe
<1>3. CASE facets.step = "none"
  BY <1>1, <1>3 DEF FacetsTracked
<1>4. CASE facets.step # "none"
  <2>1. ASSUME NEW s \in {"tlp", "severity"}, NEW a \in Advisories \ touched'[s]
        PROVE  a \notin touched[s] /\ head'[a] = head[a] /\ (a \in withdrawn' <=> a \in withdrawn)
    BY <1>2, <1>4, <2>1
  <2>2. \A s \in {"tlp", "severity"} :
           \A a \in Advisories \ touched'[s] : Visible(a)' <=> Visible(a)
    BY <2>1 DEF Visible
  <2>3. facets.step \in {"tlp", "shown"} =>
           \A a \in Advisories \ touched'["tlp"], n \in TlpNames :
               a \in facets.tlp[n] <=> Visible(a)' /\ LabelOf[head'[a]].name = n
    BY <2>1, <2>2 DEF FacetsTracked
  <2>4. facets.step = "shown" => touched'["severity"] \subseteq touched'["tlp"]
    <3>1. facets.step = "shown" => touched["severity"] \subseteq touched["tlp"]
      BY DEF FacetsTracked
    <3> QED
      BY <1>2, <1>4, <3>1
  <2>5. facets.step = "shown" =>
           \A a \in Advisories \ touched'["severity"], b \in Bands :
               a \in facets.severity[b] <=> Visible(a)' /\ FacetBand(head'[a]) = b
    BY <2>1, <2>2 DEF FacetsTracked
  <2> QED
    BY <1>1, <2>3, <2>4, <2>5 DEF FacetsTracked
<1> QED
  BY <1>3, <1>4

LEMMA FacetsStep ==
    ASSUME TypeOK, FacetsTracked, [Next]_vars
    PROVE  FacetsTracked'
<1>1. CASE Commit
  BY <1>1, FacetsCommit
<1>2. FacetTypes
  BY TypeParts
<1>3. CASE CountTlp
  <2>1. UNCHANGED <<head, withdrawn>> /\ facets'.step = "tlp"
    BY <1>2, <1>3 DEF CountTlp, table, logVars, FacetTypes
  <2>2. facets'.tlp = [n \in TlpNames |->
                          {a \in Advisories : Visible(a) /\ LabelOf[head[a]].name = n}]
    BY <1>2, <1>3 DEF CountTlp, FacetTypes
  <2>3. \A a \in Advisories, n \in TlpNames :
           a \in facets'.tlp[n] <=> Visible(a) /\ LabelOf[head[a]].name = n
    BY <2>2
  <2> QED
    BY <2>1, <2>3 DEF FacetsTracked, Visible
<1>4. CASE CountSeverity
  <2>1. /\ UNCHANGED <<head, withdrawn>>
        /\ facets.step = "tlp" /\ facets'.step = "shown" /\ facets'.tlp = facets.tlp
        /\ touched'["tlp"] = touched["tlp"] /\ touched'["severity"] = {}
    BY <1>2, <1>4 DEF CountSeverity, table, logVars, FacetTypes
  <2>2. facets'.severity = [b \in Bands |->
                               {a \in Advisories : Visible(a) /\ FacetBand(head[a]) = b}]
    BY <1>2, <1>4 DEF CountSeverity, FacetTypes
  <2>3. \A a \in Advisories, b \in Bands :
           a \in facets'.severity[b] <=> Visible(a) /\ FacetBand(head[a]) = b
    BY <2>2
  <2> QED
    BY <2>1, <2>3 DEF FacetsTracked, Visible
<1>5. CASE CloseFacets
  BY <1>5 DEF CloseFacets, NoCounts, FacetsTracked
<1>6. CASE UNCHANGED <<head, withdrawn, facets, touched>>
  BY <1>6 DEF FacetsTracked, Visible
<1>7. CASE Client
  BY <1>3, <1>4, <1>5, <1>6, <1>7, ClientTable
  DEF Client, StartWalk, CountRows, PageRows, RefuseOffset, EndWalk, PickRow, DropRow
<1> QED
  BY <1>1, <1>6, <1>7, StepKinds DEF vars, table, logVars

\* The filter of a band selects only what the facet counts under it, and all of that but
\* the scores between two bands.
LEMMA BandsNest ==
    ASSUME NEW r \in Revisions, NEW b \in Bands
    PROVE  /\ InBand(b, r) => FacetBand(r) = b
           /\ FacetBand(r) = b => InBand(b, r) \/ InGap(r)
           /\ FacetBand(r) \in Bands
<1> DEFINE s == ScoreOf[r]
<1>1. (s = NULL \/ s \in 0 .. 1000) /\ NULL \notin Nat
  BY PublicationAssumption, RevisionAssumption
<1>2. s # NULL => s \in Nat
  BY <1>1
<1>3. InBand("none", r) <=> s = NULL \/ s = 0
  BY DEF InBand
<1>4. /\ InBand("low", r) <=> s # NULL /\ s \in 10 .. 390
      /\ InBand("medium", r) <=> s # NULL /\ s \in 400 .. 690
      /\ InBand("high", r) <=> s # NULL /\ s \in 700 .. 890
      /\ InBand("critical", r) <=> s # NULL /\ s \in 900 .. 1000
  <2>1. /\ SeverityBands["low"][1] = 10 /\ SeverityBands["low"][2] = 390
        /\ SeverityBands["medium"][1] = 400 /\ SeverityBands["medium"][2] = 690
        /\ SeverityBands["high"][1] = 700 /\ SeverityBands["high"][2] = 890
        /\ SeverityBands["critical"][1] = 900 /\ SeverityBands["critical"][2] = 1000
    BY DEF SeverityBands
  <2> QED
    BY <2>1 DEF InBand
<1>5. FacetBand(r) = IF s = NULL \/ s = 0 THEN "none"
                     ELSE IF s < 400 THEN "low" ELSE IF s < 700 THEN "medium"
                     ELSE IF s < 900 THEN "high" ELSE "critical"
  BY DEF FacetBand
<1> HIDE DEF s
<1>6. InBand(b, r) => FacetBand(r) = b
  BY <1>1, <1>2, <1>3, <1>4, <1>5 DEF Bands
<1>7. FacetBand(r) \in Bands
  BY <1>5 DEF Bands
<1>8. \A c \in Bands : InBand(c, r) => FacetBand(r) = c
  BY <1>1, <1>2, <1>3, <1>4, <1>5 DEF Bands
<1> QED
  BY <1>6, <1>7, <1>8 DEF InGap

\* A revision that the reads serve has a label.
LEMMA ServedLabel ==
    ASSUME NEW r \in Revisions, Served(r)
    PROVE  /\ LabelOf[r] \in Label /\ ~LabelOf[r].padded
           /\ LabelOf[r].name \in TlpNames
BY PublicationAssumption DEF Served, Label

LEMMA FacetsFollow ==
    ASSUME TypeOK, FacetsTracked
    PROVE  FacetsMatchList
<1> SUFFICES ASSUME facets.step = "shown"
             PROVE  FacetsMatchList
  BY DEF FacetsMatchList
<1>1. \A a \in Advisories : Visible(a) => head[a] \in Revisions
  BY DEF Visible, TypeOK, LogTypeOK
<1>2. ASSUME NEW a \in Advisories \ touched["severity"], NEW b \in Bands
      PROVE  /\ Visible(a) /\ InBand(b, head[a]) => a \in facets.severity[b]
             /\ a \in facets.severity[b] => Visible(a) /\ (InBand(b, head[a]) \/ InGap(head[a]))
  <2>1. a \in facets.severity[b] <=> Visible(a) /\ FacetBand(head[a]) = b
    BY DEF FacetsTracked
  <2> QED
    BY <1>1, <2>1, BandsNest
<1>3. ASSUME NEW a \in Advisories \ touched["tlp"]
      PROVE  /\ \A n \in TlpNames :
                   a \in facets.tlp[n] <=> Visible(a) /\ LabelOf[head[a]].name = n
             /\ (\E n \in TlpNames : a \in facets.tlp[n])
                   <=> (\E b \in Bands : a \in facets.severity[b])
  <2>1. \A n \in TlpNames : a \in facets.tlp[n] <=> Visible(a) /\ LabelOf[head[a]].name = n
    BY DEF FacetsTracked
  <2>2. \A b \in Bands : a \in facets.severity[b] <=> Visible(a) /\ FacetBand(head[a]) = b
    BY DEF FacetsTracked
  <2>3. Visible(a) => LabelOf[head[a]].name \in TlpNames
    BY <1>1, ServedLabel DEF Visible
  <2>4. Visible(a) => FacetBand(head[a]) \in Bands
    <3>1. "none" \in Bands
      BY DEF Bands
    <3> QED
      BY <1>1, <3>1, BandsNest
  <2> QED
    BY <2>1, <2>2, <2>3, <2>4
<1> QED
  BY <1>2, <1>3 DEF FacetsMatchList

------------------------------------------------------------------------------
(* The gates and the links                                                 *)

LEMMA GatesFollow ==
    ASSUME TypeOK
    PROVE  GatesAgree
<1> SUFFICES ASSUME NEW a \in Advisories \ withdrawn, head[a] # NULL
             PROVE  /\ Visible(a) => IsPublishable(LabelOf[head[a]])
                    /\ IsPublishable(LabelOf[head[a]]) => Visible(a) \/ LabelOf[head[a]].padded
  BY DEF GatesAgree
<1>1. head[a] \in Revisions
  BY DEF TypeOK, LogTypeOK
<1>2. LabelOf[head[a]] \in Label \union {NULL}
  BY <1>1, PublicationAssumption
<1>3. ASSUME NEW name \in TlpNames
      PROVE  name \in PublishableTLPSet <=> NormalizeTLP(name) \in PublishableTLP
  BY PublicationAssumption DEF PublishableTLPSet, NormalizeTLP, TlpNames
<1>4. LabelOf[head[a]] # NULL => LabelOf[head[a]].name \in TlpNames
  BY <1>2 DEF Label
<1> QED
  BY <1>3, <1>4 DEF Visible, Served, IsPublishable

LEMMA RowFollows ==
    ASSUME TypeOK, RowKept
    PROVE  RowResolves
<1> SUFFICES ASSUME row # NULL
             PROVE  RowResolves
  BY DEF RowResolves
<1>1. Document(row.id) = row.rev
  BY DEF RowKept, Document
<1>2. /\ head[row.rev.adv] # NULL
      /\ head[row.rev.adv] = row.rev \/ Newer(head[row.rev.adv], row.rev)
  BY DEF RowKept
<1> QED
  BY <1>1, <1>2 DEF RowResolves, Permalink

LEMMA WalkFollows ==
    ASSUME WalkTracked
    PROVE  WalkComplete
BY DEF WalkTracked, WalkComplete

------------------------------------------------------------------------------
(* Theorems                                                                *)

THEOREM Inductive == Spec => []IInv
<1>1. Init => IInv
  BY InitFacts
<1>2. IInv /\ [Next]_vars => IInv'
  BY TypeStep, HeadRowsStep, RowKeptStep, WalkStep, FacetsStep DEF IInv
<1> QED
  BY <1>1, <1>2, PTL DEF Spec

\* The variables of the readers keep their types.
THEOREM ReadTypes == Spec => []TypeOK
<1>1. IInv => TypeOK
  BY DEF IInv
<1> QED
  BY <1>1, Inductive, PTL

\* Paging by offset under concurrent commits: for any number of advisories, any limit and
\* any order, a row that stays in the list is missed only when a commit moved it forward,
\* or off the last page, and shown twice only when a commit moved it back.
THEOREM WalksMissNothing == Spec => []WalkComplete
<1>1. IInv => WalkComplete
  BY WalkFollows DEF IInv
<1> QED
  BY <1>1, Inductive, PTL

\* The gate of the ingestion and the gate in the SQL of the reads publish the same
\* documents, up to labels with white space around them.
THEOREM OnePublicationPolicy == Spec => []GatesAgree
<1>1. IInv => GatesAgree
  BY GatesFollow DEF IInv
<1> QED
  BY <1>1, Inductive, PTL

\* The links of a row work as long as the data base keeps the row, which is always.
THEOREM LinksStayGood == Spec => []RowResolves
<1>1. IInv => RowResolves
  BY RowFollows DEF IInv
<1> QED
  BY <1>1, Inductive, PTL

\* The facets of one answer agree with the list and with each other, up to the commits
\* between their statements and the scores between two bands.
THEOREM FacetsTruthful == Spec => []FacetsMatchList
<1>1. IInv => FacetsMatchList
  BY FacetsFollow DEF IInv
<1> QED
  BY <1>1, Inductive, PTL

------------------------------------------------------------------------------
(* The number of requests of a walk                                        *)

\* Statements that a walk can still make: two per request, none after the last offset
\* that parseListOptions accepts.
WalkLeft == 2 * (MaxOffset + MaxLimit - walk.offset) + (IF walk.step = "request" THEN 1 ELSE 0)

\* A page has at least one row, and only an accepted offset is counted.
WalkInBounds ==
    InWalk =>
        /\ walk.limit \in 1 .. MaxLimit
        /\ walk.offset \in 0 .. MaxOffset + MaxLimit
        /\ walk.step = "counted" => walk.offset <= MaxOffset

\* Each step of a walk that does not end it uses up some of what is left, whatever is
\* stored and withdrawn between the pages.
WalkShrinks == [][InWalk /\ InWalk' /\ walk' # walk => WalkLeft' < WalkLeft]_vars

LEMMA ClampedInRange ==
    ASSUME NEW n \in Limits
    PROVE  ClampedLimit(n) \in 1 .. MaxLimit
BY ReadAssumption DEF ClampedLimit

\* How a step moves a walk.
LEMMA WalkMoves ==
    ASSUME TypeOK, [Next]_vars
    PROVE  \/ walk' = walk
           \/ ~InWalk'
           \/ /\ walk'.step = "request" /\ walk'.offset = 0
              /\ ~InWalk /\ \E n \in Limits : walk'.limit = ClampedLimit(n)
           \/ /\ CountRows /\ walk'.step = "counted"
              /\ walk'.limit = walk.limit /\ walk'.offset = walk.offset
           \/ /\ walk.step = "counted" /\ walk'.step = "request"
              /\ walk'.limit = walk.limit /\ walk'.offset = NextOffset
<1>0. walk \in Walk
  BY DEF TypeOK
<1>1. CASE Commit
  BY <1>1, CommitObserves DEF Observe
<1>2. CASE \E n \in Limits, q \in Queries : StartWalk(n, q)
  BY <1>2 DEF StartWalk, Idle, InWalk
<1>3. CASE CountRows
  BY <1>0, <1>3 DEF CountRows, Walk
<1>4. CASE \E follows \in BOOLEAN : PageRows(follows)
  BY <1>0, <1>4 DEF PageRows, Walk, InWalk
<1>5. CASE RefuseOffset
  BY <1>0, <1>5 DEF RefuseOffset, Walk, InWalk
<1>6. CASE EndWalk \/ \E a \in Advisories : PickRow(a)
  BY <1>6 DEF EndWalk, PickRow, ForgetWalk, NoWalk, InWalk
<1>7. CASE DropRow \/ CountTlp \/ CountSeverity \/ CloseFacets
  BY <1>7 DEF DropRow, CountTlp, CountSeverity, CloseFacets
<1> QED
  BY <1>1, <1>2, <1>3, <1>4, <1>5, <1>6, <1>7, StepKinds DEF Client, vars

LEMMA BoundsStep ==
    ASSUME TypeOK, WalkInBounds, [Next]_vars
    PROVE  /\ WalkInBounds'
           /\ InWalk /\ InWalk' /\ walk' # walk => WalkLeft' < WalkLeft
<1>0. /\ walk \in Walk /\ walk' \in Walk
      /\ MaxLimit \in Nat \ {0} /\ MaxOffset \in Nat
  BY TypeStep, ReadAssumption DEF TypeOK
<1>1. CASE walk' = walk
  BY <1>1 DEF WalkInBounds, InWalk
<1>2. CASE ~InWalk'
  BY <1>2 DEF WalkInBounds
<1>3. CASE /\ walk'.step = "request" /\ walk'.offset = 0
           /\ ~InWalk /\ \E n \in Limits : walk'.limit = ClampedLimit(n)
  BY <1>0, <1>3, ClampedInRange DEF WalkInBounds, InWalk
<1>4. CASE /\ CountRows /\ walk'.step = "counted"
           /\ walk'.limit = walk.limit /\ walk'.offset = walk.offset
  <2>1. walk.step = "request" /\ walk.offset <= MaxOffset
    BY <1>4 DEF CountRows
  <2> QED
    BY <1>0, <1>4, <2>1 DEF WalkInBounds, InWalk, WalkLeft, Walk
<1>5. CASE /\ walk.step = "counted" /\ walk'.step = "request"
           /\ walk'.limit = walk.limit /\ walk'.offset = NextOffset
  BY <1>0, <1>5 DEF WalkInBounds, InWalk, WalkLeft, Walk, NextOffset
<1> QED
  BY <1>1, <1>2, <1>3, <1>4, <1>5, WalkMoves

\* A walk makes only a bounded number of requests: it advances by at least one row with
\* every page, also for a limit of 0, and stops at the greatest offset.
THEOREM WalksAreBounded == Spec => []WalkInBounds /\ WalkShrinks
<1>1. Init => WalkInBounds
  BY DEF Init, NoWalk, InWalk, WalkInBounds
<1>2. IInv /\ WalkInBounds /\ [Next]_vars
        => WalkInBounds' /\ [InWalk /\ InWalk' /\ walk' # walk => WalkLeft' < WalkLeft]_vars
  BY BoundsStep DEF IInv
<1> QED
  BY <1>1, <1>2, Inductive, PTL DEF Spec, WalkShrinks
==============================================================================
