----------------------- MODULE AdvisoryStoreRefinement -----------------------
(***************************************************************************)
(* AdvisoryStore implements AdvisoryLog: read through StoredRevisions,     *)
(* HeadRevision and WithdrawnAdvisories, the COMMIT of a StoreDocument is  *)
(* one atomic Store, that of a TombstoneAbsent one atomic Withdraw, and no *)
(* other step is visible.                                                  *)
(***************************************************************************)
EXTENDS AdvisoryStoreProofs

\* AdvisoryLog compares revisions as AdvisoryStore does.
LEMMA SameOrder ==
    ASSUME NEW r, NEW s
    PROVE  /\ Log!Newer(r, s) <=> Newer(r, s)
           /\ Log!SameRevisionKey(r, s) <=> SameRevisionKey(r, s)
  <1>1. Log!Newer(r, s) <=> Newer(r, s)
    BY DEF Newer, SqlGreater, SqlEqual, Log!Newer, Log!SqlGreater, Log!SqlEqual
  <1>2. Log!SameRevisionKey(r, s) <=> SameRevisionKey(r, s)
    BY DEF SameRevisionKey, SqlEqual, Log!SameRevisionKey, Log!SqlEqual
  <1> QED
    BY <1>1, <1>2

LEMMA LogInitial == Init => Log!LogInit
  <1> SUFFICES ASSUME Init PROVE Log!LogInit
    OBVIOUS
  <1>1. \A a : RowsOf(a) = {}
    BY DEF Init, RowsOf
  <1>2. StoredRevisions = [a \in Advisories |-> {}]
    BY <1>1 DEF StoredRevisions
  <1>3. HeadRevision = [a \in Advisories |-> NULL] /\ WithdrawnAdvisories = {}
    BY DEF Init, HeadRevision, WithdrawnAdvisories
  <1> QED
    BY <1>2, <1>3 DEF Log!LogInit

\* The row of the head is there and holds a revision.
LEMMA HeadRow ==
    ASSUME IInv, NEW a \in Advisories, advisories[a] # NULL
    PROVE  LET h == advisories[a].latest_document_id IN
           /\ h \in RowsOf(a)
           /\ h \in DocIds
           /\ documents[h] # NULL
           /\ documents[h].rev \in Revisions
           /\ documents[h].rev # NULL
  <1> DEFINE h == advisories[a].latest_document_id
  <1>1. h \in LatestOf(a)
    BY DEF IInv, HeadConsistent
  <1>2. h \in RowsOf(a) /\ h \in DocIds /\ documents[h] # NULL
    BY <1>1 DEF LatestOf, RowsOf
  <1>3. documents[h].rev \in Revisions
    BY <1>2, RowTypes DEF IInv, DocumentRow
  <1> QED
    BY <1>2, <1>3, RevisionAssumption

\* A store's COMMIT leaves the other advisories alone.
LEMMA StoreOthers ==
    ASSUME IInv, NEW w \in Workers, NEW heard \in BOOLEAN, CommitStore(w, heard),
           NEW b \in Advisories, b # tx[w].rev.adv
    PROVE  /\ advisories'[b] = advisories[b]
           /\ HeadRevision'[b] = HeadRevision[b]
           /\ StoredRevisions'[b] = StoredRevisions[b]
  <1>1. advisories'[b] = advisories[b]
    BY DEF CommitStore, IInv, TypeOK
  <1>2. \A d \in DocIds : documents[d] # NULL => documents'[d].rev = documents[d].rev
    BY CommitStoreTables
  <1>3. RowsOf(b)' = RowsOf(b)
    BY CommitStoreTables
  <1>4. StoredRevisions'[b] = StoredRevisions[b]
    BY <1>2, <1>3 DEF StoredRevisions, RowsOf
  <1>5. HeadRevision'[b] = HeadRevision[b]
    <2>1. CASE advisories[b] = NULL
      BY <1>1, <2>1 DEF HeadRevision
    <2>2. CASE advisories[b] # NULL
      <3> DEFINE h == advisories[b].latest_document_id
      <3>1. documents'[h].rev = documents[h].rev
        BY <1>2, <2>2, HeadRow
      <3> QED
        BY <1>1, <2>2, <3>1 DEF HeadRevision
    <2> QED
      BY <2>1, <2>2
  <1> QED
    BY <1>1, <1>4, <1>5

\* What it does to its own.
LEMMA StoreOwn ==
    ASSUME IInv, NEW w \in Workers, NEW heard \in BOOLEAN, CommitStore(w, heard),
           NEW a \in Advisories, a = tx[w].rev.adv
    PROVE  LET t == tx[w] IN
               /\ t.rev \in Revisions
               /\ advisories'[a] # NULL /\ ~advisories'[a].withdrawn
               /\ advisories'[a].latest_document_id = Pointer(t)
               /\ t.doc = NULL => StoredRevisions'[a] = StoredRevisions[a]
               /\ t.doc # NULL => StoredRevisions'[a] = StoredRevisions[a] \union {t.rev}
               /\ t.leads => HeadRevision'[a] = t.rev
               /\ ~t.leads => HeadRevision'[a] = HeadRevision[a] /\ HeadRevision[a] # NULL
  <1> DEFINE t == tx[w]
  <1>1. /\ t.step \in {"duplicate", "decided"} /\ t.rev \in Revisions
        /\ t.doc \in DocIds \union {NULL}
        /\ TxOK(t)
        /\ advisories' = [advisories EXCEPT ![a] =
                            [latest_document_id |-> Pointer(t), withdrawn |-> Tombstoned(t)]]
    BY CommitStoreRows, RowTypes DEF CommitStore, IInv, TxInv, TypeOK, Transaction
  <1>2. /\ advisories'[a] # NULL /\ ~advisories'[a].withdrawn
        /\ advisories'[a].latest_document_id = Pointer(t)
    BY <1>1, CommitStoreRows, RowAssumption DEF IInv, TypeOK, Tombstoned
  <1>3. \A d \in DocIds : documents[d] # NULL => documents'[d].rev = documents[d].rev
    BY CommitStoreTables
  <1>4. RowsOf(a)' = RowsOf(a) \union (IF t.doc # NULL THEN {t.doc} ELSE {})
    BY <1>1, CommitStoreTables
  <1>5. t.doc # NULL => documents'[t.doc].rev = t.rev
    <2>1. t.doc # NULL => documents'[t.doc] = [rev |-> t.rev, latest |-> t.leads]
      BY CommitStoreTables
    <2>2. [rev |-> t.rev, latest |-> t.leads].rev = t.rev
      OBVIOUS
    <2> QED
      BY <2>1, <2>2
  <1>6. /\ t.doc = NULL => StoredRevisions'[a] = StoredRevisions[a]
        /\ t.doc # NULL => StoredRevisions'[a] = StoredRevisions[a] \union {t.rev}
    <2>1. StoredRevisions[a] = {documents[d].rev : d \in RowsOf(a)}
      BY <1>1 DEF StoredRevisions
    <2>2. StoredRevisions'[a] = {documents'[d].rev : d \in RowsOf(a)'}
      BY <1>1 DEF StoredRevisions
    <2>3. \A d \in RowsOf(a) : documents'[d].rev = documents[d].rev
      BY <1>3 DEF RowsOf
    <2>4. {documents'[d].rev : d \in RowsOf(a)} = {documents[d].rev : d \in RowsOf(a)}
      BY <2>3
    <2>5. CASE t.doc = NULL
      BY <1>4, <2>1, <2>2, <2>4, <2>5
    <2>6. CASE t.doc # NULL
      <3>1. RowsOf(a)' = RowsOf(a) \union {t.doc}
        BY <1>4, <2>6
      <3>2. StoredRevisions'[a] =
                {documents'[d].rev : d \in RowsOf(a)} \union {documents'[t.doc].rev}
        BY <2>2, <3>1
      <3> QED
        BY <1>5, <2>1, <2>4, <2>6, <3>2
    <2> QED
      BY <2>5, <2>6
  <1>7. HeadRevision'[a] = documents'[Pointer(t)].rev
    BY <1>1, <1>2 DEF HeadRevision
  <1>8. t.leads => HeadRevision'[a] = t.rev
    BY <1>1, <1>5, <1>7 DEF Pointer, TxOK
  <1>9. ~t.leads => HeadRevision'[a] = HeadRevision[a] /\ HeadRevision[a] # NULL
    <2> SUFFICES ASSUME ~t.leads
                 PROVE  HeadRevision'[a] = HeadRevision[a] /\ HeadRevision[a] # NULL
      OBVIOUS
    <2> DEFINE h == advisories[a].latest_document_id
    <2>1. advisories[a] # NULL
      BY <1>1, HeadExists
    <2>2. h \in DocIds /\ documents[h] # NULL /\ documents[h].rev # NULL
      BY <1>1, <2>1, HeadRow
    <2>3. documents'[h].rev = documents[h].rev
      BY <1>3, <2>2
    <2>4. HeadRevision[a] = documents[h].rev
      BY <1>1, <2>1 DEF HeadRevision
    <2> QED
      BY <1>7, <2>2, <2>3, <2>4 DEF Pointer
  <1> QED
    BY <1>1, <1>2, <1>6, <1>8, <1>9

\* The head the transaction compared with is the head of the log.
LEMMA OldIsHead ==
    ASSUME IInv, NEW w \in Workers, tx[w].step = "decided"
    PROVE  LET t == tx[w]
               g == HeadRevision[t.rev.adv]
           IN  t.leads <=> g = NULL \/ Newer(t.rev, g)
  <1> DEFINE t == tx[w]
             a == t.rev.adv
             h == advisories[a].latest_document_id
  <1>1. a \in Advisories /\ t.old = CurrentHead(a) /\ (t.leads <=> Leads(t.rev, t.old))
    BY CommitStoreRows, RowTypes DEF IInv, TxInv, TxOK
  <1>2. CASE advisories[a] = NULL
    BY <1>1, <1>2, HeadIsPointer DEF IInv, HeadRevision, Leads
  <1>3. CASE advisories[a] # NULL
    <2>1. t.old = h /\ HeadRevision[a] = documents[h].rev
      BY <1>1, <1>3, HeadIsPointer DEF IInv, HeadRevision
    <2>2. h # NULL /\ documents[h].rev # NULL
      BY <1>1, <1>3, HeadRow, IdFacts
    <2> QED
      BY <1>1, <2>1, <2>2 DEF Leads
  <1> QED
    BY <1>2, <1>3

\* A store's COMMIT is one atomic Store.
LEMMA LogStore ==
    ASSUME IInv, NEW w \in Workers, NEW heard \in BOOLEAN, CommitStore(w, heard),
           NEW a \in Advisories, NEW r \in Revisions, r = tx[w].rev, a = r.adv
    PROVE  Log!Store(r)
  <1> DEFINE t == tx[w]
  <1>1. t.step \in {"duplicate", "decided"} /\ TxOK(t)
    BY DEF CommitStore, IInv, TxInv
  <1>2. WithdrawnAdvisories' = WithdrawnAdvisories \ {a}
    BY <1>1, StoreOwn, StoreOthers DEF WithdrawnAdvisories
  <1>3. KeyTaken(r) <=> \E s \in StoredRevisions[a] : SameRevisionKey(r, s)
    BY DEF KeyTaken, StoredRevisions
  <1>4. CASE t.step = "duplicate"
    <2>1. /\ HeadRevision'[a] = HeadRevision[a]
          /\ StoredRevisions'[a] = StoredRevisions[a]
      BY <1>1, <1>4, StoreOwn DEF TxOK
    <2>2. HeadRevision' = HeadRevision
      BY <2>1, StoreOthers DEF HeadRevision
    <2>3. StoredRevisions' = StoredRevisions
      BY <2>1, StoreOthers DEF StoredRevisions
    <2>4. \E s \in StoredRevisions[a] : SameRevisionKey(r, s)
      BY <1>1, <1>3, <1>4 DEF TxOK
    <2> QED
      BY <1>2, <2>2, <2>3, <2>4, SameOrder DEF Log!Store, Log!Keep, Log!Duplicate
  <1>5. CASE t.step = "decided"
    <2>1. \A s \in StoredRevisions[a] : ~SameRevisionKey(r, s)
      BY <1>1, <1>3, <1>5 DEF TxOK
    <2>2. StoredRevisions' = [StoredRevisions EXCEPT ![a] = @ \union {r}]
      <3>1. StoredRevisions'[a] = StoredRevisions[a] \union {r}
        BY <1>1, <1>5, StoreOwn DEF TxOK
      <3> QED
        BY <1>1, <3>1, StoreOthers DEF StoredRevisions
    <2>3. HeadRevision' =
            [HeadRevision EXCEPT ![a] = IF @ = NULL \/ Newer(r, @) THEN r ELSE @]
      <3>1. HeadRevision'[a] = IF t.leads THEN r ELSE HeadRevision[a]
        BY StoreOwn
      <3>2. t.leads <=> HeadRevision[a] = NULL \/ Newer(r, HeadRevision[a])
        BY <1>5, OldIsHead
      <3>3. \A b \in Advisories : b # a => HeadRevision'[b] = HeadRevision[b]
        BY StoreOthers
      <3>4. /\ HeadRevision = [b \in Advisories |-> HeadRevision[b]]
            /\ HeadRevision' = [b \in Advisories |-> HeadRevision'[b]]
        BY DEF HeadRevision
      <3> HIDE DEF t
      <3> QED
        BY <3>1, <3>2, <3>3, <3>4
    <2>4. Log!Accept(r)
      BY <2>2, <2>3, SameOrder DEF Log!Accept
    <2> QED
      BY <1>2, <2>1, <2>4, SameOrder DEF Log!Store, Log!Keep
  <1> QED
    BY <1>1, <1>4, <1>5

\* A sweep's COMMIT is one atomic Withdraw.
LEMMA LogSweep ==
    ASSUME IInv, NEW w \in Workers, CommitSweep(w)
    PROVE  tx[w].marked \subseteq Advisories /\ Log!Withdraw(tx[w].marked)
  <1> DEFINE m == tx[w].marked
  <1>1. m \subseteq Advisories /\ \A a \in m : advisories[a] # NULL
    BY DEF IInv, LockInv, TypeOK, Transaction
  <1>2. /\ documents' = documents
        /\ \A a \in Advisories \ m : advisories'[a] = advisories[a]
        /\ \A a \in m : advisories'[a] = [advisories[a] EXCEPT !.withdrawn = TRUE]
    BY <1>1 DEF CommitSweep
  <1>3. \A a \in m : /\ advisories'[a] # NULL
                     /\ advisories'[a].withdrawn
                     /\ advisories'[a].latest_document_id = advisories[a].latest_document_id
    <2> SUFFICES ASSUME NEW a \in m
                 PROVE  /\ advisories'[a] # NULL
                        /\ advisories'[a].withdrawn
                        /\ advisories'[a].latest_document_id = advisories[a].latest_document_id
      OBVIOUS
    <2>1. advisories[a] \in AdvisoryRow
      BY <1>1, RowTypes DEF IInv
    <2>2. advisories'[a] = [advisories[a] EXCEPT !.withdrawn = TRUE]
      BY <1>2
    <2>3. advisories'[a] \in AdvisoryRow
      BY <1>1, <2>2, CommitSweepRows
    <2> QED
      BY <2>1, <2>2, <2>3, RowAssumption DEF AdvisoryRow
  <1>4. WithdrawnAdvisories' = WithdrawnAdvisories \union m
    BY <1>1, <1>2, <1>3 DEF WithdrawnAdvisories
  <1>5. HeadRevision' = HeadRevision
    <2> SUFFICES ASSUME NEW a \in Advisories PROVE HeadRevision'[a] = HeadRevision[a]
      BY DEF HeadRevision
    <2> QED
      BY <1>1, <1>2, <1>3 DEF HeadRevision
  <1>6. StoredRevisions' = StoredRevisions
    BY <1>2 DEF StoredRevisions, RowsOf
  <1>7. \A a \in m : HeadRevision[a] # NULL
    BY <1>1, HeadRow DEF HeadRevision
  <1> QED
    BY <1>1, <1>4, <1>5, <1>6, <1>7 DEF Log!Withdraw, Log!Known

LEMMA LogStep == IInv /\ [Next]_vars => [Log!LogNext]_(Log!logVars)
  <1> SUFFICES ASSUME IInv, [Next]_vars PROVE [Log!LogNext]_(Log!logVars)
    OBVIOUS
  <1>1. ASSUME NEW w \in Workers, NEW heard \in BOOLEAN, CommitStore(w, heard)
        PROVE  Log!LogNext
    <2>1. tx[w].rev \in Revisions /\ tx[w].rev.adv \in Advisories
      BY <1>1, CommitStoreRows, RowTypes DEF IInv, CommitStore
    <2> QED
      BY <1>1, <2>1, LogStore DEF Log!LogNext
  <1>2. ASSUME NEW w \in Workers, CommitSweep(w) PROVE Log!LogNext
    BY <1>2, LogSweep DEF Log!LogNext
  <1>3. ASSUME UNCHANGED tables PROVE UNCHANGED Log!logVars
    BY <1>3 DEF tables, Log!logVars, StoredRevisions, HeadRevision, WithdrawnAdvisories, RowsOf
  <1> QED
    BY <1>1, <1>2, <1>3
       DEF Next, vars, tables, UpsertAdvisory, InsertDocument, DecideLead, BeginSweep, SweepRow,
           Rollback

\* The transactions of pkg/database implement the atomic store that the ingestion cycle
\* is modelled on.
THEOREM Refinement == Spec => ImplementsLog
  <1>1. IInv /\ [Next]_vars => [Log!LogNext]_(Log!logVars)
    BY LogStep
  <1> QED
    BY <1>1, LogInitial, Inductive, PTL DEF Spec, ImplementsLog, Log!LogSpec
==============================================================================
