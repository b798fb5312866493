------------------------- MODULE AdvisoryStoreProofs -------------------------
(***************************************************************************)
(* Proofs about AdvisoryStore, for every set of advisories, revisions and  *)
(* workers and every bound on the document ids.                            *)
(*                                                                         *)
(* The safety properties of the tables are not inductive by themselves: a  *)
(* COMMIT applies what its transaction decided several statements ago.     *)
(* LockInv says that a transaction still holds the row it wrote, and TxInv *)
(* that therefore what it read is still true of the committed tables.      *)
(***************************************************************************)
EXTENDS AdvisoryStore, TLAPS

StoreSteps == {"upserted", "inserted", "duplicate", "decided", "unique_violation"}

\* An open transaction holds the lock of every advisory row it has written.
LockInv ==
    \A w \in Workers :
        /\ tx[w].step \in StoreSteps =>
              /\ tx[w].rev \in Revisions
              /\ lock[tx[w].rev.adv] = w
        /\ \A a \in tx[w].marked : lock[a] = w
        /\ \A a \in tx[w].targets \union tx[w].marked : advisories[a] # NULL
        /\ tx[w].step # "sweeping" => tx[w].marked = {} /\ tx[w].targets = {}

\* Document ids in use have been drawn from the sequence, each for one row.
IdInv ==
    /\ \A d \in DocIds : documents[d] # NULL => d <= sequence
    /\ \A w \in Workers : tx[w].doc # NULL =>
          tx[w].doc <= sequence /\ documents[tx[w].doc] = NULL
    /\ \A v, w \in Workers : tx[v].doc # NULL /\ tx[v].doc = tx[w].doc => v = w

\* What a transaction has read and decided agrees with the committed tables.
TxOK(t) ==
    /\ t.step # "unique_violation"
    /\ t.step \in {"inserted", "decided"} =>
          /\ t.doc # NULL
          /\ t.old = CurrentHead(t.rev.adv)
          /\ ~KeyTaken(t.rev)
    /\ t.step = "decided" => (t.leads <=> Leads(t.rev, t.old))
    /\ t.step = "duplicate" => KeyTaken(t.rev)
    /\ t.step \in {"upserted", "duplicate"} => t.doc = NULL
    /\ t.step # "decided" => ~t.leads

TxInv == \A w \in Workers : TxOK(tx[w])

IInv ==
    /\ TypeOK
    /\ LockInv
    /\ IdInv
    /\ TxInv
    /\ HeadConsistent
    /\ HeadMaximal
    /\ RevisionsUnique
    /\ AckedDurable

------------------------------------------------------------------------------
(* The order of revisions.                                                 *)

\* Newer is a strict order, also where dates or lengths are NULL.
LEMMA NewerStrict ==
    ASSUME NEW r \in Revisions, NEW s \in Revisions, NEW u \in Revisions
    PROVE  /\ ~Newer(r, r)
           /\ Newer(r, s) /\ Newer(s, u) => Newer(r, u)
  <1>1. /\ {r, s, u} \subseteq Revision
        /\ NULL \notin Nat
    BY RevisionAssumption
  <1>2. \A x \in {r, s, u} :
            /\ x.date \in Nat \union {NULL}
            /\ x.len \in Nat \union {NULL}
    BY <1>1 DEF Revision
  <1> QED
    BY <1>1, <1>2 DEF Newer, SqlGreater, SqlEqual

------------------------------------------------------------------------------
(* Types.                                                                  *)

LEMMA RowTypes ==
    ASSUME TypeOK
    PROVE  /\ \A d \in DocIds : documents[d] # NULL =>
                  documents[d] \in DocumentRow /\ documents[d].rev.adv \in Advisories
           /\ \A a \in Advisories : advisories[a] # NULL => advisories[a] \in AdvisoryRow
           /\ \A a \in Advisories : CurrentHead(a) \in DocIds \union {NULL}
           /\ \A r \in Revisions : r.adv \in Advisories
  <1>1. \A r \in Revisions : r.adv \in Advisories
    BY RevisionAssumption DEF Revision
  <1>2. \A d \in DocIds : documents[d] # NULL => documents[d] \in DocumentRow
    BY DEF TypeOK
  <1>3. \A a \in Advisories : CurrentHead(a) \in DocIds \union {NULL}
    BY DEF CurrentHead, LatestOf, RowsOf
  <1> QED
    BY <1>1, <1>2, <1>3 DEF TypeOK, DocumentRow

LEMMA IdFacts == NULL \notin DocIds /\ DocIds \subseteq Nat
  BY RevisionAssumption, MaxDocIdAssumption DEF DocIds

LEMMA InitType == Init => TypeOK
  BY MaxDocIdAssumption DEF Init, TypeOK, Idle, Storing, Transaction, Steps, DocIds

LEMMA ReleaseType ==
    ASSUME TypeOK, NEW w \in Workers, Release(w)
    PROVE  /\ lock' \in [Advisories -> Workers \union {NULL}]
           /\ tx' \in [Workers -> Transaction]
  BY DEF Release, TypeOK, Idle, Storing, Transaction, Steps

------------------------------------------------------------------------------
(* The head, as a transaction of the advisory sees it.                     *)

\* Between statements the SELECT of update_advisory finds latest_document_id.
LEMMA HeadIsPointer ==
    ASSUME HeadConsistent, TypeOK, NEW a \in Advisories
    PROVE  CurrentHead(a) = IF advisories[a] = NULL THEN NULL
                            ELSE advisories[a].latest_document_id
  BY DEF HeadConsistent, CurrentHead, LatestOf

\* A transaction about to commit without a new head updates an advisory that exists.
LEMMA HeadExists ==
    ASSUME IInv, NEW w \in Workers, tx[w].step \in {"duplicate", "decided"}, ~tx[w].leads
    PROVE  advisories[tx[w].rev.adv] # NULL
  <1> DEFINE t == tx[w]
             a == t.rev.adv
  <1>0. t.rev \in Revisions /\ a \in Advisories
    BY RowTypes DEF IInv, LockInv, StoreSteps
  <1>1. CASE t.step = "duplicate"
    <2>1. RowsOf(a) # {}
      BY <1>1 DEF IInv, TxInv, TxOK, KeyTaken
    <2> QED
      BY <1>0, <2>1 DEF IInv, HeadConsistent
  <1>2. CASE t.step = "decided"
    <2>1. CurrentHead(a) # NULL
      BY <1>2 DEF IInv, TxInv, TxOK, Leads
    <2> QED
      BY <1>0, <2>1, HeadIsPointer DEF IInv
  <1> QED
    BY <1>1, <1>2

\* The rows that the two kinds of commit write.
LEMMA CommitStoreRows ==
    ASSUME IInv, NEW w \in Workers, tx[w].step \in {"duplicate", "decided"}
    PROVE  /\ tx[w].rev \in Revisions
           /\ [rev |-> tx[w].rev, latest |-> tx[w].leads] \in DocumentRow
           /\ \A d \in DocIds : tx[w].leads /\ d = tx[w].old =>
                 [documents[d] EXCEPT !.latest = FALSE] \in DocumentRow
           /\ [latest_document_id |-> Pointer(tx[w]), withdrawn |-> Tombstoned(tx[w])]
                 \in AdvisoryRow
  <1> DEFINE t == tx[w]
  <1>1. t \in Transaction /\ t.rev \in Revisions
    BY DEF IInv, LockInv, StoreSteps, TypeOK
  <1>2. [rev |-> t.rev, latest |-> t.leads] \in DocumentRow
    BY <1>1 DEF DocumentRow, Transaction
  <1>3. \A d \in DocIds : t.leads /\ d = t.old =>
          [documents[d] EXCEPT !.latest = FALSE] \in DocumentRow
    <2>1. t.leads => t.old = CurrentHead(t.rev.adv)
      BY DEF IInv, TxInv, TxOK
    <2>2. \A d \in DocIds : d = CurrentHead(t.rev.adv) => documents[d] # NULL
      BY IdFacts DEF CurrentHead, LatestOf, RowsOf
    <2>3. \A d \in DocIds : documents[d] # NULL => documents[d] \in DocumentRow
      BY RowTypes DEF IInv
    <2> QED
      BY <2>1, <2>2, <2>3 DEF DocumentRow
  <1>4. Pointer(t) \in DocIds
    <2>1. t.leads => t.doc \in DocIds
      BY <1>1 DEF IInv, TxInv, TxOK, Transaction
    <2>2. ~t.leads => advisories[t.rev.adv] \in AdvisoryRow
      BY <1>1, HeadExists, RowTypes DEF IInv
    <2> QED
      BY <2>1, <2>2 DEF Pointer, AdvisoryRow
  <1> QED
    BY <1>1, <1>2, <1>3, <1>4 DEF Tombstoned, AdvisoryRow

LEMMA CommitSweepRows ==
    ASSUME IInv, NEW w \in Workers, NEW a \in Advisories, a \in tx[w].marked
    PROVE  [advisories[a] EXCEPT !.withdrawn = TRUE] \in AdvisoryRow
  <1>1. advisories[a] \in AdvisoryRow
    BY RowTypes DEF IInv, LockInv
  <1> QED
    BY <1>1 DEF AdvisoryRow

\* Every step preserves the types.  A commit needs more: it makes rows from what its
\* transaction recorded, and updates an advisory row that must be there.
LEMMA TypeStep == IInv /\ [Next]_vars => TypeOK'
  <1> SUFFICES ASSUME IInv, [Next]_vars PROVE TypeOK'
    OBVIOUS
  <1>0. TypeOK
    BY DEF IInv
  <1> USE <1>0, RowTypes, IdFacts
  <1>1. ASSUME NEW w \in Workers, NEW r \in Revisions, UpsertAdvisory(w, r)
        PROVE  TypeOK'
    BY <1>1 DEF UpsertAdvisory, TypeOK, Storing, Transaction, Steps
  <1>2. ASSUME NEW w \in Workers, InsertDocument(w)
        PROVE  TypeOK'
    <2> DEFINE r == tx[w].rev
    <2>1. tx[w] \in Transaction
      BY DEF TypeOK
    <2>2. sequence' \in 0 .. MaxDocId /\ sequence + 1 \in DocIds
      BY <1>2, MaxDocIdAssumption DEF InsertDocument, TypeOK, DocIds
    <2>3. CurrentHead(r.adv) \in DocIds \union {NULL}
      BY DEF CurrentHead, LatestOf, RowsOf
    <2>4. tx' \in [Workers -> Transaction]
      BY <1>2, <2>1, <2>2, <2>3 DEF InsertDocument, TypeOK, Storing, Transaction, Steps
    <2> QED
      BY <1>2, <2>2, <2>4 DEF InsertDocument, TypeOK
  <1>3. ASSUME NEW w \in Workers, DecideLead(w)
        PROVE  TypeOK'
    <2>1. tx[w] \in Transaction
      BY DEF TypeOK
    <2>2. Leads(tx[w].rev, tx[w].old) \in BOOLEAN
      BY DEF Leads, Newer, SqlGreater, SqlEqual
    <2>3. tx' \in [Workers -> Transaction]
      BY <1>3, <2>1, <2>2 DEF DecideLead, TypeOK, Storing, Transaction, Steps
    <2> QED
      BY <1>3, <2>3 DEF DecideLead, TypeOK
  <1>4. ASSUME NEW w \in Workers, NEW heard \in BOOLEAN, CommitStore(w, heard)
        PROVE  TypeOK'
    <2> DEFINE t == tx[w]
    <2>1. t \in Transaction /\ t.rev \in Revisions
      BY <1>4, CommitStoreRows DEF CommitStore, TypeOK
    <2>2. documents' \in [DocIds -> DocumentRow \union {NULL}]
      BY <1>4, CommitStoreRows DEF CommitStore, CommittedDocuments, TypeOK
    <2>4. advisories' \in [Advisories -> AdvisoryRow \union {NULL}]
      BY <1>4, CommitStoreRows DEF CommitStore, TypeOK
    <2>5. acked' \subseteq Revisions
      BY <1>4, <2>1 DEF CommitStore, TypeOK
    <2> QED
      BY <1>4, <2>2, <2>4, <2>5, ReleaseType DEF CommitStore, TypeOK
  <1>5. ASSUME NEW w \in Workers, NEW present \in SUBSET Advisories, BeginSweep(w, present)
        PROVE  TypeOK'
    BY <1>5 DEF BeginSweep, TypeOK, Sweeping, Transaction, Steps
  <1>6. ASSUME NEW w \in Workers, NEW a \in Advisories, SweepRow(w, a)
        PROVE  TypeOK'
    <2>1. tx[w] \in Transaction
      BY DEF TypeOK
    <2> QED
      BY <1>6, <2>1 DEF SweepRow, TypeOK, Sweeping, Transaction, Steps
  <1>7. ASSUME NEW w \in Workers, CommitSweep(w)
        PROVE  TypeOK'
    BY <1>7, CommitSweepRows, ReleaseType DEF CommitSweep, TypeOK
  <1>8. ASSUME NEW w \in Workers, Rollback(w)
        PROVE  TypeOK'
    BY <1>8, ReleaseType DEF Rollback, TypeOK
  <1>9. CASE UNCHANGED vars
    BY <1>9 DEF vars, TypeOK
  <1> QED
    BY <1>1, <1>2, <1>3, <1>4, <1>5, <1>6, <1>7, <1>8, <1>9 DEF Next

------------------------------------------------------------------------------
(* Locks and ids.                                                          *)

\* Giving the locks of w back takes none from another worker.
LEMMA ReleaseLocks ==
    ASSUME TypeOK, LockInv, NEW w \in Workers, Release(w),
           \A a \in Advisories : advisories[a] # NULL => advisories'[a] # NULL
    PROVE  LockInv'
  <1>1. tx'[w] = Idle /\ \A v \in Workers \ {w} : tx'[v] = tx[v]
    BY DEF Release, TypeOK
  <1>2. \A a \in Advisories : lock[a] # w => lock'[a] = lock[a]
    BY DEF Release
  <1>3. \A v \in Workers : tx[v].targets \union tx[v].marked \subseteq Advisories
    BY DEF TypeOK, Transaction
  <1>4. \A r \in Revisions : r.adv \in Advisories
    BY RowTypes
  <1> SUFFICES ASSUME NEW v \in Workers
               PROVE  /\ tx'[v].step \in StoreSteps =>
                            tx'[v].rev \in Revisions /\ lock'[tx'[v].rev.adv] = v
                      /\ \A a \in tx'[v].marked : lock'[a] = v
                      /\ \A a \in tx'[v].targets \union tx'[v].marked : advisories'[a] # NULL
                      /\ tx'[v].step # "sweeping" => tx'[v].marked = {} /\ tx'[v].targets = {}
    BY DEF LockInv
  <1>5. CASE v = w
    BY <1>1, <1>5 DEF Idle, Storing, StoreSteps
  <1>6. CASE v # w
    BY <1>1, <1>2, <1>3, <1>4, <1>6 DEF LockInv
  <1> QED
    BY <1>5, <1>6

LEMMA LockStep == IInv /\ [Next]_vars => LockInv'
  <1> SUFFICES ASSUME IInv, [Next]_vars PROVE LockInv'
    OBVIOUS
  <1>0. TypeOK /\ LockInv
    BY DEF IInv
  <1> USE <1>0, RowTypes, WorkerAssumption
  <1>1. ASSUME NEW w \in Workers, NEW r \in Revisions, UpsertAdvisory(w, r)
        PROVE  LockInv'
    BY <1>1 DEF UpsertAdvisory, FreeFor, Storing, LockInv, TypeOK, StoreSteps
  <1>2. ASSUME NEW w \in Workers, InsertDocument(w)
        PROVE  LockInv'
    BY <1>2 DEF InsertDocument, Storing, LockInv, TypeOK, StoreSteps
  <1>3. ASSUME NEW w \in Workers, DecideLead(w)
        PROVE  LockInv'
    BY <1>3 DEF DecideLead, Storing, LockInv, TypeOK, StoreSteps
  <1>4. ASSUME NEW w \in Workers, NEW heard \in BOOLEAN, CommitStore(w, heard)
        PROVE  LockInv'
    <2>1. \A a \in Advisories : advisories[a] # NULL => advisories'[a] # NULL
      BY <1>4, CommitStoreRows, RowAssumption DEF CommitStore, TypeOK
    <2> QED
      BY <1>4, <2>1, ReleaseLocks DEF CommitStore
  <1>5. ASSUME NEW w \in Workers, NEW present \in SUBSET Advisories, BeginSweep(w, present)
        PROVE  LockInv'
    BY <1>5 DEF BeginSweep, Sweeping, Active, LockInv, TypeOK, StoreSteps
  <1>6. ASSUME NEW w \in Workers, NEW a \in Advisories, SweepRow(w, a)
        PROVE  LockInv'
    BY <1>6 DEF SweepRow, FreeFor, Sweeping, Active, LockInv, TypeOK, StoreSteps
  <1>7. ASSUME NEW w \in Workers, CommitSweep(w)
        PROVE  LockInv'
    <2>1. \A a \in Advisories : advisories[a] # NULL => advisories'[a] # NULL
      BY <1>7, CommitSweepRows, RowAssumption DEF CommitSweep
    <2> QED
      BY <1>7, <2>1, ReleaseLocks DEF CommitSweep
  <1>8. ASSUME NEW w \in Workers, Rollback(w)
        PROVE  LockInv'
    BY <1>8, ReleaseLocks DEF Rollback
  <1>9. CASE UNCHANGED vars
    BY <1>9 DEF vars, LockInv
  <1> QED
    BY <1>1, <1>2, <1>3, <1>4, <1>5, <1>6, <1>7, <1>8, <1>9 DEF Next

\* Which rows a store's COMMIT adds and which row it makes the head.
LEMMA CommitStoreTables ==
    ASSUME IInv, NEW w \in Workers, NEW heard \in BOOLEAN, CommitStore(w, heard)
    PROVE  LET t == tx[w] IN
           /\ \A b \in Advisories :
                 RowsOf(b)' = RowsOf(b) \union
                                (IF t.doc # NULL /\ b = t.rev.adv THEN {t.doc} ELSE {})
           /\ \A b \in Advisories :
                 LatestOf(b)' = IF t.leads /\ b = t.rev.adv THEN {t.doc} ELSE LatestOf(b)
           /\ \A d \in DocIds : documents[d] # NULL =>
                 documents'[d] # NULL /\ documents'[d].rev = documents[d].rev
           /\ t.doc # NULL => documents'[t.doc] = [rev |-> t.rev, latest |-> t.leads]
           /\ \A d \in DocIds : d # t.doc => (documents'[d] = NULL <=> documents[d] = NULL)
  <1> DEFINE t == tx[w]
  <1>1. /\ t.step \in {"duplicate", "decided"}
        /\ documents' = CommittedDocuments(t)
    BY DEF CommitStore
  <1>2. /\ t.doc \in DocIds \union {NULL}
        /\ t.doc # NULL => documents[t.doc] = NULL
        /\ t.leads => t.doc # NULL /\ t.old = CurrentHead(t.rev.adv)
        /\ t.rev \in Revisions /\ t.rev.adv \in Advisories
    BY <1>1, RowTypes, CommitStoreRows DEF IInv, IdInv, TxInv, TxOK, TypeOK, Transaction
  <1>3. \A d \in DocIds : documents[d] # NULL =>
            documents'[d] # NULL /\ documents'[d].rev = documents[d].rev
    <2> SUFFICES ASSUME NEW d \in DocIds, documents[d] # NULL
                 PROVE  documents'[d] # NULL /\ documents'[d].rev = documents[d].rev
      OBVIOUS
    <2>1. d # t.doc
      BY <1>2, IdFacts
    <2>2. documents[d] \in DocumentRow
      BY RowTypes DEF IInv
    <2>3. CASE t.leads /\ d = t.old
      <3>1. documents'[d] = [documents[d] EXCEPT !.latest = FALSE]
        BY <1>1, <2>1, <2>3 DEF CommittedDocuments
      <3>2. documents'[d] \in DocumentRow
        BY <1>1, <2>3, <3>1, CommitStoreRows
      <3> QED
        BY <2>2, <3>1, <3>2, RowAssumption DEF DocumentRow
    <2>4. CASE ~(t.leads /\ d = t.old)
      BY <1>1, <2>1, <2>4 DEF CommittedDocuments
    <2> QED
      BY <2>3, <2>4
  <1>4. t.doc # NULL => documents'[t.doc] = [rev |-> t.rev, latest |-> t.leads]
    BY <1>1, <1>2 DEF CommittedDocuments
  <1>5. t.doc # NULL => documents'[t.doc] # NULL /\ documents'[t.doc].rev = t.rev
    <2>1. [rev |-> t.rev, latest |-> t.leads] \in DocumentRow
      BY <1>1, CommitStoreRows
    <2>2. [rev |-> t.rev, latest |-> t.leads] # NULL
      BY <2>1, RowAssumption
    <2> QED
      BY <1>4, <2>2
  <1>6. \A d \in DocIds : d # t.doc => (documents'[d] = NULL <=> documents[d] = NULL)
    <2> SUFFICES ASSUME NEW d \in DocIds, d # t.doc, documents[d] = NULL
                 PROVE  documents'[d] = NULL
      BY <1>3
    <2>1. ~(t.leads /\ d = t.old)
      BY <1>2, IdFacts DEF CurrentHead, LatestOf, RowsOf
    <2> QED
      BY <1>1, <2>1 DEF CommittedDocuments
  <1>7. \A b \in Advisories :
            RowsOf(b)' = RowsOf(b) \union
                           (IF t.doc # NULL /\ b = t.rev.adv THEN {t.doc} ELSE {})
    BY <1>2, <1>3, <1>5, <1>6, IdFacts DEF RowsOf
  <1>8. ASSUME NEW b \in Advisories
        PROVE  LatestOf(b)' = IF t.leads /\ b = t.rev.adv THEN {t.doc} ELSE LatestOf(b)
    <2>1. \A d \in DocIds : d # t.doc /\ documents[d] # NULL =>
            documents'[d].latest = IF t.leads /\ d = t.old THEN FALSE ELSE documents[d].latest
      <3>1. \A d \in DocIds : documents[d] # NULL => documents[d] \in DocumentRow
        BY RowTypes DEF IInv
      <3> QED
        BY <1>1, <3>1 DEF CommittedDocuments, DocumentRow
    <2>2. t.doc # NULL => documents'[t.doc].latest = t.leads
      BY <1>4
    <2>3. t.leads => LatestOf(t.rev.adv) = IF t.old = NULL THEN {} ELSE {t.old}
      <3> DEFINE a == t.rev.adv
      <3>1. /\ HeadConsistent /\ TypeOK
            /\ LatestOf(a) = IF advisories[a] = NULL THEN {} ELSE {advisories[a].latest_document_id}
        BY <1>2 DEF IInv, HeadConsistent, LatestOf
      <3>2. CurrentHead(a) = IF advisories[a] = NULL THEN NULL
                             ELSE advisories[a].latest_document_id
        BY <1>2, <3>1, HeadIsPointer
      <3>3. advisories[a] # NULL => advisories[a].latest_document_id # NULL
        BY <1>2, <3>1, RowTypes, IdFacts DEF AdvisoryRow
      <3> QED
        BY <1>2, <3>1, <3>2, <3>3
    <2>4. t.leads /\ b # t.rev.adv => t.old \notin RowsOf(b)
      <3>1. CASE t.old = NULL
        BY <3>1, IdFacts DEF RowsOf
      <3>2. CASE t.leads /\ t.old # NULL
        BY <2>3, <3>2 DEF LatestOf, RowsOf
      <3> QED
        BY <3>1, <3>2
    <2> QED
      <3>1. CASE b = t.rev.adv /\ t.leads
        <4>1. ASSUME NEW d \in RowsOf(b)', d # t.doc
              PROVE  ~documents'[d].latest
          <5>1. d \in RowsOf(b) /\ d \in DocIds /\ documents[d] # NULL
            BY <1>7, <4>1 DEF RowsOf
          <5>2. CASE d = t.old
            BY <2>1, <3>1, <4>1, <5>1, <5>2
          <5>3. CASE d # t.old
            <6>1. d \notin LatestOf(b)
              BY <2>3, <3>1, <5>3
            <6> QED
              BY <2>1, <3>1, <4>1, <5>1, <5>3, <6>1 DEF LatestOf
          <5> QED
            BY <5>2, <5>3
        <4>2. t.doc \in RowsOf(b)' /\ documents'[t.doc].latest
          BY <1>2, <1>7, <2>2, <3>1
        <4> QED
          BY <3>1, <4>1, <4>2 DEF LatestOf
      <3>2. CASE b = t.rev.adv /\ ~t.leads
        <4>1. \A d \in RowsOf(b)' : documents'[d].latest <=> d \in LatestOf(b)
          BY <1>2, <1>7, <2>1, <2>2, <3>2, IdFacts DEF LatestOf, RowsOf
        <4> QED
          BY <1>7, <3>2, <4>1 DEF LatestOf
      <3>3. CASE b # t.rev.adv
        <4>1. RowsOf(b)' = RowsOf(b)
          BY <1>7, <3>3
        <4>2. \A d \in RowsOf(b) : documents'[d].latest = documents[d].latest
          BY <1>2, <2>1, <2>4, <3>3, IdFacts DEF RowsOf
        <4> QED
          BY <3>3, <4>1, <4>2 DEF LatestOf
      <3> QED
        BY <3>1, <3>2, <3>3
  <1> QED
    BY <1>3, <1>4, <1>6, <1>7, <1>8

LEMMA IdStep == IInv /\ [Next]_vars => IdInv'
  <1> SUFFICES ASSUME IInv, [Next]_vars PROVE IdInv'
    OBVIOUS
  <1>0. TypeOK /\ IdInv
    BY DEF IInv
  <1> USE <1>0, IdFacts
  <1>1. ASSUME NEW w \in Workers, NEW r \in Revisions, UpsertAdvisory(w, r)
        PROVE  IdInv'
    BY <1>1 DEF UpsertAdvisory, Storing, IdInv, TypeOK
  <1>2. ASSUME NEW w \in Workers, InsertDocument(w)
        PROVE  IdInv'
    <2>1. sequence \in Nat /\ sequence + 1 \in DocIds /\ sequence' = sequence + 1
      BY <1>2, MaxDocIdAssumption DEF InsertDocument, TypeOK, DocIds
    <2>2. documents[sequence + 1] = NULL
      BY <2>1 DEF IdInv
    <2>3. \A v \in Workers : tx[v].doc # NULL => tx[v].doc \in Nat
      BY DEF TypeOK, Transaction
    <2>4. tx'[w].doc \in {NULL, sequence + 1} /\ \A v \in Workers \ {w} : tx'[v] = tx[v]
      BY <1>2 DEF InsertDocument, Storing, TypeOK
    <2>5. \A d \in DocIds : d \in Nat
      OBVIOUS
    <2> QED
      <3>1. \A d \in DocIds : d <= sequence => d <= sequence' /\ d # sequence + 1
        BY <2>1, <2>5
      <3>2. \A v \in Workers \ {w} : tx[v].doc # NULL =>
              /\ tx[v].doc \in DocIds
              /\ tx[v].doc <= sequence' /\ tx[v].doc # sequence + 1
              /\ documents[tx[v].doc] = NULL
        BY <3>1 DEF IdInv, TypeOK, Transaction
      <3>3. tx'[w].doc # NULL => tx'[w].doc <= sequence' /\ documents[tx'[w].doc] = NULL
        BY <2>1, <2>2, <2>4
      <3>4. UNCHANGED documents
        BY <1>2 DEF InsertDocument
      <3>5. \A d \in DocIds : documents'[d] # NULL => d <= sequence'
        BY <3>1, <3>4 DEF IdInv
      <3>6. \A v \in Workers : tx'[v].doc # NULL =>
              tx'[v].doc <= sequence' /\ documents'[tx'[v].doc] = NULL
        BY <2>4, <3>2, <3>3, <3>4
      <3>7. ASSUME NEW u \in Workers, NEW v \in Workers,
                   tx'[u].doc # NULL, tx'[u].doc = tx'[v].doc
            PROVE  u = v
        BY <2>4, <3>2, <3>7 DEF IdInv
      <3> QED
        BY <3>5, <3>6, <3>7 DEF IdInv
  <1>3. ASSUME NEW w \in Workers, DecideLead(w)
        PROVE  IdInv'
    <2>1. \A v \in Workers : tx'[v].doc = tx[v].doc
      BY <1>3 DEF DecideLead, Storing, TypeOK
    <2> QED
      <3>1. UNCHANGED <<documents, sequence>>
        BY <1>3 DEF DecideLead
      <3>2. \A v \in Workers : tx'[v].doc # NULL =>
              tx'[v].doc <= sequence' /\ documents'[tx'[v].doc] = NULL
        BY <2>1, <3>1 DEF IdInv
      <3>3. ASSUME NEW u \in Workers, NEW v \in Workers,
                   tx'[u].doc # NULL, tx'[u].doc = tx'[v].doc
            PROVE  u = v
        BY <2>1, <3>3 DEF IdInv
      <3> QED
        BY <3>1, <3>2, <3>3 DEF IdInv
  <1>4. ASSUME NEW w \in Workers, NEW heard \in BOOLEAN, CommitStore(w, heard)
        PROVE  IdInv'
    <2>1. tx'[w].doc = NULL /\ \A v \in Workers \ {w} : tx'[v] = tx[v]
      BY <1>4 DEF CommitStore, Release, Idle, Storing, TypeOK
    <2>2. \A d \in DocIds : documents'[d] # NULL => d <= sequence
      BY <1>4, CommitStoreTables DEF IdInv
    <2>3. \A v \in Workers \ {w} : tx[v].doc # NULL => documents'[tx[v].doc] = NULL
      <3>1. \A v \in Workers \ {w} : tx[v].doc # NULL => tx[v].doc # tx[w].doc
        BY DEF IdInv
      <3>2. \A v \in Workers : tx[v].doc # NULL => tx[v].doc \in DocIds
        BY DEF TypeOK, Transaction
      <3> QED
        BY <1>4, <3>1, <3>2, CommitStoreTables DEF IdInv
    <2>4. UNCHANGED sequence
      BY <1>4 DEF CommitStore
    <2>5. \A v \in Workers : tx'[v].doc # NULL =>
            tx'[v].doc <= sequence' /\ documents'[tx'[v].doc] = NULL
      BY <2>1, <2>3, <2>4 DEF IdInv
    <2>6. ASSUME NEW u \in Workers, NEW v \in Workers,
                 tx'[u].doc # NULL, tx'[u].doc = tx'[v].doc
          PROVE  u = v
      BY <2>1, <2>6 DEF IdInv
    <2> QED
      BY <2>2, <2>4, <2>5, <2>6 DEF IdInv
  <1>5. ASSUME NEW w \in Workers, NEW present \in SUBSET Advisories, BeginSweep(w, present)
        PROVE  IdInv'
    BY <1>5 DEF BeginSweep, Sweeping, IdInv, TypeOK
  <1>6. ASSUME NEW w \in Workers, NEW a \in Advisories, SweepRow(w, a)
        PROVE  IdInv'
    BY <1>6 DEF SweepRow, Sweeping, IdInv, TypeOK
  <1>7. ASSUME NEW w \in Workers, CommitSweep(w)
        PROVE  IdInv'
    BY <1>7 DEF CommitSweep, Release, Idle, Storing, IdInv, TypeOK
  <1>8. ASSUME NEW w \in Workers, Rollback(w)
        PROVE  IdInv'
    BY <1>8 DEF Rollback, Release, Idle, Storing, IdInv, TypeOK
  <1>9. CASE UNCHANGED vars
    BY <1>9 DEF vars, IdInv
  <1> QED
    BY <1>1, <1>2, <1>3, <1>4, <1>5, <1>6, <1>7, <1>8, <1>9 DEF Next

------------------------------------------------------------------------------
(* What transactions have read stays true.                                 *)

\* The tables an advisory's transaction looks at are as they were.
SameRows(a) ==
    /\ RowsOf(a)' = RowsOf(a)
    /\ LatestOf(a)' = LatestOf(a)
    /\ \A d \in RowsOf(a) : documents'[d].rev = documents[d].rev

\* A step that leaves v and the rows of its advisory alone leaves v right.
LEMMA TxFrame ==
    ASSUME TypeOK, LockInv, NEW v \in Workers, tx'[v] = tx[v], TxOK(tx[v]),
           tx[v].step \in StoreSteps =>
              \A a \in Advisories : a = tx[v].rev.adv => SameRows(a)
    PROVE  TxOK(tx[v])'
  <1> DEFINE t == tx[v]
  <1>1. CASE tx[v].step \notin StoreSteps
    BY <1>1 DEF TxOK, StoreSteps
  <1>2. CASE tx[v].step \in StoreSteps
    <2> DEFINE a == tx[v].rev.adv
    <2>1. a \in Advisories /\ SameRows(a)
      BY <1>2, RowTypes DEF LockInv
    <2>2. CurrentHead(tx[v].rev.adv)' = CurrentHead(tx[v].rev.adv)
      BY <2>1 DEF CurrentHead, SameRows
    <2>3. KeyTaken(tx[v].rev)' <=> KeyTaken(tx[v].rev)
      BY <2>1 DEF KeyTaken, SameRows
    <2>4. tx[v].old = CurrentHead(a) =>
            (Leads(tx[v].rev, tx[v].old)' <=> Leads(tx[v].rev, tx[v].old))
      <3>1. CurrentHead(a) # NULL => CurrentHead(a) \in RowsOf(a)
        BY DEF CurrentHead, LatestOf
      <3> QED
        BY <2>1, <3>1 DEF Leads, SameRows
    <2> QED
      BY <2>2, <2>3, <2>4 DEF TxOK
  <1> QED
    BY <1>1, <1>2

\* A store's COMMIT leaves the rows of other advisories alone.
LEMMA CommitStoreFrame ==
    ASSUME IInv, NEW w \in Workers, NEW heard \in BOOLEAN, CommitStore(w, heard),
           NEW a \in Advisories, a # tx[w].rev.adv
    PROVE  SameRows(a)
  <1>1. RowsOf(a)' = RowsOf(a)
    BY CommitStoreTables
  <1>2. LatestOf(a)' = LatestOf(a)
    BY CommitStoreTables
  <1>3. \A d \in RowsOf(a) : documents'[d].rev = documents[d].rev
    BY CommitStoreTables DEF RowsOf
  <1> QED
    BY <1>1, <1>2, <1>3 DEF SameRows

LEMMA TxStep == IInv /\ [Next]_vars => TxInv'
  <1> SUFFICES ASSUME IInv, [Next]_vars, NEW v \in Workers PROVE TxOK(tx[v])'
    BY DEF TxInv
  <1>0. TypeOK /\ LockInv /\ TxOK(tx[v]) /\ HeadConsistent
    BY DEF IInv, TxInv
  <1> USE <1>0, RowTypes, IdFacts
  <1>same. UNCHANGED documents => \A a \in Advisories : SameRows(a)
    BY DEF SameRows, RowsOf, LatestOf
  <1>idle. tx'[v] = Idle => TxOK(tx[v])'
    BY DEF TxOK, Idle, Storing
  <1>1. ASSUME NEW w \in Workers, NEW r \in Revisions, UpsertAdvisory(w, r)
        PROVE  TxOK(tx[v])'
    <2>1. CASE v = w
      BY <1>1, <2>1 DEF UpsertAdvisory, TxOK, Storing, TypeOK
    <2>2. CASE v # w
      BY <1>1, <1>same, <2>2, TxFrame DEF UpsertAdvisory, TypeOK
    <2> QED
      BY <2>1, <2>2
  <1>2. ASSUME NEW w \in Workers, InsertDocument(w)
        PROVE  TxOK(tx[v])'
    <2>1. CASE v = w
      <3> DEFINE r == tx[w].rev
      <3>1. /\ KeyTaken(r) => tx'[v] = Storing("duplicate", r, NULL, NULL, FALSE)
            /\ ~KeyTaken(r) =>
                  tx'[v] = Storing("inserted", r, sequence + 1, CurrentHead(r.adv), FALSE)
        BY <1>2, <2>1 DEF InsertDocument, TypeOK
      <3>2. r.adv \in Advisories /\ SameRows(r.adv) /\ UNCHANGED documents
        BY <1>2, <1>same DEF InsertDocument, LockInv, StoreSteps
      <3>3. tx'[v].rev = r
        BY <3>1 DEF Storing
      <3>4. sequence + 1 # NULL
        BY <1>2, MaxDocIdAssumption DEF InsertDocument, TypeOK, DocIds
      <3>5. KeyTaken(tx[v].rev)' <=> KeyTaken(r)
        BY <3>2, <3>3 DEF KeyTaken, RowsOf
      <3>6. CurrentHead(tx[v].rev.adv)' = CurrentHead(r.adv)
        BY <3>2, <3>3 DEF CurrentHead, LatestOf, RowsOf
      <3> QED
        BY <3>1, <3>4, <3>5, <3>6 DEF TxOK, Storing
    <2>2. CASE v # w
      BY <1>2, <1>same, <2>2, TxFrame DEF InsertDocument, TypeOK
    <2> QED
      BY <2>1, <2>2
  <1>3. ASSUME NEW w \in Workers, DecideLead(w)
        PROVE  TxOK(tx[v])'
    <2>1. CASE v = w
      <3> DEFINE t == tx[w]
      <3>1. t.rev.adv \in Advisories /\ UNCHANGED documents
        BY <1>3 DEF DecideLead, LockInv, StoreSteps
      <3>2. LatestOf(t.rev.adv) \ {t.old} = {}
        <4>1. t.old = CurrentHead(t.rev.adv)
          BY <1>3, <2>1 DEF DecideLead, TxOK
        <4> QED
          BY <3>1, <4>1, HeadIsPointer DEF HeadConsistent, LatestOf
      <3>3. tx'[v] = Storing("decided", t.rev, t.doc, t.old, Leads(t.rev, t.old))
        BY <1>3, <2>1, <3>2 DEF DecideLead, TypeOK
      <3>4. KeyTaken(tx[v].rev)' <=> KeyTaken(t.rev)
        BY <3>1, <3>3 DEF KeyTaken, RowsOf, Storing
      <3>5. CurrentHead(tx[v].rev.adv)' = CurrentHead(t.rev.adv)
        BY <3>1, <3>3 DEF CurrentHead, LatestOf, RowsOf, Storing
      <3>6. Leads(tx[v].rev, tx[v].old)' <=> Leads(t.rev, t.old)
        BY <3>1, <3>3 DEF Leads, Storing
      <3>7. tx'[v].leads <=> Leads(t.rev, t.old)
        BY <3>3 DEF Storing
      <3> QED
        BY <1>3, <2>1, <3>3, <3>4, <3>5, <3>6, <3>7 DEF DecideLead, TxOK, Storing
    <2>2. CASE v # w
      BY <1>3, <1>same, <2>2, TxFrame DEF DecideLead, TypeOK
    <2> QED
      BY <2>1, <2>2
  <1>4. ASSUME NEW w \in Workers, NEW heard \in BOOLEAN, CommitStore(w, heard)
        PROVE  TxOK(tx[v])'
    <2>1. CASE v = w
      BY <1>4, <1>idle, <2>1 DEF CommitStore, Release, TypeOK
    <2>2. CASE v # w
      <3>1. tx[v].step \in StoreSteps => tx[v].rev.adv # tx[w].rev.adv
        BY <1>4, <2>2 DEF CommitStore, LockInv, StoreSteps
      <3>2. \A a \in Advisories : a # tx[w].rev.adv => SameRows(a)
        BY <1>4, CommitStoreFrame
      <3>3. tx'[v] = tx[v]
        BY <1>4, <2>2 DEF CommitStore, Release, TypeOK
      <3> QED
        BY <3>1, <3>2, <3>3, TxFrame
    <2> QED
      BY <2>1, <2>2
  <1>5. ASSUME NEW w \in Workers, NEW present \in SUBSET Advisories, BeginSweep(w, present)
        PROVE  TxOK(tx[v])'
    <2>1. CASE v = w
      BY <1>5, <2>1 DEF BeginSweep, TxOK, Sweeping, TypeOK
    <2>2. CASE v # w
      BY <1>5, <1>same, <2>2, TxFrame DEF BeginSweep, TypeOK
    <2> QED
      BY <2>1, <2>2
  <1>6. ASSUME NEW w \in Workers, NEW a \in Advisories, SweepRow(w, a)
        PROVE  TxOK(tx[v])'
    <2>1. CASE v = w
      BY <1>6, <2>1 DEF SweepRow, TxOK, Sweeping, TypeOK
    <2>2. CASE v # w
      BY <1>6, <1>same, <2>2, TxFrame DEF SweepRow, TypeOK
    <2> QED
      BY <2>1, <2>2
  <1>7. ASSUME NEW w \in Workers, CommitSweep(w)
        PROVE  TxOK(tx[v])'
    BY <1>7, <1>same, <1>idle, TxFrame DEF CommitSweep, Release, TypeOK
  <1>8. ASSUME NEW w \in Workers, Rollback(w)
        PROVE  TxOK(tx[v])'
    BY <1>8, <1>same, <1>idle, TxFrame DEF Rollback, Release, TypeOK
  <1>9. CASE UNCHANGED vars
    BY <1>9, <1>same, TxFrame DEF vars
  <1> QED
    BY <1>1, <1>2, <1>3, <1>4, <1>5, <1>6, <1>7, <1>8, <1>9 DEF Next

------------------------------------------------------------------------------
(* The properties of the tables.                                           *)

\* A store's COMMIT keeps the head consistent, maximal and the revisions unique.
LEMMA CommitStoreHead ==
    ASSUME IInv, NEW w \in Workers, NEW heard \in BOOLEAN, CommitStore(w, heard)
    PROVE  HeadConsistent'
  <1> DEFINE t == tx[w]
             a == t.rev.adv
  <1>1. /\ t.step \in {"duplicate", "decided"} /\ t.rev \in Revisions /\ a \in Advisories
        /\ advisories' = [advisories EXCEPT ![a] =
                            [latest_document_id |-> Pointer(t), withdrawn |-> Tombstoned(t)]]
    BY CommitStoreRows, RowTypes DEF CommitStore, IInv
  <1>2. advisories'[a] # NULL /\ advisories'[a].latest_document_id = Pointer(t)
    BY <1>1, CommitStoreRows, RowAssumption DEF IInv, TypeOK
  <1> SUFFICES ASSUME NEW b \in Advisories
               PROVE  IF advisories'[b] = NULL THEN RowsOf(b)' = {}
                      ELSE LatestOf(b)' = {advisories'[b].latest_document_id}
    BY DEF HeadConsistent
  <1>3. CASE b = a
    <2>1. CASE t.leads
      BY <1>2, <1>3, <2>1, CommitStoreTables DEF Pointer
    <2>2. CASE ~t.leads
      <3>1. advisories[a] # NULL
        BY <1>1, <2>2, HeadExists
      <3>2. LatestOf(a) = {advisories[a].latest_document_id}
        BY <1>1, <3>1 DEF IInv, HeadConsistent
      <3> QED
        BY <1>2, <1>3, <2>2, <3>2, CommitStoreTables DEF Pointer
    <2> QED
      BY <2>1, <2>2
  <1>4. CASE b # a
    <2>1. advisories'[b] = advisories[b]
      BY <1>1, <1>4 DEF IInv, TypeOK
    <2>2. RowsOf(b)' = RowsOf(b) /\ LatestOf(b)' = LatestOf(b)
      BY <1>4, CommitStoreTables
    <2> QED
      BY <2>1, <2>2 DEF IInv, HeadConsistent
  <1> QED
    BY <1>3, <1>4

LEMMA CommitStoreMaximal ==
    ASSUME IInv, NEW w \in Workers, NEW heard \in BOOLEAN, CommitStore(w, heard)
    PROVE  HeadMaximal'
  <1> DEFINE t == tx[w]
             a == t.rev.adv
  <1>1. /\ t.step \in {"duplicate", "decided"} /\ t.rev \in Revisions /\ a \in Advisories
    BY CommitStoreRows, RowTypes DEF CommitStore, IInv
  <1> SUFFICES ASSUME NEW b \in Advisories, NEW d \in RowsOf(b)', NEW h \in LatestOf(b)'
               PROVE  ~Newer(documents'[d].rev, documents'[h].rev)
    BY DEF HeadMaximal
  <1>2. \A e \in RowsOf(b) : documents'[e].rev = documents[e].rev /\ documents[e].rev \in Revisions
    BY CommitStoreTables, RowTypes DEF RowsOf, IInv, DocumentRow
  <1>3. \A e \in RowsOf(b), g \in LatestOf(b) : ~Newer(documents[e].rev, documents[g].rev)
    BY DEF IInv, HeadMaximal
  <1>4. LatestOf(b) \subseteq RowsOf(b)
    BY DEF LatestOf
  <1>5. CASE b # a \/ t.doc = NULL
    <2>1. RowsOf(b)' = RowsOf(b)
      BY <1>5, CommitStoreTables
    <2>2. LatestOf(b)' = LatestOf(b)
      BY <1>5, CommitStoreTables DEF IInv, TxInv, TxOK
    <2> QED
      BY <1>2, <1>3, <1>4, <2>1, <2>2
  <1>6. CASE b = a /\ t.doc # NULL
    <2>0. t.step = "decided" /\ t.old = CurrentHead(a) /\ (t.leads <=> Leads(t.rev, t.old))
      BY <1>1, <1>6 DEF IInv, TxInv, TxOK
    <2>1. RowsOf(b)' = RowsOf(b) \union {t.doc} /\ documents'[t.doc].rev = t.rev
      <3>1. RowsOf(b)' = RowsOf(b) \union {t.doc}
        BY <1>6, CommitStoreTables
      <3>2. documents'[t.doc] = [rev |-> t.rev, latest |-> t.leads]
        BY <1>6, CommitStoreTables
      <3> QED
        BY <3>1, <3>2
    <2>2. t.old = NULL => RowsOf(b) = {}
      BY <1>6, <2>0, HeadIsPointer, RowTypes, IdFacts DEF IInv, HeadConsistent, AdvisoryRow
    <2>3. t.old # NULL => LatestOf(b) = {t.old}
      BY <1>6, <2>0, HeadIsPointer DEF IInv, HeadConsistent
    <2>4. CASE t.leads
      <3>1. LatestOf(b)' = {t.doc}
        BY <1>6, <2>4, CommitStoreTables
      <3>2. CASE d = t.doc
        BY <1>1, <2>1, <3>1, <3>2, NewerStrict
      <3>3. CASE d \in RowsOf(b)
        <4>1. t.old # NULL /\ t.old \in RowsOf(b) /\ Newer(t.rev, documents[t.old].rev)
          BY <1>4, <2>0, <2>2, <2>3, <2>4, <3>3 DEF Leads
        <4>2. ~Newer(documents[d].rev, documents[t.old].rev)
          BY <1>3, <2>3, <3>3, <4>1
        <4> QED
          BY <1>1, <1>2, <2>1, <3>1, <3>3, <4>1, <4>2, NewerStrict
      <3> QED
        BY <2>1, <3>2, <3>3
    <2>5. CASE ~t.leads
      <3>1. t.old # NULL /\ ~Newer(t.rev, documents[t.old].rev)
        BY <2>0, <2>5 DEF Leads
      <3>2. h = t.old /\ h \in RowsOf(b)
        BY <1>4, <1>6, <2>3, <2>5, <3>1, CommitStoreTables
      <3> QED
        BY <1>2, <1>3, <2>1, <2>3, <3>1, <3>2
    <2> QED
      BY <2>4, <2>5
  <1> QED
    BY <1>5, <1>6

LEMMA CommitStoreUnique ==
    ASSUME IInv, NEW w \in Workers, NEW heard \in BOOLEAN, CommitStore(w, heard)
    PROVE  RevisionsUnique' /\ AckedDurable'
  <1> DEFINE t == tx[w]
  <1>1. /\ t.step \in {"duplicate", "decided"} /\ t.rev \in Revisions /\ t.rev.adv \in Advisories
        /\ TxOK(t)
    BY CommitStoreRows, RowTypes DEF CommitStore, IInv, TxInv
  <1>2. \A d \in DocIds : documents[d] # NULL =>
            documents'[d] # NULL /\ documents'[d].rev = documents[d].rev
    BY CommitStoreTables
  <1>3. \A d \in DocIds : documents'[d] # NULL =>
            documents[d] # NULL \/ (d = t.doc /\ documents'[d].rev = t.rev /\ ~KeyTaken(t.rev))
    <2>1. t.doc # NULL => documents'[t.doc] = [rev |-> t.rev, latest |-> t.leads]
      BY CommitStoreTables
    <2>2. t.doc # NULL => ~KeyTaken(t.rev)
      BY <1>1 DEF TxOK
    <2>3. \A d \in DocIds : d # t.doc => (documents'[d] = NULL <=> documents[d] = NULL)
      BY CommitStoreTables
    <2> QED
      BY <2>1, <2>2, <2>3, IdFacts
  <1>4. RevisionsUnique'
    <2> SUFFICES ASSUME NEW d \in DocIds, NEW e \in DocIds,
                        documents'[d] # NULL, documents'[e] # NULL,
                        SameRevisionKey(documents'[d].rev, documents'[e].rev)
                 PROVE  d = e
      BY DEF RevisionsUnique
    <2>1. CASE documents[d] # NULL /\ documents[e] # NULL
      BY <1>2, <2>1 DEF IInv, RevisionsUnique
    <2>2. \A r, s : SameRevisionKey(r, s) => SameRevisionKey(s, r) /\ r.adv = s.adv
      BY DEF SameRevisionKey, SqlEqual
    <2>3. \A x \in DocIds : documents[x] # NULL /\ documents[x].rev.adv = t.rev.adv /\ ~KeyTaken(t.rev)
            => ~SameRevisionKey(t.rev, documents[x].rev)
      BY DEF KeyTaken, RowsOf
    <2> QED
      BY <1>2, <1>3, <2>1, <2>2, <2>3
  <1>5. AckedDurable'
    <2> SUFFICES ASSUME NEW r \in acked'
                 PROVE  \E d \in RowsOf(r.adv)' :
                          documents'[d].rev = r \/ SameRevisionKey(r, documents'[d].rev)
      BY DEF AckedDurable
    <2>1. \A d \in DocIds : documents[d] # NULL /\ documents[d].rev.adv = r.adv =>
            d \in RowsOf(r.adv)' /\ documents'[d].rev = documents[d].rev
      BY <1>2 DEF RowsOf
    <2>2. CASE r \in acked
      BY <2>1, <2>2 DEF IInv, AckedDurable, RowsOf
    <2>3. CASE r = t.rev
      <3>1. CASE t.step = "duplicate"
        BY <1>1, <2>1, <2>3, <3>1 DEF TxOK, KeyTaken, RowsOf
      <3>2. CASE t.step = "decided"
        <4>1. t.doc # NULL
          BY <1>1, <3>2 DEF TxOK
        <4>2. t.doc \in RowsOf(r.adv)'
          BY <1>1, <2>3, <4>1, CommitStoreTables
        <4>3. documents'[t.doc] = [rev |-> t.rev, latest |-> t.leads]
          BY <4>1, CommitStoreTables
        <4> QED
          BY <2>3, <4>2, <4>3
      <3> QED
        BY <1>1, <3>1, <3>2
    <2> QED
      BY <2>2, <2>3 DEF CommitStore
  <1> QED
    BY <1>4, <1>5

TableInv == HeadConsistent /\ HeadMaximal /\ RevisionsUnique /\ AckedDurable

LEMMA TableStep == IInv /\ [Next]_vars => TableInv'
  <1> SUFFICES ASSUME IInv, [Next]_vars PROVE TableInv'
    OBVIOUS
  <1>0. TableInv /\ TypeOK
    BY DEF IInv, TableInv
  <1>1. ASSUME NEW w \in Workers, NEW heard \in BOOLEAN, CommitStore(w, heard)
        PROVE  TableInv'
    BY <1>1, CommitStoreHead, CommitStoreMaximal, CommitStoreUnique DEF TableInv
  <1>2. ASSUME UNCHANGED <<documents, acked>>,
               \A a \in Advisories :
                  /\ advisories'[a] = NULL <=> advisories[a] = NULL
                  /\ advisories[a] # NULL =>
                        advisories'[a].latest_document_id = advisories[a].latest_document_id
        PROVE  TableInv'
    <2>1. \A a : RowsOf(a)' = RowsOf(a) /\ LatestOf(a)' = LatestOf(a)
      BY <1>2 DEF RowsOf, LatestOf
    <2>2. HeadConsistent'
      BY <1>0, <1>2, <2>1 DEF TableInv, HeadConsistent
    <2>3. HeadMaximal' /\ RevisionsUnique' /\ AckedDurable'
      BY <1>0, <1>2, <2>1 DEF TableInv, HeadMaximal, RevisionsUnique, AckedDurable
    <2> QED
      BY <2>2, <2>3 DEF TableInv
  <1>3. UNCHANGED <<documents, acked, advisories>> => TableInv'
    BY <1>2
  <1>4. ASSUME NEW w \in Workers, CommitSweep(w)
        PROVE  TableInv'
    <2>1. UNCHANGED <<documents, acked>>
      BY <1>4 DEF CommitSweep
    <2>2. ASSUME NEW a \in Advisories
          PROVE  /\ advisories'[a] = NULL <=> advisories[a] = NULL
                 /\ advisories[a] # NULL =>
                      advisories'[a].latest_document_id = advisories[a].latest_document_id
      <3>1. CASE a \in tx[w].marked
        <4>1. advisories'[a] = [advisories[a] EXCEPT !.withdrawn = TRUE]
          BY <1>4, <3>1 DEF CommitSweep
        <4>2. advisories[a] \in AdvisoryRow /\ advisories'[a] \in AdvisoryRow
          BY <1>0, <3>1, <4>1, CommitSweepRows, RowTypes DEF IInv, LockInv
        <4> QED
          BY <4>1, <4>2, RowAssumption DEF AdvisoryRow
      <3>2. CASE a \notin tx[w].marked
        BY <1>4, <3>2 DEF CommitSweep
      <3> QED
        BY <3>1, <3>2
    <2> QED
      BY <1>2, <2>1, <2>2
  <1> QED
    BY <1>1, <1>3, <1>4
       DEF Next, vars, UpsertAdvisory, InsertDocument, DecideLead, BeginSweep, SweepRow, Rollback

LEMMA InitInv == Init => IInv
  <1> SUFFICES ASSUME Init PROVE IInv
    OBVIOUS
  <1>1. TypeOK
    BY InitType
  <1>2. \A a : RowsOf(a) = {}
    BY DEF Init, RowsOf
  <1>3. LockInv /\ IdInv /\ TxInv
    BY DEF Init, LockInv, IdInv, TxInv, TxOK, Idle, Storing, StoreSteps
  <1>4. HeadConsistent /\ HeadMaximal /\ RevisionsUnique /\ AckedDurable
    BY <1>2 DEF Init, HeadConsistent, HeadMaximal, RevisionsUnique, AckedDurable
  <1> QED
    BY <1>1, <1>3, <1>4 DEF IInv

LEMMA StepInv == IInv /\ [Next]_vars => IInv'
  BY TypeStep, LockStep, IdStep, TxStep, TableStep DEF IInv, TableInv

\* IInv is an invariant: the fact everything below rests on.
THEOREM Inductive == Spec => []IInv
  BY InitInv, StepInv, PTL DEF Spec

------------------------------------------------------------------------------
(* Results.                                                                *)

\* Every row and every local variable of a transaction has its declared type.
THEOREM TypeCorrect == Spec => []TypeOK
  <1>1. IInv => TypeOK
    BY DEF IInv
  <1> QED
    BY <1>1, Inductive, PTL

\* latest_document_id and documents.latest always name the same head, and an
\* advisory row exists exactly when it has a document.
THEOREM HeadIsConsistent == Spec => []HeadConsistent
  <1>1. IInv => HeadConsistent
    BY DEF IInv
  <1> QED
    BY <1>1, Inductive, PTL

\* However many workers store revisions in whatever order, none of what is stored
\* is newer than the head of its advisory.
THEOREM HeadIsMaximal == Spec => []HeadMaximal
  <1>1. IInv => HeadMaximal
    BY DEF IInv
  <1> QED
    BY <1>1, Inductive, PTL

\* No revision key is stored twice.
THEOREM StoredOnce == Spec => []RevisionsUnique
  <1>1. IInv => RevisionsUnique
    BY DEF IInv
  <1> QED
    BY <1>1, Inductive, PTL

\* An acknowledged StoreDocument is never lost.
THEOREM AckedStays == Spec => []AckedDurable
  <1>1. IInv => AckedDurable
    BY DEF IInv
  <1> QED
    BY <1>1, Inductive, PTL

\* The row lock of the upsert keeps concurrent stores off the one-head constraint.
THEOREM NoConflict == Spec => []NoUniqueViolation
  <1>1. IInv => NoUniqueViolation
    BY DEF IInv, TxInv, TxOK, NoUniqueViolation
  <1> QED
    BY <1>1, Inductive, PTL

\* The boundary of what store.go says of a repeated StoreDocument: where every document
\* carries a revision history and a status, its revision is in the database at most once.
THEOREM CompleteKeysStoredOnce ==
    ASSUME \A r \in Revisions : r.len # NULL /\ r.status # NULL
    PROVE  Spec => []StoredOnlyOnce
  <1>1. IInv => StoredOnlyOnce
    <2> SUFFICES ASSUME IInv, NEW d \in DocIds, NEW e \in DocIds,
                        documents[d] # NULL, documents[e] # NULL,
                        documents[d].rev = documents[e].rev
                 PROVE  d = e
      BY DEF StoredOnlyOnce
    <2>1. documents[d].rev \in Revisions
      BY RowTypes DEF IInv, DocumentRow
    <2>2. SameRevisionKey(documents[d].rev, documents[e].rev)
      BY <2>1 DEF SameRevisionKey, SqlEqual
    <2> QED
      BY <2>2 DEF IInv, RevisionsUnique
  <1> QED
    BY <1>1, Inductive, PTL

\* No acknowledged revision is newer than the one its advisory is served with.
AckedServed ==
    \A r \in acked : \A h \in LatestOf(r.adv) : ~Newer(r, documents[h].rev)

\* What a reader of the API gets is never behind what StoreDocument has acknowledged,
\* provided that a provider does not reissue a revision, under the same version, history
\* length and status, with another release date: that one is dropped as a duplicate.
THEOREM AckedIsServed ==
    ASSUME \A r, s \in Revisions : SameRevisionKey(r, s) => r.date = s.date
    PROVE  Spec => []AckedServed
  <1>1. IInv => AckedServed
    <2> SUFFICES ASSUME IInv, NEW r \in acked, NEW h \in LatestOf(r.adv)
                 PROVE  ~Newer(r, documents[h].rev)
      BY DEF AckedServed
    <2>1. r \in Revisions /\ r.adv \in Advisories
      BY RevisionAssumption DEF IInv, TypeOK, Revision
    <2>2. PICK d \in RowsOf(r.adv) :
              documents[d].rev = r \/ SameRevisionKey(r, documents[d].rev)
      BY DEF IInv, AckedDurable
    <2>3. documents[d].rev \in Revisions
      BY <2>2, RowTypes DEF IInv, RowsOf, DocumentRow
    <2>4. documents[d].rev.date = r.date
          /\ (documents[d].rev.len = r.len \/ SqlEqual(r.len, documents[d].rev.len))
      BY <2>1, <2>2, <2>3 DEF SameRevisionKey
    <2>5. ~Newer(documents[d].rev, documents[h].rev)
      BY <2>1, <2>2 DEF IInv, HeadMaximal
    <2> QED
      BY <2>4, <2>5 DEF Newer, SqlEqual, SqlGreater
  <1> QED
    BY <1>1, Inductive, PTL

LEMMA ForwardStep == IInv /\ [Next]_vars => HeadMovesForward
  <1> SUFFICES ASSUME IInv, [Next]_vars, NEW a \in Advisories, advisories[a] # NULL
               PROVE  /\ advisories'[a] # NULL
                      /\ \/ advisories'[a].latest_document_id = advisories[a].latest_document_id
                         \/ Newer(documents'[advisories'[a].latest_document_id].rev,
                                  documents[advisories[a].latest_document_id].rev)
    BY DEF HeadMovesForward
  <1>0. TypeOK
    BY DEF IInv
  <1>1. ASSUME NEW w \in Workers, NEW heard \in BOOLEAN, CommitStore(w, heard)
        PROVE  /\ advisories'[a] # NULL
               /\ \/ advisories'[a].latest_document_id = advisories[a].latest_document_id
                  \/ Newer(documents'[advisories'[a].latest_document_id].rev,
                           documents[advisories[a].latest_document_id].rev)
    <2> DEFINE t == tx[w]
    <2>1. /\ t.step \in {"duplicate", "decided"} /\ t.rev.adv \in Advisories /\ TxOK(t)
          /\ advisories' = [advisories EXCEPT ![t.rev.adv] =
                              [latest_document_id |-> Pointer(t), withdrawn |-> Tombstoned(t)]]
      BY <1>1, CommitStoreRows, RowTypes DEF CommitStore, IInv, TxInv
    <2>2. CASE a # t.rev.adv
      BY <1>0, <2>1, <2>2 DEF TypeOK
    <2>3. CASE a = t.rev.adv
      <3>1. advisories'[a] # NULL /\ advisories'[a].latest_document_id = Pointer(t)
        BY <1>0, <2>1, <2>3, CommitStoreRows, RowAssumption DEF TypeOK
      <3>2. CASE ~t.leads
        BY <2>3, <3>1, <3>2 DEF Pointer
      <3>3. CASE t.leads
        <4>1. t.step = "decided" /\ t.doc # NULL /\ t.old = CurrentHead(a) /\ Leads(t.rev, t.old)
          BY <2>1, <2>3, <3>3 DEF TxOK
        <4>2. t.old = advisories[a].latest_document_id /\ t.old # NULL
          BY <1>0, <4>1, HeadIsPointer, RowTypes, IdFacts DEF IInv, AdvisoryRow
        <4>3. documents'[t.doc] = [rev |-> t.rev, latest |-> t.leads]
          BY <1>1, <4>1, CommitStoreTables
        <4> QED
          BY <3>1, <3>3, <4>1, <4>2, <4>3 DEF Pointer, Leads
      <3> QED
        BY <3>2, <3>3
    <2> QED
      BY <2>2, <2>3
  <1>2. ASSUME NEW w \in Workers, CommitSweep(w)
        PROVE  /\ advisories'[a] # NULL
               /\ advisories'[a].latest_document_id = advisories[a].latest_document_id
    <2>1. CASE a \in tx[w].marked
      <3>1. advisories'[a] = [advisories[a] EXCEPT !.withdrawn = TRUE]
        BY <1>2, <2>1 DEF CommitSweep
      <3>2. advisories[a] \in AdvisoryRow /\ advisories'[a] \in AdvisoryRow
        BY <1>0, <2>1, <3>1, CommitSweepRows, RowTypes DEF IInv, LockInv
      <3> QED
        BY <3>1, <3>2, RowAssumption DEF AdvisoryRow
    <2>2. CASE a \notin tx[w].marked
      BY <1>2, <2>2 DEF CommitSweep
    <2> QED
      BY <2>1, <2>2
  <1> QED
    BY <1>1, <1>2
       DEF Next, vars, UpsertAdvisory, InsertDocument, DecideLead, BeginSweep, SweepRow, Rollback

\* The head of an advisory only ever moves to a newer revision.
THEOREM HeadForward == Spec => HeadNeverRegresses
  <1>1. IInv /\ [Next]_vars => [HeadMovesForward]_vars
    BY ForwardStep
  <1> QED
    BY <1>1, Inductive, PTL DEF Spec, HeadNeverRegresses

==============================================================================
