---------------------------- MODULE AdvisoryStore ----------------------------
(***************************************************************************)
(* The write side of pkg/database on PostgreSQL at READ COMMITTED:         *)
(* StoreDocument as one transaction of several statements (the upsert of   *)
(* the advisory row, the INSERT of the revision with the update_advisory   *)
(* trigger, COMMIT) and TombstoneAbsent as one UPDATE that locks its rows  *)
(* one by one.  Several workers (the poll loop of each running server, a   *)
(* manual `ingest` run) call them at the same time; a worker may lose its  *)
(* connection, be cancelled or crash between any two statements.           *)
(*                                                                         *)
(* advisories, documents and sequence are the committed database; what a   *)
(* transaction has written and not committed is in tx.  A row lock on an   *)
(* advisory, or on the unique index entry of one being inserted, is lock.  *)
(***************************************************************************)
EXTENDS RevisionOrder, FiniteSets

CONSTANTS
    Workers,      \* processes that write to the database
    MaxDocId      \* last value of the identity column documents.id (2^31 - 1)

ASSUME WorkerAssumption == NULL \notin Workers
ASSUME MaxDocIdAssumption == MaxDocId \in Nat

VARIABLES
    advisories,   \* advisories[a]: the committed row of a, NULL if there is none
    documents,    \* documents[d]: the committed row with id d, NULL if there is none
    sequence,     \* last id the identity sequence of documents gave out
    lock,         \* lock[a]: the worker whose transaction holds the row of a
    tx,           \* tx[w]: the open transaction of w
    acked         \* revisions for which a StoreDocument returned without error

tables == <<advisories, documents>>
vars == <<advisories, documents, sequence, lock, tx, acked>>

DocIds == 1 .. MaxDocId

AdvisoryRow == [latest_document_id : DocIds, withdrawn : BOOLEAN]
DocumentRow == [rev : Revisions, latest : BOOLEAN]

\* NULL is told from a row.
ASSUME RowAssumption == NULL \notin AdvisoryRow \union DocumentRow

Steps == {"idle", "upserted", "inserted", "duplicate", "decided", "unique_violation", "sweeping"}

Transaction ==
    [ step    : Steps,
      rev     : Revisions \union {NULL},   \* StoreDocument: the document to store
      doc     : DocIds \union {NULL},      \* id of the row it inserted
      old     : DocIds \union {NULL},      \* old_id of update_advisory
      leads   : BOOLEAN,                   \* the new row took over the lead
      targets : SUBSET Advisories,         \* TombstoneAbsent: rows still to visit
      marked  : SUBSET Advisories ]        \* rows it has updated

Storing(step, rev, doc, old, leads) ==
    [ step |-> step, rev |-> rev, doc |-> doc, old |-> old, leads |-> leads,
      targets |-> {}, marked |-> {} ]
Sweeping(targets, marked) ==
    [ step |-> "sweeping", rev |-> NULL, doc |-> NULL, old |-> NULL, leads |-> FALSE,
      targets |-> targets, marked |-> marked ]
Idle == Storing("idle", NULL, NULL, NULL, FALSE)

\* The schema, the ranges of the local variables and nothing else.
TypeOK ==
    /\ advisories \in [Advisories -> AdvisoryRow \union {NULL}]
    /\ documents \in [DocIds -> DocumentRow \union {NULL}]
    /\ sequence \in 0 .. MaxDocId
    /\ lock \in [Advisories -> Workers \union {NULL}]
    /\ tx \in [Workers -> Transaction]
    /\ acked \subseteq Revisions

Init ==
    /\ advisories = [a \in Advisories |-> NULL]
    /\ documents = [d \in DocIds |-> NULL]
    /\ sequence = 0
    /\ lock = [a \in Advisories |-> NULL]
    /\ tx = [w \in Workers |-> Idle]
    /\ acked = {}

------------------------------------------------------------------------------
(* Rows a statement sees.                                                  *)

RowsOf(a)   == {d \in DocIds : documents[d] # NULL /\ documents[d].rev.adv = a}
LatestOf(a) == {d \in RowsOf(a) : documents[d].latest}

Active(a) == advisories[a] # NULL /\ ~advisories[a].withdrawn

\* The SELECT of update_advisory: id of the current head, NULL when NOT FOUND.
CurrentHead(a) == IF LatestOf(a) = {} THEN NULL ELSE CHOOSE d \in LatestOf(a) : TRUE

\* A row is free to lock when no open transaction has written it.  The variant
\* is a store that does not lock (ON CONFLICT DO NOTHING on the advisory).
FreeWithoutLocking(w, a) == lock[a] # w
FreeFor(w, a) == lock[a] = NULL

\* The arbiter of ON CONFLICT.  Variants: compare with the current head only;
\* compare the version alone.
KeyTakenByHead(r)    == \E d \in LatestOf(r.adv) : SameRevisionKey(r, documents[d].rev)
KeyTakenByVersion(r) == \E d \in RowsOf(r.adv) : r.version = documents[d].rev.version
KeyTaken(r) == \E d \in RowsOf(r.adv) : SameRevisionKey(r, documents[d].rev)

\* The IF of update_advisory.  Variants: ignore the release date; always lead.
LeadsByLength(r, old) == old = NULL \/ SqlGreater(r.len, documents[old].rev.len)
LeadsAlways(r, old) == TRUE
Leads(r, old) == old = NULL \/ Newer(r, documents[old].rev)

------------------------------------------------------------------------------
(* StoreDocument                                                           *)

\* BEGIN, then INSERT INTO advisories ... ON CONFLICT DO UPDATE: waits for and
\* takes the row, whatever its state; the row's new content is known at COMMIT.
UpsertAdvisory(w, r) ==
    /\ tx[w].step = "idle"
    /\ FreeFor(w, r.adv)
    /\ lock' = [lock EXCEPT ![r.adv] = w]
    /\ tx' = [tx EXCEPT ![w] = Storing("upserted", r, NULL, NULL, FALSE)]
    /\ UNCHANGED <<advisories, documents, sequence, acked>>

\* INSERT INTO documents ... ON CONFLICT DO NOTHING: an id is drawn either way.
\* A row that goes in fires update_advisory, whose SELECT finds the old head.
InsertDocument(w) ==
    LET r == tx[w].rev IN
    /\ tx[w].step = "upserted"
    /\ sequence < MaxDocId
    /\ sequence' = sequence + 1
    /\ tx' = [tx EXCEPT ![w] =
                IF KeyTaken(r)
                THEN Storing("duplicate", r, NULL, NULL, FALSE)
                ELSE Storing("inserted", r, sequence + 1, CurrentHead(r.adv), FALSE)]
    /\ UNCHANGED <<advisories, documents, lock, acked>>

\* The rest of update_advisory, from what its SELECT read: take the lead or leave
\* it.  only_one_latest_constraint refuses a second head.
DecideLead(w) ==
    LET t == tx[w]
        leads == Leads(t.rev, t.old)
        second == leads /\ LatestOf(t.rev.adv) \ {t.old} # {}
    IN
    /\ t.step = "inserted"
    /\ tx' = [tx EXCEPT ![w] =
                IF second THEN Storing("unique_violation", t.rev, t.doc, t.old, FALSE)
                ELSE Storing("decided", t.rev, t.doc, t.old, leads)]
    /\ UNCHANGED <<advisories, documents, sequence, lock, acked>>

Release(w) ==
    /\ lock' = [a \in Advisories |-> IF lock[a] = w THEN NULL ELSE lock[a]]
    /\ tx' = [tx EXCEPT ![w] = Idle]

\* What COMMIT makes visible: the new row and, if it leads, the change of head.
CommittedDocuments(t) ==
    [d \in DocIds |->
        IF d = t.doc THEN [rev |-> t.rev, latest |-> t.leads]
        ELSE IF t.leads /\ d = t.old THEN [documents[d] EXCEPT !.latest = FALSE]
        ELSE documents[d]]

\* latest_document_id.  Variants: it follows every insert, not only one that
\* leads; it gets the id of the row that lost the lead.
PointerToInserted(t) ==
    IF t.doc # NULL THEN t.doc ELSE advisories[t.rev.adv].latest_document_id
PointerToOld(t) ==
    IF t.leads THEN t.old ELSE advisories[t.rev.adv].latest_document_id
Pointer(t) ==
    IF t.leads THEN t.doc ELSE advisories[t.rev.adv].latest_document_id

\* The upsert's DO UPDATE clears the tombstone.  Variant: it leaves the row alone.
TombstoneKept(t) == advisories[t.rev.adv] # NULL /\ advisories[t.rev.adv].withdrawn
Tombstoned(t) == FALSE

\* heard: the client got the answer to COMMIT; if not, StoreDocument fails although
\* the transaction is durable.
CommitStore(w, heard) ==
    LET t == tx[w] IN
    /\ t.step \in {"duplicate", "decided"}
    /\ documents' = CommittedDocuments(t)
    /\ advisories' = [advisories EXCEPT ![t.rev.adv] =
                        [latest_document_id |-> Pointer(t), withdrawn |-> Tombstoned(t)]]
    /\ acked' = IF heard THEN acked \union {t.rev} ELSE acked
    /\ Release(w)
    /\ UNCHANGED sequence

------------------------------------------------------------------------------
(* TombstoneAbsent                                                         *)

\* The UPDATE takes its snapshot: the active rows that are not in present.
BeginSweep(w, present) ==
    /\ tx[w].step = "idle"
    /\ present # {}
    /\ tx' = [tx EXCEPT ![w] =
                Sweeping({a \in Advisories : Active(a)} \ present, {})]
    /\ UNCHANGED <<advisories, documents, sequence, lock, acked>>

\* It visits a row, waiting for a transaction that has written it, and looks at the
\* row again as it is now committed.
SweepRow(w, a) ==
    /\ tx[w].step = "sweeping"
    /\ a \in tx[w].targets
    /\ FreeFor(w, a)
    /\ tx' = [tx EXCEPT ![w] =
                Sweeping(@.targets \ {a},
                         IF Active(a) THEN @.marked \union {a} ELSE @.marked)]
    /\ lock' = IF Active(a) THEN [lock EXCEPT ![a] = w] ELSE lock
    /\ UNCHANGED <<advisories, documents, sequence, acked>>

CommitSweep(w) ==
    /\ tx[w].step = "sweeping"
    /\ tx[w].targets = {}
    /\ advisories' = [a \in Advisories |->
                        IF a \in tx[w].marked
                        THEN [advisories[a] EXCEPT !.withdrawn = TRUE]
                        ELSE advisories[a]]
    /\ Release(w)
    /\ UNCHANGED <<documents, sequence, acked>>

\* An error, a cancelled context, a lost connection or a crash: the server rolls
\* the open transaction back.  Ids drawn from the sequence stay drawn.
Rollback(w) ==
    /\ tx[w].step # "idle"
    /\ Release(w)
    /\ UNCHANGED <<advisories, documents, sequence, acked>>

Next ==
    \E w \in Workers :
        \/ \E r \in Revisions : UpsertAdvisory(w, r)
        \/ InsertDocument(w)
        \/ DecideLead(w)
        \/ \E heard \in BOOLEAN : CommitStore(w, heard)
        \/ \E present \in SUBSET Advisories : BeginSweep(w, present)
        \/ \E a \in Advisories : SweepRow(w, a)
        \/ CommitSweep(w)
        \/ Rollback(w)

Spec == Init /\ [][Next]_vars

------------------------------------------------------------------------------
(* Properties                                                              *)

\* An advisory row exists exactly when it has a document, exactly one of its
\* documents is flagged latest, and latest_document_id names that one: the
\* denormalised head of 000-setup.sql never drifts from documents.latest.
HeadConsistent ==
    \A a \in Advisories :
        IF advisories[a] = NULL THEN RowsOf(a) = {}
        ELSE LatestOf(a) = {advisories[a].latest_document_id}

\* No stored revision is newer than the head of its advisory, in whatever order
\* and by however many workers the revisions were stored.
HeadMaximal ==
    \A a \in Advisories : \A d \in RowsOf(a), h \in LatestOf(a) :
        ~Newer(documents[d].rev, documents[h].rev)

\* A revision that was stored is not stored a second time (StoreDocument is
\* idempotent on the revision key).
RevisionsUnique ==
    \A d, e \in DocIds :
        /\ documents[d] # NULL
        /\ documents[e] # NULL
        /\ SameRevisionKey(documents[d].rev, documents[e].rev)
        => d = e

\* What store.go says of a repeated StoreDocument: a document that is stored already
\* is not stored again.  The code does not keep this for one whose revision key is
\* incomplete, since NULLs are distinct in a unique constraint.
StoredOnlyOnce ==
    \A d, e \in DocIds :
        documents[d] # NULL /\ documents[e] # NULL /\ documents[d].rev = documents[e].rev
        => d = e

\* What StoreDocument acknowledged is in the database for good, itself or as the
\* revision with the same key it was a duplicate of.
AckedDurable ==
    \A r \in acked : \E d \in RowsOf(r.adv) :
        documents[d].rev = r \/ SameRevisionKey(r, documents[d].rev)

\* Workers that store revisions of one advisory at the same time never run into
\* the one-head constraint, which would abort an ingestion cycle.
NoUniqueViolation == \A w \in Workers : tx[w].step # "unique_violation"

HeadMovesForward ==
    \A a \in Advisories : advisories[a] # NULL =>
        /\ advisories'[a] # NULL
        /\ LET h == advisories[a].latest_document_id
               g == advisories'[a].latest_document_id
           IN  g # h => Newer(documents'[g].rev, documents[h].rev)

\* The head of an advisory changes only to a newer revision: a late-arriving older
\* one, a duplicate, a sweep or a rollback never moves it back.
HeadNeverRegresses == [][HeadMovesForward]_vars

\* The committed tables, read as the abstract store.
StoredRevisions == [a \in Advisories |-> {documents[d].rev : d \in RowsOf(a)}]
HeadRevision ==
    [a \in Advisories |-> IF advisories[a] = NULL THEN NULL
                          ELSE documents[advisories[a].latest_document_id].rev]
WithdrawnAdvisories == {a \in Advisories : advisories[a] # NULL /\ advisories[a].withdrawn}

Log == INSTANCE AdvisoryLog WITH
    stored <- StoredRevisions, head <- HeadRevision, withdrawn <- WithdrawnAdvisories

\* Concurrent transactions look like a sequence of atomic stores and sweeps.
ImplementsLog == Log!LogSpec
==============================================================================
