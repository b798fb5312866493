----------------------------- MODULE Extraction -----------------------------
(***************************************************************************)
(* The trigger extract_cves in the StoreDocument transactions of several   *)
(* workers, on PostgreSQL at READ COMMITTED.  One WITH statement inserts   *)
(* the CVEs of the new document into the shared dictionary unique_cves, ON *)
(* CONFLICT DO NOTHING, and links the document to the entries it inserted  *)
(* and to those its snapshot had.  An entry that another open transaction  *)
(* has inserted makes it wait; the transactions can wait in a circle.      *)
(*                                                                         *)
(* Documents are first revisions of different advisories: revisions of one *)
(* advisory are stored one after the other (the row lock of AdvisoryStore) *)
(* and a revision that is stored already fires no trigger.                 *)
(***************************************************************************)
EXTENDS Naturals, Sequences, FiniteSets

CONSTANTS
    Workers,      \* processes that store documents
    Documents,    \* the documents they may store
    Cves,         \* CVE ids
    CvesOf,       \* CvesOf[d]: the CVEs of d in the order of its vulnerabilities
    NULL          \* no document

ASSUME ExtractionAssumption ==
    /\ IsFiniteSet(Cves)
    /\ CvesOf \in [Documents -> Seq(Cves)]
    /\ NULL \notin Documents

VARIABLES
    unique_cves,      \* the committed dictionary
    documents,        \* the committed documents
    documents_cves,   \* documents_cves[d]: the committed links of d
    tx,               \* tx[w]: the open transaction of w
    raced             \* raced[d]: what others committed to the dictionary between
                      \* the snapshot and the links of d (history, no guard reads it)

database == <<unique_cves, documents, documents_cves>>
vars == <<unique_cves, documents, documents_cves, tx, raced>>

Listed(d) == {CvesOf[d][i] : i \in 1 .. Len(CvesOf[d])}

Transaction ==
    [ step     : {"idle", "inserting", "linked"},
      doc      : Documents \union {NULL},
      snapshot : SUBSET Cves,     \* dictionary as the WITH statement sees it
      next     : Nat,             \* position in CvesOf[doc]
      inserted : SUBSET Cves,     \* entries it has inserted, not committed
      links    : SUBSET Cves ]

Extracting(step, d, snapshot, next, inserted, links) ==
    [ step |-> step, doc |-> d, snapshot |-> snapshot, next |-> next,
      inserted |-> inserted, links |-> links ]
Idle == Extracting("idle", NULL, {}, 0, {}, {})

TypeOK ==
    /\ unique_cves \subseteq Cves
    /\ documents \subseteq Documents
    /\ documents_cves \in [Documents -> SUBSET Cves]
    /\ tx \in [Workers -> Transaction]
    /\ raced \in [Documents -> SUBSET Cves]

Init ==
    /\ unique_cves = {}
    /\ documents = {}
    /\ documents_cves = [d \in Documents |-> {}]
    /\ tx = [w \in Workers |-> Idle]
    /\ raced = [d \in Documents |-> {}]

------------------------------------------------------------------------------
(* Waiting for the unique entries of others                                *)

\* The statement of w is at the CVE c.
At(w, c) ==
    /\ tx[w].step = "inserting"
    /\ tx[w].next \in 1 .. Len(CvesOf[tx[w].doc])
    /\ CvesOf[tx[w].doc][tx[w].next] = c

\* ... and v has inserted it and not ended yet.  Variant: one store at a time uses
\* the dictionary.
WaitsForAny(w, v) == w # v /\ tx[w].step = "inserting" /\ tx[v].step = "inserting"
WaitsFor(w, v) == w # v /\ \E c \in Cves : At(w, c) /\ c \in tx[v].inserted

Blocked(w) == \E v \in Workers : WaitsFor(w, v)

\* w is on a circle of waiting transactions.  Variant: no deadlock detection.
DeadlockOff(w) == FALSE
Deadlocked(w) ==
    \E circle \in SUBSET Workers :
        /\ w \in circle
        /\ \A v \in circle : \E u \in circle : WaitsFor(v, u)
        /\ \A v \in circle : \E u \in circle : WaitsFor(u, v)

------------------------------------------------------------------------------
(* The steps of a transaction                                              *)

\* StoreDocument up to the INSERT of the document, whose trigger starts the WITH
\* statement with a snapshot of the dictionary.
BeginExtract(w, d) ==
    /\ tx[w].step = "idle"
    /\ d \notin documents
    /\ \A v \in Workers : tx[v].doc # d
    /\ tx' = [tx EXCEPT ![w] = Extracting("inserting", d, unique_cves, 1, {}, {})]
    /\ UNCHANGED <<unique_cves, documents, documents_cves, raced>>

\* INSERT INTO unique_cves: an entry that is committed, or its own, is passed over,
\* in the snapshot or not.  Variant: so is one that another has not committed yet.
PassOverUncommitted(w) ==
    LET t == tx[w]
        c == CvesOf[t.doc][t.next]
    IN
    /\ t.step = "inserting"
    /\ t.next <= Len(CvesOf[t.doc])
    /\ tx' = [tx EXCEPT ![w] =
                Extracting("inserting", t.doc, t.snapshot, t.next + 1,
                           IF c \in unique_cves \/ Blocked(w) THEN t.inserted
                           ELSE t.inserted \union {c}, {})]
    /\ UNCHANGED <<unique_cves, documents, documents_cves, raced>>
InsertCve(w) ==
    LET t == tx[w]
        c == CvesOf[t.doc][t.next]
    IN
    /\ t.step = "inserting"
    /\ t.next <= Len(CvesOf[t.doc])
    /\ ~Blocked(w)
    /\ tx' = [tx EXCEPT ![w] =
                Extracting("inserting", t.doc, t.snapshot, t.next + 1,
                           IF c \in unique_cves THEN t.inserted ELSE t.inserted \union {c},
                           {})]
    /\ UNCHANGED <<unique_cves, documents, documents_cves, raced>>

\* The CTE resolved: selected (from the snapshot) and inserted.  Variants: one
\* without the other.
ResolvedInserted(t) == Listed(t.doc) \intersect t.inserted
ResolvedSelected(t) == Listed(t.doc) \intersect t.snapshot
Resolved(t) == Listed(t.doc) \intersect (t.snapshot \union t.inserted)

\* INSERT INTO documents_cves.
InsertLinks(w) ==
    LET t == tx[w] IN
    /\ t.step = "inserting"
    /\ t.next > Len(CvesOf[t.doc])
    /\ tx' = [tx EXCEPT ![w] =
                Extracting("linked", t.doc, t.snapshot, t.next, t.inserted, Resolved(t))]
    /\ raced' = [raced EXCEPT ![t.doc] = unique_cves \ t.snapshot]
    /\ UNCHANGED database

\* Variant: a worker without a transaction commits as well.
CommitWithoutBegin(w) ==
    LET t == tx[w] IN
    /\ t.step # "inserting"
    /\ unique_cves' = unique_cves \union t.inserted
    /\ documents' = documents \union {t.doc}
    /\ documents_cves' = [documents_cves EXCEPT ![t.doc] = t.links]
    /\ tx' = [tx EXCEPT ![w] = Idle]
    /\ UNCHANGED raced
CommitDocument(w) ==
    LET t == tx[w] IN
    /\ t.step = "linked"
    /\ unique_cves' = unique_cves \union t.inserted
    /\ documents' = documents \union {t.doc}
    /\ documents_cves' = [documents_cves EXCEPT ![t.doc] = t.links]
    /\ tx' = [tx EXCEPT ![w] = Idle]
    /\ UNCHANGED raced

\* An error, a timeout, a cancelled context or a crash.
Rollback(w) ==
    /\ tx[w].step # "idle"
    /\ tx' = [tx EXCEPT ![w] = Idle]
    /\ UNCHANGED <<unique_cves, documents, documents_cves, raced>>

\* PostgreSQL finds the circle and fails one of its statements.
AbortDeadlocked(w) == Deadlocked(w) /\ Rollback(w)

Next ==
    \E w \in Workers :
        \/ \E d \in Documents : BeginExtract(w, d)
        \/ InsertCve(w)
        \/ InsertLinks(w)
        \/ CommitDocument(w)
        \/ Rollback(w)
        \/ AbortDeadlocked(w)

Spec == Init /\ [][Next]_vars

\* A statement that can go on does, one that waits is woken when the entry is free
\* before a later transaction gets to it, and deadlocks are found.
Fairness ==
    \A w \in Workers :
        /\ SF_vars(InsertCve(w))
        /\ WF_vars(InsertLinks(w))
        /\ WF_vars(CommitDocument(w))
        /\ WF_vars(AbortDeadlocked(w))

FairSpec == Spec /\ Fairness

------------------------------------------------------------------------------
(* Properties                                                              *)

\* Every CVE of a stored document is in the dictionary, also one that the document's
\* transaction left to another transaction, which might have failed.
DictionaryCovers == \A d \in documents : Listed(d) \subseteq unique_cves

\* A stored document misses exactly the links to those of its CVEs that other
\* transactions committed while its own statement ran: conflicting inserts are
\* passed over, and the statement's snapshot does not show them.
LinksLostToRaces ==
    \A d \in documents : documents_cves[d] = Listed(d) \ raced[d]

\* What the schema says of extract_cves: it rebuilds the CVE links of a document.
\* The code does not keep this when two transactions bring the same new CVE.
LinksComplete == \A d \in documents : documents_cves[d] = Listed(d)

\* No entry of the dictionary is an orphan: the document that brought a CVE is linked to
\* it, whoever else has it and whatever is rolled back.
EveryCveLinked == \A c \in unique_cves : \E d \in documents : c \in documents_cves[d]

AtomicIndex == INSTANCE CveIndex WITH
    CvesIn <- [d \in Documents |-> Listed(d)],
    dictionary <- unique_cves, indexed <- documents, links <- documents_cves

\* Overlapping transactions look like documents that are indexed one after the other,
\* each at its COMMIT, and miss only links to entries that were there before.
IndexesAtomically == AtomicIndex!IndexSpec

\* Some order of the CVEs agrees with the order in every document being stored.
InOneOrder ==
    \E rank \in [Cves -> 1 .. Cardinality(Cves)] :
        \A w \in Workers : tx[w].step = "inserting" =>
            \A i, j \in 1 .. Len(CvesOf[tx[w].doc]) :
                i < j => rank[CvesOf[tx[w].doc][i]] < rank[CvesOf[tx[w].doc][j]]

\* Stores deadlock over the dictionary only when their documents list CVEs in
\* orders that contradict each other.
DeadlockNeedsDisorder == (\E w \in Workers : Deadlocked(w)) => ~InOneOrder

\* No store waits for ever: each transaction ends, in COMMIT or ROLLBACK.
EveryStoreEnds == \A w \in Workers : tx[w].step # "idle" ~> tx[w].step = "idle"
==============================================================================
