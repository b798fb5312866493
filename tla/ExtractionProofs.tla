--------------------------- MODULE ExtractionProofs ---------------------------
(***************************************************************************)
(* Proofs about Extraction for any workers, documents and CVE lists.       *)
(*                                                                         *)
(* TxInv says what a transaction knows while others commit: the entries it *)
(* inserted are nobody else's and not in the dictionary, and each CVE it   *)
(* has passed is either its own or committed.  When it links, what is      *)
(* missing from its snapshot and not its own is therefore what others      *)
(* committed since.  Behind is why only contradicting lists deadlock, Own  *)
(* why a COMMIT is one step of CveIndex.                                   *)
(***************************************************************************)
EXTENDS Extraction, FiniteSetTheorems, WellFoundedInduction, TLAPS

\* One transaction t, with dictionary u, stored documents ds and history r.
TxOK(t, u, ds, r) ==
    /\ t.step # "idle" =>
          /\ t.doc \in Documents /\ t.doc \notin ds
          /\ t.snapshot \subseteq u
          /\ t.inserted \intersect u = {}
          /\ t.next >= 1
    /\ t.step = "inserting" =>
          \A i \in 1 .. Len(CvesOf[t.doc]) : i < t.next => CvesOf[t.doc][i] \in u \union t.inserted
    /\ t.step = "linked" =>
          /\ Listed(t.doc) \subseteq u \union t.inserted
          /\ t.links = Listed(t.doc) \ r[t.doc]
    /\ t.step = "idle" => t.doc = NULL /\ t.inserted = {}

TxInv == \A w \in Workers : TxOK(tx[w], unique_cves, documents, raced)

\* Open transactions have different documents and different entries.
Apart ==
    \A v, w \in Workers : v # w =>
        /\ tx[v].step # "idle" => tx[v].doc # tx[w].doc
        /\ tx[v].inserted \intersect tx[w].inserted = {}

IInv == TypeOK /\ TxInv /\ Apart /\ DictionaryCovers /\ LinksLostToRaces

------------------------------------------------------------------------------
LEMMA ListType == ASSUME NEW d \in Documents PROVE CvesOf[d] \in Seq(Cves)
  BY ExtractionAssumption

LEMMA ListedCves == ASSUME NEW d \in Documents PROVE Listed(d) \subseteq Cves
  BY ListType DEF Listed

LEMMA OpenHasDocument ==
    ASSUME TxInv, NEW w \in Workers, tx[w].step # "idle"
    PROVE  tx[w].doc # NULL
  BY ExtractionAssumption DEF TxInv, TxOK

LEMMA IdleType ==
    /\ Idle \in Transaction
    /\ Idle.step = "idle" /\ Idle.doc = NULL /\ Idle.inserted = {}
  BY DEF Idle, Extracting, Transaction

\* What a transaction has to know of the rest survives that the rest moves on.
LEMMA TxFrame ==
    ASSUME NEW t \in Transaction, NEW u, NEW ds, NEW r, NEW u2, NEW ds2, NEW r2,
           TxOK(t, u, ds, r),
           u \subseteq u2,
           t.step # "idle" =>
              t.inserted \intersect u2 = {} /\ t.doc \notin ds2 /\ r2[t.doc] = r[t.doc]
    PROVE  TxOK(t, u2, ds2, r2)
  BY DEF TxOK

------------------------------------------------------------------------------
(* The steps.                                                              *)

LEMMA BeginKeeps ==
    ASSUME IInv, NEW w \in Workers, NEW d \in Documents, BeginExtract(w, d)
    PROVE  IInv'
  <1> DEFINE t == Extracting("inserting", d, unique_cves, 1, {}, {})
  <1>1. /\ t \in Transaction
        /\ t.step = "inserting" /\ t.doc = d /\ t.snapshot = unique_cves
        /\ t.inserted = {} /\ t.next = 1
    BY DEF Extracting, Transaction, IInv, TypeOK
  <1>2. /\ tx' = [tx EXCEPT ![w] = t]
        /\ unique_cves' = unique_cves /\ documents' = documents
        /\ documents_cves' = documents_cves /\ raced' = raced
        /\ d \notin documents
        /\ \A v \in Workers : tx[v].doc # d
    BY DEF BeginExtract
  <1>3. TxOK(t, unique_cves, documents, raced)
    BY <1>1, <1>2 DEF TxOK
  <1> HIDE DEF t
  <1>4. tx \in [Workers -> Transaction]
    BY DEF IInv, TypeOK
  <1>5. \A v \in Workers : tx'[v] = IF v = w THEN t ELSE tx[v]
    BY <1>2, <1>4
  <1>6. TypeOK'
    BY <1>1, <1>2, <1>4 DEF IInv, TypeOK
  <1>7. TxInv'
    BY <1>2, <1>3, <1>5 DEF IInv, TxInv
  <1>8. Apart'
    BY <1>1, <1>2, <1>5 DEF IInv, Apart
  <1>9. DictionaryCovers' /\ LinksLostToRaces'
    BY <1>2 DEF IInv, DictionaryCovers, LinksLostToRaces
  <1> QED BY <1>6, <1>7, <1>8, <1>9 DEF IInv

LEMMA InsertKeeps ==
    ASSUME IInv, NEW w \in Workers, InsertCve(w)
    PROVE  IInv'
  <1> DEFINE s == tx[w]
             c == CvesOf[s.doc][s.next]
             inserted == IF c \in unique_cves THEN s.inserted ELSE s.inserted \union {c}
             t == Extracting("inserting", s.doc, s.snapshot, s.next + 1, inserted, {})
  <1>1. tx \in [Workers -> Transaction] /\ s \in Transaction
    BY DEF IInv, TypeOK
  <1>2. /\ s.step = "inserting" /\ s.next <= Len(CvesOf[s.doc])
        /\ ~Blocked(w)
        /\ tx' = [tx EXCEPT ![w] = t]
        /\ unique_cves' = unique_cves /\ documents' = documents
        /\ documents_cves' = documents_cves /\ raced' = raced
    BY DEF InsertCve
  <1>3. TxOK(s, unique_cves, documents, raced)
    BY DEF IInv, TxInv
  <1>4. s.doc \in Documents /\ s.doc \notin documents /\ s.next \in Nat /\ s.next >= 1
    BY <1>1, <1>2, <1>3 DEF TxOK, Transaction
  <1>5. CvesOf[s.doc] \in Seq(Cves)
    BY <1>4, ListType
  <1>6. c \in Cves /\ s.next \in 1 .. Len(CvesOf[s.doc])
    BY <1>2, <1>4, <1>5
  <1>7. /\ inserted \subseteq Cves /\ s.inserted \subseteq inserted
        /\ inserted \subseteq s.inserted \union {c}
        /\ inserted \intersect unique_cves = {}
        /\ c \in unique_cves \union inserted
    <2>1. s.inserted \subseteq Cves /\ s.inserted \intersect unique_cves = {}
      BY <1>1, <1>2, <1>3 DEF TxOK, Transaction
    <2> QED BY <2>1, <1>6
  <1>8. /\ t.step = "inserting" /\ t.doc = s.doc /\ t.snapshot = s.snapshot
        /\ t.next = s.next + 1 /\ t.inserted = inserted
    BY DEF Extracting
  <1>9. t \in Transaction
    BY <1>1, <1>4, <1>7 DEF Extracting, Transaction
  <1>10. \A v \in Workers : v # w => c \notin tx[v].inserted
    <2>1. At(w, c)
      BY <1>2, <1>6 DEF At
    <2> QED BY <2>1, <1>2, <1>6 DEF Blocked, WaitsFor
  <1> HIDE DEF inserted, t
  <1>11. TxOK(t, unique_cves, documents, raced)
    <2>1. ASSUME NEW i \in 1 .. Len(CvesOf[t.doc]), i < t.next
          PROVE  CvesOf[t.doc][i] \in unique_cves \union t.inserted
      <3>1. i \in Nat /\ i < s.next + 1
        BY <2>1, <1>8, <1>5
      <3>2. CASE i = s.next
        BY <3>2, <1>7, <1>8
      <3>3. CASE i < s.next
        BY <3>3, <1>2, <1>3, <1>7, <1>8 DEF TxOK
      <3> QED BY <3>1, <3>2, <3>3, <1>4
    <2>2. t.snapshot \subseteq unique_cves
      BY <1>2, <1>3, <1>8 DEF TxOK
    <2> QED BY <2>1, <2>2, <1>4, <1>7, <1>8 DEF TxOK
  <1>12. \A v \in Workers : tx'[v] = IF v = w THEN t ELSE tx[v]
    BY <1>1, <1>2
  <1>13. TypeOK'
    BY <1>1, <1>2, <1>9 DEF IInv, TypeOK
  <1>14. TxInv'
    BY <1>2, <1>11, <1>12 DEF IInv, TxInv
  <1>15. Apart'
    <2>1. ASSUME NEW v \in Workers, v # w
          PROVE  /\ t.doc # tx[v].doc
                 /\ t.inserted \intersect tx[v].inserted = {}
      <3>1. s.doc # tx[v].doc /\ s.inserted \intersect tx[v].inserted = {}
        BY <2>1, <1>2 DEF IInv, Apart
      <3> QED BY <3>1, <2>1, <1>7, <1>8, <1>10
    <2>2. ASSUME NEW v \in Workers, NEW x \in Workers, v # x
          PROVE  /\ tx'[v].step # "idle" => tx'[v].doc # tx'[x].doc
                 /\ tx'[v].inserted \intersect tx'[x].inserted = {}
      <3>1. CASE v = w
        BY <3>1, <2>1, <2>2, <1>12
      <3>2. CASE x = w
        BY <3>2, <2>1, <2>2, <1>12
      <3>3. CASE v # w /\ x # w
        BY <3>3, <2>2, <1>12 DEF IInv, Apart
      <3> QED BY <3>1, <3>2, <3>3
    <2> QED BY <2>2 DEF Apart
  <1>16. DictionaryCovers' /\ LinksLostToRaces'
    BY <1>2 DEF IInv, DictionaryCovers, LinksLostToRaces
  <1> QED BY <1>13, <1>14, <1>15, <1>16 DEF IInv

LEMMA LinksKeep ==
    ASSUME IInv, NEW w \in Workers, InsertLinks(w)
    PROVE  IInv'
  <1> DEFINE s == tx[w]
             t == Extracting("linked", s.doc, s.snapshot, s.next, s.inserted, Resolved(s))
             r == [raced EXCEPT ![s.doc] = unique_cves \ s.snapshot]
  <1>1. /\ tx \in [Workers -> Transaction] /\ s \in Transaction
        /\ raced \in [Documents -> SUBSET Cves] /\ unique_cves \subseteq Cves
    BY DEF IInv, TypeOK
  <1>2. /\ s.step = "inserting" /\ s.next > Len(CvesOf[s.doc])
        /\ tx' = [tx EXCEPT ![w] = t]
        /\ raced' = r
        /\ unique_cves' = unique_cves /\ documents' = documents
        /\ documents_cves' = documents_cves
    BY DEF InsertLinks, database
  <1>3. TxOK(s, unique_cves, documents, raced)
    BY DEF IInv, TxInv
  <1>4. s.doc \in Documents /\ s.doc \notin documents /\ s.next \in Nat
    BY <1>1, <1>2, <1>3 DEF TxOK, Transaction
  <1>5. Resolved(s) \subseteq Cves
    BY <1>4, ListedCves DEF Resolved
  <1>6. /\ t.step = "linked" /\ t.doc = s.doc /\ t.snapshot = s.snapshot
        /\ t.next = s.next /\ t.inserted = s.inserted /\ t.links = Resolved(s)
    BY DEF Extracting
  <1>7. t \in Transaction
    BY <1>1, <1>4, <1>5 DEF Extracting, Transaction
  <1>8. r[s.doc] = unique_cves \ s.snapshot /\ \A d \in Documents : d # s.doc => r[d] = raced[d]
    BY <1>1, <1>4
  <1>9. r \in [Documents -> SUBSET Cves]
    BY <1>1
  <1> HIDE DEF t, r
  <1>10. TxOK(t, unique_cves, documents, r)
    <2>1. Listed(s.doc) \subseteq unique_cves \union s.inserted
      <3>1. CvesOf[s.doc] \in Seq(Cves)
        BY <1>4, ListType
      <3>2. \A i \in 1 .. Len(CvesOf[s.doc]) : i < s.next
        BY <3>1, <1>2, <1>4
      <3> QED BY <3>2, <1>2, <1>3 DEF Listed, TxOK
    <2>2. s.inserted \intersect unique_cves = {} /\ s.snapshot \subseteq unique_cves /\ s.next >= 1
      BY <1>2, <1>3 DEF TxOK
    <2>3. Resolved(s) = Listed(s.doc) \ (unique_cves \ s.snapshot)
      BY <2>1, <2>2 DEF Resolved
    <2> QED BY <2>1, <2>2, <2>3, <1>4, <1>6, <1>8 DEF TxOK
  <1>11. \A v \in Workers : tx'[v] = IF v = w THEN t ELSE tx[v]
    BY <1>1, <1>2
  <1>12. TypeOK'
    BY <1>1, <1>2, <1>7, <1>9 DEF IInv, TypeOK
  <1>13. TxInv'
    <2>1. ASSUME NEW v \in Workers, v # w PROVE TxOK(tx[v], unique_cves, documents, r)
      <3>1. TxOK(tx[v], unique_cves, documents, raced) /\ tx[v] \in Transaction
        BY <1>1 DEF IInv, TxInv
      <3>2. tx[v].step # "idle" => tx[v].doc \in Documents /\ tx[v].doc # s.doc
        BY <2>1, <3>1 DEF IInv, Apart, TxOK
      <3> QED BY <3>1, <3>2, <1>8, TxFrame DEF TxOK
    <2> QED BY <2>1, <1>2, <1>10, <1>11 DEF TxInv
  <1>14. Apart'
    BY <1>2, <1>6, <1>11 DEF IInv, Apart
  <1>15. DictionaryCovers' /\ LinksLostToRaces'
    <2>1. \A d \in documents : d \in Documents /\ d # s.doc
      BY <1>4 DEF IInv, TypeOK
    <2> QED BY <2>1, <1>2, <1>8 DEF IInv, DictionaryCovers, LinksLostToRaces
  <1> QED BY <1>12, <1>13, <1>14, <1>15 DEF IInv

LEMMA CommitKeeps ==
    ASSUME IInv, NEW w \in Workers, CommitDocument(w)
    PROVE  IInv'
  <1> DEFINE s == tx[w]
             u == unique_cves \union s.inserted
             ds == documents \union {s.doc}
  <1>1. /\ tx \in [Workers -> Transaction] /\ s \in Transaction
        /\ raced \in [Documents -> SUBSET Cves] /\ unique_cves \subseteq Cves
        /\ documents_cves \in [Documents -> SUBSET Cves] /\ documents \subseteq Documents
    BY DEF IInv, TypeOK
  <1>2. /\ s.step = "linked"
        /\ tx' = [tx EXCEPT ![w] = Idle]
        /\ unique_cves' = u /\ documents' = ds
        /\ documents_cves' = [documents_cves EXCEPT ![s.doc] = s.links]
        /\ raced' = raced
    BY DEF CommitDocument
  <1>3. TxOK(s, unique_cves, documents, raced)
    BY DEF IInv, TxInv
  <1>4. /\ s.doc \in Documents /\ s.doc \notin documents
        /\ Listed(s.doc) \subseteq u
        /\ s.links = Listed(s.doc) \ raced[s.doc]
    BY <1>2, <1>3 DEF TxOK
  <1>5. u \subseteq Cves /\ ds \subseteq Documents /\ s.links \subseteq Cves
    BY <1>1, <1>4 DEF Transaction
  <1>6. \A v \in Workers : tx'[v] = IF v = w THEN Idle ELSE tx[v]
    BY <1>1, <1>2
  <1>7. TypeOK'
    BY <1>1, <1>2, <1>5, IdleType DEF TypeOK
  <1>8. TxInv'
    <2>1. TxOK(Idle, u, ds, raced)
      BY IdleType DEF TxOK
    <2>2. ASSUME NEW v \in Workers, v # w PROVE TxOK(tx[v], u, ds, raced)
      <3>1. TxOK(tx[v], unique_cves, documents, raced) /\ tx[v] \in Transaction
        BY <1>1 DEF IInv, TxInv
      <3>2. /\ tx[v].step # "idle" => tx[v].doc # s.doc
            /\ tx[v].inserted \intersect s.inserted = {}
        BY <2>2 DEF IInv, Apart
      <3>3. tx[v].step # "idle" => tx[v].inserted \intersect u = {} /\ tx[v].doc \notin ds
        BY <3>1, <3>2 DEF TxOK
      <3>4. unique_cves \subseteq u
        OBVIOUS
      <3> HIDE DEF u, ds
      <3> QED BY <3>1, <3>3, <3>4, TxFrame
    <2> QED BY <2>1, <2>2, <1>2, <1>6 DEF TxInv
  <1>9. Apart'
    BY <1>6, IdleType, OpenHasDocument DEF IInv, Apart
  <1>10. DictionaryCovers'
    BY <1>2, <1>4 DEF IInv, DictionaryCovers
  <1>11. LinksLostToRaces'
    <2>1. \A d \in Documents : documents_cves'[d] = IF d = s.doc THEN s.links ELSE documents_cves[d]
      BY <1>1, <1>2
    <2> QED BY <2>1, <1>1, <1>2, <1>4 DEF IInv, LinksLostToRaces
  <1> QED BY <1>7, <1>8, <1>9, <1>10, <1>11 DEF IInv

LEMMA RollbackKeeps ==
    ASSUME IInv, NEW w \in Workers, Rollback(w)
    PROVE  IInv'
  <1>1. /\ tx' = [tx EXCEPT ![w] = Idle]
        /\ unique_cves' = unique_cves /\ documents' = documents
        /\ documents_cves' = documents_cves /\ raced' = raced
    BY DEF Rollback
  <1>2. \A v \in Workers : tx'[v] = IF v = w THEN Idle ELSE tx[v]
    BY <1>1 DEF IInv, TypeOK
  <1>3. TypeOK'
    BY <1>1, IdleType DEF IInv, TypeOK
  <1>4. TxInv'
    <2>1. TxOK(Idle, unique_cves, documents, raced)
      BY IdleType DEF TxOK
    <2> QED BY <2>1, <1>1, <1>2 DEF IInv, TxInv
  <1>5. Apart'
    BY <1>2, IdleType, OpenHasDocument DEF IInv, Apart
  <1>6. DictionaryCovers' /\ LinksLostToRaces'
    BY <1>1 DEF IInv, DictionaryCovers, LinksLostToRaces
  <1> QED BY <1>3, <1>4, <1>5, <1>6 DEF IInv

LEMMA Initial == Init => IInv
  <1> SUFFICES ASSUME Init PROVE IInv
    OBVIOUS
  <1>1. \A w \in Workers : tx[w] = Idle
    BY DEF Init
  <1>2. TypeOK
    BY IdleType DEF Init, TypeOK
  <1>3. TxInv
    BY <1>1, IdleType DEF TxInv, TxOK
  <1>4. Apart
    BY <1>1, IdleType DEF Apart
  <1>5. DictionaryCovers /\ LinksLostToRaces
    BY DEF Init, DictionaryCovers, LinksLostToRaces
  <1> QED BY <1>2, <1>3, <1>4, <1>5 DEF IInv

LEMMA Step == IInv /\ [Next]_vars => IInv'
  <1> SUFFICES ASSUME IInv, [Next]_vars PROVE IInv'
    OBVIOUS
  <1>1. CASE UNCHANGED vars
    BY <1>1 DEF vars, IInv, TypeOK, TxInv, Apart, DictionaryCovers, LinksLostToRaces
  <1>2. ASSUME NEW w \in Workers, NEW d \in Documents, BeginExtract(w, d) PROVE IInv'
    BY <1>2, BeginKeeps
  <1>3. ASSUME NEW w \in Workers, InsertCve(w) PROVE IInv'
    BY <1>3, InsertKeeps
  <1>4. ASSUME NEW w \in Workers, InsertLinks(w) PROVE IInv'
    BY <1>4, LinksKeep
  <1>5. ASSUME NEW w \in Workers, CommitDocument(w) PROVE IInv'
    BY <1>5, CommitKeeps
  <1>6. ASSUME NEW w \in Workers, Rollback(w) \/ AbortDeadlocked(w) PROVE IInv'
    BY <1>6, RollbackKeeps DEF AbortDeadlocked
  <1> QED BY <1>1, <1>2, <1>3, <1>4, <1>5, <1>6 DEF Next

LEMMA Invariant == Spec => []IInv
  BY Initial, Step, PTL DEF Spec

------------------------------------------------------------------------------
\* The dictionary, the links and the open transactions keep their types.
THEOREM ExtractionTypes == Spec => []TypeOK
  <1>1. IInv => TypeOK
    BY DEF IInv
  <1> QED BY <1>1, Invariant, PTL

\* Every CVE of a stored document is in the dictionary, whichever transaction
\* brought it (extract_cves waits for the others before it passes an entry over).
THEOREM StoredCvesKnown == Spec => []DictionaryCovers
  <1>1. IInv => DictionaryCovers
    BY DEF IInv
  <1> QED BY <1>1, Invariant, PTL

\* The links a stored document lacks are exactly those to CVEs that others committed
\* while its extract_cves ran.
THEOREM LinksLostOnlyToRaces == Spec => []LinksLostToRaces
  <1>1. IInv => LinksLostToRaces
    BY DEF IInv
  <1> QED BY <1>1, Invariant, PTL

------------------------------------------------------------------------------
(* Deadlocks                                                               *)

\* What a statement has inserted lies behind its position in the document's list.
Behind ==
    \A w \in Workers : tx[w].step = "inserting" =>
        \A c \in tx[w].inserted :
            \E i \in 1 .. Len(CvesOf[tx[w].doc]) : i < tx[w].next /\ CvesOf[tx[w].doc][i] = c

LEMMA BehindStep == IInv /\ Behind /\ [Next]_vars => Behind'
  <1> SUFFICES ASSUME IInv, Behind, [Next]_vars PROVE Behind'
    OBVIOUS
  <1>1. tx \in [Workers -> Transaction]
    BY DEF IInv, TypeOK
  <1>2. CASE UNCHANGED vars
    BY <1>2 DEF vars, Behind
  <1>3. ASSUME NEW w \in Workers, NEW t,
               tx' = [tx EXCEPT ![w] = t],
               t.step = "inserting" =>
                   \A c \in t.inserted :
                       \E i \in 1 .. Len(CvesOf[t.doc]) : i < t.next /\ CvesOf[t.doc][i] = c
        PROVE  Behind'
    <2>1. \A v \in Workers : tx'[v] = IF v = w THEN t ELSE tx[v]
      BY <1>1, <1>3
    <2> QED BY <2>1, <1>3 DEF Behind
  <1>4. ASSUME NEW w \in Workers, NEW d \in Documents, BeginExtract(w, d) PROVE Behind'
    BY <1>3, <1>4 DEF BeginExtract, Extracting
  <1>5. ASSUME NEW w \in Workers, InsertCve(w) PROVE Behind'
    <2> DEFINE s == tx[w]
               c == CvesOf[s.doc][s.next]
               inserted == IF c \in unique_cves THEN s.inserted ELSE s.inserted \union {c}
               t == Extracting("inserting", s.doc, s.snapshot, s.next + 1, inserted, {})
    <2>1. /\ s.step = "inserting" /\ s.next <= Len(CvesOf[s.doc])
          /\ tx' = [tx EXCEPT ![w] = t]
      BY <1>5 DEF InsertCve
    <2>2. s.doc \in Documents /\ s.next \in Nat /\ s.next >= 1
      BY <1>1, <2>1 DEF IInv, TxInv, TxOK, Transaction
    <2>3. s.next \in 1 .. Len(CvesOf[s.doc])
      <3>1. CvesOf[s.doc] \in Seq(Cves)
        BY <2>2, ListType
      <3> QED BY <3>1, <2>1, <2>2
    <2>4. t.doc = s.doc /\ t.next = s.next + 1 /\ t.inserted = inserted
      BY DEF Extracting
    <2>5. inserted \subseteq s.inserted \union {c}
      OBVIOUS
    <2> HIDE DEF inserted, t
    <2>6. ASSUME NEW x \in t.inserted
          PROVE  \E i \in 1 .. Len(CvesOf[t.doc]) : i < t.next /\ CvesOf[t.doc][i] = x
      <3>1. CASE x = c
        BY <3>1, <2>2, <2>3, <2>4
      <3>2. CASE x \in s.inserted
        <4>1. PICK i \in 1 .. Len(CvesOf[s.doc]) : i < s.next /\ CvesOf[s.doc][i] = x
          BY <3>2, <2>1 DEF Behind
        <4>2. i < s.next + 1
          BY <4>1, <2>2, <2>3
        <4> QED BY <4>1, <4>2, <2>4
      <3> QED BY <3>1, <3>2, <2>4, <2>5
    <2> QED BY <1>3, <2>1, <2>6
  <1>6. ASSUME NEW w \in Workers, InsertLinks(w) PROVE Behind'
    BY <1>3, <1>6 DEF InsertLinks, Extracting
  <1>7. ASSUME NEW w \in Workers, CommitDocument(w) PROVE Behind'
    BY <1>3, <1>7, IdleType DEF CommitDocument
  <1>8. ASSUME NEW w \in Workers, Rollback(w) \/ AbortDeadlocked(w) PROVE Behind'
    BY <1>3, <1>8, IdleType DEF Rollback, AbortDeadlocked
  <1> QED BY <1>2, <1>4, <1>5, <1>6, <1>7, <1>8 DEF Next

LEMMA BehindInvariant == Spec => []Behind
  <1>1. Init => Behind
    BY IdleType DEF Init, Behind
  <1> QED BY <1>1, BehindStep, Invariant, PTL DEF Spec

\* A set of numbers up to a bound has a least one: its intervals 1 .. n are finite sets.
LEMMA LeastNumber ==
    ASSUME NEW bound \in Nat, NEW T, T \subseteq 1 .. bound, T # {}
    PROVE  \E n \in T : \A m \in T : ~(m < n)
  <1> DEFINE S == 1 .. bound
             intervals == {1 .. n : n \in T}
             R == StrictSubsetOrdering(S)
  <1>1. IsWellFoundedOn(R, SUBSET S)
    <2>1. IsFiniteSet(S)
      BY FS_Interval
    <2> QED BY <2>1, FS_StrictSubsetOrderingWellFounded, FS_FiniteSubsetsOfFinite
  <1>2. intervals \subseteq SUBSET S
    OBVIOUS
  <1>3. intervals # {}
    OBVIOUS
  <1>4. PICK x \in intervals : \A y \in intervals : <<y, x>> \notin R
    <2> HIDE DEF R, intervals, S
    <2> QED BY <1>1, <1>2, <1>3, WFMin
  <1>5. PICK n \in T : x = 1 .. n
    OBVIOUS
  <1>6. ASSUME NEW m \in T, m < n PROVE FALSE
    <2>1. 1 .. m \in intervals
      OBVIOUS
    <2>2. 1 .. m \subseteq 1 .. n
      BY <1>6
    <2>3. n \in 1 .. n /\ n \notin 1 .. m
      BY <1>6
    <2>4. 1 .. m # 1 .. n
      BY <2>3
    <2>5. <<1 .. m, x>> \in R
      BY <1>2, <1>5, <2>1, <2>2, <2>4 DEF StrictSubsetOrdering
    <2> QED BY <1>4, <2>1, <2>5
  <1> QED BY <1>6

\* On a circle somebody waits for the entry of least rank, and its holder waits for one
\* that lies behind it in the holder's list.
LEMMA DeadlockFollows ==
    ASSUME TypeOK, Behind
    PROVE  DeadlockNeedsDisorder
  <1> SUFFICES ASSUME NEW w \in Workers, Deadlocked(w), InOneOrder
               PROVE  FALSE
    BY DEF DeadlockNeedsDisorder
  <1>1. PICK circle \in SUBSET Workers :
            /\ w \in circle
            /\ \A v \in circle : \E u \in circle : WaitsFor(v, u)
            /\ \A v \in circle : \E u \in circle : WaitsFor(u, v)
    BY DEF Deadlocked
  <1>2. PICK rank \in [Cves -> 1 .. Cardinality(Cves)] :
            \A v \in Workers : tx[v].step = "inserting" =>
                \A i, j \in 1 .. Len(CvesOf[tx[v].doc]) :
                    i < j => rank[CvesOf[tx[v].doc][i]] < rank[CvesOf[tx[v].doc][j]]
    BY DEF InOneOrder
  <1>3. Cardinality(Cves) \in Nat
    BY FS_CardinalityType, ExtractionAssumption
  <1> DEFINE awaited == {c \in Cves : \E v \in circle : At(v, c)}
             ranks == {rank[c] : c \in awaited}
  <1>4. ranks \subseteq 1 .. Cardinality(Cves)
    BY <1>2
  <1>5. ranks # {}
    BY <1>1 DEF WaitsFor
  <1>6. PICK c \in awaited : \A d \in awaited : ~(rank[d] < rank[c])
    <2> HIDE DEF ranks
    <2>1. \E n \in ranks : \A m \in ranks : ~(m < n)
      BY <1>3, <1>4, <1>5, LeastNumber
    <2> QED BY <2>1 DEF ranks
  <1>7. PICK v \in circle : At(v, c)
    BY <1>6
  <1>8. PICK u \in circle, d \in Cves : At(u, d) /\ d \in tx[v].inserted
    BY <1>1, <1>7 DEF WaitsFor
  <1>9. d \in awaited
    BY <1>8
  <1>10. rank[d] < rank[c]
    <2>1. /\ tx[v].step = "inserting"
          /\ tx[v].next \in 1 .. Len(CvesOf[tx[v].doc])
          /\ CvesOf[tx[v].doc][tx[v].next] = c
      BY <1>7 DEF At
    <2>2. PICK i \in 1 .. Len(CvesOf[tx[v].doc]) : i < tx[v].next /\ CvesOf[tx[v].doc][i] = d
      BY <1>7, <1>8, <2>1 DEF Behind
    <2> QED BY <1>2, <1>7, <2>1, <2>2
  <1> QED BY <1>6, <1>9, <1>10

\* Stores wait for each other in a circle only when their documents list CVEs in
\* orders that contradict each other, however many stores there are.
THEOREM DeadlocksNeedDisorder == Spec => []DeadlockNeedsDisorder
  <1>1. IInv /\ Behind => DeadlockNeedsDisorder
    BY DeadlockFollows DEF IInv
  <1> QED BY <1>1, Invariant, BehindInvariant, PTL

\* Among finitely many stores, some that wait only for each other hold a circle: the
\* smallest set of them in which everybody waits for a member.
LEMMA WaitsEndInCircle ==
    ASSUME IsFiniteSet(Workers),
           NEW W \in SUBSET Workers, W # {},
           \A v \in W : \E u \in W : WaitsFor(v, u)
    PROVE  \E w \in W : Deadlocked(w)
  <1> DEFINE closed == {C \in SUBSET W : C # {} /\ \A v \in C : \E u \in C : WaitsFor(v, u)}
             R == StrictSubsetOrdering(Workers)
  <1>1. IsWellFoundedOn(R, SUBSET Workers)
    BY FS_StrictSubsetOrderingWellFounded, FS_FiniteSubsetsOfFinite
  <1>2. closed \subseteq SUBSET Workers /\ closed # {}
    OBVIOUS
  <1>3. PICK C \in closed : \A D \in closed : <<D, C>> \notin R
    <2> HIDE DEF closed, R
    <2> QED BY <1>1, <1>2, WFMin
  <1>4. ASSUME NEW v \in C
        PROVE  \E u \in C : WaitsFor(u, v)
    <2> SUFFICES ASSUME \A u \in C : ~WaitsFor(u, v)
                 PROVE  FALSE
      OBVIOUS
    <2> DEFINE D == C \ {v}
    <2>1. D # {}
      BY DEF WaitsFor
    <2>2. \A x \in D : \E u \in D : WaitsFor(x, u)
      OBVIOUS
    <2>3. D \in closed
      BY <2>1, <2>2
    <2>4. <<D, C>> \in R
      BY <1>2, <2>3 DEF StrictSubsetOrdering
    <2> QED BY <1>3, <2>3, <2>4
  <1>5. PICK w \in C : TRUE
    OBVIOUS
  <1>6. Deadlocked(w)
    BY <1>4, <1>5 DEF Deadlocked
  <1> QED BY <1>5, <1>6

\* Some open transaction does not wait for another one.
SomeStoreGoesOn ==
    InOneOrder /\ (\E w \in Workers : tx[w].step # "idle") =>
        \E w \in Workers : tx[w].step # "idle" /\ ~Blocked(w)

\* While the documents being stored agree on an order of their CVEs, any number of stores
\* makes progress without deadlock detection: there is always one that waits for nobody.
THEOREM OrderedStoresGoOn ==
    ASSUME IsFiniteSet(Workers)
    PROVE  Spec => []SomeStoreGoesOn
  <1>1. IInv /\ Behind => SomeStoreGoesOn
    <2> SUFFICES ASSUME IInv, Behind, InOneOrder,
                        NEW w \in Workers, tx[w].step # "idle",
                        \A v \in Workers : tx[v].step # "idle" => Blocked(v)
                 PROVE  FALSE
      BY DEF SomeStoreGoesOn
    <2> DEFINE W == {v \in Workers : tx[v].step # "idle"}
    <2>1. ASSUME NEW v \in W PROVE \E u \in W : WaitsFor(v, u)
      <3>1. PICK u \in Workers : WaitsFor(v, u)
        BY DEF Blocked
      <3>2. tx[u].step # "idle"
        BY <3>1 DEF WaitsFor, IInv, TypeOK, TxInv, TxOK
      <3> QED BY <3>1, <3>2
    <2>2. PICK v \in W : Deadlocked(v)
      BY <2>1, WaitsEndInCircle
    <2> QED BY <2>2, DeadlockFollows DEF IInv, DeadlockNeedsDisorder
  <1> QED BY <1>1, Invariant, BehindInvariant, PTL

------------------------------------------------------------------------------
(* The atomic index.  A transaction inserts nothing but CVEs of its own      *)
(* document, so its COMMIT adds exactly those, and what others committed     *)
(* while it ran is in the dictionary by then.                                *)

Own ==
    /\ \A w \in Workers : tx[w].step # "idle" => tx[w].inserted \subseteq Listed(tx[w].doc)
    /\ \A d \in Documents : raced[d] \subseteq unique_cves

LEMMA OwnStep == IInv /\ Own /\ [Next]_vars => Own'
  <1> SUFFICES ASSUME IInv, Own, [Next]_vars PROVE Own'
    OBVIOUS
  <1>1. /\ tx \in [Workers -> Transaction] /\ raced \in [Documents -> SUBSET Cves]
    BY DEF IInv, TypeOK
  <1>2. CASE UNCHANGED vars
    BY <1>2 DEF vars, Own
  <1>3. ASSUME NEW w \in Workers, NEW t, tx' = [tx EXCEPT ![w] = t],
               t.step # "idle" => t.inserted \subseteq Listed(t.doc),
               unique_cves \subseteq unique_cves',
               \A d \in Documents : raced'[d] \subseteq unique_cves'
        PROVE  Own'
    <2>1. \A v \in Workers : tx'[v] = IF v = w THEN t ELSE tx[v]
      BY <1>1, <1>3
    <2> QED BY <2>1, <1>3 DEF Own
  <1>4. ASSUME NEW w \in Workers, NEW d \in Documents, BeginExtract(w, d) PROVE Own'
    BY <1>3, <1>4 DEF BeginExtract, Extracting, Own
  <1>5. ASSUME NEW w \in Workers, InsertCve(w) PROVE Own'
    <2> DEFINE s == tx[w]
               c == CvesOf[s.doc][s.next]
               inserted == IF c \in unique_cves THEN s.inserted ELSE s.inserted \union {c}
               t == Extracting("inserting", s.doc, s.snapshot, s.next + 1, inserted, {})
    <2>1. /\ s.step = "inserting" /\ s.next <= Len(CvesOf[s.doc])
          /\ tx' = [tx EXCEPT ![w] = t]
          /\ unique_cves' = unique_cves /\ raced' = raced
      BY <1>5 DEF InsertCve
    <2>2. s.doc \in Documents /\ s.next \in Nat /\ s.next >= 1
      BY <1>1, <2>1 DEF IInv, TxInv, TxOK, Transaction
    <2>3. CvesOf[s.doc] \in Seq(Cves)
      BY <2>2, ListType
    <2>4. c \in Listed(s.doc)
      BY <2>1, <2>2, <2>3 DEF Listed
    <2>5. inserted \subseteq Listed(s.doc)
      BY <2>1, <2>4 DEF Own
    <2>6. t.inserted = inserted /\ t.doc = s.doc
      BY DEF Extracting
    <2> HIDE DEF inserted, t
    <2> QED BY <1>3, <2>1, <2>5, <2>6 DEF Own
  <1>6. ASSUME NEW w \in Workers, InsertLinks(w) PROVE Own'
    <2> DEFINE s == tx[w]
               t == Extracting("linked", s.doc, s.snapshot, s.next, s.inserted, Resolved(s))
    <2>1. /\ s.step = "inserting" /\ tx' = [tx EXCEPT ![w] = t]
          /\ unique_cves' = unique_cves
          /\ raced' = [raced EXCEPT ![s.doc] = unique_cves \ s.snapshot]
      BY <1>6 DEF InsertLinks, database
    <2>2. t.inserted \subseteq Listed(t.doc)
      BY <2>1 DEF Own, Extracting
    <2>3. \A d \in Documents : raced'[d] \subseteq unique_cves'
      BY <1>1, <2>1 DEF Own
    <2> HIDE DEF t
    <2> QED BY <1>3, <2>1, <2>2, <2>3
  <1>7. ASSUME NEW w \in Workers, CommitDocument(w) PROVE Own'
    BY <1>3, <1>7, IdleType DEF CommitDocument, Own
  <1>8. ASSUME NEW w \in Workers, Rollback(w) \/ AbortDeadlocked(w) PROVE Own'
    BY <1>3, <1>8, IdleType DEF Rollback, AbortDeadlocked, Own
  <1> QED BY <1>2, <1>4, <1>5, <1>6, <1>7, <1>8 DEF Next

LEMMA OwnInvariant == Spec => []Own
  <1>1. Init => Own
    BY IdleType DEF Init, Own
  <1> QED BY <1>1, OwnStep, Invariant, PTL DEF Spec

\* A COMMIT is the atomic step, with the links missed that others' commits cost it.
LEMMA CommitIndexes ==
    ASSUME IInv, Own, NEW w \in Workers, CommitDocument(w)
    PROVE  \E d \in Documents :
              /\ d = tx[w].doc /\ d \notin documents
              /\ raced[d] \subseteq unique_cves
              /\ unique_cves' = unique_cves \union Listed(d)
              /\ documents' = documents \union {d}
              /\ documents_cves' = [documents_cves EXCEPT ![d] = Listed(d) \ raced[d]]
  <1> DEFINE s == tx[w]
  <1>1. /\ s.step = "linked" /\ TxOK(s, unique_cves, documents, raced)
        /\ unique_cves' = unique_cves \union s.inserted
        /\ documents' = documents \union {s.doc}
        /\ documents_cves' = [documents_cves EXCEPT ![s.doc] = s.links]
    BY DEF CommitDocument, IInv, TxInv
  <1>2. /\ s.doc \in Documents /\ s.doc \notin documents
        /\ Listed(s.doc) \subseteq unique_cves \union s.inserted
        /\ s.links = Listed(s.doc) \ raced[s.doc]
    BY <1>1 DEF TxOK
  <1>3. s.inserted \subseteq Listed(s.doc) /\ raced[s.doc] \subseteq unique_cves
    BY <1>1, <1>2 DEF Own
  <1> QED BY <1>1, <1>2, <1>3

\* Overlapping extractions implement the atomic index.
THEOREM IndexRefinement == Spec => IndexesAtomically
  <1>1. Init => AtomicIndex!IndexInit
    BY DEF Init, AtomicIndex!IndexInit
  <1>2. IInv /\ Own /\ [Next]_vars => [AtomicIndex!IndexNext]_(AtomicIndex!indexVars)
    <2> SUFFICES ASSUME IInv, Own, [Next]_vars
                 PROVE  AtomicIndex!IndexNext \/ UNCHANGED AtomicIndex!indexVars
      OBVIOUS
    <2>1. ASSUME NEW w \in Workers, CommitDocument(w) PROVE AtomicIndex!IndexNext
      <3>1. PICK d \in Documents :
              /\ d \notin documents
              /\ raced[d] \subseteq unique_cves
              /\ unique_cves' = unique_cves \union Listed(d)
              /\ documents' = documents \union {d}
              /\ documents_cves' = [documents_cves EXCEPT ![d] = Listed(d) \ raced[d]]
        BY <2>1, CommitIndexes
      <3>2. AtomicIndex!Index(d, raced[d])
        BY <3>1 DEF AtomicIndex!Index
      <3> QED BY <3>1, <3>2 DEF AtomicIndex!IndexNext
    <2>2. ASSUME UNCHANGED database PROVE UNCHANGED AtomicIndex!indexVars
      BY <2>2 DEF database, AtomicIndex!indexVars
    <2> QED
      BY <2>1, <2>2
         DEF Next, vars, database, BeginExtract, InsertCve, InsertLinks, Rollback, AbortDeadlocked
  <1> QED BY <1>1, <1>2, Invariant, OwnInvariant, PTL DEF Spec, IndexesAtomically, AtomicIndex!IndexSpec

\* No entry of the dictionary is an orphan: its document is linked to it.
THEOREM NoOrphanCve == Spec => []EveryCveLinked
  <1>1. Init => EveryCveLinked
    BY DEF Init, EveryCveLinked
  <1>2. IInv /\ Own /\ EveryCveLinked /\ [Next]_vars => EveryCveLinked'
    <2> SUFFICES ASSUME IInv, Own, EveryCveLinked, [Next]_vars PROVE EveryCveLinked'
      OBVIOUS
    <2>1. ASSUME NEW w \in Workers, CommitDocument(w) PROVE EveryCveLinked'
      <3>1. PICK d \in Documents :
              /\ d \notin documents
              /\ raced[d] \subseteq unique_cves
              /\ unique_cves' = unique_cves \union Listed(d)
              /\ documents' = documents \union {d}
              /\ documents_cves' = [documents_cves EXCEPT ![d] = Listed(d) \ raced[d]]
        BY <2>1, CommitIndexes
      <3>2. documents_cves \in [Documents -> SUBSET Cves] /\ documents \subseteq Documents
        BY DEF IInv, TypeOK
      <3>3. /\ documents_cves'[d] = Listed(d) \ raced[d]
            /\ \A e \in documents : documents_cves'[e] = documents_cves[e]
        BY <3>1, <3>2
      <3>4. ASSUME NEW c \in unique_cves' PROVE \E e \in documents' : c \in documents_cves'[e]
        <4>1. CASE c \in unique_cves
          BY <3>1, <3>3, <4>1 DEF EveryCveLinked
        <4>2. CASE c \notin unique_cves
          BY <3>1, <3>3, <4>2
        <4> QED BY <4>1, <4>2
      <3> QED BY <3>4 DEF EveryCveLinked
    <2>2. ASSUME UNCHANGED database PROVE EveryCveLinked'
      BY <2>2 DEF database, EveryCveLinked
    <2> QED
      BY <2>1, <2>2
         DEF Next, vars, database, BeginExtract, InsertCve, InsertLinks, Rollback, AbortDeadlocked
  <1> QED BY <1>1, <1>2, Invariant, OwnInvariant, PTL DEF Spec

------------------------------------------------------------------------------
(* One store at a time                                                       *)

\* The dictionary stands still between the snapshot and the links.
Still ==
    /\ \A d \in Documents : raced[d] = {}
    /\ \A w \in Workers : tx[w].step = "inserting" => tx[w].snapshot = unique_cves

\* What extract_cves promises is kept where one process stores, one document after the
\* other: the lost links are the price of a second writer and of nothing else.
THEOREM LinksCompleteAlone ==
    ASSUME NEW w, Workers = {w}
    PROVE  Spec => []LinksComplete
  <1>1. Init => Still
    BY IdleType DEF Init, Still
  <1>2. IInv /\ Still /\ [Next]_vars => Still'
    <2> SUFFICES ASSUME IInv, Still, [Next]_vars PROVE Still'
      OBVIOUS
    <2>1. /\ tx \in [Workers -> Transaction] /\ raced \in [Documents -> SUBSET Cves]
          /\ w \in Workers
      BY DEF IInv, TypeOK
    <2>2. CASE UNCHANGED vars
      BY <2>2 DEF vars, Still
    <2>3. ASSUME NEW d \in Documents, BeginExtract(w, d) PROVE Still'
      BY <2>1, <2>3 DEF BeginExtract, Extracting, Still
    <2>4. CASE InsertCve(w)
      BY <2>1, <2>4 DEF InsertCve, Extracting, Still
    <2>5. CASE InsertLinks(w)
      <3>1. unique_cves \ tx[w].snapshot = {}
        BY <2>1, <2>5 DEF InsertLinks, Still
      <3> QED BY <2>1, <2>5, <3>1 DEF InsertLinks, Extracting, Still, database
    <2>6. CASE CommitDocument(w)
      BY <2>1, <2>6, IdleType DEF CommitDocument, Still
    <2>7. CASE Rollback(w) \/ AbortDeadlocked(w)
      BY <2>1, <2>7, IdleType DEF Rollback, AbortDeadlocked, Still
    <2> QED BY <2>2, <2>3, <2>4, <2>5, <2>6, <2>7 DEF Next
  <1>3. IInv /\ Still => LinksComplete
    BY DEF IInv, TypeOK, Still, LinksLostToRaces, LinksComplete
  <1> QED BY <1>1, <1>2, <1>3, Invariant, PTL DEF Spec
==============================================================================
