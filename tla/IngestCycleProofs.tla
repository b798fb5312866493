-------------------------- MODULE IngestCycleProofs --------------------------
(***************************************************************************)
(* What holds of ingestion cycles for any number of ingesters, feeds and   *)
(* advisories and any amount of faults and edits: the types, that only     *)
(* publishable documents are stored, what a sweep may withdraw, and what a *)
(* finished cycle has stored.                                              *)
(***************************************************************************)
EXTENDS IngestCycle, FiniteSetTheorems, TLAPS

\* The database holds what the provider publishes for a.
Held(a) == \E s \in stored[a] : s = published[a] \/ SameRevisionKey(published[a], s)

\* Advisories on which nothing happened while the cycle of i ran.
Undisturbed(i, a) == Publishes(a) /\ a \notin cycle[i].changed \union cycle[i].faulted

\* Where such an advisory is, at every stage of the cycle.
Covered(i, a) ==
    LET c == cycle[i]
        f == FeedOf[published[a]]
    IN
    /\ c.step = "pull" => \/ a \in c.present
                          \/ published[a] \in c.files
                          \/ f \in c.feeds
                          \/ f \in down
    /\ c.step = "probe" => /\ a \in c.present \/ f \in down
                           /\ a \in c.present \/ ~c.loaded \/ f \in c.feeds
    /\ c.step = "sweep" => a \in c.present
    /\ c.step = "record" => a \in c.present \/ f \in down
    /\ a \in c.present => Held(a)

CoverInv == \A i \in Ingesters, a \in Advisories : Undisturbed(i, a) => Covered(i, a)

\* A cycle starts with nothing in it.
IdleInv == \A i \in Ingesters : cycle[i].step = "idle" => cycle[i] = Idle

\* Only files of publishable feeds are processed.
FilesInv == \A i \in Ingesters : \A r \in cycle[i].files : FeedOf[r] \in PublicFeeds

IInv == TypeOK /\ IdleInv /\ FilesInv /\ OnlyPublicStored /\ CoverInv

------------------------------------------------------------------------------

LEMMA IdleType == Idle \in Cycle
  BY DEF Idle, Cycle

\* A revision belongs to an advisory and lies in a feed; none is NULL.
LEMMA RevisionFacts ==
    ASSUME NEW r \in Revisions
    PROVE  r.adv \in Advisories /\ FeedOf[r] \in Feeds /\ r # NULL
  BY RevisionAssumption, IngestAssumption DEF Revision

\* A listed file that can be downloaded yields a document of the same advisory
\* and feed.
LEMMA FetchedFacts ==
    ASSUME TypeOK, NEW r \in Revisions, Available(r)
    PROVE  /\ Fetched(r) \in Revisions
           /\ Fetched(r).adv = r.adv
           /\ FeedOf[Fetched(r)] = FeedOf[r]
           /\ Fetched(r) = published[r.adv]
  BY RevisionFacts DEF TypeOK, Available, Fetched

\* What Store does to the revisions of an advisory.
LEMMA StoreFacts ==
    ASSUME TypeOK, NEW r \in Revisions, Store(r)
    PROVE  /\ LogTypeOK'
           /\ \A a \in Advisories : stored[a] \subseteq stored'[a]
           /\ \A a \in Advisories : stored'[a] \subseteq stored[a] \union {r}
           /\ \E s \in stored'[r.adv] : s = r \/ SameRevisionKey(r, s)
           /\ withdrawn' = withdrawn \ {r.adv}
  <1>1. r.adv \in Advisories /\ LogTypeOK
    BY RevisionFacts DEF TypeOK
  <1>2. CASE Duplicate(r)
    BY <1>1, <1>2 DEF Store, Duplicate, LogTypeOK
  <1>3. CASE Accept(r)
    <2>1. /\ stored' = [stored EXCEPT ![r.adv] = @ \union {r}]
          /\ head' \in [Advisories -> Revisions \union {NULL}]
          /\ withdrawn' = withdrawn \ {r.adv}
      BY <1>1, <1>3 DEF Store, Accept, LogTypeOK
    <2> QED
      BY <1>1, <2>1 DEF LogTypeOK
  <1> QED
    BY <1>2, <1>3 DEF Store, Keep

------------------------------------------------------------------------------
(* Types, idle cycles, files.                                              *)

LEMMA InitInv == Init => IInv
  <1> SUFFICES ASSUME Init PROVE IInv
    OBVIOUS
  <1>1. TypeOK
    <2>1. LogTypeOK
      BY DEF Init, LogInit, LogTypeOK
    <2>2. cycle \in [Ingesters -> Cycle]
      BY IdleType DEF Init
    <2>3. faults \in 0 .. MaxFaults /\ edits \in 0 .. MaxEdits
      BY IngestAssumption DEF Init
    <2> QED
      BY <2>1, <2>2, <2>3 DEF Init, TypeOK
  <1>2. IdleInv /\ FilesInv /\ OnlyPublicStored
    BY DEF Init, LogInit, IdleInv, FilesInv, OnlyPublicStored, Idle
  <1>3. CoverInv
    BY DEF Init, CoverInv, Covered, Idle
  <1> QED
    BY <1>1, <1>2, <1>3 DEF IInv

\* A step of ingester i touches no other cycle and not the provider, and the database
\* only grows.
LEMMA WorkFrame ==
    ASSUME IInv, NEW i \in Ingesters, Work(i) \/ Abort(i)
    PROVE  /\ cycle' = [cycle EXCEPT ![i] = cycle'[i]]
           /\ cycle'[i] \in Cycle
           /\ LogTypeOK'
           /\ published' = published
           /\ down' = down
           /\ watermark' \in BOOLEAN
           /\ faults' \in 0 .. MaxFaults
           /\ edits' = edits
           /\ \A a \in Advisories : stored[a] \subseteq stored'[a]
  <1> DEFINE Frame(c) ==
        /\ cycle' = [cycle EXCEPT ![i] = c]
        /\ c \in Cycle
        /\ LogTypeOK'
        /\ published' = published
        /\ down' = down
        /\ watermark' \in BOOLEAN
        /\ faults' \in 0 .. MaxFaults
        /\ edits' = edits
        /\ \A a \in Advisories : stored[a] \subseteq stored'[a]
  <1>0. /\ TypeOK /\ cycle \in [Ingesters -> Cycle] /\ cycle[i] \in Cycle
        /\ LogTypeOK /\ watermark \in BOOLEAN /\ faults \in 0 .. MaxFaults
        /\ MaxFaults \in Nat /\ PublicFeeds \subseteq Feeds
    BY IngestAssumption DEF IInv, TypeOK
  <1>a. \A f : Listed(f) \subseteq Revisions
    BY DEF Listed
  <1>q. SUFFICES \E c : Frame(c)
    BY <1>0
  <1>1. CASE StartCycle(i)
    <2> DEFINE c == [cycle[i] EXCEPT !.step = "pull", !.feeds = Feeds]
    <2>1. c \in Cycle
      BY <1>0 DEF Cycle
    <2> QED
      BY <1>0, <1>1, <2>1 DEF StartCycle, logVars, LogTypeOK, environment
  <1>2. CASE \E f \in Feeds : VisitFeed(i, f)
    <2> PICK f \in Feeds : VisitFeed(i, f)
      BY <1>2
    <2>1. AfterFeed(cycle[i], f) \in Cycle
      BY <1>0, <1>a DEF Cycle, AfterFeed
    <2> QED
      BY <1>0, <2>1 DEF VisitFeed, logVars, LogTypeOK, environment
  <1>3. CASE \E r \in Revisions : MissFile(i, r) \/ DropFile(i, r)
    <2> PICK r \in Revisions : MissFile(i, r) \/ DropFile(i, r)
      BY <1>3
    <2> DEFINE c == [cycle[i] EXCEPT !.files = @ \ {r}]
    <2>1. c \in Cycle
      BY <1>0 DEF Cycle
    <2> QED
      BY <1>0, <2>1 DEF MissFile, DropFile, logVars, LogTypeOK, environment
  <1>4. CASE \E r \in Revisions : SkipFile(i, r)
    <2> PICK r \in Revisions : SkipFile(i, r)
      BY <1>4
    <2> DEFINE c == [cycle[i] EXCEPT !.files = @ \ {r}, !.faulted = @ \union {r.adv}]
    <2>1. c \in Cycle
      BY <1>0, RevisionFacts DEF Cycle
    <2>2. faults' \in 0 .. MaxFaults
      BY <1>0 DEF SkipFile, Fault
    <2>3. cycle' = [cycle EXCEPT ![i] = c]
      BY <1>0 DEF SkipFile
    <2> QED
      BY <1>0, <2>1, <2>2, <2>3 DEF SkipFile, logVars, LogTypeOK
  <1>5. CASE \E r \in Revisions : StoreFile(i, r)
    <2> PICK r \in Revisions : StoreFile(i, r)
      BY <1>5
    <2> DEFINE d == Fetched(r)
               c == [cycle[i] EXCEPT !.files = @ \ {r}, !.present = Present(cycle[i], d)]
    <2>1. d \in Revisions /\ d.adv \in Advisories
      BY <1>0, FetchedFacts, RevisionFacts DEF StoreFile
    <2>2. c \in Cycle
      BY <1>0, <2>1 DEF Cycle, Present
    <2>3. cycle' = [cycle EXCEPT ![i] = c]
      BY <1>0 DEF StoreFile
    <2>4. LogTypeOK' /\ \A a \in Advisories : stored[a] \subseteq stored'[a]
      BY <1>0, <2>1, StoreFacts DEF StoreFile
    <2> QED
      BY <1>0, <2>2, <2>3, <2>4 DEF StoreFile, environment
  <1>6. CASE \E r \in Revisions : RejectFile(i, r)
    BY <1>0, <1>6, IdleType DEF RejectFile, AfterCycle, logVars, LogTypeOK, environment
  <1>7. CASE BeginProbe(i)
    <2> DEFINE c == [cycle[i] EXCEPT !.step = "probe", !.feeds = PublicFeeds]
    <2>1. c \in Cycle
      BY <1>0 DEF Cycle
    <2>2. cycle' = [cycle EXCEPT ![i] = c]
      BY <1>0, <1>7 DEF BeginProbe
    <2> QED
      BY <1>0, <1>7, <2>1, <2>2 DEF BeginProbe, logVars, LogTypeOK, environment
  <1>8. CASE \E f \in Feeds : ProbeFeed(i, f)
    <2> PICK f \in Feeds : ProbeFeed(i, f)
      BY <1>8
    <2> DEFINE c == [cycle[i] EXCEPT !.feeds = @ \ {f}, !.loaded = @ /\ f \notin down]
    <2>1. c \in Cycle
      BY <1>0 DEF Cycle
    <2>2. cycle' = [cycle EXCEPT ![i] = c]
      BY <1>0 DEF ProbeFeed
    <2> QED
      BY <1>0, <2>1, <2>2 DEF ProbeFeed, logVars, LogTypeOK, environment
  <1>9. CASE DecideSweep(i)
    <2> PICK s \in {"sweep", "record"} : cycle' = [cycle EXCEPT ![i].step = s]
      BY <1>9 DEF DecideSweep
    <2> DEFINE c == [cycle[i] EXCEPT !.step = s]
    <2>1. c \in Cycle
      BY <1>0 DEF Cycle
    <2>2. cycle' = [cycle EXCEPT ![i] = c]
      BY <1>0
    <2> QED
      BY <1>0, <1>9, <2>1, <2>2 DEF DecideSweep, logVars, LogTypeOK, environment
  <1>10. CASE Sweep(i)
    <2> DEFINE c == [cycle[i] EXCEPT !.step = "record"]
    <2>1. c \in Cycle
      BY <1>0 DEF Cycle
    <2>2. cycle' = [cycle EXCEPT ![i] = c]
      BY <1>0, <1>10 DEF Sweep
    <2>3. LogTypeOK' /\ stored' = stored
      BY <1>0, <1>10 DEF Sweep, Withdraw, LogTypeOK, Known
    <2> QED
      BY <1>0, <1>10, <2>1, <2>2, <2>3 DEF Sweep, environment
  <1>11. CASE Record(i)
    BY <1>0, <1>11, IdleType DEF Record, AfterCycle, logVars, LogTypeOK, environment
  <1>12. CASE Abort(i)
    <2>1. faults' \in 0 .. MaxFaults
      BY <1>0, <1>12 DEF Abort, Fault
    <2> QED
      BY <1>0, <1>12, <2>1, IdleType DEF Abort, AfterCycle, logVars, LogTypeOK
  <1> QED
    BY <1>1, <1>2, <1>3, <1>4, <1>5, <1>6, <1>7, <1>8, <1>9, <1>10, <1>11, <1>12
       DEF Work, ProcessFile

\* A step of the provider leaves the database and, but for the history, every cycle
\* alone; an idle ingester has no history.
LEMMA ProviderFrame ==
    ASSUME IInv, Provider
    PROVE  /\ TypeOK'
           /\ UNCHANGED logVars
           /\ \A i \in Ingesters :
                /\ cycle[i].step = "idle" => cycle'[i] = cycle[i]
                /\ cycle'[i] \in Cycle
                /\ cycle'[i].step = cycle[i].step
                /\ cycle'[i].feeds = cycle[i].feeds
                /\ cycle'[i].files = cycle[i].files
                /\ cycle'[i].present = cycle[i].present
                /\ cycle'[i].loaded = cycle[i].loaded
                /\ cycle[i].changed \subseteq cycle'[i].changed
                /\ cycle[i].faulted \subseteq cycle'[i].faulted
  <1> DEFINE Frame ==
        /\ UNCHANGED logVars
        /\ watermark' = watermark
        /\ published' \in [Advisories -> Revisions \union {NULL}]
        /\ \A a \in Advisories : published'[a] # NULL => published'[a].adv = a
        /\ down' \subseteq Feeds
        /\ faults' \in 0 .. MaxFaults
        /\ edits' \in 0 .. MaxEdits
      History == \E A \in SUBSET Advisories : Changing(A) \/ Faulting(A) \/ cycle' = cycle
  <1>0. /\ TypeOK /\ cycle \in [Ingesters -> Cycle] /\ LogTypeOK
        /\ MaxFaults \in Nat /\ MaxEdits \in Nat
    BY IngestAssumption DEF IInv, TypeOK
  <1>1. ASSUME \E r \in Revisions : Publish(r) PROVE Frame /\ History
    <2> PICK r \in Revisions : Publish(r)
      BY <1>1
    <2>1. r.adv \in Advisories
      BY RevisionFacts
    <2>2. edits' \in 0 .. MaxEdits
      BY <1>0 DEF TypeOK, Publish, Editing
    <2>3. Frame
      BY <1>0, <2>1, <2>2 DEF Publish, Editing, logVars, TypeOK
    <2>4. Changing({r.adv})
      BY DEF Publish, Editing
    <2> HIDE DEF Frame
    <2> QED
      BY <2>1, <2>3, <2>4
  <1>2. ASSUME \E a \in Advisories : Retire(a) PROVE Frame /\ History
    <2> PICK a \in Advisories : Retire(a)
      BY <1>2
    <2>1. edits' \in 0 .. MaxEdits
      BY <1>0 DEF TypeOK, Retire, Editing
    <2>3. Frame
      BY <1>0, <2>1 DEF Retire, Editing, logVars, TypeOK
    <2>4. Changing({a})
      BY DEF Retire, Editing
    <2> HIDE DEF Frame
    <2> QED
      BY <2>3, <2>4
  <1>3. ASSUME \E f \in Feeds : FeedFails(f) PROVE Frame /\ History
    <2>1. faults' \in 0 .. MaxFaults
      BY <1>0, <1>3 DEF TypeOK, FeedFails, Fault
    <2>3. Frame
      BY <1>0, <1>3, <2>1 DEF FeedFails, logVars, TypeOK
    <2>4. cycle' = cycle
      BY <1>3 DEF FeedFails
    <2> HIDE DEF Frame
    <2> QED
      BY <2>3, <2>4
  <1>4. ASSUME \E f \in Feeds : FeedRecovers(f) PROVE Frame /\ History
    <2> PICK f \in Feeds : FeedRecovers(f)
      BY <1>4
    <2>1. {r.adv : r \in Listed(f)} \subseteq Advisories
      BY RevisionFacts DEF Listed
    <2>3. Frame
      BY <1>0, <2>1 DEF FeedRecovers, logVars, TypeOK
    <2>4. Faulting({r.adv : r \in Listed(f)})
      BY DEF FeedRecovers
    <2> HIDE DEF Frame
    <2> QED
      BY <2>1, <2>3, <2>4
  <1>5. Frame /\ History
    BY <1>1, <1>2, <1>3, <1>4 DEF Provider
  <1>6. PICK A \in SUBSET Advisories : Changing(A) \/ Faulting(A) \/ cycle' = cycle
    BY <1>5
  <1>7. ASSUME NEW i \in Ingesters
        PROVE  \E c \in {cycle[i], [cycle[i] EXCEPT !.changed = @ \union A],
                         [cycle[i] EXCEPT !.faulted = @ \union A]} :
                  cycle'[i] = c /\ (cycle[i].step = "idle" => c = cycle[i])
    BY <1>0, <1>6 DEF Changing, Faulting, Running
  <1>8. ASSUME NEW i \in Ingesters
        PROVE  /\ cycle[i].step = "idle" => cycle'[i] = cycle[i]
               /\ cycle'[i] \in Cycle
               /\ cycle'[i].step = cycle[i].step
               /\ cycle'[i].feeds = cycle[i].feeds
               /\ cycle'[i].files = cycle[i].files
               /\ cycle'[i].present = cycle[i].present
               /\ cycle'[i].loaded = cycle[i].loaded
               /\ cycle[i].changed \subseteq cycle'[i].changed
               /\ cycle[i].faulted \subseteq cycle'[i].faulted
    <2>1. cycle[i] \in Cycle
      BY <1>0
    <2>2. PICK c : cycle'[i] = c /\ (cycle[i].step = "idle" => c = cycle[i])
                   /\ c \in {cycle[i], [cycle[i] EXCEPT !.changed = @ \union A],
                             [cycle[i] EXCEPT !.faulted = @ \union A]}
      BY <1>7
    <2>3. CASE c = cycle[i]
      BY <2>1, <2>2, <2>3
    <2>4. CASE c = [cycle[i] EXCEPT !.changed = @ \union A]
      BY <2>1, <2>2, <2>4 DEF Cycle
    <2>5. CASE c = [cycle[i] EXCEPT !.faulted = @ \union A]
      BY <2>1, <2>2, <2>5 DEF Cycle
    <2> QED
      BY <2>2, <2>3, <2>4, <2>5
  <1>9. cycle' \in [Ingesters -> Cycle]
    <2>1. cycle' = cycle \/ \E F : cycle' = [i \in Ingesters |-> F[i]]
      BY <1>6 DEF Changing, Faulting
    <2> QED
      BY <1>0, <1>6, <1>8 DEF Changing, Faulting
  <1>10. LogTypeOK' /\ watermark' \in BOOLEAN
    BY <1>0, <1>5 DEF logVars, LogTypeOK, TypeOK
  <1> QED
    BY <1>5, <1>8, <1>9, <1>10 DEF TypeOK

LEMMA TypeStep == IInv /\ [Next]_vars => TypeOK'
  <1> SUFFICES ASSUME IInv, [Next]_vars PROVE TypeOK'
    OBVIOUS
  <1>0. TypeOK
    BY DEF IInv
  <1>1. CASE Provider
    BY <1>1, ProviderFrame
  <1>2. ASSUME NEW i \in Ingesters, Work(i) \/ Abort(i) PROVE TypeOK'
    BY <1>0, <1>2, WorkFrame DEF TypeOK
  <1>3. CASE UNCHANGED vars
    BY <1>0, <1>3 DEF vars, TypeOK, LogTypeOK
  <1> QED
    BY <1>1, <1>2, <1>3 DEF Next

\* A probe changes two fields.
LEMMA ProbeFrame ==
    ASSUME cycle \in [Ingesters -> Cycle], NEW i \in Ingesters, NEW f, ProbeFeed(i, f)
    PROVE  /\ cycle[i].step = "probe"
           /\ cycle'[i].step = "probe"
           /\ cycle'[i].feeds = cycle[i].feeds \ {f}
           /\ cycle'[i].files = cycle[i].files
           /\ cycle'[i].present = cycle[i].present
           /\ cycle'[i].loaded = (cycle[i].loaded /\ f \notin down)
           /\ cycle'[i].changed = cycle[i].changed
           /\ cycle'[i].faulted = cycle[i].faulted
  <1> DEFINE l == cycle[i].loaded /\ f \notin down
             c == [cycle[i] EXCEPT !.feeds = @ \ {f}, !.loaded = l]
  <1>1. cycle[i] \in Cycle /\ cycle[i].step = "probe"
    BY DEF ProbeFeed
  <1>2. cycle'[i] = c
    BY DEF ProbeFeed
  <1>3. c.loaded = l
    <2> HIDE DEF l
    <2> QED
      BY <1>1 DEF Cycle
  <1> HIDE DEF l
  <1>4. /\ c.step = cycle[i].step /\ c.feeds = cycle[i].feeds \ {f} /\ c.files = cycle[i].files
        /\ c.present = cycle[i].present /\ c.changed = cycle[i].changed
        /\ c.faulted = cycle[i].faulted
    BY <1>1 DEF Cycle
  <1>5. cycle'[i].loaded = l
    BY <1>2, <1>3
  <1> HIDE DEF c
  <1> QED
    BY <1>1, <1>2, <1>4, <1>5 DEF l

LEMMA IdleStep == IInv /\ [Next]_vars => IdleInv'
  <1> SUFFICES ASSUME IInv, [Next]_vars, NEW j \in Ingesters, cycle'[j].step = "idle"
               PROVE  cycle'[j] = Idle
    BY DEF IdleInv
  <1>0. /\ cycle \in [Ingesters -> Cycle]
        /\ cycle[j].step = "idle" => cycle[j] = Idle
    BY DEF IInv, TypeOK, IdleInv
  <1>1. CASE Provider
    BY <1>0, <1>1, ProviderFrame
  <1>2. ASSUME NEW i \in Ingesters, Work(i) \/ Abort(i), i # j PROVE cycle'[j] = Idle
    BY <1>0, <1>2, WorkFrame
  <1>3. ASSUME Work(j) \/ Abort(j) PROVE cycle'[j] = Idle
    <2>1. cycle[j] \in Cycle
      BY <1>0
    <2>2. CASE \E f \in Feeds : VisitFeed(j, f)
      BY <1>0, <2>1, <2>2 DEF VisitFeed, AfterFeed, Cycle
    <2>7. CASE \E f \in Feeds : ProbeFeed(j, f)
      BY <1>0, <2>7, ProbeFrame
    <2>3. CASE \E r \in Revisions : MissFile(j, r) \/ SkipFile(j, r) \/ DropFile(j, r)
      BY <1>0, <2>1, <2>3 DEF MissFile, SkipFile, DropFile, Processing, Cycle
    <2>4. CASE \E r \in Revisions : StoreFile(j, r)
      BY <1>0, <2>1, <2>4 DEF StoreFile, Processing, Cycle
    <2>5. CASE (\E r \in Revisions : RejectFile(j, r)) \/ Record(j) \/ Abort(j)
      BY <1>0, <2>5 DEF RejectFile, Record, Abort, AfterCycle
    <2>6. CASE StartCycle(j) \/ BeginProbe(j) \/ DecideSweep(j) \/ Sweep(j)
      BY <1>0, <2>1, <2>6 DEF StartCycle, BeginProbe, DecideSweep, Sweep, Cycle
    <2> QED
      BY <1>3, <2>2, <2>3, <2>4, <2>5, <2>6, <2>7 DEF Work, ProcessFile
  <1>4. CASE UNCHANGED vars
    BY <1>0, <1>4 DEF vars
  <1> QED
    BY <1>1, <1>2, <1>3, <1>4 DEF Next

\* The files of a cycle grow only when it visits a feed.
LEMMA FilesStep == IInv /\ [Next]_vars => FilesInv'
  <1> SUFFICES ASSUME IInv, [Next]_vars, NEW j \in Ingesters, NEW r \in cycle'[j].files
               PROVE  FeedOf[r] \in PublicFeeds
    BY DEF FilesInv
  <1>0. /\ cycle \in [Ingesters -> Cycle]
        /\ \A s \in cycle[j].files : FeedOf[s] \in PublicFeeds
    BY DEF IInv, TypeOK, FilesInv
  <1>1. CASE Provider
    BY <1>0, <1>1, ProviderFrame
  <1>2. ASSUME NEW i \in Ingesters, Work(i) \/ Abort(i), i # j PROVE r \in cycle[j].files
    BY <1>0, <1>2, WorkFrame
  <1>3. ASSUME Work(j) \/ Abort(j) PROVE FeedOf[r] \in PublicFeeds
    <2>1. cycle[j] \in Cycle
      BY <1>0
    <2>2. CASE \E f \in Feeds : VisitFeed(j, f)
      BY <1>0, <2>1, <2>2 DEF VisitFeed, AfterFeed, Listed, Cycle
    <2>3. CASE \E q \in Revisions : MissFile(j, q) \/ SkipFile(j, q) \/ DropFile(j, q)
      BY <1>0, <2>1, <2>3 DEF MissFile, SkipFile, DropFile, Cycle
    <2>4. CASE \E q \in Revisions : StoreFile(j, q)
      BY <1>0, <2>1, <2>4 DEF StoreFile, Cycle
    <2>5. CASE (\E q \in Revisions : RejectFile(j, q)) \/ Record(j) \/ Abort(j)
      BY <1>0, <2>5 DEF RejectFile, Record, Abort, AfterCycle, Idle
    <2>6. CASE StartCycle(j) \/ BeginProbe(j) \/ DecideSweep(j) \/ Sweep(j)
      BY <1>0, <2>1, <2>6 DEF StartCycle, BeginProbe, DecideSweep, Sweep, Cycle
    <2>7. CASE \E f \in Feeds : ProbeFeed(j, f)
      BY <1>0, <2>7, ProbeFrame
    <2> QED
      BY <1>3, <2>2, <2>3, <2>4, <2>5, <2>6, <2>7 DEF Work, ProcessFile
  <1>4. CASE UNCHANGED vars
    BY <1>0, <1>4 DEF vars
  <1> QED
    BY <1>0, <1>1, <1>2, <1>3, <1>4 DEF Next

\* Only StoreFile stores, and only documents that passed both gates.
LEMMA PublicStep == IInv /\ [Next]_vars => OnlyPublicStored'
  <1> SUFFICES ASSUME IInv, [Next]_vars, NEW a \in Advisories, NEW s \in stored'[a]
               PROVE  s \in Public /\ FeedOf[s] \in PublicFeeds
    BY DEF OnlyPublicStored
  <1>0. /\ TypeOK
        /\ \A t \in stored[a] : t \in Public /\ FeedOf[t] \in PublicFeeds
    BY DEF IInv, OnlyPublicStored
  <1>1. ASSUME NEW i \in Ingesters, NEW r \in Revisions, StoreFile(i, r)
        PROVE  s \in Public /\ FeedOf[s] \in PublicFeeds
    <2>1. FeedOf[r] \in PublicFeeds
      BY <1>1 DEF IInv, FilesInv, StoreFile, Processing
    <2>2. /\ Fetched(r) \in Public /\ Fetched(r) \in Revisions
          /\ FeedOf[Fetched(r)] \in PublicFeeds /\ Store(Fetched(r))
      BY <1>0, <1>1, <2>1, FetchedFacts DEF StoreFile, Accepted
    <2>3. s \in stored[a] \union {Fetched(r)}
      BY <1>0, <2>2, StoreFacts
    <2> QED
      BY <1>0, <2>2, <2>3
  <1>2. ASSUME stored' = stored PROVE s \in Public /\ FeedOf[s] \in PublicFeeds
    BY <1>0, <1>2
  <1>3. CASE Provider
    BY <1>2, <1>3, ProviderFrame DEF logVars
  <1>4. ASSUME NEW i \in Ingesters, Work(i) \/ Abort(i), ~\E r \in Revisions : StoreFile(i, r)
        PROVE  stored' = stored
    BY <1>4 DEF Work, ProcessFile, Abort, StartCycle, VisitFeed, MissFile, SkipFile, DropFile,
                RejectFile, BeginProbe, ProbeFeed, DecideSweep, Sweep, Withdraw, Record, logVars
  <1>5. CASE UNCHANGED vars
    BY <1>2, <1>5 DEF vars
  <1> QED
    BY <1>1, <1>2, <1>3, <1>4, <1>5 DEF Next

------------------------------------------------------------------------------
(* CoverInv: no step loses an undisturbed advisory.                        *)

\* A cycle that no step touched, while the database may have grown.
LEMMA CoverFrame ==
    ASSUME IInv, NEW i \in Ingesters, NEW a \in Advisories, Undisturbed(i, a)',
           cycle'[i] = cycle[i], published' = published, down' = down,
           stored[a] \subseteq stored'[a]
    PROVE  Covered(i, a)'
  <1>1. Undisturbed(i, a)
    BY DEF Undisturbed, Publishes
  <1>2. Covered(i, a)
    BY <1>1 DEF IInv, CoverInv
  <1>3. Held(a) => Held(a)'
    BY DEF Held
  <1> QED
    BY <1>2, <1>3 DEF Covered

\* The provider: what it touches is disturbed in every cycle that runs.
LEMMA CoverProvider ==
    ASSUME IInv, Provider, NEW i \in Ingesters, NEW a \in Advisories, Undisturbed(i, a)'
    PROVE  Covered(i, a)'
  <1>0. TypeOK /\ cycle[i] \in Cycle
    BY DEF IInv, TypeOK
  <1>1. /\ UNCHANGED logVars
        /\ cycle[i].step = "idle" => cycle'[i] = cycle[i]
        /\ cycle'[i].step = cycle[i].step
        /\ cycle'[i].feeds = cycle[i].feeds
        /\ cycle'[i].files = cycle[i].files
        /\ cycle'[i].present = cycle[i].present
        /\ cycle'[i].loaded = cycle[i].loaded
        /\ cycle[i].changed \subseteq cycle'[i].changed
        /\ cycle[i].faulted \subseteq cycle'[i].faulted
    BY ProviderFrame
  <1>2. CASE cycle[i].step = "idle"
    <2>1. cycle'[i] = Idle
      BY <1>1, <1>2 DEF IInv, IdleInv
    <2> QED
      BY <2>1 DEF Covered, Idle
  <1>3. CASE cycle[i].step # "idle"
    <2>1. i \in Running
      BY <1>3 DEF Running
    <2>2. a \notin cycle'[i].changed /\ a \notin cycle'[i].faulted
      BY DEF Undisturbed
    <2>3. published'[a] = published[a]
      <3>1. ASSUME NEW b \in Advisories, NEW r, Editing(b, r) PROVE published'[a] = published[a]
        <4>1. b \in cycle'[i].changed
          BY <1>0, <2>1, <3>1 DEF Editing, Changing, Cycle
        <4> QED
          BY <1>0, <2>2, <3>1, <4>1 DEF Editing, TypeOK
      <3> QED
        BY <3>1, RevisionFacts DEF Provider, Publish, Retire, FeedFails, FeedRecovers
    <2>4. Undisturbed(i, a)
      BY <1>1, <2>2, <2>3 DEF Undisturbed, Publishes
    <2>5. FeedOf[published[a]] \in down => FeedOf[published[a]] \in down'
      <3>1. ASSUME NEW f \in Feeds, FeedRecovers(f), FeedOf[published[a]] = f PROVE FALSE
        <4>1. published[a] \in Listed(f) /\ published[a].adv = a
          BY <1>0, <2>4, <3>1, RevisionFacts
             DEF TypeOK, Listed, Undisturbed, Publishes, Storable
        <4>2. a \in cycle'[i].faulted
          BY <1>0, <2>1, <3>1, <4>1 DEF FeedRecovers, Faulting, Cycle
        <4> QED
          BY <2>2, <4>2
      <3> QED
        BY <3>1 DEF Provider, Publish, Retire, Editing, FeedFails, FeedRecovers
    <2>6. Held(a) => Held(a)'
      BY <1>1, <2>3 DEF Held, logVars
    <2>7. Covered(i, a)
      BY <2>4 DEF IInv, CoverInv
    <2> QED
      BY <1>1, <2>3, <2>5, <2>6, <2>7 DEF Covered
  <1> QED
    BY <1>2, <1>3

\* The ingester itself, step by step.
LEMMA CoverWork ==
    ASSUME IInv, NEW i \in Ingesters, NEW a \in Advisories, Work(i) \/ Abort(i),
           Undisturbed(i, a)'
    PROVE  Covered(i, a)'
  <1> DEFINE d == published[a]
  <1>0. /\ TypeOK /\ cycle \in [Ingesters -> Cycle] /\ cycle[i] \in Cycle
        /\ published' = published /\ down' = down
        /\ stored[a] \subseteq stored'[a]
    BY WorkFrame DEF IInv, TypeOK
  <1>1. /\ d \in Revisions /\ d.adv = a /\ d # NULL
        /\ FeedOf[d] \in PublicFeeds /\ FeedOf[d] \in Feeds
        /\ Accepted(d) /\ d \notin Rejected
    BY <1>0, RevisionFacts DEF Undisturbed, Publishes, Storable, TypeOK
  <1>2. Held(a) => Held(a)'
    BY <1>0 DEF Held
  <1>3. Publishes(a) /\ a \notin cycle'[i].changed /\ a \notin cycle'[i].faulted
    BY <1>0 DEF Undisturbed, Publishes
  <1>4. ASSUME cycle'[i].changed = cycle[i].changed, cycle[i].faulted \subseteq cycle'[i].faulted
        PROVE  Covered(i, a)
    BY <1>3, <1>4 DEF IInv, CoverInv, Undisturbed
  <1>5. CASE StartCycle(i)
    <2>1. /\ cycle[i] = Idle /\ cycle'[i].step = "pull" /\ cycle'[i].feeds = Feeds
          /\ cycle'[i].present = {}
      <3>1. cycle[i] = Idle
        BY <1>5 DEF IInv, IdleInv, StartCycle
      <3> QED
        BY <1>0, <1>5, <3>1 DEF StartCycle, Idle, Cycle
    <2> QED
      BY <1>0, <1>1, <2>1 DEF Covered
  <1>6. CASE \E f \in Feeds : VisitFeed(i, f)
    <2> PICK f \in Feeds : VisitFeed(i, f)
      BY <1>6
    <2>1. /\ cycle[i].step = "pull" /\ cycle[i].files = {}
          /\ cycle'[i].step = "pull"
          /\ cycle'[i].feeds = cycle[i].feeds \ {f}
          /\ cycle'[i].files = IF f \in PublicFeeds \ down THEN Listed(f) ELSE {}
          /\ cycle'[i].present = cycle[i].present
          /\ cycle'[i].changed = cycle[i].changed
          /\ cycle'[i].faulted = cycle[i].faulted
      BY <1>0 DEF VisitFeed, AfterFeed, Cycle
    <2>2. Covered(i, a)
      BY <1>4, <2>1
    <2>3. FeedOf[d] = f => d \in Listed(f)
      BY <1>1 DEF Listed
    <2> QED
      BY <1>0, <1>1, <1>2, <2>1, <2>2, <2>3 DEF Covered
  <1>7. CASE \E r \in Revisions : MissFile(i, r) \/ DropFile(i, r)
    <2> PICK r \in Revisions : MissFile(i, r) \/ DropFile(i, r)
      BY <1>7
    <2>1. /\ cycle[i].step = "pull" /\ cycle'[i].step = "pull"
          /\ cycle'[i].feeds = cycle[i].feeds
          /\ cycle'[i].files = cycle[i].files \ {r}
          /\ cycle'[i].present = cycle[i].present
          /\ cycle'[i].changed = cycle[i].changed
          /\ cycle'[i].faulted = cycle[i].faulted
      BY <1>0 DEF MissFile, DropFile, Processing, Cycle
    <2>2. r # d
      BY <1>1 DEF MissFile, DropFile, Available, Fetched
    <2>3. Covered(i, a)
      BY <1>4, <2>1
    <2> QED
      BY <1>0, <1>2, <2>1, <2>2, <2>3 DEF Covered
  <1>8. CASE \E r \in Revisions : SkipFile(i, r)
    <2> PICK r \in Revisions : SkipFile(i, r)
      BY <1>8
    <2>1. /\ cycle[i].step = "pull" /\ cycle'[i].step = "pull"
          /\ cycle'[i].feeds = cycle[i].feeds
          /\ cycle'[i].files = cycle[i].files \ {r}
          /\ cycle'[i].present = cycle[i].present
          /\ cycle'[i].changed = cycle[i].changed
          /\ cycle'[i].faulted = cycle[i].faulted \union {r.adv}
      BY <1>0 DEF SkipFile, Processing, Cycle
    <2>2. r # d
      BY <1>1, <1>3, <2>1
    <2>3. Covered(i, a)
      BY <1>4, <2>1
    <2> QED
      BY <1>0, <1>2, <2>1, <2>2, <2>3 DEF Covered
  <1>9. CASE \E r \in Revisions : StoreFile(i, r)
    <2> PICK r \in Revisions : StoreFile(i, r)
      BY <1>9
    <2>1. /\ cycle[i].step = "pull" /\ cycle'[i].step = "pull"
          /\ cycle'[i].feeds = cycle[i].feeds
          /\ cycle'[i].files = cycle[i].files \ {r}
          /\ cycle'[i].present = cycle[i].present \union {Fetched(r).adv}
          /\ cycle'[i].changed = cycle[i].changed
          /\ cycle'[i].faulted = cycle[i].faulted
      BY <1>0 DEF StoreFile, Present, Processing, Cycle
    <2>2. /\ Fetched(r) = published[r.adv] /\ Fetched(r).adv = r.adv
          /\ Fetched(r) \in Revisions
      BY <1>0, FetchedFacts DEF StoreFile
    <2>3. r.adv = a => Held(a)'
      <3>1. \E s \in stored'[Fetched(r).adv] : s = Fetched(r) \/ SameRevisionKey(Fetched(r), s)
        BY <1>0, <2>2, StoreFacts DEF StoreFile
      <3> QED
        BY <1>0, <2>2, <3>1 DEF Held
    <2>4. Covered(i, a)
      BY <1>4, <2>1
    <2> QED
      BY <1>0, <1>1, <1>2, <2>1, <2>2, <2>3, <2>4 DEF Covered
  <1>10. CASE (\E r \in Revisions : RejectFile(i, r)) \/ Record(i) \/ Abort(i)
    <2>1. cycle'[i] = Idle
      BY <1>0, <1>10 DEF RejectFile, Record, Abort, AfterCycle
    <2> QED
      BY <2>1 DEF Covered, Idle
  <1>11. CASE BeginProbe(i)
    <2>1. /\ cycle[i].step = "pull" /\ cycle'[i].step = "probe"
          /\ cycle[i].feeds = {} /\ cycle[i].files = {}
          /\ cycle'[i].feeds = PublicFeeds
          /\ cycle'[i].present = cycle[i].present
          /\ cycle'[i].changed = cycle[i].changed
          /\ cycle'[i].faulted = cycle[i].faulted
      BY <1>0, <1>11 DEF BeginProbe, Cycle
    <2>2. Covered(i, a)
      BY <1>4, <2>1
    <2> QED
      BY <1>0, <1>1, <1>2, <2>1, <2>2 DEF Covered
  <1>12. CASE \E f \in Feeds : ProbeFeed(i, f)
    <2> PICK f \in Feeds : ProbeFeed(i, f)
      BY <1>12
    <2>1. /\ cycle[i].step = "probe" /\ cycle'[i].step = "probe"
          /\ cycle'[i].feeds = cycle[i].feeds \ {f}
          /\ cycle'[i].present = cycle[i].present
          /\ ~cycle[i].loaded => ~cycle'[i].loaded
          /\ f \in down => ~cycle'[i].loaded
          /\ cycle'[i].changed = cycle[i].changed
          /\ cycle'[i].faulted = cycle[i].faulted
      BY <1>0, ProbeFrame
    <2>2. Covered(i, a)
      BY <1>4, <2>1
    <2> QED
      BY <1>0, <1>2, <2>1, <2>2 DEF Covered
  <1>13. CASE DecideSweep(i)
    <2> PICK s \in {"sweep", "record"} : /\ cycle' = [cycle EXCEPT ![i].step = s]
                                         /\ s = "sweep" => cycle[i].loaded
      BY <1>13 DEF DecideSweep, EnumeratedAll
    <2>1. /\ cycle[i].step = "probe" /\ cycle[i].feeds = {}
          /\ cycle'[i].step = s
          /\ cycle'[i].present = cycle[i].present
          /\ cycle'[i].changed = cycle[i].changed
          /\ cycle'[i].faulted = cycle[i].faulted
      BY <1>0, <1>13 DEF DecideSweep, Cycle
    <2>2. Covered(i, a)
      BY <1>4, <2>1
    <2> QED
      BY <1>0, <1>2, <2>1, <2>2 DEF Covered
  <1>14. CASE Sweep(i)
    <2>1. /\ cycle[i].step = "sweep" /\ cycle'[i].step = "record"
          /\ cycle'[i].present = cycle[i].present
          /\ cycle'[i].changed = cycle[i].changed
          /\ cycle'[i].faulted = cycle[i].faulted
      BY <1>0, <1>14 DEF Sweep, Cycle
    <2>2. Covered(i, a)
      BY <1>4, <2>1
    <2> QED
      BY <1>0, <1>2, <2>1, <2>2 DEF Covered
  <1> QED
    BY <1>5, <1>6, <1>7, <1>8, <1>9, <1>10, <1>11, <1>12, <1>13, <1>14 DEF Work, ProcessFile

LEMMA CoverStep == IInv /\ [Next]_vars => CoverInv'
  <1> SUFFICES ASSUME IInv, [Next]_vars, NEW i \in Ingesters, NEW a \in Advisories,
                      Undisturbed(i, a)'
               PROVE  Covered(i, a)'
    BY DEF CoverInv
  <1>0. cycle \in [Ingesters -> Cycle]
    BY DEF IInv, TypeOK
  <1>1. CASE Provider
    BY <1>1, CoverProvider
  <1>2. CASE Work(i) \/ Abort(i)
    BY <1>2, CoverWork
  <1>3. ASSUME NEW j \in Ingesters, Work(j) \/ Abort(j), j # i PROVE Covered(i, a)'
    <2>1. /\ cycle'[i] = cycle[i] /\ published' = published /\ down' = down
          /\ stored[a] \subseteq stored'[a]
      BY <1>0, <1>3, WorkFrame
    <2> QED
      BY <2>1, CoverFrame
  <1>4. CASE UNCHANGED vars
    BY <1>4, CoverFrame DEF vars
  <1> QED
    BY <1>1, <1>2, <1>3, <1>4 DEF Next

------------------------------------------------------------------------------
(* Theorems                                                                *)

\* The invariant behind the others: types, blank idle cycles, public files, public
\* revisions, and CoverInv.
THEOREM Inductive == Spec => []IInv
  <1>1. IInv /\ [Next]_vars => IInv'
    BY TypeStep, IdleStep, FilesStep, PublicStep, CoverStep DEF IInv
  <1> QED
    BY InitInv, <1>1, PTL DEF Spec

\* All variables keep their types, whatever the provider does.
THEOREM TypeCorrect == Spec => []TypeOK
  <1>1. IInv => TypeOK
    BY DEF IInv
  <1> QED
    BY <1>1, Inductive, PTL

\* No document gets into the database that its feed or its own label keeps private.
THEOREM OnlyPublic == Spec => []OnlyPublicStored
  <1>1. IInv => OnlyPublicStored
    BY DEF IInv
  <1> QED
    BY <1>1, Inductive, PTL

\* Only Sweep withdraws.
LEMMA WithdrawnBy ==
    ASSUME IInv, [Next]_vars, NEW a \in withdrawn' \ withdrawn
    PROVE  \E i \in Ingesters : Sweep(i)
  <1>1. ASSUME NEW i \in Ingesters, NEW r \in Revisions, StoreFile(i, r) PROVE FALSE
    BY <1>1 DEF StoreFile, Store
  <1> QED
    BY <1>1, ProviderFrame
       DEF Next, vars, logVars, Work, ProcessFile, Abort, StartCycle, VisitFeed, MissFile,
           SkipFile, DropFile, RejectFile, BeginProbe, ProbeFeed, DecideSweep, Record

\* A sweep withdraws only what was not published all through the cycle, except for an
\* advisory whose own file failed or whose feed came back before the probe.
THEOREM Justified == Spec => SweepJustified
  <1>1. IInv /\ [Next]_vars => [SweepIsJustified]_vars
    <2> SUFFICES ASSUME IInv, [Next]_vars, NEW a \in withdrawn' \ withdrawn
                 PROVE  \E i \in Ingesters :
                            /\ cycle[i].step = "sweep"
                            /\ Publishes(a) => a \in cycle[i].changed \union cycle[i].faulted
      BY DEF SweepIsJustified
    <2>1. PICK i \in Ingesters : Sweep(i)
      BY WithdrawnBy
    <2>2. cycle[i].step = "sweep" /\ a \in Active \ cycle[i].present
      BY <2>1 DEF Sweep, Withdraw
    <2>3. a \in Advisories
      BY <2>2 DEF Active, Known
    <2>4. ~Undisturbed(i, a)
      BY <2>2, <2>3 DEF IInv, CoverInv, Covered
    <2> QED
      BY <2>2, <2>4 DEF Undisturbed
  <1> QED
    BY <1>1, Inductive, PTL DEF Spec, SweepJustified

\* A cycle that records the watermark has stored every advisory that was published in a
\* feed that loads and on which nothing happened meanwhile.
THEOREM Complete == Spec => PullComplete
  <1>1. IInv /\ [Next]_vars => [PullIsComplete]_vars
    <2> SUFFICES ASSUME IInv, NEW i \in Ingesters, cycle[i].step = "record",
                        NEW a \in Advisories, Publishes(a),
                        FeedOf[published[a]] \notin down,
                        a \notin cycle[i].changed \union cycle[i].faulted
                 PROVE  \E s \in stored[a] : s = published[a] \/ SameRevisionKey(published[a], s)
      BY DEF PullIsComplete
    <2>1. Covered(i, a)
      BY DEF IInv, CoverInv, Undisturbed
    <2> QED
      BY <2>1 DEF Covered, Held
  <1> QED
    BY <1>1, Inductive, PTL DEF Spec, PullComplete

------------------------------------------------------------------------------
(* A lone ingester and the fraction guard.  Nothing but its own sweep makes *)
(* an advisory inactive, so what it has seen is active, and the numbers the *)
(* guard compared still hold when the sweep runs.                           *)

KnownInv == \A a \in Advisories : stored[a] # {} => a \in Known

LoneInv ==
    \A i \in Ingesters :
        /\ cycle[i].present \subseteq Active
        /\ cycle[i].step = "sweep" =>
               ~Implausible(Cardinality(Active), Cardinality(cycle[i].present))

\* Store makes its advisory active and leaves the others as they are.
LEMMA StoreActive ==
    ASSUME TypeOK, KnownInv, NEW r \in Revisions, Store(r)
    PROVE  KnownInv' /\ Active' = Active \union {r.adv}
  <1>1. /\ r.adv \in Advisories /\ r # NULL /\ withdrawn' = withdrawn \ {r.adv}
        /\ withdrawn \subseteq Advisories
        /\ stored \in [Advisories -> SUBSET Revisions]
        /\ head \in [Advisories -> Revisions \union {NULL}]
    BY RevisionFacts DEF Store, TypeOK, LogTypeOK
  <1>2. CASE Duplicate(r)
    <2>1. r.adv \in Known
      BY <1>1, <1>2 DEF Duplicate, KnownInv
    <2>2. Known' = Known /\ stored' = stored
      BY <1>2 DEF Duplicate, Known
    <2> QED
      BY <1>1, <2>1, <2>2 DEF KnownInv, Active
  <1>3. CASE Accept(r)
    <2>1. Known' = Known \union {r.adv}
      BY <1>1, <1>3 DEF Accept, Known
    <2>2. KnownInv'
      BY <1>1, <1>3, <2>1 DEF Accept, KnownInv
    <2> QED
      BY <1>1, <2>1, <2>2 DEF Active
  <1> QED
    BY <1>2, <1>3 DEF Store, Keep

LEMMA KnownStep == IInv /\ KnownInv /\ [Next]_vars => KnownInv'
  <1> SUFFICES ASSUME IInv, KnownInv, [Next]_vars PROVE KnownInv'
    OBVIOUS
  <1>1. ASSUME NEW i \in Ingesters, NEW r \in Revisions, StoreFile(i, r) PROVE KnownInv'
    BY <1>1, FetchedFacts, StoreActive DEF IInv, StoreFile
  <1>2. ASSUME stored' = stored, head' = head PROVE KnownInv'
    BY <1>2 DEF KnownInv, Known
  <1> QED
    BY <1>1, <1>2, ProviderFrame
       DEF Next, vars, logVars, Work, ProcessFile, Abort, StartCycle, VisitFeed, MissFile,
           SkipFile, DropFile, RejectFile, BeginProbe, ProbeFeed, DecideSweep, Sweep, Withdraw,
           Record

LEMMA LoneStep ==
    ASSUME NEW i, Ingesters = {i}
    PROVE  IInv /\ KnownInv /\ LoneInv /\ [Next]_vars => LoneInv'
  <1> SUFFICES ASSUME IInv, KnownInv, LoneInv, [Next]_vars
               PROVE  /\ cycle'[i].present \subseteq Active'
                      /\ cycle'[i].step = "sweep" =>
                          ~Implausible(Cardinality(Active'), Cardinality(cycle'[i].present))
    BY DEF LoneInv
  <1>0. /\ TypeOK /\ i \in Ingesters
        /\ cycle \in [Ingesters -> Cycle] /\ cycle[i] \in Cycle
        /\ cycle[i].present \subseteq Active
        /\ cycle[i].step = "sweep" =>
               ~Implausible(Cardinality(Active), Cardinality(cycle[i].present))
    BY DEF IInv, TypeOK, LoneInv
  <1> DEFINE Goal == /\ cycle'[i].present \subseteq Active'
                     /\ cycle'[i].step = "sweep" =>
                         ~Implausible(Cardinality(Active'), Cardinality(cycle'[i].present))
  <1>1. ASSUME UNCHANGED logVars, cycle'[i].present = cycle[i].present,
               cycle'[i].step = cycle[i].step \/ cycle'[i].step # "sweep"
        PROVE  Goal
    <2>1. Active' = Active
      BY <1>1 DEF Active, Known, logVars
    <2> QED
      BY <1>0, <1>1, <2>1
  <1>2. ASSUME cycle'[i] = Idle PROVE Goal
    BY <1>2 DEF Idle
  <1>3. CASE Provider
    BY <1>0, <1>1, <1>3, ProviderFrame
  <1>4. CASE StartCycle(i) \/ BeginProbe(i)
    BY <1>0, <1>1, <1>4 DEF StartCycle, BeginProbe, Cycle
  <1>5. CASE \E f \in Feeds : VisitFeed(i, f)
    BY <1>0, <1>1, <1>5 DEF VisitFeed, AfterFeed, Cycle
  <1>6. CASE \E r \in Revisions : MissFile(i, r) \/ SkipFile(i, r) \/ DropFile(i, r)
    BY <1>0, <1>1, <1>6 DEF MissFile, SkipFile, DropFile, Cycle
  <1>7. CASE \E r \in Revisions : StoreFile(i, r)
    <2> PICK r \in Revisions : StoreFile(i, r)
      BY <1>7
    <2>1. Active' = Active \union {Fetched(r).adv}
      BY <1>0, FetchedFacts, StoreActive DEF StoreFile
    <2>2. /\ cycle'[i].present = cycle[i].present \union {Fetched(r).adv}
          /\ cycle'[i].step = "pull"
      BY <1>0 DEF StoreFile, Present, Processing, Cycle
    <2> QED
      BY <1>0, <2>1, <2>2
  <1>8. CASE (\E r \in Revisions : RejectFile(i, r)) \/ Record(i) \/ Abort(i)
    BY <1>0, <1>2, <1>8 DEF RejectFile, Record, Abort, AfterCycle
  <1>9. CASE \E f \in Feeds : ProbeFeed(i, f)
    <2> PICK f \in Feeds : ProbeFeed(i, f)
      BY <1>9
    <2> QED
      BY <1>0, <1>1, ProbeFrame DEF ProbeFeed
  <1>10. CASE DecideSweep(i)
    <2> PICK s \in {"sweep", "record"} :
           /\ cycle' = [cycle EXCEPT ![i].step = s]
           /\ s = "sweep" =>
                  ~Implausible(Cardinality(Active), Cardinality(cycle[i].present))
      BY <1>10 DEF DecideSweep
    <2>1. cycle'[i].step = s /\ cycle'[i].present = cycle[i].present
      BY <1>0 DEF Cycle
    <2>2. Active' = Active
      BY <1>10 DEF DecideSweep, Active, Known, logVars
    <2> QED
      BY <1>0, <2>1, <2>2
  <1>11. CASE Sweep(i)
    <2>1. cycle'[i].step = "record" /\ cycle'[i].present = cycle[i].present
      BY <1>0, <1>11 DEF Sweep, Cycle
    <2>2. Active' = cycle[i].present
      BY <1>0, <1>11 DEF Sweep, Withdraw, Active, Known
    <2> QED
      BY <2>1, <2>2
  <1>12. CASE UNCHANGED vars
    BY <1>1, <1>12 DEF vars, logVars
  <1> QED
    BY <1>3, <1>4, <1>5, <1>6, <1>7, <1>8, <1>9, <1>10, <1>11, <1>12
       DEF Next, Work, ProcessFile

\* The sweep of a lone ingester withdraws at most half of a corpus of MinCorpus or more.
THEOREM BoundedAlone ==
    ASSUME NEW i, Ingesters = {i}
    PROVE  Spec => SweepBounded
  <1>1. Init => KnownInv /\ LoneInv
    BY DEF Init, LogInit, KnownInv, LoneInv, Idle
  <1>2. IInv /\ KnownInv /\ LoneInv /\ [Next]_vars => KnownInv' /\ LoneInv'
    BY KnownStep, LoneStep
  <1>3. IInv /\ LoneInv /\ [Next]_vars => [SweepIsBounded]_vars
    <2> SUFFICES ASSUME IInv, LoneInv, [Next]_vars, Cardinality(Active) >= MinCorpus
                 PROVE  2 * Cardinality(withdrawn' \ withdrawn) <= Cardinality(Active)
      BY DEF SweepIsBounded
    <2>0. IsFiniteSet(Active) /\ Cardinality(Active) \in Nat
      <3>1. Active \subseteq Advisories
        BY DEF Active, Known
      <3>2. IsFiniteSet(Active)
        BY <3>1, IngestAssumption, FS_Subset
      <3> QED
        BY <3>2, FS_CardinalityType
    <2>1. CASE withdrawn' \ withdrawn = {}
      <3>1. Cardinality(withdrawn' \ withdrawn) = 0
        BY <2>1, FS_EmptySet
      <3> DEFINE n == Cardinality(Active)
      <3>2. n \in Nat
        BY <2>0
      <3> HIDE DEF n
      <3>3. 2 * 0 <= n
        BY <3>2
      <3> QED
        BY <3>1, <3>3 DEF n
    <2>2. CASE Sweep(i)
      <3> DEFINE P == cycle[i].present
      <3>1. withdrawn' \ withdrawn = Active \ P
        BY <2>2 DEF Sweep, Withdraw, Active
      <3>2. P \subseteq Active /\ ~Implausible(Cardinality(Active), Cardinality(P))
        BY <2>2 DEF LoneInv, Sweep
      <3>3. Active \intersect P = P
        BY <3>2
      <3>4. Cardinality(Active \ P) = Cardinality(Active) - Cardinality(P)
        BY <2>0, <3>3, FS_Difference
      <3>5. Cardinality(P) \in Nat /\ Cardinality(P) <= Cardinality(Active)
        BY <2>0, <3>2, FS_Subset, FS_CardinalityType
      <3> DEFINE n == Cardinality(Active)
                 p == Cardinality(P)
      <3>6. n \in Nat /\ p \in Nat /\ p <= n /\ n >= MinCorpus /\ ~Implausible(n, p)
        BY <2>0, <3>2, <3>5
      <3>7. Cardinality(withdrawn' \ withdrawn) = n - p
        BY <3>1, <3>4
      <3> HIDE DEF n, p
      <3>8. 2 * (n - p) <= n
        BY <3>6 DEF Implausible
      <3> QED
        BY <3>7, <3>8 DEF n
    <2> QED
      BY <2>1, <2>2, WithdrawnBy
  <1> QED
    BY <1>1, <1>2, <1>3, Inductive, PTL DEF Spec, SweepBounded

------------------------------------------------------------------------------
(* What the sweep of a lone ingester leaves is a mirror of the provider.  The *)
(* present-set holds what was published when its file was read, so an entry   *)
(* that is published no more was changed meanwhile; and heads are maximal.    *)

PresentInv ==
    \A i \in Ingesters, a \in Advisories :
        a \in cycle[i].present => Publishes(a) \/ a \in cycle[i].changed

HeadTop == \A a \in Advisories : \A s \in stored[a] : head[a] # NULL /\ ~Newer(s, head[a])

LEMMA NewerOrder ==
    ASSUME NEW r \in Revisions, NEW s \in Revisions, NEW t \in Revisions
    PROVE  /\ ~Newer(r, r)
           /\ Newer(r, s) /\ Newer(s, t) => Newer(r, t)
  <1>1. \A u \in {r, s, t} : u.date \in Nat \union {NULL} /\ u.len \in Nat \union {NULL}
    BY RevisionAssumption DEF Revision
  <1> QED
    BY <1>1, RevisionAssumption DEF Newer, SqlGreater, SqlEqual

\* A cycle in which a's presence was recorded runs; if the provider touches a then, it
\* is recorded too.
LEMMA PresentProvider ==
    ASSUME IInv, PresentInv, Provider
    PROVE  PresentInv'
  <1> SUFFICES ASSUME NEW i \in Ingesters, NEW a \in Advisories,
                      a \in cycle'[i].present, a \notin cycle'[i].changed
               PROVE  Publishes(a)'
    BY DEF PresentInv
  <1>0. TypeOK /\ cycle[i] \in Cycle
    BY DEF IInv, TypeOK
  <1>1. a \in cycle[i].present /\ a \notin cycle[i].changed
    BY ProviderFrame
  <1>2. i \in Running
    BY <1>1 DEF Running, IInv, IdleInv, Idle
  <1>3. Publishes(a)
    BY <1>1 DEF PresentInv
  <1>4. published'[a] = published[a]
    <2>1. ASSUME NEW b \in Advisories, NEW r, Editing(b, r) PROVE published'[a] = published[a]
      <3>1. b \in cycle'[i].changed
        BY <1>0, <1>2, <2>1 DEF Editing, Changing, Cycle
      <3> QED
        BY <1>0, <2>1, <3>1 DEF Editing, TypeOK
    <2> QED
      BY <2>1, RevisionFacts DEF Provider, Publish, Retire, FeedFails, FeedRecovers
  <1> QED
    BY <1>3, <1>4 DEF Publishes

LEMMA PresentWork ==
    ASSUME IInv, PresentInv, NEW i \in Ingesters, Work(i) \/ Abort(i)
    PROVE  PresentInv'
  <1>0. /\ TypeOK /\ cycle \in [Ingesters -> Cycle] /\ cycle[i] \in Cycle
        /\ published' = published
        /\ \A j \in Ingesters \ {i} : cycle'[j] = cycle[j]
    BY WorkFrame DEF IInv, TypeOK
  <1>1. SUFFICES ASSUME NEW a \in Advisories, a \in cycle'[i].present
                 PROVE  Publishes(a) \/ a \in cycle'[i].changed
    BY <1>0 DEF PresentInv, Publishes
  <1>2. ASSUME cycle'[i].present = cycle[i].present, cycle'[i].changed = cycle[i].changed
        PROVE  Publishes(a) \/ a \in cycle'[i].changed
    BY <1>1, <1>2 DEF PresentInv
  <1>3. CASE StartCycle(i) \/ BeginProbe(i) \/ DecideSweep(i) \/ Sweep(i)
    BY <1>0, <1>2, <1>3 DEF StartCycle, BeginProbe, DecideSweep, Sweep, Cycle
  <1>4. CASE \E f \in Feeds : VisitFeed(i, f)
    BY <1>0, <1>2, <1>4 DEF VisitFeed, AfterFeed, Cycle
  <1>5. CASE \E f \in Feeds : ProbeFeed(i, f)
    BY <1>0, <1>2, <1>5, ProbeFrame
  <1>6. CASE \E r \in Revisions : MissFile(i, r) \/ SkipFile(i, r) \/ DropFile(i, r)
    BY <1>0, <1>2, <1>6 DEF MissFile, SkipFile, DropFile, Cycle
  <1>7. CASE \E r \in Revisions : StoreFile(i, r)
    <2> PICK r \in Revisions : StoreFile(i, r)
      BY <1>7
    <2> DEFINE d == Fetched(r)
    <2>1. /\ cycle'[i].present = cycle[i].present \union {d.adv}
          /\ cycle'[i].changed = cycle[i].changed
      BY <1>0 DEF StoreFile, Present, Cycle
    <2>2. FeedOf[r] \in PublicFeeds
      BY DEF IInv, FilesInv, StoreFile, Processing
    <2>3. /\ d \in Revisions /\ d = published[d.adv] /\ FeedOf[d] \in PublicFeeds
          /\ Accepted(d) /\ d \notin Rejected
      BY <1>0, <2>2, FetchedFacts DEF StoreFile
    <2>4. Publishes(d.adv)
      BY <2>3 DEF Publishes, Storable
    <2> HIDE DEF d
    <2> QED
      BY <1>1, <2>1, <2>4 DEF PresentInv
  <1>8. CASE (\E r \in Revisions : RejectFile(i, r)) \/ Record(i) \/ Abort(i)
    BY <1>0, <1>1, <1>8 DEF RejectFile, Record, Abort, AfterCycle, Idle
  <1> QED
    BY <1>3, <1>4, <1>5, <1>6, <1>7, <1>8 DEF Work, ProcessFile

LEMMA PresentStep == IInv /\ PresentInv /\ [Next]_vars => PresentInv'
  <1>1. UNCHANGED vars /\ PresentInv => PresentInv'
    BY DEF vars, PresentInv, Publishes
  <1> QED
    BY <1>1, PresentProvider, PresentWork DEF Next

LEMMA StoreTop ==
    ASSUME TypeOK, HeadTop, NEW r \in Revisions, Store(r)
    PROVE  HeadTop'
  <1>1. /\ stored \in [Advisories -> SUBSET Revisions]
        /\ head \in [Advisories -> Revisions \union {NULL}]
        /\ r.adv \in Advisories /\ r # NULL
    BY RevisionFacts DEF TypeOK, LogTypeOK
  <1>2. CASE Duplicate(r)
    BY <1>2 DEF Duplicate, HeadTop
  <1>3. CASE Accept(r)
    <2> SUFFICES ASSUME NEW a \in Advisories, NEW s \in stored'[a]
                 PROVE  head'[a] # NULL /\ ~Newer(s, head'[a])
      BY DEF HeadTop
    <2>1. CASE a # r.adv
      BY <1>1, <1>3, <2>1 DEF Accept, HeadTop
    <2>2. CASE a = r.adv
      <3> DEFINE h == head[a]
      <3>1. head'[a] = IF h = NULL \/ Newer(r, h) THEN r ELSE h
        BY <1>1, <1>3, <2>2 DEF Accept
      <3>2. s \in stored[a] \union {r} /\ s \in Revisions
        BY <1>1, <1>3, <2>2 DEF Accept
      <3>3. s \in stored[a] => h # NULL /\ ~Newer(s, h)
        BY DEF HeadTop
      <3>4. h # NULL => h \in Revisions
        BY <1>1
      <3> HIDE DEF h
      <3>5. CASE h = NULL
        BY <1>1, <3>1, <3>2, <3>3, <3>5, NewerOrder
      <3>6. CASE h # NULL /\ Newer(r, h)
        BY <1>1, <3>1, <3>2, <3>3, <3>4, <3>6, NewerOrder
      <3>7. CASE h # NULL /\ ~Newer(r, h)
        BY <3>1, <3>2, <3>3, <3>7
      <3> QED
        BY <3>5, <3>6, <3>7
    <2> QED
      BY <2>1, <2>2
  <1> QED
    BY <1>2, <1>3 DEF Store, Keep

LEMMA TopStep == IInv /\ HeadTop /\ [Next]_vars => HeadTop'
  <1> SUFFICES ASSUME IInv, HeadTop, [Next]_vars PROVE HeadTop'
    OBVIOUS
  <1>1. ASSUME NEW i \in Ingesters, NEW r \in Revisions, StoreFile(i, r) PROVE HeadTop'
    BY <1>1, FetchedFacts, StoreTop DEF IInv, StoreFile
  <1>2. ASSUME stored' = stored, head' = head PROVE HeadTop'
    BY <1>2 DEF HeadTop
  <1> QED
    BY <1>1, <1>2, ProviderFrame
       DEF Next, vars, logVars, Work, ProcessFile, Abort, StartCycle, VisitFeed, MissFile,
           SkipFile, DropFile, RejectFile, BeginProbe, ProbeFeed, DecideSweep, Sweep, Withdraw,
           Record

\* A sweep that goes through is a step of Sweep.
LEMMA SweepBy ==
    ASSUME IInv, [Next]_vars, NEW i \in Ingesters, cycle[i].step = "sweep",
           cycle'[i].step = "record"
    PROVE  Sweep(i)
  <1>0. cycle \in [Ingesters -> Cycle] /\ cycle[i] \in Cycle
    BY DEF IInv, TypeOK
  <1>1. ASSUME NEW j \in Ingesters, Work(j) \/ Abort(j) PROVE j = i
    BY <1>0, <1>1, WorkFrame
  <1>2. Work(i) \/ Abort(i)
    BY <1>1, ProviderFrame DEF Next, vars
  <1> QED
    BY <1>0, <1>2
       DEF Work, ProcessFile, Abort, AfterCycle, Idle, StartCycle, VisitFeed, MissFile, SkipFile,
           DropFile, StoreFile, RejectFile, Processing, BeginProbe, ProbeFeed, DecideSweep, Record

\* The sweep of a lone ingester leaves a mirror of the provider, up to what changed
\* during the cycle, skipped files, and feeds that were down in the pull.
THEOREM MirrorAlone ==
    ASSUME NEW i, Ingesters = {i}
    PROVE  Spec => SweepMirrors
  <1>1. Init => KnownInv /\ LoneInv /\ PresentInv /\ HeadTop
    BY DEF Init, LogInit, KnownInv, LoneInv, PresentInv, HeadTop, Idle
  <1>2. IInv /\ KnownInv /\ LoneInv /\ PresentInv /\ HeadTop /\ [Next]_vars
            => KnownInv' /\ LoneInv' /\ PresentInv' /\ HeadTop'
    BY KnownStep, LoneStep, PresentStep, TopStep
  <1>3. IInv /\ LoneInv /\ PresentInv /\ HeadTop /\ [Next]_vars => [SweepIsMirror]_vars
    <2> SUFFICES ASSUME IInv, LoneInv, PresentInv, HeadTop, [Next]_vars,
                        NEW j \in Ingesters, cycle[j].step = "sweep", cycle'[j].step = "record",
                        NEW a \in Advisories, a \notin cycle[j].changed
                 PROVE  /\ a \in Active' => Publishes(a)
                        /\ Publishes(a) /\ a \notin cycle[j].faulted =>
                              /\ a \in Active'
                              /\ \E s \in stored[a] :
                                    /\ s = published[a] \/ SameRevisionKey(published[a], s)
                                    /\ ~Newer(s, head[a])
      BY DEF SweepIsMirror
    <2>1. Sweep(j)
      BY SweepBy
    <2>2. Active' = cycle[j].present
      BY <2>1 DEF Sweep, Withdraw, Active, Known, LoneInv
    <2>3. a \in Active' => Publishes(a)
      BY <2>2 DEF PresentInv
    <2>4. ASSUME Publishes(a), a \notin cycle[j].faulted
          PROVE  a \in cycle[j].present /\ Held(a)
      BY <2>4 DEF IInv, CoverInv, Undisturbed, Covered
    <2> QED
      BY <2>2, <2>3, <2>4 DEF Held, HeadTop
  <1> QED
    BY <1>1, <1>2, <1>3, Inductive, PTL DEF Spec, SweepMirrors
==============================================================================
