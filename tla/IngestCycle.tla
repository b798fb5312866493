----------------------------- MODULE IngestCycle -----------------------------
(***************************************************************************)
(* The ingestion cycle of pkg/ingest (Poll, RunOnce, FetchAndVerify,       *)
(* Downloader.Run, Persister.Handle, checkFeedHealth, maybeSweep) of       *)
(* several ingesters that share one database: the poll loop of every       *)
(* running server and a manual `ingest`.  The store is AdvisoryLog, which  *)
(* AdvisoryStore implements.  The provider is the environment: it          *)
(* publishes, replaces, moves and retires advisories at any time, its      *)
(* feeds go down and come back, single files fail.                         *)
(*                                                                         *)
(* MaxEdits and MaxFaults bound what the environment does; the program     *)
(* itself has no bound.                                                    *)
(***************************************************************************)
EXTENDS AdvisoryLog, FiniteSets

CONSTANTS
    Ingesters,    \* processes that run ingestion cycles
    Feeds,        \* ROLIE feeds of the provider metadata
    PublicFeeds,  \* feeds with a TLP label that cfg.IsPublishable accepts
    FeedOf,       \* FeedOf[r]: the feed whose directory holds the file of r
    Public,       \* documents whose own TLP label cfg.IsPublishable accepts
    Keyless,      \* documents without a tracking id or a publisher name
    Rejected,     \* documents the database refuses (a cast or a NOT NULL fails)
    MinCorpus,    \* minCorpusForFractionGuard
    FaultKinds,   \* faults that occur, a subset of {"feed", "file", "abort"}
    MaxFaults,    \* how many of them
    MaxEdits      \* how often the provider changes what it publishes

ASSUME IngestAssumption ==
    /\ PublicFeeds \subseteq Feeds
    /\ FeedOf \in [Revisions -> Feeds]
    /\ Public \subseteq Revisions
    /\ Keyless \subseteq Revisions
    /\ Rejected \subseteq Revisions
    /\ MinCorpus \in Nat
    /\ MaxFaults \in Nat
    /\ MaxEdits \in Nat
    /\ IsFiniteSet(Advisories)

VARIABLES
    published,    \* published[a]: the document the provider serves for a, or NULL
    down,         \* feeds that cannot be fetched or parsed at the moment
    cycle,        \* cycle[i]: the run of RunOnce that i is in
    watermark,    \* ingest_state has a row for the provider
    faults,       \* faults so far
    edits         \* changes of the provider so far

environment == <<published, down, faults, edits>>
vars == <<stored, head, withdrawn, published, down, cycle, watermark, faults, edits>>

Cycle ==
    [ step    : {"idle", "pull", "probe", "sweep", "record"},
      feeds   : SUBSET Feeds,        \* not yet enumerated, then not yet probed
      files   : SUBSET Revisions,    \* listed by the current feed, not yet processed
      present : SUBSET Advisories,   \* Persister.present
      loaded  : BOOLEAN,             \* every feed probed so far loaded
      changed : SUBSET Advisories,   \* history: the provider changed these meanwhile
      faulted : SUBSET Advisories ]  \* history: their file failed, or their feed was
                                     \* down at first and came back

TypeOK ==
    /\ LogTypeOK
    /\ published \in [Advisories -> Revisions \union {NULL}]
    /\ \A a \in Advisories : published[a] # NULL => published[a].adv = a
    /\ down \subseteq Feeds
    /\ cycle \in [Ingesters -> Cycle]
    /\ watermark \in BOOLEAN
    /\ faults \in 0 .. MaxFaults
    /\ edits \in 0 .. MaxEdits

Idle ==
    [ step |-> "idle", feeds |-> {}, files |-> {}, present |-> {}, loaded |-> TRUE,
      changed |-> {}, faulted |-> {} ]

Init ==
    /\ LogInit
    /\ published \in [Advisories -> Revisions \union {NULL}]
    /\ \A a \in Advisories : published[a] # NULL => published[a].adv = a
    /\ down = {}
    /\ cycle = [i \in Ingesters |-> Idle]
    /\ watermark = FALSE
    /\ faults = 0
    /\ edits = 0

Active == Known \ withdrawn

------------------------------------------------------------------------------
(* The provider.                                                           *)

\* The files a feed lists.
Listed(f) == {r \in Revisions : published[r.adv] = r /\ FeedOf[r] = f}

\* A listed file can be downloaded as long as the provider keeps a file at its
\* URL, which names the feed and the advisory but not the revision.
Available(r) == published[r.adv] # NULL /\ FeedOf[published[r.adv]] = FeedOf[r]

\* The document behind a listed file is the one published when it is fetched.
Fetched(r) == published[r.adv]

Running == {i \in Ingesters : cycle[i].step # "idle"}

Changing(A) ==
    cycle' = [i \in Ingesters |-> IF i \in Running
                THEN [cycle[i] EXCEPT !.changed = @ \union A] ELSE cycle[i]]
Faulting(A) ==
    cycle' = [i \in Ingesters |-> IF i \in Running
                THEN [cycle[i] EXCEPT !.faulted = @ \union A] ELSE cycle[i]]

Editing(a, r) ==
    /\ edits < MaxEdits
    /\ r # published[a]
    /\ published' = [published EXCEPT ![a] = r]
    /\ edits' = edits + 1
    /\ Changing({a})
    /\ UNCHANGED <<logVars, down, watermark, faults>>

\* A new advisory, a new revision of one, a move to another feed.
Publish(r) == Editing(r.adv, r)

Retire(a) == Editing(a, NULL)

Fault(kind) ==
    /\ kind \in FaultKinds
    /\ faults < MaxFaults
    /\ faults' = faults + 1

FeedFails(f) ==
    /\ Fault("feed")
    /\ f \notin down
    /\ down' = down \union {f}
    /\ UNCHANGED <<logVars, published, cycle, watermark, edits>>

FeedRecovers(f) ==
    /\ f \in down
    /\ down' = down \ {f}
    /\ Faulting({r.adv : r \in Listed(f)})
    /\ UNCHANGED <<logVars, published, watermark, faults, edits>>

------------------------------------------------------------------------------
(* RunOnce.                                                                *)

\* What is left of a cycle that is over: the next one gets a new Persister.
\* Variant: it gets the old one.
PersisterKept(c) == [Idle EXCEPT !.present = c.present]
AfterCycle(c) == Idle

\* Poll's first run or its next tick: the provider metadata loads.
StartCycle(i) ==
    /\ cycle[i].step = "idle"
    /\ cycle' = [cycle EXCEPT ![i].step = "pull", ![i].feeds = Feeds]
    /\ UNCHANGED <<logVars, environment, watermark>>

\* processROLIE passes over a feed that does not load; Downloader.Run over one that
\* may not be published.  Variant: the first feed that does not load ends the pull.
AfterFeedStops(c, f) ==
    IF f \in down THEN [c EXCEPT !.feeds = {}]
    ELSE [c EXCEPT !.feeds = @ \ {f}, !.files = IF f \in PublicFeeds THEN Listed(f) ELSE {}]
AfterFeed(c, f) ==
    [c EXCEPT !.feeds = @ \ {f},
              !.files = IF f \in PublicFeeds \ down THEN Listed(f) ELSE {}]

VisitFeed(i, f) ==
    /\ cycle[i].step = "pull"
    /\ cycle[i].files = {}
    /\ f \in cycle[i].feeds
    /\ cycle' = [cycle EXCEPT ![i] = AfterFeed(@, f)]
    /\ UNCHANGED <<logVars, environment, watermark>>

Processing(i, r) == cycle[i].step = "pull" /\ r \in cycle[i].files

\* Handle's gates on the document.  Variant: the feed's label is enough.
AcceptedByFeed(d) == d \notin Keyless
Accepted(d) == d \in Public /\ d \notin Keyless

\* The file is gone.
MissFile(i, r) ==
    /\ Processing(i, r)
    /\ ~Available(r)
    /\ cycle' = [cycle EXCEPT ![i].files = @ \ {r}]
    /\ UNCHANGED <<logVars, environment, watermark>>

\* The download, the hash file, the signature or one of the checks fails: the file
\* is skipped, which the cycle counts and does not act upon.
SkipFile(i, r) ==
    /\ Processing(i, r)
    /\ Available(r)
    /\ Fault("file")
    /\ cycle' = [cycle EXCEPT ![i].files = @ \ {r}, ![i].faulted = @ \union {r.adv}]
    /\ UNCHANGED <<logVars, published, down, watermark, edits>>

\* Handle drops a document that may not be published or has no key.  Variant: it
\* remembers the advisory before it looks at the document.
DropFileRemembered(i, r) ==
    /\ Processing(i, r)
    /\ Available(r)
    /\ ~Accepted(Fetched(r))
    /\ cycle' = [cycle EXCEPT ![i].files = @ \ {r}, ![i].present = @ \union {r.adv}]
    /\ UNCHANGED <<logVars, environment, watermark>>
DropFile(i, r) ==
    /\ Processing(i, r)
    /\ Available(r)
    /\ ~Accepted(Fetched(r))
    /\ cycle' = [cycle EXCEPT ![i].files = @ \ {r}]
    /\ UNCHANGED <<logVars, environment, watermark>>

\* Handle stores the document and remembers its advisory.  Variant: it remembers the
\* document.
PresentDocument(c, d) == c.present \union {d}
Present(c, d) == c.present \union {d.adv}

StoreFile(i, r) ==
    LET d == Fetched(r) IN
    /\ Processing(i, r)
    /\ Available(r)
    /\ Accepted(d)
    /\ d \notin Rejected
    /\ Store(d)
    /\ cycle' = [cycle EXCEPT ![i].files = @ \ {r}, ![i].present = Present(cycle[i], d)]
    /\ UNCHANGED <<environment, watermark>>

\* StoreDocument fails on the document: the whole cycle fails.
RejectFile(i, r) ==
    /\ Processing(i, r)
    /\ Available(r)
    /\ Accepted(Fetched(r))
    /\ Fetched(r) \in Rejected
    /\ cycle' = [cycle EXCEPT ![i] = AfterCycle(@)]
    /\ UNCHANGED <<logVars, environment, watermark>>

\* The pull is over; checkFeedHealth loads the publishable feeds once more.
BeginProbe(i) ==
    /\ cycle[i].step = "pull"
    /\ cycle[i].feeds = {}
    /\ cycle[i].files = {}
    /\ cycle' = [cycle EXCEPT ![i].step = "probe", ![i].feeds = PublicFeeds]
    /\ UNCHANGED <<logVars, environment, watermark>>

ProbeFeed(i, f) ==
    /\ cycle[i].step = "probe"
    /\ f \in cycle[i].feeds
    /\ cycle' = [cycle EXCEPT ![i].feeds = @ \ {f}, ![i].loaded = @ /\ f \notin down]
    /\ UNCHANGED <<logVars, environment, watermark>>

\* Layer 1.  Variant: trust Summary.Complete.
CompletePull(c) == TRUE
EnumeratedAll(c) == PublicFeeds # {} /\ c.loaded

\* Layer 2b, with maxSweepWithdrawFraction = 1/2.  Variant: compare with the
\* present-set.
ImplausibleForPresent(active, present) == active >= MinCorpus /\ active - present > present * 2
Implausible(active, present) ==
    /\ active >= MinCorpus
    /\ active > present
    /\ 2 * (active - present) > active

\* maybeSweep up to and including CountActiveAdvisories.
DecideSweep(i) ==
    LET c == cycle[i]
        go == /\ EnumeratedAll(c)
              /\ c.present # {}
              /\ ~Implausible(Cardinality(Active), Cardinality(c.present))
    IN
    /\ c.step = "probe"
    /\ c.feeds = {}
    /\ cycle' = [cycle EXCEPT ![i].step = IF go THEN "sweep" ELSE "record"]
    /\ UNCHANGED <<logVars, environment, watermark>>

\* TombstoneAbsent.
Sweep(i) ==
    /\ cycle[i].step = "sweep"
    /\ Withdraw(Active \ cycle[i].present)
    /\ cycle' = [cycle EXCEPT ![i].step = "record"]
    /\ UNCHANGED <<environment, watermark>>

\* SetWatermark, and the cycle is over.
Record(i) ==
    /\ cycle[i].step = "record"
    /\ watermark' = TRUE
    /\ cycle' = [cycle EXCEPT ![i] = AfterCycle(@)]
    /\ UNCHANGED <<logVars, environment>>

\* The metadata or the keys do not load, the database fails, the context is
\* cancelled, the process dies and is started again: the cycle ends where it is.
Abort(i) ==
    /\ cycle[i].step # "idle"
    /\ Fault("abort")
    /\ cycle' = [cycle EXCEPT ![i] = AfterCycle(@)]
    /\ UNCHANGED <<logVars, published, down, watermark, edits>>

ProcessFile(i, r) ==
    MissFile(i, r) \/ SkipFile(i, r) \/ DropFile(i, r) \/ StoreFile(i, r) \/ RejectFile(i, r)

Work(i) ==
    \/ StartCycle(i)
    \/ \E f \in Feeds : VisitFeed(i, f)
    \/ \E r \in Revisions : ProcessFile(i, r)
    \/ BeginProbe(i)
    \/ \E f \in Feeds : ProbeFeed(i, f)
    \/ DecideSweep(i)
    \/ Sweep(i)
    \/ Record(i)

Provider ==
    \/ \E r \in Revisions : Publish(r)
    \/ \E a \in Advisories : Retire(a)
    \/ \E f \in Feeds : FeedFails(f) \/ FeedRecovers(f)

Next == Provider \/ \E i \in Ingesters : Work(i) \/ Abort(i)

Spec == Init /\ [][Next]_vars

\* The poll loop keeps running: the ticker fires, every request times out, every
\* database call returns.  Nothing is assumed of the provider.
Fairness == \A i \in Ingesters : WF_vars(Work(i))

FairSpec == Spec /\ Fairness

------------------------------------------------------------------------------
(* Properties                                                              *)

\* Documents the portal may and can serve.
Storable == {r \in Revisions : FeedOf[r] \in PublicFeeds /\ Accepted(r) /\ r \notin Rejected}

Publishes(a) == published[a] \in Storable

\* Nothing gets into the database unless both its feed and the document itself
\* are publishable, even when it is reclassified while a cycle runs.
OnlyPublicStored ==
    \A a \in Advisories : \A r \in stored[a] : r \in Public /\ FeedOf[r] \in PublicFeeds

SweepIsJustified ==
    \A a \in withdrawn' \ withdrawn : \E i \in Ingesters :
        /\ cycle[i].step = "sweep"
        /\ Publishes(a) => a \in cycle[i].changed \union cycle[i].faulted

\* What the two safety layers achieve: an advisory that was published all through a
\* cycle is withdrawn only if its own file failed or its feed came back between the
\* pull and the probe; never because a feed was down or another ingester is at work.
SweepJustified == [][SweepIsJustified]_vars

SweptWasGone ==
    \A a \in withdrawn' \ withdrawn : \E i \in Ingesters :
        /\ cycle[i].step = "sweep"
        /\ Publishes(a) => a \in cycle[i].changed

\* What feedhealth.go and store.go say of the sweep: an advisory that the provider
\* published all through the cycle is not withdrawn.  The code does not keep this.
SweepOnlyGone == [][SweptWasGone]_vars

SweepIsBounded ==
    Cardinality(Active) >= MinCorpus =>
        2 * Cardinality(withdrawn' \ withdrawn) <= Cardinality(Active)

\* One sweep withdraws at most half of a corpus of at least MinCorpus advisories.
SweepBounded == [][SweepIsBounded]_vars

SweepIsMirror ==
    \A i \in Ingesters : cycle[i].step = "sweep" /\ cycle'[i].step = "record" =>
        \A a \in Advisories \ cycle[i].changed :
            /\ a \in Active' => Publishes(a)
            /\ Publishes(a) /\ a \notin cycle[i].faulted =>
                  /\ a \in Active'
                  /\ \E s \in stored[a] :
                        /\ s = published[a] \/ SameRevisionKey(published[a], s)
                        /\ ~Newer(s, head[a])

\* The sweep of the only ingester leaves a mirror of the provider, up to advisories that
\* changed during the cycle: served is only what is published, and what is published is
\* served at its newest revision, unless its file failed or its feed was down in the pull.
SweepMirrors == [][SweepIsMirror]_vars

PullIsComplete ==
    \A i \in Ingesters : cycle[i].step = "record" /\ cycle'[i].step = "idle" =>
        \/ ~watermark'
        \/ \A a \in Advisories :
            /\ Publishes(a)
            /\ FeedOf[published[a]] \notin down
            /\ a \notin cycle[i].changed \union cycle[i].faulted
            => \E s \in stored[a] : s = published[a] \/ SameRevisionKey(published[a], s)

\* A cycle that records the watermark has stored every advisory that was there to
\* be had all the time; the failure of one feed does not keep another's out.
PullComplete == [][PullIsComplete]_vars

\* The provider is reachable, has something to publish and nothing the database
\* refuses.
Healthy ==
    /\ down = {}
    /\ \E a \in Advisories : Publishes(a)
    /\ \A a \in Advisories : published[a] \notin Rejected

\* Once the provider is healthy for good, what it publishes is served for good and
\* at its newest revision, whatever failed, was withdrawn or overtaken before.
PublishedGetsServed ==
    <>[]Healthy => \A a \in Advisories :
        <>[](Publishes(a) => a \in Active /\ ~Newer(published[a], head[a]))

\* And what it no longer publishes, or no longer publicly, is withdrawn for good.
RetiredGetsWithdrawn ==
    <>[]Healthy => \A a \in Advisories : <>[](~Publishes(a) => a \notin Active)
==============================================================================
