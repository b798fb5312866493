------------------------------- MODULE ReadApi -------------------------------
(***************************************************************************)
(* What a client of the HTTP API sees while the ingestion writes.  The     *)
(* list is paged by offset, each page is two statements (the count and the *)
(* rows), the facets are one statement per dimension, and commits of       *)
(* StoreDocument and TombstoneAbsent fall between any two of them.  The    *)
(* writes are those of AdvisoryLog.                                        *)
(***************************************************************************)
EXTENDS AdvisoryLog, Publication, Sequences, FiniteSets

CONSTANTS
    Matches,      \* documents that the filters of a filtered request select
    Queries,      \* filters and orders that clients ask for
    Limits,       \* values of the parameter limit that they send
    MaxLimit,     \* maxLimit
    MaxOffset,    \* maxOffset
    MaxDocuments, \* bound on the documents stored
    MaxCommits    \* bound on the commits while a client is busy

\* The parameters that a link has to carry from page to page.
Query == [by : {"date", "critical"}, descending : BOOLEAN, filtered : BOOLEAN]
NoParameters == [by |-> "date", descending |-> TRUE, filtered |-> FALSE]

ASSUME ReadAssumption ==
    /\ IsFiniteSet(Advisories)
    /\ Matches \subseteq Revisions
    /\ Queries \subseteq Query
    /\ Limits \subseteq Nat
    /\ MaxLimit \in Nat \ {0} /\ MaxOffset \in Nat /\ MaxDocuments \in Nat /\ MaxCommits \in Nat

VARIABLES
    documents,    \* the table in the order of its ids
    headId,       \* headId[a]: documents.id of the current revision, 0 before the first
    walk,         \* a client that pages through the list, see Walk
    seen,         \* advisories on the pages it got so far
    row,          \* a row that a client keeps to follow its links later, or NULL
    facets,       \* the answer of the facets endpoint as far as it has been computed
    always,       \* history of the walk: rows that were in the list all the time,
    repeated,     \*   rows that were on two pages,
    risen,        \*   rows that a commit moved towards the front,
    sunk,         \*   rows that a commit moved towards the end,
    pushed,       \*   the same since the last count,
    touched,      \* history of the facets: advisories a commit changed, per statement
    commits       \* commits with an effect since the client became busy

table == <<logVars, documents, headId>>
history == <<always, repeated, risen, sunk, pushed>>
vars == <<table, walk, seen, row, facets, history, touched, commits>>

Walk ==
    [ step   : {"idle", "request", "counted", "done", "refused", "broken"},
      query  : Query,
      limit  : Nat,
      offset : Nat,
      next   : BOOLEAN ]     \* there is a next link
NoWalk == [step |-> "idle", query |-> NoParameters, limit |-> 0, offset |-> 0, next |-> FALSE]

Row == [id : Nat, rev : Revisions]

NoCounts ==
    [ step |-> "none", tlp |-> [n \in TlpNames |-> {}], severity |-> [b \in Bands |-> {}] ]

TypeOK ==
    /\ LogTypeOK
    /\ documents \in Seq(Revisions)
    /\ headId \in [Advisories -> Nat]
    /\ walk \in Walk
    /\ seen \subseteq Advisories
    /\ row = NULL \/ row \in Row
    /\ facets \in [ step : {"none", "tlp", "shown"},
                    tlp : [TlpNames -> SUBSET Advisories],
                    severity : [Bands -> SUBSET Advisories] ]
    /\ always \subseteq Advisories /\ repeated \subseteq Advisories
    /\ risen \subseteq Advisories /\ sunk \subseteq Advisories /\ pushed \subseteq Advisories
    /\ touched \in [{"tlp", "severity"} -> SUBSET Advisories]
    /\ commits \in 0 .. MaxCommits

Init ==
    /\ LogInit
    /\ documents = <<>>
    /\ headId = [a \in Advisories |-> 0]
    /\ walk = NoWalk
    /\ seen = {} /\ row = NULL
    /\ facets = NoCounts
    /\ always = {} /\ repeated = {} /\ risen = {} /\ sunk = {} /\ pushed = {}
    /\ touched = [s \in {"tlp", "severity"} |-> {}]
    /\ commits = 0

------------------------------------------------------------------------------
(* What the statements select.                                             *)

\* The invariants of newFilteredWhere.
Visible(a) == head[a] # NULL /\ a \notin withdrawn /\ Served(head[a])

Selected(a) == Visible(a) /\ (walk.query.filtered => head[a] \in Matches)
List == {a \in Advisories : Selected(a)}

SortKey(a) == IF walk.query.by = "date" THEN head[a].date ELSE ScoreOf[head[a]]

\* orderClause: NULLS LAST, the higher id first among equals.
SortsBefore(a, b) ==
    \/ SortKey(a) # NULL /\ SortKey(b) = NULL
    \/ IF walk.query.descending THEN SqlGreater(SortKey(a), SortKey(b))
                                ELSE SqlGreater(SortKey(b), SortKey(a))
    \/ SortKey(a) = SortKey(b) /\ headId[a] > headId[b]

Rank(a) == Cardinality({b \in List : SortsBefore(b, a)})

\* LIMIT and OFFSET.
Page == {a \in List : walk.offset <= Rank(a) /\ Rank(a) < walk.offset + walk.limit}

------------------------------------------------------------------------------
(* Commits of the ingestion                                                *)

\* The client does one thing at a time; reads do not interfere with each other.
Idle == walk.step = "idle" /\ facets.step = "none" /\ row = NULL

InWalk == walk.step \in {"request", "counted"}

\* How a commit moves the rows of a walk, and what it changes under the facets.
Observe ==
    /\ IF Idle \/ table' = table THEN UNCHANGED commits
       ELSE commits < MaxCommits /\ commits' = commits + 1
    /\ UNCHANGED <<walk, seen, row, facets, repeated>>
    /\ IF InWalk
       THEN /\ always' = always \intersect List'
            /\ risen' = risen \union {a \in always \intersect List' : Rank(a)' < Rank(a)}
            /\ LET back == {a \in always \intersect List' : Rank(a)' > Rank(a)}
               IN  sunk' = sunk \union back /\ pushed' = pushed \union back
       ELSE UNCHANGED <<always, risen, sunk, pushed>>
    /\ LET changed == {a \in Advisories : \/ head'[a] # head[a]
                                          \/ (a \in withdrawn') # (a \in withdrawn)}
       IN  touched' = [s \in {"tlp", "severity"} |->
                          IF facets.step = "none" THEN {} ELSE touched[s] \union changed]

StoreDocument(r) ==
    /\ Store(r)
    /\ IF \E s \in stored[r.adv] : SameRevisionKey(r, s)
       THEN UNCHANGED <<documents, headId>>
       ELSE /\ Len(documents) < MaxDocuments
            /\ documents' = Append(documents, r)
            /\ headId' = [headId EXCEPT ![r.adv] =
                  IF head[r.adv] = NULL \/ Newer(r, head[r.adv]) THEN Len(documents) + 1 ELSE @]
    /\ Observe

TombstoneAbsent(gone) ==
    /\ Withdraw(gone)
    /\ UNCHANGED <<documents, headId>>
    /\ Observe

------------------------------------------------------------------------------
(* GET /api/advisories, page after page                                    *)

\* parseListOptions.  Variant: 0 is taken as it is.
CappedLimit(n) == IF n > MaxLimit THEN MaxLimit ELSE n
ClampedLimit(n) == IF n = 0 \/ n > MaxLimit THEN MaxLimit ELSE n

ForgetWalk ==
    /\ walk' = NoWalk
    /\ seen' = {} /\ repeated' = {} /\ always' = {} /\ risen' = {} /\ sunk' = {} /\ pushed' = {}

StartWalk(n, q) ==
    /\ Idle
    /\ walk' = [step |-> "request", query |-> q, limit |-> ClampedLimit(n),
                offset |-> 0, next |-> FALSE]
    /\ seen' = {} /\ repeated' = {} /\ risen' = {} /\ sunk' = {} /\ pushed' = {}
    /\ always' = {a \in Advisories : Visible(a) /\ (q.filtered => head[a] \in Matches)}
    /\ UNCHANGED <<table, row, facets, touched, commits>>

\* The first statement of ListAdvisories: the total decides about the next link.
\* Variant: the last row does not count.
HasNextShort(total) == walk.offset + walk.limit + 1 < total
HasNext(total) == walk.offset + walk.limit < total
CountRows ==
    /\ walk.step = "request" /\ walk.offset <= MaxOffset
    /\ walk' = [walk EXCEPT !.step = "counted", !.next = HasNext(Cardinality(List))]
    /\ pushed' = {}
    /\ UNCHANGED <<table, seen, row, facets, always, repeated, risen, sunk, touched, commits>>

\* The offset of the next link.  Variant: the one of the link back.
OffsetBack == walk.offset - walk.limit
NextOffset == walk.offset + walk.limit

\* The second statement and the answer.  A client that follows _links.next finds it
\* broken when the request had other parameters: paginationBaseURL has already put a "?"
\* into it, so the last of them and the limit arrive as one value, which is refused or
\* selects something else.  A client that counts for itself sends the parameters again.
PageRows(follows) ==
    /\ walk.step = "counted"
    /\ walk' = IF ~walk.next THEN [walk EXCEPT !.step = "done"]
               ELSE IF follows /\ walk.query # NoParameters THEN [walk EXCEPT !.step = "broken"]
               ELSE [walk EXCEPT !.step = "request", !.offset = NextOffset]
    /\ seen' = seen \union Page
    /\ repeated' = repeated \union (seen \intersect Page)
    /\ UNCHANGED <<table, row, facets, always, risen, sunk, pushed, touched, commits>>

\* The same, and the client leaves the list with one of the rows.
PickRow(a) ==
    /\ walk.step = "counted" /\ a \in Page
    /\ row' = [id |-> headId[a], rev |-> head[a]]
    /\ ForgetWalk
    /\ UNCHANGED <<table, facets, touched, commits>>

DropRow ==
    /\ row # NULL
    /\ row' = NULL
    /\ UNCHANGED <<table, walk, seen, facets, history, touched>>
    /\ commits' = 0

\* parseListOptions answers 400 to an offset beyond the maximum.
RefuseOffset ==
    /\ walk.step = "request" /\ walk.offset > MaxOffset
    /\ walk' = [walk EXCEPT !.step = "refused"]
    /\ UNCHANGED <<table, seen, row, facets, history, touched, commits>>

EndWalk ==
    /\ walk.step \in {"done", "refused", "broken"}
    /\ ForgetWalk
    /\ UNCHANGED <<table, row, facets, touched>>
    /\ commits' = 0

------------------------------------------------------------------------------
(* The links of a row                                                      *)

\* GetDocument, by the id of a row.
Document(id) ==
    IF id \in DOMAIN documents /\ Served(documents[id]) THEN documents[id] ELSE NULL

\* GET /api/advisories/{publisher}/{tracking id} with the names of revision r: the
\* publisher is compared with the trimmed name in advisories.  Variant: without
\* d.latest the oldest row wins.
OldestOf(a) ==
    LET ids == {i \in DOMAIN documents : documents[i].adv = a}
    IN  documents[CHOOSE i \in ids : \A j \in ids : i <= j]
PermalinkOldest(r) ==
    IF r \in LongNames THEN [status |-> 400, body |-> NULL]
    ELSE IF r \in PaddedNames \/ ~Served(OldestOf(r.adv)) THEN [status |-> 404, body |-> NULL]
    ELSE IF r.adv \in withdrawn THEN [status |-> 410, body |-> NULL]
    ELSE [status |-> 200, body |-> OldestOf(r.adv)]
Permalink(r) ==
    IF r \in LongNames THEN [status |-> 400, body |-> NULL]
    ELSE IF r \in PaddedNames \/ head[r.adv] = NULL THEN [status |-> 404, body |-> NULL]
    ELSE IF ~Served(head[r.adv]) THEN [status |-> 404, body |-> NULL]
    ELSE IF r.adv \in withdrawn THEN [status |-> 410, body |-> NULL]
    ELSE [status |-> 200, body |-> head[r.adv]]

------------------------------------------------------------------------------
(* GET /api/facets: the statement for the TLP labels, and the last, for severity *)

CountTlp ==
    /\ Idle
    /\ facets' = [facets EXCEPT !.step = "tlp",
                     !.tlp = [n \in TlpNames |->
                        {a \in Advisories : Visible(a) /\ LabelOf[head[a]].name = n}]]
    /\ UNCHANGED <<table, walk, seen, row, history, touched, commits>>

CountSeverity ==
    /\ facets.step = "tlp"
    /\ facets' = [facets EXCEPT !.step = "shown",
                     !.severity = [b \in Bands |->
                        {a \in Advisories : Visible(a) /\ FacetBand(head[a]) = b}]]
    /\ touched' = [touched EXCEPT !["severity"] = {}]
    /\ UNCHANGED <<table, walk, seen, row, history, commits>>

CloseFacets ==
    /\ facets.step = "shown"
    /\ facets' = NoCounts
    /\ touched' = [s \in {"tlp", "severity"} |-> {}]
    /\ UNCHANGED <<table, walk, seen, row, history>>
    /\ commits' = 0

------------------------------------------------------------------------------
Next ==
    \/ \E r \in Revisions : StoreDocument(r)
    \/ \E gone \in SUBSET Advisories : TombstoneAbsent(gone)
    \/ \E n \in Limits, q \in Queries : StartWalk(n, q)
    \/ CountRows \/ (\E follows \in BOOLEAN : PageRows(follows))
    \/ RefuseOffset \/ EndWalk
    \/ (\E a \in Advisories : PickRow(a)) \/ DropRow
    \/ CountTlp \/ CountSeverity \/ CloseFacets

Spec == Init /\ [][Next]_vars

\* A client goes on with its walk, and the statements it causes return.
FairSpec ==
    /\ Spec
    /\ WF_vars(CountRows) /\ WF_vars(\E follows \in BOOLEAN : PageRows(follows))
    /\ WF_vars(RefuseOffset)

------------------------------------------------------------------------------
(* Properties                                                              *)

\* Paging by offset: a row that was in the list during the whole walk is missing only if
\* a commit moved it forward, or moved it off the last page between count and rows; and
\* it comes twice only if a commit moved it back.
WalkComplete ==
    /\ walk.step = "done" => always \ (risen \union pushed) \subseteq seen
    /\ repeated \intersect always \subseteq sunk

\* The two gates agree: what is listed may be published, and what may be published and
\* is current and not withdrawn is listed, unless its label has white space around it.
GatesAgree ==
    \A a \in Advisories \ withdrawn :
        head[a] # NULL =>
            /\ Visible(a) => IsPublishable(LabelOf[head[a]])
            /\ IsPublishable(LabelOf[head[a]]) => Visible(a) \/ LabelOf[head[a]].padded

\* A row once listed stays reachable, whatever is stored and withdrawn afterwards: its
\* revision by its id, its advisory by its permalink, which answers with the revision
\* or a newer one; 404 only for a name that is not the key, or a head now restricted.
RowResolves ==
    row # NULL =>
        LET answer == Permalink(row.rev) IN
        /\ Document(row.id) = row.rev
        /\ answer.status = 200 => answer.body = row.rev \/ Newer(answer.body, row.rev)
        /\ answer.status = 410 => row.rev.adv \in withdrawn
        /\ answer.status \in {400, 404} =>
              row.rev \in LongNames \union PaddedNames \/ ~Served(head[row.rev.adv])

\* Choosing a value of a facet lists the advisories that were counted for it, apart from
\* those that a commit has changed since that statement and scores between two bands;
\* and the dimensions count the same advisories, apart from those changed since the first.
FacetsMatchList ==
    facets.step = "shown" =>
        /\ \A a \in Advisories \ touched["severity"], b \in Bands :
              /\ Visible(a) /\ InBand(b, head[a]) => a \in facets.severity[b]
              /\ a \in facets.severity[b] =>
                    Visible(a) /\ (InBand(b, head[a]) \/ InGap(head[a]))
        /\ \A a \in Advisories \ touched["tlp"] :
              /\ \A n \in TlpNames :
                    a \in facets.tlp[n] <=> Visible(a) /\ LabelOf[head[a]].name = n
              /\ (\E n \in TlpNames : a \in facets.tlp[n])
                    <=> (\E b \in Bands : a \in facets.severity[b])

\* A walk ends, however much is stored and withdrawn meanwhile.
WalkEnds == walk.step = "request" ~> walk.step \notin {"request", "counted"}

\* The links preserve filters and sorting (paginationBaseURL).  They do not.
LinksKeepQuery == walk.step # "broken"
==============================================================================
