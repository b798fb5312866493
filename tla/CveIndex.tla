------------------------------ MODULE CveIndex ------------------------------
(***************************************************************************)
(* What the facet extraction keeps of its promise: documents are indexed   *)
(* one after the other, each in one step that puts all of its CVEs into    *)
(* the dictionary and links it to them.  The links it may miss are those   *)
(* to CVEs that the dictionary had already.                                *)
(***************************************************************************)
CONSTANTS
    Documents,
    CvesIn          \* CvesIn[d]: the CVEs of document d

VARIABLES
    dictionary,     \* the CVEs known
    indexed,        \* the documents stored
    links           \* links[d]: the entries that d is linked to

indexVars == <<dictionary, indexed, links>>

IndexInit ==
    /\ dictionary = {}
    /\ indexed = {}
    /\ links = [d \in Documents |-> {}]

Index(d, missed) ==
    /\ d \notin indexed
    /\ missed \subseteq dictionary
    /\ dictionary' = dictionary \union CvesIn[d]
    /\ indexed' = indexed \union {d}
    /\ links' = [links EXCEPT ![d] = CvesIn[d] \ missed]

IndexNext == \E d \in Documents : \E missed \in SUBSET dictionary : Index(d, missed)

IndexSpec == IndexInit /\ [][IndexNext]_indexVars
=============================================================================
