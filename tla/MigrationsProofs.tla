--------------------------- MODULE MigrationsProofs ---------------------------
(***************************************************************************)
(* Proofs about Migrations for any number of processes and releases.       *)
(*                                                                         *)
(* Migrate reads the version once and applies its plan transaction by      *)
(* transaction, while others do the same.  Planned says why a plan that is *)
(* out of date does no harm: the database is at least where the plan       *)
(* starts, and every version that others have added since is recorded, so  *)
(* the primary key of versions stops the plan.                             *)
(***************************************************************************)
EXTENDS Migrations, TLAPS

Top == Newest(versions)

\* What p still has to apply, on a database with the versions vs, the newest of them
\* top: the setup script, or all increments from some k on, where k is at most the
\* next version, and all from k to top are recorded.
Planned(p, todo, vs, top) ==
    \/ todo = {0}
    \/ \E k \in 1 .. Release[p] :
          /\ todo = k .. Release[p]
          /\ k - 1 <= top
          /\ k .. top \subseteq vs

\* What p knows of the database at each of its steps.
ProcOK(p, c, vs, top) ==
    /\ c.step \in {"script", "record", "commit"} => Planned(p, c.todo, vs, top)
    /\ c.step \in {"record", "commit"} /\ 0 \in c.todo => vs = {}
    /\ c.step = "commit" /\ 0 \notin c.todo => Oldest(c.todo) \notin vs
    /\ c.step \in {"working", "done"} => Release[p] <= top

ProcInv == \A p \in Processes : ProcOK(p, proc[p], versions, Top)

\* Two open transactions are never at the same migration.
AloneInv ==
    \A p, q \in Processes : InTransaction(p) /\ InTransaction(q) /\ Mig(p) = Mig(q) => p = q

\* There is a newest version, unless there is none.
TopInv ==
    /\ versions = {} => Top = -1
    /\ versions # {} => Top \in versions /\ \A v \in versions : v <= Top

IInv == TypeOK /\ TopInv /\ SchemaMatchesVersion /\ ProcInv /\ AloneInv

------------------------------------------------------------------------------
(* Newest and oldest.                                                      *)

LEMMA VersionsAreIntegers == Versions \subseteq Int
  BY DEF Versions

LEMMA NewestIs ==
    ASSUME NEW S \in SUBSET Versions, NEW m \in S, \A u \in S : u <= m
    PROVE  Newest(S) = m
  <1>1. Newest(S) = CHOOSE v \in S : \A u \in S : u <= v
    BY DEF Newest
  <1>2. /\ Newest(S) \in S
        /\ \A u \in S : u <= Newest(S)
    BY <1>1
  <1>3. Newest(S) <= m /\ m <= Newest(S)
    BY <1>2
  <1>4. Newest(S) \in Int /\ m \in Int
    BY <1>2, VersionsAreIntegers
  <1> QED
    BY <1>3, <1>4

LEMMA OldestIs ==
    ASSUME NEW S \in SUBSET Versions, NEW m \in S, \A u \in S : m <= u
    PROVE  Oldest(S) = m
  <1>1. /\ Oldest(S) \in S
        /\ \A u \in S : Oldest(S) <= u
    BY DEF Oldest
  <1>2. Oldest(S) <= m /\ m <= Oldest(S)
    BY <1>1
  <1>3. Oldest(S) \in Int /\ m \in Int
    BY <1>1, VersionsAreIntegers
  <1> QED
    BY <1>2, <1>3

\* The numbers behind a plan.
LEMMA PlanFacts ==
    ASSUME NEW p \in Processes, NEW todo, NEW vs, NEW top \in -1 .. Latest,
           Planned(p, todo, vs, top)
    PROVE  /\ todo \in SUBSET Versions /\ todo # {}
           /\ Oldest(todo) \in todo
           /\ 0 \in todo => todo = {0} /\ Oldest(todo) = 0
           /\ 0 \notin todo => /\ Oldest(todo) \in 1 .. Release[p]
                               /\ todo = Oldest(todo) .. Release[p]
                               /\ Oldest(todo) - 1 <= top
                               /\ Oldest(todo) .. top \subseteq vs
  <1>0. Latest \in Nat /\ Release[p] \in 0 .. Latest
    BY MigrationsAssumption
  <1>1. CASE todo = {0}
    <2>1. Oldest(todo) = 0
      BY <1>0, <1>1, OldestIs DEF Versions
    <2> QED
      BY <1>0, <1>1, <2>1 DEF Versions
  <1>2. ASSUME NEW k \in 1 .. Release[p], todo = k .. Release[p], k - 1 <= top,
               k .. top \subseteq vs
        PROVE  /\ todo \in SUBSET Versions /\ Oldest(todo) = k /\ k \in todo /\ 0 \notin todo
    <2>1. todo \in SUBSET Versions /\ k \in todo /\ 0 \notin todo /\ \A u \in todo : k <= u
      BY <1>0, <1>2 DEF Versions
    <2> QED
      BY <2>1, OldestIs
  <1> QED
    BY <1>1, <1>2 DEF Planned

\* Plans outlive the commits of others.
LEMMA PlanStays ==
    ASSUME NEW p \in Processes, NEW todo, NEW vs, NEW ws, NEW v \in Versions,
           NEW top \in -1 .. Latest, NEW new \in -1 .. Latest,
           Planned(p, todo, vs, top), ws = vs \union {v},
           new = v, top < v, vs # {} => v = top + 1, vs = {} => top = -1
    PROVE  todo = {0} \/ vs # {} => Planned(p, todo, ws, new)
  <1>0. Latest \in Nat /\ Release[p] \in 0 .. Latest
    BY MigrationsAssumption
  <1>1. CASE todo = {0}
    BY <1>1 DEF Planned
  <1>2. ASSUME NEW k \in 1 .. Release[p], todo = k .. Release[p], k - 1 <= top,
               k .. top \subseteq vs, vs # {}
        PROVE  Planned(p, todo, ws, new)
    <2>1. k - 1 <= new
      BY <1>0, <1>2 DEF Versions
    <2>2. k .. new \subseteq ws
      BY <1>0, <1>2 DEF Versions
    <2> QED
      BY <1>2, <2>1, <2>2 DEF Planned
  <1> QED
    BY <1>1, <1>2 DEF Planned

\* Where a process goes after currentVersion.
LEMMA ContinueFacts ==
    ASSUME NEW p \in Processes, NEW todo, NEW vs, NEW top \in -1 .. Latest,
           todo # {} => Planned(p, todo, vs, top),
           todo = {} => Release[p] <= top
    PROVE  /\ Continue(p, todo) \in Process
           /\ ProcOK(p, Continue(p, todo), vs, top)
           /\ Continue(p, todo).step \notin {"record", "commit"}
  <1>1. CASE todo = {}
    BY <1>1 DEF Continue, At, Process, ProcOK
  <1>2. CASE todo # {}
    <2>1. todo \in SUBSET Versions
      BY <1>2, PlanFacts
    <2> QED
      BY <1>2, <2>1 DEF Continue, At, Process, ProcOK
  <1> QED
    BY <1>1, <1>2

LEMMA PendingFacts ==
    ASSUME NEW p \in Processes, NEW vs, NEW top \in -1 .. Latest
    PROVE  /\ Pending(p, top) # {} => Planned(p, Pending(p, top), vs, top)
           /\ Pending(p, top) = {} => Release[p] <= top
  <1>0. Latest \in Nat /\ Release[p] \in 0 .. Latest
    BY MigrationsAssumption
  <1>1. CASE Release[p] <= top
    BY <1>0, <1>1 DEF Pending
  <1>2. CASE top < 0
    BY <1>0, <1>2 DEF Pending, Planned
  <1>3. CASE 0 <= top /\ top < Release[p]
    <2>1. Pending(p, top) = top + 1 .. Release[p]
      <3>1. Pending(p, top) = {v \in 1 .. Release[p] : v > top}
        BY <1>0, <1>3 DEF Pending
      <3>2. \A v : v \in 1 .. Release[p] /\ v > top <=> v \in top + 1 .. Release[p]
        BY <1>0, <1>3
      <3> QED
        BY <3>1, <3>2
    <2>2. top + 1 \in 1 .. Release[p] /\ top + 1 .. top = {}
      BY <1>0, <1>3
    <2> QED
      BY <1>0, <1>3, <2>1, <2>2 DEF Planned
  <1> QED
    BY <1>0, <1>1, <1>2, <1>3

------------------------------------------------------------------------------
(* The invariant.                                                          *)

LEMMA TopType == TypeOK /\ TopInv => Top \in -1 .. Latest
  <1>1. Latest \in Nat
    BY MigrationsAssumption
  <1>2. TypeOK => versions \subseteq 0 .. Latest
    BY DEF TypeOK, Versions
  <1> QED
    BY <1>1, <1>2 DEF TopInv

\* Failed transactions and stopped processes leave nothing behind.
LEMMA FailFacts ==
    ASSUME NEW p \in Processes, NEW vs, NEW top
    PROVE  \A step \in {"table", "stopped", "version"} :
              /\ At(step, {}) \in Process
              /\ ProcOK(p, At(step, {}), vs, top)
              /\ At(step, {}).step \notin {"record", "commit"}
  BY DEF At, Process, ProcOK

\* A step of p that commits nothing keeps the invariant if p's own part of it is kept.
LEMMA QuietStep ==
    ASSUME IInv, NEW p \in Processes, NEW c \in Process,
           proc' = [proc EXCEPT ![p] = c], UNCHANGED <<versions, schema>>,
           faults' \in 0 .. MaxFaults,
           ProcOK(p, c, versions, Top),
           c.step \in {"record", "commit"} =>
               \A q \in Processes \ {p} : InTransaction(q) => Mig(q) # Oldest(c.todo)
    PROVE  IInv'
  <1>1. TypeOK'
    BY DEF IInv, TypeOK
  <1>2. Top' = Top /\ TopInv' /\ SchemaMatchesVersion'
    BY DEF IInv, Top, TopInv, SchemaMatchesVersion
  <1>3. proc'[p] = c /\ \A q \in Processes : q # p => proc'[q] = proc[q]
    BY DEF IInv, TypeOK
  <1>4. ProcInv'
    <2> SUFFICES ASSUME NEW q \in Processes PROVE ProcOK(q, proc'[q], versions', Top')
      BY DEF ProcInv
    <2>1. ProcOK(q, proc[q], versions, Top)
      BY DEF IInv, ProcInv
    <2> QED
      BY <1>2, <1>3, <2>1
  <1>5. AloneInv'
    <2> SUFFICES ASSUME NEW q \in Processes, NEW r \in Processes, InTransaction(q)',
                        InTransaction(r)', Mig(q)' = Mig(r)'
                 PROVE  q = r
      BY DEF AloneInv
    <2>1. \A o \in Processes : o # p => (InTransaction(o)' <=> InTransaction(o)) /\ Mig(o)' = Mig(o)
      BY <1>3 DEF InTransaction, Mig
    <2>2. (InTransaction(p)' <=> c.step \in {"record", "commit"}) /\ Mig(p)' = Oldest(c.todo)
      BY <1>3 DEF InTransaction, Mig
    <2>3. CASE q # p /\ r # p
      BY <2>1, <2>3 DEF IInv, AloneInv
    <2>4. CASE q # p /\ r = p
      BY <2>1, <2>2, <2>4
    <2>5. CASE q = p /\ r # p
      BY <2>1, <2>2, <2>5
    <2> QED
      BY <2>3, <2>4, <2>5
  <1> QED
    BY <1>1, <1>2, <1>4, <1>5 DEF IInv

\* The transaction of p is at the version after the newest, or installs the schema.
LEMMA ApplyFacts ==
    ASSUME IInv, NEW p \in Processes, Apply(p)
    PROVE  /\ Recorded(p) \in Versions /\ Top < Recorded(p)
           /\ versions' = versions \union {Recorded(p)}
           /\ versions' \subseteq Versions /\ schema' \subseteq Versions
           /\ Mig(p) = 0 => versions = {} /\ Top = -1 /\ Recorded(p) = Release[p]
           /\ Mig(p) # 0 => versions # {} /\ Recorded(p) = Mig(p) /\ Mig(p) = Top + 1
           /\ Top' = Recorded(p) /\ TopInv' /\ SchemaMatchesVersion'
  <1>0. Latest \in Nat /\ Release[p] \in 0 .. Latest /\ Top \in -1 .. Latest
    BY MigrationsAssumption, TopType DEF IInv
  <1>1. /\ proc[p].step = "commit"
        /\ versions' = versions \union {Recorded(p)}
        /\ schema' = schema \union Effects(p)
    BY DEF Apply
  <1>2. ProcOK(p, proc[p], versions, Top)
    BY DEF IInv, ProcInv
  <1>3. Planned(p, proc[p].todo, versions, Top)
    BY <1>1, <1>2 DEF ProcOK
  <1>4. CASE 0 \in proc[p].todo
    <2>1. Mig(p) = 0
      BY <1>0, <1>3, <1>4, PlanFacts DEF Mig
    <2>2. versions = {} /\ Top = -1
      BY <1>1, <1>2, <1>4 DEF ProcOK, IInv, TopInv
    <2>3. Recorded(p) = Release[p] /\ Effects(p) = 0 .. Release[p]
      BY <2>1 DEF Recorded, Effects
    <2>4. versions' = {Release[p]} /\ schema' = 0 .. Release[p]
      BY <1>0, <1>1, <2>2, <2>3 DEF IInv, SchemaMatchesVersion, Top
    <2>5. Newest(versions') = Release[p]
      BY <1>0, <2>4, NewestIs DEF Versions
    <2>6. Release[p] \in Versions /\ versions' \subseteq Versions /\ schema' \subseteq Versions
      BY <1>0, <2>4 DEF Versions
    <2>7. Top' = Release[p]
      BY <2>5 DEF Top
    <2>8. TopInv' /\ SchemaMatchesVersion'
      BY <1>0, <2>4, <2>5, <2>7 DEF TopInv, SchemaMatchesVersion
    <2> QED
      BY <1>0, <1>1, <2>1, <2>2, <2>3, <2>6, <2>7, <2>8
  <1>5. CASE 0 \notin proc[p].todo
    <2> DEFINE k == Oldest(proc[p].todo)
    <2>1. k \in 1 .. Release[p] /\ k - 1 <= Top /\ k .. Top \subseteq versions
      BY <1>0, <1>3, <1>5, PlanFacts
    <2>2. k \notin versions
      BY <1>1, <1>2, <1>5 DEF ProcOK
    <2>3. k = Top + 1 /\ Top >= 0
      BY <1>0, <2>1, <2>2
    <2>4. versions # {}
      BY <2>3 DEF IInv, TopInv
    <2>5. Mig(p) = k /\ Mig(p) # 0 /\ Recorded(p) = k /\ Effects(p) = {k}
      BY <1>0, <2>1 DEF Mig, Recorded, Effects
    <2>6. k \in Versions /\ versions \subseteq Versions /\ schema \subseteq Versions
      BY <1>0, <2>1 DEF Versions, IInv, TypeOK
    <2>7. \A v \in versions' : v <= k
      BY <1>0, <1>1, <2>3, <2>4, <2>5, <2>6 DEF IInv, TopInv, Versions
    <2>8. Newest(versions') = k
      BY <1>1, <2>5, <2>6, <2>7, NewestIs
    <2>9. schema' = 0 .. k
      BY <1>0, <1>1, <2>3, <2>5 DEF IInv, SchemaMatchesVersion, Top
    <2>10. Top' = k
      BY <2>8 DEF Top
    <2>11. versions' \subseteq Versions /\ schema' \subseteq Versions /\ k \in versions'
      BY <1>1, <2>5, <2>6
    <2>12. TopInv' /\ SchemaMatchesVersion'
      BY <2>7, <2>8, <2>9, <2>10, <2>11 DEF TopInv, SchemaMatchesVersion
    <2> HIDE DEF k
    <2> QED
      BY <1>0, <1>1, <2>3, <2>4, <2>5, <2>6, <2>10, <2>11, <2>12
  <1> QED
    BY <1>4, <1>5

\* A COMMIT of p does no harm to what the others know.
LEMMA OthersStay ==
    ASSUME IInv, NEW p \in Processes, Apply(p), NEW q \in Processes, q # p
    PROVE  ProcOK(q, proc[q], versions', Top')
  <1>0. /\ Latest \in Nat /\ Release[q] \in 0 .. Latest /\ Top \in -1 .. Latest
        /\ Recorded(p) \in -1 .. Latest
    BY MigrationsAssumption, TopType, ApplyFacts DEF IInv, Versions
  <1>1. ProcOK(q, proc[q], versions, Top)
    BY DEF IInv, ProcInv
  <1>2. InTransaction(q) => Mig(q) # Mig(p)
    BY DEF IInv, AloneInv, Apply, InTransaction
  <1> DEFINE c == proc[q]
  <1>3. Planned(q, c.todo, versions, Top) => c.todo = {0} \/ versions # {}
    <2> SUFFICES ASSUME Planned(q, c.todo, versions, Top), c.todo # {0} PROVE versions # {}
      OBVIOUS
    <2>1. Top >= 0
      BY <1>0, PlanFacts
    <2> QED
      BY <2>1 DEF IInv, TopInv
  <1>4. Planned(q, c.todo, versions, Top) => Planned(q, c.todo, versions', Top')
    <2>1. /\ versions' = versions \union {Recorded(p)} /\ Top' = Recorded(p)
          /\ Top < Recorded(p) /\ Recorded(p) \in Versions
          /\ versions # {} => Recorded(p) = Top + 1
          /\ versions = {} => Top = -1
      BY ApplyFacts DEF IInv, TopInv
    <2> QED
      BY <1>0, <1>3, <2>1, PlanStays
  <1>5. c.step \in {"record", "commit"} => 0 \notin c.todo
    <2> SUFFICES ASSUME c.step \in {"record", "commit"}, 0 \in c.todo PROVE FALSE
      OBVIOUS
    <2>1. Mig(q) = 0 /\ versions = {}
      BY <1>0, <1>1, PlanFacts DEF ProcOK, Mig
    <2> QED
      BY <1>2, <2>1, ApplyFacts DEF InTransaction
  <1>6. c.step = "commit" => Oldest(c.todo) \notin versions'
    <2> SUFFICES ASSUME c.step = "commit" PROVE Oldest(c.todo) \notin versions'
      OBVIOUS
    <2>1. Oldest(c.todo) \notin versions /\ c.todo # {0}
      BY <1>1, <1>5 DEF ProcOK
    <2>2. versions # {}
      BY <1>1, <1>3, <2>1 DEF ProcOK
    <2>3. Recorded(p) = Mig(p)
      BY <2>2, ApplyFacts
    <2> QED
      BY <1>2, <2>1, <2>3, ApplyFacts DEF Mig, InTransaction
  <1>7. c.step \in {"working", "done"} => Release[q] <= Top'
    BY <1>0, <1>1, ApplyFacts DEF ProcOK
  <1> QED
    BY <1>1, <1>4, <1>5, <1>6, <1>7 DEF ProcOK

LEMMA ApplyStep ==
    ASSUME IInv, NEW p \in Processes, Apply(p), NEW c \in Process,
           proc' = [proc EXCEPT ![p] = c], faults' \in 0 .. MaxFaults,
           ProcOK(p, c, versions', Top'), c.step \notin {"record", "commit"}
    PROVE  IInv'
  <1>1. TypeOK' /\ TopInv' /\ SchemaMatchesVersion'
    BY ApplyFacts DEF IInv, TypeOK
  <1>2. proc'[p] = c /\ \A q \in Processes : q # p => proc'[q] = proc[q]
    BY DEF IInv, TypeOK
  <1>3. ProcInv'
    <2> SUFFICES ASSUME NEW q \in Processes PROVE ProcOK(q, proc'[q], versions', Top')
      BY DEF ProcInv
    <2>1. CASE q = p
      BY <1>2, <2>1
    <2>2. CASE q # p
      BY <1>2, <2>2, OthersStay
    <2> QED
      BY <2>1, <2>2
  <1>4. AloneInv'
    <2>1. ~InTransaction(p)'
      BY <1>2 DEF InTransaction
    <2>2. \A o \in Processes : o # p => (InTransaction(o)' <=> InTransaction(o)) /\ Mig(o)' = Mig(o)
      BY <1>2 DEF InTransaction, Mig
    <2> QED
      BY <2>1, <2>2 DEF IInv, AloneInv
  <1> QED
    BY <1>1, <1>3, <1>4 DEF IInv

LEMMA InitInv == Init => IInv
  <1> SUFFICES ASSUME Init PROVE IInv
    OBVIOUS
  <1>0. Latest \in Nat /\ 0 \in 0 .. MaxFaults
    BY MigrationsAssumption
  <1>1. PICK v \in -1 .. Latest :
           versions = (IF v = -1 THEN {} ELSE {v}) /\ schema = 0 .. v
    BY DEF Init
  <1>2. Top = v
    <2>1. CASE v = -1
      BY <1>1, <2>1 DEF Top, Newest
    <2>2. CASE v # -1
      BY <1>0, <1>1, <2>2, NewestIs DEF Top, Versions
    <2> QED
      BY <2>1, <2>2
  <1>3. TypeOK
    BY <1>0, <1>1 DEF Init, TypeOK, Process, At, Versions
  <1>4. TopInv /\ SchemaMatchesVersion
    <2>1. SchemaMatchesVersion
      BY <1>1, <1>2 DEF SchemaMatchesVersion, Top
    <2>2. CASE v = -1
      BY <1>1, <1>2, <2>1, <2>2 DEF TopInv
    <2>3. CASE v # -1
      BY <1>0, <1>1, <1>2, <2>1, <2>3 DEF TopInv
    <2> QED
      BY <2>2, <2>3
  <1>5. \A p \in Processes : proc[p].step = "stopped"
    BY DEF Init, At
  <1>6. ProcInv /\ AloneInv
    BY <1>5 DEF ProcInv, ProcOK, AloneInv, InTransaction
  <1> QED
    BY <1>3, <1>4, <1>6 DEF IInv

\* A process that fails or is started keeps the invariant.
LEMMA ResetStep ==
    ASSUME IInv, NEW p \in Processes, NEW step \in {"table", "stopped", "version"},
           proc' = [proc EXCEPT ![p] = At(step, {})], UNCHANGED <<versions, schema>>,
           faults' \in 0 .. MaxFaults
    PROVE  IInv'
  <1> DEFINE c == At(step, {})
  <1>1. c \in Process /\ ProcOK(p, c, versions, Top) /\ c.step \notin {"record", "commit"}
    BY FailFacts
  <1>2. proc' = [proc EXCEPT ![p] = c]
    OBVIOUS
  <1> HIDE DEF c
  <1> QED
    BY <1>1, <1>2, QuietStep

\* The plan a process makes is good for the database it has read.
LEMMA PlanStep ==
    ASSUME IInv, NEW p \in Processes, UNCHANGED <<versions, schema, faults>>,
           proc' = [proc EXCEPT ![p] = Continue(p, Pending(p, Top))]
    PROVE  IInv'
  <1> DEFINE c == Continue(p, Pending(p, Top))
  <1>1. Top \in -1 .. Latest /\ faults' \in 0 .. MaxFaults
    BY TopType DEF IInv, TypeOK
  <1>2. /\ c \in Process
        /\ ProcOK(p, c, versions, Top)
        /\ c.step \notin {"record", "commit"}
    BY <1>1, PendingFacts, ContinueFacts
  <1>3. proc' = [proc EXCEPT ![p] = c]
    OBVIOUS
  <1> HIDE DEF c
  <1> QED
    BY <1>1, <1>2, <1>3, QuietStep

LEMMA RunScriptStep ==
    ASSUME IInv, NEW p \in Processes, RunScript(p)
    PROVE  IInv'
  <1> DEFINE c == At("record", proc[p].todo)
  <1>1. /\ proc[p].step = "script" /\ proc[p] \in Process
        /\ ProcOK(p, proc[p], versions, Top)
        /\ ~Blocked(p) /\ ~Exists(p)
    BY DEF IInv, ProcInv, TypeOK, RunScript
  <1>2. Planned(p, proc[p].todo, versions, Top) /\ Top \in -1 .. Latest
    BY <1>1, TopType DEF ProcOK, IInv
  <1>3. c \in Process /\ c.step = "record" /\ c.todo = proc[p].todo
    BY <1>1 DEF Process, At
  <1>4. proc' = [proc EXCEPT ![p] = c]
    <2>1. [proc[p] EXCEPT !.step = "record"] = c
      BY <1>1 DEF At, Process
    <2>2. proc' = [proc EXCEPT ![p] = [proc[p] EXCEPT !.step = "record"]]
      BY DEF RunScript
    <2> QED
      BY <2>1, <2>2
  <1>5. 0 \in proc[p].todo => versions = {}
    BY <1>1, <1>2, PlanFacts DEF Exists, Mig
  <1>6. ProcOK(p, c, versions, Top)
    BY <1>2, <1>3, <1>5 DEF ProcOK
  <1>7. \A q \in Processes \ {p} : InTransaction(q) => Mig(q) # Oldest(c.todo)
    BY <1>1, <1>3 DEF Blocked, Mig
  <1>8. UNCHANGED <<versions, schema>> /\ faults' \in 0 .. MaxFaults
    BY DEF RunScript, IInv, TypeOK
  <1> HIDE DEF c
  <1> QED
    BY <1>3, <1>4, <1>6, <1>7, <1>8, QuietStep

LEMMA RecordVersionStep ==
    ASSUME IInv, NEW p \in Processes, RecordVersion(p)
    PROVE  IInv'
  <1> DEFINE c == At("commit", proc[p].todo)
  <1>1. /\ proc[p].step = "record" /\ proc[p] \in Process
        /\ ProcOK(p, proc[p], versions, Top)
        /\ Recorded(p) \notin versions
    BY DEF IInv, ProcInv, TypeOK, RecordVersion
  <1>2. Planned(p, proc[p].todo, versions, Top) /\ Top \in -1 .. Latest
    BY <1>1, TopType DEF ProcOK, IInv
  <1>3. c \in Process /\ c.step = "commit" /\ c.todo = proc[p].todo
    BY <1>1 DEF Process, At
  <1>4. proc' = [proc EXCEPT ![p] = c]
    <2>1. [proc[p] EXCEPT !.step = "commit"] = c
      BY <1>1 DEF At, Process
    <2>2. proc' = [proc EXCEPT ![p] = [proc[p] EXCEPT !.step = "commit"]]
      BY DEF RecordVersion
    <2> QED
      BY <2>1, <2>2
  <1>5. 0 \notin proc[p].todo => Oldest(proc[p].todo) \notin versions
    <2> SUFFICES ASSUME 0 \notin proc[p].todo PROVE Oldest(proc[p].todo) \notin versions
      OBVIOUS
    <2>1. Oldest(proc[p].todo) # 0
      BY <1>2, PlanFacts
    <2> QED
      BY <1>1, <2>1 DEF Recorded, Mig
  <1>6. ProcOK(p, c, versions, Top)
    BY <1>1, <1>2, <1>3, <1>5 DEF ProcOK
  <1>7. \A q \in Processes \ {p} : InTransaction(q) => Mig(q) # Oldest(c.todo)
    BY <1>1, <1>3 DEF IInv, AloneInv, InTransaction, Mig
  <1>8. UNCHANGED <<versions, schema>> /\ faults' \in 0 .. MaxFaults
    BY DEF RecordVersion, IInv, TypeOK
  <1> HIDE DEF c
  <1> QED
    BY <1>3, <1>4, <1>6, <1>7, <1>8, QuietStep

\* After its COMMIT the rest of the plan is good for the new version, and an empty
\* rest means that the release is reached.
LEMMA CommitStep ==
    ASSUME IInv, NEW p \in Processes, Commit(p)
    PROVE  IInv'
  <1> DEFINE rest == proc[p].todo \ {Mig(p)}
             c == Continue(p, rest)
  <1>1. Apply(p) /\ proc' = [proc EXCEPT ![p] = c] /\ faults' \in 0 .. MaxFaults
    BY DEF Commit, IInv, TypeOK
  <1>2. /\ Latest \in Nat /\ Release[p] \in 0 .. Latest /\ Top \in -1 .. Latest
        /\ Top' \in -1 .. Latest
    BY <1>1, MigrationsAssumption, TopType, ApplyFacts DEF IInv, Versions
  <1>3. Planned(p, proc[p].todo, versions, Top)
    BY <1>1 DEF IInv, ProcInv, ProcOK, Apply
  <1>4. /\ rest = {} => Release[p] <= Top'
        /\ rest # {} => Planned(p, rest, versions', Top')
    <2>1. CASE 0 \in proc[p].todo
      <3>1. rest = {} /\ Mig(p) = 0
        BY <1>2, <1>3, <2>1, PlanFacts DEF Mig
      <3> QED
        BY <1>1, <1>2, <3>1, ApplyFacts
    <2>2. CASE 0 \notin proc[p].todo
      <3>1. /\ Mig(p) \in 1 .. Release[p]
            /\ proc[p].todo = Mig(p) .. Release[p]
            /\ Mig(p) .. Top \subseteq versions
        BY <1>2, <1>3, <2>2, PlanFacts DEF Mig
      <3>2. Top' = Mig(p)
        BY <1>1, <1>2, <3>1, ApplyFacts
      <3>3. rest = Mig(p) + 1 .. Release[p]
        BY <1>2, <3>1
      <3>4. CASE Mig(p) = Release[p]
        BY <1>2, <3>1, <3>2, <3>3, <3>4
      <3>5. CASE Mig(p) # Release[p]
        <4>1. PICK k \in 1 .. Release[p] : k = Mig(p) + 1
          BY <1>2, <3>1, <3>5
        <4> HIDE DEF rest
        <4>2. rest = k .. Release[p] /\ rest # {}
          BY <1>2, <3>3, <4>1
        <4>3. k - 1 <= Top' /\ k .. Top' \subseteq versions'
          BY <1>2, <3>1, <3>2, <4>1
        <4>4. Planned(p, rest, versions', Top')
          BY <4>1, <4>2, <4>3 DEF Planned
        <4> QED
          BY <4>2, <4>4
      <3> QED
        BY <3>4, <3>5
    <2> QED
      BY <2>1, <2>2
  <1>5. /\ c \in Process
        /\ ProcOK(p, c, versions', Top')
        /\ c.step \notin {"record", "commit"}
    BY <1>2, <1>4, ContinueFacts
  <1> HIDE DEF c
  <1> QED
    BY <1>1, <1>5, ApplyStep

LEMMA LoseAnswerStep ==
    ASSUME IInv, NEW p \in Processes, LoseAnswer(p)
    PROVE  IInv'
  <1>1. Apply(p) /\ faults' \in 0 .. MaxFaults
    BY MigrationsAssumption DEF LoseAnswer, Faulty, IInv, TypeOK
  <1>2. PICK step \in {"table", "stopped", "version"} : proc' = [proc EXCEPT ![p] = At(step, {})]
    BY DEF LoseAnswer, Fail
  <1> DEFINE c == At(step, {})
  <1>3. c \in Process /\ ProcOK(p, c, versions', Top') /\ c.step \notin {"record", "commit"}
    BY FailFacts
  <1>4. proc' = [proc EXCEPT ![p] = c]
    BY <1>2
  <1> HIDE DEF c
  <1> QED
    BY <1>1, <1>3, <1>4, ApplyStep

LEMMA StepInv == IInv /\ [Next]_vars => IInv'
  <1> SUFFICES ASSUME IInv, [Next]_vars PROVE IInv'
    OBVIOUS
  <1>1. CASE UNCHANGED vars
    BY <1>1 DEF vars, IInv, TypeOK, TopInv, Top, SchemaMatchesVersion, ProcInv, AloneInv,
                InTransaction, Mig
  <1>2. ASSUME NEW p \in Processes,
               Start(p) \/ ScriptFails(p) \/ RecordFails(p) \/ Disconnect(p) \/ Crash(p)
               \/ Restart(p)
        PROVE  IInv'
    <2>1. UNCHANGED <<versions, schema>> /\ faults' \in 0 .. MaxFaults
      BY <1>2, MigrationsAssumption
         DEF Start, ScriptFails, RecordFails, Disconnect, Crash, Restart, Faulty, IInv, TypeOK
    <2>2. \E step \in {"table", "stopped", "version"} : proc' = [proc EXCEPT ![p] = At(step, {})]
      BY <1>2 DEF Start, ScriptFails, RecordFails, Disconnect, Crash, Restart, Fail
    <2> QED
      BY <2>1, <2>2, ResetStep
  <1>3. ASSUME NEW p \in Processes, CheckTable(p) PROVE IInv'
    <2>1. UNCHANGED <<versions, schema, faults>>
      BY <1>3 DEF CheckTable
    <2>2. CASE versions = {}
      <3>1. Top = -1
        BY <2>2 DEF IInv, TopInv
      <3> QED
        BY <1>3, <2>1, <2>2, <3>1, PlanStep DEF CheckTable
    <2>3. CASE versions # {}
      <3>1. proc' = [proc EXCEPT ![p] = At("version", {})] /\ faults' \in 0 .. MaxFaults
        BY <1>3, <2>1, <2>3 DEF CheckTable, IInv, TypeOK
      <3> QED
        BY <2>1, <3>1, ResetStep
    <2> QED
      BY <2>2, <2>3
  <1>4. ASSUME NEW p \in Processes, ReadVersion(p) PROVE IInv'
    BY <1>4, PlanStep DEF ReadVersion, Top
  <1> QED
    BY <1>1, <1>2, <1>3, <1>4, RunScriptStep, RecordVersionStep, CommitStep, LoseAnswerStep
       DEF Next, Work

------------------------------------------------------------------------------
(* Theorems                                                                *)

\* The invariant behind the others.
THEOREM Inductive == Spec => []IInv
  BY InitInv, StepInv, PTL DEF Spec

\* The variables keep their types; no migration beyond Latest is recorded.
THEOREM TypeCorrect == Spec => []TypeOK
  <1>1. IInv => TypeOK
    BY DEF IInv
  <1> QED
    BY <1>1, Inductive, PTL

\* The newest row of versions tells what the database has.
THEOREM SchemaMatches == Spec => []SchemaMatchesVersion
  <1>1. IInv => SchemaMatchesVersion
    BY DEF IInv
  <1> QED
    BY <1>1, Inductive, PTL

\* A process that got through Migrate finds its schema, now and later.
THEOREM WorksOnSchema == Spec => []WorksOnItsSchema
  <1>1. IInv => WorksOnItsSchema
    <2> SUFFICES ASSUME IInv, NEW p \in Processes, proc[p].step \in {"working", "done"}
                 PROVE  0 .. Release[p] \subseteq schema
      BY DEF WorksOnItsSchema
    <2>1. Release[p] <= Top /\ schema = 0 .. Top
      BY DEF IInv, ProcInv, ProcOK, SchemaMatchesVersion, Top
    <2>2. Release[p] \in 0 .. Latest /\ Latest \in Nat /\ Top \in -1 .. Latest
      BY MigrationsAssumption, TopType DEF IInv
    <2> QED
      BY <2>1, <2>2
  <1> QED
    BY <1>1, Inductive, PTL

LEMMA OrderStep == IInv /\ [Next]_vars => [Database!VersionNext]_Top
  <1> SUFFICES ASSUME IInv, [Next]_vars PROVE [Database!VersionNext]_Top
    OBVIOUS
  <1>1. ASSUME NEW p \in Processes, Apply(p) PROVE Database!VersionNext
    <2>1. /\ Top \in -1 .. Latest /\ Latest \in Nat /\ Top' = Recorded(p)
          /\ Recorded(p) \in 0 .. Latest
      BY <1>1, TopType, ApplyFacts, MigrationsAssumption DEF IInv, Versions
    <2>2. CASE Mig(p) = 0
      <3>1. Top = -1 /\ Top' = Release[p]
        BY <1>1, <2>2, ApplyFacts
      <3> QED
        BY <3>1 DEF Database!VersionNext, Database!Install, Top
    <2>3. CASE Mig(p) # 0
      <3>1. Top' = Top + 1 /\ versions # {}
        BY <1>1, <2>3, ApplyFacts
      <3>2. Top \in versions
        BY <3>1 DEF IInv, TopInv
      <3>3. Top \in 0 .. Latest - 1
        BY <2>1, <3>1, <3>2 DEF IInv, TypeOK, Versions
      <3> QED
        BY <3>1, <3>3 DEF Database!VersionNext, Database!Upgrade, Top
    <2> QED
      BY <2>2, <2>3
  <1>2. ASSUME UNCHANGED versions PROVE Top' = Top
    BY <1>2 DEF Top
  <1> QED
    BY <1>1, <1>2
       DEF Next, Work, vars, Start, CheckTable, ReadVersion, RunScript, RecordVersion, Commit,
           ScriptFails, RecordFails, Disconnect, LoseAnswer, Crash, Restart

\* Overlapping migrations look like one migrator that installs once and then goes up
\* version by version.
THEOREM InOrder == Spec => MigratesInOrder
  <1>1. Init => Database!VersionInit
    BY InitInv, TopType DEF IInv, Database!VersionInit, Top
  <1>2. IInv /\ [Next]_vars => [Database!VersionNext]_(Newest(versions))
    BY OrderStep DEF Top
  <1> QED
    BY <1>1, <1>2, Inductive, PTL DEF Spec, MigratesInOrder, Database!VersionSpec
==============================================================================
