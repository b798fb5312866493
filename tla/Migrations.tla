----------------------------- MODULE Migrations -----------------------------
(***************************************************************************)
(* Bringing the schema up to date.  The processes of a deployment run      *)
(* Migrate (pkg/database/migrations.go) when they start: the API servers   *)
(* and pollers before they begin their work, the `migrate` command as its  *)
(* only work, several times.  They may be builds of different releases     *)
(* (a rolling update), start at the same time, lose the database or crash  *)
(* between any two statements, and are started again by docker compose,    *)
(* systemd or Kubernetes.                                                  *)
(*                                                                         *)
(* versions and schema are the committed database.  What an open           *)
(* transaction did follows from its step and the migration it is at.       *)
(***************************************************************************)
EXTENDS Integers

CONSTANTS
    Processes,
    Command,      \* Command[p]: the subcommand p is started with
    Release,      \* Release[p]: the newest migration embedded in the build of p
    Latest,       \* the newest of them
    Slow,         \* migrations that run longer than SECURITYPORTAL_QUERY_TIMEOUT
    MaxFaults     \* bound on the losses of a connection, of an answer, of a process

ASSUME MigrationsAssumption ==
    /\ Latest \in Nat
    /\ Command \in [Processes -> {"migrate", "poll", "serve"}]
    /\ Release \in [Processes -> 0 .. Latest]
    /\ Slow \subseteq 1 .. Latest
    /\ MaxFaults \in Nat

VARIABLES
    versions,     \* rows of the table versions; the table exists when there is one
    schema,       \* the migrations whose objects and backfills the database has
    proc,         \* proc[p]: where p is in Migrate or after it
    faults

vars == <<versions, schema, proc, faults>>

Versions == 0 .. Latest

\* "table" and "version" are the two queries of currentVersion, "script" to "commit"
\* the statements of applyMigration; todo: migrations still to apply.
Process ==
    [ step : {"stopped", "table", "version", "script", "record", "commit", "working", "done"},
      todo : SUBSET Versions ]

At(step, todo) == [step |-> step, todo |-> todo]

TypeOK ==
    /\ versions \subseteq Versions
    /\ schema \subseteq Versions
    /\ proc \in [Processes -> Process]
    /\ faults \in 0 .. MaxFaults

\* coalesce(max(version), -1), and the first of a sorted list.
Newest(S) == IF S = {} THEN -1 ELSE CHOOSE v \in S : \A u \in S : u <= v
Oldest(S) == CHOOSE v \in S : \A u \in S : v <= u

\* Nothing is installed, or an earlier or newer release has installed its schema.
Init ==
    /\ \E v \in -1 .. Latest :
          /\ versions = IF v = -1 THEN {} ELSE {v}
          /\ schema = 0 .. v
    /\ proc = [p \in Processes |-> At("stopped", {})]
    /\ faults = 0

------------------------------------------------------------------------------
(* Migrate, up to the transactions                                         *)

\* What is to be applied to a database at version current: nothing, the setup script
\* alone, or every newer increment.  Variants: an installed database is left alone;
\* the increments are not compared with current.
PendingFresh(p, current) == IF current < 0 THEN {0} ELSE {}
PendingAll(p, current) ==
    IF current >= Release[p] THEN {} ELSE IF current < 0 THEN {0} ELSE 1 .. Release[p]
Pending(p, current) ==
    IF current >= Release[p] THEN {}
    ELSE IF current < 0 THEN {0}
    ELSE {v \in 1 .. Release[p] : v > current}

\* Where p goes when todo is what it still has to apply.
Continue(p, todo) ==
    IF todo # {} THEN At("script", todo)
    ELSE At(IF Command[p] = "migrate" THEN "done" ELSE "working", {})

Start(p) ==
    /\ proc[p].step = "stopped"
    /\ proc' = [proc EXCEPT ![p] = At("table", {})]
    /\ UNCHANGED <<versions, schema, faults>>

\* SELECT to_regclass('public.versions').
CheckTable(p) ==
    /\ proc[p].step = "table"
    /\ proc' = [proc EXCEPT ![p] =
                  IF versions = {} THEN Continue(p, Pending(p, -1)) ELSE At("version", {})]
    /\ UNCHANGED <<versions, schema, faults>>

\* SELECT max(version), and the plan, which is not looked at again.
ReadVersion(p) ==
    /\ proc[p].step = "version"
    /\ proc' = [proc EXCEPT ![p] = Continue(p, Pending(p, Newest(versions)))]
    /\ UNCHANGED <<versions, schema, faults>>

------------------------------------------------------------------------------
(* applyMigration                                                          *)

\* The migration that p is at: they are applied in ascending order.  Variant:
\* listMigrations does not sort.
MigUnsorted(p) == Newest(proc[p].todo)
Mig(p) == Oldest(proc[p].todo)

\* The setup script is recorded as the newest migration of its build.  Variants: as
\* itself; as the number of migrations.
RecordedAsRun(p) == Mig(p)
RecordedAsCount(p) == IF Mig(p) = 0 THEN Release[p] + 1 ELSE Mig(p)
Recorded(p) == IF Mig(p) = 0 THEN Release[p] ELSE Mig(p)

\* What the script of p brings: setup carries the increments of its build.
Effects(p) == IF Mig(p) = 0 THEN 0 .. Release[p] ELSE {Mig(p)}

InTransaction(p) == proc[p].step \in {"record", "commit"}

\* Another transaction has created the objects of the same script and holds their
\* catalog entries or table locks until it ends.
Blocked(p) == \E q \in Processes \ {p} : InTransaction(q) /\ Mig(q) = Mig(p)

\* `migrate` and `poll` open the pool without a statement timeout, `serve` with one.
TooSlow(p) == Command[p] = "serve" /\ Mig(p) \in Slow
TimedOut(p) == TooSlow(p) \/ (Command[p] = "serve" /\ Blocked(p))

\* CREATE TABLE versions fails on an installed database.
Exists(p) == Mig(p) = 0 /\ versions # {}

RunScript(p) ==
    /\ proc[p].step = "script"
    /\ ~Blocked(p)
    /\ ~Exists(p)
    /\ ~TooSlow(p)
    /\ proc' = [proc EXCEPT ![p].step = "record"]
    /\ UNCHANGED <<versions, schema, faults>>

\* INSERT INTO versions; version is the primary key.
RecordVersion(p) ==
    /\ proc[p].step = "record"
    /\ Recorded(p) \notin versions
    /\ proc' = [proc EXCEPT ![p].step = "commit"]
    /\ UNCHANGED <<versions, schema, faults>>

Apply(p) ==
    /\ proc[p].step = "commit"
    /\ versions' = versions \union {Recorded(p)}
    /\ schema' = schema \union Effects(p)

Commit(p) ==
    /\ Apply(p)
    /\ proc' = [proc EXCEPT ![p] = Continue(p, @.todo \ {Mig(p)})]
    /\ UNCHANGED faults

------------------------------------------------------------------------------
(* Failures                                                                *)

\* A failed Migrate is rolled back.  `migrate` tries again until its deadline and then
\* exits like the other commands.
Fail(p) ==
    \E step \in IF Command[p] = "migrate" THEN {"table", "stopped"} ELSE {"stopped"} :
        proc' = [proc EXCEPT ![p] = At(step, {})]

\* The script fails on what another process committed since currentVersion (also IF NOT
\* EXISTS does, after waiting for the other), or is cancelled by the statement timeout.
ScriptFails(p) ==
    /\ proc[p].step = "script"
    /\ Exists(p) \/ TimedOut(p) \/ (Recorded(p) \in versions /\ ~Blocked(p))
    /\ Fail(p)
    /\ UNCHANGED <<versions, schema, faults>>

\* The version is recorded already.
RecordFails(p) ==
    /\ proc[p].step = "record"
    /\ Recorded(p) \in versions
    /\ Fail(p)
    /\ UNCHANGED <<versions, schema, faults>>

Faulty == faults < MaxFaults /\ faults' = faults + 1

\* No connection, a connection lost, a cancelled context.
Disconnect(p) ==
    /\ proc[p].step \in {"table", "version", "script", "record", "commit"}
    /\ Faulty
    /\ Fail(p)
    /\ UNCHANGED <<versions, schema>>

\* The answer to COMMIT is lost.
LoseAnswer(p) ==
    /\ Apply(p)
    /\ Faulty
    /\ Fail(p)

\* The process dies in Migrate.
Crash(p) ==
    /\ proc[p].step \in {"table", "version", "script", "record", "commit"}
    /\ Faulty
    /\ proc' = [proc EXCEPT ![p] = At("stopped", {})]
    /\ UNCHANGED <<versions, schema>>

\* A process that is up stops, for whatever reason, or a finished command is run again.
Restart(p) ==
    /\ proc[p].step \in {"working", "done"}
    /\ proc' = [proc EXCEPT ![p] = At("stopped", {})]
    /\ UNCHANGED <<versions, schema, faults>>

Work(p) ==
    \/ Start(p)
    \/ CheckTable(p)
    \/ ReadVersion(p)
    \/ RunScript(p)
    \/ RecordVersion(p)
    \/ Commit(p)
    \/ ScriptFails(p)
    \/ RecordFails(p)

Next == \E p \in Processes : Work(p) \/ Disconnect(p) \/ LoseAnswer(p) \/ Crash(p) \/ Restart(p)

Spec == Init /\ [][Next]_vars

\* Processes are started again and their statements return.
FairSpec == Spec /\ \A p \in Processes : WF_vars(Work(p))

------------------------------------------------------------------------------
(* Properties                                                              *)

\* The recorded version tells what the database has: all of it up to there and nothing
\* beyond, although migrations overlap and stop half-way.
SchemaMatchesVersion == schema = 0 .. Newest(versions)

\* Nobody works on a schema older than the one its build was written for, in
\* whatever order processes and releases were started.
WorksOnItsSchema ==
    \A p \in Processes : proc[p].step \in {"working", "done"} => 0 .. Release[p] \subseteq schema

Database == INSTANCE SchemaVersion WITH
    version <- Newest(versions), Releases <- {Release[p] : p \in Processes}

\* The database is installed once and then upgraded version by version, as if one
\* process at a time migrated it.
MigratesInOrder == Database!VersionSpec

\* Every process that is started comes up, also the one that lost a race for the same
\* migration, once nothing fails any more.
ComesUp ==
    \A p \in Processes : proc[p].step = "stopped" ~> proc[p].step \in {"working", "done"}
==============================================================================
