---------------------------- MODULE SchemaVersion ----------------------------
(***************************************************************************)
(* What migrations promise: a database is installed once, at the schema of *)
(* some release, and then moves up one version at a time.                  *)
(***************************************************************************)
EXTENDS Integers

CONSTANTS
    Latest,       \* the newest migration of any release that is run
    Releases      \* newest migrations of the releases that are run

VARIABLE version  \* what the database is at, -1 before it is installed

VersionInit == version \in -1 .. Latest

Install(r) == version = -1 /\ version' = r

Upgrade == version \in 0 .. Latest - 1 /\ version' = version + 1

VersionNext == Upgrade \/ \E r \in Releases : Install(r)

VersionSpec == VersionInit /\ [][VersionNext]_version
==============================================================================
