----------------------------- MODULE MCMigrations -----------------------------
(* Three migrations (0 to 2, as in the repository); a server and a migrate       *)
(* command of the newest release, a poller of the one before.                    *)
EXTENDS Migrations

CONSTANTS server, migrate, poller

MCProcesses == {server, migrate, poller}
MCCommand == [p \in Processes |->
    IF p = server THEN "serve" ELSE IF p = migrate THEN "migrate" ELSE "poll"]
MCRelease == [p \in Processes |-> IF p = poller THEN 1 ELSE 2]
==============================================================================
