------------------------------ MODULE Startup ------------------------------
(***************************************************************************)
(* How a process of the controller gets its database (controller/src/db.rs)*)
(* and how it ends.  Every command that works on the data starts the same  *)
(* way: look whether the database exists, create it when it does not, run  *)
(* the migrations, connect.  Several processes do so at the same time, on  *)
(* a server that may not have the database yet.  A process that fails      *)
(* exits, and the platform, or whoever ran the command, starts it again.   *)
(***************************************************************************)
EXTENDS Naturals

CONSTANTS Procs,      \* processes of the controller
          MaxCrashes  \* bound: how often processes are killed

ASSUME MaxCrashesAssumption == MaxCrashes \in Nat

VARIABLES database,   \* pg_database has the database
          schema,     \* the migrations have been applied
          pc,         \* what a process is about to do
          crashes     \* how often a process has been killed

startupVars == <<database, schema, pc, crashes>>

Starting == {"down", "exists", "create", "migrate"}

GoTo(p, step) == pc' = [pc EXCEPT ![p] = step]

Start(p) ==
    /\ pc[p] = "down"
    /\ GoTo(p, "exists")
    /\ UNCHANGED <<database, schema, crashes>>

\* SELECT EXISTS(... pg_database ...): the answer is used a statement later.
NeverFinds(p) ==
    /\ pc[p] = "exists"
    /\ GoTo(p, "create")
    /\ UNCHANGED <<database, schema, crashes>>
CheckExists(p) ==
    /\ pc[p] = "exists"
    /\ GoTo(p, IF database THEN "migrate" ELSE "create")
    /\ UNCHANGED <<database, schema, crashes>>

\* CREATE DATABASE fails when another process was faster, and the process
\* exits with the error.
CreateDatabase(p) ==
    /\ pc[p] = "create"
    /\ database' = TRUE
    /\ GoTo(p, IF database THEN "down" ELSE "migrate")
    /\ UNCHANGED <<schema, crashes>>

\* The migrator holds an advisory lock: a second one finds nothing to do.
RunMigrations(p, ready) ==
    /\ pc[p] = "migrate"
    /\ schema' = TRUE
    /\ GoTo(p, ready)
    /\ UNCHANGED <<database, crashes>>

Crash(p) ==
    /\ pc[p] \notin {"down", "done"}
    /\ crashes < MaxCrashes
    /\ crashes' = crashes + 1
    /\ GoTo(p, "down")
    /\ UNCHANGED <<database, schema>>
=============================================================================
