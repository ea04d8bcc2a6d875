------------------------------- MODULE Startup -------------------------------
(***************************************************************************)
(* The life of a server process: Open with Migrate, EnsureJob, serving and *)
(* graceful shutdown (cmd/server/main.go, Store.Migrate), for several      *)
(* processes on one database file.  Nothing of a process outlives it but   *)
(* what it committed.                                                      *)
(***************************************************************************)
EXTENDS Integers, Tables

CONSTANTS
    Procs,      \* server processes that may run at once
    Latest,     \* the length of the list of migrations
    MaxFaults   \* bound: failed statements, kills and signals in a run

ASSUME StartupAssumption == Latest \in Nat \ {0} /\ MaxFaults \in Nat

VARIABLES
    ledger,  \* the rows of schema_migrations: version -> whose name it has
    schema,  \* the versions whose tables exist
    phase,   \* process -> where main is
    item,    \* process -> the migration its loop is at
    faults   \* faults so far

startupVars == << ledger, schema, phase, item, faults >>

Starting == {"looking", "applying", "writing", "counting"}
Up == {"serving", "draining"}
Phases == {"down"} \cup Starting \cup Up

(* A new database, one migrated by a newer build, one of another history.  *)
Databases == {EmptyTable, [i \in 1..(Latest + 1) |-> "own"],
              [i \in 1..Latest |-> "other"]}

StartupInit ==
    /\ ledger \in Databases
    /\ schema = DOMAIN ledger
    /\ phase = [p \in Procs |-> "down"]
    /\ item = [p \in Procs |-> 1]
    /\ faults = 0

Goto(p, next) == phase' = [phase EXCEPT ![p] = next]

(* main opens the store, and Migrate creates the ledger if there is none.  *)
Start(p) ==
    /\ phase[p] = "down"
    /\ Goto(p, "looking")
    /\ item' = [item EXCEPT ![p] = 1]
    /\ UNCHANGED << ledger, schema, faults >>

(* Faulty: any row for the version will do.                                *)
LookUpVersion(p) ==
    /\ phase[p] = "looking"
    /\ IF item[p] > Latest THEN Goto(p, "counting") /\ UNCHANGED item
       ELSE IF item[p] \notin DOMAIN ledger
       THEN Goto(p, "applying") /\ UNCHANGED item
       ELSE item' = [item EXCEPT ![p] = @ + 1] /\ UNCHANGED phase
    /\ UNCHANGED << ledger, schema, faults >>

(* The head of the loop: the row of the ledger is read outside any         *)
(* transaction; a row with another name ends the process.                  *)
LookUp(p) ==
    /\ phase[p] = "looking"
    /\ IF item[p] > Latest THEN Goto(p, "counting") /\ UNCHANGED item
       ELSE IF item[p] \notin DOMAIN ledger
       THEN Goto(p, "applying") /\ UNCHANGED item
       ELSE IF ledger[item[p]] = "own"
       THEN item' = [item EXCEPT ![p] = @ + 1] /\ UNCHANGED phase
       ELSE Goto(p, "down") /\ UNCHANGED item
    /\ UNCHANGED << ledger, schema, faults >>

(* Faulty: the loser of the race waits for the winner's tables to go.      *)
CreateTablesOrWait(p) ==
    /\ phase[p] = "applying"
    /\ \A q \in Procs : phase[q] # "writing"
    /\ item[p] \notin schema
    /\ Goto(p, "writing")
    /\ UNCHANGED << ledger, schema, item, faults >>

(* The first CREATE TABLE of the transaction waits for the lock.  If the   *)
(* other process was faster the table exists: an error, and main exits.    *)
CreateTables(p) ==
    /\ phase[p] = "applying"
    /\ \A q \in Procs : phase[q] # "writing"
    /\ Goto(p, IF item[p] \in schema THEN "down" ELSE "writing")
    /\ UNCHANGED << ledger, schema, item, faults >>

(* Tables and ledger row are committed together.                           *)
CommitMigration(p) ==
    /\ phase[p] = "writing"
    /\ schema' = schema \cup {item[p]}
    /\ ledger' = Insert(ledger, item[p], "own")
    /\ Goto(p, "looking")
    /\ item' = [item EXCEPT ![p] = @ + 1]
    /\ UNCHANGED faults

(* Future migrations end the process; else EnsureJob, and main serves.     *)
CheckFuture(p) ==
    /\ phase[p] = "counting"
    /\ Goto(p, IF \E i \in DOMAIN ledger : i > Latest THEN "down" ELSE "serving")
    /\ UNCHANGED << ledger, schema, item, faults >>

StartupStep(p) ==
    LookUp(p) \/ CreateTables(p) \/ CommitMigration(p) \/ CheckFuture(p)

(* A statement fails, waits too long for the lock or is cancelled by a     *)
(* signal while main starts, or the process is killed: an open transaction *)
(* is rolled back.                                                         *)
Exit(p) ==
    /\ phase[p] # "down"
    /\ faults < MaxFaults
    /\ faults' = faults + 1
    /\ Goto(p, "down")
    /\ UNCHANGED << ledger, schema, item >>

(* SIGTERM: Shutdown closes the listener and waits for the handlers.       *)
Signal(p) ==
    /\ phase[p] = "serving"
    /\ faults < MaxFaults
    /\ faults' = faults + 1
    /\ Goto(p, "draining")
    /\ UNCHANGED << ledger, schema, item >>

(* The last handler is done, or the deadline passes and main exits anyway. *)
Drained(p) ==
    /\ phase[p] = "draining"
    /\ Goto(p, "down")
    /\ UNCHANGED << ledger, schema, item, faults >>

StartupNext ==
    \E p \in Procs :
        Start(p) \/ StartupStep(p) \/ Exit(p) \/ Signal(p) \/ Drained(p)

-----------------------------------------------------------------------------
(* Processes have a phase, and only one of them writes.                    *)
StartupTypeOK ==
    /\ DOMAIN ledger \subseteq 1..(Latest + 1)
    /\ ledger \in [DOMAIN ledger -> {"own", "other"}]
    /\ phase \in [Procs -> Phases]
    /\ item \in [Procs -> 1..(Latest + 1)]
    /\ faults \in 0..MaxFaults
    /\ \A p, q \in Procs :
          (phase[p] = "writing" /\ phase[q] = "writing") => p = q

(* "The process applies ordered migrations before it starts accepting      *)
(* traffic": a process that serves, or still finishes requests, has all    *)
(* the tables of its own build and no others under it, and in no state has *)
(* the database tables without their ledger row, a row without tables, or  *)
(* a migration without those that come before it, however many processes   *)
(* start, race and die (Store.Migrate).                                    *)
ServesItsSchema ==
    /\ schema = DOMAIN ledger
    /\ \E n \in 0..(Latest + 1) : DOMAIN ledger = 1..n
    /\ \A p \in Procs :
          phase[p] \in Up => ledger = [i \in 1..Latest |-> "own"]
=============================================================================
