------------------------------- MODULE StoreTx -------------------------------
(***************************************************************************)
(* The requests of TrialService run concurrently, each inside Store.InTx   *)
(* on a connection of its own, against SQLite in WAL mode.                 *)
(*                                                                         *)
(* BeginTx opens a DEFERRED transaction.  Its first SELECT fixes a         *)
(* snapshot; its first write asks for the one write lock.  A connection    *)
(* that already reads gets SQLITE_BUSY at once if another one holds the    *)
(* lock (busy_timeout does not apply: waiting could deadlock), and         *)
(* SQLITE_BUSY_SNAPSHOT if another one committed after the snapshot.  Both *)
(* reach the handler as an error of the statement that writes.             *)
(*                                                                         *)
(* Instead of a copy of the tables a transaction keeps the flag `stale':   *)
(* while it is FALSE the snapshot equals the committed tables, and once it *)
(* is TRUE the transaction can no longer write.  The writes become visible *)
(* at Commit.  The writer has read all it needs by then: what a handler    *)
(* reads after its first write it reads from its own writes.               *)
(***************************************************************************)
EXTENDS TrialService

CONSTANTS
    Clients,   \* requests in flight at once; at most 8 connections
    Elsewhere  \* whether the job queue and the sessions are written as well

ASSUME ElsewhereAssumption == Elsewhere \in BOOLEAN

VARIABLES
    stage,    \* what the transaction of a client has done so far
    request,  \* the client's request in flight
    stale,    \* whether a commit has overtaken the client's snapshot
    outcome   \* how the client's last request was answered

txVars == << stage, request, stale, outcome >>
allVars == << systemVars, txVars >>

Stages == {"idle", "reading", "writing"}
Outcomes == {"none", "ok", "conflict", "internal", "canceled"}

Requests ==
    [op : {"draft"}, actor : Users, review : Reviews, vessel : Vessels]
    \cup
    [op : {"submit"}, actor : Users, review : Reviews,
     key : Keys \cup {NoKey}, version : Versions]
    \cup
    [op : {"decide"}, actor : Users, review : Reviews,
     decision : Decisions, version : Versions]
    \cup
    [op : {"plan"}, actor : Users, plan : Plans, review : Reviews,
     vessel : Vessels, name : PlanNames]
    \cup
    [op : {"leg"}, actor : Users, leg : Legs, plan : Plans,
     name : LegNames, window : Windows]
    \cup
    [op : {"schedule"}, actor : Users, plan : Plans, version : Versions]
    \cup
    [op : {"release", "complete"}, actor : Users, leg : Legs,
     version : Versions]
    \cup
    [op : {"defect"}, actor : Staff, defect : Defects, vessel : Vessels,
     leg : LegRefs, code : Codes]
    \cup
    [op : {"transition"}, actor : Staff, defect : Defects,
     target : Targets, version : Versions]
    \cup
    [op : {"batch"}, actor : Staff, batch : Batches, vessel : Vessels,
     number : BatchNumbers]
    \cup
    [op : {"gate"}, actor : Staff, batch : Batches, release : BOOLEAN,
     version : Versions]
    \cup
    [op : {"sample"}, actor : Staff, vessel : Vessels, station : Stations,
     sequence : Sequences, leg : LegRefs, received : Times]

NoRequest == [op |-> "none"]

(* What the handler of a request reads and refuses on.                     *)
Check(q) ==
    CASE q.op = "draft"    -> CreateReviewCheck(q.actor, q.review, q.vessel)
      [] q.op = "submit"   -> SubmitCheck(q.actor, q.review, q.key)
      [] q.op = "decide"   -> DecideCheck(q.actor, q.review, q.decision)
      [] q.op = "plan"     -> CreatePlanCheck(q.actor, q.plan, q.review, q.vessel)
      [] q.op = "leg"      -> AddLegCheck(q.actor, q.leg, q.plan, q.window)
      [] q.op = "schedule" -> ScheduleCheck(q.actor, q.plan)
      [] q.op = "release"  -> ReleaseCheck(q.actor, q.leg)
      [] q.op = "complete" -> CompleteCheck(q.actor, q.leg)
      [] q.op = "defect"   ->
            CreateDefectCheck(q.actor, q.defect, q.vessel, q.leg)
      [] q.op = "transition" -> TransitionCheck(q.actor, q.defect, q.target)
      [] q.op = "batch"    -> CreateBatchCheck(q.actor, q.batch, q.vessel)
      [] q.op = "gate"     -> GateCheck(q.actor, q.batch)
      [] q.op = "sample"   ->
            IngestCheck(q.actor, q.vessel, q.station, q.leg, q.received)
      [] OTHER             -> FALSE

(* The WHERE of its UPDATE matches, the constraints accept its INSERTs.    *)
Accepted(q) ==
    CASE q.op = "submit"   -> /\ class_reviews[q.review].version = q.version
                              /\ q.key = NoKey \/ KeyUnused(q.actor, q.key)
      [] q.op = "decide"   -> class_reviews[q.review].version = q.version
      [] q.op = "plan"     -> PlanNameFree(q.vessel, q.name)
      [] q.op = "leg"      -> LegInsertable(q.plan, q.name, q.window)
      [] q.op = "schedule" -> trial_plans[q.plan].version = q.version
      [] q.op \in {"release", "complete"} ->
                              voyage_legs[q.leg].version = q.version
      [] q.op = "defect"   -> CodeFree(q.vessel, q.code)
      [] q.op = "transition" -> /\ defects[q.defect].version = q.version
                                /\ q.target \in DefectStatus
      [] q.op = "batch"    -> BatchNumberFree(q.number)
      [] q.op = "gate"     -> delivery_batches[q.batch].version = q.version
      [] q.op = "sample"   -> SequenceFree(q.vessel, q.station, q.sequence)
      [] OTHER             -> TRUE

(* What the request writes.                                                *)
ReviewWrite(q) ==
    \/ q.op = "draft" /\ CreateReviewWrite(q.actor, q.review, q.vessel)
    \/ q.op = "submit" /\ SubmitWrite(q.actor, q.review, q.key, q.version)
    \/ q.op = "decide" /\ DecideWrite(q.actor, q.review, q.decision, q.version)

PlanWrite(q) ==
    \/ q.op = "plan" /\ CreatePlanWrite(q.plan, q.review, q.vessel, q.name)
    \/ q.op = "leg" /\ AddLegWrite(q.leg, q.plan, q.name, q.window)
    \/ q.op = "schedule" /\ ScheduleWrite(q.plan, q.version)
    \/ q.op = "release" /\ ReleaseWrite(q.leg, q.version)
    \/ q.op = "complete" /\ CompleteWrite(q.leg, q.version)

DefectWrite(q) ==
    \/ /\ q.op = "defect"
       /\ CreateDefectWrite(q.actor, q.defect, q.vessel, q.leg, q.code)
    \/ /\ q.op = "transition"
       /\ TransitionWrite(q.actor, q.defect, q.target, q.version)

BatchWrite(q) ==
    \/ q.op = "batch" /\ CreateBatchWrite(q.batch, q.vessel, q.number)
    \/ q.op = "gate" /\ GateWrite(q.actor, q.batch, q.release, q.version)

SampleWrite(q) ==
    /\ q.op = "sample"
    /\ IngestWrite(q.vessel, q.station, q.sequence, q.leg, q.received)

Write(q) ==
    \/ /\ ReviewWrite(q)
       /\ UNCHANGED << planVars, defectVars, batchVars, telemetryVars >>
    \/ /\ PlanWrite(q)
       /\ UNCHANGED << reviewVars, defectVars, batchVars, telemetryVars >>
    \/ DefectWrite(q) /\ UNCHANGED << vars, batchVars, telemetryVars >>
    \/ BatchWrite(q) /\ UNCHANGED << vars, defectVars, telemetryVars >>
    \/ SampleWrite(q) /\ UNCHANGED << vars, defectVars, batchVars >>

-----------------------------------------------------------------------------
TxInit ==
    /\ SystemInit
    /\ stage = [c \in Clients |-> "idle"]
    /\ request = [c \in Clients |-> NoRequest]
    /\ stale = [c \in Clients |-> FALSE]
    /\ outcome = [c \in Clients |-> "none"]

LockFree == \A c \in Clients : stage[c] # "writing"

Answer(c, kind) ==
    /\ stage' = [stage EXCEPT ![c] = "idle"]
    /\ request' = [request EXCEPT ![c] = NoRequest]
    /\ outcome' = [outcome EXCEPT ![c] = kind]

Forget(c) == stale' = [stale EXCEPT ![c] = FALSE]

(* Faulty: the checks are left to the conditional UPDATE.                  *)
BeginUnchecked(c, q) ==
    /\ stage[c] = "idle"
    /\ stage' = [stage EXCEPT ![c] = "reading"]
    /\ request' = [request EXCEPT ![c] = q]
    /\ outcome' = [outcome EXCEPT ![c] = "none"]
    /\ UNCHANGED << systemVars, stale >>

(* BEGIN and the SELECTs: they all see the tables of this moment.  If a    *)
(* check fails the handler answers at once and leaves nothing behind.      *)
Begin(c, q) ==
    /\ stage[c] = "idle"
    /\ Check(q)
    /\ stage' = [stage EXCEPT ![c] = "reading"]
    /\ request' = [request EXCEPT ![c] = q]
    /\ outcome' = [outcome EXCEPT ![c] = "none"]
    /\ UNCHANGED << systemVars, stale >>

(* Faulty: the checks are not read in the transaction that writes, so that *)
(* an old reading may be followed by a write; no lock is taken.            *)
FirstWriteOnOld(c) ==
    /\ stage[c] = "reading"
    /\ LockFree
    /\ stage' = [stage EXCEPT ![c] = "writing"]
    /\ UNCHANGED << systemVars, request, stale, outcome >>

FirstWriteUnlocked(c) ==
    /\ stage[c] = "reading"
    /\ ~ stale[c]
    /\ Accepted(request[c])
    /\ stage' = [stage EXCEPT ![c] = "writing"]
    /\ UNCHANGED << systemVars, request, stale, outcome >>

(* The first write gets the lock.  If it matches no row or breaks a        *)
(* constraint the handler returns an error and InTx rolls back: a conflict *)
(* except for the UNIQUE constraint of an idempotency key and the CHECK on *)
(* the status of a defect.                                                 *)
Rejection(q) ==
    IF \/ q.op = "submit" /\ class_reviews[q.review].version = q.version
       \/ q.op = "transition" /\ defects[q.defect].version = q.version
    THEN "internal" ELSE "conflict"

FirstWrite(c) ==
    /\ stage[c] = "reading"
    /\ LockFree
    /\ ~ stale[c]
    /\ \/ /\ Accepted(request[c])
          /\ stage' = [stage EXCEPT ![c] = "writing"]
          /\ UNCHANGED << request, outcome >>
       \/ /\ ~ Accepted(request[c])
          /\ Answer(c, Rejection(request[c]))
    /\ UNCHANGED << systemVars, stale >>

(* Faulty: a lost snapshot is not reported.                                *)
BusyLockOnly(c) ==
    /\ stage[c] = "reading"
    /\ ~ LockFree
    /\ Answer(c, "conflict")
    /\ Forget(c)
    /\ UNCHANGED systemVars

(* The first write gets SQLITE_BUSY.  The handlers whose first write is an *)
(* INSERT that may break a UNIQUE constraint answer every failure of it as *)
(* a conflict; the other ones pass the error on, and the API answers it as *)
(* an internal error.                                                      *)
InsertsFirst == {"plan", "leg", "defect", "batch", "sample"}

Busy(c) ==
    /\ stage[c] = "reading"
    /\ stale[c] \/ ~ LockFree
    /\ Answer(c, IF request[c].op \in InsertsFirst THEN "conflict"
                 ELSE "internal")
    /\ Forget(c)
    /\ UNCHANGED systemVars

(* Every snapshot that is open now is overtaken.                           *)
Overtake ==
    stale' = [c \in Clients |-> stage[c] = "reading"]

Commit(c) ==
    /\ stage[c] = "writing"
    /\ Write(request[c])
    /\ Answer(c, "ok")
    /\ Overtake

(* Faulty: the idempotency key is recorded outside the transaction.        *)
CancelKeepsKey(c) ==
    /\ stage[c] = "writing"
    /\ request[c].op = "submit"
    /\ request[c].key # NoKey
    /\ idempotency_keys' = Insert(idempotency_keys,
           << request[c].actor, request[c].key >>,
           [review |-> request[c].review, live |-> TRUE])
    /\ Answer(c, "canceled")
    /\ Overtake
    /\ UNCHANGED << vessels, class_reviews, review_decisions, review_audit,
                    replies, planVars, defectVars, batchVars, telemetryVars >>

(* The request's context ends before COMMIT: InTx rolls back.              *)
Cancel(c) ==
    /\ stage[c] # "idle"
    /\ Answer(c, "canceled")
    /\ Forget(c)
    /\ UNCHANGED systemVars

(* The process dies, and the staleness check that it runs, if it does, with*)
(* it: SQLite forgets every open transaction and keeps what was committed. *)
Crash ==
    /\ stage' = [c \in Clients |-> "idle"]
    /\ request' = [c \in Clients |-> NoRequest]
    /\ stale' = [c \in Clients |-> FALSE]
    /\ outcome' = [c \in Clients |-> "none"]
    /\ IF check.status = "running" THEN CheckStranded
       ELSE UNCHANGED telemetryVars
    /\ UNCHANGED << vars, defectVars, batchVars >>

(* CreateVessel, CreateStation and MarkStaleStations are one autocommitted *)
(* statement each: they hold no snapshot, so they wait for the lock.  So do*)
(* the writes that settle the check; its claim is a transaction whose two  *)
(* statements are one step here (WorkerJobs takes it apart).               *)
Autocommit ==
    /\ LockFree
    /\ \/ \E actor \in Users, v \in Vessels :
             /\ RegisterVessel(actor, v)
             /\ UNCHANGED << planVars, telemetryVars >>
       \/ /\ \/ \E actor \in Staff, s \in Stations : RegisterStation(actor, s)
             \/ MarkStaleStations \/ CheckCommits
          /\ UNCHANGED vars
    /\ Overtake
    /\ UNCHANGED << defectVars, batchVars, stage, request, outcome >>

(* The job queue or the sessions are written.  The lock and the snapshots  *)
(* are those of the whole database.                                        *)
CommitElsewhere ==
    /\ Elsewhere
    /\ LockFree
    /\ Overtake
    /\ UNCHANGED << systemVars, stage, request, outcome >>

(* A replayed submission only reads; the clock passes expires_at, or goes  *)
(* on; a write that should settle the staleness check fails.               *)
ReadOrClock ==
    /\ \/ \E actor \in Users, k \in Keys :
             /\ ReplaySubmit(actor, k) \/ KeyExpires(actor, k)
             /\ UNCHANGED << planVars, telemetryVars >>
       \/ (CheckStranded \/ Tick) /\ UNCHANGED vars
    /\ UNCHANGED << defectVars, batchVars, txVars >>

TxNext ==
    \/ \E c \in Clients :
          \/ \E q \in Requests : Begin(c, q)
          \/ FirstWrite(c)
          \/ Busy(c)
          \/ Commit(c)
          \/ Cancel(c)
    \/ Crash
    \/ Autocommit
    \/ CommitElsewhere
    \/ ReadOrClock

(* A handler that runs goes on until it has answered.                      *)
TxFairness ==
    \A c \in Clients : WF_allVars(FirstWrite(c) \/ Busy(c) \/ Commit(c))

TxSpec == TxInit /\ [][TxNext]_allVars /\ TxFairness

-----------------------------------------------------------------------------
(* Transactions have a stage, at most one writes, and an open transaction  *)
(* has a request.                                                          *)
TxTypeOK ==
    /\ SystemTypeOK
    /\ stage \in [Clients -> Stages]
    /\ request \in [Clients -> Requests \cup {NoRequest}]
    /\ stale \in [Clients -> BOOLEAN]
    /\ outcome \in [Clients -> Outcomes]
    /\ \A c \in Clients : stage[c] # "idle" => request[c] \in Requests
    /\ \A c, d \in Clients :
          (stage[c] = "writing" /\ stage[d] = "writing") => c = d

(* A decision made on an old reading never reaches the tables: whoever     *)
(* still may write, and the one who writes, would pass its checks again    *)
(* on the tables as they are now (InTx on a WAL snapshot).                 *)
ChecksStillHold ==
    \A c \in Clients :
        \/ stage[c] = "idle"
        \/ stage[c] = "reading" /\ stale[c]
        \/ /\ Check(request[c])
           /\ stage[c] = "writing" => Accepted(request[c])

(* The transactions are serializable: seen through the tables, any         *)
(* concurrent execution, with cancellations and crashes, is one of         *)
(* TrialService, where each request is a single step.                      *)
Serializable == SystemSpec

(* A request that has begun is answered: since a busy lock is an error and *)
(* not a wait, no two transactions wait for each other.                    *)
RequestsAnswered ==
    \A c \in Clients : stage[c] # "idle" ~> stage[c] = "idle"

(* What TestConcurrentReleaseAllowsOnlyOneOverlappingLeg asks of           *)
(* concurrent releases: each one succeeds or is told of a conflict.        *)
ReleaseOkOrConflict ==
    [][\A c \in Clients :
          (request[c].op = "release" /\ stage'[c] = "idle") =>
              outcome'[c] # "internal"]_allVars
=============================================================================
