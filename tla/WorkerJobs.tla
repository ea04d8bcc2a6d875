------------------------------ MODULE WorkerJobs ------------------------------
(***************************************************************************)
(* The durable job queue (internal/storage/sqlite/jobs.go), the worker     *)
(* that serves it (internal/worker/worker.go) and the start of the server  *)
(* that ensures its periodic job (cmd/server/main.go).                     *)
(*                                                                         *)
(* Time is relative: `wait' is how many ticks available_at lies ahead;     *)
(* what has passed is zero or less and keeps only its order.  `lease' is   *)
(* what is left of locked_until, NoLease when the column is NULL.  A tick  *)
(* is coarse: a transaction's lease and instants count from its UPDATE.    *)
(*                                                                         *)
(* Each statement is one step; between two of them the server may stop: a  *)
(* crash, or SIGTERM, which cancels the context of every storage call.     *)
(* ClaimJob and FailJob are deferred transactions, a SELECT and an UPDATE  *)
(* (StoreTx has the general case): a commit in between, by anyone on the   *)
(* database, puts the snapshot `behind' and the UPDATE fails; as long as   *)
(* none comes in between, the snapshot is the table as it is.              *)
(***************************************************************************)
EXTENDS Integers, FiniteSets, Tables

CONSTANTS
    MaxJobs,      \* bound: rows of worker_jobs
    MaxEnqueued,  \* bound: rows that EnsureJob did not insert
    Procs,        \* server processes on one database, one worker each
    MaxAttempts,  \* max_attempts of every job
    Lease,        \* ticks of a lease
    Interval,     \* ticks to the next run of the periodic job
    MaxBackoff,   \* cap of the backoff
    MaxWait,      \* how far ahead a job may be enqueued
    MaxFaults     \* bound: crashes, failed writes, commits elsewhere

ASSUME JobsAssumption ==
    /\ IsFiniteSet(Procs)
    /\ MaxAttempts \in Nat \ {0}
    /\ {MaxJobs, MaxEnqueued, Lease, Interval, MaxBackoff, MaxWait, MaxFaults}
          \subseteq Nat

VARIABLES
    worker_jobs,  \* job id -> row
    pc,           \* where each worker is
    held,         \* the job it selected last
    behind,       \* workers in a transaction whose snapshot is overtaken
    faults        \* crashes, failed writes and commits elsewhere so far

jobVars == << worker_jobs, pc, held, behind, faults >>

Jobs == 1..MaxJobs
NoLease == -1
NoJob == -1

(* telemetry_staleness_check, the periodic job; delivery_gate_recheck; and *)
(* any kind the worker does not know.                                      *)
Kinds == {"check", "recheck", "unknown"}
JobStatus == {"pending", "running", "retry", "succeeded", "failed"}
Waits == (0 - MaxJobs)..(MaxWait + Interval + MaxBackoff)
JobRow == [kind : Kinds, status : JobStatus, attempts : 0..MaxAttempts,
           wait : Waits, lease : NoLease..Lease]
Stages == {"down", "ensuring", "polling", "claiming", "executing",
           "succeeded", "failed", "failing"}

-----------------------------------------------------------------------------
JobsInit ==
    /\ worker_jobs = EmptyTable
    /\ pc = [w \in Procs |-> "down"]
    /\ held = [w \in Procs |-> NoJob]
    /\ behind = {}
    /\ faults = 0

Goto(w, stage) == pc' = [pc EXCEPT ![w] = stage]

(* Workers between the SELECT and the UPDATE of a transaction.             *)
InTx == {w \in Procs : pc[w] \in {"claiming", "failing"}}

(* A commit leaves every open snapshot behind.                             *)
Overtake(others) == behind' = others

(* Ids are handed out in increasing order and rows are never deleted.      *)
NextId == Cardinality(DOMAIN worker_jobs) + 1

Enqueue(kind, wait) ==
    /\ NextId \in Jobs
    /\ worker_jobs' = Insert(worker_jobs, NextId,
           [kind |-> kind, status |-> "pending", attempts |-> 0,
            wait |-> wait, lease |-> NoLease])

(* EnqueueJob by anyone.                                                   *)
EnqueueJob(kind, wait) ==
    /\ Cardinality({j \in DOMAIN worker_jobs : worker_jobs[j].kind # "check"})
          < MaxEnqueued
    /\ Enqueue(kind, wait)
    /\ Overtake(InTx)
    /\ UNCHANGED << pc, held, faults >>

LiveStatus == {"pending", "running", "retry"}

(* Faulty: a job that is being run is not counted.                         *)
CountWaiting(w) ==
    /\ pc[w] = "down"
    /\ Goto(w, IF \E j \in DOMAIN worker_jobs :
                     /\ worker_jobs[j].kind = "check"
                     /\ worker_jobs[j].status \in {"pending", "retry"}
               THEN "polling" ELSE "ensuring")
    /\ UNCHANGED << worker_jobs, held, behind, faults >>

(* EnsureJob first counts the live jobs of its kind ...                    *)
CountLive(w) ==
    /\ pc[w] = "down"
    /\ Goto(w, IF \E j \in DOMAIN worker_jobs :
                     /\ worker_jobs[j].kind = "check"
                     /\ worker_jobs[j].status \in LiveStatus
               THEN "polling" ELSE "ensuring")
    /\ UNCHANGED << worker_jobs, held, behind, faults >>

(* ... and then, in a statement of its own, inserts one if it found none.  *)
EnsureJob(w) ==
    /\ pc[w] = "ensuring"
    /\ Enqueue("check", 0)
    /\ Overtake(InTx)
    /\ Goto(w, "polling")
    /\ UNCHANGED << held, faults >>

Waiting(j) == worker_jobs[j].status \in {"pending", "retry"}

Claimable(j) ==
    /\ Waiting(j)
    /\ worker_jobs[j].wait <= 0
    /\ worker_jobs[j].lease \in {NoLease, 0}

(* Faulty: ORDER BY id only.                                               *)
FirstById(j) ==
    /\ Claimable(j)
    /\ \A k \in DOMAIN worker_jobs : Claimable(k) => j <= k

(* ORDER BY available_at, id LIMIT 1.                                      *)
First(j) ==
    /\ Claimable(j)
    /\ \A k \in DOMAIN worker_jobs : Claimable(k) =>
          \/ worker_jobs[j].wait < worker_jobs[k].wait
          \/ worker_jobs[j].wait = worker_jobs[k].wait /\ j <= k

(* ClaimJob's SELECT; when there is nothing to claim, the cycle ends.      *)
SelectJob(w) ==
    /\ pc[w] = "polling"
    /\ \E j \in DOMAIN worker_jobs :
          First(j) /\ held' = [held EXCEPT ![w] = j]
    /\ Goto(w, "claiming")
    /\ UNCHANGED << worker_jobs, behind, faults >>

Claimed(j) ==
    [worker_jobs EXCEPT ![j] = [worker_jobs[j] EXCEPT
        !.status = "running", !.attempts = @ + 1, !.lease = Lease]]

(* Faulty: SELECT and UPDATE by id, without a transaction around them.     *)
ClaimUnprotected(w) ==
    /\ pc[w] = "claiming"
    /\ worker_jobs' = Claimed(held[w])
    /\ Goto(w, "executing")
    /\ Overtake(InTx \ {w})
    /\ UNCHANGED << held, faults >>

(* The UPDATE; the status it asks for again has changed with a commit only.*)
ClaimJob(w) ==
    /\ pc[w] = "claiming" /\ w \notin behind
    /\ IF Waiting(held[w])
       THEN worker_jobs' = Claimed(held[w]) /\ Goto(w, "executing")
       ELSE UNCHANGED worker_jobs /\ Goto(w, "polling")
    /\ Overtake(InTx \ {w})
    /\ UNCHANGED << held, faults >>

(* The check may fail (its UPDATE or its payload), the recheck does        *)
(* nothing, an unknown kind is an error.                                   *)
Results(kind) ==
    CASE kind = "check"   -> {"succeeded", "failed"}
      [] kind = "recheck" -> {"succeeded"}
      [] kind = "unknown" -> {"failed"}

Execute(w) ==
    /\ pc[w] = "executing"
    /\ \E result \in Results(worker_jobs[held[w]].kind) : Goto(w, result)
    /\ UNCHANGED << worker_jobs, held, behind, faults >>

(* RescheduleJob, CompleteJob and FailJob change a running job and refuse  *)
(* any other; either way the worker polls again.                           *)
Settle(w, row) ==
    /\ worker_jobs' =
          IF worker_jobs[held[w]].status = "running"
          THEN [worker_jobs EXCEPT ![held[w]] = row]
          ELSE worker_jobs
    /\ Goto(w, "polling")
    /\ Overtake(InTx \ {w})
    /\ UNCHANGED << held, faults >>

(* Faulty: keeps the lease; reschedules every kind; completes the check.   *)
RescheduleLeased(w) ==
    /\ pc[w] = "succeeded"
    /\ worker_jobs[held[w]].kind = "check"
    /\ Settle(w, [worker_jobs[held[w]] EXCEPT !.status = "pending",
                     !.attempts = 0, !.wait = Interval])

RescheduleAll(w) ==
    /\ pc[w] = "succeeded"
    /\ Settle(w, [worker_jobs[held[w]] EXCEPT !.status = "pending",
                     !.attempts = 0, !.wait = Interval, !.lease = NoLease])

RescheduleNot(w) ==
    /\ pc[w] = "succeeded"
    /\ worker_jobs[held[w]].kind = "check"
    /\ Settle(w, [worker_jobs[held[w]] EXCEPT !.status = "succeeded",
                     !.lease = NoLease])

RescheduleJob(w) ==
    /\ pc[w] = "succeeded"
    /\ worker_jobs[held[w]].kind = "check"
    /\ Settle(w, [worker_jobs[held[w]] EXCEPT !.status = "pending",
                     !.attempts = 0, !.wait = Interval, !.lease = NoLease])

CompleteJob(w) ==
    /\ pc[w] = "succeeded"
    /\ worker_jobs[held[w]].kind # "check"
    /\ Settle(w, [worker_jobs[held[w]] EXCEPT !.status = "succeeded",
                     !.lease = NoLease])

(* One second, doubled with each further attempt, up to the cap.           *)
Backoff(attempts) ==
    LET doubled == << 1, 2, 4, 8, 16, 32, 64 >>
                       [IF attempts < 7 THEN attempts ELSE 7]
    IN  IF doubled > MaxBackoff THEN MaxBackoff ELSE doubled

(* FailJob's SELECT.                                                       *)
ReadFailed(w) ==
    /\ pc[w] = "failed"
    /\ Goto(w, "failing")
    /\ UNCHANGED << worker_jobs, held, behind, faults >>

(* Faulty: one attempt too many.                                           *)
FailJobLate(w) ==
    /\ pc[w] = "failing" /\ w \notin behind
    /\ LET row == worker_jobs[held[w]]
       IN  Settle(w, [row EXCEPT
               !.status = IF row.attempts > MaxAttempts
                          THEN "failed" ELSE "retry",
               !.wait = Backoff(row.attempts),
               !.lease = NoLease])

(* FailJob's UPDATE, by what it has read on a snapshot that is current.    *)
FailJob(w) ==
    /\ pc[w] = "failing" /\ w \notin behind
    /\ LET row == worker_jobs[held[w]]
       IN  Settle(w, [row EXCEPT
               !.status = IF row.attempts >= MaxAttempts
                          THEN "failed" ELSE "retry",
               !.wait = Backoff(row.attempts),
               !.lease = NoLease])

(* The UPDATE of a transaction that was overtaken gets SQLITE_BUSY: the    *)
(* claim is tried again with the next tick, but a failed job is left       *)
(* running, with nobody to run it.                                         *)
Busy(w) ==
    /\ w \in behind
    /\ behind' = behind \ {w}
    /\ Goto(w, "polling")
    /\ UNCHANGED << worker_jobs, held, faults >>

Fault == faults < MaxFaults /\ faults' = faults + 1

(* A write returns an error of another kind.                               *)
WriteFails(w) ==
    /\ pc[w] \in {"claiming", "succeeded", "failed", "failing"}
    /\ Fault
    /\ behind' = behind \ {w}
    /\ Goto(w, "polling")
    /\ UNCHANGED << worker_jobs, held >>

(* A crash, or SIGTERM: the job table stays as it is.                      *)
Stop(w) ==
    /\ pc[w] # "down"
    /\ Fault
    /\ behind' = behind \ {w}
    /\ Goto(w, "down")
    /\ UNCHANGED << worker_jobs, held >>

(* A request commits to some other table.                                  *)
CommitElsewhere ==
    /\ InTx # {}
    /\ Fault
    /\ Overtake(InTx)
    /\ UNCHANGED << worker_jobs, pc, held >>

(* An instant that has passed is ranked by the later ones among them.      *)
Elapsed(wait) ==
    IF wait > 0 THEN wait - 1
    ELSE 0 - Cardinality({worker_jobs[j].wait : j \in DOMAIN worker_jobs}
                             \cap wait..0)

Tick ==
    /\ worker_jobs' = [j \in DOMAIN worker_jobs |->
           [worker_jobs[j] EXCEPT
               !.wait = Elapsed(@),
               !.lease = IF @ > 0 THEN @ - 1 ELSE @]]
    /\ worker_jobs' # worker_jobs
    /\ UNCHANGED << pc, held, behind, faults >>

WorkerStep(w) ==
    \/ CountLive(w)
    \/ EnsureJob(w)
    \/ SelectJob(w)
    \/ ClaimJob(w)
    \/ Execute(w)
    \/ RescheduleJob(w)
    \/ CompleteJob(w)
    \/ ReadFailed(w)
    \/ FailJob(w)
    \/ Busy(w)

JobsNext ==
    \/ \E kind \in Kinds \ {"check"}, wait \in 0..MaxWait :
          EnqueueJob(kind, wait)
    \/ \E w \in Procs : WorkerStep(w) \/ WriteFails(w) \/ Stop(w)
    \/ CommitElsewhere
    \/ Tick

(* The supervisor restarts the server, the ticker fires for ever and the   *)
(* clock runs.  With MaxFaults, not every claim for ever meets a commit.   *)
JobsFairness ==
    /\ \A w \in Procs : WF_jobVars(WorkerStep(w))
    /\ WF_jobVars(Tick)

JobsSpec == JobsInit /\ [][JobsNext]_jobVars /\ JobsFairness

-----------------------------------------------------------------------------
(* Rows have the columns of the schema, and no job is tried more often     *)
(* than its max_attempts.                                                  *)
JobsTypeOK ==
    /\ DOMAIN worker_jobs \subseteq Jobs
    /\ worker_jobs \in [DOMAIN worker_jobs -> JobRow]
    /\ pc \in [Procs -> Stages]
    /\ held \in [Procs -> Jobs \cup {NoJob}]
    /\ behind \subseteq InTx
    /\ faults \in 0..MaxFaults

Working(w) == pc[w] \in {"executing", "succeeded", "failed", "failing"}

(* Between its claim and the write that settles it, a job belongs to one   *)
(* worker alone and stays running, so that no settling write is refused    *)
(* and no job is run twice at a time, although workers that select at once *)
(* find the same job (ClaimJob's transaction and conditional UPDATE).      *)
OneWorkerPerJob ==
    \A w \in Procs : Working(w) =>
        /\ held[w] \in DOMAIN worker_jobs
        /\ worker_jobs[held[w]].status = "running"
        /\ \A u \in Procs : (Working(u) /\ held[u] = held[w]) => u = w

(* A lease is held by running jobs only, so the lease test of ClaimJob,    *)
(* which looks at pending and retry jobs, never decides anything; and what *)
(* waits to be claimed has attempts left.                                  *)
LeaseOnlyRunning ==
    \A j \in DOMAIN worker_jobs :
        /\ (worker_jobs[j].lease # NoLease) <=> (worker_jobs[j].status = "running")
        /\ worker_jobs[j].status \in {"pending", "retry"} =>
              worker_jobs[j].attempts < MaxAttempts

(* "The server ensures a telemetry_staleness_check job exists before       *)
(* serving" (README:138), and across restarts never a second live one, as  *)
(* long as one process runs at a time.                                     *)
OneCheck ==
    /\ \A w \in Procs : pc[w] \notin {"down", "ensuring"} =>
          \E j \in DOMAIN worker_jobs : worker_jobs[j].kind = "check"
    /\ \A i, j \in DOMAIN worker_jobs :
          (/\ worker_jobs[i].kind = "check" /\ worker_jobs[j].kind = "check"
           /\ worker_jobs[i].status \in LiveStatus
           /\ worker_jobs[j].status \in LiveStatus) => i = j

LiveChecks ==
    {j \in DOMAIN worker_jobs :
        worker_jobs[j].kind = "check" /\ worker_jobs[j].status \in LiveStatus}

(* Processes that start together may each insert a check, because the      *)
(* count and the INSERT are two statements, but restarts and races never   *)
(* make more of them than there are processes (EnsureJob).                 *)
ChecksPerProcess == Cardinality(LiveChecks) <= Cardinality(Procs)

(* The moves of a job's status.                                            *)
JobFlow ==
    {<< "pending", "running" >>, << "retry", "running" >>,
     << "running", "retry" >>, << "running", "failed" >>,
     << "running", "succeeded" >>, << "running", "pending" >>}

(* A job moves along the flow only; each claim counts one attempt, only    *)
(* the periodic job starts over, and a settled job never comes back.  Who  *)
(* takes a job out of running is the worker that claimed it, which lets go *)
(* of it: nobody else ever does, whatever its lease says.                  *)
JobHistory ==
    [][\A j \in DOMAIN worker_jobs :
          /\ j \in DOMAIN worker_jobs'
          /\ LET old == worker_jobs[j]
                 new == worker_jobs'[j]
             IN  /\ new.kind = old.kind
                 /\ old.status # new.status =>
                       << old.status, new.status >> \in JobFlow
                 /\ new.status = "pending" /\ old.status = "running" =>
                       old.kind = "check" /\ new.attempts = 0
                 /\ new.attempts # old.attempts =>
                       \/ new.status = "pending"
                       \/ new.status = "running" /\ new.attempts = old.attempts + 1
                 /\ old.status = "running" /\ new.status # "running" =>
                       \E w \in Procs :
                          Working(w) /\ held[w] = j /\ pc'[w] = "polling"
      ]_jobVars

(* A job that is running although no worker runs it: its worker stopped, or*)
(* the write that should have settled it failed.                           *)
Stranded(j) ==
    /\ j \in DOMAIN worker_jobs
    /\ worker_jobs[j].status = "running"
    /\ \A w \in Procs : Working(w) => held[w] # j

(* Every job that is not periodic ends as succeeded or failed, whatever is *)
(* queued, unless it is stranded.                                          *)
JobsSettle ==
    \A j \in Jobs :
        (j \in DOMAIN worker_jobs /\ worker_jobs[j].kind # "check") ~>
            \/ j \in DOMAIN worker_jobs
               /\ worker_jobs[j].status \in {"succeeded", "failed"}
            \/ Stranded(j)

IsCheck(j) == j \in DOMAIN worker_jobs /\ worker_jobs[j].kind = "check"

CheckRuns(j) == IsCheck(j) /\ \E w \in Procs : Working(w) /\ held[w] = j

(* A periodic check that waits is run, and one that is run waits again     *)
(* afterwards, unless it has failed for good or is stranded.               *)
ChecksGoOn ==
    \A j \in Jobs :
        /\ (IsCheck(j) /\ Waiting(j)) ~> CheckRuns(j)
        /\ CheckRuns(j) ~>
              \/ IsCheck(j) /\ (Waiting(j) \/ worker_jobs[j].status = "failed")
              \/ Stranded(j)

(* What a lease is for ("claims eligible jobs with a lease", README:138-139;*)
(* TestJobLeaseAllowsExpiredRetryClaim): a job whose worker is gone does   *)
(* not stay claimed for ever.                                              *)
LeaseReleases ==
    \A j \in Jobs :
        (j \in DOMAIN worker_jobs /\ worker_jobs[j].status = "running") ~>
            (j \in DOMAIN worker_jobs /\ worker_jobs[j].status # "running")
=============================================================================
