-------------------------- MODULE WorkerJobsProofs --------------------------
(***************************************************************************)
(* Proofs about the job queue: claims, leases, attempts and the periodic   *)
(* check, for any number of processes, jobs, crashes and failed writes.    *)
(***************************************************************************)
EXTENDS WorkerJobs, FiniteSetTheorems, TLAPS

Columns == {"kind", "status", "attempts", "wait", "lease"}

(* The part of the type invariant the argument needs: ids are handed out   *)
(* in order, and rows have their columns; instants are of no concern.      *)
JobsShape ==
    /\ \E n \in Nat : DOMAIN worker_jobs = 1..n
    /\ DOMAIN worker_jobs \subseteq Jobs
    /\ worker_jobs = [j \in DOMAIN worker_jobs |-> worker_jobs[j]]
    /\ \A j \in DOMAIN worker_jobs :
          /\ DOMAIN worker_jobs[j] = Columns
          /\ worker_jobs[j] = [c \in Columns |-> worker_jobs[j][c]]
          /\ worker_jobs[j].kind \in Kinds
          /\ worker_jobs[j].status \in JobStatus
          /\ worker_jobs[j].attempts \in 0..MaxAttempts
          /\ worker_jobs[j].lease \in Nat \cup {NoLease}
    /\ pc \in [Procs -> Stages]
    /\ held \in [Procs -> Jobs \cup {NoJob}]

(* The job that a claim is about to take is still to be had, as long as no *)
(* commit has overtaken the claim's snapshot.                              *)
SelectedWaits ==
    \A w \in Procs : (pc[w] = "claiming" /\ w \notin behind) =>
        held[w] \in DOMAIN worker_jobs /\ Waiting(held[w])

JobsIInv == JobsShape /\ OneWorkerPerJob /\ LeaseOnlyRunning /\ SelectedWaits

LEMMA JobsInitInv == JobsInit => JobsIInv
<1> SUFFICES ASSUME JobsInit PROVE JobsIInv
    OBVIOUS
<1>1. DOMAIN worker_jobs = 1..0
    BY DEF JobsInit, EmptyTable
<1>2. worker_jobs = [j \in DOMAIN worker_jobs |-> worker_jobs[j]]
    BY DEF JobsInit, EmptyTable
<1>3. JobsShape
  <2>1. pc \in [Procs -> Stages] /\ held \in [Procs -> Jobs \cup {NoJob}]
    BY DEF JobsInit, Stages
  <2>2. (\E n \in Nat : DOMAIN worker_jobs = 1..n) /\ DOMAIN worker_jobs = {}
    BY <1>1
  <2> QED BY <1>2, <2>1, <2>2 DEF JobsShape
<1>4. OneWorkerPerJob /\ LeaseOnlyRunning /\ SelectedWaits
    BY <1>1 DEF JobsInit, OneWorkerPerJob, LeaseOnlyRunning, Working,
                SelectedWaits
<1> QED BY <1>3, <1>4 DEF JobsIInv

(* The next id is free, and ids stay without a gap.                        *)
LEMMA NextIdFresh ==
    ASSUME JobsShape
    PROVE  /\ NextId \notin DOMAIN worker_jobs
           /\ \E n \in Nat : DOMAIN worker_jobs \cup {NextId} = 1..n
<1>1. PICK n \in Nat : DOMAIN worker_jobs = 1..n
    BY DEF JobsShape
<1>2. NextId = n + 1
  <2>1. Cardinality(1..n) = IF 1 > n THEN 0 ELSE n - 1 + 1
    BY FS_Interval
  <2>2. Cardinality(1..n) = n
    BY <2>1
  <2> QED BY <1>1, <2>2 DEF NextId
<1>3. (1..n) \cup {n + 1} = 1..(n + 1)
    OBVIOUS
<1>4. n + 1 \notin 1..n /\ n + 1 \in Nat
    OBVIOUS
<1> QED BY <1>1, <1>2, <1>3, <1>4

(* A commit leaves every claim behind that is not its own.                 *)
LEMMA OvertakenClaims ==
    ASSUME NEW w, Overtake(InTx) \/ Overtake(InTx \ {w}),
           \A u \in Procs : pc'[u] = "claiming" => pc[u] = "claiming" /\ u # w
    PROVE  SelectedWaits'
BY DEF Overtake, InTx, SelectedWaits

(* A pending row inserted while nothing else of the table changes; the     *)
(* worker that inserts, if one does, holds no job.                         *)
LEMMA EnqueueInv ==
    ASSUME JobsIInv, NEW kind \in Kinds, NEW wait, Enqueue(kind, wait),
           UNCHANGED held, pc' \in [Procs -> Stages],
           \A w \in Procs : Working(w)' => Working(w),
           SelectedWaits'
    PROVE  JobsIInv'
<1> DEFINE row == [kind |-> kind, status |-> "pending", attempts |-> 0,
                   wait |-> wait, lease |-> NoLease]
<1>1. /\ NextId \notin DOMAIN worker_jobs
      /\ worker_jobs' = [j \in DOMAIN worker_jobs \cup {NextId} |->
                            IF j = NextId THEN row ELSE worker_jobs[j]]
      /\ NextId \in Jobs
      /\ \E n \in Nat : DOMAIN worker_jobs' = 1..n
    BY NextIdFresh DEF JobsIInv, Enqueue, Insert
<1>2. /\ \A j \in DOMAIN worker_jobs : j \in DOMAIN worker_jobs'
                                       /\ worker_jobs'[j] = worker_jobs[j]
      /\ worker_jobs'[NextId] = row
      /\ \A j \in DOMAIN worker_jobs' : j = NextId \/ j \in DOMAIN worker_jobs
    BY <1>1
<1>3. /\ DOMAIN row = Columns /\ row = [c \in Columns |-> row[c]]
      /\ row.kind \in Kinds /\ row.status = "pending"
      /\ row.attempts = 0 /\ row.lease = NoLease
    BY DEF Columns
<1> HIDE DEF row
<1>4. JobsShape'
  <2>1. worker_jobs' = [j \in DOMAIN worker_jobs' |-> worker_jobs'[j]]
    BY <1>1
  <2>2. DOMAIN worker_jobs' \subseteq Jobs
    BY <1>1, <1>2 DEF JobsIInv, JobsShape
  <2>3. ASSUME NEW j \in DOMAIN worker_jobs'
        PROVE  /\ DOMAIN worker_jobs'[j] = Columns
               /\ worker_jobs'[j] = [c \in Columns |-> worker_jobs'[j][c]]
               /\ worker_jobs'[j].kind \in Kinds
               /\ worker_jobs'[j].status \in JobStatus
               /\ worker_jobs'[j].attempts \in 0..MaxAttempts
               /\ worker_jobs'[j].lease \in Nat \cup {NoLease}
    <3>1. CASE j = NextId
      BY <1>2, <1>3, <3>1, JobsAssumption DEF JobStatus
    <3>2. CASE j \in DOMAIN worker_jobs
      BY <1>2, <3>2 DEF JobsIInv, JobsShape
    <3> QED BY <1>2, <3>1, <3>2
  <2> QED BY <1>1, <2>1, <2>2, <2>3 DEF JobsIInv, JobsShape
<1>5. OneWorkerPerJob'
    BY <1>2 DEF JobsIInv, OneWorkerPerJob, Working
<1>6. LeaseOnlyRunning'
    BY <1>2, <1>3, JobsAssumption DEF JobsIInv, LeaseOnlyRunning, NoLease
<1> QED BY <1>4, <1>5, <1>6 DEF JobsIInv

(* A step that leaves the table alone, and where nobody starts work.       *)
LEMMA StageInv ==
    ASSUME JobsIInv, UNCHANGED << worker_jobs, held >>, pc' \in [Procs -> Stages],
           \A w \in Procs : Working(w)' => Working(w),
           \A w \in Procs : (pc'[w] = "claiming" /\ w \notin behind') =>
              pc[w] = "claiming" /\ w \notin behind
    PROVE  JobsIInv'
<1>1. JobsShape' /\ OneWorkerPerJob' /\ LeaseOnlyRunning'
    BY DEF JobsIInv, JobsShape, OneWorkerPerJob, LeaseOnlyRunning, Working
<1>2. SelectedWaits'
    BY DEF JobsIInv, SelectedWaits, Waiting
<1> QED BY <1>1, <1>2 DEF JobsIInv

(* One row replaced by another, as every UPDATE of jobs.go does.           *)
LEMMA UpdateShape ==
    ASSUME JobsShape, NEW k \in DOMAIN worker_jobs, NEW row,
           worker_jobs' = [worker_jobs EXCEPT ![k] = row],
           DOMAIN row = Columns, row = [c \in Columns |-> row[c]],
           row.kind \in Kinds, row.status \in JobStatus,
           row.attempts \in 0..MaxAttempts, row.lease \in Nat \cup {NoLease},
           pc' \in [Procs -> Stages], held' \in [Procs -> Jobs \cup {NoJob}]
    PROVE  /\ JobsShape'
           /\ DOMAIN worker_jobs' = DOMAIN worker_jobs
           /\ worker_jobs'[k] = row
           /\ \A j \in DOMAIN worker_jobs \ {k} : worker_jobs'[j] = worker_jobs[j]
<1>1. /\ DOMAIN worker_jobs' = DOMAIN worker_jobs
      /\ worker_jobs'[k] = row
      /\ \A j \in DOMAIN worker_jobs \ {k} : worker_jobs'[j] = worker_jobs[j]
      /\ worker_jobs' = [j \in DOMAIN worker_jobs' |-> worker_jobs'[j]]
    OBVIOUS
<1> QED BY <1>1 DEF JobsShape

(* The SELECT of a claim finds a job that waits.                           *)
LEMMA SelectInv ==
    ASSUME JobsIInv, NEW w \in Procs, SelectJob(w)
    PROVE  JobsIInv'
<1>1. PICK j \in DOMAIN worker_jobs :
         Waiting(j) /\ held' = [held EXCEPT ![w] = j]
    BY DEF SelectJob, First, Claimable
<1>2. /\ pc' = [pc EXCEPT ![w] = "claiming"] /\ pc[w] = "polling"
      /\ UNCHANGED << worker_jobs, behind >>
      /\ pc \in [Procs -> Stages] /\ held \in [Procs -> Jobs \cup {NoJob}]
    BY DEF SelectJob, Goto, JobsIInv, JobsShape
<1>3. JobsShape'
  <2>1. j \in Jobs
    BY DEF JobsIInv, JobsShape
  <2>2. pc' \in [Procs -> Stages] /\ held' \in [Procs -> Jobs \cup {NoJob}]
    BY <1>1, <1>2, <2>1 DEF Stages
  <2> QED BY <1>2, <2>2 DEF JobsIInv, JobsShape
<1>4. OneWorkerPerJob'
  <2>1. \A u \in Procs : Working(u)' => Working(u) /\ held'[u] = held[u]
    BY <1>1, <1>2 DEF Working
  <2> QED BY <1>2, <2>1 DEF JobsIInv, OneWorkerPerJob, Working
<1>5. LeaseOnlyRunning'
    BY <1>2 DEF JobsIInv, LeaseOnlyRunning
<1>6. SelectedWaits'
  <2>1. \A u \in Procs \ {w} : pc'[u] = pc[u] /\ held'[u] = held[u]
    BY <1>1, <1>2
  <2>2. held'[w] = j
    BY <1>1, <1>2
  <2> QED BY <1>1, <1>2, <2>1, <2>2 DEF JobsIInv, SelectedWaits, Waiting
<1> QED BY <1>3, <1>4, <1>5, <1>6 DEF JobsIInv

(* The UPDATE of a claim takes the job that was selected.                  *)
LEMMA ClaimTakes ==
    ASSUME JobsIInv, NEW w \in Procs, ClaimJob(w)
    PROVE  /\ pc[w] = "claiming" /\ pc' = [pc EXCEPT ![w] = "executing"]
           /\ held[w] \in DOMAIN worker_jobs
           /\ worker_jobs[held[w]].status \in {"pending", "retry"}
           /\ worker_jobs' = [worker_jobs EXCEPT
                 ![held[w]] = [worker_jobs[held[w]] EXCEPT !.status = "running",
                                  !.attempts = @ + 1, !.lease = Lease]]
           /\ Overtake(InTx \ {w}) /\ UNCHANGED << held, faults >>
<1>1. held[w] \in DOMAIN worker_jobs /\ Waiting(held[w])
    BY DEF ClaimJob, JobsIInv, SelectedWaits
<1> QED BY <1>1 DEF ClaimJob, Claimed, Goto, Waiting

(* A claimed job was nobody's.                                             *)
LEMMA ClaimInv ==
    ASSUME JobsIInv, NEW w \in Procs, ClaimJob(w)
    PROVE  JobsIInv'
<1> DEFINE k == held[w]
<1>1. /\ k \in DOMAIN worker_jobs
      /\ worker_jobs[k].status \in {"pending", "retry"}
      /\ worker_jobs' = [worker_jobs EXCEPT
             ![k] = [worker_jobs[k] EXCEPT !.status = "running",
                        !.attempts = @ + 1, !.lease = Lease]]
      /\ held' = held
    BY ClaimTakes
<1> HIDE DEF k
<1> DEFINE row == [worker_jobs[k] EXCEPT !.status = "running",
                      !.attempts = @ + 1, !.lease = Lease]
<1>2. /\ worker_jobs[k].status \in {"pending", "retry"}
      /\ worker_jobs[k].attempts \in 0..MaxAttempts
      /\ worker_jobs[k].attempts < MaxAttempts
      /\ DOMAIN worker_jobs[k] = Columns /\ worker_jobs[k].kind \in Kinds
    BY <1>1 DEF JobsIInv, JobsShape, LeaseOnlyRunning
<1>3. /\ DOMAIN row = Columns /\ row = [c \in Columns |-> row[c]]
      /\ row.kind \in Kinds /\ row.status = "running"
      /\ row.attempts = worker_jobs[k].attempts + 1 /\ row.lease = Lease
    BY <1>2 DEF Columns
<1>4. row.attempts \in 0..MaxAttempts /\ row.lease \in Nat /\ row.lease # NoLease
    BY <1>2, <1>3, JobsAssumption DEF NoLease
<1>5. worker_jobs' = [worker_jobs EXCEPT ![k] = row]
    BY <1>1, SMT
<1> HIDE DEF row
<1>6. /\ pc' = [pc EXCEPT ![w] = "executing"]
      /\ pc \in [Procs -> Stages] /\ held \in [Procs -> Jobs \cup {NoJob}]
      /\ pc[w] = "claiming" /\ Overtake(InTx \ {w})
    BY ClaimTakes DEF JobsIInv, JobsShape
<1>7. /\ k \in Jobs /\ pc' \in [Procs -> Stages]
      /\ held' \in [Procs -> Jobs \cup {NoJob}]
    BY <1>1, <1>6 DEF JobsIInv, JobsShape, Stages
<1>8. /\ JobsShape'
      /\ DOMAIN worker_jobs' = DOMAIN worker_jobs
      /\ worker_jobs'[k] = row
      /\ \A j \in DOMAIN worker_jobs \ {k} : worker_jobs'[j] = worker_jobs[j]
    BY <1>1, <1>3, <1>4, <1>5, <1>7, UpdateShape DEF JobsIInv, JobStatus
<1>9. OneWorkerPerJob'
  <2>1. \A u \in Procs : Working(u) => held[u] # k
    BY <1>2 DEF JobsIInv, OneWorkerPerJob
  <2>2. /\ held'[w] = k
        /\ \A u \in Procs \ {w} : held'[u] = held[u] /\ pc'[u] = pc[u]
    BY <1>1, <1>6 DEF k
  <2>3. \A u \in Procs \ {w} : Working(u)' => Working(u)
    BY <2>2 DEF Working
  <2>4. ASSUME NEW u \in Procs, Working(u)'
        PROVE  /\ held'[u] \in DOMAIN worker_jobs'
               /\ worker_jobs'[held'[u]].status = "running"
               /\ \A x \in Procs : (Working(x)' /\ held'[x] = held'[u]) => x = u
    BY <1>1, <1>3, <1>8, <2>1, <2>2, <2>3, <2>4 DEF JobsIInv, OneWorkerPerJob
  <2> QED BY <2>4 DEF OneWorkerPerJob, Working
<1>10. LeaseOnlyRunning'
    BY <1>3, <1>4, <1>8 DEF JobsIInv, LeaseOnlyRunning
<1>11. SelectedWaits'
  <2>1. \A u \in Procs : pc'[u] = "claiming" => pc[u] = "claiming" /\ u # w
    BY <1>6
  <2> QED BY <1>6, <2>1, OvertakenClaims
<1> QED BY <1>8, <1>9, <1>10, <1>11 DEF JobsIInv

(* A worker settles the job it runs: the write is never refused, and the   *)
(* job is nobody's afterwards, if it is still running then.                *)
LEMMA SettleInv ==
    ASSUME JobsIInv, NEW w \in Procs, Working(w), NEW row, Settle(w, row),
           DOMAIN row = Columns, row = [c \in Columns |-> row[c]],
           row.kind \in Kinds, row.lease = NoLease,
           row.attempts \in 0..MaxAttempts,
           row.status \in JobStatus \ {"running"},
           row.status \in {"pending", "retry"} => row.attempts < MaxAttempts
    PROVE  /\ JobsIInv'
           /\ worker_jobs[held[w]].status = "running"
           /\ worker_jobs' = [worker_jobs EXCEPT ![held[w]] = row]
<1> DEFINE k == held[w]
<1>1. /\ k \in DOMAIN worker_jobs /\ worker_jobs[k].status = "running"
      /\ \A u \in Procs \ {w} : Working(u) => held[u] # k
    BY DEF JobsIInv, OneWorkerPerJob
<1>2. /\ worker_jobs' = [worker_jobs EXCEPT ![k] = row]
      /\ pc' = [pc EXCEPT ![w] = "polling"]
      /\ Overtake(InTx \ {w}) /\ UNCHANGED held
    BY <1>1 DEF Settle, Goto
<1>3. pc' \in [Procs -> Stages] /\ held' \in [Procs -> Jobs \cup {NoJob}]
    BY <1>2 DEF JobsIInv, JobsShape, Stages
<1> HIDE DEF k
<1>4. /\ JobsShape'
      /\ DOMAIN worker_jobs' = DOMAIN worker_jobs
      /\ worker_jobs'[k] = row
      /\ \A j \in DOMAIN worker_jobs \ {k} : worker_jobs'[j] = worker_jobs[j]
    BY <1>1, <1>2, <1>3, UpdateShape DEF JobsIInv
<1>5. OneWorkerPerJob'
  <2>1. /\ pc'[w] = "polling"
        /\ \A u \in Procs \ {w} : held'[u] = held[u] /\ pc'[u] = pc[u]
    BY <1>2 DEF JobsIInv, JobsShape
  <2> QED BY <1>1, <1>4, <2>1 DEF JobsIInv, OneWorkerPerJob, Working
<1>6. LeaseOnlyRunning'
    BY <1>4 DEF JobsIInv, LeaseOnlyRunning
<1>7. SelectedWaits'
  <2>1. \A u \in Procs : pc'[u] = "claiming" => pc[u] = "claiming" /\ u # w
    BY <1>2 DEF JobsIInv, JobsShape
  <2> QED BY <1>2, <2>1, OvertakenClaims
<1> QED BY <1>1, <1>2, <1>4, <1>5, <1>6, <1>7 DEF JobsIInv, k

(* Rescheduling, completing and failing are such writes.                   *)
LEMMA SettledRow ==
    ASSUME JobsIInv, NEW w \in Procs,
           RescheduleJob(w) \/ CompleteJob(w) \/ FailJob(w)
    PROVE  \E row :
              /\ Working(w) /\ Settle(w, row)
              /\ DOMAIN row = Columns /\ row = [c \in Columns |-> row[c]]
              /\ row.kind = worker_jobs[held[w]].kind /\ row.kind \in Kinds
              /\ row.lease = NoLease /\ row.attempts \in 0..MaxAttempts
              /\ row.wait \in {Interval, worker_jobs[held[w]].wait,
                               Backoff(worker_jobs[held[w]].attempts)}
              /\ \/ /\ row.status = "pending" /\ row.kind = "check"
                    /\ row.attempts = 0
                 \/ /\ row.status \in {"succeeded", "failed", "retry"}
                    /\ row.attempts = worker_jobs[held[w]].attempts
                    /\ row.status = "retry" => row.attempts < MaxAttempts
<1> DEFINE old == worker_jobs[held[w]]
<1>1. /\ Working(w)
      /\ DOMAIN old = Columns /\ old = [c \in Columns |-> old[c]]
      /\ old.kind \in Kinds /\ old.attempts \in 0..MaxAttempts
    BY DEF RescheduleJob, CompleteJob, FailJob, Working, JobsIInv, JobsShape,
           OneWorkerPerJob
<1> HIDE DEF old
<1>2. CASE RescheduleJob(w)
  <2> DEFINE row == [old EXCEPT !.status = "pending", !.attempts = 0,
                        !.wait = Interval, !.lease = NoLease]
  <2>1. Settle(w, row) /\ old.kind = "check"
    BY <1>2 DEF RescheduleJob, old
  <2>2. /\ DOMAIN row = Columns /\ row = [c \in Columns |-> row[c]]
        /\ row.kind = old.kind /\ row.status = "pending"
        /\ row.attempts = 0 /\ row.lease = NoLease /\ row.wait = Interval
    BY <1>1 DEF Columns
  <2> HIDE DEF row
  <2>3. row.attempts \in 0..MaxAttempts
    BY <2>2, JobsAssumption
  <2> QED BY <1>1, <2>1, <2>2, <2>3 DEF old
<1>3. CASE CompleteJob(w)
  <2> DEFINE row == [old EXCEPT !.status = "succeeded", !.lease = NoLease]
  <2>1. Settle(w, row)
    BY <1>3 DEF CompleteJob, old
  <2>2. /\ DOMAIN row = Columns /\ row = [c \in Columns |-> row[c]]
        /\ row.kind = old.kind /\ row.status = "succeeded"
        /\ row.attempts = old.attempts /\ row.lease = NoLease
        /\ row.wait = old.wait
    BY <1>1 DEF Columns
  <2> HIDE DEF row
  <2> QED BY <1>1, <2>1, <2>2 DEF old
<1>4. CASE FailJob(w)
  <2> DEFINE status == IF old.attempts >= MaxAttempts THEN "failed" ELSE "retry"
             row == [old EXCEPT !.status = status,
                        !.wait = Backoff(old.attempts), !.lease = NoLease]
  <2>1. Settle(w, row)
    BY <1>4 DEF FailJob, old
  <2>2. /\ DOMAIN row = Columns /\ row = [c \in Columns |-> row[c]]
        /\ row.kind = old.kind /\ row.status = status
        /\ row.attempts = old.attempts /\ row.lease = NoLease
        /\ row.wait = Backoff(old.attempts)
    BY <1>1 DEF Columns
  <2>3. /\ status \in {"failed", "retry"}
        /\ status = "retry" => old.attempts < MaxAttempts
    BY <1>1, JobsAssumption
  <2> HIDE DEF row, status
  <2> QED BY <1>1, <2>1, <2>2, <2>3 DEF old
<1> QED BY <1>2, <1>3, <1>4

LEMMA SettlesInv ==
    ASSUME JobsIInv, NEW w \in Procs,
           RescheduleJob(w) \/ CompleteJob(w) \/ FailJob(w)
    PROVE  JobsIInv'
<1>1. PICK row :
         /\ Working(w) /\ Settle(w, row)
         /\ DOMAIN row = Columns /\ row = [c \in Columns |-> row[c]]
         /\ row.kind \in Kinds /\ row.lease = NoLease
         /\ row.attempts \in 0..MaxAttempts
         /\ row.status \in {"pending", "succeeded", "failed", "retry"}
         /\ row.status \in {"pending", "retry"} => row.attempts < MaxAttempts
    BY SettledRow, JobsAssumption
<1>2. row.status \in JobStatus \ {"running"}
    BY <1>1 DEF JobStatus
<1> QED BY <1>1, <1>2, SettleInv

(* The clock runs a lease down to zero, never to NULL.                     *)
LEMMA TickInv ==
    ASSUME JobsIInv, Tick
    PROVE  JobsIInv'
<1>1. /\ worker_jobs' = [j \in DOMAIN worker_jobs |->
             [worker_jobs[j] EXCEPT !.wait = Elapsed(@),
                !.lease = IF @ > 0 THEN @ - 1 ELSE @]]
      /\ UNCHANGED << pc, held, behind >>
    BY DEF Tick
<1>2. /\ DOMAIN worker_jobs' = DOMAIN worker_jobs
      /\ worker_jobs' = [j \in DOMAIN worker_jobs' |-> worker_jobs'[j]]
    BY <1>1
<1>3. ASSUME NEW j \in DOMAIN worker_jobs
      PROVE  /\ DOMAIN worker_jobs'[j] = Columns
             /\ worker_jobs'[j] = [c \in Columns |-> worker_jobs'[j][c]]
             /\ worker_jobs'[j].kind = worker_jobs[j].kind
             /\ worker_jobs'[j].status = worker_jobs[j].status
             /\ worker_jobs'[j].attempts = worker_jobs[j].attempts
             /\ worker_jobs'[j].lease \in Nat \cup {NoLease}
             /\ worker_jobs'[j].lease = NoLease <=> worker_jobs[j].lease = NoLease
  <2>1. /\ DOMAIN worker_jobs[j] = Columns
        /\ worker_jobs[j].lease \in Nat \cup {NoLease}
    BY DEF JobsIInv, JobsShape
  <2>2. worker_jobs'[j] =
           [worker_jobs[j] EXCEPT !.wait = Elapsed(@),
              !.lease = IF @ > 0 THEN @ - 1 ELSE @]
    BY <1>1
  <2>3. worker_jobs'[j].lease =
           IF worker_jobs[j].lease > 0 THEN worker_jobs[j].lease - 1
           ELSE worker_jobs[j].lease
    BY <2>1, <2>2 DEF Columns
  <2>4. /\ DOMAIN worker_jobs'[j] = Columns
        /\ worker_jobs'[j] = [c \in Columns |-> worker_jobs'[j][c]]
        /\ worker_jobs'[j].kind = worker_jobs[j].kind
        /\ worker_jobs'[j].status = worker_jobs[j].status
        /\ worker_jobs'[j].attempts = worker_jobs[j].attempts
    BY <2>1, <2>2 DEF Columns
  <2>5. /\ worker_jobs'[j].lease \in Nat \cup {NoLease}
        /\ worker_jobs'[j].lease = NoLease <=> worker_jobs[j].lease = NoLease
    BY <2>1, <2>3 DEF NoLease
  <2> QED BY <2>4, <2>5
<1>4. JobsShape'
    BY <1>1, <1>2, <1>3 DEF JobsIInv, JobsShape
<1>5. OneWorkerPerJob'
  <2>1. /\ DOMAIN worker_jobs' = DOMAIN worker_jobs
        /\ \A j \in DOMAIN worker_jobs : worker_jobs'[j].status = worker_jobs[j].status
        /\ UNCHANGED << pc, held >>
    BY <1>1, <1>2, <1>3
  <2> QED BY <2>1 DEF JobsIInv, OneWorkerPerJob, Working
<1>6. LeaseOnlyRunning'
    BY <1>2, <1>3 DEF JobsIInv, LeaseOnlyRunning
<1>7. SelectedWaits'
  <2>1. /\ DOMAIN worker_jobs' = DOMAIN worker_jobs
        /\ \A j \in DOMAIN worker_jobs : worker_jobs'[j].status = worker_jobs[j].status
        /\ UNCHANGED << pc, held, behind >>
    BY <1>1, <1>2, <1>3
  <2> QED BY <2>1 DEF JobsIInv, SelectedWaits, Waiting
<1> QED BY <1>4, <1>5, <1>6, <1>7 DEF JobsIInv

(* What happens to a worker that starts, checks, is too late or stops.     *)
LEMMA OtherStepsInv ==
    ASSUME JobsIInv, NEW w \in Procs,
           \/ CountLive(w) \/ EnsureJob(w) \/ Execute(w) \/ ReadFailed(w)
           \/ Busy(w) \/ WriteFails(w) \/ Stop(w)
    PROVE  JobsIInv'
<1>0. pc \in [Procs -> Stages]
    BY DEF JobsIInv, JobsShape
<1>1. CASE CountLive(w) \/ Execute(w) \/ ReadFailed(w) \/ Busy(w)
           \/ WriteFails(w) \/ Stop(w)
  <2>1. /\ UNCHANGED << worker_jobs, held >> /\ behind' \in {behind, behind \ {w}}
        /\ \E stage \in Stages \ {"claiming"} :
              /\ pc' = [pc EXCEPT ![w] = stage]
              /\ Working(w) \/ stage \in {"down", "ensuring", "polling"}
    <3>1. CASE CountLive(w)
      BY <3>1 DEF CountLive, Goto, Stages
    <3>2. CASE Execute(w)
      <4>1. PICK result \in Results(worker_jobs[held[w]].kind) :
                pc' = [pc EXCEPT ![w] = result]
        BY <3>2 DEF Execute, Goto
      <4>2. /\ worker_jobs[held[w]].kind \in Kinds /\ Working(w)
            /\ UNCHANGED << worker_jobs, held, behind >>
        BY <3>2 DEF Execute, Working, JobsIInv, JobsShape, OneWorkerPerJob
      <4>3. result \in Stages \ {"claiming"}
        BY <4>1, <4>2 DEF Results, Kinds, Stages
      <4> QED BY <4>1, <4>2, <4>3
    <3>3. CASE ReadFailed(w)
      BY <3>3 DEF ReadFailed, Goto, Stages, Working
    <3>4. CASE Busy(w) \/ WriteFails(w) \/ Stop(w)
      BY <3>4 DEF Busy, WriteFails, Stop, Goto, Stages
    <3> QED BY <1>1, <3>1, <3>2, <3>3, <3>4
  <2>2. /\ pc' \in [Procs -> Stages]
        /\ \A u \in Procs : Working(u)' => Working(u)
        /\ \A u \in Procs : (pc'[u] = "claiming" /\ u \notin behind') =>
              pc[u] = "claiming" /\ u \notin behind
    BY <1>0, <2>1 DEF Working
  <2> QED BY <2>1, <2>2, StageInv
<1>2. CASE EnsureJob(w)
  <2>1. /\ Enqueue("check", 0) /\ Overtake(InTx) /\ UNCHANGED held
        /\ pc' = [pc EXCEPT ![w] = "polling"]
    BY <1>2 DEF EnsureJob, Goto
  <2>2. /\ pc' \in [Procs -> Stages]
        /\ \A u \in Procs : Working(u)' => Working(u)
        /\ \A u \in Procs : pc'[u] = "claiming" => pc[u] = "claiming" /\ u # w
    BY <1>0, <2>1 DEF Working, Stages
  <2>3. SelectedWaits'
    BY <2>1, <2>2, OvertakenClaims
  <2> QED BY <2>1, <2>2, <2>3, EnqueueInv DEF Kinds
<1> QED BY <1>1, <1>2

LEMMA JobsStepInv == JobsIInv /\ [JobsNext]_jobVars => JobsIInv'
<1> SUFFICES ASSUME JobsIInv, [JobsNext]_jobVars PROVE JobsIInv'
    OBVIOUS
<1>1. ASSUME NEW kind \in Kinds \ {"check"}, NEW wait \in 0..MaxWait,
             EnqueueJob(kind, wait)
      PROVE  JobsIInv'
  <2>1. Enqueue(kind, wait) /\ Overtake(InTx) /\ UNCHANGED << pc, held >>
    BY <1>1 DEF EnqueueJob
  <2>2. pc' \in [Procs -> Stages] /\ \A w \in Procs : Working(w)' => Working(w)
    BY <2>1 DEF Working, JobsIInv, JobsShape
  <2>3. SelectedWaits'
    BY <2>1 DEF Overtake, InTx, SelectedWaits
  <2> QED BY <2>1, <2>2, <2>3, EnqueueInv
<1>2. ASSUME NEW w \in Procs, WorkerStep(w) \/ WriteFails(w) \/ Stop(w)
      PROVE  JobsIInv'
    BY <1>2, SelectInv, ClaimInv, SettlesInv, OtherStepsInv DEF WorkerStep
<1>3. CASE CommitElsewhere
  <2>1. UNCHANGED << worker_jobs, pc, held >> /\ behind' = InTx
    BY <1>3 DEF CommitElsewhere, Overtake
  <2>2. \A w \in Procs : ~ (pc'[w] = "claiming" /\ w \notin behind')
    BY <2>1 DEF InTx
  <2>3. pc' \in [Procs -> Stages] /\ \A w \in Procs : Working(w)' => Working(w)
    BY <2>1 DEF Working, JobsIInv, JobsShape
  <2> QED BY <2>1, <2>2, <2>3, StageInv
<1>4. CASE UNCHANGED jobVars
  <2>1. UNCHANGED << worker_jobs, pc, held, behind >>
    BY <1>4 DEF jobVars
  <2>2. pc' \in [Procs -> Stages] /\ \A w \in Procs : Working(w)' => Working(w)
    BY <2>1 DEF Working, JobsIInv, JobsShape
  <2> QED BY <2>1, <2>2, StageInv
<1> QED BY <1>1, <1>2, <1>3, <1>4, TickInv DEF JobsNext

(* The invariant holds in every reachable state.                           *)
THEOREM JobsInductive == JobsSpec => []JobsIInv
BY JobsInitInv, JobsStepInv, PTL DEF JobsSpec

(* A claim whose snapshot is current finds the job it selected still       *)
(* waiting: the status condition of the UPDATE and the snapshot each keep  *)
(* other claims away, and either would do alone (ClaimJob).                *)
THEOREM ClaimNeverRefused == JobsSpec => []SelectedWaits
<1>1. JobsIInv => SelectedWaits
    BY DEF JobsIInv
<1> QED BY JobsInductive, <1>1, PTL

(* However many workers race, stop and start, a job that is being run or   *)
(* settled has one worker and stays running (ClaimJob's UPDATE).           *)
THEOREM JobsClaimedOnce == JobsSpec => []OneWorkerPerJob
<1>1. JobsIInv => OneWorkerPerJob
    BY DEF JobsIInv
<1> QED BY JobsInductive, <1>1, PTL

(* A lease is held by running jobs only, and a waiting job has an attempt  *)
(* left (FailJob's comparison, RescheduleJob's reset).                     *)
THEOREM JobsLeased == JobsSpec => []LeaseOnlyRunning
<1>1. JobsIInv => LeaseOnlyRunning
    BY DEF JobsIInv
<1> QED BY JobsInductive, <1>1, PTL

-----------------------------------------------------------------------------
(* The rest of the type invariant: where instants may lie, how long a      *)
(* lease is, and that a running job has been tried, so that the backoff    *)
(* counts from its first attempt.                                          *)
JobsBounds ==
    /\ \A j \in DOMAIN worker_jobs :
          /\ worker_jobs[j].wait \in Waits
          /\ worker_jobs[j].lease <= Lease
          /\ worker_jobs[j].status = "running" => worker_jobs[j].attempts >= 1
    /\ faults \in 0..MaxFaults

(* The wait after a failure is at most the cap.                            *)
LEMMA BackoffCapped ==
    ASSUME NEW attempts \in Nat \ {0}
    PROVE  Backoff(attempts) \in 0..MaxBackoff
<1> DEFINE steps == << 1, 2, 4, 8, 16, 32, 64 >>
           doubled == steps[IF attempts < 7 THEN attempts ELSE 7]
<1>1. doubled \in Nat
    OBVIOUS
<1>2. Backoff(attempts) = IF doubled > MaxBackoff THEN MaxBackoff ELSE doubled
    BY DEF Backoff
<1> HIDE DEF doubled
<1> QED BY <1>1, <1>2, JobsAssumption

(* There are no more instants than jobs to have them: what has passed is   *)
(* ranked within the bound.                                                *)
LEMMA RankBounded ==
    ASSUME JobsShape, NEW wait \in Waits
    PROVE  Elapsed(wait) \in Waits
<1> DEFINE instants == {worker_jobs[j].wait : j \in DOMAIN worker_jobs}
           waits == [j \in DOMAIN worker_jobs |-> worker_jobs[j].wait]
<1>1. /\ IsFiniteSet(DOMAIN worker_jobs)
      /\ Cardinality(DOMAIN worker_jobs) \in Nat
      /\ Cardinality(DOMAIN worker_jobs) <= MaxJobs
  <2>1. /\ IsFiniteSet(1..MaxJobs) /\ Cardinality(1..MaxJobs) = MaxJobs
    <3>1. MaxJobs \in Nat
      BY JobsAssumption
    <3>2. /\ IsFiniteSet(1..MaxJobs)
          /\ Cardinality(1..MaxJobs) =
                IF 1 > MaxJobs THEN 0 ELSE MaxJobs - 1 + 1
      BY <3>1, FS_Interval
    <3> QED BY <3>1, <3>2
  <2>2. DOMAIN worker_jobs \in SUBSET (1..MaxJobs)
    BY DEF JobsShape, Jobs
  <2> QED BY <2>1, <2>2, FS_Subset, FS_CardinalityType
<1>2. waits \in Surjection(DOMAIN worker_jobs, instants)
    BY DEF Surjection
<1>3. IsFiniteSet(instants) /\ Cardinality(instants) <= MaxJobs
  <2>1. /\ IsFiniteSet(instants)
        /\ Cardinality(instants) <= Cardinality(DOMAIN worker_jobs)
    <3> HIDE DEF waits, instants
    <3> QED BY <1>1, <1>2, FS_Surjection
  <2>2. Cardinality(instants) \in Nat
    BY <2>1, FS_CardinalityType
  <2> QED BY <1>1, <2>1, <2>2, JobsAssumption
<1> DEFINE passed == instants \cap wait..0
<1>4. Cardinality(passed) \in 0..MaxJobs
  <2> HIDE DEF instants
  <2>1. /\ IsFiniteSet(passed) /\ Cardinality(passed) <= Cardinality(instants)
    BY <1>3, FS_Intersection
  <2>2. Cardinality(passed) \in Nat /\ Cardinality(instants) \in Nat
    BY <1>3, <2>1, FS_CardinalityType
  <2> QED BY <1>3, <2>1, <2>2, JobsAssumption
<1>5. Elapsed(wait) = IF wait > 0 THEN wait - 1 ELSE 0 - Cardinality(passed)
    BY DEF Elapsed
<1> HIDE DEF passed
<1> QED BY <1>4, <1>5, JobsAssumption DEF Waits

LEMMA UpdateBounds ==
    ASSUME JobsShape, JobsBounds, NEW k \in DOMAIN worker_jobs, NEW row,
           worker_jobs' = [worker_jobs EXCEPT ![k] = row],
           row.wait \in Waits, row.lease <= Lease,
           row.status = "running" => row.attempts >= 1,
           UNCHANGED faults
    PROVE  JobsBounds'
<1>1. /\ DOMAIN worker_jobs' = DOMAIN worker_jobs
      /\ worker_jobs'[k] = row
      /\ \A j \in DOMAIN worker_jobs \ {k} : worker_jobs'[j] = worker_jobs[j]
    OBVIOUS
<1> QED BY <1>1 DEF JobsBounds

LEMMA EnqueueBounds ==
    ASSUME JobsIInv, JobsBounds, NEW kind, NEW wait \in 0..MaxWait,
           Enqueue(kind, wait), UNCHANGED faults
    PROVE  JobsBounds'
<1> DEFINE row == [kind |-> kind, status |-> "pending", attempts |-> 0,
                   wait |-> wait, lease |-> NoLease]
<1>1. /\ \A j \in DOMAIN worker_jobs' : j = NextId \/ j \in DOMAIN worker_jobs
      /\ \A j \in DOMAIN worker_jobs : worker_jobs'[j] = worker_jobs[j]
      /\ worker_jobs'[NextId] = row
    BY NextIdFresh DEF JobsIInv, Enqueue, Insert
<1>2. row.wait \in Waits /\ row.lease <= Lease /\ row.status = "pending"
    BY JobsAssumption DEF Waits, NoLease
<1> HIDE DEF row
<1> QED BY <1>1, <1>2 DEF JobsBounds

LEMMA WorkerBounds ==
    ASSUME JobsIInv, JobsBounds, NEW w \in Procs,
           WorkerStep(w) \/ WriteFails(w) \/ Stop(w)
    PROVE  JobsBounds'
<1>1. CASE CountLive(w) \/ SelectJob(w) \/ Execute(w) \/ ReadFailed(w) \/ Busy(w)
    BY <1>1 DEF CountLive, SelectJob, Execute, ReadFailed, Busy, JobsBounds
<1>2. CASE WriteFails(w) \/ Stop(w)
  <2>1. UNCHANGED worker_jobs /\ faults < MaxFaults /\ faults' = faults + 1
    BY <1>2 DEF WriteFails, Stop, Fault
  <2> QED BY <2>1, JobsAssumption DEF JobsBounds
<1>3. CASE EnsureJob(w)
    BY <1>3, EnqueueBounds, JobsAssumption DEF EnsureJob
<1>4. CASE ClaimJob(w)
  <2>1. PICK k \in DOMAIN worker_jobs :
           worker_jobs' = [worker_jobs EXCEPT
              ![k] = [worker_jobs[k] EXCEPT !.status = "running",
                         !.attempts = @ + 1, !.lease = Lease]]
    BY <1>4, ClaimTakes
  <2> DEFINE row == [worker_jobs[k] EXCEPT !.status = "running",
                        !.attempts = @ + 1, !.lease = Lease]
  <2>2. /\ DOMAIN worker_jobs[k] = Columns
        /\ worker_jobs[k].attempts \in Nat /\ worker_jobs[k].wait \in Waits
    BY DEF JobsIInv, JobsShape, JobsBounds
  <2>3. /\ row.wait = worker_jobs[k].wait /\ row.lease = Lease
        /\ row.attempts = worker_jobs[k].attempts + 1
    BY <2>2 DEF Columns
  <2>4. worker_jobs' = [worker_jobs EXCEPT ![k] = row]
    BY <2>1, SMT
  <2> HIDE DEF row
  <2>5. /\ JobsShape /\ UNCHANGED faults
        /\ row.wait \in Waits /\ row.lease <= Lease /\ row.attempts >= 1
    BY <1>4, <2>2, <2>3, JobsAssumption DEF JobsIInv, ClaimJob
  <2> QED BY <2>4, <2>5, UpdateBounds
<1>5. CASE RescheduleJob(w) \/ CompleteJob(w) \/ FailJob(w)
  <2>1. PICK row :
           /\ Working(w) /\ Settle(w, row) /\ row.lease = NoLease
           /\ row.wait \in {Interval, worker_jobs[held[w]].wait,
                            Backoff(worker_jobs[held[w]].attempts)}
           /\ row.status \in {"pending", "succeeded", "failed", "retry"}
    BY <1>5, SettledRow
  <2>2. /\ held[w] \in DOMAIN worker_jobs
        /\ worker_jobs[held[w]].status = "running"
        /\ worker_jobs[held[w]].attempts \in Nat \ {0}
        /\ worker_jobs[held[w]].wait \in Waits
    BY <2>1 DEF JobsIInv, JobsShape, OneWorkerPerJob, JobsBounds
  <2>3. Backoff(worker_jobs[held[w]].attempts) \in Waits /\ Interval \in Waits
    BY <2>2, BackoffCapped, JobsAssumption DEF Waits
  <2>4. /\ worker_jobs' = [worker_jobs EXCEPT ![held[w]] = row]
        /\ UNCHANGED faults
    BY <2>1, <2>2 DEF Settle
  <2>5. row.lease <= Lease
    BY <2>1, JobsAssumption DEF NoLease
  <2> QED BY <2>1, <2>2, <2>3, <2>4, <2>5, UpdateBounds DEF JobsIInv
<1> QED BY <1>1, <1>2, <1>3, <1>4, <1>5 DEF WorkerStep

LEMMA TickBounds ==
    ASSUME JobsIInv, JobsBounds, Tick
    PROVE  JobsBounds'
<1>1. ASSUME NEW j \in DOMAIN worker_jobs
      PROVE  /\ worker_jobs'[j].wait \in Waits
             /\ worker_jobs'[j].lease <= Lease
             /\ worker_jobs'[j].status = worker_jobs[j].status
             /\ worker_jobs'[j].attempts = worker_jobs[j].attempts
  <2>1. /\ DOMAIN worker_jobs[j] = Columns
        /\ worker_jobs[j].lease \in Nat \cup {NoLease}
        /\ worker_jobs[j].lease <= Lease /\ worker_jobs[j].wait \in Waits
    BY DEF JobsIInv, JobsShape, JobsBounds
  <2>2. worker_jobs'[j] =
           [worker_jobs[j] EXCEPT !.wait = Elapsed(@),
              !.lease = IF @ > 0 THEN @ - 1 ELSE @]
    BY DEF Tick
  <2>3. /\ worker_jobs'[j].wait = Elapsed(worker_jobs[j].wait)
        /\ worker_jobs'[j].lease =
              IF worker_jobs[j].lease > 0 THEN worker_jobs[j].lease - 1
              ELSE worker_jobs[j].lease
        /\ worker_jobs'[j].status = worker_jobs[j].status
        /\ worker_jobs'[j].attempts = worker_jobs[j].attempts
    BY <2>1, <2>2 DEF Columns
  <2>4. Elapsed(worker_jobs[j].wait) \in Waits
    BY <2>1, RankBounded DEF JobsIInv
  <2> QED BY <2>1, <2>3, <2>4, JobsAssumption DEF NoLease
<1>2. DOMAIN worker_jobs' = DOMAIN worker_jobs /\ UNCHANGED faults
    BY DEF Tick
<1> QED BY <1>1, <1>2 DEF JobsBounds

LEMMA JobsBounded == JobsSpec => []JobsBounds
<1>1. JobsInit => JobsBounds
    BY JobsAssumption DEF JobsInit, EmptyTable, JobsBounds
<1>2. JobsIInv /\ JobsBounds /\ [JobsNext]_jobVars => JobsBounds'
  <2> SUFFICES ASSUME JobsIInv, JobsBounds, [JobsNext]_jobVars PROVE JobsBounds'
    OBVIOUS
  <2>1. ASSUME NEW kind \in Kinds \ {"check"}, NEW wait \in 0..MaxWait,
               EnqueueJob(kind, wait)
        PROVE  JobsBounds'
    BY <2>1, EnqueueBounds DEF EnqueueJob
  <2>2. CASE UNCHANGED jobVars
    BY <2>2 DEF jobVars, JobsBounds
  <2>3. CASE CommitElsewhere
    <3>1. UNCHANGED worker_jobs /\ faults < MaxFaults /\ faults' = faults + 1
      BY <2>3 DEF CommitElsewhere, Fault
    <3> QED BY <3>1, JobsAssumption DEF JobsBounds
  <2> QED BY <2>1, <2>2, <2>3, WorkerBounds, TickBounds DEF JobsNext
<1> QED BY <1>1, <1>2, JobsInductive, PTL DEF JobsSpec

(* Only a transaction that is open is behind.                              *)
LEMMA BehindStep ==
    ASSUME JobsIInv, behind \subseteq InTx, [JobsNext]_jobVars
    PROVE  (behind \subseteq InTx)'
<1>0. pc \in [Procs -> Stages]
    BY DEF JobsIInv, JobsShape
<1>1. ASSUME NEW w \in Procs, NEW stage, pc' = [pc EXCEPT ![w] = stage],
             behind' \subseteq InTx \ {w}
      PROVE  (behind \subseteq InTx)'
    BY <1>0, <1>1 DEF InTx
<1>2. ASSUME NEW w \in Procs,
             \/ CountLive(w) \/ SelectJob(w) \/ Execute(w) \/ ReadFailed(w)
             \/ EnsureJob(w)
      PROVE  (behind \subseteq InTx)'
  <2>1. w \notin InTx /\ behind' \in {behind, InTx}
    BY <1>2 DEF CountLive, SelectJob, Execute, ReadFailed, EnsureJob, Overtake, InTx
  <2>2. \E stage : pc' = [pc EXCEPT ![w] = stage]
    BY <1>2 DEF CountLive, SelectJob, Execute, ReadFailed, EnsureJob, Goto
  <2> QED BY <1>1, <2>1, <2>2
<1>3. ASSUME NEW w \in Procs,
             \/ ClaimJob(w) \/ RescheduleJob(w) \/ CompleteJob(w) \/ FailJob(w)
             \/ Busy(w) \/ WriteFails(w) \/ Stop(w)
      PROVE  (behind \subseteq InTx)'
  <2>1. behind' \in {behind \ {w}, InTx \ {w}}
    BY <1>3 DEF ClaimJob, RescheduleJob, CompleteJob, FailJob, Settle, Busy,
                WriteFails, Stop, Overtake
  <2>2. \E stage : pc' = [pc EXCEPT ![w] = stage]
    BY <1>3 DEF ClaimJob, RescheduleJob, CompleteJob, FailJob, Settle, Busy,
                WriteFails, Stop, Goto
  <2> QED BY <1>1, <2>1, <2>2
<1>4. ASSUME UNCHANGED pc, behind' \in {behind, InTx}
      PROVE  (behind \subseteq InTx)'
    BY <1>4 DEF InTx
<1>5. CASE CommitElsewhere \/ Tick \/ UNCHANGED jobVars
    BY <1>4, <1>5 DEF CommitElsewhere, Tick, jobVars, Overtake
<1>6. ASSUME NEW kind, NEW wait, EnqueueJob(kind, wait)
      PROVE  (behind \subseteq InTx)'
    BY <1>4, <1>6 DEF EnqueueJob, Overtake
<1> QED BY <1>2, <1>3, <1>5, <1>6 DEF JobsNext, WorkerStep

LEMMA BehindInTx == JobsSpec => [](behind \subseteq InTx)
<1>1. JobsInit => behind \subseteq InTx
    BY DEF JobsInit
<1>2. /\ JobsIInv /\ (behind \subseteq InTx) /\ [JobsNext]_jobVars
      => (behind \subseteq InTx)'
    BY BehindStep
<1> QED BY <1>1, <1>2, JobsInductive, PTL DEF JobsSpec

(* Every row keeps the shape of the schema, an instant the clock can be    *)
(* at, and no more attempts than it may have, whatever fails.              *)
THEOREM JobsTypes == JobsSpec => []JobsTypeOK
<1>1. JobsIInv /\ JobsBounds /\ (behind \subseteq InTx) => JobsTypeOK
  <2> SUFFICES ASSUME JobsShape, JobsBounds, behind \subseteq InTx
               PROVE  JobsTypeOK
    BY DEF JobsIInv
  <2>1. ASSUME NEW j \in DOMAIN worker_jobs
        PROVE  worker_jobs[j] \in JobRow
    <3>1. /\ worker_jobs[j] = [c \in Columns |-> worker_jobs[j][c]]
          /\ worker_jobs[j].kind \in Kinds
          /\ worker_jobs[j].status \in JobStatus
          /\ worker_jobs[j].attempts \in 0..MaxAttempts
          /\ worker_jobs[j].wait \in Waits
          /\ worker_jobs[j].lease \in NoLease..Lease
      BY JobsAssumption DEF JobsShape, JobsBounds, NoLease
    <3> QED BY <3>1 DEF JobRow, Columns
  <2> QED BY <2>1 DEF JobsTypeOK, JobsShape, JobsBounds
<1> QED BY <1>1, JobsInductive, JobsBounded, BehindInTx, PTL

(* JobHistory, for one step.                                               *)
JobRowsMove ==
    \A j \in DOMAIN worker_jobs :
        /\ j \in DOMAIN worker_jobs'
        /\ LET old == worker_jobs[j]
               new == worker_jobs'[j]
           IN  /\ new.kind = old.kind
               /\ old.status # new.status =>
                     << old.status, new.status >> \in JobFlow
               /\ new.status = "pending" /\ old.status = "running" =>
                     old.kind = "check" /\ new.attempts = 0
               /\ new.attempts # old.attempts =>
                     \/ new.status = "pending"
                     \/ new.status = "running" /\ new.attempts = old.attempts + 1
               /\ old.status = "running" /\ new.status # "running" =>
                     \E w \in Procs :
                        Working(w) /\ held[w] = j /\ pc'[w] = "polling"

LEMMA UnmovedRows ==
    ASSUME \A j \in DOMAIN worker_jobs :
              /\ j \in DOMAIN worker_jobs'
              /\ worker_jobs'[j].kind = worker_jobs[j].kind
              /\ worker_jobs'[j].status = worker_jobs[j].status
              /\ worker_jobs'[j].attempts = worker_jobs[j].attempts
    PROVE  JobRowsMove
BY DEF JobRowsMove

(* Inserting leaves the other rows alone.                                  *)
LEMMA EnqueueMoves ==
    ASSUME JobsIInv, NEW kind, NEW wait, Enqueue(kind, wait)
    PROVE  JobRowsMove
<1>1. \A j \in DOMAIN worker_jobs : j \in DOMAIN worker_jobs'
                                     /\ worker_jobs'[j] = worker_jobs[j]
    BY NextIdFresh DEF JobsIInv, Enqueue, Insert
<1> QED BY <1>1, UnmovedRows

LEMMA ClaimMoves ==
    ASSUME JobsIInv, NEW w \in Procs, ClaimJob(w)
    PROVE  JobRowsMove
<1>1. PICK k \in DOMAIN worker_jobs :
         /\ worker_jobs[k].status \in {"pending", "retry"}
         /\ worker_jobs' = [worker_jobs EXCEPT
                ![k] = [worker_jobs[k] EXCEPT !.status = "running",
                           !.attempts = @ + 1, !.lease = Lease]]
    BY ClaimTakes
<1>2. /\ DOMAIN worker_jobs[k] = Columns
      /\ worker_jobs[k] = [c \in Columns |-> worker_jobs[k][c]]
    BY DEF JobsIInv, JobsShape
<1>3. /\ DOMAIN worker_jobs' = DOMAIN worker_jobs
      /\ worker_jobs'[k].kind = worker_jobs[k].kind
      /\ worker_jobs'[k].status = "running"
      /\ worker_jobs'[k].attempts = worker_jobs[k].attempts + 1
      /\ \A j \in DOMAIN worker_jobs \ {k} : worker_jobs'[j] = worker_jobs[j]
    BY <1>1, <1>2 DEF Columns
<1> QED BY <1>1, <1>3 DEF JobRowsMove, JobFlow

LEMMA SettlesMove ==
    ASSUME JobsIInv, NEW w \in Procs,
           RescheduleJob(w) \/ CompleteJob(w) \/ FailJob(w)
    PROVE  JobRowsMove
<1> DEFINE k == held[w]
<1>1. PICK row :
         /\ Working(w) /\ Settle(w, row) /\ row.kind = worker_jobs[k].kind
         /\ \/ /\ row.status = "pending" /\ row.kind = "check"
               /\ row.attempts = 0
            \/ /\ row.status \in {"succeeded", "failed", "retry"}
               /\ row.attempts = worker_jobs[k].attempts
    BY SettledRow
<1>2. k \in DOMAIN worker_jobs /\ worker_jobs[k].status = "running"
    BY <1>1 DEF JobsIInv, OneWorkerPerJob
<1>3. /\ DOMAIN worker_jobs' = DOMAIN worker_jobs
      /\ worker_jobs'[k] = row
      /\ \A j \in DOMAIN worker_jobs \ {k} : worker_jobs'[j] = worker_jobs[j]
    BY <1>1, <1>2 DEF Settle
<1>4. Working(w) /\ held[w] = k /\ pc'[w] = "polling"
    BY <1>1 DEF Settle, Goto, JobsIInv, JobsShape
<1> HIDE DEF k
<1> QED BY <1>1, <1>2, <1>3, <1>4 DEF JobRowsMove, JobFlow

LEMMA TickMoves ==
    ASSUME JobsIInv, Tick
    PROVE  JobRowsMove
<1>1. ASSUME NEW j \in DOMAIN worker_jobs
      PROVE  /\ j \in DOMAIN worker_jobs'
             /\ worker_jobs'[j].kind = worker_jobs[j].kind
             /\ worker_jobs'[j].status = worker_jobs[j].status
             /\ worker_jobs'[j].attempts = worker_jobs[j].attempts
  <2>1. DOMAIN worker_jobs[j] = Columns
    BY DEF JobsIInv, JobsShape
  <2> QED BY <2>1 DEF Tick, Columns
<1> QED BY <1>1, UnmovedRows

LEMMA JobsMove == JobsIInv /\ [JobsNext]_jobVars => JobRowsMove
<1> SUFFICES ASSUME JobsIInv, [JobsNext]_jobVars PROVE JobRowsMove
    OBVIOUS
<1>1. ASSUME UNCHANGED worker_jobs PROVE JobRowsMove
    BY <1>1, UnmovedRows
<1>2. ASSUME NEW kind \in Kinds, NEW wait \in 0..MaxWait, EnqueueJob(kind, wait)
      PROVE  JobRowsMove
    BY <1>2, EnqueueMoves DEF EnqueueJob
<1>3. ASSUME NEW w \in Procs, WorkerStep(w) \/ WriteFails(w) \/ Stop(w)
      PROVE  JobRowsMove
  <2>1. CASE \/ CountLive(w) \/ SelectJob(w) \/ Execute(w) \/ ReadFailed(w)
             \/ Busy(w) \/ WriteFails(w) \/ Stop(w)
    BY <2>1, <1>1 DEF CountLive, SelectJob, Execute, ReadFailed, Busy,
                      WriteFails, Stop
  <2>2. CASE EnsureJob(w)
    BY <2>2, EnqueueMoves DEF EnsureJob
  <2> QED BY <1>3, <2>1, <2>2, ClaimMoves, SettlesMove DEF WorkerStep
<1>4. CASE CommitElsewhere
    BY <1>1, <1>4 DEF CommitElsewhere
<1> QED BY <1>1, <1>2, <1>3, <1>4, TickMoves DEF JobsNext, jobVars

(* A job moves along the flow only, one attempt per claim; what is settled *)
(* stays settled (the WHERE clauses of jobs.go).                           *)
THEOREM JobsAlongTheFlow == JobsSpec => JobHistory
<1>1. JobsIInv /\ [JobsNext]_jobVars => [JobRowsMove]_jobVars
    BY JobsMove
<1> QED BY JobsInductive, <1>1, PTL DEF JobsSpec, JobHistory, JobRowsMove

-----------------------------------------------------------------------------
Ensuring == {w \in Procs : pc[w] = "ensuring"}

(* Whoever is about to insert a check has found none: the checks there are *)
(* and those to come are never more than the processes.                    *)
ChecksBound ==
    Cardinality(LiveChecks) + Cardinality(Ensuring) <= Cardinality(Procs)

LEMMA ChecksFinite ==
    ASSUME JobsShape
    PROVE  /\ IsFiniteSet(LiveChecks) /\ Cardinality(LiveChecks) \in Nat
           /\ IsFiniteSet(Ensuring) /\ Cardinality(Ensuring) \in Nat
           /\ Cardinality(Ensuring) <= Cardinality(Procs)
           /\ Cardinality(Procs) \in Nat
<1>1. IsFiniteSet(DOMAIN worker_jobs)
  <2>1. PICK n \in Nat : DOMAIN worker_jobs = 1..n
    BY DEF JobsShape
  <2>2. IsFiniteSet(1..n)
    BY FS_Interval
  <2> QED BY <2>1, <2>2
<1>2. IsFiniteSet(LiveChecks)
    BY <1>1, FS_Subset DEF LiveChecks
<1>3. IsFiniteSet(Ensuring) /\ Cardinality(Ensuring) <= Cardinality(Procs)
    BY FS_Subset, JobsAssumption DEF Ensuring
<1> QED BY <1>2, <1>3, FS_CardinalityType, JobsAssumption

(* Fewer checks and fewer starting processes keep the bound.               *)
LEMMA FewerChecks ==
    ASSUME JobsShape, ChecksBound,
           LiveChecks' \subseteq LiveChecks, Ensuring' \subseteq Ensuring
    PROVE  ChecksBound'
<1>1. /\ IsFiniteSet(LiveChecks) /\ IsFiniteSet(Ensuring)
      /\ Cardinality(LiveChecks) \in Nat /\ Cardinality(Ensuring) \in Nat
      /\ Cardinality(Procs) \in Nat
    BY ChecksFinite
<1>2. /\ Cardinality(LiveChecks') <= Cardinality(LiveChecks)
      /\ IsFiniteSet(LiveChecks')
    BY <1>1, FS_Subset
<1>3. /\ Cardinality(Ensuring') <= Cardinality(Ensuring)
      /\ IsFiniteSet(Ensuring')
    BY <1>1, FS_Subset
<1>4. Cardinality(LiveChecks') \in Nat /\ Cardinality(Ensuring') \in Nat
    BY <1>2, <1>3, FS_CardinalityType
<1> QED BY <1>1, <1>2, <1>3, <1>4 DEF ChecksBound

(* A step that inserts no check leaves no more of them alive.              *)
LEMMA NoNewCheck ==
    ASSUME JobRowsMove, JobsShape,
           \A j \in DOMAIN worker_jobs' \ DOMAIN worker_jobs :
              worker_jobs'[j].kind # "check"
    PROVE  LiveChecks' \subseteq LiveChecks
<1> SUFFICES ASSUME NEW j \in DOMAIN worker_jobs',
                    worker_jobs'[j].kind = "check",
                    worker_jobs'[j].status \in LiveStatus
             PROVE  j \in LiveChecks
    BY DEF LiveChecks
<1>1. j \in DOMAIN worker_jobs
    OBVIOUS
<1>2. worker_jobs[j].kind = "check"
    BY <1>1 DEF JobRowsMove
<1>3. worker_jobs[j].status \in LiveStatus
  <2>1. CASE worker_jobs[j].status = worker_jobs'[j].status
    BY <2>1
  <2>2. CASE << worker_jobs[j].status, worker_jobs'[j].status >> \in JobFlow
    BY <2>2 DEF JobFlow, LiveStatus
  <2> QED BY <1>1, <2>1, <2>2 DEF JobRowsMove
<1> QED BY <1>1, <1>2, <1>3 DEF LiveChecks

(* EnsureJob turns one that is starting into one more check.               *)
LEMMA EnsureBound ==
    ASSUME JobsIInv, ChecksBound, NEW w \in Procs, EnsureJob(w)
    PROVE  ChecksBound'
<1>1. /\ NextId \notin DOMAIN worker_jobs
      /\ DOMAIN worker_jobs' = DOMAIN worker_jobs \cup {NextId}
      /\ \A j \in DOMAIN worker_jobs : worker_jobs'[j] = worker_jobs[j]
      /\ worker_jobs'[NextId].kind = "check"
      /\ worker_jobs'[NextId].status = "pending"
    BY NextIdFresh DEF JobsIInv, EnsureJob, Enqueue, Insert
<1>2. LiveChecks' = LiveChecks \cup {NextId} /\ NextId \notin LiveChecks
    BY <1>1 DEF LiveChecks, LiveStatus
<1>3. w \in Ensuring /\ Ensuring' = Ensuring \ {w}
    BY DEF EnsureJob, Goto, Ensuring, JobsIInv, JobsShape
<1>4. /\ IsFiniteSet(LiveChecks) /\ Cardinality(LiveChecks) \in Nat
      /\ IsFiniteSet(Ensuring) /\ Cardinality(Ensuring) \in Nat
      /\ Cardinality(Procs) \in Nat
    BY ChecksFinite DEF JobsIInv
<1>5. Cardinality(LiveChecks') = Cardinality(LiveChecks) + 1
    BY <1>2, <1>4, FS_AddElement
<1>6. Cardinality(Ensuring') = Cardinality(Ensuring) - 1
    BY <1>3, <1>4, FS_RemoveElement
<1> QED BY <1>4, <1>5, <1>6 DEF ChecksBound

(* Who found none alive is one of the processes.                           *)
LEMMA CountBound ==
    ASSUME JobsIInv, ChecksBound, NEW w \in Procs, CountLive(w)
    PROVE  ChecksBound'
<1>1. LiveChecks' = LiveChecks
    BY DEF CountLive, LiveChecks
<1>2. CASE LiveChecks = {}
  <2>1. Cardinality(LiveChecks') = 0
    BY <1>1, <1>2, FS_EmptySet
  <2>2. /\ Cardinality(Ensuring') <= Cardinality(Procs)
        /\ Cardinality(Ensuring') \in Nat /\ Cardinality(Procs) \in Nat
    <3>1. Ensuring' \subseteq Procs /\ IsFiniteSet(Procs)
      BY JobsAssumption DEF Ensuring
    <3> QED BY <3>1, FS_Subset, FS_CardinalityType
  <2> QED BY <2>1, <2>2 DEF ChecksBound
<1>3. CASE LiveChecks # {}
  <2>1. pc' = [pc EXCEPT ![w] = "polling"]
    BY <1>3 DEF CountLive, LiveChecks, Goto
  <2>2. Ensuring' \subseteq Ensuring
    BY <2>1 DEF Ensuring, JobsIInv, JobsShape
  <2> QED BY <1>1, <2>2, FewerChecks DEF JobsIInv
<1> QED BY <1>2, <1>3

LEMMA ChecksStep ==
    ASSUME JobsIInv, ChecksBound, [JobsNext]_jobVars
    PROVE  ChecksBound'
<1>1. JobRowsMove
    BY JobsMove
<1>2. ASSUME NEW kind \in Kinds \ {"check"}, NEW wait \in 0..MaxWait,
             EnqueueJob(kind, wait)
      PROVE  ChecksBound'
  <2>1. \A j \in DOMAIN worker_jobs' \ DOMAIN worker_jobs :
           worker_jobs'[j].kind # "check"
    BY <1>2 DEF EnqueueJob, Enqueue, Insert
  <2>2. Ensuring' = Ensuring
    BY <1>2 DEF EnqueueJob, Ensuring
  <2> QED BY <1>1, <2>1, <2>2, NoNewCheck, FewerChecks DEF JobsIInv
<1>3. ASSUME NEW w \in Procs,
             \/ SelectJob(w) \/ ClaimJob(w) \/ Execute(w) \/ RescheduleJob(w)
             \/ CompleteJob(w) \/ ReadFailed(w) \/ FailJob(w) \/ Busy(w)
             \/ WriteFails(w) \/ Stop(w)
      PROVE  ChecksBound'
  <2>1. DOMAIN worker_jobs' = DOMAIN worker_jobs
    BY <1>3 DEF SelectJob, ClaimJob, Claimed, Execute, RescheduleJob,
                CompleteJob, ReadFailed, FailJob, Settle, Busy, WriteFails, Stop
  <2>2. \E stage \in Stages \ {"ensuring"} : pc' = [pc EXCEPT ![w] = stage]
    <3>1. CASE Execute(w)
      <4>1. PICK result \in Results(worker_jobs[held[w]].kind) :
                pc' = [pc EXCEPT ![w] = result]
        BY <3>1 DEF Execute, Goto
      <4>2. worker_jobs[held[w]].kind \in Kinds
        BY <3>1 DEF Execute, Working, JobsIInv, JobsShape, OneWorkerPerJob
      <4>3. result \in Stages \ {"ensuring"}
        BY <4>1, <4>2 DEF Results, Kinds, Stages
      <4> QED BY <4>1, <4>3
    <3>2. CASE ~ Execute(w)
      BY <1>3, <3>2 DEF SelectJob, ClaimJob, RescheduleJob, CompleteJob,
            ReadFailed, FailJob, Settle, Busy, WriteFails, Stop, Goto, Stages
    <3> QED BY <3>1, <3>2
  <2>3. Ensuring' \subseteq Ensuring
    BY <2>2 DEF Ensuring, JobsIInv, JobsShape
  <2> QED BY <1>1, <2>1, <2>3, NoNewCheck, FewerChecks DEF JobsIInv
<1>4. CASE CommitElsewhere \/ Tick \/ UNCHANGED jobVars
  <2>1. DOMAIN worker_jobs' = DOMAIN worker_jobs /\ Ensuring' = Ensuring
    BY <1>4 DEF CommitElsewhere, Tick, jobVars, Ensuring
  <2> QED BY <1>1, <2>1, NoNewCheck, FewerChecks DEF JobsIInv
<1> QED BY <1>2, <1>3, <1>4, EnsureBound, CountBound DEF JobsNext, WorkerStep

(* Starting processes may insert a check each, but restarts and races      *)
(* never make more of them than there are processes (EnsureJob).           *)
THEOREM ChecksBounded == JobsSpec => []ChecksPerProcess
<1>1. JobsInit => ChecksBound
  <2> SUFFICES ASSUME JobsInit PROVE ChecksBound
    OBVIOUS
  <2>1. LiveChecks = {} /\ Ensuring = {}
    BY DEF JobsInit, EmptyTable, LiveChecks, Ensuring
  <2>2. Cardinality(Procs) \in Nat
    BY FS_CardinalityType, JobsAssumption
  <2> QED BY <2>1, <2>2, FS_EmptySet DEF ChecksBound
<1>2. JobsIInv /\ ChecksBound /\ [JobsNext]_jobVars => ChecksBound'
    BY ChecksStep
<1>3. JobsIInv /\ ChecksBound => ChecksPerProcess
  <2> SUFFICES ASSUME JobsShape, ChecksBound PROVE ChecksPerProcess
    BY DEF JobsIInv
  <2> QED BY ChecksFinite DEF ChecksBound, ChecksPerProcess
<1> QED BY <1>1, <1>2, <1>3, JobsInductive, PTL DEF JobsSpec

(* The first half of OneCheck: a worker polls once there is a check.       *)
CheckEnsured ==
    \A w \in Procs : pc[w] \notin {"down", "ensuring"} =>
        \E j \in DOMAIN worker_jobs : worker_jobs[j].kind = "check"

LEMMA EnsuredStep ==
    ASSUME JobsIInv, behind \subseteq InTx, CheckEnsured, [JobsNext]_jobVars
    PROVE  CheckEnsured'
<1>1. (\E j \in DOMAIN worker_jobs : worker_jobs[j].kind = "check") =>
         CheckEnsured'
    BY JobsMove DEF JobRowsMove, CheckEnsured
<1>2. CASE \A j \in DOMAIN worker_jobs : worker_jobs[j].kind # "check"
  <2>0. pc \in [Procs -> Stages]
    BY DEF JobsIInv, JobsShape
  <2>1. \A w \in Procs : pc[w] \in {"down", "ensuring"}
    BY <1>2 DEF CheckEnsured
  <2>2. ASSUME NEW w \in Procs, EnsureJob(w)
        PROVE  CheckEnsured'
    BY <2>2 DEF EnsureJob, Enqueue, Insert, CheckEnsured
  <2>3. ASSUME NEW w \in Procs, CountLive(w) \/ Stop(w)
        PROVE  CheckEnsured'
    <3>1. pc' \in {[pc EXCEPT ![w] = "down"], [pc EXCEPT ![w] = "ensuring"]}
      BY <1>2, <2>3 DEF CountLive, Stop, Goto
    <3> QED BY <2>0, <2>1, <3>1 DEF CheckEnsured
  <2>4. CASE UNCHANGED pc
    BY <2>1, <2>4 DEF CheckEnsured
  <2>5. ASSUME NEW w \in Procs
        PROVE  /\ ~ SelectJob(w) /\ ~ ClaimJob(w) /\ ~ Execute(w)
               /\ ~ RescheduleJob(w) /\ ~ CompleteJob(w) /\ ~ ReadFailed(w)
               /\ ~ FailJob(w) /\ ~ WriteFails(w) /\ ~ Busy(w)
    BY <2>1 DEF SelectJob, ClaimJob, Execute, RescheduleJob, CompleteJob,
                ReadFailed, FailJob, WriteFails, Busy, InTx
  <2> QED BY <2>2, <2>3, <2>4, <2>5
       DEF JobsNext, WorkerStep, EnqueueJob, CommitElsewhere, Tick, jobVars
<1> QED BY <1>1, <1>2

(* As long as one process runs at a time there is a check once it serves,  *)
(* and never a second one, whatever crashes and restarts (EnsureJob).      *)
THEOREM OneProcessOneCheck ==
    ASSUME Cardinality(Procs) = 1
    PROVE  JobsSpec => []OneCheck
<1>1. JobsInit => CheckEnsured
    BY DEF JobsInit, CheckEnsured
<1>2. /\ JobsIInv /\ (behind \subseteq InTx) /\ CheckEnsured /\ [JobsNext]_jobVars
      => CheckEnsured'
    BY EnsuredStep
<1>3. JobsIInv /\ ChecksPerProcess /\ CheckEnsured => OneCheck
  <2> SUFFICES ASSUME JobsShape, ChecksPerProcess, CheckEnsured,
                      NEW i \in LiveChecks, NEW j \in LiveChecks, i # j
               PROVE  FALSE
    BY DEF JobsIInv, OneCheck, CheckEnsured, LiveChecks
  <2>1. /\ IsFiniteSet(LiveChecks) /\ Cardinality(LiveChecks) \in Nat
        /\ Cardinality(LiveChecks) <= 1
    BY ChecksFinite DEF ChecksPerProcess
  <2>2. /\ IsFiniteSet(LiveChecks \ {i})
        /\ Cardinality(LiveChecks \ {i}) = Cardinality(LiveChecks) - 1
    BY <2>1, FS_RemoveElement
  <2>3. Cardinality(LiveChecks \ {i}) \in Nat
    BY <2>2, FS_CardinalityType
  <2>4. Cardinality(LiveChecks \ {i}) = 0
    BY <2>1, <2>2, <2>3
  <2>5. LiveChecks \ {i} = {}
    BY <2>2, <2>4, FS_EmptySet
  <2> QED BY <2>5
<1> QED BY <1>1, <1>2, <1>3, JobsInductive, BehindInTx, ChecksBounded, PTL
     DEF JobsSpec

-----------------------------------------------------------------------------
(* A worker works on what it worked on before, or on a job that waited.    *)
LEMMA WorkersHold ==
    ASSUME JobsIInv, [JobsNext]_jobVars, NEW w \in Procs, Working(w)'
    PROVE  \/ Working(w) /\ held'[w] = held[w]
           \/ worker_jobs[held'[w]].status \in {"pending", "retry"}
<1>0. pc \in [Procs -> Stages] /\ held \in [Procs -> Jobs \cup {NoJob}]
    BY DEF JobsIInv, JobsShape
<1>1. ASSUME NEW kind \in Kinds, NEW wait \in 0..MaxWait, EnqueueJob(kind, wait)
      PROVE  Working(w) /\ held'[w] = held[w]
    BY <1>1 DEF EnqueueJob, Working
<1>2. ASSUME NEW u \in Procs, ClaimJob(u)
      PROVE  \/ Working(w) /\ held'[w] = held[w]
             \/ worker_jobs[held'[w]].status \in {"pending", "retry"}
  <2>1. /\ worker_jobs[held[u]].status \in {"pending", "retry"}
        /\ held' = held
        /\ pc' = [pc EXCEPT ![u] = "executing"]
    BY <1>2, ClaimTakes
  <2> QED BY <1>0, <2>1 DEF Working
<1>3. ASSUME NEW u \in Procs, Execute(u)
      PROVE  Working(w) /\ held'[w] = held[w]
  <2>1. /\ UNCHANGED held /\ pc[u] = "executing"
        /\ \E stage : pc' = [pc EXCEPT ![u] = stage]
    BY <1>3 DEF Execute, Goto
  <2> QED BY <1>0, <2>1 DEF Working
<1>4. ASSUME NEW u \in Procs,
             \/ CountLive(u) \/ EnsureJob(u) \/ RescheduleJob(u) \/ CompleteJob(u)
             \/ FailJob(u) \/ Busy(u) \/ WriteFails(u) \/ Stop(u)
      PROVE  Working(w) /\ held'[w] = held[w]
  <2>1. /\ UNCHANGED held
        /\ \E stage \in {"down", "ensuring", "polling"} :
              pc' = [pc EXCEPT ![u] = stage]
    BY <1>4 DEF CountLive, EnsureJob, RescheduleJob, CompleteJob, FailJob,
                Busy, WriteFails, Stop, Settle, Goto
  <2> QED BY <1>0, <2>1 DEF Working
<1>5. CASE CommitElsewhere \/ Tick \/ UNCHANGED jobVars
    BY <1>5 DEF CommitElsewhere, Tick, jobVars, Working
<1>6. ASSUME NEW u \in Procs, SelectJob(u)
      PROVE  Working(w) /\ held'[w] = held[w]
  <2>1. /\ pc' = [pc EXCEPT ![u] = "claiming"]
        /\ \E j : held' = [held EXCEPT ![u] = j]
    BY <1>6 DEF SelectJob, Goto
  <2> QED BY <1>0, <2>1 DEF Working
<1>7. ASSUME NEW u \in Procs, ReadFailed(u)
      PROVE  Working(w) /\ held'[w] = held[w]
  <2>1. /\ pc' = [pc EXCEPT ![u] = "failing"] /\ pc[u] = "failed"
        /\ UNCHANGED held
    BY <1>7 DEF ReadFailed, Goto
  <2> QED BY <1>0, <2>1 DEF Working
<1> QED BY <1>1, <1>2, <1>3, <1>4, <1>5, <1>6, <1>7 DEF JobsNext, WorkerStep

LEMMA StrandedStep ==
    ASSUME NEW j, JobsIInv, Stranded(j), [JobsNext]_jobVars
    PROVE  Stranded(j)' /\ worker_jobs'[j].kind = worker_jobs[j].kind
<1>1. /\ j \in DOMAIN worker_jobs'
      /\ worker_jobs'[j].kind = worker_jobs[j].kind
      /\ worker_jobs'[j].status = "running"
    BY JobsMove DEF JobRowsMove, Stranded
<1>2. ASSUME NEW w \in Procs, Working(w)', held'[w] = j
      PROVE  FALSE
    BY <1>2, WorkersHold DEF Stranded
<1> QED BY <1>1, <1>2 DEF Stranded, Working

(* A stranded job is stranded for ever: restarts, races and an expired     *)
(* lease do not bring it back, because ClaimJob looks at pending and retry *)
(* jobs only.                                                              *)
THEOREM StrandedForEver ==
    ASSUME NEW j
    PROVE  JobsSpec => [](Stranded(j) => []Stranded(j))
<1>1. JobsIInv /\ Stranded(j) /\ [JobsNext]_jobVars => Stranded(j)'
    BY StrandedStep
<1> QED BY <1>1, JobsInductive, PTL DEF JobsSpec

CheckStranded == \E j \in Jobs : IsCheck(j) /\ Stranded(j)

SomeCheckRuns == \E j \in Jobs : CheckRuns(j)

(* Once the one process stopped while it ran the periodic check, or failed *)
(* to settle it, no check is ever run again, however often it is restarted:*)
(* EnsureJob counts the stranded check as a live one, and ClaimJob never   *)
(* takes it.                                                               *)
THEOREM NoCheckAfterStranding ==
    ASSUME Cardinality(Procs) = 1
    PROVE  JobsSpec => [](CheckStranded => [](~ SomeCheckRuns))
<1>1. JobsIInv /\ CheckStranded /\ [JobsNext]_jobVars => CheckStranded'
  <2> SUFFICES ASSUME JobsIInv, [JobsNext]_jobVars, NEW j \in Jobs,
                      IsCheck(j), Stranded(j)
               PROVE  CheckStranded'
    BY DEF CheckStranded
  <2>1. Stranded(j)' /\ worker_jobs'[j].kind = "check"
    BY StrandedStep DEF IsCheck
  <2> QED BY <2>1 DEF CheckStranded, Stranded, IsCheck
<1>2. JobsIInv /\ OneCheck /\ CheckStranded => ~ SomeCheckRuns
  <2> SUFFICES ASSUME JobsIInv, OneCheck, NEW i \in Jobs, IsCheck(i), Stranded(i),
                      NEW j \in Jobs, IsCheck(j),
                      NEW w \in Procs, Working(w), held[w] = j
               PROVE  FALSE
    BY DEF CheckStranded, SomeCheckRuns, CheckRuns
  <2>1. worker_jobs[j].status = "running" /\ worker_jobs[i].status = "running"
    BY DEF JobsIInv, OneWorkerPerJob, Stranded
  <2>2. i = j
    BY <2>1 DEF OneCheck, IsCheck, LiveStatus
  <2> QED BY <2>2 DEF Stranded
<1> QED BY <1>1, <1>2, JobsInductive, OneProcessOneCheck, PTL DEF JobsSpec

(* The worker that runs a job lets go of it without having settled it.     *)
LetsGo(j) ==
    \E w \in Procs :
        /\ Working(w) /\ held[w] = j
        /\ Busy(w) \/ WriteFails(w) \/ Stop(w)

(* A job that has a worker keeps it, or is settled, unless its worker lets *)
(* go of it; one that is claimed has a worker.                             *)
LEMMA StrandingStep ==
    ASSUME NEW j, JobsIInv, [JobsNext]_jobVars, ~ Stranded(j), Stranded(j)'
    PROVE  LetsGo(j)
<1>0. pc \in [Procs -> Stages] /\ held \in [Procs -> Jobs \cup {NoJob}]
    BY DEF JobsIInv, JobsShape
<1>1. ASSUME NEW w \in Procs, ClaimJob(w)
      PROVE  FALSE
  <2>1. /\ pc[w] = "claiming" /\ pc' = [pc EXCEPT ![w] = "executing"]
        /\ DOMAIN worker_jobs' = DOMAIN worker_jobs
        /\ \A i \in DOMAIN worker_jobs \ {held[w]} : worker_jobs'[i] = worker_jobs[i]
        /\ held' = held
    BY <1>1, ClaimTakes
  <2>2. Working(w)' /\ \A u \in Procs : Working(u) => Working(u)'
    BY <1>0, <2>1 DEF Working
  <2>3. j # held[w]
    BY <2>1, <2>2 DEF Stranded
  <2> QED BY <2>1, <2>2, <2>3 DEF Stranded
<1>2. ASSUME NEW w \in Procs,
             RescheduleJob(w) \/ CompleteJob(w) \/ FailJob(w)
      PROVE  FALSE
  <2> DEFINE k == held[w]
  <2>1. PICK row :
           /\ Working(w) /\ Settle(w, row)
           /\ row.status \in {"pending", "succeeded", "failed", "retry"}
    BY <1>2, SettledRow
  <2>2. k \in DOMAIN worker_jobs /\ worker_jobs[k].status = "running"
    BY <2>1 DEF JobsIInv, OneWorkerPerJob
  <2>3. /\ DOMAIN worker_jobs' = DOMAIN worker_jobs
        /\ worker_jobs'[k].status # "running"
        /\ \A i \in DOMAIN worker_jobs \ {k} : worker_jobs'[i] = worker_jobs[i]
        /\ UNCHANGED held
    BY <2>1, <2>2 DEF Settle
  <2>4. \A u \in Procs : Working(u) /\ held[u] # k => Working(u)'
    BY <1>0, <2>1 DEF Settle, Goto, Working
  <2> HIDE DEF k
  <2> QED BY <2>3, <2>4 DEF Stranded
<1>3. ASSUME UNCHANGED worker_jobs,
             \A w \in Procs : Working(w) => Working(w)' /\ held'[w] = held[w]
      PROVE  FALSE
    BY <1>3 DEF Stranded
<1>4. ASSUME NEW w \in Procs, Execute(w)
      PROVE  FALSE
  <2>1. PICK result \in Results(worker_jobs[held[w]].kind) :
            pc' = [pc EXCEPT ![w] = result]
    BY <1>4 DEF Execute, Goto
  <2>2. worker_jobs[held[w]].kind \in Kinds
    BY <1>4 DEF Execute, Working, JobsIInv, JobsShape, OneWorkerPerJob
  <2>3. result \in {"succeeded", "failed"}
    BY <2>1, <2>2 DEF Results, Kinds
  <2>4. \A u \in Procs : Working(u) => Working(u)'
    BY <1>0, <2>1, <2>3 DEF Working
  <2> QED BY <1>3, <1>4, <2>4 DEF Execute
<1>5. ASSUME NEW w \in Procs, CountLive(w) \/ SelectJob(w) \/ ReadFailed(w)
      PROVE  FALSE
  <2>1. /\ UNCHANGED worker_jobs
        /\ \A u \in Procs : Working(u) => Working(u)' /\ held'[u] = held[u]
    BY <1>0, <1>5 DEF CountLive, SelectJob, ReadFailed, Goto, Working
  <2> QED BY <1>3, <2>1
<1>6. ASSUME NEW kind, NEW wait, Enqueue(kind, wait), UNCHANGED held,
             \A w \in Procs : Working(w) => Working(w)'
      PROVE  FALSE
  <2>1. /\ \A i \in DOMAIN worker_jobs' : i = NextId \/ i \in DOMAIN worker_jobs
        /\ \A i \in DOMAIN worker_jobs : worker_jobs'[i] = worker_jobs[i]
        /\ worker_jobs'[NextId].status = "pending"
    BY <1>6, NextIdFresh DEF JobsIInv, Enqueue, Insert
  <2> QED BY <1>6, <2>1 DEF Stranded
<1>7. ASSUME NEW kind, NEW wait, EnqueueJob(kind, wait)
      PROVE  FALSE
    BY <1>6, <1>7 DEF EnqueueJob, Working
<1>8. ASSUME NEW w \in Procs, EnsureJob(w)
      PROVE  FALSE
  <2>1. \A u \in Procs : Working(u) => Working(u)'
    BY <1>0, <1>8 DEF EnsureJob, Goto, Working
  <2> QED BY <1>6, <1>8, <2>1 DEF EnsureJob
<1>9. CASE Tick
  <2>1. ASSUME NEW i \in DOMAIN worker_jobs
        PROVE  worker_jobs'[i].status = worker_jobs[i].status
    <3>1. DOMAIN worker_jobs[i] = Columns
      BY DEF JobsIInv, JobsShape
    <3> QED BY <1>9, <3>1 DEF Tick, Columns
  <2>2. /\ DOMAIN worker_jobs' = DOMAIN worker_jobs
        /\ UNCHANGED << pc, held >>
    BY <1>9 DEF Tick
  <2> QED BY <2>1, <2>2 DEF Stranded, Working
<1>10. CASE CommitElsewhere \/ UNCHANGED jobVars
  <2>1. UNCHANGED << worker_jobs, pc, held >>
    BY <1>10 DEF CommitElsewhere, jobVars
  <2> QED BY <1>3, <2>1 DEF Working
<1>11. ASSUME NEW w \in Procs, Busy(w) \/ WriteFails(w) \/ Stop(w)
       PROVE  LetsGo(j)
  <2>1. /\ UNCHANGED << worker_jobs, held >>
        /\ \E stage : pc' = [pc EXCEPT ![w] = stage]
    BY <1>11 DEF Busy, WriteFails, Stop, Goto
  <2>2. PICK u \in Procs : Working(u) /\ held[u] = j
    BY <2>1 DEF Stranded
  <2>3. u = w
    BY <1>0, <2>1, <2>2 DEF Stranded, Working
  <2> QED BY <1>11, <2>2, <2>3 DEF LetsGo
<1> QED BY <1>1, <1>2, <1>4, <1>5, <1>7, <1>8, <1>9, <1>10, <1>11
     DEF JobsNext, WorkerStep

(* Claims, retries and races of other workers strand no job: a job loses   *)
(* its worker only when that worker itself is stopped, or when the write   *)
(* that should settle it fails, and a commit of anyone between the SELECT  *)
(* and the UPDATE of FailJob is enough for that.                           *)
THEOREM StrandedByItsWorker ==
    ASSUME NEW j
    PROVE  JobsSpec => [][(~ Stranded(j) /\ Stranded(j)') => LetsGo(j)]_jobVars
<1>1. /\ JobsIInv /\ [JobsNext]_jobVars
      => [(~ Stranded(j) /\ Stranded(j)') => LetsGo(j)]_jobVars
    BY StrandingStep
<1> QED BY <1>1, JobsInductive, PTL DEF JobsSpec
=============================================================================
