# VesselTrial: specifications, model checking and proofs

VesselTrial is a Go service over one SQLite database (WAL mode) for the class
review, trial voyages, defects and delivery of vessels. This directory holds
TLA+ modules translated from its source, TLC configurations for small instances
and proofs checked by TLAPS. All paths below are relative to the repository
root; `store.go`, `review.go`, `trial.go`, `jobs.go`, ... are the files of
`internal/storage/sqlite/`.

## 1. Inventory of the system

| component | state | operations | interacts with |
|---|---|---|---|
| Vessels and class review (`review.go`, `internal/review`) | `vessels`, `class_reviews`, `review_decisions`, `idempotency_keys` | RegisterVessel, Draft, Submit (idempotent), Decide | plans read approvals; audit |
| Trial plans and legs (`trial.go`, `internal/trial`) | `trial_plans`, `voyage_legs` | CreatePlan, AddLeg, Schedule, Release, Complete, ListLegs | reviews; telemetry and defects read legs; delivery reads plans |
| Transactions (`store.go`) | open transactions, snapshots, the write lock | InTx, single statements | every operation above and below |
| Job queue (`jobs.go`, `internal/worker`, `cmd/server`) | `worker_jobs`, the worker's place in its cycle | EnqueueJob, EnsureJob, ClaimJob, CompleteJob, RescheduleJob, FailJob | MarkStaleStations |
| Telemetry and stations (`telemetry.go`, `internal/telemetry`) | `telemetry_samples`, `shore_stations` | CreateStation, IngestTelemetry, MarkStaleStations, lists | legs, worker |
| Defects (`defect.go`, `internal/defect`) | `defects`, `defect_actions` | CreateDefect, TransitionDefect, lists | legs, delivery gate |
| Delivery (`delivery.go`, `internal/delivery`) | `delivery_batches` | CreateDeliveryBatch, EvaluateDelivery | plans, defects |
| Sessions (`auth.go`, `internal/auth`, `internal/middleware`) | `users`, `sessions` | Register, Login, Authenticate, Logout | gates every command |
| Audit (`internal/audit`) | `audit_events` | Write, inside the caller's transaction | all of the above |
| Schema and start (`migrations.go`, `cmd/server/main.go`) | `schema_migrations`, the process | Migrate, EnsureJob, shutdown | all tables |
| HTTP API (`internal/httpapi`) | none | decoding, `If-Match`, `Idempotency-Key`, status of errors, pagination | services |
| Configuration, request ids, faults | none | parsing, classification of errors | all |

What is hard in this code, and what makes each part correct:

* **Reviews.** A submission is retried with a key; two surveyors decide at once.
  Correct if status, decision row, key and audit trail never disagree, and no
  approval is ever taken back from under a plan.
* **Plans and legs.** Each rule reads one table and writes another. Correct if
  no vessel is on two legs at once, the plan's status is the one its legs call
  for, scheduling freezes the legs, and every plan can still be finished.
* **Transactions.** Handlers check on SELECTs and write later, on up to eight
  connections. Correct if the result is that of some order of whole requests,
  and every request is answered.
* **Jobs.** Claims race, servers stop in the middle, failures back off. Correct
  if one worker runs a job at a time, attempts are bounded, nothing starves, and
  a claimed job is not lost with its worker.
* **Telemetry.** A duplicate or cancelled sample must leave the station's
  freshness alone; the staleness mark races with the next sample.
* **Defects, delivery.** Dispositions follow their order and leave their
  evidence. A released batch had a completed plan and no open defect at the
  moment of its gate, and only at that moment.
* **Sessions.** A revoked, expired or inactive identity starts no command; one
  already past the check goes on.

`PROJECT.json` lists the hazards one by one, each at its line.

## 2. Modules

```
Tables   TextTime                     Startup (uses Tables)
   \        |                            |
 ClassReview|                         Sessions         WorkerJobs (uses Tables)
      \     |
     TrialPlan                         VoyagePromise and DeliveryPromise,
         |                             the abstract specifications of
     Operations                        TrialPlan and of Delivery
      /      \
 Disposition  Telemetry
     |          |
  Delivery      |
      \        /
    TrialService      one request at a time
         |
      StoreTx         the same requests as concurrent SQLite transactions
```

* **`Tables`**: a table is a function on its row ids; `Insert`, and `Advance`,
  the conditional UPDATE that sets a status and takes the next version.
* **`TextTime`**: `formatTime` and SQLite's comparison of time columns. The date
  and time down to the second have fixed width, so they are one letter;
  RFC3339Nano trims the fraction, so it is written out, with two digits for Go's
  nine.
* **`ClassReview`**: `internal/review` and `review.go`. `XCheck` is what a
  handler reads and refuses on, `XWrite` its UPDATE, INSERTs and audit event,
  `X` both, as one step. A refused request changes nothing and is no step.
  `replies` is a history of the successful answers to keyed submissions: the
  property about keys is about what clients were told. `KeyExpires` is the
  clock.
* **`TrialPlan`**: `internal/trial` and `trial.go` on top of `ClassReview`.
  `Activated` and `Finished` are the second UPDATE of ReleaseLeg and
  CompleteLeg.
* **`VoyagePromise`**: what the harbour may rely on when a vessel sails, without
  reviews, versions, actors or time text: a vessel is cleared once and for all,
  a plan is drafted for a cleared vessel, takes voyages that do not meet, is
  frozen, and is done with its last voyage; a voyage departs on a frozen plan
  and while no other voyage of the vessel that meets it, to the second, is at
  sea. `VoyagePromised` is `VoyagePromise` under the mapping that `TrialPlan`
  gives: `Cleared` is read off the approved reviews, `PlanStage` and `LegStage`
  off the status columns. In the abstract specification the end of a plan is
  part of the last arrival; in the code it is a second UPDATE that counts rows.
* **`Operations`**: the staff ashore and the reference from a defect or a sample
  to a leg, with the check that it is a leg of the vessel.
* **`Disposition`**: `internal/defect` and `defect.go`: CreateDefect and
  TransitionDefect with their rows in `defect_actions` and their audit events.
* **`Delivery`**: `internal/delivery` and `delivery.go`: CreateDeliveryBatch and
  EvaluateDelivery, whose outcome (`released` or `quality_gate`) is computed
  from the plans and defects of the vessel. No operation sets `delivered`.
* **`DeliveryPromise`**: what the yard may rely on, without rows, versions,
  actors or transactions: vessels that have sailed, defects open and closed,
  batches in their stage. `DeliveryPromised` is `DeliveryPromise` under the
  refinement mapping that `Delivery` gives (`sailed` is the set of vessels with
  a completed plan, and so on); the release is possible only with a completed
  trial and no open defect *at that moment*, and nothing takes a completed trial
  or a closed defect back.
* **`Telemetry`**: CreateStation, IngestTelemetry and the staleness check,
  against a clock with fractions of a second. The check has a life of its own,
  the one row `check`: `StartCheck` claims it and computes the cutoff,
  `MarkStaleStations` is the UPDATE, `RescheduleCheck` has it wait again,
  `CheckFails` has it tried again or, with the last attempt, given up,
  `CheckStranded` is a worker that stops, or fails to settle it, at any point
  between; `EnsureCheck` is the start of a server that finds none alive. One
  check is modelled, as one process has it (`OneCheck`). A request reads the
  clock before its transaction, so samples may be stored in another order than
  their instants.
* **`TrialService`**: the interleaving of all requests and of the check.
* **`StoreTx`**: any number of `Clients`, each with one request in a deferred
  transaction: `Begin` (BEGIN and the SELECTs), `FirstWrite` (the write lock is
  granted), `Busy` (SQLITE_BUSY, or SQLITE_BUSY_SNAPSHOT when a commit overtook
  the snapshot), `Commit`, `Cancel` (context ended, rollback), `Crash`. The
  commands of every component run this way; a crash strands the check that
  runs. CreateVessel, CreateStation, MarkStaleStations and the writes that settle
  the check run outside a transaction (`Autocommit`), and what else the program
  commits (job queue, sessions) overtakes open snapshots as well
  (`CommitElsewhere`; `Elsewhere` turns it off where a run is about requests
  that disturb each other alone). Instead of a copy of the tables a transaction
  keeps one flag, `stale`: while it is FALSE its snapshot equals the committed
  tables; once TRUE it cannot write any more. A transaction whose checks fail on
  its snapshot is answered at once and is no step. The tables change at
  `Commit`; what a handler reads after its first write it reads from its own
  writes.
* **`WorkerJobs`**: `jobs.go`, `worker.go` and the EnsureJob of `main`. One
  action per statement, so a process may stop between any two of them. ClaimJob
  and FailJob are deferred transactions, a SELECT (`SelectJob`, `ReadFailed`)
  and an UPDATE (`ClaimJob`, `FailJob`): every commit in between, of another
  worker, of EnqueueJob, EnsureJob or of a request (`CommitElsewhere`), puts the
  worker into `behind`, and its UPDATE fails (`Busy`), as in `StoreTx`. A claim
  that fails is tried again with the next tick; a FailJob that fails leaves its
  job running without a worker. `WriteFails` is any other error of a write. Time
  is relative: ticks until `available_at`, ticks left of the lease; instants in
  the past keep only their order, which is all that `ORDER BY available_at`
  sees.
* **`Startup`**: processes that open one database, run the loop of
  Store.Migrate, serve and shut down. The look at the ledger and the transaction
  of a migration are steps of their own, so two processes race; an exit is
  possible at every statement.
* **`Sessions`**: accounts, sessions and requests in flight on top of `Startup`:
  Register, Login (look-up, then INSERT), the resolution of a session by the
  middleware, the command that follows, Logout, expiry. The handlers of a
  process die with it.
* `MCClassReview`, `MCTrialPlan`, `MCTrialService`, `MCStoreTx`, `MCGateTx`,
  `MCSessions`, `MCWorkerJobs`: model values, windows, instants and symmetry for
  TLC.
* `ClassReviewProofs`, `TrialPlanProofs`, `VoyageProofs`, `DeliveryProofs`,
  `TelemetryProofs`, `StoreTxProofs`, `WorkerJobsProofs`, `SessionsProofs`:
  theorems.

Operators marked "Faulty" in the modules are not part of the models. Each is a
plausible bug in the operator that follows it; replacing the one by the other
makes TLC find the violated property named under "mutants" in `PROJECT.json`, so
each property is known to depend on the code it is about.

State that has no effect on the modelled decisions is left out: names of
vessels, notes, owners, timezones, channels, measured values, titles and
severities, `created_at`, `updated_at`, payloads and error texts. Audit events
are kept as the sequence of their actions per object.

## 3. What is checked

| run | instance | shows |
|---|---|---|
| `class_review` | 2 vessels, 2 reviews, 2 coordinators, 2 surveyors, 2 keys | `DecisionConsistent`, `KeyNamesOneReview`, `ReviewAudited`, `ReviewHistory` under every order of requests and key expiry |
| `trial_plan` | 2 vessels, 2 reviews, 2 plans, 3 legs, 5 windows, some within one second | `PlanBackedByApproval`, `PlanFollowsLegs`, `LegsApartBySeconds`, `PlanAudited`, `PlanNeverStuck`, `PlanHistory`, `LegsFrozen`; and `VoyagePromised`: the plans implement `VoyagePromise` |
| `store_tx` | 3 clients, 2 plans, 2 legs in one window | `ChecksStillHold`, and `Serializable`: `StoreTx` implements `TrialService` |
| `review_tx` | 2 clients, 2 reviews, 1 key | `Serializable` with replays and expiry; `RequestsAnswered` |
| `gate_tx` | 2 clients; a scheduled plan with 1 leg, 1 defect, 1 batch, 1 station and sample | release, completion, dispositions, gates and samples racing: `DefectEvidence`, `ReleaseEvidence`, `SampledWhileActive`, and `DeliveryPromised`: the transactions implement `DeliveryPromise` |
| `telemetry` | a scheduled plan with 1 leg, 1 defect, 1 batch, 1 station, 2 sequence numbers, 4 instants half a second apart, the check on with 2 attempts | `FreshnessFromSamples`, `StaleIsOld`; `SilentGoesStale`, unless the check has failed for good or is stranded |
| `server` | 2 processes, 2 migrations, 2 sessions, 2 requests in flight, 2 faults | `ServesItsSchema`, `OneLogout`, `LogoutIsFinal`; `StartsAndStops` |
| `worker_jobs` | 2 processes, 3 jobs, 2 attempts, 1 fault | `OneWorkerPerJob`, `LeaseOnlyRunning`, `JobHistory`, `ChecksPerProcess` |
| `jobs_live` | 1 process, 4 jobs, 2 attempts, 1 fault | `OneCheck`; `JobsSettle` and `ChecksGoOn`, whatever fails, unless a job is stranded or the check has failed for good |
| `release_busy` | as `store_tx`, 2 clients | violated: `ReleaseOkOrConflict` |
| `plan_subsecond_true` | windows with fractions | violated: `LegsApart` |
| `jobs_stranded` | 1 process, 1 fault | violated: `LeaseReleases` |

`ReleaseEvidence` follows a release through four components: its audit trail and
signer, a completed plan of the vessel, legs that were each released and
completed once, and the approval of the plan's review by a surveyor who did not
draft it. `PlanNeverStuck` is stated with the guards of the requests
(`ReleaseCheck`, `CompleteCheck` and the version a client sends), not with
ENABLED, so that it can be proved as well.

The runs check one type invariant per module besides (`ReviewTypeOK`,
`PlanTypeOK`, `SystemTypeOK`, `TxTypeOK`, `SessionsTypeOK`, `JobsTypeOK`).

**Bounds.** Two plans and three legs are enough for a conflict between plans,
one within a plan and a plan that is finished in part; versions 1 to 3 are all
that a review, plan or leg of these instances is asked by (4 is the last version
of a plan, and nothing is asked of a completed plan). `gate_tx` adds 4, the
version of a closed defect, for which the table of targets yields the empty
string: the request with an empty target passes the check and is refused by the
schema (`DefectEvidence`). Three clients are one that commits, one whose snapshot
is overtaken and one that holds the lock. `gate_tx` and `telemetry` start from the state in
which a plan has just been scheduled, which `TrialPlan` reaches, so that the
release of the leg, its completion, the defect and the gate all fit in one
instance; a second defect would only repeat the first, whose four dispositions
race with the gate one by one. In `store_tx`, `review_tx`, `release_busy` and
`gate_tx` the staleness check is off (`Checking`), since its UPDATE is covered
by `telemetry` and, for `StoreTx` with it, by the proofs. `Times` of `telemetry`
holds an instant with a fraction and one without, for the text comparison, and
an age of exactly `MaxAge`. `Latest` is 2 although the code has one migration:
the loop of Migrate is about any list, and with two a process may fail between
them. Two attempts distinguish the first, the last and one too many; three jobs
allow two periodic checks, or a check and two others, on one table. `jobs_live`
has four, as many as its two other jobs, its first check and the one that a
restart after a fault may add, so that EnsureJob never lacks an id and no
liveness property holds for that reason. `MaxFaults`, `MaxJobs` and
`MaxEnqueued` bound histories, not the code. Runs without deadlock checking are
those of models that may stop: ids run out, the clock ends.

**Symmetry** is used for safety only, over sets whose members no definition
tells apart (in `worker_jobs` the two processes); liveness runs use none.

**Fairness.**  `StoreTx` assumes that a handler that runs goes on until it has
answered (weak fairness of `FirstWrite`, `Busy` and `Commit` per client): Go
schedules every goroutine, and a busy lock is an error here, not a wait.
Cancellation and crash are never forced. `WorkerJobs` assumes the ticker of
`Worker.Run` fires for ever, a stopped server is started again, and time passes.
Nothing forces a stop or a failed write, and nothing excludes them: the
escapes are in the properties. `ChecksGoOn` says that a check that waits is run,
even with faults, and that one that runs waits again, has failed for good, or is
stranded. The number of faults is finite in every behaviour (`MaxFaults`), so
one thing is assumed of the surroundings: not every claim, for ever, meets a
commit or an error between its two statements. `Telemetry` assumes that time passes; that a check that waits is
claimed (weak fairness of `StartCheck`, which is the first half of
`ChecksGoOn` and includes that a stopped server is started again); and that a worker that has claimed it goes on until it has settled
it, one way or the other (weak fairness of `MarkStaleStations`, `CheckFails` and
`RescheduleCheck` together). That the UPDATE ever succeeds is not assumed, nor
that a stranded check comes back or that a restart replaces one that has failed
for good: there `SilentGoesStale` promises nothing. It does
promise that a check that fails and is tried again, and one that lost its race
with a sample, only delay the mark. `Sessions` assumes that `main` goes on
until it serves or exits and that `Shutdown`, which has a deadline, ends; no
process is ever forced to start.

## 4. What is proved

For every value of the constants (sets of any size, windows and instants with
any fraction, any number of clients, workers, processes and faults), by TLAPS:

* `ClassReviewProofs`: `ReviewSpec` implies `[]ReviewTypeOK`,
  `[]DecisionConsistent`, `[]KeyNamesOneReview`, `[]ReviewAudited`, and
  `ReviewHistory`. The inductive invariant `ReviewIInv` adds to these that
  drafts are made by coordinators (else a decision could be by the author), that
  each recorded answer is the one on file (`RepliesRecorded`: rows of
  `idempotency_keys` are never rewritten, since UNIQUE covers expired rows) and
  that a key on file belongs to a review that left draft.
* `TrialPlanProofs`: `Spec` implies `[](ReviewTypeOK /\ PlanTypeOK)`,
  `[]PlanBackedByApproval`, `[]PlanFollowsLegs`, `[]LegsApartBySeconds`,
  `[]PlanAudited`, `[]PlanNeverStuck`, `PlanHistory` and `LegsFrozen`.
  `SecondsDecideText` is the
  lemma about text: instants in different seconds are ordered as text as they
  are in time. `PlanIInv` is the conjunction of the first four and `ReviewIInv`;
  `LegsApartBySeconds` needs `PlanFollowsLegs`, because the two legs of one plan
  are kept apart by AddLeg while the plan is a draft and those of two plans by
  ReleaseLeg. One lemma per request shows that it keeps the invariant.
  `PlansGoOn` assumes that clients may send the versions 1 and 2 and rests on
  `PlanAudited`: the trail tells that a planned leg has version 1 and a released
  one version 2; if a planned leg cannot be released, a leg in its way can be
  completed. `LegsApartWhenSecondsTell` is the positive side of
  `plan_subsecond_true`: if the second tells the instants of the windows apart
  (`SecondsTell`, as with windows of whole seconds), `[]LegsApart` holds to the
  instant.
* `VoyageProofs`: `Spec` implies `VoyagePromised`, with `PlanIInv` as the
  invariant. Each request is one abstract step or a stutter: a decision clears a
  vessel or changes nothing the harbour sees, the activation of a plan is
  invisible, and `Arrive` needs `PlanFollowsLegs` to know that the code's count
  of unfinished legs is the one over the plan's voyages.
* `DeliveryProofs`: `SystemSpec` implies `Spec` (`SystemPlans`), so everything
  proved of plans holds inside the service; `[]DefectEvidence`;
  `[]ReleaseEvidence`; and `DeliveryPromised`, the refinement. `DeliveryIInv`
  joins `PlanIInv`, the evidence of defects and that of batches (`StoryOf`, with
  as much of the trial as the gate reads). `CompletedOnApproval` adds what the
  gate does not read: it follows from `PlanAudited`, `PlanBackedByApproval` and
  `DecisionConsistent` that a completed plan was completed leg by leg on the
  approval of an independent surveyor. `PromiseKept`
  maps each request to one step of `DeliveryPromise` or to a stutter; completing
  the last leg is the step in which a vessel has sailed, a disposition moves the
  abstract defect only when it creates or closes it.
* `TelemetryProofs`: `[]FreshnessFromSamples`, `[]StaleIsOld` and
  `SampledWhileActive`, whatever becomes of the check. `TelemetryIInv` adds that the cutoff of a running check
  lies `MaxAge` back, or more by now; `TextKeepsSeconds`, the other half of
  `SecondsDecideText`, carries the comparison as text over to seconds.
* `StoreTxProofs`: `TxSpec` implies `[]ChecksStillHold`, `[]TxTypeOK` and
  `Serializable`, hence everything proved of `TrialService`. `TxReviewsAgree`,
  `TxPlansAgree`, `TxPlanMoves`, `TxPlansGoOn`, `TxLegsNeverMeet`,
  `TxVoyagesKept`, `TxPromiseKept`, `TxEvidence`, `TxFreshness` and
  `TxSampledWhileActive` state it of concurrent requests, both refinements
  included. `TxIInv` says that a transaction that may still
  write has checks that hold on the tables of now and that one that writes is
  alone; the step from `Commit` to `TrialService` is one lemma per component. A
  clock that goes on while a request runs leaves its checks valid
  (`ChecksSurviveClock`).
* `WorkerJobsProofs`: `JobsSpec` implies `[]JobsTypeOK` (with the cap of the
  backoff), `[]OneWorkerPerJob`, `[]LeaseOnlyRunning`, `JobHistory`, `[]ChecksPerProcess`, and with one process
  `[]OneCheck`. `JobsIInv` needs the first two together: a settling write is
  never refused because its job is still running, and it is because no claim
  finds a running job. The latter is `SelectedWaits`: between the SELECT and the
  UPDATE of a claim that is not overtaken, the selected job still waits, since
  whoever claims it first commits and overtakes the others
  (`ClaimNeverRefused`). So either the transaction or the condition on the
  status in the UPDATE would do alone; without both, two workers run one job,
  which is the mutant of `OneWorkerPerJob`. For the periodic check the invariant
  counts `ChecksBound`: live checks and processes about to insert one are
  together never more than the processes, since whoever is about to insert has
  seen none.
  Three theorems say how far the third disagreement of section 5 goes. A job
  that runs without a worker does so for ever (`StrandedForEver`, for any number
  of processes and restarts); with one process no check is run again once the
  check is stranded (`NoCheckAfterStranding`, from `OneCheck`); and a job is
  stranded only in a step of the very worker that runs it: a stop, a failed
  write, or a FailJob whose snapshot was overtaken (`StrandedByItsWorker`). The
  last needs no fault at all, only another commit at that moment.
* `SessionsProofs`: `ServerSpec` implies `[]ServesItsSchema`,
  `[]SessionsTypeOK`, `[]OneLogout` and `LogoutIsFinal`. `ProcessKnows` says
  what each process knows of the ledger where it is; it survives the others'
  commits because rows are only added. `InOrder` says that the ledger is always
  a prefix of the list of migrations: the one who writes number n has seen all
  before n and, being alone with the lock, finds n missing. `HandlersKnown` says that a request in
  flight has an account or a session on file.

Assumed: no user has two roles (`users.role` is one column), `NoKey`, `NoLeg`,
`Nobody` and `Never` stand for NULL and are no values, versions sent by clients
are positive (`API.version`), windows are pairs of instants, no instant lies
before `MaxAge` seconds of the epoch, `Elsewhere` and `Checking` are Booleans,
the processes of `WorkerJobs` are finitely many.

Only model-checked: the liveness properties `RequestsAnswered`, `JobsSettle`,
`ChecksGoOn`, `SilentGoesStale` and `StartsAndStops`, which need fairness and
ENABLED and are out of the prover's reach. Every invariant, action property and
refinement that a passing run checks is also a theorem. `Backoff` is a table of
its seven values up to the cap, not a recursive doubling, so that its bound is a
matter of arithmetic.

## 5. Where the code and its documents disagree

1. **A concurrent release may fail with 500** (`release_busy`). InTx begins a
   deferred transaction, so the UPDATE of a release that was overtaken by
   another commit gets SQLITE_BUSY_SNAPSHOT, which `busy_timeout` does not
   retry, and is answered as an internal error.
   `TestConcurrentReleaseAllowsOnlyOneOverlappingLeg` accepts success or
   conflict only. Nothing unsafe happens: `Serializable` holds.
2. **Windows within a second are compared in the wrong order**
   (`plan_subsecond_true`). `01.5Z` sorts before `01Z` as text. Legs may overlap
   by less than a second (to the second they cannot: `LegsNeverMeet`; and with
   windows of whole seconds not at all: `LegsApartWhenSecondsTell`), and a
   valid window from `01Z` to `01.5Z` is refused by CHECK(starts_at < ends_at).
3. **An expired lease is never looked at** (`jobs_stranded`). ClaimJob selects
   `pending` and `retry` jobs only, whose `locked_until` is always NULL
   (`LeaseOnlyRunning`); a job left `running`, by a crash, by SIGTERM, or by a
   FailJob that another commit has overtaken (no retry with backoff then), stays
   so, and EnsureJob counts it
   as live, so the periodic check stops for good, for any number of restarts
   (`StrandedForEver`, `NoCheckAfterStranding`).

Noted while modelling, without a document to contradict: an idempotency key is
not tied to the review of the request; an expired key fails the submission it
comes with; a replay answers with the review as it is now; AddLeg does not move
the version of its plan; activation and completion of a plan have no audit event
of their own; a busy database on an INSERT is answered as "already exists"; two
servers started together on one database may each insert a periodic check (never
more than one each: `ChecksPerProcess`); a sample that is stored late may set
`last_seen_at` back; a defect reported after a release leaves a released batch
with an open defect.

## 6. Not modelled

* Listing and pagination (`ListLegs`, `ListDefects`, ... and their cursors):
  they read and change no state.
* JSON decoding, validation of wording and ranges, request ids, logging,
  configuration: a request that is refused there reaches no component; the kinds
  of faults appear as outcomes in `StoreTx`.
* Password hashing and the format of tokens: a token is one of a set and is
  drawn once. The column `users.active`: no operation of the program clears it.
* The interplay of `WorkerJobs` with the rows of `shore_stations`: when the
  check runs is the subject of the one module, what it does that of `Telemetry`,
  which keeps of the queue the one row of the check and takes its claim from
  `ChecksGoOn`. A second check, which two processes may insert, would only mark
  the same stations again.
* The size limit of request bodies: it ends a request before it reaches a
  component. A deadline that ends one later is `Cancel`.

What could still be added: the abstract specification shared by reviews, plans,
legs and defects ("a row moves along a flow, one version at a time"), and the
queue composed with `Startup`, whose last step before serving is EnsureJob.
