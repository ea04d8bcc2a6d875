---------------------------- MODULE StoreTxProofs ----------------------------
(***************************************************************************)
(* Transactions on WAL snapshots are serializable: StoreTx implements      *)
(* TrialService, for any number of clients and any requests.  With the     *)
(* theorems about single requests (of reviews, plans, voyages, deliveries  *)
(* and telemetry) this carries what is proved there over to concurrent     *)
(* requests.                                                               *)
(***************************************************************************)
EXTENDS StoreTx, DeliveryProofs, TelemetryProofs, VoyageProofs

(* The part of the type invariant the argument needs.                      *)
TxShape ==
    /\ stage \in [Clients -> Stages]
    /\ request \in [Clients -> Requests \cup {NoRequest}]
    /\ stale \in [Clients -> BOOLEAN]
    /\ \A c \in Clients : stage[c] # "idle" => request[c] \in Requests
    /\ \A c, d \in Clients :
          (stage[c] = "writing" /\ stage[d] = "writing") => c = d

(* ChecksStillHold, with a name for the request.                           *)
CheckedNow(q) == Check(q)
AcceptedNow(q) == Accepted(q)

Sound ==
    \A c \in Clients, q \in Requests :
        (request[c] = q /\ stage[c] # "idle" /\ ~ (stage[c] = "reading" /\ stale[c]))
            => CheckedNow(q) /\ (stage[c] = "writing" => AcceptedNow(q))

TxIInv == PlanIInv /\ clock \in Times /\ TxShape /\ Sound

(* A request that passes its checks and writes is one step of TrialService.*)
LEMMA ReviewWriteIsNext ==
    ASSUME NEW q \in Requests, Check(q), ReviewWrite(q), UNCHANGED planVars
    PROVE  Next
<1> USE DEF Check, ReviewWrite
<1>1. CASE q.op = "draft"
  <2>1. q.actor \in Users /\ q.review \in Reviews /\ q.vessel \in Vessels
    BY <1>1 DEF Requests
  <2> QED BY <1>1, <2>1 DEF Next, ReviewNext, CreateReview
<1>2. CASE q.op = "submit"
  <2>1. /\ q.actor \in Users /\ q.review \in Reviews
        /\ q.key \in Keys \cup {NoKey} /\ q.version \in Versions
    BY <1>2 DEF Requests
  <2> QED BY <1>2, <2>1 DEF Next, ReviewNext, SubmitReview
<1>3. CASE q.op = "decide"
  <2>1. /\ q.actor \in Users /\ q.review \in Reviews
        /\ q.decision \in Decisions /\ q.version \in Versions
    BY <1>3 DEF Requests
  <2> QED BY <1>3, <2>1 DEF Next, ReviewNext, DecideReview
<1> QED BY <1>1, <1>2, <1>3

LEMMA PlanWriteIsNext ==
    ASSUME NEW q \in Requests, Check(q), PlanWrite(q), UNCHANGED reviewVars
    PROVE  Next
<1> USE DEF Check, PlanWrite
<1>1. CASE q.op = "plan"
  <2>1. /\ q.actor \in Users /\ q.plan \in Plans /\ q.review \in Reviews
        /\ q.vessel \in Vessels /\ q.name \in PlanNames
    BY <1>1 DEF Requests
  <2> QED BY <1>1, <2>1 DEF Next, PlanNext, CreatePlan
<1>2. CASE q.op = "leg"
  <2>1. /\ q.actor \in Users /\ q.leg \in Legs /\ q.plan \in Plans
        /\ q.name \in LegNames /\ q.window \in Windows
    BY <1>2 DEF Requests
  <2> QED BY <1>2, <2>1 DEF Next, PlanNext, AddLeg
<1>3. CASE q.op = "schedule"
  <2>1. q.actor \in Users /\ q.plan \in Plans /\ q.version \in Versions
    BY <1>3 DEF Requests
  <2> QED BY <1>3, <2>1 DEF Next, PlanNext, SchedulePlan
<1>4. CASE q.op = "release"
  <2>1. q.actor \in Users /\ q.leg \in Legs /\ q.version \in Versions
    BY <1>4 DEF Requests
  <2> QED BY <1>4, <2>1 DEF Next, PlanNext, ReleaseLeg
<1>5. CASE q.op = "complete"
  <2>1. q.actor \in Users /\ q.leg \in Legs /\ q.version \in Versions
    BY <1>5 DEF Requests
  <2> QED BY <1>5, <2>1 DEF Next, PlanNext, CompleteLeg
<1> QED BY <1>1, <1>2, <1>3, <1>4, <1>5

LEMMA DefectWriteIsNext ==
    ASSUME NEW q \in Requests, Check(q), DefectWrite(q)
    PROVE  DefectNext
<1> USE DEF Check, DefectWrite
<1>1. CASE q.op = "defect"
  <2>1. /\ q.actor \in Staff /\ q.defect \in Defects /\ q.vessel \in Vessels
        /\ q.leg \in LegRefs /\ q.code \in Codes
    BY <1>1 DEF Requests
  <2> QED BY <1>1, <2>1 DEF DefectNext, CreateDefect
<1>2. CASE q.op = "transition"
  <2>1. /\ q.actor \in Staff /\ q.defect \in Defects
        /\ q.target \in Targets /\ q.version \in Versions
    BY <1>2 DEF Requests
  <2> QED BY <1>2, <2>1 DEF DefectNext, TransitionDefect
<1> QED BY <1>1, <1>2

LEMMA BatchWriteIsNext ==
    ASSUME NEW q \in Requests, Check(q), BatchWrite(q)
    PROVE  BatchNext
<1> USE DEF Check, BatchWrite
<1>1. CASE q.op = "batch"
  <2>1. /\ q.actor \in Staff /\ q.batch \in Batches /\ q.vessel \in Vessels
        /\ q.number \in BatchNumbers
    BY <1>1 DEF Requests
  <2> QED BY <1>1, <2>1 DEF BatchNext, CreateDeliveryBatch
<1>2. CASE q.op = "gate"
  <2>1. /\ q.actor \in Staff /\ q.batch \in Batches /\ q.release \in BOOLEAN
        /\ q.version \in Versions
    BY <1>2 DEF Requests
  <2> QED BY <1>2, <2>1 DEF BatchNext, EvaluateDelivery
<1> QED BY <1>1, <1>2

LEMMA SampleWriteIsNext ==
    ASSUME NEW q \in Requests, Check(q), SampleWrite(q)
    PROVE  TelemetryNext
<1>1. q.op = "sample"
  BY DEF SampleWrite
<1>2. /\ q.actor \in Staff /\ q.vessel \in Vessels /\ q.station \in Stations
      /\ q.sequence \in Sequences /\ q.leg \in LegRefs /\ q.received \in Times
  BY <1>1 DEF Requests
<1> QED BY <1>1, <1>2 DEF Check, SampleWrite, TelemetryNext, IngestTelemetry

LEMMA WriteIsNext ==
    ASSUME NEW q \in Requests, Check(q), Write(q)
    PROVE  SystemNext
BY ReviewWriteIsNext, PlanWriteIsNext, DefectWriteIsNext, BatchWriteIsNext,
   SampleWriteIsNext DEF Write, SystemNext

(* Every step is a step of TrialService or changes no table.               *)
LEMMA TxStepRefines ==
    ASSUME TxIInv, [TxNext]_allVars
    PROVE  [SystemNext]_systemVars
<1>1. ASSUME NEW c \in Clients, Commit(c)
      PROVE  SystemNext
  <2>1. request[c] \in Requests /\ Check(request[c]) /\ Write(request[c])
    BY <1>1 DEF TxIInv, TxShape, Sound, CheckedNow, Commit
  <2> QED BY <2>1, WriteIsNext
<1>2. ASSUME Autocommit
      PROVE  SystemNext
    BY <1>2 DEF Autocommit, SystemNext, Next, ReviewNext, TelemetryNext, CheckNext
<1>3. ASSUME ReadOrClock
      PROVE  SystemNext
    BY <1>3 DEF ReadOrClock, SystemNext, Next, ReviewNext, TelemetryNext, CheckNext
<1>4. ASSUME NEW c \in Clients,
             (\E q \in Requests : Begin(c, q)) \/ FirstWrite(c) \/ Busy(c) \/ Cancel(c)
      PROVE  UNCHANGED systemVars
    BY <1>4 DEF Begin, FirstWrite, Busy, Cancel
<1>5. ASSUME CommitElsewhere \/ UNCHANGED allVars
      PROVE  UNCHANGED systemVars
    BY <1>5 DEF CommitElsewhere, allVars
<1>6. ASSUME Crash
      PROVE  SystemNext \/ UNCHANGED systemVars
    BY <1>6 DEF Crash, SystemNext, TelemetryNext, CheckNext, systemVars
<1> QED BY <1>1, <1>2, <1>3, <1>4, <1>5, <1>6 DEF TxNext

(* The clock always shows one of the instants of Times.                    *)
LEMMA ClockStays ==
    ASSUME clock \in Times, [SystemNext]_systemVars
    PROVE  clock' \in Times
BY DEF SystemNext, systemVars, telemetryVars, TelemetryNext, CheckNext, Tick,
       RegisterStation, IngestTelemetry, IngestWrite, MarkStaleStations,
       CheckCommits, StartCheck, RescheduleCheck, CheckFails, EnsureCheck,
       CheckStranded

(* A check reads the tables and the clock only.                            *)
LEMMA ChecksRead ==
    ASSUME NEW q, UNCHANGED << vessels, class_reviews, review_decisions,
                               review_audit, planVars, defectVars, batchVars,
                               shore_stations, telemetry_samples >>,
           \A t \in Times : ~ Before(clock, t) => ~ Before(clock', t),
           \A a, k : LiveKey(a, k)' => LiveKey(a, k),
           DOMAIN idempotency_keys' = DOMAIN idempotency_keys
    PROVE  /\ Check(q) => Check(q)'
           /\ Accepted(q) => Accepted(q)'
<1>1. UNCHANGED << trial_plans, voyage_legs, defects, delivery_batches >>
    BY DEF planVars, defectVars, batchVars
<1>2. Check(q) => Check(q)'
  <2>1. CASE q.op = "sample"
    BY <1>1, <2>1 DEF Check, IngestCheck, LegFits
  <2>2. CASE q.op \in {"defect", "transition", "batch", "gate"}
    BY <1>1, <2>2 DEF Check, CreateDefectCheck, TransitionCheck, LegFits,
           CreateBatchCheck, GateCheck, Sailed, NoOpenDefects
  <2>3. CASE q.op \notin {"defect", "transition", "batch", "gate", "sample"}
    BY <1>1, <2>3 DEF Check, CreateReviewCheck, SubmitCheck, DecideCheck,
           CreatePlanCheck, AddLegCheck, ScheduleCheck, ReleaseCheck,
           CompleteCheck, LegsOf, Conflicts
  <2> QED BY <2>1, <2>2, <2>3
<1>3. Accepted(q) => Accepted(q)'
    BY <1>1 DEF Accepted, KeyUnused, PlanNameFree, LegInsertable, LegsOf,
           CodeFree, BatchNumberFree, SequenceFree
<1> QED BY <1>2, <1>3

(* The initial state: no transaction is open.                              *)
LEMMA TxInitInv == TxInit => TxIInv
<1> SUFFICES ASSUME TxInit PROVE TxIInv
    OBVIOUS
<1>1. PlanIInv /\ clock \in Times
    BY PlanInitInv DEF TxInit, SystemInit, TelemetryInit
<1>2. TxShape /\ Sound
    BY DEF TxInit, TxShape, Sound, Stages
<1> QED BY <1>1, <1>2 DEF TxIInv

(* A step that changes no table keeps every check.                         *)
LEMMA ChecksStay ==
    ASSUME UNCHANGED systemVars, NEW q
    PROVE  /\ CheckedNow(q) => CheckedNow(q)'
           /\ AcceptedNow(q) => AcceptedNow(q)'
<1>1. UNCHANGED << vessels, class_reviews, review_decisions, review_audit,
                   idempotency_keys, planVars, defectVars, batchVars,
                   shore_stations, telemetry_samples, clock >>
    BY DEF systemVars, vars, reviewVars, telemetryVars
<1>2. \A a, k : LiveKey(a, k)' => LiveKey(a, k)
    BY <1>1 DEF LiveKey
<1>3. \A t \in Times : ~ Before(clock, t) => ~ Before(clock', t)
    BY <1>1
<1> QED BY <1>1, <1>2, <1>3, ChecksRead DEF CheckedNow, AcceptedNow

(* The clock and a replay only take live keys away and make more instants  *)
(* past ones.                                                              *)
LEMMA ChecksSurviveClock ==
    ASSUME ReviewTypeOK, clock \in Times, ReadOrClock, NEW q
    PROVE  /\ clock' \in Times
           /\ CheckedNow(q) => CheckedNow(q)'
           /\ AcceptedNow(q) => AcceptedNow(q)'
<1>1. CASE \E a \in Users, k \in Keys :
               /\ ReplaySubmit(a, k) \/ KeyExpires(a, k)
               /\ UNCHANGED << planVars, telemetryVars >>
  <2>1. PICK a \in Users, k \in Keys :
            /\ ReplaySubmit(a, k) \/ KeyExpires(a, k)
            /\ UNCHANGED << planVars, telemetryVars >>
    BY <1>1
  <2>2. UNCHANGED << vessels, class_reviews, review_decisions, review_audit,
                     planVars, defectVars, batchVars, shore_stations,
                     telemetry_samples, clock >>
    BY <2>1 DEF ReadOrClock, ReplaySubmit, KeyExpires, telemetryVars
  <2>3. /\ DOMAIN idempotency_keys' = DOMAIN idempotency_keys
        /\ \A b, j : LiveKey(b, j)' => LiveKey(b, j)
    <3>1. CASE ReplaySubmit(a, k)
      BY <3>1 DEF ReplaySubmit, LiveKey
    <3>2. CASE KeyExpires(a, k)
      BY <3>2 DEF KeyExpires, LiveKey, ReviewTypeOK, KeyRow
    <3> QED BY <2>1, <3>1, <3>2
  <2>4. \A t \in Times : ~ Before(clock, t) => ~ Before(clock', t)
    BY <2>2
  <2> QED BY <2>2, <2>3, <2>4, ChecksRead DEF CheckedNow, AcceptedNow
<1>2. CASE (CheckStranded \/ Tick) /\ UNCHANGED vars
  <2>1. UNCHANGED << vessels, class_reviews, review_decisions, review_audit,
                     idempotency_keys, planVars, defectVars, batchVars,
                     shore_stations, telemetry_samples >>
    BY <1>2 DEF ReadOrClock, CheckStranded, Tick, vars, reviewVars
  <2>2. \A a, k : LiveKey(a, k)' => LiveKey(a, k)
    BY <2>1 DEF LiveKey
  <2>3. /\ clock' \in Times
        /\ \A t \in Times : ~ Before(clock, t) => ~ Before(clock', t)
    <3>1. clock' = clock \/ (clock' \in Times /\ Before(clock, clock'))
      BY <1>2 DEF CheckStranded, Tick
    <3>2. CASE clock' \in Times /\ Before(clock, clock')
      BY <3>2, TimesAssumption DEF Before, Instant
    <3> QED BY <3>1, <3>2
  <2> QED BY <2>1, <2>2, <2>3, ChecksRead DEF CheckedNow, AcceptedNow
<1> QED BY <1>1, <1>2 DEF ReadOrClock

(* Every step keeps the invariant.                                         *)
LEMMA TxStepInv ==
    ASSUME TxIInv, [TxNext]_allVars
    PROVE  TxIInv'
<1>0. PlanIInv' /\ clock' \in Times
    BY TxStepRefines, SystemStepPlans, ClockStays, PlanStepInv DEF TxIInv
<1> USE DEF TxShape, Stages, TxIInv
<1>1. ASSUME NEW c \in Clients, NEW q \in Requests, Begin(c, q)
      PROVE  TxShape' /\ Sound'
  <2>1. UNCHANGED systemVars /\ CheckedNow(q)
    BY <1>1 DEF Begin, CheckedNow
  <2>2. TxShape'
    BY <1>1 DEF Begin
  <2>3. Sound'
    BY <1>1, <2>1, ChecksStay DEF Begin, Sound
  <2> QED BY <2>2, <2>3
<1>2. ASSUME NEW c \in Clients, FirstWrite(c)
      PROVE  TxShape' /\ Sound'
  <2>1. UNCHANGED systemVars
    BY <1>2 DEF FirstWrite
  <2>2. CASE stage' = [stage EXCEPT ![c] = "writing"] /\ UNCHANGED request
             /\ Accepted(request[c])
    <3>1. TxShape'
      BY <1>2, <2>2 DEF FirstWrite, LockFree
    <3>2. AcceptedNow(request[c])
      BY <2>2 DEF AcceptedNow
    <3>3. Sound'
      BY <1>2, <2>1, <2>2, <3>2, ChecksStay DEF FirstWrite, Sound
    <3> QED BY <3>1, <3>3
  <2>3. CASE Answer(c, Rejection(request[c]))
    BY <1>2, <2>1, <2>3, ChecksStay DEF FirstWrite, Answer, Sound
  <2> QED BY <1>2, <2>2, <2>3 DEF FirstWrite
<1>3. ASSUME NEW c \in Clients, Busy(c) \/ Cancel(c)
      PROVE  TxShape' /\ Sound'
  <2>1. /\ UNCHANGED systemVars
        /\ stage' = [stage EXCEPT ![c] = "idle"]
        /\ request' = [request EXCEPT ![c] = NoRequest]
        /\ stale' = [stale EXCEPT ![c] = FALSE]
    BY <1>3 DEF Busy, Cancel, Answer, Forget
  <2> QED BY <2>1, ChecksStay DEF Sound
<1>4. ASSUME NEW c \in Clients, Commit(c)
      PROVE  TxShape' /\ Sound'
  <2>1. /\ stage[c] = "writing"
        /\ stage' = [stage EXCEPT ![c] = "idle"]
        /\ request' = [request EXCEPT ![c] = NoRequest]
        /\ stale' = [d \in Clients |-> stage[d] = "reading"]
    BY <1>4 DEF Commit, Answer, Overtake
  <2>2. \A d \in Clients : stage'[d] = "idle" \/ (stage'[d] = "reading" /\ stale'[d])
    BY <2>1
  <2> QED BY <2>1, <2>2 DEF Sound
<1>5. ASSUME Crash
      PROVE  TxShape' /\ Sound'
    BY <1>5 DEF Crash, Sound
<1>6. ASSUME Autocommit \/ CommitElsewhere
      PROVE  TxShape' /\ Sound'
  <2>1. /\ UNCHANGED << stage, request >>
        /\ stale' = [d \in Clients |-> stage[d] = "reading"]
        /\ \A d \in Clients : stage[d] # "writing"
    BY <1>6 DEF Autocommit, CommitElsewhere, LockFree, Overtake
  <2>2. \A d \in Clients : stage'[d] = "idle" \/ (stage'[d] = "reading" /\ stale'[d])
    BY <2>1
  <2> QED BY <2>1, <2>2 DEF Sound
<1>7. ASSUME ReadOrClock
      PROVE  TxShape' /\ Sound'
  <2>1. UNCHANGED << stage, request, stale >>
    BY <1>7 DEF ReadOrClock, txVars
  <2>2. ReviewTypeOK /\ clock \in Times
    BY DEF PlanIInv, ReviewIInv
  <2> QED BY <1>7, <2>1, <2>2, ChecksSurviveClock DEF Sound
<1>8. ASSUME UNCHANGED allVars
      PROVE  TxShape' /\ Sound'
    BY <1>8, ChecksStay DEF allVars, txVars, Sound
<1> QED BY <1>0, <1>1, <1>2, <1>3, <1>4, <1>5, <1>6, <1>7, <1>8 DEF TxNext

(* The invariant holds in every reachable state.                           *)
THEOREM TxInductive == TxSpec => []TxIInv
<1>1. TxIInv /\ [TxNext]_allVars => TxIInv'
    BY TxStepInv
<1> QED BY TxInitInv, <1>1, PTL DEF TxSpec

(* No transaction writes on the strength of a check that has ceased to     *)
(* hold (InTx, the snapshot and the write lock).                           *)
THEOREM TxChecksHold == TxSpec => []ChecksStillHold
<1>1. TxIInv => ChecksStillHold
    BY DEF TxIInv, TxShape, Stages, Sound, ChecksStillHold, CheckedNow,
           AcceptedNow
<1> QED BY TxInductive, <1>1, PTL

(* Every concurrent execution, with cancellations and crashes, is an       *)
(* execution of TrialService, one request at a time (InTx).                *)
THEOREM TxSerializable == TxSpec => Serializable
<1>1. TxInit => SystemInit
    BY DEF TxInit
<1>2. TxIInv /\ [TxNext]_allVars => [SystemNext]_systemVars
    BY TxStepRefines
<1> QED BY <1>1, <1>2, TxInductive, PTL DEF TxSpec, Serializable, SystemSpec

(* Concurrent releases never put a vessel on two legs in the same second.  *)
THEOREM TxLegsNeverMeet == TxSpec => []LegsApartBySeconds
BY TxSerializable, SystemPlans, LegsNeverMeet, PTL DEF Serializable

(* Concurrent requests keep the promise of VoyagePromise: a vessel sails   *)
(* only when it is cleared, on a frozen plan, one voyage at a time, and    *)
(* its plan is done with its last voyage (InTx around trial.go).           *)
THEOREM TxVoyagesKept == TxSpec => VoyagePromised
BY TxSerializable, SystemPlans, VoyagesKept, PTL DEF Serializable

(* However requests race, are cancelled and retried, no state is reached   *)
(* from which an unfinished plan could not go on (the checks of ReleaseLeg *)
(* and CompleteLeg).                                                       *)
THEOREM TxPlansGoOn ==
    ASSUME {1, 2} \subseteq Versions
    PROVE  TxSpec => []PlanNeverStuck
BY TxSerializable, SystemPlans, PlansGoOn, PTL DEF Serializable

(* Racing releases, completions and schedulings leave plan and legs in     *)
(* agreement, backed by the approval they started from, each change        *)
(* audited once (trial.go inside InTx).                                    *)
THEOREM TxPlansAgree ==
    TxSpec => [](PlanFollowsLegs /\ PlanBackedByApproval /\ PlanAudited)
BY TxSerializable, SystemPlans, PlanStatusFollows, PlanBacked, PlansAudited,
   PTL DEF Serializable

(* Two decisions, or two submissions with one key, that race leave one     *)
(* decision, one review per key, and one audit event per change (review.go *)
(* inside InTx).                                                           *)
THEOREM TxReviewsAgree ==
    TxSpec => [](DecisionConsistent /\ KeyNamesOneReview /\ ReviewAudited)
<1>1. Spec => ReviewSpec
  <2>1. Init => ReviewInit
    BY DEF Init
  <2>2. [Next]_vars => [ReviewNext]_reviewVars
    BY DEF Next, vars
  <2> QED BY <2>1, <2>2, PTL DEF Spec, ReviewSpec
<1> QED BY <1>1, TxSerializable, SystemPlans, ReviewDecisions, ReviewKeys,
           ReviewsAudited, PTL DEF Serializable

(* Concurrent commits move plans and legs along their flow only, one       *)
(* version at a time, and leave the legs of a scheduled plan as they are.  *)
THEOREM TxPlanMoves == TxSpec => PlanHistory /\ LegsFrozen
BY TxSerializable, SystemPlans, PlanMoves, PlanLegsFrozen, PTL DEF Serializable

(* Concurrent requests keep the promise of DeliveryPromise (InTx around    *)
(* the gate, the dispositions and the completion of trials).               *)
THEOREM TxPromiseKept == TxSpec => DeliveryPromised
BY TxSerializable, PromiseKept, PTL DEF Serializable

(* Concurrent requests leave the full evidence of every disposition of a   *)
(* defect and of every release of a vessel, down to the surveyor who       *)
(* approved the trial it stands on.                                        *)
THEOREM TxEvidence == TxSpec => [](DefectEvidence /\ ReleaseEvidence)
BY TxSerializable, DefectsEvident, ReleasesEvident, PTL DEF Serializable

(* Samples and the worker's check that race with concurrent requests leave *)
(* the freshness of stations true (InTx around the ingest).                *)
THEOREM TxFreshness == TxSpec => [](FreshnessFromSamples /\ StaleIsOld)
BY TxSerializable, StationsFresh, StaleStationsOld, PTL DEF Serializable

(* A sample is taken only on a leg that is active when its transaction     *)
(* commits, however releases and completions race with it.                 *)
THEOREM TxSampledWhileActive == TxSpec => SampledWhileActive
BY TxSerializable, SamplesOfActiveLegs, PTL DEF Serializable

(* Every table keeps the columns of the schema when requests come one at a *)
(* time.                                                                   *)
THEOREM SystemTypes == SystemSpec => []SystemTypeOK
<1>1. DeliveryIInv /\ TelemetryIInv => SystemTypeOK
    BY DEF DeliveryIInv, PlanIInv, ReviewIInv, DefectIInv, BatchIInv,
           TelemetryIInv, TypeOK, SystemTypeOK
<1> QED BY <1>1, DeliveryInductive, TelemetryInductive, PTL

(* The answers to clients are those the API gives.                         *)
OutcomesOK == outcome \in [Clients -> Outcomes]

LEMMA OutcomesStep == OutcomesOK /\ [TxNext]_allVars => OutcomesOK'
<1> SUFFICES ASSUME OutcomesOK, [TxNext]_allVars PROVE OutcomesOK'
    OBVIOUS
<1>1. ASSUME NEW c \in Clients, NEW kind \in Outcomes, Answer(c, kind)
      PROVE  OutcomesOK'
    BY <1>1 DEF Answer, OutcomesOK
<1>2. ASSUME NEW c \in Clients,
             \/ \E q \in Requests : Begin(c, q)
             \/ FirstWrite(c) \/ Busy(c) \/ Commit(c) \/ Cancel(c)
      PROVE  OutcomesOK'
  <2>1. CASE \E q \in Requests : Begin(c, q)
    BY <2>1 DEF Begin, OutcomesOK, Outcomes
  <2>2. CASE UNCHANGED outcome
    BY <2>2 DEF OutcomesOK
  <2>3. CASE \E kind \in Outcomes : Answer(c, kind)
    BY <1>1, <2>3
  <2>4. FirstWrite(c) => UNCHANGED outcome \/ \E kind \in Outcomes : Answer(c, kind)
    BY DEF FirstWrite, Rejection, Outcomes
  <2>5. Busy(c) \/ Commit(c) \/ Cancel(c) => \E kind \in Outcomes : Answer(c, kind)
    BY DEF Busy, Commit, Cancel, Outcomes
  <2> QED BY <1>2, <2>1, <2>2, <2>3, <2>4, <2>5
<1>3. CASE Crash
    BY <1>3 DEF Crash, OutcomesOK, Outcomes
<1>4. CASE Autocommit \/ CommitElsewhere \/ ReadOrClock \/ UNCHANGED allVars
    BY <1>4 DEF Autocommit, CommitElsewhere, ReadOrClock, allVars, txVars,
                OutcomesOK
<1> QED BY <1>2, <1>3, <1>4 DEF TxNext

(* The same of concurrent requests, whose transactions and answers are     *)
(* well formed too: at most one of them writes.                            *)
THEOREM TxTypes == TxSpec => []TxTypeOK
<1>1. TxInit => OutcomesOK
    BY DEF TxInit, OutcomesOK, Outcomes
<1>2. SystemTypeOK /\ TxIInv /\ OutcomesOK => TxTypeOK
    BY DEF TxIInv, TxShape, OutcomesOK, TxTypeOK
<1> QED BY <1>1, <1>2, OutcomesStep, TxInductive, TxSerializable, SystemTypes,
           PTL DEF TxSpec, Serializable
=============================================================================
