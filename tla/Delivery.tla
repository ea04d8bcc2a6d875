------------------------------ MODULE Delivery ------------------------------
(***************************************************************************)
(* Delivery batches: prepared, gated and released by quality managers (the *)
(* delivery service and internal/storage/sqlite/delivery.go).  The gate    *)
(* reads the vessel's trial plans and defects.  No operation of the        *)
(* program sets a batch to 'delivered'.                                    *)
(***************************************************************************)
EXTENDS Disposition

CONSTANTS
    Batches,       \* row ids of delivery_batches
    BatchNumbers,  \* values of batch_no
    Nobody         \* released_by is NULL

ASSUME NobodyAssumption == Nobody \notin QualityManagers

VARIABLES
    delivery_batches,  \* batch id -> row
    batch_audit        \* batch id -> its audit events: "create", or the target

batchVars == << delivery_batches, batch_audit >>

BatchStatus == {"preparing", "quality_gate", "released", "delivered"}
BatchRow == [vessel : Vessels, batch_no : BatchNumbers, status : BatchStatus,
             version : Nat, released_by : QualityManagers \cup {Nobody}]

-----------------------------------------------------------------------------
BatchInit ==
    /\ delivery_batches = EmptyTable
    /\ batch_audit = [b \in Batches |-> << >>]

CreateBatchCheck(actor, b, v) ==
    /\ actor \in QualityManagers
    /\ b \notin DOMAIN delivery_batches
    /\ v \in vessels

(* batch_no is UNIQUE over all vessels.                                    *)
BatchNumberFree(number) ==
    \A b \in DOMAIN delivery_batches : delivery_batches[b].batch_no # number

CreateBatchWrite(b, v, number) ==
    /\ BatchNumberFree(number)
    /\ delivery_batches' = Insert(delivery_batches, b,
           [vessel |-> v, batch_no |-> number, status |-> "preparing",
            version |-> 1, released_by |-> Nobody])
    /\ batch_audit' = [batch_audit EXCEPT ![b] = Append(@, "create")]

CreateDeliveryBatch(actor, b, v, number) ==
    CreateBatchCheck(actor, b, v) /\ CreateBatchWrite(b, v, number)

Sailed(v) ==
    \E p \in DOMAIN trial_plans :
        trial_plans[p].vessel = v /\ trial_plans[p].status = "completed"

(* Faulty: contained and verified defects count as settled.                *)
ContainedIsEnough(v) ==
    \A d \in DOMAIN defects :
        defects[d].vessel = v => defects[d].status # "open"

NoOpenDefects(v) ==
    \A d \in DOMAIN defects :
        defects[d].vessel = v => defects[d].status = "closed"

(* Faulty: a released batch is evaluated again.                            *)
GateAgain(actor, b) ==
    /\ actor \in QualityManagers
    /\ b \in DOMAIN delivery_batches
    /\ Sailed(delivery_batches[b].vessel)
    /\ NoOpenDefects(delivery_batches[b].vessel)

GateCheck(actor, b) ==
    /\ actor \in QualityManagers
    /\ b \in DOMAIN delivery_batches
    /\ delivery_batches[b].status \in {"preparing", "quality_gate"}
    /\ Sailed(delivery_batches[b].vessel)
    /\ NoOpenDefects(delivery_batches[b].vessel)

(* Without `release' the batch only passes the gate, as often as asked.    *)
GateWrite(actor, b, release, version) ==
    LET target == IF release THEN "released" ELSE "quality_gate"
        signer == IF release THEN actor ELSE Nobody
    IN  /\ delivery_batches[b].version = version
        /\ delivery_batches' = [delivery_batches EXCEPT
               ![b] = [Advance(@, target) EXCEPT !.released_by = signer]]
        /\ batch_audit' = [batch_audit EXCEPT ![b] = Append(@, target)]

EvaluateDelivery(actor, b, release, version) ==
    GateCheck(actor, b) /\ GateWrite(actor, b, release, version)

BatchNext ==
    \E actor \in Staff, b \in Batches :
        \/ \E v \in Vessels, number \in BatchNumbers :
              CreateDeliveryBatch(actor, b, v, number)
        \/ \E release \in BOOLEAN, n \in Versions :
              EvaluateDelivery(actor, b, release, n)

-----------------------------------------------------------------------------
(* Rows have the columns of the schema, and audit events name a batch.     *)
BatchTypeOK ==
    /\ DOMAIN delivery_batches \subseteq Batches
    /\ delivery_batches \in [DOMAIN delivery_batches -> BatchRow]
    /\ batch_audit \in [Batches -> Seq({"create"} \cup BatchStatus)]

(* The plan is completed, with legs that were all released and completed   *)
(* once; and a surveyor, not the coordinator who drafted it, has approved  *)
(* the review of this vessel that the plan names.                          *)
DoneOnApproval(p) ==
    /\ trial_plans[p].status = "completed"
    /\ LegsOf(p) # {}
    /\ \A l \in LegsOf(p) : leg_audit[l] = << "create", "release", "complete" >>
    /\ \E d \in review_decisions :
          /\ d.review = trial_plans[p].review
          /\ d.decision = "approved"
          /\ d.reviewer \in Surveyors
          /\ d.reviewer # class_reviews[d.review].submitted_by
          /\ class_reviews[d.review].vessel = trial_plans[p].vessel

(* A batch's row, its version and its audit trail tell one story: created, *)
(* gated any number of times, released at most once and by the quality     *)
(* manager named in the row, and nothing after that.  From the first gate  *)
(* on its vessel has a trial done on approval, which no other operation    *)
(* takes back, although the gate itself counts nothing but completed plans *)
(* (EvaluateDelivery against DecideReview, CreatePlan and CompleteLeg).    *)
ReleaseEvidence ==
    \A b \in Batches :
        IF b \notin DOMAIN delivery_batches THEN batch_audit[b] = << >>
        ELSE LET row == delivery_batches[b]
                 trail == batch_audit[b]
                 n == row.version
             IN  /\ n >= 1 /\ Len(trail) = n /\ trail[1] = "create"
                 /\ \A i \in 2..(n - 1) : trail[i] = "quality_gate"
                 /\ IF n = 1 THEN row.status = "preparing"
                    ELSE /\ row.status \in {"quality_gate", "released"}
                         /\ trail[n] = row.status
                         /\ \E p \in DOMAIN trial_plans :
                               /\ trial_plans[p].vessel = row.vessel
                               /\ DoneOnApproval(p)
                 /\ row.released_by # Nobody <=> row.status = "released"

-----------------------------------------------------------------------------
(* What DeliveryPromise calls the defects and batches of the database.     *)
Unsettled ==
    {<< d, defects[d].vessel >> :
        d \in {e \in DOMAIN defects : defects[e].status # "closed"}}

Settled == {d \in DOMAIN defects : defects[d].status = "closed"}

Promise == INSTANCE DeliveryPromise WITH
    sailed  <- {v \in Vessels : Sailed(v)},
    open    <- Unsettled,
    closed  <- Settled,
    batches <- [b \in DOMAIN delivery_batches |->
                   [vessel |-> delivery_batches[b].vessel,
                    stage  |-> delivery_batches[b].status]]

(* The whole system keeps the promise of DeliveryPromise, although the     *)
(* trial, the dispositions and the gate are three components and the gate  *)
(* only counts rows: whatever runs concurrently, a batch passes its gate   *)
(* or is released only at a moment when its vessel has sailed and all its  *)
(* reported defects are closed; a closed defect stays closed and a         *)
(* released batch released.                                                *)
DeliveryPromised == Promise!PromiseSpec
=============================================================================
