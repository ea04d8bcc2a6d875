--------------------------- MODULE DeliveryProofs ---------------------------
(***************************************************************************)
(* Proofs about defects and delivery batches inside the whole service, for *)
(* any sets of defects, batches, users and plans: the evidence of every    *)
(* disposition and release is complete, and the service implements         *)
(* DeliveryPromise.                                                        *)
(***************************************************************************)
EXTENDS TrialService, TrialPlanProofs

(* A step of TrialService is one of TrialPlan, or leaves its tables alone. *)
LEMMA SystemStepPlans ==
    ASSUME [SystemNext]_systemVars
    PROVE  [Next]_vars
BY DEF SystemNext, systemVars

(* The whole service keeps what TrialPlan promises.                        *)
THEOREM SystemPlans == SystemSpec => Spec
<1>1. SystemInit => Init
    BY DEF SystemInit
<1>2. [SystemNext]_systemVars => [Next]_vars
    BY SystemStepPlans
<1> QED BY <1>1, <1>2, PTL DEF SystemSpec, Spec

-----------------------------------------------------------------------------
(* The order of dispositions, spelled out.                                 *)
LEMMA DispositionOrder ==
    /\ Dispositions[1] = "open" /\ Dispositions[2] = "contained"
    /\ Dispositions[3] = "verified" /\ Dispositions[4] = "closed"
BY DEF Dispositions

(* What an UPDATE of a defect sets, and what it leaves.                    *)
LEMMA DefectAdvance ==
    ASSUME NEW row \in DefectRow, NEW s \in DefectStatus
    PROVE  /\ Advance(row, s) \in DefectRow
           /\ Advance(row, s) = [vessel |-> row.vessel, leg |-> row.leg,
                 code |-> row.code, status |-> s,
                 created_by |-> row.created_by, version |-> row.version + 1]
<1> DEFINE mid == [row EXCEPT !.status = s]
<1>1. /\ mid \in DefectRow
      /\ mid = [vessel |-> row.vessel, leg |-> row.leg, code |-> row.code,
                status |-> s, created_by |-> row.created_by,
                version |-> row.version]
    BY DEF DefectRow
<1>2. Advance(row, s) = [mid EXCEPT !.version = row.version + 1]
    BY Zenon DEF Advance
<1> HIDE DEF mid
<1> QED BY <1>1, <1>2 DEF DefectRow

DefectIInv == DefectTypeOK /\ DefectEvidence

(* The evidence of one defect, as DefectEvidence asks for it.              *)
EvidenceOf(d) ==
    IF d \notin DOMAIN defects
    THEN defect_actions[d] = << >> /\ defect_audit[d] = << >>
    ELSE /\ defects[d].version \in 1..4
         /\ defects[d].status = Dispositions[defects[d].version]
         /\ Len(defect_actions[d]) = defects[d].version
         /\ Len(defect_audit[d]) = defects[d].version
         /\ \A i \in 1..defects[d].version :
               /\ defect_actions[d][i].action = Dispositions[i]
               /\ defect_audit[d][i] = Dispositions[i]
               /\ IF i = 1
                  THEN defect_actions[d][i].actor = defects[d].created_by
                  ELSE defect_actions[d][i].actor \in QualityManagers

LEMMA EvidenceIsAll == DefectEvidence <=> \A d \in Defects : EvidenceOf(d)
BY DEF DefectEvidence, EvidenceOf

(* A new defect is open, with one action of its author.                    *)
LEMMA CreateDefectInv ==
    ASSUME DefectIInv, NEW a \in Staff, NEW d \in Defects, NEW v \in Vessels,
           NEW leg \in LegRefs, NEW code \in Codes,
           CreateDefect(a, d, v, leg, code)
    PROVE  DefectIInv'
<1> DEFINE row == [vessel |-> v, leg |-> leg, code |-> code, status |-> "open",
                   created_by |-> a, version |-> 1]
           act == [actor |-> a, action |-> "open"]
<1>1. /\ a \in Reporters /\ d \notin DOMAIN defects
      /\ defects' = Insert(defects, d, row)
      /\ defect_actions' = [defect_actions EXCEPT ![d] = Append(@, act)]
      /\ defect_audit' = [defect_audit EXCEPT ![d] = Append(@, "open")]
    BY DEF CreateDefect, CreateDefectCheck, CreateDefectWrite, RecordAction
<1>2. row \in DefectRow /\ act \in DefectAction /\ "open" \in DefectStatus
    BY <1>1 DEF DefectRow, DefectAction, DefectStatus
<1>3. /\ DOMAIN defects' = DOMAIN defects \cup {d}
      /\ defects'[d] = row
      /\ \A e \in DOMAIN defects : defects'[e] = defects[e]
    BY <1>1 DEF Insert
<1> HIDE DEF row, act
<1>4. /\ defect_actions \in [Defects -> Seq(DefectAction)]
      /\ defect_audit \in [Defects -> Seq(DefectStatus)]
      /\ defect_actions[d] = << >> /\ defect_audit[d] = << >>
    BY <1>1 DEF DefectIInv, DefectTypeOK, DefectEvidence
<1>5. DefectTypeOK'
  <2>1. defects' \in [DOMAIN defects' -> DefectRow]
    BY <1>1, <1>2, <1>3 DEF DefectIInv, DefectTypeOK, Insert
  <2> QED BY <1>1, <1>2, <1>3, <1>4, <2>1 DEF DefectIInv, DefectTypeOK
<1>6. /\ defect_actions'[d] = << act >> /\ Len(<< act >>) = 1
      /\ defect_audit'[d] = << "open" >> /\ Len(<< "open" >>) = 1
    BY <1>1, <1>2, <1>4
<1>7. EvidenceOf(d)'
    BY <1>3, <1>6, DispositionOrder DEF EvidenceOf, row, act
<1>8. ASSUME NEW e \in Defects, e # d
      PROVE  EvidenceOf(e)'
  <2>1. /\ defect_actions'[e] = defect_actions[e]
        /\ defect_audit'[e] = defect_audit[e]
        /\ e \in DOMAIN defects' <=> e \in DOMAIN defects
        /\ e \in DOMAIN defects => defects'[e] = defects[e]
    BY <1>1, <1>3, <1>4, <1>8
  <2>2. EvidenceOf(e)
    BY EvidenceIsAll DEF DefectIInv
  <2> QED BY <2>1, <2>2 DEF EvidenceOf
<1>9. DefectEvidence'
    BY <1>7, <1>8 DEF DefectEvidence, EvidenceOf
<1> QED BY <1>5, <1>9 DEF DefectIInv

(* A transition appends the next disposition, and a quality manager's      *)
(* action for it.                                                          *)
LEMMA TransitionInv ==
    ASSUME DefectIInv, NEW a \in Staff, NEW d \in Defects,
           NEW t \in Targets, NEW n \in Versions, TransitionDefect(a, d, t, n)
    PROVE  DefectIInv'
<1> DEFINE act == [actor |-> a, action |-> t]
           k == defects[d].version
<1>1. /\ a \in QualityManagers /\ d \in DOMAIN defects
      /\ allowed[defects[d].status] = t /\ t \in DefectStatus
      /\ defects' = [defects EXCEPT ![d] = Advance(@, t)]
      /\ defect_actions' = [defect_actions EXCEPT ![d] = Append(@, act)]
      /\ defect_audit' = [defect_audit EXCEPT ![d] = Append(@, t)]
    BY DEF TransitionDefect, TransitionCheck, TransitionWrite, RecordAction
<1>2. /\ defects[d] \in DefectRow
      /\ act \in DefectAction
      /\ defect_actions \in [Defects -> Seq(DefectAction)]
      /\ defect_audit \in [Defects -> Seq(DefectStatus)]
    BY <1>1 DEF DefectIInv, DefectTypeOK, DefectAction
<1>3. EvidenceOf(d)
    BY EvidenceIsAll DEF DefectIInv
<1>4. k \in 1..3 /\ t = Dispositions[k + 1]
  <2>1. k \in 1..4 /\ defects[d].status = Dispositions[k]
    BY <1>1, <1>3 DEF EvidenceOf
  <2>2. /\ allowed["open"] = "contained" /\ allowed["contained"] = "verified"
        /\ allowed["verified"] = "closed" /\ allowed["closed"] = ""
    BY DEF allowed
  <2>3. k = 1 \/ k = 2 \/ k = 3 \/ k = 4
    BY <2>1
  <2>4. k # 4
    BY <1>1, <2>1, <2>2, DispositionOrder DEF DefectStatus
  <2> HIDE DEF k
  <2>5. CASE k = 1
    <3>1. defects[d].status = "open"
      BY <2>1, <2>5, DispositionOrder
    <3>2. t = "contained"
      BY <1>1, <2>2, <3>1
    <3>3. k + 1 = 2 /\ k \in 1..3
      BY <2>5
    <3> QED BY <3>2, <3>3, DispositionOrder
  <2>6. CASE k = 2
    <3>1. defects[d].status = "contained"
      BY <2>1, <2>6, DispositionOrder
    <3>2. t = "verified"
      BY <1>1, <2>2, <3>1
    <3>3. k + 1 = 3 /\ k \in 1..3
      BY <2>6
    <3> QED BY <3>2, <3>3, DispositionOrder
  <2>7. CASE k = 3
    <3>1. defects[d].status = "verified"
      BY <2>1, <2>7, DispositionOrder
    <3>2. t = "closed"
      BY <1>1, <2>2, <3>1
    <3>3. k + 1 = 4 /\ k \in 1..3
      BY <2>7
    <3> QED BY <3>2, <3>3, DispositionOrder
  <2> QED BY <2>3, <2>4, <2>5, <2>6, <2>7
<1>5. /\ DOMAIN defects' = DOMAIN defects
      /\ defects'[d] = Advance(defects[d], t)
      /\ defects'[d].version = k + 1 /\ defects'[d].status = t
      /\ defects'[d].created_by = defects[d].created_by
      /\ defects'[d] \in DefectRow
      /\ \A e \in DOMAIN defects : e # d => defects'[e] = defects[e]
    BY <1>1, <1>2, DefectAdvance
<1> HIDE DEF act
<1>6. DefectTypeOK'
  <2>1. defects' \in [DOMAIN defects' -> DefectRow]
    BY <1>1, <1>5 DEF DefectIInv, DefectTypeOK
  <2> QED BY <1>1, <1>2, <1>5, <2>1 DEF DefectIInv, DefectTypeOK
<1>7. /\ Len(defect_actions'[d]) = k + 1
      /\ defect_actions'[d][k + 1] = act
      /\ \A i \in 1..k : defect_actions'[d][i] = defect_actions[d][i]
  <2>1. defect_actions'[d] = Append(defect_actions[d], act)
    BY <1>1, <1>2
  <2> QED BY <1>2, <1>3, <1>1, <2>1, AppendProperties DEF EvidenceOf
<1>8. /\ Len(defect_audit'[d]) = k + 1
      /\ defect_audit'[d][k + 1] = t
      /\ \A i \in 1..k : defect_audit'[d][i] = defect_audit[d][i]
  <2>1. defect_audit'[d] = Append(defect_audit[d], t)
    BY <1>1, <1>2
  <2> QED BY <1>2, <1>3, <1>1, <2>1, AppendProperties DEF EvidenceOf
<1>9. EvidenceOf(d)'
  <2>1. /\ k + 1 \in 1..4
        /\ \A i \in 1..(k + 1) : i = k + 1 \/ i \in 1..k
    BY <1>4
  <2>2. act.actor \in QualityManagers /\ act.action = t
    BY <1>1 DEF act
  <2>3. \A i \in 1..(k + 1) :
            /\ defect_actions'[d][i].action = Dispositions[i]
            /\ defect_audit'[d][i] = Dispositions[i]
            /\ IF i = 1
               THEN defect_actions'[d][i].actor = defects[d].created_by
               ELSE defect_actions'[d][i].actor \in QualityManagers
    <3>1. ASSUME NEW i \in 1..k
          PROVE  /\ defect_actions'[d][i].action = Dispositions[i]
                 /\ defect_audit'[d][i] = Dispositions[i]
                 /\ IF i = 1
                    THEN defect_actions'[d][i].actor = defects[d].created_by
                    ELSE defect_actions'[d][i].actor \in QualityManagers
      BY <1>1, <1>3, <1>7, <1>8, <3>1 DEF EvidenceOf
    <3>2. k + 1 # 1
      BY <1>4
    <3> QED BY <1>4, <1>7, <1>8, <2>1, <2>2, <3>1, <3>2
  <2> HIDE DEF k
  <2> QED BY <1>1, <1>4, <1>5, <1>7, <1>8, <2>1, <2>3 DEF EvidenceOf
<1>10. ASSUME NEW e \in Defects, e # d
       PROVE  EvidenceOf(e)'
  <2>1. /\ defect_actions'[e] = defect_actions[e]
        /\ defect_audit'[e] = defect_audit[e]
        /\ e \in DOMAIN defects => defects'[e] = defects[e]
    BY <1>1, <1>2, <1>5, <1>10
  <2>2. EvidenceOf(e)
    BY EvidenceIsAll DEF DefectIInv
  <2> QED BY <1>5, <2>1, <2>2 DEF EvidenceOf
<1>11. DefectEvidence'
    BY <1>9, <1>10 DEF DefectEvidence, EvidenceOf
<1> QED BY <1>6, <1>11 DEF DefectIInv

LEMMA DefectStepInv ==
    ASSUME DefectIInv, [DefectNext]_defectVars
    PROVE  DefectIInv'
<1>1. CASE UNCHANGED defectVars
    BY <1>1 DEF defectVars, DefectIInv, DefectTypeOK, DefectEvidence
<1> QED BY <1>1, CreateDefectInv, TransitionInv DEF DefectNext

LEMMA DefectInitInv == DefectInit => DefectIInv
BY DEF DefectInit, EmptyTable, DefectIInv, DefectTypeOK, DefectEvidence

(* The evidence for every disposition is complete, in order and signed by  *)
(* the right people (CreateDefect, TransitionDefect).                      *)
THEOREM DefectsEvident == SystemSpec => []DefectEvidence
<1>1. SystemInit => DefectIInv
    BY DefectInitInv DEF SystemInit
<1>2. DefectIInv /\ [SystemNext]_systemVars => DefectIInv'
  <2>1. [SystemNext]_systemVars => [DefectNext]_defectVars
    BY DEF SystemNext, systemVars
  <2> QED BY <2>1, DefectStepInv
<1>3. DefectIInv => DefectEvidence
    BY DEF DefectIInv
<1> QED BY <1>1, <1>2, <1>3, PTL DEF SystemSpec

-----------------------------------------------------------------------------
(* A completed plan stays completed, and with its vessel.                  *)
LEMMA SailedStays ==
    ASSUME PlanIInv, [Next]_vars, NEW v, Sailed(v)
    PROVE  Sailed(v)'
<1>1. PICK p \in DOMAIN trial_plans :
          trial_plans[p].vessel = v /\ trial_plans[p].status = "completed"
    BY DEF Sailed
<1>2. p \in DOMAIN trial_plans' /\ trial_plans'[p] = trial_plans[p]
    BY <1>1, PlanStepMoves DEF PlanRowsMove, PlanFlow
<1> QED BY <1>1, <1>2 DEF Sailed

(* What the gate's UPDATE sets, and what it leaves.                        *)
LEMMA BatchAdvance ==
    ASSUME NEW row \in BatchRow, NEW s \in BatchStatus,
           NEW x \in QualityManagers \cup {Nobody},
           NEW new, new = [Advance(row, s) EXCEPT !.released_by = x]
    PROVE  /\ new \in BatchRow
           /\ new = [vessel |-> row.vessel, batch_no |-> row.batch_no,
                 status |-> s, version |-> row.version + 1, released_by |-> x]
<1> DEFINE mid == [row EXCEPT !.status = s]
           moved == Advance(row, s)
<1>1. /\ mid \in BatchRow
      /\ mid = [vessel |-> row.vessel, batch_no |-> row.batch_no, status |-> s,
                version |-> row.version, released_by |-> row.released_by]
    BY DEF BatchRow
<1>2. moved = [mid EXCEPT !.version = row.version + 1]
    BY Zenon DEF Advance
<1> HIDE DEF mid
<1>3. moved \in BatchRow
      /\ moved = [vessel |-> row.vessel, batch_no |-> row.batch_no, status |-> s,
                  version |-> row.version + 1, released_by |-> row.released_by]
    BY <1>1, <1>2 DEF BatchRow
<1>4. new = [moved EXCEPT !.released_by = x]
    OBVIOUS
<1> HIDE DEF moved
<1> QED BY <1>3, <1>4 DEF BatchRow

(* The story of one batch, as ReleaseEvidence tells it, with as much of    *)
(* its vessel's trial as the gate reads.                                   *)
StoryOf(b) ==
    IF b \notin DOMAIN delivery_batches THEN batch_audit[b] = << >>
    ELSE LET row == delivery_batches[b]
             trail == batch_audit[b]
             n == row.version
         IN  /\ n >= 1 /\ Len(trail) = n /\ trail[1] = "create"
             /\ \A i \in 2..(n - 1) : trail[i] = "quality_gate"
             /\ IF n = 1 THEN row.status = "preparing"
                ELSE /\ row.status \in {"quality_gate", "released"}
                     /\ trail[n] = row.status
                     /\ Sailed(row.vessel)
             /\ row.released_by # Nobody <=> row.status = "released"

Stories == \A b \in Batches : StoryOf(b)

BatchIInv == BatchTypeOK /\ Stories

(* A step that leaves a batch and its trail alone keeps its story.         *)
LEMMA StoryStays ==
    ASSUME NEW b \in Batches, StoryOf(b), \A v : Sailed(v) => Sailed(v)',
           batch_audit'[b] = batch_audit[b],
           b \in DOMAIN delivery_batches' <=> b \in DOMAIN delivery_batches,
           b \in DOMAIN delivery_batches =>
               delivery_batches'[b] = delivery_batches[b]
    PROVE  StoryOf(b)'
BY DEF StoryOf

(* A new batch is being prepared and has one audit event.                  *)
LEMMA CreateBatchInv ==
    ASSUME BatchIInv, \A v : Sailed(v) => Sailed(v)', NEW a \in Staff,
           NEW b \in Batches, NEW v \in Vessels, NEW number \in BatchNumbers,
           CreateDeliveryBatch(a, b, v, number)
    PROVE  BatchIInv'
<1> DEFINE row == [vessel |-> v, batch_no |-> number, status |-> "preparing",
                   version |-> 1, released_by |-> Nobody]
           Event1 == {"create"} \cup BatchStatus
<1>1. /\ b \notin DOMAIN delivery_batches
      /\ delivery_batches' = Insert(delivery_batches, b, row)
      /\ batch_audit' = [batch_audit EXCEPT ![b] = Append(@, "create")]
    BY DEF CreateDeliveryBatch, CreateBatchCheck, CreateBatchWrite
<1>2. row \in BatchRow /\ "create" \in Event1
    BY DEF BatchRow, BatchStatus
<1>3. /\ DOMAIN delivery_batches' = DOMAIN delivery_batches \cup {b}
      /\ delivery_batches'[b] = row
      /\ \A c \in DOMAIN delivery_batches : delivery_batches'[c] = delivery_batches[c]
    BY <1>1 DEF Insert
<1> HIDE DEF row
<1>4. batch_audit \in [Batches -> Seq(Event1)] /\ batch_audit[b] = << >>
    BY <1>1 DEF BatchIInv, BatchTypeOK, Stories, StoryOf
<1>5. BatchTypeOK'
  <2>1. delivery_batches' \in [DOMAIN delivery_batches' -> BatchRow]
    BY <1>1, <1>2, <1>3 DEF BatchIInv, BatchTypeOK, Insert
  <2>2. batch_audit' \in [Batches -> Seq(Event1)]
    BY <1>1, <1>2, <1>4
  <2> QED BY <1>3, <2>1, <2>2 DEF BatchIInv, BatchTypeOK
<1>6. batch_audit'[b] = << "create" >> /\ Len(<< "create" >>) = 1
    BY <1>1, <1>2, <1>4
<1>7. StoryOf(b)'
    BY <1>3, <1>6 DEF StoryOf, row
<1>8. \A c \in Batches : c # b => StoryOf(c)'
  <2>1. SUFFICES ASSUME NEW c \in Batches, c # b PROVE StoryOf(c)'
    OBVIOUS
  <2>2. /\ batch_audit'[c] = batch_audit[c]
        /\ c \in DOMAIN delivery_batches' <=> c \in DOMAIN delivery_batches
        /\ c \in DOMAIN delivery_batches =>
              delivery_batches'[c] = delivery_batches[c]
    BY <1>1, <1>3, <1>4, <2>1
  <2> QED BY <2>1, <2>2, StoryStays DEF BatchIInv, Stories
<1>9. Stories'
    BY <1>7, <1>8 DEF Stories, StoryOf
<1> QED BY <1>5, <1>9 DEF BatchIInv

(* The gate appends its event; a release signs the row.                    *)
LEMMA GateInv ==
    ASSUME BatchIInv, \A v : Sailed(v) => Sailed(v)', NEW a \in Staff,
           NEW b \in Batches, NEW release \in BOOLEAN, NEW m \in Versions,
           EvaluateDelivery(a, b, release, m)
    PROVE  BatchIInv'
<1> DEFINE t == IF release THEN "released" ELSE "quality_gate"
           x == IF release THEN a ELSE Nobody
           n == delivery_batches[b].version
           Event1 == {"create"} \cup BatchStatus
<1>1. /\ a \in QualityManagers /\ b \in DOMAIN delivery_batches
      /\ delivery_batches[b].status \in {"preparing", "quality_gate"}
      /\ Sailed(delivery_batches[b].vessel)
      /\ delivery_batches' = [delivery_batches EXCEPT
             ![b] = [Advance(@, t) EXCEPT !.released_by = x]]
      /\ batch_audit' = [batch_audit EXCEPT ![b] = Append(@, t)]
    BY DEF EvaluateDelivery, GateCheck, GateWrite
<1>2. /\ delivery_batches[b] \in BatchRow
      /\ batch_audit \in [Batches -> Seq(Event1)]
      /\ t \in {"quality_gate", "released"} /\ t \in BatchStatus /\ t \in Event1
      /\ x \in QualityManagers \cup {Nobody}
      /\ x # Nobody <=> t = "released"
    BY <1>1, NobodyAssumption DEF BatchIInv, BatchTypeOK, BatchStatus
<1>3. StoryOf(b)
    BY DEF BatchIInv, Stories
<1> HIDE DEF t, x
<1>4. /\ DOMAIN delivery_batches' = DOMAIN delivery_batches
      /\ delivery_batches'[b] = [Advance(delivery_batches[b], t) EXCEPT
                                    !.released_by = x]
      /\ \A c \in DOMAIN delivery_batches : c # b =>
            delivery_batches'[c] = delivery_batches[c]
    BY <1>1
<1>5. /\ delivery_batches'[b] \in BatchRow
      /\ delivery_batches'[b].vessel = delivery_batches[b].vessel
      /\ delivery_batches'[b].status = t
      /\ delivery_batches'[b].version = n + 1
      /\ delivery_batches'[b].released_by = x
  <2> DEFINE old == delivery_batches[b]
             new == delivery_batches'[b]
  <2>1. old \in BatchRow /\ new = [Advance(old, t) EXCEPT !.released_by = x]
    BY <1>2, <1>4
  <2> HIDE DEF old, new
  <2>2. /\ new \in BatchRow
        /\ new = [vessel |-> old.vessel, batch_no |-> old.batch_no, status |-> t,
                  version |-> old.version + 1, released_by |-> x]
    BY <1>2, <2>1, BatchAdvance
  <2>3. /\ new.vessel = old.vessel /\ new.status = t
        /\ new.version = old.version + 1 /\ new.released_by = x
    BY <2>2
  <2> QED BY <2>2, <2>3 DEF old, new
<1>6. BatchTypeOK'
  <2>1. delivery_batches' \in [DOMAIN delivery_batches' -> BatchRow]
    BY <1>1, <1>4, <1>5 DEF BatchIInv, BatchTypeOK
  <2>2. batch_audit' \in [Batches -> Seq(Event1)]
    BY <1>1, <1>2
  <2> QED BY <1>4, <2>1, <2>2 DEF BatchIInv, BatchTypeOK
<1>7. n \in Nat /\ n >= 1 /\ Len(batch_audit[b]) = n
      /\ batch_audit[b] \in Seq(Event1)
    BY <1>1, <1>2, <1>3 DEF StoryOf, BatchRow
<1>8. /\ Len(batch_audit'[b]) = n + 1
      /\ batch_audit'[b][n + 1] = t
      /\ \A i \in 1..n : batch_audit'[b][i] = batch_audit[b][i]
  <2>1. batch_audit'[b] = Append(batch_audit[b], t)
    BY <1>1, <1>2
  <2> HIDE DEF Event1
  <2> QED BY <1>2, <1>7, <2>1, AppendProperties
<1>9. StoryOf(b)'
  <2>1. batch_audit'[b][1] = "create"
    BY <1>1, <1>3, <1>7, <1>8 DEF StoryOf
  <2>2. ASSUME NEW i \in 2..n
        PROVE  batch_audit'[b][i] = "quality_gate"
    <3>1. batch_audit'[b][i] = batch_audit[b][i]
      BY <1>7, <1>8, <2>2
    <3>2. CASE i = n
      BY <1>1, <1>3, <1>7, <2>2, <3>1, <3>2 DEF StoryOf
    <3>3. CASE i # n
      <4>1. i \in 2..(n - 1)
        BY <1>7, <2>2, <3>3
      <4> QED BY <1>1, <1>3, <3>1, <4>1 DEF StoryOf
    <3> QED BY <3>2, <3>3
  <2>3. PICK v : v = delivery_batches[b].vessel
    OBVIOUS
  <2>4. Sailed(v)' /\ delivery_batches'[b].vessel = v
    BY <1>1, <1>5, <2>3
  <2>5. n + 1 >= 1 /\ n + 1 # 1 /\ (n + 1) - 1 = n
    BY <1>7
  <2>6. /\ b \in DOMAIN delivery_batches'
        /\ delivery_batches'[b].version >= 1
        /\ delivery_batches'[b].version # 1
        /\ Len(batch_audit'[b]) = delivery_batches'[b].version
        /\ delivery_batches'[b].status \in {"quality_gate", "released"}
        /\ batch_audit'[b][delivery_batches'[b].version] = delivery_batches'[b].status
        /\ delivery_batches'[b].released_by # Nobody
              <=> delivery_batches'[b].status = "released"
    BY <1>1, <1>2, <1>4, <1>5, <1>8, <2>5
  <2>7. \A i \in 2..(delivery_batches'[b].version - 1) :
            batch_audit'[b][i] = "quality_gate"
    BY <1>5, <2>2, <2>5
  <2> HIDE DEF n
  <2> QED BY <2>1, <2>4, <2>6, <2>7 DEF StoryOf, Sailed
<1>10. \A c \in Batches : c # b => StoryOf(c)'
  <2>1. SUFFICES ASSUME NEW c \in Batches, c # b PROVE StoryOf(c)'
    OBVIOUS
  <2>2. /\ batch_audit'[c] = batch_audit[c]
        /\ c \in DOMAIN delivery_batches =>
              delivery_batches'[c] = delivery_batches[c]
    BY <1>1, <1>2, <1>4, <2>1
  <2> QED BY <1>4, <2>1, <2>2, StoryStays DEF BatchIInv, Stories
<1>11. Stories'
    BY <1>9, <1>10 DEF Stories, StoryOf
<1> QED BY <1>6, <1>11 DEF BatchIInv

DeliveryIInv == PlanIInv /\ DefectIInv /\ BatchIInv

LEMMA DeliveryInitInv == SystemInit => DeliveryIInv
BY PlanInitInv, DefectInitInv DEF SystemInit, BatchInit, EmptyTable, BatchIInv,
   BatchTypeOK, Stories, StoryOf, DeliveryIInv

LEMMA DeliveryStepInv ==
    ASSUME DeliveryIInv, [SystemNext]_systemVars
    PROVE  DeliveryIInv'
<1> USE DEF DeliveryIInv
<1>1. PlanIInv' /\ \A v : Sailed(v) => Sailed(v)'
    BY SystemStepPlans, PlanStepInv, SailedStays
<1>2. DefectIInv'
  <2>1. [DefectNext]_defectVars
    BY DEF SystemNext, systemVars
  <2> QED BY <2>1, DefectStepInv
<1>3. BatchIInv'
  <2>1. CASE UNCHANGED batchVars
    <3>1. BatchTypeOK'
      BY <2>1 DEF batchVars, BatchIInv, BatchTypeOK
    <3>2. \A b \in Batches : StoryOf(b)'
      BY <1>1, <2>1, StoryStays DEF batchVars, BatchIInv, Stories
    <3>3. Stories'
      BY <3>2 DEF Stories, StoryOf
    <3> QED BY <3>1, <3>3 DEF BatchIInv
  <2>2. CASE BatchNext
    BY <1>1, <2>2, CreateBatchInv, GateInv DEF BatchNext
  <2> QED BY <2>1, <2>2 DEF SystemNext, systemVars
<1> QED BY <1>1, <1>2, <1>3

(* The invariant of trials, defects and batches holds in every reachable   *)
(* state of the service.                                                   *)
THEOREM DeliveryInductive == SystemSpec => []DeliveryIInv
BY DeliveryInitInv, DeliveryStepInv, PTL DEF SystemSpec

(* A completed plan was completed leg by leg, on the approval of a         *)
(* surveyor: the tables of three components say so.                        *)
LEMMA CompletedOnApproval ==
    ASSUME PlanIInv, PlanAudited, NEW p \in DOMAIN trial_plans,
           trial_plans[p].status = "completed"
    PROVE  DoneOnApproval(p)
<1>1. LegsOf(p) # {} /\ \A l \in LegsOf(p) : voyage_legs[l].status = "completed"
    BY DEF PlanIInv, PlanFollowsLegs
<1>2. \A l \in LegsOf(p) : leg_audit[l] = << "create", "release", "complete" >>
  <2>1. \A l \in LegsOf(p) : l \in DOMAIN voyage_legs /\ l \in Legs
    BY DEF LegsOf, PlanIInv, PlanTypeOK
  <2>2. \A l \in LegsOf(p) : leg_audit[l] = LegTrail(l)
    BY <2>1 DEF PlanAudited
  <2> QED BY <1>1, <2>1, <2>2 DEF LegTrail
<1> DEFINE r == trial_plans[p].review
<1>3. /\ r \in DOMAIN class_reviews /\ r \in Reviews
      /\ class_reviews[r].status = "approved"
      /\ class_reviews[r].vessel = trial_plans[p].vessel
    BY DEF PlanIInv, PlanBackedByApproval, ReviewIInv, ReviewTypeOK
<1>4. PICK d \in review_decisions : d.review = r
    BY <1>3 DEF PlanIInv, ReviewIInv, DecisionConsistent, Decided, Decisions
<1>5. /\ d.decision = "approved" /\ d.reviewer \in Surveyors
      /\ d.reviewer # class_reviews[d.review].submitted_by
    BY <1>3, <1>4 DEF PlanIInv, ReviewIInv, DecisionConsistent
<1> QED BY <1>1, <1>2, <1>3, <1>4, <1>5 DEF DoneOnApproval

(* A batch's row, version and trail tell one story, its signer is a        *)
(* quality manager, and from the first gate on its vessel has a trial done *)
(* on approval (EvaluateDelivery, DecideReview, CreatePlan, CompleteLeg).  *)
THEOREM ReleasesEvident == SystemSpec => []ReleaseEvidence
<1>1. ASSUME DeliveryIInv, PlanAudited
      PROVE  ReleaseEvidence
  <2>1. \A v : Sailed(v) => \E p \in DOMAIN trial_plans :
                                trial_plans[p].vessel = v /\ DoneOnApproval(p)
    BY <1>1, CompletedOnApproval DEF Sailed, DeliveryIInv
  <2> QED BY <1>1, <2>1
          DEF DeliveryIInv, BatchIInv, Stories, StoryOf, ReleaseEvidence
<1> QED BY DeliveryInductive, SystemPlans, PlansAudited, <1>1, PTL

-----------------------------------------------------------------------------
(* What DeliveryPromise sees of the tables.                                *)
SailedNow == {v \in Vessels : Sailed(v)}
BatchesNow == [b \in DOMAIN delivery_batches |->
                  [vessel |-> delivery_batches[b].vessel,
                   stage  |-> delivery_batches[b].status]]

(* The abstract steps, in these terms.                                     *)
LEMMA PromiseSteps ==
    /\ UNCHANGED << SailedNow, Unsettled, Settled, BatchesNow >>
          => UNCHANGED Promise!promiseVars
    /\ \A v \in Vessels :
          /\ SailedNow' = SailedNow \cup {v}
          /\ UNCHANGED << Unsettled, Settled, BatchesNow >>
          => Promise!PromiseNext
    /\ \A d \in Defects, v \in Vessels :
          /\ d \notin Settled /\ \A x \in Unsettled : x[1] # d
          /\ Unsettled' = Unsettled \cup {<< d, v >>}
          /\ UNCHANGED << SailedNow, Settled, BatchesNow >>
          => Promise!PromiseNext
    /\ \A d \in Defects, v \in Vessels :
          /\ << d, v >> \in Unsettled
          /\ Unsettled' = Unsettled \ {<< d, v >>}
          /\ Settled' = Settled \cup {d}
          /\ UNCHANGED << SailedNow, BatchesNow >>
          => Promise!PromiseNext
    /\ \A b \in Batches, v \in Vessels :
          /\ b \notin DOMAIN BatchesNow
          /\ BatchesNow' = Insert(BatchesNow, b, [vessel |-> v, stage |-> "preparing"])
          /\ UNCHANGED << SailedNow, Unsettled, Settled >>
          => Promise!PromiseNext
    /\ \A b \in Batches, stage \in {"quality_gate", "released"} :
          /\ b \in DOMAIN BatchesNow
          /\ BatchesNow[b].stage # "released"
          /\ BatchesNow[b].vessel \in SailedNow
          /\ \A x \in Unsettled : x[2] # BatchesNow[b].vessel
          /\ BatchesNow' = [BatchesNow EXCEPT ![b].stage = stage]
          /\ UNCHANGED << SailedNow, Unsettled, Settled >>
          => Promise!PromiseNext
BY DEF SailedNow, BatchesNow, Promise!promiseVars, Promise!PromiseNext,
       Promise!Sail, Promise!Report, Promise!Close, Promise!Prepare,
       Promise!Pass, Promise!Insert, Insert

(* A trial request completes at most one vessel's trial.                   *)
LEMMA PlanKeepsPromise ==
    ASSUME PlanIInv, [Next]_vars, UNCHANGED << defectVars, batchVars >>
    PROVE  [Promise!PromiseNext]_(Promise!promiseVars)
<1>1. UNCHANGED << Unsettled, Settled, BatchesNow >>
    BY DEF defectVars, batchVars, Unsettled, Settled, BatchesNow
<1>2. \A v : Sailed(v) => Sailed(v)'
    BY SailedStays
<1>3. \/ SailedNow' = SailedNow
      \/ \E v \in Vessels : SailedNow' = SailedNow \cup {v}
  <2>1. ASSUME NEW a \in Users, NEW l \in Legs, NEW n \in Versions,
               CompleteLeg(a, l, n)
        PROVE  \E v \in Vessels : SailedNow' \subseteq SailedNow \cup {v}
    <3> DEFINE p == voyage_legs[l].plan
               v == trial_plans[p].vessel
    <3>1. /\ PlanUpdated(p, IF AllDone(p, l) THEN "completed"
                            ELSE trial_plans[p].status)
          /\ p \in DOMAIN trial_plans /\ v \in Vessels
      BY <2>1, CompleteEffect DEF PlanIInv, PlanTypeOK, PlanRow, CompleteLeg,
         CompleteCheck
    <3>2. SailedNow' \subseteq SailedNow \cup {v}
      BY <3>1 DEF SailedNow, Sailed, PlanUpdated
    <3> QED BY <3>1, <3>2
  <2>2. ASSUME NEW a \in Users, NEW l \in Legs, NEW n \in Versions,
               ReleaseLeg(a, l, n)
        PROVE  SailedNow' \subseteq SailedNow
    <3> DEFINE p == voyage_legs[l].plan
    <3>1. PlanUpdated(p, "active")
      BY <2>2, ReleaseEffect DEF PlanIInv
    <3> QED BY <3>1 DEF SailedNow, Sailed, PlanUpdated
  <2>3. ASSUME NEW a \in Users, NEW p \in Plans, NEW n \in Versions,
               SchedulePlan(a, p, n)
        PROVE  SailedNow' \subseteq SailedNow
    <3>1. /\ p \in DOMAIN trial_plans
          /\ trial_plans' = [trial_plans EXCEPT ![p] = Advance(@, "scheduled")]
      BY <2>3 DEF SchedulePlan, ScheduleCheck, ScheduleWrite
    <3>2. PlanUpdated(p, "scheduled")
      BY <3>1, PlanUpdate DEF PlanIInv, PlanStatus
    <3> QED BY <3>2 DEF SailedNow, Sailed, PlanUpdated
  <2>4. ASSUME NEW a \in Users, NEW p \in Plans, NEW r \in Reviews,
               NEW v \in Vessels, NEW name \in PlanNames, CreatePlan(a, p, r, v, name)
        PROVE  SailedNow' \subseteq SailedNow
    BY <2>4 DEF CreatePlan, CreatePlanCheck, CreatePlanWrite, Insert,
           SailedNow, Sailed
  <2>5. ASSUME UNCHANGED trial_plans
        PROVE  SailedNow' \subseteq SailedNow
    BY <2>5 DEF SailedNow, Sailed
  <2>6. SailedNow \subseteq SailedNow'
    BY <1>2 DEF SailedNow
  <2> HIDE DEF SailedNow
  <2>7. CASE PlanNext
    BY <2>1, <2>2, <2>3, <2>4, <2>5, <2>6, <2>7 DEF PlanNext, AddLeg, AddLegWrite
  <2>8. CASE UNCHANGED planVars
    BY <2>5, <2>6, <2>8 DEF planVars
  <2> QED BY <2>7, <2>8 DEF Next, vars
<1> QED BY <1>1, <1>3, PromiseSteps

(* A defect request reports a defect, closes one, or changes nothing that  *)
(* the promise is about.                                                   *)
LEMMA DefectKeepsPromise ==
    ASSUME DefectIInv, DefectNext, UNCHANGED << vars, batchVars >>
    PROVE  [Promise!PromiseNext]_(Promise!promiseVars)
<1>1. UNCHANGED << SailedNow, BatchesNow >>
    BY DEF vars, planVars, batchVars, SailedNow, Sailed, BatchesNow
<1>2. ASSUME NEW a \in Staff, NEW d \in Defects, NEW v \in Vessels,
             NEW leg \in LegRefs, NEW code \in Codes,
             CreateDefect(a, d, v, leg, code)
      PROVE  Promise!PromiseNext
  <2>1. /\ d \notin DOMAIN defects
        /\ DOMAIN defects' = DOMAIN defects \cup {d}
        /\ defects'[d].vessel = v /\ defects'[d].status = "open"
        /\ \A e \in DOMAIN defects : defects'[e] = defects[e]
    BY <1>2 DEF CreateDefect, CreateDefectCheck, CreateDefectWrite, Insert
  <2>2. d \notin Settled /\ Settled' = Settled
    BY <2>1 DEF Settled
  <2>3. \A x \in Unsettled : x[1] # d
    BY <2>1 DEF Unsettled
  <2>4. Unsettled' = Unsettled \cup {<< d, v >>}
    BY <2>1 DEF Unsettled
  <2> QED BY <1>1, <2>2, <2>3, <2>4, PromiseSteps
<1>3. ASSUME NEW a \in Staff, NEW d \in Defects, NEW t \in Targets,
             NEW n \in Versions, TransitionDefect(a, d, t, n)
      PROVE  [Promise!PromiseNext]_(Promise!promiseVars)
  <2>1. /\ d \in DOMAIN defects /\ t \in DefectStatus
        /\ allowed[defects[d].status] = t
        /\ defects' = [defects EXCEPT ![d] = Advance(@, t)]
        /\ defects[d] \in DefectRow
    BY <1>3 DEF TransitionDefect, TransitionCheck, TransitionWrite,
           DefectIInv, DefectTypeOK
  <2>2. defects[d].status # "closed"
    <3>1. allowed["closed"] = "" /\ "" \notin DefectStatus
      BY DEF allowed, DefectStatus
    <3> QED BY <2>1, <3>1
  <2>3. /\ DOMAIN defects' = DOMAIN defects
        /\ defects'[d].vessel = defects[d].vessel /\ defects'[d].status = t
        /\ \A e \in DOMAIN defects : e # d => defects'[e] = defects[e]
    BY <2>1, DefectAdvance
  <2>4. CASE t = "closed"
    <3>1. << d, defects[d].vessel >> \in Unsettled /\ defects[d].vessel \in Vessels
      BY <2>1, <2>2 DEF Unsettled, DefectRow
    <3>2. Settled' = Settled \cup {d}
      BY <2>1, <2>3, <2>4 DEF Settled
    <3>3. Unsettled' = Unsettled \ {<< d, defects[d].vessel >>}
      BY <2>2, <2>3, <2>4 DEF Unsettled
    <3> QED BY <1>1, <3>1, <3>2, <3>3, PromiseSteps
  <2>5. CASE t # "closed"
    <3>1. Settled' = Settled /\ Unsettled' = Unsettled
      BY <2>2, <2>3, <2>5 DEF Settled, Unsettled
    <3> QED BY <1>1, <3>1, PromiseSteps
  <2> QED BY <2>4, <2>5
<1> QED BY <1>2, <1>3 DEF DefectNext

(* The gate counts what the promise asks about.                            *)
LEMMA BatchKeepsPromise ==
    ASSUME DeliveryIInv, BatchNext, UNCHANGED << vars, defectVars >>
    PROVE  Promise!PromiseNext
<1>1. UNCHANGED << SailedNow, Unsettled, Settled >>
    BY DEF vars, planVars, defectVars, SailedNow, Sailed, Unsettled, Settled
<1>2. ASSUME NEW a \in Staff, NEW b \in Batches, NEW v \in Vessels,
             NEW number \in BatchNumbers, CreateDeliveryBatch(a, b, v, number)
      PROVE  Promise!PromiseNext
  <2>1. /\ b \notin DOMAIN delivery_batches
        /\ DOMAIN delivery_batches' = DOMAIN delivery_batches \cup {b}
        /\ delivery_batches'[b].vessel = v
        /\ delivery_batches'[b].status = "preparing"
        /\ \A c \in DOMAIN delivery_batches : delivery_batches'[c] = delivery_batches[c]
    BY <1>2 DEF CreateDeliveryBatch, CreateBatchCheck, CreateBatchWrite, Insert
  <2>2. b \notin DOMAIN BatchesNow
    BY <2>1 DEF BatchesNow
  <2>3. BatchesNow' = Insert(BatchesNow, b, [vessel |-> v, stage |-> "preparing"])
    BY <2>1 DEF BatchesNow, Insert
  <2> QED BY <1>1, <2>2, <2>3, PromiseSteps
<1>3. ASSUME NEW a \in Staff, NEW b \in Batches, NEW release \in BOOLEAN,
             NEW n \in Versions, EvaluateDelivery(a, b, release, n)
      PROVE  Promise!PromiseNext
  <2> DEFINE t == IF release THEN "released" ELSE "quality_gate"
             x == IF release THEN a ELSE Nobody
  <2>1. /\ b \in DOMAIN delivery_batches
        /\ delivery_batches[b].status \in {"preparing", "quality_gate"}
        /\ Sailed(delivery_batches[b].vessel)
        /\ NoOpenDefects(delivery_batches[b].vessel)
        /\ delivery_batches' = [delivery_batches EXCEPT
              ![b] = [Advance(@, t) EXCEPT !.released_by = x]]
        /\ delivery_batches[b] \in BatchRow
        /\ x \in QualityManagers \cup {Nobody}
        /\ t \in {"quality_gate", "released"} /\ t \in BatchStatus
    BY <1>3 DEF EvaluateDelivery, GateCheck, GateWrite, DeliveryIInv, BatchIInv,
           BatchTypeOK, BatchStatus
  <2> HIDE DEF t, x
  <2>2. /\ DOMAIN delivery_batches' = DOMAIN delivery_batches
        /\ delivery_batches'[b] = [Advance(delivery_batches[b], t) EXCEPT
                                      !.released_by = x]
        /\ \A c \in DOMAIN delivery_batches : c # b =>
              delivery_batches'[c] = delivery_batches[c]
    BY <2>1
  <2>3. /\ delivery_batches'[b].vessel = delivery_batches[b].vessel
        /\ delivery_batches'[b].status = t
    <3> DEFINE old == delivery_batches[b]
               new == delivery_batches'[b]
    <3>1. old \in BatchRow /\ new = [Advance(old, t) EXCEPT !.released_by = x]
      BY <2>1, <2>2
    <3> HIDE DEF old, new
    <3>2. new = [vessel |-> old.vessel, batch_no |-> old.batch_no, status |-> t,
                 version |-> old.version + 1, released_by |-> x]
      BY <2>1, <3>1, BatchAdvance
    <3>3. new.vessel = old.vessel /\ new.status = t
      BY <3>2
    <3> QED BY <3>3 DEF old, new
  <2>4. /\ b \in DOMAIN BatchesNow
        /\ BatchesNow[b].stage # "released"
        /\ BatchesNow[b].vessel \in SailedNow
    BY <2>1 DEF BatchesNow, SailedNow, BatchRow
  <2>5. \A y \in Unsettled : y[2] # BatchesNow[b].vessel
    BY <2>1 DEF BatchesNow, Unsettled, NoOpenDefects
  <2>6. BatchesNow' = [BatchesNow EXCEPT ![b].stage = t]
    BY <2>1, <2>2, <2>3 DEF BatchesNow
  <2> QED BY <1>1, <2>1, <2>4, <2>5, <2>6, PromiseSteps
<1> QED BY <1>2, <1>3 DEF BatchNext

(* The whole service keeps the promise of DeliveryPromise: a batch passes  *)
(* its gate only when its vessel has sailed and all its defects are closed *)
(* (the gate of EvaluateDelivery, TransitionDefect and CompleteLeg).       *)
THEOREM PromiseKept == SystemSpec => DeliveryPromised
<1>1. SystemInit => Promise!PromiseInit
    BY DEF SystemInit, Init, PlanInit, DefectInit, BatchInit, EmptyTable,
           Promise!PromiseInit, Promise!EmptyTable, Sailed, Unsettled, Settled
<1>2. DeliveryIInv /\ [SystemNext]_systemVars
          => [Promise!PromiseNext]_(Promise!promiseVars)
  <2> SUFFICES ASSUME DeliveryIInv, [SystemNext]_systemVars
               PROVE  [Promise!PromiseNext]_(Promise!promiseVars)
    OBVIOUS
  <2>1. CASE DefectNext /\ UNCHANGED << vars, batchVars >>
    BY <2>1, DefectKeepsPromise DEF DeliveryIInv
  <2>2. CASE BatchNext /\ UNCHANGED << vars, defectVars >>
    BY <2>2, BatchKeepsPromise
  <2>3. CASE UNCHANGED << defectVars, batchVars >>
    BY <2>3, SystemStepPlans, PlanKeepsPromise DEF DeliveryIInv
  <2> QED BY <2>1, <2>2, <2>3 DEF SystemNext, systemVars
<1> QED BY <1>1, <1>2, DeliveryInductive, PTL
        DEF SystemSpec, DeliveryPromised, Promise!PromiseSpec
=============================================================================
