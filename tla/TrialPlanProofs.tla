--------------------------- MODULE TrialPlanProofs ---------------------------
(***************************************************************************)
(* Proofs about TrialPlan for any sets of plans, legs, names and windows.  *)
(***************************************************************************)
EXTENDS TrialPlan, ClassReviewProofs

(* Times in different seconds are in the same order as text as they are as *)
(* instants (formatTime: fixed width down to the second).                  *)
LEMMA SecondsDecideText ==
    ASSUME NEW s \in Instant, NEW t \in Instant, s.sec < t.sec
    PROVE  SqlBefore(s, t)
<1>1. ASSUME NEW u \in Instant
      PROVE  1 \in DOMAIN FormatTime(u) /\ FormatTime(u)[1] = u.sec
  <2>1. FractionText(u.frac) \in Seq(Int)
    BY DEF FractionText, Instant, Dot, Digit
  <2>2. << u.sec >> \in Seq(Int) /\ << Zulu >> \in Seq(Int)
    BY DEF Instant, Zulu
  <2> HIDE DEF FractionText
  <2>3. << u.sec >> \o FractionText(u.frac) \in Seq(Int)
        /\ Len(<< u.sec >> \o FractionText(u.frac)) = 1 + Len(FractionText(u.frac))
        /\ (<< u.sec >> \o FractionText(u.frac))[1] = u.sec
    BY <2>1, <2>2
  <2> QED BY <2>1, <2>2, <2>3 DEF FormatTime
<1> QED BY <1>1 DEF SqlBefore, TextLess, Instant

(* What an UPDATE of one leg sets, and what it leaves.                     *)
LEMMA LegAdvance ==
    ASSUME NEW row \in LegRow, NEW s \in LegStatus
    PROVE  /\ Advance(row, s) \in LegRow
           /\ Advance(row, s) = [plan |-> row.plan, vessel |-> row.vessel,
                 name |-> row.name, window |-> row.window, status |-> s,
                 version |-> row.version + 1]
<1> DEFINE mid == [row EXCEPT !.status = s]
<1>1. /\ mid \in LegRow
      /\ mid = [plan |-> row.plan, vessel |-> row.vessel, name |-> row.name,
                window |-> row.window, status |-> s, version |-> row.version]
    BY DEF LegRow
<1>2. Advance(row, s) = [mid EXCEPT !.version = row.version + 1]
    BY Zenon DEF Advance
<1> HIDE DEF mid
<1> QED BY <1>1, <1>2 DEF LegRow

(* The same for a plan.                                                    *)
LEMMA PlanAdvance ==
    ASSUME NEW row \in PlanRow, NEW s \in PlanStatus
    PROVE  /\ Advance(row, s) \in PlanRow
           /\ Advance(row, s) = [vessel |-> row.vessel, review |-> row.review,
                 name |-> row.name, status |-> s, version |-> row.version + 1]
<1> DEFINE mid == [row EXCEPT !.status = s]
<1>1. /\ mid \in PlanRow
      /\ mid = [vessel |-> row.vessel, review |-> row.review,
                name |-> row.name, status |-> s, version |-> row.version]
    BY DEF PlanRow
<1>2. Advance(row, s) = [mid EXCEPT !.version = row.version + 1]
    BY Zenon DEF Advance
<1> HIDE DEF mid
<1> QED BY <1>1, <1>2 DEF PlanRow

(* In the next state one leg has status s and every leg has its old plan,  *)
(* vessel, name and window.                                                *)
LegUpdated(l, s) ==
    /\ DOMAIN voyage_legs' = DOMAIN voyage_legs
    /\ voyage_legs' \in [DOMAIN voyage_legs -> LegRow]
    /\ \A m \in DOMAIN voyage_legs :
          /\ voyage_legs'[m].plan = voyage_legs[m].plan
          /\ voyage_legs'[m].vessel = voyage_legs[m].vessel
          /\ voyage_legs'[m].window = voyage_legs[m].window
          /\ voyage_legs'[m].status =
                IF m = l THEN s ELSE voyage_legs[m].status

(* An UPDATE of one leg that sets status s.                                *)
LEMMA LegUpdate ==
    ASSUME PlanTypeOK, NEW l \in DOMAIN voyage_legs, NEW s \in LegStatus,
           voyage_legs' = [voyage_legs EXCEPT ![l] = Advance(@, s)]
    PROVE  LegUpdated(l, s)
BY LegAdvance DEF PlanTypeOK, LegUpdated

(* In the next state one plan has status s and every plan has its old      *)
(* vessel and review.                                                      *)
PlanUpdated(p, s) ==
    /\ DOMAIN trial_plans' = DOMAIN trial_plans
    /\ trial_plans' \in [DOMAIN trial_plans -> PlanRow]
    /\ \A q \in DOMAIN trial_plans :
          /\ trial_plans'[q].vessel = trial_plans[q].vessel
          /\ trial_plans'[q].review = trial_plans[q].review
          /\ trial_plans'[q].status =
                IF q = p THEN s ELSE trial_plans[q].status

(* An UPDATE of one plan that sets status s.                               *)
LEMMA PlanUpdate ==
    ASSUME PlanTypeOK, NEW p \in DOMAIN trial_plans, NEW s \in PlanStatus,
           trial_plans' = [trial_plans EXCEPT ![p] = Advance(@, s)]
    PROVE  PlanUpdated(p, s)
BY PlanAdvance DEF PlanTypeOK, PlanUpdated

(* An UPDATE that matched no plan.                                         *)
LEMMA PlanSame ==
    ASSUME PlanTypeOK, NEW p \in DOMAIN trial_plans, trial_plans' = trial_plans
    PROVE  PlanUpdated(p, trial_plans[p].status)
BY DEF PlanTypeOK, PlanUpdated

(* The tables after a release: the leg is released, its plan active.       *)
LEMMA ReleaseEffect ==
    ASSUME PlanTypeOK, NEW a \in Users, NEW l \in Legs, NEW n \in Versions,
           ReleaseLeg(a, l, n), NEW p, p = voyage_legs[l].plan
    PROVE  LegUpdated(l, "released") /\ PlanUpdated(p, "active")
<1>1. /\ l \in DOMAIN voyage_legs
      /\ p \in DOMAIN trial_plans
      /\ trial_plans[p].status \in {"scheduled", "active"}
      /\ voyage_legs' = [voyage_legs EXCEPT ![l] = Advance(@, "released")]
      /\ trial_plans' = Activated(p)
    BY DEF ReleaseLeg, ReleaseCheck, ReleaseWrite, PlanTypeOK
<1>2. LegUpdated(l, "released")
    BY <1>1, LegUpdate DEF LegStatus
<1>3. CASE trial_plans[p].status = "scheduled"
  <2>1. trial_plans' = [trial_plans EXCEPT ![p] = Advance(@, "active")]
    BY <1>1, <1>3 DEF Activated
  <2> QED BY <1>1, <1>2, <2>1, PlanUpdate DEF PlanStatus
<1>4. CASE trial_plans[p].status # "scheduled"
    BY <1>1, <1>2, <1>4, PlanSame DEF Activated
<1> QED BY <1>3, <1>4

(* All legs of p are completed once `last' is.                             *)
AllDone(p, last) ==
    \A m \in LegsOf(p) \ {last} : voyage_legs[m].status = "completed"

(* The tables after a completion: the leg is completed, and with the last  *)
(* leg the plan.                                                           *)
LEMMA CompleteEffect ==
    ASSUME PlanTypeOK, NEW a \in Users, NEW l \in Legs, NEW n \in Versions,
           CompleteLeg(a, l, n), NEW p, p = voyage_legs[l].plan
    PROVE  /\ LegUpdated(l, "completed")
           /\ PlanUpdated(p, IF AllDone(p, l) THEN "completed"
                             ELSE trial_plans[p].status)
<1>1. /\ l \in DOMAIN voyage_legs
      /\ p \in DOMAIN trial_plans
      /\ voyage_legs' = [voyage_legs EXCEPT ![l] = Advance(@, "completed")]
      /\ trial_plans' = Finished(p, l)
    BY DEF CompleteLeg, CompleteCheck, CompleteWrite, PlanTypeOK
<1>2. LegUpdated(l, "completed")
    BY <1>1, LegUpdate DEF LegStatus
<1>3. CASE AllDone(p, l)
    BY <1>1, <1>2, <1>3, PlanUpdate DEF Finished, AllDone, PlanStatus
<1>4. CASE ~ AllDone(p, l)
    BY <1>1, <1>2, <1>4, PlanSame DEF Finished, AllDone
<1> QED BY <1>3, <1>4

-----------------------------------------------------------------------------
PlanIInv ==
    /\ ReviewIInv
    /\ PlanTypeOK
    /\ PlanBackedByApproval
    /\ PlanFollowsLegs
    /\ LegsApartBySeconds

(* Empty tables satisfy the invariant.                                     *)
LEMMA PlanInitInv == Init => PlanIInv
<1> SUFFICES ASSUME Init PROVE PlanIInv
    OBVIOUS
<1> USE DEF Init, PlanInit, EmptyTable
<1>1. ReviewIInv
    BY ReviewInitInv
<1>2. PlanTypeOK
    BY DEF PlanTypeOK
<1>3. PlanBackedByApproval /\ PlanFollowsLegs /\ LegsApartBySeconds
    BY DEF PlanBackedByApproval, PlanFollowsLegs, LegsApartBySeconds
<1> QED BY <1>1, <1>2, <1>3 DEF PlanIInv

(* An approved review stays approved and with its vessel, so no review     *)
(* request disturbs a plan.                                                *)
LEMMA ReviewKeepsPlans ==
    ASSUME PlanIInv, ReviewNext, UNCHANGED planVars
    PROVE  PlanIInv'
<1> USE DEF PlanIInv, planVars
<1>1. ReviewIInv'
    BY ReviewStepInv
<1>2. ReviewRowsMove
    BY ReviewStepMoves
<1>3. \A r \in DOMAIN class_reviews : class_reviews[r].status = "approved" =>
          r \in DOMAIN class_reviews' /\ class_reviews'[r] = class_reviews[r]
    BY <1>2 DEF ReviewRowsMove, ReviewFlow
<1>4. PlanBackedByApproval'
    BY <1>3 DEF PlanBackedByApproval
<1>5. PlanTypeOK' /\ PlanFollowsLegs' /\ LegsApartBySeconds'
    BY DEF PlanTypeOK, PlanFollowsLegs, LegsApartBySeconds, LegsOf, SameVoyage
<1> QED BY <1>1, <1>4, <1>5

(* A new plan is a draft without legs, backed by the approval just read.   *)
LEMMA CreatePlanInv ==
    ASSUME PlanIInv, UNCHANGED reviewVars, NEW a \in Users, NEW p \in Plans,
           NEW r \in Reviews, NEW v \in Vessels, NEW name \in PlanNames,
           CreatePlan(a, p, r, v, name)
    PROVE  PlanIInv'
<1> USE DEF PlanIInv
<1> DEFINE row == [vessel |-> v, review |-> r, name |-> name,
                   status |-> "draft", version |-> 1]
<1>1. /\ p \notin DOMAIN trial_plans
      /\ DOMAIN trial_plans' = DOMAIN trial_plans \cup {p}
      /\ trial_plans'[p] = row
      /\ \A q \in DOMAIN trial_plans : trial_plans'[q] = trial_plans[q]
      /\ \A q \in DOMAIN trial_plans' : q # p => q \in DOMAIN trial_plans
      /\ trial_plans' = Insert(trial_plans, p, row)
      /\ UNCHANGED voyage_legs /\ UNCHANGED leg_audit
      /\ plan_audit' = [plan_audit EXCEPT ![p] = Append(@, "create")]
      /\ UNCHANGED class_reviews
    BY DEF CreatePlan, CreatePlanCheck, CreatePlanWrite, Insert, reviewVars
<1>2. ReviewIInv'
    BY ReviewStutter
<1>3. PlanTypeOK'
  <2>1. row \in PlanRow
    BY DEF PlanRow, PlanStatus
  <2>2. trial_plans' \in [DOMAIN trial_plans' -> PlanRow]
    BY <1>1, <2>1 DEF Insert, PlanTypeOK
  <2>3. plan_audit' \in [Plans -> Seq({"create", "schedule"})]
    BY <1>1 DEF PlanTypeOK
  <2> QED BY <1>1, <2>2, <2>3 DEF PlanTypeOK
<1>4. PlanBackedByApproval'
  <2>1. /\ r \in DOMAIN class_reviews
        /\ class_reviews[r].status = "approved"
        /\ class_reviews[r].vessel = v
    BY DEF CreatePlan, CreatePlanCheck
  <2>2. row.review = r /\ row.vessel = v
    OBVIOUS
  <2> HIDE DEF row
  <2> QED BY <1>1, <2>1, <2>2 DEF PlanBackedByApproval, PlanTypeOK
<1>5. PlanFollowsLegs'
  <2>1. /\ \A q \in DOMAIN trial_plans : LegsOf(q)' = LegsOf(q)
        /\ LegsOf(p)' = {}
    BY <1>1 DEF LegsOf, PlanTypeOK
  <2>2. row.status = "draft"
    OBVIOUS
  <2> HIDE DEF row
  <2>3. \A q \in DOMAIN trial_plans' : trial_plans'[q].status =
            IF q = p THEN "draft" ELSE trial_plans[q].status
    BY <1>1, <2>2
  <2> QED BY <1>1, <2>1, <2>3 DEF PlanFollowsLegs
<1>6. LegsApartBySeconds'
    BY <1>1 DEF LegsApartBySeconds, SameVoyage
<1> QED BY <1>2, <1>3, <1>4, <1>5, <1>6

(* A new leg is a planned leg of a draft plan, apart from the other legs   *)
(* of the plan.                                                            *)
LEMMA AddLegInv ==
    ASSUME PlanIInv, UNCHANGED reviewVars, NEW a \in Users, NEW l \in Legs,
           NEW p \in Plans, NEW name \in LegNames, NEW w \in Windows,
           AddLeg(a, l, p, name, w)
    PROVE  PlanIInv'
<1> USE DEF PlanIInv
<1> DEFINE row == [plan |-> p, vessel |-> trial_plans[p].vessel, name |-> name,
                   window |-> w, status |-> "planned", version |-> 1]
<1>1. /\ l \notin DOMAIN voyage_legs
      /\ p \in DOMAIN trial_plans
      /\ trial_plans[p].status = "draft"
      /\ \A m \in LegsOf(p) : ~ SqlOverlap(voyage_legs[m].window, w)
      /\ DOMAIN voyage_legs' = DOMAIN voyage_legs \cup {l}
      /\ voyage_legs'[l] = row
      /\ \A m \in DOMAIN voyage_legs : voyage_legs'[m] = voyage_legs[m]
      /\ \A m \in DOMAIN voyage_legs' : m # l => m \in DOMAIN voyage_legs
      /\ voyage_legs' = Insert(voyage_legs, l, row)
      /\ UNCHANGED trial_plans /\ UNCHANGED plan_audit
      /\ leg_audit' = [leg_audit EXCEPT ![l] = Append(@, "create")]
      /\ UNCHANGED class_reviews
    BY DEF AddLeg, AddLegCheck, AddLegWrite, Insert, reviewVars
<1>2. ReviewIInv'
    BY ReviewStutter
<1>3. PlanTypeOK'
  <2>1. row \in LegRow
    BY <1>1 DEF LegRow, LegStatus, PlanTypeOK, PlanRow
  <2>2. voyage_legs' \in [DOMAIN voyage_legs' -> LegRow]
    BY <1>1, <2>1 DEF Insert, PlanTypeOK
  <2>3. leg_audit' \in [Legs -> Seq({"create", "release", "complete"})]
    BY <1>1 DEF PlanTypeOK
  <2> QED BY <1>1, <2>2, <2>3 DEF PlanTypeOK
<1>r. /\ row.plan = p /\ row.vessel = trial_plans[p].vessel
      /\ row.status = "planned" /\ row.window = w
    OBVIOUS
<1> HIDE DEF row
<1>4. PlanBackedByApproval'
    BY <1>1, <1>r DEF PlanBackedByApproval
<1>5. PlanFollowsLegs'
  <2>1. LegsOf(p)' = LegsOf(p) \cup {l}
    BY <1>1, <1>r DEF LegsOf
  <2>2. \A q \in DOMAIN trial_plans : q # p => LegsOf(q)' = LegsOf(q)
    BY <1>1, <1>r DEF LegsOf
  <2>3. \A q \in DOMAIN trial_plans : LegsOf(q) \subseteq DOMAIN voyage_legs
    BY DEF LegsOf
  <2> QED BY <1>1, <1>r, <2>1, <2>2, <2>3 DEF PlanFollowsLegs
<1>6. LegsApartBySeconds'
  <2>1. \A m \in LegsOf(p) : ~ SecondsOverlap(voyage_legs[m].window, w)
    <3>1. ASSUME NEW m \in LegsOf(p), SecondsOverlap(voyage_legs[m].window, w)
          PROVE  FALSE
      <4>1. voyage_legs[m].window \in Window /\ w \in Window
        BY WindowsAssumption DEF LegsOf, PlanTypeOK, LegRow
      <4> QED BY <1>1, <3>1, <4>1, SecondsDecideText
              DEF SecondsOverlap, SqlOverlap, Window
    <3> QED BY <3>1
  <2>2. ASSUME NEW m \in DOMAIN voyage_legs, SameVoyage(l, m)' \/ SameVoyage(m, l)'
        PROVE  m \in LegsOf(p)
    BY <1>1, <1>r, <2>2 DEF SameVoyage, LegsOf, Active
  <2>3. \A m, k \in DOMAIN voyage_legs : SameVoyage(m, k)' => SameVoyage(m, k)
    BY <1>1 DEF SameVoyage
  <2> QED BY <1>1, <1>r, <2>1, <2>2, <2>3 DEF LegsApartBySeconds, SecondsOverlap
<1> QED BY <1>2, <1>3, <1>4, <1>5, <1>6

(* Scheduling freezes a plan that has planned legs only.                   *)
LEMMA ScheduleInv ==
    ASSUME PlanIInv, UNCHANGED reviewVars, NEW a \in Users, NEW p \in Plans,
           NEW n \in Versions, SchedulePlan(a, p, n)
    PROVE  PlanIInv'
<1> USE DEF PlanIInv
<1>1. /\ p \in DOMAIN trial_plans
      /\ trial_plans[p].status = "draft"
      /\ LegsOf(p) # {}
      /\ trial_plans' = [trial_plans EXCEPT ![p] = Advance(@, "scheduled")]
      /\ UNCHANGED voyage_legs /\ UNCHANGED leg_audit
      /\ plan_audit' = [plan_audit EXCEPT ![p] = Append(@, "schedule")]
      /\ UNCHANGED class_reviews
    BY DEF SchedulePlan, ScheduleCheck, ScheduleWrite, reviewVars
<1>2. ReviewIInv'
    BY ReviewStutter
<1>3. PlanUpdated(p, "scheduled")
    BY <1>1, PlanUpdate DEF PlanStatus
<1>4. PlanTypeOK'
    BY <1>1, <1>3 DEF PlanTypeOK, PlanUpdated
<1>5. PlanBackedByApproval'
    BY <1>1, <1>3 DEF PlanBackedByApproval, PlanUpdated, PlanTypeOK
<1>6. PlanFollowsLegs'
    BY <1>1, <1>3 DEF PlanFollowsLegs, PlanUpdated, LegsOf
<1>7. LegsApartBySeconds'
    BY <1>1 DEF LegsApartBySeconds, SameVoyage
<1> QED BY <1>2, <1>4, <1>5, <1>6, <1>7

(* An update of the status of a leg and a plan leaves the backing alone.   *)
LEMMA UpdateKeepsBacking ==
    ASSUME PlanTypeOK, PlanBackedByApproval, UNCHANGED class_reviews,
           NEW l, NEW s, LegUpdated(l, s), NEW p, NEW t, PlanUpdated(p, t)
    PROVE  PlanBackedByApproval'
<1>1. ASSUME NEW q \in DOMAIN trial_plans'
      PROVE  /\ trial_plans'[q].review \in DOMAIN class_reviews'
             /\ class_reviews'[trial_plans'[q].review].status = "approved"
             /\ class_reviews'[trial_plans'[q].review].vessel =
                   trial_plans'[q].vessel
    BY DEF PlanBackedByApproval, PlanUpdated
<1>2. ASSUME NEW m \in DOMAIN voyage_legs'
      PROVE  voyage_legs'[m].vessel = trial_plans'[voyage_legs'[m].plan].vessel
  <2>1. m \in DOMAIN voyage_legs /\ voyage_legs[m].plan \in DOMAIN trial_plans
    BY DEF LegUpdated, PlanTypeOK
  <2>2. /\ voyage_legs'[m].plan = voyage_legs[m].plan
        /\ voyage_legs'[m].vessel = voyage_legs[m].vessel
    BY <2>1 DEF LegUpdated
  <2>3. trial_plans'[voyage_legs[m].plan].vessel =
            trial_plans[voyage_legs[m].plan].vessel
    BY <2>1 DEF PlanUpdated
  <2> QED BY <2>1, <2>2, <2>3 DEF PlanBackedByApproval
<1> QED BY <1>1, <1>2 DEF PlanBackedByApproval

(* A release meets no active leg of the vessel and makes the plan active.  *)
LEMMA ReleaseInv ==
    ASSUME PlanIInv, UNCHANGED reviewVars, NEW a \in Users, NEW l \in Legs,
           NEW n \in Versions, ReleaseLeg(a, l, n)
    PROVE  PlanIInv'
<1> USE DEF PlanIInv
<1> DEFINE p == voyage_legs[l].plan
<1>1. /\ l \in DOMAIN voyage_legs
      /\ p \in DOMAIN trial_plans
      /\ trial_plans[p].status \in {"scheduled", "active"}
      /\ voyage_legs[l].status \in {"planned", "held"}
      /\ Conflicts(l) = {}
      /\ UNCHANGED plan_audit
      /\ leg_audit' = [leg_audit EXCEPT ![l] = Append(@, "release")]
      /\ UNCHANGED class_reviews
    BY DEF ReleaseLeg, ReleaseCheck, ReleaseWrite, reviewVars, PlanTypeOK
<1>2. LegUpdated(l, "released") /\ PlanUpdated(p, "active")
    BY ReleaseEffect
<1>3. l \in LegsOf(p)
    BY <1>1 DEF LegsOf
<1>p. p = voyage_legs[l].plan
    OBVIOUS
<1> HIDE DEF p
<1>4. ReviewIInv'
    BY ReviewStutter
<1>5. PlanTypeOK'
    BY <1>1, <1>2 DEF PlanTypeOK, PlanUpdated, LegUpdated
<1>6. PlanBackedByApproval'
    BY <1>1, <1>2, UpdateKeepsBacking
<1>7. PlanFollowsLegs'
  <2>1. \A q : LegsOf(q)' = LegsOf(q)
    BY <1>2 DEF LegsOf, LegUpdated
  <2>2. \A m \in DOMAIN voyage_legs :
            voyage_legs'[m].status \in {"planned", "released", "completed"}
    BY <1>2 DEF LegUpdated, PlanFollowsLegs
  <2>3. ASSUME NEW q \in DOMAIN trial_plans, q # p
        PROVE  /\ trial_plans'[q].status = trial_plans[q].status
               /\ \A m \in LegsOf(q) :
                     voyage_legs'[m].status = voyage_legs[m].status
    BY <1>2, <1>p, <2>3 DEF LegUpdated, PlanUpdated, LegsOf
  <2>4. /\ trial_plans'[p].status = "active"
        /\ voyage_legs'[l].status = "released"
    BY <1>1, <1>2 DEF LegUpdated, PlanUpdated
  <2>5. DOMAIN trial_plans' = DOMAIN trial_plans
        /\ DOMAIN voyage_legs' = DOMAIN voyage_legs
    BY <1>2 DEF LegUpdated, PlanUpdated
  <2> QED BY <1>3, <2>1, <2>2, <2>3, <2>4, <2>5 DEF PlanFollowsLegs
<1>8. LegsApartBySeconds'
  <2>1. ASSUME NEW m \in DOMAIN voyage_legs, m # l,
               voyage_legs[m].vessel = voyage_legs[l].vessel,
               voyage_legs[m].status \in Active
        PROVE  /\ ~ SecondsOverlap(voyage_legs[m].window, voyage_legs[l].window)
               /\ ~ SecondsOverlap(voyage_legs[l].window, voyage_legs[m].window)
    <3>1. ~ SqlOverlap(voyage_legs[m].window, voyage_legs[l].window)
      BY <1>1, <2>1 DEF Conflicts
    <3>2. voyage_legs[m].window \in Window /\ voyage_legs[l].window \in Window
      BY <1>1, WindowsAssumption DEF PlanTypeOK, LegRow
    <3> QED BY <3>1, <3>2, SecondsDecideText DEF SecondsOverlap, SqlOverlap, Window
  <2>2. ASSUME NEW m \in DOMAIN voyage_legs, NEW k \in DOMAIN voyage_legs,
               m # k, SameVoyage(m, k)'
        PROVE  ~ SecondsOverlap(voyage_legs[m].window, voyage_legs[k].window)
    <3>1. CASE SameVoyage(m, k)
      BY <2>2, <3>1 DEF LegsApartBySeconds
    <3>2. CASE ~ SameVoyage(m, k) /\ m = l
      BY <1>2, <2>1, <2>2, <3>2 DEF SameVoyage, LegUpdated
    <3>3. CASE ~ SameVoyage(m, k) /\ k = l
      BY <1>2, <2>1, <2>2, <3>3 DEF SameVoyage, LegUpdated
    <3>4. CASE ~ SameVoyage(m, k) /\ m # l /\ k # l
      BY <1>2, <2>2, <3>4 DEF SameVoyage, LegUpdated
    <3> QED BY <3>1, <3>2, <3>3, <3>4
  <2> QED BY <1>2, <2>2 DEF LegsApartBySeconds, LegUpdated
<1> QED BY <1>4, <1>5, <1>6, <1>7, <1>8

(* A completion takes a leg out of the active ones and closes the plan     *)
(* with its last leg.                                                      *)
LEMMA CompleteInv ==
    ASSUME PlanIInv, UNCHANGED reviewVars, NEW a \in Users, NEW l \in Legs,
           NEW n \in Versions, CompleteLeg(a, l, n)
    PROVE  PlanIInv'
<1> USE DEF PlanIInv
<1> DEFINE p == voyage_legs[l].plan
<1>1. /\ l \in DOMAIN voyage_legs
      /\ p \in DOMAIN trial_plans
      /\ voyage_legs[l].status \in Active
      /\ UNCHANGED plan_audit
      /\ leg_audit' = [leg_audit EXCEPT ![l] = Append(@, "complete")]
      /\ UNCHANGED class_reviews
    BY DEF CompleteLeg, CompleteCheck, CompleteWrite, reviewVars, PlanTypeOK
<1>2. /\ LegUpdated(l, "completed")
      /\ PlanUpdated(p, IF AllDone(p, l) THEN "completed"
                        ELSE trial_plans[p].status)
    BY CompleteEffect
<1>3. l \in LegsOf(p)
    BY <1>1 DEF LegsOf
<1>p. p = voyage_legs[l].plan
    OBVIOUS
<1> HIDE DEF p
<1>4. ReviewIInv'
    BY ReviewStutter
<1>5. PlanTypeOK'
    BY <1>1, <1>2 DEF PlanTypeOK, PlanUpdated, LegUpdated
<1>6. PlanBackedByApproval'
    BY <1>1, <1>2, UpdateKeepsBacking
<1>7. PlanFollowsLegs'
  <2>1. \A q : LegsOf(q)' = LegsOf(q)
    BY <1>2 DEF LegsOf, LegUpdated
  <2>2. \A m \in DOMAIN voyage_legs :
            voyage_legs'[m].status \in {"planned", "released", "completed"}
    BY <1>2 DEF LegUpdated, PlanFollowsLegs
  <2>3. ASSUME NEW q \in DOMAIN trial_plans, q # p
        PROVE  /\ trial_plans'[q].status = trial_plans[q].status
               /\ \A m \in LegsOf(q) :
                     voyage_legs'[m].status = voyage_legs[m].status
    BY <1>2, <1>p, <2>3 DEF LegUpdated, PlanUpdated, LegsOf
  <2>4. \A m \in LegsOf(p) : voyage_legs'[m].status =
            IF m = l THEN "completed" ELSE voyage_legs[m].status
    BY <1>2 DEF LegUpdated, LegsOf
  <2>5. DOMAIN trial_plans' = DOMAIN trial_plans
        /\ DOMAIN voyage_legs' = DOMAIN voyage_legs
    BY <1>2 DEF LegUpdated, PlanUpdated
  <2>6. CASE AllDone(p, l)
    <3>1. /\ trial_plans'[p].status = "completed"
          /\ \A m \in LegsOf(p) : voyage_legs'[m].status = "completed"
      BY <1>1, <1>2, <2>4, <2>6 DEF AllDone, PlanUpdated
    <3> QED BY <1>3, <2>1, <2>2, <2>3, <2>5, <3>1 DEF PlanFollowsLegs
  <2>7. CASE ~ AllDone(p, l)
    <3>1. trial_plans[p].status = "active"
      BY <1>1, <1>3, <2>7 DEF PlanFollowsLegs, Active, AllDone
    <3>2. /\ trial_plans'[p].status = "active"
          /\ voyage_legs'[l].status # "planned"
          /\ \E m \in LegsOf(p) : voyage_legs'[m].status # "completed"
      BY <1>1, <1>2, <1>3, <2>4, <2>7, <3>1 DEF AllDone, PlanUpdated
    <3> QED BY <1>3, <2>1, <2>2, <2>3, <2>5, <3>2 DEF PlanFollowsLegs
  <2> QED BY <2>6, <2>7
<1>8. LegsApartBySeconds'
  <2>1. ASSUME NEW m \in DOMAIN voyage_legs, NEW k \in DOMAIN voyage_legs,
               SameVoyage(m, k)'
        PROVE  SameVoyage(m, k)
    BY <1>2, <2>1 DEF SameVoyage, LegUpdated, Active
  <2> QED BY <1>2, <2>1 DEF LegsApartBySeconds, LegUpdated
<1> QED BY <1>4, <1>5, <1>6, <1>7, <1>8

(* Every step keeps the invariant.                                         *)
LEMMA PlanStepInv == PlanIInv /\ [Next]_vars => PlanIInv'
<1> SUFFICES ASSUME PlanIInv, [Next]_vars PROVE PlanIInv'
    OBVIOUS
<1>1. CASE ReviewNext /\ UNCHANGED planVars
    BY <1>1, ReviewKeepsPlans
<1>2. CASE PlanNext /\ UNCHANGED reviewVars
    BY <1>2, CreatePlanInv, AddLegInv, ScheduleInv, ReleaseInv, CompleteInv
       DEF PlanNext
<1>3. CASE UNCHANGED vars
  <2>1. UNCHANGED reviewVars /\ UNCHANGED planVars
    BY <1>3 DEF vars
  <2>2. ReviewIInv'
    BY <2>1, ReviewStutter DEF PlanIInv
  <2>3. PlanTypeOK' /\ PlanBackedByApproval' /\ PlanFollowsLegs'
        /\ LegsApartBySeconds'
    BY <2>1 DEF PlanIInv, planVars, reviewVars, PlanTypeOK, PlanFollowsLegs,
       PlanBackedByApproval, LegsApartBySeconds, LegsOf, SameVoyage
  <2> QED BY <2>2, <2>3 DEF PlanIInv
<1> QED BY <1>1, <1>2, <1>3 DEF Next

(* The invariant holds in every reachable state.                           *)
THEOREM PlanInductive == Spec => []PlanIInv
BY PlanInitInv, PlanStepInv, PTL DEF Spec

(* Rows of all tables stay well typed (the schema).                        *)
THEOREM PlanTypes == Spec => [](ReviewTypeOK /\ PlanTypeOK)
<1>1. PlanIInv => ReviewTypeOK /\ PlanTypeOK
    BY DEF PlanIInv, ReviewIInv, TypeOK
<1> QED BY PlanInductive, <1>1, PTL

(* "Only an approved review for the same vessel can back a trial plan",    *)
(* for the whole life of the plan (CreatePlan and the review flow).        *)
THEOREM PlanBacked == Spec => []PlanBackedByApproval
<1>1. PlanIInv => PlanBackedByApproval
    BY DEF PlanIInv
<1> QED BY PlanInductive, <1>1, PTL

(* The status of a plan follows from the status of its legs, across the    *)
(* three operations that write one or both.                                *)
THEOREM PlanStatusFollows == Spec => []PlanFollowsLegs
<1>1. PlanIInv => PlanFollowsLegs
    BY DEF PlanIInv
<1> QED BY PlanInductive, <1>1, PTL

(* To the second, no vessel is on two active legs at once and no plan      *)
(* books it twice, for any windows whatever their fractions of a second    *)
(* (the text comparisons of AddLeg and ReleaseLeg).                        *)
THEOREM LegsNeverMeet == Spec => []LegsApartBySeconds
<1>1. PlanIInv => LegsApartBySeconds
    BY DEF PlanIInv
<1> QED BY PlanInductive, <1>1, PTL

-----------------------------------------------------------------------------
(* One leg moved along its flow, and nothing else of the legs.             *)
LEMMA LegMoves ==
    ASSUME PlanTypeOK, NEW l \in DOMAIN voyage_legs, NEW s \in LegStatus,
           << voyage_legs[l].status, s >> \in LegFlow,
           voyage_legs' = [voyage_legs EXCEPT ![l] = Advance(@, s)],
           NEW m \in DOMAIN voyage_legs
    PROVE  /\ m \in DOMAIN voyage_legs'
           /\ \/ voyage_legs'[m] = voyage_legs[m]
              \/ /\ << voyage_legs[m].status, voyage_legs'[m].status >> \in LegFlow
                 /\ voyage_legs'[m] = [voyage_legs[m] EXCEPT
                       !.status = voyage_legs'[m].status,
                       !.version = voyage_legs[m].version + 1]
<1>1. voyage_legs[m] \in LegRow
    BY DEF PlanTypeOK
<1>2. CASE m = l
  <2>1. voyage_legs'[m] = Advance(voyage_legs[m], s)
    BY <1>2
  <2>2. voyage_legs'[m] = [plan |-> voyage_legs[m].plan,
            vessel |-> voyage_legs[m].vessel, name |-> voyage_legs[m].name,
            window |-> voyage_legs[m].window, status |-> s,
            version |-> voyage_legs[m].version + 1]
    BY <1>1, <2>1, LegAdvance
  <2>3. voyage_legs'[m] = [voyage_legs[m] EXCEPT !.status = s,
                              !.version = voyage_legs[m].version + 1]
    BY <2>1, Zenon DEF Advance
  <2>4. voyage_legs'[m].status = s
    BY <2>2
  <2> QED BY <1>2, <2>3, <2>4
<1>3. CASE m # l
    BY <1>3
<1> QED BY <1>2, <1>3

(* The same for plans.                                                     *)
LEMMA PlansMove ==
    ASSUME PlanTypeOK, NEW p \in DOMAIN trial_plans, NEW s \in PlanStatus,
           << trial_plans[p].status, s >> \in PlanFlow,
           trial_plans' = [trial_plans EXCEPT ![p] = Advance(@, s)],
           NEW q \in DOMAIN trial_plans
    PROVE  /\ q \in DOMAIN trial_plans'
           /\ \/ trial_plans'[q] = trial_plans[q]
              \/ /\ << trial_plans[q].status, trial_plans'[q].status >> \in PlanFlow
                 /\ trial_plans'[q] = [trial_plans[q] EXCEPT
                       !.status = trial_plans'[q].status,
                       !.version = trial_plans[q].version + 1]
<1>1. trial_plans[q] \in PlanRow
    BY DEF PlanTypeOK
<1>2. CASE q = p
  <2>1. trial_plans'[q] = Advance(trial_plans[q], s)
    BY <1>2
  <2>2. trial_plans'[q] = [vessel |-> trial_plans[q].vessel,
            review |-> trial_plans[q].review, name |-> trial_plans[q].name,
            status |-> s, version |-> trial_plans[q].version + 1]
    BY <1>1, <2>1, PlanAdvance
  <2>3. trial_plans'[q] = [trial_plans[q] EXCEPT !.status = s,
                              !.version = trial_plans[q].version + 1]
    BY <2>1, Zenon DEF Advance
  <2>4. trial_plans'[q].status = s
    BY <2>2
  <2> QED BY <1>2, <2>3, <2>4
<1>3. CASE q # p
    BY <1>3
<1> QED BY <1>2, <1>3

(* The last leg of a plan is completed only while the plan is active.      *)
LEMMA FinishesActive ==
    ASSUME PlanTypeOK, PlanFollowsLegs, NEW l \in DOMAIN voyage_legs,
           voyage_legs[l].status \in Active
    PROVE  trial_plans[voyage_legs[l].plan].status = "active"
BY DEF PlanTypeOK, PlanFollowsLegs, LegsOf, Active

(* Every step moves the rows of plans and legs forward.                    *)
LEMMA PlanStepMoves ==
    ASSUME PlanIInv, [Next]_vars
    PROVE  PlanRowsMove
<1> USE DEF PlanIInv
<1>1. ASSUME NEW a \in Users, NEW p \in Plans, NEW r \in Reviews,
             NEW v \in Vessels, NEW name \in PlanNames, CreatePlan(a, p, r, v, name)
      PROVE  PlanRowsMove
    BY <1>1 DEF CreatePlan, CreatePlanCheck, CreatePlanWrite, Insert, PlanRowsMove
<1>2. ASSUME NEW a \in Users, NEW l \in Legs, NEW p \in Plans,
             NEW name \in LegNames, NEW w \in Windows, AddLeg(a, l, p, name, w)
      PROVE  PlanRowsMove
    BY <1>2 DEF AddLeg, AddLegCheck, AddLegWrite, Insert, PlanRowsMove
<1>3. ASSUME NEW a \in Users, NEW p \in Plans, NEW n \in Versions,
             SchedulePlan(a, p, n)
      PROVE  PlanRowsMove
  <2>1. /\ p \in DOMAIN trial_plans
        /\ << trial_plans[p].status, "scheduled" >> \in PlanFlow
        /\ trial_plans' = [trial_plans EXCEPT ![p] = Advance(@, "scheduled")]
        /\ voyage_legs' = voyage_legs
    BY <1>3 DEF SchedulePlan, ScheduleCheck, ScheduleWrite, PlanFlow
  <2> QED BY <2>1, PlansMove DEF PlanRowsMove, PlanStatus
<1>4. ASSUME NEW a \in Users, NEW l \in Legs, NEW n \in Versions,
             ReleaseLeg(a, l, n)
      PROVE  PlanRowsMove
  <2>1. /\ l \in DOMAIN voyage_legs
        /\ << voyage_legs[l].status, "released" >> \in LegFlow
        /\ voyage_legs' = [voyage_legs EXCEPT ![l] = Advance(@, "released")]
        /\ voyage_legs[l].plan \in DOMAIN trial_plans
        /\ trial_plans' = Activated(voyage_legs[l].plan)
    BY <1>4 DEF ReleaseLeg, ReleaseCheck, ReleaseWrite, LegFlow, PlanTypeOK,
           PlanFollowsLegs
  <2> DEFINE p == voyage_legs[l].plan
  <2>2. CASE trial_plans[p].status = "scheduled"
    <3>1. /\ trial_plans' = [trial_plans EXCEPT ![p] = Advance(@, "active")]
          /\ << trial_plans[p].status, "active" >> \in PlanFlow
      BY <2>1, <2>2 DEF Activated, PlanFlow
    <3> QED BY <2>1, <3>1, LegMoves, PlansMove DEF PlanRowsMove, PlanStatus, LegStatus
  <2>3. CASE trial_plans[p].status # "scheduled"
    <3>1. trial_plans' = trial_plans
      BY <2>1, <2>3 DEF Activated
    <3> QED BY <2>1, <3>1, LegMoves DEF PlanRowsMove, LegStatus
  <2> QED BY <2>2, <2>3
<1>5. ASSUME NEW a \in Users, NEW l \in Legs, NEW n \in Versions,
             CompleteLeg(a, l, n)
      PROVE  PlanRowsMove
  <2>1. /\ l \in DOMAIN voyage_legs
        /\ << voyage_legs[l].status, "completed" >> \in LegFlow
        /\ voyage_legs' = [voyage_legs EXCEPT ![l] = Advance(@, "completed")]
        /\ voyage_legs[l].plan \in DOMAIN trial_plans
        /\ trial_plans' = Finished(voyage_legs[l].plan, l)
        /\ trial_plans[voyage_legs[l].plan].status = "active"
    BY <1>5, FinishesActive DEF CompleteLeg, CompleteCheck, CompleteWrite,
           LegFlow, PlanTypeOK, PlanFollowsLegs, Active
  <2> DEFINE p == voyage_legs[l].plan
  <2>2. CASE AllDone(p, l)
    <3>1. /\ trial_plans' = [trial_plans EXCEPT ![p] = Advance(@, "completed")]
          /\ << trial_plans[p].status, "completed" >> \in PlanFlow
      BY <2>1, <2>2 DEF Finished, AllDone, PlanFlow
    <3> QED BY <2>1, <3>1, LegMoves, PlansMove DEF PlanRowsMove, PlanStatus, LegStatus
  <2>3. CASE ~ AllDone(p, l)
    <3>1. trial_plans' = trial_plans
      BY <2>1, <2>3 DEF Finished, AllDone
    <3> QED BY <2>1, <3>1, LegMoves DEF PlanRowsMove, LegStatus
  <2> QED BY <2>2, <2>3
<1>6. ASSUME UNCHANGED planVars
      PROVE  PlanRowsMove
    BY <1>6 DEF planVars, PlanRowsMove
<1> QED BY <1>1, <1>2, <1>3, <1>4, <1>5, <1>6 DEF Next, PlanNext, vars

(* No row of a plan or leg is lost, taken back, moved to another plan,     *)
(* vessel, review or window, or changed without its version (the           *)
(* conditional UPDATEs of trial.go).                                       *)
THEOREM PlanMoves == Spec => PlanHistory
<1>1. PlanIInv /\ [Next]_vars => [PlanRowsMove]_vars
    BY PlanStepMoves
<1> QED BY PlanInductive, <1>1, PTL DEF Spec, PlanHistory

-----------------------------------------------------------------------------
(* From scheduling on a plan gains no leg; its legs never leave it.        *)
LEMMA PlanStepFrozen ==
    ASSUME PlanIInv, [Next]_vars, NEW p \in DOMAIN trial_plans,
           trial_plans[p].status # "draft"
    PROVE  LegsOf(p)' = LegsOf(p)
<1> USE DEF LegsOf
<1>1. ASSUME NEW a \in Users, NEW l \in Legs, NEW q \in Plans,
             NEW name \in LegNames, NEW w \in Windows, AddLeg(a, l, q, name, w)
      PROVE  LegsOf(p)' = LegsOf(p)
    BY <1>1 DEF AddLeg, AddLegCheck, AddLegWrite, Insert
<1>2. ASSUME NEW a \in Users, NEW l \in Legs, NEW n \in Versions,
             ReleaseLeg(a, l, n)
      PROVE  LegsOf(p)' = LegsOf(p)
  <2>1. LegUpdated(l, "released")
    BY <1>2, ReleaseEffect DEF PlanIInv
  <2> QED BY <2>1 DEF LegUpdated
<1>3. ASSUME NEW a \in Users, NEW l \in Legs, NEW n \in Versions,
             CompleteLeg(a, l, n)
      PROVE  LegsOf(p)' = LegsOf(p)
  <2>1. LegUpdated(l, "completed")
    BY <1>3, CompleteEffect DEF PlanIInv
  <2> QED BY <2>1 DEF LegUpdated
<1>4. ASSUME NEW a \in Users, NEW q \in Plans,
             \/ \E n \in Versions : SchedulePlan(a, q, n)
             \/ \E r \in Reviews, v \in Vessels, name \in PlanNames :
                   CreatePlan(a, q, r, v, name)
      PROVE  LegsOf(p)' = LegsOf(p)
    BY <1>4 DEF SchedulePlan, ScheduleWrite, CreatePlan, CreatePlanWrite
<1>5. ASSUME UNCHANGED planVars
      PROVE  LegsOf(p)' = LegsOf(p)
    BY <1>5 DEF planVars
<1> QED BY <1>1, <1>2, <1>3, <1>4, <1>5 DEF Next, PlanNext, vars

(* "Voyage legs frozen": from scheduling on the set of legs of a plan      *)
(* never changes (SchedulePlan against AddLeg).                            *)
THEOREM PlanLegsFrozen == Spec => LegsFrozen
<1>1. PlanIInv /\ [Next]_vars =>
          \A p \in DOMAIN trial_plans :
              trial_plans[p].status # "draft" => LegsOf(p)' = LegsOf(p)
    BY PlanStepFrozen
<1> QED BY PlanInductive, <1>1, PTL DEF Spec, LegsFrozen

(* A leg that moves gets the next event and the next version; no other     *)
(* trail changes.                                                          *)
LEMMA LegAudited ==
    ASSUME PlanIInv, PlanAudited, NEW l \in DOMAIN voyage_legs, NEW s \in LegStatus,
           NEW event,
           \/ /\ voyage_legs[l].status = "planned"
              /\ s = "released" /\ event = "release"
           \/ /\ voyage_legs[l].status = "released"
              /\ s = "completed" /\ event = "complete",
           voyage_legs' = [voyage_legs EXCEPT ![l] = Advance(@, s)],
           leg_audit' = [leg_audit EXCEPT ![l] = Append(@, event)]
    PROVE  /\ \A m \in Legs : leg_audit'[m] = LegTrail(m)'
           /\ \A m \in DOMAIN voyage_legs' :
                 voyage_legs'[m].version = Len(leg_audit'[m])
<1>1. /\ l \in Legs
      /\ leg_audit \in [Legs -> Seq({"create", "release", "complete"})]
      /\ DOMAIN voyage_legs' = DOMAIN voyage_legs
      /\ DOMAIN voyage_legs \subseteq Legs
      /\ voyage_legs[l] \in LegRow
    BY DEF PlanIInv, PlanTypeOK
<1>2. /\ leg_audit[l] = LegTrail(l)
      /\ voyage_legs[l].version = Len(leg_audit[l])
    BY <1>1 DEF PlanAudited
<1>3. /\ voyage_legs'[l].status = s
      /\ voyage_legs'[l].version = voyage_legs[l].version + 1
  <2>1. voyage_legs'[l] = Advance(voyage_legs[l], s)
    OBVIOUS
  <2> QED BY <1>1, <2>1, LegAdvance
<1>4. /\ leg_audit'[l] = LegTrail(l)'
      /\ voyage_legs'[l].version = Len(leg_audit'[l])
  <2>1. leg_audit'[l] = Append(leg_audit[l], event)
    BY <1>1
  <2>2. CASE event = "release"
    <3>1. leg_audit[l] = << "create" >> /\ voyage_legs[l].version = 1
      BY <1>2, <2>2, ShortTrails DEF Event, LegTrail
    <3>2. leg_audit'[l] = << "create", "release" >>
      BY <2>1, <2>2, <3>1, ShortTrails DEF Event
    <3>3. LegTrail(l)' = << "create", "release" >>
      BY <1>1, <1>3, <2>2 DEF LegTrail
    <3>4. Len(leg_audit'[l]) = 2
      BY <3>2, ShortTrails DEF Event
    <3>5. voyage_legs'[l].version = 2
      BY <1>3, <3>1
    <3> QED BY <3>2, <3>3, <3>4, <3>5, Zenon
  <2>3. CASE event = "complete"
    <3>1. leg_audit[l] = << "create", "release" >> /\ voyage_legs[l].version = 2
      BY <1>2, <2>3, ShortTrails DEF Event, LegTrail
    <3>2. leg_audit'[l] = << "create", "release", "complete" >>
      BY <2>1, <2>3, <3>1, ShortTrails DEF Event
    <3>3. LegTrail(l)' = << "create", "release", "complete" >>
      BY <1>1, <1>3, <2>3 DEF LegTrail
    <3>4. Len(leg_audit'[l]) = 3
      BY <3>2, ShortTrails DEF Event
    <3>5. voyage_legs'[l].version = 3
      BY <1>3, <3>1
    <3> QED BY <3>2, <3>3, <3>4, <3>5, Zenon
  <2> QED BY <2>2, <2>3
<1>5. ASSUME NEW m \in Legs, m # l
      PROVE  leg_audit'[m] = LegTrail(m)'
  <2>1. leg_audit'[m] = leg_audit[m] /\ LegTrail(m)' = LegTrail(m)
    BY <1>1, <1>5 DEF LegTrail
  <2> QED BY <2>1 DEF PlanAudited
<1>6. ASSUME NEW m \in DOMAIN voyage_legs, m # l
      PROVE  voyage_legs'[m].version = Len(leg_audit'[m])
  <2>1. leg_audit'[m] = leg_audit[m] /\ voyage_legs'[m] = voyage_legs[m]
    BY <1>1, <1>6
  <2> QED BY <2>1 DEF PlanAudited
<1> QED BY <1>1, <1>4, <1>5, <1>6

(* Every step writes the trail that the rows call for.                     *)
LEMMA PlanStepAudited ==
    ASSUME PlanIInv, PlanAudited, [Next]_vars
    PROVE  PlanAudited'
<1>0. /\ plan_audit \in [Plans -> Seq({"create", "schedule"})]
      /\ leg_audit \in [Legs -> Seq({"create", "release", "complete"})]
      /\ \A p \in DOMAIN trial_plans : p \in Plans /\ trial_plans[p] \in PlanRow
      /\ \A l \in DOMAIN voyage_legs :
            l \in Legs /\ voyage_legs[l].plan \in DOMAIN trial_plans
      /\ \A l \in DOMAIN voyage_legs :
            voyage_legs[l].status \in {"planned", "released", "completed"}
    BY DEF PlanIInv, PlanTypeOK, PlanFollowsLegs
<1>1. ASSUME NEW a \in Users, NEW p \in Plans, NEW r \in Reviews,
             NEW v \in Vessels, NEW name \in PlanNames, CreatePlan(a, p, r, v, name)
      PROVE  PlanAudited'
  <2>1. /\ p \notin DOMAIN trial_plans
        /\ DOMAIN trial_plans' = DOMAIN trial_plans \cup {p}
        /\ trial_plans'[p].status = "draft"
        /\ \A q \in DOMAIN trial_plans : trial_plans'[q] = trial_plans[q]
        /\ plan_audit' = [plan_audit EXCEPT ![p] = Append(@, "create")]
        /\ UNCHANGED << voyage_legs, leg_audit >>
    BY <1>1 DEF CreatePlan, CreatePlanCheck, CreatePlanWrite, Insert
  <2>2. plan_audit'[p] = << "create" >>
    BY <1>0, <2>1, ShortTrails DEF Event, PlanAudited, PlanTrail
  <2>3. \A q \in Plans \ {p} : plan_audit'[q] = plan_audit[q]
                             /\ PlanTrail(q)' = PlanTrail(q)
    BY <1>0, <2>1 DEF PlanTrail
  <2> QED BY <2>1, <2>2, <2>3 DEF PlanAudited, PlanTrail, LegTrail
<1>2. ASSUME NEW a \in Users, NEW l \in Legs, NEW p \in Plans,
             NEW name \in LegNames, NEW w \in Windows, AddLeg(a, l, p, name, w)
      PROVE  PlanAudited'
  <2>1. /\ l \notin DOMAIN voyage_legs
        /\ DOMAIN voyage_legs' = DOMAIN voyage_legs \cup {l}
        /\ voyage_legs'[l].status = "planned" /\ voyage_legs'[l].version = 1
        /\ \A m \in DOMAIN voyage_legs : voyage_legs'[m] = voyage_legs[m]
        /\ leg_audit' = [leg_audit EXCEPT ![l] = Append(@, "create")]
        /\ UNCHANGED << trial_plans, plan_audit >>
    BY <1>2 DEF AddLeg, AddLegCheck, AddLegWrite, Insert
  <2>2. leg_audit'[l] = << "create" >>
    BY <1>0, <2>1, ShortTrails DEF Event, PlanAudited, LegTrail
  <2>3. \A m \in Legs \ {l} : leg_audit'[m] = leg_audit[m]
                            /\ LegTrail(m)' = LegTrail(m)
    BY <1>0, <2>1 DEF LegTrail
  <2>4. \A q \in Plans : PlanTrail(q)' = PlanTrail(q)
    BY <2>1 DEF PlanTrail
  <2>5. \A m \in Legs : leg_audit'[m] = LegTrail(m)'
    BY <2>1, <2>2, <2>3 DEF PlanAudited, LegTrail
  <2>6. Len(leg_audit'[l]) = 1
    BY <2>2, ShortTrails DEF Event
  <2>7. \A m \in DOMAIN voyage_legs' : voyage_legs'[m].version = Len(leg_audit'[m])
    BY <1>0, <2>1, <2>3, <2>6 DEF PlanAudited
  <2> QED BY <2>1, <2>4, <2>5, <2>7 DEF PlanAudited
<1>3. ASSUME NEW a \in Users, NEW p \in Plans, NEW n \in Versions,
             SchedulePlan(a, p, n)
      PROVE  PlanAudited'
  <2>1. /\ p \in DOMAIN trial_plans /\ trial_plans[p].status = "draft"
        /\ trial_plans' = [trial_plans EXCEPT ![p] = Advance(@, "scheduled")]
        /\ plan_audit' = [plan_audit EXCEPT ![p] = Append(@, "schedule")]
        /\ UNCHANGED << voyage_legs, leg_audit >>
    BY <1>3 DEF SchedulePlan, ScheduleCheck, ScheduleWrite
  <2>2. PlanUpdated(p, "scheduled")
    BY <2>1, PlanUpdate DEF PlanIInv, PlanStatus
  <2>3. plan_audit'[p] = << "create", "schedule" >>
    BY <1>0, <2>1, ShortTrails DEF Event, PlanAudited, PlanTrail
  <2>4. \A q \in Plans \ {p} : plan_audit'[q] = plan_audit[q]
                             /\ PlanTrail(q)' = PlanTrail(q)
    BY <1>0, <2>1 DEF PlanTrail
  <2> QED BY <2>1, <2>2, <2>3, <2>4 DEF PlanAudited, PlanTrail, LegTrail, PlanUpdated
<1>4. ASSUME NEW a \in Users, NEW l \in Legs, NEW n \in Versions,
             ReleaseLeg(a, l, n)
      PROVE  PlanAudited'
  <2>1. /\ l \in DOMAIN voyage_legs /\ voyage_legs[l].status = "planned"
        /\ voyage_legs' = [voyage_legs EXCEPT ![l] = Advance(@, "released")]
        /\ leg_audit' = [leg_audit EXCEPT ![l] = Append(@, "release")]
        /\ UNCHANGED plan_audit
        /\ trial_plans[voyage_legs[l].plan].status \in {"scheduled", "active"}
    BY <1>0, <1>4 DEF ReleaseLeg, ReleaseCheck, ReleaseWrite
  <2>2. PlanUpdated(voyage_legs[l].plan, "active")
    BY <1>4, ReleaseEffect DEF PlanIInv
  <2>3. \A q \in Plans : PlanTrail(q)' = PlanTrail(q)
    BY <2>1, <2>2 DEF PlanTrail, PlanUpdated
  <2> QED BY <2>1, <2>3, LegAudited DEF PlanAudited, LegStatus
<1>5. ASSUME NEW a \in Users, NEW l \in Legs, NEW n \in Versions,
             CompleteLeg(a, l, n)
      PROVE  PlanAudited'
  <2> DEFINE p == voyage_legs[l].plan
  <2>1. /\ l \in DOMAIN voyage_legs /\ voyage_legs[l].status = "released"
        /\ voyage_legs' = [voyage_legs EXCEPT ![l] = Advance(@, "completed")]
        /\ leg_audit' = [leg_audit EXCEPT ![l] = Append(@, "complete")]
        /\ UNCHANGED plan_audit
        /\ trial_plans[p].status = "active"
    BY <1>0, <1>5, FinishesActive DEF CompleteLeg, CompleteCheck, CompleteWrite,
           Active, PlanIInv
  <2>2. PlanUpdated(p, IF AllDone(p, l) THEN "completed" ELSE trial_plans[p].status)
    BY <1>5, CompleteEffect DEF PlanIInv
  <2>3. \A q \in Plans : PlanTrail(q)' = PlanTrail(q)
    BY <2>1, <2>2 DEF PlanTrail, PlanUpdated
  <2> QED BY <2>1, <2>3, LegAudited DEF PlanAudited, LegStatus
<1>6. ASSUME UNCHANGED planVars
      PROVE  PlanAudited'
    BY <1>6 DEF planVars, PlanAudited, PlanTrail, LegTrail
<1> QED BY <1>1, <1>2, <1>3, <1>4, <1>5, <1>6 DEF Next, PlanNext, vars

(* Every leg's audit trail is the history of its status, as long as its    *)
(* version says, and a plan's trail holds its creation and its scheduling  *)
(* (the audit events of trial.go).                                         *)
THEOREM PlansAudited == Spec => []PlanAudited
<1>1. Init => PlanAudited
    BY DEF Init, PlanInit, EmptyTable, PlanAudited, PlanTrail, LegTrail
<1>2. PlanIInv /\ PlanAudited /\ [Next]_vars => PlanAudited'
    BY PlanStepAudited
<1> QED BY PlanInductive, <1>1, <1>2, PTL DEF Spec

(* An unfinished plan has a leg that is not completed; what keeps it from  *)
(* being released is a released leg, which can be completed.               *)
LEMMA SomethingCanMove ==
    ASSUME {1, 2} \subseteq Versions, PlanIInv, PlanAudited
    PROVE  PlanNeverStuck
<1> SUFFICES ASSUME NEW p \in DOMAIN trial_plans,
                    trial_plans[p].status \in {"scheduled", "active"}
             PROVE  \E l \in DOMAIN voyage_legs, actor \in Coordinators,
                       n \in Versions :
                       /\ voyage_legs[l].vessel = trial_plans[p].vessel
                       /\ voyage_legs[l].version = n
                       /\ \/ CompleteCheck(actor, l)
                          \/ l \in LegsOf(p) /\ ReleaseCheck(actor, l)
    BY DEF PlanNeverStuck
<1>1. PICK actor \in Coordinators : TRUE
    BY DEF PlanIInv, ReviewIInv, PlanBackedByApproval, DraftedByCoordinator
<1>2. PICK l \in LegsOf(p) : voyage_legs[l].status \in {"planned", "released"}
  <2>1. \E l \in LegsOf(p) : voyage_legs[l].status # "completed"
    BY DEF PlanIInv, PlanFollowsLegs
  <2> QED BY <2>1 DEF PlanIInv, PlanFollowsLegs, LegsOf
<1>3. /\ l \in DOMAIN voyage_legs /\ voyage_legs[l].plan = p
      /\ voyage_legs[l].vessel = trial_plans[p].vessel
    BY <1>2 DEF LegsOf, PlanIInv, PlanBackedByApproval
<1>4. ASSUME NEW m \in DOMAIN voyage_legs, voyage_legs[m].status = "released"
      PROVE  CompleteCheck(actor, m) /\ voyage_legs[m].version \in Versions
  <2>1. voyage_legs[m].version = Len(<< "create", "release" >>)
    BY <1>4 DEF PlanAudited, LegTrail, PlanIInv, PlanTypeOK
  <2> QED BY <1>4, <2>1 DEF CompleteCheck, Active
<1>5. CASE voyage_legs[l].status = "released"
    BY <1>3, <1>4, <1>5
<1>6. CASE voyage_legs[l].status = "planned" /\ Conflicts(l) = {}
  <2>1. voyage_legs[l].version = Len(<< "create" >>)
    BY <1>3, <1>6 DEF PlanAudited, LegTrail, PlanIInv, PlanTypeOK
  <2>2. ReleaseCheck(actor, l)
    BY <1>3, <1>6 DEF ReleaseCheck
  <2> QED BY <1>2, <1>3, <2>1, <2>2
<1>7. ASSUME NEW m \in Conflicts(l)
      PROVE  /\ m \in DOMAIN voyage_legs /\ voyage_legs[m].status = "released"
             /\ voyage_legs[m].vessel = trial_plans[p].vessel
    BY <1>3, <1>7 DEF Conflicts, Active, PlanIInv, PlanFollowsLegs
<1> QED BY <1>2, <1>4, <1>5, <1>6, <1>7

(* No sequence of calls wedges a plan, whatever other plans the vessel     *)
(* has: somebody can release or complete a leg (ReleaseLeg, CompleteLeg).  *)
THEOREM PlansGoOn ==
    ASSUME {1, 2} \subseteq Versions
    PROVE  Spec => []PlanNeverStuck
<1>1. PlanIInv /\ PlanAudited => PlanNeverStuck
    BY SomethingCanMove
<1> QED BY <1>1, PlanInductive, PlansAudited, PTL

(* Two instants that windows name in one second are the same instant, as   *)
(* when all of them are whole seconds.                                     *)
SecondsTell ==
    \A w, x \in Windows : \A s \in {w.from, w.to}, t \in {x.from, x.to} :
        s.sec = t.sec => s.frac = t.frac

(* The overlaps that slip through are those of finer instants only: where  *)
(* the second tells instants apart, legs never overlap (README:83-84).     *)
THEOREM LegsApartWhenSecondsTell ==
    ASSUME SecondsTell
    PROVE  Spec => []LegsApart
<1>1. PlanIInv => LegsApart
  <2> SUFFICES ASSUME PlanIInv,
                      NEW l \in DOMAIN voyage_legs, NEW m \in DOMAIN voyage_legs,
                      l # m, SameVoyage(l, m),
                      TrueOverlap(voyage_legs[l].window, voyage_legs[m].window)
               PROVE  FALSE
    BY DEF LegsApart
  <2> DEFINE w == voyage_legs[l].window
             x == voyage_legs[m].window
  <2>1. w \in Windows /\ x \in Windows
    BY DEF PlanIInv, PlanTypeOK, LegRow
  <2>2. w.from \in Instant /\ w.to \in Instant /\ x.from \in Instant /\ x.to \in Instant
    BY <2>1, WindowsAssumption DEF Window
  <2>3. Before(w.from, x.to) /\ Before(x.from, w.to) /\ ~ SecondsOverlap(w, x)
    BY DEF PlanIInv, LegsApartBySeconds, TrueOverlap
  <2> HIDE DEF w, x
  <2> QED BY <2>1, <2>2, <2>3 DEF SecondsTell, SecondsOverlap, Before, Instant
<1> QED BY PlanInductive, <1>1, PTL
=============================================================================
