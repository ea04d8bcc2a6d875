---------------------------- MODULE VoyageProofs ----------------------------
(***************************************************************************)
(* Proof that reviews, plans and legs implement VoyagePromise, for any     *)
(* sets of vessels, plans, legs and windows.                               *)
(***************************************************************************)
EXTENDS TrialPlanProofs

(* What VoyagePromise sees of the tables.                                  *)
PlansNow == [p \in DOMAIN trial_plans |->
                [vessel |-> trial_plans[p].vessel,
                 stage  |-> PlanStage(trial_plans[p].status)]]
VoyagesNow == [l \in DOMAIN voyage_legs |->
                  [plan   |-> voyage_legs[l].plan,
                   window |-> voyage_legs[l].window,
                   stage  |-> LegStage(voyage_legs[l].status)]]

(* The names the promise gives to the status of plans and legs.            *)
LEMMA StageNames ==
    /\ PlanStage("draft") = "open"
    /\ PlanStage("scheduled") = "frozen" /\ PlanStage("active") = "frozen"
    /\ PlanStage("completed") = "done"
    /\ LegStage("planned") = "ashore" /\ LegStage("released") = "at sea"
    /\ LegStage("completed") = "home"
BY DEF PlanStage, LegStage, Active

LEMMA StagesRead ==
    ASSUME PlanIInv
    PROVE  /\ \A p \in DOMAIN trial_plans :
                 /\ PlansNow[p].stage = "open" <=> trial_plans[p].status = "draft"
                 /\ PlansNow[p].stage = "frozen" <=>
                       trial_plans[p].status \in {"scheduled", "active"}
           /\ \A l \in DOMAIN voyage_legs :
                 /\ VoyagesNow[l].stage = "at sea" <=> voyage_legs[l].status \in Active
                 /\ VoyagesNow[l].stage = "home" <=> voyage_legs[l].status = "completed"
                 /\ VoyagesNow[l].stage = "ashore" <=> voyage_legs[l].status = "planned"
<1>1. ASSUME NEW p \in DOMAIN trial_plans
      PROVE  /\ PlansNow[p].stage = PlanStage(trial_plans[p].status)
             /\ trial_plans[p].status \in {"draft", "scheduled", "active", "completed"}
    BY DEF PlansNow, PlanIInv, PlanFollowsLegs
<1>2. ASSUME NEW l \in DOMAIN voyage_legs
      PROVE  /\ VoyagesNow[l].stage = LegStage(voyage_legs[l].status)
             /\ voyage_legs[l].status \in {"planned", "released", "completed"}
    BY DEF VoyagesNow, PlanIInv, PlanFollowsLegs
<1> QED BY <1>1, <1>2, StageNames DEF Active

(* The abstract steps, in these terms.                                     *)
LEMMA VoyageStutters ==
    UNCHANGED << Cleared, PlansNow, VoyagesNow >> => UNCHANGED Voyage!voyageVars
BY DEF PlansNow, VoyagesNow, Voyage!voyageVars

LEMMA VoyageClears ==
    ASSUME NEW v \in Vessels, Cleared' = Cleared \cup {v},
           UNCHANGED << PlansNow, VoyagesNow >>
    PROVE  Voyage!VoyageNext
BY DEF PlansNow, VoyagesNow, Voyage!VoyageNext, Voyage!Clear

LEMMA VoyageDrafts ==
    ASSUME NEW p \in Plans, NEW v \in Vessels, p \notin DOMAIN PlansNow,
           v \in Cleared,
           PlansNow' = Insert(PlansNow, p, [vessel |-> v, stage |-> "open"]),
           UNCHANGED << Cleared, VoyagesNow >>
    PROVE  Voyage!VoyageNext
BY DEF PlansNow, VoyagesNow, Voyage!VoyageNext, Voyage!Draft, Voyage!Insert, Insert

LEMMA VoyageBooks ==
    ASSUME NEW l \in Legs, NEW p \in Plans, NEW w \in Windows,
           l \notin DOMAIN VoyagesNow, p \in DOMAIN PlansNow,
           PlansNow[p].stage = "open",
           \A m \in DOMAIN VoyagesNow : VoyagesNow[m].plan = p =>
               ~ SecondsOverlap(VoyagesNow[m].window, w),
           VoyagesNow' = Insert(VoyagesNow, l,
               [plan |-> p, window |-> w, stage |-> "ashore"]),
           UNCHANGED << Cleared, PlansNow >>
    PROVE  Voyage!VoyageNext
BY DEF PlansNow, VoyagesNow, Voyage!VoyageNext, Voyage!Book, Voyage!Of,
       Voyage!Meet, SecondsOverlap, Voyage!Insert, Insert

LEMMA VoyageFreezes ==
    ASSUME NEW p \in Plans, p \in DOMAIN PlansNow, PlansNow[p].stage = "open",
           \E l \in DOMAIN VoyagesNow : VoyagesNow[l].plan = p,
           PlansNow' = [PlansNow EXCEPT ![p].stage = "frozen"],
           UNCHANGED << Cleared, VoyagesNow >>
    PROVE  Voyage!VoyageNext
BY DEF PlansNow, VoyagesNow, Voyage!VoyageNext, Voyage!Freeze, Voyage!Of

LEMMA VoyageDeparts ==
    ASSUME NEW l \in Legs, l \in DOMAIN VoyagesNow,
           VoyagesNow[l].stage = "ashore",
           PlansNow[VoyagesNow[l].plan].stage = "frozen",
           \A m \in DOMAIN VoyagesNow :
               (/\ PlansNow[VoyagesNow[m].plan].vessel
                      = PlansNow[VoyagesNow[l].plan].vessel
                /\ VoyagesNow[m].stage = "at sea")
               => ~ SecondsOverlap(VoyagesNow[m].window, VoyagesNow[l].window),
           VoyagesNow' = [VoyagesNow EXCEPT ![l].stage = "at sea"],
           UNCHANGED << Cleared, PlansNow >>
    PROVE  Voyage!VoyageNext
BY DEF PlansNow, VoyagesNow, Voyage!VoyageNext, Voyage!Depart, Voyage!AtSea,
       Voyage!VesselOf, Voyage!Meet, SecondsOverlap

LEMMA VoyageArrives ==
    ASSUME NEW l \in Legs, l \in DOMAIN VoyagesNow,
           VoyagesNow[l].stage = "at sea",
           VoyagesNow' = [VoyagesNow EXCEPT ![l].stage = "home"],
           PlansNow' =
              IF \A m \in DOMAIN VoyagesNow \ {l} :
                     VoyagesNow[m].plan = VoyagesNow[l].plan
                         => VoyagesNow[m].stage = "home"
              THEN [PlansNow EXCEPT ![VoyagesNow[l].plan].stage = "done"]
              ELSE PlansNow,
           UNCHANGED Cleared
    PROVE  Voyage!VoyageNext
<1>1. (\A m \in DOMAIN VoyagesNow \ {l} :
           VoyagesNow[m].plan = VoyagesNow[l].plan => VoyagesNow[m].stage = "home")
      <=> \A m \in Voyage!Of(VoyagesNow[l].plan) \ {l} : VoyagesNow[m].stage = "home"
    BY DEF Voyage!Of, VoyagesNow
<1>2. Voyage!Arrive(l)
    BY <1>1 DEF PlansNow, VoyagesNow, Voyage!Arrive
<1> QED BY <1>2 DEF Voyage!VoyageNext

-----------------------------------------------------------------------------
(* A review request clears at most one vessel, and none is taken back.     *)
LEMMA ReviewKeepsVoyages ==
    ASSUME PlanIInv, ReviewNext, UNCHANGED planVars
    PROVE  [Voyage!VoyageNext]_(Voyage!voyageVars)
<1> USE DEF PlanIInv, ReviewIInv, ReviewTypeOK
<1>1. UNCHANGED << PlansNow, VoyagesNow >>
    BY DEF planVars, PlansNow, VoyagesNow
<1>2. Cleared \subseteq Cleared'
    BY ReviewStepMoves DEF ReviewRowsMove, ReviewFlow, Cleared
<1>3. ASSUME NEW r \in DOMAIN class_reviews, NEW s \in ReviewStatus,
             class_reviews' = [class_reviews EXCEPT ![r] = Advance(@, s)]
      PROVE  Cleared' \subseteq Cleared \cup {class_reviews[r].vessel}
  <2>1. class_reviews'[r].vessel = class_reviews[r].vessel
    BY <1>3, ReviewAdvance
  <2> QED BY <1>3, <2>1 DEF Cleared
<1>4. ASSUME NEW a \in Users, NEW r \in Reviews, NEW v \in Vessels,
             CreateReview(a, r, v)
      PROVE  Cleared' \subseteq Cleared
    BY <1>4 DEF CreateReview, CreateReviewCheck, CreateReviewWrite, Insert, Cleared
<1>5. ASSUME UNCHANGED class_reviews PROVE Cleared' \subseteq Cleared
    BY <1>5 DEF Cleared
<1>6. ASSUME NEW a \in Users, NEW r \in Reviews, NEW k, NEW n,
             SubmitReview(a, r, k, n)
      PROVE  \E v \in Vessels : Cleared' \subseteq Cleared \cup {v}
  <2>1. /\ r \in DOMAIN class_reviews
        /\ class_reviews' = [class_reviews EXCEPT ![r] = Advance(@, "submitted")]
    BY <1>6 DEF SubmitReview, SubmitCheck, SubmitWrite
  <2>2. class_reviews[r].vessel \in Vessels
    BY <2>1 DEF ReviewRow
  <2> QED BY <1>3, <2>1, <2>2 DEF ReviewStatus
<1>7. ASSUME NEW a \in Users, NEW r \in Reviews, NEW d \in Decisions, NEW n,
             DecideReview(a, r, d, n)
      PROVE  \E v \in Vessels : Cleared' \subseteq Cleared \cup {v}
  <2>1. /\ r \in DOMAIN class_reviews
        /\ class_reviews' = [class_reviews EXCEPT ![r] = Advance(@, d)]
    BY <1>7 DEF DecideReview, DecideCheck, DecideWrite
  <2>2. class_reviews[r].vessel \in Vessels
    BY <2>1 DEF ReviewRow
  <2> QED BY <1>3, <2>1, <2>2 DEF ReviewStatus
<1> HIDE DEF PlanIInv, ReviewIInv, ReviewTypeOK
<1>8. \/ Cleared' \subseteq Cleared
      \/ \E v \in Vessels : Cleared' \subseteq Cleared \cup {v}
    BY <1>4, <1>5, <1>6, <1>7 DEF ReviewNext, RegisterVessel, ReplaySubmit, KeyExpires
<1>9. \/ Cleared' = Cleared
      \/ \E v \in Vessels : Cleared' = Cleared \cup {v}
    BY <1>2, <1>8
<1> QED BY <1>1, <1>9, VoyageStutters, VoyageClears

LEMMA CreatePlanKeepsVoyages ==
    ASSUME PlanIInv, UNCHANGED reviewVars, NEW a \in Users, NEW p \in Plans,
           NEW r \in Reviews, NEW v \in Vessels, NEW name \in PlanNames,
           CreatePlan(a, p, r, v, name)
    PROVE  Voyage!VoyageNext
<1> DEFINE row == [vessel |-> v, review |-> r, name |-> name,
                   status |-> "draft", version |-> 1]
<1>1. /\ p \notin DOMAIN trial_plans
      /\ trial_plans' = [q \in DOMAIN trial_plans \cup {p} |->
                            IF q = p THEN row ELSE trial_plans[q]]
      /\ UNCHANGED << voyage_legs, class_reviews >>
      /\ class_reviews[r].vessel = v /\ class_reviews[r].status = "approved"
      /\ r \in DOMAIN class_reviews
    BY DEF CreatePlan, CreatePlanCheck, CreatePlanWrite, Insert, reviewVars
<1>2. row.vessel = v /\ PlanStage(row.status) = "open"
    BY StageNames
<1> HIDE DEF row
<1>3. PlansNow' = Insert(PlansNow, p, [vessel |-> v, stage |-> "open"])
  <2> DEFINE abstract == [vessel |-> v, stage |-> "open"]
  <2>1. /\ trial_plans'[p] = row
        /\ \A q \in DOMAIN trial_plans : trial_plans'[q] = trial_plans[q]
        /\ DOMAIN trial_plans' = DOMAIN trial_plans \cup {p}
    BY <1>1
  <2>2. [vessel |-> trial_plans'[p].vessel,
         stage |-> PlanStage(trial_plans'[p].status)] = abstract
    BY <1>2, <2>1
  <2> HIDE DEF abstract
  <2>3. PlansNow' = [q \in DOMAIN trial_plans \cup {p} |->
                       IF q = p THEN abstract ELSE PlansNow[q]]
    BY <2>1, <2>2 DEF PlansNow
  <2>4. DOMAIN PlansNow = DOMAIN trial_plans
    BY DEF PlansNow
  <2> QED BY <2>3, <2>4 DEF Insert, abstract
<1>4. UNCHANGED << Cleared, VoyagesNow >> /\ v \in Cleared
    BY <1>1 DEF Cleared, VoyagesNow
<1>5. p \notin DOMAIN PlansNow
    BY <1>1 DEF PlansNow
<1> QED BY <1>3, <1>4, <1>5, VoyageDrafts

LEMMA AddLegKeepsVoyages ==
    ASSUME PlanIInv, UNCHANGED reviewVars, NEW a \in Users, NEW l \in Legs,
           NEW p \in Plans, NEW name \in LegNames, NEW w \in Windows,
           AddLeg(a, l, p, name, w)
    PROVE  Voyage!VoyageNext
<1> DEFINE row == [plan |-> p, vessel |-> trial_plans[p].vessel, name |-> name,
                   window |-> w, status |-> "planned", version |-> 1]
           abstract == [plan |-> p, window |-> w, stage |-> "ashore"]
<1>1. /\ l \notin DOMAIN voyage_legs
      /\ p \in DOMAIN trial_plans /\ trial_plans[p].status = "draft"
      /\ \A m \in LegsOf(p) : ~ SqlOverlap(voyage_legs[m].window, w)
      /\ voyage_legs' = [m \in DOMAIN voyage_legs \cup {l} |->
                            IF m = l THEN row ELSE voyage_legs[m]]
      /\ UNCHANGED << trial_plans, class_reviews >>
    BY DEF AddLeg, AddLegCheck, AddLegWrite, Insert, reviewVars
<1>2. [plan |-> row.plan, window |-> row.window, stage |-> LegStage(row.status)]
         = abstract
    BY StageNames
<1> HIDE DEF row, abstract
<1>3. VoyagesNow' = Insert(VoyagesNow, l, abstract)
  <2>1. /\ voyage_legs'[l] = row
        /\ \A m \in DOMAIN voyage_legs : voyage_legs'[m] = voyage_legs[m]
        /\ DOMAIN voyage_legs' = DOMAIN voyage_legs \cup {l}
    BY <1>1
  <2>2. VoyagesNow' = [m \in DOMAIN voyage_legs \cup {l} |->
                         IF m = l THEN abstract ELSE VoyagesNow[m]]
    BY <1>2, <2>1 DEF VoyagesNow
  <2>3. DOMAIN VoyagesNow = DOMAIN voyage_legs
    BY DEF VoyagesNow
  <2> QED BY <2>2, <2>3 DEF Insert
<1>4. UNCHANGED << Cleared, PlansNow >>
    BY <1>1 DEF Cleared, PlansNow
<1>5. /\ l \notin DOMAIN VoyagesNow
      /\ p \in DOMAIN PlansNow /\ PlansNow[p].stage = "open"
    BY <1>1, StagesRead DEF VoyagesNow, PlansNow
<1>6. ASSUME NEW m \in DOMAIN voyage_legs, voyage_legs[m].plan = p
      PROVE  ~ SecondsOverlap(voyage_legs[m].window, w)
  <2>1. voyage_legs[m].window \in Window /\ w \in Window
    BY WindowsAssumption DEF PlanIInv, PlanTypeOK, LegRow
  <2>2. ~ SqlOverlap(voyage_legs[m].window, w)
    BY <1>1, <1>6 DEF LegsOf
  <2> QED BY <2>1, <2>2, SecondsDecideText DEF SecondsOverlap, SqlOverlap, Window
<1>7. \A m \in DOMAIN VoyagesNow : VoyagesNow[m].plan = p =>
          ~ SecondsOverlap(VoyagesNow[m].window, w)
    BY <1>6 DEF VoyagesNow
<1> QED BY <1>3, <1>4, <1>5, <1>7, VoyageBooks DEF abstract

(* What an update of one leg, or of one plan, is to the promise.           *)
LEMMA VoyageMoved ==
    ASSUME NEW l \in DOMAIN voyage_legs, NEW s, LegUpdated(l, s),
           NEW stage, stage = LegStage(s)
    PROVE  VoyagesNow' = [VoyagesNow EXCEPT ![l].stage = stage]
<1>1. ASSUME NEW m \in DOMAIN voyage_legs
      PROVE  [plan |-> voyage_legs'[m].plan, window |-> voyage_legs'[m].window,
              stage |-> LegStage(voyage_legs'[m].status)]
                = IF m = l THEN [VoyagesNow[m] EXCEPT !.stage = stage]
                           ELSE VoyagesNow[m]
    BY DEF LegUpdated, VoyagesNow
<1>2. /\ DOMAIN VoyagesNow = DOMAIN voyage_legs
      /\ DOMAIN voyage_legs' = DOMAIN voyage_legs
    BY DEF VoyagesNow, LegUpdated
<1>3. VoyagesNow' = [m \in DOMAIN voyage_legs |->
         IF m = l THEN [VoyagesNow[m] EXCEPT !.stage = stage]
                  ELSE VoyagesNow[m]]
    BY <1>1, <1>2, ZenonT(60) DEF VoyagesNow
<1> HIDE DEF VoyagesNow
<1> QED BY <1>2, <1>3

LEMMA PlanMoved ==
    ASSUME NEW p \in DOMAIN trial_plans, NEW s, PlanUpdated(p, s),
           NEW stage, stage = PlanStage(s)
    PROVE  PlansNow' = [PlansNow EXCEPT ![p].stage = stage]
<1>1. ASSUME NEW q \in DOMAIN trial_plans
      PROVE  [vessel |-> trial_plans'[q].vessel,
              stage |-> PlanStage(trial_plans'[q].status)]
                = IF q = p THEN [PlansNow[q] EXCEPT !.stage = stage]
                           ELSE PlansNow[q]
    BY DEF PlanUpdated, PlansNow
<1>2. /\ DOMAIN PlansNow = DOMAIN trial_plans
      /\ DOMAIN trial_plans' = DOMAIN trial_plans
    BY DEF PlansNow, PlanUpdated
<1>3. PlansNow' = [q \in DOMAIN trial_plans |->
         IF q = p THEN [PlansNow[q] EXCEPT !.stage = stage]
                  ELSE PlansNow[q]]
    BY <1>1, <1>2, ZenonT(60) DEF PlansNow
<1> HIDE DEF PlansNow
<1> QED BY <1>2, <1>3

(* A plan that keeps its stage.                                            *)
LEMMA PlanUnmoved ==
    ASSUME NEW p \in DOMAIN trial_plans, NEW s, PlanUpdated(p, s),
           PlanStage(s) = PlanStage(trial_plans[p].status)
    PROVE  PlansNow' = PlansNow
BY DEF PlanUpdated, PlansNow

LEMMA ScheduleKeepsVoyages ==
    ASSUME PlanIInv, UNCHANGED reviewVars, NEW a \in Users, NEW p \in Plans,
           NEW n \in Versions, SchedulePlan(a, p, n)
    PROVE  Voyage!VoyageNext
<1>1. /\ p \in DOMAIN trial_plans /\ trial_plans[p].status = "draft"
      /\ LegsOf(p) # {}
      /\ trial_plans' = [trial_plans EXCEPT ![p] = Advance(@, "scheduled")]
      /\ UNCHANGED << voyage_legs, class_reviews >>
    BY DEF SchedulePlan, ScheduleCheck, ScheduleWrite, reviewVars
<1>2. PlanUpdated(p, "scheduled")
    BY <1>1, PlanUpdate DEF PlanIInv, PlanStatus
<1>3. PlansNow' = [PlansNow EXCEPT ![p].stage = "frozen"]
  <2>1. PlanStage("scheduled") = "frozen"
    BY StageNames
  <2>2. p \in DOMAIN trial_plans
    BY <1>1
  <2> QED BY <1>2, <2>1, <2>2, PlanMoved, ZenonT(60)
<1>4. p \in DOMAIN PlansNow /\ PlansNow[p].stage = "open"
    BY <1>1, StagesRead DEF PlansNow
<1>5. \E l \in DOMAIN VoyagesNow : VoyagesNow[l].plan = p
    BY <1>1 DEF LegsOf, VoyagesNow
<1>6. UNCHANGED << Cleared, VoyagesNow >>
    BY <1>1 DEF Cleared, VoyagesNow
<1> QED BY <1>3, <1>4, <1>5, <1>6, VoyageFreezes

LEMMA ReleaseKeepsVoyages ==
    ASSUME PlanIInv, UNCHANGED reviewVars, NEW a \in Users, NEW l \in Legs,
           NEW n \in Versions, ReleaseLeg(a, l, n)
    PROVE  Voyage!VoyageNext
<1> DEFINE p == voyage_legs[l].plan
<1>1. /\ l \in DOMAIN voyage_legs /\ p \in DOMAIN trial_plans
      /\ trial_plans[p].status \in {"scheduled", "active"}
      /\ voyage_legs[l].status \in {"planned", "held"}
      /\ Conflicts(l) = {}
      /\ UNCHANGED class_reviews
    BY DEF ReleaseLeg, ReleaseCheck, PlanIInv, PlanTypeOK, reviewVars
<1>2. voyage_legs[l].status = "planned"
    BY <1>1 DEF PlanIInv, PlanFollowsLegs
<1>3. LegUpdated(l, "released") /\ PlanUpdated(p, "active")
    BY ReleaseEffect DEF PlanIInv
<1>4. VoyagesNow' = [VoyagesNow EXCEPT ![l].stage = "at sea"]
  <2>1. LegStage("released") = "at sea"
    BY StageNames
  <2>2. l \in DOMAIN voyage_legs
    BY <1>1
  <2> QED BY <1>3, <2>1, <2>2, VoyageMoved, ZenonT(60)
<1>5. PlanStage("active") = PlanStage(trial_plans[p].status)
    BY <1>1, StageNames
<1>6. UNCHANGED << Cleared, PlansNow >>
    BY <1>1, <1>3, <1>5, PlanUnmoved DEF Cleared
<1>7. /\ l \in DOMAIN VoyagesNow /\ VoyagesNow[l].stage = "ashore"
      /\ PlansNow[VoyagesNow[l].plan].stage = "frozen"
  <2>1. VoyagesNow[l].plan = p
    BY <1>1 DEF VoyagesNow
  <2> QED BY <1>1, <1>2, <2>1, StagesRead DEF VoyagesNow
<1>8. ASSUME NEW m \in DOMAIN voyage_legs
      PROVE  /\ PlansNow[VoyagesNow[m].plan].vessel = voyage_legs[m].vessel
             /\ VoyagesNow[m].window = voyage_legs[m].window
    BY DEF PlansNow, VoyagesNow, PlanIInv, PlanBackedByApproval, PlanTypeOK
<1>9. ASSUME NEW m \in DOMAIN voyage_legs,
             voyage_legs[m].vessel = voyage_legs[l].vessel,
             voyage_legs[m].status \in Active
      PROVE  ~ SecondsOverlap(voyage_legs[m].window, voyage_legs[l].window)
  <2>1. /\ voyage_legs[m].window \in Window
        /\ voyage_legs[l].window \in Window
    BY <1>1, WindowsAssumption DEF PlanIInv, PlanTypeOK, LegRow
  <2>2. m # l
    BY <1>2, <1>9 DEF Active
  <2>3. ~ SqlOverlap(voyage_legs[m].window, voyage_legs[l].window)
    BY <1>1, <1>9, <2>2 DEF Conflicts
  <2> QED BY <2>1, <2>3, SecondsDecideText DEF SecondsOverlap, SqlOverlap, Window
<1>10. \A m \in DOMAIN VoyagesNow :
          (/\ PlansNow[VoyagesNow[m].plan].vessel
                 = PlansNow[VoyagesNow[l].plan].vessel
           /\ VoyagesNow[m].stage = "at sea")
          => ~ SecondsOverlap(VoyagesNow[m].window, VoyagesNow[l].window)
  <2>1. DOMAIN VoyagesNow = DOMAIN voyage_legs
    BY DEF VoyagesNow
  <2> QED BY <1>1, <1>8, <1>9, <2>1, StagesRead
<1> QED BY <1>4, <1>6, <1>7, <1>10, VoyageDeparts

LEMMA CompleteKeepsVoyages ==
    ASSUME PlanIInv, UNCHANGED reviewVars, NEW a \in Users, NEW l \in Legs,
           NEW n \in Versions, CompleteLeg(a, l, n)
    PROVE  Voyage!VoyageNext
<1> DEFINE p == voyage_legs[l].plan
<1>1. /\ l \in DOMAIN voyage_legs /\ p \in DOMAIN trial_plans
      /\ voyage_legs[l].status \in Active
      /\ UNCHANGED class_reviews
    BY DEF CompleteLeg, CompleteCheck, PlanIInv, PlanTypeOK, reviewVars
<1>2. /\ LegUpdated(l, "completed")
      /\ PlanUpdated(p, IF AllDone(p, l) THEN "completed"
                        ELSE trial_plans[p].status)
    BY CompleteEffect DEF PlanIInv
<1>3. VoyagesNow' = [VoyagesNow EXCEPT ![l].stage = "home"]
  <2>1. LegStage("completed") = "home"
    BY StageNames
  <2>2. l \in DOMAIN voyage_legs
    BY <1>1
  <2> QED BY <1>2, <2>1, <2>2, VoyageMoved, ZenonT(60)
<1>4. /\ l \in DOMAIN VoyagesNow /\ VoyagesNow[l].stage = "at sea"
      /\ VoyagesNow[l].plan = p
    BY <1>1, StagesRead DEF VoyagesNow
<1>5. AllDone(p, l) <=>
         \A m \in DOMAIN VoyagesNow \ {l} :
             VoyagesNow[m].plan = p => VoyagesNow[m].stage = "home"
  <2>1. /\ DOMAIN VoyagesNow = DOMAIN voyage_legs
        /\ \A m \in DOMAIN voyage_legs : VoyagesNow[m].plan = voyage_legs[m].plan
    BY DEF VoyagesNow
  <2> QED BY <2>1, StagesRead DEF AllDone, LegsOf
<1>6. PlansNow' = IF AllDone(p, l) THEN [PlansNow EXCEPT ![p].stage = "done"]
                  ELSE PlansNow
  <2>1. CASE AllDone(p, l)
    <3>1. /\ p \in DOMAIN trial_plans /\ PlanUpdated(p, "completed")
          /\ "done" = PlanStage("completed")
      BY <1>1, <1>2, <2>1, StageNames
    <3>2. PlansNow' = [PlansNow EXCEPT ![p].stage = "done"]
      <4> HIDE DEF p
      <4> QED BY <3>1, PlanMoved, ZenonT(60)
    <3> QED BY <2>1, <3>2, Zenon
  <2>2. CASE ~ AllDone(p, l)
    <3>1. PlanUpdated(p, trial_plans[p].status)
      BY <1>2, <2>2
    <3> QED BY <1>1, <2>2, <3>1, PlanUnmoved
  <2> QED BY <2>1, <2>2
<1>7. UNCHANGED Cleared
    BY <1>1 DEF Cleared
<1> HIDE DEF p
<1> QED BY <1>3, <1>4, <1>5, <1>6, <1>7, VoyageArrives

LEMMA PlanStepsKeepVoyages ==
    ASSUME PlanIInv, [Next]_vars
    PROVE  [Voyage!VoyageNext]_(Voyage!voyageVars)
<1>1. CASE ReviewNext /\ UNCHANGED planVars
    BY <1>1, ReviewKeepsVoyages
<1>2. CASE PlanNext /\ UNCHANGED reviewVars
    BY <1>2, CreatePlanKeepsVoyages, AddLegKeepsVoyages, ScheduleKeepsVoyages,
       ReleaseKeepsVoyages, CompleteKeepsVoyages DEF PlanNext
<1>3. CASE UNCHANGED vars
  <2>1. UNCHANGED << Cleared, PlansNow, VoyagesNow >>
    BY <1>3 DEF vars, reviewVars, planVars, Cleared, PlansNow, VoyagesNow
  <2> QED BY <2>1, VoyageStutters
<1> QED BY <1>1, <1>2, <1>3 DEF Next

(* Reviews, plans and legs implement VoyagePromise: whatever the windows,  *)
(* versions and idempotency keys of the requests, a vessel sails only when *)
(* it is cleared, on a frozen plan, and on one voyage at a time.           *)
THEOREM VoyagesKept == Spec => VoyagePromised
<1>1. Init => Voyage!VoyageInit
  <2> SUFFICES ASSUME Init PROVE Voyage!VoyageInit
    OBVIOUS
  <2>1. Cleared = {}
    BY DEF Init, ReviewInit, EmptyTable, Cleared
  <2>2. /\ trial_plans = EmptyTable /\ voyage_legs = EmptyTable
    BY DEF Init, PlanInit
  <2> QED BY <2>1, <2>2 DEF Voyage!VoyageInit, Voyage!EmptyTable, EmptyTable
<1>2. PlanIInv /\ [Next]_vars => [Voyage!VoyageNext]_(Voyage!voyageVars)
    BY PlanStepsKeepVoyages
<1> QED BY <1>1, <1>2, PlanInductive, PTL
        DEF Spec, VoyagePromised, Voyage!VoyageSpec
=============================================================================
