------------------------------ MODULE TrialPlan ------------------------------
(***************************************************************************)
(* Trial plans and voyage legs: the trial service together with            *)
(* internal/storage/sqlite/trial.go, on top of the class reviews that a    *)
(* plan needs.  One action per request, split as in ClassReview into what  *)
(* the transaction checks on its snapshot and what it writes.              *)
(*                                                                         *)
(* No operation of the program puts a leg into 'underway' or 'held' or a   *)
(* plan into 'cancelled': the guards name those states, nothing reaches    *)
(* them.                                                                   *)
(***************************************************************************)
EXTENDS ClassReview, TextTime

CONSTANTS
    Plans,       \* row ids of trial_plans
    Legs,        \* row ids of voyage_legs
    PlanNames,
    LegNames,
    Windows      \* the time windows clients ask for

Window == [from : Instant, to : Instant]
ASSUME WindowsAssumption == Windows \subseteq Window

VARIABLES
    trial_plans,  \* plan id -> row
    voyage_legs,  \* leg id -> row
    plan_audit,   \* plan id -> actions of its audit events
    leg_audit     \* leg id -> actions of its audit events

planVars == << trial_plans, voyage_legs, plan_audit, leg_audit >>
vars == << reviewVars, planVars >>

PlanStatus == {"draft", "scheduled", "active", "completed", "cancelled"}
LegStatus == {"planned", "released", "underway", "completed", "held"}
PlanRow == [vessel : Vessels, review : Reviews, name : PlanNames,
            status : PlanStatus, version : Nat]
LegRow == [plan : Plans, vessel : Vessels, name : LegNames, window : Windows,
           status : LegStatus, version : Nat]

-----------------------------------------------------------------------------
PlanInit ==
    /\ trial_plans = EmptyTable
    /\ voyage_legs = EmptyTable
    /\ plan_audit = [p \in Plans |-> << >>]
    /\ leg_audit = [l \in Legs |-> << >>]

LegsOf(p) == {l \in DOMAIN voyage_legs : voyage_legs[l].plan = p}
Active == {"released", "underway"}

(* The overlap test of both queries: starts_at < other.ends_at AND         *)
(* ends_at > other.starts_at, on the text of the columns.                  *)
SqlOverlap(w, x) == SqlBefore(w.from, x.to) /\ SqlBefore(x.from, w.to)

(* Faulty: backed by the approval of any vessel.                           *)
CreatePlanAnyVessel(actor, p, r, v) ==
    /\ p \notin DOMAIN trial_plans
    /\ actor \in Coordinators
    /\ r \in DOMAIN class_reviews
    /\ class_reviews[r].status = "approved"

CreatePlanCheck(actor, p, r, v) ==
    /\ p \notin DOMAIN trial_plans
    /\ actor \in Coordinators
    /\ r \in DOMAIN class_reviews
    /\ class_reviews[r].vessel = v
    /\ class_reviews[r].status = "approved"

(* UNIQUE(vessel_id, name).                                                *)
PlanNameFree(v, name) ==
    \A q \in DOMAIN trial_plans :
        ~ (trial_plans[q].vessel = v /\ trial_plans[q].name = name)

CreatePlanWrite(p, r, v, name) ==
    /\ PlanNameFree(v, name)
    /\ trial_plans' = Insert(trial_plans, p,
           [vessel |-> v, review |-> r, name |-> name,
            status |-> "draft", version |-> 1])
    /\ plan_audit' = [plan_audit EXCEPT ![p] = Append(@, "create")]
    /\ UNCHANGED << voyage_legs, leg_audit >>

CreatePlan(actor, p, r, v, name) ==
    CreatePlanCheck(actor, p, r, v) /\ CreatePlanWrite(p, r, v, name)

(* Faulty: legs are added to a scheduled plan too.                         *)
AddLegLate(actor, l, p, window) ==
    /\ l \notin DOMAIN voyage_legs
    /\ actor \in Coordinators
    /\ p \in DOMAIN trial_plans
    /\ trial_plans[p].status \in {"draft", "scheduled"}
    /\ Before(window.from, window.to)
    /\ \A m \in LegsOf(p) : ~ SqlOverlap(voyage_legs[m].window, window)

AddLegCheck(actor, l, p, window) ==
    /\ l \notin DOMAIN voyage_legs
    /\ actor \in Coordinators
    /\ p \in DOMAIN trial_plans
    /\ trial_plans[p].status = "draft"
    /\ Before(window.from, window.to)
    /\ \A m \in LegsOf(p) : ~ SqlOverlap(voyage_legs[m].window, window)

(* CHECK(starts_at < ends_at), on text, and UNIQUE(plan_id, name).  The    *)
(* version of the plan does not move.                                      *)
LegInsertable(p, name, window) ==
    /\ SqlBefore(window.from, window.to)
    /\ \A m \in LegsOf(p) : voyage_legs[m].name # name

AddLegWrite(l, p, name, window) ==
    /\ LegInsertable(p, name, window)
    /\ voyage_legs' = Insert(voyage_legs, l,
           [plan |-> p, vessel |-> trial_plans[p].vessel, name |-> name,
            window |-> window, status |-> "planned", version |-> 1])
    /\ leg_audit' = [leg_audit EXCEPT ![l] = Append(@, "create")]
    /\ UNCHANGED << trial_plans, plan_audit >>

AddLeg(actor, l, p, name, window) ==
    AddLegCheck(actor, l, p, window) /\ AddLegWrite(l, p, name, window)

ScheduleCheck(actor, p) ==
    /\ actor \in Coordinators
    /\ p \in DOMAIN trial_plans
    /\ trial_plans[p].status = "draft"
    /\ LegsOf(p) # {}

ScheduleWrite(p, version) ==
    /\ trial_plans[p].version = version
    /\ trial_plans' = [trial_plans EXCEPT ![p] = Advance(@, "scheduled")]
    /\ plan_audit' = [plan_audit EXCEPT ![p] = Append(@, "schedule")]
    /\ UNCHANGED << voyage_legs, leg_audit >>

SchedulePlan(actor, p, version) ==
    ScheduleCheck(actor, p) /\ ScheduleWrite(p, version)

(* Faulty: looks at one plan only; counts completed legs.                  *)
ConflictsInPlan(l) ==
    {m \in LegsOf(voyage_legs[l].plan) \ {l} :
        /\ voyage_legs[m].status \in Active
        /\ SqlOverlap(voyage_legs[m].window, voyage_legs[l].window)}

ConflictsForEver(l) ==
    {m \in DOMAIN voyage_legs \ {l} :
        /\ voyage_legs[m].vessel = voyage_legs[l].vessel
        /\ voyage_legs[m].status # "planned"
        /\ SqlOverlap(voyage_legs[m].window, voyage_legs[l].window)}

(* The active legs of the vessel, in any of its plans, whose window meets  *)
(* that of l.                                                              *)
Conflicts(l) ==
    {m \in DOMAIN voyage_legs \ {l} :
        /\ voyage_legs[m].vessel = voyage_legs[l].vessel
        /\ voyage_legs[m].status \in Active
        /\ SqlOverlap(voyage_legs[m].window, voyage_legs[l].window)}

(* Faulty: a completed leg is released again.                              *)
ReleaseAgain(actor, l) ==
    /\ actor \in Coordinators
    /\ l \in DOMAIN voyage_legs
    /\ trial_plans[voyage_legs[l].plan].status \in {"scheduled", "active"}
    /\ voyage_legs[l].status \notin Active
    /\ Conflicts(l) = {}

(* Faulty: a leg sails on a plan that may still get other legs.            *)
ReleaseUnscheduled(actor, l) ==
    /\ actor \in Coordinators
    /\ l \in DOMAIN voyage_legs
    /\ voyage_legs[l].status \in {"planned", "held"}
    /\ Conflicts(l) = {}

ReleaseCheck(actor, l) ==
    /\ actor \in Coordinators
    /\ l \in DOMAIN voyage_legs
    /\ trial_plans[voyage_legs[l].plan].status \in {"scheduled", "active"}
    /\ voyage_legs[l].status \in {"planned", "held"}
    /\ Conflicts(l) = {}

(* Faulty: gives the plan the status of the leg.                           *)
ActivatedAsLeg(p) ==
    IF trial_plans[p].status = "scheduled"
    THEN [trial_plans EXCEPT ![p] = Advance(@, "released")]
    ELSE trial_plans

(* The first release of a plan activates it: its version moves, but no     *)
(* audit event is written for the plan.                                    *)
Activated(p) ==
    IF trial_plans[p].status = "scheduled"
    THEN [trial_plans EXCEPT ![p] = Advance(@, "active")]
    ELSE trial_plans

ReleaseWrite(l, version) ==
    /\ voyage_legs[l].version = version
    /\ voyage_legs' = [voyage_legs EXCEPT ![l] = Advance(@, "released")]
    /\ trial_plans' = Activated(voyage_legs[l].plan)
    /\ leg_audit' = [leg_audit EXCEPT ![l] = Append(@, "release")]
    /\ UNCHANGED plan_audit

ReleaseLeg(actor, l, version) ==
    ReleaseCheck(actor, l) /\ ReleaseWrite(l, version)

(* Faulty: a leg is completed again.                                       *)
CompleteAgain(actor, l) ==
    /\ actor \in Coordinators
    /\ l \in DOMAIN voyage_legs
    /\ voyage_legs[l].status # "planned"

CompleteCheck(actor, l) ==
    /\ actor \in Coordinators
    /\ l \in DOMAIN voyage_legs
    /\ voyage_legs[l].status \in Active

(* Faulty: legs not yet released count as done.                            *)
FinishedEarly(p, last) ==
    IF \A m \in LegsOf(p) \ {last} : voyage_legs[m].status \notin Active
    THEN [trial_plans EXCEPT ![p] = Advance(@, "completed")]
    ELSE trial_plans

(* Completing the last leg completes the plan, whatever its status and     *)
(* version.                                                                *)
Finished(p, last) ==
    IF \A m \in LegsOf(p) \ {last} : voyage_legs[m].status = "completed"
    THEN [trial_plans EXCEPT ![p] = Advance(@, "completed")]
    ELSE trial_plans

CompleteWrite(l, version) ==
    /\ voyage_legs[l].version = version
    /\ voyage_legs' = [voyage_legs EXCEPT ![l] = Advance(@, "completed")]
    /\ trial_plans' = Finished(voyage_legs[l].plan, l)
    /\ leg_audit' = [leg_audit EXCEPT ![l] = Append(@, "complete")]
    /\ UNCHANGED plan_audit

CompleteLeg(actor, l, version) ==
    CompleteCheck(actor, l) /\ CompleteWrite(l, version)

PlanNext ==
    \E actor \in Users :
        \/ \E p \in Plans, r \in Reviews, v \in Vessels, name \in PlanNames :
              CreatePlan(actor, p, r, v, name)
        \/ \E l \in Legs, p \in Plans, name \in LegNames, w \in Windows :
              AddLeg(actor, l, p, name, w)
        \/ \E p \in Plans, n \in Versions : SchedulePlan(actor, p, n)
        \/ \E l \in Legs, n \in Versions : ReleaseLeg(actor, l, n)
        \/ \E l \in Legs, n \in Versions : CompleteLeg(actor, l, n)

Init == ReviewInit /\ PlanInit

Next ==
    \/ ReviewNext /\ UNCHANGED planVars
    \/ PlanNext /\ UNCHANGED reviewVars

Spec == Init /\ [][Next]_vars

-----------------------------------------------------------------------------
(* Rows have the columns of the schema, and a leg names a plan that exists.*)
PlanTypeOK ==
    /\ DOMAIN trial_plans \subseteq Plans
    /\ trial_plans \in [DOMAIN trial_plans -> PlanRow]
    /\ DOMAIN voyage_legs \subseteq Legs
    /\ voyage_legs \in [DOMAIN voyage_legs -> LegRow]
    /\ \A l \in DOMAIN voyage_legs : voyage_legs[l].plan \in DOMAIN trial_plans
    /\ plan_audit \in [Plans -> Seq({"create", "schedule"})]
    /\ leg_audit \in [Legs -> Seq({"create", "release", "complete"})]

TypeOK == ReviewTypeOK /\ PlanTypeOK

(* "Only an approved review for the same vessel can back a trial plan", at *)
(* every moment of the plan's life and for its legs: no later review       *)
(* operation takes the approval away (CreatePlan's check, AddLeg's copy of *)
(* the vessel and the review flow).                                        *)
PlanBackedByApproval ==
    /\ \A p \in DOMAIN trial_plans :
          LET r == trial_plans[p].review
          IN  /\ r \in DOMAIN class_reviews
              /\ class_reviews[r].status = "approved"
              /\ class_reviews[r].vessel = trial_plans[p].vessel
    /\ \A l \in DOMAIN voyage_legs :
          voyage_legs[l].vessel = trial_plans[voyage_legs[l].plan].vessel

(* The status of a plan is the one its legs call for.  It is written by    *)
(* three operations on two tables (SchedulePlan, the activation inside     *)
(* ReleaseLeg, the completion inside CompleteLeg), and the reserved states *)
(* are never entered.                                                      *)
PlanFollowsLegs ==
    /\ \A l \in DOMAIN voyage_legs :
          voyage_legs[l].status \in {"planned", "released", "completed"}
    /\ \A p \in DOMAIN trial_plans :
          LET Is(l, status) == voyage_legs[l].status = status
          IN  CASE trial_plans[p].status = "draft" ->
                     \A l \in LegsOf(p) : Is(l, "planned")
                [] trial_plans[p].status = "scheduled" ->
                     LegsOf(p) # {} /\ \A l \in LegsOf(p) : Is(l, "planned")
                [] trial_plans[p].status = "active" ->
                     /\ \E l \in LegsOf(p) : ~ Is(l, "planned")
                     /\ \E l \in LegsOf(p) : ~ Is(l, "completed")
                [] trial_plans[p].status = "completed" ->
                     LegsOf(p) # {} /\ \A l \in LegsOf(p) : Is(l, "completed")
                [] OTHER -> FALSE

(* Each window starts in a second before the one in which the other ends.  *)
SecondsOverlap(w, x) == w.from.sec < x.to.sec /\ x.from.sec < w.to.sec

(* What "non-overlapping" means for instants.                              *)
TrueOverlap(w, x) == Before(w.from, x.to) /\ Before(x.from, w.to)

SameVoyage(l, m) ==
    \/ voyage_legs[l].plan = voyage_legs[m].plan
    \/ /\ voyage_legs[l].vessel = voyage_legs[m].vessel
       /\ voyage_legs[l].status \in Active
       /\ voyage_legs[m].status \in Active

(* A vessel is never on two trial legs at once and a plan never books it   *)
(* twice, to the second: no two legs of one plan, and no two active legs   *)
(* of one vessel in whatever plans, overlap by seconds (the queries of     *)
(* AddLeg and ReleaseLeg on time text).                                    *)
LegsApartBySeconds ==
    \A l, m \in DOMAIN voyage_legs :
        (l # m /\ SameVoyage(l, m)) =>
            ~ SecondsOverlap(voyage_legs[l].window, voyage_legs[m].window)

(* The same for instants, as README:83-84 states it.                       *)
LegsApart ==
    \A l, m \in DOMAIN voyage_legs :
        (l # m /\ SameVoyage(l, m)) =>
            ~ TrueOverlap(voyage_legs[l].window, voyage_legs[m].window)

(* The audit trails that a leg and a plan in their status must have.       *)
LegTrail(l) ==
    IF l \notin DOMAIN voyage_legs THEN << >>
    ELSE IF voyage_legs[l].status = "planned" THEN << "create" >>
    ELSE IF voyage_legs[l].status = "released" THEN << "create", "release" >>
    ELSE << "create", "release", "complete" >>

PlanTrail(p) ==
    IF p \notin DOMAIN trial_plans THEN << >>
    ELSE IF trial_plans[p].status = "draft" THEN << "create" >>
    ELSE << "create", "schedule" >>

(* Every leg's audit trail is the history of its status, and its length is *)
(* the version; a plan's trail holds its creation and its scheduling, one  *)
(* event each (the activation and completion of a plan are audited on the  *)
(* leg that caused them).                                                  *)
PlanAudited ==
    /\ \A p \in Plans : plan_audit[p] = PlanTrail(p)
    /\ \A l \in Legs : leg_audit[l] = LegTrail(l)
    /\ \A l \in DOMAIN voyage_legs :
          voyage_legs[l].version = Len(leg_audit[l])

(* From every reachable state an unfinished plan can go on: a coordinator  *)
(* who sends the version as it stands can release or complete one of its   *)
(* legs, or complete another leg that keeps the vessel busy.  No sequence  *)
(* of legal calls wedges a plan.                                           *)
PlanNeverStuck ==
    \A p \in DOMAIN trial_plans :
        trial_plans[p].status \in {"scheduled", "active"} =>
            \E l \in DOMAIN voyage_legs, actor \in Coordinators, n \in Versions :
                /\ voyage_legs[l].vessel = trial_plans[p].vessel
                /\ voyage_legs[l].version = n
                /\ \/ CompleteCheck(actor, l)
                   \/ l \in LegsOf(p) /\ ReleaseCheck(actor, l)

PlanFlow == {<< "draft", "scheduled" >>, << "scheduled", "active" >>,
             << "active", "completed" >>}
LegFlow == {<< "planned", "released" >>, << "released", "completed" >>}

PlanRowsMove ==
    /\ \A p \in DOMAIN trial_plans :
          /\ p \in DOMAIN trial_plans'
          /\ LET old == trial_plans[p]
                 new == trial_plans'[p]
             IN  \/ new = old
                 \/ /\ << old.status, new.status >> \in PlanFlow
                    /\ new = [old EXCEPT !.status = new.status,
                                         !.version = old.version + 1]
    /\ \A l \in DOMAIN voyage_legs :
          /\ l \in DOMAIN voyage_legs'
          /\ LET old == voyage_legs[l]
                 new == voyage_legs'[l]
             IN  \/ new = old
                 \/ /\ << old.status, new.status >> \in LegFlow
                    /\ new = [old EXCEPT !.status = new.status,
                                         !.version = old.version + 1]

(* No row is lost, moved to another plan, vessel, review or window, taken  *)
(* back, or changed without its version: a client that holds the version   *)
(* of a plan or leg knows the row it acts on.                              *)
PlanHistory == [][PlanRowsMove]_vars

(* "Voyage legs frozen" (SchedulePlan's audit detail): from scheduling on  *)
(* the set of legs of a plan never changes.                                *)
LegsFrozen ==
    [][\A p \in DOMAIN trial_plans :
          trial_plans[p].status # "draft" => LegsOf(p)' = LegsOf(p)]_vars

-----------------------------------------------------------------------------
(* What VoyagePromise calls the reviews, plans and legs of the database.   *)
Cleared ==
    {v \in Vessels : \E r \in DOMAIN class_reviews :
        class_reviews[r].vessel = v /\ class_reviews[r].status = "approved"}

PlanStage(status) ==
    CASE status = "draft" -> "open"
      [] status \in {"scheduled", "active"} -> "frozen"
      [] OTHER -> "done"

LegStage(status) ==
    CASE status \in Active -> "at sea"
      [] status = "completed" -> "home"
      [] OTHER -> "ashore"

Voyage == INSTANCE VoyagePromise WITH
    cleared <- Cleared,
    plans   <- [p \in DOMAIN trial_plans |->
                   [vessel |-> trial_plans[p].vessel,
                    stage  |-> PlanStage(trial_plans[p].status)]],
    voyages <- [l \in DOMAIN voyage_legs |->
                   [plan   |-> voyage_legs[l].plan,
                    window |-> voyage_legs[l].window,
                    stage  |-> LegStage(voyage_legs[l].status)]]

(* Reviews, plans and legs together keep the promise of VoyagePromise: a   *)
(* plan is only ever opened for a cleared vessel, a vessel sails only on a *)
(* frozen plan and on no second voyage at that time, and a plan is done    *)
(* exactly when its last voyage is home.                                   *)
VoyagePromised == Voyage!VoyageSpec
=============================================================================
