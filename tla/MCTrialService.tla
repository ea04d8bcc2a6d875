--------------------------- MODULE MCTrialService ---------------------------
(* One vessel with a plan just scheduled, and a clock that ticks in half   *)
(* seconds; the staleness check looks one second back.                     *)
EXTENDS TrialService

CONSTANTS v1, r1, c1, s1, q1, o1, p1, l1, n1, d1, b1, x1

At(s, f) == [sec |-> s, frac |-> f]
Ticks == {At(1, 50), At(2, 0), At(2, 50), At(3, 0)}
OneWindow == {[from |-> At(1, 0), to |-> At(2, 0)]}

(* A reachable state of the plans, and nothing else on file.               *)
Scheduled ==
    /\ vessels = {v1}
    /\ class_reviews = [r \in {r1} |->
           [status |-> "approved", vessel |-> v1,
            submitted_by |-> c1, version |-> 3]]
    /\ review_decisions =
           {[review |-> r1, reviewer |-> s1, decision |-> "approved"]}
    /\ idempotency_keys = EmptyTable
    /\ review_audit = [r \in {r1} |-> << "create", "submit", "decide" >>]
    /\ replies = {}
    /\ trial_plans = [p \in {p1} |->
           [vessel |-> v1, review |-> r1, name |-> n1,
            status |-> "scheduled", version |-> 2]]
    /\ voyage_legs = [l \in {l1} |->
           [plan |-> p1, vessel |-> v1, name |-> n1,
            window |-> CHOOSE w \in OneWindow : TRUE,
            status |-> "planned", version |-> 1]]
    /\ plan_audit = [p \in {p1} |-> << "create", "schedule" >>]
    /\ leg_audit = [l \in {l1} |-> << "create" >>]
    /\ DefectInit /\ BatchInit /\ TelemetryInit

ScheduledFairSpec == Scheduled /\ [][SystemNext]_systemVars /\ TelemetryFairness
=============================================================================
