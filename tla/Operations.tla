----------------------------- MODULE Operations -----------------------------
(***************************************************************************)
(* What defects, deliveries and telemetry have in common: the staff ashore *)
(* and the optional reference from a defect or a sample to a voyage leg.   *)
(***************************************************************************)
EXTENDS TrialPlan

CONSTANTS
    ShoreOperators,   \* users whose role is shore_operator
    QualityManagers,  \* users whose role is quality_manager
    NoLeg             \* leg_id is absent (NULL)

ASSUME StaffAssumption ==
    QualityManagers \cap (Coordinators \cup ShoreOperators) = {}
ASSUME NoLegAssumption == NoLeg \notin Legs

Staff == Users \cup ShoreOperators \cup QualityManagers
LegRefs == Legs \cup {NoLeg}

(* A leg, if one is named, exists and is a leg of this vessel.             *)
LegFits(leg, v) ==
    leg # NoLeg => leg \in DOMAIN voyage_legs /\ voyage_legs[leg].vessel = v
=============================================================================
