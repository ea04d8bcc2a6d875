---------------------------- MODULE TrialService ----------------------------
(***************************************************************************)
(* The tables of the whole service: reviews, plans and legs, defects,      *)
(* deliveries and telemetry.  A request of any component is one step;      *)
(* StoreTx takes these steps apart.                                        *)
(***************************************************************************)
EXTENDS Delivery, Telemetry

systemVars == << vars, defectVars, batchVars, telemetryVars >>

SystemInit == Init /\ DefectInit /\ BatchInit /\ TelemetryInit

SystemNext ==
    \/ Next /\ UNCHANGED << defectVars, batchVars, telemetryVars >>
    \/ DefectNext /\ UNCHANGED << vars, batchVars, telemetryVars >>
    \/ BatchNext /\ UNCHANGED << vars, defectVars, telemetryVars >>
    \/ TelemetryNext /\ UNCHANGED << vars, defectVars, batchVars >>

SystemSpec == SystemInit /\ [][SystemNext]_systemVars

FairSystemSpec == SystemSpec /\ TelemetryFairness

-----------------------------------------------------------------------------
(* Every table has the columns of the schema.                              *)
SystemTypeOK == TypeOK /\ DefectTypeOK /\ BatchTypeOK /\ TelemetryTypeOK
=============================================================================
