---------------------------- MODULE Disposition ----------------------------
(***************************************************************************)
(* Defects: reported by coordinators and shore operators, taken from       *)
(* containment over verification to closure by quality managers (the       *)
(* defect service and internal/storage/sqlite/defect.go).                  *)
(***************************************************************************)
EXTENDS Operations

CONSTANTS
    Defects,  \* row ids of defects
    Codes     \* defect codes

VARIABLES
    defects,         \* defect id -> row
    defect_actions,  \* defect id -> its rows of defect_actions, in order
    defect_audit     \* defect id -> actions of its audit events

defectVars == << defects, defect_actions, defect_audit >>

Dispositions == << "open", "contained", "verified", "closed" >>
DefectStatus == {"open", "contained", "verified", "closed"}
Reporters == Coordinators \cup ShoreOperators
DefectRow == [vessel : Vessels, leg : LegRefs, code : Codes,
              status : DefectStatus, created_by : Reporters, version : Nat]
DefectAction == [actor : Staff, action : DefectStatus]

-----------------------------------------------------------------------------
DefectInit ==
    /\ defects = EmptyTable
    /\ defect_actions = [d \in Defects |-> << >>]
    /\ defect_audit = [d \in Defects |-> << >>]

(* INSERT INTO defect_actions and the audit event.                         *)
RecordAction(actor, d, action) ==
    /\ defect_actions' = [defect_actions EXCEPT ![d] =
           Append(@, [actor |-> actor, action |-> action])]
    /\ defect_audit' = [defect_audit EXCEPT ![d] = Append(@, action)]

CreateDefectCheck(actor, d, v, leg) ==
    /\ actor \in Reporters
    /\ d \notin DOMAIN defects
    /\ v \in vessels
    /\ LegFits(leg, v)

(* UNIQUE(vessel_id, code).                                                *)
CodeFree(v, code) ==
    \A d \in DOMAIN defects : ~ (defects[d].vessel = v /\ defects[d].code = code)

CreateDefectWrite(actor, d, v, leg, code) ==
    /\ CodeFree(v, code)
    /\ defects' = Insert(defects, d,
           [vessel |-> v, leg |-> leg, code |-> code, status |-> "open",
            created_by |-> actor, version |-> 1])
    /\ RecordAction(actor, d, "open")

CreateDefect(actor, d, v, leg, code) ==
    /\ CreateDefectCheck(actor, d, v, leg)
    /\ CreateDefectWrite(actor, d, v, leg, code)

(* The map of the allowed targets.  It has no entry for a closed defect,   *)
(* so the lookup yields the empty string.                                  *)
allowed == [open |-> "contained", contained |-> "verified",
            verified |-> "closed", closed |-> ""]
Targets == DefectStatus \cup {""}

(* Faulty: any target but the present status.                              *)
TransitionAnyWay(actor, d, target) ==
    /\ actor \in QualityManagers
    /\ d \in DOMAIN defects
    /\ target \in DefectStatus \ {defects[d].status}

TransitionCheck(actor, d, target) ==
    /\ actor \in QualityManagers
    /\ d \in DOMAIN defects
    /\ allowed[defects[d].status] = target

(* A closed defect passes the check with an empty target; only the         *)
(* schema's CHECK on the status column then refuses it.                    *)
TransitionWrite(actor, d, target, version) ==
    /\ defects[d].version = version
    /\ target \in DefectStatus
    /\ defects' = [defects EXCEPT ![d] = Advance(@, target)]
    /\ RecordAction(actor, d, target)

TransitionDefect(actor, d, target, version) ==
    /\ TransitionCheck(actor, d, target)
    /\ TransitionWrite(actor, d, target, version)

DefectNext ==
    \E actor \in Staff, d \in Defects :
        \/ \E v \in Vessels, leg \in LegRefs, code \in Codes :
              CreateDefect(actor, d, v, leg, code)
        \/ \E target \in Targets, n \in Versions :
              TransitionDefect(actor, d, target, n)

-----------------------------------------------------------------------------
(* Rows have the columns of the schema, and a row of defect_actions or an  *)
(* audit event names a defect.                                             *)
DefectTypeOK ==
    /\ DOMAIN defects \subseteq Defects
    /\ defects \in [DOMAIN defects -> DefectRow]
    /\ defect_actions \in [Defects -> Seq(DefectAction)]
    /\ defect_audit \in [Defects -> Seq(DefectStatus)]

(* The evidence for a disposition is complete.  A defect in its n-th       *)
(* disposition has version n and exactly the n first dispositions as its   *)
(* actions and audit events, in order, whatever races decided them; the    *)
(* first is its author's, every later one a quality manager's, so nobody   *)
(* closes a defect of their own (CreateDefect, TransitionDefect).          *)
DefectEvidence ==
    \A d \in Defects :
        IF d \notin DOMAIN defects
        THEN defect_actions[d] = << >> /\ defect_audit[d] = << >>
        ELSE LET n == defects[d].version
             IN  /\ n \in 1..4
                 /\ defects[d].status = Dispositions[n]
                 /\ Len(defect_actions[d]) = n
                 /\ Len(defect_audit[d]) = n
                 /\ \A i \in 1..n :
                       /\ defect_actions[d][i].action = Dispositions[i]
                       /\ defect_audit[d][i] = Dispositions[i]
                       /\ IF i = 1
                          THEN defect_actions[d][i].actor = defects[d].created_by
                          ELSE defect_actions[d][i].actor \in QualityManagers
=============================================================================
