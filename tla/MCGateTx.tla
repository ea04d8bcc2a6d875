------------------------------ MODULE MCGateTx ------------------------------
(* Requests on legs, defects, batches and samples in flight at once, from  *)
(* the state in which one plan with one leg has just been scheduled.       *)
EXTENDS StoreTx, MCTrialService, TLC

CONSTANTS n2, d2, t1, t2

MCSymmetry == Permutations({t1, t2}) \cup Permutations({d1, d2})

Now == {At(1, 0)}

ScheduledTx ==
    /\ Scheduled
    /\ stage = [c \in Clients |-> "idle"]
    /\ request = [c \in Clients |-> NoRequest]
    /\ stale = [c \in Clients |-> FALSE]
    /\ outcome = [c \in Clients |-> "none"]

ScheduledTxSpec == ScheduledTx /\ [][TxNext]_allVars
=============================================================================
