--------------------------- MODULE DeliveryPromise ---------------------------
(***************************************************************************)
(* What the shipyard may rely on when a batch is delivered, without rows,  *)
(* versions, actors or transactions.  Delivery implements this.            *)
(***************************************************************************)
EXTENDS Tables

CONSTANTS Vessels, Defects, Batches

VARIABLES
    sailed,  \* vessels that have completed a trial
    open,    \* << defect, vessel >> for each defect not yet closed
    closed,  \* the closed defects
    batches  \* batch -> its vessel and its stage

promiseVars == << sailed, open, closed, batches >>

PromiseInit ==
    /\ sailed = {}
    /\ open = {}
    /\ closed = {}
    /\ batches = EmptyTable

Sail(v) ==
    /\ sailed' = sailed \cup {v}
    /\ UNCHANGED << open, closed, batches >>

Report(d, v) ==
    /\ d \notin closed /\ \A x \in open : x[1] # d
    /\ open' = open \cup {<< d, v >>}
    /\ UNCHANGED << sailed, closed, batches >>

Close(d, v) ==
    /\ << d, v >> \in open
    /\ open' = open \ {<< d, v >>}
    /\ closed' = closed \cup {d}
    /\ UNCHANGED << sailed, batches >>

Prepare(b, v) ==
    /\ b \notin DOMAIN batches
    /\ batches' = Insert(batches, b, [vessel |-> v, stage |-> "preparing"])
    /\ UNCHANGED << sailed, open, closed >>

Pass(b, stage) ==
    /\ b \in DOMAIN batches
    /\ batches[b].stage # "released"
    /\ batches[b].vessel \in sailed
    /\ \A x \in open : x[2] # batches[b].vessel
    /\ batches' = [batches EXCEPT ![b].stage = stage]
    /\ UNCHANGED << sailed, open, closed >>

PromiseNext ==
    \/ \E v \in Vessels : Sail(v)
    \/ \E d \in Defects, v \in Vessels : Report(d, v) \/ Close(d, v)
    \/ \E b \in Batches, v \in Vessels : Prepare(b, v)
    \/ \E b \in Batches, stage \in {"quality_gate", "released"} : Pass(b, stage)

PromiseSpec == PromiseInit /\ [][PromiseNext]_promiseVars
=============================================================================
