---------------------------- MODULE VoyagePromise ----------------------------
(***************************************************************************)
(* What the harbour may rely on when a vessel sails on trial, without      *)
(* reviews, versions, actors or time text.  TrialPlan implements this.     *)
(***************************************************************************)
EXTENDS Tables

CONSTANTS Vessels, Plans, Legs, Windows

VARIABLES
    cleared,  \* vessels whose class allows a trial
    plans,    \* plan -> its vessel and its stage
    voyages   \* leg -> its plan, its window and its stage

voyageVars == << cleared, plans, voyages >>

VoyageInit ==
    /\ cleared = {}
    /\ plans = EmptyTable
    /\ voyages = EmptyTable

Of(p) == {l \in DOMAIN voyages : voyages[l].plan = p}
VesselOf(l) == plans[voyages[l].plan].vessel
AtSea(v) ==
    {l \in DOMAIN voyages : VesselOf(l) = v /\ voyages[l].stage = "at sea"}

(* To the second.                                                          *)
Meet(w, x) == w.from.sec < x.to.sec /\ x.from.sec < w.to.sec

Clear(v) ==
    /\ cleared' = cleared \cup {v}
    /\ UNCHANGED << plans, voyages >>

Draft(p, v) ==
    /\ p \notin DOMAIN plans
    /\ v \in cleared
    /\ plans' = Insert(plans, p, [vessel |-> v, stage |-> "open"])
    /\ UNCHANGED << cleared, voyages >>

Book(l, p, window) ==
    /\ l \notin DOMAIN voyages
    /\ p \in DOMAIN plans /\ plans[p].stage = "open"
    /\ \A m \in Of(p) : ~ Meet(voyages[m].window, window)
    /\ voyages' = Insert(voyages, l,
           [plan |-> p, window |-> window, stage |-> "ashore"])
    /\ UNCHANGED << cleared, plans >>

Freeze(p) ==
    /\ p \in DOMAIN plans /\ plans[p].stage = "open"
    /\ Of(p) # {}
    /\ plans' = [plans EXCEPT ![p].stage = "frozen"]
    /\ UNCHANGED << cleared, voyages >>

Depart(l) ==
    /\ l \in DOMAIN voyages /\ voyages[l].stage = "ashore"
    /\ plans[voyages[l].plan].stage = "frozen"
    /\ \A m \in AtSea(VesselOf(l)) : ~ Meet(voyages[m].window, voyages[l].window)
    /\ voyages' = [voyages EXCEPT ![l].stage = "at sea"]
    /\ UNCHANGED << cleared, plans >>

(* The plan is done when its last voyage is home.                          *)
Arrive(l) ==
    /\ l \in DOMAIN voyages /\ voyages[l].stage = "at sea"
    /\ voyages' = [voyages EXCEPT ![l].stage = "home"]
    /\ plans' = IF \A m \in Of(voyages[l].plan) \ {l} : voyages[m].stage = "home"
                THEN [plans EXCEPT ![voyages[l].plan].stage = "done"]
                ELSE plans
    /\ UNCHANGED cleared

VoyageNext ==
    \/ \E v \in Vessels : Clear(v)
    \/ \E p \in Plans : (\E v \in Vessels : Draft(p, v)) \/ Freeze(p)
    \/ \E l \in Legs :
          (\E p \in Plans, w \in Windows : Book(l, p, w)) \/ Depart(l) \/ Arrive(l)

VoyageSpec == VoyageInit /\ [][VoyageNext]_voyageVars
=============================================================================
