----------------------------- MODULE MCTrialPlan -----------------------------
(* Small instances of TrialPlan.  Ids and names of one kind are            *)
(* interchangeable; instants are not.                                      *)
EXTENDS TrialPlan, TLC

CONSTANTS v1, v2, r1, r2, c1, s1, p1, p2, l1, l2, l3, n1, n2, n3

MCSymmetry ==
    Permutations({v1, v2}) \cup Permutations({r1, r2}) \cup
    Permutations({p1, p2}) \cup Permutations({l1, l2, l3}) \cup
    Permutations({n1, n2, n3})

At(s, f) == [sec |-> s, frac |-> f]
From(s, t) == [from |-> s, to |-> t]

(* One window before, one after and two across both, and one inside the    *)
(* second of the boundary; fractions of no, one and two digits.            *)
MixedWindows ==
    {From(At(1, 0), At(2, 0)), From(At(2, 0), At(3, 0)), From(At(1, 0), At(3, 0)),
     From(At(1, 50), At(2, 5)), From(At(2, 50), At(2, 55))}

OneWindow == {From(At(1, 0), At(2, 0))}
=============================================================================
