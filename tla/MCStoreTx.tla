------------------------------ MODULE MCStoreTx ------------------------------
(* A few requests in flight over a small database, from an empty one on.   *)
EXTENDS StoreTx, TLC

CONSTANTS v1, r1, r2, c1, s1, p1, p2, l1, l2, n1, n2, k1, t1, t2, t3

MCSymmetry ==
    Permutations({p1, p2}) \cup Permutations({l1, l2}) \cup
    Permutations({n1, n2}) \cup Permutations({t1, t2, t3}) \cup
    Permutations({r1, r2})

At(s, f) == [sec |-> s, frac |-> f]
From(s, t) == [from |-> s, to |-> t]
Now == {At(1, 0)}
OneWindow == {From(At(1, 0), At(2, 0))}
=============================================================================
