---------------------------- MODULE MCClassReview ----------------------------
(* A small instance of ClassReview: ids of one kind are interchangeable.   *)
EXTENDS ClassReview, TLC

CONSTANTS v1, v2, r1, r2, c1, c2, s1, s2, k1, k2

MCSymmetry ==
    Permutations({v1, v2}) \cup Permutations({r1, r2}) \cup
    Permutations({c1, c2}) \cup Permutations({s1, s2}) \cup
    Permutations({k1, k2})
=============================================================================
