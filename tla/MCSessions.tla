----------------------------- MODULE MCSessions -----------------------------
(* Two processes on one database, two sessions and two requests in flight. *)
EXTENDS Sessions

CONSTANTS m1, m2, a1, k1, k2, h1, h2
=============================================================================
