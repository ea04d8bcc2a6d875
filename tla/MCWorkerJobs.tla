---------------------------- MODULE MCWorkerJobs ----------------------------
(* Small instances of WorkerJobs.                                          *)
EXTENDS WorkerJobs, TLC

CONSTANTS w1, w2

MCSymmetry == Permutations({w1, w2})
=============================================================================
