-------------------------- MODULE MCDurableWorkers --------------------------
(* A small instance of the worker pool: the workers w1 and w2 have a       *)
(* handler for every job, w3 claims without a filter and has none.         *)
EXTENDS DurableWorkers, TLC

CONSTANTS w1, w2, w3

MCHandles == [w \in Workers |-> IF w = w3 THEN {} ELSE JobIds]
WorkerSymmetry == Permutations({w1, w2})
=============================================================================
