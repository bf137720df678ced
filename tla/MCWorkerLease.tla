---------------------------- MODULE MCWorkerLease ----------------------------
(* WorkerLease for two processes of one role.                              *)
EXTENDS WorkerLease

CONSTANTS w1, w2

Processes == {w1, w2}
=============================================================================
