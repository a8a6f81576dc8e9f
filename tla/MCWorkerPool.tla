----------------------------- MODULE MCWorkerPool -----------------------------
(***************************************************************************)
(* Small instances of WorkerPool for TLC.                                  *)
(***************************************************************************)
EXTENDS WorkerPool

CONSTANTS w1, w2, r1, r2

MCSlots == {w1, w2}
MCRequests == {r1, r2}
=============================================================================
