---------------------------- MODULE MCWorkerPool ----------------------------
(***************************************************************************)
(* TLC's instances of WorkerPool.                                          *)
(***************************************************************************)
EXTENDS WorkerPool
=============================================================================
