----------------------------- MODULE MCPathLock -----------------------------
(* A small instance of PathLock for TLC: two threads of the API process and
   one of the worker. *)
EXTENDS PathLock, TLC

CONSTANTS t1, t2, t3, api, worker

Home == [t \in Threads |-> IF t = t3 THEN worker ELSE api]

=============================================================================
