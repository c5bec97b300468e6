-------------------------- MODULE MCWorkerThread --------------------------
(***************************************************************************)
(* WorkerThread as the test program uses it (one thread calls start and    *)
(* stop) and as the interface allows it to be used (two threads do).       *)
(***************************************************************************)
EXTENDS WorkerThread
===========================================================================
