--------------------------- MODULE MCWorkerStore ---------------------------
(* WorkerStore on a small instance: two CPs racing for two workers. *)
EXTENDS WorkerStore, TLC

Symm == Permutations(CP) \cup Permutations(Worker) \cup Permutations(Org)
=============================================================================
