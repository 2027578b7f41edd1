------------------------------ MODULE MCWorker ------------------------------
(* TLC instance of Worker: the processes against an arbitrary queue. *)
EXTENDS Worker, TLC

Symmetry == Permutations(Keys)
=============================================================================
