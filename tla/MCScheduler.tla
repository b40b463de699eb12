---------------------------- MODULE MCScheduler ----------------------------
(***************************************************************************)
(* Symmetry for the model-checking runs of Scheduler without liveness: the *)
(* requests in progress are interchangeable.                               *)
(***************************************************************************)
EXTENDS Scheduler, TLC

ClientSymmetry == Permutations(Clients)
=============================================================================
