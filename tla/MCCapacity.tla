------------------------------ MODULE MCCapacity ------------------------------
(* Sites and operations are interchangeable. *)
EXTENDS Capacity, TLC

Symmetry == Permutations(Op) \cup Permutations(Site)
================================================================================
