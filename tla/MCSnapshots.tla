------------------------------ MODULE MCSnapshots ------------------------------
(* Handlers are interchangeable.  What two of them make of the one draft is not *)
(* followed further: neither property speaks of it.                             *)
EXTENDS Snapshots, TLC

Symmetry == Permutations(Handler)
OneWriter == ~overlapped
================================================================================
