----------------------------- MODULE MCProvision -----------------------------
(* Two request bodies: one names its project, the other leaves the choice    *)
(* to the server, so that a requested name can meet a name the operator uses. *)
EXTENDS Provision

CONSTANTS named, unnamed, p1

MCNameOf == [b \in Body |-> IF b = named THEN p1 ELSE Random]
==============================================================================
