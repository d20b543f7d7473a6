---------------------------- MODULE MCModuleManager ----------------------------
(* Two operations are interchangeable.  Once something nothing excludes has     *)
(* happened only CurrentWasComplete speaks.  It has nothing to do with licences *)
(* (those states are followed with a certificate and no transfer), nor with a   *)
(* package that can only be refused (it is not followed); neither the           *)
(* credential nor the integration steers a command, and a process without a     *)
(* record, found first, hinders no other: these are not told apart any more.    *)
EXTENDS ModuleManager, TLC

Symmetry == Permutations(Op)

Followed ==
    disturbed => /\ certificate /\ ~transfer
                 /\ \A o \in Op : op[o].version \in Compatible \cup {None}

Unrecorded(o) ==
    [op[o] EXCEPT !.recorded = FALSE,
        !.action = IF Alive(o) /\ @ \in Installs /\ ~At(o, "fetch") THEN "install" ELSE @]

Seen == IF disturbed THEN <<release, current, file, [o \in Op |-> Unrecorded(o)]>>
        ELSE <<release, current, file, op, granted, running, certificate, transfer>>
================================================================================
