------------------------------ MODULE SiteMutex ------------------------------
(***************************************************************************)
(* What the host-wide project lock promises, stated without flock, file    *)
(* descriptors or processes: site operations happen one at a time.  The    *)
(* modules OperationLock and Provision implement it.                       *)
(***************************************************************************)
CONSTANT Operation      \* whatever can change sites on this host

VARIABLE working        \* the operations that are changing sites now

Init == working = {}

\* An operation starts only while no other is at work.
Begin(o) == working = {} /\ working' = {o}

\* An operation stops working: it finished, failed or was killed.
End(o) == working = {o} /\ working' = {}

Next == \E o \in Operation : Begin(o) \/ End(o)

Spec == Init /\ [][Next]_working
==============================================================================
