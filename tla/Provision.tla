------------------------------ MODULE Provision ------------------------------
(***************************************************************************)
(* The provisioning API: signed clients create temporary sites, idempotent *)
(* by key and limited by a quota.                                          *)
(*                                                                         *)
(* Two stores can disagree: the tables provision_requests (req) and        *)
(* provision_sites (row), and the directories under /srv (dir), which the  *)
(* script new-project.sh fills step by step.  Reservation, creation and    *)
(* bookkeeping are separate transactions; the host-wide project lock is    *)
(* held across them, while status, magic-link and revocation calls do not  *)
(* take it.  An operator creates, stops and destroys sites, the expiry     *)
(* timer destroys them, and the cockpit may restart between any two steps. *)
(***************************************************************************)
EXTENDS Naturals, FiniteSets

CONSTANTS
    Connection,   \* paired provisioning clients
    Key,          \* idempotency keys a client uses
    Body,         \* distinct request bodies, compared by their hash
    NameOf,       \* the project name a body asks for, or Random
    Project,      \* project names
    Random,       \* "choose a name for me"
    Handler,      \* concurrent POST /api/provision requests
    Operator,     \* the cockpit's own site creation
    Nobody,       \* the lock is free; the site has no maker
    NoRow,        \* absent table row
    NoAsk,        \* the actor serves no request
    NoProject,    \* the actor has no project yet
    Quota,        \* SPAWNWP_PROVISION_MAX_SITES_PER_CONNECTION
    MaxRestarts   \* bound: cockpit restarts in a behaviour

Actor == Handler \cup {Operator}
Maker == (Connection \X Key) \cup {Operator}
Ask == [conn : Connection, key : Key, body : Body]
Request == [hash : Body, state : {"in_progress", "complete", "failed"},
            project : Project]
Row == [conn : Connection,
        status : {"provisioning", "active", "cleanup_required"}]

ASSUME ConstantAssumption ==
    /\ NameOf \in [Body -> Project \cup {Random}]
    /\ IsFiniteSet(Project)
    /\ Random \notin Project
    /\ NoProject \notin Project
    /\ Operator \notin Handler
    /\ Nobody \notin Actor \cup Maker
    /\ Operator \notin Connection \X Key
    /\ NoAsk \notin Ask
    /\ NoRow \notin Request \cup Row
    /\ Quota \in Nat \ {0}
    /\ MaxRestarts \in Nat

VARIABLES
    lock,      \* who holds the project lock
    conn,      \* "active" or "revoked"
    req,       \* table provision_requests, by connection and key
    row,       \* table provision_sites, by project
    dir,       \* /srv/<project>: absent, partial, or a project
    up,        \* whether the project's containers run
    maker,     \* history: who made the directory
    pc,        \* where an actor is
    ask,       \* the signed request a handler serves
    proj,      \* the project an actor works on
    cleaned,   \* a handler's compensating clean-up removed everything
    restarts   \* history: cockpit restarts so far

tables == <<req, row>>
disk == <<dir, up, maker>>
work == <<pc, ask, proj, cleaned>>
vars == <<lock, conn, req, row, dir, up, maker, pc, ask, proj, cleaned, restarts>>

HandlerPC == {"idle", "authorized", "reserved", "script", "made", "built",
              "created", "cleanup", "failing"}
OperatorPC == {"idle", "script", "made", "built", "over"}

TypeOK ==
    /\ lock \in Actor \cup {Nobody}
    /\ conn \in [Connection -> {"active", "revoked"}]
    /\ req \in [Connection \X Key -> Request \cup {NoRow}]
    /\ row \in [Project -> Row \cup {NoRow}]
    /\ dir \in [Project -> {"absent", "partial", "project"}]
    /\ up \in [Project -> BOOLEAN]
    /\ maker \in [Project -> Maker \cup {Nobody}]
    /\ pc \in [Actor -> HandlerPC \cup OperatorPC]
    /\ \A h \in Handler : pc[h] \in HandlerPC
    /\ pc[Operator] \in OperatorPC
    /\ ask \in [Handler -> Ask \cup {NoAsk}]
    /\ proj \in [Actor -> Project \cup {NoProject}]
    /\ cleaned \in [Handler -> BOOLEAN]
    /\ restarts \in 0 .. MaxRestarts

Init ==
    /\ lock = Nobody
    /\ conn = [c \in Connection |-> "active"]
    /\ req = [ck \in Connection \X Key |-> NoRow]
    /\ row = [p \in Project |-> NoRow]
    /\ dir = [p \in Project |-> "absent"]
    /\ up = [p \in Project |-> FALSE]
    /\ maker = [p \in Project |-> Nobody]
    /\ pc = [a \in Actor |-> "idle"]
    /\ ask = [h \in Handler |-> NoAsk]
    /\ proj = [a \in Actor |-> NoProject]
    /\ cleaned = [h \in Handler |-> FALSE]
    /\ restarts = 0

\* A directory counts as a site only when compose.yaml and Makefile are there.
IsProject(p) == dir[p] = "project"

\* Every table reader first forgets the rows whose project is not there.
Discarded == [p \in Project |-> IF IsProject(p) THEN row[p] ELSE NoRow]

RowsOf(table, c) == {p \in Project : table[p] # NoRow /\ table[p].conn = c}

\* The primary key of the request a handler serves, and the identity under
\* which an actor makes a site.
Slot(h) == <<ask[h].conn, ask[h].key>>
Tag(a) == IF a = Operator THEN Operator ELSE Slot(a)

\* flock(LOCK_EX | LOCK_NB) succeeds.
LockFree == lock = Nobody

\* The actor is done: it forgets its request and the lock is released.
Release(a) ==
    /\ lock' = Nobody
    /\ pc' = [pc EXCEPT ![a] = "idle"]
    /\ proj' = [proj EXCEPT ![a] = NoProject]
    /\ ask' = [h \in Handler |-> IF h = a THEN NoAsk ELSE ask[h]]
    /\ cleaned' = [h \in Handler |-> IF h = a THEN FALSE ELSE cleaned[h]]

Goto(a, next) ==
    /\ pc' = [pc EXCEPT ![a] = next]
    /\ UNCHANGED <<ask, proj, cleaned>>

------------------------------------------------------------------------------
(* POST /api/provision: authorization and reservation *)

\* The middleware takes the lock and authorize() reads the connection row.
\* It then awaits the body, so other calls run before the reservation.
Accept(h, c, k, b) ==
    /\ pc[h] = "idle"
    /\ LockFree
    /\ conn[c] = "active"
    /\ lock' = h
    /\ pc' = [pc EXCEPT ![h] = "authorized"]
    /\ ask' = [ask EXCEPT ![h] = [conn |-> c, key |-> k, body |-> b]]
    /\ UNCHANGED <<conn, tables, disk, proj, cleaned, restarts>>

\* Mutant of KeyUsable: every decided attempt may be repeated.
KeyDecided(h) ==
    LET old == req[Slot(h)]
    IN  old # NoRow => old.hash = ask[h].body /\ old.state # "in_progress"

\* The key may be used: it is new, or its earlier attempt with this body failed.
KeyUsable(h) ==
    LET old == req[Slot(h)]
    IN  old # NoRow => old.hash = ask[h].body /\ old.state = "failed"

\* Mutant of QuotaLeft: off by one.
QuotaNotExceeded(h) == Cardinality(RowsOf(Discarded, ask[h].conn)) <= Quota

\* The quota counts the rows left after the missing sites were forgotten.
QuotaLeft(h) == Cardinality(RowsOf(Discarded, ask[h].conn)) < Quota

\* Mutant of FreeNames: existing sites are not looked at.
AskedNames(h) == {p \in Project : NameOf[ask[h].body] \in {p, Random}}

\* The names a reservation may use: the requested one, or any, if not taken.
FreeNames(h) ==
    {p \in Project : /\ NameOf[ask[h].body] \in {p, Random}
                     /\ ~IsProject(p)}

\* One immediate transaction reserves the key and a quota row.
Reserve(h) ==
    /\ pc[h] = "authorized"
    /\ KeyUsable(h)
    /\ QuotaLeft(h)
    /\ \E p \in FreeNames(h) :
          /\ req' = [req EXCEPT ![Slot(h)] =
                        [hash |-> ask[h].body, state |-> "in_progress", project |-> p]]
          /\ row' = [Discarded EXCEPT ![p] =
                        [conn |-> ask[h].conn, status |-> "provisioning"]]
          /\ proj' = [proj EXCEPT ![h] = p]
    /\ pc' = [pc EXCEPT ![h] = "reserved"]
    /\ UNCHANGED <<lock, conn, disk, ask, cleaned, restarts>>

\* A stored result is replayed, or the request is refused (another body, still
\* in progress, quota, name taken) and its transaction rolled back.
ReplayOrRefuse(h) ==
    /\ pc[h] = "authorized"
    /\ ~KeyUsable(h) \/ ~QuotaLeft(h) \/ FreeNames(h) = {}
    /\ Release(h)
    /\ UNCHANGED <<conn, tables, disk, restarts>>

------------------------------------------------------------------------------
(* new-project.sh, run by a handler or by the operator *)

\* The create request is refused late: host busy, disk, RAM, blueprint, name.
PrepareRefused(h) ==
    /\ pc[h] = "reserved"
    /\ Goto(h, "cleanup")
    /\ UNCHANGED <<lock, conn, tables, disk, restarts>>

StartScript(h) ==
    /\ pc[h] = "reserved"
    /\ ~IsProject(proj[h])
    /\ Goto(h, "script")
    /\ UNCHANGED <<lock, conn, tables, disk, restarts>>

\* The operator's create request holds the lock from its name check on.
OperatorCreates(p) ==
    /\ pc[Operator] = "idle"
    /\ LockFree
    /\ ~IsProject(p)
    /\ lock' = Operator
    /\ pc' = [pc EXCEPT ![Operator] = "script"]
    /\ proj' = [proj EXCEPT ![Operator] = p]
    /\ UNCHANGED <<conn, tables, disk, ask, cleaned, restarts>>

\* mkdir and the first copied files: not yet what is_project looks for.
MakeDirectory(a) ==
    /\ pc[a] = "script"
    /\ dir[proj[a]] = "absent"
    /\ dir' = [dir EXCEPT ![proj[a]] = "partial"]
    /\ maker' = [maker EXCEPT ![proj[a]] = Tag(a)]
    /\ Goto(a, "made")
    /\ UNCHANGED <<lock, conn, tables, up, restarts>>

\* The stack's files are all there.
CopyStack(a) ==
    /\ pc[a] = "made"
    /\ dir' = [dir EXCEPT ![proj[a]] = "project"]
    /\ Goto(a, "built")
    /\ UNCHANGED <<lock, conn, tables, up, maker, restarts>>

\* The containers are up and WordPress is bootstrapped: the script succeeded.
ScriptSucceeds(a) ==
    /\ pc[a] = "built"
    /\ up' = [up EXCEPT ![proj[a]] = TRUE]
    /\ Goto(a, IF a = Operator THEN "over" ELSE "created")
    /\ UNCHANGED <<lock, conn, tables, dir, maker, restarts>>

\* Mutant of AfterFailure: the browser's creation is compensated too.
AlwaysCleanUp(a) == "cleanup"

\* Only a provisioning request compensates for a failed script.
AfterFailure(a) == IF a = Operator THEN "over" ELSE "cleanup"

\* The directory of a failed creation is gone when this script made it.
Vanish(P) ==
    /\ dir' = [p \in Project |-> IF p \in P THEN "absent" ELSE dir[p]]
    /\ up' = [p \in Project |-> IF p \in P THEN FALSE ELSE up[p]]
    /\ maker' = [p \in Project |-> IF p \in P THEN Nobody ELSE maker[p]]

\* The script fails; its exit trap removes the directory if it made it.
ScriptFails(a) ==
    /\ pc[a] \in {"script", "made", "built"}
    /\ Vanish(IF pc[a] = "script" THEN {} ELSE {proj[a]})
    /\ Goto(a, AfterFailure(a))
    /\ UNCHANGED <<lock, conn, tables, restarts>>

\* The script outlives its timeout and the ten seconds its trap is given, and
\* is killed with whatever it has made.  A browser's creation has no timeout.
ScriptKilled(h) ==
    /\ pc[h] \in {"made", "built"}
    /\ up' \in {up, [up EXCEPT ![proj[h]] = pc[h] = "built"]}
    /\ Goto(h, "cleanup")
    /\ UNCHANGED <<lock, conn, tables, dir, maker, restarts>>

OperatorDone ==
    /\ pc[Operator] = "over"
    /\ Release(Operator)
    /\ UNCHANGED <<conn, tables, disk, restarts>>

------------------------------------------------------------------------------
(* The end of a provisioning request *)

\* Mutant of SetState: a failure is not stored.
StoreSuccessOnly(h, s) ==
    IF s = "failed" \/ req[Slot(h)] = NoRow THEN req
    ELSE [req EXCEPT ![Slot(h)].state = s]

\* UPDATE provision_requests, which changes nothing when the row is gone.
SetState(h, s) ==
    [req EXCEPT ![Slot(h)] = IF @ = NoRow THEN NoRow ELSE [@ EXCEPT !.state = s]]

\* UPDATE provision_sites, likewise.
SetStatus(h, s) ==
    [row EXCEPT ![proj[h]] = IF @ = NoRow THEN NoRow ELSE [@ EXCEPT !.status = s]]

\* User, must-use plugins and lifetime are set, and the response is stored.
\* Both UPDATEs leave a row that has gone in the meantime alone.
FinishProvision(h) ==
    /\ pc[h] = "created"
    /\ req' = SetState(h, "complete")
    /\ row' = SetStatus(h, "active")
    /\ Release(h)
    /\ UNCHANGED <<conn, disk, restarts>>

\* A step after the creation fails.
PostCreateFails(h) ==
    /\ pc[h] = "created"
    /\ Goto(h, "cleanup")
    /\ UNCHANGED <<lock, conn, tables, disk, restarts>>

\* destroy-project.sh is started without the handler's lock descriptor and
\* without the mark that the lock is held: it tries to take the lock itself.
DestroyMayRun(h) == LockFree

\* cleanup_created_project(): stop the containers, then destroy the site.
CleanUp(h) ==
    LET p == proj[h]
        removed == IsProject(p) /\ DestroyMayRun(h)
    IN  /\ pc[h] = "cleanup"
        /\ IF removed
             THEN Vanish({p})
             ELSE /\ up' = [up EXCEPT ![p] = @ /\ ~IsProject(p)]
                  /\ UNCHANGED <<dir, maker>>
        /\ cleaned' = [cleaned EXCEPT ![h] = removed \/ ~IsProject(p)]
        /\ pc' = [pc EXCEPT ![h] = "failing"]
        /\ UNCHANGED <<lock, conn, tables, ask, proj, restarts>>

\* The failure is recorded, and the error answered.
RecordFailure(h) ==
    /\ pc[h] = "failing"
    /\ req' = SetState(h, "failed")
    /\ row' = IF cleaned[h] THEN [row EXCEPT ![proj[h]] = NoRow]
                            ELSE SetStatus(h, "cleanup_required")
    /\ Release(h)
    /\ UNCHANGED <<conn, disk, restarts>>

------------------------------------------------------------------------------
(* Calls that do not take the project lock *)

\* GET status and POST magic-link: both forget missing sites on their way.
ReadSites(c) ==
    /\ conn[c] = "active"
    /\ row' = Discarded
    /\ UNCHANGED <<lock, conn, req, disk, work, restarts>>

Forget(c) == [ck \in Connection \X Key |-> IF ck[1] = c THEN NoRow ELSE req[ck]]

\* DELETE /api/provision/connection.
RevokeOwn(c) ==
    /\ conn[c] = "active"
    /\ conn' = [conn EXCEPT ![c] = "revoked"]
    /\ row' = Discarded
    /\ req' = Forget(c)
    /\ UNCHANGED <<lock, disk, work, restarts>>

\* The administrator revokes the connection.
RevokeByAdmin(c) ==
    /\ conn' = [conn EXCEPT ![c] = "revoked"]
    /\ req' = Forget(c)
    /\ UNCHANGED <<lock, row, disk, work, restarts>>

------------------------------------------------------------------------------
(* Other changes of the sites, each a locked operation of its own *)

\* /api/run: up or down.
OperatorSwitches(p) ==
    /\ LockFree
    /\ IsProject(p)
    /\ up' = [up EXCEPT ![p] = ~@]
    /\ UNCHANGED <<lock, conn, tables, dir, maker, work, restarts>>

\* /api/destroy refuses a site whose containers run.
OperatorDestroys(p) ==
    /\ LockFree
    /\ IsProject(p)
    /\ ~up[p]
    /\ Vanish({p})
    /\ UNCHANGED <<lock, conn, tables, work, restarts>>

\* site-expiry.sh: the deadline has passed; the timer stops and destroys.
Expire(p) ==
    /\ LockFree
    /\ IsProject(p)
    /\ Vanish({p})
    /\ UNCHANGED <<lock, conn, tables, work, restarts>>

\* systemd restarts the cockpit.  The running script is terminated with it:
\* its trap may still remove the directory, or the directory stays.
Restart ==
    LET making == {a \in Actor : pc[a] \in {"made", "built"}}
    IN  /\ restarts < MaxRestarts
        /\ restarts' = restarts + 1
        /\ \E gone \in SUBSET {proj[a] : a \in making} : Vanish(gone)
        /\ lock' = Nobody
        /\ pc' = [a \in Actor |-> "idle"]
        /\ ask' = [h \in Handler |-> NoAsk]
        /\ proj' = [a \in Actor |-> NoProject]
        /\ cleaned' = [h \in Handler |-> FALSE]
        /\ UNCHANGED <<conn, tables>>

------------------------------------------------------------------------------
HandlerStep(h) ==
    \/ \E c \in Connection, k \in Key, b \in Body : Accept(h, c, k, b)
    \/ Reserve(h) \/ ReplayOrRefuse(h)
    \/ PrepareRefused(h) \/ StartScript(h) \/ ScriptKilled(h)
    \/ FinishProvision(h) \/ PostCreateFails(h)
    \/ CleanUp(h) \/ RecordFailure(h)

ScriptStep(a) ==
    MakeDirectory(a) \/ CopyStack(a) \/ ScriptSucceeds(a) \/ ScriptFails(a)

SiteStep(p) ==
    OperatorCreates(p) \/ OperatorSwitches(p) \/ OperatorDestroys(p) \/ Expire(p)

ClientStep(c) == ReadSites(c) \/ RevokeOwn(c) \/ RevokeByAdmin(c)

Next ==
    \/ \E h \in Handler : HandlerStep(h)
    \/ \E a \in Actor : ScriptStep(a)
    \/ \E p \in Project : SiteStep(p)
    \/ \E c \in Connection : ClientStep(c)
    \/ OperatorDone
    \/ Restart

\* The server's own steps are taken; nobody is obliged to call it.
Fairness ==
    /\ \A h \in Handler :
          /\ WF_vars(Reserve(h) \/ ReplayOrRefuse(h))
          /\ WF_vars(PrepareRefused(h) \/ StartScript(h))
          /\ WF_vars(FinishProvision(h) \/ PostCreateFails(h))
          /\ WF_vars(CleanUp(h))
          /\ WF_vars(RecordFailure(h))
    /\ \A a \in Actor : WF_vars(ScriptStep(a))
    /\ WF_vars(OperatorDone)

Spec == Init /\ [][Next]_vars

FairSpec == Spec /\ Fairness

------------------------------------------------------------------------------
(* Properties *)

\* A clean-up that finds a site was caused by the request that made that
\* site: compensation never stops or destroys a site of somebody else, although
\* it goes by name only and also runs when the name turned out to be taken
\* (cleanup_created_project, called for every failure of _execute_reserved).
CleanUpOwnSite ==
    \A h \in Handler :
        pc[h] = "cleanup" /\ IsProject(proj[h]) => maker[proj[h]] = Slot(h)

\* No connection has more rows than its quota, whatever was deleted,
\* forgotten or re-reserved in between (the count in _reserve).
RowsWithinQuota ==
    \A c \in Connection : Cardinality(RowsOf(row, c)) <= Quota

\* A stored result is final: until its connection is revoked, the key stays
\* bound to its response and project, so no retry makes a second site.
CompleteIsFinal ==
    [][\A ck \in Connection \X Key :
          (req[ck] # NoRow /\ req[ck].state = "complete" /\ conn'[ck[1]] = "active")
              => req'[ck] = req[ck]]_vars

\* A request that was reserved is eventually decided, unless the cockpit
\* restarts: a handler always reaches _finish or _fail.
RequestSettles ==
    \A ck \in Connection \X Key :
        (req[ck] # NoRow /\ req[ck].state = "in_progress")
            ~> (restarts > 0 \/ req[ck] = NoRow \/ req[ck].state # "in_progress")

\* Provisioning, too, changes sites one operation at a time.
Working == {a \in Actor : pc[a] # "idle"}
Mutex == INSTANCE SiteMutex WITH Operation <- Actor, working <- Working
MutexSpec == Mutex!Spec

------------------------------------------------------------------------------
(* What the documentation says and the code does not do *)

\* "If a post-create step fails, SpawnWP removes the partial site."
FailureRemovesSite ==
    \A h \in Handler : pc[h] = "failing" => ~IsProject(proj[h])
==============================================================================
