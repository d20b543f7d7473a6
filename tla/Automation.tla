------------------------------ MODULE Automation ------------------------------
(***************************************************************************)
(* Durable automation: a signed local module asks for a grant, submits     *)
(* operations under it, and one worker thread executes them in order.      *)
(*                                                                         *)
(* An operation that stops a site or brings its deadline forward needs an  *)
(* administrator's approval, which is good for a while and for the         *)
(* deadline it was given on.  Grants, the module's connection (kept in     *)
(* another database), sites and deadlines may all change between the       *)
(* submission, the approval and the execution, so the worker looks again.  *)
(* It may also be cut off between execution and bookkeeping.               *)
(*                                                                         *)
(* Time is counted in coarse ticks.  Every change of a site but the        *)
(* worker's own is one step taken under the project lock.                  *)
(***************************************************************************)
EXTENDS Naturals, FiniteSets

CONSTANTS
    Grant,          \* grants the module may ask for
    Project,        \* names of sites other than the primary environment
    Inode,          \* directory identities
    NoInode,        \* there is no such directory
    NoOwner,        \* absent row of owned_projects
    NoOp,           \* absent row of operations
    NoConsent,      \* nobody approved this operation
    Actions,        \* sets of actions an administrator may choose to allow
    Quota,          \* sites a grant may own
    QueueLimit,     \* unfinished operations the core accepts
    PendingLimit,   \* unanswered grant requests the core accepts
    ApprovalWindow, \* ticks an approval is good for
    MinLead,        \* ticks a new deadline must be away
    Lifetimes,      \* lifetimes a request may name, in ticks
    ReuseInodes,    \* whether the file system may give an identity out again
    MaxOps,         \* bound: operations submitted in a behaviour
    MaxTime,        \* bound: ticks in a behaviour
    MaxRestarts     \* bound: cockpit restarts in a behaviour

Op == 1 .. MaxOps
Time == 1 .. MaxTime
Action == {"create", "start", "stop", "expiry", "snapshot"}

MaxLife == CHOOSE l \in Lifetimes \cup {0} : \A k \in Lifetimes : k <= l

\* A site without a deadline expires later than any date.
Never == MaxTime + MaxLife + 1

ASSUME ConstantAssumption ==
    /\ IsFiniteSet(Project) /\ IsFiniteSet(Lifetimes)
    /\ Lifetimes \subseteq Nat \ {0}
    /\ Actions \subseteq SUBSET Action
    /\ NoInode \notin Inode
    /\ {Quota, QueueLimit, PendingLimit, MinLead, MaxTime} \subseteq Nat \ {0}
    /\ {ApprovalWindow, MaxOps, MaxRestarts} \subseteq Nat
    /\ ReuseInodes \in BOOLEAN

VARIABLES
    module,    \* the module's connection: "active" or "revoked"
    grants,    \* table grants: status, allowed actions, approved directories
    op,        \* table operations, in order of submission
    owned,     \* table owned_projects
    inode,     \* the directory /srv/<project>
    deadline,  \* SPAWNWP_EXPIRES of the site
    up,        \* whether its containers run
    wpc,       \* the worker: down, idle, running an operation, or done with it
    cur,       \* the operation it works on
    outcome,   \* how that ended
    now,       \* the clock
    used,      \* history: identities given out so far, if that matters
    rights,    \* history: whom the present site was given to, and how
    consent,   \* history: when an operation was approved, on which deadline
    runs,      \* history: how often an operation was started
    restarts   \* history: restarts so far

tables == <<module, grants, op, owned>>
sites == <<inode, deadline, up, used, rights>>
worker == <<wpc, cur, outcome>>
vars == <<module, grants, op, owned, inode, deadline, up, wpc, cur, outcome, now,
          used, rights, consent, runs, restarts>>

Status == {"queued", "awaiting_approval", "running", "succeeded", "failed",
           "cancelled", "interrupted"}

GrantRow == [status : {"absent", "pending", "active", "revoked"},
             actions : SUBSET Action, projects : SUBSET (Project \X Inode)]
OpRow == [grant : Grant, action : Action, project : Project,
          life : Lifetimes \cup {Never}, want : 0 .. Never, status : Status,
          at : Time, until : 0 .. MaxTime + ApprovalWindow, baseline : 0 .. Never]

OwnerRow == [grant : Grant, inode : Inode]
Consent == [at : Time, saw : 0 .. Never]

\* What stands for an absent row is not a row, nor an operation.
ASSUME AbsentAssumption ==
    /\ NoOp \notin OpRow /\ NoOp \notin Op
    /\ NoOwner \notin OwnerRow /\ NoConsent \notin Consent

TypeOK ==
    /\ module \in {"active", "revoked"}
    /\ grants \in [Grant -> GrantRow]
    /\ op \in [Op -> OpRow \cup {NoOp}]
    /\ owned \in [Project -> OwnerRow \cup {NoOwner}]
    /\ inode \in [Project -> Inode \cup {NoInode}]
    /\ deadline \in [Project -> 0 .. Never]
    /\ up \in [Project -> BOOLEAN]
    /\ wpc \in {"down", "idle", "running", "done"}
    /\ cur \in Op \cup {NoOp}
    /\ outcome \in {"succeeded", "failed"}
    /\ now \in Time
    /\ used \subseteq Inode
    /\ rights \in [Project -> SUBSET (Grant \X {"made", "approved"})]
    /\ consent \in [Op -> Consent \cup {NoConsent}]
    /\ runs \in [Op -> Nat]
    /\ restarts \in 0 .. MaxRestarts

Init ==
    /\ module = "active"
    /\ grants = [g \in Grant |-> [status |-> "absent", actions |-> {}, projects |-> {}]]
    /\ op = [o \in Op |-> NoOp]
    /\ owned = [p \in Project |-> NoOwner]
    /\ inode = [p \in Project |-> NoInode]
    /\ deadline = [p \in Project |-> Never]
    /\ up = [p \in Project |-> FALSE]
    /\ wpc = "down" /\ cur = NoOp /\ outcome = "failed"
    /\ now = 1
    /\ used = {}
    /\ rights = [p \in Project |-> {}]
    /\ consent = [o \in Op |-> NoConsent]
    /\ runs = [o \in Op |-> 0]
    /\ restarts = 0

------------------------------------------------------------------------------
(* What the handlers and the worker look up *)

Present(p) == inode[p] # NoInode

LockFree == wpc \in {"down", "idle"}

Ops(P(_)) == {o \in Op : op[o] # NoOp /\ P(op[o])}

Unfinished == Ops(LAMBDA r : r.status \in {"queued", "running", "awaiting_approval"})

ActiveCreates(g) ==
    Ops(LAMBDA r : /\ r.grant = g
                   /\ r.action = "create"
                   /\ r.status \in {"queued", "running"})

\* Rows of owned_projects of a grant whose name is a site at present.
OwnedNow(g) == {p \in Project : owned[p] # NoOwner /\ owned[p].grant = g /\ Present(p)}

\* grant(): the grant and the module's connection are both active.
GrantActive(g) == grants[g].status = "active" /\ module = "active"

\* Mutant of Permitted: a site is recognised by its name alone.
PermittedByName(g, p) ==
    /\ Present(p)
    /\ \/ \E i \in Inode : <<p, i>> \in grants[g].projects
       \/ owned[p] # NoOwner /\ owned[p].grant = g

\* permitted_projects(): the directory is the one approved, or the one made.  A
\* row of owned_projects takes the place of the approval.
Permitted(g, p) ==
    /\ Present(p)
    /\ IF owned[p] # NoOwner /\ owned[p].grant = g
         THEN owned[p].inode = inode[p]
         ELSE <<p, inode[p]>> \in grants[g].projects

\* A deadline that comes before the present one; any comes before none.
Shortens(want, p) == want # Never /\ want < deadline[p]

NeedsApproval(action, want, p) ==
    action = "stop" \/ (action = "expiry" /\ Shortens(want, p))

\* Mutant of After: a lifetime is added even when none was asked for.
AlwaysAfter(life) == now + life

\* The moment a lifetime that begins now ends.
After(life) == IF life = Never THEN Never ELSE now + life

\* Mutant of WithinQuota: only what was finished counts.
OwnedWithinQuota(g) == Cardinality(OwnedNow(g)) < Quota

WithinQuota(g) ==
    Cardinality(OwnedNow(g)) + Cardinality(ActiveCreates(g)) < Quota

\* A fresh directory gets an identity nobody has, or nobody ever had.
FreshInodes ==
    Inode \ (IF ReuseInodes THEN {inode[p] : p \in Project} ELSE used)

------------------------------------------------------------------------------
(* Grants *)

SetGrant(g, status) == grants' = [grants EXCEPT ![g].status = status]

RequestGrant(g) ==
    /\ module = "active"
    /\ grants[g].status = "absent"
    /\ Cardinality({h \in Grant : grants[h].status = "pending"}) < PendingLimit
    /\ SetGrant(g, "pending")
    /\ UNCHANGED <<module, op, owned, sites, worker, now, consent, runs, restarts>>

\* The administrator allows some actions on the sites that exist now.
ApproveGrant(g, allowed, P) ==
    /\ grants[g].status = "pending"
    /\ module = "active"
    /\ \A p \in P : Present(p)
    /\ grants' = [grants EXCEPT ![g] =
                    [status |-> "active", actions |-> allowed,
                     projects |-> {<<p, inode[p]>> : p \in P}]]
    /\ rights' = [p \in Project |->
                    IF p \in P THEN rights[p] \cup {<<g, "approved">>} ELSE rights[p]]
    /\ UNCHANGED <<module, op, owned, inode, deadline, up, used, worker, now,
                   consent, runs, restarts>>

\* Mutant of Cancelled: what waits for an approval is left alone.
CancelledIfQueued(S) ==
    [o \in Op |-> IF o \in S /\ op[o] # NoOp /\ op[o].status = "queued"
                    THEN [op[o] EXCEPT !.status = "cancelled"]
                    ELSE op[o]]

\* The operations of a set that have not started, cancelled.
Cancelled(S) ==
    [o \in Op |-> IF /\ o \in S /\ op[o] # NoOp
                     /\ op[o].status \in {"queued", "awaiting_approval"}
                    THEN [op[o] EXCEPT !.status = "cancelled"]
                    ELSE op[o]]

\* _revoke(), for the administrator and for the module itself.
RevokeGrant(g) ==
    /\ grants[g].status # "absent"
    /\ SetGrant(g, "revoked")
    /\ op' = Cancelled(Ops(LAMBDA r : r.grant = g))
    /\ UNCHANGED <<module, owned, sites, worker, now, consent, runs, restarts>>

\* Revoking a module first revokes its connection, in the other database ...
RevokeConnection ==
    /\ module = "active"
    /\ module' = "revoked"
    /\ UNCHANGED <<grants, op, owned, sites, worker, now, consent, runs, restarts>>

\* ... and then its grants, all in one transaction.
RevokeModule ==
    /\ module = "revoked"
    /\ grants' = [g \in Grant |-> IF grants[g].status = "absent" THEN grants[g]
                                  ELSE [grants[g] EXCEPT !.status = "revoked"]]
    /\ op' = Cancelled(Op)
    /\ UNCHANGED <<module, owned, sites, worker, now, consent, runs, restarts>>

------------------------------------------------------------------------------
(* Operations *)

\* POST operations, with a new idempotency key; a repeated key changes nothing.
Submit(o, g, action, p, life) ==
    LET want == IF action = "expiry" THEN After(life) ELSE 0
    IN  /\ op[o] = NoOp
        /\ \A q \in 1 .. o - 1 : op[q] # NoOp
        /\ life = Never \/ action \in {"create", "expiry"}
        /\ GrantActive(g)
        /\ action \in grants[g].actions
        /\ Cardinality(Unfinished) < QueueLimit
        /\ IF action = "create" THEN WithinQuota(g) /\ ~Present(p) ELSE Permitted(g, p)
        /\ op' = [op EXCEPT ![o] =
              [grant |-> g, action |-> action, project |-> p, life |-> life, want |-> want,
               status |-> IF NeedsApproval(action, want, p) THEN "awaiting_approval"
                                                            ELSE "queued",
               at |-> now, until |-> 0,
               baseline |-> IF action = "expiry" THEN deadline[p] ELSE 0]]
        /\ UNCHANGED <<module, grants, owned, sites, worker, now, consent, runs, restarts>>

\* The administrator approves, for the deadline that the site has at this time.
ApproveOperation(o) ==
    LET r == op[o]
        saw == IF r.action = "expiry" THEN deadline[r.project] ELSE 0
    IN  /\ r # NoOp /\ r.status = "awaiting_approval"
        /\ GrantActive(r.grant)
        /\ Permitted(r.grant, r.project)
        /\ op' = [op EXCEPT ![o].status = "queued",
                            ![o].until = now + ApprovalWindow, ![o].baseline = saw]
        /\ consent' = [consent EXCEPT ![o] = [at |-> now, saw |-> deadline[r.project]]]
        /\ UNCHANGED <<module, grants, owned, sites, worker, now, runs, restarts>>

CancelOperation(o) ==
    /\ op[o] # NoOp /\ op[o].status \in {"queued", "awaiting_approval"}
    /\ op' = Cancelled({o})
    /\ UNCHANGED <<module, grants, owned, sites, worker, now, consent, runs, restarts>>

------------------------------------------------------------------------------
(* The worker *)

\* The oldest queued operation; those of the same second have no order.
NextQueued(o) ==
    /\ op[o] # NoOp /\ op[o].status = "queued"
    /\ \A q \in Ops(LAMBDA r : r.status = "queued") : op[o].at <= op[q].at

StillAuthorized(r) ==
    /\ GrantActive(r.grant)
    /\ r.action \in grants[r.grant].actions
    /\ r.action # "create" => Permitted(r.grant, r.project)

\* Mutant of ApprovalHolds: the deadline may have moved since.
ApprovalRecent(r) == r.until >= now

\* The approval is recent, and was given on the deadline the site still has.
ApprovalHolds(r) ==
    /\ r.until >= now
    /\ r.action = "expiry" => r.baseline = deadline[r.project]

\* A changed deadline also takes the approval back.
Sent(r) ==
    [r EXCEPT !.status = "awaiting_approval",
              !.until = IF r.action = "expiry" /\ r.baseline # deadline[r.project]
                          THEN 0 ELSE @]

\* Mutant of Refused: what may no longer run is only skipped.
LeftQueued(r) == r

\* Its authorization is no longer valid.
Refused(r) == [r EXCEPT !.status = "cancelled"]

\* run_one() up to its first commit, under the project lock.
PickNext(o) ==
    LET r == op[o]
        ask == NeedsApproval(r.action, r.want, r.project) /\ ~ApprovalHolds(r)
    IN  /\ wpc = "idle"
        /\ NextQueued(o)
        /\ \/ /\ ~StillAuthorized(r)
              /\ op' = [op EXCEPT ![o] = Refused(r)]
              /\ UNCHANGED <<worker, runs>>
           \/ /\ StillAuthorized(r)
              /\ ask
              /\ op' = [op EXCEPT ![o] = Sent(r)]
              /\ UNCHANGED <<worker, runs>>
           \/ /\ StillAuthorized(r)
              /\ ~ask
              /\ op' = [op EXCEPT ![o].status = "running"]
              /\ wpc' = "running" /\ cur' = o
              /\ runs' = [runs EXCEPT ![o] = @ + 1]
              /\ UNCHANGED outcome
        /\ UNCHANGED <<module, grants, owned, sites, now, consent, restarts>>

\* A directory appears, made for a grant or by somebody else.
Appears(p, given, date) ==
    \E i \in FreshInodes :
        /\ inode' = [inode EXCEPT ![p] = i]
        /\ used' = IF ReuseInodes THEN used ELSE used \cup {i}
        /\ deadline' = [deadline EXCEPT ![p] = date]
        /\ rights' = [rights EXCEPT ![p] = given]

SwitchedTo(p, b) ==
    up' = [up EXCEPT ![p] = b] /\ UNCHANGED <<inode, deadline, used, rights>>

\* The operation does what was asked for.
Succeeds(r) ==
    LET p == r.project
    IN  \/ /\ r.action = "create" /\ ~Present(p)
           /\ Appears(p, {<<r.grant, "made">>}, After(r.life))
           /\ up' = [up EXCEPT ![p] = TRUE]
        \/ r.action = "start" /\ SwitchedTo(p, TRUE)
        \/ r.action = "stop" /\ SwitchedTo(p, FALSE)
        \/ /\ r.action = "expiry"
           /\ r.want = Never \/ r.want >= now + MinLead
           /\ deadline' = [deadline EXCEPT ![p] = r.want]
           /\ UNCHANGED <<inode, up, used, rights>>
        \/ r.action = "snapshot" /\ UNCHANGED sites

\* It is refused, fails or is killed: it may have done its work or part of it,
\* except that a deadline is written by the worker itself, last.
Fails(r) ==
    \/ UNCHANGED sites
    \/ /\ r.action = "create" /\ ~Present(r.project)
       /\ Appears(r.project, {<<r.grant, "made">>}, After(r.life))
       /\ \E b \in BOOLEAN : up' = [up EXCEPT ![r.project] = b]
    \/ r.action \in {"start", "stop"} /\ SwitchedTo(r.project, r.action = "start")

\* execute(): outside any transaction.
Execute ==
    /\ wpc = "running"
    /\ \/ Succeeds(op[cur]) /\ outcome' = "succeeded"
       \/ Fails(op[cur]) /\ outcome' = "failed"
    /\ wpc' = "done"
    /\ UNCHANGED <<tables, cur, now, consent, runs, restarts>>

Idle == wpc' = "idle" /\ cur' = NoOp /\ outcome' = "failed"

\* The result is stored, and a created site becomes the grant's.
Bookkeep ==
    LET r == op[cur]
    IN  /\ wpc = "done"
        /\ op' = [op EXCEPT ![cur].status = outcome]
        /\ owned' = IF outcome = "succeeded" /\ r.action = "create"
                      THEN [owned EXCEPT ![r.project] =
                              [grant |-> r.grant, inode |-> inode[r.project]]]
                      ELSE owned
        /\ Idle
        /\ UNCHANGED <<module, grants, sites, now, consent, runs, restarts>>

\* The last transaction fails: the worker goes on to the next operation.
BookkeepFails ==
    /\ wpc = "done"
    /\ Idle
    /\ UNCHANGED <<tables, sites, now, consent, runs, restarts>>

\* Mutant of AfterCrash: what was cut off is put back into the queue.
Requeued(r) == IF r.status = "running" THEN [r EXCEPT !.status = "queued"] ELSE r

\* An uncertain operation is not repeated.
AfterCrash(r) == IF r.status = "running" THEN [r EXCEPT !.status = "interrupted"] ELSE r

\* start_worker(): what was running when the last worker went is interrupted.
WorkerStarts ==
    /\ wpc = "down"
    /\ op' = [o \in Op |-> IF op[o] = NoOp THEN NoOp ELSE AfterCrash(op[o])]
    /\ Idle
    /\ UNCHANGED <<module, grants, owned, sites, now, consent, runs, restarts>>

\* The cockpit goes, and with it the worker and what it was executing.
Restart ==
    /\ restarts < MaxRestarts
    /\ restarts' = restarts + 1
    /\ wpc' = "down" /\ cur' = NoOp /\ outcome' = "failed"
    /\ IF wpc = "running" THEN Fails(op[cur]) ELSE UNCHANGED sites
    /\ UNCHANGED <<tables, now, consent, runs>>

------------------------------------------------------------------------------
(* Everybody else who changes sites, under the project lock, and the clock *)

AdminCreates(p, life) ==
    /\ LockFree
    /\ ~Present(p)
    /\ Appears(p, {}, After(life))
    /\ up' = [up EXCEPT ![p] = TRUE]
    /\ UNCHANGED <<tables, worker, now, consent, runs, restarts>>

Expirable(p) == deadline[p] <= now

\* Destroyed by the administrator when it is down, by the timer when it is due.
Destroyed(p) ==
    /\ LockFree
    /\ Present(p)
    /\ ~up[p] \/ Expirable(p)
    /\ inode' = [inode EXCEPT ![p] = NoInode]
    /\ deadline' = [deadline EXCEPT ![p] = Never]
    /\ up' = [up EXCEPT ![p] = FALSE]
    /\ rights' = [rights EXCEPT ![p] = {}]
    /\ UNCHANGED <<used, tables, worker, now, consent, runs, restarts>>

AdminSwitches(p) ==
    /\ LockFree
    /\ Present(p)
    /\ SwitchedTo(p, ~up[p])
    /\ UNCHANGED <<tables, worker, now, consent, runs, restarts>>

AdminSetsDeadline(p, life) ==
    /\ LockFree
    /\ Present(p)
    /\ deadline' = [deadline EXCEPT ![p] = After(life)]
    /\ UNCHANGED <<inode, up, used, rights, tables, worker, now, consent, runs, restarts>>

Tick ==
    /\ now < MaxTime
    /\ now' = now + 1
    /\ UNCHANGED <<tables, sites, worker, consent, runs, restarts>>

------------------------------------------------------------------------------
GrantStep(g) ==
    \/ RequestGrant(g)
    \/ \E allowed \in Actions, P \in SUBSET Project : ApproveGrant(g, allowed, P)
    \/ RevokeGrant(g)

OperationStep(o) ==
    \/ \E g \in Grant, a \in Action, p \in Project, life \in Lifetimes \cup {Never} :
          Submit(o, g, a, p, life)
    \/ ApproveOperation(o) \/ CancelOperation(o)

SiteStep(p) ==
    \/ \E life \in Lifetimes \cup {Never} : AdminCreates(p, life) \/ AdminSetsDeadline(p, life)
    \/ Destroyed(p) \/ AdminSwitches(p)

Next ==
    \/ \E g \in Grant : GrantStep(g)
    \/ \E o \in Op : OperationStep(o) \/ PickNext(o)
    \/ \E p \in Project : SiteStep(p)
    \/ RevokeConnection \/ RevokeModule
    \/ Execute \/ Bookkeep \/ BookkeepFails \/ WorkerStarts \/ Restart
    \/ Tick

\* The worker thread runs; administrators, modules and the clock owe nothing.
Fairness ==
    /\ WF_vars(WorkerStarts)
    /\ WF_vars(\E o \in Op : PickNext(o))
    /\ WF_vars(Execute)
    /\ WF_vars(Bookkeep \/ BookkeepFails)

Spec == Init /\ [][Next]_vars

FairSpec == Spec /\ Fairness

------------------------------------------------------------------------------
(* Properties *)

\* Nothing is executed twice: not after a crash, not after a new approval, not
\* when its bookkeeping failed ("Never replay an uncertain create/snapshot
\* after a crash").
RunsOnce == \A o \in Op : runs[o] <= 1

\* A revoked grant leaves nothing behind that could still be started or
\* approved (_revoke, against submissions and approvals in between).
RevokedHasNoPending ==
    \A o \in Op :
        op[o] # NoOp /\ grants[op[o].grant].status = "revoked"
            => op[o].status \notin {"queued", "awaiting_approval"}

\* The sites made for a grant that it owns, and those queued or being made for
\* it, stay within its quota, whatever fails, is interrupted, destroyed or made
\* again in between.
GrantWithinQuota ==
    \A g \in Grant :
        LET making == ActiveCreates(g)
            made == {p \in OwnedNow(g) : /\ <<g, "made">> \in rights[p]
                                         /\ \A o \in making : op[o].project # p}
        IN  Cardinality(made) + Cardinality(making) <= Quota

\* The worker only starts, stops or re-dates a site that was itself given to
\* the grant, never one that only has the same name.
TouchesGivenSite ==
    wpc = "running" /\ op[cur].action # "create" =>
        LET r == op[cur]
        IN  Present(r.project) /\ \E how \in {"made", "approved"} :
                                      <<r.grant, how>> \in rights[r.project]

\* A step of the worker stops a site or brings its deadline forward only when
\* an administrator approved that operation and had seen the deadline it
\* replaces; and an operation that needs an approval is begun within the
\* approval's window, however long it was queued behind others.
HarmApproved ==
    [][/\ \A p \in Project :
            wpc = "running" /\ wpc' = "done" /\ Present(p)
              /\ (deadline'[p] < deadline[p] \/ (up[p] /\ ~up'[p]))
            => /\ consent[cur] # NoConsent
               /\ deadline'[p] < deadline[p] => consent[cur].saw = deadline[p]
       /\ \A o \in Op :
            cur' = o /\ cur # o /\ NeedsApproval(op[o].action, op[o].want, op[o].project)
            => consent[o] # NoConsent /\ now <= consent[o].at + ApprovalWindow]_vars

\* Every queued operation is taken from the queue, unless an administrator goes
\* on approving others for ever: none blocks those behind it, across crashes,
\* failed bookkeeping, withdrawn approvals and revocations.
QueueDrains ==
    []<><<\E o \in Op : ApproveOperation(o)>>_vars
    \/ \A o \in Op : (op[o] # NoOp /\ op[o].status = "queued")
                        ~> (op[o] # NoOp /\ op[o].status # "queued")
===============================================================================
