--------------------------- MODULE Automation_proof ---------------------------
(***************************************************************************)
(* Proofs about Automation, for every set of grants, sites, identities and *)
(* lifetimes, every quota and limit, every length of the table, of time    *)
(* and of the sequence of restarts.                                        *)
(*                                                                         *)
(* What the worker holds is the one row that runs (Working), and what it   *)
(* has made is there until it is booked (Made), as others change sites     *)
(* only while it holds no lock.  From these follows what becomes of a row  *)
(* in any step (RowKept), and from that:                                   *)
(*   - a row that was started waits in no queue again (Started);           *)
(*   - the time and deadline in an approved row are those the              *)
(*     administrator saw (Consented), and the deadline stays while the     *)
(*     worker acts on it (Begun);                                          *)
(*   - a site made for a grant enters the count of its quota only by       *)
(*     leaving the count of its creations (MadeOnlyFromCreates);           *)
(*   - whoever names the identity of a present directory was given that    *)
(*     directory (Known), as long as no identity is given out again.       *)
(***************************************************************************)
EXTENDS Automation, FiniteSetTheorems, WellFoundedInduction, TLAPS

(* The type invariant, by the part of the system that it concerns *)

TablesOk ==
    /\ module \in {"active", "revoked"}
    /\ grants \in [Grant -> GrantRow]
    /\ op \in [Op -> OpRow \cup {NoOp}]
    /\ owned \in [Project -> OwnerRow \cup {NoOwner}]

SitesOk ==
    /\ inode \in [Project -> Inode \cup {NoInode}]
    /\ deadline \in [Project -> 0 .. Never]
    /\ up \in [Project -> BOOLEAN]
    /\ used \subseteq Inode
    /\ rights \in [Project -> SUBSET (Grant \X {"made", "approved"})]

WorkerOk ==
    /\ wpc \in {"down", "idle", "running", "done"}
    /\ cur \in Op \cup {NoOp}
    /\ outcome \in {"succeeded", "failed"}

HistoryOk ==
    /\ now \in Time
    /\ consent \in [Op -> Consent \cup {NoConsent}]
    /\ runs \in [Op -> Nat]
    /\ restarts \in 0 .. MaxRestarts

\* The worker's operation is a row that waits for its result.
Working ==
    wpc \in {"running", "done"} => cur \in Op /\ op[cur] # NoOp /\ op[cur].status = "running"

\* A creation that has succeeded left a directory that was made for its grant.
Made ==
    wpc = "done" /\ outcome = "succeeded" /\ op[cur].action = "create" =>
        /\ Present(op[cur].project)
        /\ <<op[cur].grant, "made">> \in rights[op[cur].project]

-----------------------------------------------------------------------------
(* Helpers *)

\* The parts make up the whole.
LEMMA TypeParts == TypeOK <=> TablesOk /\ SitesOk /\ WorkerOk /\ HistoryOk
BY DEF TypeOK, TablesOk, SitesOk, WorkerOk, HistoryOk

\* Every finite set of numbers that is not empty has a largest one.
LEMMA Largest ==
    ASSUME NEW S \in SUBSET Nat, IsFiniteSet(S)
    PROVE  S # {} => \E m \in S : \A k \in S : k <= m
<1> DEFINE HasMax(A) == A # {} => \E m \in A : \A k \in A : k <= m
           T == {A \in FiniteSubsetsOf(S) : ~HasMax(A)}
<1>0. FiniteSubsetsOf(S) = SUBSET S
  BY FS_FiniteSubsetsOfFinite
<1>1. SUFFICES ASSUME T # {} PROVE FALSE
  <2>1. S \in FiniteSubsetsOf(S)
    BY <1>0
  <2>2. S \in T \/ HasMax(S)
    BY <2>1
  <2> QED BY <2>2
<1>2. PICK A \in T : \A B \in T : ~(<<B, A>> \in StrictSubsetOrdering(S))
  <2> HIDE DEF T
  <2>1. T \subseteq FiniteSubsetsOf(S)
    BY DEF T
  <2> QED BY <1>1, <2>1, FS_StrictSubsetOrderingWellFounded, WFMin
<1>3. A \in SUBSET S /\ A # {} /\ ~HasMax(A)
  BY <1>0
<1>4. PICK x \in A : TRUE
  BY <1>3
<1>5. A \ {x} \notin T
  BY <1>2, <1>3, <1>4 DEF StrictSubsetOrdering
<1>6. HasMax(A \ {x})
  BY <1>0, <1>3, <1>5
<1> QED BY <1>3, <1>4, <1>6

\* The longest lifetime is one, so that no deadline comes after never.
LEMMA MaxLifeBounds == MaxLife \in Nat /\ \A l \in Lifetimes : l <= MaxLife
<1>1. Lifetimes \cup {0} \in SUBSET Nat /\ IsFiniteSet(Lifetimes \cup {0})
  BY ConstantAssumption, FS_AddElement
<1>2. \E m \in Lifetimes \cup {0} : \A k \in Lifetimes : k <= m
  BY <1>1, Largest
<1> QED BY <1>1, <1>2 DEF MaxLife

\* A moment that a lifetime ends, and what may be wanted, is no later than never.
LEMMA Moments ==
    ASSUME now \in Time, NEW life \in Lifetimes \cup {Never}
    PROVE  After(life) \in 0 .. Never /\ Never \in Nat /\ 0 \in 0 .. Never
<1>1. MaxTime \in Nat /\ Lifetimes \subseteq Nat /\ now \in Nat /\ now <= MaxTime
  BY ConstantAssumption DEF Time
<1> QED BY <1>1, MaxLifeBounds DEF After, Never

\* The limits are numbers.
LEMMA Bounds ==
    /\ MaxTime \in Nat /\ ApprovalWindow \in Nat /\ Never \in Nat /\ Quota \in Nat
    /\ MaxOps \in Nat /\ MaxRestarts \in Nat
BY ConstantAssumption, MaxLifeBounds DEF Never

\* A row whose status changes.
LEMMA StatusRow ==
    ASSUME NEW r \in OpRow, NEW st \in Status
    PROVE  LET n == [r EXCEPT !.status = st] IN
           /\ n \in OpRow /\ n # NoOp /\ n.status = st
           /\ n.grant = r.grant /\ n.action = r.action /\ n.project = r.project
           /\ n.life = r.life /\ n.want = r.want /\ n.at = r.at
           /\ n.until = r.until /\ n.baseline = r.baseline
BY AbsentAssumption DEF OpRow

\* Rows of the same request, and one row that another takes the place of.
SameRequest(r, n) ==
    /\ n \in OpRow /\ n # NoOp
    /\ n.grant = r.grant /\ n.action = r.action /\ n.project = r.project
    /\ n.life = r.life /\ n.want = r.want

Others(o) == \A q \in Op : q # o => op'[q] = op[q]

\* A row that is there.
LEMMA IsRow == ASSUME TablesOk, NEW o \in Op, op[o] # NoOp PROVE op[o] \in OpRow
BY DEF TablesOk

-----------------------------------------------------------------------------
(* What the steps do to the table of operations *)

\* One row is exchanged for another.
LEMMA Exchanged ==
    ASSUME TablesOk, NEW o \in Op, NEW n \in OpRow, op' = [op EXCEPT ![o] = n]
    PROVE  op' \in [Op -> OpRow \cup {NoOp}] /\ op'[o] = n /\ op'[o] # NoOp /\ Others(o)
BY AbsentAssumption DEF TablesOk, Others

\* A submission adds a row, which waits if it must be approved.
LEMMA SubmittedRow ==
    ASSUME TypeOK, NEW o \in Op, NEW g \in Grant, NEW a \in Action, NEW p \in Project,
           NEW life \in Lifetimes \cup {Never}, Submit(o, g, a, p, life)
    PROVE  /\ op[o] = NoOp
           /\ op' \in [Op -> OpRow \cup {NoOp}] /\ op'[o] \in OpRow /\ op'[o] # NoOp /\ Others(o)
           /\ op'[o].grant = g /\ op'[o].action = a /\ op'[o].project = p
           /\ op'[o].until = 0
           /\ op'[o].status \in {"queued", "awaiting_approval"}
           /\ a = "create" => op'[o].status = "queued"
           /\ GrantActive(g) /\ (a = "create" => WithinQuota(g) /\ ~Present(p))
<1> DEFINE want == IF a = "expiry" THEN After(life) ELSE 0
           n == [grant |-> g, action |-> a, project |-> p, life |-> life, want |-> want,
                 status |-> IF NeedsApproval(a, want, p) THEN "awaiting_approval" ELSE "queued",
                 at |-> now, until |-> 0,
                 baseline |-> IF a = "expiry" THEN deadline[p] ELSE 0]
<1>1. want \in 0 .. Never /\ deadline[p] \in 0 .. Never
  BY Moments, TypeParts DEF SitesOk, HistoryOk
<1>2. 0 \in 0 .. MaxTime + ApprovalWindow /\ 0 \in 0 .. Never /\ now \in Time
  BY Bounds, TypeParts DEF HistoryOk
<1>3. /\ op[o] = NoOp /\ op' = [op EXCEPT ![o] = n]
      /\ GrantActive(g) /\ (a = "create" => WithinQuota(g) /\ ~Present(p))
  BY DEF Submit
<1>4. n.status \in {"queued", "awaiting_approval"} /\ (a = "create" => n.status = "queued")
  BY DEF NeedsApproval
<1> HIDE DEF want
<1>5. n \in OpRow
  BY <1>1, <1>2, <1>4 DEF OpRow, Status
<1>6. n.grant = g /\ n.action = a /\ n.project = p /\ n.until = 0
  OBVIOUS
<1> HIDE DEF n
<1> QED BY <1>3, <1>4, <1>5, <1>6, Exchanged, TypeParts

\* An approval queues a row that waited, with its time and the deadline seen.
LEMMA ApprovedRow ==
    ASSUME TypeOK, NEW o \in Op, ApproveOperation(o)
    PROVE  /\ op[o] # NoOp /\ op[o].status = "awaiting_approval" /\ GrantActive(op[o].grant)
           /\ op' \in [Op -> OpRow \cup {NoOp}] /\ SameRequest(op[o], op'[o]) /\ Others(o)
           /\ op'[o].status = "queued" /\ op'[o].until = now + ApprovalWindow
           /\ op[o].action = "expiry" => op'[o].baseline = deadline[op[o].project]
<1> DEFINE r == op[o]
           saw == IF r.action = "expiry" THEN deadline[r.project] ELSE 0
           n == [r EXCEPT !.status = "queued", !.until = now + ApprovalWindow, !.baseline = saw]
<1>1. /\ r # NoOp /\ r.status = "awaiting_approval" /\ GrantActive(r.grant)
      /\ op' = [op EXCEPT ![o] = n]
  BY DEF ApproveOperation
<1>2. r \in OpRow /\ o \in DOMAIN op
  BY <1>1, TypeParts DEF TablesOk
<1>3. now + ApprovalWindow \in 0 .. MaxTime + ApprovalWindow
  BY Bounds, TypeParts DEF HistoryOk, Time
<1>4. saw \in 0 .. Never
  BY <1>2, Bounds, TypeParts DEF SitesOk, OpRow
<1>5. r.action = "expiry" => saw = deadline[r.project]
  OBVIOUS
<1> HIDE DEF r, saw
<1>6. n \in OpRow
  BY <1>2, <1>3, <1>4 DEF OpRow, Status
<1>7. /\ n.grant = r.grant /\ n.action = r.action /\ n.project = r.project
      /\ n.life = r.life /\ n.want = r.want /\ n.status = "queued"
      /\ n.until = now + ApprovalWindow /\ n.baseline = saw
  BY <1>2 DEF OpRow
<1> HIDE DEF n
<1>8. op' \in [Op -> OpRow \cup {NoOp}] /\ op'[o] = n /\ n # NoOp /\ Others(o)
  BY <1>1, <1>6, Exchanged, TypeParts
<1>9. SameRequest(r, n)
  BY <1>6, <1>7, <1>8 DEF SameRequest
<1> QED BY <1>1, <1>5, <1>7, <1>8, <1>9 DEF r

\* What is sent for approval keeps its request, and its approval or none.
LEMMA SentRow ==
    ASSUME TypeOK, NEW r \in OpRow
    PROVE  /\ Sent(r) \in OpRow /\ SameRequest(r, Sent(r))
           /\ Sent(r).status = "awaiting_approval"
           /\ Sent(r).baseline = r.baseline /\ (Sent(r).until = r.until \/ Sent(r).until = 0)
<1> DEFINE u == IF r.action = "expiry" /\ r.baseline # deadline[r.project] THEN 0 ELSE r.until
           n == [r EXCEPT !.status = "awaiting_approval", !.until = u]
<1>1. u \in 0 .. MaxTime + ApprovalWindow /\ (u = r.until \/ u = 0)
  BY Bounds DEF OpRow
<1>2. Sent(r) = n
  BY DEF Sent, OpRow
<1> HIDE DEF u
<1>3. n \in OpRow
  BY <1>1 DEF OpRow, Status
<1>4. /\ n.grant = r.grant /\ n.action = r.action /\ n.project = r.project
      /\ n.life = r.life /\ n.want = r.want /\ n.status = "awaiting_approval"
      /\ n.until = u /\ n.baseline = r.baseline
  BY DEF OpRow
<1> HIDE DEF n
<1> QED BY <1>1, <1>2, <1>3, <1>4, AbsentAssumption DEF SameRequest

\* The three ends of a look at the next operation.
LEMMA PickedRow ==
    ASSUME TypeOK, NEW o \in Op, PickNext(o)
    PROVE  /\ wpc = "idle" /\ op[o] # NoOp /\ op[o].status = "queued"
           /\ op' \in [Op -> OpRow \cup {NoOp}] /\ SameRequest(op[o], op'[o]) /\ Others(o)
           /\ UNCHANGED <<module, grants, owned, sites, now, consent, restarts>>
           /\ op'[o].baseline = op[o].baseline
           /\ \/ /\ op'[o].status = "cancelled" /\ op'[o].until = op[o].until
                 /\ UNCHANGED <<worker, runs>>
              \/ /\ op'[o].status = "awaiting_approval" /\ GrantActive(op[o].grant)
                 /\ NeedsApproval(op[o].action, op[o].want, op[o].project)
                 /\ op'[o].until = op[o].until \/ op'[o].until = 0
                 /\ UNCHANGED <<worker, runs>>
              \/ /\ op'[o].status = "running" /\ op'[o].until = op[o].until
                 /\ StillAuthorized(op[o])
                 /\ NeedsApproval(op[o].action, op[o].want, op[o].project)
                       => ApprovalHolds(op[o])
                 /\ wpc' = "running" /\ cur' = o /\ outcome' = outcome
                 /\ runs' = [runs EXCEPT ![o] = runs[o] + 1]
<1> DEFINE r == op[o]
           ask == NeedsApproval(r.action, r.want, r.project) /\ ~ApprovalHolds(r)
<1>1. /\ wpc = "idle" /\ r # NoOp /\ r.status = "queued"
      /\ UNCHANGED <<module, grants, owned, sites, now, consent, restarts>>
  BY DEF PickNext, NextQueued
<1>2. r \in OpRow
  BY <1>1, TypeParts DEF TablesOk
<1>3. ASSUME NEW n \in OpRow, op' = [op EXCEPT ![o] = n], SameRequest(r, n)
      PROVE  /\ op' \in [Op -> OpRow \cup {NoOp}] /\ op'[o] = n
             /\ SameRequest(r, op'[o]) /\ Others(o)
  BY <1>3, Exchanged, TypeParts
<1>4. CASE ~StillAuthorized(r) /\ op' = [op EXCEPT ![o] = Refused(r)] /\ UNCHANGED <<worker, runs>>
  <2> DEFINE n == [r EXCEPT !.status = "cancelled"]
  <2>1. /\ n \in OpRow /\ SameRequest(r, n) /\ n.status = "cancelled" /\ n.until = r.until
        /\ n.baseline = r.baseline
    BY <1>2, StatusRow DEF SameRequest, Status
  <2>2. op' = [op EXCEPT ![o] = n]
    BY <1>4 DEF Refused
  <2> HIDE DEF n, r
  <2> QED BY <1>1, <1>3, <1>4, <2>1, <2>2 DEF r
<1>5. CASE StillAuthorized(r) /\ ask /\ op' = [op EXCEPT ![o] = Sent(r)] /\ UNCHANGED <<worker, runs>>
  <2>1. GrantActive(r.grant) /\ NeedsApproval(r.action, r.want, r.project)
    BY <1>5 DEF StillAuthorized
  <2> HIDE DEF ask, r
  <2> QED BY <1>1, <1>2, <1>3, <1>5, <2>1, SentRow DEF r
<1>6. CASE /\ StillAuthorized(r) /\ ~ask /\ op' = [op EXCEPT ![o].status = "running"]
           /\ wpc' = "running" /\ cur' = o /\ runs' = [runs EXCEPT ![o] = @ + 1]
           /\ UNCHANGED outcome
  <2> DEFINE n == [r EXCEPT !.status = "running"]
  <2>1. /\ n \in OpRow /\ SameRequest(r, n) /\ n.status = "running" /\ n.until = r.until
        /\ n.baseline = r.baseline
    BY <1>2, StatusRow DEF SameRequest, Status
  <2>2. op' = [op EXCEPT ![o] = n]
    BY <1>6
  <2>3. NeedsApproval(r.action, r.want, r.project) => ApprovalHolds(r)
    BY <1>6
  <2> HIDE DEF n, r
  <2> QED BY <1>1, <1>3, <1>6, <2>1, <2>2, <2>3 DEF r
<1> QED BY <1>4, <1>5, <1>6 DEF PickNext

\* Cancelling a set of operations reaches those that have not started.
LEMMA CancelledRows ==
    ASSUME TypeOK, NEW S, op' = Cancelled(S)
    PROVE  /\ op' \in [Op -> OpRow \cup {NoOp}]
           /\ \A o \in Op : op[o] = NoOp => op'[o] = NoOp
           /\ \A o \in Op : op[o] # NoOp =>
                 \/ /\ o \in S /\ op[o].status \in {"queued", "awaiting_approval"}
                    /\ op'[o] = [op[o] EXCEPT !.status = "cancelled"]
                 \/ /\ o \notin S \/ op[o].status \notin {"queued", "awaiting_approval"}
                    /\ op'[o] = op[o]
<1>1. \A o \in Op : op[o] # NoOp => [op[o] EXCEPT !.status = "cancelled"] \in OpRow
  BY StatusRow, IsRow, TypeParts DEF Status
<1>2. op \in [Op -> OpRow \cup {NoOp}]
  BY TypeParts DEF TablesOk
<1> QED BY <1>1, <1>2 DEF Cancelled

\* What becomes of a row in a step: nothing; an end without having started; a
\* place in the queue; the worker's look at it; or an end after it was started.
Moves(o) ==
    \/ op'[o] = op[o]
    \/ /\ op[o].status \in {"queued", "awaiting_approval"}
       /\ op'[o] = [op[o] EXCEPT !.status = "cancelled"]
    \/ ApproveOperation(o)
    \/ PickNext(o)
    \/ /\ op[o].status = "running"
       /\ \E st \in {"succeeded", "failed", "interrupted"} : op'[o] = [op[o] EXCEPT !.status = st]

\* No step does anything else to a row, and only a submission adds one.
LEMMA RowMoves ==
    ASSUME TypeOK, Working, [Next]_vars
    PROVE  /\ op' \in [Op -> OpRow \cup {NoOp}]
           /\ \A o \in Op : op[o] # NoOp => Moves(o)
           /\ \A o \in Op : op[o] = NoOp /\ op'[o] # NoOp =>
                 \E g \in Grant, a \in Action, p \in Project, life \in Lifetimes \cup {Never} :
                     Submit(o, g, a, p, life)
<1>1. op \in [Op -> OpRow \cup {NoOp}] /\ outcome \in {"succeeded", "failed"}
  BY TypeParts DEF TablesOk, WorkerOk
<1>2. CASE UNCHANGED op
  BY <1>1, <1>2 DEF Moves
<1>3. ASSUME NEW S, op' = Cancelled(S)
      PROVE  /\ op' \in [Op -> OpRow \cup {NoOp}]
             /\ \A o \in Op : op[o] # NoOp => Moves(o)
             /\ \A o \in Op : op[o] = NoOp => op'[o] = NoOp
  BY <1>3, CancelledRows DEF Moves
<1>4. CASE \E o \in Op, g \in Grant, a \in Action, p \in Project, life \in Lifetimes \cup {Never} :
             Submit(o, g, a, p, life)
  <2>1. PICK o \in Op, g \in Grant, a \in Action, p \in Project, life \in Lifetimes \cup {Never} :
            Submit(o, g, a, p, life)
    BY <1>4
  <2>2. /\ op[o] = NoOp /\ op' \in [Op -> OpRow \cup {NoOp}] /\ Others(o)
    BY <2>1, SubmittedRow
  <2> QED BY <2>1, <2>2 DEF Others, Moves
<1>5. CASE \E o \in Op : ApproveOperation(o)
  <2>1. PICK o \in Op : ApproveOperation(o)
    BY <1>5
  <2>2. op[o] # NoOp /\ op' \in [Op -> OpRow \cup {NoOp}] /\ Others(o)
    BY <2>1, ApprovedRow
  <2> QED BY <2>1, <2>2 DEF Others, Moves
<1>6. CASE \E o \in Op : PickNext(o)
  <2>1. PICK o \in Op : PickNext(o)
    BY <1>6
  <2>2. op[o] # NoOp /\ op' \in [Op -> OpRow \cup {NoOp}] /\ Others(o)
    BY <2>1, PickedRow
  <2> QED BY <2>1, <2>2 DEF Others, Moves
<1>7. CASE Bookkeep
  <2> DEFINE n == [op[cur] EXCEPT !.status = outcome]
  <2>1. /\ cur \in Op /\ op[cur] # NoOp /\ op[cur].status = "running"
        /\ op' = [op EXCEPT ![cur] = n]
    BY <1>7 DEF Bookkeep, Working
  <2>2. n \in OpRow
    <3>1. op[cur] \in OpRow /\ outcome \in Status
      BY <1>1, <2>1 DEF Status
    <3> QED BY <3>1, StatusRow
  <2>3. n = [op[cur] EXCEPT !.status = outcome]
    OBVIOUS
  <2> HIDE DEF n
  <2>4. op' \in [Op -> OpRow \cup {NoOp}] /\ op'[cur] = n /\ Others(cur)
    BY <2>1, <2>2, Exchanged, TypeParts
  <2> QED BY <1>1, <2>1, <2>3, <2>4 DEF Others, Moves
<1>8. CASE WorkerStarts
  <2>1. op' = [o \in Op |-> IF op[o] = NoOp THEN NoOp ELSE AfterCrash(op[o])]
    BY <1>8 DEF WorkerStarts
  <2>2. ASSUME NEW o \in Op, op[o] # NoOp
        PROVE  [op[o] EXCEPT !.status = "interrupted"] \in OpRow
    <3>1. op[o] \in OpRow /\ "interrupted" \in Status
      BY <1>1, <2>2 DEF Status
    <3> QED BY <3>1, StatusRow
  <2> QED BY <1>1, <2>1, <2>2 DEF AfterCrash, Moves
<1>9. CASE RevokeModule \/ \E g \in Grant : RevokeGrant(g)
  <2>1. \E S : op' = Cancelled(S)
    BY <1>9 DEF RevokeModule, RevokeGrant
  <2> QED BY <1>3, <2>1
<1>10. CASE \E o \in Op : CancelOperation(o)
  <2>1. \E S : op' = Cancelled(S)
    BY <1>10 DEF CancelOperation
  <2> QED BY <1>3, <2>1
<1>11. CASE \E g \in Grant : RequestGrant(g) \/ \E A \in Actions, P \in SUBSET Project : ApproveGrant(g, A, P)
  BY <1>2, <1>11 DEF RequestGrant, ApproveGrant
<1>12. CASE \E p \in Project : SiteStep(p)
  BY <1>2, <1>12 DEF SiteStep, AdminCreates, AdminSetsDeadline, Destroyed, AdminSwitches, tables
<1>13. CASE RevokeConnection \/ Execute \/ BookkeepFails \/ Restart \/ Tick \/ UNCHANGED vars
  BY <1>2, <1>13 DEF RevokeConnection, Execute, BookkeepFails, Restart, Tick, tables, vars
<1> QED BY <1>4, <1>5, <1>6, <1>7, <1>8, <1>9, <1>10, <1>11, <1>12, <1>13
        DEF Next, GrantStep, OperationStep

-----------------------------------------------------------------------------
(* What the steps leave alone *)

\* The two kinds of step that leave most of the tables alone.
KeepsTables ==
    /\ UNCHANGED <<grants, op, owned>>
    /\ module' = module \/ RevokeConnection

OpStep ==
    /\ UNCHANGED <<module, grants, sites, now, restarts>>
    /\ UNCHANGED owned \/ Bookkeep

\* A step is about a grant, about operations, or leaves the tables alone.
LEMMA Steps ==
    ASSUME Next
    PROVE  (\E g \in Grant : GrantStep(g)) \/ RevokeModule \/ KeepsTables \/ OpStep
<1>1. CASE \E o \in Op : OperationStep(o)
  BY <1>1 DEF OperationStep, Submit, ApproveOperation, CancelOperation, OpStep
<1>2. CASE \E o \in Op : PickNext(o)
  BY <1>2 DEF PickNext, OpStep
<1>3. CASE \E p \in Project : SiteStep(p)
  BY <1>3 DEF SiteStep, AdminCreates, AdminSetsDeadline, Destroyed, AdminSwitches, tables,
              KeepsTables
<1>4. CASE Bookkeep \/ WorkerStarts
  BY <1>4 DEF Bookkeep, WorkerStarts, OpStep
<1>5. CASE RevokeConnection \/ Execute \/ BookkeepFails \/ Restart \/ Tick
  BY <1>5 DEF RevokeConnection, Execute, BookkeepFails, Restart, Tick, tables, KeepsTables
<1> QED BY <1>1, <1>2, <1>3, <1>4, <1>5 DEF Next

-----------------------------------------------------------------------------
(* Types *)

\* At first there are neither rows nor sites nor a worker.
LEMMA InitTyped == Init => TypeOK /\ Working /\ Made
<1> SUFFICES ASSUME Init PROVE TypeOK /\ Working /\ Made
  OBVIOUS
<1>1. TablesOk
  BY DEF Init, TablesOk, GrantRow
<1>2. SitesOk
  BY Bounds DEF Init, SitesOk
<1>3. WorkerOk /\ Working /\ Made
  BY DEF Init, WorkerOk, Working, Made
<1>4. HistoryOk
  BY ConstantAssumption DEF Init, HistoryOk, Time
<1> QED BY <1>1, <1>2, <1>3, <1>4, TypeParts

\* A grant's row is exchanged.
LEMMA GrantsTyped ==
    ASSUME TypeOK, Next
    PROVE  grants' \in [Grant -> GrantRow]
<1>1. grants \in [Grant -> GrantRow] /\ inode \in [Project -> Inode \cup {NoInode}]
  BY TypeParts DEF TablesOk, SitesOk
<1>2. ASSUME NEW g \in Grant, NEW st \in {"pending", "revoked"}, SetGrant(g, st)
      PROVE  grants' \in [Grant -> GrantRow]
  <2> DEFINE n == [grants[g] EXCEPT !.status = st]
  <2>1. n \in GrantRow /\ grants' = [grants EXCEPT ![g] = n]
    BY <1>1, <1>2 DEF GrantRow, SetGrant
  <2> HIDE DEF n
  <2> QED BY <1>1, <2>1
<1>3. ASSUME NEW g \in Grant, RequestGrant(g) \/ RevokeGrant(g) PROVE grants' \in [Grant -> GrantRow]
  BY <1>2, <1>3 DEF RequestGrant, RevokeGrant
<1>4. ASSUME NEW g \in Grant, NEW A \in Actions, NEW P \in SUBSET Project, ApproveGrant(g, A, P)
      PROVE  grants' \in [Grant -> GrantRow]
  <2> DEFINE n == [status |-> "active", actions |-> A, projects |-> {<<p, inode[p]>> : p \in P}]
  <2>1. grants' = [grants EXCEPT ![g] = n] /\ \A p \in P : inode[p] # NoInode
    BY <1>4 DEF ApproveGrant, Present
  <2>2. A \in SUBSET Action
    BY ConstantAssumption
  <2>3. {<<p, inode[p]>> : p \in P} \in SUBSET (Project \X Inode)
    BY <1>1, <2>1
  <2>4. n \in GrantRow
    BY <2>2, <2>3 DEF GrantRow
  <2> HIDE DEF n
  <2> QED BY <1>1, <2>1, <2>4
<1>5. CASE RevokeModule
  <2>1. \A g \in Grant : [grants[g] EXCEPT !.status = "revoked"] \in GrantRow
    BY <1>1 DEF GrantRow
  <2> QED BY <1>1, <1>5, <2>1 DEF RevokeModule
<1>6. CASE UNCHANGED grants
  BY <1>1, <1>6
<1> QED BY <1>3, <1>4, <1>5, <1>6, Steps DEF GrantStep, KeepsTables, tables, OpStep

\* The only new owner is the grant of a creation that has succeeded.
LEMMA OwnedMoves ==
    ASSUME Next
    PROVE  \/ owned' = owned
           \/ Bookkeep /\ outcome = "succeeded" /\ op[cur].action = "create"
              /\ owned' = [owned EXCEPT ![op[cur].project] =
                               [grant |-> op[cur].grant, inode |-> inode[op[cur].project]]]
<1>1. CASE Bookkeep
  BY <1>1 DEF Bookkeep
<1>2. CASE \E g \in Grant : GrantStep(g)
  BY <1>2 DEF GrantStep, RequestGrant, ApproveGrant, RevokeGrant
<1> QED BY <1>1, <1>2, Steps DEF KeepsTables, tables, OpStep, RevokeModule

-----------------------------------------------------------------------------
(* Types of sites, of the worker and of the histories *)

\* A directory is made.
LEMMA AppearsTyped ==
    ASSUME SitesOk, NEW p \in Project, NEW given \in SUBSET (Grant \X {"made", "approved"}),
           NEW date \in 0 .. Never, NEW b \in BOOLEAN,
           Appears(p, given, date), up' = [up EXCEPT ![p] = b]
    PROVE  SitesOk'
<1>1. PICK i \in Inode : /\ inode' = [inode EXCEPT ![p] = i] /\ (used' = used \/ used' = used \cup {i})
                         /\ deadline' = [deadline EXCEPT ![p] = date]
                         /\ rights' = [rights EXCEPT ![p] = given]
  BY DEF Appears, FreshInodes
<1>2. up' \in [Project -> BOOLEAN]
  BY DEF SitesOk
<1> QED BY <1>1, <1>2 DEF SitesOk

\* Switching containers changes nothing else of a site.
LEMMA SwitchedTyped ==
    ASSUME SitesOk, NEW p \in Project, NEW b \in BOOLEAN, SwitchedTo(p, b)
    PROVE  SitesOk'
<1>1. up' \in [Project -> BOOLEAN]
  BY DEF SitesOk, SwitchedTo
<1> QED BY <1>1 DEF SitesOk, SwitchedTo

\* An operation that fails leaves the sites well typed.
LEMMA FailsTyped ==
    ASSUME TypeOK, NEW r \in OpRow, Fails(r)
    PROVE  SitesOk'
<1>1. SitesOk /\ r.project \in Project /\ r.grant \in Grant /\ After(r.life) \in 0 .. Never
  BY TypeParts, Moments DEF HistoryOk, OpRow
<1>2. CASE UNCHANGED sites
  BY <1>1, <1>2 DEF SitesOk, sites
<1>3. CASE \E b \in BOOLEAN : /\ Appears(r.project, {<<r.grant, "made">>}, After(r.life))
                              /\ up' = [up EXCEPT ![r.project] = b]
  <2>1. {<<r.grant, "made">>} \in SUBSET (Grant \X {"made", "approved"})
    BY <1>1
  <2> QED BY <1>1, <1>3, <2>1, AppearsTyped
<1>4. CASE SwitchedTo(r.project, r.action = "start")
  <2>1. (r.action = "start") \in BOOLEAN
    OBVIOUS
  <2> QED BY <1>1, <1>4, <2>1, SwitchedTyped
<1> QED BY <1>2, <1>3, <1>4 DEF Fails

\* So does one that succeeds.
LEMMA SucceedsTyped ==
    ASSUME TypeOK, NEW r \in OpRow, Succeeds(r)
    PROVE  SitesOk'
<1>1. /\ SitesOk /\ r.project \in Project /\ r.grant \in Grant /\ After(r.life) \in 0 .. Never
      /\ r.want \in 0 .. Never
  BY TypeParts, Moments DEF HistoryOk, OpRow
<1>2. CASE UNCHANGED sites
  BY <1>1, <1>2 DEF SitesOk, sites
<1>3. CASE /\ Appears(r.project, {<<r.grant, "made">>}, After(r.life))
           /\ up' = [up EXCEPT ![r.project] = TRUE]
  <2>1. {<<r.grant, "made">>} \in SUBSET (Grant \X {"made", "approved"})
    BY <1>1
  <2> QED BY <1>1, <1>3, <2>1, AppearsTyped
<1>4. CASE SwitchedTo(r.project, TRUE) \/ SwitchedTo(r.project, FALSE)
  BY <1>1, <1>4, SwitchedTyped
<1>5. CASE /\ deadline' = [deadline EXCEPT ![r.project] = r.want]
           /\ UNCHANGED <<inode, up, used, rights>>
  BY <1>1, <1>5 DEF SitesOk
<1> QED BY <1>2, <1>3, <1>4, <1>5 DEF Succeeds

\* So do the administrator and the timer.
LEMMA SiteStepTyped ==
    ASSUME TypeOK, NEW p \in Project, SiteStep(p)
    PROVE  SitesOk'
<1>1. SitesOk /\ \A l \in Lifetimes \cup {Never} : After(l) \in 0 .. Never
  BY TypeParts, Moments DEF HistoryOk
<1>2. ASSUME NEW l \in Lifetimes \cup {Never}, AdminCreates(p, l) PROVE SitesOk'
  BY <1>1, <1>2, AppearsTyped DEF AdminCreates
<1>3. ASSUME NEW l \in Lifetimes \cup {Never}, AdminSetsDeadline(p, l) PROVE SitesOk'
  BY <1>1, <1>3 DEF AdminSetsDeadline, SitesOk
<1>4. CASE Destroyed(p)
  BY <1>1, <1>4, Bounds DEF Destroyed, SitesOk
<1>5. CASE AdminSwitches(p)
  <2>1. (~up[p]) \in BOOLEAN
    OBVIOUS
  <2> QED BY <1>1, <1>5, <2>1, SwitchedTyped DEF AdminSwitches
<1> QED BY <1>2, <1>3, <1>4, <1>5 DEF SiteStep

\* Sites change only in these steps.
LEMMA SitesMove ==
    ASSUME Next
    PROVE  \/ UNCHANGED sites
           \/ \E p \in Project : SiteStep(p)
           \/ Execute
           \/ Restart /\ wpc = "running" /\ Fails(op[cur])
           \/ \E g \in Grant, A \in Actions, P \in SUBSET Project : ApproveGrant(g, A, P)
<1>1. CASE \E g \in Grant : GrantStep(g)
  BY <1>1 DEF GrantStep, RequestGrant, RevokeGrant
<1>2. CASE RevokeModule \/ OpStep
  BY <1>2 DEF RevokeModule, OpStep
<1>3. CASE KeepsTables
  <2>1. CASE \E o \in Op : OperationStep(o) \/ PickNext(o)
    BY <2>1 DEF OperationStep, PickNext, Submit, ApproveOperation, CancelOperation
  <2>2. CASE RevokeConnection \/ Bookkeep \/ BookkeepFails \/ WorkerStarts \/ Tick
    BY <2>2 DEF RevokeConnection, Bookkeep, BookkeepFails, WorkerStarts, Tick
  <2>3. CASE Restart
    BY <2>3 DEF Restart
  <2> QED BY <1>1, <1>2, <2>1, <2>2, <2>3 DEF Next
<1> QED BY <1>1, <1>2, <1>3, Steps

\* The sites keep their types in every step.
LEMMA SitesTyped ==
    ASSUME TypeOK, Working, Next
    PROVE  SitesOk'
<1>1. SitesOk
  BY TypeParts
<1>2. wpc \in {"running", "done"} => op[cur] \in OpRow
  BY IsRow, TypeParts DEF Working
<1>3. CASE UNCHANGED sites
  BY <1>1, <1>3 DEF SitesOk, sites
<1>4. CASE Execute
  BY <1>2, <1>4, SucceedsTyped, FailsTyped DEF Execute
<1>5. CASE wpc = "running" /\ Fails(op[cur])
  BY <1>2, <1>5, FailsTyped
<1>6. ASSUME NEW g \in Grant, NEW A \in Actions, NEW P \in SUBSET Project, ApproveGrant(g, A, P)
      PROVE  SitesOk'
  <2>1. \A p \in Project : rights'[p] \in SUBSET (Grant \X {"made", "approved"})
    BY <1>1, <1>6 DEF ApproveGrant, SitesOk
  <2> QED BY <1>1, <1>6, <2>1 DEF ApproveGrant, SitesOk
<1> QED BY <1>3, <1>4, <1>5, <1>6, SitesMove, SiteStepTyped

\* The worker goes from one operation to the next one, and is cut off in between.
LEMMA WorkerMoves ==
    ASSUME Next
    PROVE  \/ UNCHANGED worker
           \/ \E o \in Op : PickNext(o) /\ cur' = o /\ wpc' = "running" /\ outcome' = outcome
           \/ Execute
           \/ wpc' \in {"idle", "down"} /\ cur' = NoOp /\ outcome' = "failed"
<1>1. CASE \E g \in Grant : GrantStep(g)
  BY <1>1 DEF GrantStep, RequestGrant, RevokeGrant, ApproveGrant
<1>2. CASE \E o \in Op : OperationStep(o)
  BY <1>2 DEF OperationStep, Submit, ApproveOperation, CancelOperation
<1>3. CASE \E o \in Op : PickNext(o)
  BY <1>3 DEF PickNext
<1>4. CASE \E p \in Project : SiteStep(p)
  BY <1>4 DEF SiteStep, AdminCreates, AdminSetsDeadline, Destroyed, AdminSwitches
<1>5. CASE RevokeConnection \/ RevokeModule \/ Tick
  BY <1>5 DEF RevokeConnection, RevokeModule, Tick
<1>6. CASE Bookkeep \/ BookkeepFails \/ WorkerStarts \/ Restart
  BY <1>6 DEF Bookkeep, BookkeepFails, WorkerStarts, Restart, Idle
<1> QED BY <1>1, <1>2, <1>3, <1>4, <1>5, <1>6 DEF Next

\* The worker keeps its types in every step.
LEMMA WorkerTyped ==
    ASSUME TypeOK, Next
    PROVE  WorkerOk'
<1>1. WorkerOk
  BY TypeParts
<1>2. CASE Execute
  BY <1>1, <1>2 DEF Execute, WorkerOk
<1> QED BY <1>1, <1>2, WorkerMoves DEF WorkerOk, worker

\* An approval and a start are the only steps a history of operations records.
LEMMA HistoriesMove ==
    ASSUME Next
    PROVE  /\ \/ consent' = consent
              \/ \E o \in Op : ApproveOperation(o) /\ consent' = [consent EXCEPT ![o] =
                                     [at |-> now, saw |-> deadline[op[o].project]]]
           /\ \/ runs' = runs
              \/ \E o \in Op : PickNext(o) /\ cur' = o
           /\ now' = now \/ (now < MaxTime /\ now' = now + 1)
           /\ restarts' = restarts \/ (restarts < MaxRestarts /\ restarts' = restarts + 1)
<1>1. CASE \E g \in Grant : GrantStep(g)
  BY <1>1 DEF GrantStep, RequestGrant, RevokeGrant, ApproveGrant
<1>2. ASSUME NEW o \in Op, OperationStep(o)
      PROVE  /\ UNCHANGED <<runs, now, restarts>>
             /\ \/ consent' = consent
                \/ ApproveOperation(o) /\ consent' = [consent EXCEPT ![o] =
                                              [at |-> now, saw |-> deadline[op[o].project]]]
  <2>1. CASE ApproveOperation(o)
    BY <2>1 DEF ApproveOperation
  <2> QED BY <1>2, <2>1 DEF OperationStep, Submit, CancelOperation
<1>3. CASE \E o \in Op : PickNext(o)
  BY <1>3 DEF PickNext
<1>4. CASE \E p \in Project : SiteStep(p)
  BY <1>4 DEF SiteStep, AdminCreates, AdminSetsDeadline, Destroyed, AdminSwitches
<1>5. CASE RevokeConnection \/ RevokeModule \/ Execute \/ Bookkeep \/ BookkeepFails \/ WorkerStarts
  BY <1>5 DEF RevokeConnection, RevokeModule, Execute, Bookkeep, BookkeepFails, WorkerStarts
<1>6. CASE Restart \/ Tick
  BY <1>6 DEF Restart, Tick
<1> QED BY <1>1, <1>2, <1>3, <1>4, <1>5, <1>6 DEF Next

\* The clock and the histories keep their types in every step.
LEMMA HistoryTyped ==
    ASSUME TypeOK, Next
    PROVE  HistoryOk'
<1>1. HistoryOk /\ op \in [Op -> OpRow \cup {NoOp}] /\ deadline \in [Project -> 0 .. Never]
  BY TypeParts DEF TablesOk, SitesOk
<1>2. now' \in Time /\ restarts' \in 0 .. MaxRestarts
  BY <1>1, HistoriesMove, Bounds DEF HistoryOk, Time
<1>3. consent' \in [Op -> Consent \cup {NoConsent}]
  <2>1. ASSUME NEW o \in Op, ApproveOperation(o)
        PROVE  [at |-> now, saw |-> deadline[op[o].project]] \in Consent
    <3>1. op[o] \in OpRow
      BY <1>1, <2>1 DEF ApproveOperation
    <3>2. now \in Time /\ deadline[op[o].project] \in 0 .. Never
      BY <1>1, <3>1 DEF HistoryOk, OpRow
    <3> QED BY <3>2 DEF Consent
  <2> QED BY <1>1, <2>1, HistoriesMove DEF HistoryOk
<1>4. runs' \in [Op -> Nat]
  <2>1. ASSUME NEW o \in Op, PickNext(o) PROVE runs' = runs \/ runs' = [runs EXCEPT ![o] = runs[o] + 1]
    BY <2>1, PickedRow
  <2> QED BY <1>1, <2>1, HistoriesMove DEF HistoryOk
<1> QED BY <1>2, <1>3, <1>4 DEF HistoryOk

\* While the worker has an operation, nobody else touches its row ...
LEMMA RowStays ==
    ASSUME TypeOK, Working, Next, UNCHANGED worker \/ Execute, wpc \in {"running", "done"}
    PROVE  cur \in Op /\ op[cur] \in OpRow /\ op'[cur] = op[cur] /\ op[cur].status = "running"
<1>1. cur \in Op /\ op[cur] # NoOp /\ op[cur].status = "running" /\ op[cur] \in OpRow
  BY IsRow, TypeParts DEF Working
<1> SUFFICES op'[cur] = op[cur]
  BY <1>1
<1>2. ~Bookkeep /\ ~WorkerStarts
  BY DEF Bookkeep, WorkerStarts, Idle, Execute, worker
<1>3. ASSUME NEW o \in Op, PickNext(o) PROVE FALSE
  BY <1>3 DEF PickNext
<1>4. ASSUME NEW S, op' = Cancelled(S) PROVE op'[cur] = op[cur]
  BY <1>1, <1>4, CancelledRows
<1>5. ASSUME NEW o \in Op, OperationStep(o) PROVE op'[cur] = op[cur]
  <2>1. CASE ApproveOperation(o)
    BY <1>1, <2>1, ApprovedRow DEF Others
  <2>2. CASE CancelOperation(o)
    BY <1>4, <2>2 DEF CancelOperation
  <2>3. ASSUME NEW g \in Grant, NEW a \in Action, NEW p \in Project,
               NEW life \in Lifetimes \cup {Never}, Submit(o, g, a, p, life)
        PROVE  op'[cur] = op[cur]
    BY <1>1, <2>3, SubmittedRow DEF Others
  <2> QED BY <1>5, <2>1, <2>2, <2>3 DEF OperationStep
<1>6. CASE \E g \in Grant : GrantStep(g)
  BY <1>4, <1>6 DEF GrantStep, RequestGrant, ApproveGrant, RevokeGrant
<1>7. CASE RevokeModule
  BY <1>4, <1>7 DEF RevokeModule
<1>8. CASE \E p \in Project : SiteStep(p)
  BY <1>8 DEF SiteStep, AdminCreates, AdminSetsDeadline, Destroyed, AdminSwitches, tables
<1>9. CASE RevokeConnection \/ Execute \/ BookkeepFails \/ Restart \/ Tick
  BY <1>9 DEF RevokeConnection, Execute, BookkeepFails, Restart, Tick, tables
<1> QED BY <1>1, <1>2, <1>3, <1>5, <1>6, <1>7, <1>8, <1>9 DEF Next

\* ... nor a site, but that an approved grant gains rights.
LEMMA SitesStay ==
    ASSUME TypeOK, Next, UNCHANGED worker, wpc \in {"running", "done"}
    PROVE  /\ UNCHANGED <<inode, deadline, up, used>>
           /\ \A p \in Project : rights[p] \subseteq rights'[p]
<1>1. ~Execute /\ ~Restart
  BY DEF Execute, Restart, worker
<1>2. ASSUME NEW p \in Project PROVE ~SiteStep(p)
  BY DEF SiteStep, AdminCreates, AdminSetsDeadline, Destroyed, AdminSwitches, LockFree
<1>3. CASE UNCHANGED sites
  BY <1>3 DEF sites
<1>4. CASE \E g \in Grant, A \in Actions, P \in SUBSET Project : ApproveGrant(g, A, P)
  BY <1>4, TypeParts DEF ApproveGrant, SitesOk
<1> QED BY <1>1, <1>2, <1>3, <1>4, SitesMove

\* The worker goes on with the row that runs.
LEMMA WorkingKept ==
    ASSUME TypeOK, Working, Next
    PROVE  Working'
<1> SUFFICES ASSUME wpc' \in {"running", "done"}
             PROVE  cur' \in Op /\ op'[cur'] # NoOp /\ op'[cur'].status = "running"
  BY DEF Working
<1>1. CASE UNCHANGED worker \/ Execute
  <2>1. wpc \in {"running", "done"} /\ cur' = cur
    BY <1>1 DEF worker, Execute
  <2> QED BY <1>1, <2>1, RowStays, AbsentAssumption
<1>2. ASSUME NEW o \in Op, PickNext(o), cur' = o, wpc' = "running"
      PROVE  op'[o] # NoOp /\ op'[o].status = "running"
  BY <1>2, PickedRow DEF worker, SameRequest
<1> QED BY <1>1, <1>2, WorkerMoves

\* What was created is not destroyed before it is booked.
LEMMA MadeKept ==
    ASSUME TypeOK, Working, Made, Next
    PROVE  Made'
<1> SUFFICES ASSUME wpc' = "done", outcome' = "succeeded", op'[cur'].action = "create"
             PROVE  /\ inode'[op'[cur'].project] # NoInode
                    /\ <<op'[cur'].grant, "made">> \in rights'[op'[cur'].project]
  BY DEF Made, Present
<1>1. CASE UNCHANGED worker
  <2>1. /\ cur' = cur /\ op'[cur] = op[cur] /\ op[cur] \in OpRow /\ wpc = "done"
        /\ outcome = "succeeded"
    BY <1>1, RowStays DEF worker
  <2>2. op[cur].project \in Project
    BY <2>1 DEF OpRow
  <2> QED BY <1>1, <2>1, <2>2, SitesStay DEF Made, Present
<1>2. CASE Execute
  <2>1. cur' = cur /\ op'[cur] = op[cur] /\ op[cur] \in OpRow /\ Succeeds(op[cur])
    BY <1>2, RowStays DEF Execute
  <2>2. op[cur].project \in Project /\ op[cur].grant \in Grant
    BY <2>1 DEF OpRow
  <2>3. Appears(op[cur].project, {<<op[cur].grant, "made">>}, After(op[cur].life))
    BY <2>1 DEF Succeeds
  <2>4. PICK i \in Inode : /\ inode' = [inode EXCEPT ![op[cur].project] = i]
                           /\ rights' = [rights EXCEPT ![op[cur].project] = {<<op[cur].grant, "made">>}]
    BY <2>3 DEF Appears, FreshInodes
  <2>5. inode'[op[cur].project] = i /\ rights'[op[cur].project] = {<<op[cur].grant, "made">>}
    BY <2>2, <2>4, TypeParts DEF SitesOk
  <2> QED BY <2>1, <2>5, ConstantAssumption DEF Present
<1> QED BY <1>1, <1>2, WorkerMoves

\* Types, the worker's row and what it made, in every step.
LEMMA NextTyped == TypeOK /\ Working /\ Made /\ [Next]_vars => TypeOK' /\ Working' /\ Made'
<1> SUFFICES ASSUME TypeOK, Working, Made, [Next]_vars PROVE TypeOK' /\ Working' /\ Made'
  OBVIOUS
<1>1. CASE Next
  <2>1. op' \in [Op -> OpRow \cup {NoOp}]
    BY RowMoves
  <2>2. owned' \in [Project -> OwnerRow \cup {NoOwner}]
    <3>1. owned \in [Project -> OwnerRow \cup {NoOwner}] /\ inode \in [Project -> Inode \cup {NoInode}]
      BY TypeParts DEF TablesOk, SitesOk
    <3>2. CASE owned' = owned
      BY <3>1, <3>2
    <3>3. CASE /\ Bookkeep /\ outcome = "succeeded" /\ op[cur].action = "create"
               /\ owned' = [owned EXCEPT ![op[cur].project] =
                               [grant |-> op[cur].grant, inode |-> inode[op[cur].project]]]
      <4>1. wpc = "done" /\ op[cur] \in OpRow
        BY <3>3, IsRow, TypeParts DEF Bookkeep, Working
      <4>2. /\ op[cur].project \in Project /\ op[cur].grant \in Grant
            /\ inode[op[cur].project] # NoInode
        BY <3>3, <4>1 DEF OpRow, Made, Present
      <4>3. [grant |-> op[cur].grant, inode |-> inode[op[cur].project]] \in OwnerRow
        BY <3>1, <4>2 DEF OwnerRow
      <4> QED BY <3>1, <3>3, <4>3
    <3> QED BY <1>1, <3>2, <3>3, OwnedMoves
  <2>3. module' \in {"active", "revoked"}
    BY <1>1, Steps, TypeParts DEF TablesOk, KeepsTables, OpStep, RevokeModule, RevokeConnection,
          GrantStep, RequestGrant, ApproveGrant, RevokeGrant
  <2>4. TablesOk'
    BY <1>1, <2>1, <2>2, <2>3, GrantsTyped DEF TablesOk
  <2>5. TypeOK'
    <3>1. (TablesOk /\ SitesOk /\ WorkerOk /\ HistoryOk)' => TypeOK'
      BY DEF TypeOK, TablesOk, SitesOk, WorkerOk, HistoryOk
    <3> QED BY <1>1, <2>4, <3>1, SitesTyped, WorkerTyped, HistoryTyped
  <2> QED BY <1>1, <2>5, WorkingKept, MadeKept
<1>2. CASE UNCHANGED vars
  BY <1>2 DEF vars, TypeOK, Working, Made, Present
<1> QED BY <1>1, <1>2

-----------------------------------------------------------------------------
(* Nothing runs twice *)

\* A row keeps its request; its approval changes only as it is given or is sent for again.
LEMMA RowKept ==
    ASSUME TypeOK, Working, [Next]_vars, NEW o \in Op, op[o] # NoOp
    PROVE  /\ op[o] \in OpRow /\ SameRequest(op[o], op'[o])
           /\ \/ ApproveOperation(o) \/ PickNext(o)
              \/ /\ op'[o].until = op[o].until /\ op'[o].baseline = op[o].baseline
                 /\ \/ op'[o].status = op[o].status
                    \/ /\ op[o].status \in {"queued", "awaiting_approval"}
                       /\ op'[o].status = "cancelled"
                    \/ /\ op[o].status = "running"
                       /\ op'[o].status \in {"succeeded", "failed", "interrupted"}
<1>1. op[o] \in OpRow
  BY IsRow, TypeParts
<1>2. CASE op'[o] = op[o]
  BY <1>1, <1>2 DEF SameRequest
<1>3. CASE ApproveOperation(o)
  BY <1>1, <1>3, ApprovedRow
<1>4. CASE PickNext(o)
  BY <1>1, <1>4, PickedRow
<1>5. ASSUME NEW st \in Status, op'[o] = [op[o] EXCEPT !.status = st]
      PROVE  /\ SameRequest(op[o], op'[o]) /\ op'[o].status = st
             /\ op'[o].until = op[o].until /\ op'[o].baseline = op[o].baseline
  BY <1>1, <1>5, StatusRow DEF SameRequest
<1>6. {"cancelled", "succeeded", "failed", "interrupted"} \subseteq Status
  BY DEF Status
<1>7. Moves(o)
  BY RowMoves
<1> QED BY <1>1, <1>2, <1>3, <1>4, <1>5, <1>6, <1>7 DEF Moves

\* What was started is a row that no longer waits to be.
Started ==
    \A o \in Op : runs[o] # 0 =>
        runs[o] = 1 /\ op[o] # NoOp /\ op[o].status \notin {"queued", "awaiting_approval"}

\* Nothing puts a started row back.
LEMMA StartedKept ==
    ASSUME TypeOK, Working, Started, [Next]_vars
    PROVE  Started'
<1> SUFFICES ASSUME NEW o \in Op, runs'[o] # 0
             PROVE  /\ runs'[o] = 1 /\ op'[o] # NoOp
                    /\ op'[o].status \notin {"queued", "awaiting_approval"}
  BY DEF Started
<1>1. runs \in [Op -> Nat]
  BY TypeParts DEF HistoryOk
<1>2. CASE PickNext(o) /\ runs' # runs
  <2>1. op[o] # NoOp /\ op[o].status = "queued" /\ SameRequest(op[o], op'[o])
    BY <1>2, PickedRow
  <2>2. runs[o] = 0
    BY <2>1 DEF Started
  <2>3. op'[o].status = "running" /\ runs' = [runs EXCEPT ![o] = runs[o] + 1]
    BY <1>2, PickedRow
  <2> QED BY <1>1, <2>1, <2>2, <2>3 DEF SameRequest
<1>3. CASE ~(PickNext(o) /\ runs' # runs)
  <2>1. runs'[o] = runs[o]
    <3>1. CASE UNCHANGED runs
      BY <3>1
    <3>2. ASSUME NEW q \in Op, q # o, PickNext(q) PROVE runs'[o] = runs[o]
      <4>1. runs' = runs \/ runs' = [runs EXCEPT ![q] = runs[q] + 1]
        BY <3>2, PickedRow
      <4> QED BY <1>1, <3>2, <4>1
    <3> QED BY <1>3, <3>1, <3>2, HistoriesMove DEF vars
  <2>2. runs[o] = 1 /\ op[o] # NoOp /\ op[o].status \notin {"queued", "awaiting_approval"}
    BY <2>1 DEF Started
  <2>3. ~ApproveOperation(o) /\ ~PickNext(o)
    BY <2>2, ApprovedRow, PickedRow
  <2> QED BY <2>1, <2>2, <2>3, RowKept DEF SameRequest
<1> QED BY <1>2, <1>3

-----------------------------------------------------------------------------
(* Revocation *)

\* A grant is revoked in these steps, and stays revoked.
LEMMA RevokedMoves ==
    ASSUME TypeOK, [Next]_vars, NEW g \in Grant, grants'[g].status = "revoked"
    PROVE  grants[g].status = "revoked" \/ RevokeGrant(g) \/ RevokeModule
<1>1. grants \in [Grant -> GrantRow]
  BY TypeParts DEF TablesOk
<1>2. ASSUME NEW h \in Grant, NEW st \in {"pending", "active"}, NEW n, n.status = st,
             grants' = [grants EXCEPT ![h] = n]
      PROVE  grants[g].status = "revoked"
  BY <1>1, <1>2
<1>3. ASSUME NEW h \in Grant, RequestGrant(h) PROVE grants[g].status = "revoked"
  BY <1>1, <1>3 DEF RequestGrant, SetGrant, GrantRow
<1>4. ASSUME NEW h \in Grant, NEW A \in Actions, NEW P \in SUBSET Project, ApproveGrant(h, A, P)
      PROVE  grants[g].status = "revoked"
  BY <1>1, <1>4 DEF ApproveGrant
<1>5. ASSUME NEW h \in Grant, RevokeGrant(h) PROVE grants[g].status = "revoked" \/ h = g
  BY <1>1, <1>5 DEF RevokeGrant, SetGrant
<1>6. CASE UNCHANGED grants
  BY <1>6
<1> QED BY <1>3, <1>4, <1>5, <1>6, Steps DEF GrantStep, KeepsTables, OpStep, vars

\* A revocation cancels what waits, and nothing is added or approved after it.
LEMMA RevokedKept ==
    ASSUME TypeOK, Working, RevokedHasNoPending, [Next]_vars
    PROVE  RevokedHasNoPending'
<1> SUFFICES ASSUME NEW o \in Op, op'[o] # NoOp, grants'[op'[o].grant].status = "revoked"
             PROVE  op'[o].status \notin {"queued", "awaiting_approval"}
  BY DEF RevokedHasNoPending
<1>1. CASE op[o] = NoOp
  <2>1. PICK g \in Grant, a \in Action, p \in Project, life \in Lifetimes \cup {Never} :
            Submit(o, g, a, p, life)
    BY <1>1, RowMoves
  <2>2. op'[o].grant = g /\ GrantActive(g) /\ UNCHANGED grants
    BY <2>1, SubmittedRow DEF Submit
  <2> QED BY <2>2 DEF GrantActive
<1>2. CASE op[o] # NoOp
  <2> DEFINE g == op[o].grant
  <2>1. op[o] \in OpRow /\ op'[o].grant = g /\ g \in Grant
    BY <1>2, RowKept DEF SameRequest, OpRow
  <2>2. CASE RevokeGrant(g) \/ RevokeModule
    <3>1. PICK S : op' = Cancelled(S) /\ o \in S
      BY <1>2, <2>2 DEF RevokeGrant, RevokeModule, Ops
    <3>2. [op[o] EXCEPT !.status = "cancelled"].status = "cancelled"
      BY <2>1 DEF OpRow
    <3> QED BY <1>2, <3>1, <3>2, CancelledRows
  <2>3. CASE grants[g].status = "revoked"
    <3>1. op[o].status \notin {"queued", "awaiting_approval"}
      BY <1>2, <2>3 DEF RevokedHasNoPending
    <3>2. ~ApproveOperation(o) /\ ~PickNext(o)
      BY <3>1, ApprovedRow, PickedRow
    <3> QED BY <1>2, <3>1, <3>2, RowKept
  <2> QED BY <2>1, <2>2, <2>3, RevokedMoves
<1> QED BY <1>1, <1>2

-----------------------------------------------------------------------------
(* Approvals *)

\* What a row says of its approval is what the administrator decided.
Consented ==
    \A o \in Op : op[o] # NoOp /\ op[o].until # 0 =>
        /\ consent[o] # NoConsent
        /\ op[o].until <= consent[o].at + ApprovalWindow
        /\ op[o].action = "expiry" => op[o].baseline = consent[o].saw

\* What the worker does was approved on the deadline that the site has.
Begun ==
    wpc = "running" /\ NeedsApproval(op[cur].action, op[cur].want, op[cur].project) =>
        /\ consent[cur] # NoConsent
        /\ op[cur].action = "expiry" => consent[cur].saw = deadline[op[cur].project]

\* An approval is recorded with its time and the deadline at that time.
LEMMA ApprovalRecorded ==
    ASSUME TypeOK, Next, NEW o \in Op, ApproveOperation(o)
    PROVE  consent' = [consent EXCEPT ![o] = [at |-> now, saw |-> deadline[op[o].project]]]
BY DEF ApproveOperation

\* Another operation's approval does not matter.
LEMMA ConsentStays ==
    ASSUME TypeOK, [Next]_vars, NEW o \in Op, ~ApproveOperation(o)
    PROVE  consent'[o] = consent[o]
<1>1. consent \in [Op -> Consent \cup {NoConsent}]
  BY TypeParts DEF HistoryOk
<1>2. CASE consent' = consent
  BY <1>2
<1>3. ASSUME NEW q \in Op, q # o,
             consent' = [consent EXCEPT ![q] = [at |-> now, saw |-> deadline[op[q].project]]]
      PROVE  consent'[o] = consent[o]
  BY <1>1, <1>3
<1> QED BY <1>2, <1>3, HistoriesMove DEF vars

\* Rows keep the approval they carry, or lose it.
LEMMA ConsentedKept ==
    ASSUME TypeOK, Working, Consented, [Next]_vars
    PROVE  Consented'
<1> SUFFICES ASSUME NEW o \in Op, op'[o] # NoOp, op'[o].until # 0
             PROVE  /\ consent'[o] # NoConsent
                    /\ op'[o].until <= consent'[o].at + ApprovalWindow
                    /\ op'[o].action = "expiry" => op'[o].baseline = consent'[o].saw
  BY DEF Consented
<1>1. op[o] # NoOp
  <2>1. ASSUME op[o] = NoOp PROVE FALSE
    BY <2>1, RowMoves, SubmittedRow
  <2> QED BY <2>1
<1>2. op[o] \in OpRow /\ op'[o].action = op[o].action
  BY <1>1, RowKept DEF SameRequest
<1>3. CASE ApproveOperation(o)
  <2> DEFINE c == [at |-> now, saw |-> deadline[op[o].project]]
  <2>1. consent' = [consent EXCEPT ![o] = c]
    BY <1>3 DEF ApproveOperation
  <2>2. c \in Consent
    BY <1>2, TypeParts DEF Consent, HistoryOk, SitesOk, OpRow
  <2>3. c.at = now /\ c.saw = deadline[op[o].project]
    OBVIOUS
  <2> HIDE DEF c
  <2>4. consent'[o] = c /\ c # NoConsent
    BY <2>1, <2>2, AbsentAssumption, TypeParts DEF HistoryOk
  <2>5. /\ op'[o].until = now + ApprovalWindow
        /\ op[o].action = "expiry" => op'[o].baseline = deadline[op[o].project]
    BY <1>3, ApprovedRow
  <2>6. now + ApprovalWindow <= now + ApprovalWindow
    BY Bounds, TypeParts DEF HistoryOk, Time
  <2> QED BY <1>2, <2>3, <2>4, <2>5, <2>6
<1>4. CASE ~ApproveOperation(o)
  <2>1. /\ op'[o].until = op[o].until \/ op'[o].until = 0
        /\ op'[o].baseline = op[o].baseline
    <3>1. CASE PickNext(o)
      BY <3>1, PickedRow
    <3> QED BY <1>1, <1>4, <3>1, RowKept
  <2> QED BY <1>1, <1>2, <1>4, <2>1, ConsentStays DEF Consented
<1> QED BY <1>3, <1>4

\* The worker's look at an approval, and what it knows then.
LEMMA PickApproved ==
    ASSUME TypeOK, Consented, NEW o \in Op, op[o] # NoOp,
           NeedsApproval(op[o].action, op[o].want, op[o].project), ApprovalHolds(op[o])
    PROVE  /\ consent[o] # NoConsent /\ now <= consent[o].at + ApprovalWindow
           /\ op[o].action = "expiry" => consent[o].saw = deadline[op[o].project]
<1>1. op[o].until >= now /\ (op[o].action = "expiry" => op[o].baseline = deadline[op[o].project])
  BY DEF ApprovalHolds
<1>2. now \in Nat /\ now # 0 /\ op[o].until \in Nat
  BY IsRow, TypeParts, Bounds DEF HistoryOk, Time, OpRow
<1>3. /\ consent[o] # NoConsent /\ op[o].until <= consent[o].at + ApprovalWindow
      /\ op[o].action = "expiry" => op[o].baseline = consent[o].saw
  BY <1>1, <1>2 DEF Consented
<1>4. consent[o].at \in Nat
  BY <1>3, TypeParts, Bounds DEF HistoryOk, Consent, Time
<1> QED BY <1>1, <1>2, <1>3, <1>4, Bounds

\* A deadline does not move under the worker that was allowed to replace it.
LEMMA BegunKept ==
    ASSUME TypeOK, Working, Consented, Begun, Next
    PROVE  Begun'
<1> SUFFICES ASSUME wpc' = "running",
                    NeedsApproval(op[cur].action, op[cur].want, op[cur].project)'
             PROVE  /\ consent'[cur'] # NoConsent
                    /\ op'[cur'].action = "expiry" =>
                           consent'[cur'].saw = deadline'[op'[cur'].project]
  BY DEF Begun
<1>1. CASE UNCHANGED worker
  <2>1. /\ wpc = "running" /\ cur' = cur /\ cur \in Op /\ op'[cur] = op[cur]
        /\ op[cur].status = "running"
    BY <1>1, RowStays DEF worker
  <2>2. UNCHANGED deadline
    BY <1>1, <2>1, SitesStay
  <2>3. consent'[cur] = consent[cur]
    BY <2>1, ConsentStays, ApprovedRow
  <2> QED BY <2>1, <2>2, <2>3 DEF Begun, NeedsApproval, Shortens
<1>2. ASSUME NEW o \in Op, PickNext(o), cur' = o
      PROVE  /\ consent'[cur'] # NoConsent
             /\ op'[cur'].action = "expiry" =>
                    consent'[cur'].saw = deadline'[op'[cur'].project]
  <2>1. wpc = "idle" /\ wpc' # wpc
    BY <1>2, PickedRow
  <2>2. /\ op[o] # NoOp /\ SameRequest(op[o], op'[o]) /\ UNCHANGED <<sites, consent>>
        /\ NeedsApproval(op[o].action, op[o].want, op[o].project) => ApprovalHolds(op[o])
    BY <1>2, <2>1, PickedRow DEF worker
  <2>3. NeedsApproval(op[o].action, op[o].want, op[o].project)
    BY <1>2, <2>2 DEF NeedsApproval, Shortens, SameRequest, sites
  <2>4. op'[o].action = op[o].action /\ op'[o].project = op[o].project /\ UNCHANGED deadline
    BY <2>2 DEF SameRequest, sites
  <2> QED BY <1>2, <2>2, <2>3, <2>4, PickApproved
<1> QED BY <1>1, <1>2, WorkerMoves DEF Execute

\* The worker does harm only to the site of an operation that needs an approval.
LEMMA Harm ==
    ASSUME TypeOK, NEW r \in OpRow, Succeeds(r) \/ Fails(r),
           NEW p \in Project, Present(p), deadline'[p] < deadline[p] \/ (up[p] /\ ~up'[p])
    PROVE  /\ p = r.project /\ NeedsApproval(r.action, r.want, r.project)
           /\ deadline'[p] < deadline[p] => r.action = "expiry"
<1>1. SitesOk /\ r.project \in Project /\ r.want \in 0 .. Never /\ Never \in Nat
  BY TypeParts, Bounds DEF OpRow
<1>2. ASSUME UNCHANGED deadline, up'[p] = up[p] PROVE FALSE
  BY <1>1, <1>2 DEF SitesOk
<1>3. ASSUME NEW given, NEW date, NEW b, ~Present(r.project), Appears(r.project, given, date),
             up' = [up EXCEPT ![r.project] = b]
      PROVE  FALSE
  <2>1. p # r.project
    BY <1>3
  <2>2. deadline'[p] = deadline[p] /\ up'[p] = up[p]
    BY <1>1, <1>3, <2>1 DEF Appears, SitesOk
  <2> QED BY <1>1, <2>2 DEF SitesOk
<1>4. ASSUME NEW b \in BOOLEAN, SwitchedTo(r.project, b)
      PROVE  p = r.project /\ ~b /\ ~(deadline'[p] < deadline[p])
  <2>1. deadline' = deadline /\ up' = [up EXCEPT ![r.project] = b]
    BY <1>4 DEF SwitchedTo
  <2>2. ~(deadline'[p] < deadline[p])
    BY <1>1, <2>1 DEF SitesOk
  <2>3. p = r.project
    BY <1>1, <2>1, <2>2 DEF SitesOk
  <2>4. up'[p] = b
    BY <1>1, <2>1, <2>3 DEF SitesOk
  <2> QED BY <2>2, <2>3, <2>4
<1>5. CASE /\ r.action = "expiry" /\ deadline' = [deadline EXCEPT ![r.project] = r.want]
           /\ UNCHANGED up
  <2>1. deadline'[p] < deadline[p]
    BY <1>5
  <2>2. p = r.project /\ r.want < deadline[p] /\ deadline[p] <= Never /\ deadline[p] \in Nat
    BY <1>1, <1>5, <2>1 DEF SitesOk
  <2>3. Shortens(r.want, r.project)
    BY <1>1, <2>2 DEF Shortens
  <2> QED BY <1>5, <2>2, <2>3 DEF NeedsApproval
<1>6. CASE UNCHANGED sites
  BY <1>2, <1>6 DEF sites
<1>7. CASE r.action = "start" /\ (SwitchedTo(r.project, TRUE) \/ SwitchedTo(r.project, r.action = "start"))
  <2>1. (r.action = "start") = TRUE
    BY <1>7
  <2> QED BY <1>4, <1>7, <2>1
<1>8. CASE r.action = "stop" /\ (SwitchedTo(r.project, FALSE) \/ SwitchedTo(r.project, r.action = "start"))
  <2>1. (r.action = "start") = FALSE
    BY <1>8
  <2> QED BY <1>4, <1>8, <2>1 DEF NeedsApproval
<1>9. CASE Succeeds(r)
  BY <1>3, <1>5, <1>6, <1>7, <1>8, <1>9 DEF Succeeds
<1>10. CASE Fails(r)
  BY <1>3, <1>6, <1>7, <1>8, <1>10 DEF Fails
<1> QED BY <1>9, <1>10

\* What HarmApproved says of a step.
LEMMA HarmIsApproved ==
    ASSUME TypeOK, Working, Consented, Begun, Next
    PROVE  /\ \A p \in Project :
                  wpc = "running" /\ wpc' = "done" /\ Present(p)
                    /\ (deadline'[p] < deadline[p] \/ (up[p] /\ ~up'[p]))
                  => /\ consent[cur] # NoConsent
                     /\ deadline'[p] < deadline[p] => consent[cur].saw = deadline[p]
           /\ \A o \in Op :
                  cur' = o /\ cur # o
                    /\ NeedsApproval(op[o].action, op[o].want, op[o].project)
                  => consent[o] # NoConsent /\ now <= consent[o].at + ApprovalWindow
<1>1. ASSUME NEW p \in Project, wpc = "running", wpc' = "done", Present(p),
             deadline'[p] < deadline[p] \/ (up[p] /\ ~up'[p])
      PROVE  /\ consent[cur] # NoConsent
             /\ deadline'[p] < deadline[p] => consent[cur].saw = deadline[p]
  <2>1. Execute
    BY <1>1, WorkerMoves DEF worker
  <2>2. (Succeeds(op[cur]) \/ Fails(op[cur])) /\ op[cur] \in OpRow
    BY <1>1, <2>1, IsRow, TypeParts DEF Execute, Working
  <2>3. /\ p = op[cur].project
        /\ NeedsApproval(op[cur].action, op[cur].want, op[cur].project)
        /\ deadline'[p] < deadline[p] => op[cur].action = "expiry"
    BY <1>1, <2>2, Harm
  <2> QED BY <1>1, <2>3 DEF Begun
<1>2. ASSUME NEW o \in Op, cur' = o, cur # o,
             NeedsApproval(op[o].action, op[o].want, op[o].project)
      PROVE  consent[o] # NoConsent /\ now <= consent[o].at + ApprovalWindow
  <2>1. PickNext(o)
    BY <1>2, WorkerMoves, AbsentAssumption DEF worker, Execute
  <2>2. op[o] # NoOp /\ ApprovalHolds(op[o])
    BY <1>2, <2>1, PickedRow DEF worker
  <2> QED BY <1>2, <2>2, PickApproved
<1> QED BY <1>1, <1>2

-----------------------------------------------------------------------------
(* The quota *)

\* Nobody has to approve a creation, so none is in the queue twice.
CreatesDoNotWait ==
    \A o \in Op : op[o] # NoOp /\ op[o].action = "create" => op[o].status # "awaiting_approval"

\* A creation is queued at once and never sent to an administrator.
LEMMA CreatesDoNotWaitKept ==
    ASSUME TypeOK, Working, CreatesDoNotWait, [Next]_vars
    PROVE  CreatesDoNotWait'
<1> SUFFICES ASSUME NEW o \in Op, op'[o] # NoOp, op'[o].action = "create"
             PROVE  op'[o].status # "awaiting_approval"
  BY DEF CreatesDoNotWait
<1>1. CASE op[o] = NoOp
  BY <1>1, RowMoves, SubmittedRow
<1>2. CASE op[o] # NoOp
  <2>1. op[o].action = "create" /\ op[o].status # "awaiting_approval"
    BY <1>2, RowKept DEF SameRequest, CreatesDoNotWait
  <2>2. ~NeedsApproval(op[o].action, op[o].want, op[o].project)
    BY <2>1 DEF NeedsApproval
  <2> QED BY <1>2, <2>1, <2>2, RowKept, ApprovedRow, PickedRow
<1> QED BY <1>1, <1>2

\* The sites made for a grant, and not being made again.
MadeFor(g) ==
    {p \in OwnedNow(g) : <<g, "made">> \in rights[p] /\ \A o \in ActiveCreates(g) : op[o].project # p}

Sites(S) == {op[o].project : o \in S}

\* What the quota counts is finite.
LEMMA CountsAreNumbers ==
    ASSUME NEW g \in Grant
    PROVE  /\ IsFiniteSet(ActiveCreates(g)) /\ IsFiniteSet(OwnedNow(g)) /\ IsFiniteSet(MadeFor(g))
           /\ Cardinality(ActiveCreates(g)) \in Nat /\ Cardinality(OwnedNow(g)) \in Nat
           /\ Cardinality(MadeFor(g)) \in Nat /\ Cardinality(MadeFor(g)) <= Cardinality(OwnedNow(g))
           /\ ActiveCreates(g) \subseteq Op /\ MadeFor(g) \subseteq OwnedNow(g)
<1>1. ActiveCreates(g) \subseteq Op
  BY DEF ActiveCreates, Ops
<1>2. IsFiniteSet(Op)
  BY FS_Interval, Bounds DEF Op
<1>3. OwnedNow(g) \subseteq Project /\ MadeFor(g) \subseteq OwnedNow(g)
  BY DEF OwnedNow, MadeFor
<1>4. IsFiniteSet(ActiveCreates(g)) /\ IsFiniteSet(OwnedNow(g))
  BY <1>1, <1>2, <1>3, FS_Subset, ConstantAssumption
<1>5. IsFiniteSet(MadeFor(g)) /\ Cardinality(MadeFor(g)) <= Cardinality(OwnedNow(g))
  BY <1>3, <1>4, FS_Subset
<1> QED BY <1>1, <1>3, <1>4, <1>5, FS_CardinalityType

\* The sites of a set of operations are no more than the operations.
LEMMA SitesOfOperations ==
    ASSUME NEW S, IsFiniteSet(S)
    PROVE  IsFiniteSet(Sites(S)) /\ Cardinality(Sites(S)) <= Cardinality(S)
<1> DEFINE f == [o \in S |-> op[o].project]
<1>1. f \in Surjection(S, Sites(S))
  BY DEF Surjection, Sites
<1> HIDE DEF f
<1> QED BY <1>1, FS_Surjection

\* A grant may lose creations to sites that are made, and gains none.
LEMMA QuotaCount ==
    ASSUME NEW g \in Grant, ActiveCreates(g)' \subseteq ActiveCreates(g),
           MadeFor(g)' \subseteq MadeFor(g) \cup Sites(ActiveCreates(g) \ ActiveCreates(g)')
    PROVE  /\ Cardinality(MadeFor(g)') \in Nat /\ Cardinality(ActiveCreates(g)') \in Nat
           /\ Cardinality(MadeFor(g)') + Cardinality(ActiveCreates(g)')
                  <= Cardinality(MadeFor(g)) + Cardinality(ActiveCreates(g))
<1> DEFINE A == ActiveCreates(g)
           B == ActiveCreates(g)'
           L == A \ B
           M == MadeFor(g)
<1>1. /\ IsFiniteSet(A) /\ IsFiniteSet(M) /\ Cardinality(A) \in Nat /\ Cardinality(M) \in Nat
  BY CountsAreNumbers
<1>2. IsFiniteSet(B) /\ IsFiniteSet(L) /\ Cardinality(B) \in Nat /\ Cardinality(L) \in Nat
  BY <1>1, FS_Subset, FS_CardinalityType
<1>3. Cardinality(A) = Cardinality(B) + Cardinality(L)
  <2>1. A = B \cup L /\ B \cap L = {}
    OBVIOUS
  <2> HIDE DEF A, B, L
  <2>2. Cardinality(B \cup L) = Cardinality(B) + Cardinality(L) - Cardinality(B \cap L)
    BY <1>2, FS_Union
  <2> QED BY <1>2, <2>1, <2>2, FS_EmptySet
<1>4. /\ IsFiniteSet(Sites(L)) /\ Cardinality(Sites(L)) <= Cardinality(L)
      /\ Cardinality(Sites(L)) \in Nat
  BY <1>2, SitesOfOperations, FS_CardinalityType
<1>5. Cardinality(M \cup Sites(L)) <= Cardinality(M) + Cardinality(L)
      /\ IsFiniteSet(M \cup Sites(L)) /\ Cardinality(M \cup Sites(L)) \in Nat
  <2> HIDE DEF A, B, L, M
  <2>1. /\ IsFiniteSet(M \cup Sites(L))
        /\ Cardinality(M \cup Sites(L))
              = Cardinality(M) + Cardinality(Sites(L)) - Cardinality(M \cap Sites(L))
    BY <1>1, <1>4, FS_Union
  <2>2. Cardinality(M \cap Sites(L)) \in Nat
    <3>1. M \cap Sites(L) \in SUBSET M
      OBVIOUS
    <3> QED BY <1>1, <3>1, FS_Subset, FS_CardinalityType
  <2> QED BY <1>1, <1>2, <1>4, <2>1, <2>2, FS_CardinalityType
<1>6. Cardinality(MadeFor(g)') <= Cardinality(M \cup Sites(L)) /\ Cardinality(MadeFor(g)') \in Nat
  BY <1>5, FS_Subset, FS_CardinalityType
<1> QED BY <1>1, <1>2, <1>3, <1>5, <1>6

\* A site that was made for a grant is there already, or the worker makes it now.
LEMMA Origin ==
    ASSUME TypeOK, Working, Next, NEW p \in Project, NEW g \in Grant,
           inode'[p] # NoInode, <<g, "made">> \in rights'[p]
    PROVE  \/ Present(p) /\ <<g, "made">> \in rights[p]
           \/ /\ wpc = "running" /\ op[cur].action = "create"
              /\ op[cur].project = p /\ op[cur].grant = g
<1>1. SitesOk
  BY TypeParts
<1>2. ASSUME UNCHANGED <<inode, rights>> PROVE Present(p) /\ <<g, "made">> \in rights[p]
  BY <1>2 DEF Present
<1>3. ASSUME NEW q \in Project, NEW given, NEW date, Appears(q, given, date)
      PROVE  (p # q => Present(p) /\ <<g, "made">> \in rights[p]) /\ (p = q => <<g, "made">> \in given)
  BY <1>1, <1>3 DEF Appears, Present, SitesOk
<1>4. ASSUME NEW r \in OpRow, r = op[cur], wpc = "running", Succeeds(r) \/ Fails(r)
      PROVE  \/ Present(p) /\ <<g, "made">> \in rights[p]
             \/ /\ wpc = "running" /\ op[cur].action = "create"
                /\ op[cur].project = p /\ op[cur].grant = g
  <2>1. CASE r.action = "create" /\ Appears(r.project, {<<r.grant, "made">>}, After(r.life))
    BY <1>3, <1>4, <2>1 DEF OpRow
  <2>2. CASE UNCHANGED <<inode, rights>>
    BY <1>2, <2>2
  <2>3. CASE Succeeds(r)
    BY <2>1, <2>2, <2>3 DEF Succeeds, SwitchedTo, sites
  <2>4. CASE Fails(r)
    <3>1. ASSUME NEW b, SwitchedTo(r.project, b) PROVE UNCHANGED <<inode, rights>>
      BY <3>1 DEF SwitchedTo
    <3>2. \/ UNCHANGED sites
          \/ SwitchedTo(r.project, r.action = "start")
          \/ r.action = "create" /\ Appears(r.project, {<<r.grant, "made">>}, After(r.life))
      BY <2>4 DEF Fails
    <3>3. CASE UNCHANGED sites
      BY <2>2, <3>3 DEF sites
    <3> QED BY <2>1, <2>2, <3>1, <3>2, <3>3
  <2> QED BY <1>4, <2>3, <2>4
<1>5. ASSUME NEW q \in Project, SiteStep(q) PROVE Present(p) /\ <<g, "made">> \in rights[p]
  <2>1. ASSUME NEW l, AdminCreates(q, l) PROVE Present(p) /\ <<g, "made">> \in rights[p]
    BY <1>3, <2>1 DEF AdminCreates
  <2>2. CASE Destroyed(q)
    BY <1>1, <2>2 DEF Destroyed, Present, SitesOk
  <2>3. ASSUME NEW l, AdminSetsDeadline(q, l) PROVE UNCHANGED <<inode, rights>>
    BY <2>3 DEF AdminSetsDeadline
  <2>4. CASE AdminSwitches(q)
    <3>1. ASSUME NEW b, SwitchedTo(q, b) PROVE UNCHANGED <<inode, rights>>
      BY <3>1 DEF SwitchedTo
    <3> QED BY <1>2, <2>4, <3>1 DEF AdminSwitches
  <2>5. CASE \E l \in Lifetimes \cup {Never} : AdminCreates(q, l) \/ AdminSetsDeadline(q, l)
    BY <1>2, <2>1, <2>3, <2>5
  <2> QED BY <1>5, <2>2, <2>4, <2>5 DEF SiteStep
<1>6. ASSUME NEW h \in Grant, NEW A \in Actions, NEW P \in SUBSET Project, ApproveGrant(h, A, P)
      PROVE  Present(p) /\ <<g, "made">> \in rights[p]
  BY <1>1, <1>6 DEF ApproveGrant, Present
<1>7. wpc = "running" => op[cur] \in OpRow
  BY IsRow, TypeParts DEF Working
<1> QED BY <1>2, <1>4, <1>5, <1>6, <1>7, SitesMove DEF sites, Execute

\* Creations of a grant only end, but for a submission.
LEMMA CreatesOnlyLeave ==
    ASSUME TypeOK, Working, CreatesDoNotWait, Next, NEW g \in Grant,
           ~ \E o \in Op, p \in Project, life \in Lifetimes \cup {Never} :
                Submit(o, g, "create", p, life)
    PROVE  ActiveCreates(g)' \subseteq ActiveCreates(g)
<1> SUFFICES ASSUME NEW o \in Op, op'[o] # NoOp, op'[o].grant = g, op'[o].action = "create",
                    op'[o].status \in {"queued", "running"}
             PROVE  o \in ActiveCreates(g)
  BY DEF ActiveCreates, Ops
<1>1. op[o] # NoOp
  <2> SUFFICES ASSUME op[o] = NoOp PROVE FALSE
    OBVIOUS
  <2>1. PICK h \in Grant, a \in Action, p \in Project, life \in Lifetimes \cup {Never} :
            Submit(o, h, a, p, life)
    BY RowMoves
  <2>2. h = g /\ a = "create"
    BY <2>1, SubmittedRow
  <2> QED BY <2>1, <2>2
<1>2. op[o].grant = g /\ op[o].action = "create" /\ op[o].status # "awaiting_approval"
  BY <1>1, RowKept DEF SameRequest, CreatesDoNotWait
<1>3. op[o].status \in {"queued", "running"}
  BY <1>1, <1>2, RowKept, ApprovedRow, PickedRow
<1> QED BY <1>1, <1>2, <1>3 DEF ActiveCreates, Ops

\* A site is made for a grant, or becomes its own, as one of its creations ends.
LEMMA MadeOnlyFromCreates ==
    ASSUME TypeOK, Working, CreatesDoNotWait, Next, NEW g \in Grant
    PROVE  MadeFor(g)' \subseteq MadeFor(g) \cup Sites(ActiveCreates(g) \ ActiveCreates(g)')
<1> SUFFICES ASSUME NEW p \in Project, owned'[p] # NoOwner, owned'[p].grant = g,
                    inode'[p] # NoInode, <<g, "made">> \in rights'[p],
                    \A o \in ActiveCreates(g)' : op'[o].project # p,
                    p \notin Sites(ActiveCreates(g) \ ActiveCreates(g)')
             PROVE  p \in MadeFor(g)
  BY DEF MadeFor, OwnedNow, Present
<1>1. ASSUME NEW o \in ActiveCreates(g) PROVE op[o].project # p
  <2>1. o \in Op /\ op[o] # NoOp
    BY DEF ActiveCreates, Ops
  <2>2. op'[o].project = op[o].project
    BY <2>1, RowKept DEF SameRequest
  <2> QED BY <2>2 DEF Sites
<1>2. ASSUME wpc \in {"running", "done"}, op[cur].action = "create", op[cur].project = p,
             op[cur].grant = g
      PROVE  FALSE
  <2>1. cur \in ActiveCreates(g)
    BY <1>2 DEF Working, ActiveCreates, Ops
  <2> QED BY <1>1, <1>2, <2>1
<1>3. Present(p) /\ <<g, "made">> \in rights[p]
  BY <1>2, Origin
<1>4. owned[p] # NoOwner /\ owned[p].grant = g
  <2>1. CASE owned' = owned
    BY <2>1
  <2>2. CASE Bookkeep /\ op[cur].action = "create"
             /\ owned' = [owned EXCEPT ![op[cur].project] =
                              [grant |-> op[cur].grant, inode |-> inode[op[cur].project]]]
    <3>1. wpc = "done" /\ owned \in [Project -> OwnerRow \cup {NoOwner}]
      BY <2>2, TypeParts DEF Bookkeep, TablesOk
    <3>2. p # op[cur].project
      BY <1>2, <2>2, <3>1
    <3> QED BY <2>2, <3>1, <3>2
  <2> QED BY <2>1, <2>2, OwnedMoves
<1> QED BY <1>1, <1>3, <1>4 DEF MadeFor, OwnedNow

\* A submission looks at the quota, and every other step keeps the count.
LEMMA QuotaKept ==
    ASSUME TypeOK, Working, CreatesDoNotWait, GrantWithinQuota, [Next]_vars
    PROVE  GrantWithinQuota'
<1> SUFFICES ASSUME NEW g \in Grant
             PROVE  Cardinality(MadeFor(g)') + Cardinality(ActiveCreates(g)') <= Quota
  BY DEF GrantWithinQuota, MadeFor
<1>1. Cardinality(MadeFor(g)) + Cardinality(ActiveCreates(g)) <= Quota
  BY DEF GrantWithinQuota, MadeFor
<1>2. CASE UNCHANGED vars
  BY <1>1, <1>2 DEF vars, MadeFor, OwnedNow, ActiveCreates, Ops, Present
<1>3. CASE Next /\ ~ \E o \in Op, p \in Project, life \in Lifetimes \cup {Never} :
                        Submit(o, g, "create", p, life)
  <2>1. /\ Cardinality(MadeFor(g)') \in Nat /\ Cardinality(ActiveCreates(g)') \in Nat
        /\ Cardinality(MadeFor(g)') + Cardinality(ActiveCreates(g)')
               <= Cardinality(MadeFor(g)) + Cardinality(ActiveCreates(g))
    BY <1>3, CreatesOnlyLeave, MadeOnlyFromCreates, QuotaCount
  <2> QED BY <1>1, <2>1, CountsAreNumbers, Bounds
<1>4. ASSUME NEW o \in Op, NEW p \in Project, NEW life \in Lifetimes \cup {Never},
             Submit(o, g, "create", p, life)
      PROVE  Cardinality(MadeFor(g)') + Cardinality(ActiveCreates(g)') <= Quota
  <2>1. /\ op[o] = NoOp /\ Others(o) /\ WithinQuota(g) /\ UNCHANGED <<owned, inode, rights>>
    BY <1>4, SubmittedRow, ConstantAssumption DEF Submit, sites, Action
  <2>2. ActiveCreates(g)' \subseteq ActiveCreates(g) \cup {o}
    BY <2>1 DEF ActiveCreates, Ops, Others
  <2>3. MadeFor(g)' \subseteq OwnedNow(g)
    BY <2>1 DEF MadeFor, OwnedNow, Present
  <2>4. /\ Cardinality(MadeFor(g)') <= Cardinality(OwnedNow(g))
        /\ Cardinality(MadeFor(g)') \in Nat /\ Cardinality(OwnedNow(g)) \in Nat
    BY <2>3, CountsAreNumbers, FS_Subset, FS_CardinalityType
  <2>5. /\ Cardinality(ActiveCreates(g)') <= Cardinality(ActiveCreates(g)) + 1
        /\ Cardinality(ActiveCreates(g)') \in Nat /\ Cardinality(ActiveCreates(g)) \in Nat
    <3>1. IsFiniteSet(ActiveCreates(g)) /\ Cardinality(ActiveCreates(g)) \in Nat
      BY CountsAreNumbers
    <3>2. /\ IsFiniteSet(ActiveCreates(g) \cup {o})
          /\ Cardinality(ActiveCreates(g) \cup {o}) <= Cardinality(ActiveCreates(g)) + 1
          /\ Cardinality(ActiveCreates(g) \cup {o}) \in Nat
      BY <3>1, FS_AddElement, FS_CardinalityType
    <3> QED BY <2>2, <3>1, <3>2, FS_Subset, FS_CardinalityType
  <2> QED BY <2>1, <2>4, <2>5, Bounds DEF WithinQuota
<1> QED BY <1>2, <1>3, <1>4

-----------------------------------------------------------------------------
(* Sites keep their identity, if the file system does not give one out again *)

\* Whatever names a directory names one that was made; and who has named the
\* present one was given it.
Known ==
    /\ \A p \in Project : Present(p) => inode[p] \in used
    /\ \A p \in Project : owned[p] # NoOwner => owned[p].inode \in used
    /\ \A g \in Grant, p \in Project, i \in Inode : <<p, i>> \in grants[g].projects => i \in used
    /\ \A g \in Grant, p \in Project :
          Present(p) /\ <<p, inode[p]>> \in grants[g].projects => <<g, "approved">> \in rights[p]
    /\ \A p \in Project :
          Present(p) /\ owned[p] # NoOwner /\ owned[p].inode = inode[p]
              => <<owned[p].grant, "made">> \in rights[p]

\* A site stays what it is, goes, or is made with an identity of its own.
SiteChange ==
    /\ used \subseteq used'
    /\ \A p \in Project : \/ inode'[p] = inode[p] /\ rights[p] \subseteq rights'[p]
                          \/ inode'[p] = NoInode
                          \/ inode'[p] \in used' \ used

\* A new directory has an identity that none had.
LEMMA AppearsChange ==
    ASSUME TypeOK, ReuseInodes = FALSE, NEW q \in Project, NEW given, NEW date,
           Appears(q, given, date)
    PROVE  SiteChange
<1>1. PICK i \in Inode \ used : /\ inode' = [inode EXCEPT ![q] = i] /\ used' = used \cup {i}
                                /\ rights' = [rights EXCEPT ![q] = given]
  BY DEF Appears, FreshInodes
<1> QED BY <1>1, TypeParts DEF SitesOk, SiteChange

\* Every step does no more than that to sites.
LEMMA SitesChange ==
    ASSUME TypeOK, Working, ReuseInodes = FALSE, Next
    PROVE  SiteChange
<1>1. ASSUME UNCHANGED <<inode, rights, used>> PROVE SiteChange
  BY <1>1 DEF SiteChange
<1>2. ASSUME NEW q, NEW b, SwitchedTo(q, b) PROVE UNCHANGED <<inode, rights, used>>
  BY <1>2 DEF SwitchedTo
<1>3. ASSUME NEW r \in OpRow, Succeeds(r) \/ Fails(r) PROVE SiteChange
  <2>1. r.project \in Project
    BY DEF OpRow
  <2>2. CASE Succeeds(r)
    <3>1. \/ UNCHANGED <<inode, rights, used>>
          \/ SwitchedTo(r.project, TRUE) \/ SwitchedTo(r.project, FALSE)
          \/ Appears(r.project, {<<r.grant, "made">>}, After(r.life))
      BY <2>2 DEF Succeeds, sites
    <3> QED BY <1>1, <1>2, <2>1, <3>1, AppearsChange
  <2>3. CASE Fails(r)
    <3>1. \/ UNCHANGED sites
          \/ SwitchedTo(r.project, r.action = "start")
          \/ Appears(r.project, {<<r.grant, "made">>}, After(r.life))
      BY <2>3 DEF Fails
    <3>2. CASE UNCHANGED sites
      BY <1>1, <3>2 DEF sites
    <3> QED BY <1>1, <1>2, <2>1, <3>1, <3>2, AppearsChange
  <2> QED BY <1>3, <2>2, <2>3
<1>4. ASSUME NEW q \in Project, SiteStep(q) PROVE SiteChange
  <2>1. ASSUME NEW l, AdminCreates(q, l) PROVE SiteChange
    BY <2>1, AppearsChange DEF AdminCreates
  <2>2. ASSUME NEW l, AdminSetsDeadline(q, l) PROVE SiteChange
    BY <1>1, <2>2 DEF AdminSetsDeadline
  <2>3. CASE Destroyed(q)
    BY <2>3, TypeParts DEF Destroyed, SiteChange, SitesOk
  <2>4. CASE AdminSwitches(q)
    BY <1>1, <1>2, <2>4 DEF AdminSwitches
  <2> QED BY <1>4, <2>1, <2>2, <2>3, <2>4 DEF SiteStep
<1>5. ASSUME NEW g \in Grant, NEW A \in Actions, NEW P \in SUBSET Project, ApproveGrant(g, A, P)
      PROVE  SiteChange
  BY <1>5, TypeParts DEF ApproveGrant, SiteChange, SitesOk
<1>6. wpc = "running" => op[cur] \in OpRow
  BY IsRow, TypeParts DEF Working
<1>7. CASE UNCHANGED sites
  BY <1>1, <1>7 DEF sites
<1> QED BY <1>3, <1>4, <1>5, <1>6, <1>7, SitesMove DEF Execute

\* The sites a grant was approved for, and those it owns, are given when they are there.
LEMMA ProjectsMove ==
    ASSUME TypeOK, Next
    PROVE  \/ \A g \in Grant : grants'[g].projects = grants[g].projects
           \/ \E g \in Grant, A \in Actions, P \in SUBSET Project : ApproveGrant(g, A, P)
<1>1. grants \in [Grant -> GrantRow]
  BY TypeParts DEF TablesOk
<1>2. ASSUME NEW h \in Grant, NEW st, SetGrant(h, st)
      PROVE  \A g \in Grant : grants'[g].projects = grants[g].projects
  BY <1>1, <1>2 DEF SetGrant, GrantRow
<1>3. CASE RevokeModule
  BY <1>1, <1>3 DEF RevokeModule, GrantRow
<1>4. CASE \E g \in Grant : RequestGrant(g) \/ RevokeGrant(g)
  BY <1>2, <1>4 DEF RequestGrant, RevokeGrant
<1>5. CASE UNCHANGED grants
  BY <1>5
<1> QED BY <1>3, <1>4, <1>5, Steps DEF GrantStep, KeepsTables, OpStep

\* Approvals and bookkeeping name present directories; new ones are named by nobody.
LEMMA KnownKept ==
    ASSUME TypeOK, Working, Made, Known, ReuseInodes = FALSE, Next
    PROVE  Known'
<1>1. SiteChange
  BY SitesChange
<1>2. /\ SitesOk /\ TablesOk
  BY TypeParts
<1>3. \A p \in Project : Present(p)' => inode'[p] \in used'
  BY <1>1 DEF SiteChange, Known, Present
<1>4. /\ \A p \in Project : owned'[p] # NoOwner => owned'[p].inode \in used'
      /\ \A p \in Project : Present(p)' /\ owned'[p] # NoOwner /\ owned'[p].inode = inode'[p]
             => <<owned'[p].grant, "made">> \in rights'[p]
  <2>1. CASE owned' = owned
    BY <1>1, <2>1 DEF SiteChange, Known, Present
  <2>2. CASE /\ Bookkeep /\ outcome = "succeeded" /\ op[cur].action = "create"
             /\ owned' = [owned EXCEPT ![op[cur].project] =
                             [grant |-> op[cur].grant, inode |-> inode[op[cur].project]]]
    <3>1. /\ UNCHANGED <<inode, used, rights>> /\ wpc = "done"
      BY <2>2 DEF Bookkeep, sites
    <3>2. op[cur].project \in Project
      BY <3>1, IsRow DEF Working, OpRow, TypeOK, TablesOk
    <3>3. /\ Present(op[cur].project) /\ inode[op[cur].project] \in used
          /\ <<op[cur].grant, "made">> \in rights[op[cur].project]
      BY <2>2, <3>1, <3>2 DEF Made, Known
    <3> QED BY <1>2, <2>2, <3>1, <3>2, <3>3 DEF TablesOk, Known, Present
  <2> QED BY <2>1, <2>2, OwnedMoves
<1>5. /\ \A g \in Grant, p \in Project, i \in Inode :
             <<p, i>> \in grants'[g].projects => i \in used'
      /\ \A g \in Grant, p \in Project :
             Present(p)' /\ <<p, inode'[p]>> \in grants'[g].projects
                 => <<g, "approved">> \in rights'[p]
  <2>1. CASE \A g \in Grant : grants'[g].projects = grants[g].projects
    <3>1. inode' \in [Project -> Inode \cup {NoInode}]
      BY SitesTyped DEF SitesOk
    <3> QED BY <1>1, <2>1, <3>1 DEF SiteChange, Known, Present
  <2>2. ASSUME NEW h \in Grant, NEW A \in Actions, NEW P \in SUBSET Project, ApproveGrant(h, A, P)
        PROVE  /\ \A g \in Grant, p \in Project, i \in Inode :
                      <<p, i>> \in grants'[g].projects => i \in used'
               /\ \A g \in Grant, p \in Project :
                      Present(p)' /\ <<p, inode'[p]>> \in grants'[g].projects
                          => <<g, "approved">> \in rights'[p]
    <3>1. /\ UNCHANGED <<inode, used>>
          /\ \A p \in Project : rights[p] \subseteq rights'[p]
          /\ \A p \in P : Present(p) /\ <<h, "approved">> \in rights'[p]
      BY <2>2 DEF ApproveGrant
    <3>2. /\ grants'[h].projects = {<<p, inode[p]>> : p \in P}
          /\ \A g \in Grant : g # h => grants'[g] = grants[g]
      BY <1>2, <2>2 DEF ApproveGrant, TablesOk
    <3>3. ASSUME NEW p, NEW i, <<p, i>> \in grants'[h].projects PROVE p \in P /\ i = inode[p]
      BY <3>2, <3>3
    <3>4. ASSUME NEW g \in Grant, NEW p \in Project, NEW i \in Inode,
                 <<p, i>> \in grants'[g].projects
          PROVE  i \in used
      <4>1. CASE g = h
        BY <3>1, <3>3, <3>4, <4>1 DEF Known
      <4> QED BY <3>2, <3>4, <4>1 DEF Known
    <3>5. ASSUME NEW g \in Grant, NEW p \in Project, inode[p] # NoInode,
                 <<p, inode[p]>> \in grants'[g].projects
          PROVE  <<g, "approved">> \in rights'[p]
      <4>1. CASE g = h
        BY <3>1, <3>3, <3>5, <4>1
      <4> QED BY <3>1, <3>2, <3>5, <4>1 DEF Known, Present
    <3> QED BY <3>1, <3>4, <3>5 DEF Present
  <2> QED BY <2>1, <2>2, ProjectsMove
<1> QED BY <1>3, <1>4, <1>5 DEF Known

\* What was permitted when the worker began stays given while it works.
LEMMA TouchesKept ==
    ASSUME TypeOK, Working, Known, TouchesGivenSite, Next
    PROVE  TouchesGivenSite'
<1> DEFINE Given(r) == \E how \in {"made", "approved"} : <<r.grant, how>> \in rights[r.project]
<1> SUFFICES ASSUME wpc' = "running", op'[cur'].action # "create"
             PROVE  /\ inode'[op'[cur'].project] # NoInode
                    /\ \E how \in {"made", "approved"} :
                          <<op'[cur'].grant, how>> \in rights'[op'[cur'].project]
  BY DEF TouchesGivenSite, Present
<1>1. CASE UNCHANGED worker
  <2>1. wpc = "running" /\ cur' = cur /\ op'[cur] = op[cur] /\ op[cur] \in OpRow
    BY <1>1, RowStays DEF worker
  <2>2. op[cur].project \in Project
    BY <2>1 DEF OpRow
  <2>3. Present(op[cur].project) /\ Given(op[cur])
    BY <2>1 DEF TouchesGivenSite
  <2>4. UNCHANGED inode /\ rights[op[cur].project] \subseteq rights'[op[cur].project]
    BY <1>1, <2>1, <2>2, SitesStay
  <2> QED BY <2>1, <2>3, <2>4 DEF Present
<1>2. ASSUME NEW o \in Op, PickNext(o), cur' = o
      PROVE  /\ inode'[op'[cur'].project] # NoInode
             /\ \E how \in {"made", "approved"} :
                   <<op'[cur'].grant, how>> \in rights'[op'[cur'].project]
  <2>1. /\ op[o] # NoOp /\ SameRequest(op[o], op'[o]) /\ UNCHANGED sites
        /\ StillAuthorized(op[o])
    BY <1>2, PickedRow DEF worker
  <2>2. /\ op'[o].action = op[o].action /\ op'[o].project = op[o].project
        /\ op'[o].grant = op[o].grant /\ UNCHANGED <<inode, rights>>
    BY <2>1 DEF SameRequest, sites
  <2>3. Permitted(op[o].grant, op[o].project)
    BY <1>2, <2>1, <2>2 DEF StillAuthorized
  <2>4. op[o].project \in Project /\ op[o].grant \in Grant
    BY <2>1, IsRow, TypeParts DEF OpRow
  <2>5. Present(op[o].project) /\ Given(op[o])
    BY <2>3, <2>4 DEF Permitted, Known
  <2> QED BY <1>2, <2>2, <2>5 DEF Present
<1> QED BY <1>1, <1>2, WorkerMoves DEF Execute

-----------------------------------------------------------------------------
(* Theorems *)

\* The inductive invariant: the types; what the worker holds and has made; what
\* was started; and what the table says of revocations, approvals and the quota.
IInv ==
    /\ TypeOK
    /\ Working
    /\ Made
    /\ Started
    /\ RevokedHasNoPending
    /\ Consented
    /\ Begun
    /\ CreatesDoNotWait
    /\ GrantWithinQuota

\* The invariant holds at first ...
LEMMA InitInv == Init => IInv
<1> SUFFICES ASSUME Init PROVE IInv
  OBVIOUS
<1>1. TypeOK /\ Working /\ Made
  BY InitTyped
<1>2. \A o \in Op : op[o] = NoOp
  BY DEF Init
<1>3. Started
  BY DEF Init, Started
<1>4. RevokedHasNoPending /\ Consented /\ CreatesDoNotWait
  BY <1>2 DEF RevokedHasNoPending, Consented, CreatesDoNotWait
<1>5. Begun
  BY DEF Init, Begun
<1>6. GrantWithinQuota
  <2> SUFFICES ASSUME NEW g \in Grant
               PROVE  Cardinality(MadeFor(g)) + Cardinality(ActiveCreates(g)) <= Quota
    BY DEF GrantWithinQuota, MadeFor
  <2>1. ActiveCreates(g) = {} /\ MadeFor(g) = {}
    BY <1>2 DEF Init, ActiveCreates, Ops, MadeFor, OwnedNow
  <2> QED BY <2>1, FS_EmptySet, Bounds
<1> QED BY <1>1, <1>3, <1>4, <1>5, <1>6 DEF IInv

\* ... and in every step ...
LEMMA NextInv == IInv /\ [Next]_vars => IInv'
<1> SUFFICES ASSUME IInv, [Next]_vars PROVE IInv'
  OBVIOUS
<1>1. TypeOK' /\ Working' /\ Made'
  BY NextTyped DEF IInv
<1>2. Started' /\ RevokedHasNoPending' /\ CreatesDoNotWait' /\ GrantWithinQuota'
  BY StartedKept, RevokedKept, CreatesDoNotWaitKept, QuotaKept DEF IInv
<1>3. Consented'
  BY ConsentedKept DEF IInv
<1>4. Begun'
  <2>1. CASE Next
    BY <2>1, BegunKept DEF IInv
  <2>2. CASE UNCHANGED vars
    BY <2>2 DEF IInv, Begun, vars, NeedsApproval, Shortens
  <2> QED BY <2>1, <2>2
<1> QED BY <1>1, <1>2, <1>3, <1>4 DEF IInv

\* ... and so always.
THEOREM Inductive == Spec => []IInv
BY InitInv, NextInv, PTL DEF Spec

\* Tables, sites, the worker and the histories have their types.
THEOREM TypeCorrect == Spec => []TypeOK
<1>1. IInv => TypeOK
  BY DEF IInv
<1> QED BY <1>1, Inductive, PTL

\* No operation is executed twice, across crashes, lost bookkeeping and second
\* approvals: the transaction that starts an operation takes it out of the
\* statuses the worker picks from, and nothing puts it back (run_one, start_worker).
THEOREM RunOnce == Spec => []RunsOnce
<1>1. IInv => RunsOnce
  <2> SUFFICES ASSUME IInv, NEW o \in Op PROVE runs[o] <= 1
    BY DEF RunsOnce
  <2>1. runs[o] = 0 \/ runs[o] = 1
    BY DEF IInv, Started
  <2> QED BY <2>1
<1> QED BY <1>1, Inductive, PTL

\* A revoked grant keeps no operation that could still be started or approved
\* (_revoke, against submissions, approvals and the worker).
THEOREM RevocationHolds == Spec => []RevokedHasNoPending
<1>1. IInv => RevokedHasNoPending
  BY DEF IInv
<1> QED BY <1>1, Inductive, PTL

\* The quota counted when a creation is submitted still holds when it has been
\* executed, in whatever order operations fail, are interrupted, and sites are
\* destroyed and made again.
THEOREM QuotaHolds == Spec => []GrantWithinQuota
<1>1. IInv => GrantWithinQuota
  BY DEF IInv
<1> QED BY <1>1, Inductive, PTL

\* The worker stops a site or brings its deadline forward only as approved, on
\* the deadline that the administrator saw, and begins within the approval's window.
THEOREM HarmNeedsApproval == Spec => HarmApproved
<1>1. IInv /\ [Next]_vars =>
        [/\ \A p \in Project :
               wpc = "running" /\ wpc' = "done" /\ Present(p)
                 /\ (deadline'[p] < deadline[p] \/ (up[p] /\ ~up'[p]))
               => /\ consent[cur] # NoConsent
                  /\ deadline'[p] < deadline[p] => consent[cur].saw = deadline[p]
         /\ \A o \in Op :
               cur' = o /\ cur # o
                 /\ NeedsApproval(op[o].action, op[o].want, op[o].project)
               => consent[o] # NoConsent /\ now <= consent[o].at + ApprovalWindow]_vars
  BY HarmIsApproved DEF IInv
<1> QED BY <1>1, Inductive, PTL DEF Spec, HarmApproved

\* If the file system never gives an identity out again, the worker touches only
\* sites that were given to the grant, never one that took over a name
\* (permitted_projects).  With identities given out again this is false.
THEOREM TouchesOnlyGiven ==
    ASSUME ReuseInodes = FALSE
    PROVE  Spec => []TouchesGivenSite
<1>1. Init => Known /\ TouchesGivenSite
  BY AbsentAssumption DEF Init, Known, TouchesGivenSite, Present
<1>2. IInv /\ Known /\ TouchesGivenSite /\ [Next]_vars => (Known /\ TouchesGivenSite)'
  <2> SUFFICES ASSUME IInv, Known, TouchesGivenSite, [Next]_vars
               PROVE  Known' /\ TouchesGivenSite'
    OBVIOUS
  <2>1. CASE Next
    BY <2>1, KnownKept, TouchesKept DEF IInv
  <2>2. CASE UNCHANGED vars
    BY <2>2 DEF vars, Known, TouchesGivenSite, Present
  <2> QED BY <2>1, <2>2
<1> QED BY <1>1, <1>2, Inductive, PTL DEF Spec

===============================================================================
