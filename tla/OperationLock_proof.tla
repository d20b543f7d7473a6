------------------------- MODULE OperationLock_proof -------------------------
(***************************************************************************)
(* Proofs about OperationLock, for every set of requests and scripts.      *)
(*                                                                         *)
(* WorkExclusive is not inductive: it says nothing about who has the lock  *)
(* open.  The strengthening ties each phase to a descriptor copy           *)
(* (LeaseHeld), each running command to its own copy (CommandHeld), and    *)
(* lets at most one party have any copy open (OneHolder).                  *)
(*                                                                         *)
(* The commands that hold the lock start containers.  The last part proves *)
(* that admission, modelled by Capacity, keeps them within the budget, for *)
(* all sites, operations, sizes and budgets; it begins with what sums over *)
(* finite sets are.  RunningWithinBudget is not inductive either: the next *)
(* command may start more.  What may still be started (Due) counts as well *)
(* and is never more than what is booked (Covered), and what an operation  *)
(* has seen stays an upper bound until it books (Looked).                  *)
(***************************************************************************)
EXTENDS OperationLock, Capacity, FiniteSetTheorems, TLAPS

\* Whoever has the lock's file open.
Holders == {r \in Request : held[r] # {}} \cup {s \in Script : script[s] = "running"}

OneHolder == \A a, b \in Holders : a = b

\* From the middleware's lease to the end of the stream, the cockpit has it.
LeaseHeld ==
    \A r \in Request :
        phase[r] \in {"leased", "admitted", "streaming"} <=> "cockpit" \in held[r]

\* A running command has it.
CommandHeld == \A r \in Request : child[r] = "running" <=> "child" \in held[r]

\* A command exists only once it was spawned, and until its slot retires.
CommandPhase ==
    \A r \in Request :
        /\ phase[r] \in {"streaming", "closed"} <=> child[r] # "none"
        /\ phase[r] = "closed" => child[r] # "reaped"

\* RAM is booked exactly for the commands that start containers.
BookedWhenStarting == \A r \in Request : starts[r] = resv[r]

IInv == TypeOK /\ OneHolder /\ LeaseHeld /\ CommandHeld /\ CommandPhase
               /\ BookedWhenStarting

------------------------------------------------------------------------------
(* Types *)

\* A slot that retires stays typed.
LEMMA RetireTyped ==
    ASSUME TypeOK, NEW r \in Request, Retire(r)
    PROVE  /\ phase' \in [Request -> Phases]
           /\ child' \in [Request -> Children]
           /\ todo' \in [Request -> 0 .. MaxOutput]
           /\ pipe' \in [Request -> 0 .. PipeSize]
           /\ starts' \in [Request -> BOOLEAN]
           /\ resv' \in [Request -> BOOLEAN]
BY OutputAssumption DEF Retire, TypeOK, Phases, Children

\* One step of the system keeps every variable in its type.
LEMMA TypeStep == TypeOK /\ [Next]_vars => TypeOK'
<1> SUFFICES ASSUME TypeOK, [Next]_vars PROVE TypeOK'
  OBVIOUS
<1> USE OutputAssumption DEF TypeOK, Phases, Children
<1>1. ASSUME NEW r \in Request, Acquire(r) PROVE TypeOK'
  BY <1>1 DEF Acquire
<1>2. ASSUME NEW r \in Request, Reply(r) PROVE TypeOK'
  BY <1>2 DEF Reply, AfterStream
<1>3. ASSUME NEW r \in Request, Admit(r) PROVE TypeOK'
  BY <1>3 DEF Admit
<1>4. ASSUME NEW r \in Request, Spawn(r) PROVE TypeOK'
  BY <1>4 DEF Spawn, ChildDescriptors
<1>5. ASSUME NEW r \in Request, SpawnFails(r) \/ DisconnectEarly(r) PROVE TypeOK'
  BY <1>5, RetireTyped DEF SpawnFails, DisconnectEarly, AfterStream
<1>6. ASSUME NEW r \in Request, Emit(r) PROVE TypeOK'
  BY <1>6 DEF Emit, PipeHasRoom
<1>7. ASSUME NEW r \in Request, Forward(r) PROVE TypeOK'
  BY <1>7 DEF Forward
<1>8. ASSUME NEW r \in Request, Exit(r) PROVE TypeOK'
  BY <1>8 DEF Exit
<1>9. ASSUME NEW r \in Request, Reap(r) PROVE TypeOK'
  <2>1. CASE phase[r] = "closed"
    BY <1>9, <2>1, RetireTyped DEF Reap
  <2>2. CASE phase[r] # "closed"
    BY <1>9, <2>2 DEF Reap
  <2>. QED
    BY <2>1, <2>2
<1>10. ASSUME NEW r \in Request, Finish(r) PROVE TypeOK'
  BY <1>10, RetireTyped DEF Finish, AfterStream
<1>11. ASSUME NEW r \in Request, Disconnect(r) PROVE TypeOK'
  <2>1. CASE CloseAndRelease(r)
    BY <1>11, <2>1, RetireTyped DEF Disconnect, CloseAndRelease, AfterStream
  <2>2. CASE CloseAndDefer(r)
    BY <1>11, <2>2 DEF Disconnect, CloseAndDefer, AfterStream
  <2>. QED
    BY <1>11, <2>1, <2>2 DEF Disconnect
<1>12. ASSUME NEW s \in Script, ScriptStart(s) \/ ScriptEnd(s) PROVE TypeOK'
  BY <1>12 DEF ScriptStart, ScriptEnd
<1>13. CASE Restart
  BY <1>13 DEF Restart
<1>14. CASE UNCHANGED vars
  BY <1>14 DEF vars
<1>. QED
  BY <1>1, <1>2, <1>3, <1>4, <1>5, <1>6, <1>7, <1>8, <1>9, <1>10, <1>11,
     <1>12, <1>13, <1>14 DEF Next, RequestStep

\* Every variable keeps its type: counters of unread lines stay within the
\* pipe, and no slot leaves the life cycle of a streamed request.
THEOREM TypeCorrect == Spec => []TypeOK
<1>1. Init => TypeOK
  BY OutputAssumption DEF Init, TypeOK, Phases, Children
<1>. QED
  BY <1>1, TypeStep, PTL DEF Spec

------------------------------------------------------------------------------
(* One holder *)

\* A step either leaves no new holder, or turns a free lock into one holder:
\* descriptors are only ever copied inside a request that has one already.
LEMMA HoldersStep ==
    ASSUME IInv, [Next]_vars
    PROVE  \/ Holders' \subseteq Holders
           \/ Holders = {} /\ \E x \in Request \cup Script : Holders' = {x}
<1> USE DEF Holders, IInv, TypeOK
<1>1. ASSUME NEW r \in Request, Acquire(r)
      PROVE  Holders = {} /\ Holders' = {r}
  BY <1>1 DEF Acquire, LockFree
<1>2. ASSUME NEW r \in Request, Reply(r) \/ SpawnFails(r) \/ DisconnectEarly(r)
             \/ Finish(r) \/ Disconnect(r)
      PROVE  Holders' \subseteq Holders
  BY <1>2 DEF Reply, SpawnFails, DisconnectEarly, Finish, Disconnect, AfterStream
<1>3. ASSUME NEW r \in Request, Admit(r) \/ Emit(r) \/ Forward(r) \/ Reap(r)
      PROVE  Holders' \subseteq Holders
  BY <1>3 DEF Admit, Emit, Forward, Reap
<1>4. ASSUME NEW r \in Request, Spawn(r)
      PROVE  Holders' \subseteq Holders
  <2>1. "cockpit" \in held[r]
    BY <1>4 DEF Spawn, LeaseHeld
  <2>. QED
    BY <1>4, <2>1 DEF Spawn
<1>5. ASSUME NEW r \in Request, Exit(r)
      PROVE  Holders' \subseteq Holders
  BY <1>5 DEF Exit
<1>6. ASSUME NEW s \in Script, ScriptStart(s)
      PROVE  Holders = {} /\ Holders' = {s}
  BY <1>6 DEF ScriptStart, LockFree
<1>7. ASSUME NEW s \in Script, ScriptEnd(s)
      PROVE  Holders' \subseteq Holders
  BY <1>7 DEF ScriptEnd
<1>8. CASE Restart
  BY <1>8 DEF Restart
<1>9. CASE UNCHANGED vars
  BY <1>9 DEF vars
<1>. QED
  BY <1>1, <1>2, <1>3, <1>4, <1>5, <1>6, <1>7, <1>8, <1>9 DEF Next, RequestStep

\* The part of the invariant that speaks of one request at a time.
RequestInv(r) ==
    /\ phase[r] \in {"leased", "admitted", "streaming"} <=> "cockpit" \in held[r]
    /\ child[r] = "running" <=> "child" \in held[r]
    /\ phase[r] \in {"streaming", "closed"} <=> child[r] # "none"
    /\ phase[r] = "closed" => child[r] # "reaped"
    /\ starts[r] = resv[r]

LEMMA RequestInvs ==
    IInv <=> TypeOK /\ OneHolder /\ \A r \in Request : RequestInv(r)
BY DEF IInv, LeaseHeld, CommandHeld, CommandPhase, BookedWhenStarting, RequestInv

\* A retired slot is as good as new.
LEMMA RetireResets ==
    ASSUME TypeOK, NEW r \in Request, Retire(r)
    PROVE  phase'[r] = "idle" /\ child'[r] = "none" /\ starts'[r] = resv'[r]
BY DEF TypeOK, Retire

\* A request's own step keeps its part of the invariant.
LEMMA RequestInvStep ==
    ASSUME TypeOK, NEW r \in Request, RequestInv(r), RequestStep(r)
    PROVE  RequestInv(r)'
<1> USE DEF TypeOK, RequestInv, Phases, Children
<1>1. CASE Acquire(r)
  BY <1>1 DEF Acquire, LockFree
<1>2. CASE Reply(r)
  BY <1>2 DEF Reply, AfterStream
<1>3. CASE Admit(r)
  BY <1>3 DEF Admit
<1>4. CASE Spawn(r)
  BY <1>4 DEF Spawn, ChildDescriptors
<1>5. CASE SpawnFails(r) \/ DisconnectEarly(r)
  <2>1. phase[r] = "admitted" /\ held'[r] = held[r] \ {"cockpit"} /\ Retire(r)
    BY <1>5 DEF SpawnFails, DisconnectEarly, AfterStream
  <2>. QED
    BY <2>1, RetireResets
<1>6. CASE Emit(r) \/ Forward(r)
  BY <1>6 DEF Emit, Forward
<1>7. CASE Exit(r)
  BY <1>7 DEF Exit
<1>8. CASE Reap(r)
  <2>1. CASE phase[r] = "closed"
    BY <1>8, <2>1, RetireResets DEF Reap
  <2>2. CASE phase[r] # "closed"
    BY <1>8, <2>2 DEF Reap
  <2>. QED
    BY <2>1, <2>2
<1>9. CASE Finish(r)
  BY <1>9, RetireResets DEF Finish, AfterStream
<1>10. CASE Disconnect(r)
  <2>1. CASE CloseAndRelease(r)
    BY <1>10, <2>1, RetireResets DEF Disconnect, CloseAndRelease, AfterStream
  <2>2. CASE CloseAndDefer(r)
    BY <1>10, <2>2 DEF Disconnect, CloseAndDefer, AfterStream
  <2>. QED
    BY <1>10, <2>1, <2>2 DEF Disconnect
<1>. QED
  BY <1>1, <1>2, <1>3, <1>4, <1>5, <1>6, <1>7, <1>8, <1>9, <1>10 DEF RequestStep

\* It leaves every other request alone.
LEMMA OthersUnchanged ==
    ASSUME TypeOK, NEW r \in Request, NEW q \in Request, q # r, RequestStep(r)
    PROVE  /\ phase'[q] = phase[q] /\ held'[q] = held[q] /\ child'[q] = child[q]
           /\ starts'[q] = starts[q] /\ resv'[q] = resv[q]
<1> USE DEF TypeOK
<1>1. CASE Acquire(r) \/ Reply(r) \/ Admit(r) \/ Spawn(r)
  BY <1>1 DEF Acquire, Reply, Admit, Spawn
<1>2. CASE SpawnFails(r) \/ DisconnectEarly(r) \/ Finish(r)
  BY <1>2 DEF SpawnFails, DisconnectEarly, Finish, Retire
<1>3. CASE Emit(r) \/ Forward(r) \/ Exit(r)
  BY <1>3 DEF Emit, Forward, Exit
<1>4. CASE Reap(r)
  BY <1>4 DEF Reap, Retire
<1>5. CASE Disconnect(r)
  BY <1>5 DEF Disconnect, CloseAndRelease, CloseAndDefer, Retire
<1>. QED
  BY <1>1, <1>2, <1>3, <1>4, <1>5 DEF RequestStep

\* The strengthened invariant is inductive.
LEMMA IInvStep == IInv /\ [Next]_vars => IInv'
<1> SUFFICES ASSUME IInv, [Next]_vars PROVE IInv'
  OBVIOUS
<1>1. TypeOK'
  BY TypeStep DEF IInv
<1>2. OneHolder'
  BY HoldersStep DEF IInv, OneHolder
<1>3. ASSUME NEW q \in Request PROVE RequestInv(q)'
  <2>0. TypeOK /\ RequestInv(q)
    BY RequestInvs
  <2>1. ASSUME NEW r \in Request, RequestStep(r) PROVE RequestInv(q)'
    <3>1. CASE q = r
      BY <2>0, <2>1, <3>1, RequestInvStep
    <3>2. CASE q # r
      BY <2>0, <2>1, <3>2, OthersUnchanged DEF RequestInv
    <3>. QED
      BY <3>1, <3>2
  <2>2. ASSUME NEW s \in Script, ScriptStart(s) \/ ScriptEnd(s) PROVE RequestInv(q)'
    BY <2>0, <2>2 DEF ScriptStart, ScriptEnd, RequestInv
  <2>3. CASE Restart
    BY <2>0, <2>3 DEF Restart, RequestInv
  <2>4. CASE UNCHANGED vars
    BY <2>0, <2>4 DEF vars, RequestInv
  <2>. QED
    BY <2>1, <2>2, <2>3, <2>4 DEF Next
<1>4. \A q \in Request : RequestInv(q)'
  BY <1>3
<1>. QED
  BY <1>1, <1>2, <1>4, RequestInvs
    DEF IInv, LeaseHeld, CommandHeld, CommandPhase, BookedWhenStarting, RequestInv

LEMMA IInvInit == Init => IInv
<1>1. Init => TypeOK
  BY OutputAssumption DEF Init, TypeOK, Phases, Children
<1>. QED
  BY <1>1 DEF Init, IInv, OneHolder, Holders, LeaseHeld, CommandHeld,
              CommandPhase, BookedWhenStarting

THEOREM IInvAlways == Spec => []IInv
BY IInvInit, IInvStep, PTL DEF Spec

------------------------------------------------------------------------------
(* What follows *)

\* Whoever is at work has the lock's file open.
LEMMA WorkersHold ==
    ASSUME IInv PROVE Working \subseteq Holders
BY DEF IInv, Working, AtWork, Holders, LeaseHeld, CommandHeld

\* Two site operations never run at the same time: the middleware's promise
\* that "disconnecting the browser cannot unlock a running job", for any
\* number of requests, scripts and disconnections.
THEOREM WorkIsExclusive == Spec => []WorkExclusive
<1>1. IInv => WorkExclusive
  BY WorkersHold DEF IInv, OneHolder, WorkExclusive
<1>. QED
  BY <1>1, IInvAlways, PTL

\* A command that starts containers keeps its RAM booked while it runs, even
\* after its browser left (stream_command's release callback).
THEOREM ChildKeepsReservation == Spec => []ReservationCoversChild
<1>1. IInv => ReservationCoversChild
  BY DEF IInv, BookedWhenStarting, ReservationCoversChild
<1>. QED
  BY <1>1, IInvAlways, PTL

------------------------------------------------------------------------------
(* The refinement of SiteMutex *)

\* What a request's step does to whether it is at work.
LEMMA AtWorkStep ==
    ASSUME IInv, NEW r \in Request, RequestStep(r)
    PROVE  AtWork(r)' => AtWork(r) \/ LockFree
<1> DEFINE P == TypeOK /\ RequestInv(r)
<1>0. P
  BY RequestInvs
<1> USE <1>0 DEF TypeOK, RequestInv, AtWork, Phases, Children
<1>1. CASE Acquire(r)
  BY <1>1 DEF Acquire
<1>2. CASE Reply(r) \/ Admit(r) \/ Spawn(r)
  BY <1>2 DEF Reply, Admit, Spawn
<1>3. CASE SpawnFails(r) \/ DisconnectEarly(r) \/ Finish(r)
  BY <1>3, RetireResets DEF SpawnFails, DisconnectEarly, Finish
<1>4. CASE Emit(r) \/ Forward(r) \/ Exit(r)
  BY <1>4 DEF Emit, Forward, Exit
<1>5. CASE Reap(r)
  BY <1>5, RetireResets DEF Reap
<1>6. CASE Disconnect(r)
  BY <1>6, RetireResets DEF Disconnect, CloseAndRelease, CloseAndDefer
<1>. QED
  BY <1>1, <1>2, <1>3, <1>4, <1>5, <1>6 DEF RequestStep

\* A free lock means that nobody is at work.
LEMMA FreeMeansIdle == ASSUME IInv, LockFree PROVE Working = {}
BY WorkersHold DEF LockFree, Holders

\* The set of workers changes only by one member beginning or ending alone.
LEMMA WorkingStep ==
    ASSUME IInv, IInv', [Next]_vars
    PROVE  \/ Working' = Working
           \/ \E o \in Request \cup Script : Working = {} /\ Working' = {o}
           \/ \E o \in Request \cup Script : Working = {o} /\ Working' = {}
<1> DEFINE Actors == Request \cup Script
<1>1. /\ Working \subseteq Actors /\ Working' \subseteq Actors
      /\ \A a, b \in Working : a = b
      /\ \A a, b \in Working' : a = b
  <2>1. Working \subseteq Actors /\ Working' \subseteq Actors
    BY DEF Working
  <2>2. \A a, b \in Working : a = b
    BY WorkersHold DEF IInv, OneHolder
  <2>3. (Working \subseteq Holders)'
    BY DEF IInv, Working, AtWork, Holders, LeaseHeld, CommandHeld
  <2>4. \A a, b \in Working' : a = b
    BY <2>3 DEF IInv, OneHolder
  <2>. QED
    BY <2>1, <2>2, <2>4
<1>2. \/ Working = {}
      \/ Working' \subseteq Working
  <2>1. ASSUME NEW r \in Request, RequestStep(r)
        PROVE  Working = {} \/ Working' \subseteq Working
    <3>1. CASE LockFree
      BY <3>1, FreeMeansIdle
    <3>2. CASE ~LockFree
      <4>1. AtWork(r)' => AtWork(r)
        BY <2>1, <3>2, AtWorkStep
      <4>2. \A q \in Request : q # r => (AtWork(q)' <=> AtWork(q))
        BY <2>1, OthersUnchanged DEF IInv, AtWork
      <4>3. script' = script
        BY <2>1 DEF RequestStep, Acquire, Reply, Admit, Spawn, SpawnFails,
           DisconnectEarly, Emit, Forward, Exit, Reap, Finish, Disconnect
      <4>. QED
        BY <4>1, <4>2, <4>3 DEF Working
    <3>. QED
      BY <3>1, <3>2
  <2>2. ASSUME NEW s \in Script, ScriptStart(s) PROVE Working = {}
    BY <2>2, FreeMeansIdle DEF ScriptStart
  <2>3. ASSUME NEW s \in Script, ScriptEnd(s) PROVE Working' \subseteq Working
    BY <2>3 DEF ScriptEnd, Working, AtWork, IInv, TypeOK
  <2>4. CASE Restart
    BY <2>4 DEF Restart, Working, AtWork
  <2>5. CASE UNCHANGED vars
    BY <2>5 DEF vars, Working, AtWork
  <2>. QED
    BY <2>1, <2>2, <2>3, <2>4, <2>5 DEF Next
<1>. QED
  BY <1>1, <1>2

\* The lease, the inherited descriptor and flock together implement the
\* abstract mutual exclusion: operations begin and end one at a time.
THEOREM ImplementsMutex == Spec => MutexSpec
<1>1. Init => Mutex!Init
  BY DEF Init, Mutex!Init, Working, AtWork
<1>2. IInv /\ IInv' /\ [Next]_vars => [Mutex!Next]_Working
  BY WorkingStep DEF Mutex!Next, Mutex!Begin, Mutex!End
<1>. QED
  BY <1>1, <1>2, IInvAlways, PTL DEF Spec, MutexSpec, Mutex!Spec

-----------------------------------------------------------------------------
(* Sums *)

\* The function by which MapThenSumSet adds up f over the subsets of S.
Pick(s) == CHOOSE x \in s : TRUE
Adds(f, S, g) ==
    g = [s \in SUBSET S |-> IF s = {} THEN 0 ELSE f[Pick(s)] + g[s \ {Pick(s)}]]

\* A set of finite sets that is not empty has a least element.
LEMMA Least ==
    ASSUME NEW S, IsFiniteSet(S), NEW T, T \subseteq SUBSET S, T # {}
    PROVE  \E s \in T : \A t \in T : t \subseteq s => t = s
<1>1. T \subseteq FiniteSubsetsOf(S)
  BY FS_FiniteSubsetsOfFinite
<1>2. PICK s \in T : \A t \in T : ~(<<t, s>> \in StrictSubsetOrdering(S))
  BY <1>1, FS_StrictSubsetOrderingWellFounded, WFMin
<1>3. ASSUME NEW t \in T, t \subseteq s, t # s PROVE FALSE
  <2>1. <<t, s>> \in StrictSubsetOrdering(S)
    BY <1>3 DEF StrictSubsetOrdering
  <2> QED BY <1>2, <2>1
<1> QED BY <1>3

\* What is picked from a set is in it.
LEMMA Picked ==
    ASSUME NEW s, s # {}
    PROVE  Pick(s) \in s
BY DEF Pick

\* A set of subsets to which a subset belongs as soon as it does without the element
\* picked from it has all the subsets.
LEMMA ByPicking ==
    ASSUME NEW S, IsFiniteSet(S), NEW G, {} \in G,
           \A t \in SUBSET S : t # {} /\ t \ {Pick(t)} \in G => t \in G
    PROVE  S \in G /\ SUBSET S \subseteq G
<1> DEFINE T == (SUBSET S) \ G
<1>1. CASE T = {}
  BY <1>1
<1>2. CASE T # {}
  <2>1. T \subseteq SUBSET S
    OBVIOUS
  <2>2. PICK t \in T : \A u \in T : u \subseteq t => u = t
    <3> HIDE DEF T
    <3> QED BY <1>2, <2>1, Least
  <2>3. t # {} /\ t \in SUBSET S /\ t \notin G
    OBVIOUS
  <2>4. t \ {Pick(t)} \notin T
    BY <2>2, <2>3, Picked
  <2>5. t \ {Pick(t)} \in G
    BY <2>3, <2>4
  <2> QED BY <2>3, <2>5
<1> QED BY <1>1, <1>2

\* What Adds says of a subset.
LEMMA AddsPick ==
    ASSUME NEW f, NEW S, NEW g, Adds(f, S, g), NEW s \in SUBSET S, s # {}
    PROVE  g[s] = f[Pick(s)] + g[s \ {Pick(s)}]
<1> DEFINE e(t) == IF t = {} THEN 0 ELSE f[Pick(t)] + g[t \ {Pick(t)}]
<1>1. g = [t \in SUBSET S |-> e(t)]
  BY Zenon DEF Adds
<1>2. [t \in SUBSET S |-> e(t)][s] = e(s)
  OBVIOUS
<1>3. g[s] = e(s)
  BY <1>1, <1>2, Zenon
<1> QED BY <1>3, Zenon

\* And what it says of the empty one.
LEMMA AddsNothing ==
    ASSUME NEW f, NEW S, NEW g, Adds(f, S, g)
    PROVE  g[{}] = 0
<1> DEFINE e(t) == IF t = {} THEN 0 ELSE f[Pick(t)] + g[t \ {Pick(t)}]
<1>1. g = [t \in SUBSET S |-> e(t)]
  BY Zenon DEF Adds
<1>2. [t \in SUBSET S |-> e(t)][{}] = e({})
  OBVIOUS
<1>3. g[{}] = e({})
  BY <1>1, <1>2, Zenon
<1> QED BY <1>3, Zenon

\* Two of them agree where both add up.
LEMMA AddsAgree ==
    ASSUME NEW f, NEW S, IsFiniteSet(S), NEW A, NEW B, S \subseteq A, S \subseteq B,
           NEW g, Adds(f, A, g), NEW h, Adds(f, B, h)
    PROVE  g[S] = h[S]
<1> DEFINE G == {t \in SUBSET S : g[t] = h[t]}
<1>1. {} \in G
  BY AddsNothing
<1>2. ASSUME NEW t \in SUBSET S, t # {}, t \ {Pick(t)} \in G PROVE t \in G
  <2>1. t \in SUBSET A /\ t \in SUBSET B
    OBVIOUS
  <2>2. g[t] = f[Pick(t)] + g[t \ {Pick(t)}]
    BY <1>2, <2>1, AddsPick
  <2>3. h[t] = f[Pick(t)] + h[t \ {Pick(t)}]
    BY <1>2, <2>1, AddsPick
  <2> QED BY <1>2, <2>2, <2>3
<1>3. S \in G
  <2> HIDE DEF G
  <2> QED BY <1>1, <1>2, ByPicking
<1> QED BY <1>3

\* There is one for every finite set.
LEMMA AddsExists ==
    ASSUME NEW f, NEW S, IsFiniteSet(S)
    PROVE  \E g : Adds(f, S, g)
<1> DEFINE T == {t \in SUBSET S : ~ \E g : Adds(f, t, g)}
<1>1. SUFFICES ASSUME T # {} PROVE FALSE
  OBVIOUS
<1>2. PICK t \in T : \A u \in T : u \subseteq t => u = t
  <2>1. T \subseteq SUBSET S
    OBVIOUS
  <2> HIDE DEF T
  <2> QED BY <1>1, <2>1, Least
<1> DEFINE F(u) == CHOOSE g : Adds(f, u, g)
           G == [s \in SUBSET t |->
                    IF s = {} THEN 0 ELSE f[Pick(s)] + F(s \ {Pick(s)})[s \ {Pick(s)}]]
<1>3. ASSUME NEW u \in SUBSET t, u # t PROVE Adds(f, u, F(u))
  <2>1. \E g : Adds(f, u, g)
    BY <1>2, <1>3
  <2> QED BY <2>1
<1>4. ASSUME NEW s \in SUBSET t, s # {} PROVE F(s \ {Pick(s)})[s \ {Pick(s)}] = G[s \ {Pick(s)}]
  <2> DEFINE u == s \ {Pick(s)}  v == u \ {Pick(u)}
  <2>1. u \in SUBSET t /\ u # t
    BY <1>4, Picked
  <2>2. Adds(f, u, F(u))
    BY <1>3, <2>1
  <2>3. F(u)[u] = IF u = {} THEN 0 ELSE f[Pick(u)] + F(u)[v]
    <3>1. u \in SUBSET u
      OBVIOUS
    <3>2. F(u)[{}] = 0
      <4> HIDE DEF F, u
      <4> QED BY <2>2, AddsNothing
    <3>3. u # {} => F(u)[u] = f[Pick(u)] + F(u)[v]
      <4> HIDE DEF F, u
      <4> QED BY <2>2, <3>1, AddsPick
    <3> HIDE DEF F, u, v
    <3> QED BY <3>2, <3>3
  <2>4. G[u] = IF u = {} THEN 0 ELSE f[Pick(u)] + F(v)[v]
    BY <2>1
  <2>5. CASE u = {}
    BY <2>3, <2>4, <2>5
  <2>6. CASE u # {}
    <3>1. v \in SUBSET t /\ v # t /\ v \in SUBSET u
      BY <2>1, <2>6, Picked
    <3>2. Adds(f, v, F(v))
      BY <1>3, <3>1
    <3>3. F(u)[v] = F(v)[v]
      <4> HIDE DEF u, v, F
      <4>1. v \subseteq u /\ v \subseteq v /\ IsFiniteSet(v)
        BY <1>2, <2>1, <3>1, FS_Subset
      <4> QED BY <2>2, <3>2, <4>1, AddsAgree
    <3> QED BY <2>3, <2>4, <2>6, <3>3
  <2> QED BY <2>5, <2>6
<1>5. Adds(f, t, G)
  <2> DEFINE e(s) == IF s = {} THEN 0 ELSE f[Pick(s)] + F(s \ {Pick(s)})[s \ {Pick(s)}]
             d(s) == IF s = {} THEN 0 ELSE f[Pick(s)] + G[s \ {Pick(s)}]
  <2>1. ASSUME NEW s \in SUBSET t PROVE e(s) = d(s)
    <3> HIDE DEF F, G
    <3> QED BY <1>4, <2>1
  <2>2. G = [s \in SUBSET t |-> e(s)]
    BY Zenon
  <2> HIDE DEF e, G
  <2>3. G = [s \in SUBSET t |-> d(s)]
    BY <2>1, <2>2
  <2> QED BY <2>3, Zenon DEF Adds
<1> QED BY <1>2, <1>5

\* Total adds up.
LEMMA TotalAdds ==
    ASSUME NEW f, IsFiniteSet(DOMAIN f)
    PROVE  \E g : Adds(f, DOMAIN f, g) /\ Total(f) = g[DOMAIN f]
<1> DEFINE g == CHOOSE h : Adds(f, DOMAIN f, h)
<1>1. Total(f) = g[DOMAIN f]
  BY Zenon DEF Total, MapThenSumSet, MapThenFoldSet, Adds, Pick
<1>2. Adds(f, DOMAIN f, g)
  BY AddsExists
<1> QED BY <1>1, <1>2

\* A sum of natural numbers is one.
LEMMA TotalNat ==
    ASSUME NEW D, IsFiniteSet(D), NEW f \in [D -> Nat]
    PROVE  Total(f) \in Nat
<1>1. PICK g : Adds(f, D, g) /\ Total(f) = g[D]
  BY TotalAdds
<1> DEFINE G == {t \in SUBSET D : g[t] \in Nat}
<1>2. {} \in G
  BY <1>1, AddsNothing
<1>3. ASSUME NEW t \in SUBSET D, t # {}, t \ {Pick(t)} \in G PROVE t \in G
  <2>1. g[t] = f[Pick(t)] + g[t \ {Pick(t)}]
    <3> HIDE DEF G
    <3> QED BY <1>1, <1>3, AddsPick
  <2>2. Pick(t) \in D
    BY <1>3, Picked
  <2> QED BY <1>3, <2>1, <2>2
<1>4. D \in G
  <2> HIDE DEF G
  <2> QED BY <1>2, <1>3, ByPicking
<1> QED BY <1>1, <1>4

\* Changing one summand changes the sum by the difference.
LEMMA TotalMoves ==
    ASSUME NEW D, IsFiniteSet(D), NEW f \in [D -> Nat], NEW g \in [D -> Nat],
           NEW x \in D, \A y \in D : y # x => g[y] = f[y]
    PROVE  Total(g) + f[x] = Total(f) + g[x]
<1>1. PICK a : Adds(f, D, a) /\ Total(f) = a[D]
  BY TotalAdds
<1>2. PICK b : Adds(g, D, b) /\ Total(g) = b[D]
  BY TotalAdds
<1> DEFINE Ok(t) == /\ a[t] \in Nat /\ b[t] \in Nat
                    /\ x \in t => b[t] + f[x] = a[t] + g[x]
                    /\ x \notin t => b[t] = a[t]
           G == {t \in SUBSET D : Ok(t)}
<1>3. {} \in G
  <2>1. a[{}] = 0
    BY <1>1, AddsNothing
  <2>2. b[{}] = 0
    BY <1>2, AddsNothing
  <2> QED BY <2>1, <2>2
<1>4. ASSUME NEW t \in SUBSET D, t # {}, t \ {Pick(t)} \in G PROVE t \in G
  <2>1. a[t] = f[Pick(t)] + a[t \ {Pick(t)}]
    BY <1>1, <1>4, AddsPick
  <2>2. b[t] = g[Pick(t)] + b[t \ {Pick(t)}]
    BY <1>2, <1>4, AddsPick
  <2>3. PICK y \in t : y = Pick(t)
    BY <1>4, Picked
  <2>4. PICK u : u = t \ {y}
    OBVIOUS
  <2>5. a[t] = f[y] + a[u] /\ b[t] = g[y] + b[u] /\ Ok(u)
    BY <1>4, <2>1, <2>2, <2>3, <2>4
  <2>6. f[y] \in Nat /\ g[y] \in Nat /\ f[x] \in Nat /\ g[x] \in Nat
    OBVIOUS
  <2>7. Ok(t)
    <3>1. CASE y = x
      BY <2>4, <2>5, <2>6, <3>1
    <3>2. CASE y # x
      BY <2>4, <2>5, <2>6, <3>2
    <3> QED BY <3>1, <3>2
  <2> QED BY <2>7
<1>5. D \in G
  <2> HIDE DEF G
  <2> QED BY <1>3, <1>4, ByPicking
<1> QED BY <1>1, <1>2, <1>5

\* Summands that are not larger have a sum that is not larger.
LEMMA TotalGrows ==
    ASSUME NEW D, IsFiniteSet(D), NEW f \in [D -> Nat], NEW g \in [D -> Nat],
           \A y \in D : f[y] <= g[y]
    PROVE  Total(f) <= Total(g)
<1>1. PICK a : Adds(f, D, a) /\ Total(f) = a[D]
  BY TotalAdds
<1>2. PICK b : Adds(g, D, b) /\ Total(g) = b[D]
  BY TotalAdds
<1> DEFINE G == {t \in SUBSET D : a[t] \in Nat /\ b[t] \in Nat /\ a[t] <= b[t]}
<1>3. {} \in G
  <2>1. a[{}] = 0
    BY <1>1, AddsNothing
  <2>2. b[{}] = 0
    BY <1>2, AddsNothing
  <2> QED BY <2>1, <2>2
<1>4. ASSUME NEW t \in SUBSET D, t # {}, t \ {Pick(t)} \in G PROVE t \in G
  <2>1. a[t] = f[Pick(t)] + a[t \ {Pick(t)}]
    BY <1>1, <1>4, AddsPick
  <2>2. b[t] = g[Pick(t)] + b[t \ {Pick(t)}]
    BY <1>2, <1>4, AddsPick
  <2>3. Pick(t) \in D
    BY <1>4, Picked
  <2> QED BY <1>4, <2>1, <2>2, <2>3
<1>5. D \in G
  <2> HIDE DEF G
  <2> QED BY <1>3, <1>4, ByPicking
<1> QED BY <1>1, <1>2, <1>5

\* A sum of nothing is nothing.
LEMMA TotalZero ==
    ASSUME NEW D, IsFiniteSet(D), NEW f, DOMAIN f = D, \A d \in D : f[d] = 0
    PROVE  Total(f) = 0
<1>1. PICK a : Adds(f, D, a) /\ Total(f) = a[D]
  BY TotalAdds
<1> DEFINE G == {t \in SUBSET D : a[t] = 0}
<1>2. {} \in G
  BY <1>1, AddsNothing
<1>3. ASSUME NEW t \in SUBSET D, t # {}, t \ {Pick(t)} \in G PROVE t \in G
  <2>1. a[t] = f[Pick(t)] + a[t \ {Pick(t)}]
    BY <1>1, <1>3, AddsPick
  <2>2. f[Pick(t)] = 0
    BY <1>3, Picked
  <2> QED BY <1>3, <2>1, <2>2
<1>4. D \in G
  <2> HIDE DEF G
  <2> QED BY <1>2, <1>3, ByPicking
<1> QED BY <1>1, <1>4

\* A finite set of numbers has a greatest one.
LEMMA MaxIsGreatest ==
    ASSUME NEW S, IsFiniteSet(S), S # {}, S \subseteq Nat
    PROVE  Max(S) \in S /\ \A y \in S : y <= Max(S)
<1> DEFINE G == {t \in SUBSET S : t = {} \/ \E x \in t : \A y \in t : x >= y}
<1>1. {} \in G
  OBVIOUS
<1>2. ASSUME NEW t \in SUBSET S, t # {}, t \ {Pick(t)} \in G PROVE t \in G
  <2>1. PICK x \in t : x = Pick(t)
    BY <1>2, Picked
  <2>2. CASE t \ {x} = {}
    <3>1. \A y \in t : x >= y
      BY <2>2
    <3> QED BY <3>1
  <2>3. CASE t \ {x} # {}
    <3>1. PICK z \in t \ {x} : \A y \in t \ {x} : z >= y
      BY <1>2, <2>1, <2>3
    <3>2. x \in Nat /\ z \in Nat /\ t \subseteq Nat
      OBVIOUS
    <3>3. CASE x >= z
      <4>1. \A y \in t : x >= y
        BY <3>1, <3>2, <3>3
      <4> QED BY <4>1
    <3>4. CASE z >= x
      <4>1. \A y \in t : z >= y
        BY <3>1, <3>2, <3>4
      <4> QED BY <4>1
    <3> QED BY <3>2, <3>3, <3>4
  <2> QED BY <2>2, <2>3
<1>3. S \in G
  <2> HIDE DEF G
  <2> QED BY <1>1, <1>2, ByPicking
<1>4. \E x \in S : \A y \in S : x >= y
  BY <1>3
<1>5. Max(S) \in S /\ \A y \in S : Max(S) >= y
  BY <1>4, Zenon DEF Max
<1> QED BY <1>5
-----------------------------------------------------------------------------
(* Capacity: what each operation may still start *)

Active(o) == op[o].step # "idle"
Starting(o) == op[o].kind \in {"up", "create"}
HasLock(o) == Active(o) /\ op[o].kind \in Locked

\* Which operations reach which step, and with what.
Shape(me, b) ==
    /\ me.step # "idle" => me.site \in Site
    /\ me.step = "idle" => b = 0
    /\ me.step \in {"look", "book"} => me.kind \in {"up", "create", "resize"} /\ b = 0
    /\ me.step \in {"build", "rest"} => me.kind \in {"up", "create"}
    /\ me.step = "write" => me.kind \in {"create", "resize"}
    /\ me.step \in {"compose", "php"} => me.kind \in {"up", "create", "resize", "switch"}
    /\ me.step = "down" => me.kind = "down"
    /\ me.step \in {"read", "back"} => me.kind \in {"expiry", "group", "switch"}
    /\ me.step \in {"rest", "php"} => me.config \in Size
    /\ me.kind = "switch" => me.asked = 0

CapacityTyped ==
    /\ CapacityTypeOK
    /\ \A o, p \in Op : HasLock(o) /\ HasLock(p) => o = p
    /\ \A o \in Op : Shape(op[o], booked[o]) /\ (looking = o <=> op[o].step = "book")

\* What the record of an operation says its containers may still grow by: `left' is
\* what starting the others than PHP would add.
Share(me, left) ==
    CASE me.kind \in {"up", "create"} /\ me.step \in {"write", "build", "compose", "rest"} ->
              Less(me.asked, me.base) + left
      [] me.kind \in {"up", "create"} /\ me.step = "php" -> Less(me.asked, me.base)
      [] me.kind \notin {"up", "create"} /\ me.step \in {"write", "compose", "php"} ->
              Less(me.asked, me.base)
      [] OTHER -> 0

Due(o) == Share(op[o], Less(Rest, rest[op[o].site]))
Dues == [o \in Op |-> Due(o)]

\* What an operation has seen is not out of date: others have not started more since
\* than they had booked, and its own site is as it saw it.
Looked(o) ==
    LET me == op[o] IN
    /\ Starting(o) => /\ me.own = me.base + rest[me.site]
                      /\ rest[me.site] = 0 => me.base = 0
    /\ ~Starting(o) => me.own = me.base
    /\ Running + Total(Dues) <= me.total + Total(booked)

\* What an operation may still start is booked, and a switch or the PHP container of
\* a start find the other containers running.
Covered(o) ==
    /\ Due(o) <= booked[o]
    /\ op[o].step = "book" => Looked(o)
    /\ Starting(o) /\ op[o].step = "php" => rest[op[o].site] = Rest
    /\ op[o].kind = "switch" /\ Active(o) => php[op[o].site] # 0

PhpNeedsRest == \A s \in Site : php[s] # 0 => rest[s] = Rest

Bound == PhpNeedsRest /\ (\A o \in Op : Covered(o)) /\ Running + Total(Dues) <= Budget

CapacityInv == CapacityTyped /\ (~exempt => Bound)

-----------------------------------------------------------------------------
(* Capacity: types *)

\* The sizes are numbers, and Max gives the largest.
LEMMA Sizes ==
    /\ Max(Size) \in Nat /\ Size \cup {0} \subseteq Nat
    /\ \A z \in Size \cup {0} : z <= Max(Size)
<1>1. Size \subseteq Nat /\ IsFiniteSet(Size) /\ Size # {}
  BY SizeAssumption
<1>2. Max(Size) \in Size /\ \A z \in Size : z <= Max(Size)
  BY <1>1, MaxIsGreatest
<1>3. PICK m \in Size : m = Max(Size)
  BY <1>2
<1>4. \A z \in Size \cup {0} : z <= m
  BY <1>1, <1>2, <1>3
<1> QED BY <1>1, <1>3, <1>4

\* A difference cut off at zero is a number, and not larger.
LEMMA LessIsNat == \A a, b \in Nat : Less(a, b) \in Nat /\ Less(a, b) <= a
BY DEF Less

\* A step of one operation keeps types and shape if its new record does, and if it
\* takes the project lock only when nobody has it.
LEMMA TypedByStep ==
    ASSUME CapacityTyped, NEW o \in Op, NEW new \in Operation, op' = [op EXCEPT ![o] = new],
           size' \in [Site -> Size \cup {0}], php' \in [Site -> Size \cup {0}],
           rest' \in [Site -> {0, Rest}], {enforced', exempt'} \subseteq BOOLEAN,
           booked' \in [Op -> 0 .. Rest + Max(Size)],
           \A p \in Op \ {o} : booked'[p] = booked[p],
           looking' = looking \/ (looking \in {None, o} /\ looking' \in {None, o}),
           looking' = o <=> new.step = "book",
           new.step # "idle" /\ new.kind \in Locked => ProjectLockFree \/ HasLock(o),
           Shape(new, booked'[o])
    PROVE  CapacityTyped'
<1> USE DEF CapacityTyped, CapacityTypeOK
<1>1. op' \in [Op -> Operation]
  OBVIOUS
<1>2. looking' \in Op \cup {None}
  OBVIOUS
<1>3. ASSUME NEW p \in Op
      PROVE  Shape(op'[p], booked'[p]) /\ (looking' = p <=> op'[p].step = "book")
  <2>1. CASE p = o
    BY <2>1
  <2>2. CASE p # o
    <3>1. op'[p] = op[p] /\ booked'[p] = booked[p]
      BY <2>2
    <3>2. looking' = p <=> looking = p
      BY <2>2, SizeAssumption
    <3> QED BY <3>1, <3>2
  <2> QED BY <2>1, <2>2
<1>4. ASSUME NEW p \in Op PROVE /\ op'[p].step = "book" => looking' = p
                                /\ op'[p].step = "idle" => booked'[p] = 0
  BY <1>3 DEF Shape
<1>5. ASSUME NEW p \in Op, NEW q \in Op, HasLock(p)', HasLock(q)' PROVE p = q
  <2>1. \A r \in Op \ {o} : HasLock(r)' <=> HasLock(r)
    BY DEF HasLock, Active
  <2>2. HasLock(o)' => (\A r \in Op : ~HasLock(r)) \/ HasLock(o)
    BY DEF HasLock, Active, ProjectLockFree
  <2> HIDE DEF HasLock
  <2> QED BY <1>5, <2>1, <2>2
<1> QED BY <1>1, <1>2, <1>3, <1>4, <1>5

\* Nobody books more than the largest site.
LEMMA BookingFits ==
    ASSUME CapacityTyped, NEW o \in Op, op[o].step = "book"
    PROVE  Requested(o) \in 0 .. Rest + Max(Size)
<1> DEFINE Z == Size \cup {0}
<1>1. PICK m \in Nat : m = Max(Size) /\ \A z \in Z : z \in Nat /\ z <= m
  BY Sizes
<1>2. Rest \in Nat
  BY SizeAssumption
<1>3. op[o].own \in Nat /\ op[o].want \in Z
  BY DEF CapacityTyped, CapacityTypeOK, Operation
<1>4. size[op[o].site] \in Z
  BY DEF CapacityTyped, CapacityTypeOK, Shape
<1>5. PICK d \in Nat : d = Desired(o) /\ d <= Rest + m
  <2> HIDE DEF Z
  <2> QED BY <1>1, <1>2, <1>3, <1>4, Sizes DEF Desired, Z
<1>6. Requested(o) \in 0 .. Rest + m
  <2>1. Less(d, op[o].own) \in Nat /\ Less(d, op[o].own) <= d
    BY <1>3, <1>5, LessIsNat
  <2> QED BY <1>1, <1>2, <1>5, <2>1 DEF Requested
<1> QED BY <1>1, <1>6

\* Limits and bookings add up to numbers.
LEMMA TotalsAreNat ==
    ASSUME CapacityTypeOK
    PROVE  /\ php \in [Site -> Nat] /\ rest \in [Site -> Nat] /\ booked \in [Op -> Nat]
           /\ Total(php) \in Nat /\ Total(rest) \in Nat /\ Total(booked) \in Nat
           /\ Running \in Nat
<1>1. IsFiniteSet(Site) /\ IsFiniteSet(Op) /\ Rest \in Nat
  BY SizeAssumption
<1>2. php \in [Site -> Nat] /\ rest \in [Site -> Nat]
  BY <1>1, Sizes DEF CapacityTypeOK
<1>3. booked \in [Op -> Nat]
  <2>1. PICK b \in Nat : b = Rest + Max(Size)
    BY <1>1, Sizes
  <2>2. booked \in [Op -> 0 .. b]
    BY <2>1 DEF CapacityTypeOK
  <2> QED BY <2>1, <2>2
<1>4. Total(php) \in Nat /\ Total(rest) \in Nat /\ Total(booked) \in Nat
  BY <1>1, <1>2, <1>3, TotalNat
<1>5. Running \in Nat
  <2> PICK a \in Nat, b \in Nat : a = Total(php) /\ b = Total(rest)
    BY <1>4
  <2> QED BY DEF Running
<1> QED BY <1>2, <1>3, <1>4, <1>5

\* A record stays one when its operation looks.
LEMMA LookedTyped ==
    ASSUME NEW me \in Operation, NEW t \in Nat, NEW b \in Size \cup {0}, NEW w \in Nat
    PROVE  [me EXCEPT !.step = "book", !.total = t, !.base = b, !.own = w] \in Operation
BY DEF Operation

\* A record stays one when its operation books.
LEMMA BookedTyped ==
    ASSUME NEW me \in Operation, NEW step \in {"write", "compose"}, NEW a \in Size \cup {0}
    PROVE  [me EXCEPT !.step = step, !.total = 0, !.own = 0, !.asked = a] \in Operation
BY DEF Operation

\* Every step keeps types and shape.
LEMMA TypedStep ==
    ASSUME CapacityTyped, CapacityNext
    PROVE  CapacityTyped'
<1>a. /\ size \in [Site -> Size \cup {0}] /\ php \in [Site -> Size \cup {0}]
      /\ rest \in [Site -> {0, Rest}] /\ booked \in [Op -> 0 .. Rest + Max(Size)]
      /\ looking \in Op \cup {None} /\ enforced \in BOOLEAN /\ exempt \in BOOLEAN
      /\ 0 \in 0 .. Rest + Max(Size)
  BY Sizes, SizeAssumption DEF CapacityTyped, CapacityTypeOK
<1>0. ASSUME NEW o \in Op
      PROVE  /\ op[o] \in Operation /\ Shape(op[o], booked[o])
             /\ looking = o <=> op[o].step = "book"
             /\ booked' = booked => \A p \in Op \ {o} : booked'[p] = booked[p]
             /\ Active(o) => op[o].site \in Site
             /\ op[o].want \in Size \cup {0} /\ op[o].config \in Size \cup {0}
  BY DEF Shape, Active, CapacityTyped, CapacityTypeOK, Operation
<1>b. \A o \in Op : op[o] \in Operation
  BY DEF CapacityTyped, CapacityTypeOK
<1>c. Idle \in Operation
  BY DEF Operation, Idle, Kind, Locked
<1>1. ASSUME NEW o \in Op, NEW kind \in Kind, NEW s \in Site, NEW z \in Size \cup {0},
             Begin(o, kind, s, z)
      PROVE  CapacityTyped'
  <2> DEFINE new == [Idle EXCEPT !.kind = kind, !.site = s, !.step = First(kind), !.want = z]
  <2>1. new \in Operation
    BY DEF Operation, Idle, Kind, First
  <2>2. op' = [op EXCEPT ![o] = new]
    BY <1>1, Zenon DEF Begin, Set
  <2>3. Shape(new, booked'[o]) /\ new.step # "book" /\ looking # o
    BY <1>0, <1>1 DEF Shape, First, Idle, Begin, Kind, Locked, At
  <2>4. new.kind = kind
    BY DEF Idle
  <2> HIDE DEF new
  <2> QED BY <1>a, <1>0, <1>1, <2>1, <2>2, <2>3, <2>4, TypedByStep DEF Begin
<1>2. ASSUME NEW o \in Op, Look(o) PROVE CapacityTyped'
  <2> DEFINE new == [op[o] EXCEPT !.step = "book", !.total = Running, !.base = php[op[o].site],
                  !.own = IF op[o].kind = "resize" THEN php[op[o].site]
                          ELSE php[op[o].site] + rest[op[o].site]]
  <2>0. /\ Running \in Nat /\ php[op[o].site] \in Size \cup {0}
        /\ (IF op[o].kind = "resize" THEN php[op[o].site]
                                  ELSE php[op[o].site] + rest[op[o].site]) \in Nat
    BY <1>a, <1>0, <1>2, TotalsAreNat DEF CapacityTyped, Look, At, Active
  <2>1. new \in Operation
    BY <1>b, <2>0, LookedTyped
  <2>2. op' = [op EXCEPT ![o] = new]
    BY <1>2, Zenon DEF Look, Set
  <2>3. /\ Shape(new, booked'[o]) /\ (looking' = o <=> new.step = "book")
        /\ new.step # "idle" => HasLock(o) \/ new.kind \notin Locked
    BY <1>a, <1>0, <1>2, SizeAssumption, <2>0
       DEF Shape, Look, At, HasLock, Active, Locked
  <2>4. /\ size' \in [Site -> Size \cup {0}] /\ php' \in [Site -> Size \cup {0}]
        /\ rest' \in [Site -> {0, Rest}] /\ booked' \in [Op -> 0 .. Rest + Max(Size)]
        /\ \A p \in Op \ {o} : booked'[p] = booked[p]
        /\ looking' = looking \/ (looking \in {None, o} /\ looking' \in {None, o})
    BY <1>a, <1>0, <1>2, <2>0 DEF Look, At
  <2>5. enforced' \in BOOLEAN /\ exempt' \in BOOLEAN
    BY <1>a, <1>2, Zenon DEF Look
  <2> HIDE DEF new
  <2> QED BY <2>1, <2>2, <2>3, <2>4, <2>5, TypedByStep
<1>3. ASSUME NEW o \in Op, Book(o) PROVE CapacityTyped'
  <2> DEFINE new == [op[o] EXCEPT !.step = AfterBooking(o), !.total = 0, !.own = 0,
                  !.asked = CASE op[o].kind = "up" -> size[op[o].site]
                              [] op[o].kind = "resize" /\ op[o].own = 0 -> 0
                              [] OTHER -> op[o].want]
  <2>0. /\ op[o].step = "book"
        /\ size[op[o].site] \in Size \cup {0}
        /\ Requested(o) \in 0 .. Rest + Max(Size)
        /\ (CASE op[o].kind = "up" -> size[op[o].site]
              [] op[o].kind = "resize" /\ op[o].own = 0 -> 0
              [] OTHER -> op[o].want) \in Size \cup {0}
        /\ AfterBooking(o) \in {"write", "compose"}
    BY <1>a, <1>0, <1>3, BookingFits DEF Book, At, Active, AfterBooking
  <2>1. new \in Operation
    BY <1>b, <2>0, BookedTyped
  <2>2. op' = [op EXCEPT ![o] = new]
    BY <1>3, Zenon DEF Book, Set
  <2>3. /\ Shape(new, booked'[o]) /\ (looking' = o <=> new.step = "book")
        /\ new.step # "idle" => HasLock(o) \/ new.kind \notin Locked
    BY <1>a, <1>0, <1>3, SizeAssumption, <2>0
       DEF Shape, Book, At, HasLock, Active, Locked, AfterBooking
  <2>4. /\ size' \in [Site -> Size \cup {0}] /\ php' \in [Site -> Size \cup {0}]
        /\ rest' \in [Site -> {0, Rest}] /\ booked' \in [Op -> 0 .. Rest + Max(Size)]
        /\ \A p \in Op \ {o} : booked'[p] = booked[p]
        /\ looking' = looking \/ (looking \in {None, o} /\ looking' \in {None, o})
    BY <1>a, <1>0, <1>3, <2>0 DEF Book, At
  <2>5. enforced' \in BOOLEAN /\ exempt' \in BOOLEAN
    BY <1>a, <1>3, Zenon DEF Book
  <2> HIDE DEF new
  <2> QED BY <2>1, <2>2, <2>3, <2>4, <2>5, TypedByStep
<1>4. ASSUME NEW o \in Op, Refuse(o) PROVE CapacityTyped'
  <2> DEFINE new == Idle
  <2>1. new \in Operation
    BY <1>c
  <2>2. op' = [op EXCEPT ![o] = new]
    BY <1>4, Zenon DEF Refuse, Set
  <2>3. /\ Shape(new, booked'[o]) /\ (looking' = o <=> new.step = "book")
        /\ new.step # "idle" => HasLock(o) \/ new.kind \notin Locked
    BY <1>a, <1>0, <1>4, SizeAssumption
       DEF Shape, Refuse, At, HasLock, Active, Locked, Idle
  <2>4. /\ size' \in [Site -> Size \cup {0}] /\ php' \in [Site -> Size \cup {0}]
        /\ rest' \in [Site -> {0, Rest}] /\ booked' \in [Op -> 0 .. Rest + Max(Size)]
        /\ \A p \in Op \ {o} : booked'[p] = booked[p]
        /\ looking' = looking \/ (looking \in {None, o} /\ looking' \in {None, o})
    BY <1>a, <1>0, <1>4 DEF Refuse, At
  <2>5. enforced' \in BOOLEAN /\ exempt' \in BOOLEAN
    BY <1>a, <1>4, Zenon DEF Refuse
  <2> HIDE DEF new
  <2> QED BY <2>1, <2>2, <2>3, <2>4, <2>5, TypedByStep
<1>5. ASSUME NEW o \in Op, Build(o) PROVE CapacityTyped'
  <2> DEFINE new == [op[o] EXCEPT !.step = "compose"]
  <2>1. new \in Operation
    BY <1>b DEF Operation
  <2>2. op' = [op EXCEPT ![o] = new]
    BY <1>5, Zenon DEF Build, Set, To
  <2>3. /\ Shape(new, booked'[o]) /\ (looking' = o <=> new.step = "book")
        /\ new.step # "idle" => HasLock(o) \/ new.kind \notin Locked
    BY <1>a, <1>0, <1>5, SizeAssumption
       DEF Shape, Build, At, HasLock, Active, Locked
  <2>4. /\ size' \in [Site -> Size \cup {0}] /\ php' \in [Site -> Size \cup {0}]
        /\ rest' \in [Site -> {0, Rest}] /\ booked' \in [Op -> 0 .. Rest + Max(Size)]
        /\ \A p \in Op \ {o} : booked'[p] = booked[p]
        /\ looking' = looking \/ (looking \in {None, o} /\ looking' \in {None, o})
    BY <1>a, <1>0, <1>5 DEF Build, At
  <2>5. enforced' \in BOOLEAN /\ exempt' \in BOOLEAN
    BY <1>a, <1>5, Zenon DEF Build
  <2> HIDE DEF new
  <2> QED BY <2>1, <2>2, <2>3, <2>4, <2>5, TypedByStep
<1>6. ASSUME NEW o \in Op, WriteSize(o) PROVE CapacityTyped'
  <2> DEFINE new == [op[o] EXCEPT !.step = CASE op[o].kind = "create" -> "build"
                                      [] php[op[o].site] = 0 -> "end"
                                      [] OTHER -> "compose"]
  <2>1. new \in Operation
    BY <1>b DEF Operation
  <2>2. op' = [op EXCEPT ![o] = new]
    BY <1>6, Zenon DEF WriteSize, Set, To
  <2>3. /\ Shape(new, booked'[o]) /\ (looking' = o <=> new.step = "book")
        /\ new.step # "idle" => HasLock(o) \/ new.kind \notin Locked
    BY <1>a, <1>0, <1>6, SizeAssumption
       DEF Shape, WriteSize, At, HasLock, Active, Locked
  <2>4. /\ size' \in [Site -> Size \cup {0}] /\ php' \in [Site -> Size \cup {0}]
        /\ rest' \in [Site -> {0, Rest}] /\ booked' \in [Op -> 0 .. Rest + Max(Size)]
        /\ \A p \in Op \ {o} : booked'[p] = booked[p]
        /\ looking' = looking \/ (looking \in {None, o} /\ looking' \in {None, o})
    BY <1>a, <1>0, <1>6 DEF WriteSize, At
  <2>5. enforced' \in BOOLEAN /\ exempt' \in BOOLEAN
    BY <1>a, <1>6, Zenon DEF WriteSize
  <2> HIDE DEF new
  <2> QED BY <2>1, <2>2, <2>3, <2>4, <2>5, TypedByStep
<1>7. ASSUME NEW o \in Op, ReadConfig(o) PROVE CapacityTyped'
  <2> DEFINE new == [op[o] EXCEPT !.config = size[op[o].site],
                  !.step = IF op[o].kind \in {"up", "create"} THEN "rest" ELSE "php"]
  <2>0. size[op[o].site] \in Size
    BY <1>a, <1>0, <1>7 DEF ReadConfig, At, Active
  <2>1. new \in Operation
    BY <1>b, <2>0 DEF Operation
  <2>2. op' = [op EXCEPT ![o] = new]
    BY <1>7, Zenon DEF ReadConfig, Set
  <2>3. /\ Shape(new, booked'[o]) /\ (looking' = o <=> new.step = "book")
        /\ new.step # "idle" => HasLock(o) \/ new.kind \notin Locked
    BY <1>a, <1>0, <1>7, SizeAssumption, <2>0
       DEF Shape, ReadConfig, At, HasLock, Active, Locked
  <2>4. /\ size' \in [Site -> Size \cup {0}] /\ php' \in [Site -> Size \cup {0}]
        /\ rest' \in [Site -> {0, Rest}] /\ booked' \in [Op -> 0 .. Rest + Max(Size)]
        /\ \A p \in Op \ {o} : booked'[p] = booked[p]
        /\ looking' = looking \/ (looking \in {None, o} /\ looking' \in {None, o})
    BY <1>a, <1>0, <1>7, <2>0 DEF ReadConfig, At
  <2>5. enforced' \in BOOLEAN /\ exempt' \in BOOLEAN
    BY <1>a, <1>7, Zenon DEF ReadConfig
  <2> HIDE DEF new
  <2> QED BY <2>1, <2>2, <2>3, <2>4, <2>5, TypedByStep
<1>8. ASSUME NEW o \in Op, StartRest(o) PROVE CapacityTyped'
  <2> DEFINE new == [op[o] EXCEPT !.step = "php"]
  <2>1. new \in Operation
    BY <1>b DEF Operation
  <2>2. op' = [op EXCEPT ![o] = new]
    BY <1>8, Zenon DEF StartRest, Set, To
  <2>3. /\ Shape(new, booked'[o]) /\ (looking' = o <=> new.step = "book")
        /\ new.step # "idle" => HasLock(o) \/ new.kind \notin Locked
    BY <1>a, <1>0, <1>8, SizeAssumption
       DEF Shape, StartRest, At, HasLock, Active, Locked
  <2>4. /\ size' \in [Site -> Size \cup {0}] /\ php' \in [Site -> Size \cup {0}]
        /\ rest' \in [Site -> {0, Rest}] /\ booked' \in [Op -> 0 .. Rest + Max(Size)]
        /\ \A p \in Op \ {o} : booked'[p] = booked[p]
        /\ looking' = looking \/ (looking \in {None, o} /\ looking' \in {None, o})
    BY <1>a, <1>0, <1>8 DEF StartRest, At
  <2>5. enforced' \in BOOLEAN /\ exempt' \in BOOLEAN
    BY <1>a, <1>8, Zenon DEF StartRest
  <2> HIDE DEF new
  <2> QED BY <2>1, <2>2, <2>3, <2>4, <2>5, TypedByStep
<1>9. ASSUME NEW o \in Op, StartPhp(o) PROVE CapacityTyped'
  <2> DEFINE new == [op[o] EXCEPT !.step = "end"]
  <2>1. new \in Operation
    BY <1>b DEF Operation
  <2>2. op' = [op EXCEPT ![o] = new]
    BY <1>9, Zenon DEF StartPhp, Set, To
  <2>3. /\ Shape(new, booked'[o]) /\ (looking' = o <=> new.step = "book")
        /\ new.step # "idle" => HasLock(o) \/ new.kind \notin Locked
    BY <1>a, <1>0, <1>9, SizeAssumption
       DEF Shape, StartPhp, At, HasLock, Active, Locked
  <2>4. /\ size' \in [Site -> Size \cup {0}] /\ php' \in [Site -> Size \cup {0}]
        /\ rest' \in [Site -> {0, Rest}] /\ booked' \in [Op -> 0 .. Rest + Max(Size)]
        /\ \A p \in Op \ {o} : booked'[p] = booked[p]
        /\ looking' = looking \/ (looking \in {None, o} /\ looking' \in {None, o})
    BY <1>a, <1>0, <1>9 DEF StartPhp, At
  <2>5. enforced' \in BOOLEAN /\ exempt' \in BOOLEAN
    BY <1>a, <1>9, Zenon DEF StartPhp
  <2> HIDE DEF new
  <2> QED BY <2>1, <2>2, <2>3, <2>4, <2>5, TypedByStep
<1>10. ASSUME NEW o \in Op, StopAll(o) PROVE CapacityTyped'
  <2> DEFINE new == [op[o] EXCEPT !.step = "end"]
  <2>1. new \in Operation
    BY <1>b DEF Operation
  <2>2. op' = [op EXCEPT ![o] = new]
    BY <1>10, Zenon DEF StopAll, Set, To
  <2>3. /\ Shape(new, booked'[o]) /\ (looking' = o <=> new.step = "book")
        /\ new.step # "idle" => HasLock(o) \/ new.kind \notin Locked
    BY <1>a, <1>0, <1>10, SizeAssumption
       DEF Shape, StopAll, At, HasLock, Active, Locked
  <2>4. /\ size' \in [Site -> Size \cup {0}] /\ php' \in [Site -> Size \cup {0}]
        /\ rest' \in [Site -> {0, Rest}] /\ booked' \in [Op -> 0 .. Rest + Max(Size)]
        /\ \A p \in Op \ {o} : booked'[p] = booked[p]
        /\ looking' = looking \/ (looking \in {None, o} /\ looking' \in {None, o})
    BY <1>a, <1>0, <1>10 DEF StopAll, At
  <2>5. enforced' \in BOOLEAN /\ exempt' \in BOOLEAN
    BY <1>a, <1>10, Zenon DEF StopAll
  <2> HIDE DEF new
  <2> QED BY <2>1, <2>2, <2>3, <2>4, <2>5, TypedByStep
<1>11. ASSUME NEW o \in Op, ReadEnv(o) PROVE CapacityTyped'
  <2> DEFINE new == [op[o] EXCEPT !.step = "back", !.config = size[op[o].site],
                  !.want = IF op[o].kind = "switch" THEN size[op[o].site] ELSE 0]
  <2>0. size[op[o].site] \in Size
    BY <1>a, <1>0, <1>11 DEF ReadEnv, At, Active
  <2>1. new \in Operation
    BY <1>b, <2>0 DEF Operation
  <2>2. op' = [op EXCEPT ![o] = new]
    BY <1>11, Zenon DEF ReadEnv, Set
  <2>3. /\ Shape(new, booked'[o]) /\ (looking' = o <=> new.step = "book")
        /\ new.step # "idle" => HasLock(o) \/ new.kind \notin Locked
    BY <1>a, <1>0, <1>11, SizeAssumption, <2>0
       DEF Shape, ReadEnv, At, HasLock, Active, Locked
  <2>4. /\ size' \in [Site -> Size \cup {0}] /\ php' \in [Site -> Size \cup {0}]
        /\ rest' \in [Site -> {0, Rest}] /\ booked' \in [Op -> 0 .. Rest + Max(Size)]
        /\ \A p \in Op \ {o} : booked'[p] = booked[p]
        /\ looking' = looking \/ (looking \in {None, o} /\ looking' \in {None, o})
    BY <1>a, <1>0, <1>11, <2>0 DEF ReadEnv, At
  <2>5. enforced' \in BOOLEAN /\ exempt' \in BOOLEAN
    BY <1>a, <1>11, Zenon DEF ReadEnv
  <2> HIDE DEF new
  <2> QED BY <2>1, <2>2, <2>3, <2>4, <2>5, TypedByStep
<1>12. ASSUME NEW o \in Op, WriteEnv(o) PROVE CapacityTyped'
  <2> DEFINE new == [op[o] EXCEPT !.step = IF op[o].kind = "switch" THEN "compose" ELSE "end"]
  <2>1. new \in Operation
    BY <1>b DEF Operation
  <2>2. op' = [op EXCEPT ![o] = new]
    BY <1>12, Zenon DEF WriteEnv, Set, To
  <2>3. /\ Shape(new, booked'[o]) /\ (looking' = o <=> new.step = "book")
        /\ new.step # "idle" => HasLock(o) \/ new.kind \notin Locked
    BY <1>a, <1>0, <1>12, SizeAssumption
       DEF Shape, WriteEnv, At, HasLock, Active, Locked
  <2>4. /\ size' \in [Site -> Size \cup {0}] /\ php' \in [Site -> Size \cup {0}]
        /\ rest' \in [Site -> {0, Rest}] /\ booked' \in [Op -> 0 .. Rest + Max(Size)]
        /\ \A p \in Op \ {o} : booked'[p] = booked[p]
        /\ looking' = looking \/ (looking \in {None, o} /\ looking' \in {None, o})
    BY <1>a, <1>0, <1>12 DEF WriteEnv, At
  <2>5. enforced' \in BOOLEAN /\ exempt' \in BOOLEAN
    BY <1>a, <1>12, Zenon DEF WriteEnv
  <2> HIDE DEF new
  <2> QED BY <2>1, <2>2, <2>3, <2>4, <2>5, TypedByStep
<1>13. ASSUME NEW o \in Op, EndCommand(o) PROVE CapacityTyped'
  <2> DEFINE new == Idle
  <2>1. new \in Operation
    BY <1>c
  <2>2. op' = [op EXCEPT ![o] = new]
    BY <1>13, Zenon DEF EndCommand, Set
  <2>3. /\ Shape(new, booked'[o]) /\ (looking' = o <=> new.step = "book")
        /\ new.step # "idle" => HasLock(o) \/ new.kind \notin Locked
    BY <1>a, <1>0, <1>13, SizeAssumption
       DEF Shape, EndCommand, At, HasLock, Active, Locked, Idle, Release
  <2>4. /\ size' \in [Site -> Size \cup {0}] /\ php' \in [Site -> Size \cup {0}]
        /\ rest' \in [Site -> {0, Rest}] /\ booked' \in [Op -> 0 .. Rest + Max(Size)]
        /\ \A p \in Op \ {o} : booked'[p] = booked[p]
        /\ looking' = looking \/ (looking \in {None, o} /\ looking' \in {None, o})
    BY <1>a, <1>0, <1>13 DEF EndCommand, At, Release
  <2>5. enforced' \in BOOLEAN /\ exempt' \in BOOLEAN
    BY <1>a, <1>13, Zenon DEF EndCommand
  <2> HIDE DEF new
  <2> QED BY <2>1, <2>2, <2>3, <2>4, <2>5, TypedByStep
<1>14. ASSUME NEW o \in Op, RollBack(o) PROVE CapacityTyped'
  <2> DEFINE new == Idle
  <2>1. new \in Operation
    BY <1>c
  <2>2. op' = [op EXCEPT ![o] = new]
    BY <1>14, Zenon DEF RollBack, Set
  <2>3. /\ Shape(new, booked'[o]) /\ (looking' = o <=> new.step = "book")
        /\ new.step # "idle" => HasLock(o) \/ new.kind \notin Locked
    BY <1>a, <1>0, <1>14, SizeAssumption
       DEF Shape, RollBack, At, HasLock, Active, Locked, Idle, Release
  <2>4. /\ size' \in [Site -> Size \cup {0}] /\ php' \in [Site -> Size \cup {0}]
        /\ rest' \in [Site -> {0, Rest}] /\ booked' \in [Op -> 0 .. Rest + Max(Size)]
        /\ \A p \in Op \ {o} : booked'[p] = booked[p]
        /\ looking' = looking \/ (looking \in {None, o} /\ looking' \in {None, o})
    BY <1>a, <1>0, <1>14 DEF RollBack, At, Release
  <2>5. enforced' \in BOOLEAN /\ exempt' \in BOOLEAN
    BY <1>a, <1>14, Zenon DEF RollBack
  <2> HIDE DEF new
  <2> QED BY <2>1, <2>2, <2>3, <2>4, <2>5, TypedByStep
<1>15. ASSUME NEW o \in Op, Lose(o) PROVE CapacityTyped'
  <2> DEFINE new == [op[o] EXCEPT !.step = "lost"]
  <2>1. new \in Operation
    BY <1>b DEF Operation
  <2>2. op' = [op EXCEPT ![o] = new]
    BY <1>15, Zenon DEF Lose, Set, To
  <2>3. /\ Shape(new, booked'[o]) /\ (looking' = o <=> new.step = "book")
        /\ new.step # "idle" => HasLock(o) \/ new.kind \notin Locked
    BY <1>a, <1>0, <1>15, SizeAssumption
       DEF Shape, Lose, At, HasLock, Active, Locked
  <2>4. /\ size' \in [Site -> Size \cup {0}] /\ php' \in [Site -> Size \cup {0}]
        /\ rest' \in [Site -> {0, Rest}] /\ booked' \in [Op -> 0 .. Rest + Max(Size)]
        /\ \A p \in Op \ {o} : booked'[p] = booked[p]
        /\ looking' = looking \/ (looking \in {None, o} /\ looking' \in {None, o})
    BY <1>a, <1>0, <1>15 DEF Lose, At
  <2>5. enforced' \in BOOLEAN /\ exempt' \in BOOLEAN
    BY <1>a, <1>15, Zenon DEF Lose
  <2> HIDE DEF new
  <2> QED BY <2>1, <2>2, <2>3, <2>4, <2>5, TypedByStep
<1>16. ASSUME NEW o \in Op, TimeOut(o) PROVE CapacityTyped'
  <2> DEFINE new == [op[o] EXCEPT !.want = 0, !.asked = 0, !.base = 0]
  <2>1. new \in Operation
    BY <1>b DEF Operation
  <2>2. op' = [op EXCEPT ![o] = new]
    BY <1>16, Zenon DEF TimeOut, Set
  <2>3. /\ Shape(new, booked'[o]) /\ (looking' = o <=> new.step = "book")
        /\ new.step # "idle" => HasLock(o) \/ new.kind \notin Locked
    BY <1>a, <1>0, <1>16, SizeAssumption
       DEF Shape, TimeOut, At, HasLock, Active, Locked, Release
  <2>4. /\ size' \in [Site -> Size \cup {0}] /\ php' \in [Site -> Size \cup {0}]
        /\ rest' \in [Site -> {0, Rest}] /\ booked' \in [Op -> 0 .. Rest + Max(Size)]
        /\ \A p \in Op \ {o} : booked'[p] = booked[p]
        /\ looking' = looking \/ (looking \in {None, o} /\ looking' \in {None, o})
    BY <1>a, <1>0, <1>16 DEF TimeOut, At, Release
  <2>5. enforced' \in BOOLEAN /\ exempt' \in BOOLEAN
    BY <1>a, <1>16, Zenon DEF TimeOut
  <2> HIDE DEF new
  <2> QED BY <2>1, <2>2, <2>3, <2>4, <2>5, TypedByStep
<1>19. ASSUME NEW o \in Op, UndoSwitch(o) PROVE CapacityTyped'
  <2> DEFINE new == [op[o] EXCEPT !.step = "compose", !.want = 0]
  <2>1. new \in Operation
    BY <1>b DEF Operation
  <2>2. op' = [op EXCEPT ![o] = new]
    BY <1>19, Zenon DEF UndoSwitch, Set
  <2>3. /\ Shape(new, booked'[o]) /\ (looking' = o <=> new.step = "book")
        /\ new.step # "idle" => HasLock(o) \/ new.kind \notin Locked
    BY <1>a, <1>0, <1>19, SizeAssumption
       DEF Shape, UndoSwitch, At, HasLock, Active, Locked
  <2>4. /\ size' \in [Site -> Size \cup {0}] /\ php' \in [Site -> Size \cup {0}]
        /\ rest' \in [Site -> {0, Rest}] /\ booked' \in [Op -> 0 .. Rest + Max(Size)]
        /\ \A p \in Op \ {o} : booked'[p] = booked[p]
        /\ looking' = looking \/ (looking \in {None, o} /\ looking' \in {None, o})
    BY <1>a, <1>0, <1>19 DEF UndoSwitch, At
  <2>5. enforced' \in BOOLEAN /\ exempt' \in BOOLEAN
    BY <1>a, <1>19, Zenon DEF UndoSwitch
  <2> HIDE DEF new
  <2> QED BY <2>1, <2>2, <2>3, <2>4, <2>5, TypedByStep
<1>17. CASE SetPolicy
  BY <1>17 DEF SetPolicy, HasLock, Active, Shape, CapacityTyped, CapacityTypeOK
<1>18. CASE CockpitRestart
  <2>1. op' \in [Op -> Operation] /\ booked' \in [Op -> 0 .. Rest + Max(Size)]
    BY <1>18, Sizes, SizeAssumption DEF CockpitRestart, Operation, Idle, Kind, Locked
  <2>2. \A o \in Op : Shape(op'[o], booked'[o]) /\ op'[o].step = "idle"
    BY <1>18 DEF CockpitRestart, Shape, Idle
  <2> QED BY <1>a, <1>18, <2>1, <2>2, SizeAssumption
         DEF CockpitRestart, HasLock, Active, CapacityTyped, CapacityTypeOK
<1> QED BY <1>1, <1>2, <1>3, <1>4, <1>5, <1>6, <1>7, <1>8, <1>9, <1>10, <1>11, <1>12,
           <1>13, <1>14, <1>15, <1>16, <1>17, <1>18, <1>19 DEF CapacityNext

-----------------------------------------------------------------------------
(* Capacity: the bound *)

\* What operations may still start are numbers.
LEMMA DuesAreNat ==
    ASSUME CapacityTyped
    PROVE  /\ \A o \in Op : Due(o) \in Nat
           /\ Dues \in [Op -> Nat] /\ Total(Dues) \in Nat
<1>1. ASSUME NEW o \in Op PROVE Due(o) \in Nat
  <2>1. op[o].asked \in Nat /\ op[o].base \in Nat
    BY Sizes DEF CapacityTyped, CapacityTypeOK, Operation
  <2>2. Less(op[o].asked, op[o].base) \in Nat
    BY <2>1, LessIsNat
  <2>3. op[o].step # "idle" => Less(Rest, rest[op[o].site]) \in Nat
    <3>1. op[o].step # "idle" => rest[op[o].site] \in Nat
      BY TotalsAreNat DEF CapacityTyped, CapacityTypeOK, Shape
    <3> QED BY <3>1, SizeAssumption, LessIsNat
  <2> QED BY <2>2, <2>3 DEF Due, Share
<1>2. Dues \in [Op -> Nat]
  BY <1>1 DEF Dues
<1>3. Total(Dues) \in Nat
  BY <1>2, SizeAssumption, TotalNat
<1> QED BY <1>1, <1>2, <1>3

\* All that is added up are numbers.
Counted ==
    /\ php \in [Site -> Nat] /\ rest \in [Site -> Nat]
    /\ Total(php) \in Nat /\ Total(rest) \in Nat /\ Running \in Nat
    /\ Dues \in [Op -> Nat] /\ Total(Dues) \in Nat
    /\ \A o \in Op : Due(o) \in Nat

\* It is, where types and shape are right.
LEMMA CountsAreNat == CapacityTyped => Counted
BY DuesAreNat, TotalsAreNat DEF CapacityTyped, Counted

\* If one operation alone changes what it may start, the sum changes by as much.
LEMMA DuesMove ==
    ASSUME CapacityTyped, CapacityTyped', NEW o \in Op, \A p \in Op \ {o} : Due(p)' = Due(p)
    PROVE  Total(Dues') + Due(o) = Total(Dues) + Due(o)'
<1>1. Dues \in [Op -> Nat] /\ Dues' \in [Op -> Nat]
  <2>1. Counted /\ Counted'
    BY CountsAreNat, PTL
  <2> QED BY <2>1 DEF Counted
<1>2. \A p \in Op : Dues[p] = Due(p) /\ Dues'[p] = Due(p)'
  BY DEF Dues
<1>3. PICK f \in [Op -> Nat], g \in [Op -> Nat] : f = Dues /\ g = Dues'
  BY <1>1
<1>4. Total(g) + f[o] = Total(f) + g[o]
  BY <1>2, <1>3, SizeAssumption, TotalMoves
<1> QED BY <1>2, <1>3, <1>4

\* A step of one operation leaves what another may start, since only whoever has the
\* project lock changes the containers that count for a start.
LEMMA OthersDue ==
    ASSUME CapacityTyped, NEW o \in Op, NEW p \in Op \ {o}, op'[p] = op[p],
           rest' = rest \/ HasLock(o)
    PROVE  Due(p)' = Due(p)
<1>1. op[p].kind \in {"up", "create"} /\ op[p].step # "idle" => rest' = rest
  BY DEF CapacityTyped, HasLock, Active, Locked
<1> QED BY <1>1 DEF Due, Share

\* It leaves another operation covered, and what that has looked at true enough:
\* nobody gives a booking back between its look and its own booking.
LEMMA OthersCovered ==
    ASSUME CapacityTyped, CapacityTyped', Bound, NEW o \in Op, NEW p \in Op \ {o},
           op'[p] = op[p], booked'[p] = booked[p],
           HasLock(o) \/ (rest' = rest /\ \A s \in Site : php[s] # 0 => php'[s] # 0),
           \/ looking \in {None, o}
           \/ booked' = booked /\ Running' + Total(Dues') <= Running + Total(Dues)
    PROVE  Covered(p)'
<1>1. Due(p)' = Due(p)
  BY OthersDue
<1>2. HasLock(p) => rest' = rest /\ \A s \in Site : php[s] # 0 => php'[s] # 0
  BY DEF CapacityTyped
<1>3. (Starting(p) \/ op[p].kind = "switch") /\ Active(p) => HasLock(p)
  BY DEF HasLock, Active, Starting, Locked
<1>4. Active(p) => op[p].site \in Site
  BY DEF CapacityTyped, Shape, Active
<1>5. Covered(p)
  BY DEF Bound
<1>6. ASSUME op[p].step = "book" PROVE Looked(p)'
  <2>1. booked' = booked /\ Running' + Total(Dues') <= Running + Total(Dues)
    BY <1>6, SizeAssumption DEF CapacityTyped
  <2>2. Running + Total(Dues) <= op[p].total + Total(booked) /\ Looked(p)
    BY <1>5, <1>6 DEF Covered, Looked
  <2>3. Running' + Total(Dues') <= op'[p].total + Total(booked')
    <3>1. op[p].total \in Nat /\ Total(booked) \in Nat /\ Running \in Nat /\ Total(Dues) \in Nat
      BY TotalsAreNat, DuesAreNat DEF CapacityTyped, CapacityTypeOK, Operation
    <3>0. Counted'
      BY CountsAreNat, PTL
    <3>2. Running' \in Nat /\ Total(Dues') \in Nat
      BY <3>0 DEF Counted
    <3>3. PICK a \in Nat, b \in Nat, c \in Nat :
              a = Running + Total(Dues) /\ b = op[p].total + Total(booked)
              /\ c = Running' + Total(Dues')
      BY <3>1, <3>2
    <3> QED BY <2>1, <2>2, <3>3
  <2> QED BY <1>2, <1>3, <1>4, <1>6, <2>2, <2>3 DEF Looked, Starting, Active
<1> QED BY <1>1, <1>2, <1>3, <1>4, <1>5, <1>6 DEF Covered, Starting, Active

\* A step that starts no more than it had been due keeps the bound.
LEMMA BoundByStep ==
    ASSUME CapacityTyped, CapacityTyped', Bound, NEW o \in Op,
           \A p \in Op \ {o} : op'[p] = op[p] /\ booked'[p] = booked[p],
           HasLock(o) \/ (rest' = rest /\ \A s \in Site : php[s] # 0 => php'[s] # 0),
           looking \in {None, o} \/ booked' = booked,
           PhpNeedsRest', Covered(o)', Running' + Due(o)' <= Running + Due(o)
    PROVE  Bound'
<1>1. Total(Dues') + Due(o) = Total(Dues) + Due(o)'
  BY OthersDue, DuesMove
<1>2. Running' + Total(Dues') <= Running + Total(Dues)
  <2>1. Counted /\ Counted'
    BY CountsAreNat, PTL
  <2>2. PICK a \in Nat, b \in Nat, c \in Nat, d \in Nat :
            a = Running /\ b = Running' /\ c = Total(Dues) /\ d = Total(Dues')
    BY <2>1 DEF Counted
  <2>3. PICK x \in Nat, y \in Nat : x = Due(o) /\ y = Due(o)'
    BY <2>1 DEF Counted
  <2>4. d + x = c + y /\ b + y <= a + x
    BY <1>1, <2>2, <2>3
  <2> QED BY <2>2, <2>4
<1>3. Running' + Total(Dues') <= Budget
  <2>1. Counted /\ Counted'
    BY CountsAreNat, PTL
  <2>2. PICK a \in Nat, b \in Nat :
            a = Running + Total(Dues) /\ b = Running' + Total(Dues')
    BY <2>1 DEF Counted
  <2>3. a <= Budget /\ b <= a /\ Budget \in Nat
    BY <1>2, <2>2, SizeAssumption DEF Bound
  <2> QED BY <2>2, <2>3
<1>4. \A p \in Op \ {o} : Covered(p)'
  BY <1>2, OthersCovered
<1> QED BY <1>2, <1>3, <1>4 DEF Bound

\* A step of one operation leaves the records of the others.
LEMMA OneRecord ==
    ASSUME CapacityTyped, NEW o \in Op, NEW new, op' = [op EXCEPT ![o] = new]
    PROVE  op'[o] = new /\ \A p \in Op \ {o} : op'[p] = op[p]
BY DEF CapacityTyped, CapacityTypeOK

\* If the containers of one site alone change, the sum changes by as much.
LEMMA TotalMoved ==
    ASSUME CapacityTyped, CapacityTyped', NEW s \in Site
    PROVE  /\ Total(php) \in Nat /\ Total(php') \in Nat
           /\ Total(rest) \in Nat /\ Total(rest') \in Nat
           /\ (\A x \in Site : x # s => php'[x] = php[x])
                 => Total(php') + php[s] = Total(php) + php'[s]
           /\ (\A x \in Site : x # s => rest'[x] = rest[x])
                 => Total(rest') + rest[s] = Total(rest) + rest'[s]
<1>1. Counted /\ Counted'
  BY CountsAreNat, PTL
<1>2. IsFiniteSet(Site)
  BY SizeAssumption
<1> QED BY <1>1, <1>2, TotalMoves DEF Counted

\* Every step keeps the bound, unless a container grows that nobody had asked for.
LEMMA BoundStep ==
    ASSUME CapacityTyped, CapacityTyped', Bound, CapacityNext, ~exempt'
    PROVE  Bound'
<1>a. /\ php \in [Site -> Nat] /\ rest \in [Site -> {0, Rest}] /\ booked \in [Op -> Nat]
      /\ Total(booked) \in Nat /\ Running \in Nat /\ PhpNeedsRest
      /\ Budget \in Nat /\ Rest \in Nat \ {0} /\ None \notin Op
  BY TotalsAreNat, SizeAssumption DEF CapacityTyped, CapacityTypeOK, Bound
<1>0. ASSUME NEW o \in Op
      PROVE  /\ op[o].asked \in Nat /\ op[o].base \in Nat /\ op[o].want \in Nat
             /\ op[o].config \in Nat /\ op[o].own \in Nat /\ op[o].total \in Nat
             /\ Due(o) \in Nat /\ booked[o] \in Nat
             /\ op[o].kind \in Kind
             /\ Shape(op[o], booked[o]) /\ Covered(o)
             /\ looking = o <=> op[o].step = "book"
             /\ Less(op[o].asked, op[o].base) \in Nat
             /\ Active(o) => op[o].site \in Site /\ Less(Rest, rest[op[o].site]) \in Nat
  <2>1. op[o] \in Operation /\ Size \cup {0} \subseteq Nat
    BY Sizes DEF CapacityTyped, CapacityTypeOK
  <2>2. /\ op[o].asked \in Nat /\ op[o].base \in Nat /\ op[o].want \in Nat
        /\ op[o].config \in Nat /\ op[o].own \in Nat /\ op[o].total \in Nat
        /\ op[o].kind \in Kind
    BY <2>1 DEF Operation
  <2>3. Due(o) \in Nat /\ booked[o] \in Nat
    BY <1>a, DuesAreNat
  <2>4. Shape(op[o], booked[o]) /\ Covered(o) /\ (looking = o <=> op[o].step = "book")
    BY DEF CapacityTyped, Bound
  <2>5. Active(o) => op[o].site \in Site /\ rest[op[o].site] \in Nat
    BY <1>a, <2>4 DEF Active, Shape
  <2> QED BY <1>a, <2>2, <2>3, <2>4, <2>5, LessIsNat
<1>1. ASSUME NEW o \in Op, NEW kind \in Kind, NEW s \in Site, NEW z \in Size \cup {0},
             Begin(o, kind, s, z)
      PROVE  Bound'
  <2> DEFINE new == [Idle EXCEPT !.kind = kind, !.site = s, !.step = First(kind), !.want = z]
  <2>1. op' = [op EXCEPT ![o] = new]
    BY <1>1, Zenon DEF Begin, Set
  <2>2. /\ new.kind = kind /\ new.site = s /\ new.step = First(kind)
        /\ new.asked = 0 /\ new.base = 0
    BY DEF Idle
  <2>3. First(kind) \in {"look", "down", "read"}
    BY DEF First, Kind, Locked
  <2> HIDE DEF new
  <2>4. op'[o] = new /\ \A p \in Op \ {o} : op'[p] = op[p]
    BY <2>1, OneRecord
  <2>5. Due(o)' = 0
    BY <2>2, <2>3, <2>4 DEF Due, Share, Less
  <2>6. Covered(o)'
    BY <1>a, <1>0, <1>1, <2>2, <2>3, <2>4, <2>5 DEF Covered, Starting, Active, Begin
  <2>7. Running' + Due(o)' <= Running + Due(o) /\ PhpNeedsRest'
    BY <1>a, <1>0, <1>1, <2>5 DEF Begin, Running, PhpNeedsRest
  <2> QED BY <1>1, <2>4, <2>6, <2>7, BoundByStep DEF Begin
<1>2. ASSUME NEW o \in Op, Look(o) PROVE Bound'
  <2> DEFINE new == [op[o] EXCEPT !.step = "book", !.total = Running, !.base = php[op[o].site],
                  !.own = IF op[o].kind = "resize" THEN php[op[o].site]
                          ELSE php[op[o].site] + rest[op[o].site]]
  <2>1. op' = [op EXCEPT ![o] = new]
    BY <1>2, Zenon DEF Look, Set
  <2>2. op[o] \in Operation
    BY DEF CapacityTyped, CapacityTypeOK
  <2>3. /\ new.kind = op[o].kind /\ new.site = op[o].site /\ new.step = "book"
        /\ new.total = Running /\ new.base = php[op[o].site]
        /\ new.own = IF op[o].kind = "resize" THEN php[op[o].site]
                      ELSE php[op[o].site] + rest[op[o].site]
    BY <2>2 DEF Operation
  <2> HIDE DEF new
  <2>4. op'[o] = new /\ \A p \in Op \ {o} : op'[p] = op[p]
    BY <2>1, OneRecord
  <2>5. Due(o) = 0 /\ Due(o)' = 0
    BY <1>2, <2>3, <2>4 DEF Due, Share, Look, At
  <2>6. Total(Dues') = Total(Dues)
    <3>1. \A p \in Op : Due(p)' = Due(p)
      BY <1>2, <2>4, <2>5, OthersDue DEF Look
    <3> QED BY <3>1 DEF Dues
  <2>7. Total(Dues) <= Total(booked)
    <3>1. \A p \in Op : Dues[p] <= booked[p]
      BY DEF Dues, Bound, Covered
    <3> QED BY <1>a, <3>1, TotalGrows, DuesAreNat, SizeAssumption
  <2>8. Running' = Running /\ booked' = booked /\ PhpNeedsRest'
    BY <1>a, <1>2 DEF Look, Running, PhpNeedsRest
  <2>9. op[o].kind \in {"up", "create", "resize"} /\ op[o].site \in Site
    BY <1>0, <1>2 DEF Look, At, Shape, Active
  <2>10. Looked(o)'
    <3>1. Running' + Total(Dues') <= op'[o].total + Total(booked')
      <4>1. PICK a \in Nat, b \in Nat, c \in Nat :
                a = Running /\ b = Total(Dues) /\ c = Total(booked)
        BY <1>a, DuesAreNat
      <4> QED BY <2>3, <2>4, <2>6, <2>7, <2>8, <4>1
    <3>2. Starting(o)' => /\ op'[o].own = op'[o].base + rest'[op'[o].site]
                          /\ rest'[op'[o].site] = 0 => op'[o].base = 0
      BY <1>a, <1>2, <2>3, <2>4, <2>9 DEF Starting, Look, PhpNeedsRest
    <3>3. ~Starting(o)' => op'[o].own = op'[o].base
      BY <2>3, <2>4, <2>9 DEF Starting
    <3> QED BY <3>1, <3>2, <3>3 DEF Looked
  <2>11. Covered(o)'
    BY <1>0, <2>3, <2>4, <2>5, <2>8, <2>9, <2>10 DEF Covered
  <2>12. Running' + Due(o)' <= Running + Due(o)
    BY <1>a, <2>5, <2>8
  <2> QED BY <1>2, <2>4, <2>8, <2>11, <2>12, BoundByStep DEF Look, PhpNeedsRest
<1>3. ASSUME NEW o \in Op, Book(o) PROVE Bound'
  <2> DEFINE a == CASE op[o].kind = "up" -> size[op[o].site]
                    [] op[o].kind = "resize" /\ op[o].own = 0 -> 0
                    [] OTHER -> op[o].want
             new == [op[o] EXCEPT !.step = AfterBooking(o), !.total = 0, !.own = 0, !.asked = a]
  <2>1. op' = [op EXCEPT ![o] = new]
    BY <1>3, Zenon DEF Book, Set
  <2>2. op[o] \in Operation
    BY DEF CapacityTyped, CapacityTypeOK
  <2> HIDE DEF a
  <2>3. /\ new.kind = op[o].kind /\ new.site = op[o].site /\ new.step = AfterBooking(o)
        /\ new.base = op[o].base /\ new.asked = a
    BY <2>2 DEF Operation
  <2> HIDE DEF new
  <2>4. op'[o] = new /\ \A p \in Op \ {o} : op'[p] = op[p]
    BY <2>1, OneRecord
  <2>5. Due(o) = 0 /\ op[o].step = "book" /\ op[o].site \in Site /\ Looked(o) /\ looking = o
    BY <1>0, <1>3 DEF Due, Share, Book, At, Active, Covered
  <2>6. op[o].kind \in {"up", "create", "resize"} /\ rest[op[o].site] \in {0, Rest}
    BY <1>a, <1>0, <2>5 DEF Shape
  <2>7. a \in Nat /\ size[op[o].site] \in Nat
    BY <1>0, <2>5, Sizes DEF a, CapacityTyped, CapacityTypeOK
  <2>8. Due(o)' = Requested(o)
    <3>1. rest' = rest
      BY <1>3 DEF Book
    <3>2. CASE Starting(o)
      <4>1. Due(o)' = Less(a, op[o].base) + Less(Rest, rest[op[o].site])
        BY <2>3, <2>4, <2>6, <3>1, <3>2 DEF Due, Share, AfterBooking, Starting
      <4>2. /\ op[o].own = op[o].base + rest[op[o].site]
            /\ rest[op[o].site] = 0 => op[o].base = 0
        BY <2>5, <3>2 DEF Looked
      <4>3. Desired(o) = a + Rest
        BY <2>6, <3>2 DEF Desired, Starting, a
      <4>4. PICK b \in Nat, r \in Nat : b = op[o].base /\ r = rest[op[o].site]
        BY <1>a, <1>0, <2>6
      <4>5. Less(a + Rest, b + r) = Less(a, b) + Less(Rest, r)
        <5>1. r \in {0, Rest} /\ (r = 0 => b = 0) /\ a \in Nat /\ Rest \in Nat
          BY <1>a, <2>6, <2>7, <4>2, <4>4
        <5> QED BY <5>1 DEF Less
      <4> QED BY <4>1, <4>2, <4>3, <4>4, <4>5 DEF Requested
    <3>3. CASE ~Starting(o)
      <4>1. Due(o)' = Less(a, op[o].base)
        BY <2>3, <2>4, <2>6, <3>1, <3>3 DEF Due, Share, AfterBooking, Starting
      <4>2. op[o].own = op[o].base /\ Desired(o) = a
        BY <2>5, <2>6, <3>3 DEF Looked, Starting, Desired, a
      <4> QED BY <4>1, <4>2 DEF Requested
    <3> QED BY <3>2, <3>3
  <2>9. /\ booked'[o] = Requested(o) /\ \A p \in Op \ {o} : booked'[p] = booked[p]
        /\ Running' = Running /\ rest' = rest /\ php' = php /\ PhpNeedsRest'
    BY <1>a, <1>3 DEF Book, Running, PhpNeedsRest
  <2>10. Requested(o) \in Nat
    <3>1. Counted'
      BY CountsAreNat, PTL
    <3> QED BY <2>8, <3>1 DEF Counted
  <2>11. \A p \in Op : Covered(p)'
    <3>1. Covered(o)'
      BY <2>3, <2>4, <2>6, <2>8, <2>9, <2>10 DEF Covered, AfterBooking
    <3>2. \A p \in Op \ {o} : Covered(p)'
      BY <2>4, <2>5, <2>9, OthersCovered
    <3> QED BY <3>1, <3>2
  <2>12. Running' + Total(Dues') <= Budget
    <3>1. Total(Dues') + 0 = Total(Dues) + Requested(o)
      <4>1. \A p \in Op \ {o} : Due(p)' = Due(p)
        BY <2>4, <2>9, OthersDue
      <4> QED BY <2>5, <2>8, <4>1, DuesMove
    <3>2. /\ Running + Total(Dues) <= op[o].total + Total(booked)
          /\ Running + Total(Dues) <= Budget
      BY <2>5 DEF Looked, Bound
    <3>3. Admitted(o)
      BY <1>3 DEF Book
    <3>4. PICK r \in Nat, d \in Nat, e \in Nat, t \in Nat, b \in Nat, q \in Nat :
              /\ r = Running /\ d = Total(Dues) /\ t = op[o].total /\ b = Total(booked)
              /\ q = Requested(o) /\ e = Total(Dues')
      <4>1. Counted /\ Counted'
        BY CountsAreNat, PTL
      <4> QED BY <1>a, <1>0, <2>10, <4>1 DEF Counted
    <3>5. e = d + q /\ r + d <= t + b /\ r + d <= Budget
      BY <3>1, <3>2, <3>4
    <3>6. q = 0 \/ q <= Less(Budget, t + b)
      BY <3>3, <3>4 DEF Admitted, Available
    <3>7. r + e <= Budget
      BY <1>a, <3>5, <3>6 DEF Less
    <3> QED BY <2>9, <3>4, <3>7
  <2> QED BY <2>9, <2>11, <2>12 DEF Bound
<1>4. ASSUME NEW o \in Op, Refuse(o) \/ EndCommand(o) PROVE Bound'
  <2>1. op' = [op EXCEPT ![o] = Idle]
    BY <1>4, Zenon DEF Refuse, EndCommand, Set
  <2>2. op'[o] = Idle /\ \A p \in Op \ {o} : op'[p] = op[p]
    BY <2>1, OneRecord
  <2>3. Due(o)' = 0
    BY <2>2 DEF Due, Share, Idle
  <2>4. /\ \A p \in Op \ {o} : booked'[p] = booked[p]
        /\ booked'[o] \in Nat /\ looking \in {None, o}
        /\ php' = php /\ rest' = rest
    BY <1>a, <1>0, <1>4 DEF Refuse, EndCommand, Release, At
  <2>5. Covered(o)'
    BY <2>2, <2>3, <2>4 DEF Covered, Idle, Starting, Active
  <2>6. Running' + Due(o)' <= Running + Due(o) /\ PhpNeedsRest'
    BY <1>a, <1>0, <2>3, <2>4 DEF Running, PhpNeedsRest
  <2> QED BY <2>2, <2>4, <2>5, <2>6, BoundByStep
<1>5. ASSUME NEW o \in Op, NEW new, op' = [op EXCEPT ![o] = new],
             new.kind = op[o].kind, new.site = op[o].site, new.step # "book",
             Starting(o) => new.step # "php",
             php' = php, rest' = rest, booked' = booked, Active(o), Due(o)' <= Due(o)
      PROVE  Bound'
  <2>1. op'[o] = new /\ \A p \in Op \ {o} : op'[p] = op[p]
    BY <1>5, OneRecord
  <2>2. Due(o)' \in Nat
    <3>1. Counted'
      BY CountsAreNat, PTL
    <3> QED BY <3>1 DEF Counted
  <2>3. Covered(o)'
    <3>1. Due(o)' <= booked'[o]
      BY <1>0, <1>5, <2>2 DEF Covered
    <3> QED BY <1>0, <1>5, <2>1, <3>1 DEF Covered, Starting, Active
  <2>4. Running' + Due(o)' <= Running + Due(o) /\ PhpNeedsRest'
    BY <1>a, <1>0, <1>5, <2>2 DEF Running, PhpNeedsRest
  <2> QED BY <1>5, <2>1, <2>3, <2>4, BoundByStep
<1>6. ASSUME NEW o \in Op, Build(o) PROVE Bound'
  <2> DEFINE new == [op[o] EXCEPT !.step = "compose"]
  <2>1. op' = [op EXCEPT ![o] = new]
    BY <1>6, Zenon DEF Build, Set, To
  <2>2. op[o] \in Operation
    BY DEF CapacityTyped, CapacityTypeOK
  <2>3. /\ new.kind = op[o].kind /\ new.site = op[o].site
        /\ new.asked = op[o].asked /\ new.base = op[o].base
        /\ new.step = "compose"
    BY <2>2 DEF Operation
  <2> HIDE DEF new
  <2>4. op'[o] = new /\ rest' = rest /\ php' = php /\ booked' = booked
    BY <1>6, <2>1, OneRecord DEF Build
  <2>5. Due(o)' <= Due(o)
    BY <1>0, <1>6, <2>3, <2>4 DEF Due, Share, Build, At, Shape, Active
  <2> QED BY <1>0, <1>5, <1>6, <2>1, <2>3, <2>4, <2>5 DEF Build, At, Active, Starting, Shape
<1>7. ASSUME NEW o \in Op, WriteSize(o) PROVE Bound'
  <2> DEFINE new == [op[o] EXCEPT !.step = CASE op[o].kind = "create" -> "build"
                                      [] php[op[o].site] = 0 -> "end"
                                      [] OTHER -> "compose"]
  <2>1. op' = [op EXCEPT ![o] = new]
    BY <1>7, Zenon DEF WriteSize, Set, To
  <2>2. op[o] \in Operation
    BY DEF CapacityTyped, CapacityTypeOK
  <2>3. /\ new.kind = op[o].kind /\ new.site = op[o].site
        /\ new.asked = op[o].asked /\ new.base = op[o].base
        /\ new.step = CASE op[o].kind = "create" -> "build"
                         [] php[op[o].site] = 0 -> "end"
                         [] OTHER -> "compose"
    BY <2>2 DEF Operation
  <2> HIDE DEF new
  <2>4. op'[o] = new /\ rest' = rest /\ php' = php /\ booked' = booked
    BY <1>7, <2>1, OneRecord DEF WriteSize
  <2>5. Due(o)' <= Due(o)
    BY <1>0, <1>7, <2>3, <2>4 DEF Due, Share, WriteSize, At, Shape, Active
  <2> QED BY <1>0, <1>5, <1>7, <2>1, <2>3, <2>4, <2>5 DEF WriteSize, At, Active, Starting, Shape
<1>8. ASSUME NEW o \in Op, ReadConfig(o) PROVE Bound'
  <2> DEFINE new == [op[o] EXCEPT !.config = size[op[o].site],
                  !.step = IF op[o].kind \in {"up", "create"} THEN "rest" ELSE "php"]
  <2>1. op' = [op EXCEPT ![o] = new]
    BY <1>8, Zenon DEF ReadConfig, Set, To
  <2>2. op[o] \in Operation
    BY DEF CapacityTyped, CapacityTypeOK
  <2>3. /\ new.kind = op[o].kind /\ new.site = op[o].site
        /\ new.asked = op[o].asked /\ new.base = op[o].base
        /\ new.step = IF op[o].kind \in {"up", "create"} THEN "rest" ELSE "php"
    BY <2>2 DEF Operation
  <2> HIDE DEF new
  <2>4. op'[o] = new /\ rest' = rest /\ php' = php /\ booked' = booked
    BY <1>8, <2>1, OneRecord DEF ReadConfig
  <2>5. Due(o)' <= Due(o)
    BY <1>0, <1>8, <2>3, <2>4 DEF Due, Share, ReadConfig, At, Shape, Active
  <2> QED BY <1>0, <1>5, <1>8, <2>1, <2>3, <2>4, <2>5
         DEF ReadConfig, At, Active, Starting, Shape
<1>9. ASSUME NEW o \in Op, ReadEnv(o) PROVE Bound'
  <2> DEFINE new == [op[o] EXCEPT !.step = "back", !.config = size[op[o].site],
                  !.want = IF op[o].kind = "switch" THEN size[op[o].site] ELSE 0]
  <2>1. op' = [op EXCEPT ![o] = new]
    BY <1>9, Zenon DEF ReadEnv, Set, To
  <2>2. op[o] \in Operation
    BY DEF CapacityTyped, CapacityTypeOK
  <2>3. /\ new.kind = op[o].kind /\ new.site = op[o].site
        /\ new.asked = op[o].asked /\ new.base = op[o].base
        /\ new.step = "back"
    BY <2>2 DEF Operation
  <2> HIDE DEF new
  <2>4. op'[o] = new /\ rest' = rest /\ php' = php /\ booked' = booked
    BY <1>9, <2>1, OneRecord DEF ReadEnv
  <2>5. Due(o)' <= Due(o)
    BY <1>0, <1>9, <2>3, <2>4 DEF Due, Share, ReadEnv, At, Shape, Active
  <2> QED BY <1>0, <1>5, <1>9, <2>1, <2>3, <2>4, <2>5 DEF ReadEnv, At, Active, Starting, Shape
<1>10. ASSUME NEW o \in Op, WriteEnv(o) PROVE Bound'
  <2> DEFINE new == [op[o] EXCEPT !.step = IF op[o].kind = "switch" THEN "compose" ELSE "end"]
  <2>1. op' = [op EXCEPT ![o] = new]
    BY <1>10, Zenon DEF WriteEnv, Set, To
  <2>2. op[o] \in Operation
    BY DEF CapacityTyped, CapacityTypeOK
  <2>3. /\ new.kind = op[o].kind /\ new.site = op[o].site
        /\ new.asked = op[o].asked /\ new.base = op[o].base
        /\ new.step = IF op[o].kind = "switch" THEN "compose" ELSE "end"
    BY <2>2 DEF Operation
  <2> HIDE DEF new
  <2>4. op'[o] = new /\ rest' = rest /\ php' = php /\ booked' = booked
    BY <1>10, <2>1, OneRecord DEF WriteEnv
  <2>5. Due(o)' <= Due(o)
    BY <1>0, <1>10, <2>3, <2>4 DEF Due, Share, Less, WriteEnv, At, Shape, Active
  <2> QED BY <1>0, <1>5, <1>10, <2>1, <2>3, <2>4, <2>5 DEF WriteEnv, At, Active, Starting, Shape
<1>20. ASSUME NEW o \in Op, UndoSwitch(o) PROVE Bound'
  <2> DEFINE new == [op[o] EXCEPT !.step = "compose", !.want = 0]
  <2>1. op' = [op EXCEPT ![o] = new]
    BY <1>20, Zenon DEF UndoSwitch, Set
  <2>2. op[o] \in Operation
    BY DEF CapacityTyped, CapacityTypeOK
  <2>3. /\ new.kind = op[o].kind /\ new.site = op[o].site
        /\ new.asked = op[o].asked /\ new.base = op[o].base
        /\ new.step = "compose"
    BY <2>2 DEF Operation
  <2> HIDE DEF new
  <2>4. op'[o] = new /\ rest' = rest /\ php' = php /\ booked' = booked
    BY <1>20, <2>1, OneRecord DEF UndoSwitch
  <2>5. Due(o)' <= Due(o)
    BY <1>0, <1>20, <2>3, <2>4 DEF Due, Share, Less, UndoSwitch, At, Shape, Active
  <2> QED BY <1>0, <1>5, <1>20, <2>1, <2>3, <2>4, <2>5 DEF UndoSwitch, At, Active, Starting, Shape
<1>11. ASSUME NEW o \in Op, Lose(o) PROVE Bound'
  <2> DEFINE new == [op[o] EXCEPT !.step = "lost"]
  <2>1. op' = [op EXCEPT ![o] = new]
    BY <1>11, Zenon DEF Lose, Set, To
  <2>2. op[o] \in Operation
    BY DEF CapacityTyped, CapacityTypeOK
  <2>3. /\ new.kind = op[o].kind /\ new.site = op[o].site
        /\ new.asked = op[o].asked /\ new.base = op[o].base
        /\ new.step = "lost"
    BY <2>2 DEF Operation
  <2> HIDE DEF new
  <2>4. op'[o] = new /\ rest' = rest /\ php' = php /\ booked' = booked
    BY <1>11, <2>1, OneRecord DEF Lose
  <2>5. Due(o)' <= Due(o)
    BY <1>0, <1>11, <2>3, <2>4 DEF Due, Share, Lose, At, Shape, Active
  <2> QED BY <1>0, <1>5, <1>11, <2>1, <2>3, <2>4, <2>5 DEF Lose, At, Active, Starting, Shape
<1>12. ASSUME NEW o \in Op, StartRest(o) PROVE Bound'
  <2> DEFINE s == op[o].site  new == [op[o] EXCEPT !.step = "php"]
  <2>1. op' = [op EXCEPT ![o] = new]
    BY <1>12, Zenon DEF StartRest, Set, To
  <2>2. op[o] \in Operation
    BY DEF CapacityTyped, CapacityTypeOK
  <2>3. /\ new.kind = op[o].kind /\ new.site = s /\ new.step = "php"
        /\ new.asked = op[o].asked /\ new.base = op[o].base
    BY <2>2 DEF Operation
  <2> HIDE DEF new
  <2>4. op'[o] = new /\ \A p \in Op \ {o} : op'[p] = op[p]
    BY <2>1, OneRecord
  <2>5. /\ op[o].step = "rest" /\ Starting(o) /\ s \in Site /\ HasLock(o)
        /\ php' = php /\ booked' = booked
        /\ rest'[s] = Rest /\ \A x \in Site : x # s => rest'[x] = rest[x]
    BY <1>a, <1>0, <1>12 DEF StartRest, At, Shape, Starting, Active, HasLock, Locked
  <2>6. /\ Due(o) = Less(op[o].asked, op[o].base) + Less(Rest, rest[s])
        /\ Due(o)' = Less(op[o].asked, op[o].base)
    BY <2>3, <2>4, <2>5 DEF Due, Share, Starting
  <2>7. Running' + Due(o)' <= Running + Due(o)
    <3>1. Total(rest') + rest[s] = Total(rest) + Rest
      BY <2>5, TotalMoved
    <3>2. PICK a \in Nat, b \in Nat, c \in Nat, l \in Nat, r \in Nat :
              /\ a = Total(php) /\ b = Total(rest) /\ c = Total(rest')
              /\ l = Less(op[o].asked, op[o].base) /\ r = rest[s]
      <4>1. Total(php) \in Nat /\ Total(rest) \in Nat /\ Total(rest') \in Nat
        BY <2>5, TotalMoved
      <4>2. Less(op[o].asked, op[o].base) \in Nat /\ rest[s] \in Nat
        BY <1>0, <1>a, <2>5
      <4> QED BY <4>1, <4>2
    <3>3. c + r = b + Rest /\ Rest \in Nat
      BY <1>a, <3>1, <3>2
    <3>4. Running = a + b /\ Running' = a + c
      BY <2>5, <3>2 DEF Running
    <3>5. a + c + l <= a + b + (l + Less(Rest, r))
      BY <3>3 DEF Less
    <3> QED BY <2>6, <3>2, <3>4, <3>5
  <2>8. Covered(o)'
    BY <1>0, <2>3, <2>4, <2>5, <2>6, <1>a DEF Covered, Starting, Less
  <2>9. PhpNeedsRest'
    BY <1>a, <2>5 DEF PhpNeedsRest
  <2> QED BY <2>4, <2>5, <2>7, <2>8, <2>9, BoundByStep
<1>13. ASSUME NEW o \in Op, StartPhp(o) PROVE Bound'
  <2> DEFINE s == op[o].site  new == [op[o] EXCEPT !.step = "end"]
  <2>1. op' = [op EXCEPT ![o] = new]
    BY <1>13, Zenon DEF StartPhp, Set, To
  <2>2. op[o] \in Operation
    BY DEF CapacityTyped, CapacityTypeOK
  <2>3. new.kind = op[o].kind /\ new.site = s /\ new.step = "end"
    BY <2>2 DEF Operation
  <2> HIDE DEF new
  <2>4. op'[o] = new /\ \A p \in Op \ {o} : op'[p] = op[p]
    BY <2>1, OneRecord
  <2>5. /\ op[o].step = "php" /\ s \in Site /\ op[o].config \in Nat \ {0}
        /\ rest' = rest /\ booked' = booked
        /\ php'[s] = op[o].config /\ \A x \in Site : x # s => php'[x] = php[x]
    BY <1>a, <1>0, <1>13, SizeAssumption DEF StartPhp, At, Shape, Active
  <2>6. ~Unasked(o)
    BY <1>13, Zenon DEF StartPhp
  <2>7. Due(o) = Less(op[o].asked, op[o].base) /\ Due(o)' = 0
    BY <2>3, <2>4, <2>5 DEF Due, Share
  <2>8. Running' + Due(o)' <= Running + Due(o)
    <3>1. Total(php') + php[s] = Total(php) + op[o].config
      BY <2>5, TotalMoved
    <3>2. PICK a \in Nat, b \in Nat, c \in Nat, l \in Nat, r \in Nat, z \in Nat :
              /\ a = Total(php) /\ b = Total(php') /\ c = Total(rest)
              /\ l = Less(op[o].asked, op[o].base) /\ r = php[s] /\ z = op[o].config
      BY <1>0, <1>a, <2>5, TotalMoved
    <3>3. b + r = a + z /\ ~(Less(z, r) > l)
      BY <2>6, <3>1, <3>2 DEF Unasked
    <3>4. Running = a + c /\ Running' = b + c
      BY <2>5, <3>2 DEF Running
    <3>5. b + c + 0 <= a + c + l
      BY <3>3 DEF Less
    <3> QED BY <2>7, <3>2, <3>4, <3>5
  <2>9. Covered(o)'
    BY <1>0, <2>3, <2>4, <2>5, <2>7, <1>a DEF Covered
  <2>10. PhpNeedsRest'
    <3>1. rest[s] = Rest
      BY <1>0, <1>a, <2>5, <2>6 DEF Covered, Shape, PhpNeedsRest, Unasked, Starting, Active
    <3> QED BY <1>a, <2>5, <3>1 DEF PhpNeedsRest
  <2>11. \A x \in Site : php[x] # 0 => php'[x] # 0
    BY <2>5
  <2> QED BY <2>4, <2>5, <2>8, <2>9, <2>10, <2>11, BoundByStep
<1>14. ASSUME NEW o \in Op, StopAll(o) \/ RollBack(o) PROVE Bound'
  <2> DEFINE s == op[o].site  new == IF StopAll(o) THEN [op[o] EXCEPT !.step = "end"] ELSE Idle
  <2>1. op' = [op EXCEPT ![o] = new]
    BY <1>14, Zenon DEF StopAll, RollBack, Set, To
  <2>2. op[o] \in Operation
    BY DEF CapacityTyped, CapacityTypeOK
  <2>3. new.step \in {"end", "idle"} /\ (new.kind = "switch" => op[o].kind = "switch")
    BY <2>2 DEF Operation, Idle
  <2> HIDE DEF new
  <2>4. op'[o] = new /\ \A p \in Op \ {o} : op'[p] = op[p]
    BY <2>1, OneRecord
  <2>5. /\ op[o].kind \in {"down", "create"} /\ s \in Site /\ HasLock(o)
        /\ \A p \in Op \ {o} : booked'[p] = booked[p]
        /\ booked'[o] \in Nat /\ (looking = None \/ booked' = booked)
    BY <1>a, <1>0, <1>14
       DEF StopAll, RollBack, Release, At, Shape, Starting, Active, HasLock, Locked
  <2>6. /\ php'[s] = 0 /\ \A x \in Site : x # s => php'[x] = php[x]
        /\ rest'[s] = 0 /\ \A x \in Site : x # s => rest'[x] = rest[x]
    BY <1>a, <1>14, <2>5 DEF StopAll, RollBack
  <2>7. Due(o)' = 0
    BY <2>3, <2>4 DEF Due, Share
  <2>8. Running' + Due(o)' <= Running + Due(o)
    <3>1. Total(php') + php[s] = Total(php) + 0 /\ Total(rest') + rest[s] = Total(rest) + 0
      BY <2>5, <2>6, TotalMoved
    <3>2. PICK a \in Nat, b \in Nat, c \in Nat, d \in Nat, l \in Nat, r \in Nat, z \in Nat :
              /\ a = Total(php) /\ b = Total(php') /\ c = Total(rest) /\ d = Total(rest')
              /\ l = Due(o) /\ r = php[s] /\ z = rest[s]
      <4>1. /\ Total(php) \in Nat /\ Total(php') \in Nat
            /\ Total(rest) \in Nat /\ Total(rest') \in Nat
        BY <2>5, TotalMoved
      <4>2. Due(o) \in Nat /\ php[s] \in Nat /\ rest[s] \in Nat
        BY <1>0, <1>a, <2>5
      <4> QED BY <4>1, <4>2
    <3>3. b + d <= a + c + l
      BY <3>1, <3>2
    <3> QED BY <2>7, <3>2, <3>3 DEF Running
  <2>9. Covered(o)'
    BY <2>3, <2>4, <2>5, <2>7 DEF Covered, Starting, Active
  <2>10. PhpNeedsRest'
    BY <1>a, <2>6 DEF PhpNeedsRest
  <2> QED BY <2>4, <2>5, <2>8, <2>9, <2>10, BoundByStep
<1>15. ASSUME NEW o \in Op, TimeOut(o) PROVE Bound'
  <2> DEFINE new == [op[o] EXCEPT !.want = 0, !.asked = 0, !.base = 0]
  <2>1. op' = [op EXCEPT ![o] = new]
    BY <1>15, Zenon DEF TimeOut, Set
  <2>2. op[o] \in Operation
    BY DEF CapacityTyped, CapacityTypeOK
  <2>3. /\ new.kind = op[o].kind /\ new.site = op[o].site /\ new.step = op[o].step
        /\ new.asked = 0 /\ new.base = 0
    BY <2>2 DEF Operation
  <2> HIDE DEF new
  <2>4. op'[o] = new /\ \A p \in Op \ {o} : op'[p] = op[p]
    BY <2>1, OneRecord
  <2>5. /\ op[o].kind = "resize" /\ op[o].step = "php" /\ php' = php /\ rest' = rest
        /\ looking = None /\ booked'[o] = 0 /\ \A p \in Op \ {o} : booked'[p] = booked[p]
    BY <1>a, <1>15 DEF TimeOut, At, Release
  <2>6. Due(o)' = 0
    BY <2>3, <2>4, <2>5 DEF Due, Share, Less
  <2>7. Covered(o)'
    BY <2>3, <2>4, <2>5, <2>6 DEF Covered, Starting
  <2>8. Running' + Due(o)' <= Running + Due(o) /\ PhpNeedsRest'
    BY <1>a, <1>0, <2>5, <2>6 DEF Running, PhpNeedsRest
  <2> QED BY <2>4, <2>5, <2>7, <2>8, BoundByStep
<1>16. CASE SetPolicy
  BY <1>16 DEF SetPolicy, Bound, PhpNeedsRest, Covered, Looked, Running, Dues, Due, Starting,
               Active
<1>17. CASE CockpitRestart
  <2>1. \A o \in Op : op'[o] = Idle /\ booked'[o] = 0
    BY <1>17 DEF CockpitRestart
  <2>2. \A o \in Op : Due(o)' = 0
    BY <2>1 DEF Due, Share, Idle
  <2>3. \A o \in Op : Covered(o)'
    BY <2>1, <2>2 DEF Covered, Starting, Active, Idle
  <2>4. Total(Dues') = 0
    BY <2>2, TotalZero, SizeAssumption DEF Dues
  <2>5. Running' = Running /\ PhpNeedsRest'
    BY <1>a, <1>17 DEF CockpitRestart, Running, PhpNeedsRest
  <2>6. Running <= Budget
    <3>1. PICK d \in Nat : d = Total(Dues)
      BY DuesAreNat
    <3> QED BY <1>a, <3>1 DEF Bound
  <2> QED BY <1>a, <2>3, <2>4, <2>5, <2>6 DEF Bound
<1> QED BY <1>1, <1>2, <1>3, <1>4, <1>6, <1>7, <1>8, <1>9, <1>10, <1>11, <1>12, <1>13,
           <1>14, <1>15, <1>16, <1>17, <1>20 DEF CapacityNext


-----------------------------------------------------------------------------
(* Capacity: theorems *)

\* Nothing runs and nothing is booked at first.
LEMMA InitCapacityInv == CapacityInit => CapacityInv
<1> SUFFICES ASSUME CapacityInit PROVE CapacityInv
  OBVIOUS
<1> USE DEF CapacityInit
<1>1. CapacityTypeOK
  <2>1. Idle \in Operation /\ Idle.step = "idle"
    BY DEF Idle, Operation, Kind, Locked
  <2>2. 0 \in 0 .. Rest + Max(Size) /\ 0 \in {0, Rest}
    BY Sizes, SizeAssumption
  <2> HIDE DEF CapacityInit
  <2> QED BY <2>1, <2>2 DEF CapacityInit, CapacityTypeOK
<1>2. \A o \in Op : op[o] = Idle /\ booked[o] = 0
  OBVIOUS
<1>3. CapacityTyped
  BY <1>1, <1>2, SizeAssumption DEF CapacityTyped, HasLock, Active, Shape, Idle
<1>4. Total(php) = 0 /\ Total(rest) = 0 /\ Total(Dues) = 0
  <2>1. \A o \in Op : Dues[o] = 0
    BY <1>2 DEF Dues, Due, Share, Idle
  <2>2. DOMAIN Dues = Op
    BY DEF Dues
  <2> QED BY <2>1, <2>2, TotalZero, SizeAssumption
<1>5. \A o \in Op : Covered(o)
  BY <1>2 DEF Covered, Due, Share, Starting, Active, Idle
<1>6. PhpNeedsRest
  BY DEF PhpNeedsRest
<1> QED BY <1>3, <1>4, <1>5, <1>6, SizeAssumption DEF CapacityInv, Bound, Running

\* Every step keeps the invariant.
LEMMA NextCapacityInv == CapacityInv /\ [CapacityNext]_capacityVars => CapacityInv'
<1> SUFFICES ASSUME CapacityInv, [CapacityNext]_capacityVars PROVE CapacityInv'
  OBVIOUS
<1>1. CASE CapacityNext
  <2>1. CapacityTyped'
    BY <1>1, TypedStep DEF CapacityInv
  <2>2. ~exempt' => ~exempt
    BY <1>1, Zenon
       DEF CapacityNext, Begin, Look, Book, Refuse, Build, WriteSize, ReadConfig, StartRest,
           StartPhp, StopAll, ReadEnv, WriteEnv, UndoSwitch, EndCommand, RollBack, Lose,
           TimeOut, SetPolicy, CockpitRestart
  <2> QED BY <1>1, <2>1, <2>2, BoundStep DEF CapacityInv
<1>2. CASE UNCHANGED capacityVars
  BY <1>2
     DEF capacityVars, CapacityInv, CapacityTyped, CapacityTypeOK, HasLock, Active, Shape,
         Bound, PhpNeedsRest, Covered, Looked, Running, Dues, Due, Starting
<1> QED BY <1>1, <1>2

\* The invariant always holds.
THEOREM AlwaysCapacityInv == CapacitySpec => []CapacityInv
BY InitCapacityInv, NextCapacityInv, PTL DEF CapacitySpec

\* The variables keep their types: nobody books without having looked, and an operation
\* that is over has nothing booked.
THEOREM CapacityTypeCorrect == CapacitySpec => []CapacityTypeOK
<1>1. CapacityInv => CapacityTypeOK
  BY DEF CapacityInv, CapacityTyped
<1> QED BY <1>1, AlwaysCapacityInv, PTL

\* However starts, creations, resizes and restarts overlap, the limits of the running
\* containers never exceed the budget, unless a container grew that nobody had asked
\* about: for every number of sites and operations, every size and every budget.
THEOREM BudgetHolds == CapacitySpec => []RunningWithinBudget
<1>1. CapacityInv => RunningWithinBudget
  <2> SUFFICES ASSUME CapacityInv, ~exempt PROVE Running <= Budget
    BY DEF RunningWithinBudget
  <2>1. Counted /\ Running + Total(Dues) <= Budget
    BY CountsAreNat DEF CapacityInv, Bound
  <2>2. PICK a \in Nat, d \in Nat : a = Running /\ d = Total(Dues)
    BY <2>1 DEF Counted
  <2> QED BY <2>1, <2>2, SizeAssumption
<1> QED BY <1>1, AlwaysCapacityInv, PTL
==============================================================================
