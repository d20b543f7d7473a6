--------------------------- MODULE Provision_proof ---------------------------
(***************************************************************************)
(* Proofs about Provision, for every set of connections, keys, bodies,     *)
(* project names and handlers, and every quota.                            *)
(*                                                                         *)
(* The argument rests on the lock: an actor that is not idle holds it      *)
(* (ActorInv), so all the others are idle, and what an actor has found out *)
(* about its project's directory stays true until it acts on it.  What it  *)
(* knows of its request's row survives the unlocked calls because they     *)
(* only ever delete it (HandlerInv).                                       *)
(***************************************************************************)
EXTENDS Provision, FiniteSetTheorems, TLAPS

\* What the lock protects for whoever works under it.
ActorInv(a) ==
    /\ pc[a] # "idle" => lock = a
    /\ pc[a] \notin {"idle", "authorized"} => proj[a] \in Project
    /\ pc[a] \in {"reserved", "script"} => ~IsProject(proj[a])
    /\ pc[a] \in {"made", "built", "created"} => maker[proj[a]] = Tag(a)

\* A request under way is undecided in the table, or revoked away; a pending
\* clean-up meets no foreign site.
HandlerInv(h) ==
    /\ pc[h] # "idle" => ask[h] \in Ask
    /\ pc[h] \notin {"idle", "authorized"} =>
          (req[Slot(h)] # NoRow => req[Slot(h)].state = "in_progress")
    /\ pc[h] = "cleanup" /\ IsProject(proj[h]) => maker[proj[h]] = Slot(h)

IInv ==
    /\ TypeOK
    /\ \A a \in Actor : ActorInv(a)
    /\ \A h \in Handler : HandlerInv(h)

------------------------------------------------------------------------------
(* Helpers *)

\* An idle actor has nothing to keep.
LEMMA IdleActor ==
    /\ \A a \in Actor : pc[a] = "idle" => ActorInv(a)
    /\ \A h \in Handler : pc[h] = "idle" => HandlerInv(h)
BY DEF ActorInv, HandlerInv

\* Whoever works, works alone.
LEMMA Alone ==
    ASSUME IInv, NEW a \in Actor, pc[a] # "idle"
    PROVE  lock = a /\ \A b \in Actor : b # a => pc[b] = "idle"
BY DEF IInv, ActorInv

\* Nobody works while the lock is free.
LEMMA FreeMeansIdle ==
    ASSUME IInv, LockFree PROVE \A a \in Actor : pc[a] = "idle"
BY ConstantAssumption DEF IInv, ActorInv, LockFree

LEMMA HandlersAct == Handler \subseteq Actor /\ Operator \in Actor /\ Operator \notin Handler
BY ConstantAssumption DEF Actor

\* The identity under which an actor that works makes a site is a maker.
LEMMA TagIsMaker ==
    ASSUME IInv, NEW a \in Actor, pc[a] # "idle"
    PROVE  Tag(a) \in Maker
BY HandlersAct DEF IInv, HandlerInv, Tag, Slot, Maker, Ask, Actor

\* Forgetting rows keeps the table typed.
LEMMA DiscardedTyped == TypeOK => Discarded \in [Project -> Row \cup {NoRow}]
BY DEF TypeOK, Discarded

\* Storing a state keeps the table typed.
LEMMA SetStateTyped ==
    ASSUME TypeOK, NEW h \in Handler, NEW s \in {"in_progress", "complete", "failed"}
    PROVE  SetState(h, s) \in [Connection \X Key -> Request \cup {NoRow}]
<1> DEFINE old == req[Slot(h)]
           new == IF old = NoRow THEN NoRow ELSE [old EXCEPT !.state = s]
<1>1. SetState(h, s) = [req EXCEPT ![Slot(h)] = new]
  BY DEF SetState
<1>2. Slot(h) \in Connection \X Key => new \in Request \cup {NoRow}
  BY DEF TypeOK, Request
<1> HIDE DEF new
<1>. QED
  BY <1>1, <1>2 DEF TypeOK

\* Storing a status keeps the table typed.
LEMMA SetStatusTyped ==
    ASSUME TypeOK, NEW h \in Handler, NEW s \in {"provisioning", "active", "cleanup_required"}
    PROVE  SetStatus(h, s) \in [Project -> Row \cup {NoRow}]
BY DEF TypeOK, SetStatus, Row

\* Removing directories keeps the disk typed.
LEMMA VanishTyped ==
    ASSUME TypeOK, NEW P, Vanish(P)
    PROVE  /\ dir' \in [Project -> {"absent", "partial", "project"}]
           /\ up' \in [Project -> BOOLEAN]
           /\ maker' \in [Project -> Maker \cup {Nobody}]
BY DEF TypeOK, Vanish

\* A finished actor leaves typed variables.
LEMMA ReleaseTyped ==
    ASSUME TypeOK, NEW a \in Actor, Release(a)
    PROVE  /\ lock' \in Actor \cup {Nobody}
           /\ pc' = [pc EXCEPT ![a] = "idle"]
           /\ ask' \in [Handler -> Ask \cup {NoAsk}]
           /\ proj' \in [Actor -> Project \cup {NoProject}]
           /\ cleaned' \in [Handler -> BOOLEAN]
BY DEF TypeOK, Release

\* The program counters stay typed when one actor moves.
LEMMA PcTyped ==
    ASSUME TypeOK, NEW a \in Actor, NEW x, pc' = [pc EXCEPT ![a] = x],
           a \in Handler => x \in HandlerPC, a = Operator => x \in OperatorPC
    PROVE  /\ pc' \in [Actor -> HandlerPC \cup OperatorPC]
           /\ \A h \in Handler : pc'[h] \in HandlerPC
           /\ pc'[Operator] \in OperatorPC
BY HandlersAct DEF TypeOK, Actor

\* Moving one actor on changes no other part of its work.
LEMMA GotoTyped ==
    ASSUME TypeOK, NEW a \in Actor, NEW x, Goto(a, x),
           a \in Handler => x \in HandlerPC, a = Operator => x \in OperatorPC
    PROVE  /\ pc' \in [Actor -> HandlerPC \cup OperatorPC]
           /\ \A h \in Handler : pc'[h] \in HandlerPC
           /\ pc'[Operator] \in OperatorPC
           /\ ask' = ask /\ proj' = proj /\ cleaned' = cleaned
BY PcTyped DEF Goto

------------------------------------------------------------------------------
(* Types *)

\* A handler's own step keeps every variable in its type.
LEMMA HandlerTyped == ASSUME IInv, NEW h \in Handler, HandlerStep(h) PROVE TypeOK'
<1>0. TypeOK /\ h \in Actor
  BY HandlersAct DEF IInv
<1>1. ASSUME NEW c \in Connection, NEW k \in Key, NEW b \in Body, Accept(h, c, k, b)
      PROVE  TypeOK'
  <2>1. pc' = [pc EXCEPT ![h] = "authorized"]
    BY <1>1 DEF Accept
  <2>2. /\ pc' \in [Actor -> HandlerPC \cup OperatorPC]
        /\ \A g \in Handler : pc'[g] \in HandlerPC
        /\ pc'[Operator] \in OperatorPC
    BY <1>0, <2>1, PcTyped, HandlersAct DEF HandlerPC
  <2>3. ask' \in [Handler -> Ask \cup {NoAsk}]
    BY <1>0, <1>1 DEF Accept, Ask, TypeOK
  <2>. QED
    BY <1>0, <1>1, <2>2, <2>3 DEF Accept, TypeOK, tables, disk
<1>2. CASE Reserve(h)
  <2>1. ask[h] \in Ask
    BY <1>2, <1>0 DEF Reserve, IInv, HandlerInv
  <2>2. PICK p \in FreeNames(h) :
          /\ req' = [req EXCEPT ![Slot(h)] =
                        [hash |-> ask[h].body, state |-> "in_progress", project |-> p]]
          /\ row' = [Discarded EXCEPT ![p] =
                        [conn |-> ask[h].conn, status |-> "provisioning"]]
          /\ proj' = [proj EXCEPT ![h] = p]
    BY <1>2 DEF Reserve
  <2>3. p \in Project
    BY <2>2 DEF FreeNames
  <2>4. req' \in [Connection \X Key -> Request \cup {NoRow}]
    BY <1>0, <2>1, <2>2, <2>3 DEF TypeOK, Request, Ask
  <2>5. row' \in [Project -> Row \cup {NoRow}]
    BY <1>0, <2>1, <2>2, DiscardedTyped DEF Row, Ask
  <2>6. proj' \in [Actor -> Project \cup {NoProject}]
    BY <1>0, <2>2, <2>3 DEF TypeOK
  <2>7. pc' = [pc EXCEPT ![h] = "reserved"]
    BY <1>2 DEF Reserve
  <2>8. /\ pc' \in [Actor -> HandlerPC \cup OperatorPC]
        /\ \A g \in Handler : pc'[g] \in HandlerPC
        /\ pc'[Operator] \in OperatorPC
    BY <1>0, <2>7, PcTyped, HandlersAct DEF HandlerPC
  <2>. QED
    BY <1>0, <1>2, <2>4, <2>5, <2>6, <2>8 DEF Reserve, TypeOK, disk
<1>3. CASE ReplayOrRefuse(h) \/ FinishProvision(h) \/ RecordFailure(h)
  <2>1. Release(h)
    BY <1>3 DEF ReplayOrRefuse, FinishProvision, RecordFailure
  <2>2. /\ lock' \in Actor \cup {Nobody}
        /\ pc' = [pc EXCEPT ![h] = "idle"]
        /\ ask' \in [Handler -> Ask \cup {NoAsk}]
        /\ proj' \in [Actor -> Project \cup {NoProject}]
        /\ cleaned' \in [Handler -> BOOLEAN]
    BY <1>0, <2>1, ReleaseTyped
  <2>3. /\ pc' \in [Actor -> HandlerPC \cup OperatorPC]
        /\ \A g \in Handler : pc'[g] \in HandlerPC
        /\ pc'[Operator] \in OperatorPC
    BY <1>0, <2>2, PcTyped, HandlersAct DEF HandlerPC
  <2>4. req' \in [Connection \X Key -> Request \cup {NoRow}]
    BY <1>0, <1>3, SetStateTyped
       DEF TypeOK, tables, ReplayOrRefuse, FinishProvision, RecordFailure
  <2>5. row' \in [Project -> Row \cup {NoRow}]
    <3>1. [row EXCEPT ![proj[h]] = NoRow] \in [Project -> Row \cup {NoRow}]
      BY <1>0 DEF TypeOK
    <3>. QED
      BY <1>0, <1>3, <3>1, SetStatusTyped
         DEF TypeOK, tables, ReplayOrRefuse, FinishProvision, RecordFailure
  <2>. QED
    BY <1>0, <1>3, <2>2, <2>3, <2>4, <2>5
       DEF TypeOK, disk, ReplayOrRefuse, FinishProvision, RecordFailure
<1>4. CASE PrepareRefused(h) \/ StartScript(h) \/ PostCreateFails(h)
  <2>1. /\ pc' \in [Actor -> HandlerPC \cup OperatorPC]
        /\ \A g \in Handler : pc'[g] \in HandlerPC
        /\ pc'[Operator] \in OperatorPC
        /\ ask' = ask /\ proj' = proj /\ cleaned' = cleaned
    BY <1>0, <1>4, GotoTyped, HandlersAct
       DEF PrepareRefused, StartScript, PostCreateFails, HandlerPC
  <2>. QED
    BY <1>0, <1>4, <2>1
       DEF TypeOK, tables, disk, PrepareRefused, StartScript, PostCreateFails
<1>5. CASE ScriptKilled(h)
  <2>1. /\ pc' \in [Actor -> HandlerPC \cup OperatorPC]
        /\ \A g \in Handler : pc'[g] \in HandlerPC
        /\ pc'[Operator] \in OperatorPC
        /\ ask' = ask /\ proj' = proj /\ cleaned' = cleaned
    BY <1>0, <1>5, GotoTyped, HandlersAct DEF ScriptKilled, HandlerPC
  <2>2. up' \in [Project -> BOOLEAN]
    BY <1>0, <1>5 DEF ScriptKilled, TypeOK
  <2>. QED
    BY <1>0, <1>5, <2>1, <2>2 DEF TypeOK, tables, ScriptKilled
<1>6. CASE CleanUp(h)
  <2>1. pc' = [pc EXCEPT ![h] = "failing"]
    BY <1>6 DEF CleanUp
  <2>2. /\ pc' \in [Actor -> HandlerPC \cup OperatorPC]
        /\ \A g \in Handler : pc'[g] \in HandlerPC
        /\ pc'[Operator] \in OperatorPC
    BY <1>0, <2>1, PcTyped, HandlersAct DEF HandlerPC
  <2>3. \/ Vanish({proj[h]})
        \/ /\ up' = [up EXCEPT ![proj[h]] = @ /\ ~IsProject(proj[h])]
           /\ UNCHANGED <<dir, maker>>
    BY <1>6 DEF CleanUp
  <2>4. /\ dir' \in [Project -> {"absent", "partial", "project"}]
        /\ up' \in [Project -> BOOLEAN]
        /\ maker' \in [Project -> Maker \cup {Nobody}]
    <3>1. CASE Vanish({proj[h]})
      BY <1>0, <3>1, VanishTyped
    <3>2. CASE /\ up' = [up EXCEPT ![proj[h]] = @ /\ ~IsProject(proj[h])]
               /\ UNCHANGED <<dir, maker>>
      <4>1. up' \in [Project -> BOOLEAN]
        BY <1>0, <3>2, Zenon DEF TypeOK
      <4>. QED
        BY <1>0, <3>2, <4>1 DEF TypeOK
    <3>. QED
      BY <2>3, <3>1, <3>2
  <2>5. cleaned' \in [Handler -> BOOLEAN]
    <3>1. cleaned' = [cleaned EXCEPT ![h] =
                        (IsProject(proj[h]) /\ DestroyMayRun(h)) \/ ~IsProject(proj[h])]
      BY <1>6 DEF CleanUp
    <3>2. ((IsProject(proj[h]) /\ DestroyMayRun(h)) \/ ~IsProject(proj[h])) \in BOOLEAN
      OBVIOUS
    <3>. QED
      BY <1>0, <3>1, <3>2 DEF TypeOK
  <2>. QED
    BY <1>0, <1>6, <2>2, <2>4, <2>5 DEF TypeOK, tables, CleanUp
<1>. QED
  BY <1>1, <1>2, <1>3, <1>4, <1>5, <1>6 DEF HandlerStep

\* So does a step of the creation script, whoever runs it.
LEMMA ScriptTyped == ASSUME IInv, NEW a \in Actor, ScriptStep(a) PROVE TypeOK'
<1>0. TypeOK /\ pc[a] # "idle" /\ (a = Operator \/ (a \in Handler /\ a # Operator))
  BY HandlersAct
     DEF IInv, ScriptStep, MakeDirectory, CopyStack, ScriptSucceeds, ScriptFails, Actor
<1>1. /\ pc' \in [Actor -> HandlerPC \cup OperatorPC]
      /\ \A h \in Handler : pc'[h] \in HandlerPC
      /\ pc'[Operator] \in OperatorPC
      /\ ask' = ask /\ proj' = proj /\ cleaned' = cleaned
  <2>1. PICK x \in {"made", "built", IF a = Operator THEN "over" ELSE "created",
                    AfterFailure(a)} : Goto(a, x)
    BY DEF ScriptStep, MakeDirectory, CopyStack, ScriptSucceeds, ScriptFails
  <2>2. /\ a \in Handler => x \in HandlerPC
        /\ a = Operator => x \in OperatorPC
    BY <1>0, <2>1, HandlersAct DEF AfterFailure, HandlerPC, OperatorPC
  <2>. QED
    BY <1>0, <2>1, <2>2, GotoTyped
<1>2. CASE MakeDirectory(a)
  <2>1. Tag(a) \in Maker
    BY <1>0, TagIsMaker
  <2>2. /\ dir' \in [Project -> {"absent", "partial", "project"}]
        /\ maker' \in [Project -> Maker \cup {Nobody}]
    BY <1>0, <1>2, <2>1 DEF MakeDirectory, TypeOK
  <2>. QED
    BY <1>0, <1>1, <1>2, <2>2 DEF MakeDirectory, TypeOK, tables
<1>3. CASE CopyStack(a) \/ ScriptSucceeds(a)
  BY <1>0, <1>1, <1>3 DEF CopyStack, ScriptSucceeds, TypeOK, tables
<1>4. CASE ScriptFails(a)
  BY <1>0, <1>1, <1>4, VanishTyped DEF ScriptFails, TypeOK, tables
<1>. QED
  BY <1>2, <1>3, <1>4 DEF ScriptStep

\* So do the operator, the expiry timer, the unlocked calls and a restart.
LEMMA OthersTyped ==
    ASSUME IInv,
           \/ \E p \in Project : SiteStep(p)
           \/ \E c \in Connection : ClientStep(c)
           \/ OperatorDone \/ Restart \/ UNCHANGED vars
    PROVE  TypeOK'
<1>0. TypeOK
  BY DEF IInv
<1>1. ASSUME NEW p \in Project, OperatorCreates(p) PROVE TypeOK'
  <2>1. pc' = [pc EXCEPT ![Operator] = "script"]
    BY <1>1 DEF OperatorCreates
  <2>2. /\ pc' \in [Actor -> HandlerPC \cup OperatorPC]
        /\ \A h \in Handler : pc'[h] \in HandlerPC
        /\ pc'[Operator] \in OperatorPC
    BY <1>0, <2>1, PcTyped, HandlersAct DEF OperatorPC
  <2>. QED
    BY <1>0, <1>1, <2>2, HandlersAct DEF OperatorCreates, TypeOK, tables, disk
<1>2. ASSUME NEW p \in Project, OperatorSwitches(p) PROVE TypeOK'
  BY <1>0, <1>2 DEF OperatorSwitches, TypeOK, tables, work
<1>3. ASSUME NEW p \in Project, OperatorDestroys(p) \/ Expire(p) PROVE TypeOK'
  BY <1>0, <1>3, VanishTyped DEF OperatorDestroys, Expire, TypeOK, tables, work
<1>4. ASSUME NEW c \in Connection, ClientStep(c) PROVE TypeOK'
  <2>1. row' \in [Project -> Row \cup {NoRow}]
    BY <1>0, <1>4, DiscardedTyped
       DEF ClientStep, ReadSites, RevokeOwn, RevokeByAdmin, TypeOK
  <2>2. req' \in [Connection \X Key -> Request \cup {NoRow}]
    BY <1>0, <1>4
       DEF ClientStep, ReadSites, RevokeOwn, RevokeByAdmin, Forget, TypeOK
  <2>3. conn' \in [Connection -> {"active", "revoked"}]
    BY <1>0, <1>4 DEF ClientStep, ReadSites, RevokeOwn, RevokeByAdmin, TypeOK
  <2>4. UNCHANGED <<lock, dir, up, maker, pc, ask, proj, cleaned, restarts>>
    BY <1>4 DEF ClientStep, ReadSites, RevokeOwn, RevokeByAdmin, disk, work
  <2>. QED
    BY <1>0, <2>1, <2>2, <2>3, <2>4 DEF TypeOK
<1>5. CASE OperatorDone
  <2>1. pc' = [pc EXCEPT ![Operator] = "idle"]
    BY <1>5 DEF OperatorDone, Release
  <2>2. /\ pc' \in [Actor -> HandlerPC \cup OperatorPC]
        /\ \A h \in Handler : pc'[h] \in HandlerPC
        /\ pc'[Operator] \in OperatorPC
    BY <1>0, <2>1, PcTyped, HandlersAct DEF OperatorPC
  <2>. QED
    BY <1>0, <1>5, <2>2, HandlersAct, ReleaseTyped DEF OperatorDone, TypeOK, tables, disk
<1>6. CASE Restart
  <2>1. \E P : Vanish(P)
    BY <1>6 DEF Restart
  <2>2. restarts' \in 0 .. MaxRestarts
    BY <1>0, <1>6, ConstantAssumption DEF Restart, TypeOK
  <2>3. /\ pc' \in [Actor -> HandlerPC \cup OperatorPC]
        /\ \A h \in Handler : pc'[h] \in HandlerPC
        /\ pc'[Operator] \in OperatorPC
    BY <1>6, HandlersAct DEF Restart, HandlerPC, OperatorPC
  <2>. QED
    BY <1>0, <1>6, <2>1, <2>2, <2>3, VanishTyped DEF Restart, TypeOK, tables
<1>7. CASE UNCHANGED vars
  BY <1>0, <1>7 DEF vars, TypeOK
<1>. QED
  BY <1>1, <1>2, <1>3, <1>4, <1>5, <1>6, <1>7 DEF SiteStep

LEMMA TypeStep == IInv /\ [Next]_vars => TypeOK'
BY HandlerTyped, ScriptTyped, OthersTyped DEF Next

------------------------------------------------------------------------------
(* The inductive invariant *)

\* While one actor moves, the others stay idle; so the invariant is only about
\* the one that moves.
LEMMA OnlyMover ==
    ASSUME IInv, NEW a \in Actor, pc[a] # "idle" \/ LockFree, TypeOK',
           NEW x, pc' = [pc EXCEPT ![a] = x],
           ActorInv(a)', a \in Handler => HandlerInv(a)'
    PROVE  IInv'
<1>1. \A b \in Actor : b # a => pc'[b] = "idle"
  BY Alone, FreeMeansIdle DEF IInv, TypeOK
<1>2. \A b \in Actor : ActorInv(b)'
  BY <1>1 DEF ActorInv
<1>3. \A h \in Handler : HandlerInv(h)'
  BY <1>1, HandlersAct DEF HandlerInv
<1>. QED
  BY <1>2, <1>3 DEF IInv

\* What a handler knows carries over each of its steps.
LEMMA HandlerKeeps == ASSUME IInv, NEW h \in Handler, HandlerStep(h) PROVE IInv'
<1>0. /\ TypeOK /\ TypeOK' /\ h \in Actor /\ h # Operator
      /\ ActorInv(h) /\ HandlerInv(h)
  BY HandlersAct, HandlerTyped DEF IInv
<1>1. ASSUME NEW c \in Connection, NEW k \in Key, NEW b \in Body, Accept(h, c, k, b)
      PROVE  IInv'
  <2>1. pc' = [pc EXCEPT ![h] = "authorized"] /\ pc'[h] = "authorized"
    BY <1>0, <1>1 DEF Accept, TypeOK
  <2>2. ActorInv(h)'
    BY <1>1, <2>1 DEF Accept, ActorInv
  <2>3. ask'[h] \in Ask
    BY <1>0, <1>1 DEF Accept, TypeOK, Ask
  <2>4. HandlerInv(h)'
    BY <2>1, <2>3 DEF HandlerInv
  <2>5. LockFree
    BY <1>1 DEF Accept
  <2>. QED
    BY <1>0, <2>1, <2>2, <2>4, <2>5, OnlyMover
<1>2. CASE Reserve(h)
  <2>1. pc[h] = "authorized" /\ pc' = [pc EXCEPT ![h] = "reserved"] /\ pc'[h] = "reserved"
    BY <1>0, <1>2 DEF Reserve, TypeOK
  <2>2. ask[h] \in Ask /\ ask' = ask /\ lock = h /\ lock' = lock /\ UNCHANGED disk
    BY <1>0, <1>2, <2>1 DEF Reserve, ActorInv, HandlerInv
  <2>3. PICK p \in FreeNames(h) :
          /\ req' = [req EXCEPT ![Slot(h)] =
                        [hash |-> ask[h].body, state |-> "in_progress", project |-> p]]
          /\ proj' = [proj EXCEPT ![h] = p]
    BY <1>2 DEF Reserve
  <2>4. p \in Project /\ ~IsProject(p) /\ proj'[h] = p
    BY <1>0, <2>3 DEF FreeNames, TypeOK
  <2>5. ActorInv(h)'
    BY <2>1, <2>2, <2>4 DEF ActorInv, IsProject, disk
  <2>6. req'[Slot(h)].state = "in_progress"
    BY <1>0, <2>2, <2>3 DEF TypeOK, Slot, Ask
  <2>7. HandlerInv(h)'
    BY <2>1, <2>2, <2>6 DEF HandlerInv, Slot
  <2>. QED
    BY <1>0, <2>1, <2>5, <2>7, OnlyMover
<1>3. CASE ReplayOrRefuse(h) \/ FinishProvision(h) \/ RecordFailure(h)
  <2>1. pc[h] # "idle" /\ Release(h)
    BY <1>3 DEF ReplayOrRefuse, FinishProvision, RecordFailure
  <2>2. pc' = [pc EXCEPT ![h] = "idle"] /\ pc'[h] = "idle"
    BY <1>0, <2>1 DEF Release, TypeOK
  <2>3. ActorInv(h)' /\ HandlerInv(h)'
    BY <2>2 DEF ActorInv, HandlerInv
  <2>. QED
    BY <1>0, <2>1, <2>2, <2>3, OnlyMover
<1>4. ASSUME PrepareRefused(h) \/ StartScript(h) \/ PostCreateFails(h) \/ ScriptKilled(h)
      PROVE  IInv'
  <2> DEFINE x == IF StartScript(h) THEN "script" ELSE "cleanup"
  <2>1. /\ pc[h] \in {"reserved", "created", "made", "built"}
        /\ StartScript(h) => pc[h] = "reserved"
        /\ Goto(h, x)
        /\ UNCHANGED <<lock, req, dir, maker>>
    BY <1>4 DEF PrepareRefused, StartScript, PostCreateFails, ScriptKilled, tables, disk
  <2>2. /\ pc' = [pc EXCEPT ![h] = x] /\ pc'[h] = x /\ x \in {"script", "cleanup"}
        /\ ask' = ask /\ proj' = proj
    BY <1>0, <2>1 DEF Goto, TypeOK
  <2>3. IsProject(proj[h]) => maker[proj[h]] = Slot(h)
    BY <1>0, <2>1 DEF ActorInv, Tag
  <2>4. x = "script" => ~IsProject(proj[h])
    BY <1>0, <2>1 DEF ActorInv
  <2> HIDE DEF x
  <2>5. ActorInv(h)'
    BY <1>0, <2>1, <2>2, <2>4 DEF ActorInv, IsProject
  <2>6. HandlerInv(h)'
    BY <1>0, <2>1, <2>2, <2>3 DEF HandlerInv, IsProject, Slot
  <2>. QED
    BY <1>0, <2>1, <2>2, <2>5, <2>6, OnlyMover
<1>5. CASE CleanUp(h)
  <2>1. /\ pc[h] = "cleanup" /\ pc' = [pc EXCEPT ![h] = "failing"] /\ pc'[h] = "failing"
        /\ UNCHANGED <<lock, req, ask, proj>>
    BY <1>0, <1>5 DEF CleanUp, TypeOK, tables
  <2>2. ActorInv(h)'
    BY <1>0, <2>1 DEF ActorInv
  <2>3. HandlerInv(h)'
    BY <1>0, <2>1 DEF HandlerInv, Slot
  <2>. QED
    BY <1>0, <2>1, <2>2, <2>3, OnlyMover
<1>. QED
  BY <1>1, <1>2, <1>3, <1>4, <1>5 DEF HandlerStep

\* What an actor knows carries over each step of its script.
LEMMA ScriptKeeps == ASSUME IInv, NEW a \in Actor, ScriptStep(a) PROVE IInv'
<1>0. /\ TypeOK /\ TypeOK' /\ pc[a] \in {"script", "made", "built"}
      /\ ActorInv(a) /\ (a \in Handler => HandlerInv(a) /\ a # Operator)
  BY HandlersAct, ScriptTyped
     DEF IInv, ScriptStep, MakeDirectory, CopyStack, ScriptSucceeds, ScriptFails
<1>1. proj[a] \in Project /\ lock = a
  BY <1>0 DEF ActorInv
<1>2. ASSUME NEW x, Goto(a, x), UNCHANGED <<lock, req>>, x \notin {"idle", "reserved", "script"},
             x \in {"made", "built", "created"} => maker'[proj[a]] = Tag(a),
             x = "cleanup" => dir'[proj[a]] # "project"
      PROVE  IInv'
  <2>1. pc' = [pc EXCEPT ![a] = x] /\ pc'[a] = x /\ ask' = ask /\ proj' = proj
    BY <1>0, <1>2 DEF Goto, TypeOK
  <2>2. ActorInv(a)'
    BY <1>1, <1>2, <2>1 DEF ActorInv, Tag, Slot
  <2>3. a \in Handler => HandlerInv(a)'
    BY <1>0, <1>2, <2>1 DEF HandlerInv, Slot, IsProject
  <2>. QED
    BY <1>0, <2>1, <2>2, <2>3, OnlyMover
<1>3. CASE MakeDirectory(a)
  BY <1>0, <1>1, <1>2, <1>3 DEF MakeDirectory, TypeOK, tables
<1>4. CASE CopyStack(a) \/ ScriptSucceeds(a)
  BY <1>0, <1>1, <1>2, <1>4 DEF CopyStack, ScriptSucceeds, ActorInv, tables
<1>5. CASE ScriptFails(a)
  <2>1. dir'[proj[a]] # "project"
    BY <1>0, <1>1, <1>5 DEF ScriptFails, Vanish, ActorInv, IsProject
  <2>2. AfterFailure(a) \in {"over", "cleanup"}
    BY DEF AfterFailure
  <2>. QED
    BY <1>2, <1>5, <2>1, <2>2 DEF ScriptFails, tables
<1>. QED
  BY <1>3, <1>4, <1>5 DEF ScriptStep

\* The other steps need a free lock, or touch nothing that an actor under the
\* lock relies on; a restart leaves no actor.
LEMMA OthersKeep ==
    ASSUME IInv,
           \/ \E p \in Project : SiteStep(p)
           \/ \E c \in Connection : ClientStep(c)
           \/ OperatorDone \/ Restart \/ UNCHANGED vars
    PROVE  IInv'
<1>0. TypeOK /\ TypeOK'
  BY OthersTyped DEF IInv
<1>1. ASSUME NEW p \in Project, OperatorCreates(p) PROVE IInv'
  <2>1. pc' = [pc EXCEPT ![Operator] = "script"] /\ pc'[Operator] = "script"
    BY <1>0, <1>1, HandlersAct DEF OperatorCreates, TypeOK
  <2>2. ActorInv(Operator)'
    BY <1>0, <1>1, <2>1, HandlersAct DEF OperatorCreates, ActorInv, TypeOK, IsProject, disk
  <2>. QED
    BY <1>0, <1>1, <2>1, <2>2, HandlersAct, OnlyMover DEF OperatorCreates
<1>2. ASSUME NEW p \in Project, OperatorSwitches(p) \/ OperatorDestroys(p) \/ Expire(p)
      PROVE  IInv'
  <2>1. LockFree /\ UNCHANGED pc
    BY <1>2 DEF OperatorSwitches, OperatorDestroys, Expire, work
  <2>2. \A a \in Actor : pc'[a] = "idle"
    BY <2>1, FreeMeansIdle
  <2>. QED
    BY <1>0, <2>2, HandlersAct DEF IInv, ActorInv, HandlerInv
<1>3. ASSUME NEW c \in Connection, ClientStep(c) PROVE IInv'
  <2>1. UNCHANGED <<lock, dir, maker, pc, ask, proj>>
    BY <1>3 DEF ClientStep, ReadSites, RevokeOwn, RevokeByAdmin, disk, work
  <2>2. \A ck \in Connection \X Key : req'[ck] = req[ck] \/ req'[ck] = NoRow
    BY <1>3 DEF ClientStep, ReadSites, RevokeOwn, RevokeByAdmin, Forget
  <2>3. ASSUME NEW h \in Handler, pc[h] # "idle"
        PROVE  req'[Slot(h)] = req[Slot(h)] \/ req'[Slot(h)] = NoRow
    BY <2>2, <2>3 DEF IInv, HandlerInv, Slot, Ask
  <2>4. \A a \in Actor : ActorInv(a)'
    BY <2>1 DEF IInv, ActorInv, IsProject, Tag, Slot
  <2>5. ASSUME NEW h \in Handler PROVE HandlerInv(h)'
    BY <2>1, <2>3 DEF IInv, HandlerInv, IsProject, Slot
  <2>. QED
    BY <1>0, <2>4, <2>5 DEF IInv
<1>4. CASE OperatorDone
  <2>1. pc[Operator] # "idle" /\ pc' = [pc EXCEPT ![Operator] = "idle"]
        /\ pc'[Operator] = "idle"
    BY <1>0, <1>4, HandlersAct DEF OperatorDone, Release, TypeOK
  <2>2. ActorInv(Operator)'
    BY <2>1 DEF ActorInv
  <2>. QED
    BY <1>0, <2>1, <2>2, HandlersAct, OnlyMover
<1>5. CASE Restart
  <2>1. \A a \in Actor : pc'[a] = "idle"
    BY <1>5 DEF Restart
  <2>. QED
    BY <1>0, <2>1, HandlersAct DEF IInv, ActorInv, HandlerInv
<1>6. CASE UNCHANGED vars
  BY <1>6 DEF vars, IInv, ActorInv, HandlerInv, IsProject, Tag, Slot, TypeOK
<1>. QED
  BY <1>1, <1>2, <1>3, <1>4, <1>5, <1>6 DEF SiteStep

LEMMA IInvStep == IInv /\ [Next]_vars => IInv'
BY HandlerKeeps, ScriptKeeps, OthersKeep DEF Next

LEMMA IInvInit == Init => IInv
<1> SUFFICES ASSUME Init PROVE IInv
  OBVIOUS
<1>1. TypeOK
  BY HandlersAct, ConstantAssumption DEF Init, TypeOK, HandlerPC, OperatorPC
<1>2. \A a \in Actor : pc[a] = "idle"
  BY DEF Init
<1>. QED
  BY <1>1, <1>2, HandlersAct DEF IInv, ActorInv, HandlerInv

THEOREM IInvAlways == Spec => []IInv
BY IInvInit, IInvStep, PTL DEF Spec

------------------------------------------------------------------------------
(* What follows *)

\* Every variable keeps its type: the two tables, the disk and the handlers
\* only ever hold values the code gives them.
THEOREM TypeCorrect == Spec => []TypeOK
<1>1. IInv => TypeOK
  BY DEF IInv
<1>. QED
  BY <1>1, IInvAlways, PTL

\* Compensation never meets a site of somebody else: cleanup_created_project
\* goes by name, and the lock keeps the name's meaning from the reservation on.
THEOREM CleansOwnSite == Spec => []CleanUpOwnSite
<1>1. IInv => CleanUpOwnSite
  BY DEF IInv, HandlerInv, CleanUpOwnSite
<1>. QED
  BY <1>1, IInvAlways, PTL

\* Provisioning implements the abstract mutual exclusion: each attempt and
\* each creation in the browser begins alone and ends before the next.
THEOREM ImplementsMutex == Spec => MutexSpec
<1>1. Init => Mutex!Init
  BY DEF Init, Mutex!Init, Working
<1>2. ASSUME IInv, IInv', [Next]_vars PROVE [Mutex!Next]_Working
  <2>1. /\ Working \subseteq Actor /\ Working' \subseteq Actor
        /\ \A a, b \in Working : a = b
        /\ \A a, b \in Working' : a = b
    BY <1>2 DEF Working, IInv, ActorInv
  <2>2. Working = {} \/ Working' \subseteq Working
    <3>1. CASE LockFree
      BY <1>2, <3>1, FreeMeansIdle DEF Working
    <3>2. ASSUME NEW a \in Actor, pc[a] # "idle",
                 \A b \in Actor : b # a => pc'[b] = pc[b]
          PROVE  Working' \subseteq Working
      BY <3>2 DEF Working
    <3>3. ASSUME NEW h \in Handler, HandlerStep(h)
          PROVE  \/ LockFree
                 \/ pc[h] # "idle" /\ \A b \in Actor : b # h => pc'[b] = pc[b]
      BY <1>2, <3>3, HandlersAct
         DEF HandlerStep, Accept, Reserve, ReplayOrRefuse, PrepareRefused, StartScript,
             ScriptKilled, FinishProvision, PostCreateFails, CleanUp, RecordFailure,
             Goto, Release, IInv, TypeOK
    <3>4. ASSUME NEW a \in Actor, ScriptStep(a)
          PROVE  pc[a] # "idle" /\ \A b \in Actor : b # a => pc'[b] = pc[b]
      BY <1>2, <3>4
         DEF ScriptStep, MakeDirectory, CopyStack, ScriptSucceeds, ScriptFails, Goto,
             IInv, TypeOK
    <3>5. ASSUME NEW p \in Project, SiteStep(p) PROVE LockFree
      BY <3>5 DEF SiteStep, OperatorCreates, OperatorSwitches, OperatorDestroys, Expire
    <3>6. ASSUME NEW c \in Connection, ClientStep(c) PROVE pc' = pc
      BY <3>6 DEF ClientStep, ReadSites, RevokeOwn, RevokeByAdmin, work
    <3>7. ASSUME OperatorDone
          PROVE  /\ pc[Operator] # "idle"
                 /\ \A b \in Actor : b # Operator => pc'[b] = pc[b]
      BY <1>2, <3>7, HandlersAct DEF OperatorDone, Release, IInv, TypeOK
    <3>8. ASSUME Restart PROVE Working' = {}
      BY <3>8 DEF Restart, Working
    <3>. QED
      BY <1>2, <3>1, <3>2, <3>3, <3>4, <3>5, <3>6, <3>7, <3>8, HandlersAct
         DEF Next, vars, work, Working
  <2>. QED
    BY <2>1, <2>2 DEF Mutex!Next, Mutex!Begin, Mutex!End
<1>. QED
  BY <1>1, <1>2, IInvAlways, PTL DEF Spec, MutexSpec, Mutex!Spec

------------------------------------------------------------------------------
(* Stored results *)

\* The state of a decided request is stored by the handler that owns the key,
\* which found it undecided.
LEMMA DecidedStays ==
    ASSUME IInv, [Next]_vars, NEW ck \in Connection \X Key,
           req[ck] # NoRow, req[ck].state = "complete", conn'[ck[1]] = "active"
    PROVE  req'[ck] = req[ck]
<1>0. TypeOK
  BY DEF IInv
<1>1. ASSUME NEW h \in Handler, HandlerStep(h) PROVE req'[ck] = req[ck]
  <2>0. HandlerInv(h)
    BY DEF IInv
  <2>1. CASE Reserve(h)
    <3>1. PICK v : req' = [req EXCEPT ![Slot(h)] = v]
      BY <2>1 DEF Reserve
    <3>2. ck # Slot(h)
      BY <2>1 DEF Reserve, KeyUsable
    <3>. QED
      BY <1>0, <3>1, <3>2 DEF TypeOK
  <2>2. CASE FinishProvision(h) \/ RecordFailure(h)
    <3>1. PICK v : req' = [req EXCEPT ![Slot(h)] = v]
      BY <2>2 DEF FinishProvision, RecordFailure, SetState
    <3>2. ck # Slot(h)
      BY <2>0, <2>2 DEF FinishProvision, RecordFailure, HandlerInv
    <3>. QED
      BY <1>0, <3>1, <3>2 DEF TypeOK
  <2>3. CASE ~(Reserve(h) \/ FinishProvision(h) \/ RecordFailure(h))
    <3>1. req' = req
      BY <1>1, <2>3
         DEF HandlerStep, Accept, ReplayOrRefuse, PrepareRefused, StartScript,
             ScriptKilled, PostCreateFails, CleanUp, tables
    <3>. QED
      BY <3>1
  <2>. QED
    BY <2>1, <2>2, <2>3
<1>2. ASSUME NEW c \in Connection, ClientStep(c) PROVE req'[ck] = req[ck]
  <2>1. CASE ReadSites(c)
    BY <2>1 DEF ReadSites
  <2>2. CASE RevokeOwn(c) \/ RevokeByAdmin(c)
    <3>1. conn' = [conn EXCEPT ![c] = "revoked"] /\ req' = Forget(c)
      BY <2>2 DEF RevokeOwn, RevokeByAdmin
    <3>2. ck[1] # c
      BY <1>0, <3>1 DEF TypeOK
    <3>. QED
      BY <3>1, <3>2 DEF Forget
  <2>. QED
    BY <1>2, <2>1, <2>2 DEF ClientStep
<1>3. ASSUME NEW a \in Actor, ScriptStep(a) PROVE req'[ck] = req[ck]
  BY <1>3 DEF ScriptStep, MakeDirectory, CopyStack, ScriptSucceeds, ScriptFails, tables
<1>4. ASSUME NEW p \in Project, SiteStep(p) PROVE req'[ck] = req[ck]
  BY <1>4 DEF SiteStep, OperatorCreates, OperatorSwitches, OperatorDestroys, Expire, tables
<1>5. CASE OperatorDone \/ Restart \/ UNCHANGED vars
  BY <1>5 DEF OperatorDone, Restart, vars, tables
<1>. QED
  BY <1>1, <1>2, <1>3, <1>4, <1>5 DEF Next

\* A key stays bound to its stored result until its connection is revoked, for
\* any number of concurrent handlers and retries.
THEOREM ResultsAreFinal == Spec => CompleteIsFinal
<1>1. IInv /\ [Next]_vars =>
        [\A ck \in Connection \X Key :
            (req[ck] # NoRow /\ req[ck].state = "complete" /\ conn'[ck[1]] = "active")
                => req'[ck] = req[ck]]_vars
  BY DecidedStays
<1>. QED
  BY <1>1, IInvAlways, PTL DEF Spec, CompleteIsFinal

------------------------------------------------------------------------------
(* The quota *)

\* Smaller sets of rows stay within the quota.
LEMMA FewerRows ==
    ASSUME NEW S \in SUBSET Project, NEW T \in SUBSET S, Cardinality(S) <= Quota
    PROVE  Cardinality(T) <= Quota
<1>1. IsFiniteSet(S) /\ IsFiniteSet(Project)
  BY ConstantAssumption, FS_Subset
<1>2. /\ Cardinality(S) \in Nat /\ Cardinality(T) \in Nat
      /\ Cardinality(T) <= Cardinality(S)
  BY <1>1, FS_Subset, FS_CardinalityType
<1>. QED
  BY <1>2, ConstantAssumption

\* Forgetting missing sites, changing a status and deleting give a connection
\* no row that it did not have.
LEMMA RowsShrink ==
    ASSUME IInv, [Next]_vars, NEW c \in Connection,
           ~ \E h \in Handler : Reserve(h)
    PROVE  RowsOf(row', c) \subseteq RowsOf(row, c)
<1>0. TypeOK
  BY DEF IInv
<1>1. RowsOf(Discarded, c) \subseteq RowsOf(row, c)
  BY DEF RowsOf, Discarded
<1>2. ASSUME NEW h \in Handler, NEW s, row' = SetStatus(h, s)
      PROVE  RowsOf(row', c) \subseteq RowsOf(row, c)
  <2>1. \A p \in Project : row[p] = NoRow => row'[p] = NoRow
    BY <1>0, <1>2 DEF SetStatus, TypeOK
  <2>2. \A p \in Project : row[p] # NoRow => row'[p].conn = row[p].conn
    BY <1>0, <1>2 DEF SetStatus, TypeOK, Row
  <2>. QED
    BY <2>1, <2>2 DEF RowsOf
<1>3. ASSUME NEW h \in Handler, HandlerStep(h)
      PROVE  RowsOf(row', c) \subseteq RowsOf(row, c)
  <2>1. CASE FinishProvision(h)
    BY <1>2, <2>1 DEF FinishProvision
  <2>2. CASE RecordFailure(h)
    <3>1. CASE cleaned[h]
      BY <1>0, <2>2, <3>1 DEF RecordFailure, RowsOf, TypeOK
    <3>2. CASE ~cleaned[h]
      BY <1>2, <2>2, <3>2 DEF RecordFailure
    <3>. QED
      BY <3>1, <3>2
  <2>3. CASE ~(FinishProvision(h) \/ RecordFailure(h))
    <3>1. row' = row
      BY <1>3, <2>3
         DEF HandlerStep, Accept, ReplayOrRefuse, PrepareRefused, StartScript,
             ScriptKilled, PostCreateFails, CleanUp, tables
    <3>. QED
      BY <3>1
  <2>. QED
    BY <2>1, <2>2, <2>3
<1>4. ASSUME NEW d \in Connection, ClientStep(d)
      PROVE  RowsOf(row', c) \subseteq RowsOf(row, c)
  BY <1>1, <1>4 DEF ClientStep, ReadSites, RevokeOwn, RevokeByAdmin
<1>5. ASSUME NEW a \in Actor, ScriptStep(a) PROVE row' = row
  BY <1>5 DEF ScriptStep, MakeDirectory, CopyStack, ScriptSucceeds, ScriptFails, tables
<1>6. ASSUME NEW p \in Project, SiteStep(p) PROVE row' = row
  BY <1>6 DEF SiteStep, OperatorCreates, OperatorSwitches, OperatorDestroys, Expire, tables
<1>7. CASE OperatorDone \/ Restart \/ UNCHANGED vars
  BY <1>7 DEF OperatorDone, Restart, vars, tables
<1>. QED
  BY <1>3, <1>4, <1>5, <1>6, <1>7 DEF Next

\* A reservation adds one row to its connection, which had one left, and none
\* to another.
LEMMA ReserveAddsOne ==
    ASSUME IInv, NEW h \in Handler, Reserve(h), NEW c \in Connection,
           Cardinality(RowsOf(row, c)) <= Quota
    PROVE  Cardinality(RowsOf(row', c)) <= Quota
<1>1. PICK p \in FreeNames(h) :
         row' = [Discarded EXCEPT ![p] = [conn |-> ask[h].conn, status |-> "provisioning"]]
  BY DEF Reserve
<1>2. /\ p \in Project
      /\ RowsOf(Discarded, c) \subseteq RowsOf(row, c)
      /\ RowsOf(row, c) \subseteq Project
      /\ RowsOf(row', c) \subseteq Project
  BY <1>1 DEF FreeNames, RowsOf, Discarded
<1>3. CASE c = ask[h].conn
  <2> DEFINE S == RowsOf(Discarded, c)
  <2>1. IsFiniteSet(S) /\ Cardinality(S) \in Nat
    BY <1>2, ConstantAssumption, FS_Subset, FS_CardinalityType DEF RowsOf
  <2>2. Cardinality(S) < Quota
    BY <1>3 DEF Reserve, QuotaLeft
  <2>3. RowsOf(row', c) \subseteq S \cup {p}
    BY <1>1, <1>2 DEF RowsOf, Discarded
  <2>4. S \cup {p} \subseteq Project
    BY <1>2 DEF RowsOf
  <2> HIDE DEF S
  <2>5. Cardinality(S \cup {p}) <= Quota
    <3>1. Cardinality(S \cup {p}) =
            IF p \in S THEN Cardinality(S) ELSE Cardinality(S) + 1
      BY <2>1, FS_AddElement
    <3>. QED
      BY <2>1, <2>2, <3>1, ConstantAssumption
  <2>. QED
    BY <2>3, <2>4, <2>5, FewerRows
<1>4. CASE c # ask[h].conn
  <2>1. NoRow # [conn |-> ask[h].conn, status |-> "provisioning"]
    BY ConstantAssumption DEF Reserve, IInv, HandlerInv, Ask, Row
  <2>2. RowsOf(row', c) \subseteq RowsOf(Discarded, c)
    BY <1>1, <1>2, <1>4 DEF RowsOf, Discarded
  <2>. QED
    BY <1>2, <2>2, FewerRows
<1>. QED
  BY <1>3, <1>4

\* No connection ever has more rows than its quota, whatever is deleted,
\* forgotten or reserved again, for every number of connections and names.
THEOREM QuotaHolds == Spec => []RowsWithinQuota
<1>1. Init => RowsWithinQuota
  <2>1. Init => \A c \in Connection : RowsOf(row, c) = {}
    BY DEF Init, RowsOf
  <2>. QED
    BY <2>1, FS_EmptySet, ConstantAssumption DEF RowsWithinQuota
<1>2. IInv /\ RowsWithinQuota /\ [Next]_vars => RowsWithinQuota'
  <2> SUFFICES ASSUME IInv, RowsWithinQuota, [Next]_vars, NEW c \in Connection
               PROVE  Cardinality(RowsOf(row', c)) <= Quota
    BY DEF RowsWithinQuota, RowsOf
  <2>1. Cardinality(RowsOf(row, c)) <= Quota
    BY DEF RowsWithinQuota
  <2>2. RowsOf(row, c) \in SUBSET Project
    BY DEF RowsOf
  <2>3. CASE \E h \in Handler : Reserve(h)
    BY <2>1, <2>3, ReserveAddsOne
  <2>4. CASE ~ \E h \in Handler : Reserve(h)
    BY <2>1, <2>2, <2>4, RowsShrink, FewerRows
  <2>. QED
    BY <2>3, <2>4
<1>. QED
  BY <1>1, <1>2, IInvAlways, PTL DEF Spec
==============================================================================
