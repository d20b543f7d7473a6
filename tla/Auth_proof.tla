------------------------------ MODULE Auth_proof ------------------------------
(***************************************************************************)
(* Proofs about Auth, for every set of requests, cookies, ceremonies,      *)
(* codes, passkeys and recovery codes, and every choice of the times.      *)
(*                                                                         *)
(* A code's use excludes a second administrator because nobody who was let *)
(* in under the code in force is still on his way while somebody is        *)
(* enrolled (Enrolled).  A second factor is spent because its step, or its *)
(* absence, is remembered for the one administrator (Spent); a ceremony    *)
(* ends once because one request at most has taken it (Taken); and what a  *)
(* session calls recent is never newer than its own proof (Proven).        *)
(***************************************************************************)
EXTENDS Auth, FiniteSetTheorems, TLAPS

BootstrapRow == [code : Code \cup {None}, expires : Nat, used : BOOLEAN]
ChallengeRow == [state : {"new", "open", "gone"},
                 kind : {"none", "setup", "login", "reauth", "register"},
                 token : Token \cup {None}, code : Code \cup {None}, expires : Nat]
SessionRow == [state : {"new", "open", "gone"}, admin : Id \cup {NoId},
               seen : Nat, recent : Nat, expires : Nat]
RequestRow == [step : {"idle", "unenrolled", "coded", "proved", "entered", "active", "consumed"},
               token : Token \cup {None}, admin : Id \cup {NoId},
               ceremony : Ceremony \cup {None}, code : Code \cup {None}, recent : Nat]

\* Requests and ceremonies refer to what there is.
Linked ==
    /\ \A r \in Request :
        /\ request[r].step \in {"entered", "active", "consumed"} => request[r].token \in Token
        /\ request[r].step = "consumed" => request[r].ceremony \in Ceremony
        /\ request[r].step \in {"unenrolled", "coded"} => request[r].code \in issued
    /\ \A c \in Ceremony :
        challenges[c].state = "open" /\ challenges[c].kind = "setup"
            => challenges[c].code \in issued

\* While somebody is enrolled, nobody else can use the code in force.
Enrolled ==
    /\ admins \subseteq {1}
    /\ admins # {} /\ ~bootstrap.used =>
        /\ \A r \in Request : request[r].step \in {"unenrolled", "coded"}
                                  => request[r].code # bootstrap.code
        /\ \A c \in Ceremony : (challenges[c].state = "open" /\ challenges[c].kind = "setup")
                                  => challenges[c].code # bootstrap.code

\* What the administrator has used is behind him.
Spent ==
    /\ SecondFactorOnce
    /\ admins # {} =>
        /\ \A f \in Step : uses[f] = 0 \/ f <= lastStep[1]
        /\ \A f \in Recovery : uses[f] = 0 \/ f \notin left[1]

\* A ceremony is taken by one request at most, and then it is gone.
Taken ==
    /\ \A c \in Ceremony : finished[c] <= 1 /\ (challenges[c].state # "gone" => finished[c] = 0)
    /\ \A r \in Request : request[r].step = "consumed" =>
        /\ challenges[request[r].ceremony].state = "gone"
        /\ finished[request[r].ceremony] = 0
        /\ \A q \in Request :
              request[q].step = "consumed" /\ request[q].ceremony = request[r].ceremony => q = r

\* A session is no more recent than the last proof given in it.
Proven ==
    /\ \A s \in Token : proof[s] <= clock
    /\ \A s \in Token : sessions[s].state = "open" => sessions[s].recent <= proof[s]
    /\ \A r \in Request :
        request[r].step = "entered" => request[r].recent <= proof[request[r].token]

IInv == TypeOK /\ Linked /\ Enrolled /\ Spent /\ Taken /\ Proven

-----------------------------------------------------------------------------
(* Helpers *)

LEMMA TimeIsNat == Time \subseteq Nat /\ Id \subseteq Nat /\ NoId \notin Id
BY ConstantAssumption DEF Time, Id, NoId

\* TypeOK by its parts.
LEMMA Typed ==
    TypeOK <=>
        /\ clock \in Time
        /\ bootstrap \in BootstrapRow /\ issued \subseteq Code
        /\ admins \subseteq Id /\ lastStep \in [Id -> Step] /\ left \in [Id -> SUBSET Recovery]
        /\ owner \in [Key -> admins \cup {NoId}]
        /\ challenges \in [Ceremony -> ChallengeRow]
        /\ sessions \in [Token -> SessionRow]
        /\ \A s \in Token : sessions[s].state = "open" => sessions[s].admin \in admins
        /\ request \in [Request -> RequestRow]
        /\ uses \in [Factor -> Nat] /\ finished \in [Ceremony -> Nat]
        /\ proof \in [Token -> 0 .. MaxTime]
BY DEF TypeOK, BootstrapRow, ChallengeRow, SessionRow, RequestRow

LEMMA TypedNext ==
    TypeOK' <=>
        /\ clock' \in Time
        /\ bootstrap' \in BootstrapRow /\ issued' \subseteq Code
        /\ admins' \subseteq Id /\ lastStep' \in [Id -> Step] /\ left' \in [Id -> SUBSET Recovery]
        /\ owner' \in [Key -> admins' \cup {NoId}]
        /\ challenges' \in [Ceremony -> ChallengeRow]
        /\ sessions' \in [Token -> SessionRow]
        /\ \A s \in Token : sessions'[s].state = "open" => sessions'[s].admin \in admins'
        /\ request' \in [Request -> RequestRow]
        /\ uses' \in [Factor -> Nat] /\ finished' \in [Ceremony -> Nat]
        /\ proof' \in [Token -> 0 .. MaxTime]
BY DEF TypeOK, BootstrapRow, ChallengeRow, SessionRow, RequestRow

\* A handler's row is replaced, the others stay.
LEMMA Moved ==
    ASSUME request \in [Request -> RequestRow], NEW r \in Request,
           NEW new \in RequestRow, Move(r, new)
    PROVE  /\ request' \in [Request -> RequestRow]
           /\ request'[r] = new
           /\ \A q \in Request : q # r => request'[q] = request[q]
BY DEF Move

LEMMA IdleRow == Idle \in RequestRow /\ Idle.step = "idle"
BY DEF Idle, RequestRow

\* A handler that is done.
LEMMA Finished ==
    ASSUME request \in [Request -> RequestRow], NEW r \in Request, Done(r)
    PROVE  /\ request' \in [Request -> RequestRow]
           /\ request'[r].step = "idle"
           /\ \A q \in Request : q # r => request'[q] = request[q]
BY Moved, IdleRow DEF Done

\* A new ceremony was not there before.
LEMMA Issued ==
    ASSUME challenges \in [Ceremony -> ChallengeRow], clock \in Time, NEW c \in Ceremony,
           NEW kind \in {"setup", "login", "reauth", "register"},
           NEW token \in Token \cup {None}, NEW code \in Code \cup {None},
           Issue(c, kind, token, code)
    PROVE  /\ challenges' \in [Ceremony -> ChallengeRow]
           /\ challenges[c].state = "new" /\ challenges'[c].state = "open"
           /\ challenges'[c].kind = kind /\ challenges'[c].code = code
           /\ \A d \in Ceremony : d # c => challenges'[d] = challenges[d]
<1>1. clock + ChallengeTTL \in Nat
  BY TimeIsNat, ConstantAssumption
<1> QED BY <1>1 DEF Issue, ChallengeRow

\* A ceremony is used up.
LEMMA Consumed ==
    ASSUME challenges \in [Ceremony -> ChallengeRow], NEW c \in Ceremony, NEW kind,
           Consume(c, kind)
    PROVE  /\ challenges' \in [Ceremony -> ChallengeRow]
           /\ challenges[c].state = "open" /\ challenges[c].kind = kind
           /\ challenges'[c].state = "gone"
           /\ \A d \in Ceremony : d # c => challenges'[d] = challenges[d]
<1>1. [challenges[c] EXCEPT !.state = "gone"] \in ChallengeRow
  BY DEF ChallengeRow
<1>2. challenges' = [challenges EXCEPT ![c] = [challenges[c] EXCEPT !.state = "gone"]]
  BY DEF Consume
<1>3. [challenges[c] EXCEPT !.state = "gone"].state = "gone"
  BY DEF ChallengeRow
<1> QED BY <1>1, <1>2, <1>3 DEF Consume

\* The first administrator has the first id.
LEMMA FirstId == Max({} \cup {NoId}) + 1 = 1
<1>1. \E x \in {0} : \A y \in {0} : x >= y
  OBVIOUS
<1>2. Max({0}) \in {0}
  BY <1>1 DEF Max
<1>3. {} \cup {NoId} = {0}
  BY DEF NoId
<1> QED BY <1>2, <1>3

\* Enrolment, as a code that was not used allows it.
LEMMA SetupMakesOne ==
    ASSUME TypeOK, Enrolled, NEW r \in Request, NEW c \in Ceremony, NEW key \in Key \cup {None},
           SetupFinish(r, c, key)
    PROVE  admins = {} /\ admins' = {1} /\ 1 \in Id /\ bootstrap.used = FALSE
<1>1. bootstrap.used = FALSE /\ bootstrap.code = challenges[c].code
  BY Typed DEF SetupFinish, CodeStands, BootstrapRow
<1>2. challenges[c].state = "open" /\ challenges[c].kind = "setup"
  BY Typed, Consumed DEF SetupFinish
<1>3. admins = {}
  BY <1>1, <1>2 DEF Enrolled
<1> QED BY <1>1, <1>3, FirstId DEF SetupFinish

-----------------------------------------------------------------------------
(* Types and links *)

LEMMA InitTyped == Init => TypeOK /\ Linked
<1> SUFFICES ASSUME Init PROVE TypeOK /\ Linked
  OBVIOUS
<1>1. 1 \in Time /\ 0 \in Step /\ 0 \in 0 .. MaxTime
  BY ConstantAssumption DEF Time, Step
<1>2. NoBootstrap \in BootstrapRow /\ NewChallenge \in ChallengeRow /\ NewSession \in SessionRow
  BY DEF NoBootstrap, NewChallenge, NewSession, BootstrapRow, ChallengeRow, SessionRow, NoId
<1>3. NewSession.state = "new" /\ NewChallenge.state = "new"
  BY DEF NewSession, NewChallenge
<1>4. TypeOK
  BY <1>1, <1>2, <1>3, IdleRow, Typed DEF Init
<1>5. Linked
  BY <1>3, IdleRow DEF Init, Linked
<1> QED BY <1>4, <1>5

\* A session is over.
LEMMA Dropped ==
    ASSUME sessions \in [Token -> SessionRow], NEW s \in Token,
           sessions' = [sessions EXCEPT ![s].state = "gone"]
    PROVE  /\ sessions' \in [Token -> SessionRow]
           /\ sessions'[s].state = "gone"
           /\ \A t \in Token : t # s => sessions'[t] = sessions[t]
<1>1. [sessions[s] EXCEPT !.state = "gone"] \in SessionRow
      /\ [sessions[s] EXCEPT !.state = "gone"].state = "gone"
  BY DEF SessionRow
<1> QED BY <1>1

\* A session was used.
LEMMA Touched ==
    ASSUME sessions \in [Token -> SessionRow], NEW s \in Token, NEW time \in Nat,
           sessions' = [sessions EXCEPT ![s].seen = time]
    PROVE  /\ sessions' \in [Token -> SessionRow]
           /\ \A t \in Token : /\ sessions'[t].state = sessions[t].state
                               /\ sessions'[t].admin = sessions[t].admin
                               /\ sessions'[t].recent = sessions[t].recent
<1> DEFINE new == [sessions[s] EXCEPT !.seen = time]
<1>1. /\ new \in SessionRow /\ new.state = sessions[s].state
      /\ new.admin = sessions[s].admin /\ new.recent = sessions[s].recent
  BY DEF SessionRow
<1>2. sessions' = [sessions EXCEPT ![s] = new]
  OBVIOUS
<1> HIDE DEF new
<1> QED BY <1>1, <1>2

\* What a spent second factor leaves.
LEMMA Spending ==
    ASSUME TypeOK, NEW a \in Id, NEW f \in Factor, Spend(a, f)
    PROVE  /\ lastStep' \in [Id -> Step] /\ left' \in [Id -> SUBSET Recovery]
           /\ uses' \in [Factor -> Nat]
           /\ uses'[f] = uses[f] + 1 /\ \A g \in Factor : g # f => uses'[g] = uses[g]
BY Typed DEF Spend

\* A refreshed session is another session for nobody.
LEMMA Refreshed ==
    ASSUME TypeOK, NEW s \in Token, Refresh(s)
    PROVE  /\ sessions' \in [Token -> SessionRow]
           /\ \A t \in Token :
                /\ sessions'[t].state = sessions[t].state
                /\ sessions'[t].admin = sessions[t].admin
                /\ sessions'[t].recent = sessions[t].recent \/ (t = s /\ sessions'[t].recent = clock)
<1> DEFINE new == [sessions[s] EXCEPT !.recent = clock]
<1>1. clock \in Nat /\ sessions \in [Token -> SessionRow]
  BY Typed, TimeIsNat
<1>2. sessions[s] \in SessionRow
  BY <1>1
<1>3. /\ new \in SessionRow /\ new.state = sessions[s].state
      /\ new.admin = sessions[s].admin /\ new.recent = clock
  BY <1>1, <1>2 DEF SessionRow
<1>4. sessions' = [sessions EXCEPT ![s] = new] \/ sessions' = sessions
  BY DEF Refresh
<1> HIDE DEF new
<1> QED BY <1>1, <1>3, <1>4

LEMMA NextTyped ==
    ASSUME TypeOK, Linked, [Next]_vars PROVE TypeOK' /\ Linked'
<1> USE Typed, TypedNext DEF Linked
<1>0. clock \in Nat /\ clock \in Time /\ clock \in Step /\ clock \in 0 .. MaxTime
  BY TimeIsNat, ConstantAssumption DEF Time, Step
<1>1. ASSUME NEW code \in Code, NEW reset \in BOOLEAN, CreateBootstrap(code, reset)
      PROVE  TypeOK' /\ Linked'
  <2>1. bootstrap' \in BootstrapRow
    <3>1. clock + BootstrapTTL \in Nat
      BY <1>0, ConstantAssumption
    <3> QED BY <1>1, <3>1 DEF CreateBootstrap, BootstrapRow
  <2>2. /\ sessions' \in [Token -> SessionRow]
        /\ \A s \in Token : sessions'[s].state # "open"
    <3>1. \A s \in Token : [sessions[s] EXCEPT !.state = "gone"] \in SessionRow
                           /\ [sessions[s] EXCEPT !.state = "gone"].state = "gone"
      BY DEF SessionRow
    <3> QED BY <1>1, <3>1 DEF CreateBootstrap
  <2>3. admins' \subseteq Id /\ owner' \in [Key -> admins' \cup {NoId}]
        /\ left' \in [Id -> SUBSET Recovery]
    BY <1>1 DEF CreateBootstrap
  <2>4. issued' = issued \cup {code} /\ UNCHANGED <<clock, lastStep, challenges, request, history>>
    BY <1>1 DEF CreateBootstrap
  <2> QED BY <2>1, <2>2, <2>3, <2>4 DEF history
<1>2. ASSUME NEW c \in Ceremony, PasskeyStart(c) PROVE TypeOK' /\ Linked'
  <2>1. Issue(c, "login", None, None)
        /\ UNCHANGED <<clock, bootstrap, issued, admins, lastStep, left, owner, sessions,
                       request, history>>
    BY <1>2 DEF PasskeyStart
  <2>2. "login" # "setup"
    OBVIOUS
  <2> QED BY <2>1, <2>2, Issued DEF history
<1>3. ASSUME NEW s \in Token, DropOld(s) PROVE TypeOK' /\ Linked'
  <2>1. 0 \in Nat OBVIOUS
  <2>2. sessions' = [sessions EXCEPT ![s].state = "gone"]
        /\ UNCHANGED <<clock, bootstrap, issued, admins, lastStep, left, owner, challenges,
                       request, history>>
    BY <1>3 DEF DropOld
  <2> QED BY <2>1, <2>2, Dropped DEF history
<1>4. ASSUME NEW r \in Request, NEW code \in Code, SetupStart(r, code) PROVE TypeOK' /\ Linked'
  <2> DEFINE new == [Idle EXCEPT !.step = "unenrolled", !.code = code]
  <2>1. new \in RequestRow /\ new.step = "unenrolled" /\ new.code = code
    BY DEF Idle, RequestRow
  <2>2. Move(r, new) /\ code \in issued /\ UNCHANGED <<clock, tables, history>>
    BY <1>4 DEF SetupStart
  <2> HIDE DEF new
  <2> QED BY <2>1, <2>2, Moved DEF tables, history
<1>5. ASSUME NEW r \in Request, CheckCode(r) PROVE TypeOK' /\ Linked'
  <2> DEFINE new == [request[r] EXCEPT !.step = "coded"]
  <2>1. new \in RequestRow /\ new.step = "coded" /\ new.code = request[r].code
    BY DEF RequestRow
  <2>2. Move(r, new) /\ request[r].code \in issued /\ UNCHANGED <<clock, tables, history>>
    BY <1>5 DEF CheckCode, At
  <2> HIDE DEF new
  <2> QED BY <2>1, <2>2, Moved DEF tables, history
<1>6. ASSUME NEW r \in Request, NEW c \in Ceremony, IssueSetup(r, c) PROVE TypeOK' /\ Linked'
  <2>1. Issue(c, "setup", None, request[r].code) /\ request[r].code \in issued /\ Done(r)
        /\ UNCHANGED <<clock, bootstrap, issued, admins, lastStep, left, owner, sessions, history>>
    BY <1>6 DEF IssueSetup, At
  <2>2. request[r].code \in Code \cup {None}
    BY DEF RequestRow
  <2>3. challenges' \in [Ceremony -> ChallengeRow] /\ challenges'[c].code = request[r].code
        /\ \A d \in Ceremony : d # c => challenges'[d] = challenges[d]
    BY <2>1, <2>2, Issued
  <2> QED BY <2>1, <2>3, Finished DEF history
<1>7. ASSUME NEW r \in Request, NEW c \in Ceremony, NEW key \in Key \cup {None},
             SetupFinish(r, c, key)
      PROVE  TypeOK' /\ Linked'
  <2> DEFINE id == Max(admins \cup {NoId}) + 1
             new == [Idle EXCEPT !.step = "proved", !.admin = id]
  <2>1. PICK i \in Id : i = id
    BY <1>7 DEF SetupFinish
  <2>2. new \in RequestRow /\ new.step = "proved"
    BY <2>1 DEF Idle, RequestRow
  <2>3. /\ admins' = admins \cup {i}
        /\ owner' = [k \in Key |-> IF k = key THEN i ELSE owner[k]]
        /\ lastStep' = [lastStep EXCEPT ![i] = clock] /\ left' = [left EXCEPT ![i] = Recovery]
        /\ bootstrap' = [bootstrap EXCEPT !.used = TRUE]
        /\ uses' = [f \in Factor |-> 0] /\ finished' = [finished EXCEPT ![c] = finished[c] + 1]
        /\ Move(r, new) /\ Consume(c, "setup")
        /\ UNCHANGED <<clock, issued, sessions, proof>>
    BY <1>7, <2>1 DEF SetupFinish, Finish
  <2>4. bootstrap \in BootstrapRow /\ finished[c] \in Nat
    OBVIOUS
  <2>9. [bootstrap EXCEPT !.used = TRUE] \in BootstrapRow
    BY <2>4 DEF BootstrapRow
  <2>8. bootstrap' \in BootstrapRow /\ finished' \in [Ceremony -> Nat]
    BY <2>3, <2>4, <2>9
  <2>5. owner' \in [Key -> admins' \cup {NoId}]
    BY <2>3
  <2>6. /\ challenges' \in [Ceremony -> ChallengeRow] /\ challenges'[c].state = "gone"
        /\ \A d \in Ceremony : d # c => challenges'[d] = challenges[d]
    BY <2>3, Consumed
  <2> HIDE DEF new, id
  <2>7. /\ request' \in [Request -> RequestRow] /\ request'[r].step = "proved"
        /\ \A q \in Request : q # r => request'[q] = request[q]
    BY <2>2, <2>3, Moved
  <2> QED BY <1>0, <2>3, <2>5, <2>6, <2>7, <2>8
<1>8. ASSUME NEW r \in Request, NEW c \in Ceremony, NEW k \in Key, PasskeyFinish(r, c, k)
      PROVE  TypeOK' /\ Linked'
  <2> DEFINE new == [Idle EXCEPT !.step = "proved", !.admin = owner[k]]
  <2>1. new \in RequestRow /\ new.step = "proved"
    BY DEF Idle, RequestRow
  <2>2. /\ finished' = [finished EXCEPT ![c] = finished[c] + 1]
        /\ Move(r, new) /\ Consume(c, "login")
        /\ UNCHANGED <<clock, bootstrap, issued, admins, lastStep, left, owner, sessions,
                       uses, proof>>
    BY <1>8 DEF PasskeyFinish, Finish
  <2>3. finished' \in [Ceremony -> Nat]
    BY <2>2
  <2>4. /\ challenges' \in [Ceremony -> ChallengeRow] /\ challenges'[c].state = "gone"
        /\ \A d \in Ceremony : d # c => challenges'[d] = challenges[d]
    BY <2>2, Consumed
  <2> HIDE DEF new
  <2> QED BY <2>1, <2>2, <2>3, <2>4, Moved
<1>9. ASSUME NEW r \in Request, NEW a \in Id, NEW f \in Factor, FallbackLogin(r, a, f)
      PROVE  TypeOK' /\ Linked'
  <2> DEFINE new == [Idle EXCEPT !.step = "proved", !.admin = a]
  <2>1. new \in RequestRow /\ new.step = "proved"
    BY DEF Idle, RequestRow
  <2>2. Move(r, new) /\ Spend(a, f)
        /\ UNCHANGED <<clock, bootstrap, issued, admins, owner, challenges, sessions,
                       finished, proof>>
    BY <1>9 DEF FallbackLogin
  <2> HIDE DEF new
  <2> QED BY <2>1, <2>2, Moved, Spending
<1>10. ASSUME NEW r \in Request, NEW s \in Token, SetSession(r, s) PROVE TypeOK' /\ Linked'
  <2> DEFINE new == [state |-> "open", admin |-> request[r].admin, seen |-> clock,
                     recent |-> clock, expires |-> clock + AbsoluteTTL]
  <2>1. new \in SessionRow /\ new.admin = request[r].admin
    <3>1. clock + AbsoluteTTL \in Nat /\ request[r].admin \in Id \cup {NoId}
      BY <1>0, ConstantAssumption DEF RequestRow
    <3> QED BY <1>0, <3>1 DEF SessionRow
  <2>2. /\ sessions' = [sessions EXCEPT ![s] = new] /\ request[r].admin \in admins
        /\ proof' = [proof EXCEPT ![s] = clock] /\ Done(r)
        /\ UNCHANGED <<clock, bootstrap, issued, admins, lastStep, left, owner, challenges,
                       uses, finished>>
    BY <1>10 DEF SetSession, ForeignKey
  <2> HIDE DEF new
  <2>3. /\ sessions' \in [Token -> SessionRow] /\ proof' \in [Token -> 0 .. MaxTime]
        /\ \A t \in Token : sessions'[t].state = "open" => sessions'[t].admin \in admins
    BY <1>0, <2>1, <2>2
  <2> QED BY <2>2, <2>3, Finished
<1>11. ASSUME NEW r \in Request, NEW s \in Token, Enter(r, s) PROVE TypeOK' /\ Linked'
  <2> DEFINE new == [Idle EXCEPT !.step = "entered", !.token = s, !.recent = sessions[s].recent]
  <2>1. new \in RequestRow /\ new.step = "entered" /\ new.token = s
    <3>1. sessions[s].recent \in Nat
      BY DEF SessionRow
    <3> QED BY <3>1 DEF Idle, RequestRow
  <2>2. /\ sessions' = [sessions EXCEPT ![s].seen = clock] /\ Move(r, new)
        /\ UNCHANGED <<clock, bootstrap, issued, admins, lastStep, left, owner, challenges, history>>
    BY <1>11 DEF Enter
  <2> HIDE DEF new
  <2>3. /\ sessions' \in [Token -> SessionRow]
        /\ \A t \in Token : sessions'[t].state = sessions[t].state
                            /\ sessions'[t].admin = sessions[t].admin
    BY <1>0, <2>2, Touched
  <2> QED BY <2>1, <2>2, <2>3, Moved DEF history
<1>12. ASSUME NEW r \in Request, RunProtected(r) \/ Refuse(r) PROVE TypeOK' /\ Linked'
  <2>1. Done(r) /\ UNCHANGED <<clock, tables, history>>
    BY <1>12 DEF RunProtected, Refuse
  <2> QED BY <2>1, Finished DEF tables, history
<1>13. ASSUME NEW r \in Request, Logout(r) PROVE TypeOK' /\ Linked'
  <2>1. PICK s \in Token : s = request[r].token
    BY <1>13 DEF Logout, At
  <2>2. /\ sessions' = [sessions EXCEPT ![s].state = "gone"] /\ Done(r)
        /\ UNCHANGED <<clock, bootstrap, issued, admins, lastStep, left, owner, challenges, history>>
    BY <1>13, <2>1 DEF Logout
  <2> QED BY <1>0, <2>2, Dropped, Finished DEF history
<1>14. ASSUME NEW r \in Request, ReadSession(r) PROVE TypeOK' /\ Linked'
  <2> DEFINE new == [request[r] EXCEPT !.step = "active",
                                       !.admin = sessions[request[r].token].admin]
  <2>1. request[r].token \in Token
    BY <1>14 DEF ReadSession, At
  <2>2. sessions[request[r].token].admin \in Id \cup {NoId}
    BY <2>1 DEF SessionRow
  <2>3. new \in RequestRow /\ new.step = "active" /\ new.token = request[r].token
    BY <2>2 DEF RequestRow
  <2>4. Move(r, new) /\ UNCHANGED <<clock, tables, history>>
    BY <1>14 DEF ReadSession
  <2> HIDE DEF new
  <2> QED BY <2>1, <2>3, <2>4, Moved DEF tables, history
<1>15. ASSUME NEW r \in Request, NEW c \in Ceremony, ReauthStart(r, c) \/ RegisterStart(r, c)
       PROVE  TypeOK' /\ Linked'
  <2>1. PICK kind \in {"reauth", "register"} : SessionCeremony(r, c, kind)
    BY <1>15 DEF ReauthStart, RegisterStart
  <2>2. Issue(c, kind, request[r].token, None) /\ Done(r)
        /\ UNCHANGED <<clock, bootstrap, issued, admins, lastStep, left, owner, sessions, history>>
    BY <2>1 DEF SessionCeremony
  <2>3. request[r].token \in Token \cup {None} /\ kind # "setup"
    BY DEF RequestRow
  <2>4. /\ challenges' \in [Ceremony -> ChallengeRow] /\ challenges'[c].kind = kind
        /\ \A d \in Ceremony : d # c => challenges'[d] = challenges[d]
    BY <2>2, <2>3, Issued
  <2> QED BY <2>2, <2>3, <2>4, Finished DEF history
<1>16. ASSUME NEW r \in Request, NEW c \in Ceremony, NEW kind \in {"reauth", "register"},
              ConsumeCeremony(r, c, kind)
       PROVE  TypeOK' /\ Linked'
  <2> DEFINE new == [request[r] EXCEPT !.step = "consumed", !.ceremony = c]
  <2>1. new \in RequestRow /\ new.step = "consumed" /\ new.ceremony = c
        /\ new.token = request[r].token
    BY DEF RequestRow
  <2>2. /\ Consume(c, kind) /\ Move(r, new) /\ request[r].token \in Token
        /\ UNCHANGED <<clock, bootstrap, issued, admins, lastStep, left, owner, sessions, history>>
    BY <1>16 DEF ConsumeCeremony, At
  <2>3. /\ challenges' \in [Ceremony -> ChallengeRow] /\ challenges'[c].state = "gone"
        /\ \A d \in Ceremony : d # c => challenges'[d] = challenges[d]
    BY <2>2, Consumed
  <2> HIDE DEF new
  <2> QED BY <2>1, <2>2, <2>3, Moved DEF history
<1>17. ASSUME NEW r \in Request, NEW k \in Key, ReauthFinish(r, k) PROVE TypeOK' /\ Linked'
  <2>1. PICK s \in Token, c \in Ceremony : s = request[r].token /\ c = request[r].ceremony
    BY <1>17 DEF ReauthFinish, At
  <2>2. /\ Refresh(s) /\ proof' = [proof EXCEPT ![challenges[c].token] = clock]
        /\ finished' = [finished EXCEPT ![c] = finished[c] + 1] /\ Done(r)
        /\ UNCHANGED <<clock, bootstrap, issued, admins, lastStep, left, owner, challenges, uses>>
    BY <1>17, <2>1 DEF ReauthFinish, Finish
  <2>3. finished[c] + 1 \in Nat
    OBVIOUS
  <2>4. finished' \in [Ceremony -> Nat]
    BY <2>2, <2>3
  <2>5. proof' \in [Token -> 0 .. MaxTime]
    BY <1>0, <2>2
  <2> QED BY <2>2, <2>4, <2>5, Refreshed, Finished
<1>18. ASSUME NEW r \in Request, NEW k \in Key, RegisterFinish(r, k) PROVE TypeOK' /\ Linked'
  <2>1. PICK c \in Ceremony : c = request[r].ceremony
    BY <1>18 DEF RegisterFinish, At
  <2>2. /\ owner' = [owner EXCEPT ![k] = request[r].admin] /\ request[r].admin \in admins
        /\ finished' = [finished EXCEPT ![c] = finished[c] + 1] /\ Done(r)
        /\ UNCHANGED <<clock, bootstrap, issued, admins, lastStep, left, challenges, sessions,
                       uses, proof>>
    BY <1>18, <2>1 DEF RegisterFinish, Finish, ForeignKey
  <2>3. finished' \in [Ceremony -> Nat] /\ owner' \in [Key -> admins \cup {NoId}]
    BY <2>2
  <2> QED BY <2>2, <2>3, Finished
<1>19. ASSUME NEW r \in Request, NEW f \in Factor, ReauthFallback(r, f) PROVE TypeOK' /\ Linked'
  <2>1. PICK s \in Token, a \in Id : s = request[r].token /\ a = request[r].admin
    BY <1>19 DEF ReauthFallback, At
  <2>2. /\ Spend(a, f) /\ Refresh(s) /\ proof' = [proof EXCEPT ![s] = clock] /\ Done(r)
        /\ UNCHANGED <<clock, bootstrap, issued, admins, owner, challenges, finished>>
    BY <1>19, <2>1 DEF ReauthFallback
  <2>3. proof' \in [Token -> 0 .. MaxTime]
    BY <1>0, <2>2
  <2> QED BY <2>2, <2>3, Spending, Refreshed, Finished
<1>20. CASE Tick
  <2>1. clock' \in Time /\ UNCHANGED <<tables, request, history>>
    BY <1>20, <1>0, ConstantAssumption DEF Tick, Time
  <2> QED BY <2>1 DEF tables, history
<1>21. CASE UNCHANGED vars
  BY <1>21 DEF vars, tables, history
<1> QED
  BY <1>1, <1>2, <1>3, <1>4, <1>5, <1>6, <1>7, <1>8, <1>9, <1>10, <1>11, <1>12, <1>13, <1>14,
     <1>15, <1>16, <1>17, <1>18, <1>19, <1>20, <1>21 DEF Next, Setup, SignIn, WithSession

-----------------------------------------------------------------------------
(* Where requests go *)

\* Steps after which a request has no row of its own any more, or only waits for
\* its session.
Ending(r) ==
    \/ \E c \in Ceremony : IssueSetup(r, c) \/ ReauthStart(r, c) \/ RegisterStart(r, c)
    \/ \E c \in Ceremony, key \in Key \cup {None} : SetupFinish(r, c, key)
    \/ \E c \in Ceremony, k \in Key : PasskeyFinish(r, c, k)
    \/ \E a \in Id, f \in Factor : FallbackLogin(r, a, f)
    \/ \E s \in Token : SetSession(r, s)
    \/ \E k \in Key : ReauthFinish(r, k) \/ RegisterFinish(r, k)
    \/ \E f \in Factor : ReauthFallback(r, f)
    \/ RunProtected(r) \/ Logout(r) \/ Refuse(r)

LEMMA Ended ==
    ASSUME TypeOK, NEW r \in Request, Ending(r)
    PROVE  /\ request'[r].step \in {"idle", "proved"}
           /\ \A q \in Request : q # r => request'[q] = request[q]
<1>1. request \in [Request -> RequestRow] /\ owner \in [Key -> admins \cup {NoId}]
      /\ admins \subseteq Id
  BY Typed
<1>2. ASSUME Done(r) PROVE request'[r].step = "idle"
                           /\ \A q \in Request : q # r => request'[q] = request[q]
  BY <1>1, <1>2, Finished
<1>3. ASSUME NEW a \in Id \cup {NoId}, Move(r, [Idle EXCEPT !.step = "proved", !.admin = a])
      PROVE  request'[r].step = "proved"
             /\ \A q \in Request : q # r => request'[q] = request[q]
  <2> DEFINE new == [Idle EXCEPT !.step = "proved", !.admin = a]
  <2>1. new \in RequestRow /\ new.step = "proved"
    BY DEF Idle, RequestRow
  <2>2. Move(r, new)
    BY <1>3
  <2> HIDE DEF new
  <2> QED BY <1>1, <2>1, <2>2, Moved
<1>4. CASE \E c \in Ceremony, key \in Key \cup {None} : SetupFinish(r, c, key)
  <2>1. PICK i \in Id : i = Max(admins \cup {NoId}) + 1
    BY <1>4 DEF SetupFinish
  <2> QED BY <1>3, <1>4, <2>1 DEF SetupFinish
<1>5. CASE \E c \in Ceremony, k \in Key : PasskeyFinish(r, c, k)
  <2>1. PICK c \in Ceremony, k \in Key : PasskeyFinish(r, c, k)
    BY <1>5
  <2>2. owner[k] \in Id \cup {NoId}
    BY <1>1
  <2> QED BY <1>3, <2>1, <2>2 DEF PasskeyFinish
<1>6. CASE \E a \in Id, f \in Factor : FallbackLogin(r, a, f)
  BY <1>3, <1>6 DEF FallbackLogin
<1> QED
  BY <1>2, <1>4, <1>5, <1>6
     DEF Ending, IssueSetup, ReauthStart, RegisterStart, SessionCeremony, SetSession,
         ReauthFinish, RegisterFinish, ReauthFallback, RunProtected, Logout, Refuse

\* The steps after which it goes on.
LEMMA Continued ==
    ASSUME TypeOK, NEW r \in Request
    PROVE  /\ \A code \in Code : SetupStart(r, code) =>
                request'[r].step = "unenrolled" /\ request'[r].code = code
           /\ CheckCode(r) => request'[r].step = "coded" /\ request'[r].code = request[r].code
           /\ \A s \in Token : Enter(r, s) => /\ request'[r].step = "entered"
                                              /\ request'[r].token = s
                                              /\ request'[r].recent = sessions[s].recent
           /\ ReadSession(r) => request'[r].step = "active"
           /\ \A c \in Ceremony, kind \in {"reauth", "register"} : ConsumeCeremony(r, c, kind) =>
                request'[r].step = "consumed" /\ request'[r].ceremony = c
           /\ (\/ CheckCode(r) \/ ReadSession(r)
               \/ \E code \in Code : SetupStart(r, code)
               \/ \E s \in Token : Enter(r, s)
               \/ \E c \in Ceremony, kind \in {"reauth", "register"} : ConsumeCeremony(r, c, kind))
                => \A q \in Request : q # r => request'[q] = request[q]
<1>1. request \in [Request -> RequestRow] /\ request[r] \in RequestRow
  BY Typed
<1>2. ASSUME NEW new, Move(r, new) PROVE request'[r] = new
  BY <1>1, <1>2 DEF Move
<1>3. ASSUME NEW new, Move(r, new)
      PROVE  \A q \in Request : q # r => request'[q] = request[q]
  BY <1>1, <1>3 DEF Move
<1>4. ASSUME NEW code \in Code, SetupStart(r, code)
      PROVE  request'[r].step = "unenrolled" /\ request'[r].code = code
  <2>1. request'[r] = [Idle EXCEPT !.step = "unenrolled", !.code = code]
    BY <1>2, <1>4 DEF SetupStart
  <2> QED BY <2>1 DEF Idle
<1>5. ASSUME CheckCode(r)
      PROVE  request'[r].step = "coded" /\ request'[r].code = request[r].code
  <2>1. request'[r] = [request[r] EXCEPT !.step = "coded"]
    BY <1>2, <1>5 DEF CheckCode
  <2> QED BY <1>1, <2>1 DEF RequestRow
<1>6. ASSUME NEW s \in Token, Enter(r, s)
      PROVE  request'[r].step = "entered" /\ request'[r].token = s
             /\ request'[r].recent = sessions[s].recent
  <2>1. request'[r] = [Idle EXCEPT !.step = "entered", !.token = s, !.recent = sessions[s].recent]
    BY <1>2, <1>6 DEF Enter
  <2> QED BY <2>1 DEF Idle
<1>7. ASSUME ReadSession(r) PROVE request'[r].step = "active"
  <2>1. request'[r] = [request[r] EXCEPT !.step = "active",
                                         !.admin = sessions[request[r].token].admin]
    BY <1>2, <1>7 DEF ReadSession
  <2> QED BY <1>1, <2>1 DEF RequestRow
<1>8. ASSUME NEW c \in Ceremony, NEW kind \in {"reauth", "register"}, ConsumeCeremony(r, c, kind)
      PROVE  request'[r].step = "consumed" /\ request'[r].ceremony = c
  <2>1. request'[r] = [request[r] EXCEPT !.step = "consumed", !.ceremony = c]
    BY <1>2, <1>8 DEF ConsumeCeremony
  <2> QED BY <1>1, <2>1 DEF RequestRow
<1>9. (\/ CheckCode(r) \/ ReadSession(r)
       \/ \E code \in Code : SetupStart(r, code)
       \/ \E s \in Token : Enter(r, s)
       \/ \E c \in Ceremony, kind \in {"reauth", "register"} : ConsumeCeremony(r, c, kind))
      => \A q \in Request : q # r => request'[q] = request[q]
  BY <1>3 DEF CheckCode, ReadSession, SetupStart, Enter, ConsumeCeremony
<1> QED BY <1>4, <1>5, <1>6, <1>7, <1>8, <1>9

-----------------------------------------------------------------------------
(* One administrator *)

LEMMA InitEnrolled == Init => Enrolled
BY DEF Init, Enrolled

\* Nobody new is let in under a code.
LEMMA NobodyLetIn ==
    ASSUME Enrolled, admins' \subseteq admins, bootstrap' = bootstrap,
           \A q \in Request : request'[q].step \in {"unenrolled", "coded"} =>
               request[q].step \in {"unenrolled", "coded"} /\ request'[q].code = request[q].code,
           \A c \in Ceremony : challenges'[c] = challenges[c] \/ challenges'[c].state # "open"
                                   \/ challenges'[c].kind # "setup"
    PROVE  Enrolled'
BY DEF Enrolled

LEMMA NextEnrolled ==
    ASSUME TypeOK, Linked, Enrolled, [Next]_vars PROVE Enrolled'
<1>0. challenges \in [Ceremony -> ChallengeRow] /\ clock \in Time
      /\ request \in [Request -> RequestRow]
  BY Typed
<1>1. ASSUME NEW code \in Code, NEW reset \in BOOLEAN, CreateBootstrap(code, reset)
      PROVE  Enrolled'
  <2>1. bootstrap'.code = code /\ code \notin issued /\ admins' \subseteq admins
        /\ UNCHANGED <<challenges, request>>
    BY <1>1 DEF CreateBootstrap
  <2> QED BY <2>1 DEF Enrolled, Linked
<1>2. ASSUME NEW c \in Ceremony, PasskeyStart(c) PROVE Enrolled'
  <2>1. Issue(c, "login", None, None) /\ UNCHANGED <<bootstrap, admins, request>>
    BY <1>2 DEF PasskeyStart
  <2>2. \A d \in Ceremony : challenges'[d] = challenges[d] \/ challenges'[d].kind # "setup"
    BY <1>0, <2>1, Issued
  <2> QED BY <2>1, <2>2, NobodyLetIn
<1>3. ASSUME NEW s \in Token, DropOld(s) PROVE Enrolled'
  BY <1>3, NobodyLetIn DEF DropOld
<1>4. ASSUME NEW r \in Request, NEW code \in Code, SetupStart(r, code) PROVE Enrolled'
  BY <1>4 DEF SetupStart, NotEnrolled, Enrolled, tables
<1>5. ASSUME NEW r \in Request, CheckCode(r) PROVE Enrolled'
  <2>1. request[r].step = "unenrolled" /\ UNCHANGED <<bootstrap, admins, challenges>>
    BY <1>5 DEF CheckCode, At, tables
  <2> QED BY <1>5, <2>1, Continued, NobodyLetIn
<1>6. ASSUME NEW r \in Request, NEW c \in Ceremony, IssueSetup(r, c) PROVE Enrolled'
  <2>1. Issue(c, "setup", None, request[r].code) /\ request[r].step = "coded"
        /\ UNCHANGED <<bootstrap, admins>>
    BY <1>6 DEF IssueSetup, At
  <2>2. challenges'[c].code = request[r].code
        /\ \A d \in Ceremony : d # c => challenges'[d] = challenges[d]
    <3>1. request[r].code \in Code \cup {None}
      BY <1>0 DEF RequestRow
    <3> QED BY <1>0, <2>1, <3>1, Issued
  <2>3. request'[r].step \in {"idle", "proved"}
        /\ \A q \in Request : q # r => request'[q] = request[q]
    BY <1>6, Ended DEF Ending
  <2> QED BY <2>1, <2>2, <2>3 DEF Enrolled
<1>7. ASSUME NEW r \in Request, NEW c \in Ceremony, NEW key \in Key \cup {None},
             SetupFinish(r, c, key)
      PROVE  Enrolled'
  <2>1. bootstrap'.used = TRUE
    <3>1. bootstrap \in BootstrapRow
      BY Typed
    <3> QED BY <1>7, <3>1 DEF SetupFinish, BootstrapRow
  <2> QED BY <1>7, <2>1, SetupMakesOne DEF Enrolled
<1>8. ASSUME NEW r \in Request, NEW c \in Ceremony, NEW k \in Key, PasskeyFinish(r, c, k)
      PROVE  Enrolled'
  <2>1. Consume(c, "login") /\ UNCHANGED <<bootstrap, admins>>
    BY <1>8 DEF PasskeyFinish
  <2>2. \A d \in Ceremony : challenges'[d] = challenges[d] \/ challenges'[d].state # "open"
    BY <1>0, <2>1, Consumed
  <2>3. request'[r].step \in {"idle", "proved"}
        /\ \A q \in Request : q # r => request'[q] = request[q]
    BY <1>8, Ended DEF Ending
  <2> QED BY <2>1, <2>2, <2>3, NobodyLetIn
<1>9. ASSUME NEW r \in Request, NEW c \in Ceremony, ReauthStart(r, c) \/ RegisterStart(r, c)
      PROVE  Enrolled'
  <2>1. PICK kind \in {"reauth", "register"} : SessionCeremony(r, c, kind)
    BY <1>9 DEF ReauthStart, RegisterStart
  <2>2. Issue(c, kind, request[r].token, None) /\ UNCHANGED <<bootstrap, admins>>
    BY <2>1 DEF SessionCeremony
  <2>3. \A d \in Ceremony : challenges'[d] = challenges[d] \/ challenges'[d].kind # "setup"
    <3>1. request[r].token \in Token \cup {None}
      BY <1>0 DEF RequestRow
    <3> QED BY <1>0, <2>2, <3>1, Issued
  <2>4. request'[r].step \in {"idle", "proved"}
        /\ \A q \in Request : q # r => request'[q] = request[q]
    BY <1>9, Ended DEF Ending
  <2> QED BY <2>2, <2>3, <2>4, NobodyLetIn
<1>10. ASSUME NEW r \in Request, NEW c \in Ceremony, NEW kind \in {"reauth", "register"},
              ConsumeCeremony(r, c, kind)
       PROVE  Enrolled'
  <2>1. Consume(c, kind) /\ UNCHANGED <<bootstrap, admins>>
    BY <1>10 DEF ConsumeCeremony
  <2>2. \A d \in Ceremony : challenges'[d] = challenges[d] \/ challenges'[d].state # "open"
    BY <1>0, <2>1, Consumed
  <2>3. request'[r].step = "consumed" /\ \A q \in Request : q # r => request'[q] = request[q]
    BY <1>10, Continued
  <2> QED BY <2>1, <2>2, <2>3, NobodyLetIn
<1>11. ASSUME NEW r \in Request, (\E s \in Token : Enter(r, s)) \/ ReadSession(r)
       PROVE  Enrolled'
  <2>1. UNCHANGED <<bootstrap, admins, challenges>>
    BY <1>11 DEF Enter, ReadSession, tables
  <2>2. request'[r].step \in {"entered", "active"}
        /\ \A q \in Request : q # r => request'[q] = request[q]
    BY <1>11, Continued
  <2> QED BY <2>1, <2>2, NobodyLetIn
<1>12. ASSUME NEW r \in Request,
              \/ \E a \in Id, f \in Factor : FallbackLogin(r, a, f)
              \/ \E s \in Token : SetSession(r, s)
              \/ \E k \in Key : ReauthFinish(r, k) \/ RegisterFinish(r, k)
              \/ \E f \in Factor : ReauthFallback(r, f)
              \/ RunProtected(r) \/ Logout(r) \/ Refuse(r)
       PROVE  Enrolled'
  <2>1. UNCHANGED <<bootstrap, admins, challenges>>
    BY <1>12 DEF FallbackLogin, SetSession, ReauthFinish, RegisterFinish, ReauthFallback,
                 RunProtected, Logout, Refuse, tables
  <2>2. request'[r].step \in {"idle", "proved"}
        /\ \A q \in Request : q # r => request'[q] = request[q]
    BY <1>12, Ended DEF Ending
  <2> QED BY <2>1, <2>2, NobodyLetIn
<1>13. CASE Tick \/ UNCHANGED vars
  BY <1>13, NobodyLetIn DEF Tick, vars, tables
<1> QED
  BY <1>1, <1>2, <1>3, <1>4, <1>5, <1>6, <1>7, <1>8, <1>9, <1>10, <1>11, <1>12, <1>13
     DEF Next, Setup, SignIn, WithSession

-----------------------------------------------------------------------------
(* Second factors *)

LEMMA InitSpent == Init => Spent
BY DEF Init, Spent, SecondFactorOnce

\* A factor that is accepted was never used, and is behind its owner then.
LEMMA SpentOnce ==
    ASSUME TypeOK, Enrolled, Spent, NEW a \in admins, NEW f \in Factor, Spend(a, f),
           admins' = admins
    PROVE  Spent'
<1>1. a = 1 /\ a \in Id
  BY Typed DEF Enrolled
<1>2. /\ lastStep \in [Id -> Step] /\ left \in [Id -> SUBSET Recovery] /\ uses \in [Factor -> Nat]
      /\ uses'[f] = uses[f] + 1 /\ \A g \in Factor : g # f => uses'[g] = uses[g]
  BY <1>1, Typed, Spending
<1>3. Step \subseteq Nat /\ Step \cap Recovery = {} /\ Factor = Step \cup Recovery
  BY ConstantAssumption DEF Step, Factor
<1>4. /\ \A g \in Factor : uses[g] <= 1
      /\ \A g \in Step : uses[g] = 0 \/ g <= lastStep[1]
      /\ \A g \in Recovery : uses[g] = 0 \/ g \notin left[1]
  BY DEF Spent, SecondFactorOnce
<1>5. CASE /\ f \in Step /\ f > lastStep[a]
           /\ lastStep' = [lastStep EXCEPT ![a] = f] /\ UNCHANGED left
  <2>1. lastStep'[1] = f /\ lastStep[1] < f /\ lastStep[1] \in Nat /\ f \in Nat
    BY <1>1, <1>2, <1>3, <1>5
  <2>2. uses[f] = 0 /\ uses'[f] = 1
    BY <1>2, <1>3, <1>4, <1>5, <2>1
  <2>3. \A g \in Step : uses'[g] = 0 \/ g <= lastStep'[1]
    BY <1>2, <1>3, <1>4, <2>1
  <2>4. \A g \in Recovery : uses'[g] = 0 \/ g \notin left'[1]
    BY <1>2, <1>3, <1>4, <1>5
  <2>5. \A g \in Factor : uses'[g] <= 1
    BY <1>2, <1>4, <2>2
  <2> QED BY <2>3, <2>4, <2>5 DEF Spent, SecondFactorOnce
<1>6. CASE f \in left[a] /\ left' = [left EXCEPT ![a] = left[a] \ {f}] /\ UNCHANGED lastStep
  <2>1. f \in Recovery /\ uses[f] = 0 /\ uses'[f] = 1
    BY <1>1, <1>2, <1>3, <1>4, <1>6
  <2>2. left'[1] = left[1] \ {f}
    BY <1>1, <1>2, <1>6
  <2>3. \A g \in Step : uses'[g] = 0 \/ g <= lastStep'[1]
    BY <1>2, <1>3, <1>4, <1>6, <2>1
  <2>4. \A g \in Recovery : uses'[g] = 0 \/ g \notin left'[1]
    BY <1>2, <1>3, <1>4, <2>2
  <2>5. \A g \in Factor : uses'[g] <= 1
    BY <1>2, <1>4, <2>1
  <2> QED BY <2>3, <2>4, <2>5 DEF Spent, SecondFactorOnce
<1> QED BY <1>5, <1>6 DEF Spend

LEMMA NextSpent ==
    ASSUME TypeOK, Enrolled, Spent, [Next]_vars PROVE Spent'
<1>1. ASSUME NEW code \in Code, NEW reset \in BOOLEAN, CreateBootstrap(code, reset)
      PROVE  Spent'
  <2>1. \/ admins' = {} /\ uses' = uses
        \/ UNCHANGED <<admins, uses, lastStep, left>>
    BY <1>1 DEF CreateBootstrap, history
  <2> QED BY <2>1 DEF Spent, SecondFactorOnce
<1>2. ASSUME NEW r \in Request, NEW c \in Ceremony, NEW key \in Key \cup {None},
             SetupFinish(r, c, key)
      PROVE  Spent'
  <2>1. \A f \in Factor : uses'[f] = 0
    BY <1>2 DEF SetupFinish
  <2> QED BY <2>1 DEF Spent, SecondFactorOnce, Factor
<1>3. ASSUME NEW r \in Request, NEW a \in Id, NEW f \in Factor, FallbackLogin(r, a, f)
      PROVE  Spent'
  <2>1. a \in admins /\ Spend(a, f) /\ admins' = admins
    BY <1>3 DEF FallbackLogin
  <2> QED BY <2>1, SpentOnce
<1>4. ASSUME NEW r \in Request, NEW f \in Factor, ReauthFallback(r, f) PROVE Spent'
  <2>1. PICK a \in admins : a = request[r].admin
    BY <1>4 DEF ReauthFallback
  <2>2. Spend(a, f) /\ admins' = admins
    BY <1>4, <2>1 DEF ReauthFallback
  <2> QED BY <2>2, SpentOnce
<1>5. ASSUME UNCHANGED <<admins, uses, lastStep, left>> PROVE Spent'
  BY <1>5 DEF Spent, SecondFactorOnce
<1> QED
  BY <1>1, <1>2, <1>3, <1>4, <1>5
     DEF Next, Setup, SignIn, WithSession, PasskeyStart, DropOld, SetupStart, CheckCode,
         IssueSetup, PasskeyFinish, SetSession, Enter, RunProtected, Logout, ReadSession,
         ReauthStart, RegisterStart, SessionCeremony, ConsumeCeremony, ReauthFinish,
         RegisterFinish, Refuse, Tick, vars, tables, history

-----------------------------------------------------------------------------
(* Ceremonies *)

LEMMA InitTaken == Init => Taken
BY DEF Init, Taken, NewChallenge, Idle

\* Nothing is taken or finished.
LEMMA TakenKept ==
    ASSUME Linked, Taken, finished' = finished,
           \A c \in Ceremony : \/ challenges'[c].state = challenges[c].state
                               \/ challenges[c].state = "new" /\ challenges'[c].state = "open",
           \A q \in Request : request'[q].step = "consumed" => request'[q] = request[q]
    PROVE  Taken'
BY DEF Linked, Taken

\* A ceremony nobody has taken is taken and ends at once.
LEMMA TakenAtOnce ==
    ASSUME TypeOK, Linked, Taken, NEW c \in Ceremony, NEW kind, Consume(c, kind), Finish(c),
           \A q \in Request : request'[q].step = "consumed" => request'[q] = request[q]
    PROVE  Taken'
<1>1. /\ challenges[c].state = "open" /\ challenges'[c].state = "gone"
      /\ \A d \in Ceremony : d # c => challenges'[d] = challenges[d]
  BY Typed, Consumed
<1>2. finished \in [Ceremony -> Nat]
  BY Typed
<1>3. finished[c] = 0 /\ finished'[c] = 1
      /\ \A d \in Ceremony : d # c => finished'[d] = finished[d]
  BY <1>1, <1>2 DEF Taken, Finish
<1>4. \A q \in Request : request'[q].step = "consumed" =>
          request[q].ceremony \in Ceremony /\ request[q].ceremony # c
  BY <1>1 DEF Linked, Taken
<1> QED BY <1>1, <1>3, <1>4 DEF Taken

\* The one request that has taken a ceremony ends it.
LEMMA TakenBefore ==
    ASSUME TypeOK, Linked, Taken, NEW r \in Request, request[r].step = "consumed",
           Finish(request[r].ceremony), challenges' = challenges,
           request'[r].step # "consumed", \A q \in Request : q # r => request'[q] = request[q]
    PROVE  Taken'
<1>1. PICK c \in Ceremony : c = request[r].ceremony
  BY DEF Linked
<1>2. finished \in [Ceremony -> Nat] /\ finished[c] = 0 /\ challenges[c].state = "gone"
  BY <1>1, Typed DEF Taken
<1>3. finished'[c] = 1 /\ \A d \in Ceremony : d # c => finished'[d] = finished[d]
  BY <1>1, <1>2 DEF Finish
<1>4. \A q \in Request : request'[q].step = "consumed" =>
          request[q].ceremony \in Ceremony /\ request[q].ceremony # c
  BY <1>1 DEF Linked, Taken
<1> QED BY <1>2, <1>3, <1>4 DEF Taken

LEMMA NextTaken ==
    ASSUME TypeOK, Linked, Taken, [Next]_vars PROVE Taken'
<1>0. challenges \in [Ceremony -> ChallengeRow] /\ clock \in Time
      /\ request \in [Request -> RequestRow]
  BY Typed
<1>1. ASSUME NEW c \in Ceremony, NEW kind \in {"setup", "login", "reauth", "register"},
             NEW token \in Token \cup {None}, NEW code \in Code \cup {None},
             Issue(c, kind, token, code), finished' = finished,
             \A q \in Request : request'[q].step = "consumed" => request'[q] = request[q]
      PROVE  Taken'
  <2>1. /\ challenges[c].state = "new" /\ challenges'[c].state = "open"
        /\ \A d \in Ceremony : d # c => challenges'[d] = challenges[d]
    BY <1>0, <1>1, Issued
  <2> QED BY <1>1, <2>1, TakenKept
<1>2. ASSUME NEW c \in Ceremony, PasskeyStart(c) PROVE Taken'
  BY <1>1, <1>2 DEF PasskeyStart, history
<1>3. ASSUME NEW r \in Request, NEW c \in Ceremony,
             IssueSetup(r, c) \/ ReauthStart(r, c) \/ RegisterStart(r, c)
      PROVE  Taken'
  <2>1. request[r].code \in Code \cup {None} /\ request[r].token \in Token \cup {None}
    BY <1>0 DEF RequestRow
  <2>2. \A q \in Request : request'[q].step = "consumed" => request'[q] = request[q]
    <3>1. request'[r].step \in {"idle", "proved"}
          /\ \A q \in Request : q # r => request'[q] = request[q]
      BY <1>3, Ended DEF Ending
    <3> QED BY <3>1
  <2>3. CASE IssueSetup(r, c)
    BY <1>1, <2>1, <2>2, <2>3 DEF IssueSetup, history
  <2>4. CASE ReauthStart(r, c)
    BY <1>1, <2>1, <2>2, <2>4 DEF ReauthStart, SessionCeremony, history
  <2>5. CASE RegisterStart(r, c)
    BY <1>1, <2>1, <2>2, <2>5 DEF RegisterStart, SessionCeremony, history
  <2> QED BY <1>3, <2>3, <2>4, <2>5
<1>4. ASSUME NEW r \in Request, NEW c \in Ceremony,
             \/ \E key \in Key \cup {None} : SetupFinish(r, c, key)
             \/ \E k \in Key : PasskeyFinish(r, c, k)
      PROVE  Taken'
  <2>1. PICK kind \in {"setup", "login"} : Consume(c, kind) /\ Finish(c)
    BY <1>4 DEF SetupFinish, PasskeyFinish
  <2>2. request'[r].step \in {"idle", "proved"}
        /\ \A q \in Request : q # r => request'[q] = request[q]
    BY <1>4, Ended DEF Ending
  <2>3. \A q \in Request : request'[q].step = "consumed" => request'[q] = request[q]
    BY <2>2
  <2> QED BY <2>1, <2>3, TakenAtOnce
<1>5. ASSUME NEW r \in Request, NEW c \in Ceremony, NEW kind \in {"reauth", "register"},
             ConsumeCeremony(r, c, kind)
      PROVE  Taken'
  <2>1. Consume(c, kind) /\ finished' = finished
    BY <1>5 DEF ConsumeCeremony, history
  <2>2. /\ challenges[c].state = "open" /\ challenges'[c].state = "gone"
        /\ \A d \in Ceremony : d # c => challenges'[d] = challenges[d]
    BY <1>0, <2>1, Consumed
  <2>3. /\ request'[r].step = "consumed" /\ request'[r].ceremony = c
        /\ \A q \in Request : q # r => request'[q] = request[q]
    BY <1>5, Continued
  <2>4. \A q \in Request : q # r /\ request'[q].step = "consumed" =>
            request[q].ceremony \in Ceremony /\ request[q].ceremony # c
    BY <2>2, <2>3 DEF Linked, Taken
  <2> QED BY <2>1, <2>2, <2>3, <2>4 DEF Taken
<1>6. ASSUME NEW r \in Request, NEW k \in Key, ReauthFinish(r, k) \/ RegisterFinish(r, k)
      PROVE  Taken'
  <2>1. request[r].step = "consumed" /\ Finish(request[r].ceremony) /\ challenges' = challenges
    BY <1>6 DEF ReauthFinish, RegisterFinish, At
  <2>2. request'[r].step \in {"idle", "proved"}
        /\ \A q \in Request : q # r => request'[q] = request[q]
    BY <1>6, Ended DEF Ending
  <2> QED BY <2>1, <2>2, TakenBefore
<1>7. ASSUME NEW r \in Request,
             \/ \E code \in Code : SetupStart(r, code)
             \/ CheckCode(r)
             \/ \E s \in Token : Enter(r, s)
             \/ ReadSession(r)
      PROVE  Taken'
  <2>1. UNCHANGED <<challenges, finished>>
    BY <1>7 DEF SetupStart, CheckCode, Enter, ReadSession, tables, history
  <2>2. request'[r].step # "consumed" /\ \A q \in Request : q # r => request'[q] = request[q]
    BY <1>7, Continued
  <2> QED BY <2>1, <2>2, TakenKept
<1>8. ASSUME NEW r \in Request,
             \/ \E a \in Id, f \in Factor : FallbackLogin(r, a, f)
             \/ \E s \in Token : SetSession(r, s)
             \/ \E f \in Factor : ReauthFallback(r, f)
             \/ RunProtected(r) \/ Logout(r) \/ Refuse(r)
      PROVE  Taken'
  <2>1. UNCHANGED <<challenges, finished>>
    BY <1>8 DEF FallbackLogin, SetSession, ReauthFallback, RunProtected, Logout, Refuse,
                tables, history
  <2>2. request'[r].step \in {"idle", "proved"}
        /\ \A q \in Request : q # r => request'[q] = request[q]
    BY <1>8, Ended DEF Ending
  <2> QED BY <2>1, <2>2, TakenKept
<1>9. ASSUME UNCHANGED <<challenges, finished, request>> PROVE Taken'
  BY <1>9, TakenKept
<1>10. ASSUME NEW code \in Code, NEW reset \in BOOLEAN, CreateBootstrap(code, reset)
       PROVE  UNCHANGED <<challenges, finished, request>>
  BY <1>10 DEF CreateBootstrap, history
<1>11. ASSUME (\E s \in Token : DropOld(s)) \/ Tick \/ UNCHANGED vars
       PROVE  UNCHANGED <<challenges, finished, request>>
  BY <1>11 DEF DropOld, Tick, vars, tables, history
<1> QED
  BY <1>2, <1>3, <1>4, <1>5, <1>6, <1>7, <1>8, <1>9, <1>10, <1>11
     DEF Next, Setup, SignIn, WithSession

-----------------------------------------------------------------------------
(* Proofs of identity *)

LEMMA InitProven == Init => Proven
BY DEF Init, Proven, NewSession, Idle

\* Nobody proves anything; requests copy what their session says.
LEMMA ProvenKept ==
    ASSUME TypeOK, Linked, Proven, clock' \in Nat, clock <= clock', proof' = proof,
           \A s \in Token : sessions'[s].state = "open" =>
               sessions[s].state = "open" /\ sessions'[s].recent = sessions[s].recent,
           \A q \in Request : request'[q].step = "entered" =>
               \/ request'[q] = request[q]
               \/ /\ request'[q].token \in Token
                  /\ sessions[request'[q].token].state = "open"
                  /\ request'[q].recent = sessions[request'[q].token].recent
    PROVE  Proven'
<1>1. clock \in Nat /\ proof \in [Token -> 0 .. MaxTime] /\ MaxTime \in Nat
  BY Typed, TimeIsNat, ConstantAssumption
<1>2. \A s \in Token : proof[s] \in Nat
  BY <1>1
<1>3. \A s \in Token : proof'[s] <= clock'
  BY <1>1, <1>2 DEF Proven
<1>4. \A s \in Token : sessions'[s].state = "open" => sessions'[s].recent <= proof'[s]
  BY DEF Proven
<1>5. \A q \in Request : request'[q].step = "entered" =>
          request'[q].recent <= proof'[request'[q].token]
  BY DEF Proven
<1> QED BY <1>3, <1>4, <1>5 DEF Proven

\* The person in session s proves who he is now.
LEMMA ProofGiven ==
    ASSUME TypeOK, Linked, Proven, NEW s \in Token,
           clock' = clock, proof' = [proof EXCEPT ![s] = clock],
           \A t \in Token : sessions'[t].state = "open" =>
               \/ sessions[t].state = "open" /\ sessions'[t].recent = sessions[t].recent
               \/ t = s /\ sessions'[t].recent = clock,
           \A q \in Request : request'[q].step = "entered" => request'[q] = request[q]
    PROVE  Proven'
<1>1. /\ clock \in Nat /\ proof \in [Token -> 0 .. MaxTime] /\ MaxTime \in Nat
      /\ sessions \in [Token -> SessionRow] /\ request \in [Request -> RequestRow]
  BY Typed, TimeIsNat, ConstantAssumption
<1>2. /\ \A t \in Token : proof[t] \in Nat /\ sessions[t].recent \in Nat
      /\ \A q \in Request : request[q].recent \in Nat
  BY <1>1 DEF SessionRow, RequestRow
<1>3. proof'[s] = clock /\ \A t \in Token : t # s => proof'[t] = proof[t]
  BY <1>1
<1>4. \A t \in Token : proof[t] <= proof'[t] /\ proof'[t] \in Nat /\ proof'[t] <= clock
  BY <1>1, <1>2, <1>3 DEF Proven
<1>5. \A t \in Token : sessions'[t].state = "open" => sessions'[t].recent <= proof'[t]
  BY <1>1, <1>2, <1>3, <1>4 DEF Proven
<1>6. \A q \in Request : request'[q].step = "entered" =>
          request'[q].recent <= proof'[request'[q].token]
  <2> SUFFICES ASSUME NEW q \in Request, request'[q].step = "entered"
               PROVE  request'[q].recent <= proof'[request'[q].token]
    OBVIOUS
  <2>1. request'[q] = request[q] /\ request[q].step = "entered"
    OBVIOUS
  <2>2. PICK t \in Token : t = request[q].token
    BY <2>1 DEF Linked
  <2>3. request[q].recent <= proof[t]
    BY <2>1, <2>2 DEF Proven
  <2> QED BY <1>2, <1>4, <2>1, <2>2, <2>3
<1> QED BY <1>4, <1>5, <1>6 DEF Proven

LEMMA NextProven ==
    ASSUME TypeOK, Linked, Proven, [Next]_vars PROVE Proven'
<1>0. /\ sessions \in [Token -> SessionRow] /\ request \in [Request -> RequestRow]
      /\ clock \in Nat /\ clock <= clock
  <2>1. clock \in Time
    BY Typed
  <2>2. clock \in Nat
    BY <2>1, TimeIsNat
  <2> QED BY <2>2, Typed
<1>1. ASSUME NEW code \in Code, NEW reset \in BOOLEAN, CreateBootstrap(code, reset)
      PROVE  Proven'
  <2>1. UNCHANGED <<clock, request, proof>>
        /\ \A s \in Token : sessions'[s].state # "open"
    <3>1. \A s \in Token : [sessions[s] EXCEPT !.state = "gone"].state = "gone"
      BY <1>0 DEF SessionRow
    <3> QED BY <1>1, <3>1 DEF CreateBootstrap, history
  <2> QED BY <1>0, <2>1, ProvenKept
<1>2. ASSUME NEW s \in Token, DropOld(s) PROVE Proven'
  <2>1. UNCHANGED <<clock, request, proof>> /\ sessions' = [sessions EXCEPT ![s].state = "gone"]
    BY <1>2 DEF DropOld, history
  <2>2. \A t \in Token : sessions'[t].state = "open" => sessions'[t] = sessions[t]
    BY <1>0, <2>1, Dropped
  <2> QED BY <1>0, <2>1, <2>2, ProvenKept
<1>3. ASSUME NEW r \in Request, NEW s \in Token, SetSession(r, s) PROVE Proven'
  <2> DEFINE new == [state |-> "open", admin |-> request[r].admin, seen |-> clock,
                     recent |-> clock, expires |-> clock + AbsoluteTTL]
  <2>1. /\ clock' = clock /\ proof' = [proof EXCEPT ![s] = clock]
        /\ sessions' = [sessions EXCEPT ![s] = new]
    BY <1>3 DEF SetSession
  <2>2. new.recent = clock
    OBVIOUS
  <2> HIDE DEF new
  <2>3. sessions'[s].recent = clock /\ \A t \in Token : t # s => sessions'[t] = sessions[t]
    BY <1>0, <2>1, <2>2
  <2>4. request'[r].step \in {"idle", "proved"}
        /\ \A q \in Request : q # r => request'[q] = request[q]
    BY <1>3, Ended DEF Ending
  <2>5. \A t \in Token : sessions'[t].state = "open" =>
            \/ sessions[t].state = "open" /\ sessions'[t].recent = sessions[t].recent
            \/ t = s /\ sessions'[t].recent = clock
    BY <2>3
  <2>6. \A q \in Request : request'[q].step = "entered" => request'[q] = request[q]
    BY <2>4
  <2> QED BY <2>1, <2>5, <2>6, ProofGiven
<1>4. ASSUME NEW r \in Request, NEW s \in Token, Enter(r, s) PROVE Proven'
  <2>1. /\ UNCHANGED <<clock, proof>> /\ sessions' = [sessions EXCEPT ![s].seen = clock]
        /\ sessions[s].state = "open"
    BY <1>4 DEF Enter, Live, history
  <2>2. \A t \in Token : sessions'[t].state = sessions[t].state
                         /\ sessions'[t].recent = sessions[t].recent
    BY <1>0, <2>1, Touched
  <2>3. /\ request'[r].token = s /\ request'[r].recent = sessions[s].recent
        /\ \A q \in Request : q # r => request'[q] = request[q]
    BY <1>4, Continued
  <2> QED BY <1>0, <2>1, <2>2, <2>3, ProvenKept
<1>5. ASSUME NEW r \in Request, Logout(r) PROVE Proven'
  <2>1. PICK s \in Token : s = request[r].token
    BY <1>5 DEF Logout, At, Linked
  <2>2. UNCHANGED <<clock, proof>> /\ sessions' = [sessions EXCEPT ![s].state = "gone"]
    BY <1>5, <2>1 DEF Logout, history
  <2>3. \A t \in Token : sessions'[t].state = "open" => sessions'[t] = sessions[t]
    BY <1>0, <2>2, Dropped
  <2>4. request'[r].step \in {"idle", "proved"}
        /\ \A q \in Request : q # r => request'[q] = request[q]
    BY <1>5, Ended DEF Ending
  <2> QED BY <1>0, <2>2, <2>3, <2>4, ProvenKept
<1>6. ASSUME NEW r \in Request, NEW k \in Key, ReauthFinish(r, k) PROVE Proven'
  <2>1. PICK s \in Token : s = request[r].token
    BY <1>6 DEF ReauthFinish, At, Linked
  <2>2. Refresh(s) /\ clock' = clock /\ proof' = [proof EXCEPT ![s] = clock]
    BY <1>6, <2>1 DEF ReauthFinish, OfThisSession
  <2>3. request'[r].step \in {"idle", "proved"}
        /\ \A q \in Request : q # r => request'[q] = request[q]
    BY <1>6, Ended DEF Ending
  <2>4. \A t \in Token : sessions'[t].state = "open" =>
            \/ sessions[t].state = "open" /\ sessions'[t].recent = sessions[t].recent
            \/ t = s /\ sessions'[t].recent = clock
    BY <2>2, Refreshed
  <2>5. \A q \in Request : request'[q].step = "entered" => request'[q] = request[q]
    BY <2>3
  <2> QED BY <2>2, <2>4, <2>5, ProofGiven
<1>7. ASSUME NEW r \in Request, NEW f \in Factor, ReauthFallback(r, f) PROVE Proven'
  <2>1. PICK s \in Token : s = request[r].token
    BY <1>7 DEF ReauthFallback, At, Linked
  <2>2. Refresh(s) /\ clock' = clock /\ proof' = [proof EXCEPT ![s] = clock]
    BY <1>7, <2>1 DEF ReauthFallback
  <2>3. request'[r].step \in {"idle", "proved"}
        /\ \A q \in Request : q # r => request'[q] = request[q]
    BY <1>7, Ended DEF Ending
  <2>4. \A t \in Token : sessions'[t].state = "open" =>
            \/ sessions[t].state = "open" /\ sessions'[t].recent = sessions[t].recent
            \/ t = s /\ sessions'[t].recent = clock
    BY <2>2, Refreshed
  <2>5. \A q \in Request : request'[q].step = "entered" => request'[q] = request[q]
    BY <2>3
  <2> QED BY <2>2, <2>4, <2>5, ProofGiven
<1>8. ASSUME NEW r \in Request,
             \/ \E c \in Ceremony : IssueSetup(r, c) \/ ReauthStart(r, c) \/ RegisterStart(r, c)
             \/ \E c \in Ceremony, key \in Key \cup {None} : SetupFinish(r, c, key)
             \/ \E c \in Ceremony, k \in Key : PasskeyFinish(r, c, k)
             \/ \E a \in Id, f \in Factor : FallbackLogin(r, a, f)
             \/ \E k \in Key : RegisterFinish(r, k)
             \/ RunProtected(r) \/ Refuse(r)
      PROVE  Proven'
  <2>1. UNCHANGED <<clock, sessions, proof>>
    BY <1>8 DEF IssueSetup, ReauthStart, RegisterStart, SessionCeremony, SetupFinish,
                PasskeyFinish, FallbackLogin, RegisterFinish, RunProtected, Refuse,
                tables, history
  <2>2. request'[r].step \in {"idle", "proved"}
        /\ \A q \in Request : q # r => request'[q] = request[q]
    BY <1>8, Ended DEF Ending
  <2> QED BY <1>0, <2>1, <2>2, ProvenKept
<1>9. ASSUME NEW r \in Request,
             \/ \E code \in Code : SetupStart(r, code)
             \/ CheckCode(r) \/ ReadSession(r)
             \/ \E c \in Ceremony, kind \in {"reauth", "register"} : ConsumeCeremony(r, c, kind)
      PROVE  Proven'
  <2>1. UNCHANGED <<clock, sessions, proof>>
    BY <1>9 DEF SetupStart, CheckCode, ReadSession, ConsumeCeremony, tables, history
  <2>2. request'[r].step # "entered" /\ \A q \in Request : q # r => request'[q] = request[q]
    BY <1>9, Continued
  <2> QED BY <1>0, <2>1, <2>2, ProvenKept
<1>10. ASSUME (\E c \in Ceremony : PasskeyStart(c)) \/ UNCHANGED vars PROVE Proven'
  <2>1. UNCHANGED <<clock, sessions, proof, request>>
    BY <1>10 DEF PasskeyStart, vars, tables, history
  <2> QED BY <1>0, <2>1, ProvenKept
<1>11. CASE Tick
  <2>1. clock' \in Nat /\ clock <= clock' /\ UNCHANGED <<sessions, proof, request>>
    BY <1>0, <1>11 DEF Tick, tables, history
  <2> QED BY <2>1, ProvenKept
<1> QED
  BY <1>1, <1>2, <1>3, <1>4, <1>5, <1>6, <1>7, <1>8, <1>9, <1>10, <1>11
     DEF Next, Setup, SignIn, WithSession

-----------------------------------------------------------------------------
(* Theorems *)

\* Tables, requests and history have their types in every state.
THEOREM TypeCorrect == Spec => []TypeOK
<1> DEFINE T == TypeOK /\ Linked
<1>1. Init => T
  BY InitTyped
<1>2. T /\ [Next]_vars => T'
  BY NextTyped
<1>3. T => TypeOK
  OBVIOUS
<1> HIDE DEF T
<1> QED BY <1>1, <1>2, <1>3, PTL DEF Spec

\* The inductive invariant: links, enrolment, second factors, ceremonies, proofs.
THEOREM Inductive == Spec => []IInv
<1>1. Init => IInv
  BY InitTyped, InitEnrolled, InitSpent, InitTaken, InitProven DEF IInv
<1>2. IInv /\ [Next]_vars => IInv'
  BY NextTyped, NextEnrolled, NextSpent, NextTaken, NextProven DEF IInv
<1> QED BY <1>1, <1>2, PTL DEF Spec

\* However codes, activations and resets overlap, there is one administrator at
\* most: setup_finish relies on the code's use alone.
THEOREM ActivatedOnce == Spec => []OneAdministrator
<1>1. IInv => OneAdministrator
  <2> SUFFICES ASSUME IInv PROVE Cardinality(admins) <= 1
    BY DEF OneAdministrator
  <2>1. admins \subseteq {1} /\ IsFiniteSet({1}) /\ Cardinality({1}) = 1
    BY FS_Singleton DEF IInv, Enrolled
  <2>2. Cardinality(admins) <= Cardinality({1})
    BY <2>1, FS_Subset
  <2> QED BY <2>1, <2>2
<1> QED BY <1>1, Inductive, PTL

\* A one-time password or recovery code is used once, by sign-in and step-up
\* together.
THEOREM FactorsServeOnce == Spec => []SecondFactorOnce
<1>1. IInv => SecondFactorOnce
  BY DEF IInv, Spent
<1> QED BY <1>1, Inductive, PTL

\* A WebAuthn or activation ceremony has one outcome at most.
THEOREM CeremoniesEndOnce == Spec => []CeremonyOnce
<1>1. IInv => CeremonyOnce
  BY DEF IInv, Taken, CeremonyOnce
<1> QED BY <1>1, Inductive, PTL

\* The step-up that require_recent asks for was made in this session and lately.
THEOREM ProtectedNeedsProof == Spec => ProtectedIsProven
<1>1. IInv /\ [Next]_vars =>
          [\A r \in Request : RunProtected(r) => clock <= proof[request[r].token] + RecentTTL]_vars
  <2> SUFFICES ASSUME IInv, NEW r \in Request, RunProtected(r)
               PROVE  clock <= proof[request[r].token] + RecentTTL
    OBVIOUS
  <2>1. /\ clock <= request[r].recent + RecentTTL
        /\ request[r].recent <= proof[request[r].token]
    BY DEF RunProtected, At, IInv, Proven
  <2>2. /\ clock \in Nat /\ RecentTTL \in Nat /\ request[r].recent \in Nat
        /\ proof[request[r].token] \in Nat
    <3>1. request[r].token \in Token
      BY DEF IInv, Linked, RunProtected, At
    <3>2. request[r].recent \in Nat
      BY Typed DEF IInv, RequestRow
    <3>3. proof[request[r].token] \in 0 .. MaxTime
      BY <3>1, Typed DEF IInv
    <3>4. clock \in Nat
      BY Typed, TimeIsNat DEF IInv
    <3>5. RecentTTL \in Nat /\ MaxTime \in Nat
      BY ConstantAssumption
    <3> QED BY <3>2, <3>3, <3>4, <3>5
  <2> QED BY <2>1, <2>2
<1> QED BY <1>1, Inductive, PTL DEF Spec, ProtectedIsProven

==============================================================================
