-------------------------------- MODULE Auth --------------------------------
(***************************************************************************)
(* The cockpit's one administrator: activation with a bootstrap code,      *)
(* sign-in with a passkey or with password and second factor, sessions,    *)
(* the step-up that protected operations ask for, and the reset.           *)
(*                                                                         *)
(* Every "with db()" block is a transaction and an action here; a handler  *)
(* with several is a request whose step says what it has read or done.  A  *)
(* transaction that ends in an HTTPException is rolled back, rate-limit    *)
(* row included: a refusal changes nothing but the request.                *)
(***************************************************************************)
EXTENDS Naturals, FiniteSets, FiniteSetsExt

CONSTANTS
    Request,   \* HTTP requests being handled
    Token,     \* session cookies
    Ceremony,  \* challenge identifiers
    Code,      \* bootstrap codes
    Key,       \* passkeys people hold
    Recovery,  \* recovery codes of an administrator
    None,      \* no token, ceremony or code
    IdleTTL, AbsoluteTTL, ChallengeTTL, BootstrapTTL,
    RecentTTL, \* the 600 seconds of the middleware
    Window,    \* steps of a one-time password accepted before and after now
    MaxTime,   \* bound: last value of the clock, in steps of one-time passwords
    MaxId      \* bound: ids of administrators

Time == 1 .. MaxTime
Id == 1 .. MaxId
NoId == 0
Step == 0 .. MaxTime + Window    \* one-time passwords, by their step
Factor == Step \cup Recovery

ASSUME ConstantAssumption ==
    /\ None \notin Token \cup Ceremony \cup Code
    /\ Recovery \cap Nat = {}
    /\ {IdleTTL, AbsoluteTTL, ChallengeTTL, BootstrapTTL, RecentTTL, Window} \subseteq Nat
    /\ MaxTime \in Nat \ {0} /\ MaxId \in Nat \ {0}

VARIABLES
    clock,
    bootstrap,  \* table bootstrap, its one row
    issued,     \* bootstrap codes made so far
    admins,     \* table admins: ids
    lastStep,   \* admins.last_totp_step
    left,       \* table recovery_codes: the unused ones
    owner,      \* table passkeys: the administrator of each key
    challenges, \* table challenges, and which identifiers were used
    sessions,   \* table sessions, and which tokens were used
    request,
    uses,       \* history: sign-ins and step-ups with each second factor of
                \* the administrator enrolled last
    finished,   \* history: what each ceremony brought about
    proof       \* history: when the person in a session last proved who he is

tables == <<bootstrap, issued, admins, lastStep, left, owner, challenges, sessions>>
history == <<uses, finished, proof>>
vars == <<clock, tables, request, history>>

NoBootstrap == [code |-> None, expires |-> 0, used |-> FALSE]
NewSession == [state |-> "new", admin |-> NoId, seen |-> 0, recent |-> 0, expires |-> 0]
NewChallenge == [state |-> "new", kind |-> "none", token |-> None, code |-> None, expires |-> 0]
Idle == [step |-> "idle", token |-> None, admin |-> NoId, ceremony |-> None,
         code |-> None, recent |-> 0]

TypeOK ==
    /\ clock \in Time
    /\ bootstrap \in [code : Code \cup {None}, expires : Nat, used : BOOLEAN]
    /\ issued \subseteq Code
    /\ admins \subseteq Id
    /\ lastStep \in [Id -> Step]
    /\ left \in [Id -> SUBSET Recovery]
    /\ owner \in [Key -> admins \cup {NoId}]
    /\ challenges \in [Ceremony ->
           [state : {"new", "open", "gone"},
            kind : {"none", "setup", "login", "reauth", "register"},
            token : Token \cup {None}, code : Code \cup {None}, expires : Nat]]
    /\ sessions \in [Token ->
           [state : {"new", "open", "gone"}, admin : Id \cup {NoId},
            seen : Nat, recent : Nat, expires : Nat]]
    /\ \A s \in Token : sessions[s].state = "open" => sessions[s].admin \in admins
    /\ request \in [Request ->
           [step : {"idle", "unenrolled", "coded", "proved", "entered", "active", "consumed"},
            token : Token \cup {None}, admin : Id \cup {NoId},
            ceremony : Ceremony \cup {None}, code : Code \cup {None}, recent : Nat]]
    /\ uses \in [Factor -> Nat]
    /\ finished \in [Ceremony -> Nat]
    /\ proof \in [Token -> 0 .. MaxTime]

Init ==
    /\ clock = 1
    /\ bootstrap = NoBootstrap
    /\ issued = {}
    /\ admins = {}
    /\ lastStep = [a \in Id |-> 0]
    /\ left = [a \in Id |-> {}]
    /\ owner = [k \in Key |-> NoId]
    /\ challenges = [c \in Ceremony |-> NewChallenge]
    /\ sessions = [s \in Token |-> NewSession]
    /\ request = [r \in Request |-> Idle]
    /\ uses = [f \in Factor |-> 0]
    /\ finished = [c \in Ceremony |-> 0]
    /\ proof = [s \in Token |-> 0]

At(r, step) == request[r].step = step
Move(r, new) == request' = [request EXCEPT ![r] = new]
Done(r) == Move(r, Idle)

-----------------------------------------------------------------------------
(* Challenges and sessions *)

Issue(c, kind, token, code) ==
    /\ challenges[c].state = "new"
    /\ challenges' = [challenges EXCEPT ![c] =
          [state |-> "open", kind |-> kind, token |-> token, code |-> code,
           expires |-> clock + ChallengeTTL]]

\* Mutant: the row is read, and left where it is.
ReadChallenge(c, kind) ==
    /\ challenges[c].state = "open" /\ challenges[c].kind = kind
    /\ challenges[c].expires >= clock
    /\ UNCHANGED challenges
Consume(c, kind) ==
    /\ challenges[c].state = "open" /\ challenges[c].kind = kind
    /\ challenges[c].expires >= clock
    /\ challenges' = [challenges EXCEPT ![c].state = "gone"]

Finish(c) == finished' = [finished EXCEPT ![c] = @ + 1]

Live(s) ==
    /\ sessions[s].state = "open"
    /\ sessions[s].expires >= clock
    /\ clock <= sessions[s].seen + IdleTTL

\* A session the code looks at and finds too old is deleted.
DropOld(s) ==
    /\ sessions[s].state = "open" /\ ~Live(s)
    /\ sessions' = [sessions EXCEPT ![s].state = "gone"]
    /\ UNCHANGED <<clock, bootstrap, issued, admins, lastStep, left, owner, challenges,
                   request, history>>

\* Mutant: SQLite is not told to enforce foreign keys.
Unenforced(a) == a # NoId
ForeignKey(a) == a \in admins

\* The second transaction of a sign-in; its row needs an administrator.
SetSession(r, s) ==
    /\ At(r, "proved") /\ ForeignKey(request[r].admin)
    /\ sessions[s].state = "new"
    /\ sessions' = [sessions EXCEPT ![s] =
          [state |-> "open", admin |-> request[r].admin, seen |-> clock, recent |-> clock,
           expires |-> clock + AbsoluteTTL]]
    /\ proof' = [proof EXCEPT ![s] = clock]
    /\ Done(r)
    /\ UNCHANGED <<clock, bootstrap, issued, admins, lastStep, left, owner, challenges,
                   uses, finished>>

-----------------------------------------------------------------------------
(* Second factors *)

\* Mutant: the step is compared and not remembered.
SpendUnrecorded(a, f) ==
    /\ uses' = [uses EXCEPT ![f] = @ + 1]
    /\ \/ f \in Step /\ f <= clock + Window /\ clock <= f + Window /\ f > lastStep[a]
          /\ UNCHANGED <<lastStep, left>>
       \/ f \in left[a] /\ left' = [left EXCEPT ![a] = @ \ {f}] /\ UNCHANGED lastStep
Spend(a, f) ==
    /\ uses' = [uses EXCEPT ![f] = @ + 1]
    /\ \/ f \in Step /\ f <= clock + Window /\ clock <= f + Window /\ f > lastStep[a]
          /\ lastStep' = [lastStep EXCEPT ![a] = f] /\ UNCHANGED left
       \/ f \in left[a] /\ left' = [left EXCEPT ![a] = @ \ {f}] /\ UNCHANGED lastStep

-----------------------------------------------------------------------------
(* Bootstrap and activation *)

\* install.sh makes the first code and keeps the administrator; the command
\* line of the updater resets.  Deleting administrators cascades.
CreateBootstrap(code, reset) ==
    /\ code \notin issued
    /\ issued' = issued \cup {code}
    /\ bootstrap' = [code |-> code, expires |-> clock + BootstrapTTL, used |-> FALSE]
    /\ sessions' = [s \in Token |-> IF sessions[s].state = "open"
                                    THEN [sessions[s] EXCEPT !.state = "gone"]
                                    ELSE sessions[s]]
    /\ admins' = IF reset THEN {} ELSE admins
    /\ owner' = IF reset THEN [k \in Key |-> NoId] ELSE owner
    /\ left' = IF reset THEN [a \in Id |-> {}] ELSE left
    /\ UNCHANGED <<clock, lastStep, challenges, request, history>>

NotEnrolled == admins = {}

SetupStart(r, code) ==
    /\ At(r, "idle") /\ code \in issued
    /\ NotEnrolled
    /\ Move(r, [Idle EXCEPT !.step = "unenrolled", !.code = code])
    /\ UNCHANGED <<clock, tables, history>>

CheckCode(r) ==
    /\ At(r, "unenrolled")
    /\ bootstrap.code = request[r].code /\ ~bootstrap.used /\ bootstrap.expires >= clock
    /\ Move(r, [request[r] EXCEPT !.step = "coded"])
    /\ UNCHANGED <<clock, tables, history>>

IssueSetup(r, c) ==
    /\ At(r, "coded")
    /\ Issue(c, "setup", None, request[r].code)
    /\ Done(r)
    /\ UNCHANGED <<clock, bootstrap, issued, admins, lastStep, left, owner, sessions, history>>

\* Mutant: the code's use is not looked at again when the ceremony ends.
CodeKnown(c) == bootstrap.code = challenges[c].code
CodeStands(c) == bootstrap.code = challenges[c].code /\ ~bootstrap.used

\* SQLite numbers the rows of an empty table from 1 again.  Any password in the
\* window passes; the step remembered is that of the server's clock.
SetupFinish(r, c, key) ==
    LET id == Max(admins \cup {NoId}) + 1 IN
    /\ At(r, "idle") /\ id \in Id
    /\ Consume(c, "setup") /\ CodeStands(c)
    /\ key # None => owner[key] = NoId
    /\ admins' = admins \cup {id}
    /\ owner' = [k \in Key |-> IF k = key THEN id ELSE owner[k]]
    /\ lastStep' = [lastStep EXCEPT ![id] = clock]
    /\ left' = [left EXCEPT ![id] = Recovery]
    /\ bootstrap' = [bootstrap EXCEPT !.used = TRUE]
    /\ uses' = [f \in Factor |-> 0]
    /\ Finish(c)
    /\ Move(r, [Idle EXCEPT !.step = "proved", !.admin = id])
    /\ UNCHANGED <<clock, issued, sessions, proof>>

-----------------------------------------------------------------------------
(* Sign-in *)

PasskeyStart(c) ==
    /\ \E k \in Key : owner[k] # NoId
    /\ Issue(c, "login", None, None)
    /\ UNCHANGED <<clock, bootstrap, issued, admins, lastStep, left, owner, sessions,
                   request, history>>

PasskeyFinish(r, c, k) ==
    /\ At(r, "idle") /\ owner[k] # NoId
    /\ Consume(c, "login") /\ Finish(c)
    /\ Move(r, [Idle EXCEPT !.step = "proved", !.admin = owner[k]])
    /\ UNCHANGED <<clock, bootstrap, issued, admins, lastStep, left, owner, sessions,
                   uses, proof>>

FallbackLogin(r, a, f) ==
    /\ At(r, "idle") /\ a \in admins
    /\ Spend(a, f)
    /\ Move(r, [Idle EXCEPT !.step = "proved", !.admin = a])
    /\ UNCHANGED <<clock, bootstrap, issued, admins, owner, challenges, sessions,
                   finished, proof>>

-----------------------------------------------------------------------------
(* Requests with a session *)

\* The middleware touches the session and keeps the row it read.
Enter(r, s) ==
    /\ At(r, "idle") /\ Live(s)
    /\ sessions' = [sessions EXCEPT ![s].seen = clock]
    /\ Move(r, [Idle EXCEPT !.step = "entered", !.token = s, !.recent = sessions[s].recent])
    /\ UNCHANGED <<clock, bootstrap, issued, admins, lastStep, left, owner, challenges, history>>

\* A protected operation starts if the row that was read is recent.
RunProtected(r) ==
    /\ At(r, "entered")
    /\ clock <= request[r].recent + RecentTTL
    /\ Done(r)
    /\ UNCHANGED <<clock, tables, history>>

Logout(r) ==
    /\ At(r, "entered")
    /\ sessions' = [sessions EXCEPT ![request[r].token].state = "gone"]
    /\ Done(r)
    /\ UNCHANGED <<clock, bootstrap, issued, admins, lastStep, left, owner, challenges, history>>

\* The handlers of step-up and passkeys read the session again.
ReadSession(r) ==
    /\ At(r, "entered") /\ Live(request[r].token)
    /\ Move(r, [request[r] EXCEPT !.step = "active",
                                  !.admin = sessions[request[r].token].admin])
    /\ UNCHANGED <<clock, tables, history>>

SessionCeremony(r, c, kind) ==
    /\ At(r, "active")
    /\ Issue(c, kind, request[r].token, None)
    /\ Done(r)
    /\ UNCHANGED <<clock, bootstrap, issued, admins, lastStep, left, owner, sessions, history>>

ReauthStart(r, c) ==
    /\ \E k \in Key : owner[k] = request[r].admin
    /\ SessionCeremony(r, c, "reauth")

RegisterStart(r, c) ==
    /\ request[r].admin \in admins
    /\ SessionCeremony(r, c, "register")

ConsumeCeremony(r, c, kind) ==
    /\ At(r, "active")
    /\ Consume(c, kind)
    /\ Move(r, [request[r] EXCEPT !.step = "consumed", !.ceremony = c])
    /\ UNCHANGED <<clock, bootstrap, issued, admins, lastStep, left, owner, sessions, history>>

\* Mutant: a ceremony serves any session of the administrator.
OfAnySession(r) == request[r].ceremony # None
OfThisSession(r) == challenges[request[r].ceremony].token = request[r].token

\* The session's row may have gone meanwhile: then the UPDATE finds nothing.
Refresh(s) ==
    sessions' = IF sessions[s].state = "open"
                THEN [sessions EXCEPT ![s].recent = clock] ELSE sessions

ReauthFinish(r, k) ==
    LET c == request[r].ceremony IN
    /\ At(r, "consumed") /\ challenges[c].kind = "reauth"
    /\ OfThisSession(r)
    /\ owner[k] = request[r].admin /\ owner[k] # NoId
    /\ Refresh(request[r].token)
    /\ proof' = [proof EXCEPT ![challenges[c].token] = clock]
    /\ Finish(c)
    /\ Done(r)
    /\ UNCHANGED <<clock, bootstrap, issued, admins, lastStep, left, owner, challenges, uses>>

ReauthFallback(r, f) ==
    /\ At(r, "active") /\ request[r].admin \in admins
    /\ Spend(request[r].admin, f)
    /\ Refresh(request[r].token)
    /\ proof' = [proof EXCEPT ![request[r].token] = clock]
    /\ Done(r)
    /\ UNCHANGED <<clock, bootstrap, issued, admins, owner, challenges, finished>>

RegisterFinish(r, k) ==
    LET c == request[r].ceremony IN
    /\ At(r, "consumed") /\ challenges[c].kind = "register"
    /\ OfThisSession(r)
    /\ owner[k] = NoId /\ ForeignKey(request[r].admin)
    /\ owner' = [owner EXCEPT ![k] = request[r].admin]
    /\ Finish(c)
    /\ Done(r)
    /\ UNCHANGED <<clock, bootstrap, issued, admins, lastStep, left, challenges, sessions,
                   uses, proof>>

\* An error, a refusal or a stop of the cockpit ends a request where it is.
Refuse(r) ==
    /\ ~At(r, "idle")
    /\ Done(r)
    /\ UNCHANGED <<clock, tables, history>>

Tick ==
    /\ clock < MaxTime
    /\ clock' = clock + 1
    /\ UNCHANGED <<tables, request, history>>

-----------------------------------------------------------------------------
Setup(r) ==
    \/ \E code \in Code : SetupStart(r, code)
    \/ CheckCode(r)
    \/ \E c \in Ceremony : IssueSetup(r, c)
    \/ \E c \in Ceremony, key \in Key \cup {None} : SetupFinish(r, c, key)

SignIn(r) ==
    \/ \E c \in Ceremony, k \in Key : PasskeyFinish(r, c, k)
    \/ \E a \in Id, f \in Factor : FallbackLogin(r, a, f)
    \/ \E s \in Token : SetSession(r, s)

WithSession(r) ==
    \/ \E s \in Token : Enter(r, s)
    \/ RunProtected(r) \/ Logout(r) \/ ReadSession(r)
    \/ \E c \in Ceremony : ReauthStart(r, c) \/ RegisterStart(r, c)
    \/ \E c \in Ceremony, kind \in {"reauth", "register"} : ConsumeCeremony(r, c, kind)
    \/ \E k \in Key : ReauthFinish(r, k) \/ RegisterFinish(r, k)
    \/ \E f \in Factor : ReauthFallback(r, f)

Next ==
    \/ \E code \in Code, reset \in BOOLEAN : CreateBootstrap(code, reset)
    \/ \E c \in Ceremony : PasskeyStart(c)
    \/ \E s \in Token : DropOld(s)
    \/ \E r \in Request : Setup(r) \/ SignIn(r) \/ WithSession(r) \/ Refuse(r)
    \/ Tick

Spec == Init /\ [][Next]_vars

-----------------------------------------------------------------------------
(* Properties *)

\* The cockpit has one administrator: activations that overlap, a second code
\* made while somebody is enrolled, and a ceremony begun under an older code
\* never enrol a second one.  setup_finish does not ask whether somebody is
\* enrolled: the use of the code has to exclude it.
OneAdministrator == Cardinality(admins) <= 1

\* A one-time password or a recovery code signs in or steps up once, whichever
\* handlers it is sent to and however they overlap.
SecondFactorOnce == \A f \in Factor : uses[f] <= 1

\* A ceremony has one outcome, also when it is finished by two requests: one
\* administrator, one session, one step-up or one passkey.
CeremonyOnce == \A c \in Ceremony : finished[c] <= 1

\* Where a protected operation starts, the person in this very session has
\* proved who he is in the last RecentTTL, not somebody in another session of
\* the administrator.
ProtectedIsProven ==
    [][\A r \in Request : RunProtected(r) =>
           clock <= proof[request[r].token] + RecentTTL]_vars
=============================================================================
