---------------------------- MODULE OperationLock ----------------------------
(***************************************************************************)
(* The host-wide project lock and the browser requests that hold it.       *)
(*                                                                         *)
(* The lock is an flock(2) on one file.  It belongs to an open file        *)
(* description, so it stays locked while ANY process has a copy of the     *)
(* descriptor open: the cockpit, which opened it, and the child it was     *)
(* passed to (operation_lock.child_options).  The cockpit closes its copy  *)
(* when the response stream ends, which a closed browser tab makes happen  *)
(* while the child still runs.                                             *)
(*                                                                         *)
(* A streamed request also owns a RAM reservation, taken by the handler    *)
(* and dropped when the child has been waited for.  The child prints into  *)
(* a pipe that only the open stream drains.                                *)
(***************************************************************************)
EXTENDS Naturals, FiniteSets

CONSTANTS
    Request,     \* slots for concurrent locked browser requests
    Script,      \* programs outside the cockpit that take the lock for
                 \* themselves: the expiry timer, scripts run from a shell
    PipeSize,    \* lines the pipe and the stream reader hold unread
    MaxOutput    \* bound: lines one child prints

ASSUME OutputAssumption == PipeSize \in Nat \ {0} /\ MaxOutput \in Nat

VARIABLES
    phase,     \* the request's progress through middleware and handler
    held,      \* who has the request's lock descriptor open
    child,     \* the command the request streams
    todo,      \* lines the child has still to print
    pipe,      \* lines printed and not read yet
    starts,    \* whether the command starts containers
    resv,      \* whether the request's RAM reservation is booked
    orphans,   \* slots with a booked reservation that no request owns
    script     \* the lock-taking programs

vars == <<phase, held, child, todo, pipe, starts, resv, orphans, script>>

ASSUME ActorAssumption == Request \cap Script = {}

Phases == {"idle", "leased", "admitted", "streaming", "closed"}
Children == {"none", "running", "exited", "reaped"}

TypeOK ==
    /\ phase \in [Request -> Phases]
    /\ held \in [Request -> SUBSET {"cockpit", "child"}]
    /\ child \in [Request -> Children]
    /\ todo \in [Request -> 0 .. MaxOutput]
    /\ pipe \in [Request -> 0 .. PipeSize]
    /\ starts \in [Request -> BOOLEAN]
    /\ resv \in [Request -> BOOLEAN]
    /\ orphans \subseteq Request
    /\ script \in [Script -> {"idle", "running"}]

Init ==
    /\ phase = [r \in Request |-> "idle"]
    /\ held = [r \in Request |-> {}]
    /\ child = [r \in Request |-> "none"]
    /\ todo = [r \in Request |-> 0]
    /\ pipe = [r \in Request |-> 0]
    /\ starts = [r \in Request |-> FALSE]
    /\ resv = [r \in Request |-> FALSE]
    /\ orphans = {}
    /\ script = [s \in Script |-> "idle"]

\* Mutant of LockFree: the cockpit keeps a lock of its own.
OnlyRequestsCount == \A r \in Request : held[r] = {}

\* flock(LOCK_EX | LOCK_NB) succeeds: no descriptor of another holder is open.
LockFree ==
    /\ \A r \in Request : held[r] = {}
    /\ \A s \in Script : script[s] = "idle"

\* What a command inherits: its own copy of the lock descriptor.
ChildDescriptors == {"child"}

\* Mutant of AfterStream: the descriptor is closed only by an explicit end.
KeepsCopy(r) == held[r]

\* The descriptor copies left when the response stream has ended.
AfterStream(r) == held[r] \ {"cockpit"}

\* A line more can be written into the command's pipe.
PipeHasRoom(r) == pipe[r] < PipeSize

\* A slot whose request is over and whose command, if any, was waited for.
Retire(r) ==
    /\ phase' = [phase EXCEPT ![r] = "idle"]
    /\ child' = [child EXCEPT ![r] = "none"]
    /\ todo' = [todo EXCEPT ![r] = 0]
    /\ pipe' = [pipe EXCEPT ![r] = 0]
    /\ starts' = [starts EXCEPT ![r] = FALSE]
    /\ resv' = [resv EXCEPT ![r] = FALSE]

------------------------------------------------------------------------------
(* The middleware and the handler *)

\* The middleware takes the lock before the handler runs.  When the lock is
\* taken it answers 409 and nothing changes, so a refusal is not an action.
Acquire(r) ==
    /\ phase[r] = "idle"
    /\ LockFree
    /\ phase' = [phase EXCEPT ![r] = "leased"]
    /\ held' = [held EXCEPT ![r] = {"cockpit"}]
    /\ UNCHANGED <<child, todo, pipe, starts, resv, orphans, script>>

\* The handler refuses the request, or does its work without a child (the
\* expiry handler): the response is sent and the lease closed with it.
Reply(r) ==
    /\ phase[r] = "leased"
    /\ phase' = [phase EXCEPT ![r] = "idle"]
    /\ held' = [held EXCEPT ![r] = AfterStream(r)]
    /\ UNCHANGED <<child, todo, pipe, starts, resv, orphans, script>>

\* The handler accepts: a command that starts containers books RAM first.
Admit(r) ==
    /\ phase[r] = "leased"
    /\ phase' = [phase EXCEPT ![r] = "admitted"]
    /\ \E s \in BOOLEAN :
          /\ starts' = [starts EXCEPT ![r] = s]
          /\ resv' = [resv EXCEPT ![r] = s]
    /\ UNCHANGED <<held, child, todo, pipe, orphans, script>>

\* The stream starts the command, which inherits the lock descriptor.
Spawn(r) ==
    /\ phase[r] = "admitted"
    /\ phase' = [phase EXCEPT ![r] = "streaming"]
    /\ child' = [child EXCEPT ![r] = "running"]
    /\ held' = [held EXCEPT ![r] = @ \cup ChildDescriptors]
    /\ \E n \in 0 .. MaxOutput : todo' = [todo EXCEPT ![r] = n]
    /\ UNCHANGED <<pipe, starts, resv, orphans, script>>

\* The command cannot be started: the reservation goes with the request.
SpawnFails(r) ==
    /\ phase[r] = "admitted"
    /\ Retire(r)
    /\ held' = [held EXCEPT ![r] = AfterStream(r)]
    /\ UNCHANGED <<orphans, script>>

\* The browser goes away before the command runs.  Cancellation is not an
\* Exception, so the clean-up of a failed start does not run and the booked
\* reservation is left behind.
DisconnectEarly(r) ==
    /\ phase[r] = "admitted"
    /\ Retire(r)
    /\ held' = [held EXCEPT ![r] = AfterStream(r)]
    /\ orphans' = IF resv[r] THEN orphans \cup {r} ELSE orphans
    /\ UNCHANGED script

------------------------------------------------------------------------------
(* The stream and its command *)

\* The command prints a line, or waits for room in the pipe.
Emit(r) ==
    /\ child[r] = "running"
    /\ todo[r] > 0
    /\ PipeHasRoom(r)
    /\ todo' = [todo EXCEPT ![r] = @ - 1]
    /\ pipe' = [pipe EXCEPT ![r] = @ + 1]
    /\ UNCHANGED <<phase, held, child, starts, resv, orphans, script>>

\* The stream forwards a line to the browser.
Forward(r) ==
    /\ phase[r] = "streaming"
    /\ pipe[r] > 0
    /\ pipe' = [pipe EXCEPT ![r] = @ - 1]
    /\ UNCHANGED <<phase, held, child, todo, starts, resv, orphans, script>>

\* The command exits; the kernel closes its copy of the lock descriptor.
Exit(r) ==
    /\ child[r] = "running"
    /\ todo[r] = 0
    /\ child' = [child EXCEPT ![r] = "exited"]
    /\ held' = [held EXCEPT ![r] = @ \ {"child"}]
    /\ UNCHANGED <<phase, todo, pipe, starts, resv, orphans, script>>

\* The wait task sees the exit.  If the stream is gone already, its callback
\* releases the reservation.
Reap(r) ==
    /\ child[r] = "exited"
    /\ IF phase[r] = "closed"
         THEN Retire(r)
         ELSE /\ child' = [child EXCEPT ![r] = "reaped"]
              /\ UNCHANGED <<phase, todo, pipe, starts, resv>>
    /\ UNCHANGED <<held, orphans, script>>

\* End of file, the command was waited for: the response ends.
Finish(r) ==
    /\ phase[r] = "streaming"
    /\ pipe[r] = 0
    /\ child[r] = "reaped"
    /\ Retire(r)
    /\ held' = [held EXCEPT ![r] = AfterStream(r)]
    /\ UNCHANGED <<orphans, script>>

\* The stream ends early and releases now: the command was waited for, or
\* the wait task itself was awaited and is cancelled with the stream.
CloseAndRelease(r) ==
    /\ \/ child[r] = "reaped"
       \/ child[r] = "exited" /\ pipe[r] = 0
    /\ Retire(r)

\* Mutant of CloseAndDefer: the stream's end releases at once.
CloseAndForget(r) ==
    /\ child[r] \in {"running", "exited"}
    /\ phase' = [phase EXCEPT ![r] = "closed"]
    /\ resv' = [resv EXCEPT ![r] = FALSE]
    /\ UNCHANGED <<child, todo, pipe, starts>>

\* The stream ends early and leaves the release to the wait task.
CloseAndDefer(r) ==
    /\ child[r] \in {"running", "exited"}
    /\ phase' = [phase EXCEPT ![r] = "closed"]
    /\ UNCHANGED <<child, todo, pipe, starts, resv>>

\* The browser goes away while the command is being streamed.
Disconnect(r) ==
    /\ phase[r] = "streaming"
    /\ CloseAndRelease(r) \/ CloseAndDefer(r)
    /\ held' = [held EXCEPT ![r] = AfterStream(r)]
    /\ UNCHANGED <<orphans, script>>

------------------------------------------------------------------------------
(* The other lock takers, and a restart of the cockpit *)

ScriptStart(s) ==
    /\ script[s] = "idle"
    /\ LockFree
    /\ script' = [script EXCEPT ![s] = "running"]
    /\ UNCHANGED <<phase, held, child, todo, pipe, starts, resv, orphans>>

ScriptEnd(s) ==
    /\ script[s] = "running"
    /\ script' = [script EXCEPT ![s] = "idle"]
    /\ UNCHANGED <<phase, held, child, todo, pipe, starts, resv, orphans>>

\* systemd stops or replaces the cockpit and kills its whole control group:
\* the streamed commands die with it, and the reservations were only in memory.
Restart ==
    /\ phase' = [r \in Request |-> "idle"]
    /\ held' = [r \in Request |-> {}]
    /\ child' = [r \in Request |-> "none"]
    /\ todo' = [r \in Request |-> 0]
    /\ pipe' = [r \in Request |-> 0]
    /\ starts' = [r \in Request |-> FALSE]
    /\ resv' = [r \in Request |-> FALSE]
    /\ orphans' = {}
    /\ UNCHANGED script

RequestStep(r) ==
    \/ Acquire(r) \/ Reply(r) \/ Admit(r)
    \/ Spawn(r) \/ SpawnFails(r) \/ DisconnectEarly(r)
    \/ Emit(r) \/ Forward(r) \/ Exit(r) \/ Reap(r)
    \/ Finish(r) \/ Disconnect(r)

Next ==
    \/ \E r \in Request : RequestStep(r)
    \/ \E s \in Script : ScriptStart(s) \/ ScriptEnd(s)
    \/ Restart

\* The server and its commands keep going when they can; browsers, operators
\* and systemd owe nothing.
Fairness ==
    /\ \A r \in Request :
          /\ WF_vars(Reply(r) \/ Admit(r))
          /\ WF_vars(Spawn(r) \/ SpawnFails(r))
          /\ WF_vars(Emit(r))
          /\ WF_vars(Forward(r))
          /\ WF_vars(Exit(r))
          /\ WF_vars(Reap(r))
          /\ WF_vars(Finish(r))
    /\ \A s \in Script : WF_vars(ScriptEnd(s))

Spec == Init /\ [][Next]_vars

FairSpec == Spec /\ Fairness

------------------------------------------------------------------------------
(* Properties *)

\* A request is at work while its handler runs, and then for as long as its
\* command does.
AtWork(r) == phase[r] \in {"leased", "admitted"} \/ child[r] = "running"

Working == {r \in Request : AtWork(r)} \cup {s \in Script : script[s] = "running"}

\* Two site operations never run at the same time, whatever browsers close
\* and in whatever order descriptors go (the middleware comment: "so
\* disconnecting the browser cannot unlock a running job").
WorkExclusive == \A a, b \in Working : a = b

\* The code above implements the abstract mutual exclusion of SiteMutex.
Mutex == INSTANCE SiteMutex WITH Operation <- Request \cup Script,
                                 working <- Working
MutexSpec == Mutex!Spec

\* A command that starts containers keeps its RAM booked until it has really
\* exited, even when its browser left (the finally clause of stream_command).
ReservationCoversChild ==
    \A r \in Request : child[r] = "running" /\ starts[r] => resv[r]

\* A command whose browser left and that has more to print than its pipe holds.
Stalled(r) == phase[r] = "closed" /\ todo[r] + pipe[r] > PipeSize

\* A lock that was taken is given back, however the request ends, unless a
\* browser leaves a command that has much left to print.
LeaseReleased ==
    \A r \in Request : held[r] # {} ~> (held[r] = {} \/ Stalled(r))
==============================================================================
