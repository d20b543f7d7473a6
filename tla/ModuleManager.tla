---------------------------- MODULE ModuleManager ----------------------------
(***************************************************************************)
(* One official module: its releases, the link to the current one, the     *)
(* status file, its local core API credential and its licence, worked on   *)
(* by the commands of module_manager.py.  The cockpit starts them as       *)
(* processes of their own after a look at the operations it has recorded;  *)
(* nothing else keeps two of them apart.                                   *)
(*                                                                         *)
(* A command is the list of steps it still has to take.  Hooks belong to   *)
(* the module: what they do to its integration is all that is known.       *)
(***************************************************************************)
EXTENDS Naturals, Sequences

CONSTANTS
    Op,          \* operations the cockpit handles at a time
    Version,     \* releases of the module
    Compatible,  \* those whose signed manifest this core accepts
    Scoped,      \* those that declare a core API scope
    Premium,     \* those that need a licence
    Activates,   \* those with activate.py
    Deactivates, \* those with deactivate.py
    None         \* no release

ASSUME ConstantAssumption ==
    /\ None \notin Version
    /\ \A S \in {Compatible, Scoped, Premium, Activates, Deactivates} : S \subseteq Version

VARIABLES
    release,     \* state of each version directory; "bare" has no module.json,
                 \* "torn" had one that is being written again
    current,     \* the link to the current release
    file,        \* install.json
    granted,     \* the credential's connection is active
    running,     \* the module's integration is on
    certificate, \* the licence certificate is on disk
    transfer,    \* a licence transfer waits for the licensing service
    op,          \* the operations
    disturbed    \* history: something happened that nothing in the code excludes

module == <<release, current, file, granted, running>>
vars == <<module, certificate, transfer, op, disturbed>>

Installs == {"install", "upload", "update"}
Action == Installs \cup {"enable", "disable", "uninstall"}
Step == {"fetch", "verify", "read", "place", "open", "manifest", "previous", "switch", "ensure", "revoke", "forget",
         "install.py", "activate.py", "deactivate.py", "uninstall.py",
         "unlink", "relink", "write", "error"}
Status == {"active", "disabled", "error", "removed"}
Idle == [state |-> "idle", recorded |-> FALSE, action |-> "install", version |-> None,
         previous |-> None, status |-> "active", back |-> FALSE, todo |-> <<>>]

TypeOK ==
    /\ release \in [Version -> {"absent", "bare", "torn", "complete"}]
    /\ current \in Version \cup {None}
    /\ file \in [status : Status, version : Version \cup {None}]
    /\ {granted, running, certificate, transfer, disturbed} \subseteq BOOLEAN
    /\ \A o \in Op :
          /\ op[o] \in [state : {"idle", "checked", "alive"}, recorded : BOOLEAN,
                        action : Action, version : Version \cup {None},
                        previous : Version \cup {None}, status : Status, back : BOOLEAN,
                        todo : Seq(Step)]
          /\ (op[o].state = "alive") = (op[o].todo # <<>>)

\* A missing install.json reads as "active".
Init ==
    /\ release = [v \in Version |-> "absent"]
    /\ current = None
    /\ file = [status |-> "active", version |-> None]
    /\ granted = FALSE /\ running = FALSE
    /\ certificate = FALSE /\ transfer = FALSE
    /\ op = [o \in Op |-> Idle]
    /\ disturbed = FALSE

Alive(o) == op[o].state = "alive"
At(o, step) == Alive(o) /\ Head(op[o].todo) = step
\* A process with no step left has ended.
Set(o, new) ==
    op' = [op EXCEPT ![o] = IF new.state = "alive" /\ new.todo = <<>> THEN Idle ELSE new]
Then(o) == Set(o, [op[o] EXCEPT !.todo = Tail(@)])
Only(condition, steps) == IF condition THEN steps ELSE <<>>

-----------------------------------------------------------------------------
(* The cockpit *)

\* An upload's module is not known before the command has read the package.
Conflict(a, o) ==
    /\ Alive(o) /\ op[o].recorded
    /\ \/ "upload" \notin {a, op[o].action}
       \/ {a, op[o].action} \subseteq {"install", "upload"}

Check(o, a) ==
    /\ op[o].state = "idle"
    /\ \A p \in Op : ~Conflict(a, p)
    /\ Set(o, [Idle EXCEPT !.state = "checked", !.action = a])
    /\ UNCHANGED <<module, certificate, transfer, disturbed>>

\* The process runs before its record is written.
Spawn(o) ==
    /\ op[o].state = "checked"
    /\ Set(o, [op[o] EXCEPT !.state = "alive",
                  !.todo = IF op[o].action \in Installs THEN <<"fetch">> ELSE <<"read">>])
    /\ disturbed' = (disturbed \/ transfer \/ \E p \in Op : Alive(p))
    /\ UNCHANGED <<module, certificate, transfer>>

Record(o) ==
    /\ Alive(o) /\ ~op[o].recorded
    /\ Set(o, [op[o] EXCEPT !.recorded = TRUE])
    /\ UNCHANGED <<module, certificate, transfer, disturbed>>

-----------------------------------------------------------------------------
(* Commands *)

\* By the certificate's being there: a release published after its update period is
\* refused as any step may be (Fail).
Entitled(v) == v \in Premium => certificate

Credential(v, step) == Only(v \in Scoped, <<step>>)

Readable == current # None /\ release[current] = "complete"

\* A manifest that cannot be read declares no scope.
Scope(v) == v \in Scoped /\ release[v] = "complete"

\* What install does once the link has moved.
Apply(v, disabled) ==
    Credential(v, "ensure") \o <<"install.py">>
    \o Only(v \in Activates \cup Deactivates,
            IF disabled THEN <<"deactivate.py">> \o Credential(v, "revoke")
                        ELSE <<"activate.py">>)

Rollback(v, previous, disabled) ==
    Only(previous = None, Credential(v, "forget")) \o <<"unlink">>
    \o Only(previous # None,
            <<"relink">> \o Only(Scope(previous), <<"ensure">>) \o <<"install.py">>
            \o IF disabled THEN <<"deactivate.py">> \o Only(Scope(previous), <<"revoke">>)
               ELSE Only(previous \in Activates, <<"activate.py">>))

\* Mutant: the link moves before the manifest is there.
LinkFirst(v) == Only(release[v] = "absent", <<"place">>) \o <<"previous", "switch">>
InstallSteps(v) ==
    Only(release[v] = "absent", <<"place">>) \o <<"open", "manifest", "previous", "switch">>

\* An update needs an installed module, whose manifest says where to ask.
HasSource(o) == op[o].action = "update" => Readable

Fetch(o, v) ==
    /\ At(o, "fetch") /\ HasSource(o)
    /\ Set(o, [op[o] EXCEPT !.version = v, !.todo = <<"verify">>])
    /\ UNCHANGED <<module, certificate, transfer, disturbed>>

\* A directory of this version has to be the signed package, and one without
\* module.json is not.
Genuine(v) == release[v] \in {"absent", "complete"}

\* Nothing is placed before the package is verified and entitled.
Verify(o) ==
    LET v == op[o].version IN
    /\ At(o, "verify") /\ v \in Compatible /\ Entitled(v) /\ Genuine(v)
    /\ Set(o, [op[o] EXCEPT !.todo = InstallSteps(v)])
    /\ UNCHANGED <<module, certificate, transfer, disturbed>>

Place(o) ==
    LET v == op[o].version IN
    /\ At(o, "place") /\ release[v] = "absent"
    /\ release' = [release EXCEPT ![v] = "bare"]
    /\ Then(o)
    /\ UNCHANGED <<current, file, granted, running, certificate, transfer, disturbed>>

\* The copy is not atomic: it empties the file, and then fills it.
OpenManifest(o) ==
    /\ At(o, "open")
    /\ release' = [release EXCEPT ![op[o].version] =
                      IF @ = "complete" THEN "torn" ELSE @]
    /\ Then(o)
    /\ UNCHANGED <<current, file, granted, running, certificate, transfer, disturbed>>

CopyManifest(o) ==
    /\ At(o, "manifest")
    /\ release' = [release EXCEPT ![op[o].version] = "complete"]
    /\ Then(o)
    /\ UNCHANGED <<current, file, granted, running, certificate, transfer, disturbed>>

ReadPrevious(o) ==
    /\ At(o, "previous")
    /\ Scope(current) => op[o].version \in Scoped
    /\ Set(o, [op[o] EXCEPT !.previous = current, !.todo = Tail(@),
                  !.status = IF current = None THEN "active" ELSE file.status])
    /\ UNCHANGED <<module, certificate, transfer, disturbed>>

Switch(o) ==
    /\ At(o, "switch")
    /\ current' = op[o].version
    /\ Set(o, [op[o] EXCEPT !.todo = Apply(op[o].version, op[o].status = "disabled")
                                     \o <<"write">>])
    /\ UNCHANGED <<release, file, granted, running, certificate, transfer, disturbed>>

\* Mutant: the credential survives a disable.
DisableKeepingCredential(v) == <<"deactivate.py", "write">>
DisableSteps(v) == <<"deactivate.py">> \o Credential(v, "revoke") \o <<"write">>

EnableSteps(v) == Credential(v, "ensure") \o <<"activate.py", "write">>

UninstallSteps(v, active) ==
    Only(active /\ v \in Deactivates, <<"deactivate.py">>) \o <<"uninstall.py">>
    \o Only(Scope(v), <<"revoke">>) \o <<"unlink", "write">>

Target(a) == CASE a = "enable" -> "active" [] a = "disable" -> "disabled"
               [] OTHER -> "removed"

\* Enable, disable and uninstall begin with the current release.
ReadCurrent(o) ==
    LET a == op[o].action IN
    /\ At(o, "read") /\ current # None
    /\ a = "enable" => Readable /\ current \in Activates /\ Entitled(current)
    /\ a = "disable" => Readable /\ current \in Deactivates
    /\ Set(o, [op[o] EXCEPT
          !.version = IF a = "uninstall" THEN file.version ELSE current,
          !.status = Target(a),
          !.todo = CASE a = "enable" -> EnableSteps(current)
                     [] a = "disable" -> DisableSteps(current)
                     [] OTHER -> UninstallSteps(current, file.status = "active")])
    /\ UNCHANGED <<module, certificate, transfer, disturbed>>

\* The helper reads the manifest of the current release again.
Grantable == Readable /\ current \in Scoped /\ Entitled(current)

Ensure(o) ==
    /\ At(o, "ensure") /\ Grantable
    /\ granted' = TRUE
    /\ Then(o)
    /\ UNCHANGED <<release, current, file, running, certificate, transfer, disturbed>>

Revoke(o) ==
    /\ At(o, "revoke") \/ At(o, "forget")
    /\ Readable
    /\ granted' = FALSE
    /\ Then(o)
    /\ UNCHANGED <<release, current, file, running, certificate, transfer, disturbed>>

HookLeaves(name) ==
    CASE name = "activate.py" -> {TRUE}
      [] name = "install.py" -> BOOLEAN
      [] name = "deactivate.py" /\ current \notin Deactivates -> {running}
      [] OTHER -> {FALSE}

Hook(o, name) ==
    /\ At(o, name)
    /\ running' \in HookLeaves(name)
    /\ Then(o)
    /\ UNCHANGED <<release, current, file, granted, certificate, transfer, disturbed>>

Unlink(o) ==
    /\ At(o, "unlink")
    /\ current' = None
    /\ Then(o)
    /\ UNCHANGED <<release, file, granted, running, certificate, transfer, disturbed>>

Relink(o) ==
    /\ At(o, "relink") /\ current = None
    /\ current' = op[o].previous
    /\ Then(o)
    /\ UNCHANGED <<release, file, granted, running, certificate, transfer, disturbed>>

\* Without lifecycle hooks the status of the previous release is kept.
NewState(o) ==
    LET lifecycle == op[o].action \in Installs
                     /\ op[o].version \in Activates \cup Deactivates IN
    [version |-> op[o].version,
     status |-> IF lifecycle /\ op[o].status # "disabled" THEN "active" ELSE op[o].status]

\* Mutant: a status of its own for hooks that fail.
FailedState == "failed"
ErrorState == "error"

WriteState(o) ==
    /\ At(o, "write") \/ At(o, "error")
    /\ file' = IF At(o, "error") THEN [file EXCEPT !.status = ErrorState] ELSE NewState(o)
    /\ Then(o)
    /\ UNCHANGED <<release, current, granted, running, certificate, transfer, disturbed>>

\* An error once the link has moved brings the previous release back.
Applying(me) ==
    /\ me.action \in Installs /\ ~me.back
    /\ Head(me.todo) \notin {"fetch", "verify", "place", "open", "manifest", "previous", "switch"}

\* Only the rollback of a first install survives the error of its revoke.
Recovery(me) ==
    CASE Head(me.todo) = "forget" -> Tail(me.todo)
      [] Applying(me) -> Rollback(me.version, me.previous, me.status = "disabled")
      [] me.action = "enable" /\ Head(me.todo) = "activate.py" ->
            Credential(me.version, "forget") \o <<"error">>
      [] me.action = "disable" /\ Head(me.todo) = "deactivate.py" -> <<"error">>
      [] OTHER -> <<>>

\* A hook that fails may have done its work, and so may the credential's helper,
\* which commits before it writes the file.
FailedHookLeaves(step) ==
    CASE step \in {"activate.py", "install.py"} -> BOOLEAN
      [] step \in {"deactivate.py", "uninstall.py"} -> {running, FALSE}
      [] OTHER -> {running}

FailedHelperLeaves(step) ==
    CASE step = "ensure" /\ Grantable -> {granted, TRUE}
      [] step \in {"revoke", "forget"} /\ Readable -> {granted, FALSE}
      [] OTHER -> {granted}

\* A refusal or an error at a step.  A scope that a failed update added is not taken
\* back, nor is a failed enable's.
Fail(o) ==
    LET me == op[o]
        step == Head(me.todo)
        widened == Applying(me) /\ me.previous # None /\ ~Scope(me.previous)
        left == me.action = "enable" /\ step = "ensure" IN
    /\ Alive(o)
    /\ granted' \in FailedHelperLeaves(step)
    /\ running' \in FailedHookLeaves(step)
    /\ Set(o, [me EXCEPT !.back = Applying(me) \/ @, !.todo = Recovery(me)])
    /\ disturbed' = ( \/ disturbed \/ me.back \/ ((widened \/ left) /\ granted')
                      \/ step \in {"forget", "write", "error"} /\ ~Applying(me)
                      \/ step = "manifest" /\ release[me.version] = "torn" )
    /\ UNCHANGED <<release, current, file, certificate, transfer>>

-----------------------------------------------------------------------------
(* Licences *)

ActivateLicense ==
    /\ ~certificate
    /\ certificate' = TRUE
    /\ UNCHANGED <<module, transfer, op, disturbed>>

\* What the cockpit shows: a release without its manifest is left out.
Listed == Readable
Pending == \E o \in Op : Alive(o) /\ op[o].recorded

\* Mutant: the recorded operations are not looked at.
OffOrBusy == ~Listed \/ file.status \in {"disabled", "removed"}
MayTransfer == ~Listed \/ (file.status \in {"disabled", "removed"} /\ ~Pending)

\* Before the request, and after the answer of the licensing service.
BeginTransfer ==
    /\ certificate /\ ~transfer /\ MayTransfer
    /\ transfer' = TRUE
    /\ disturbed' = (disturbed \/ \E o \in Op : Alive(o) /\ (~Readable \/ ~op[o].recorded))
    /\ UNCHANGED <<module, certificate, op>>

EndTransfer ==
    /\ transfer
    /\ transfer' = FALSE
    /\ certificate' \in {certificate, FALSE}
    /\ UNCHANGED <<module, op, disturbed>>

\* The cockpit is restarted, its processes with it, or the host is.
Restart ==
    /\ \E o \in Op : op[o].state # "idle"
    /\ op' = [o \in Op |-> Idle]
    /\ transfer' = FALSE
    /\ disturbed' = (disturbed \/ \E o \in Op : Alive(o))
    /\ UNCHANGED <<module, certificate>>

-----------------------------------------------------------------------------
Next ==
    \/ \E o \in Op :
          \/ \E a \in Action : Check(o, a)
          \/ Spawn(o) \/ Record(o)
          \/ \E v \in Version : Fetch(o, v)
          \/ Verify(o)
          \/ Place(o) \/ OpenManifest(o) \/ CopyManifest(o) \/ ReadPrevious(o) \/ Switch(o)
          \/ ReadCurrent(o)
          \/ Ensure(o) \/ Revoke(o)
          \/ \E hook \in {"install.py", "activate.py", "deactivate.py", "uninstall.py"} :
                Hook(o, hook)
          \/ Unlink(o) \/ Relink(o) \/ WriteState(o)
          \/ Fail(o)
    \/ ActivateLicense \/ BeginTransfer \/ EndTransfer
    \/ Restart

Spec == Init /\ [][Next]_vars

-----------------------------------------------------------------------------
(* Properties *)

\* The link names a release that was completed, whatever overlaps, fails or is
\* killed: a directory that never got its manifest is not run.  ("torn" is the
\* exception the code makes: it writes the manifest of an existing directory
\* again, and when that is cut short the manifest is gone.)
CurrentWasComplete == current # None => release[current] \in {"torn", "complete"}

AtRest == \A o \in Op : ~Alive(o)

\* When no operation runs, and none overlapped another, was killed, failed in its
\* rollback or while it wrote the manifest again or the file, the file tells the
\* truth: it names the linked release, a disabled module is off and has no
\* credential, a removed one has no link and no credential.  (Two failures are
\* left out as well, since the code leaves a credential behind: an update that
\* gave the module its first scopes, and an enable after ensuring one.)
FileIsTrue ==
    AtRest /\ ~disturbed =>
        /\ current # None => file.version = current
        /\ current \in Deactivates /\ file.status = "disabled" => ~granted /\ ~running
        /\ file.status = "removed" => current = None /\ ~granted

\* Under the same conditions an active premium module has its certificate: the
\* licence moves to another installation only from a module that is off, and
\* no update or rollback brings a module back without one.
ActiveIsLicensed ==
    AtRest /\ ~disturbed =>
        (current \in Premium /\ file.status = "active" => certificate)
=============================================================================
