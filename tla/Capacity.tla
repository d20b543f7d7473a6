------------------------------ MODULE Capacity ------------------------------
(***************************************************************************)
(* Admission of container memory: the limits of running containers and the *)
(* bookings of operations that are about to start some, against the host's *)
(* budget.  Up, Down, creation and PHP switch hold the project lock; the   *)
(* PHP settings of a site and its group do not.                            *)
(*                                                                         *)
(* A booking looks at the running containers first and at the other        *)
(* bookings later, under the lock of capacity.py; a booking is given back  *)
(* under the same lock.                                                    *)
(***************************************************************************)
EXTENDS Naturals, FiniteSets, FiniteSetsExt

CONSTANTS
    Site, Op,
    Budget,  \* memory of the host less the system's reserve
    Size,    \* limits of a PHP container
    Rest,    \* the limits of a site's other containers together
    None     \* no operation

ASSUME SizeAssumption ==
    /\ Budget \in Nat /\ Rest \in Nat \ {0}
    /\ Size \subseteq Nat \ {0} /\ Size # {}
    /\ IsFiniteSet(Size) /\ IsFiniteSet(Site) /\ IsFiniteSet(Op)
    /\ None \notin Op

VARIABLES
    size,     \* SPAWNWP_PHP_CONTAINER_MEMORY in each site's .env, 0 without a site
    php,      \* limit of the running PHP container, 0 when there is none
    rest,     \* the same of the other containers
    booked,   \* _reservations
    looking,  \* who holds the lock of capacity.py
    enforced, \* the admission policy
    op,       \* operations
    exempt    \* history: containers grew without a booking for it

capacityVars == <<size, php, rest, booked, looking, enforced, op, exempt>>

Locked == {"up", "down", "create", "switch", "expiry"}
Kind == Locked \cup {"resize", "group"}
Idle == [kind |-> "up", site |-> None, step |-> "idle", want |-> 0, config |-> 0,
         total |-> 0, own |-> 0, base |-> 0, asked |-> 0]

Operation ==
    [kind : Kind, site : Site \cup {None},
     step : {"idle", "look", "book", "build", "write", "compose", "rest", "php", "down",
             "read", "back", "end", "lost"},
     want : Size \cup {0}, config : Size \cup {0}, total : Nat, own : Nat,
     base : Size \cup {0}, asked : Size \cup {0}]

CapacityTypeOK ==
    /\ size \in [Site -> Size \cup {0}]
    /\ php \in [Site -> Size \cup {0}]
    /\ rest \in [Site -> {0, Rest}]
    /\ booked \in [Op -> 0 .. Rest + Max(Size)]
    /\ looking \in Op \cup {None}
    /\ {enforced, exempt} \subseteq BOOLEAN
    /\ op \in [Op -> Operation]
    /\ \A o \in Op : /\ op[o].step = "book" => looking = o
                     /\ op[o].step = "idle" => booked[o] = 0

CapacityInit ==
    /\ size \in [Site -> Size \cup {0}]
    /\ php = [s \in Site |-> 0]
    /\ rest = [s \in Site |-> 0]
    /\ booked = [o \in Op |-> 0]
    /\ looking = None
    /\ enforced \in BOOLEAN
    /\ op = [o \in Op |-> Idle]
    /\ exempt = FALSE

At(o, step) == op[o].step = step
Set(o, new) == op' = [op EXCEPT ![o] = new]
To(o, step) == Set(o, [op[o] EXCEPT !.step = step])

Total(f) == MapThenSumSet(LAMBDA x : f[x], DOMAIN f)
Running == Total(php) + Total(rest)

-----------------------------------------------------------------------------
(* Requests *)

\* The project lock: an operation that was cut off before its command started
\* has left its lease behind as well.
ProjectLockFree == \A o \in Op : op[o].step # "idle" => op[o].kind \notin Locked

Busy == \E o \in Op : At(o, "build")

First(kind) ==
    CASE kind \in {"up", "create", "resize"} -> "look"
      [] kind = "down" -> "down" [] OTHER -> "read"

\* Changes of the .env alone do not ask whether the host builds an image.  A switch
\* here is one of a site that is Up; of one that is Down it writes the .env alone,
\* as a change of the deadline does.
Begin(o, kind, s, z) ==
    /\ At(o, "idle")
    /\ kind \in Locked => ProjectLockFree
    /\ kind \notin {"expiry", "group"} => ~Busy
    /\ (kind = "create") = (size[s] = 0)
    /\ z \in IF kind \in {"create", "resize"} THEN Size ELSE {0}
    /\ kind = "switch" => php[s] # 0
    /\ Set(o, [Idle EXCEPT !.kind = kind, !.site = s, !.step = First(kind), !.want = z])
    /\ UNCHANGED <<size, php, rest, booked, looking, enforced, exempt>>

-----------------------------------------------------------------------------
(* Admission *)

\* docker ps and docker inspect.
Look(o) ==
    LET s == op[o].site IN
    /\ At(o, "look") /\ looking = None
    /\ looking' = o
    /\ Set(o, [op[o] EXCEPT !.step = "book", !.total = Running, !.base = php[s],
                  !.own = IF op[o].kind = "resize" THEN php[s] ELSE php[s] + rest[s]])
    /\ UNCHANGED <<size, php, rest, booked, enforced, exempt>>

Less(a, b) == IF a > b THEN a - b ELSE 0

\* A start resolves the site's configuration now.  A site that is Down needs
\* nothing for its settings.
Desired(o) ==
    CASE op[o].kind = "up" -> size[op[o].site] + Rest
      [] op[o].kind = "create" -> op[o].want + Rest
      [] OTHER -> IF op[o].own = 0 THEN 0 ELSE op[o].want
Requested(o) == Less(Desired(o), op[o].own)

\* Mutant: bookings of others are not counted.
LimitsOnly(o) == Less(Budget, op[o].total)
Available(o) == Less(Budget, op[o].total + Total(booked))

Admitted(o) == Requested(o) = 0 \/ Requested(o) <= Available(o)

AfterBooking(o) ==
    IF op[o].kind \in {"create", "resize"} THEN "write" ELSE "compose"

Book(o) ==
    /\ At(o, "book")
    /\ Admitted(o) \/ ~enforced
    /\ booked' = [booked EXCEPT ![o] = Requested(o)]
    /\ looking' = None
    /\ Set(o, [op[o] EXCEPT !.step = AfterBooking(o), !.total = 0, !.own = 0,
                  !.asked = CASE op[o].kind = "up" -> size[op[o].site]
                              [] op[o].kind = "resize" /\ op[o].own = 0 -> 0
                              [] OTHER -> op[o].want])
    /\ exempt' = (exempt \/ ~Admitted(o))
    /\ UNCHANGED <<size, php, rest, enforced>>

\* Does not fit, or docker could not be asked.
Refuse(o) ==
    /\ At(o, "book")
    /\ looking' = None
    /\ Set(o, Idle)
    /\ UNCHANGED <<size, php, rest, booked, enforced, exempt>>

-----------------------------------------------------------------------------
(* Commands *)

WriteSize(o) ==
    LET s == op[o].site IN
    /\ At(o, "write")
    /\ (op[o].kind = "create") = (size[s] = 0)
    /\ size' = [size EXCEPT ![s] = op[o].want]
    /\ To(o, CASE op[o].kind = "create" -> "build" [] php[s] = 0 -> "end" [] OTHER -> "compose")
    /\ UNCHANGED <<php, rest, booked, looking, enforced, exempt>>

\* new-project.sh makes the directory first and then the image.
Build(o) ==
    /\ At(o, "build")
    /\ To(o, "compose")
    /\ UNCHANGED <<size, php, rest, booked, looking, enforced, exempt>>

\* Compose reads the .env.
ReadConfig(o) ==
    LET s == op[o].site IN
    /\ At(o, "compose") /\ size[s] # 0
    /\ Set(o, [op[o] EXCEPT !.config = size[s],
                  !.step = IF op[o].kind \in {"up", "create"} THEN "rest" ELSE "php"])
    /\ UNCHANGED <<size, php, rest, booked, looking, enforced, exempt>>

StartRest(o) ==
    /\ At(o, "rest")
    /\ rest' = [rest EXCEPT ![op[o].site] = Rest]
    /\ To(o, "php")
    /\ UNCHANGED <<size, php, booked, looking, enforced, exempt>>

\* More growth than the operation has asked for; a switch asks for none, what a
\* handler that timed out had asked for is given back, and new settings ask for
\* a container that runs, not for one that a Down has stopped meanwhile.
Unasked(o) ==
    \/ Less(op[o].config, php[op[o].site]) > Less(op[o].asked, op[o].base)
    \/ op[o].kind = "resize" /\ php[op[o].site] = 0

StartPhp(o) ==
    /\ At(o, "php")
    /\ php' = [php EXCEPT ![op[o].site] = op[o].config]
    /\ To(o, "end")
    /\ exempt' = (exempt \/ Unasked(o))
    /\ UNCHANGED <<size, rest, booked, looking, enforced>>

StopAll(o) ==
    /\ At(o, "down")
    /\ php' = [php EXCEPT ![op[o].site] = 0]
    /\ rest' = [rest EXCEPT ![op[o].site] = 0]
    /\ To(o, "end")
    /\ UNCHANGED <<size, booked, looking, enforced, exempt>>

\* Group, deadline and version are written with the rest of the file as it was read,
\* and what a switch has read it may have to write once more.
ReadEnv(o) ==
    LET s == op[o].site IN
    /\ At(o, "read") /\ size[s] # 0
    /\ Set(o, [op[o] EXCEPT !.step = "back", !.config = size[s],
                  !.want = IF op[o].kind = "switch" THEN size[s] ELSE 0])
    /\ UNCHANGED <<size, php, rest, booked, looking, enforced, exempt>>

WriteEnv(o) ==
    /\ At(o, "back")
    /\ size' = [size EXCEPT ![op[o].site] = op[o].config]
    /\ To(o, IF op[o].kind = "switch" THEN "compose" ELSE "end")
    /\ UNCHANGED <<php, rest, booked, looking, enforced, exempt>>

\* A switch that fails after its start: the old .env, and PHP once more.
UndoSwitch(o) ==
    /\ op[o].kind = "switch" /\ op[o].step \in {"compose", "php", "end"} /\ op[o].want # 0
    /\ size' = [size EXCEPT ![op[o].site] = op[o].want]
    /\ Set(o, [op[o] EXCEPT !.step = "compose", !.want = 0])
    /\ UNCHANGED <<php, rest, booked, looking, enforced, exempt>>

\* Mutant: the booking outlives the command.
KeepBooking(o) == looking = None /\ booked' = [booked EXCEPT ![o] = @]
Release(o) == looking = None /\ booked' = [booked EXCEPT ![o] = 0]

\* The command has ended, well or at any of its steps.
EndCommand(o) ==
    /\ op[o].step \in {"build", "write", "compose", "rest", "php", "down", "read", "back", "end"}
    /\ op[o].kind = "create" => At(o, "end")
    /\ Release(o)
    /\ Set(o, Idle)
    /\ UNCHANGED <<size, php, rest, looking, enforced, exempt>>

\* A creation that fails takes everything away that it made.
RollBack(o) ==
    LET s == op[o].site IN
    /\ op[o].kind = "create" /\ op[o].step \in {"build", "write", "compose", "rest", "php"}
    /\ size' = [size EXCEPT ![s] = IF At(o, "write") THEN @ ELSE 0]
    /\ php' = [php EXCEPT ![s] = 0]
    /\ rest' = [rest EXCEPT ![s] = 0]
    /\ Release(o)
    /\ Set(o, Idle)
    /\ UNCHANGED <<looking, enforced, exempt>>

\* The browser is gone before the command of an Up or a creation has started:
\* nobody gives the booking back.
Lose(o) ==
    /\ \/ op[o].kind = "up" /\ At(o, "compose")
       \/ op[o].kind = "create" /\ At(o, "write")
    /\ To(o, "lost")
    /\ UNCHANGED <<size, php, rest, booked, looking, enforced, exempt>>

\* After two minutes the handler ends bash and gives the booking back; compose
\* goes on.
TimeOut(o) ==
    /\ op[o].kind = "resize" /\ At(o, "php") /\ op[o].want # 0
    /\ Release(o)
    /\ Set(o, [op[o] EXCEPT !.want = 0, !.asked = 0, !.base = 0])
    /\ UNCHANGED <<size, php, rest, looking, enforced, exempt>>

SetPolicy ==
    /\ enforced' = ~enforced
    /\ UNCHANGED <<size, php, rest, booked, looking, op, exempt>>

\* The cockpit and its commands stop; containers stay as they are.
CockpitRestart ==
    /\ \E o \in Op : ~At(o, "idle")
    /\ op' = [o \in Op |-> Idle]
    /\ booked' = [o \in Op |-> 0]
    /\ looking' = None
    /\ UNCHANGED <<size, php, rest, enforced, exempt>>

-----------------------------------------------------------------------------
CapacityNext ==
    \/ \E o \in Op :
          \/ \E kind \in Kind, s \in Site, z \in Size \cup {0} : Begin(o, kind, s, z)
          \/ Look(o) \/ Book(o) \/ Refuse(o)
          \/ Build(o) \/ WriteSize(o) \/ ReadConfig(o) \/ StartRest(o) \/ StartPhp(o)
          \/ StopAll(o) \/ ReadEnv(o) \/ WriteEnv(o) \/ UndoSwitch(o)
          \/ EndCommand(o) \/ RollBack(o) \/ Lose(o) \/ TimeOut(o)
    \/ SetPolicy \/ CockpitRestart

CapacitySpec == CapacityInit /\ [][CapacityNext]_capacityVars

-----------------------------------------------------------------------------
(* Properties *)

\* Under the policy "enforce" the limits of the running containers never exceed
\* the budget, however starts, creations, resizes and restarts overlap, unless a
\* container grew that nobody had asked about: the .env was written behind a
\* booking, or a switch or a timed-out resize recreated it.
RunningWithinBudget == ~exempt => Running <= Budget
=============================================================================
