------------------------- MODULE ModuleManager_proof ------------------------
(***************************************************************************)
(* Proofs about ModuleManager, for every number of operations and every    *)
(* set of releases, whatever their manifests declare; and, in the last     *)
(* part, about Connections.                                                *)
(*                                                                         *)
(* A command carries the list of its steps.  All a proof needs of a list   *)
(* is the set of its steps and that they come in the order of Rank: Pop    *)
(* takes the least of the set, Join puts two lists together, and Shape     *)
(* names the sets a command can be left with.                              *)
(*                                                                         *)
(* Kept says that what the link and the commands name was unpacked; it     *)
(* holds whatever happens.  Sound holds as long as nothing the model       *)
(* excludes (disturbed) has happened: one command at a time, and for each  *)
(* phase of it what it still owes the file, the credential, the            *)
(* integration and the licence.                                            *)
(***************************************************************************)
EXTENDS ModuleManager, Connections, SequenceTheorems, TLAPS

\* What the manifests of the releases say is about releases.
Releases ==
    /\ None \notin Version
    /\ \A S \in {Compatible, Scoped, Premium, Activates, Deactivates} : S \subseteq Version

\* The steps of each phase of a command.
Places == {"place", "open", "manifest", "previous", "switch"}
Applies == {"ensure", "install.py", "activate.py", "deactivate.py", "revoke", "write"}
Undoes == {"forget", "unlink", "relink", "ensure", "install.py", "activate.py",
            "deactivate.py", "revoke"}
Enables == {"ensure", "activate.py", "write"}
Disables == {"deactivate.py", "revoke", "write"}
Removes == {"deactivate.py", "uninstall.py", "revoke", "unlink", "write"}

\* The order in which a command takes its steps; uninstall has its unlink late.
Rank(a, s) ==
    IF s = "fetch" THEN 1 ELSE IF s = "verify" THEN 2 ELSE IF s = "read" THEN 3
    ELSE IF s = "place" THEN 4 ELSE IF s = "open" THEN 5 ELSE IF s = "manifest" THEN 6
    ELSE IF s = "previous" THEN 7 ELSE IF s = "switch" THEN 8 ELSE IF s = "forget" THEN 9
    ELSE IF s = "unlink" THEN (IF a = "uninstall" THEN 18 ELSE 10)
    ELSE IF s = "relink" THEN 11 ELSE IF s = "ensure" THEN 12 ELSE IF s = "install.py" THEN 13
    ELSE IF s = "activate.py" THEN 14 ELSE IF s = "deactivate.py" THEN 15
    ELSE IF s = "uninstall.py" THEN 16 ELSE IF s = "revoke" THEN 17
    ELSE IF s = "write" THEN 19 ELSE 20

\* The steps of a list, and those an operation has left.
Steps(t) == {t[i] : i \in 1 .. Len(t)}
Sorted(a, t) == \A i, j \in 1 .. Len(t) : i < j => Rank(a, t[i]) < Rank(a, t[j])
Left(o) == Steps(op[o].todo)

\* What an operation is doing.
IsPlacing(o) == op[o].action \in Installs /\ "switch" \in Left(o)
IsApplying(o) == op[o].action \in Installs /\ "write" \in Left(o)
IsUndoing(o) == op[o].back
IsEnabling(o) == op[o].action = "enable" /\ Left(o) # {"read"}
IsDisabling(o) == op[o].action = "disable" /\ Left(o) # {"read"}
IsRemoving(o) == op[o].action = "uninstall" /\ Left(o) # {"read"}

\* The lists a command can be left with.
ShapeAt(o) ==
    LET me == op[o]  l == Left(o) IN
    /\ Sorted(me.action, me.todo)
    /\ me.back => me.action \in Installs
    /\ me.action \in Installs =>
          \/ ~me.back /\ l = {"fetch"}
          \/ ~me.back /\ me.version \in Version /\ l = {"verify"}
          \/ ~me.back /\ me.version \in Version /\ "switch" \in l /\ l \subseteq Places
          \/ ~me.back /\ me.version \in Version /\ "write" \in l /\ l \subseteq Applies
          \/ me.back /\ l \subseteq Undoes
    /\ me.action = "enable" => \/ l = {"read"}
                               \/ "write" \in l /\ l \subseteq Enables
                               \/ "error" \in l /\ l \subseteq {"forget", "error"}
    /\ me.action = "disable" => \/ l = {"read"}
                                \/ "write" \in l /\ l \subseteq Disables
                                \/ l = {"error"}
    /\ me.action = "uninstall" => l = {"read"} \/ ("write" \in l /\ l \subseteq Removes)

Shape ==
    \A o \in Op : IF Alive(o) THEN ShapeAt(o) ELSE ~op[o].back /\ op[o].previous = None

\* A release whose module.json was written once; no step takes one away.
Begun(v) == release[v] \in {"torn", "complete"}
KeptAt(o) ==
    /\ op[o].previous # None => Begun(op[o].previous)
    /\ IsPlacing(o) /\ "manifest" \notin Left(o) => Begun(op[o].version)
Kept == CurrentWasComplete /\ \A o \in Op : Alive(o) => KeptAt(o)

\* One command at a time, and none while a licence is transferred.
Alone == \A o \in Op : Alive(o) => ~transfer /\ \A p \in Op : Alive(p) => p = o
\* No release waits to be written again but the one a command is at.
TornByOne ==
    \A v \in Version : release[v] = "torn" =>
        \E o \in Op : At(o, "manifest") /\ op[o].version = v

\* What the file says of the module is true.
Off(v, status) == v \in Deactivates /\ status = "disabled" => ~granted /\ ~running
Licensed == current \in Premium /\ file.status = "active" => certificate
ScopedOnly == granted => current \in Scoped
Named == current # None => file.version = current
Gone == file.status = "removed" => current = None
Truth == Named /\ Gone /\ Licensed /\ ScopedOnly /\ Off(current, file.status)

\* The steps l take a module with release v off, and give it no credential it
\* declares no scope for.
GoesOff(v, status, l) ==
    v \in Deactivates /\ status = "disabled" =>
        /\ "activate.py" \notin l
        /\ "deactivate.py" \in l \/ (~running /\ "install.py" \notin l)
        /\ "revoke" \in l \/ (~granted /\ "ensure" \notin l)
GrantsOnly(v, l) == (granted \/ "ensure" \in l) => v \in Scoped

\* What the file says of the release p that v replaces.
Prior(p, v, status) ==
    /\ p = None => status = "active"
    /\ p # None => /\ file.version = p /\ release[p] = "complete"
                   /\ status = file.status /\ file.status # "removed"
    /\ p \in Premium /\ file.status = "active" => certificate
    /\ p \in Scoped => v \in Scoped

\* Where a command that installs v over p is: before the link moves, after it, and
\* on the way back.
Placed(p, v, status, l) ==
    /\ Entitled(v)
    /\ "manifest" \notin l => l \subseteq {"previous", "switch"}
    /\ "previous" \notin l => l = {"switch"} /\ p = current /\ Prior(p, v, status)

Applied(p, v, status, l) ==
    /\ current = v /\ release[v] = "complete" /\ Entitled(v)
    /\ Prior(p, v, status) /\ GrantsOnly(v, l) /\ GoesOff(v, status, l)

Undone(p, v, status, l) ==
    /\ p = None =>
          /\ l \subseteq {"forget", "unlink"}
          /\ "forget" \in l \/ ~granted
          /\ "unlink" \in l \/ current = None
    /\ p # None =>
          /\ Prior(p, v, status) /\ GrantsOnly(p, l) /\ GoesOff(p, status, l)
          /\ "forget" \notin l
          /\ "unlink" \in l => "relink" \in l
          /\ "relink" \notin l => current = p

\* The same for enable, disable and uninstall.
Enabled(v, status, l) ==
    /\ current # None /\ Named /\ Gone /\ Licensed /\ ScopedOnly
    /\ "write" \in l => v = current /\ status = "active" /\ Entitled(current)
    /\ "ensure" \in l => Off(current, file.status) /\ current \in Scoped

Disabled(v, status, l) ==
    "write" \in l =>
        /\ v = current /\ current \in Deactivates /\ status = "disabled"
        /\ "deactivate.py" \in l \/ ~running
        /\ "revoke" \in l \/ ~granted

Removed(status, l) ==
    /\ status = "removed"
    /\ IF "unlink" \in l THEN "revoke" \in l \/ ~granted ELSE current = None

SoundAt(o) ==
    LET v == op[o].version  p == op[o].previous  status == op[o].status  l == Left(o) IN
    /\ ~IsApplying(o) /\ ~IsUndoing(o) /\ ~IsEnabling(o) => Truth
    /\ IsPlacing(o) => Placed(p, v, status, l)
    /\ IsApplying(o) => Applied(p, v, status, l)
    /\ IsUndoing(o) => Undone(p, v, status, l)
    /\ IsEnabling(o) => Enabled(v, status, l)
    /\ IsDisabling(o) => Disabled(v, status, l)
    /\ IsRemoving(o) => Removed(status, l)

\* A licence that is being transferred is not in use.
Released == transfer => ~(current \in Premium /\ file.status = "active")

Sound ==
    ~disturbed => /\ Alone /\ TornByOne /\ Released
                  /\ \A o \in Op : Alive(o) => SoundAt(o)
                  /\ AtRest => Truth

\* Types.
OpRow == [state : {"idle", "checked", "alive"}, recorded : BOOLEAN,
          action : Action, version : Version \cup {None},
          previous : Version \cup {None}, status : Status, back : BOOLEAN,
          todo : Seq(Step)]
OpsOk ==
    /\ op \in [Op -> OpRow]
    /\ \A o \in Op : Alive(o) <=> op[o].todo # <<>>
ModuleOk ==
    /\ release \in [Version -> {"absent", "bare", "torn", "complete"}]
    /\ current \in Version \cup {None}
    /\ file \in [status : Status, version : Version \cup {None}]
    /\ granted \in BOOLEAN /\ running \in BOOLEAN /\ certificate \in BOOLEAN
    /\ transfer \in BOOLEAN /\ disturbed \in BOOLEAN
Typed == ModuleOk /\ OpsOk

IInv == Typed /\ Shape /\ Kept /\ Sound

-----------------------------------------------------------------------------
(* Lists of steps *)

\* A list with these steps, in the order of their ranks.
Program(a, t, S) == t \in Seq(Step) /\ Steps(t) = S /\ Sorted(a, t)

\* The empty list.
LEMMA Nothing == ASSUME NEW a PROVE Program(a, <<>>, {})
<1>1. <<>> \in Seq(Step) /\ Len(<<>>) = 0
  BY EmptySeq
<1> QED BY <1>1 DEF Program, Steps, Sorted

\* A list of one step.
LEMMA OneStep == ASSUME NEW a, NEW s \in Step PROVE Program(a, <<s>>, {s})
<1>1. <<s>> \in Seq(Step) /\ Len(<<s>>) = 1 /\ <<s>>[1] = s
  OBVIOUS
<1> QED BY <1>1 DEF Program, Steps, Sorted

\* A list followed by one of higher ranks.
LEMMA Join ==
    ASSUME NEW a, NEW s, NEW S, NEW t, NEW T, Program(a, s, S), Program(a, t, T),
           \A x \in S, y \in T : Rank(a, x) < Rank(a, y)
    PROVE  Program(a, s \o t, S \cup T)
<1> DEFINE m == Len(s)  n == Len(t)  u == s \o t
<1>1. m \in Nat /\ n \in Nat
  BY LenProperties DEF Program
<1>2. /\ u \in Seq(Step) /\ Len(u) = m + n
      /\ \A i \in 1 .. m + n : u[i] = IF i <= m THEN s[i] ELSE t[i - m]
  BY ConcatProperties DEF Program
<1> HIDE DEF u, m, n
<1>3. \A i \in 1 .. m : i \in 1 .. m + n /\ u[i] = s[i] /\ s[i] \in S
  BY <1>1, <1>2 DEF Program, Steps, m
<1>4. \A i \in 1 .. n : m + i \in 1 .. m + n /\ u[m + i] = t[i] /\ t[i] \in T
  BY <1>1, <1>2 DEF Program, Steps, n
<1>5. \A i \in 1 .. m + n : \/ i \in 1 .. m /\ u[i] = s[i] /\ u[i] \in S
                            \/ i - m \in 1 .. n /\ u[i] = t[i - m] /\ u[i] \in T
  BY <1>1, <1>2 DEF Program, Steps, m, n
<1>6. Steps(u) = S \cup T
  <2>1. Steps(u) \subseteq S \cup T
    BY <1>2, <1>5 DEF Steps
  <2>2. S \subseteq Steps(u)
    <3> SUFFICES ASSUME NEW i \in 1 .. m PROVE s[i] \in Steps(u)
      BY DEF Program, Steps, m
    <3> QED BY <1>2, <1>3 DEF Steps
  <2>3. T \subseteq Steps(u)
    <3> SUFFICES ASSUME NEW i \in 1 .. n PROVE t[i] \in Steps(u)
      BY DEF Program, Steps, n
    <3> QED BY <1>2, <1>4 DEF Steps
  <2> QED BY <2>1, <2>2, <2>3
<1>7. Sorted(a, u)
  <2> SUFFICES ASSUME NEW i \in 1 .. m + n, NEW j \in 1 .. m + n, i < j
               PROVE  Rank(a, u[i]) < Rank(a, u[j])
    BY <1>2 DEF Sorted
  <2>1. CASE j \in 1 .. m
    <3>1. i \in 1 .. m
      BY <2>1, <1>1
    <3> QED BY <2>1, <3>1, <1>3 DEF Program, Sorted, m
  <2>2. CASE i - m \in 1 .. n
    <3>1. j - m \in 1 .. n /\ i - m < j - m
      BY <2>2, <1>1
    <3>2. ~(i <= m) /\ ~(j <= m)
      BY <2>2, <3>1, <1>1
    <3>3. u[i] = t[i - m]
      BY <3>2, <1>2
    <3>4. u[j] = t[j - m]
      BY <3>2, <1>2
    <3> QED BY <2>2, <3>1, <3>3, <3>4 DEF Program, Sorted, n
  <2>3. CASE i \in 1 .. m /\ j - m \in 1 .. n
    <3>1. u[i] \in S /\ u[j] \in T
      <4>1. u[j] = t[j - m] /\ t[j - m] \in T
        BY <2>3, <1>1, <1>2, <1>4
      <4> QED BY <2>3, <1>3, <4>1
    <3> QED BY <3>1
  <2> QED BY <2>1, <2>2, <2>3, <1>1, <1>5
<1> QED BY <1>2, <1>6, <1>7 DEF Program, u

\* A list with its first step taken.
LEMMA Pop ==
    ASSUME NEW a, NEW t, NEW S, Program(a, t, S), t # <<>>
    PROVE  /\ Head(t) \in S
           /\ Program(a, Tail(t), S \ {Head(t)})
           /\ \A x \in S \ {Head(t)} : Rank(a, Head(t)) < Rank(a, x)
<1> DEFINE u == Tail(t)
<1>1. /\ Len(t) \in Nat \ {0} /\ u \in Seq(Step) /\ Len(u) = Len(t) - 1
      /\ \A i \in 1 .. Len(u) : u[i] = t[i + 1]
      /\ Head(t) = t[1]
  BY HeadTailProperties, EmptySeq, LenProperties DEF Program
<1> HIDE DEF u
<1>2. \A i \in 2 .. Len(t) : Rank(a, t[1]) < Rank(a, t[i])
  BY <1>1 DEF Program, Sorted
<1>3. \A s : ~(Rank(a, s) < Rank(a, s))
  BY DEF Rank
<1>4. Head(t) \in S
  BY <1>1 DEF Program, Steps
<1>5. Steps(u) = S \ {Head(t)}
  <2>1. \A i \in 1 .. Len(u) : i + 1 \in 2 .. Len(t) /\ u[i] = t[i + 1]
    BY <1>1
  <2>2. \A i \in 2 .. Len(t) : i - 1 \in 1 .. Len(u) /\ u[i - 1] = t[i]
    BY <1>1
  <2>3. Steps(u) = {t[i] : i \in 2 .. Len(t)}
    <3>1. Steps(u) \subseteq {t[i] : i \in 2 .. Len(t)}
      BY <2>1 DEF Steps
    <3>2. {t[i] : i \in 2 .. Len(t)} \subseteq Steps(u)
      BY <2>2 DEF Steps
    <3> QED BY <3>1, <3>2
  <2>4. S = {t[1]} \cup {t[i] : i \in 2 .. Len(t)}
    <3>1. \A i \in 1 .. Len(t) : i = 1 \/ i \in 2 .. Len(t)
      BY <1>1
    <3>2. 1 \in 1 .. Len(t) /\ \A i \in 2 .. Len(t) : i \in 1 .. Len(t)
      BY <1>1
    <3> QED BY <3>1, <3>2 DEF Program, Steps
  <2>5. t[1] \notin {t[i] : i \in 2 .. Len(t)}
    BY <1>2, <1>3
  <2> QED BY <2>3, <2>4, <2>5, <1>1
<1>6. Sorted(a, u)
  <2> SUFFICES ASSUME NEW i \in 1 .. Len(u), NEW j \in 1 .. Len(u), i < j
               PROVE  Rank(a, u[i]) < Rank(a, u[j])
    BY DEF Sorted
  <2>1. i + 1 \in 1 .. Len(t) /\ j + 1 \in 1 .. Len(t) /\ i + 1 < j + 1
    BY <1>1
  <2> QED BY <1>1, <2>1 DEF Program, Sorted
<1>7. \A x \in S \ {Head(t)} : Rank(a, Head(t)) < Rank(a, x)
  <2> SUFFICES ASSUME NEW i \in 1 .. Len(t), t[i] # t[1]
               PROVE  Rank(a, t[1]) < Rank(a, t[i])
    BY <1>1 DEF Program, Steps
  <2>1. i \in 2 .. Len(t)
    BY <1>1
  <2> QED BY <1>2, <2>1
<1> QED BY <1>1, <1>4, <1>5, <1>6, <1>7 DEF Program, u

\* A list with no step in it is empty.
LEMMA EmptyProgram ==
    ASSUME NEW a, NEW t, NEW S, Program(a, t, S)
    PROVE  t = <<>> <=> S = {}
<1>1. CASE t = <<>>
  BY <1>1, EmptySeq DEF Program, Steps
<1>2. CASE t # <<>>
  BY <1>2, Pop
<1> QED BY <1>1, <1>2

-----------------------------------------------------------------------------
(* What the commands are made of *)

\* The steps that put a verified release in place.
LEMMA InstallProgram ==
    ASSUME NEW a, NEW v
    PROVE  \E S : /\ Program(a, InstallSteps(v), S)
                  /\ S \subseteq Places /\ {"manifest", "previous", "switch"} \subseteq S
<1> DEFINE t == <<"open", "manifest", "previous", "switch">>
           T == {"open", "manifest", "previous", "switch"}
<1>1. Program(a, t, T)
  <2>1. Program(a, <<"open">>, {"open"}) /\ Program(a, <<"manifest">>, {"manifest"})
        /\ Program(a, <<"previous">>, {"previous"}) /\ Program(a, <<"switch">>, {"switch"})
    BY OneStep DEF Step
  <2>2. t \in Seq(Step) /\ Len(t) = 4 /\ t[1] = "open" /\ t[2] = "manifest"
        /\ t[3] = "previous" /\ t[4] = "switch"
    BY DEF Step
  <2>3. \A i \in 1 .. 4 : i = 1 \/ i = 2 \/ i = 3 \/ i = 4
    OBVIOUS
  <2>4. Steps(t) = T
    BY <2>2, <2>3 DEF Steps
  <2>5. Sorted(a, t)
    BY <2>2, <2>3 DEF Sorted, Rank
  <2> QED BY <2>2, <2>4, <2>5 DEF Program
<1> HIDE DEF t
<1>2. Program(a, <<"place">>, {"place"})
  BY OneStep DEF Step
<1>3. Program(a, Only(release[v] = "absent", <<"place">>),
                 IF release[v] = "absent" THEN {"place"} ELSE {})
  BY <1>2, Nothing DEF Only
<1>4. Program(a, Only(release[v] = "absent", <<"place">>) \o t,
                 (IF release[v] = "absent" THEN {"place"} ELSE {}) \cup T)
  BY <1>1, <1>3, Join DEF Rank
<1>5. Program(a, InstallSteps(v), (IF release[v] = "absent" THEN {"place"} ELSE {}) \cup T)
  BY <1>4 DEF InstallSteps, t
<1> QED BY <1>5 DEF Places

\* What an update to this release does once the link has moved, and what brings a
\* release back.
LEMMA ApplyProgram ==
    ASSUME NEW a, NEW v, NEW off \in BOOLEAN
    PROVE  \E S : /\ Program(a, Apply(v, off) \o <<"write">>, S)
                  /\ "write" \in S /\ S \subseteq Applies
                  /\ "ensure" \in S => v \in Scoped
                  /\ off => "activate.py" \notin S
                  /\ off /\ v \in Deactivates => "deactivate.py" \in S
                  /\ off /\ v \in Deactivates /\ v \in Scoped => "revoke" \in S
<1> DEFINE C == IF v \in Scoped THEN {"ensure"} ELSE {}
           R == IF v \in Scoped THEN {"revoke"} ELSE {}
           D == IF off THEN {"deactivate.py"} \cup R ELSE {"activate.py"}
           t == IF off THEN <<"deactivate.py">> \o Credential(v, "revoke") ELSE <<"activate.py">>
           c == v \in Activates \cup Deactivates
           L == IF c THEN D ELSE {}
<1>1. \A s \in Step : Program(a, <<s>>, {s})
  BY OneStep
<1>2. Program(a, Credential(v, "ensure"), C) /\ Program(a, Credential(v, "revoke"), R)
  BY <1>1, Nothing DEF Only, Credential, Step
<1>3. Program(a, t, D)
  <2>1. Program(a, <<"deactivate.py">> \o Credential(v, "revoke"), {"deactivate.py"} \cup R)
    BY <1>1, <1>2, Join DEF Rank, Step
  <2> QED BY <1>1, <2>1 DEF Step
<1> HIDE DEF t
<1>4. Program(a, Only(c, t), L)
  BY <1>3, Nothing DEF Only
<1>5. Program(a, Credential(v, "ensure") \o <<"install.py">>, C \cup {"install.py"})
  BY <1>1, <1>2, Join DEF Rank, Step
<1>6. Program(a, Credential(v, "ensure") \o <<"install.py">> \o Only(c, t),
                 C \cup {"install.py"} \cup L)
  BY <1>4, <1>5, Join DEF Rank
<1>7. Program(a, Credential(v, "ensure") \o <<"install.py">> \o Only(c, t) \o <<"write">>,
                 C \cup {"install.py"} \cup L \cup {"write"})
  BY <1>1, <1>6, Join DEF Rank, Step
<1>8. Program(a, Apply(v, off) \o <<"write">>, C \cup {"install.py"} \cup L \cup {"write"})
  BY <1>7 DEF Apply, t
<1> QED BY <1>8 DEF Applies

\* The steps that undo an install that failed: the link goes, and with a previous
\* release comes back with the credential and the hooks its status asks for.
LEMMA RollbackProgram ==
    ASSUME NEW a, a # "uninstall", NEW v, NEW p, NEW off \in BOOLEAN
    PROVE  \E S : /\ Program(a, Rollback(v, p, off), S)
                  /\ S # {} /\ S \subseteq Undoes /\ "unlink" \in S
                  /\ p = None => /\ S \subseteq {"forget", "unlink"}
                                 /\ v \in Scoped => "forget" \in S
                  /\ p # None =>
                        /\ "relink" \in S /\ "forget" \notin S
                        /\ "ensure" \in S => p \in Scoped
                        /\ off => "activate.py" \notin S /\ "deactivate.py" \in S
                        /\ off /\ Scope(p) => "revoke" \in S
<1> DEFINE F == IF v \in Scoped THEN {"forget"} ELSE {}
           F2 == IF p = None THEN F ELSE {}
           C == IF Scope(p) THEN {"ensure"} ELSE {}
           R == IF Scope(p) THEN {"revoke"} ELSE {}
           A == IF p \in Activates THEN {"activate.py"} ELSE {}
           D == IF off THEN {"deactivate.py"} \cup R ELSE A
           u == IF off THEN <<"deactivate.py">> \o Only(Scope(p), <<"revoke">>)
                ELSE Only(p \in Activates, <<"activate.py">>)
           t == <<"relink">> \o Only(Scope(p), <<"ensure">>) \o <<"install.py">> \o u
           T == {"relink"} \cup C \cup {"install.py"} \cup D
           T2 == IF p # None THEN T ELSE {}
<1>1. \A s \in Step : Program(a, <<s>>, {s})
  BY OneStep
<1>2. /\ Program(a, Credential(v, "forget"), F)
      /\ Program(a, Only(Scope(p), <<"ensure">>), C)
      /\ Program(a, Only(Scope(p), <<"revoke">>), R)
      /\ Program(a, Only(p \in Activates, <<"activate.py">>), A)
  BY <1>1, Nothing DEF Only, Credential, Step, Scope
<1>3. Program(a, u, D)
  <2>1. Program(a, <<"deactivate.py">> \o Only(Scope(p), <<"revoke">>), {"deactivate.py"} \cup R)
    BY <1>1, <1>2, Join DEF Rank, Step
  <2> QED BY <1>2, <2>1
<1> HIDE DEF u
<1>4. Program(a, <<"relink">> \o Only(Scope(p), <<"ensure">>), {"relink"} \cup C)
  BY <1>1, <1>2, Join DEF Rank, Step
<1>5. Program(a, <<"relink">> \o Only(Scope(p), <<"ensure">>) \o <<"install.py">>,
                 {"relink"} \cup C \cup {"install.py"})
  BY <1>1, <1>4, Join DEF Rank, Step
<1>6. Program(a, t, T)
  BY <1>3, <1>5, Join DEF Rank
<1> HIDE DEF t
<1>7. Program(a, Only(p # None, t), T2)
  BY <1>6, Nothing DEF Only
<1>8. Program(a, Only(p = None, Credential(v, "forget")), F2)
  BY <1>2, Nothing DEF Only
<1>9. Program(a, Only(p = None, Credential(v, "forget")) \o <<"unlink">>, F2 \cup {"unlink"})
  BY <1>1, <1>8, Join DEF Rank, Step
<1>10. Program(a, Only(p = None, Credential(v, "forget")) \o <<"unlink">> \o Only(p # None, t),
                  F2 \cup {"unlink"} \cup T2)
  BY <1>7, <1>9, Join DEF Rank
<1>11. Program(a, Rollback(v, p, off), F2 \cup {"unlink"} \cup T2)
  BY <1>10 DEF Rollback, t, u
<1> QED BY <1>11 DEF Undoes, Scope

\* The steps of enable.
LEMMA EnableProgram ==
    ASSUME NEW a, NEW v
    PROVE  \E S : /\ Program(a, EnableSteps(v), S)
                  /\ "write" \in S /\ S \subseteq Enables
                  /\ "ensure" \in S => v \in Scoped
<1> DEFINE C == IF v \in Scoped THEN {"ensure"} ELSE {}
<1>1. \A s \in Step : Program(a, <<s>>, {s})
  BY OneStep
<1>2. Program(a, Credential(v, "ensure"), C)
  BY <1>1, Nothing DEF Only, Credential, Step
<1>3. Program(a, <<"activate.py", "write">>, {"activate.py", "write"})
  <2>1. <<"activate.py", "write">> = <<"activate.py">> \o <<"write">>
    OBVIOUS
  <2>2. Program(a, <<"activate.py">> \o <<"write">>, {"activate.py"} \cup {"write"})
    BY <1>1, Join DEF Rank, Step
  <2> QED BY <2>1, <2>2
<1>4. Program(a, EnableSteps(v), C \cup {"activate.py", "write"})
  BY <1>2, <1>3, Join DEF Rank, EnableSteps
<1> QED BY <1>4 DEF Enables

\* The steps of disable: what the release declares is switched off before the write.
LEMMA DisableProgram ==
    ASSUME NEW a, NEW v
    PROVE  \E S : /\ Program(a, DisableSteps(v), S)
                  /\ {"deactivate.py", "write"} \subseteq S /\ S \subseteq Disables
                  /\ v \in Scoped => "revoke" \in S
<1> DEFINE R == IF v \in Scoped THEN {"revoke"} ELSE {}
<1>1. \A s \in Step : Program(a, <<s>>, {s})
  BY OneStep
<1>2. Program(a, Credential(v, "revoke"), R)
  BY <1>1, Nothing DEF Only, Credential, Step
<1>3. Program(a, <<"deactivate.py">> \o Credential(v, "revoke"), {"deactivate.py"} \cup R)
  BY <1>1, <1>2, Join DEF Rank, Step
<1>4. Program(a, DisableSteps(v), {"deactivate.py"} \cup R \cup {"write"})
  BY <1>1, <1>3, Join DEF Rank, Step, DisableSteps
<1> QED BY <1>4 DEF Disables

\* The steps of uninstall: the credential goes before the link.
LEMMA UninstallProgram ==
    ASSUME NEW v, NEW active \in BOOLEAN
    PROVE  \E S : /\ Program("uninstall", UninstallSteps(v, active), S)
                  /\ {"unlink", "write"} \subseteq S /\ S \subseteq Removes
                  /\ Scope(v) => "revoke" \in S
<1> DEFINE a == "uninstall"
           c == active /\ v \in Deactivates
           D == IF c THEN {"deactivate.py"} ELSE {}
           R == IF Scope(v) THEN {"revoke"} ELSE {}
<1>1. \A s \in Step : Program(a, <<s>>, {s})
  BY OneStep
<1>2. /\ Program(a, Only(c, <<"deactivate.py">>), D)
      /\ Program(a, Only(Scope(v), <<"revoke">>), R)
  BY <1>1, Nothing DEF Only, Step, Scope
<1>3. Program(a, Only(c, <<"deactivate.py">>) \o <<"uninstall.py">>, D \cup {"uninstall.py"})
  BY <1>1, <1>2, Join DEF Rank, Step
<1>4. Program(a,
              Only(c, <<"deactivate.py">>) \o <<"uninstall.py">> \o Only(Scope(v), <<"revoke">>),
                 D \cup {"uninstall.py"} \cup R)
  BY <1>2, <1>3, Join DEF Rank
<1>5. Program(a, <<"unlink", "write">>, {"unlink", "write"})
  <2>1. <<"unlink", "write">> = <<"unlink">> \o <<"write">>
    OBVIOUS
  <2>2. Program(a, <<"unlink">> \o <<"write">>, {"unlink"} \cup {"write"})
    BY <1>1, Join DEF Rank, Step
  <2> QED BY <2>1, <2>2
<1>6. Program(a, UninstallSteps(v, active),
              D \cup {"uninstall.py"} \cup R \cup {"unlink", "write"})
  BY <1>4, <1>5, Join DEF Rank, UninstallSteps
<1> QED BY <1>6 DEF Removes

\* The steps left after activate.py of an enable has failed.
LEMMA ErrorProgram ==
    ASSUME NEW a, NEW v
    PROVE  \E S : /\ Program(a, Credential(v, "forget") \o <<"error">>, S)
                  /\ "error" \in S /\ S \subseteq {"forget", "error"}
<1>1. \A s \in Step : Program(a, <<s>>, {s})
  BY OneStep
<1>2. Program(a, Credential(v, "forget"), IF v \in Scoped THEN {"forget"} ELSE {})
  BY <1>1, Nothing DEF Only, Credential, Step
<1>3. Program(a, Credential(v, "forget") \o <<"error">>,
                 (IF v \in Scoped THEN {"forget"} ELSE {}) \cup {"error"})
  BY <1>1, <1>2, Join DEF Rank, Step
<1> QED BY <1>3

-----------------------------------------------------------------------------
(* How a command goes on *)

\* The command has these steps left, and has ended without any.
\* Of all the commands o alone moves, and has the steps S left.
Continues(o, S) ==
    /\ OpsOk'
    /\ \A p \in Op : p # o => op'[p] = op[p]
    /\ S = {} => op'[o] = Idle
    /\ S # {} => Alive(o)' /\ Left(o)' = S /\ Sorted(op'[o].action, op'[o].todo)

\* What the command is about stays.
SameCommand(o) ==
    /\ op'[o].action = op[o].action /\ op'[o].version = op[o].version
    /\ op'[o].previous = op[o].previous /\ op'[o].status = op[o].status
    /\ op'[o].back = op[o].back

\* The row of no operation.
LEMMA IdleRow ==
    /\ Idle \in OpRow /\ Idle.todo = <<>> /\ Idle.state = "idle"
    /\ ~Idle.back /\ Idle.previous = None
<1>1. <<>> \in Seq(Step)
  BY EmptySeq
<1> QED BY <1>1 DEF Idle, OpRow, Action, Installs, Status

\* Set leaves the command with the steps it is given.
LEMMA SetContinues ==
    ASSUME OpsOk, NEW o \in Op, NEW new \in OpRow, NEW S, new.state = "alive",
           Program(new.action, new.todo, S), Set(o, new)
    PROVE  Continues(o, S) /\ (S # {} => op'[o] = new)
<1>1. new.todo = <<>> <=> S = {}
  BY EmptyProgram
<1>2. op' = [op EXCEPT ![o] = IF S = {} THEN Idle ELSE new]
  BY <1>1 DEF Set
<1>3. /\ op' \in [Op -> OpRow]
      /\ \A p \in Op : p # o => op'[p] = op[p]
      /\ op'[o] = IF S = {} THEN Idle ELSE new
  BY <1>2, IdleRow DEF OpsOk
<1>4. Alive(o)' <=> op'[o].todo # <<>>
  BY <1>1, <1>3, IdleRow DEF Alive
<1>5. \A p \in Op : p # o => (Alive(p)' <=> op'[p].todo # <<>>)
  BY <1>3 DEF OpsOk, Alive
<1>6. OpsOk'
  BY <1>3, <1>4, <1>5 DEF OpsOk
<1> QED BY <1>3, <1>6 DEF Continues, Program, Left, Alive

\* The first step comes before all the others.
LEMMA HeadIsFirst ==
    ASSUME OpsOk, Shape, NEW o \in Op, Alive(o)
    PROVE  /\ Program(op[o].action, op[o].todo, Left(o)) /\ op[o].todo # <<>>
           /\ Head(op[o].todo) \in Left(o)
           /\ Program(op[o].action, Tail(op[o].todo), Left(o) \ {Head(op[o].todo)})
           /\ \A x \in Left(o) \ {Head(op[o].todo)} :
                 Rank(op[o].action, Head(op[o].todo)) < Rank(op[o].action, x)
<1>1. Program(op[o].action, op[o].todo, Left(o)) /\ op[o].todo # <<>>
  BY DEF OpsOk, OpRow, Shape, ShapeAt, Program, Left
<1> QED BY <1>1, Pop

\* Then leaves the command with the steps but its first.
LEMMA ThenContinues ==
    ASSUME OpsOk, Shape, NEW o \in Op, NEW s, At(o, s), Then(o)
    PROVE  /\ s \in Left(o)
           /\ \A x \in Left(o) \ {s} : Rank(op[o].action, s) < Rank(op[o].action, x)
           /\ Continues(o, Left(o) \ {s})
           /\ Left(o) # {s} => SameCommand(o)
<1>1. Alive(o) /\ Head(op[o].todo) = s
  BY DEF At
<1> DEFINE new == [op[o] EXCEPT !.todo = Tail(@)]
<1>2. Program(op[o].action, Tail(op[o].todo), Left(o) \ {s})
  BY <1>1, HeadIsFirst
<1>3. /\ new \in OpRow /\ new.state = "alive" /\ new.todo = Tail(op[o].todo)
      /\ new.action = op[o].action /\ new.version = op[o].version
      /\ new.previous = op[o].previous /\ new.status = op[o].status /\ new.back = op[o].back
  BY <1>1, <1>2 DEF OpsOk, OpRow, Program, Alive
<1>4. Set(o, new)
  BY DEF Then
<1> HIDE DEF new
<1>5. Continues(o, Left(o) \ {s}) /\ (Left(o) \ {s} # {} => op'[o] = new)
  BY <1>2, <1>3, <1>4, SetContinues
<1> QED BY <1>1, <1>3, <1>5, HeadIsFirst DEF SameCommand

\* A step of one command only has that command to answer for.
LEMMA ShapeKept ==
    ASSUME OpsOk, Shape, NEW o \in Op, NEW S, Continues(o, S), S # {} => ShapeAt(o)'
    PROVE  Shape'
<1> SUFFICES ASSUME NEW p \in Op
             PROVE  IF Alive(p)' THEN ShapeAt(p)' ELSE ~op'[p].back /\ op'[p].previous = None
  BY DEF Shape
<1>1. CASE p # o
  <2>1. op'[p] = op[p]
    BY <1>1 DEF Continues
  <2>2. Alive(p)' = Alive(p) /\ Left(p)' = Left(p)
    BY <2>1 DEF Alive, Left
  <2>3. ShapeAt(p) => ShapeAt(p)'
    BY <2>1, <2>2 DEF ShapeAt, Places, Applies, Undoes, Enables, Disables, Removes,
                      Installs
  <2> QED BY <2>1, <2>2, <2>3 DEF Shape
<1>2. CASE p = o /\ S = {}
  BY <1>2, IdleRow DEF Continues, Alive
<1>3. CASE p = o /\ S # {}
  BY <1>3 DEF Continues
<1> QED BY <1>1, <1>2, <1>3

\* Taking the first step leaves a list of the same kind.
LEMMA ThenShape ==
    ASSUME OpsOk, Shape, NEW o \in Op, NEW s, At(o, s), Then(o)
    PROVE  Shape'
<1>1. /\ s \in Left(o) /\ Continues(o, Left(o) \ {s})
      /\ \A x \in Left(o) \ {s} : Rank(op[o].action, s) < Rank(op[o].action, x)
      /\ Left(o) # {s} => SameCommand(o)
  BY ThenContinues
<1>2. ShapeAt(o)
  BY DEF Shape, At
<1>3. ASSUME Left(o) \ {s} # {} PROVE ShapeAt(o)'
  <2>1. SameCommand(o) /\ Left(o)' = Left(o) \ {s} /\ Sorted(op'[o].action, op'[o].todo)
    BY <1>1, <1>3 DEF Continues
  <2>2. op[o].action \in Action
    BY DEF OpsOk, OpRow
  <2>3. PICK x \in Left(o) \ {s} : TRUE
    BY <1>3
  <2>4. s # "write"
    BY <1>1, <1>2, <2>2, <2>3 DEF ShapeAt, Rank, Places, Applies, Undoes, Enables, Disables,
       Removes, Installs, Action
  <2>5. s # "error"
    BY <1>1, <1>2, <2>2, <2>3 DEF ShapeAt, Rank, Places, Applies, Undoes, Enables, Disables,
       Removes, Installs, Action
  <2>6. s # "switch"
    BY <1>1, <1>2, <2>2, <2>3 DEF ShapeAt, Rank, Places, Applies, Undoes, Enables, Disables,
       Removes, Installs, Action
  <2> QED BY <2>1, <2>4, <2>5, <2>6, <1>1, <1>2, <1>3
          DEF ShapeAt, SameCommand, Places, Applies, Undoes, Enables, Disables, Removes, Installs
<1> QED BY <1>1, <1>3, ShapeKept

-----------------------------------------------------------------------------
(* What each step does to the commands *)

\* What the next step says of the command.
LEMMA NextStep ==
    ASSUME OpsOk, Shape, NEW o \in Op, NEW s, At(o, s)
    PROVE  /\ Alive(o) /\ s \in Left(o) /\ ShapeAt(o) /\ op[o] \in OpRow
           /\ s = "fetch" => op[o].action \in Installs /\ ~op[o].back /\ Left(o) = {s}
           /\ s = "verify" => /\ op[o].action \in Installs /\ ~op[o].back /\ Left(o) = {s}
                              /\ op[o].version \in Version
           /\ s \in Places => /\ op[o].action \in Installs /\ ~op[o].back /\ IsPlacing(o)
                              /\ Left(o) \subseteq Places /\ op[o].version \in Version
           /\ s = "read" => op[o].action \notin Installs /\ ~op[o].back /\ Left(o) = {s}
           /\ s \in {"forget", "unlink", "relink"} /\ op[o].action \in Installs => op[o].back
<1>1. Alive(o) /\ s \in Left(o) /\ ShapeAt(o) /\ op[o] \in OpRow
  BY HeadIsFirst DEF At, Shape, OpsOk
<1>2. op[o].action \in Action
  BY <1>1 DEF OpRow
<1> QED BY <1>1, <1>2 DEF ShapeAt, Places, Applies, Undoes, Enables, Disables, Removes,
           Installs, Action, IsPlacing

\* The look at the recorded operations starts nothing.
LEMMA CheckContinues ==
    ASSUME OpsOk, Shape, NEW o \in Op, NEW a \in Action, Check(o, a)
    PROVE  /\ OpsOk' /\ Shape' /\ ~Alive(o) /\ ~Alive(o)'
           /\ \A p \in Op : p # o => op'[p] = op[p]
<1> DEFINE new == [Idle EXCEPT !.state = "checked", !.action = a]
<1>1. /\ new \in OpRow /\ new.state = "checked" /\ new.todo = <<>> /\ ~new.back
      /\ new.previous = None
  BY IdleRow DEF OpRow, Idle
<1>2. op' = [op EXCEPT ![o] = new]
  BY <1>1 DEF Check, Set
<1> HIDE DEF new
<1>3. op' \in [Op -> OpRow] /\ op'[o] = new /\ \A p \in Op : p # o => op'[p] = op[p]
  BY <1>1, <1>2 DEF OpsOk
<1>4. ~Alive(o) /\ ~Alive(o)'
  BY <1>1, <1>3 DEF Check, Alive
<1>5. OpsOk'
  BY <1>1, <1>3, <1>4 DEF OpsOk, Alive
<1>6. Shape'
  <2> SUFFICES ASSUME NEW p \in Op
               PROVE  IF Alive(p)' THEN ShapeAt(p)' ELSE ~op'[p].back /\ op'[p].previous = None
    BY DEF Shape
  <2>1. CASE p = o
    BY <2>1, <1>1, <1>3, <1>4
  <2>2. CASE p # o
    BY <2>2, <1>3 DEF Shape, ShapeAt, Alive, Left, Places, Applies, Undoes, Enables, Disables,
       Removes, Installs
  <2> QED BY <2>1, <2>2
<1> QED BY <1>3, <1>4, <1>5, <1>6

\* A command starts with its first step.
LEMMA SpawnContinues ==
    ASSUME OpsOk, Shape, NEW o \in Op, Spawn(o)
    PROVE  /\ ~Alive(o)
           /\ Continues(o, IF op[o].action \in Installs THEN {"fetch"} ELSE {"read"})
           /\ SameCommand(o) /\ ~op'[o].back /\ op'[o].previous = None /\ Shape'
<1> DEFINE S == IF op[o].action \in Installs THEN {"fetch"} ELSE {"read"}
           t == IF op[o].action \in Installs THEN <<"fetch">> ELSE <<"read">>
           new == [op[o] EXCEPT !.state = "alive", !.todo = t]
<1>1. ~Alive(o) /\ ~op[o].back /\ op[o].previous = None /\ op[o] \in OpRow
  BY DEF Spawn, Alive, Shape, OpsOk
<1>2. Program(op[o].action, t, S)
  BY OneStep DEF Step
<1>3. t \in Seq(Step)
  BY <1>2 DEF Program
<1> HIDE DEF t
<1>4. /\ new \in OpRow /\ new.state = "alive" /\ new.todo = t
      /\ new.action = op[o].action /\ new.version = op[o].version
      /\ new.previous = op[o].previous /\ new.status = op[o].status /\ new.back = op[o].back
  BY <1>1, <1>3 DEF OpRow
<1>5. Set(o, new)
  BY DEF Spawn, t
<1> HIDE DEF new, S
<1>6. Continues(o, S) /\ (S # {} => op'[o] = new)
  BY <1>2, <1>4, <1>5, SetContinues
<1>7. S # {} /\ op[o].action \in Action
  BY <1>1 DEF S, OpRow
<1>8. SameCommand(o) /\ ~op'[o].back /\ op'[o].previous = None
  BY <1>1, <1>4, <1>6, <1>7 DEF SameCommand
<1>9. ShapeAt(o)'
  BY <1>6, <1>7, <1>8 DEF Continues, ShapeAt, SameCommand, S, Action, Installs
<1> QED BY <1>1, <1>6, <1>8, <1>9, ShapeKept DEF S

\* Recording a command changes none of its steps.
LEMMA RecordContinues ==
    ASSUME OpsOk, Shape, NEW o \in Op, Record(o)
    PROVE  /\ Alive(o) /\ Left(o) # {} /\ Continues(o, Left(o)) /\ SameCommand(o) /\ Shape'
           /\ op'[o].todo = op[o].todo
<1> DEFINE new == [op[o] EXCEPT !.recorded = TRUE]
<1>1. Alive(o) /\ op[o] \in OpRow /\ ShapeAt(o)
  BY DEF Record, Alive, OpsOk, Shape
<1>2. /\ new \in OpRow /\ new.state = "alive" /\ new.todo = op[o].todo
      /\ new.action = op[o].action /\ new.version = op[o].version
      /\ new.previous = op[o].previous /\ new.status = op[o].status /\ new.back = op[o].back
  BY <1>1 DEF OpRow, Alive
<1>3. Set(o, new)
  BY DEF Record
<1> HIDE DEF new
<1>4. Program(op[o].action, op[o].todo, Left(o)) /\ Left(o) # {}
  BY <1>1, HeadIsFirst
<1>5. Continues(o, Left(o)) /\ op'[o] = new
  BY <1>2, <1>3, <1>4, SetContinues
<1>6. SameCommand(o)
  BY <1>2, <1>5 DEF SameCommand
<1>7. ShapeAt(o)'
  BY <1>1, <1>4, <1>5, <1>6 DEF Continues, ShapeAt, SameCommand, Places, Applies, Undoes,
     Enables, Disables, Removes, Installs
<1> QED BY <1>1, <1>2, <1>4, <1>5, <1>6, <1>7, ShapeKept

\* The catalogue answers with a release to verify.
LEMMA FetchContinues ==
    ASSUME OpsOk, Shape, NEW o \in Op, NEW v \in Version, Fetch(o, v)
    PROVE  /\ At(o, "fetch") /\ Continues(o, {"verify"}) /\ Shape'
           /\ op'[o].action = op[o].action /\ op'[o].previous = op[o].previous
           /\ op'[o].version = v /\ ~op'[o].back
<1> DEFINE t == <<"verify">>
           new == [op[o] EXCEPT !.version = v, !.todo = t]
<1>1. At(o, "fetch") /\ Set(o, new)
  BY DEF Fetch
<1>2. op[o].action \in Installs /\ ~op[o].back /\ op[o] \in OpRow /\ Alive(o)
  BY <1>1, NextStep
<1>3. Program(op[o].action, t, {"verify"})
  BY OneStep DEF Step
<1>4. t \in Seq(Step)
  BY <1>3 DEF Program
<1> HIDE DEF t
<1>5. /\ new \in OpRow /\ new.state = "alive" /\ new.todo = t
      /\ new.action = op[o].action /\ new.version = v
      /\ new.previous = op[o].previous /\ new.back = op[o].back
  BY <1>2, <1>4 DEF OpRow, Alive
<1> HIDE DEF new
<1>6. Continues(o, {"verify"}) /\ op'[o] = new
  BY <1>1, <1>3, <1>5, SetContinues
<1>7. ShapeAt(o)'
  BY <1>2, <1>5, <1>6 DEF Continues, ShapeAt, Installs
<1> QED BY <1>1, <1>2, <1>5, <1>6, <1>7, ShapeKept

\* A verified release is to be put in place.
LEMMA VerifyContinues ==
    ASSUME OpsOk, Shape, NEW o \in Op, Verify(o)
    PROVE  /\ At(o, "verify") /\ op[o].version \in Version /\ SameCommand(o) /\ Shape'
           /\ \E S : /\ S \subseteq Places /\ {"manifest", "previous", "switch"} \subseteq S
                     /\ Continues(o, S)
<1> DEFINE t == InstallSteps(op[o].version)
           new == [op[o] EXCEPT !.todo = t]
<1>1. At(o, "verify") /\ Set(o, new)
  BY DEF Verify
<1>2. /\ op[o].action \in Installs /\ ~op[o].back /\ op[o] \in OpRow /\ Alive(o)
      /\ op[o].version \in Version
  BY <1>1, NextStep
<1>3. PICK S : /\ Program(op[o].action, t, S)
               /\ S \subseteq Places /\ {"manifest", "previous", "switch"} \subseteq S
  BY InstallProgram
<1>4. t \in Seq(Step)
  BY <1>3 DEF Program
<1> HIDE DEF t
<1>5. /\ new \in OpRow /\ new.state = "alive" /\ new.todo = t
      /\ new.action = op[o].action /\ new.version = op[o].version
      /\ new.previous = op[o].previous /\ new.status = op[o].status /\ new.back = op[o].back
  BY <1>2, <1>4 DEF OpRow, Alive
<1> HIDE DEF new
<1>6. Continues(o, S) /\ op'[o] = new
  BY <1>1, <1>3, <1>5, SetContinues
<1>7. SameCommand(o)
  BY <1>5, <1>6 DEF SameCommand
<1>8. ShapeAt(o)'
  BY <1>2, <1>3, <1>6, <1>7 DEF Continues, ShapeAt, SameCommand, Installs
<1> QED BY <1>1, <1>2, <1>3, <1>6, <1>7, <1>8, ShapeKept

\* The command reads the link and the file and has the switch left.
LEMMA ReadPreviousContinues ==
    ASSUME Typed, Shape, NEW o \in Op, ReadPrevious(o)
    PROVE  /\ At(o, "previous") /\ IsPlacing(o)
           /\ Left(o) \subseteq Places /\ Left(o) \ {"previous"} # {}
           /\ \A x \in Left(o) \ {"previous"} : x = "switch"
           /\ Continues(o, Left(o) \ {"previous"}) /\ Shape'
           /\ op'[o].action = op[o].action /\ op'[o].version = op[o].version
           /\ op'[o].version \in Version
           /\ op'[o].previous = current /\ ~op'[o].back
           /\ op'[o].status = IF current = None THEN "active" ELSE file.status
<1> DEFINE t == Tail(op[o].todo)
           st == IF current = None THEN "active" ELSE file.status
           new == [op[o] EXCEPT !.previous = current, !.todo = t, !.status = st]
           S == Left(o) \ {"previous"}
<1>1. At(o, "previous") /\ Alive(o) /\ Head(op[o].todo) = "previous"
  BY DEF ReadPrevious, At
<1>2. op' = [op EXCEPT ![o] = IF new.state = "alive" /\ new.todo = <<>> THEN Idle ELSE new]
  BY DEF ReadPrevious, Set
<1>3. /\ op[o].action \in Installs /\ ~op[o].back /\ op[o] \in OpRow /\ IsPlacing(o)
      /\ op[o].version \in Version /\ Left(o) \subseteq Places /\ ShapeAt(o)
  BY <1>1, NextStep DEF Typed, Places
<1>4. /\ Program(op[o].action, t, S)
      /\ \A x \in S : Rank(op[o].action, "previous") < Rank(op[o].action, x)
  BY <1>1, HeadIsFirst DEF Typed
<1>5. t \in Seq(Step) /\ st \in Status /\ current \in Version \cup {None}
  BY <1>4 DEF Program, Typed, ModuleOk, Status
<1> HIDE DEF t, st
<1>6. /\ new \in OpRow /\ new.state = "alive" /\ new.todo = t
      /\ new.action = op[o].action /\ new.version = op[o].version
      /\ new.previous = current /\ new.status = st /\ new.back = op[o].back
  BY <1>1, <1>3, <1>5 DEF OpRow, Alive
<1>7. Set(o, new)
  BY <1>2 DEF Set
<1> HIDE DEF new
<1>8. "switch" \in S /\ \A x \in S : x = "switch"
  BY <1>3, <1>4 DEF IsPlacing, Places, Rank
<1> HIDE DEF S
<1>9. Continues(o, S) /\ op'[o] = new
  BY <1>4, <1>6, <1>7, <1>8, SetContinues DEF Typed
<1>10. ShapeAt(o)'
  <2>1. Left(o)' = S /\ Sorted(op'[o].action, op'[o].todo)
    BY <1>8, <1>9 DEF Continues
  <2> QED BY <2>1, <1>3, <1>6, <1>8, <1>9 DEF ShapeAt, Places, Installs
<1>11. Shape'
  BY <1>9, <1>10, ShapeKept DEF Typed
<1> QED BY <1>1, <1>3, <1>6, <1>8, <1>9, <1>11 DEF S, st

\* Once the link has moved, the release is to be applied: one that stays disabled
\* is not activated.
LEMMA SwitchContinues ==
    ASSUME OpsOk, Shape, NEW o \in Op, Switch(o)
    PROVE  /\ At(o, "switch") /\ Left(o) = {"switch"} /\ IsPlacing(o)
           /\ op[o].version \in Version /\ SameCommand(o) /\ ~op[o].back /\ Shape'
           /\ \E S : LET v == op[o].version  off == op[o].status = "disabled" IN
                 /\ Continues(o, S) /\ "write" \in S /\ S \subseteq Applies
                 /\ "ensure" \in S => v \in Scoped
                 /\ off => "activate.py" \notin S
                 /\ off /\ v \in Deactivates => "deactivate.py" \in S
                 /\ off /\ v \in Deactivates /\ v \in Scoped => "revoke" \in S
<1> DEFINE v == op[o].version
           off == op[o].status = "disabled"
           t == Apply(v, off) \o <<"write">>
           new == [op[o] EXCEPT !.todo = t]
<1>1. At(o, "switch") /\ Set(o, new)
  BY DEF Switch
<1>2. /\ op[o].action \in Installs /\ ~op[o].back /\ op[o] \in OpRow /\ Alive(o)
      /\ IsPlacing(o) /\ op[o].version \in Version /\ Left(o) \subseteq Places
  BY <1>1, NextStep DEF Places
<1>3. Left(o) = {"switch"}
  <2>1. \A x \in Left(o) \ {"switch"} : Rank(op[o].action, "switch") < Rank(op[o].action, x)
    BY <1>1, HeadIsFirst DEF At
  <2>2. \A x \in Left(o) : x = "switch"
    BY <2>1, <1>2 DEF Places, Rank
  <2> QED BY <2>2, <1>2 DEF IsPlacing
<1>4. PICK S : /\ Program(op[o].action, t, S) /\ "write" \in S /\ S \subseteq Applies
               /\ "ensure" \in S => v \in Scoped
               /\ off => "activate.py" \notin S
               /\ off /\ v \in Deactivates => "deactivate.py" \in S
               /\ off /\ v \in Deactivates /\ v \in Scoped => "revoke" \in S
  <2>1. off \in BOOLEAN
    OBVIOUS
  <2> HIDE DEF off
  <2> QED BY <2>1, ApplyProgram
<1>5. t \in Seq(Step)
  BY <1>4 DEF Program
<1> HIDE DEF t
<1>6. /\ new \in OpRow /\ new.state = "alive" /\ new.todo = t
      /\ new.action = op[o].action /\ new.version = op[o].version
      /\ new.previous = op[o].previous /\ new.status = op[o].status /\ new.back = op[o].back
  BY <1>2, <1>5 DEF OpRow, Alive
<1> HIDE DEF new
<1>7. Continues(o, S) /\ op'[o] = new
  BY <1>1, <1>4, <1>6, SetContinues
<1>8. SameCommand(o)
  BY <1>6, <1>7 DEF SameCommand
<1>9. ShapeAt(o)'
  BY <1>2, <1>4, <1>7, <1>8 DEF Continues, ShapeAt, SameCommand, Installs
<1> QED BY <1>1, <1>2, <1>3, <1>4, <1>7, <1>8, <1>9, ShapeKept

\* Enable, disable and uninstall.
LEMMA ReadCurrentContinues ==
    ASSUME Typed, Shape, NEW o \in Op, ReadCurrent(o)
    PROVE  /\ At(o, "read") /\ current # None /\ Shape'
           /\ op'[o].action = op[o].action /\ op'[o].previous = op[o].previous
           /\ \E S : /\ Continues(o, S) /\ S # {} /\ "read" \notin S
                     /\ op[o].action = "enable" =>
                           /\ op'[o].version = current /\ op'[o].status = "active"
                           /\ "write" \in S /\ S \subseteq Enables
                           /\ "ensure" \in S => current \in Scoped
                     /\ op[o].action = "disable" =>
                           /\ op'[o].version = current /\ op'[o].status = "disabled"
                           /\ {"deactivate.py", "write"} \subseteq S /\ S \subseteq Disables
                           /\ current \in Scoped => "revoke" \in S
                     /\ op[o].action = "uninstall" =>
                           /\ op'[o].version = file.version /\ op'[o].status = "removed"
                           /\ {"unlink", "write"} \subseteq S /\ S \subseteq Removes
                           /\ Scope(current) => "revoke" \in S
<1> DEFINE a == op[o].action
           v == IF a = "uninstall" THEN file.version ELSE current
           st == Target(a)
           t == CASE a = "enable" -> EnableSteps(current)
                  [] a = "disable" -> DisableSteps(current)
                  [] OTHER -> UninstallSteps(current, file.status = "active")
           new == [op[o] EXCEPT !.version = v, !.status = st, !.todo = t]
<1>1. At(o, "read") /\ current # None /\ Set(o, new)
  BY DEF ReadCurrent
<1>2. /\ a \notin Installs /\ ~op[o].back /\ Left(o) = {"read"} /\ Alive(o)
      /\ op[o] \in OpRow
  BY <1>1, NextStep DEF Typed
<1>3. a \in {"enable", "disable", "uninstall"}
  BY <1>2 DEF OpRow, Action
<1>4. /\ a = "enable" => st = "active" /\ t = EnableSteps(current)
      /\ a = "disable" => st = "disabled" /\ t = DisableSteps(current)
      /\ a = "uninstall" => st = "removed" /\ t = UninstallSteps(current, file.status = "active")
  <2>1. CASE a = "enable"
    BY <2>1 DEF Target
  <2>2. CASE a = "disable"
    BY <2>2 DEF Target
  <2>3. CASE a = "uninstall"
    BY <2>3 DEF Target
  <2> QED BY <1>3, <2>1, <2>2, <2>3
<1> HIDE DEF t, st
<1>5. v \in Version \cup {None} /\ st \in Status
  BY <1>3, <1>4 DEF Typed, ModuleOk, Status
<1>6. PICK S : /\ Program(a, t, S) /\ S # {} /\ "read" \notin S
               /\ a = "enable" =>
                     /\ "write" \in S /\ S \subseteq Enables
                     /\ "ensure" \in S => current \in Scoped
               /\ a = "disable" =>
                     /\ {"deactivate.py", "write"} \subseteq S /\ S \subseteq Disables
                     /\ current \in Scoped => "revoke" \in S
               /\ a = "uninstall" =>
                     /\ {"unlink", "write"} \subseteq S /\ S \subseteq Removes
                     /\ Scope(current) => "revoke" \in S
  <2>1. CASE a = "enable"
    <3>1. PICK S : /\ Program(a, EnableSteps(current), S)
                   /\ "write" \in S /\ S \subseteq Enables
                   /\ "ensure" \in S => current \in Scoped
      BY EnableProgram
    <3> QED BY <2>1, <3>1, <1>4 DEF Enables
  <2>2. CASE a = "disable"
    <3>1. PICK S : /\ Program(a, DisableSteps(current), S)
                   /\ {"deactivate.py", "write"} \subseteq S /\ S \subseteq Disables
                   /\ current \in Scoped => "revoke" \in S
      BY DisableProgram
    <3> QED BY <2>2, <3>1, <1>4 DEF Disables
  <2>3. CASE a = "uninstall"
    <3> DEFINE on == file.status = "active"
    <3>1. on \in BOOLEAN
      OBVIOUS
    <3>2. PICK S : /\ Program("uninstall", UninstallSteps(current, on), S)
                   /\ {"unlink", "write"} \subseteq S /\ S \subseteq Removes
                   /\ Scope(current) => "revoke" \in S
      <4> HIDE DEF on
      <4> QED BY <3>1, UninstallProgram
    <3> QED BY <2>3, <3>2, <1>4 DEF Removes
  <2> QED BY <1>3, <2>1, <2>2, <2>3
<1>7. t \in Seq(Step)
  BY <1>6 DEF Program
<1> HIDE DEF v
<1>8. /\ new \in OpRow /\ new.state = "alive" /\ new.todo = t
      /\ new.action = a /\ new.version = v
      /\ new.previous = op[o].previous /\ new.status = st /\ new.back = op[o].back
  BY <1>2, <1>5, <1>7 DEF OpRow, Alive
<1> HIDE DEF new
<1>9. Continues(o, S) /\ op'[o] = new
  BY <1>1, <1>6, <1>8, SetContinues DEF Typed
<1>10. ShapeAt(o)'
  BY <1>2, <1>3, <1>6, <1>8, <1>9 DEF Continues, ShapeAt, Installs
<1>11. Shape'
  BY <1>9, <1>10, ShapeKept DEF Typed
<1> QED BY <1>1, <1>3, <1>4, <1>6, <1>8, <1>9, <1>11 DEF v

\* What is left to do after an error.
LEMMA RecoveryCases ==
    ASSUME NEW me
    PROVE  LET step == Head(me.todo) IN
           /\ step = "forget" /\ ~Applying(me) => Recovery(me) = Tail(me.todo)
           /\ step # "forget" /\ Applying(me) =>
                 Recovery(me) = Rollback(me.version, me.previous, me.status = "disabled")
           /\ step = "activate.py" /\ ~Applying(me) /\ me.action = "enable" =>
                 Recovery(me) = Credential(me.version, "forget") \o <<"error">>
           /\ step = "deactivate.py" /\ ~Applying(me) /\ me.action = "disable" =>
                 Recovery(me) = <<"error">>
           /\ step # "forget" /\ ~Applying(me)
                /\ ~(me.action = "enable" /\ step = "activate.py")
                /\ ~(me.action = "disable" /\ step = "deactivate.py") => Recovery(me) = <<>>
<1> DEFINE step == Head(me.todo)
           ap == Applying(me)
           en == me.action = "enable" /\ step = "activate.py"
           di == me.action = "disable" /\ step = "deactivate.py"
<1>1. step = "forget" /\ ~ap => Recovery(me) = Tail(me.todo)
  BY DEF Recovery
<1>2. step # "forget" /\ ap =>
        Recovery(me) = Rollback(me.version, me.previous, me.status = "disabled")
  BY DEF Recovery, Applying, Installs
<1>3. step = "activate.py" /\ ~ap /\ me.action = "enable" =>
        Recovery(me) = Credential(me.version, "forget") \o <<"error">>
  BY DEF Recovery
<1>4. step = "deactivate.py" /\ ~ap /\ me.action = "disable" => Recovery(me) = <<"error">>
  BY DEF Recovery
<1>5. step # "forget" /\ ~ap /\ ~en /\ ~di => Recovery(me) = <<>>
  BY DEF Recovery
<1> QED BY <1>1, <1>2, <1>3, <1>4, <1>5

\* A command that fails is left with its recovery.
LEMMA FailContinues ==
    ASSUME OpsOk, Shape, NEW o \in Op, Fail(o)
    PROVE  LET step == Head(op[o].todo)
               off == op[o].status = "disabled"
               p == op[o].previous IN
           /\ At(o, step) /\ Shape'
           /\ step = "forget" => ~Applying(op[o])
           /\ \E S :
                 /\ Continues(o, S)
                 /\ S # {} =>
                       /\ op'[o].action = op[o].action /\ op'[o].version = op[o].version
                       /\ op'[o].previous = p /\ op'[o].status = op[o].status
                       /\ op'[o].back <=> Applying(op[o]) \/ op[o].back
                 /\ step = "forget" => S = Left(o) \ {step}
                 /\ Applying(op[o]) =>
                       /\ S # {} /\ S \subseteq Undoes /\ "unlink" \in S
                       /\ p = None => /\ S \subseteq {"forget", "unlink"}
                                      /\ op[o].version \in Scoped => "forget" \in S
                       /\ p # None =>
                             /\ "relink" \in S /\ "forget" \notin S
                             /\ "ensure" \in S => p \in Scoped
                             /\ off => "activate.py" \notin S /\ "deactivate.py" \in S
                             /\ off /\ Scope(p) => "revoke" \in S
                 /\ ~Applying(op[o]) /\ step # "forget" =>
                       /\ \/ S = {}
                          \/ /\ "error" \in S /\ S \subseteq {"forget", "error"}
                             /\ op[o].action = "enable" /\ step = "activate.py"
                          \/ S = {"error"} /\ op[o].action = "disable"
                       /\ op[o].action = "enable" /\ step = "activate.py" => S # {}
<1> DEFINE me == op[o]
           a == me.action
           step == Head(me.todo)
           off == me.status = "disabled"
           p == me.previous
           t == Recovery(me)
           b == Applying(me) \/ me.back
           new == [me EXCEPT !.back = b, !.todo = t]
<1>1. At(o, step) /\ Alive(o)
  BY DEF Fail, At
<1>2. Set(o, new)
  BY DEF Fail
<1>3. /\ me \in OpRow /\ ShapeAt(o) /\ step \in Left(o)
      /\ Program(a, Tail(me.todo), Left(o) \ {step})
      /\ \A x \in Left(o) \ {step} : Rank(a, step) < Rank(a, x)
      /\ a \in Action
  BY <1>1, HeadIsFirst, NextStep DEF OpRow
<1>4. step = "forget" => ~Applying(me)
  BY <1>3 DEF Applying, ShapeAt, Places, Applies, Installs
<1>5. Applying(me) => a \in Installs /\ ~me.back /\ me.version \in Version
  BY <1>3 DEF Applying, ShapeAt, Places
<1>6. PICK S :
         /\ Program(a, t, S)
         /\ step = "forget" => S = Left(o) \ {step}
         /\ Applying(me) =>
               /\ S # {} /\ S \subseteq Undoes /\ "unlink" \in S
               /\ p = None => /\ S \subseteq {"forget", "unlink"}
                              /\ me.version \in Scoped => "forget" \in S
               /\ p # None => /\ "relink" \in S /\ "forget" \notin S
                              /\ "ensure" \in S => p \in Scoped
                              /\ off => "activate.py" \notin S /\ "deactivate.py" \in S
                              /\ off /\ Scope(p) => "revoke" \in S
         /\ ~Applying(me) /\ step # "forget" =>
               /\ \/ S = {}
                  \/ /\ "error" \in S /\ S \subseteq {"forget", "error"}
                     /\ a = "enable" /\ step = "activate.py"
                  \/ S = {"error"} /\ a = "disable"
               /\ a = "enable" /\ step = "activate.py" => S # {}
  <2>1. CASE step = "forget"
    BY <2>1, <1>3, <1>4, RecoveryCases
  <2>2. CASE step # "forget" /\ Applying(me)
    <3>1. off \in BOOLEAN /\ a # "uninstall"
      BY <2>2, <1>5 DEF Installs
    <3>2. t = Rollback(me.version, p, off)
      BY <2>2, RecoveryCases
    <3> HIDE DEF off, t, a, p, step, me
    <3>3. PICK S :
             /\ Program(a, Rollback(me.version, p, off), S)
             /\ S # {} /\ S \subseteq Undoes /\ "unlink" \in S
             /\ p = None => /\ S \subseteq {"forget", "unlink"}
                            /\ me.version \in Scoped => "forget" \in S
             /\ p # None => /\ "relink" \in S /\ "forget" \notin S
                            /\ "ensure" \in S => p \in Scoped
                            /\ off => "activate.py" \notin S /\ "deactivate.py" \in S
                            /\ off /\ Scope(p) => "revoke" \in S
      BY <3>1, RollbackProgram
    <3>4. Program(a, t, S)
      BY <3>2, <3>3
    <3> QED BY <2>2, <3>3, <3>4
  <2>3. CASE step = "activate.py" /\ ~Applying(me) /\ a = "enable"
    <3>1. t = Credential(me.version, "forget") \o <<"error">>
      BY <2>3, RecoveryCases
    <3>2. PICK S : /\ Program(a, Credential(me.version, "forget") \o <<"error">>, S)
                   /\ "error" \in S /\ S \subseteq {"forget", "error"}
      BY ErrorProgram
    <3> HIDE DEF t
    <3> QED BY <2>3, <3>1, <3>2
  <2>4. CASE step = "deactivate.py" /\ ~Applying(me) /\ a = "disable"
    <3>1. t = <<"error">>
      BY <2>4, RecoveryCases
    <3>2. Program(a, <<"error">>, {"error"})
      BY OneStep DEF Step
    <3> HIDE DEF t
    <3> QED BY <2>4, <3>1, <3>2
  <2>5. CASE /\ step # "forget" /\ ~Applying(me)
             /\ ~(a = "enable" /\ step = "activate.py")
             /\ ~(a = "disable" /\ step = "deactivate.py")
    <3>1. t = <<>>
      BY <2>5, RecoveryCases
    <3>2. Program(a, <<>>, {})
      BY Nothing
    <3> HIDE DEF t
    <3> QED BY <2>5, <3>1, <3>2
  <2> QED BY <2>1, <2>2, <2>3, <2>4, <2>5
<1>7. t \in Seq(Step) /\ b \in BOOLEAN
  <2>1. Applying(me) \in BOOLEAN /\ me.back \in BOOLEAN
    BY <1>3 DEF Applying, OpRow
  <2> QED BY <2>1, <1>6 DEF Program
<1> HIDE DEF t, b
<1>8. /\ new \in OpRow /\ new.state = "alive" /\ new.todo = t
      /\ new.action = a /\ new.version = me.version
      /\ new.previous = p /\ new.status = me.status /\ new.back = b
  BY <1>1, <1>3, <1>7 DEF OpRow, Alive
<1> HIDE DEF new
<1>9. Continues(o, S) /\ (S # {} => op'[o] = new)
  BY <1>2, <1>6, <1>8, SetContinues
<1>10. S # {} => ShapeAt(o)'
  <2> SUFFICES ASSUME S # {} PROVE ShapeAt(o)'
    OBVIOUS
  <2>1. /\ Left(o)' = S /\ Sorted(op'[o].action, op'[o].todo) /\ op'[o] = new
    BY <1>9 DEF Continues
  <2>2. CASE step = "forget"
    <3>1. b = me.back
      BY <2>2, <1>3, <1>4 DEF b, OpRow
    <3>2. S = Left(o) \ {"forget"}
      BY <2>2, <1>6
    <3>3. \/ a \in Installs /\ me.back /\ Left(o) \subseteq Undoes
          \/ a = "enable" /\ "error" \in Left(o) /\ Left(o) \subseteq {"forget", "error"}
             /\ ~me.back
      BY <2>2, <1>3 DEF ShapeAt, Places, Applies, Enables, Disables, Removes, Installs, Action
    <3> QED BY <2>1, <3>1, <3>2, <3>3, <1>8 DEF ShapeAt, Installs
  <2>3. CASE Applying(me)
    <3>1. b
      BY <2>3 DEF b
    <3> QED BY <2>1, <2>3, <3>1, <1>5, <1>6, <1>8 DEF ShapeAt, Installs
  <2>4. CASE ~Applying(me) /\ step # "forget"
    <3>1. ~me.back
      BY <2>4, <1>3, <1>6 DEF ShapeAt, Installs
    <3>2. ~b
      BY <2>4, <3>1 DEF b
    <3>3. \/ "error" \in S /\ S \subseteq {"forget", "error"} /\ a = "enable"
          \/ S = {"error"} /\ a = "disable"
      BY <2>4, <1>6
    <3> QED BY <2>1, <3>2, <3>3, <1>8 DEF ShapeAt, Installs
  <2> QED BY <2>2, <2>3, <2>4
<1>11. Shape'
  BY <1>9, <1>10, ShapeKept
<1> QED BY <1>1, <1>4, <1>6, <1>8, <1>9, <1>11 DEF b

-----------------------------------------------------------------------------
(* Types, and the kinds of commands *)

\* What a hook leaves of the integration, and what one that failed leaves.
LEMMA HookCases ==
    ASSUME running \in BOOLEAN, NEW name, NEW x \in HookLeaves(name)
    PROVE  /\ x \in BOOLEAN
           /\ name = "deactivate.py" => IF current \in Deactivates THEN x = FALSE ELSE x = running
           /\ name = "uninstall.py" => x = FALSE
<1>1. CASE name = "activate.py"
  <2>1. HookLeaves(name) = {TRUE}
    BY <1>1 DEF HookLeaves
  <2> QED BY <1>1, <2>1
<1>2. CASE name = "install.py"
  <2>1. HookLeaves(name) = BOOLEAN
    BY <1>2 DEF HookLeaves
  <2> QED BY <1>2, <2>1
<1>3. CASE name = "deactivate.py" /\ current \notin Deactivates
  <2>1. HookLeaves(name) = {running}
    BY <1>3 DEF HookLeaves
  <2> QED BY <1>3, <2>1
<1>4. CASE /\ name \notin {"activate.py", "install.py"}
           /\ ~(name = "deactivate.py" /\ current \notin Deactivates)
  <2>1. HookLeaves(name) = {FALSE}
    BY <1>4 DEF HookLeaves
  <2> QED BY <1>4, <2>1
<1> QED BY <1>1, <1>2, <1>3, <1>4

\* What a hook that failed leaves.
LEMMA FailedHookCases ==
    ASSUME running \in BOOLEAN, NEW step, NEW x \in FailedHookLeaves(step)
    PROVE  /\ x \in BOOLEAN
           /\ step \notin {"activate.py", "install.py"} => x \in {running, FALSE}
<1>1. CASE step \in {"activate.py", "install.py"}
  <2>1. FailedHookLeaves(step) = BOOLEAN
    BY <1>1 DEF FailedHookLeaves
  <2> QED BY <1>1, <2>1
<1>2. CASE step \in {"deactivate.py", "uninstall.py"}
  <2>1. FailedHookLeaves(step) = {running, FALSE}
    BY <1>2 DEF FailedHookLeaves
  <2> QED BY <1>2, <2>1
<1>3. CASE step \notin {"activate.py", "install.py", "deactivate.py", "uninstall.py"}
  <2>1. FailedHookLeaves(step) = {running}
    BY <1>3 DEF FailedHookLeaves
  <2> QED BY <1>3, <2>1
<1> QED BY <1>1, <1>2, <1>3

\* What the credential's helper leaves when it failed.
LEMMA FailedHelperCases ==
    ASSUME granted \in BOOLEAN, NEW step, NEW x \in FailedHelperLeaves(step)
    PROVE  /\ x \in BOOLEAN
           /\ step # "ensure" => (x => granted)
           /\ step \notin {"ensure", "revoke", "forget"} => x = granted
<1>1. CASE step = "ensure" /\ Grantable
  <2>1. FailedHelperLeaves(step) = {granted, TRUE}
    BY <1>1 DEF FailedHelperLeaves
  <2> QED BY <1>1, <2>1
<1>2. CASE step \in {"revoke", "forget"} /\ Readable
  <2>1. FailedHelperLeaves(step) = {granted, FALSE}
    BY <1>2 DEF FailedHelperLeaves
  <2> QED BY <1>2, <2>1
<1>3. CASE ~(step = "ensure" /\ Grantable) /\ ~(step \in {"revoke", "forget"} /\ Readable)
  <2>1. FailedHelperLeaves(step) = {granted}
    BY <1>3 DEF FailedHelperLeaves
  <2> QED BY <1>3, <2>1
<1> QED BY <1>1, <1>2, <1>3

\* Where no command moves, none changes.
LEMMA OpsStay ==
    ASSUME OpsOk, Shape, UNCHANGED op
    PROVE  OpsOk' /\ Shape'
BY DEF OpsOk, Shape, ShapeAt, Alive, Left, Places, Applies, Undoes, Enables, Disables,
   Removes, Installs

\* A restart ends every command.
LEMMA RestartOps ==
    ASSUME OpsOk, Restart
    PROVE  OpsOk' /\ Shape' /\ \A o \in Op : op'[o] = Idle /\ ~Alive(o)'
BY IdleRow DEF Restart, OpsOk, Shape, Alive

\* The steps that only go on.
\* Steps that take the first of their list and nothing else of it.
Plain(o) ==
    \/ Place(o) \/ OpenManifest(o) \/ CopyManifest(o)
    \/ Ensure(o) \/ Revoke(o)
    \/ \E hook \in {"install.py", "activate.py", "deactivate.py", "uninstall.py"} : Hook(o, hook)
    \/ Unlink(o) \/ Relink(o) \/ WriteState(o)

\* A plain step takes the first of its list.
LEMMA PlainContinues ==
    ASSUME OpsOk, NEW o \in Op, Plain(o)
    PROVE  Alive(o) /\ Then(o) /\ \E s : At(o, s)
BY DEF Plain, Place, OpenManifest, CopyManifest, Ensure, Revoke, Hook, Unlink, Relink,
   WriteState, At

\* Every step is one of these.
LEMMA NextCases ==
    ASSUME Next
    PROVE  \/ \E o \in Op :
                 \/ \E a \in Action : Check(o, a)
                 \/ Spawn(o) \/ Record(o)
                 \/ \E v \in Version : Fetch(o, v)
                 \/ Verify(o) \/ ReadPrevious(o) \/ Switch(o) \/ ReadCurrent(o)
                 \/ Plain(o) \/ Fail(o)
           \/ ActivateLicense \/ BeginTransfer \/ EndTransfer \/ Restart
BY DEF Next, Plain

\* The rows of the operations and their lists keep their type and shape.
LEMMA OpsKept ==
    ASSUME Typed, Shape, Next
    PROVE  OpsOk' /\ Shape'
<1>1. OpsOk
  BY DEF Typed
<1>2. ASSUME NEW o \in Op, NEW a \in Action, Check(o, a) PROVE OpsOk' /\ Shape'
  BY <1>1, <1>2, CheckContinues
<1>3. ASSUME NEW o \in Op, Spawn(o) PROVE OpsOk' /\ Shape'
  BY <1>1, <1>3, SpawnContinues DEF Continues
<1>4. ASSUME NEW o \in Op, Record(o) PROVE OpsOk' /\ Shape'
  BY <1>1, <1>4, RecordContinues DEF Continues
<1>5. ASSUME NEW o \in Op, NEW v \in Version, Fetch(o, v) PROVE OpsOk' /\ Shape'
  BY <1>1, <1>5, FetchContinues DEF Continues
<1>6. ASSUME NEW o \in Op, Verify(o) PROVE OpsOk' /\ Shape'
  BY <1>1, <1>6, VerifyContinues DEF Continues
<1>7. ASSUME NEW o \in Op, ReadPrevious(o) PROVE OpsOk' /\ Shape'
  BY <1>7, ReadPreviousContinues DEF Continues
<1>8. ASSUME NEW o \in Op, Switch(o) PROVE OpsOk' /\ Shape'
  BY <1>1, <1>8, SwitchContinues DEF Continues
<1>9. ASSUME NEW o \in Op, ReadCurrent(o) PROVE OpsOk' /\ Shape'
  BY <1>9, ReadCurrentContinues DEF Continues
<1>10. ASSUME NEW o \in Op, Plain(o) PROVE OpsOk' /\ Shape'
  <2>1. PICK s : At(o, s) /\ Then(o)
    BY <1>1, <1>10, PlainContinues
  <2> QED BY <1>1, <2>1, ThenContinues, ThenShape DEF Continues
<1>11. ASSUME NEW o \in Op, Fail(o) PROVE OpsOk' /\ Shape'
  BY <1>1, <1>11, FailContinues DEF Continues
<1>12. CASE ActivateLicense \/ BeginTransfer \/ EndTransfer
  BY <1>1, <1>12, OpsStay DEF ActivateLicense, BeginTransfer, EndTransfer
<1>13. CASE Restart
  BY <1>1, <1>13, RestartOps
<1> QED BY <1>2, <1>3, <1>4, <1>5, <1>6, <1>7, <1>8, <1>9, <1>10, <1>11, <1>12, <1>13, NextCases

\* A new state of the file.
LEMMA StateWritten ==
    ASSUME Typed, NEW o \in Op, At(o, "write") \/ At(o, "error"), WriteState(o)
    PROVE  /\ file' \in [status : Status, version : Version \cup {None}]
           /\ At(o, "error") => file'.status = "error" /\ file'.version = file.version
           /\ At(o, "write") => file' = NewState(o)
           /\ NewState(o).version = op[o].version
           /\ NewState(o).status \in {"active", op[o].status}
<1>1. op[o] \in OpRow /\ file \in [status : Status, version : Version \cup {None}]
  BY DEF Typed, OpsOk, ModuleOk
<1>2. /\ NewState(o).version = op[o].version
      /\ NewState(o).status \in {"active", op[o].status}
      /\ NewState(o) \in [status : Status, version : Version \cup {None}]
  BY <1>1 DEF NewState, OpRow, Status
<1>3. ~(At(o, "write") /\ At(o, "error"))
  BY DEF At
<1>4. CASE At(o, "error")
  BY <1>1, <1>2, <1>3, <1>4 DEF WriteState, ErrorState, Status
<1>5. CASE At(o, "write")
  BY <1>2, <1>3, <1>5 DEF WriteState
<1> QED BY <1>2, <1>4, <1>5

\* The state of the module keeps its type.
LEMMA ModuleKept ==
    ASSUME Typed, Shape, Next
    PROVE  ModuleOk'
<1>1. OpsOk /\ ModuleOk
  BY DEF Typed
<1>2. ASSUME UNCHANGED <<module, certificate, transfer>>, disturbed' \in BOOLEAN PROVE ModuleOk'
  BY <1>1, <1>2 DEF ModuleOk, module
<1>3. ASSUME NEW o \in Op,
             \/ \E a \in Action : Check(o, a)
             \/ Record(o)
             \/ \E v \in Version : Fetch(o, v)
             \/ Verify(o) \/ ReadPrevious(o) \/ ReadCurrent(o)
      PROVE  ModuleOk'
  BY <1>1, <1>2, <1>3 DEF Check, Record, Fetch, Verify, ReadPrevious, ReadCurrent, ModuleOk
<1>4. ASSUME NEW o \in Op, Spawn(o) PROVE ModuleOk'
  <2>1. ASSUME NEW b \in BOOLEAN PROVE (disturbed \/ transfer \/ b) \in BOOLEAN
    BY <1>1 DEF ModuleOk
  <2> QED BY <1>2, <1>4, <2>1 DEF Spawn
<1>5. ASSUME NEW o \in Op, Switch(o) PROVE ModuleOk'
  BY <1>1, <1>5, SwitchContinues DEF Switch, ModuleOk
<1>6. ASSUME NEW o \in Op, Place(o) \/ OpenManifest(o) \/ CopyManifest(o) PROVE ModuleOk'
  <2>1. op[o].version \in Version
    BY <1>1, <1>6, NextStep DEF Place, OpenManifest, CopyManifest, Places
  <2> QED BY <1>1, <1>6, <2>1 DEF Place, OpenManifest, CopyManifest, ModuleOk
<1>7. ASSUME NEW o \in Op, Ensure(o) \/ Revoke(o) \/ Unlink(o) PROVE ModuleOk'
  BY <1>1, <1>7 DEF Ensure, Revoke, Unlink, ModuleOk
<1>8. ASSUME NEW o \in Op, Relink(o) PROVE ModuleOk'
  BY <1>1, <1>8 DEF Relink, ModuleOk, OpsOk, OpRow
<1>9. ASSUME NEW o \in Op, NEW hook, Hook(o, hook) PROVE ModuleOk'
  <2>1. running' \in BOOLEAN
    BY <1>1, <1>9, HookCases DEF Hook, ModuleOk
  <2> QED BY <1>1, <1>9, <2>1 DEF Hook, ModuleOk
<1>10. ASSUME NEW o \in Op, WriteState(o) PROVE ModuleOk'
  <2>1. file' \in [status : Status, version : Version \cup {None}]
    BY <1>10, StateWritten DEF WriteState
  <2> QED BY <1>1, <1>10, <2>1 DEF WriteState, ModuleOk
<1>11. ASSUME NEW o \in Op, Fail(o) PROVE ModuleOk'
  <2>1. granted' \in BOOLEAN /\ running' \in BOOLEAN
    BY <1>1, <1>11, FailedHelperCases, FailedHookCases DEF Fail, ModuleOk
  <2>2. disturbed' \in BOOLEAN
    <3>1. ASSUME NEW b \in BOOLEAN, NEW c \in BOOLEAN, NEW d \in BOOLEAN, NEW e \in BOOLEAN
          PROVE  (disturbed \/ b \/ c \/ d \/ e) \in BOOLEAN
      BY <1>1 DEF ModuleOk
    <3>2. op[o].back \in BOOLEAN
      BY <1>1 DEF OpsOk, OpRow
    <3> QED BY <1>11, <2>1, <3>1, <3>2 DEF Fail
  <2> QED BY <1>1, <1>11, <2>1, <2>2 DEF Fail, ModuleOk
<1>12. CASE ActivateLicense
  BY <1>1, <1>12 DEF ActivateLicense, ModuleOk, module
<1>13. CASE BeginTransfer
  <2>1. ASSUME NEW b \in BOOLEAN PROVE (disturbed \/ b) \in BOOLEAN
    BY <1>1 DEF ModuleOk
  <2>2. disturbed' \in BOOLEAN
    BY <1>13, <2>1 DEF BeginTransfer
  <2> QED BY <1>1, <1>13, <2>2 DEF BeginTransfer, ModuleOk, module
<1>14. CASE EndTransfer
  BY <1>1, <1>14 DEF EndTransfer, ModuleOk, module
<1>15. CASE Restart
  <2>1. ASSUME NEW b \in BOOLEAN PROVE (disturbed \/ b) \in BOOLEAN
    BY <1>1 DEF ModuleOk
  <2>2. disturbed' \in BOOLEAN
    BY <1>15, <2>1 DEF Restart
  <2> QED BY <1>1, <1>15, <2>2 DEF Restart, ModuleOk, module
<1>16. ASSUME NEW o \in Op, Plain(o) PROVE ModuleOk'
  BY <1>6, <1>7, <1>8, <1>9, <1>10, <1>16 DEF Plain
<1> QED BY <1>3, <1>4, <1>5, <1>11, <1>12, <1>13, <1>14, <1>15, <1>16, NextCases

-----------------------------------------------------------------------------
(* The link *)

\* A directory that has had its manifest has it, or has it written again.
LEMMA BegunStays ==
    ASSUME Typed, Shape, Next, NEW v \in Version, Begun(v)
    PROVE  Begun(v)'
<1>1. ASSUME NEW o \in Op, Place(o) \/ OpenManifest(o) \/ CopyManifest(o) PROVE Begun(v)'
  BY <1>1 DEF Place, OpenManifest, CopyManifest, Begun, Typed, ModuleOk
<1>2. CASE UNCHANGED release
  BY <1>2 DEF Begun
<1>3. ASSUME NEW o \in Op, Plain(o) PROVE Begun(v)' \/ UNCHANGED release
  BY <1>1, <1>3 DEF Plain, Ensure, Revoke, Hook, Unlink, Relink, WriteState
<1>4. ASSUME NEW o \in Op, Fail(o) PROVE UNCHANGED release
  BY <1>4 DEF Fail
<1>5. ASSUME NEW o \in Op,
             \/ \E a \in Action : Check(o, a)
             \/ Spawn(o) \/ Record(o)
             \/ \E w \in Version : Fetch(o, w)
             \/ Verify(o) \/ ReadPrevious(o) \/ Switch(o) \/ ReadCurrent(o)
      PROVE  UNCHANGED release
  BY <1>5 DEF Check, Spawn, Record, Fetch, Verify, ReadPrevious, Switch, ReadCurrent, module
<1>6. CASE ActivateLicense \/ BeginTransfer \/ EndTransfer \/ Restart
  BY <1>2, <1>6 DEF ActivateLicense, BeginTransfer, EndTransfer, Restart, module
<1> QED BY <1>2, <1>3, <1>4, <1>5, <1>6, NextCases

\* A step of one command that unpacks no release again keeps what is begun.
LEMMA KeptFrame ==
    ASSUME Typed, Shape, Kept, \A v \in Version : Begun(v) => Begun(v)',
           NEW o \in Op, NEW S, Continues(o, S), S # {} => KeptAt(o)',
           current' # None => Begun(current)'
    PROVE  Kept'
<1>1. CurrentWasComplete'
  BY DEF CurrentWasComplete, Begun
<1>2. ASSUME NEW p \in Op, Alive(p)', p # o PROVE KeptAt(p)'
  <2>1. op'[p] = op[p] /\ Alive(p) /\ op[p] \in OpRow
    BY <1>2 DEF Continues, Alive, Typed, OpsOk
  <2>2. KeptAt(p) /\ op[p].previous \in Version \cup {None} /\ ShapeAt(p)
    BY <2>1 DEF Kept, OpRow, Shape
  <2>3. (IsPlacing(p)' <=> IsPlacing(p)) /\ Left(p)' = Left(p)
    BY <2>1 DEF IsPlacing, Left, Steps, Installs
  <2>4. IsPlacing(p) => op[p].version \in Version
    BY <2>2 DEF IsPlacing, ShapeAt, Applies, Undoes
  <2> QED BY <2>1, <2>2, <2>3, <2>4 DEF KeptAt, Begun
<1>3. ASSUME Alive(o)' PROVE KeptAt(o)'
  BY <1>3, IdleRow DEF Continues, Alive
<1> QED BY <1>1, <1>2, <1>3 DEF Kept

\* A command that goes on as before, with the link where it was.
LEMMA KeptOn ==
    ASSUME Typed, Shape, Kept, \A v \in Version : Begun(v) => Begun(v)',
           NEW o \in Op, NEW S, Continues(o, S), S # {} => KeptAt(o)', UNCHANGED current
    PROVE  Kept'
<1>1. current' # None => Begun(current)'
  BY DEF Kept, CurrentWasComplete, Begun, Typed, ModuleOk
<1> QED BY <1>1, KeptFrame

\* A release that a command or the link names stays begun.
LEMMA NextKept ==
    ASSUME Typed, Shape, Kept, Next
    PROVE  Kept'
<1>1. OpsOk /\ ModuleOk /\ OpsOk' /\ Shape'
  BY OpsKept DEF Typed
<1>2. \A v \in Version : Begun(v) => Begun(v)'
  BY BegunStays
<1>3. ASSUME NEW o \in Op, NEW a \in Action, Check(o, a) PROVE Kept'
  <2>1. /\ ~Alive(o)' /\ \A p \in Op : p # o => op'[p] = op[p]
    BY <1>1, <1>3, CheckContinues
  <2>2. UNCHANGED <<release, current>>
    BY <1>3 DEF Check, module
  <2> QED BY <2>1, <2>2 DEF Kept, KeptAt, CurrentWasComplete, Alive, IsPlacing, Left, Begun
<1>4. ASSUME NEW o \in Op, Spawn(o) PROVE Kept'
  <2>1. PICK S : Continues(o, S) /\ "switch" \notin S /\ op'[o].previous = None /\ S # {}
    <3>1. /\ Continues(o, IF op[o].action \in Installs THEN {"fetch"} ELSE {"read"})
          /\ op'[o].previous = None
      BY <1>1, <1>4, SpawnContinues
    <3> QED BY <3>1
  <2>2. KeptAt(o)'
    BY <2>1 DEF KeptAt, IsPlacing, Continues
  <2>3. UNCHANGED current
    BY <1>4 DEF Spawn, module
  <2> QED BY <1>2, <2>1, <2>2, <2>3, KeptOn
<1>5. ASSUME NEW o \in Op, Record(o) PROVE Kept'
  <2>1. Continues(o, Left(o)) /\ SameCommand(o) /\ Alive(o) /\ Left(o) # {}
    BY <1>1, <1>5, RecordContinues
  <2>2. UNCHANGED <<current, release>>
    BY <1>5 DEF Record, module
  <2>3. KeptAt(o)'
    BY <2>1, <2>2 DEF Kept, KeptAt, IsPlacing, Continues, SameCommand, Begun
  <2> QED BY <1>2, <2>1, <2>2, <2>3, KeptOn
<1>6. ASSUME NEW o \in Op, NEW v \in Version, Fetch(o, v) PROVE Kept'
  <2>1. Continues(o, {"verify"}) /\ op'[o].previous = op[o].previous /\ At(o, "fetch")
    BY <1>1, <1>6, FetchContinues
  <2>2. UNCHANGED <<current, release>> /\ KeptAt(o)
    BY <1>6, <2>1 DEF Fetch, module, Kept, At
  <2>3. KeptAt(o)'
    BY <2>1, <2>2 DEF KeptAt, IsPlacing, Continues, Begun
  <2> QED BY <1>2, <2>1, <2>2, <2>3, KeptOn
<1>7. ASSUME NEW o \in Op, Verify(o) PROVE Kept'
  <2>1. PICK S : Continues(o, S) /\ "manifest" \in S
    BY <1>1, <1>7, VerifyContinues
  <2>2. UNCHANGED <<current, release>> /\ KeptAt(o) /\ SameCommand(o)
    BY <1>1, <1>7, VerifyContinues DEF Verify, module, Kept, At
  <2>3. KeptAt(o)'
    BY <2>1, <2>2 DEF KeptAt, IsPlacing, Continues, Begun, SameCommand
  <2> QED BY <1>2, <2>1, <2>2, <2>3, KeptOn
<1>8. ASSUME NEW o \in Op, ReadPrevious(o) PROVE Kept'
  <2>1. /\ Continues(o, Left(o) \ {"previous"}) /\ At(o, "previous") /\ IsPlacing(o)
        /\ op'[o].previous = current /\ op'[o].version = op[o].version
        /\ Left(o) \ {"previous"} # {} /\ \A x \in Left(o) \ {"previous"} : x = "switch"
    BY <1>8, ReadPreviousContinues
  <2>2. UNCHANGED <<current, release>> /\ KeptAt(o)
    BY <1>8, <2>1 DEF ReadPrevious, module, Kept, At
  <2>3. "manifest" \notin Left(o)
    BY <2>1
  <2>4. KeptAt(o)'
    BY <2>1, <2>2, <2>3 DEF KeptAt, Continues, Begun, Kept, CurrentWasComplete
  <2> QED BY <1>2, <2>1, <2>2, <2>4, KeptOn
<1>9. ASSUME NEW o \in Op, Switch(o) PROVE Kept'
  <2>1. PICK S : Continues(o, S) /\ S \subseteq Applies /\ "write" \in S
    BY <1>1, <1>9, SwitchContinues
  <2>2. /\ SameCommand(o) /\ Left(o) = {"switch"} /\ IsPlacing(o) /\ At(o, "switch")
        /\ op[o].version \in Version
    BY <1>1, <1>9, SwitchContinues
  <2>3. current' = op[o].version /\ UNCHANGED release /\ KeptAt(o)
    BY <1>9, <2>2 DEF Switch, Kept, At
  <2>4. KeptAt(o)'
    BY <2>1, <2>2, <2>3 DEF KeptAt, IsPlacing, Continues, Begun, SameCommand, Applies
  <2>5. current' # None => Begun(current)'
    BY <2>2, <2>3 DEF KeptAt, Begun
  <2> QED BY <1>2, <2>1, <2>4, <2>5, KeptFrame
<1>10. ASSUME NEW o \in Op, ReadCurrent(o) PROVE Kept'
  <2>1. /\ op'[o].previous = op[o].previous /\ At(o, "read")
        /\ op'[o].action = op[o].action /\ op[o].action \notin Installs
    BY <1>1, <1>10, ReadCurrentContinues, NextStep
  <2>2. PICK S : Continues(o, S)
    BY <1>10, ReadCurrentContinues
  <2>3. UNCHANGED <<current, release>> /\ KeptAt(o)
    BY <1>10, <2>1 DEF ReadCurrent, module, Kept, At
  <2>4. KeptAt(o)'
    BY <2>1, <2>3 DEF KeptAt, IsPlacing, Begun, Installs
  <2> QED BY <1>2, <2>2, <2>3, <2>4, KeptOn
<1>11. ASSUME NEW o \in Op, Plain(o) PROVE Kept'
  <2>1. PICK s : At(o, s) /\ Then(o)
    BY <1>1, <1>11, PlainContinues
  <2>2. /\ Continues(o, Left(o) \ {s}) /\ (Left(o) # {s} => SameCommand(o)) /\ s \in Left(o)
    BY <1>1, <2>1, ThenContinues
  <2>3. KeptAt(o) /\ op[o].previous \in Version \cup {None} /\ ShapeAt(o)
    BY <1>1, <2>1 DEF Kept, At, OpsOk, OpRow, Shape
  <2>4. IsPlacing(o) => op[o].version \in Version
    BY <2>3 DEF IsPlacing, ShapeAt, Applies, Undoes
  <2>5. s = "manifest" => Begun(op[o].version)' \/ ~IsPlacing(o)
    <3> SUFFICES ASSUME s = "manifest", IsPlacing(o) PROVE Begun(op[o].version)'
      OBVIOUS
    <3>1. CopyManifest(o)
      BY <1>11, <2>1 DEF Plain, At, Place, OpenManifest, CopyManifest, Ensure, Revoke, Hook,
         Unlink, Relink, WriteState
    <3>2. op'[o].version = op[o].version
      BY <2>2 DEF IsPlacing, SameCommand
    <3> QED BY <1>1, <2>4, <3>1, <3>2 DEF CopyManifest, Begun, ModuleOk
  <2>6. ASSUME Left(o) \ {s} # {} PROVE KeptAt(o)'
    <3>1. SameCommand(o) /\ Left(o)' = Left(o) \ {s}
      BY <2>2, <2>6 DEF Continues
    <3>2. op'[o].previous # None => release'[op'[o].previous] \in {"torn", "complete"}
      BY <1>2, <2>3, <3>1 DEF KeptAt, Begun, SameCommand
    <3>3. IsPlacing(o)' /\ "manifest" \notin Left(o)' =>
             release'[op'[o].version] \in {"torn", "complete"}
      <4> SUFFICES ASSUME IsPlacing(o)', "manifest" \notin Left(o)'
                   PROVE  release'[op[o].version] \in {"torn", "complete"}
        BY <3>1 DEF SameCommand
      <4>1. IsPlacing(o)
        BY <3>1 DEF IsPlacing, SameCommand, Installs
      <4>2. CASE s = "manifest"
        BY <2>5, <3>1, <4>1, <4>2 DEF Begun, SameCommand
      <4>3. CASE s # "manifest"
        BY <1>2, <2>3, <2>4, <3>1, <4>1, <4>3 DEF KeptAt, Begun
      <4> QED BY <4>2, <4>3
    <3> QED BY <3>2, <3>3 DEF KeptAt, Begun
  <2>7. CASE UNCHANGED current \/ current' = None
    <3>1. current' # None => Begun(current)'
      BY <1>1, <1>2, <2>7 DEF Kept, CurrentWasComplete, Begun, ModuleOk
    <3> QED BY <1>2, <2>2, <2>6, <3>1, KeptFrame
  <2>8. CASE Relink(o)
    <3>1. current' = op[o].previous /\ UNCHANGED release
      BY <2>8 DEF Relink
    <3>2. current' # None => Begun(current)'
      BY <2>3, <3>1 DEF KeptAt, Begun
    <3> QED BY <1>2, <2>2, <2>6, <3>2, KeptFrame
  <2> QED BY <1>11, <2>7, <2>8 DEF Plain, Place, OpenManifest, CopyManifest, Ensure, Revoke, Hook,
         Unlink, WriteState
<1>12. ASSUME NEW o \in Op, Fail(o) PROVE Kept'
  <2>1. PICK S :
           /\ Continues(o, S)
           /\ S # {} => op'[o].action = op[o].action /\ op'[o].previous = op[o].previous
           /\ Head(op[o].todo) = "forget" => S = Left(o) \ {"forget"}
           /\ Applying(op[o]) => S \subseteq Undoes
           /\ ~Applying(op[o]) /\ Head(op[o].todo) # "forget" =>
                 S = {} \/ S \subseteq {"forget", "error"} \/ S = {"error"}
    BY <1>1, <1>12, FailContinues
  <2>2. At(o, Head(op[o].todo)) /\ UNCHANGED <<current, release>>
    BY <1>12 DEF Fail, At
  <2>3. KeptAt(o) /\ ShapeAt(o) /\ Head(op[o].todo) \in Left(o) /\ op[o].action \in Action
    BY <1>1, <2>2, NextStep DEF Kept, At, OpRow
  <2>4. op[o].action \in Installs => "switch" \notin S
    <3>1. Head(op[o].todo) = "forget" /\ op[o].action \in Installs => "switch" \notin Left(o)
      BY <2>3 DEF ShapeAt, Places, Applies, Undoes
    <3> QED BY <2>1, <3>1 DEF Undoes
  <2>5. S # {} => KeptAt(o)'
    BY <2>1, <2>2, <2>3, <2>4 DEF KeptAt, IsPlacing, Continues, Begun, Installs
  <2> QED BY <1>2, <2>1, <2>2, <2>5, KeptOn
<1>13. CASE ActivateLicense \/ BeginTransfer \/ EndTransfer
  BY <1>13 DEF ActivateLicense, BeginTransfer, EndTransfer, module, Kept, KeptAt,
     CurrentWasComplete, Alive, IsPlacing, Left, Begun
<1>14. CASE Restart
  <2>1. \A o \in Op : ~Alive(o)'
    BY <1>1, <1>14, RestartOps
  <2> QED BY <1>14, <2>1 DEF Restart, module, Kept, CurrentWasComplete
<1> QED BY <1>3, <1>4, <1>5, <1>6, <1>7, <1>8, <1>9, <1>10, <1>11, <1>12, <1>13, <1>14, NextCases

-----------------------------------------------------------------------------
(* Nothing unexcluded happens *)

\* The kinds of commands exclude each other.
LEMMA Kinds ==
    ASSUME OpsOk, NEW o \in Op, ShapeAt(o)
    PROVE  /\ IsPlacing(o) => ~IsApplying(o) /\ ~IsUndoing(o)
           /\ IsApplying(o) => ~IsUndoing(o)
           /\ IsPlacing(o) \/ IsApplying(o) \/ IsUndoing(o) =>
                 ~IsEnabling(o) /\ ~IsDisabling(o) /\ ~IsRemoving(o)
           /\ IsEnabling(o) => ~IsDisabling(o) /\ ~IsRemoving(o)
           /\ IsDisabling(o) => ~IsRemoving(o)
<1>1. op[o].back \in BOOLEAN /\ op[o].action \in Action
  BY DEF OpsOk, OpRow
<1> QED BY <1>1 DEF ShapeAt, IsPlacing, IsApplying, IsUndoing, IsEnabling, IsDisabling,
  IsRemoving,
           Installs, Places, Applies, Undoes

\* Then the command that runs is the only one, and the only one to write a
\* manifest again.
LEMMA Quiet ==
    ASSUME Typed, Shape, Kept, Sound, ~disturbed, NEW o \in Op, NEW s, At(o, s)
    PROVE  /\ ~transfer /\ \A p \in Op : p # o => ~Alive(p)
           /\ SoundAt(o)
           /\ \A v \in Version : release[v] = "torn" => s = "manifest" /\ op[o].version = v
           /\ s # "manifest" => /\ TornByOne
                                /\ current # None => release[current] = "complete"
<1>1. Alive(o) /\ \A x : At(o, x) => x = s
  BY DEF At
<1>2. ~transfer /\ (\A p \in Op : p # o => ~Alive(p)) /\ SoundAt(o) /\ TornByOne
  BY <1>1 DEF Sound, Alone
<1>3. \A v \in Version : release[v] = "torn" => s = "manifest" /\ op[o].version = v
  BY <1>1, <1>2 DEF TornByOne, At
<1>4. s # "manifest" /\ current # None => release[current] = "complete"
  BY <1>3 DEF Kept, CurrentWasComplete, Typed, ModuleOk
<1> QED BY <1>2, <1>3, <1>4

\* It goes on alone.
LEMMA SoundOn ==
    ASSUME Typed, NEW o \in Op, \A p \in Op : p # o => ~Alive(p), NEW S, Continues(o, S),
           ~transfer', TornByOne', S # {} => SoundAt(o)', S = {} => Truth'
    PROVE  Sound'
<1>1. \A p \in Op : p # o => ~Alive(p)'
  BY DEF Continues, Alive
<1>2. S # {} => Alive(o)'
  BY DEF Continues
<1>3. S = {} => ~Alive(o)'
  BY IdleRow DEF Continues, Alive
<1>4. Alone' /\ Released'
  BY <1>1 DEF Alone, Released
<1>5. ASSUME NEW p \in Op, Alive(p)' PROVE SoundAt(p)'
  <2>1. p = o /\ S # {}
    BY <1>1, <1>3, <1>5
  <2> QED BY <2>1
<1>6. AtRest' => Truth'
  BY <1>2 DEF AtRest
<1> QED BY <1>4, <1>5, <1>6 DEF Sound

\* No release is torn.
LEMMA NoneTorn ==
    ASSUME \A v \in Version : release'[v] # "torn"
    PROVE  TornByOne'
BY DEF TornByOne

-----------------------------------------------------------------------------
(* What makes each kind of command sound *)

\* A command that has written nothing yet, or has written all it will, leaves the
\* module true.
LEMMA PlainSound ==
    ASSUME NEW o \in Op, ~op'[o].back, NEW l, Left(o)' = l,
           \/ op'[o].action \in Installs /\ "switch" \notin l /\ "write" \notin l
           \/ op'[o].action \in {"enable", "disable", "uninstall"} /\ l = {"read"}
           \/ op'[o].action = "disable" /\ "write" \notin l,
           Truth'
    PROVE  SoundAt(o)'
BY DEF SoundAt, IsPlacing, IsApplying, IsUndoing, IsEnabling, IsDisabling, IsRemoving, Installs,
   Disabled

\* A command that places a release.
LEMMA PlacingSound ==
    ASSUME NEW o \in Op, op'[o].action \in Installs, ~op'[o].back, NEW l, Left(o)' = l,
           "switch" \in l, l \subseteq Places, NEW p, NEW v, NEW st,
           op'[o].previous = p, op'[o].version = v, op'[o].status = st,
           Placed(p, v, st, l)', Truth'
    PROVE  SoundAt(o)'
<1>1. ~IsApplying(o)' /\ ~IsUndoing(o)' /\ ~IsEnabling(o)' /\ ~IsDisabling(o)' /\ ~IsRemoving(o)'
  BY DEF IsApplying, IsUndoing, IsEnabling, IsDisabling, IsRemoving, Installs, Places
<1> QED BY <1>1 DEF SoundAt, Placed, Prior, Entitled

\* A command that applies a release.
LEMMA ApplyingSound ==
    ASSUME NEW o \in Op, op'[o].action \in Installs, ~op'[o].back, NEW l, Left(o)' = l,
           "write" \in l, l \subseteq Applies, NEW p, NEW v, NEW st,
           op'[o].previous = p, op'[o].version = v, op'[o].status = st,
           Applied(p, v, st, l)'
    PROVE  SoundAt(o)'
<1>1. ~IsPlacing(o)' /\ ~IsUndoing(o)' /\ ~IsEnabling(o)' /\ ~IsDisabling(o)' /\ ~IsRemoving(o)'
      /\ IsApplying(o)'
  BY DEF IsPlacing, IsApplying, IsUndoing, IsEnabling, IsDisabling, IsRemoving, Installs, Applies
<1> QED BY <1>1 DEF SoundAt, Applied, Prior, Entitled, GrantsOnly, GoesOff

\* A command that undoes an install.
LEMMA UndoingSound ==
    ASSUME NEW o \in Op, op'[o].action \in Installs, op'[o].back, NEW l, Left(o)' = l,
           l \subseteq Undoes, NEW p, NEW v, NEW st,
           op'[o].previous = p, op'[o].version = v, op'[o].status = st,
           Undone(p, v, st, l)'
    PROVE  SoundAt(o)'
<1>1. ~IsPlacing(o)' /\ ~IsApplying(o)' /\ ~IsEnabling(o)' /\ ~IsDisabling(o)' /\ ~IsRemoving(o)'
      /\ IsUndoing(o)'
  BY DEF IsPlacing, IsApplying, IsUndoing, IsEnabling, IsDisabling, IsRemoving, Installs, Undoes
<1> QED BY <1>1 DEF SoundAt, Undone, Prior, GrantsOnly, GoesOff

\* A command that enables the module.
LEMMA EnablingSound ==
    ASSUME NEW o \in Op, op'[o].action = "enable", ~op'[o].back, NEW l, Left(o)' = l,
           "read" \notin l, NEW v, NEW st, op'[o].version = v, op'[o].status = st,
           Enabled(v, st, l)'
    PROVE  SoundAt(o)'
<1>1. ~IsPlacing(o)' /\ ~IsApplying(o)' /\ ~IsUndoing(o)' /\ ~IsDisabling(o)' /\ ~IsRemoving(o)'
      /\ IsEnabling(o)'
  BY DEF IsPlacing, IsApplying, IsUndoing, IsEnabling, IsDisabling, IsRemoving, Installs
<1> QED BY <1>1 DEF SoundAt, Enabled, Entitled, Named, Gone, Licensed, ScopedOnly, Off

\* A command that disables the module.
LEMMA DisablingSound ==
    ASSUME NEW o \in Op, op'[o].action = "disable", ~op'[o].back, NEW l, Left(o)' = l,
           NEW v, NEW st, op'[o].version = v, op'[o].status = st,
           Disabled(v, st, l)', Truth'
    PROVE  SoundAt(o)'
<1>1. ~IsPlacing(o)' /\ ~IsApplying(o)' /\ ~IsUndoing(o)' /\ ~IsEnabling(o)' /\ ~IsRemoving(o)'
  BY DEF IsPlacing, IsApplying, IsUndoing, IsEnabling, IsRemoving, Installs
<1> QED BY <1>1 DEF SoundAt, Disabled

\* A command that removes the module.
LEMMA RemovingSound ==
    ASSUME NEW o \in Op, op'[o].action = "uninstall", ~op'[o].back, NEW l, Left(o)' = l,
           NEW st, op'[o].status = st, Removed(st, l)', Truth'
    PROVE  SoundAt(o)'
<1>1. ~IsPlacing(o)' /\ ~IsApplying(o)' /\ ~IsUndoing(o)' /\ ~IsEnabling(o)' /\ ~IsDisabling(o)'
  BY DEF IsPlacing, IsApplying, IsUndoing, IsEnabling, IsDisabling, Installs
<1> QED BY <1>1 DEF SoundAt, Removed

\* A rollback that has come to its end.
LEMMA UndoneTruth ==
    ASSUME Releases, NEW p, NEW v, NEW st, Undone(p, v, st, {})'
    PROVE  Truth'
BY DEF Releases, Undone, Prior, GrantsOnly, GoesOff, Truth, Named, Gone, Licensed,
   ScopedOnly, Off

\* What it says of a command hangs on nothing else.
LEMMA SameSound ==
    ASSUME NEW o \in Op, SoundAt(o), UNCHANGED <<module, certificate>>, SameCommand(o),
           Left(o)' = Left(o)
    PROVE  SoundAt(o)'
<1> USE DEF SameCommand, module
<1>1. /\ IsPlacing(o)' <=> IsPlacing(o)
      /\ IsApplying(o)' <=> IsApplying(o)
      /\ IsUndoing(o)' <=> IsUndoing(o)
      /\ IsEnabling(o)' <=> IsEnabling(o)
      /\ IsDisabling(o)' <=> IsDisabling(o)
      /\ IsRemoving(o)' <=> IsRemoving(o)
  BY DEF IsPlacing, IsApplying, IsUndoing, IsEnabling, IsDisabling, IsRemoving, Installs
<1>2. Truth' <=> Truth
  BY DEF Truth, Named, Gone, Licensed, ScopedOnly, Off
<1>3. PICK p, v, st, l : /\ p = op[o].previous /\ v = op[o].version /\ st = op[o].status
                         /\ l = Left(o)
  OBVIOUS
<1>4. IsPlacing(o) => Placed(op[o].previous, op[o].version, op[o].status, Left(o))'
  BY <1>3 DEF SoundAt, Placed, Prior, Entitled
<1>5. IsApplying(o) => Applied(op[o].previous, op[o].version, op[o].status, Left(o))'
  BY <1>3 DEF SoundAt, Applied, Prior, Entitled, GrantsOnly, GoesOff
<1>6. IsUndoing(o) => Undone(op[o].previous, op[o].version, op[o].status, Left(o))'
  BY <1>3 DEF SoundAt, Undone, Prior, GrantsOnly, GoesOff
<1>7. IsEnabling(o) => Enabled(op[o].version, op[o].status, Left(o))'
  BY <1>3 DEF SoundAt, Enabled, Entitled, Named, Gone, Licensed, ScopedOnly, Off
<1>8. IsDisabling(o) => Disabled(op[o].version, op[o].status, Left(o))'
  BY <1>3 DEF SoundAt, Disabled
<1>9. IsRemoving(o) => Removed(op[o].status, Left(o))'
  BY <1>3 DEF SoundAt, Removed
<1> QED BY <1>1, <1>2, <1>4, <1>5, <1>6, <1>7, <1>8, <1>9 DEF SoundAt

-----------------------------------------------------------------------------
(* Each step leaves the state sound *)

\* A look at the recorded operations changes nothing of the module.
LEMMA CheckSound ==
    ASSUME Typed, Shape, Kept, Sound, ~disturbed, NEW o \in Op, NEW a \in Action, Check(o, a)
    PROVE  Sound'
<1>1. /\ ~Alive(o) /\ ~Alive(o)' /\ \A p \in Op : p # o => op'[p] = op[p]
  BY CheckContinues DEF Typed
<1>2. UNCHANGED <<module, certificate, transfer, disturbed>>
  BY DEF Check
<1>3. \A p \in Op : Alive(p)' <=> Alive(p)
  BY <1>1 DEF Alive
<1>4. Alone' /\ Released' /\ (AtRest' => Truth')
  BY <1>2, <1>3 DEF Sound, Alone, Released, AtRest, Truth, Named, Gone, Licensed, ScopedOnly, Off,
     module
<1>5. ASSUME NEW p \in Op, Alive(p)' PROVE SoundAt(p)'
  <2>1. op'[p] = op[p] /\ SoundAt(p)
    BY <1>1, <1>3, <1>5 DEF Sound
  <2>2. SameCommand(p) /\ Left(p)' = Left(p)
    BY <2>1 DEF SameCommand, Left, Steps
  <2> QED BY <1>2, <2>1, <2>2, SameSound
<1>6. TornByOne'
  <2> SUFFICES ASSUME NEW v \in Version, release'[v] = "torn"
               PROVE  \E p \in Op : At(p, "manifest")' /\ op'[p].version = v
    BY DEF TornByOne
  <2>1. PICK p \in Op : At(p, "manifest") /\ op[p].version = v
    BY <1>2 DEF Sound, TornByOne, module
  <2>2. op'[p] = op[p]
    BY <1>1, <2>1 DEF At
  <2> QED BY <2>1, <2>2 DEF At, Alive
<1> QED BY <1>2, <1>4, <1>5, <1>6 DEF Sound

\* A command that starts alone finds the module at rest.
LEMMA SpawnSound ==
    ASSUME Typed, Shape, Kept, Sound, ~disturbed', NEW o \in Op, Spawn(o)
    PROVE  Sound'
<1>1. ~disturbed /\ ~transfer /\ AtRest
  BY DEF Spawn, AtRest
<1>2. PICK l : /\ Continues(o, l) /\ l # {}
               /\ \/ op[o].action \in Installs /\ l = {"fetch"}
                  \/ op[o].action \notin Installs /\ l = {"read"}
  <2>1. Continues(o, IF op[o].action \in Installs THEN {"fetch"} ELSE {"read"})
    BY SpawnContinues DEF Typed
  <2> QED BY <2>1
<1>3. SameCommand(o) /\ ~op'[o].back
  BY SpawnContinues DEF Typed
<1>4. UNCHANGED <<module, certificate, transfer>>
  BY DEF Spawn
<1>5. Truth'
  BY <1>1, <1>4 DEF Sound, Truth, Named, Gone, Licensed, ScopedOnly, Off, module
<1>6. op'[o].action \in Action /\ Left(o)' = l
  BY <1>2 DEF Continues, OpsOk, OpRow
<1>7. SoundAt(o)'
  BY <1>2, <1>3, <1>5, <1>6, PlainSound DEF SameCommand, Action
<1>8. TornByOne'
  BY <1>1, <1>4 DEF Sound, TornByOne, AtRest, At, module
<1> QED BY <1>1, <1>2, <1>4, <1>7, <1>8, SoundOn DEF AtRest

\* Recording a command changes nothing of the module.
LEMMA RecordSound ==
    ASSUME Typed, Shape, Kept, Sound, ~disturbed, NEW o \in Op, Record(o)
    PROVE  Sound'
<1>1. /\ Alive(o) /\ Left(o) # {} /\ Continues(o, Left(o)) /\ SameCommand(o)
      /\ op'[o].todo = op[o].todo
  BY RecordContinues DEF Typed
<1>2. UNCHANGED <<module, certificate, transfer>>
  BY DEF Record
<1>3. At(o, Head(op[o].todo))
  BY <1>1 DEF At
<1>4. ~transfer /\ (\A p \in Op : p # o => ~Alive(p)) /\ SoundAt(o)
  BY <1>3, Quiet
<1>5. SoundAt(o)'
  <2>1. Left(o)' = Left(o)
    BY <1>1 DEF Continues
  <2> QED BY <1>1, <1>2, <1>4, <2>1, SameSound
<1>6. TornByOne'
  <2>1. \A v \in Version : release[v] = "torn" => At(o, "manifest") /\ op[o].version = v
    BY <1>3, Quiet DEF At
  <2>2. Alive(o)'
    BY <1>1 DEF Continues
  <2> QED BY <1>1, <1>2, <2>1, <2>2 DEF TornByOne, At, SameCommand, module
<1> QED BY <1>1, <1>2, <1>4, <1>5, <1>6, SoundOn

\* The answer of the catalogue changes nothing of the module.
LEMMA FetchSound ==
    ASSUME Typed, Shape, Kept, Sound, ~disturbed, NEW o \in Op, NEW v \in Version, Fetch(o, v)
    PROVE  Sound'
<1>1. /\ At(o, "fetch") /\ Continues(o, {"verify"}) /\ op'[o].action = op[o].action
      /\ ~op'[o].back
  BY FetchContinues DEF Typed
<1>2. op[o].action \in Installs /\ ~op[o].back /\ Left(o) = {"fetch"}
  BY <1>1, NextStep DEF Typed
<1>3. UNCHANGED <<module, certificate, transfer>>
  BY DEF Fetch
<1>4. /\ ~transfer /\ (\A p \in Op : p # o => ~Alive(p)) /\ SoundAt(o)
      /\ \A w \in Version : release[w] # "torn"
  BY <1>1, Quiet
<1>5. Truth'
  <2>1. ~IsApplying(o) /\ ~IsUndoing(o) /\ ~IsEnabling(o)
    BY <1>2 DEF IsApplying, IsUndoing, IsEnabling, Installs
  <2> QED BY <1>3, <1>4, <2>1 DEF SoundAt, Truth, Named, Gone, Licensed, ScopedOnly, Off, module
<1>6. SoundAt(o)'
  <2>1. Left(o)' = {"verify"}
    BY <1>1 DEF Continues
  <2> QED BY <1>1, <1>2, <1>5, <2>1, PlainSound
<1>7. TornByOne'
  BY <1>3, <1>4, NoneTorn DEF module
<1> QED BY <1>1, <1>3, <1>4, <1>6, <1>7, SoundOn

\* Only a release the licence allows is put in place.
LEMMA VerifySound ==
    ASSUME Typed, Shape, Kept, Sound, ~disturbed, NEW o \in Op, Verify(o)
    PROVE  Sound'
<1>1. /\ At(o, "verify") /\ SameCommand(o)
  BY VerifyContinues DEF Typed
<1>2. PICK l : /\ l \subseteq Places /\ {"manifest", "previous", "switch"} \subseteq l
               /\ Continues(o, l)
  BY VerifyContinues DEF Typed
<1>3. op[o].action \in Installs /\ ~op[o].back /\ Left(o) = {"verify"}
  BY <1>1, NextStep DEF Typed
<1>4. UNCHANGED <<module, certificate, transfer>> /\ Entitled(op[o].version)
  BY DEF Verify
<1>5. /\ ~transfer /\ (\A p \in Op : p # o => ~Alive(p)) /\ SoundAt(o)
      /\ \A w \in Version : release[w] # "torn"
  BY <1>1, Quiet
<1>6. Truth'
  <2>1. ~IsApplying(o) /\ ~IsUndoing(o) /\ ~IsEnabling(o)
    BY <1>3 DEF IsApplying, IsUndoing, IsEnabling, Installs
  <2> QED BY <1>4, <1>5, <2>1 DEF SoundAt, Truth, Named, Gone, Licensed, ScopedOnly, Off, module
<1>7. SoundAt(o)'
  <2>1. PICK p, v, st : p = op[o].previous /\ v = op[o].version /\ st = op[o].status
    OBVIOUS
  <2>2. Placed(p, v, st, l)'
    BY <1>2, <1>4, <2>1 DEF Placed, Entitled
  <2>3. Left(o)' = l
    BY <1>2 DEF Continues
  <2> QED BY <1>1, <1>2, <1>3, <1>6, <2>1, <2>2, <2>3, PlacingSound DEF SameCommand
<1>8. TornByOne'
  BY <1>4, <1>5, NoneTorn DEF module
<1> QED BY <1>2, <1>4, <1>5, <1>7, <1>8, SoundOn

\* The release to be replaced is the one the file is about.
LEMMA ReadPreviousSound ==
    ASSUME Releases, Typed, Shape, Kept, Sound, ~disturbed, NEW o \in Op, ReadPrevious(o)
    PROVE  Sound'
<1>1. /\ At(o, "previous") /\ IsPlacing(o) /\ Left(o) \subseteq Places
      /\ Left(o) \ {"previous"} # {} /\ \A x \in Left(o) \ {"previous"} : x = "switch"
      /\ Continues(o, Left(o) \ {"previous"})
      /\ op'[o].action = op[o].action /\ op'[o].version = op[o].version
      /\ op'[o].previous = current /\ ~op'[o].back
      /\ op'[o].status = IF current = None THEN "active" ELSE file.status
  BY ReadPreviousContinues
<1>2. Left(o) \ {"previous"} = {"switch"}
  BY <1>1
<1>3. Continues(o, {"switch"}) /\ Left(o)' = {"switch"}
  BY <1>1, <1>2 DEF Continues
<1>4. /\ UNCHANGED <<module, certificate, transfer>>
      /\ Scope(current) => op[o].version \in Scoped
  BY DEF ReadPrevious
<1>5. /\ ~transfer /\ (\A p \in Op : p # o => ~Alive(p)) /\ SoundAt(o)
      /\ \A w \in Version : release[w] # "torn"
      /\ current # None => release[current] = "complete"
  BY <1>1, Quiet
<1>6. ~IsApplying(o) /\ ~IsUndoing(o) /\ ~IsEnabling(o)
  BY <1>1, Kinds DEF Typed, Shape, At
<1>7. Truth /\ Entitled(op[o].version)
  BY <1>1, <1>5, <1>6 DEF SoundAt, Placed
<1>8. Truth'
  BY <1>4, <1>7 DEF Truth, Named, Gone, Licensed, ScopedOnly, Off, module
<1>9. PICK p, v, st : p = current /\ v = op[o].version /\ st = op'[o].status
  OBVIOUS
<1>10. Prior(p, v, st)
  <2>1. current \in Scoped => v \in Scoped
    BY <1>4, <1>5, <1>9 DEF Releases, Scope
  <2> QED BY <1>1, <1>5, <1>7, <1>9, <2>1 DEF Prior, Truth, Named, Gone, Licensed, Releases
<1>11. Placed(p, v, st, {"switch"})'
  BY <1>4, <1>7, <1>9, <1>10 DEF Placed, Prior, Entitled, module
<1>12. SoundAt(o)'
  <2>1. op'[o].action \in Installs
    BY <1>1 DEF IsPlacing
  <2> QED BY <1>1, <1>3, <1>8, <1>9, <1>11, <2>1, PlacingSound DEF Places
<1>13. TornByOne'
  BY <1>4, <1>5, NoneTorn DEF module
<1> QED BY <1>3, <1>4, <1>5, <1>12, <1>13, SoundOn

\* What the link brings in is complete and licensed.
LEMMA SwitchSound ==
    ASSUME Releases, Typed, Shape, Kept, Sound, ~disturbed, NEW o \in Op, Switch(o)
    PROVE  Sound'
<1>1. /\ At(o, "switch") /\ Left(o) = {"switch"} /\ IsPlacing(o)
      /\ op[o].version \in Version /\ SameCommand(o) /\ ~op[o].back
  BY SwitchContinues DEF Typed
<1>2. PICK p, v, st : p = op[o].previous /\ v = op[o].version /\ st = op[o].status
  OBVIOUS
<1>3. PICK l : /\ Continues(o, l) /\ "write" \in l /\ l \subseteq Applies
               /\ "ensure" \in l => v \in Scoped
               /\ st = "disabled" => "activate.py" \notin l
               /\ st = "disabled" /\ v \in Deactivates => "deactivate.py" \in l
               /\ st = "disabled" /\ v \in Deactivates /\ v \in Scoped => "revoke" \in l
  BY <1>2, SwitchContinues DEF Typed
<1>4. /\ current' = v /\ UNCHANGED <<release, file, granted, running, certificate, transfer>>
  BY <1>2 DEF Switch
<1>5. /\ ~transfer /\ (\A q \in Op : q # o => ~Alive(q)) /\ SoundAt(o)
      /\ \A w \in Version : release[w] # "torn"
      /\ current # None => release[current] = "complete"
  BY <1>1, Quiet
<1>6. ~IsApplying(o) /\ ~IsUndoing(o) /\ ~IsEnabling(o)
  BY <1>1, Kinds DEF Typed, Shape, At
<1>7. Truth /\ Entitled(v) /\ p = current /\ Prior(p, v, st)
  BY <1>1, <1>2, <1>5, <1>6 DEF SoundAt, Placed
<1>8. release[v] = "complete"
  <2>1. Begun(v)
    BY <1>1, <1>2 DEF Kept, KeptAt, At
  <2> QED BY <1>1, <1>2, <1>5, <2>1 DEF Begun
<1>9. granted => v \in Scoped
  BY <1>7 DEF Truth, ScopedOnly, Prior
<1>10. Applied(p, v, st, l)'
  <2>1. Prior(p, v, st)' /\ Entitled(v)'
    BY <1>4, <1>7 DEF Prior, Entitled
  <2>2. GrantsOnly(v, l)' /\ GoesOff(v, st, l)'
    BY <1>3, <1>4, <1>9 DEF GrantsOnly, GoesOff
  <2> QED BY <1>4, <1>8, <2>1, <2>2 DEF Applied
<1>11. SoundAt(o)'
  <2>1. Left(o)' = l /\ op'[o].action \in Installs
    BY <1>1, <1>3 DEF Continues, SameCommand, IsPlacing
  <2> QED BY <1>1, <1>2, <1>3, <1>10, <2>1, ApplyingSound DEF SameCommand
<1>12. TornByOne'
  BY <1>4, <1>5, NoneTorn
<1> QED BY <1>3, <1>4, <1>5, <1>11, <1>12, SoundOn

\* What enable, disable and uninstall read is true when they read it.
LEMMA ReadCurrentSound ==
    ASSUME Releases, Typed, Shape, Kept, Sound, ~disturbed, NEW o \in Op, ReadCurrent(o)
    PROVE  Sound'
<1>1. /\ At(o, "read") /\ current # None /\ op'[o].action = op[o].action
  BY ReadCurrentContinues
<1>2. PICK l :
         /\ Continues(o, l) /\ l # {} /\ "read" \notin l
         /\ op[o].action = "enable" =>
               /\ op'[o].version = current /\ op'[o].status = "active"
               /\ "write" \in l /\ l \subseteq Enables
               /\ "ensure" \in l => current \in Scoped
         /\ op[o].action = "disable" =>
               /\ op'[o].version = current /\ op'[o].status = "disabled"
               /\ {"deactivate.py", "write"} \subseteq l /\ l \subseteq Disables
               /\ current \in Scoped => "revoke" \in l
         /\ op[o].action = "uninstall" =>
               /\ op'[o].version = file.version /\ op'[o].status = "removed"
               /\ {"unlink", "write"} \subseteq l /\ l \subseteq Removes
               /\ Scope(current) => "revoke" \in l
  BY ReadCurrentContinues
<1>3. /\ op[o].action \notin Installs /\ ~op[o].back /\ Left(o) = {"read"} /\ op[o] \in OpRow
  BY <1>1, NextStep DEF Typed
<1>4. /\ UNCHANGED <<module, certificate, transfer>>
      /\ op[o].action = "enable" => Entitled(current)
      /\ op[o].action = "disable" => current \in Deactivates
  BY DEF ReadCurrent
<1>5. /\ ~transfer /\ (\A q \in Op : q # o => ~Alive(q)) /\ SoundAt(o)
      /\ \A w \in Version : release[w] # "torn"
      /\ current # None => release[current] = "complete"
  BY <1>1, Quiet
<1>6. Truth
  BY <1>3, <1>5 DEF SoundAt, IsApplying, IsUndoing, IsEnabling
<1>7. Truth'
  BY <1>4, <1>6 DEF Truth, Named, Gone, Licensed, ScopedOnly, Off, module
<1>8. ~op'[o].back
  <2>1. Alive(o)' /\ Shape'
    BY <1>2, ReadCurrentContinues DEF Continues
  <2>2. ShapeAt(o)' /\ op'[o].action \notin Installs
    BY <1>1, <1>3, <2>1 DEF Shape
  <2> QED BY <2>2 DEF ShapeAt
<1>9. PICK v, st : v = op'[o].version /\ st = op'[o].status
  OBVIOUS
<1>10. SoundAt(o)'
  <2>1. Left(o)' = l
    BY <1>2 DEF Continues
  <2>2. CASE op[o].action = "enable"
    <3>1. Enabled(v, st, l)'
      <4>1. Off(current, file.status)'
        BY <1>7 DEF Truth
      <4>2. /\ current' # None /\ v = current' /\ st = "active" /\ Entitled(current)'
            /\ "ensure" \in l => current' \in Scoped
        BY <1>1, <1>2, <1>4, <1>9, <2>2 DEF module, Entitled
      <4> QED BY <1>7, <4>1, <4>2 DEF Enabled, Truth
    <3> QED BY <1>1, <1>2, <1>8, <1>9, <2>1, <2>2, <3>1, EnablingSound
  <2>3. CASE op[o].action = "disable"
    <3>1. Disabled(v, st, l)'
      BY <1>2, <1>4, <1>6, <1>9, <2>3 DEF Disabled, module, Truth, ScopedOnly
    <3> QED BY <1>1, <1>7, <1>8, <1>9, <2>1, <2>3, <3>1, DisablingSound
  <2>4. CASE op[o].action = "uninstall"
    <3>1. granted => "revoke" \in l
      BY <1>1, <1>2, <1>5, <1>6, <2>4 DEF Truth, ScopedOnly, Scope
    <3>2. Removed(st, l)'
      BY <1>2, <1>4, <1>9, <2>4, <3>1 DEF Removed, module
    <3> QED BY <1>1, <1>7, <1>8, <1>9, <2>1, <2>4, <3>2, RemovingSound
  <2> QED BY <1>3, <2>2, <2>3, <2>4 DEF OpRow, Action
<1>11. TornByOne'
  BY <1>4, <1>5, NoneTorn DEF module
<1> QED BY <1>2, <1>4, <1>5, <1>10, <1>11, SoundOn

-----------------------------------------------------------------------------
(* A step of each kind of command *)

\* Nothing excluded has happened.
Steady == Typed /\ Shape /\ Kept /\ Sound /\ ~disturbed

\* Which commands have which steps.
LEMMA StepKinds ==
    ASSUME OpsOk, Shape, NEW o \in Op, NEW s, At(o, s)
    PROVE  /\ s \in {"place", "open", "manifest"} => IsPlacing(o)
           /\ s = "install.py" => IsApplying(o) \/ IsUndoing(o)
           /\ s \in {"ensure", "activate.py"} =>
                 IsApplying(o) \/ IsUndoing(o) \/ (IsEnabling(o) /\ "write" \in Left(o))
           /\ s \in {"deactivate.py", "revoke"} =>
                 IsApplying(o) \/ IsUndoing(o) \/ IsDisabling(o) \/ IsRemoving(o)
           /\ s = "forget" => IsUndoing(o) \/ (IsEnabling(o) /\ "write" \notin Left(o))
           /\ s = "uninstall.py" => IsRemoving(o)
           /\ s = "unlink" => IsUndoing(o) \/ IsRemoving(o)
           /\ s = "relink" => IsUndoing(o)
           /\ s = "write" => IsApplying(o) \/ IsEnabling(o) \/ IsDisabling(o) \/ IsRemoving(o)
           /\ s = "error" => IsEnabling(o) \/ IsDisabling(o)
<1>1. /\ Alive(o) /\ s \in Left(o) /\ ShapeAt(o) /\ op[o] \in OpRow
      /\ op[o].action \in Action
  BY NextStep DEF OpRow
<1>2. CASE op[o].action \in Installs
  <2>1. op[o].action \notin {"enable", "disable", "uninstall"}
    BY <1>2 DEF Installs
  <2>2. CASE Left(o) = {"fetch"} \/ Left(o) = {"verify"}
    BY <2>2, <1>1
  <2>3. CASE "switch" \in Left(o) /\ Left(o) \subseteq Places
    BY <2>3, <1>1, <1>2 DEF Places, IsPlacing
  <2>4. CASE "write" \in Left(o) /\ Left(o) \subseteq Applies
    BY <2>4, <1>1, <1>2 DEF Applies, IsApplying
  <2>5. CASE op[o].back /\ Left(o) \subseteq Undoes
    BY <2>5, <1>1 DEF Undoes, IsUndoing
  <2> QED BY <1>1, <1>2, <2>2, <2>3, <2>4, <2>5 DEF ShapeAt
<1>3. CASE op[o].action = "enable"
  BY <1>1, <1>3 DEF ShapeAt, IsEnabling, Enables, Installs
<1>4. CASE op[o].action = "disable"
  BY <1>1, <1>4 DEF ShapeAt, IsDisabling, Disables, Installs
<1>5. CASE op[o].action = "uninstall"
  BY <1>1, <1>5 DEF ShapeAt, IsRemoving, Removes, Installs
<1> QED BY <1>1, <1>2, <1>3, <1>4, <1>5 DEF Action

\* A step of placing a release.
LEMMA ThenPlacing ==
    ASSUME Steady, NEW o \in Op, NEW s, At(o, s), Then(o), IsPlacing(o), s # "switch",
           ~transfer', TornByOne', NEW p, NEW v, NEW st, NEW l,
           p = op[o].previous, v = op[o].version, st = op[o].status, l = Left(o) \ {s},
           Placed(p, v, st, l)', Truth'
    PROVE  Sound'
<1>1. Continues(o, l) /\ (Left(o) # {s} => SameCommand(o))
  BY ThenContinues DEF Steady, Typed
<1>2. "switch" \in l /\ op[o].action \in Installs /\ l \subseteq Places /\ ~op[o].back
  <2>1. ShapeAt(o)
    BY DEF Steady, Shape, At
  <2>2. "switch" \in l /\ op[o].action \in Installs
    BY DEF IsPlacing
  <2> QED BY <2>1, <2>2 DEF ShapeAt, Applies, Undoes
<1>3. Left(o)' = l /\ SameCommand(o)
  BY <1>1, <1>2 DEF Continues
<1>4. SoundAt(o)'
  BY <1>2, <1>3, PlacingSound DEF SameCommand
<1> QED BY <1>1, <1>4, Quiet, SoundOn, <1>2 DEF Steady

\* A step of applying a release.
LEMMA ThenApplying ==
    ASSUME Steady, NEW o \in Op, NEW s, At(o, s), Then(o), IsApplying(o), s # "write",
           ~transfer', TornByOne', NEW p, NEW v, NEW st, NEW l,
           p = op[o].previous, v = op[o].version, st = op[o].status, l = Left(o) \ {s},
           Applied(p, v, st, l)'
    PROVE  Sound'
<1>1. Continues(o, l) /\ (Left(o) # {s} => SameCommand(o))
  BY ThenContinues DEF Steady, Typed
<1>2. "write" \in l /\ op[o].action \in Installs /\ l \subseteq Applies /\ ~op[o].back
  <2>1. ShapeAt(o)
    BY DEF Steady, Shape, At
  <2>2. "write" \in l /\ op[o].action \in Installs
    BY DEF IsApplying
  <2> QED BY <2>1, <2>2 DEF ShapeAt, Places, Undoes
<1>3. Left(o)' = l /\ SameCommand(o)
  BY <1>1, <1>2 DEF Continues
<1>4. SoundAt(o)'
  BY <1>2, <1>3, ApplyingSound DEF SameCommand
<1> QED BY <1>1, <1>4, Quiet, SoundOn, <1>2 DEF Steady

\* A step of undoing an install.
LEMMA ThenUndoing ==
    ASSUME Releases, Steady, NEW o \in Op, NEW s, At(o, s), Then(o), IsUndoing(o),
           ~transfer', TornByOne', NEW p, NEW v, NEW st, NEW l,
           p = op[o].previous, v = op[o].version, st = op[o].status, l = Left(o) \ {s},
           Undone(p, v, st, l)'
    PROVE  Sound'
<1>1. Continues(o, l) /\ (Left(o) # {s} => SameCommand(o)) /\ s \in Left(o)
  BY ThenContinues DEF Steady, Typed
<1>2. op[o].action \in Installs /\ l \subseteq Undoes /\ op[o].back
  <2>1. ShapeAt(o)
    BY DEF Steady, Shape, At
  <2> QED BY <2>1 DEF ShapeAt, IsUndoing
<1>3. ASSUME l # {} PROVE SoundAt(o)'
  <2>1. Left(o)' = l /\ SameCommand(o)
    BY <1>1, <1>3 DEF Continues
  <2> QED BY <1>2, <2>1, UndoingSound DEF SameCommand
<1>4. ASSUME l = {} PROVE Truth'
  BY <1>4, UndoneTruth
<1> QED BY <1>1, <1>3, <1>4, Quiet, SoundOn DEF Steady

\* A step of enabling the module.
LEMMA ThenEnabling ==
    ASSUME Steady, NEW o \in Op, NEW s, At(o, s), Then(o), IsEnabling(o),
           s \notin {"write", "error"}, ~transfer', TornByOne', NEW v, NEW st, NEW l,
           v = op[o].version, st = op[o].status, l = Left(o) \ {s},
           Enabled(v, st, l)'
    PROVE  Sound'
<1>1. Continues(o, l) /\ (Left(o) # {s} => SameCommand(o))
  BY ThenContinues DEF Steady, Typed
<1>2. op[o].action = "enable" /\ l # {} /\ "read" \notin l /\ ~op[o].back
  <2>1. ShapeAt(o)
    BY DEF Steady, Shape, At
  <2> QED BY <2>1 DEF ShapeAt, IsEnabling, Installs, Enables
<1>3. Left(o)' = l /\ SameCommand(o)
  BY <1>1, <1>2 DEF Continues
<1>4. SoundAt(o)'
  BY <1>2, <1>3, EnablingSound DEF SameCommand
<1> QED BY <1>1, <1>4, Quiet, SoundOn, <1>2 DEF Steady

\* A step of disabling the module.
LEMMA ThenDisabling ==
    ASSUME Steady, NEW o \in Op, NEW s, At(o, s), Then(o), IsDisabling(o),
           ~transfer', TornByOne', NEW v, NEW st, NEW l,
           v = op[o].version, st = op[o].status, l = Left(o) \ {s},
           Disabled(v, st, l)', Truth'
    PROVE  Sound'
<1>1. Continues(o, l) /\ (Left(o) # {s} => SameCommand(o)) /\ s \in Left(o)
  BY ThenContinues DEF Steady, Typed
<1>2. op[o].action = "disable" /\ ~op[o].back
  <2>1. ShapeAt(o)
    BY DEF Steady, Shape, At
  <2> QED BY <2>1 DEF ShapeAt, IsDisabling, Installs
<1>3. ASSUME l # {} PROVE SoundAt(o)'
  <2>1. Left(o)' = l /\ SameCommand(o)
    BY <1>1, <1>3 DEF Continues
  <2> QED BY <1>2, <2>1, DisablingSound DEF SameCommand
<1> QED BY <1>1, <1>3, Quiet, SoundOn DEF Steady

\* A step of removing the module.
LEMMA ThenRemoving ==
    ASSUME Steady, NEW o \in Op, NEW s, At(o, s), Then(o), IsRemoving(o),
           ~transfer', TornByOne', NEW st, NEW l,
           st = op[o].status, l = Left(o) \ {s}, Removed(st, l)', Truth'
    PROVE  Sound'
<1>1. Continues(o, l) /\ (Left(o) # {s} => SameCommand(o)) /\ s \in Left(o)
  BY ThenContinues DEF Steady, Typed
<1>2. op[o].action = "uninstall" /\ ~op[o].back
  <2>1. ShapeAt(o)
    BY DEF Steady, Shape, At
  <2> QED BY <2>1 DEF ShapeAt, IsRemoving, Installs
<1>3. ASSUME l # {} PROVE SoundAt(o)'
  <2>1. Left(o)' = l /\ SameCommand(o)
    BY <1>1, <1>3 DEF Continues
  <2> QED BY <1>2, <2>1, RemovingSound DEF SameCommand
<1> QED BY <1>1, <1>3, Quiet, SoundOn DEF Steady

\* What is known of the command that runs.
LEMMA Known ==
    ASSUME Steady, NEW o \in Op, NEW s, At(o, s), NEW p, NEW v, NEW st, NEW l,
           p = op[o].previous, v = op[o].version, st = op[o].status, l = Left(o)
    PROVE  /\ ~transfer /\ s \in l
           /\ \A x \in l \ {s} : Rank(op[o].action, s) < Rank(op[o].action, x)
           /\ s # "manifest" => \A w \in Version : release[w] # "torn"
           /\ IsPlacing(o) => Placed(p, v, st, l) /\ l \subseteq Places /\ Truth
           /\ IsApplying(o) => Applied(p, v, st, l) /\ l \subseteq Applies
           /\ IsUndoing(o) => Undone(p, v, st, l) /\ l \subseteq Undoes
           /\ IsEnabling(o) => /\ Enabled(v, st, l)
                               /\ l \subseteq Enables \/ l \subseteq {"forget", "error"}
           /\ IsDisabling(o) => /\ Disabled(v, st, l) /\ Truth
                                /\ ("write" \in l /\ l \subseteq Disables) \/ l = {"error"}
           /\ IsRemoving(o) => /\ Removed(st, l) /\ l \subseteq Removes /\ Truth
                               /\ op[o].action = "uninstall"
<1>1. /\ ~transfer /\ SoundAt(o) /\ \A w \in Version : release[w] = "torn" => s = "manifest"
  BY Quiet DEF Steady
<1>2. /\ s \in l /\ ShapeAt(o) /\ op[o] \in OpRow
      /\ \A x \in l \ {s} : Rank(op[o].action, s) < Rank(op[o].action, x)
  BY HeadIsFirst, NextStep DEF Steady, Typed, At
<1>3. /\ IsPlacing(o) => l \subseteq Places
      /\ IsApplying(o) => l \subseteq Applies
      /\ IsUndoing(o) => l \subseteq Undoes
      /\ IsEnabling(o) => l \subseteq Enables \/ l \subseteq {"forget", "error"}
      /\ IsDisabling(o) => ("write" \in l /\ l \subseteq Disables) \/ l = {"error"}
      /\ IsRemoving(o) => l \subseteq Removes /\ op[o].action = "uninstall"
  BY <1>2 DEF ShapeAt, IsPlacing, IsApplying, IsUndoing, IsEnabling, IsDisabling, IsRemoving,
     Places, Applies, Undoes
<1>4. /\ IsPlacing(o) => Placed(p, v, st, l) /\ Truth
      /\ IsApplying(o) => Applied(p, v, st, l)
      /\ IsUndoing(o) => Undone(p, v, st, l)
      /\ IsEnabling(o) => Enabled(v, st, l)
      /\ IsDisabling(o) => Disabled(v, st, l) /\ Truth
      /\ IsRemoving(o) => Removed(st, l) /\ Truth
  <2>1. \/ ~IsApplying(o) /\ ~IsUndoing(o) /\ ~IsEnabling(o)
        \/ ~IsPlacing(o) /\ ~IsDisabling(o) /\ ~IsRemoving(o)
    BY <1>2, Kinds DEF Steady, Typed
  <2> QED BY <1>1, <2>1 DEF SoundAt
<1> QED BY <1>1, <1>2, <1>3, <1>4

\* A module that is off and has no credential stays so.
LEMMA TruthStays ==
    ASSUME Truth, UNCHANGED <<current, file, certificate>>, granted' => granted,
           running' => running
    PROVE  Truth'
BY DEF Truth, Named, Gone, Licensed, ScopedOnly, Off

\* Unpacking and writing module.json again touch no release in use.
LEMMA PlaceSound ==
    ASSUME Steady, NEW o \in Op, Place(o) \/ OpenManifest(o) \/ CopyManifest(o)
    PROVE  Sound'
<1>1. PICK s \in {"place", "open", "manifest"} :
         /\ At(o, s)
         /\ s = "place" => Place(o)
         /\ s = "open" => OpenManifest(o)
         /\ s = "manifest" => CopyManifest(o)
         /\ Then(o) /\ UNCHANGED <<current, file, granted, running, certificate, transfer>>
  BY DEF Place, OpenManifest, CopyManifest
<1>2. PICK p, v, st, m : /\ p = op[o].previous /\ v = op[o].version /\ st = op[o].status
                         /\ m = Left(o)
  OBVIOUS
<1>3. PICK l : l = m \ {s}
  OBVIOUS
<1>4. IsPlacing(o) /\ op[o].action \in Installs /\ v \in Version
  BY <1>1, <1>2, StepKinds, NextStep DEF Steady, Typed, Places
<1>5. /\ ~transfer /\ s \in m /\ Placed(p, v, st, m) /\ m \subseteq Places /\ Truth
      /\ \A x \in l : Rank(op[o].action, s) < Rank(op[o].action, x)
  BY <1>1, <1>2, <1>3, <1>4, Known
<1>6. "previous" \in m /\ (s # "manifest" => "manifest" \in m)
  BY <1>5 DEF Placed
<1>7. \A x \in l :
         \/ x \in {"previous", "switch"}
         \/ x = "manifest" /\ s # "manifest"
         \/ s = "place" /\ x = "open"
  <2> SUFFICES ASSUME NEW x \in l
               PROVE  \/ x \in {"previous", "switch"}
                      \/ x = "manifest" /\ s # "manifest"
                      \/ s = "place" /\ x = "open"
    OBVIOUS
  <2>1. x \in Places /\ Rank(op[o].action, s) < Rank(op[o].action, x)
    BY <1>3, <1>5
  <2>2. s = "place" \/ s = "open" \/ s = "manifest"
    OBVIOUS
  <2> QED BY <2>1, <2>2 DEF Places, Rank
<1>8. Placed(p, v, st, l)'
  <2>1. Entitled(v)'
    BY <1>1, <1>5 DEF Placed, Entitled
  <2>2. "manifest" \notin l => l \subseteq {"previous", "switch"}
    <3>1. s # "manifest" => "manifest" \in l
      BY <1>3, <1>6
    <3>2. s = "manifest" => l \subseteq {"previous", "switch"}
      BY <1>7
    <3> QED BY <3>1, <3>2
  <2> QED BY <1>3, <1>6, <2>1, <2>2 DEF Placed
<1>9. Truth'
  BY <1>1, <1>5, TruthStays
<1>10. TornByOne'
  <2>1. \A w \in Version : release[w] = "torn" => s = "manifest" /\ v = w
    BY <1>1, <1>2, Quiet DEF Steady
  <2>2. release \in [Version -> {"absent", "bare", "torn", "complete"}]
    BY DEF Steady, Typed, ModuleOk
  <2>3. CASE s = "place"
    <3>1. \A w \in Version : release'[w] # "torn"
      BY <1>1, <1>2, <1>4, <2>1, <2>2, <2>3 DEF Place
    <3> QED BY <3>1, NoneTorn
  <2>4. CASE s = "manifest"
    <3>1. \A w \in Version : release'[w] # "torn"
      BY <1>1, <1>2, <1>4, <2>1, <2>2, <2>4 DEF CopyManifest
    <3> QED BY <3>1, NoneTorn
  <2>5. CASE s = "open"
    <3>1. \A w \in Version : release'[w] = "torn" => w = v
      BY <1>1, <1>2, <1>4, <2>1, <2>2, <2>5 DEF OpenManifest
    <3>2. "manifest" \in l /\ \A x \in l : x \in {"manifest", "previous", "switch"}
      BY <1>3, <1>6, <1>7, <2>5
    <3>3. Continues(o, l) /\ SameCommand(o) /\ Alive(o)'
      BY <1>1, <1>2, <1>3, <3>2, ThenContinues DEF Steady, Typed, Continues
    <3>4. Program(op'[o].action, op'[o].todo, l) /\ op'[o].todo # <<>>
      BY <3>2, <3>3 DEF Continues, Program, Left, OpsOk, OpRow
    <3>5. Head(op'[o].todo) = "manifest"
      <4>1. PICK a, t : a = op'[o].action /\ t = op'[o].todo
        OBVIOUS
      <4>2. Head(t) \in l /\ \A x \in l \ {Head(t)} : Rank(a, Head(t)) < Rank(a, x)
        BY <3>4, <4>1, Pop
      <4> QED BY <3>2, <4>1, <4>2 DEF Rank
    <3> QED BY <1>2, <3>1, <3>3, <3>5 DEF TornByOne, At, SameCommand
  <2> QED BY <1>1, <2>3, <2>4, <2>5
<1> QED BY <1>1, <1>2, <1>3, <1>4, <1>5, <1>8, <1>9, <1>10, ThenPlacing

\* A credential is only given to a release that declares a scope.
LEMMA EnsureSound ==
    ASSUME Releases, Steady, NEW o \in Op, Ensure(o)
    PROVE  Sound'
<1>1. /\ At(o, "ensure") /\ Then(o) /\ Grantable /\ granted'
      /\ UNCHANGED <<release, current, file, running, certificate, transfer>>
  BY DEF Ensure
<1>2. PICK p, v, st, m : /\ p = op[o].previous /\ v = op[o].version /\ st = op[o].status
                         /\ m = Left(o)
  OBVIOUS
<1>3. PICK l : l = m \ {"ensure"}
  OBVIOUS
<1>4. ~transfer' /\ TornByOne' /\ "ensure" \in m
  BY <1>1, <1>2, Known, NoneTorn
<1>5. CASE IsApplying(o)
  <2>1. Applied(p, v, st, m)
    BY <1>1, <1>2, <1>5, Known
  <2>2. Applied(p, v, st, l)'
    BY <1>1, <1>3, <1>4, <2>1 DEF Applied, Prior, Entitled, GrantsOnly, GoesOff
  <2> QED BY <1>1, <1>2, <1>3, <1>4, <1>5, <2>2, ThenApplying
<1>6. CASE IsUndoing(o)
  <2>1. Undone(p, v, st, m)
    BY <1>1, <1>2, <1>6, Known
  <2>2. Undone(p, v, st, l)'
    BY <1>1, <1>3, <1>4, <2>1 DEF Undone, Prior, GrantsOnly, GoesOff
  <2> QED BY <1>1, <1>2, <1>3, <1>4, <1>6, <2>2, ThenUndoing
<1>7. CASE IsEnabling(o)
  <2>1. Enabled(v, st, m)
    BY <1>1, <1>2, <1>7, Known
  <2>2. Enabled(v, st, l)'
    BY <1>1, <1>3, <1>4, <2>1 DEF Enabled, Entitled, Named, Gone, Licensed, ScopedOnly
  <2> QED BY <1>1, <1>2, <1>3, <1>4, <1>7, <2>2, ThenEnabling
<1> QED BY <1>1, <1>5, <1>6, <1>7, StepKinds DEF Steady, Typed

\* A revoked credential is not granted.
LEMMA RevokeSound ==
    ASSUME Releases, Steady, NEW o \in Op, Revoke(o)
    PROVE  Sound'
<1>1. PICK s \in {"revoke", "forget"} : At(o, s)
  BY DEF Revoke
<1>2. Then(o) /\ ~granted' /\ UNCHANGED <<release, current, file, running, certificate, transfer>>
  BY DEF Revoke
<1>3. PICK p, v, st, m : /\ p = op[o].previous /\ v = op[o].version /\ st = op[o].status
                         /\ m = Left(o)
  OBVIOUS
<1>4. PICK l : l = m \ {s}
  OBVIOUS
<1>5. /\ ~transfer' /\ TornByOne' /\ s \in m
      /\ \A x \in l : Rank(op[o].action, s) < Rank(op[o].action, x)
  BY <1>1, <1>2, <1>3, <1>4, Known, NoneTorn
<1>6. s = "revoke" => "ensure" \notin l
  BY <1>5 DEF Rank
<1>7. CASE IsApplying(o)
  <2>1. Applied(p, v, st, m) /\ m \subseteq Applies
    BY <1>1, <1>3, <1>7, Known
  <2>2. s = "revoke"
    BY <1>5, <2>1 DEF Applies
  <2>3. Applied(p, v, st, l)'
    BY <1>2, <1>4, <1>6, <2>1, <2>2 DEF Applied, Prior, Entitled, GrantsOnly, GoesOff
  <2> QED BY <1>1, <1>2, <1>3, <1>4, <1>5, <1>7, <2>2, <2>3, ThenApplying
<1>8. CASE IsUndoing(o)
  <2>1. Undone(p, v, st, m)
    BY <1>1, <1>3, <1>8, Known
  <2>2. Undone(p, v, st, l)'
    BY <1>2, <1>4, <1>5, <1>6, <2>1 DEF Undone, Prior, GrantsOnly, GoesOff
  <2> QED BY <1>1, <1>2, <1>3, <1>4, <1>5, <1>8, <2>2, ThenUndoing
<1>9. CASE IsEnabling(o)
  <2>1. Enabled(v, st, m) /\ s = "forget"
    BY <1>1, <1>3, <1>5, <1>9, Known DEF Enables
  <2>2. "write" \notin m /\ "ensure" \notin m
    BY <1>1, <1>3, <1>5, <1>9, <2>1, Known DEF Enables
  <2>3. Enabled(v, st, l)'
    BY <1>2, <1>4, <2>1, <2>2 DEF Enabled, Named, Gone, Licensed, ScopedOnly
  <2> QED BY <1>1, <1>2, <1>3, <1>4, <1>5, <1>9, <2>3, ThenEnabling
<1>10. CASE IsDisabling(o)
  <2>1. Disabled(v, st, m) /\ Truth
    BY <1>1, <1>3, <1>10, Known
  <2>2. Truth'
    BY <1>2, <2>1, TruthStays
  <2>3. Disabled(v, st, l)'
    BY <1>1, <1>2, <1>4, <2>1 DEF Disabled
  <2> QED BY <1>1, <1>2, <1>3, <1>4, <1>5, <1>10, <2>2, <2>3, ThenDisabling
<1>11. CASE IsRemoving(o)
  <2>1. Removed(st, m) /\ Truth
    BY <1>1, <1>3, <1>11, Known
  <2>2. Truth'
    BY <1>2, <2>1, TruthStays
  <2>3. Removed(st, l)'
    BY <1>1, <1>2, <1>4, <2>1 DEF Removed
  <2> QED BY <1>1, <1>2, <1>3, <1>4, <1>5, <1>11, <2>2, <2>3, ThenRemoving
<1> QED BY <1>1, <1>7, <1>8, <1>9, <1>10, <1>11, StepKinds DEF Steady, Typed

\* A hook that succeeds leaves the integration as its name says.
LEMMA HookSound ==
    ASSUME Releases, Steady, NEW o \in Op,
           NEW s \in {"install.py", "activate.py", "deactivate.py", "uninstall.py"}, Hook(o, s)
    PROVE  Sound'
<1>1. /\ At(o, s) /\ Then(o)
      /\ UNCHANGED <<release, current, file, granted, certificate, transfer>>
  BY DEF Hook
<1>2. /\ s = "deactivate.py" =>
            IF current \in Deactivates THEN running' = FALSE ELSE running' = running
      /\ s = "uninstall.py" => running' = FALSE
  BY HookCases DEF Hook, Steady, Typed, ModuleOk
<1>3. PICK p, v, st, m : /\ p = op[o].previous /\ v = op[o].version /\ st = op[o].status
                         /\ m = Left(o)
  OBVIOUS
<1>4. PICK l : l = m \ {s}
  OBVIOUS
<1>5. /\ ~transfer' /\ TornByOne' /\ s \in m
      /\ \A x \in l : Rank(op[o].action, s) < Rank(op[o].action, x)
  BY <1>1, <1>3, <1>4, Known, NoneTorn
<1>6. /\ s = "activate.py" => "ensure" \notin l
      /\ s = "deactivate.py" => "install.py" \notin l /\ "relink" \notin l
  BY <1>5 DEF Rank
\* A hook that ends takes the module off, or another is to come.
<1>7. ASSUME NEW w, GoesOff(w, st, m), s = "deactivate.py" => current = w, s # "uninstall.py"
      PROVE  GoesOff(w, st, l)'
  BY <1>1, <1>2, <1>4, <1>5, <1>6, <1>7 DEF GoesOff
<1>8. CASE IsApplying(o)
  <2>1. Applied(p, v, st, m) /\ m \subseteq Applies
    BY <1>1, <1>3, <1>8, Known
  <2>2. s # "uninstall.py"
    BY <1>5, <2>1 DEF Applies
  <2>3. GoesOff(v, st, l)'
    BY <1>7, <2>1, <2>2 DEF Applied
  <2>4. Applied(p, v, st, l)'
    BY <1>1, <1>4, <2>1, <2>3 DEF Applied, Prior, Entitled, GrantsOnly
  <2>5. s # "write"
    OBVIOUS
  <2> QED BY <1>1, <1>3, <1>4, <1>5, <1>8, <2>4, <2>5, ThenApplying
<1>9. CASE IsUndoing(o)
  <2>1. Undone(p, v, st, m) /\ m \subseteq Undoes
    BY <1>1, <1>3, <1>9, Known
  <2>2. s # "uninstall.py" /\ p # None
    BY <1>5, <2>1 DEF Undoes, Undone
  <2>3. s = "deactivate.py" => current = p
    BY <1>4, <1>6, <2>1, <2>2 DEF Undone
  <2>4. GoesOff(p, st, l)'
    BY <1>7, <2>1, <2>2, <2>3 DEF Undone
  <2>5. Undone(p, v, st, l)'
    BY <1>1, <1>4, <2>1, <2>2, <2>4 DEF Undone, Prior, GrantsOnly
  <2> QED BY <1>1, <1>3, <1>4, <1>5, <1>9, <2>5, ThenUndoing
<1>10. CASE IsEnabling(o)
  <2>1. Enabled(v, st, m) /\ (m \subseteq Enables \/ m \subseteq {"forget", "error"})
    BY <1>1, <1>3, <1>10, Known
  <2>2. s = "activate.py"
    BY <1>5, <2>1 DEF Enables
  <2>3. Enabled(v, st, l)'
    BY <1>1, <1>4, <1>6, <2>1, <2>2 DEF Enabled, Entitled, Named, Gone, Licensed, ScopedOnly
  <2>4. s \notin {"write", "error"}
    OBVIOUS
  <2> QED BY <1>1, <1>3, <1>4, <1>5, <1>10, <2>3, <2>4, ThenEnabling
<1>11. CASE IsDisabling(o)
  <2>1. /\ Disabled(v, st, m) /\ Truth
        /\ ("write" \in m /\ m \subseteq Disables) \/ m = {"error"}
    BY <1>1, <1>3, <1>11, Known
  <2>2. s = "deactivate.py" /\ "write" \in m
    BY <1>5, <2>1 DEF Disables
  <2>3. running' = FALSE
    BY <1>2, <2>1, <2>2 DEF Disabled
  <2>4. Truth'
    BY <1>1, <2>1, <2>3, TruthStays
  <2>5. Disabled(v, st, l)'
    BY <1>1, <1>4, <2>1, <2>2, <2>3 DEF Disabled
  <2> QED BY <1>1, <1>3, <1>4, <1>5, <1>11, <2>4, <2>5, ThenDisabling
<1>12. CASE IsRemoving(o)
  <2>1. Removed(st, m) /\ Truth /\ m \subseteq Removes
    BY <1>1, <1>3, <1>12, Known
  <2>2. s \in {"deactivate.py", "uninstall.py"}
    BY <1>5, <2>1 DEF Removes
  <2>3. running' => running
    BY <1>2, <2>2
  <2>4. Truth'
    BY <1>1, <2>1, <2>3, TruthStays
  <2>5. Removed(st, l)'
    BY <1>1, <1>4, <2>1 DEF Removed
  <2> QED BY <1>1, <1>3, <1>4, <1>5, <1>12, <2>4, <2>5, ThenRemoving
<1> QED BY <1>1, <1>8, <1>9, <1>10, <1>11, <1>12, StepKinds DEF Steady, Typed

\* The link goes from a release that an uninstall or a rollback removes.
LEMMA UnlinkSound ==
    ASSUME Releases, Steady, NEW o \in Op, Unlink(o)
    PROVE  Sound'
<1>1. /\ At(o, "unlink") /\ Then(o) /\ current' = None
      /\ UNCHANGED <<release, file, granted, running, certificate, transfer>>
  BY DEF Unlink
<1>2. PICK p, v, st, m : /\ p = op[o].previous /\ v = op[o].version /\ st = op[o].status
                         /\ m = Left(o)
  OBVIOUS
<1>3. PICK l : l = m \ {"unlink"}
  OBVIOUS
<1>4. /\ ~transfer' /\ TornByOne' /\ "unlink" \in m
      /\ \A x \in l : Rank(op[o].action, "unlink") < Rank(op[o].action, x)
  BY <1>1, <1>2, <1>3, Known, NoneTorn
<1>5. "forget" \notin l
  BY <1>4 DEF Rank
<1>6. CASE IsUndoing(o)
  <2>1. Undone(p, v, st, m)
    BY <1>1, <1>2, <1>6, Known
  <2>2. Undone(p, v, st, l)'
    BY <1>1, <1>3, <1>4, <1>5, <2>1 DEF Undone, Prior, GrantsOnly, GoesOff
  <2> QED BY <1>1, <1>2, <1>3, <1>4, <1>6, <2>2, ThenUndoing
<1>7. CASE IsRemoving(o)
  <2>1. Removed(st, m) /\ Truth /\ op[o].action = "uninstall"
    BY <1>1, <1>2, <1>7, Known
  <2>2. ~granted
    <3>1. "revoke" \notin m
      BY <1>3, <1>4, <2>1 DEF Rank
    <3> QED BY <1>4, <2>1, <3>1 DEF Removed
  <2>3. Truth'
    BY <1>1, <2>1, <2>2 DEF Releases, Truth, Named, Gone, Licensed, ScopedOnly, Off
  <2>4. Removed(st, l)'
    BY <1>1, <1>3, <2>1 DEF Removed
  <2> QED BY <1>1, <1>2, <1>3, <1>4, <1>7, <2>3, <2>4, ThenRemoving
<1> QED BY <1>1, <1>6, <1>7, StepKinds DEF Steady, Typed

\* A rollback brings back the release the file still names.
LEMMA RelinkSound ==
    ASSUME Releases, Steady, NEW o \in Op, Relink(o)
    PROVE  Sound'
<1>1. /\ At(o, "relink") /\ Then(o)
      /\ UNCHANGED <<release, file, granted, running, certificate, transfer>>
  BY DEF Relink
<1>2. PICK p, v, st, m : /\ p = op[o].previous /\ v = op[o].version /\ st = op[o].status
                         /\ m = Left(o)
  OBVIOUS
<1>3. PICK l : l = m \ {"relink"}
  OBVIOUS
<1>4. /\ ~transfer' /\ TornByOne' /\ "relink" \in m
      /\ \A x \in l : Rank(op[o].action, "relink") < Rank(op[o].action, x)
  BY <1>1, <1>2, <1>3, Known, NoneTorn
<1>5. IsUndoing(o) /\ op[o].action \in Installs
  BY <1>1, StepKinds DEF Steady, Typed, Shape, ShapeAt, At, IsUndoing
<1>6. "unlink" \notin l
  BY <1>4, <1>5 DEF Rank, Installs
<1>7. Undone(p, v, st, m)
  BY <1>1, <1>2, <1>5, Known
<1>8. current' = p
  BY <1>2 DEF Relink
<1>9. Undone(p, v, st, l)'
  BY <1>1, <1>3, <1>4, <1>6, <1>7, <1>8 DEF Undone, Prior, GrantsOnly, GoesOff
<1> QED BY <1>1, <1>2, <1>3, <1>4, <1>5, <1>9, ThenUndoing

\* The file is written last, and then it tells the truth.
LEMMA WriteSound ==
    ASSUME Releases, Steady, NEW o \in Op, WriteState(o)
    PROVE  Sound'
<1>1. PICK s \in {"write", "error"} : At(o, s)
  BY DEF WriteState
<1>2. Then(o) /\ UNCHANGED <<release, current, granted, running, certificate, transfer>>
  BY DEF WriteState
<1>3. PICK p, v, st, m : /\ p = op[o].previous /\ v = op[o].version /\ st = op[o].status
                         /\ m = Left(o)
  OBVIOUS
<1>4. /\ ~transfer' /\ TornByOne' /\ s \in m
      /\ \A x \in m \ {s} : Rank(op[o].action, s) < Rank(op[o].action, x)
  BY <1>1, <1>2, <1>3, Known, NoneTorn
<1>5. /\ s = "error" => file'.status = "error" /\ file'.version = file.version
      /\ s = "write" => /\ file'.version = v /\ file'.status \in {"active", st}
                        /\ op[o].action \notin Installs => file'.status = st
  <2>1. s = "write" => file' = NewState(o)
    BY <1>1, StateWritten DEF Steady
  <2>2. s = "error" => file'.status = "error" /\ file'.version = file.version
    BY <1>1, StateWritten DEF Steady
  <2> QED BY <1>3, <2>1, <2>2 DEF NewState
<1>6. m = {s}
  <2>1. m \subseteq Step
    BY <1>1, <1>3, HeadIsFirst, LenProperties DEF Steady, Typed, At, Program, Steps
  <2>2. \A x \in Step : ~(Rank(op[o].action, s) < Rank(op[o].action, x)) \/ x = "error"
    BY <1>1 DEF Rank, Step
  <2>3. "error" \in m => s = "error"
    BY <1>1, <1>3, <1>4, Known, StepKinds DEF Steady, Typed, Applies, Enables, Disables, Removes
  <2> QED BY <1>4, <2>1, <2>2, <2>3
<1>7. Continues(o, {})
  BY <1>1, <1>2, <1>3, <1>6, ThenContinues DEF Steady, Typed
<1>8. Truth'
  <2>1. CASE IsApplying(o)
    <3>1. Applied(p, v, st, m) /\ s = "write"
      BY <1>1, <1>3, <1>4, <2>1, Known DEF Applies
    <3>2. current' = v /\ file'.version = v /\ file'.status \in {"active", st} /\ st # "removed"
      BY <1>2, <1>5, <3>1 DEF Applied, Prior
    <3> QED BY <1>2, <1>6, <3>1, <3>2 DEF Applied, Entitled, GrantsOnly, GoesOff, Truth, Named,
          Gone,
            Licensed, ScopedOnly, Off
  <2>2. CASE IsEnabling(o)
    <3>1. Enabled(v, st, m) /\ op[o].action \notin Installs
      BY <1>1, <1>3, <2>2, Known DEF IsEnabling, Installs
    <3> QED BY <1>2, <1>5, <1>6, <3>1 DEF Enabled, Entitled, Truth, Named, Gone, Licensed,
            ScopedOnly, Off
  <2>3. CASE IsDisabling(o)
    <3>1. Disabled(v, st, m) /\ Truth /\ op[o].action \notin Installs
      BY <1>1, <1>3, <2>3, Known DEF IsDisabling, Installs
    <3> QED BY <1>2, <1>5, <1>6, <3>1 DEF Disabled, Truth, Named, Gone, Licensed, ScopedOnly, Off
  <2>4. CASE IsRemoving(o)
    <3>1. /\ Removed(st, m) /\ Truth /\ op[o].action \notin Installs /\ s = "write"
      BY <1>1, <1>3, <1>4, <2>4, Known DEF IsRemoving, Installs, Removes
    <3>2. current' = None /\ file'.status = "removed"
      BY <1>2, <1>5, <1>6, <3>1 DEF Removed
    <3> QED BY <1>2, <3>1, <3>2 DEF Releases, Truth, Named, Gone, Licensed, ScopedOnly, Off
  <2> QED BY <1>1, <2>1, <2>2, <2>3, <2>4, StepKinds DEF Steady, Typed
<1> QED BY <1>1, <1>4, <1>7, <1>8, Quiet, SoundOn DEF Steady

-----------------------------------------------------------------------------
(* Errors *)

\* What an error leaves of the credential and of the integration.
LEMMA FailLeaves ==
    ASSUME ModuleOk, NEW o \in Op, Fail(o), NEW s, s = Head(op[o].todo)
    PROVE  /\ s # "ensure" => (granted' => granted)
           /\ s \notin {"activate.py", "install.py"} => (running' => running)
<1>1. granted' \in FailedHelperLeaves(s) /\ running' \in FailedHookLeaves(s)
  <2>1. /\ granted' \in FailedHelperLeaves(Head(op[o].todo))
        /\ running' \in FailedHookLeaves(Head(op[o].todo))
    BY DEF Fail
  <2> QED BY <2>1
<1>2. granted \in BOOLEAN /\ running \in BOOLEAN
  BY DEF ModuleOk
<1>3. s # "ensure" => (granted' => granted)
  BY <1>1, <1>2, FailedHelperCases
<1>4. s \notin {"activate.py", "install.py"} => running' \in {running, FALSE}
  BY <1>1, <1>2, FailedHookCases
<1>5. running' \in {running, FALSE} => (running' => running)
  OBVIOUS
<1> QED BY <1>3, <1>4, <1>5

\* An error once the link has moved: the rollback knows what it goes back to.
LEMMA FailApplying ==
    ASSUME Releases, Steady, ~disturbed', NEW o \in Op, Fail(o), IsApplying(o)
    PROVE  Sound'
<1>1. PICK s : s = Head(op[o].todo)
  OBVIOUS
<1>2. PICK p, v, st, m : /\ p = op[o].previous /\ v = op[o].version /\ st = op[o].status
                         /\ m = Left(o)
  OBVIOUS
<1>3. At(o, s) /\ UNCHANGED <<release, current, file, certificate, transfer>>
  BY <1>1 DEF Fail, At
<1>4. /\ ~transfer' /\ TornByOne' /\ s \in m /\ Applied(p, v, st, m) /\ m \subseteq Applies
  <2>1. m \subseteq Applies /\ s \in m /\ Applied(p, v, st, m) /\ ~transfer
    BY <1>2, <1>3, Known
  <2>2. s # "manifest"
    BY <2>1 DEF Applies
  <2> QED BY <1>2, <1>3, <2>1, <2>2, Known, NoneTorn
<1>5. Applying(op[o]) /\ op[o].action \in Installs /\ ~op[o].back
  <2>1. op[o].action \in Installs /\ ~op[o].back
    BY <1>3, Kinds DEF Steady, Typed, Shape, At, IsApplying, IsUndoing
  <2> QED BY <1>1, <1>4, <2>1 DEF Applying, Applies
<1>6. PICK l :
         /\ Continues(o, l) /\ l # {} /\ l \subseteq Undoes /\ "unlink" \in l
         /\ op'[o].action = op[o].action /\ op'[o].version = v
         /\ op'[o].previous = p /\ op'[o].status = st /\ op'[o].back
         /\ p = None => l \subseteq {"forget", "unlink"} /\ (v \in Scoped => "forget" \in l)
         /\ p # None => /\ "relink" \in l /\ "forget" \notin l
                        /\ "ensure" \in l => p \in Scoped
                        /\ st = "disabled" => "activate.py" \notin l /\ "deactivate.py" \in l
                        /\ st = "disabled" /\ Scope(p) => "revoke" \in l
  BY <1>2, <1>5, FailContinues DEF Steady, Typed
<1>7. granted' => v \in Scoped
  <2>1. granted' => granted \/ s = "ensure"
    BY <1>1, FailLeaves DEF Steady, Typed
  <2> QED BY <1>4, <2>1 DEF Applied, GrantsOnly
<1>8. p # None /\ granted' => Scope(p)
  BY <1>2, <1>5 DEF Fail
<1>9. p # None => Prior(p, v, st) /\ release[p] = "complete"
  BY <1>4 DEF Applied, Prior
<1>10. Undone(p, v, st, l)'
  <2>1. CASE p = None
    BY <1>6, <1>7, <2>1 DEF Undone
  <2>2. CASE p # None
    <3>1. Prior(p, v, st)'
      BY <1>3, <1>9, <2>2 DEF Prior
    <3>2. GrantsOnly(p, l)'
      BY <1>6, <1>8, <2>2 DEF GrantsOnly, Scope
    <3>3. GoesOff(p, st, l)'
      BY <1>6, <1>8, <1>9, <2>2 DEF GoesOff, Scope
    <3> QED BY <1>6, <2>2, <3>1, <3>2, <3>3 DEF Undone
  <2> QED BY <2>1, <2>2
<1>11. SoundAt(o)'
  <2>1. Left(o)' = l
    BY <1>6 DEF Continues
  <2> QED BY <1>5, <1>6, <1>10, <2>1, UndoingSound
<1> QED BY <1>3, <1>4, <1>6, <1>11, Quiet, SoundOn DEF Steady

\* Any other error leaves the module as it was, or a credential or an integration
\* less, or an enable that is yet to write its error.
LEMMA FailEnabling ==
    ASSUME Releases, Steady, ~disturbed', NEW o \in Op, Fail(o), IsEnabling(o)
    PROVE  Sound'
<1>1. PICK s : s = Head(op[o].todo)
  OBVIOUS
<1>2. PICK v, st, m : v = op[o].version /\ st = op[o].status /\ m = Left(o)
  OBVIOUS
<1>3. At(o, s) /\ UNCHANGED <<release, current, file, certificate, transfer>>
  BY <1>1 DEF Fail, At
<1>4. /\ ~Applying(op[o]) /\ op[o].action = "enable" /\ ~op[o].back
  BY <1>3, Kinds DEF Steady, Typed, Shape, ShapeAt, At, IsEnabling, Applying, Installs
<1>5. s \notin {"forget", "write", "error"}
  BY <1>1, <1>4 DEF Fail
<1>6. /\ ~transfer' /\ TornByOne' /\ s \in m /\ Enabled(v, st, m)
      /\ s = "ensure" \/ s = "activate.py"
  <2>1. /\ s \in m /\ Enabled(v, st, m) /\ ~transfer
        /\ m \subseteq Enables \/ m \subseteq {"forget", "error"}
    BY <1>2, <1>3, Known
  <2>2. s = "ensure" \/ s = "activate.py"
    BY <1>5, <2>1 DEF Enables
  <2> QED BY <1>2, <1>3, <2>1, <2>2, Known, NoneTorn
<1>7. PICK l :
         /\ Continues(o, l)
         /\ l # {} => /\ op'[o].action = op[o].action /\ op'[o].version = v
                      /\ op'[o].status = st /\ ~op'[o].back
         /\ \/ l = {}
            \/ /\ "error" \in l /\ l \subseteq {"forget", "error"} /\ s = "activate.py"
         /\ s = "activate.py" => l # {}
  BY <1>1, <1>2, <1>4, <1>5, FailContinues DEF Steady, Typed
<1>8. CASE s = "ensure"
  <2>1. ~granted'
    BY <1>1, <1>4, <1>8 DEF Fail
  <2>2. running' = running
    BY <1>1, <1>8 DEF Fail, FailedHookLeaves
  <2>3. Truth'
    BY <1>3, <1>6, <1>8, <2>1, <2>2 DEF Enabled, Truth, Named, Gone, Licensed, ScopedOnly, Off
  <2>4. l = {}
    BY <1>7, <1>8
  <2> QED BY <1>3, <1>6, <1>7, <2>3, <2>4, Quiet, SoundOn DEF Steady
<1>9. CASE s = "activate.py"
  <2>1. granted' = granted
    BY <1>1, <1>9, FailedHelperCases DEF Fail, Steady, Typed, ModuleOk
  <2>2. "write" \notin l /\ "ensure" \notin l /\ "read" \notin l /\ l # {}
    BY <1>7, <1>9
  <2>3. Enabled(v, st, l)'
    BY <1>3, <1>6, <2>1, <2>2 DEF Enabled, Named, Gone, Licensed, ScopedOnly
  <2>4. SoundAt(o)'
    <3>1. Left(o)' = l
      BY <1>7, <2>2 DEF Continues
    <3> QED BY <1>4, <1>7, <2>2, <2>3, <3>1, EnablingSound
  <2> QED BY <1>3, <1>6, <1>7, <2>2, <2>4, Quiet, SoundOn DEF Steady
<1> QED BY <1>6, <1>8, <1>9

\* An error anywhere else leaves the module as it found it, or excludes the state as
\* one the code cannot answer for.
LEMMA FailOtherwise ==
    ASSUME Releases, Steady, ~disturbed', NEW o \in Op, Fail(o), ~IsApplying(o), ~IsEnabling(o)
    PROVE  Sound'
<1>1. PICK s : s = Head(op[o].todo)
  OBVIOUS
<1>2. At(o, s) /\ UNCHANGED <<release, current, file, certificate, transfer>>
  BY <1>1 DEF Fail, At
<1>3. /\ Alive(o) /\ s \in Left(o) /\ ShapeAt(o) /\ op[o] \in OpRow /\ op[o].action \in Action
  BY <1>2, NextStep DEF Steady, Typed, OpRow
<1>4. ~op[o].back
  BY DEF Fail
<1>5. ~Applying(op[o])
  <2> SUFFICES ASSUME op[o].action \in Installs
               PROVE  s \in {"fetch", "verify", "place", "open", "manifest", "previous", "switch"}
    BY <1>1 DEF Applying
  <2> QED BY <1>3, <1>4 DEF ShapeAt, IsApplying, Places
<1>6. Truth
  BY <1>2, <1>4, Quiet DEF Steady, SoundAt, IsUndoing
<1>7. s \notin {"forget", "write", "error", "ensure"}
  <2>1. s \notin {"forget", "write", "error"}
    BY <1>1, <1>5 DEF Fail
  <2>2. s # "ensure"
    BY <1>2, <1>4, StepKinds DEF Steady, Typed, IsUndoing
  <2> QED BY <2>1, <2>2
<1>8. s \notin {"activate.py", "install.py"}
  BY <1>2, <1>4, StepKinds DEF Steady, Typed, IsUndoing
<1>9. (granted' => granted) /\ (running' => running)
  BY <1>1, <1>7, <1>8, FailLeaves DEF Steady, Typed
<1>10. Truth'
  BY <1>2, <1>6, <1>9, TruthStays
<1>11. PICK l :
          /\ Continues(o, l)
          /\ l # {} => op'[o].action = op[o].action /\ ~op'[o].back
          /\ l = {} \/ (l = {"error"} /\ op[o].action = "disable")
  BY <1>1, <1>4, <1>5, <1>7, <1>8, FailContinues DEF Steady, Typed
<1>12. ASSUME l # {} PROVE SoundAt(o)'
  <2>1. Left(o)' = l /\ "write" \notin l
    BY <1>11, <1>12 DEF Continues
  <2> QED BY <1>10, <1>11, <1>12, <2>1, PlainSound
<1>13. TornByOne'
  <2>1. \A w \in Version : release[w] = "torn" => s = "manifest" /\ op[o].version = w
    BY <1>2, Quiet DEF Steady
  <2>2. s = "manifest" => release[op[o].version] # "torn"
    BY <1>1 DEF Fail
  <2> QED BY <1>2, <2>1, <2>2, NoneTorn
<1>14. ~transfer'
  BY <1>2, Quiet DEF Steady
<1> QED BY <1>2, <1>10, <1>11, <1>12, <1>13, <1>14, Quiet, SoundOn DEF Steady

-----------------------------------------------------------------------------
(* Licences and restarts *)

\* A licence is activated, or released only where it is not in use.
LEMMA LicenceSound ==
    ASSUME Releases, Typed, Shape, Kept, Sound, ~disturbed',
           ActivateLicense \/ BeginTransfer \/ EndTransfer
    PROVE  Sound'
<1>1. UNCHANGED <<release, current, file, granted, running, op>>
  BY DEF ActivateLicense, BeginTransfer, EndTransfer, module
<1>2. ~disturbed
  BY DEF ActivateLicense, BeginTransfer, EndTransfer
<1>3. \A o \in Op : (Alive(o)' <=> Alive(o)) /\ (Left(o)' = Left(o))
  BY <1>1 DEF Alive, Left, Steps
<1>4. TornByOne'
  BY <1>1, <1>2 DEF Sound, TornByOne, At, Alive
<1>5. CASE ActivateLicense
  <2>1. ~certificate /\ certificate' /\ UNCHANGED transfer
    BY <1>5 DEF ActivateLicense
  <2>2. Alone' /\ Released' /\ (AtRest' => Truth')
    BY <1>1, <1>2, <1>3, <2>1 DEF Sound, Alone, Released, AtRest, Truth, Named, Gone, Licensed,
       ScopedOnly, Off
  <2>3. ASSUME NEW o \in Op, Alive(o)' PROVE SoundAt(o)'
    <3>1. SoundAt(o)
      BY <1>2, <1>3, <2>3 DEF Sound
    <3>2. PICK p, v, st, l : /\ p = op[o].previous /\ v = op[o].version /\ st = op[o].status
                             /\ l = Left(o)
      OBVIOUS
    <3>3. /\ IsPlacing(o)' <=> IsPlacing(o)
          /\ IsApplying(o)' <=> IsApplying(o)
          /\ IsUndoing(o)' <=> IsUndoing(o)
          /\ IsEnabling(o)' <=> IsEnabling(o)
          /\ IsDisabling(o)' <=> IsDisabling(o)
          /\ IsRemoving(o)' <=> IsRemoving(o)
      BY <1>1, <1>3 DEF IsPlacing, IsApplying, IsUndoing, IsEnabling, IsDisabling, IsRemoving,
         Installs
    <3>4. Truth => Truth'
      BY <1>1, <2>1 DEF Truth, Named, Gone, Licensed, ScopedOnly, Off
    <3>5. IsPlacing(o) => Placed(op[o].previous, op[o].version, op[o].status, Left(o))'
      BY <1>1, <1>3, <2>1, <3>1, <3>2 DEF SoundAt, Placed, Prior, Entitled
    <3>6. IsApplying(o) => Applied(op[o].previous, op[o].version, op[o].status, Left(o))'
      BY <1>1, <1>3, <2>1, <3>1, <3>2 DEF SoundAt, Applied, Prior, Entitled, GrantsOnly, GoesOff
    <3>7. IsUndoing(o) => Undone(op[o].previous, op[o].version, op[o].status, Left(o))'
      BY <1>1, <1>3, <2>1, <3>1, <3>2 DEF SoundAt, Undone, Prior, GrantsOnly, GoesOff
    <3>8. IsEnabling(o) => Enabled(op[o].version, op[o].status, Left(o))'
      BY <1>1, <1>3, <2>1, <3>1, <3>2 DEF SoundAt, Enabled, Entitled, Named, Gone, Licensed,
         ScopedOnly, Off
    <3>9. IsDisabling(o) => Disabled(op[o].version, op[o].status, Left(o))'
      BY <1>1, <1>3, <3>1, <3>2 DEF SoundAt, Disabled
    <3>10. IsRemoving(o) => Removed(op[o].status, Left(o))'
      BY <1>1, <1>3, <3>1, <3>2 DEF SoundAt, Removed
    <3> QED BY <3>1, <3>3, <3>4, <3>5, <3>6, <3>7, <3>8, <3>9, <3>10 DEF SoundAt
  <2> QED BY <1>4, <2>2, <2>3 DEF Sound
<1>6. CASE BeginTransfer
  <2>1. \A o \in Op : Alive(o) => Readable /\ op[o].recorded
    BY <1>6 DEF BeginTransfer
  <2>2. MayTransfer /\ UNCHANGED certificate
    BY <1>6 DEF BeginTransfer
  <2>3. AtRest
    BY <2>1, <2>2 DEF AtRest, MayTransfer, Listed, Pending
  <2>4. ~(current \in Premium /\ file.status = "active")
    <3>1. CASE Readable
      BY <2>2, <3>1 DEF MayTransfer, Listed
    <3>2. CASE ~Readable
      <4>1. current # None => release[current] = "torn"
        BY <3>2 DEF Readable, Kept, CurrentWasComplete
      <4>2. current = None
        BY <1>2, <2>3, <4>1 DEF Sound, TornByOne, AtRest, At, Typed, ModuleOk
      <4> QED BY <4>2 DEF Releases
    <3> QED BY <3>1, <3>2
  <2>5. Truth'
    BY <1>1, <1>2, <2>2, <2>3 DEF Sound, Truth, Named, Gone, Licensed, ScopedOnly, Off
  <2>6. \A o \in Op : ~Alive(o)'
    BY <1>3, <2>3 DEF AtRest
  <2> QED BY <1>1, <1>4, <2>4, <2>5, <2>6 DEF Sound, Alone, Released
<1>7. CASE EndTransfer
  <2>1. transfer /\ ~transfer'
    BY <1>7 DEF EndTransfer
  <2>2. AtRest /\ Released
    BY <1>2, <2>1 DEF Sound, Alone, AtRest
  <2>3. Truth'
    BY <1>1, <1>2, <2>1, <2>2 DEF Sound, Released, Truth, Named, Gone, Licensed, ScopedOnly, Off
  <2>4. \A o \in Op : ~Alive(o)'
    BY <1>3, <2>2 DEF AtRest
  <2> QED BY <1>4, <2>1, <2>3, <2>4 DEF Sound, Alone, Released
<1> QED BY <1>5, <1>6, <1>7

\* A restart that finds no command working excludes nothing.
LEMMA RestartSound ==
    ASSUME Typed, Shape, Kept, Sound, ~disturbed', Restart
    PROVE  Sound'
<1>1. ~disturbed /\ AtRest
  BY DEF Restart, AtRest
<1>2. ~transfer' /\ UNCHANGED <<release, current, file, granted, running, certificate>>
  BY DEF Restart, module
<1>3. \A o \in Op : ~Alive(o)'
  BY RestartOps DEF Typed
<1>4. Truth'
  BY <1>1, <1>2 DEF Sound, Truth, Named, Gone, Licensed, ScopedOnly, Off
<1>5. TornByOne'
  BY <1>1, <1>2, NoneTorn DEF Sound, TornByOne, AtRest, At
<1> QED BY <1>2, <1>3, <1>4, <1>5 DEF Sound, Alone, Released

-----------------------------------------------------------------------------
(* The invariant *)

\* The invariant holds before the first command.
LEMMA InitInv == ASSUME Releases, Init PROVE IInv
<1>1. /\ op = [o \in Op |-> Idle] /\ release = [v \in Version |-> "absent"] /\ current = None
      /\ file = [status |-> "active", version |-> None]
      /\ ~granted /\ ~running /\ ~certificate /\ ~transfer /\ ~disturbed
  BY DEF Init
<1>2. OpsOk /\ \A o \in Op : op[o] = Idle /\ ~Alive(o)
  BY <1>1, IdleRow DEF OpsOk, Alive
<1>3. ModuleOk
  BY DEF Init, ModuleOk, Status
<1>4. Shape /\ Kept
  BY <1>1, <1>2, IdleRow DEF Shape, Kept, CurrentWasComplete
<1>5. Truth
  BY <1>1 DEF Releases, Truth, Named, Gone, Licensed, ScopedOnly, Off
<1>6. TornByOne
  BY <1>1 DEF TornByOne
<1>7. Sound
  BY <1>1, <1>2, <1>5, <1>6 DEF Sound, Alone, Released
<1> QED BY <1>2, <1>3, <1>4, <1>7 DEF IInv, Typed

\* Once something unexcluded has happened, it has.
LEMMA DisturbedStays ==
    ASSUME Next, disturbed
    PROVE  disturbed'
<1>1. ASSUME NEW o \in Op, Plain(o) PROVE disturbed'
  BY <1>1 DEF Plain, Place, OpenManifest, CopyManifest, Ensure, Revoke, Hook, Unlink, Relink,
     WriteState
<1>2. ASSUME NEW o \in Op,
             \/ \E a \in Action : Check(o, a)
             \/ Spawn(o) \/ Record(o)
             \/ \E v \in Version : Fetch(o, v)
             \/ Verify(o) \/ ReadPrevious(o) \/ Switch(o) \/ ReadCurrent(o)
      PROVE  disturbed'
  BY <1>2 DEF Check, Spawn, Record, Fetch, Verify, ReadPrevious, Switch, ReadCurrent
<1>3. ASSUME NEW o \in Op, Fail(o) PROVE disturbed'
  BY <1>3 DEF Fail
<1>4. CASE ActivateLicense \/ BeginTransfer \/ EndTransfer \/ Restart
  BY <1>4 DEF ActivateLicense, BeginTransfer, EndTransfer, Restart
<1> QED BY <1>1, <1>2, <1>3, <1>4, NextCases

\* Every step keeps Sound.
LEMMA NextSound ==
    ASSUME Releases, Typed, Shape, Kept, Sound, Next
    PROVE  Sound'
<1> SUFFICES ASSUME ~disturbed' PROVE Sound'
  BY DEF Sound
<1>1. ~disturbed
  BY DisturbedStays
<1>2. Steady
  BY <1>1 DEF Steady
<1>3. ASSUME NEW o \in Op, Plain(o) PROVE Sound'
  BY <1>2, <1>3, PlaceSound, EnsureSound, RevokeSound, HookSound, UnlinkSound,
     RelinkSound, WriteSound
     DEF Plain
<1>4. ASSUME NEW o \in Op, Fail(o) PROVE Sound'
  BY <1>2, <1>4, FailApplying, FailEnabling, FailOtherwise
<1>5. ASSUME NEW o \in Op,
             \/ \E a \in Action : Check(o, a)
             \/ Spawn(o) \/ Record(o)
             \/ \E v \in Version : Fetch(o, v)
             \/ Verify(o) \/ ReadPrevious(o) \/ Switch(o) \/ ReadCurrent(o)
      PROVE  Sound'
  BY <1>1, <1>5, CheckSound, SpawnSound, RecordSound, FetchSound, VerifySound, ReadPreviousSound,
     SwitchSound, ReadCurrentSound
<1>6. CASE ActivateLicense \/ BeginTransfer \/ EndTransfer
  BY <1>6, LicenceSound
<1>7. CASE Restart
  BY <1>7, RestartSound
<1> QED BY <1>3, <1>4, <1>5, <1>6, <1>7, NextCases

\* The invariant is about the variables only.
LEMMA StutterInv ==
    ASSUME IInv, UNCHANGED vars
    PROVE  IInv'
<1> USE DEF vars, module
<1>1. Typed' /\ Shape'
  BY OpsStay DEF IInv, Typed, OpsOk, ModuleOk, Alive
<1>2. \A o \in Op : (Alive(o)' <=> Alive(o)) /\ Left(o)' = Left(o)
  BY DEF Alive, Left, Steps
<1>3. Kept'
  BY <1>2 DEF IInv, Kept, KeptAt, CurrentWasComplete, Begun, IsPlacing, Installs
<1>4. Sound'
  <2>1. Alone' = Alone /\ Released' = Released
    BY <1>2 DEF Alone, Released
  <2>2. TornByOne' = TornByOne /\ AtRest' = AtRest /\ Truth' = Truth
    BY <1>2 DEF TornByOne, At, AtRest, Truth, Named, Gone, Licensed, ScopedOnly, Off
  <2>3. \A o \in Op : SoundAt(o) => SoundAt(o)'
    <3> SUFFICES ASSUME NEW o \in Op, SoundAt(o) PROVE SoundAt(o)'
      OBVIOUS
    <3>1. SameCommand(o)
      BY DEF SameCommand
    <3> QED BY <1>2, <3>1, SameSound
  <2> QED BY <1>2, <2>1, <2>2, <2>3 DEF IInv, Sound
<1> QED BY <1>1, <1>3, <1>4 DEF IInv

\* The invariant holds in every behaviour.
LEMMA Inductive == Spec => []IInv
<1>. Releases
  BY ConstantAssumption DEF Releases
<1>1. Init => IInv
  BY InitInv
<1>2. IInv /\ [Next]_vars => IInv'
  <2> SUFFICES ASSUME IInv, [Next]_vars PROVE IInv'
    OBVIOUS
  <2>1. CASE Next
    BY <2>1, OpsKept, ModuleKept, NextKept, NextSound DEF IInv, Typed
  <2>2. CASE UNCHANGED vars
    BY <2>2, StutterInv
  <2> QED BY <2>1, <2>2
<1> QED BY <1>1, <1>2, PTL DEF Spec

\* Every variable keeps its type; an operation has a process exactly as long as it has
\* steps left.
THEOREM TypeCorrect == Spec => []TypeOK
<1>1. IInv => TypeOK
  <2> SUFFICES ASSUME IInv PROVE TypeOK
    OBVIOUS
  <2>1. ASSUME NEW o \in Op
        PROVE  /\ op[o] \in OpRow
               /\ (op[o].state = "alive") = (op[o].todo # <<>>)
    BY DEF IInv, Typed, OpsOk, Alive
  <2> QED BY <2>1 DEF IInv, Typed, ModuleOk, OpRow, TypeOK
<1> QED BY <1>1, Inductive, PTL

\* The link never names a release whose directory was not unpacked with its
\* module.json, whatever fails and whichever commands run together.
THEOREM LinkHolds == Spec => []CurrentWasComplete
<1>1. IInv => CurrentWasComplete
  BY DEF IInv, Kept
<1> QED BY <1>1, Inductive, PTL

\* At rest, and with nothing excluded, install.json names the release the link names,
\* a module it calls disabled has neither credential nor integration left, and one it
\* calls removed has no link and no credential.
THEOREM FileHolds == Spec => []FileIsTrue
<1>1. IInv => FileIsTrue
  <2> SUFFICES ASSUME IInv, AtRest, ~disturbed
               PROVE  /\ current # None => file.version = current
                      /\ current \in Deactivates /\ file.status = "disabled" =>
                             ~granted /\ ~running
                      /\ file.status = "removed" => current = None /\ ~granted
    BY DEF FileIsTrue
  <2>1. Truth
    BY DEF IInv, Sound
  <2> QED BY <2>1, ConstantAssumption DEF Truth, Named, Gone, ScopedOnly, Off
<1> QED BY <1>1, Inductive, PTL

\* At rest, and with nothing excluded, a premium release that is active has its
\* licence: an error that puts an earlier release back does not do so without one.
THEOREM LicenceHolds == Spec => []ActiveIsLicensed
<1>1. IInv => ActiveIsLicensed
  BY DEF IInv, Sound, Truth, Licensed, ActiveIsLicensed
<1> QED BY <1>1, Inductive, PTL

-----------------------------------------------------------------------------
(* Connections.  A request taken in its window has left a nonce that is not    *)
(* older than Skew before its time stamp, so the janitor keeps it as long as   *)
(* the request could be taken again (TakenInv); and where a revocation deletes *)
(* it, the connection gets a key the request was not signed with (KeyInv).     *)


\* Keys are numbered: nothing is signed with a key still to come, and a row that
\* waits for its pairing never had one.
KeyInv ==
    /\ \A m \in Message : sent[m] # NoMessage => sent[m].key <= keys[sent[m].conn]
    /\ \A c \in Connection : row[c].key <= keys[c]
    /\ \A c \in Paired : row[c].status \in {"none", "pending"} => keys[c] = 0

\* One pairing at a time has passed its checks, on a row that had no key.
PairingInv ==
    /\ \A p, q \in Pairer : pairing[p] # NoConn /\ pairing[q] # NoConn => p = q
    /\ \A p \in Pairer : pairing[p] # NoConn => keys[pairing[p]] = 0

\* A delivery being handled carries a request; a verified one is not too early.
HandledInv ==
    \A r \in Request : handled[r].step # "idle" =>
        /\ handled[r].msg \in Message
        /\ sent[handled[r].msg] # NoMessage
        /\ handled[r].step = "verified" => sent[handled[r].msg].ts <= clock + Skew

\* The nonce that keeps a taken request from being taken again.
TakenInv ==
    \A m \in Message :
        /\ taken[m] <= 1
        /\ taken[m] # 0 => sent[m] # NoMessage
        /\ taken[m] # 0 /\ InTime(m) /\ Current(m) =>
               \E n \in nonces : n.msg = m /\ sent[m].ts <= n.at + Skew

ConnectionInv ==
    /\ ConnectionTypeOK /\ KeyInv /\ PairingInv /\ HandledInv /\ TakenInv
    /\ PairedOnce

\* It holds before the first connection.
LEMMA InitConnectionInv == ConnectionInit => ConnectionInv
BY LifetimeAssumption DEF ConnectionInit, ConnectionInv, ConnectionTypeOK, KeyInv,
   PairingInv, HandledInv, TakenInv,
   PairedOnce, Row, Handled, NoDelivery, NoKey, Time, Connection

\* Steps that leave keys, messages and time alone and do not remove what guards a
\* taken request.
LEMMA TakenFrame ==
    ASSUME ConnectionInv, UNCHANGED <<sent, taken>>, clock' \in Time, clock <= clock',
           \A m \in Message : sent[m] # NoMessage =>
               \/ nonces \subseteq nonces' /\ (Current(m)' => Current(m))
               \/ ~Current(m)'
    PROVE  TakenInv'
<1> SUFFICES ASSUME NEW m \in Message
             PROVE  /\ taken[m] <= 1
                    /\ taken[m] # 0 => sent[m] # NoMessage
                    /\ taken[m] # 0 /\ InTime(m)' /\ Current(m)' =>
                           \E n \in nonces' : n.msg = m /\ sent[m].ts <= n.at + Skew
  BY DEF TakenInv
<1>1. taken[m] <= 1 /\ (taken[m] # 0 => sent[m] # NoMessage)
  BY DEF ConnectionInv, TakenInv
<1>2. ASSUME taken[m] # 0, InTime(m)', Current(m)'
      PROVE  \E n \in nonces' : n.msg = m /\ sent[m].ts <= n.at + Skew
  <2>1. sent[m] # NoMessage /\ nonces \subseteq nonces' /\ Current(m)
    BY <1>1, <1>2
  <2>2. sent[m].ts \in Nat /\ clock \in Nat /\ clock' \in Nat
    BY <2>1 DEF ConnectionInv, ConnectionTypeOK, Signed, Time
  <2>3. InTime(m)
    BY <1>2, <2>2, LifetimeAssumption DEF InTime
  <2> QED BY <1>2, <2>1, <2>3 DEF ConnectionInv, TakenInv
<1> QED BY <1>1, <1>2

\* What a revocation leaves of a row.
LEMMA RevokedRow ==
    ASSUME ConnectionTypeOK, NEW c \in Connection
    PROVE  Revoked(c) \in Row /\ Revoked(c).key = 0 /\ Revoked(c).status = "revoked"
<1>1. row[c] \in Row
  BY DEF ConnectionTypeOK
<1>2. 0 \in 0 .. MaxKeys
  BY LifetimeAssumption
<1> QED BY <1>1, <1>2 DEF Revoked, Row, NoKey

\* Every step keeps the invariant.
LEMMA NextConnectionInv ==
    ASSUME ConnectionInv, [ConnectionNext]_connectionVars
    PROVE  ConnectionInv'
<1> USE LifetimeAssumption
<1>1. ASSUME NEW c \in Paired, CreatePairing(c) PROVE ConnectionInv'
  <2>1. /\ row' = [row EXCEPT ![c] = [status |-> "pending", key |-> NoKey, expires |-> NewExpiry]]
        /\ row[c].status = "none" /\ c \in Connection
        /\ UNCHANGED <<clock, nonces, keys, sent, handled, pairing, taken>>
    BY <1>1 DEF CreatePairing, Connection
  <2>2. [status |-> "pending", key |-> NoKey, expires |-> NewExpiry] \in Row
    BY DEF ConnectionInv, ConnectionTypeOK, Row, NoKey, NewExpiry, Time
  <2>3. ConnectionTypeOK'
    BY <2>1, <2>2 DEF ConnectionInv, ConnectionTypeOK
  <2>4. KeyInv' /\ PairingInv' /\ HandledInv' /\ PairedOnce'
    BY <2>1 DEF ConnectionInv, ConnectionTypeOK, KeyInv, PairingInv, HandledInv, PairedOnce,
       NoKey, Connection
  <2>5. TakenInv'
    <3>1. \A m \in Message : sent[m] # NoMessage => (Current(m)' => Current(m))
      BY <2>1 DEF ConnectionInv, ConnectionTypeOK, Current, Signed, NoKey
    <3> QED BY <2>1, <3>1, TakenFrame DEF ConnectionInv, ConnectionTypeOK, Time
  <2> QED BY <2>3, <2>4, <2>5 DEF ConnectionInv
<1>2. ASSUME NEW p \in Pairer, NEW c \in Paired, PairFinds(p, c) PROVE ConnectionInv'
  <2>1. ConnectionTypeOK' /\ KeyInv' /\ PairingInv' /\ HandledInv' /\ PairedOnce'
    BY <1>2 DEF PairFinds, LoopFree, ConnectionInv, ConnectionTypeOK, KeyInv, PairingInv,
       HandledInv, PairedOnce,
       Connection
  <2>2. TakenInv'
    BY <1>2, TakenFrame DEF PairFinds, Current, ConnectionInv, ConnectionTypeOK, Time
  <2> QED BY <2>1, <2>2 DEF ConnectionInv
\* A new key is one nothing was signed with.
<1>3. ASSUME NEW c \in Connection, Activate(c) PROVE
         /\ row' \in [Connection -> Row] /\ keys' \in [Connection -> 0 .. MaxKeys]
         /\ \A d \in Connection : row'[d].key <= keys'[d] /\ keys[d] <= keys'[d]
         /\ \A d \in Connection : d # c => row'[d] = row[d] /\ keys'[d] = keys[d]
         /\ row'[c].key = keys[c] + 1 /\ row'[c].status = "active" /\ keys'[c] = keys[c] + 1
  <2>1. [status |-> "active", key |-> keys[c] + 1, expires |-> 0] \in Row
    BY <1>3 DEF Activate, ConnectionInv, ConnectionTypeOK, Row, Time
  <2> QED BY <1>3, <2>1 DEF Activate, ConnectionInv, ConnectionTypeOK, KeyInv, Row
<1>4. ASSUME NEW p \in Pairer, PairWrites(p) PROVE ConnectionInv'
  <2>1. PICK c \in Paired : c = pairing[p] /\ c \in Connection
    BY <1>4 DEF PairWrites, ConnectionInv, ConnectionTypeOK, Connection
  <2>2. /\ Activate(c) /\ pairing[p] = c
        /\ pairing' = [pairing EXCEPT ![p] = NoConn]
        /\ UNCHANGED <<clock, nonces, sent, handled, taken>>
    BY <1>4, <2>1 DEF PairWrites
  <2>3. /\ row' \in [Connection -> Row] /\ keys' \in [Connection -> 0 .. MaxKeys]
        /\ \A d \in Connection : row'[d].key <= keys'[d] /\ keys[d] <= keys'[d]
        /\ \A d \in Connection : d # c => row'[d] = row[d] /\ keys'[d] = keys[d]
        /\ row'[c].key = keys[c] + 1 /\ row'[c].status = "active" /\ keys'[c] = keys[c] + 1
    BY <1>3, <2>1, <2>2
  <2>4. keys[c] = 0 /\ \A q \in Pairer : pairing'[q] = NoConn
    BY <2>1, <2>2 DEF ConnectionInv, ConnectionTypeOK, PairingInv, Connection
  <2>5. ConnectionTypeOK' /\ KeyInv' /\ PairingInv' /\ HandledInv' /\ PairedOnce'
    BY <2>1, <2>2, <2>3, <2>4 DEF ConnectionInv, ConnectionTypeOK, KeyInv, PairingInv,
       HandledInv, PairedOnce,
       Connection, Signed
  <2>6. \A m \in Message : sent[m] # NoMessage => (Current(m)' => Current(m))
    BY <2>1, <2>2, <2>3 DEF ConnectionInv, ConnectionTypeOK, KeyInv, Current, Signed
  <2>7. TakenInv'
    BY <2>2, <2>6, TakenFrame DEF ConnectionInv, ConnectionTypeOK, Time
  <2> QED BY <2>5, <2>7 DEF ConnectionInv
<1>5. ASSUME NEW p \in Pairer, PairRefused(p) PROVE ConnectionInv'
  <2>1. ConnectionTypeOK' /\ KeyInv' /\ PairingInv' /\ HandledInv' /\ PairedOnce'
    BY <1>5 DEF PairRefused, ConnectionInv, ConnectionTypeOK, KeyInv, PairingInv, HandledInv,
       PairedOnce
  <2>2. TakenInv'
    BY <1>5, TakenFrame DEF PairRefused, Current, ConnectionInv, ConnectionTypeOK, Time
  <2> QED BY <2>1, <2>2 DEF ConnectionInv
<1>6. ASSUME NEW c \in Local, EnsureModule(c) PROVE ConnectionInv'
  <2>1. c \in Connection /\ c \notin Paired
    BY DEF Connection
  <2>2. /\ Activate(c) /\ nonces' = nonces \ NoncesOf(c)
        /\ UNCHANGED <<clock, sent, handled, pairing, taken>>
    BY <1>6 DEF EnsureModule
  <2>3. /\ row' \in [Connection -> Row] /\ keys' \in [Connection -> 0 .. MaxKeys]
        /\ \A d \in Connection : row'[d].key <= keys'[d] /\ keys[d] <= keys'[d]
        /\ \A d \in Connection : d # c => row'[d] = row[d] /\ keys'[d] = keys[d]
        /\ row'[c].key = keys[c] + 1 /\ row'[c].status = "active" /\ keys'[c] = keys[c] + 1
    BY <1>3, <2>1, <2>2
  <2>4. ConnectionTypeOK' /\ KeyInv' /\ PairingInv' /\ HandledInv' /\ PairedOnce'
    BY <2>1, <2>2, <2>3 DEF ConnectionInv, ConnectionTypeOK, KeyInv, PairingInv, HandledInv,
       PairedOnce,
       Connection, Signed
  <2>5. \A m \in Message : sent[m] # NoMessage /\ sent[m].conn = c => ~Current(m)'
    BY <2>1, <2>2, <2>3 DEF ConnectionInv, ConnectionTypeOK, KeyInv, Current, Signed
  <2>6. \A m \in Message : sent[m] # NoMessage /\ sent[m].conn # c => (Current(m)' => Current(m))
    BY <2>1, <2>2, <2>3 DEF ConnectionInv, ConnectionTypeOK, Current, Signed
  <2>7. TakenInv'
    BY <2>2, <2>5, <2>6 DEF ConnectionInv, ConnectionTypeOK, TakenInv, InTime, NoncesOf
  <2> QED BY <2>4, <2>7 DEF ConnectionInv
<1>7. ASSUME NEW c \in Connection, RevokeConnection(c) PROVE ConnectionInv'
  <2>1. /\ row' = [row EXCEPT ![c] = Revoked(c)] /\ nonces' = nonces \ NoncesOf(c)
        /\ row[c].status # "none"
        /\ UNCHANGED <<clock, keys, sent, handled, pairing, taken>>
    BY <1>7 DEF RevokeConnection
  <2>2. Revoked(c) \in Row /\ Revoked(c).key = 0 /\ Revoked(c).status = "revoked"
    BY RevokedRow DEF ConnectionInv
  <2>3. ConnectionTypeOK' /\ KeyInv' /\ PairingInv' /\ HandledInv' /\ PairedOnce'
    BY <2>1, <2>2 DEF ConnectionInv, ConnectionTypeOK, KeyInv, PairingInv, HandledInv,
       PairedOnce, Connection
  <2>4. \A m \in Message : sent[m] # NoMessage /\ sent[m].conn = c => ~Current(m)'
    BY <2>1, <2>2 DEF ConnectionInv, ConnectionTypeOK, Current, Signed
  <2>5. \A m \in Message : sent[m] # NoMessage /\ sent[m].conn # c => (Current(m)' => Current(m))
    BY <2>1 DEF ConnectionInv, ConnectionTypeOK, Current, Signed
  <2>6. TakenInv'
    BY <2>1, <2>4, <2>5 DEF ConnectionInv, ConnectionTypeOK, TakenInv, InTime, NoncesOf
  <2> QED BY <2>3, <2>6 DEF ConnectionInv
<1>8. CASE Janitor
  <2>1. /\ nonces' = {n \in nonces : ~Outdated(n)}
        /\ UNCHANGED <<clock, keys, sent, handled, pairing, taken>>
    BY <1>8 DEF Janitor
  <2>2. \A c \in Connection : /\ row'[c] \in Row /\ row'[c].key = row[c].key
                              /\ row'[c].status \in {row[c].status, "expired"}
    BY <1>8 DEF Janitor, ConnectionInv, ConnectionTypeOK, Row
  <2>3. row' \in [Connection -> Row]
    BY <1>8, <2>2 DEF Janitor
  <2>4. ConnectionTypeOK' /\ KeyInv' /\ PairingInv' /\ HandledInv' /\ PairedOnce'
    BY <2>1, <2>2, <2>3 DEF ConnectionInv, ConnectionTypeOK, KeyInv, PairingInv, HandledInv,
       PairedOnce, Connection
  <2>5. ASSUME NEW m \in Message, taken[m] # 0, InTime(m)', Current(m)'
        PROVE  \E n \in nonces' : n.msg = m /\ sent[m].ts <= n.at + Skew
    <3>1. sent[m] \in Signed /\ Current(m) /\ InTime(m)
      BY <2>1, <2>2, <2>5 DEF ConnectionInv, ConnectionTypeOK, TakenInv, Current, InTime,
         Signed
    <3>2. PICK n \in nonces : n.msg = m /\ sent[m].ts <= n.at + Skew
      BY <2>5, <3>1 DEF ConnectionInv, TakenInv
    <3>3. n.at \in Nat /\ clock \in Nat /\ sent[m].ts \in Nat
      BY <3>1, <3>2 DEF ConnectionInv, ConnectionTypeOK, Nonce, Signed, Time
    <3>4. clock <= n.at + NonceTTL
      BY <3>1, <3>2, <3>3 DEF InTime
    <3> QED BY <2>1, <3>2, <3>3, <3>4 DEF Outdated
  <2>6. TakenInv'
    BY <2>1, <2>5 DEF ConnectionInv, TakenInv
  <2> QED BY <2>4, <2>6 DEF ConnectionInv
<1>9. ASSUME NEW m \in Message, NEW c \in Connection, NEW k \in 1 .. MaxKeys, NEW ts \in Time,
             Sign(m, c, k, ts)
      PROVE  ConnectionInv'
  <2>1. /\ sent' = [sent EXCEPT ![m] = [conn |-> c, key |-> k, ts |-> ts]]
        /\ sent[m] = NoMessage /\ k <= keys[c] /\ taken[m] = 0
        /\ [conn |-> c, key |-> k, ts |-> ts] \in Signed
        /\ UNCHANGED <<clock, row, nonces, keys, handled, pairing, taken>>
    BY <1>9 DEF Sign, ConnectionInv, TakenInv, ConnectionTypeOK, Signed
  <2>2. ConnectionTypeOK' /\ KeyInv' /\ PairingInv' /\ HandledInv' /\ PairedOnce'
    BY <2>1 DEF ConnectionInv, ConnectionTypeOK, KeyInv, PairingInv, HandledInv, PairedOnce
  <2>3. TakenInv'
    BY <2>1 DEF ConnectionInv, ConnectionTypeOK, TakenInv, InTime, Current
  <2> QED BY <2>2, <2>3 DEF ConnectionInv
<1>10. ASSUME NEW r \in Request, NEW m \in Message, FindConnection(r, m) PROVE ConnectionInv'
  <2>1. /\ handled' = [handled EXCEPT ![r] =
                           [step |-> "found", msg |-> m, key |-> row[sent[m].conn].key]]
        /\ sent[m] # NoMessage
        /\ UNCHANGED <<clock, row, nonces, keys, sent, pairing, taken>>
    BY <1>10 DEF FindConnection
  <2>2. [step |-> "found", msg |-> m, key |-> row[sent[m].conn].key] \in Handled
    BY <2>1 DEF ConnectionInv, ConnectionTypeOK, Signed, Row, Handled
  <2>3. ConnectionTypeOK' /\ KeyInv' /\ PairingInv' /\ HandledInv' /\ PairedOnce'
    BY <2>1, <2>2 DEF ConnectionInv, ConnectionTypeOK, KeyInv, PairingInv, HandledInv,
       PairedOnce
  <2>4. TakenInv'
    BY <2>1, TakenFrame DEF Current, ConnectionInv, ConnectionTypeOK, Time
  <2> QED BY <2>3, <2>4 DEF ConnectionInv
<1>11. ASSUME NEW r \in Request, VerifySignature(r) PROVE ConnectionInv'
  <2>1. /\ handled' = [handled EXCEPT ![r] = [handled[r] EXCEPT !.step = "verified"]]
        /\ handled[r].step = "found" /\ sent[handled[r].msg].ts <= clock + Skew
        /\ UNCHANGED <<clock, row, nonces, keys, sent, pairing, taken>>
    BY <1>11 DEF VerifySignature, InWindow
  <2>2. /\ [handled[r] EXCEPT !.step = "verified"] \in Handled
        /\ [handled[r] EXCEPT !.step = "verified"].msg = handled[r].msg
    BY DEF ConnectionInv, ConnectionTypeOK, Handled
  <2>3. ConnectionTypeOK' /\ KeyInv' /\ PairingInv' /\ HandledInv' /\ PairedOnce'
    BY <2>1, <2>2 DEF ConnectionInv, ConnectionTypeOK, KeyInv, PairingInv, HandledInv,
       PairedOnce
  <2>4. TakenInv'
    BY <2>1, TakenFrame DEF Current, ConnectionInv, ConnectionTypeOK, Time
  <2> QED BY <2>3, <2>4 DEF ConnectionInv
<1>12. ASSUME NEW r \in Request, Refuse(r) PROVE ConnectionInv'
  <2>1. NoDelivery \in Handled /\ NoDelivery.step = "idle"
    BY DEF NoDelivery, Handled, NoKey
  <2>2. ConnectionTypeOK' /\ KeyInv' /\ PairingInv' /\ HandledInv' /\ PairedOnce'
    BY <1>12, <2>1 DEF Refuse, ConnectionInv, ConnectionTypeOK, KeyInv, PairingInv,
       HandledInv, PairedOnce
  <2>3. TakenInv'
    BY <1>12, TakenFrame DEF Refuse, Current, ConnectionInv, ConnectionTypeOK, Time
  <2> QED BY <2>2, <2>3 DEF ConnectionInv
<1>13. ASSUME NEW r \in Request, NEW revokes \in BOOLEAN, Accept(r, revokes) PROVE ConnectionInv'
  <2>1. PICK m \in Message : m = handled[r].msg /\ sent[m] # NoMessage /\ sent[m] \in Signed
                             /\ sent[m].ts <= clock + Skew
    BY <1>13 DEF Accept, ConnectionInv, ConnectionTypeOK, HandledInv
  <2>2. PICK c \in Connection : c = sent[m].conn
    BY <2>1 DEF Signed
  <2>3. /\ ~Used(m) /\ nonces' = nonces \cup {[msg |-> m, at |-> clock]}
        /\ row' = IF revokes THEN [row EXCEPT ![c] = Revoked(c)] ELSE row
        /\ taken' = IF InTime(m) /\ Current(m) THEN [taken EXCEPT ![m] = @ + 1] ELSE taken
        /\ handled' = [handled EXCEPT ![r] = NoDelivery]
        /\ UNCHANGED <<clock, keys, sent, pairing>>
    BY <1>13, <2>1, <2>2 DEF Accept
  <2>4. /\ NoDelivery \in Handled /\ NoDelivery.step = "idle"
        /\ Revoked(c) \in Row /\ Revoked(c).key = 0 /\ Revoked(c).status = "revoked"
        /\ [msg |-> m, at |-> clock] \in Nonce
    BY RevokedRow DEF NoDelivery, Handled, NoKey, ConnectionInv, ConnectionTypeOK, Nonce
  <2>5. ConnectionTypeOK'
    BY <2>3, <2>4 DEF ConnectionInv, ConnectionTypeOK
  <2>6. row[c].status \in {"none", "pending"} => row'[c].status \in {"revoked", row[c].status}
    BY <2>3, <2>4 DEF ConnectionInv, ConnectionTypeOK
  <2>7. KeyInv' /\ PairingInv' /\ HandledInv' /\ PairedOnce'
    BY <2>3, <2>4, <2>6 DEF ConnectionInv, ConnectionTypeOK, KeyInv, PairingInv, HandledInv,
       PairedOnce, Connection
  <2>8. \A k \in Message : sent[k] # NoMessage => (Current(k)' => Current(k))
    BY <2>2, <2>3, <2>4 DEF ConnectionInv, ConnectionTypeOK, Current, Signed
  \* The first acceptance in the window: the nonce of an earlier one would be there.
  <2>9. InTime(m) /\ Current(m) => taken[m] = 0
    BY <2>1, <2>3 DEF ConnectionInv, ConnectionTypeOK, TakenInv, Used
  <2>10. \E n \in nonces' : n.msg = m /\ sent[m].ts <= n.at + Skew
    <3> DEFINE n == [msg |-> m, at |-> clock]
    <3>1. n \in nonces' /\ n.msg = m /\ n.at = clock
      BY <2>3
    <3> QED BY <2>1, <3>1
  <2>11. TakenInv'
    BY <2>1, <2>3, <2>8, <2>9, <2>10 DEF ConnectionInv, ConnectionTypeOK, TakenInv, InTime
  <2> QED BY <2>5, <2>7, <2>11 DEF ConnectionInv
<1>14. CASE Tick
  <2>1. /\ clock' = clock + 1 /\ clock' \in Time /\ clock \in Nat
        /\ UNCHANGED <<row, nonces, keys, sent, handled, pairing, taken>>
    BY <1>14 DEF Tick, ConnectionInv, ConnectionTypeOK, Time
  <2>2. HandledInv'
    BY <2>1 DEF ConnectionInv, ConnectionTypeOK, HandledInv, Signed, Time
  <2>3. ConnectionTypeOK' /\ KeyInv' /\ PairingInv' /\ PairedOnce'
    BY <2>1 DEF ConnectionInv, ConnectionTypeOK, KeyInv, PairingInv, PairedOnce
  <2>4. TakenInv'
    BY <2>1, TakenFrame DEF Current
  <2> QED BY <2>2, <2>3, <2>4 DEF ConnectionInv
<1>15. CASE CockpitRestart
  <2>1. NoDelivery \in Handled /\ NoDelivery.step = "idle"
    BY DEF NoDelivery, Handled, NoKey
  <2>2. ConnectionTypeOK' /\ KeyInv' /\ PairingInv' /\ HandledInv' /\ PairedOnce'
    BY <1>15, <2>1 DEF CockpitRestart, ConnectionInv, ConnectionTypeOK, KeyInv, PairingInv,
       HandledInv, PairedOnce
  <2>3. TakenInv'
    BY <1>15, TakenFrame DEF CockpitRestart, Current, ConnectionInv, ConnectionTypeOK, Time
  <2> QED BY <2>2, <2>3 DEF ConnectionInv
<1>16. CASE UNCHANGED connectionVars
  BY <1>16 DEF connectionVars, ConnectionInv, ConnectionTypeOK, KeyInv, PairingInv,
     HandledInv, TakenInv, PairedOnce,
     InTime, Current
<1> QED
  BY <1>1, <1>2, <1>4, <1>5, <1>6, <1>7, <1>8, <1>9, <1>10, <1>11, <1>12, <1>13, <1>14, <1>15,
     <1>16 DEF ConnectionNext

\* The invariant holds in every behaviour.
LEMMA AlwaysConnectionInv == ConnectionSpec => []ConnectionInv
<1>1. ConnectionInv /\ [ConnectionNext]_connectionVars => ConnectionInv'
  BY NextConnectionInv
<1> QED BY <1>1, InitConnectionInv, PTL DEF ConnectionSpec

\* Every variable keeps its type.
THEOREM ConnectionsTypeCorrect == ConnectionSpec => []ConnectionTypeOK
<1>1. ConnectionInv => ConnectionTypeOK
  BY DEF ConnectionInv
<1> QED BY <1>1, AlwaysConnectionInv, PTL

\* No delay, repetition, clock difference, janitor or revocation makes the cockpit
\* accept a signed request twice in its window under the connection's key.
THEOREM NoRepetition == ConnectionSpec => []AcceptedOnce
<1>1. ConnectionInv => AcceptedOnce
  BY DEF ConnectionInv, TakenInv, AcceptedOnce
<1> QED BY <1>1, AlwaysConnectionInv, PTL

\* A pairing code never brings a connection a second key.
THEOREM PairsOnce == ConnectionSpec => []PairedOnce
<1>1. ConnectionInv => PairedOnce
  BY DEF ConnectionInv
<1> QED BY <1>1, AlwaysConnectionInv, PTL
=============================================================================
