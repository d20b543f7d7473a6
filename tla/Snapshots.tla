------------------------------ MODULE Snapshots ------------------------------
(***************************************************************************)
(* The snapshots of a site: a dump of its database and an archive of its   *)
(* uploads under one timestamp, and names people gave them in a sidecar    *)
(* file.  Taking and restoring a snapshot hold the project lock; naming    *)
(* and deleting one do not, and the site is used meanwhile.                *)
(*                                                                         *)
(* The content of a site is what could go missing: media that the database *)
(* refers to, and the uploaded files themselves.                           *)
(***************************************************************************)
EXTENDS Naturals, FiniteSets

CONSTANTS
    Media,
    Handler, \* requests to name or delete a snapshot
    Limit,   \* dumps that are kept
    MaxTime  \* bound: last value of the clock

Name == 1 .. MaxTime

ASSUME ConstantAssumption == Limit \in Nat \ {0} /\ MaxTime \in Nat \ {0}

VARIABLES
    refs, files, \* the site: media in its database, and in uploads/
    clock,       \* a snapshot is called after the second it began in
    dump, tar,   \* backups/db and backups/files
    sidecar,     \* labels.json
    draft,       \* labels.json.tmp
    op,          \* the operation that holds the project lock
    handler,
    gap,         \* history: snapshots whose archive may lack media of the dump
    excused,     \* history: the last restore was not of a sound snapshot
    overlapped   \* history: two handlers wrote names at a time

site == <<refs, files>>
snapshots == <<dump, tar>>
names == <<sidecar, draft>>
vars == <<site, clock, snapshots, names, op, handler, gap, excused, overlapped>>

NoFile == [state |-> "absent", media |-> {}]
NoOp == [step |-> "idle", name |-> 0]
NoCall == [step |-> "idle", name |-> 0]

Is(f, n, state) == f[n].state = state
Listed == {n \in Name : ~Is(dump, n, "absent")}

TypeOK ==
    /\ {refs, files} \subseteq SUBSET Media
    /\ clock \in Name \cup {0}
    /\ \A f \in {dump, tar} :
          f \in [Name -> [state : {"absent", "partial", "whole"}, media : SUBSET Media]]
    /\ {sidecar, draft} \subseteq {"none", "torn", "whole"}
    /\ op \in [step : {"idle", "open", "dump", "tar", "rotate", "import", "extract"},
               name : Name \cup {0}]
    /\ op.step = "idle" <=> op.name = 0
    /\ \A n \in Listed : n <= clock
    /\ handler \in [Handler -> [step : {"idle", "tar", "read", "open", "fill", "replace"},
                                name : Name \cup {0}]]
    /\ gap \subseteq Name
    /\ {excused, overlapped} \subseteq BOOLEAN

Init ==
    /\ refs \in SUBSET Media /\ files = refs
    /\ clock = 0
    /\ dump = [n \in Name |-> NoFile]
    /\ tar = [n \in Name |-> NoFile]
    /\ sidecar = "none" /\ draft = "none"
    /\ op = NoOp
    /\ handler = [h \in Handler |-> NoCall]
    /\ gap = {}
    /\ excused = FALSE /\ overlapped = FALSE

To(step) == op' = [op EXCEPT !.step = step]
Set(h, new) == handler' = [handler EXCEPT ![h] = new]
Move(h, step) == Set(h, [handler[h] EXCEPT !.step = step])

-----------------------------------------------------------------------------
(* The site in use *)

AddMedia(m) ==
    /\ m \notin files
    /\ refs' = refs \cup {m}
    /\ files' = files \cup {m}
    /\ UNCHANGED <<clock, snapshots, names, op, handler, gap, excused, overlapped>>

\* The dump of a snapshot that is being taken may refer to what its archive
\* will lack.
RemoveMedia(m) ==
    /\ m \in files
    /\ refs' = refs \ {m}
    /\ files' = files \ {m}
    /\ gap' = gap \cup IF op.step = "tar" THEN {op.name} ELSE {}
    /\ UNCHANGED <<clock, snapshots, names, op, handler, excused, overlapped>>

-----------------------------------------------------------------------------
(* Taking a snapshot *)

LockFree == op.step = "idle"

\* Mutant: the time of the last snapshot is its name.
SnapshotBefore ==
    /\ LockFree /\ clock < MaxTime
    /\ clock' = clock + 1
    /\ op' = [NoOp EXCEPT !.step = "open", !.name = clock]
    /\ UNCHANGED <<site, snapshots, names, handler, gap, excused, overlapped>>
\* Two of them are never taken within a second.
TakeSnapshot ==
    /\ LockFree /\ clock < MaxTime
    /\ clock' = clock + 1
    /\ op' = [NoOp EXCEPT !.step = "open", !.name = clock + 1]
    /\ UNCHANGED <<site, snapshots, names, handler, gap, excused, overlapped>>

\* The shell opens the file before mariadb-dump begins.
OpenDump ==
    /\ op.step = "open"
    /\ dump' = [dump EXCEPT ![op.name] = [state |-> "partial", media |-> {}]]
    /\ To("dump")
    /\ UNCHANGED <<site, clock, tar, names, handler, gap, excused, overlapped>>

\* A database that refers to missing files is dumped as it is.  If the snapshot
\* was deleted in the meantime, the dump goes to a file without a name.
WriteDump ==
    /\ op.step = "dump"
    /\ dump' = [dump EXCEPT ![op.name] = IF Is(dump, op.name, "absent") THEN @
                                         ELSE [state |-> "whole", media |-> refs]]
    /\ gap' = gap \cup IF refs \subseteq files THEN {} ELSE {op.name}
    /\ To("tar")
    /\ UNCHANGED <<site, clock, tar, names, handler, excused, overlapped>>

\* An archive that cannot be finished does not make the snapshot fail.
WriteTar ==
    /\ op.step = "tar"
    /\ \E state \in {"whole", "partial"} :
          tar' = [tar EXCEPT ![op.name] = [state |-> state, media |-> files]]
    /\ To("rotate")
    /\ UNCHANGED <<site, clock, dump, names, handler, gap, excused, overlapped>>

\* The oldest dumps go, finished or not; their archives and names stay.
Rotate ==
    LET newer(n) == {k \in Listed : k > n} IN
    /\ op.step = "rotate"
    /\ dump' = [n \in Name |-> IF Cardinality(newer(n)) < Limit THEN dump[n] ELSE NoFile]
    /\ gap' = {n \in gap : ~Is(dump', n, "absent")}
    /\ op' = NoOp
    /\ UNCHANGED <<site, clock, tar, names, handler, excused, overlapped>>

\* The dump fails half-way: its file stays.
SnapshotFails ==
    /\ op.step \in {"open", "dump", "rotate"}
    /\ op' = NoOp
    /\ UNCHANGED <<site, clock, snapshots, names, handler, gap, excused, overlapped>>

-----------------------------------------------------------------------------
(* Restoring one *)

Restore(n) ==
    /\ LockFree
    /\ n \in Listed
    /\ op' = [NoOp EXCEPT !.step = "import", !.name = n]
    /\ UNCHANGED <<site, clock, snapshots, names, handler, gap, excused, overlapped>>

Sound(n) == Is(dump, n, "whole") /\ Is(tar, n, "whole") /\ n \notin gap

\* A dump that failed half-way is packed as well as any and may be loaded.
ImportDump ==
    /\ op.step = "import" /\ op.name \in Listed
    /\ refs' \in IF Is(dump, op.name, "whole") THEN {dump[op.name].media} ELSE SUBSET Media
    /\ excused' = ~Sound(op.name)
    /\ To("extract")
    /\ UNCHANGED <<files, clock, snapshots, names, handler, gap, overlapped>>

\* Mutant: the uploads are replaced by the archive.
ExtractClean ==
    /\ op.step = "extract" /\ ~Is(tar, op.name, "partial")
    /\ files' = tar[op.name].media
    /\ op' = NoOp
    /\ UNCHANGED <<refs, clock, snapshots, names, handler, gap, excused, overlapped>>
\* Files are added and replaced, none is removed.
ExtractTar ==
    /\ op.step = "extract" /\ ~Is(tar, op.name, "partial")
    /\ files' = files \cup tar[op.name].media
    /\ op' = NoOp
    /\ UNCHANGED <<refs, clock, snapshots, names, handler, gap, excused, overlapped>>

\* The dump is gone, ends in the middle or does not load, or the archive does
\* not unpack: the site is left as it is by then.
RestoreFails ==
    /\ \/ /\ op.step = "import"
          /\ refs' \in IF Is(dump, op.name, "absent") THEN {refs} ELSE SUBSET Media
          /\ UNCHANGED files
       \/ /\ op.step = "extract" /\ ~Is(tar, op.name, "absent")
          /\ \E some \in SUBSET tar[op.name].media : files' = files \cup some
          /\ UNCHANGED refs
    /\ excused' = TRUE
    /\ op' = NoOp
    /\ UNCHANGED <<clock, snapshots, names, handler, gap, overlapped>>

-----------------------------------------------------------------------------
(* Naming and deleting, without the lock *)

NameSnapshot(h, n) ==
    /\ handler[h].step = "idle" /\ n \in Listed
    /\ Move(h, "open")
    /\ UNCHANGED <<site, clock, snapshots, names, op, gap, excused, overlapped>>

DeleteDump(h, n) ==
    /\ handler[h].step = "idle" /\ n \in Listed
    /\ dump' = [dump EXCEPT ![n] = NoFile]
    /\ gap' = gap \ {n}
    /\ Set(h, [NoCall EXCEPT !.step = "tar", !.name = n])
    /\ UNCHANGED <<site, clock, tar, names, op, excused, overlapped>>

\* A restore that has read the dump finds no archive then, and goes on.
DeleteTar(h) ==
    LET n == handler[h].name IN
    /\ handler[h].step = "tar"
    /\ tar' = [tar EXCEPT ![n] = NoFile]
    /\ excused' = (excused \/ (op.step = "extract" /\ op.name = n))
    /\ Move(h, "read")
    /\ UNCHANGED <<site, clock, dump, names, op, gap, overlapped>>

\* A deleted snapshot that had no name leaves the file alone.
ReadLabels(h) ==
    /\ handler[h].step = "read"
    /\ \/ sidecar = "whole" /\ Set(h, [NoCall EXCEPT !.step = "open"])
       \/ Set(h, NoCall)
    /\ UNCHANGED <<site, clock, snapshots, names, op, gap, excused, overlapped>>

\* The draft has one name for all handlers: opening it empties what another one
\* has written.
OpenLabels(h) ==
    /\ handler[h].step = "open"
    /\ draft' = "torn"
    /\ Move(h, "fill")
    /\ overlapped' = (overlapped \/ \E k \in Handler : handler[k].step \in {"fill", "replace"})
    /\ UNCHANGED <<site, clock, snapshots, sidecar, op, gap, excused>>

FillLabels(h) ==
    /\ handler[h].step = "fill"
    /\ draft' = "whole"
    /\ Move(h, "replace")
    /\ UNCHANGED <<site, clock, snapshots, sidecar, op, gap, excused, overlapped>>

\* Mutant: the draft is renamed while it is written.
RenameEarly(h) ==
    /\ handler[h].step \in {"fill", "replace"} /\ draft # "none"
    /\ sidecar' = draft /\ draft' = "none"
    /\ Set(h, NoCall)
    /\ UNCHANGED <<site, clock, snapshots, op, gap, excused, overlapped>>
ReplaceLabels(h) ==
    /\ handler[h].step = "replace" /\ draft # "none"
    /\ sidecar' = draft /\ draft' = "none"
    /\ Set(h, NoCall)
    /\ UNCHANGED <<site, clock, snapshots, op, gap, excused, overlapped>>

\* An error of the file system ends the request where it is.
CallFails(h) ==
    /\ handler[h].step # "idle"
    /\ Set(h, NoCall)
    /\ UNCHANGED <<site, clock, snapshots, names, op, gap, excused, overlapped>>

\* The host stops; whatever was being done stays half done.
Crash ==
    /\ op' = NoOp
    /\ handler' = [h \in Handler |-> NoCall]
    /\ excused' = (excused \/ op.step \in {"import", "extract"})
    /\ UNCHANGED <<site, clock, snapshots, names, gap, overlapped>>

-----------------------------------------------------------------------------
Next ==
    \/ \E m \in Media : AddMedia(m) \/ RemoveMedia(m)
    \/ TakeSnapshot \/ OpenDump \/ WriteDump \/ WriteTar \/ Rotate \/ SnapshotFails
    \/ \E n \in Name : Restore(n)
    \/ ImportDump \/ ExtractTar \/ RestoreFails
    \/ \E h \in Handler :
          \/ \E n \in Name : DeleteDump(h, n) \/ NameSnapshot(h, n)
          \/ DeleteTar(h) \/ ReadLabels(h) \/ OpenLabels(h) \/ FillLabels(h)
          \/ ReplaceLabels(h) \/ CallFails(h)
    \/ Crash

Spec == Init /\ [][Next]_vars

-----------------------------------------------------------------------------
(* Properties *)

\* Every upload the site's database refers to is there, while it is used, backed
\* up and restored, unless the snapshot that was restored last was unsound: its
\* archive was cut short, media went between dump and archive, or it was deleted
\* while it was restored.
MediaPresent ==
    ~excused /\ op.step # "extract" => refs \subseteq files

\* "... so a crash mid-write cannot leave behind a truncated file": the sidecar
\* is readable at any time, unless two requests have written names at once.
LabelsWhole == ~overlapped => sidecar # "torn"
=============================================================================
