--------------------------- MODULE Snapshots_proof ---------------------------
(***************************************************************************)
(* Proofs about Snapshots, for every set of media and handlers, every      *)
(* number of dumps that are kept and any length of time.                   *)
(*                                                                         *)
(* The media of a restored site come from the archive: a sound snapshot's  *)
(* archive has all its dump refers to (Covered), because what the dump     *)
(* refers to was there when it was made and, if it is gone by the time of  *)
(* the archive, the snapshot has a gap (Dumped).  The archive of a         *)
(* snapshot that is being dumped does not exist yet (Fresh).               *)
(***************************************************************************)
EXTENDS Snapshots, TLAPS

\* Names are times that have come; archives have names.
Fresh ==
    /\ op.name <= clock
    /\ \A n \in Name : n > clock => Is(tar, n, "absent")
    /\ op.step \in {"open", "dump"} => Is(tar, op.name, "absent")

\* What a complete dump refers to is in its complete archive.
Covered ==
    \A n \in Name :
        Is(dump, n, "whole") /\ Is(tar, n, "whole") /\ n \notin gap
            => dump[n].media \subseteq tar[n].media

\* A dump that waits for its archive refers to nothing that is missing.
Dumped ==
    op.step = "tar" /\ Is(dump, op.name, "whole") /\ op.name \notin gap
        => dump[op.name].media \subseteq files

\* A restore that has loaded the dump finds what it needs in the archive.
Loaded ==
    op.step = "extract" /\ ~excused => refs \subseteq files \cup tar[op.name].media

Kept == Covered /\ Dumped /\ Loaded /\ MediaPresent

\* One handler writes names, and renames what it has finished.
Single ==
    ~overlapped =>
        /\ \A h, k \in Handler :
              {handler[h].step, handler[k].step} \subseteq {"fill", "replace"} => h = k
        /\ \A h \in Handler : handler[h].step = "replace" => draft = "whole"

IInv == TypeOK /\ Fresh /\ Kept /\ Single /\ LabelsWhole

-----------------------------------------------------------------------------
(* Types, and times that have come *)

OpRow == [step : {"idle", "open", "dump", "tar", "rotate", "import", "extract"},
          name : Name \cup {0}]
CallRow == [step : {"idle", "tar", "read", "open", "fill", "replace"}, name : Name \cup {0}]

\* A file that is replaced keeps the others.
LEMMA FileRow ==
    ASSUME NEW f \in [Name -> [state : {"absent", "partial", "whole"}, media : SUBSET Media]],
           NEW n, NEW state \in {"absent", "partial", "whole"}, NEW media \in SUBSET Media
    PROVE  [f EXCEPT ![n] = [state |-> state, media |-> media]]
               \in [Name -> [state : {"absent", "partial", "whole"}, media : SUBSET Media]]
OBVIOUS

LEMMA InitTyped == Init => TypeOK /\ Fresh
<1> SUFFICES ASSUME Init PROVE TypeOK /\ Fresh
  OBVIOUS
<1>1. /\ dump = [n \in Name |-> [state |-> "absent", media |-> {}]]
      /\ tar = [n \in Name |-> [state |-> "absent", media |-> {}]]
      /\ op = [step |-> "idle", name |-> 0]
      /\ handler = [h \in Handler |-> [step |-> "idle", name |-> 0]]
  BY DEF Init, NoFile, NoOp, NoCall
<1>2. Listed = {}
  BY <1>1 DEF Listed, Is
<1>3. /\ {refs, files} \subseteq SUBSET Media
      /\ clock \in Name \cup {0} /\ {sidecar, draft} \subseteq {"none", "torn", "whole"}
      /\ gap \subseteq Name /\ {excused, overlapped} \subseteq BOOLEAN
  BY DEF Init
<1>5. TypeOK
  BY <1>1, <1>2, <1>3 DEF TypeOK
<1>4. Fresh
  BY <1>1 DEF Init, Fresh, Is
<1> QED BY <1>4, <1>5

LEMMA NextTyped ==
    ASSUME TypeOK, Fresh, [Next]_vars PROVE TypeOK' /\ Fresh'
<1> USE DEF TypeOK, Fresh, Listed, Is
<1>1. ASSUME NEW m \in Media, AddMedia(m) \/ RemoveMedia(m) PROVE TypeOK' /\ Fresh'
  <2>1. CASE AddMedia(m) BY <2>1 DEF AddMedia, snapshots, names
  <2>2. CASE RemoveMedia(m) BY <2>2 DEF RemoveMedia, snapshots, names, Name
  <2> QED BY <1>1, <2>1, <2>2
<1>2. CASE TakeSnapshot
  <2>1. op' = [step |-> "open", name |-> clock + 1]
    BY <1>2 DEF TakeSnapshot, NoOp
  <2>2. clock + 1 \in Name /\ clock \in Nat
    BY <1>2, ConstantAssumption DEF TakeSnapshot, Name
  <2> QED BY <1>2, <2>1, <2>2, ConstantAssumption DEF TakeSnapshot, site, snapshots, names, Name
<1>3. CASE OpenDump
  <2>1. op' = [step |-> "dump", name |-> op.name] /\ op.name \in Name
    BY <1>3 DEF OpenDump, To
  <2> QED BY <1>3, <2>1, FileRow, ConstantAssumption DEF OpenDump, site, names, Name
<1>4. CASE WriteDump
  <2>1. op' = [step |-> "tar", name |-> op.name] /\ op.name \in Name
    BY <1>4 DEF WriteDump, To
  <2>2. dump' \in [Name -> [state : {"absent", "partial", "whole"}, media : SUBSET Media]]
    BY <1>4, <2>1, FileRow DEF WriteDump
  <2>3. \A n \in Name : dump'[n].state # "absent" => dump[n].state # "absent"
    BY <1>4, <2>1 DEF WriteDump
  <2> QED BY <1>4, <2>1, <2>2, <2>3 DEF WriteDump, site, names
<1>5. CASE WriteTar
  <2>1. op' = [step |-> "rotate", name |-> op.name] /\ op.name \in Name
    BY <1>5 DEF WriteTar, To
  <2>2. tar' \in [Name -> [state : {"absent", "partial", "whole"}, media : SUBSET Media]]
    BY <1>5, <2>1, FileRow DEF WriteTar
  <2>3. \A n \in Name : n > clock => tar'[n] = tar[n]
    BY <1>5, <2>1, ConstantAssumption DEF WriteTar, Name
  <2> QED BY <1>5, <2>1, <2>2, <2>3 DEF WriteTar, site, names
<1>6. CASE Rotate
  <2>1. \A n \in Name : dump'[n] \in {dump[n], NoFile}
    BY <1>6 DEF Rotate
  <2>2. dump' \in [Name -> [state : {"absent", "partial", "whole"}, media : SUBSET Media]]
    BY <1>6 DEF Rotate, NoFile
  <2>3. gap' \subseteq gap /\ op' = NoOp
    BY <1>6 DEF Rotate
  <2>4. \A n \in Name : dump'[n].state # "absent" => dump[n].state # "absent"
    BY <2>1 DEF NoFile
  <2>5. op' = [step |-> "idle", name |-> 0] /\ clock >= 0
    BY <2>3, ConstantAssumption DEF NoOp, Name
  <2>6. UNCHANGED <<refs, files, clock, tar, sidecar, draft, handler, excused, overlapped>>
    BY <1>6 DEF Rotate, site, names
  <2> QED BY <2>2, <2>3, <2>4, <2>5, <2>6
<1>7. CASE SnapshotFails
  BY <1>7, ConstantAssumption DEF SnapshotFails, site, snapshots, names, NoOp, Name
<1>8. ASSUME NEW n \in Name, Restore(n) PROVE TypeOK' /\ Fresh'
  <2>1. op' = [step |-> "import", name |-> n]
    BY <1>8 DEF Restore, NoOp
  <2>2. n # 0 /\ n <= clock
    BY <1>8, ConstantAssumption DEF Restore, Name
  <2> QED BY <1>8, <2>1, <2>2 DEF Restore, site, snapshots, names
<1>9. CASE ImportDump
  <2>1. op' = [step |-> "extract", name |-> op.name] /\ op.name \in Name
    BY <1>9 DEF ImportDump, To
  <2> QED BY <1>9, <2>1 DEF ImportDump, snapshots, names, Sound
<1>10. CASE ExtractTar
  BY <1>10, ConstantAssumption DEF ExtractTar, snapshots, names, NoOp, Name
<1>11. CASE RestoreFails
  BY <1>11, ConstantAssumption DEF RestoreFails, snapshots, names, NoOp, Name
<1>12. ASSUME NEW h \in Handler, NEW n \in Name, DeleteDump(h, n) \/ NameSnapshot(h, n)
       PROVE  TypeOK' /\ Fresh'
  <2>1. CASE DeleteDump(h, n)
    <3>1. [NoCall EXCEPT !.step = "tar", !.name = n] \in CallRow
      BY DEF NoCall, CallRow
    <3> DEFINE new == [NoCall EXCEPT !.step = "tar", !.name = n]
    <3>3. handler' = [handler EXCEPT ![h] = new]
      BY <2>1, <3>1 DEF DeleteDump, Set
    <3>2. dump' = [dump EXCEPT ![n] = [state |-> "absent", media |-> {}]]
      BY <2>1 DEF DeleteDump, NoFile
    <3> QED BY <2>1, <3>1, <3>3, <3>2, FileRow DEF CallRow, DeleteDump, site, names
  <2>2. CASE NameSnapshot(h, n)
    BY <2>2 DEF NameSnapshot, Move, Set, site, snapshots, names
  <2> QED BY <1>12, <2>1, <2>2
<1>13. ASSUME NEW h \in Handler,
              DeleteTar(h) \/ ReadLabels(h) \/ OpenLabels(h) \/ FillLabels(h)
                  \/ ReplaceLabels(h) \/ CallFails(h)
       PROVE  TypeOK' /\ Fresh'
  <2> USE DEF Move, Set, NoCall, site, snapshots, names
  <2>1. CASE DeleteTar(h)
    <3> DEFINE n == handler[h].name
    <3>1. tar' = [tar EXCEPT ![n] = [state |-> "absent", media |-> {}]]
      BY <2>1 DEF DeleteTar, NoFile
    <3>2. tar' \in [Name -> [state : {"absent", "partial", "whole"}, media : SUBSET Media]]
      BY <3>1, FileRow
    <3>3. \A k \in Name : tar[k].state = "absent" => tar'[k].state = "absent"
      BY <3>1
    <3>4. [handler[h] EXCEPT !.step = "read"] \in CallRow
      BY DEF CallRow
    <3>5. op.step \in {"open", "dump"} => op.name \in Name
      OBVIOUS
    <3> QED BY <2>1, <3>2, <3>3, <3>4, <3>5 DEF DeleteTar, CallRow
  <2>2. CASE ReadLabels(h) BY <2>2 DEF ReadLabels
  <2>3. CASE OpenLabels(h) BY <2>3 DEF OpenLabels
  <2>4. CASE FillLabels(h) BY <2>4 DEF FillLabels
  <2>5. CASE ReplaceLabels(h) BY <2>5 DEF ReplaceLabels
  <2>6. CASE CallFails(h) BY <2>6 DEF CallFails
  <2> QED BY <1>13, <2>1, <2>2, <2>3, <2>4, <2>5, <2>6
<1>14. CASE Crash
  BY <1>14, ConstantAssumption DEF Crash, site, snapshots, names, NoOp, NoCall, Name
<1>15. CASE UNCHANGED vars
  BY <1>15 DEF vars, site, snapshots, names
<1> QED
  BY <1>1, <1>2, <1>3, <1>4, <1>5, <1>6, <1>7, <1>8, <1>9, <1>10, <1>11, <1>12, <1>13,
     <1>14, <1>15 DEF Next

\* Whatever happens, snapshots, handlers and the site are what they may be.
THEOREM TypeCorrect == Spec => []TypeOK
<1>1. TypeOK /\ Fresh /\ [Next]_vars => TypeOK' /\ Fresh'
  BY NextTyped
<1> QED BY InitTyped, <1>1, PTL DEF Spec

-----------------------------------------------------------------------------
(* The media of the site *)

LEMMA InitKept == Init => Kept
BY DEF Init, Kept, Covered, Dumped, Loaded, MediaPresent, Is, NoFile, NoOp

\* What no step but those of snapshots, restores and the site's users touches.
LEMMA KeptElsewhere ==
    ASSUME Kept, UNCHANGED <<site, dump, tar, op, gap, excused>> PROVE Kept'
BY DEF Kept, Covered, Dumped, Loaded, MediaPresent, Is, site

LEMMA NextKept ==
    ASSUME TypeOK, Fresh, Kept, [Next]_vars PROVE Kept'
<1> USE DEF Kept, Covered, Dumped, Loaded, MediaPresent, Is
<1>1. ASSUME NEW m \in Media, AddMedia(m) PROVE Kept'
  <2>1. /\ refs' = refs \cup {m} /\ files' = files \cup {m}
        /\ UNCHANGED <<dump, tar, op, gap, excused>>
    BY <1>1 DEF AddMedia, snapshots
  <2> QED BY <2>1
<1>2. ASSUME NEW m \in Media, RemoveMedia(m) PROVE Kept'
  <2>1. /\ refs' = refs \ {m} /\ files' = files \ {m}
        /\ gap \subseteq gap' /\ (op.step = "tar" => op.name \in gap')
        /\ UNCHANGED <<dump, tar, op, excused>>
    BY <1>2 DEF RemoveMedia, snapshots
  <2> QED BY <2>1
<1>3. CASE TakeSnapshot
  <2>1. op'.step = "open" /\ UNCHANGED <<refs, files, dump, tar, gap, excused>> /\ op.step = "idle"
    BY <1>3 DEF TakeSnapshot, LockFree, NoOp, site, snapshots
  <2> QED BY <2>1
<1>4. CASE OpenDump
  <2>1. op'.step = "dump" /\ op.step = "open" /\ UNCHANGED <<refs, files, tar, gap, excused>>
    BY <1>4 DEF OpenDump, To, TypeOK, site
  <2>2. \A n \in Name : dump'[n].state = "whole" => dump'[n] = dump[n]
    BY <1>4 DEF OpenDump, TypeOK
  <2> QED BY <2>1, <2>2
<1>5. CASE WriteDump
  <2>1. /\ op' = [step |-> "tar", name |-> op.name] /\ op.step = "dump" /\ op.name \in Name
        /\ UNCHANGED <<refs, files, tar, excused>>
    BY <1>5 DEF WriteDump, To, TypeOK, site
  <2>2. gap \subseteq gap' /\ (refs \subseteq files \/ op.name \in gap')
    BY <1>5 DEF WriteDump
  <2>3. tar[op.name].state = "absent"
    BY <2>1 DEF Fresh
  <2>4. \A n \in Name : n # op.name => dump'[n] = dump[n]
    BY <1>5, <2>1 DEF WriteDump, TypeOK
  <2>5. dump'[op.name].state = "whole" => dump'[op.name].media = refs
    BY <1>5, <2>1 DEF WriteDump, TypeOK
  <2>6. Covered'
    BY <2>1, <2>2, <2>3, <2>4
  <2>7. ~excused => refs \subseteq files
    BY <2>1
  <2> QED BY <2>1, <2>2, <2>5, <2>6, <2>7
<1>6. CASE WriteTar
  <2>1. /\ op'.step = "rotate" /\ op.step = "tar" /\ op.name \in Name
        /\ UNCHANGED <<refs, files, dump, gap, excused>>
    BY <1>6 DEF WriteTar, To, TypeOK, site
  <2>2. tar'[op.name].media = files /\ \A n \in Name : n # op.name => tar'[n] = tar[n]
    BY <1>6, <2>1 DEF WriteTar, TypeOK
  <2> QED BY <2>1, <2>2
<1>7. CASE Rotate
  <2>1. op'.step = "idle" /\ op.step = "rotate" /\ UNCHANGED <<refs, files, tar, excused>>
    BY <1>7 DEF Rotate, NoOp, site
  <2>2. \A n \in Name : dump'[n] = dump[n] \/ dump'[n].state = "absent"
    BY <1>7 DEF Rotate, NoFile
  <2>3. \A n \in Name : dump'[n].state # "absent" /\ n \notin gap' => n \notin gap
    BY <1>7 DEF Rotate
  <2> QED BY <2>1, <2>2, <2>3
<1>8. CASE SnapshotFails
  <2>1. op'.step = "idle" /\ op.step # "extract" /\ UNCHANGED <<refs, files, dump, tar, gap, excused>>
    BY <1>8 DEF SnapshotFails, NoOp, site, snapshots
  <2> QED BY <2>1
<1>9. ASSUME NEW n \in Name, Restore(n) PROVE Kept'
  <2>1. op'.step = "import" /\ op.step = "idle" /\ UNCHANGED <<refs, files, dump, tar, gap, excused>>
    BY <1>9 DEF Restore, LockFree, NoOp, site, snapshots
  <2> QED BY <2>1
<1>10. CASE ImportDump
  <2>1. /\ op' = [step |-> "extract", name |-> op.name] /\ op.name \in Name
        /\ UNCHANGED <<files, dump, tar, gap>>
    BY <1>10 DEF ImportDump, To, TypeOK, Listed, snapshots
  <2>2. ~excused' => /\ dump[op.name].state = "whole" /\ tar[op.name].state = "whole"
                     /\ op.name \notin gap
    BY <1>10 DEF ImportDump, Sound, TypeOK
  <2>3. dump[op.name].state = "whole" => refs' = dump[op.name].media
    BY <1>10 DEF ImportDump
  <2> QED BY <2>1, <2>2, <2>3
<1>11. CASE ExtractTar
  <2>1. /\ op'.step = "idle" /\ op.step = "extract" /\ files' = files \cup tar[op.name].media
        /\ UNCHANGED <<refs, dump, tar, gap, excused>>
    BY <1>11 DEF ExtractTar, NoOp, snapshots
  <2> QED BY <2>1
<1>12. CASE RestoreFails
  <2>1. op'.step = "idle" /\ excused' = TRUE /\ UNCHANGED <<dump, tar, gap>>
    BY <1>12 DEF RestoreFails, NoOp, snapshots
  <2> QED BY <2>1
<1>13. ASSUME NEW h \in Handler, NEW n \in Name, DeleteDump(h, n) PROVE Kept'
  <2>1. /\ dump'[n].state = "absent" /\ \A k \in Name : k # n => dump'[k] = dump[k]
        /\ gap' = gap \ {n} /\ UNCHANGED <<refs, files, tar, op, excused>>
    BY <1>13 DEF DeleteDump, NoFile, TypeOK, site
  <2>2. op.step = "tar" => op.name \in Name
    BY DEF TypeOK
  <2> QED BY <2>1, <2>2
<1>14. ASSUME NEW h \in Handler, DeleteTar(h) PROVE Kept'
  <2> DEFINE n == handler[h].name
  <2>1. /\ excused' = (excused \/ (op.step = "extract" /\ op.name = n))
        /\ UNCHANGED <<refs, files, dump, op, gap>>
    BY <1>14 DEF DeleteTar, site
  <2>2. \A k \in Name : IF k = n THEN tar'[k].state = "absent" ELSE tar'[k] = tar[k]
    BY <1>14 DEF DeleteTar, NoFile, TypeOK
  <2>3. op.step = "extract" => op.name \in Name
    BY DEF TypeOK
  <2>4. Covered'
    BY <2>1, <2>2
  <2>5. Loaded'
    BY <2>1, <2>2, <2>3
  <2> QED BY <2>1, <2>4, <2>5
<1>15. ASSUME NEW h \in Handler, NEW n \in Name, NameSnapshot(h, n) PROVE Kept'
  BY <1>15, KeptElsewhere DEF NameSnapshot, snapshots
<1>16. ASSUME NEW h \in Handler,
              ReadLabels(h) \/ OpenLabels(h) \/ FillLabels(h) \/ ReplaceLabels(h) \/ CallFails(h)
       PROVE  Kept'
  BY <1>16, KeptElsewhere
     DEF ReadLabels, OpenLabels, FillLabels, ReplaceLabels, CallFails, snapshots
<1>17. CASE Crash
  <2>1. /\ op'.step = "idle" /\ excused' = (excused \/ op.step \in {"import", "extract"})
        /\ UNCHANGED <<refs, files, dump, tar, gap>>
    BY <1>17 DEF Crash, NoOp, site, snapshots
  <2> QED BY <2>1
<1>18. CASE UNCHANGED vars
  BY <1>18, KeptElsewhere DEF vars, snapshots
<1> QED
  BY <1>1, <1>2, <1>3, <1>4, <1>5, <1>6, <1>7, <1>8, <1>9, <1>10, <1>11, <1>12, <1>13,
     <1>14, <1>15, <1>16, <1>17, <1>18 DEF Next

-----------------------------------------------------------------------------
(* The names *)

LEMMA InitSingle == Init => Single /\ LabelsWhole
BY DEF Init, Single, LabelsWhole, NoCall

LEMMA NextSingle ==
    ASSUME TypeOK, Single, LabelsWhole, [Next]_vars PROVE Single' /\ LabelsWhole'
<1> USE DEF Single, LabelsWhole
<1> DEFINE Writes(h) == handler[h].step \in {"fill", "replace"}
<1>1. ASSUME UNCHANGED <<names, handler, overlapped>> PROVE Single' /\ LabelsWhole'
  BY <1>1 DEF names
\* A handler that stops writing leaves the others as they are.
<1>2. ASSUME NEW h \in Handler, UNCHANGED <<names, overlapped>>,
             NEW new, new.step \notin {"fill", "replace"}, Set(h, new)
      PROVE  Single' /\ LabelsWhole'
  <2>1. \A k \in Handler : handler'[k] = handler[k] \/ handler'[k].step \notin {"fill", "replace"}
    BY <1>2 DEF Set, TypeOK
  <2> QED BY <1>2, <2>1 DEF names
<1>3. ASSUME NEW m \in Media, AddMedia(m) \/ RemoveMedia(m) PROVE Single' /\ LabelsWhole'
  BY <1>1, <1>3 DEF AddMedia, RemoveMedia
<1>4. CASE TakeSnapshot \/ OpenDump \/ WriteDump \/ WriteTar \/ Rotate \/ SnapshotFails
  BY <1>1, <1>4 DEF TakeSnapshot, OpenDump, WriteDump, WriteTar, Rotate, SnapshotFails
<1>5. ASSUME NEW n \in Name, Restore(n) PROVE Single' /\ LabelsWhole'
  BY <1>1, <1>5 DEF Restore
<1>6. CASE ImportDump \/ ExtractTar \/ RestoreFails
  BY <1>1, <1>6 DEF ImportDump, ExtractTar, RestoreFails
<1>7. ASSUME NEW h \in Handler, NEW n \in Name, DeleteDump(h, n) PROVE Single' /\ LabelsWhole'
  <2>1. [NoCall EXCEPT !.step = "tar", !.name = n].step = "tar"
    BY DEF NoCall
  <2> QED BY <1>2, <1>7, <2>1 DEF DeleteDump
<1>8. ASSUME NEW h \in Handler, NEW n \in Name, NameSnapshot(h, n) PROVE Single' /\ LabelsWhole'
  <2>1. [handler[h] EXCEPT !.step = "open"].step = "open"
    BY DEF TypeOK
  <2> QED BY <1>2, <1>8, <2>1 DEF NameSnapshot, Move
<1>9. ASSUME NEW h \in Handler, DeleteTar(h) PROVE Single' /\ LabelsWhole'
  <2>1. [handler[h] EXCEPT !.step = "read"].step = "read"
    BY DEF TypeOK
  <2> QED BY <1>2, <1>9, <2>1 DEF DeleteTar, Move
<1>10. ASSUME NEW h \in Handler, ReadLabels(h) \/ CallFails(h) PROVE Single' /\ LabelsWhole'
  <2>1. NoCall.step = "idle" /\ [NoCall EXCEPT !.step = "open"].step = "open"
    BY DEF NoCall
  <2> QED BY <1>2, <1>10, <2>1 DEF ReadLabels, CallFails
<1>11. ASSUME NEW h \in Handler, OpenLabels(h) PROVE Single' /\ LabelsWhole'
  <2>1. ~overlapped' => ~overlapped /\ \A k \in Handler : ~Writes(k)
    BY <1>11 DEF OpenLabels
  <2>2. \A k \in Handler : IF k = h THEN handler'[k].step = "fill" ELSE handler'[k] = handler[k]
    BY <1>11 DEF OpenLabels, Move, Set, TypeOK
  <2> QED BY <1>11, <2>1, <2>2 DEF OpenLabels
<1>12. ASSUME NEW h \in Handler, FillLabels(h) PROVE Single' /\ LabelsWhole'
  <2>1. \A k \in Handler : IF k = h THEN handler'[k].step = "replace" ELSE handler'[k] = handler[k]
    BY <1>12 DEF FillLabels, Move, Set, TypeOK
  <2>2. /\ handler[h].step = "fill" /\ draft' = "whole"
        /\ UNCHANGED <<sidecar, overlapped>>
    BY <1>12 DEF FillLabels
  <2> QED BY <2>1, <2>2
<1>13. ASSUME NEW h \in Handler, ReplaceLabels(h) PROVE Single' /\ LabelsWhole'
  <2>1. \A k \in Handler : IF k = h THEN handler'[k].step = "idle" ELSE handler'[k] = handler[k]
    BY <1>13 DEF ReplaceLabels, Set, NoCall, TypeOK
  <2>2. handler[h].step = "replace" /\ sidecar' = draft /\ overlapped' = overlapped
    BY <1>13 DEF ReplaceLabels
  <2> QED BY <2>1, <2>2
<1>14. CASE Crash
  <2>1. \A k \in Handler : handler'[k].step = "idle"
    BY <1>14 DEF Crash, NoCall
  <2> QED BY <1>14, <2>1 DEF Crash, names
<1>15. CASE UNCHANGED vars
  BY <1>1, <1>15 DEF vars
<1> QED
  BY <1>3, <1>4, <1>5, <1>6, <1>7, <1>8, <1>9, <1>10, <1>11, <1>12, <1>13, <1>14, <1>15 DEF Next

-----------------------------------------------------------------------------
\* What the proofs add to the properties holds all the time.
THEOREM Inductive == Spec => []IInv
<1>1. Init => IInv
  BY InitTyped, InitKept, InitSingle DEF IInv
<1>2. IInv /\ [Next]_vars => IInv'
  BY NextTyped, NextKept, NextSingle DEF IInv
<1> QED BY <1>1, <1>2, PTL DEF Spec

\* Every upload the database refers to is there, unless the restored snapshot was
\* unsound.
THEOREM MediaArePresent == Spec => []MediaPresent
<1>1. IInv => MediaPresent
  BY DEF IInv, Kept
<1> QED BY Inductive, <1>1, PTL

\* The names of snapshots are readable at any time, unless two handlers wrote
\* them at once.
THEOREM LabelsAreWhole == Spec => []LabelsWhole
<1>1. IInv => LabelsWhole
  BY DEF IInv
<1> QED BY Inductive, <1>1, PTL

==============================================================================
