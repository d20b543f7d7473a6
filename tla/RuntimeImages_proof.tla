-------------------------- MODULE RuntimeImages_proof --------------------------
(***************************************************************************)
(* Proofs about RuntimeImages, for every set of sites, series and images,  *)
(* every choice of the legacy ones and of the patched ones.                *)
(*                                                                         *)
(* A legacy image comes to a site's .env by many ways: a switch, an undo,  *)
(* a rollback, a core update, or the floating tag of a site that has no    *)
(* reference.  Whatever could be written to the .env of a site, and what   *)
(* its container runs, was accepted for it, or is adopted (Sound): nothing *)
(* else of what the floating tags name comes there.  An undo brings back   *)
(* what ran because what a switch retains is what it found running (Same). *)
(*                                                                         *)
(* A deletion looks at the files first and removes the tag later.  While   *)
(* nothing has raced, no file names what it has chosen (Unused), and what  *)
(* the files name, and what a job or a core update may still write to an   *)
(* .env, has its tag (HeldAt); so an undo of a switch may rely on the      *)
(* record, which is written before the .env.                               *)
(***************************************************************************)
EXTENDS RuntimeImages, TLAPS

JobStep ==
    {"idle", "prepare", "record", "history", "backup", "write", "up", "check", "ready", "undo"}
JobRow == [step : JobStep, before : Env \cup {None}, after : Env \cup {None},
           prior : Image \cup {None}, ran : Image \cup {None}]
RecordRow == [ref : Image, series : Series]
StageRow == [from : Env, to : Env, seen : Env]

ImagesOk ==
    /\ tagged \subseteq built /\ built \subseteq Image
    /\ alias \in [Series -> built \cup {None}]
    /\ \A p \in Series : alias[p] # None => SeriesOf[alias[p]] = p

SitesOk ==
    /\ env \in [Site -> Env]
    /\ container \in [Site -> built \cup {None}]
    /\ record \in [Site -> RecordRow \cup {NoRecord}]
    /\ \A s \in Site : record[s] # NoRecord => record[s].ref \in built
    /\ kept \in [Site -> SUBSET built]
    /\ staged \in [Site -> StageRow \cup {NoStage}]
    /\ accepted \in [Site -> SUBSET Image]
    /\ adopted \in [Site -> SUBSET Image]

JobsOk ==
    /\ job \in [Site -> JobRow]
    /\ \A s \in Site : job[s].step # "idle" =>
          /\ job[s].before \in Env /\ job[s].after \in Env
          /\ job[s].prior \in built \cup {None}
          /\ job[s].step \in {"prepare", "record", "history", "backup", "write"}
                 => job[s].prior # None

Marks == gc \in Image \cup Series \cup {None} /\ raced \in BOOLEAN

Typed == ImagesOk /\ SitesOk /\ JobsOk /\ Marks

\* The series of an image needs no acceptance, or the image has it, or the floating
\* tag gave it to the site.
Permitted(s) == accepted[s] \cup adopted[s]
GoodImage(s, i) == i \in Image /\ SeriesOf[i] \in Legacy => i \in Permitted(s)

\* Without a reference nothing is asked.
GoodEnv(s, e) == e.ref = None \/ GoodImage(s, e.ref)

SoundAt(s) ==
    /\ GoodEnv(s, env[s]) /\ GoodImage(s, container[s])
    /\ record[s] # NoRecord => GoodImage(s, record[s].ref)
    /\ staged[s] # NoStage => GoodEnv(s, staged[s].from) /\ GoodEnv(s, staged[s].to)
    /\ job[s].step # "idle" =>
          /\ GoodEnv(s, job[s].before)
          /\ GoodImage(s, job[s].prior)
          /\ job[s].step = "prepare" /\ job[s].after.series \in Legacy =>
                job[s].after.ref \in accepted[s]
          /\ job[s].step # "prepare" =>
                job[s].after.ref \in Image /\ GoodImage(s, job[s].after.ref)

Sound == \A s \in Site : SoundAt(s)

\* What a switch retains is what ran.
SameAt(s) ==
    /\ job[s].step # "idle" /\ job[s].prior # None /\ job[s].ran # None
          => job[s].prior = job[s].ran
    /\ job[s].step \in {"up", "check", "ready", "undo"} => job[s].ran # None

Same == \A s \in Site : SameAt(s)

\* Without a race nothing refers to the tag that is about to be deleted ...
Unused ==
    /\ gc \in Image => gc \notin References
    /\ gc \in Series => gc \notin FloatingReferences

\* ... and what a site selects, and what may be written to its .env, is there:
\* nothing is deleted while a job or a core update holds what no file names, and
\* what an undo of a switch needs is named by the record.
Available(e) == IF e.ref = None THEN alias[e.series] # None ELSE e.ref \in tagged

HeldAt(s) ==
    /\ Available(env[s])
    /\ record[s] # NoRecord => record[s].ref \in tagged
    /\ staged[s] # NoStage => Available(staged[s].from) /\ Available(staged[s].to)
    /\ job[s].step \in {"prepare", "record", "history", "backup", "write"} =>
          job[s].prior \in tagged /\ Available(job[s].before)
    /\ job[s].step \in {"record", "history", "backup", "write"} => job[s].after.ref \in tagged
    /\ job[s].step \in {"history", "backup", "write", "up", "check", "ready"}
          /\ job[s].prior # None =>
          record[s] # NoRecord /\ record[s].ref = job[s].prior
    /\ job[s].step \in {"up", "check", "ready"} /\ job[s].prior = None =>
          Available(job[s].before)

Held == ~raced => Unused /\ \A s \in Site : HeldAt(s)

IInv == Typed /\ Sound /\ Same /\ Held

-----------------------------------------------------------------------------
(* Helpers *)

\* The types here say more than the type invariant that TLC checks.
LEMMA TypedIsTypeOK == Typed => TypeOK
BY DEF Typed, ImagesOk, SitesOk, JobsOk, Marks, TypeOK, JobRow, JobStep, RecordRow, StageRow

\* A version and a reference make an .env.
LEMMA EnvRow ==
    ASSUME NEW p \in Series, NEW i \in Image \cup {None}
    PROVE  [series |-> p, ref |-> i] \in Env
BY DEF Env

\* The reference of an .env is exchanged.
LEMMA EnvWith ==
    ASSUME NEW e \in Env, NEW i \in Image \cup {None}
    PROVE  /\ [e EXCEPT !.ref = i] \in Env
           /\ [e EXCEPT !.ref = i].ref = i /\ [e EXCEPT !.ref = i].series = e.series
BY DEF Env

\* A job is replaced, the others stay.
LEMMA SetJob ==
    ASSUME job \in [Site -> JobRow], NEW s \in Site, NEW new \in JobRow, Set(s, new)
    PROVE  /\ job' \in [Site -> JobRow] /\ job'[s] = new
           /\ \A t \in Site : t # s => job'[t] = job[t]
BY DEF Set

\* A job goes on with what it has.
LEMMA GoTo ==
    ASSUME job \in [Site -> JobRow], NEW s \in Site, NEW step \in JobStep, To(s, step)
    PROVE  /\ job' \in [Site -> JobRow]
           /\ job'[s].step = step /\ job'[s].before = job[s].before
           /\ job'[s].after = job[s].after /\ job'[s].prior = job[s].prior
           /\ job'[s].ran = job[s].ran
           /\ \A t \in Site : t # s => job'[t] = job[t]
<1> DEFINE new == [job[s] EXCEPT !.step = step]
<1>1. /\ new \in JobRow /\ new.step = step /\ new.before = job[s].before
      /\ new.after = job[s].after /\ new.prior = job[s].prior /\ new.ran = job[s].ran
  BY DEF JobRow
<1>2. Set(s, new)
  BY DEF To
<1> HIDE DEF new
<1> QED BY <1>1, <1>2, SetJob

\* No job is a job that is idle.
LEMMA NoJobRow == NoJob \in JobRow /\ NoJob.step = "idle"
BY DEF NoJob, JobRow, JobStep

\* A job ends, the others stay.
LEMMA Ended ==
    ASSUME job \in [Site -> JobRow], NEW s \in Site, Done(s)
    PROVE  /\ job' \in [Site -> JobRow] /\ job'[s].step = "idle"
           /\ \A t \in Site : t # s => job'[t] = job[t]
BY SetJob, NoJobRow DEF Done

\* What compose selects for an .env.
LEMMA Selects ==
    ASSUME Typed, NEW e
    PROVE  /\ e.ref = None => Selected(e) = alias[e.series]
           /\ e.ref # None /\ e.ref \in tagged => Selected(e) = e.ref
           /\ e.ref # None /\ e.ref \notin tagged => Selected(e) = None
<1>1. None \notin tagged
  BY ConstantAssumption DEF Typed, ImagesOk
<1>2. CASE e.ref = None
  BY <1>1, <1>2 DEF Selected
<1>3. CASE e.ref # None /\ e.ref \in tagged
  BY <1>3 DEF Selected
<1>4. CASE e.ref # None /\ e.ref \notin tagged
  BY <1>4 DEF Selected
<1> QED BY <1>2, <1>3, <1>4

\* The image that a switch finds exists.
LEMMA PriorIsBuilt ==
    ASSUME Typed, NEW s \in Site, Prior(s) # None
    PROVE  Prior(s) \in built
BY DEF Typed, ImagesOk, SitesOk, Prior, Selected, Env

\* What is prepared for a series was built for it.
LEMMA PreparedFor ==
    ASSUME Typed, NEW p \in Series, NEW i \in Image, Prepare(p, i)
    PROVE  ImagesOk' /\ built \subseteq built' /\ SeriesOf[i] = p /\ i \in built'
<1>1. CASE Reuse(p, i)
  <2>1. i = alias[p] /\ i # None /\ UNCHANGED <<alias, built>> /\ tagged' = tagged \cup {i}
    BY <1>1 DEF Prepare, Preserve, Reuse
  <2> QED BY <2>1 DEF Typed, ImagesOk
<1>2. CASE Build(p, i)
  <2>1. /\ SeriesOf[i] = p /\ built' = built \cup {i} /\ tagged' = tagged \cup {i}
        /\ alias' = [alias EXCEPT ![p] = i]
    BY <1>2 DEF Prepare, Preserve, Build
  <2>2. alias' \in [Series -> built' \cup {None}]
    BY <2>1 DEF Typed, ImagesOk
  <2>3. \A q \in Series : alias'[q] # None => SeriesOf[alias'[q]] = q
    BY <2>1 DEF Typed, ImagesOk
  <2> QED BY <2>1, <2>2, <2>3 DEF Typed, ImagesOk
<1> QED BY <1>1, <1>2 DEF Prepare

\* An image that exists is tagged.
LEMMA PreservedImage ==
    ASSUME Typed, NEW i \in built, Preserve(i), UNCHANGED <<alias, built>>
    PROVE  ImagesOk'
BY DEF Typed, ImagesOk, Preserve

\* What a site has through a floating tag is remembered, if its .env names none.
LEMMA Adopted ==
    ASSUME Typed, NEW s \in Site, NEW i \in Image, Adopt(s, i)
    PROVE  /\ adopted' \in [Site -> SUBSET Image] /\ adopted[s] \subseteq adopted'[s]
           /\ env[s].ref = None => i \in adopted'[s]
           /\ \A t \in Site : t # s => adopted'[t] = adopted[t]
BY DEF Adopt, Typed, SitesOk

\* What compose selects exists.
LEMMA SelectedIsBuilt ==
    ASSUME Typed, NEW s \in Site, Compose(s)
    PROVE  /\ Selected(env[s]) \in built /\ Selected(env[s]) \in Image
           /\ container' \in [Site -> built \cup {None}]
           /\ adopted' \in [Site -> SUBSET Image]
<1>1. Selected(env[s]) \in built /\ Selected(env[s]) \in Image
  BY DEF Typed, ImagesOk, SitesOk, Selected, Env, Compose
<1>2. container' \in [Site -> built \cup {None}]
  BY <1>1 DEF Compose, Typed, SitesOk
<1>3. adopted' \in [Site -> SUBSET Image]
  BY <1>1, Adopted DEF Compose
<1> QED BY <1>1, <1>2, <1>3

\* At first every series has its image, and nothing is under way.
LEMMA InitTyped == Init => Typed
<1> SUFFICES ASSUME Init PROVE Typed
  OBVIOUS
<1>1. ImagesOk
  BY ConstantAssumption DEF Init, ImagesOk
<1>2. SitesOk
  <2>1. /\ env \in [Site -> Env] /\ container \in [Site -> built \cup {None}]
        /\ record \in [Site -> RecordRow \cup {NoRecord}]
        /\ \A s \in Site : record[s] = NoRecord
        /\ kept \in [Site -> SUBSET built] /\ staged \in [Site -> StageRow \cup {NoStage}]
        /\ accepted \in [Site -> SUBSET Image]
    BY ConstantAssumption DEF Init, Env
  <2>2. built \subseteq Image
    BY <1>1 DEF ImagesOk
  <2>3. adopted = [s \in Site |-> {container[s]} \ {None}]
    BY DEF Init
  <2>4. adopted \in [Site -> SUBSET Image]
    BY <2>1, <2>2, <2>3
  <2> QED BY <2>1, <2>4 DEF SitesOk
<1>3. JobsOk
  BY NoJobRow DEF Init, JobsOk
<1> QED BY <1>1, <1>2, <1>3 DEF Typed, Marks, Init

\* Nothing but the images, and those only grow.
LEMMA SitesKept ==
    ASSUME SitesOk, JobsOk, built \subseteq built', UNCHANGED <<sites, staged, consents>>
    PROVE  SitesOk'
<1>1. \A s \in Site : kept[s] \subseteq built'
  BY DEF SitesOk
<1> QED BY <1>1 DEF SitesOk, sites, consents

\* The steps of a job that do not touch the images.
JobStepOf(s) ==
    \/ Retain(s) \/ Remember(s) \/ Backup(s) \/ SelectTarget(s)
    \/ Recreate(s) \/ Healthy(s) \/ SiteReady(s)
    \/ FailEarly(s) \/ FailStarted(s) \/ Undo(s) \/ Abandon(s)

\* What is written while a tag is about to be deleted, or while something nobody
\* names yet is, has raced.
LEMMA Races ==
    ASSUME [Next]_vars
    PROVE  \/ raced' = raced
           \/ raced' = (raced \/ gc # None)
           \/ raced' = (raced \/ Unnamed)
           \/ \E s \in Site : raced' = (raced \/ gc # None \/ env[s] # staged[s].seen)
<1>1. ASSUME NEW s \in Site, JobStepOf(s) \/ BeginRollback(s)
      PROVE  raced' = raced \/ raced' = (raced \/ gc # None)
  BY <1>1 DEF JobStepOf, Retain, Remember, Backup, SelectTarget, BeginRollback, Recreate,
              Healthy, SiteReady, FailEarly, FailStarted, Undo, Abandon, WriteEnv
<1>2. ASSUME NEW s \in Site, StageSite(s) \/ DropStaged(s) \/ Up(s) \/ Down(s)
      PROVE  raced' = raced
  BY <1>2 DEF StageSite, DropStaged, Up, Down
<1>3. ASSUME NEW s \in Site, WriteStaged(s) \/ PutBack(s)
      PROVE  raced' = (raced \/ gc # None \/ env[s] # staged[s].seen)
  BY <1>3 DEF WriteStaged, PutBack, WriteOver
<1>4. ASSUME NEW s \in Site, \/ \E p \in Series, c \in Image \cup {None} : BeginSwitch(s, p, c)
                             \/ \E i \in Image : PrepareTarget(s, i) \/ Expire(s, i)
      PROVE  raced' = raced
  BY <1>4 DEF BeginSwitch, PrepareTarget, Expire
<1>5. CASE \E p \in Series, i \in Image : Refresh(p, i) \/ PrepareNew(p, i)
  BY <1>5 DEF Refresh, PrepareNew
<1>6. CASE (\E tag \in Image \cup Series : ChooseUnused(tag)) \/ CannotDelete \/ UNCHANGED vars
  BY <1>6 DEF ChooseUnused, CannotDelete, vars
<1>7. CASE (\E i \in Image : DeleteImmutable(i)) \/ (\E p \in Series : DeleteAlias(p))
  BY <1>7 DEF DeleteImmutable, DeleteAlias
<1> QED BY <1>1, <1>2, <1>3, <1>4, <1>5, <1>6, <1>7 DEF Next, JobStepOf

\* What is chosen for deletion, and that something raced.
LEMMA NextMarks == ASSUME Marks, [Next]_vars PROVE Marks'
<1>1. gc' = gc \/ gc' = None \/ gc' \in Image \cup Series
  BY DEF Next, Refresh, PrepareNew, BeginSwitch, PrepareTarget, Expire, Retain, Remember, Backup,
         SelectTarget, BeginRollback, Recreate, Healthy, SiteReady, FailEarly, FailStarted, Undo,
         Abandon, StageSite, WriteStaged, PutBack, DropStaged, Up, Down, ChooseUnused,
         CannotDelete, DeleteImmutable, DeleteAlias, vars
<1>2. ASSUME NEW b PROVE (raced \/ b) \in BOOLEAN
  OBVIOUS
<1>3. raced' \in BOOLEAN
  BY <1>2, Races DEF Marks
<1> QED BY <1>1, <1>3 DEF Marks

\* Nothing but the images change, and there are no fewer.
LEMMA OnlyImages ==
    ASSUME Typed, ImagesOk', built \subseteq built', UNCHANGED <<sites, job, staged, consents>>
    PROVE  ImagesOk' /\ SitesOk' /\ JobsOk'
BY SitesKept DEF Typed, JobsOk

\* An .env is written.
LEMMA EnvWritten ==
    ASSUME Typed, NEW s \in Site, NEW e \in Env, env' = [env EXCEPT ![s] = e]
    PROVE  env' \in [Site -> Env] /\ env'[s] = e /\ \A t \in Site : t # s => env'[t] = env[t]
BY DEF Typed, SitesOk

\* They end the job, or take it from one step to a later one.
LEMMA JobMoves ==
    ASSUME Typed, NEW s \in Site, JobStepOf(s)
    PROVE  /\ job[s].step # "idle"
           /\ job' \in [Site -> JobRow] /\ \A t \in Site : t # s => job'[t] = job[t]
           /\ \/ job'[s].step = "idle"
              \/ /\ job'[s].before = job[s].before /\ job'[s].after = job[s].after
                 /\ job'[s].prior = job[s].prior /\ job'[s].ran = job[s].ran
                 /\ \/ job[s].step = "record" /\ job'[s].step = "history"
                    \/ /\ job[s].step \in {"history", "backup"}
                       /\ job'[s].step \in {"backup", "write"}
                    \/ /\ job[s].step = "write" /\ job[s].ran # None
                       /\ job'[s].step = "up"
                    \/ /\ job[s].step \in {"up", "check", "ready"}
                       /\ job'[s].step \in {"check", "ready", "undo"}
<1>1. job \in [Site -> JobRow]
  BY DEF Typed, JobsOk
<1>2. \A x \in {"history", "backup", "write", "up", "check", "ready", "undo"} : x \in JobStep
  BY DEF JobStep
<1>3. ASSUME Done(s) PROVE /\ job' \in [Site -> JobRow] /\ job'[s].step = "idle"
                           /\ \A t \in Site : t # s => job'[t] = job[t]
  BY <1>1, <1>3, Ended
<1>4. ASSUME NEW x \in {"history", "backup", "write", "up", "check", "ready", "undo"}, To(s, x)
      PROVE  /\ job' \in [Site -> JobRow] /\ job'[s].step = x
             /\ job'[s].before = job[s].before /\ job'[s].after = job[s].after
             /\ job'[s].prior = job[s].prior /\ job'[s].ran = job[s].ran
             /\ \A t \in Site : t # s => job'[t] = job[t]
  BY <1>1, <1>2, <1>4, GoTo
<1>5. CASE Retain(s)
  <2>1. job[s].step = "record" /\ To(s, "history")
    BY <1>5 DEF Retain, At
  <2> QED BY <1>4, <2>1
<1>12. CASE Remember(s)
  <2>1. job[s].step = "history" /\ (To(s, "backup") \/ To(s, "write"))
    BY <1>12 DEF Remember, At
  <2> QED BY <1>4, <2>1
<1>6. CASE Backup(s)
  <2>1. job[s].step = "backup" /\ To(s, "write")
    BY <1>6 DEF Backup, At
  <2> QED BY <1>4, <2>1
<1>7. CASE SelectTarget(s)
  <2>1. job[s].step = "write"
    BY <1>7 DEF SelectTarget, At
  <2>2. CASE job[s].ran = None /\ Done(s)
    BY <1>3, <2>1, <2>2
  <2>3. CASE job[s].ran # None /\ To(s, "up")
    BY <1>4, <2>1, <2>3
  <2> QED BY <1>7, <2>2, <2>3 DEF SelectTarget
<1>8. CASE Recreate(s)
  <2>1. job[s].step = "up" /\ To(s, "check")
    BY <1>8 DEF Recreate, At
  <2> QED BY <1>4, <2>1
<1>9. CASE Healthy(s)
  <2>1. job[s].step = "check" /\ To(s, "ready")
    BY <1>9 DEF Healthy, At
  <2> QED BY <1>4, <2>1
<1>10. CASE FailStarted(s)
  <2>1. job[s].step \in {"up", "check", "ready"} /\ To(s, "undo")
    BY <1>10 DEF FailStarted
  <2> QED BY <1>4, <2>1
<1>11. CASE SiteReady(s) \/ FailEarly(s) \/ Undo(s) \/ Abandon(s)
  <2>1. job[s].step # "idle" /\ Done(s)
    BY <1>11 DEF SiteReady, FailEarly, Undo, Abandon, At
  <2> QED BY <1>3, <2>1
<1> QED BY <1>5, <1>6, <1>7, <1>8, <1>9, <1>10, <1>11, <1>12 DEF JobStepOf

\* What a failed switch goes back to is an .env.
LEMMA UndoRow ==
    ASSUME Typed, NEW s \in Site, job[s].step # "idle"
    PROVE  UndoTo(s) \in Env
<1>1. job[s].before \in Env /\ job[s].prior \in Image \cup {None}
  BY DEF Typed, JobsOk, ImagesOk
<1> QED BY <1>1, EnvWith DEF UndoTo

\* A job that goes on or ends leaves everything well typed.
LEMMA JobStepTyped ==
    ASSUME Typed, NEW s \in Site, JobStepOf(s)
    PROVE  ImagesOk' /\ SitesOk' /\ JobsOk'
<1>1. UNCHANGED <<images, staged, accepted>>
  BY DEF consents, JobStepOf, Retain, Remember, Backup, SelectTarget, Recreate, Healthy,
         SiteReady, FailEarly, FailStarted, Undo, Abandon, sites
<1>2. ImagesOk' /\ built' = built
  BY <1>1 DEF Typed, ImagesOk, images
<1>3. JobsOk'
  BY <1>2, JobMoves DEF Typed, JobsOk
<1>4. job[s].step # "idle" /\ job[s].before \in Env /\ job[s].after \in Env
  BY JobMoves DEF Typed, JobsOk
<1>5. env' \in [Site -> Env]
  <2>1. \/ env' = env \/ env' = [env EXCEPT ![s] = job[s].after]
        \/ env' = [env EXCEPT ![s] = job[s].before] \/ env' = [env EXCEPT ![s] = UndoTo(s)]
    BY DEF JobStepOf, Retain, Remember, Backup, SelectTarget, Recreate, Healthy, SiteReady,
           FailEarly, FailStarted, Undo, Abandon, sites, WriteEnv
  <2> QED BY <1>4, <2>1, UndoRow DEF Typed, SitesOk
<1>6. container' \in [Site -> built \cup {None}] /\ adopted' \in [Site -> SUBSET Image]
  <2>1. \/ container' = container /\ adopted' = adopted
        \/ container' = [container EXCEPT ![s] = None] /\ adopted' = adopted
        \/ Compose(s)
    BY DEF consents, Broken, JobStepOf, Retain, Remember, Backup, SelectTarget, Recreate,
           Healthy, SiteReady, FailEarly, FailStarted, Undo, Abandon, sites
  <2> QED BY <2>1, SelectedIsBuilt DEF Typed, SitesOk
<1>7. /\ record' \in [Site -> RecordRow \cup {NoRecord}] /\ kept' \in [Site -> SUBSET built]
      /\ \A t \in Site : record'[t] # NoRecord => record'[t].ref \in built
  <2>1. CASE UNCHANGED <<record, kept>>
    BY <2>1 DEF Typed, SitesOk
  <2>2. CASE Retain(s)
    <3> DEFINE new == [ref |-> job[s].prior, series |-> job[s].before.series]
    <3>1. job[s].prior \in built /\ job[s].before.series \in Series
      BY <1>4, <2>2 DEF Typed, JobsOk, Retain, At, Env
    <3>2. new \in RecordRow /\ new.ref \in built
      BY <3>1 DEF RecordRow, Typed, ImagesOk
    <3>3. record' = [record EXCEPT ![s] = new] /\ kept' = kept
      BY <2>2 DEF Retain
    <3> HIDE DEF new
    <3> QED BY <3>1, <3>2, <3>3 DEF Typed, SitesOk
  <2>3. CASE Remember(s)
    <3>1. job[s].prior \in built
      BY <2>3 DEF Typed, JobsOk, Remember, At
    <3>2. record' = record /\ kept' = [kept EXCEPT ![s] = kept[s] \cup {job[s].prior}]
      BY <2>3 DEF Remember
    <3> QED BY <3>1, <3>2 DEF Typed, SitesOk
  <2> QED BY <2>1, <2>2, <2>3 DEF JobStepOf, Backup, SelectTarget, Recreate, Healthy, SiteReady,
                            FailEarly, FailStarted, Undo, Abandon, sites
<1> QED BY <1>1, <1>2, <1>3, <1>5, <1>6, <1>7 DEF Typed, SitesOk

\* A switch begins with what the site has, and goes on with what was prepared.
LEMMA BeginSwitchTyped ==
    ASSUME Typed, NEW s \in Site, NEW p \in Series, NEW c \in Image \cup {None},
           BeginSwitch(s, p, c)
    PROVE  /\ ImagesOk' /\ SitesOk' /\ JobsOk'
           /\ job'[s] = [step |-> "prepare", before |-> env[s],
                         after |-> [series |-> p, ref |-> c], prior |-> Prior(s),
                         ran |-> container[s]]
           /\ \A t \in Site : t # s => job'[t] = job[t]
<1> DEFINE new == [step |-> "prepare", before |-> env[s], after |-> [series |-> p, ref |-> c],
                   prior |-> Prior(s), ran |-> container[s]]
<1>1. /\ Prior(s) \in built /\ built \subseteq Image /\ Preserve(Prior(s))
      /\ UNCHANGED <<alias, built, sites, staged>> /\ Set(s, new)
      /\ accepted' = [accepted EXCEPT ![s] = IF p \in Legacy THEN accepted[s] \cup {c}
                                                              ELSE accepted[s]]
  BY PriorIsBuilt DEF BeginSwitch, Typed, ImagesOk
<1>2. env[s] \in Env /\ [series |-> p, ref |-> c] \in Env /\ container[s] \in Image \cup {None}
  BY <1>1, EnvRow DEF Typed, SitesOk
<1>3. /\ new \in JobRow /\ new.step = "prepare" /\ new.before \in Env /\ new.after \in Env
      /\ new.prior \in built /\ new.prior # None
  BY <1>1, <1>2, ConstantAssumption DEF JobRow, JobStep
<1>4. ImagesOk'
  BY <1>1, PreservedImage
<1> HIDE DEF new
<1>5. /\ job' \in [Site -> JobRow] /\ job'[s] = new /\ \A t \in Site : t # s => job'[t] = job[t]
  BY <1>1, <1>3, SetJob DEF Typed, JobsOk
<1>6. JobsOk'
  BY <1>1, <1>3, <1>5 DEF Typed, JobsOk
<1>7. accepted' \in [Site -> SUBSET Image]
  <2>1. CASE c \in Image
    BY <1>1, <2>1 DEF Typed, SitesOk
  <2>2. CASE c = None
    <3>1. p \notin Legacy
      BY <2>2, ConstantAssumption DEF BeginSwitch, AcceptsImage, Report, Typed, ImagesOk
    <3> QED BY <3>1 DEF BeginSwitch, Typed, SitesOk
  <2> QED BY <2>1, <2>2
<1>8. adopted' \in [Site -> SUBSET Image]
  BY <1>1, Adopted DEF BeginSwitch
<1>9. SitesOk'
  BY <1>1, <1>7, <1>8 DEF Typed, SitesOk, sites
<1> QED BY <1>4, <1>5, <1>6, <1>9 DEF new

\* The reference that a switch was asked for is exchanged for what was prepared.
LEMMA PrepareTargetTyped ==
    ASSUME Typed, NEW s \in Site, NEW i \in Image, PrepareTarget(s, i)
    PROVE  /\ ImagesOk' /\ SitesOk' /\ JobsOk'
           /\ job[s].step = "prepare" /\ SeriesOf[i] = job[s].after.series
           /\ job[s].after \in Env
           /\ job'[s].step = "record" /\ job'[s].before = job[s].before
           /\ job'[s].prior = job[s].prior /\ job'[s].ran = job[s].ran
           /\ job'[s].after \in Env /\ job'[s].after.ref = i
           /\ job'[s].after.series = job[s].after.series
           /\ \A t \in Site : t # s => job'[t] = job[t]
<1> DEFINE after == [job[s].after EXCEPT !.ref = i]
           new == [job[s] EXCEPT !.step = "record", !.after = after]
<1>1. /\ job[s] \in JobRow /\ job[s].step = "prepare" /\ job[s].after \in Env
      /\ job[s].before \in Env /\ job[s].prior \in built /\ job[s].prior # None
  BY DEF PrepareTarget, At, Typed, JobsOk
<1>2. after \in Env /\ after.ref = i /\ after.series = job[s].after.series
  BY <1>1, EnvWith
<1>3. Set(s, new) /\ UNCHANGED <<sites, staged, consents>>
  BY DEF PrepareTarget
<1>4. ImagesOk' /\ built \subseteq built' /\ SeriesOf[i] = job[s].after.series
  BY <1>1, PreparedFor DEF PrepareTarget, Env
<1> HIDE DEF after
<1>5. /\ new \in JobRow /\ new.step = "record" /\ new.before = job[s].before
      /\ new.prior = job[s].prior /\ new.ran = job[s].ran /\ new.after = after
  BY <1>1, <1>2 DEF JobRow, JobStep
<1> HIDE DEF new
<1>6. /\ job' \in [Site -> JobRow] /\ job'[s] = new /\ \A t \in Site : t # s => job'[t] = job[t]
  BY <1>3, <1>5, SetJob DEF Typed, JobsOk
<1>7. JobsOk'
  BY <1>1, <1>2, <1>4, <1>5, <1>6 DEF Typed, JobsOk
<1>8. SitesOk'
  BY <1>3, <1>4, SitesKept DEF Typed
<1> QED BY <1>1, <1>2, <1>4, <1>5, <1>6, <1>7, <1>8

\* A rollback takes the reference of the record, and starts it if PHP runs.
LEMMA BeginRollbackTyped ==
    ASSUME Typed, NEW s \in Site, BeginRollback(s)
    PROVE  /\ ImagesOk' /\ SitesOk' /\ JobsOk'
           /\ env' = [env EXCEPT ![s] = [series |-> record[s].series, ref |-> record[s].ref]]
           /\ env'[s] = [series |-> record[s].series, ref |-> record[s].ref]
           /\ record[s] # NoRecord /\ record[s].ref \in Image
           /\ \/ job'[s].step = "idle"
              \/ /\ job'[s].step = "up" /\ job'[s].before = env[s] /\ job'[s].prior = None
                 /\ job'[s].ran # None /\ job'[s].after.ref = record[s].ref
           /\ \A t \in Site : t # s => job'[t] = job[t] /\ env'[t] = env[t]
<1> DEFINE after == [series |-> record[s].series, ref |-> record[s].ref]
           new == [step |-> "up", before |-> env[s], after |-> after, prior |-> None,
                   ran |-> container[s]]
<1>1. /\ record[s] \in RecordRow /\ record[s] # NoRecord /\ record[s].ref \in Image
      /\ env[s] \in Env /\ container[s] \in Image \cup {None}
  BY DEF BeginRollback, Typed, SitesOk, ImagesOk, RecordRow
<1>2. after \in Env /\ after.ref = record[s].ref
  BY <1>1, EnvRow DEF RecordRow
<1>3. /\ UNCHANGED <<images, container, record, kept, staged, adopted>>
      /\ env' = [env EXCEPT ![s] = after]
      /\ accepted' = [accepted EXCEPT ![s] = IF AcceptsImage(record[s].ref, None) THEN accepted[s]
                                             ELSE accepted[s] \cup {record[s].ref}]
      /\ Set(s, IF container[s] = None THEN NoJob ELSE new)
  BY DEF BeginRollback, WriteEnv
<1> HIDE DEF after
<1>4. /\ new \in JobRow /\ new.step = "up" /\ new.before = env[s] /\ new.prior = None
      /\ new.ran = container[s] /\ new.after = after
  BY <1>1, <1>2 DEF JobRow, JobStep
<1> HIDE DEF new
<1>5. ImagesOk' /\ built' = built
  BY <1>3 DEF Typed, ImagesOk, images
<1>6. SitesOk'
  <2>1. env' \in [Site -> Env] /\ accepted' \in [Site -> SUBSET Image]
    BY <1>1, <1>2, <1>3 DEF Typed, SitesOk
  <2> QED BY <1>3, <1>5, <2>1 DEF Typed, SitesOk
<1>7. CASE container[s] = None
  <2>1. /\ job' \in [Site -> JobRow] /\ job'[s].step = "idle"
        /\ \A t \in Site : t # s => job'[t] = job[t]
    BY <1>3, <1>7, Ended DEF Typed, JobsOk, Done
  <2>2. JobsOk'
    BY <1>5, <2>1 DEF Typed, JobsOk
  <2>3. env'[s] = after /\ \A t \in Site : t # s => env'[t] = env[t]
    BY <1>3 DEF Typed, SitesOk
  <2> QED BY <1>1, <1>3, <1>5, <1>6, <2>1, <2>2, <2>3 DEF after
<1>8. CASE container[s] # None
  <2>1. /\ job' \in [Site -> JobRow] /\ job'[s] = new
        /\ \A t \in Site : t # s => job'[t] = job[t]
    BY <1>3, <1>4, <1>8, SetJob DEF Typed, JobsOk
  <2>2. JobsOk'
    BY <1>1, <1>2, <1>4, <1>5, <2>1 DEF Typed, JobsOk
  <2>3. env'[s] = after /\ \A t \in Site : t # s => env'[t] = env[t]
    BY <1>3 DEF Typed, SitesOk
  <2> QED BY <1>1, <1>2, <1>3, <1>4, <1>5, <1>6, <1>8, <2>1, <2>2, <2>3 DEF after
<1> QED BY <1>7, <1>8

\* What a core update writes into a site: what it has read, with a reference.
LEMMA StageTyped ==
    ASSUME Typed, NEW s \in Site, StageSite(s)
    PROVE  /\ ImagesOk' /\ SitesOk' /\ JobsOk' /\ UNCHANGED <<alias, built, sites, job, accepted>>
           /\ \A t \in Site : t # s => staged'[t] = staged[t]
           /\ staged'[s].from = env[s] /\ staged'[s].from \in Env /\ staged'[s].to \in Env
           /\ \/ /\ staged'[s].to = env[s] /\ UNCHANGED <<tagged, adopted>>
              \/ /\ env[s].ref = None /\ staged'[s].to.ref = Prior(s) /\ Prior(s) \in Image
                 /\ tagged' = tagged \cup {Prior(s)} /\ Adopt(s, Prior(s))
<1> DEFINE to == IF env[s].ref # None THEN env[s] ELSE [env[s] EXCEPT !.ref = Prior(s)]
           new == [from |-> env[s], seen |-> env[s], to |-> to]
<1>1. /\ UNCHANGED <<alias, built, sites, job, accepted>> /\ staged' = [staged EXCEPT ![s] = new]
      /\ \/ env[s].ref # None /\ UNCHANGED <<tagged, adopted>>
         \/ /\ env[s].ref = None /\ Prior(s) # None /\ Preserve(Prior(s))
            /\ Adopt(s, Prior(s))
  BY DEF StageSite
<1>2. env[s] \in Env
  BY DEF Typed, SitesOk
<1>3. ImagesOk' /\ built' = built
  BY <1>1, PriorIsBuilt, PreservedImage DEF Typed, ImagesOk
<1>4. /\ to \in Env
      /\ \/ to = env[s] /\ UNCHANGED <<tagged, adopted>>
         \/ /\ env[s].ref = None /\ to.ref = Prior(s) /\ Prior(s) \in Image
            /\ tagged' = tagged \cup {Prior(s)} /\ Adopt(s, Prior(s))
  <2>1. CASE env[s].ref # None
    BY <1>1, <1>2, <2>1
  <2>2. CASE env[s].ref = None
    <3>1. /\ Prior(s) \in Image /\ tagged' = tagged \cup {Prior(s)}
          /\ Adopt(s, Prior(s))
      BY <1>1, <2>2, PriorIsBuilt DEF Typed, ImagesOk, Preserve
    <3> QED BY <1>2, <2>2, <3>1, EnvWith
  <2> QED BY <2>1, <2>2
<1> HIDE DEF to
<1>5. new \in StageRow /\ new.from = env[s] /\ new.to = to
  BY <1>2, <1>4 DEF StageRow
<1> HIDE DEF new
<1>6. /\ staged' \in [Site -> StageRow \cup {NoStage}] /\ staged'[s] = new
      /\ \A t \in Site : t # s => staged'[t] = staged[t]
  BY <1>1, <1>5 DEF Typed, SitesOk
<1>7. adopted' \in [Site -> SUBSET Image]
  <2>1. adopted' = adopted \/ (Prior(s) \in Image /\ Adopt(s, Prior(s)))
    BY <1>4
  <2> QED BY <2>1, Adopted DEF Typed, SitesOk
<1>8. SitesOk' /\ JobsOk'
  BY <1>1, <1>3, <1>6, <1>7 DEF Typed, SitesOk, JobsOk, sites
<1> QED BY <1>1, <1>2, <1>3, <1>4, <1>5, <1>6, <1>8

\* It is written later, over whatever is there by then, put back, or given up.
LEMMA UnstageTyped ==
    ASSUME Typed, NEW s \in Site, WriteStaged(s) \/ PutBack(s) \/ DropStaged(s)
    PROVE  /\ ImagesOk' /\ SitesOk' /\ JobsOk'
           /\ UNCHANGED <<images, container, record, kept, job, consents>>
           /\ staged[s] \in StageRow /\ staged[s] # NoStage
           /\ \/ staged'[s] = NoStage
              \/ /\ staged'[s] \in StageRow
                 /\ staged'[s].from = staged[s].from /\ staged'[s].to = staged[s].to
           /\ \A t \in Site : t # s => staged'[t] = staged[t]
           /\ env'[s] \in {env[s], staged[s].from, staged[s].to}
           /\ \A t \in Site : t # s => env'[t] = env[t]
<1> DEFINE later == [staged[s] EXCEPT !.seen = staged[s].to]
<1>1. /\ UNCHANGED <<images, container, record, kept, job, consents>> /\ staged[s] # NoStage
      /\ \/ staged' = [staged EXCEPT ![s] = NoStage]
         \/ staged' = [staged EXCEPT ![s] = later]
      /\ \/ env' = env
         \/ \E e \in {staged[s].from, staged[s].to} : env' = [env EXCEPT ![s] = e]
  BY DEF WriteStaged, PutBack, WriteOver, DropStaged, sites
<1>2. staged[s] \in StageRow /\ staged[s].from \in Env /\ staged[s].to \in Env
  BY <1>1 DEF Typed, SitesOk, StageRow
<1>3. /\ env' \in [Site -> Env] /\ env'[s] \in {env[s], staged[s].from, staged[s].to}
      /\ \A t \in Site : t # s => env'[t] = env[t]
  BY <1>1, <1>2 DEF Typed, SitesOk
<1>4. /\ later \in StageRow
      /\ later.from = staged[s].from /\ later.to = staged[s].to
  BY <1>2 DEF StageRow
<1> HIDE DEF later
<1>5. /\ staged' \in [Site -> StageRow \cup {NoStage}]
      /\ staged'[s] \in {NoStage, later}
      /\ \A t \in Site : t # s => staged'[t] = staged[t]
  BY <1>1, <1>4 DEF Typed, SitesOk
<1> QED BY <1>1, <1>2, <1>3, <1>4, <1>5
        DEF Typed, ImagesOk, SitesOk, JobsOk, images, consents

\* The site goes Up or Down, or an image of its history expires.
LEMMA SiteTyped ==
    ASSUME Typed, NEW s \in Site, Up(s) \/ Down(s) \/ \E i \in Image : Expire(s, i)
    PROVE  /\ ImagesOk' /\ SitesOk' /\ JobsOk'
           /\ UNCHANGED <<images, env, record, job, staged, accepted>>
<1>1. UNCHANGED <<images, env, record, job, staged, accepted>>
  BY DEF Up, Down, Expire, consents
<1>2. container' \in [Site -> built \cup {None}] /\ adopted' \in [Site -> SUBSET Image]
  <2>1. CASE Compose(s)
    BY <2>1, SelectedIsBuilt
  <2>2. CASE /\ container' = container \/ container' = [container EXCEPT ![s] = None]
             /\ adopted' = adopted
    BY <2>2 DEF Typed, SitesOk
  <2> QED BY <2>1, <2>2 DEF Up, Down, Expire, consents
<1>3. kept' \in [Site -> SUBSET built]
  BY DEF Up, Down, Expire, Typed, SitesOk
<1> QED BY <1>1, <1>2, <1>3 DEF Typed, ImagesOk, SitesOk, JobsOk, images

\* A tag is chosen, removed or left.
DeleteStep ==
    \/ \E tag \in Image \cup Series : ChooseUnused(tag)
    \/ CannotDelete
    \/ \E i \in Image : DeleteImmutable(i)
    \/ \E p \in Series : DeleteAlias(p)

\* A deletion only takes tags away.
LEMMA DeleteTyped ==
    ASSUME Typed, DeleteStep
    PROVE  /\ ImagesOk' /\ SitesOk' /\ JobsOk'
           /\ UNCHANGED <<built, sites, job, staged, consents>>
           /\ tagged' \subseteq tagged
           /\ \A p \in Series : alias'[p] \in {alias[p], None}
<1>1. /\ UNCHANGED <<built, sites, job, staged, consents>>
      /\ \/ UNCHANGED <<tagged, alias>>
         \/ \E i \in Image : tagged' = tagged \ {i} /\ alias' = alias
         \/ \E p \in Series : alias' = [alias EXCEPT ![p] = None] /\ tagged' = tagged
  BY DEF DeleteStep, ChooseUnused, CannotDelete, DeleteImmutable, DeleteAlias, images
<1>2. /\ tagged' \subseteq tagged /\ alias' \in [Series -> built \cup {None}]
      /\ \A p \in Series : alias'[p] \in {alias[p], None}
  BY <1>1 DEF Typed, ImagesOk
<1>3. ImagesOk'
  BY <1>1, <1>2 DEF Typed, ImagesOk
<1> QED BY <1>1, <1>2, <1>3, OnlyImages DEF Typed

\* A preparation for no site in particular touches no site.
LEMMA PrepareTyped ==
    ASSUME Typed, NEW p \in Series, NEW i \in Image, Refresh(p, i) \/ PrepareNew(p, i)
    PROVE  /\ ImagesOk' /\ SitesOk' /\ JobsOk' /\ UNCHANGED <<sites, job, staged, consents>>
<1>1. Prepare(p, i) /\ UNCHANGED <<sites, job, staged, consents>>
  BY DEF Refresh, PrepareNew, Prepare
<1> QED BY <1>1, PreparedFor, OnlyImages

\* Everything keeps its type in every step.
LEMMA NextTyped == Typed /\ [Next]_vars => Typed'
<1> SUFFICES ASSUME Typed, [Next]_vars PROVE ImagesOk' /\ SitesOk' /\ JobsOk'
  BY NextMarks DEF Typed
<1>1. CASE UNCHANGED vars
  BY <1>1 DEF vars, images, sites, consents, Typed, ImagesOk, SitesOk, JobsOk
<1>2. ASSUME NEW s \in Site, NEW p \in Series, NEW c \in Image \cup {None}, BeginSwitch(s, p, c)
      PROVE  ImagesOk' /\ SitesOk' /\ JobsOk'
  BY <1>2, BeginSwitchTyped
<1>3. ASSUME NEW s \in Site, NEW i \in Image, PrepareTarget(s, i)
      PROVE  ImagesOk' /\ SitesOk' /\ JobsOk'
  BY <1>3, PrepareTargetTyped
<1>4. ASSUME NEW s \in Site, JobStepOf(s) PROVE ImagesOk' /\ SitesOk' /\ JobsOk'
  BY <1>4, JobStepTyped
<1>5. ASSUME NEW s \in Site, BeginRollback(s) PROVE ImagesOk' /\ SitesOk' /\ JobsOk'
  BY <1>5, BeginRollbackTyped
<1>6. ASSUME NEW s \in Site, StageSite(s) PROVE ImagesOk' /\ SitesOk' /\ JobsOk'
  BY <1>6, StageTyped
<1>7. ASSUME NEW s \in Site, WriteStaged(s) \/ PutBack(s) \/ DropStaged(s)
      PROVE  ImagesOk' /\ SitesOk' /\ JobsOk'
  BY <1>7, UnstageTyped
<1>8. ASSUME NEW s \in Site, Up(s) \/ Down(s) \/ \E i \in Image : Expire(s, i)
      PROVE  ImagesOk' /\ SitesOk' /\ JobsOk'
  BY <1>8, SiteTyped
<1>9. CASE \E p \in Series, i \in Image : Refresh(p, i) \/ PrepareNew(p, i)
  BY <1>9, PrepareTyped
<1>10. CASE DeleteStep
  BY <1>10, DeleteTyped
<1> QED BY <1>1, <1>2, <1>3, <1>4, <1>5, <1>6, <1>7, <1>8, <1>9, <1>10
        DEF Next, JobStepOf, DeleteStep

-----------------------------------------------------------------------------
(* What ran and what was accepted *)

\* The steps for one site.
SiteStep(s) ==
    \/ \E p \in Series, c \in Image \cup {None} : BeginSwitch(s, p, c)
    \/ \E i \in Image : PrepareTarget(s, i)
    \/ JobStepOf(s) \/ BeginRollback(s) \/ StageSite(s)
    \/ WriteStaged(s) \/ PutBack(s) \/ DropStaged(s)
    \/ Up(s) \/ Down(s) \/ \E i \in Image : Expire(s, i)

\* Every step is about one site, or about none.
LEMMA Steps ==
    ASSUME [Next]_vars
    PROVE  \/ UNCHANGED vars
           \/ \E p \in Series, i \in Image : Refresh(p, i) \/ PrepareNew(p, i)
           \/ \E s \in Site : SiteStep(s)
           \/ DeleteStep
BY DEF Next, SiteStep, JobStepOf, DeleteStep

\* Nothing of a site changes.
Rests(t) ==
    /\ env'[t] = env[t] /\ container'[t] = container[t] /\ record'[t] = record[t]
    /\ staged'[t] = staged[t] /\ job'[t] = job[t]
    /\ accepted'[t] = accepted[t] /\ adopted'[t] = adopted[t]

\* A step for one site touches no other ...
LEMMA OthersRest ==
    ASSUME Typed, NEW s \in Site, SiteStep(s), NEW t \in Site, t # s
    PROVE  Rests(t)
<1>1. job'[t] = job[t]
  <2>1. ASSUME NEW new, Set(s, new) PROVE job'[t] = job[t]
    BY <2>1 DEF Set, Typed, JobsOk
  <2>2. CASE JobStepOf(s)
    BY <2>2, JobMoves
  <2>3. CASE job' = job
    BY <2>3
  <2> QED BY <2>1, <2>2, <2>3
          DEF SiteStep, BeginSwitch, PrepareTarget, BeginRollback, StageSite, WriteStaged,
              PutBack, DropStaged, Up, Down, Expire
<1>2. env'[t] = env[t]
  <2>1. env' = env \/ \E e : env' = [env EXCEPT ![s] = e]
    BY DEF SiteStep, JobStepOf, BeginSwitch, PrepareTarget, BeginRollback, StageSite,
           WriteStaged, DropStaged, Up, Down, Expire, PutBack, WriteOver, Retain, Remember,
           Backup, SelectTarget, Recreate, Healthy, SiteReady, FailEarly, FailStarted, Undo,
           Abandon, sites, WriteEnv
  <2> QED BY <2>1 DEF Typed, SitesOk
<1>3. container'[t] = container[t]
  <2>1. container' = container \/ \E i : container' = [container EXCEPT ![s] = i]
    BY DEF SiteStep, JobStepOf, BeginSwitch, PrepareTarget, BeginRollback, StageSite,
           WriteStaged, DropStaged, Up, Down, Expire, PutBack, WriteOver, Retain, Remember,
           Backup, SelectTarget, Recreate, Healthy, SiteReady, FailEarly, FailStarted, Undo,
           Abandon, sites, Compose, Broken
  <2> QED BY <2>1 DEF Typed, SitesOk
<1>4. record'[t] = record[t]
  <2>1. record' = record \/ \E r : record' = [record EXCEPT ![s] = r]
    BY DEF SiteStep, JobStepOf, BeginSwitch, PrepareTarget, BeginRollback, StageSite,
           WriteStaged, DropStaged, Up, Down, Expire, PutBack, WriteOver, Retain, Remember,
           Backup, SelectTarget, Recreate, Healthy, SiteReady, FailEarly, FailStarted, Undo,
           Abandon, sites
  <2> QED BY <2>1 DEF Typed, SitesOk
<1>5. staged'[t] = staged[t]
  <2>1. staged' = staged \/ \E r : staged' = [staged EXCEPT ![s] = r]
    BY DEF SiteStep, JobStepOf, BeginSwitch, PrepareTarget, BeginRollback, StageSite,
           WriteStaged, DropStaged, Up, Down, Expire, PutBack, WriteOver, Retain, Remember,
           Backup, SelectTarget, Recreate, Healthy, SiteReady, FailEarly, FailStarted, Undo,
           Abandon, sites
  <2> QED BY <2>1 DEF Typed, SitesOk
<1>6. accepted'[t] = accepted[t]
  <2>1. accepted' = accepted \/ \E r : accepted' = [accepted EXCEPT ![s] = r]
    BY DEF SiteStep, JobStepOf, BeginSwitch, PrepareTarget, BeginRollback, StageSite,
           WriteStaged, DropStaged, Up, Down, Expire, PutBack, WriteOver, Retain, Remember,
           Backup, SelectTarget, Recreate, Healthy, SiteReady, FailEarly, FailStarted, Undo,
           Abandon, sites, consents, Compose, Adopt
  <2> QED BY <2>1 DEF Typed, SitesOk
<1>7. adopted'[t] = adopted[t]
  <2>1. adopted' = adopted \/ \E r : adopted' = [adopted EXCEPT ![s] = r]
    BY DEF SiteStep, JobStepOf, BeginSwitch, PrepareTarget, BeginRollback, StageSite,
           WriteStaged, DropStaged, Up, Down, Expire, PutBack, WriteOver, Retain, Remember,
           Backup, SelectTarget, Recreate, Healthy, SiteReady, FailEarly, FailStarted, Undo,
           Abandon, sites, consents, Compose, Adopt
  <2> QED BY <2>1 DEF Typed, SitesOk
<1> QED BY <1>1, <1>2, <1>3, <1>4, <1>5, <1>6, <1>7 DEF Rests

\* ... and a step for none touches no site.
LEMMA ElsewhereRests ==
    ASSUME Typed,
           \/ UNCHANGED vars
           \/ \E p \in Series, i \in Image : Refresh(p, i) \/ PrepareNew(p, i)
           \/ DeleteStep,
           NEW t \in Site
    PROVE  Rests(t)
BY PrepareTyped, DeleteTyped DEF vars, sites, consents, Rests

\* What a switch found running it keeps until it ends.
LEMMA SameKept ==
    ASSUME Typed, Same, [Next]_vars
    PROVE  Same'
<1> SUFFICES ASSUME NEW s \in Site PROVE SameAt(s)'
  BY DEF Same
<1>0. SameAt(s) /\ None \notin Image
  BY ConstantAssumption DEF Same
<1>1. CASE job'[s] = job[s]
  BY <1>0, <1>1 DEF SameAt
<1>2. ASSUME NEW p \in Series, NEW c \in Image \cup {None}, BeginSwitch(s, p, c) PROVE SameAt(s)'
  <2>1. job'[s] = [step |-> "prepare", before |-> env[s], after |-> [series |-> p, ref |-> c],
                   prior |-> Prior(s), ran |-> container[s]]
    BY <1>2, BeginSwitchTyped
  <2>2. container[s] # None => Prior(s) = container[s]
    BY DEF Prior
  <2>3. job'[s].step = "prepare" /\ job'[s].prior = Prior(s) /\ job'[s].ran = container[s]
    BY <2>1
  <2> QED BY <2>2, <2>3 DEF SameAt
<1>3. ASSUME NEW i \in Image, PrepareTarget(s, i) PROVE SameAt(s)'
  BY <1>0, <1>3, PrepareTargetTyped DEF SameAt
<1>4. CASE JobStepOf(s)
  BY <1>0, <1>4, JobMoves DEF SameAt
<1>5. CASE BeginRollback(s)
  BY <1>5, BeginRollbackTyped DEF SameAt
<1>6. CASE StageSite(s) \/ WriteStaged(s) \/ PutBack(s) \/ DropStaged(s) \/ Up(s) \/ Down(s)
           \/ \E i \in Image : Expire(s, i)
  BY <1>1, <1>6, StageTyped, UnstageTyped, SiteTyped
<1> QED BY <1>1, <1>2, <1>3, <1>4, <1>5, <1>6, Steps, OthersRest, ElsewhereRests
        DEF SiteStep, Rests

\* What compose selects for a site is good for it: it is what the .env names, or it
\* is adopted.
LEMMA SelectedIsGood ==
    ASSUME Typed, NEW s \in Site, GoodEnv(s, env[s]), NEW i \in Image, i = Selected(env[s]),
           Adopt(s, i), accepted[s] \subseteq accepted'[s]
    PROVE  SeriesOf[i] \in Legacy => i \in Permitted(s)'
<1>1. None \notin Image
  BY ConstantAssumption
<1>2. CASE env[s].ref = None
  BY <1>2, Adopted DEF Permitted
<1>3. CASE env[s].ref # None
  <2>1. i = env[s].ref
    BY <1>1, <1>3, Selects
  <2> QED BY <1>3, <2>1, Adopted DEF GoodEnv, GoodImage, Permitted
<1> QED BY <1>2, <1>3

\* So is the image a switch or a core update finds.
LEMMA PriorIsGood ==
    ASSUME Typed, Sound, NEW s \in Site, NEW i \in Image, i = Prior(s),
           Adopt(s, i), accepted[s] \subseteq accepted'[s]
    PROVE  SeriesOf[i] \in Legacy => i \in Permitted(s)'
<1>1. GoodEnv(s, env[s]) /\ GoodImage(s, container[s])
  BY DEF Sound, SoundAt
<1>2. CASE container[s] # None
  <2>1. i = container[s]
    BY <1>2 DEF Prior
  <2> QED BY <1>1, <2>1, Adopted DEF GoodImage, Permitted
<1>3. CASE container[s] = None
  BY <1>1, <1>3, SelectedIsGood DEF Prior
<1> QED BY <1>2, <1>3

\* An .env with a reference is as good as the image.
LEMMA EnvOfImage ==
    ASSUME NEW s \in Site, NEW e, e.ref \in Image, GoodImage(s, e.ref)
    PROVE  GoodEnv(s, e)
BY ConstantAssumption DEF GoodEnv

\* What was accepted or adopted once stays so.
LEMMA PermittedGrows ==
    ASSUME Typed, NEW s \in Site, SiteStep(s)
    PROVE  /\ accepted[s] \subseteq accepted'[s]
           /\ Permitted(s) \subseteq Permitted(s)'
<1>1. accepted[s] \subseteq accepted'[s]
  <2>1. CASE accepted' = accepted
    BY <2>1
  <2>2. CASE \E A : accepted' = [accepted EXCEPT ![s] = A] /\ accepted[s] \subseteq A
    BY <2>2 DEF Typed, SitesOk
  <2>3. CASE \E p \in Series, c \in Image \cup {None} : BeginSwitch(s, p, c)
    BY <2>2, <2>3 DEF BeginSwitch
  <2>4. CASE BeginRollback(s)
    BY <2>2, <2>4 DEF BeginRollback
  <2> QED BY <2>1, <2>3, <2>4
          DEF SiteStep, JobStepOf, PrepareTarget, StageSite, WriteStaged, PutBack, WriteOver,
              DropStaged, Up, Down, Expire, Retain, Remember, Backup, SelectTarget, Recreate,
              Healthy, SiteReady, FailEarly, FailStarted, Undo, Abandon, sites, consents
<1>2. adopted[s] \subseteq adopted'[s]
  <2>1. CASE adopted' = adopted
    BY <2>1
  <2>2. CASE \E i : Adopt(s, i)
    BY <2>2 DEF Adopt, Typed, SitesOk
  <2> QED BY <2>1, <2>2
          DEF SiteStep, JobStepOf, BeginSwitch, BeginRollback, PrepareTarget, StageSite,
              WriteStaged, PutBack, WriteOver, DropStaged, Up, Down, Expire, Retain, Remember,
              Backup, SelectTarget, Recreate, Healthy, SiteReady, FailEarly, FailStarted, Undo,
              Abandon, sites, consents, Compose
<1> QED BY <1>1, <1>2 DEF Permitted

\* A site that nothing happens to stays sound.
LEMMA SoundRests ==
    ASSUME Sound, NEW t \in Site, Rests(t)
    PROVE  SoundAt(t)'
BY DEF Sound, SoundAt, Rests, GoodEnv, GoodImage, Permitted

\* What compose starts was named or is adopted.
LEMMA ComposeIsGood ==
    ASSUME Typed, NEW s \in Site, GoodEnv(s, env[s]), Compose(s), accepted' = accepted
    PROVE  GoodImage(s, container[s])'
<1>1. PICK i \in Image : i = Selected(env[s])
  BY SelectedIsBuilt
<1>2. container'[s] = i /\ Adopt(s, i)
  BY <1>1 DEF Compose, Typed, SitesOk
<1>3. SeriesOf[i] \in Legacy => i \in Permitted(s)'
  BY <1>1, <1>2, SelectedIsGood
<1> QED BY <1>2, <1>3 DEF GoodImage

\* What can be written to an .env by a job is good for the site.
LEMMA JobIsSound ==
    ASSUME Typed, Sound, NEW s \in Site, JobStepOf(s)
    PROVE  SoundAt(s)'
<1>1. /\ SoundAt(s) /\ accepted' = accepted /\ staged' = staged /\ None \notin Image
      /\ job[s].step # "idle" /\ Permitted(s) \subseteq Permitted(s)'
  BY ConstantAssumption, JobMoves, PermittedGrows
     DEF Sound, SiteStep, JobStepOf, Retain, Remember, Backup, SelectTarget, Recreate, Healthy,
         SiteReady, FailEarly, FailStarted, Undo, Abandon, consents
<1>2. /\ env[s] \in Env /\ GoodEnv(s, env[s]) /\ GoodEnv(s, job[s].before)
      /\ GoodImage(s, job[s].prior) /\ job[s].before \in Env /\ job[s].prior \in Image \cup {None}
  BY <1>1 DEF SoundAt, Typed, SitesOk, JobsOk, ImagesOk
<1>3. GoodEnv(s, UndoTo(s))
  <2>1. CASE job[s].prior = None
    BY <1>2, <2>1 DEF UndoTo
  <2>2. CASE job[s].prior # None
    <3>1. UndoTo(s).ref = job[s].prior /\ job[s].prior \in Image
      BY <1>2, <2>2, EnvWith DEF UndoTo
    <3> QED BY <1>2, <3>1, EnvOfImage
  <2> QED BY <2>1, <2>2
<1>4. job[s].step # "prepare" => GoodEnv(s, job[s].after)
  BY <1>1, EnvOfImage DEF SoundAt
<1>5. GoodEnv(s, env'[s])
  <2>1. \/ env' = env
        \/ job[s].step # "prepare" /\ env' = [env EXCEPT ![s] = job[s].after]
        \/ env' = [env EXCEPT ![s] = job[s].before] \/ env' = [env EXCEPT ![s] = UndoTo(s)]
    BY DEF JobStepOf, Retain, Remember, Backup, SelectTarget, Recreate, Healthy, SiteReady,
           FailEarly, FailStarted, Undo, Abandon, sites, WriteEnv, At
  <2> QED BY <1>2, <1>3, <1>4, <2>1 DEF Typed, SitesOk
<1>6. GoodImage(s, container[s])'
  <2>1. \/ container' = container
        \/ container' = [container EXCEPT ![s] = None]
        \/ Compose(s)
    BY DEF JobStepOf, Retain, Remember, Backup, SelectTarget, Recreate, Healthy, SiteReady,
           FailEarly, FailStarted, Undo, Abandon, Broken, sites
  <2>2. CASE Compose(s)
    BY <1>1, <1>2, <2>2, ComposeIsGood
  <2>3. CASE container' = container \/ container' = [container EXCEPT ![s] = None]
    BY <1>1, <2>3 DEF Typed, SitesOk, SoundAt, GoodImage
  <2> QED BY <2>1, <2>2, <2>3
<1>7. record'[s] # NoRecord => GoodImage(s, record'[s].ref)
  <2>1. \/ record' = record
        \/ record' = [record EXCEPT ![s] = [ref |-> job[s].prior, series |-> job[s].before.series]]
    BY DEF JobStepOf, Retain, Remember, Backup, SelectTarget, Recreate, Healthy, SiteReady,
           FailEarly, FailStarted, Undo, Abandon, sites
  <2> QED BY <1>1, <1>2, <2>1 DEF Typed, SitesOk, SoundAt
<1>8. job'[s].step # "idle" =>
         /\ job'[s].before = job[s].before /\ job'[s].prior = job[s].prior
         /\ job'[s].after = job[s].after /\ job'[s].step # "prepare" /\ job[s].step # "prepare"
  BY JobMoves
<1> QED BY <1>1, <1>2, <1>5, <1>6, <1>7, <1>8 DEF SoundAt, GoodEnv, GoodImage

\* So is what a switch begins with, and what was prepared for it.
LEMMA SwitchIsSound ==
    ASSUME Typed, Sound, NEW s \in Site,
           \/ \E p \in Series, c \in Image \cup {None} : BeginSwitch(s, p, c)
           \/ \E i \in Image : PrepareTarget(s, i)
    PROVE  SoundAt(s)'
<1>1. SoundAt(s) /\ UNCHANGED <<sites, staged>> /\ Permitted(s) \subseteq Permitted(s)'
      /\ accepted[s] \subseteq accepted'[s]
  BY PermittedGrows DEF Sound, SiteStep, BeginSwitch, PrepareTarget
<1>2. /\ GoodEnv(s, env[s])' /\ GoodImage(s, container[s])'
      /\ (record[s] # NoRecord => GoodImage(s, record[s].ref))'
      /\ (staged[s] # NoStage => GoodEnv(s, staged[s].from) /\ GoodEnv(s, staged[s].to))'
  BY <1>1 DEF SoundAt, GoodEnv, GoodImage, sites
<1>3. ASSUME NEW p \in Series, NEW c \in Image \cup {None}, BeginSwitch(s, p, c)
      PROVE  SoundAt(s)'
  <2>1. job'[s] = [step |-> "prepare", before |-> env[s], after |-> [series |-> p, ref |-> c],
                   prior |-> Prior(s), ran |-> container[s]]
    BY <1>3, BeginSwitchTyped
  <2>2. p \in Legacy => c \in accepted'[s]
    BY <1>3 DEF BeginSwitch, Typed, SitesOk
  <2>3. PICK i \in Image : i = Prior(s) /\ Adopt(s, i)
    BY <1>3, PriorIsBuilt DEF BeginSwitch, Typed, ImagesOk
  <2>6. (SeriesOf[i] \in Legacy => i \in Permitted(s)') /\ GoodEnv(s, env[s])
    BY <1>1, <2>3, PriorIsGood DEF SoundAt
  <2>4. /\ job'[s].step = "prepare" /\ job'[s].before = env[s] /\ job'[s].prior = i
        /\ job'[s].after.series = p /\ job'[s].after.ref = c
    BY <2>1, <2>3
  <2>5. GoodEnv(s, job[s].before)' /\ GoodImage(s, job[s].prior)'
    BY <1>1, <2>4, <2>6 DEF GoodEnv, GoodImage
  <2> QED BY <1>2, <2>2, <2>4, <2>5 DEF SoundAt
<1>4. ASSUME NEW i \in Image, PrepareTarget(s, i)
      PROVE  SoundAt(s)'
  <2>1. /\ job[s].step = "prepare" /\ SeriesOf[i] = job[s].after.series
        /\ job'[s].step = "record" /\ job'[s].before = job[s].before
        /\ job'[s].prior = job[s].prior /\ job'[s].after.ref = i
    BY <1>4, PrepareTargetTyped
  <2>2. job[s].after.series \in Legacy => job[s].after.ref = i
    BY <1>4, <2>1 DEF PrepareTarget, AsAccepted, AcceptsImage, Report
  <2>3. GoodImage(s, i)
    BY <1>1, <2>1, <2>2 DEF SoundAt, GoodImage, Permitted
  <2>4. (GoodEnv(s, job[s].before) /\ GoodImage(s, job[s].prior) /\ GoodImage(s, job[s].after.ref))'
    BY <1>1, <2>1, <2>3 DEF SoundAt, GoodEnv, GoodImage
  <2> QED BY <1>2, <2>1, <2>4 DEF SoundAt
<1> QED BY <1>3, <1>4

\* A rollback goes to what the record names, and back to what it has read.
LEMMA RollbackIsSound ==
    ASSUME Typed, Sound, NEW s \in Site, BeginRollback(s)
    PROVE  SoundAt(s)'
<1>1. /\ SoundAt(s) /\ UNCHANGED <<container, record, staged>> /\ Permitted(s) \subseteq Permitted(s)'
  BY PermittedGrows DEF Sound, SiteStep, BeginRollback
<1>2. /\ GoodImage(s, container[s])' /\ (record[s] # NoRecord => GoodImage(s, record[s].ref))'
      /\ (staged[s] # NoStage => GoodEnv(s, staged[s].from) /\ GoodEnv(s, staged[s].to))'
  BY <1>1 DEF SoundAt, GoodEnv, GoodImage
<1>3. /\ env'[s].ref = record[s].ref /\ record[s] # NoRecord /\ record[s].ref \in Image
      /\ None \notin Image
  <2>1. env'[s] = [series |-> record[s].series, ref |-> record[s].ref]
    BY BeginRollbackTyped
  <2>2. record[s] # NoRecord /\ record[s].ref \in Image
    BY BeginRollbackTyped
  <2> QED BY <2>1, <2>2, ConstantAssumption
<1>4. GoodImage(s, record[s].ref)
  BY <1>1, <1>3 DEF SoundAt
<1>5. GoodEnv(s, env[s])'
  BY <1>1, <1>3, <1>4 DEF GoodEnv, GoodImage
<1>6. CASE job'[s].step = "idle"
  BY <1>2, <1>5, <1>6 DEF SoundAt
<1>7. CASE /\ job'[s].step = "up" /\ job'[s].before = env[s] /\ job'[s].prior = None
           /\ job'[s].after.ref = record[s].ref
  <2>1. (GoodEnv(s, job[s].before) /\ GoodImage(s, job[s].prior) /\ GoodImage(s, job[s].after.ref))'
    BY <1>1, <1>3, <1>4, <1>7 DEF SoundAt, GoodEnv, GoodImage
  <2> QED BY <1>2, <1>3, <1>5, <1>7, <2>1 DEF SoundAt
<1> QED BY <1>6, <1>7, BeginRollbackTyped

\* A core update writes what it has read, or the image that it found.
LEMMA UpdateIsSound ==
    ASSUME Typed, Sound, NEW s \in Site,
           StageSite(s) \/ WriteStaged(s) \/ PutBack(s) \/ DropStaged(s)
    PROVE  SoundAt(s)'
<1>1. /\ SoundAt(s) /\ UNCHANGED <<container, record, job, accepted>>
      /\ Permitted(s) \subseteq Permitted(s)'
  BY PermittedGrows
     DEF Sound, SiteStep, StageSite, WriteStaged, PutBack, DropStaged, sites, consents
<1>2. CASE StageSite(s)
  <2>1. env' = env /\ staged'[s].from = env[s] /\ GoodEnv(s, env[s])
    BY <1>1, <1>2, StageTyped DEF sites, SoundAt
  <2>2. GoodEnv(s, staged[s].to)'
    <3>1. CASE staged'[s].to = env[s]
      BY <1>1, <2>1, <3>1 DEF GoodEnv, GoodImage
    <3>2. CASE staged'[s].to.ref = Prior(s) /\ Prior(s) \in Image /\ Adopt(s, Prior(s))
      <4>1. PICK i \in Image : i = Prior(s)
        BY <3>2
      <4>2. SeriesOf[i] \in Legacy => i \in Permitted(s)'
        BY <1>1, <3>2, <4>1, PriorIsGood
      <4>3. staged'[s].to.ref = i
        BY <3>2, <4>1
      <4> QED BY <4>2, <4>3 DEF GoodEnv, GoodImage
    <3> QED BY <1>2, <3>1, <3>2, StageTyped
  <2> QED BY <1>1, <2>1, <2>2 DEF SoundAt, GoodEnv, GoodImage
<1>3. CASE WriteStaged(s) \/ PutBack(s) \/ DropStaged(s)
  <2>1. /\ GoodEnv(s, staged[s].from) /\ GoodEnv(s, staged[s].to) /\ GoodEnv(s, env'[s])
        /\ \/ staged'[s] = NoStage
           \/ staged'[s].from = staged[s].from /\ staged'[s].to = staged[s].to
    BY <1>1, <1>3, UnstageTyped DEF SoundAt
  <2> QED BY <1>1, <2>1 DEF SoundAt, GoodEnv, GoodImage
<1> QED BY <1>2, <1>3

\* Up runs what is selected.
LEMMA SiteIsSound ==
    ASSUME Typed, Sound, NEW s \in Site, Up(s) \/ Down(s) \/ \E i \in Image : Expire(s, i)
    PROVE  SoundAt(s)'
<1>1. /\ SoundAt(s) /\ UNCHANGED <<env, record, job, staged, accepted>> /\ None \notin Image
      /\ Permitted(s) \subseteq Permitted(s)'
  BY ConstantAssumption, SiteTyped, PermittedGrows DEF Sound, SiteStep
<1>2. GoodImage(s, container[s])'
  <2>1. CASE Compose(s)
    BY <1>1, <2>1, ComposeIsGood DEF SoundAt
  <2>2. CASE container' = container \/ container' = [container EXCEPT ![s] = None]
    BY <1>1, <2>2 DEF Typed, SitesOk, SoundAt, GoodImage
  <2> QED BY <2>1, <2>2 DEF Up, Down, Expire
<1> QED BY <1>1, <1>2 DEF SoundAt, GoodEnv, GoodImage

\* Everything that may be written to an .env is good, after every step.
LEMMA SoundKept ==
    ASSUME Typed, Sound, [Next]_vars
    PROVE  Sound'
<1> SUFFICES ASSUME NEW s \in Site PROVE SoundAt(s)'
  BY DEF Sound
<1>1. CASE SiteStep(s)
  BY <1>1, JobIsSound, SwitchIsSound, RollbackIsSound, UpdateIsSound, SiteIsSound DEF SiteStep
<1>2. CASE Rests(s)
  BY <1>2, SoundRests
<1> QED BY <1>1, <1>2, Steps, OthersRest, ElsewhereRests

-----------------------------------------------------------------------------
(* What is not deleted *)

\* What is available compose finds.
LEMMA AvailableIsSelected ==
    ASSUME Typed, NEW e
    PROVE  Available(e) => Selected(e) # None
<1>1. None \notin tagged
  BY ConstantAssumption DEF Typed, ImagesOk
<1> QED BY <1>1, Selects DEF Available

\* Tags are only added.
Grows == tagged \subseteq tagged' /\ \A p \in Series : alias[p] # None => alias'[p] # None

\* Then what an .env selects stays available.
LEMMA StaysAvailable ==
    ASSUME Grows, NEW e \in Env, Available(e)
    PROVE  Available(e)'
BY DEF Grows, Available, Env

\* A prepared image has its immutable tag.
LEMMA PreparationGrows ==
    ASSUME Typed, NEW p \in Series, NEW i \in Image, Prepare(p, i)
    PROVE  Grows /\ i \in tagged'
<1>1. tagged' = tagged \cup {i} /\ (alias' = alias \/ alias' = [alias EXCEPT ![p] = i]) /\ i # None
  BY ConstantAssumption DEF Prepare, Preserve, Reuse, Build
<1> QED BY <1>1 DEF Grows, Typed, ImagesOk

\* Only deletions take tags away.
LEMMA StepsGrow ==
    ASSUME Typed, [Next]_vars, ~DeleteStep
    PROVE  Grows
<1>1. CASE alias' = alias /\ tagged \subseteq tagged'
  BY <1>1 DEF Grows
<1>2. ASSUME NEW s \in Site, SiteStep(s), ~ \E i \in Image : PrepareTarget(s, i)
      PROVE  alias' = alias /\ tagged \subseteq tagged'
  BY <1>2 DEF SiteStep, JobStepOf, BeginSwitch, BeginRollback, StageSite, WriteStaged,
              DropStaged, Up, Down, Expire, PutBack, WriteOver, Retain, Remember, Backup,
              SelectTarget, Recreate, Healthy, SiteReady, FailEarly, FailStarted, Undo, Abandon,
              images, Preserve
<1>3. ASSUME NEW s \in Site, NEW i \in Image, PrepareTarget(s, i) PROVE Grows
  <2>1. job[s].after.series \in Series
    BY <1>3, PrepareTargetTyped DEF Env
  <2> QED BY <1>3, <2>1, PreparationGrows DEF PrepareTarget
<1>4. ASSUME NEW p \in Series, NEW i \in Image, Refresh(p, i) \/ PrepareNew(p, i) PROVE Grows
  <2>1. Prepare(p, i)
    BY <1>4 DEF Refresh, PrepareNew, Prepare
  <2> QED BY <2>1, PreparationGrows
<1>5. CASE UNCHANGED vars
  BY <1>1, <1>5 DEF vars, images
<1> QED BY <1>1, <1>2, <1>3, <1>4, <1>5, Steps

\* While a tag is about to be deleted, no file is written without a race.
LEMMA FilesRest ==
    ASSUME Typed, [Next]_vars, ~raced', gc # None
    PROVE  /\ UNCHANGED <<env, record>> /\ \A s \in Site : kept'[s] \subseteq kept[s]
           /\ gc' = gc \/ gc' = None
<1>1. ASSUME NEW s \in Site, SiteStep(s)
      PROVE  UNCHANGED <<env, record, gc>> /\ \A t \in Site : kept'[t] \subseteq kept[t]
  <2>1. UNCHANGED <<env, record, gc>>
    BY <1>1 DEF SiteStep, JobStepOf, BeginSwitch, PrepareTarget, BeginRollback, StageSite,
                WriteStaged, DropStaged, Up, Down, Expire, PutBack, WriteOver, Retain, Remember,
                Backup, SelectTarget, Recreate, Healthy, SiteReady, FailEarly, FailStarted, Undo,
                Abandon, sites, WriteEnv
  <2>2. kept' = kept \/ \E i \in Image : kept' = [kept EXCEPT ![s] = kept[s] \ {i}]
    BY <1>1 DEF SiteStep, JobStepOf, BeginSwitch, PrepareTarget, BeginRollback, StageSite,
                WriteStaged, DropStaged, Up, Down, Expire, PutBack, WriteOver, Retain, Remember,
                Backup, SelectTarget, Recreate, Healthy, SiteReady, FailEarly, FailStarted, Undo,
                Abandon, sites, WriteEnv
  <2> QED BY <2>1, <2>2 DEF Typed, SitesOk
<1>2. CASE \E p \in Series, i \in Image : Refresh(p, i) \/ PrepareNew(p, i)
  BY <1>2 DEF Refresh, PrepareNew, sites
<1>3. CASE DeleteStep
  BY <1>3 DEF DeleteStep, ChooseUnused, CannotDelete, DeleteImmutable, DeleteAlias, sites
<1>4. CASE UNCHANGED vars
  BY <1>4 DEF vars, sites
<1> QED BY <1>1, <1>2, <1>3, <1>4, Steps

\* Nothing undoes a race.
LEMMA NotRacedBefore == ASSUME [Next]_vars, ~raced' PROVE ~raced
BY Races

\* A tag is chosen when nothing refers to it, and nothing does later.
LEMMA UnusedKept ==
    ASSUME Typed, Held, [Next]_vars, ~raced'
    PROVE  Unused'
<1>1. Unused /\ None \notin Image \cup Series /\ Image \cap Series = {} /\ tagged \subseteq Image
  BY NotRacedBefore, ConstantAssumption DEF Held, Typed, ImagesOk
<1>2. CASE gc # None
  <2>1. CASE gc' = gc
    <3>1. References' \subseteq References /\ FloatingReferences' = FloatingReferences
      BY <1>2, FilesRest DEF References, FloatingReferences
    <3> QED BY <1>1, <2>1, <3>1 DEF Unused
  <2>2. CASE gc' = None
    BY <1>1, <2>2 DEF Unused
  <2> QED BY <1>2, <2>1, <2>2, FilesRest
<1>3. CASE gc' = None
  BY <1>1, <1>3 DEF Unused
<1>4. CASE gc = None /\ gc' # None
  <2>1. PICK tag \in Image \cup Series : ChooseUnused(tag)
    <3>1. ASSUME NEW s \in Site, SiteStep(s) PROVE gc' = gc
      BY <3>1 DEF SiteStep, JobStepOf, BeginSwitch, PrepareTarget, BeginRollback, StageSite,
                  WriteStaged, DropStaged, Up, Down, Expire, PutBack, WriteOver, Retain,
                  Remember, Backup, SelectTarget, Recreate, Healthy, SiteReady, FailEarly,
                  FailStarted, Undo, Abandon
    <3>2. ASSUME NEW p \in Series, NEW i \in Image, Refresh(p, i) \/ PrepareNew(p, i)
          PROVE gc' = gc
      BY <3>2 DEF Refresh, PrepareNew
    <3>3. CASE DeleteStep
      BY <1>4, <3>3 DEF DeleteStep, CannotDelete, DeleteImmutable, DeleteAlias
    <3> QED BY <1>4, <3>1, <3>2, <3>3, Steps DEF vars
  <2>2. /\ gc' = tag /\ UNCHANGED <<env, record, kept>>
        /\ tag \in tagged \ References \/ tag \in Series \ FloatingReferences
    BY <2>1 DEF ChooseUnused, sites
  <2>3. References' = References /\ FloatingReferences' = FloatingReferences
    BY <2>2 DEF References, FloatingReferences
  <2> QED BY <1>1, <2>2, <2>3 DEF Unused
<1> QED BY <1>2, <1>3, <1>4

\* A site that rests keeps what it has while tags are only added.
LEMMA HeldRests ==
    ASSUME Typed, NEW s \in Site, HeldAt(s), Rests(s), Grows
    PROVE  HeldAt(s)'
<1>1. env[s] \in Env /\ (staged[s] # NoStage => staged[s].from \in Env /\ staged[s].to \in Env)
      /\ (job[s].step # "idle" => job[s].before \in Env)
  BY DEF Typed, SitesOk, JobsOk, StageRow
<1>2. Available(env[s])'
  BY <1>1, StaysAvailable DEF HeldAt, Rests, Available, Grows, Env
<1>3. (staged[s] # NoStage => Available(staged[s].from) /\ Available(staged[s].to))'
  BY <1>1 DEF HeldAt, Rests, Available, Grows, Env
<1>4. job[s].step # "idle" /\ Available(job[s].before) => Available(job[s].before)'
  BY <1>1 DEF Rests, Available, Grows, Env
<1> QED BY <1>2, <1>3, <1>4 DEF HeldAt, Rests, Grows

\* A deletion takes no tag that a file names, and races with whoever holds another.
LEMMA HeldWhenDeleting ==
    ASSUME Typed, Unused, NEW s \in Site, HeldAt(s), DeleteStep, ~raced'
    PROVE  HeldAt(s)'
<1>1. /\ Rests(s) /\ env[s] \in Env
      /\ (record[s] # NoRecord => record[s].ref \in Image)
  BY ElsewhereRests DEF Typed, SitesOk, RecordRow
<1>2. CASE UNCHANGED images
  <2>1. Grows
    BY <1>2 DEF images, Grows
  <2> QED BY <1>1, <2>1, HeldRests
<1>3. ASSUME ~Unnamed
      PROVE  /\ staged[s] = NoStage
             /\ job[s].step \notin {"prepare", "record", "history", "backup", "write"}
             /\ job[s].step \in {"up", "check", "ready"} => job[s].prior # None
  BY <1>3 DEF Unnamed
<1>4. ASSUME NEW i \in Image, DeleteImmutable(i) PROVE HeldAt(s)'
  <2>1. gc = i /\ tagged' = tagged \ {i} /\ alias' = alias /\ ~Unnamed
    BY <1>4 DEF DeleteImmutable
  <2>2. env[s].ref # i /\ record[s].ref # i
    BY <2>1 DEF Unused, References
  <2>3. Available(env[s])' /\ (record[s] # NoRecord => record[s].ref \in tagged)'
    BY <1>1, <2>1, <2>2 DEF Rests, HeldAt, Available
  <2> QED BY <1>1, <1>3, <2>1, <2>3 DEF HeldAt, Rests
<1>5. ASSUME NEW p \in Series, DeleteAlias(p) PROVE HeldAt(s)'
  <2>1. gc = p /\ tagged' = tagged /\ alias' = [alias EXCEPT ![p] = None] /\ ~Unnamed
    BY <1>5 DEF DeleteAlias
  <2>2. env[s].ref = None => env[s].series # p
    BY <2>1 DEF Unused, FloatingReferences
  <2>3. env[s].series \in Series /\ alias \in [Series -> built \cup {None}]
    BY <1>1 DEF Env, Typed, ImagesOk
  <2>4. Available(env[s])' /\ (record[s] # NoRecord => record[s].ref \in tagged)'
    BY <1>1, <2>1, <2>2, <2>3 DEF Rests, HeldAt, Available
  <2> QED BY <1>1, <1>3, <2>1, <2>4 DEF HeldAt, Rests
<1> QED BY <1>2, <1>4, <1>5 DEF DeleteStep, ChooseUnused, CannotDelete

\* What a switch finds is tagged before anything else happens.
LEMMA HeldWhenSwitching ==
    ASSUME Typed, NEW s \in Site, HeldAt(s), Grows,
           \/ \E p \in Series, c \in Image \cup {None} : BeginSwitch(s, p, c)
           \/ \E i \in Image : PrepareTarget(s, i)
    PROVE  HeldAt(s)'
<1>1. UNCHANGED <<env, record, staged>>
  BY DEF BeginSwitch, PrepareTarget, sites
<1>2. /\ env[s] \in Env /\ (staged[s] # NoStage => staged[s].from \in Env /\ staged[s].to \in Env)
      /\ (job[s].step # "idle" => job[s].before \in Env)
  BY DEF Typed, SitesOk, JobsOk, StageRow
<1>3. /\ Available(env[s])' /\ (record[s] # NoRecord => record[s].ref \in tagged)'
      /\ (staged[s] # NoStage => Available(staged[s].from) /\ Available(staged[s].to))'
  BY <1>1, <1>2 DEF HeldAt, Available, Grows, Env
<1>4. ASSUME NEW p \in Series, NEW c \in Image \cup {None}, BeginSwitch(s, p, c) PROVE HeldAt(s)'
  <2>1. job'[s] = [step |-> "prepare", before |-> env[s], after |-> [series |-> p, ref |-> c],
                   prior |-> Prior(s), ran |-> container[s]]
    BY <1>4, BeginSwitchTyped
  <2>2. job'[s].step = "prepare" /\ job'[s].before = env[s] /\ job'[s].prior = Prior(s)
    BY <2>1
  <2>3. Prior(s) \in tagged'
    BY <1>4 DEF BeginSwitch, Preserve
  <2>4. Available(job[s].before)'
    BY <1>1, <1>3, <2>2 DEF Available
  <2> QED BY <1>3, <2>2, <2>3, <2>4 DEF HeldAt
<1>5. ASSUME NEW i \in Image, PrepareTarget(s, i) PROVE HeldAt(s)'
  <2>1. /\ job[s].step = "prepare" /\ job'[s].step = "record" /\ job'[s].before = job[s].before
        /\ job'[s].prior = job[s].prior /\ job'[s].after.ref = i
    BY <1>5, PrepareTargetTyped
  <2>2. i \in tagged'
    BY <1>5 DEF PrepareTarget, Prepare, Preserve
  <2>3. job[s].prior \in tagged' /\ Available(job[s].before)'
    BY <1>2, <2>1 DEF HeldAt, Available, Grows, Env
  <2> QED BY <1>3, <2>1, <2>2, <2>3 DEF HeldAt
<1> QED BY <1>4, <1>5

\* The record names what an undo needs before the .env names anything else.
LEMMA HeldInJob ==
    ASSUME Typed, NEW s \in Site, HeldAt(s), JobStepOf(s)
    PROVE  HeldAt(s)'
<1>1. UNCHANGED <<images, staged>> /\ None \notin tagged /\ tagged \subseteq Image
  BY ConstantAssumption
     DEF JobStepOf, Retain, Remember, Backup, SelectTarget, Recreate, Healthy, SiteReady,
         FailEarly, FailStarted, Undo, Abandon, Typed, ImagesOk
<1>2. (staged[s] # NoStage => Available(staged[s].from) /\ Available(staged[s].to))'
  BY <1>1 DEF HeldAt, Available, images
<1>3. /\ job[s].step # "idle" /\ job[s].before \in Env /\ job[s].prior \in Image \cup {None}
      /\ job[s].step \in {"prepare", "record", "history", "backup", "write"}
             => job[s].prior # None
      /\ env \in [Site -> Env] /\ record \in [Site -> RecordRow \cup {NoRecord}]
  BY JobMoves DEF Typed, SitesOk, JobsOk, ImagesOk
<1>4. \/ job'[s].step = "idle"
      \/ /\ job'[s].before = job[s].before /\ job'[s].after = job[s].after
         /\ job'[s].prior = job[s].prior
         /\ \/ job[s].step = "record" /\ job'[s].step = "history"
            \/ job[s].step \in {"history", "backup"} /\ job'[s].step \in {"backup", "write"}
            \/ job[s].step = "write" /\ job'[s].step = "up"
            \/ /\ job[s].step \in {"up", "check", "ready"}
               /\ job'[s].step \in {"check", "ready", "undo"}
  BY JobMoves
<1>5. CASE Retain(s)
  <2>1. /\ job[s].step = "record" /\ env' = env
        /\ record' = [record EXCEPT ![s] = [ref |-> job[s].prior, series |-> job[s].before.series]]
    BY <1>5 DEF Retain, At
  <2>2. record'[s].ref = job[s].prior /\ record'[s] # NoRecord /\ job[s].prior \in tagged
    BY <1>3, <2>1 DEF NoRecord, HeldAt
  <2> QED BY <1>1, <1>2, <1>4, <2>1, <2>2 DEF HeldAt, Available, images
<1>6. CASE ~Retain(s)
  <2>1. record' = record
    BY <1>6 DEF JobStepOf, Remember, Backup, SelectTarget, Recreate, Healthy, SiteReady,
                FailEarly, FailStarted, Undo, Abandon, sites
  <2>2. \/ env' = env
        \/ /\ job[s].step = "write" /\ env' = [env EXCEPT ![s] = job[s].after]
        \/ /\ job[s].step \in {"record", "history", "backup", "write"}
           /\ env' = [env EXCEPT ![s] = job[s].before]
        \/ /\ job[s].step \in {"up", "check", "ready"} /\ env' = [env EXCEPT ![s] = UndoTo(s)]
    BY <1>6 DEF JobStepOf, Remember, Backup, SelectTarget, Recreate, Healthy, SiteReady,
                FailEarly, FailStarted, Undo, Abandon, sites, WriteEnv, At
  <2>3. job[s].step \in {"up", "check", "ready"} => Available(UndoTo(s))
    <3>1. CASE job[s].prior = None
      BY <3>1 DEF UndoTo, HeldAt
    <3>2. CASE job[s].prior # None
      <4>1. UndoTo(s).ref = job[s].prior
        BY <1>3, <3>2, EnvWith DEF UndoTo
      <4> QED BY <3>2, <4>1 DEF HeldAt, Available
    <3> QED BY <3>1, <3>2
  <2>4. job[s].step = "write" => Available(job[s].after)
    BY <1>1 DEF HeldAt, Available
  <2>5. job[s].step \in {"record", "history", "backup", "write"} => Available(job[s].before)
    BY DEF HeldAt
  <2>6. Available(env'[s])
    BY <1>3, <2>2, <2>3, <2>4, <2>5 DEF HeldAt
  <2>7. Available(env[s])'
    BY <1>1, <2>6 DEF Available, images
  <2>8. job[s].step # "record" \/ job'[s].step = "idle"
    <3>1. CASE FailEarly(s) \/ Abandon(s)
      BY <3>1, Ended DEF FailEarly, Abandon, Typed, JobsOk
    <3>2. CASE ~FailEarly(s) /\ ~Abandon(s)
      BY <1>6, <3>2 DEF JobStepOf, Remember, Backup, SelectTarget, Recreate, Healthy, SiteReady,
             FailStarted, Undo, At
    <3> QED BY <3>1, <3>2
  <2> QED BY <1>1, <1>2, <1>3, <1>4, <2>1, <2>7, <2>8 DEF HeldAt, Available, images
<1> QED BY <1>5, <1>6

\* A rollback selects what has its tag, and holds what it may go back to.
LEMMA HeldInRollback ==
    ASSUME Typed, NEW s \in Site, HeldAt(s), BeginRollback(s)
    PROVE  HeldAt(s)'
<1>1. UNCHANGED <<images, record, staged>> /\ record[s].ref \in tagged /\ None \notin tagged
  BY ConstantAssumption DEF BeginRollback, Typed, ImagesOk
<1>2. env'[s].ref = record[s].ref
  <2>1. env'[s] = [series |-> record[s].series, ref |-> record[s].ref]
    BY BeginRollbackTyped
  <2> QED BY <2>1
<1>3. Available(env[s])'
  BY <1>1, <1>2 DEF Available, images
<1>4. (staged[s] # NoStage => Available(staged[s].from) /\ Available(staged[s].to))'
  BY <1>1 DEF HeldAt, Available, images
<1>5. CASE job'[s].step = "idle"
  BY <1>1, <1>3, <1>4, <1>5 DEF HeldAt, images
<1>6. CASE job'[s].step = "up" /\ job'[s].before = env[s] /\ job'[s].prior = None
  <2>1. Available(job[s].before)'
    BY <1>1, <1>6 DEF HeldAt, Available, images
  <2> QED BY <1>1, <1>3, <1>4, <1>6, <2>1 DEF HeldAt, images
<1> QED BY <1>5, <1>6, BeginRollbackTyped

\* A core update tags what it will write.
LEMMA HeldInUpdate ==
    ASSUME Typed, NEW s \in Site, HeldAt(s), Grows,
           StageSite(s) \/ WriteStaged(s) \/ PutBack(s) \/ DropStaged(s)
    PROVE  HeldAt(s)'
<1>1. /\ UNCHANGED <<record, job>> /\ None \notin tagged /\ None \notin Image
      /\ env[s] \in Env /\ (staged[s] # NoStage => staged[s].from \in Env /\ staged[s].to \in Env)
      /\ (job[s].step # "idle" => job[s].before \in Env)
  BY ConstantAssumption
     DEF StageSite, WriteStaged, PutBack, DropStaged, Typed, ImagesOk, SitesOk, JobsOk, StageRow,
         sites
<1>2. job[s].step # "idle" /\ Available(job[s].before) => Available(job[s].before)'
  BY <1>1 DEF Available, Grows, Env
<1>3. (Available(env[s]) /\ (staged[s] # NoStage => Available(staged[s].from)
                                                  /\ Available(staged[s].to)))'
  <2>1. CASE StageSite(s)
    <3>1. /\ UNCHANGED <<alias, env>> /\ staged'[s].from = env[s]
          /\ \/ staged'[s].to = env[s]
             \/ staged'[s].to.ref = Prior(s) /\ Prior(s) \in Image /\ Prior(s) \in tagged'
      BY <2>1, StageTyped DEF sites
    <3>2. Available(env[s])'
      BY <1>1, <3>1 DEF HeldAt, Available, Grows, Env
    <3>3. Available(staged[s].from)' /\ Available(staged[s].to)'
      BY <1>1, <3>1, <3>2 DEF Available
    <3> QED BY <3>2, <3>3
  <2>2. CASE WriteStaged(s) \/ PutBack(s) \/ DropStaged(s)
    <3>1. /\ UNCHANGED images /\ staged[s] # NoStage
          /\ \/ staged'[s] = NoStage
             \/ staged'[s].from = staged[s].from /\ staged'[s].to = staged[s].to
          /\ env'[s] \in {env[s], staged[s].from, staged[s].to}
      BY <2>2, UnstageTyped
    <3> QED BY <3>1 DEF HeldAt, Available, images
  <2> QED BY <2>1, <2>2
<1> QED BY <1>1, <1>2, <1>3 DEF HeldAt, Grows

\* Up, Down and an expiry change no reference that is held.
LEMMA HeldUpAndDown ==
    ASSUME Typed, NEW s \in Site, HeldAt(s), Up(s) \/ Down(s) \/ \E i \in Image : Expire(s, i)
    PROVE  HeldAt(s)'
BY SiteTyped DEF HeldAt, Available, images

\* What is held stays tagged in every step, unless that step races.
LEMMA HeldKept ==
    ASSUME Typed, Held, [Next]_vars
    PROVE  Held'
<1> SUFFICES ASSUME ~raced', NEW s \in Site PROVE HeldAt(s)'
  BY UnusedKept DEF Held
<1>1. Unused /\ HeldAt(s)
  BY NotRacedBefore DEF Held
<1>2. CASE DeleteStep
  BY <1>1, <1>2, HeldWhenDeleting
<1>3. CASE ~DeleteStep /\ SiteStep(s)
  BY <1>1, <1>3, StepsGrow, HeldWhenSwitching, HeldInJob, HeldInRollback, HeldInUpdate,
     HeldUpAndDown DEF SiteStep
<1>4. CASE ~DeleteStep /\ Rests(s)
  BY <1>1, <1>4, StepsGrow, HeldRests
<1> QED BY <1>2, <1>3, <1>4, Steps, OthersRest, ElsewhereRests

-----------------------------------------------------------------------------
(* Theorems *)

\* The invariant holds at first ...
LEMMA InitInv == Init => IInv
<1> SUFFICES ASSUME Init PROVE IInv
  OBVIOUS
<1>1. Typed
  BY InitTyped
<1>2. \A s \in Site : /\ env[s] \in Env /\ env[s].ref = None /\ record[s] = NoRecord
                      /\ staged[s] = NoStage /\ job[s].step = "idle"
  BY NoJobRow, ConstantAssumption DEF Init, Env
<1>3. \A s \in Site : container[s] \in {First[env[s].series], None}
  BY DEF Init
<1>4. None \notin Image /\ \A p \in Series : SeriesOf[First[p]] = p /\ First[p] \in Image
  BY ConstantAssumption
<1>5. Sound
  <2> SUFFICES ASSUME NEW s \in Site PROVE SoundAt(s)
    BY DEF Sound
  <2>1. adopted[s] = {container[s]} \ {None}
    BY DEF Init
  <2> QED BY <1>2, <1>4, <2>1 DEF SoundAt, GoodEnv, GoodImage, Permitted
<1>6. Same
  BY <1>2 DEF Same, SameAt
<1>7. Held
  <2>1. gc = None /\ alias = First
    BY DEF Init
  <2>2. Unused
    BY <2>1, ConstantAssumption DEF Unused
  <2>3. ASSUME NEW s \in Site PROVE HeldAt(s)
    <3>1. alias[env[s].series] # None
      BY <1>2, <1>4, <2>1 DEF Env
    <3> QED BY <1>2, <3>1 DEF HeldAt, Available
  <2> QED BY <2>2, <2>3 DEF Held
<1> QED BY <1>1, <1>5, <1>6, <1>7 DEF IInv

\* ... and in every step ...
LEMMA NextInv == IInv /\ [Next]_vars => IInv'
BY NextTyped, SoundKept, SameKept, HeldKept DEF IInv

\* ... and so always.
THEOREM Inductive == Spec => []IInv
BY InitInv, NextInv, PTL DEF Spec

\* Tags, files and jobs have their types, and a floating tag is on an image of
\* its series.
THEOREM TypeCorrect == Spec => []TypeOK
<1>1. IInv => TypeOK
  BY TypedIsTypeOK DEF IInv
<1> QED BY <1>1, Inductive, PTL

\* A legacy image comes to a site's .env, by a switch, its failure, a rollback or a
\* core update, in any order, only after a person accepted this very image for the
\* site, or after the floating tag gave it to the site while its .env named none.
THEOREM LegacyAccepted == Spec => []LegacyIsAccepted
<1>1. IInv => LegacyIsAccepted
  BY DEF IInv, Typed, SitesOk, Sound, SoundAt, GoodEnv, GoodImage, Permitted,
     LegacyIsAccepted, Env
<1> QED BY <1>1, Inductive, PTL

\* As long as no deletion has overlapped a switch or a core update, the image that
\* a site selects and the one it can be rolled back to have their tags.
THEOREM SelectedKept == Spec => []SelectedIsKept
<1>1. IInv => SelectedIsKept
  BY AvailableIsSelected DEF IInv, Held, HeldAt, SelectedIsKept
<1> QED BY <1>1, Inductive, PTL

\* The undo of a switch that had started PHP ends on the image that ran before.
THEOREM UndoRestores == Spec => UndoBringsBack
<1>1. IInv /\ [Next]_vars =>
        [\A s \in Site : Undo(s) /\ job[s].prior # None /\ env[s] = UndoTo(s)
                         => container'[s] = job[s].ran]_vars
  <2> SUFFICES ASSUME IInv, NEW s \in Site, Undo(s), job[s].prior # None, env[s] = UndoTo(s)
               PROVE  container'[s] = job[s].ran
    OBVIOUS
  <2>1. Typed /\ SameAt(s) /\ job[s].step = "undo"
    BY DEF IInv, Same, Undo, At
  <2>2. job[s].prior = job[s].ran
    BY <2>1 DEF SameAt
  <2>3. env[s].ref = job[s].prior
    <3>1. job[s].before \in Env /\ job[s].prior \in Image \cup {None}
      BY <2>1 DEF Typed, JobsOk, ImagesOk
    <3> QED BY <3>1, EnvWith DEF UndoTo
  <2>4. Selected(env[s]) = job[s].prior /\ container' = [container EXCEPT ![s] = Selected(env[s])]
    BY <2>1, <2>3, Selects DEF Undo, Compose
  <2> QED BY <2>1, <2>2, <2>4 DEF Typed, SitesOk
<1> QED BY <1>1, Inductive, PTL DEF Spec, UndoBringsBack

================================================================================
