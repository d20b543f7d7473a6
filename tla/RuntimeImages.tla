---------------------------- MODULE RuntimeImages ----------------------------
(***************************************************************************)
(* PHP images and the sites that select them: preparing an image, the      *)
(* switch of a site to another one, the rollback to the image it had, and  *)
(* the deletion of images nobody refers to.                                *)
(*                                                                         *)
(* An image has an immutable tag made from its identity and may have the   *)
(* floating tag (alias) of its series.  Switches and rollbacks of a site   *)
(* exclude each other (flock); preparations of an alias do too, and one is *)
(* a single step here.  Deletions take no lock.                            *)
(***************************************************************************)
EXTENDS Naturals

CONSTANTS
    Site,
    Series,    \* PHP versions with their WordPress version
    Legacy,    \* those whose images a person has to accept one by one
    Image,     \* identities of images
    SeriesOf,  \* what each image was built for
    Patched,   \* images whose PHP and system are verified to have the fixes
    First,     \* the image each series has at the beginning
    None

ASSUME ConstantAssumption ==
    /\ Legacy \subseteq Series /\ None \notin Image \cup Series /\ Image \cap Series = {}
    /\ SeriesOf \in [Image -> Series] /\ Patched \subseteq Image
    /\ First \in [Series -> Image] /\ \A p \in Series : SeriesOf[First[p]] = p

VARIABLES
    tagged,    \* images with their immutable tag
    alias,     \* the image with the floating tag of each series
    built,     \* images made so far
    env,       \* PHP_VERSION and PHP_IMAGE_REF of each site's .env
    container, \* the image of each site's running php container
    record,    \* runtime-rollback.json
    kept,      \* runtime-history.json: images retained for 14 days
    job,       \* the switch or rollback that holds a site's flock
    staged,    \* the .env a core update has read, the one it writes, and the
               \* one it believes is there
    gc,        \* the tag a deletion has found unused and will remove
    accepted,  \* history: legacy images a person accepted for each site
    adopted,   \* history: images each site had through a floating tag only,
               \* because its .env named none
    raced      \* history: a deletion ran while a job held an image that no
               \* file names yet, or with references older than a file, or
               \* a core update wrote over what it had not read

images == <<tagged, alias, built>>
sites == <<env, container, record, kept>>
consents == <<accepted, adopted>>
vars == <<images, sites, job, staged, gc, consents, raced>>

NoJob == [step |-> "idle", before |-> None, after |-> None, prior |-> None,
          ran |-> None]
NoStage == [from |-> None, to |-> None, seen |-> None]
NoRecord == [ref |-> None, series |-> None]
Env == [series : Series, ref : Image \cup {None}]

TypeOK ==
    /\ tagged \subseteq built /\ built \subseteq Image
    /\ alias \in [Series -> built \cup {None}]
    /\ \A p \in Series : alias[p] # None => SeriesOf[alias[p]] = p
    /\ env \in [Site -> Env]
    /\ container \in [Site -> built \cup {None}]
    /\ \A s \in Site :
          /\ record[s] = NoRecord \/ record[s] \in [ref : built, series : Series]
          /\ job[s].step \in {"idle", "prepare", "record", "history", "backup", "write",
                             "up", "check", "ready", "undo"}
          /\ job[s].step \in {"write", "up", "check", "ready", "undo"} =>
                 {job[s].before, job[s].after} \subseteq Env
    /\ \A s \in Site : staged[s] = NoStage \/ staged[s] \in [from : Env, to : Env, seen : Env]
    /\ kept \in [Site -> SUBSET built]
    /\ accepted \in [Site -> SUBSET Image] /\ adopted \in [Site -> SUBSET Image]
    /\ gc \in Image \cup Series \cup {None}
    /\ raced \in BOOLEAN

\* Sites begin without a reference of their own: they were made before there
\* were any, and run whatever image has the floating tag.  Nobody has accepted
\* any image by then.
Init ==
    /\ tagged = {}
    /\ alias = First
    /\ built = {First[p] : p \in Series}
    /\ env \in [Site -> [series : Series, ref : {None}]]
    /\ container \in {[s \in Site |-> First[env[s].series]], [s \in Site |-> None]}
    /\ record = [s \in Site |-> NoRecord]
    /\ kept = [s \in Site |-> {}]
    /\ job = [s \in Site |-> NoJob]
    /\ staged = [s \in Site |-> NoStage]
    /\ gc = None
    /\ accepted = [s \in Site |-> {}]
    /\ adopted = [s \in Site |-> {container[s]} \ {None}]
    /\ raced = FALSE

At(s, step) == job[s].step = step
Set(s, new) == job' = [job EXCEPT ![s] = new]
To(s, step) == Set(s, [job[s] EXCEPT !.step = step])
Done(s) == Set(s, NoJob)

\* What compose runs for an .env, None if no such tag is there.
Selected(e) ==
    CASE e.ref = None -> alias[e.series] [] e.ref \in tagged -> e.ref [] OTHER -> None

WriteEnv(s, e) ==
    /\ env' = [env EXCEPT ![s] = e]
    /\ raced' = (raced \/ gc # None)

\* Only remembers: without a reference a site has an image nobody was asked about.
Adopt(s, i) ==
    adopted' = [adopted EXCEPT ![s] = IF env[s].ref = None THEN @ \cup {i} ELSE @]

\* docker compose up --no-build: nothing happens without the image.
Compose(s) ==
    /\ Selected(env[s]) # None
    /\ container' = [container EXCEPT ![s] = Selected(env[s])]
    /\ Adopt(s, Selected(env[s]))

\* docker tag: an image gets the immutable tag of its identity.
Preserve(i) == tagged' = tagged \cup {i}

-----------------------------------------------------------------------------
(* Preparing images *)

Report(i) == [legacy |-> SeriesOf[i] \in Legacy, patched |-> i \in Patched]

\* A person accepts one image: unless it is patched and its PHP is maintained.
AcceptsImage(i, consent) == (Report(i).patched /\ ~Report(i).legacy) \/ consent = i

Reuse(p, i) ==
    /\ i = alias[p] /\ i # None /\ Report(i).patched
    /\ UNCHANGED <<alias, built>>

\* Mutant: the image of another version gets the tag.
BuildAny(p, i) ==
    /\ i \in Image \ built /\ Report(i).patched
    /\ built' = built \cup {i}
    /\ alias' = [alias EXCEPT ![p] = i]
\* A build is promoted when it is verified and its recipe has not changed.
Build(p, i) ==
    /\ i \in Image \ built /\ SeriesOf[i] = p /\ Report(i).patched
    /\ built' = built \cup {i}
    /\ alias' = [alias EXCEPT ![p] = i]

Prepare(p, i) ==
    /\ Reuse(p, i) \/ Build(p, i)
    /\ Preserve(i)

\* System -> Refresh always builds.
Refresh(p, i) ==
    /\ Build(p, i) /\ Preserve(i)
    /\ UNCHANGED <<sites, job, staged, gc, consents, raced>>

\* The image of a new site.
PrepareNew(p, i) ==
    /\ Prepare(p, i)
    /\ UNCHANGED <<sites, job, staged, gc, consents, raced>>

-----------------------------------------------------------------------------
(* Switch and rollback *)

\* Mutant: the tag is retained that the .env selects.
PriorSelected(s) == Selected(env[s])
Prior(s) == IF container[s] # None THEN container[s] ELSE Selected(env[s])

\* Legacy images are accepted by identity, first for the alias.  The image the
\* site has now is retained before anything can move a floating tag.
BeginSwitch(s, p, consent) ==
    LET prior == Prior(s) IN
    /\ At(s, "idle")
    /\ IF p \in Legacy THEN alias[p] # None /\ AcceptsImage(alias[p], consent)
                       ELSE consent = None
    /\ prior # None
    /\ Preserve(prior) /\ Adopt(s, prior)
    /\ accepted' = [accepted EXCEPT ![s] = IF p \in Legacy THEN @ \cup {consent} ELSE @]
    /\ Set(s, [step |-> "prepare", before |-> env[s],
               after |-> [series |-> p, ref |-> consent], prior |-> prior,
               ran |-> container[s]])
    /\ UNCHANGED <<alias, built, sites, staged, gc, raced>>

\* Mutant: what was prepared is not compared with what was accepted.
AnyOf(s, i) == job[s].after.series \in Legacy => job[s].after.ref # None
AsAccepted(s, i) == job[s].after.series \in Legacy => AcceptsImage(i, job[s].after.ref)

PrepareTarget(s, i) ==
    /\ At(s, "prepare")
    /\ Prepare(job[s].after.series, i) /\ AsAccepted(s, i)
    /\ Set(s, [job[s] EXCEPT !.step = "record", !.after.ref = i])
    /\ UNCHANGED <<sites, staged, gc, consents, raced>>

\* The rollback record replaces the last one ...
Retain(s) ==
    /\ At(s, "record")
    /\ record' = [record EXCEPT ![s] = [ref |-> job[s].prior, series |-> job[s].before.series]]
    /\ To(s, "history")
    /\ raced' = (raced \/ gc # None)
    /\ UNCHANGED <<images, env, container, kept, staged, gc, consents>>

\* ... which the history keeps for a while.  Before its first switch the site is
\* backed up.
Remember(s) ==
    /\ At(s, "history")
    /\ kept' = [kept EXCEPT ![s] = @ \cup {job[s].prior}]
    /\ To(s, "backup") \/ To(s, "write")
    /\ raced' = (raced \/ gc # None)
    /\ UNCHANGED <<images, env, container, record, staged, gc, consents>>

\* The container is paused meanwhile.
Backup(s) ==
    /\ At(s, "backup")
    /\ To(s, "write")
    /\ UNCHANGED <<images, sites, staged, gc, consents, raced>>

\* A site that is Down has its image selected and not tried.
SelectTarget(s) ==
    /\ At(s, "write")
    /\ WriteEnv(s, job[s].after)
    /\ IF job[s].ran = None THEN Done(s) ELSE To(s, "up")
    /\ UNCHANGED <<images, container, record, kept, staged, gc, consents>>

\* The reference of the record, with the version of its .env; its consent is
\* to the identity.
BeginRollback(s) ==
    LET after == [series |-> record[s].series, ref |-> record[s].ref] IN
    /\ At(s, "idle") /\ record[s] # NoRecord
    /\ record[s].ref \in tagged
    /\ accepted' = [accepted EXCEPT ![s] =
                      IF AcceptsImage(record[s].ref, None) THEN @ ELSE @ \cup {record[s].ref}]
    /\ WriteEnv(s, after)
    /\ Set(s, IF container[s] = None THEN NoJob
              ELSE [step |-> "up", before |-> env[s], after |-> after, prior |-> None,
                    ran |-> container[s]])
    /\ UNCHANGED <<images, container, record, kept, staged, gc, adopted>>

Recreate(s) ==
    /\ At(s, "up") /\ Compose(s)
    /\ To(s, "check")
    /\ UNCHANGED <<images, env, record, kept, staged, gc, accepted, raced>>

Healthy(s) ==
    /\ At(s, "check")
    /\ To(s, "ready")
    /\ UNCHANGED <<images, sites, staged, gc, consents, raced>>

\* nginx is reloaded, and WordPress answers with its database.
SiteReady(s) ==
    /\ At(s, "ready")
    /\ Done(s)
    /\ UNCHANGED <<images, sites, staged, gc, consents, raced>>

\* A rollback that fails goes back to the .env it has read.
UndoTo(s) ==
    IF job[s].prior = None THEN job[s].before ELSE [job[s].before EXCEPT !.ref = job[s].prior]

\* Before the switch has started PHP its failure puts the .env back as read.
FailEarly(s) ==
    /\ job[s].step \in {"prepare", "record", "history", "backup", "write"}
    /\ IF At(s, "prepare") THEN UNCHANGED <<env, raced>> ELSE WriteEnv(s, job[s].before)
    /\ Done(s)
    /\ UNCHANGED <<images, container, record, kept, staged, gc, consents>>

\* A forced recreation that fails may have removed the old container by then.
Broken(s) ==
    \/ UNCHANGED container
    \/ /\ job[s].step \in {"up", "undo"}
       /\ container' = [container EXCEPT ![s] = None]

FailStarted(s) ==
    /\ job[s].step \in {"up", "check", "ready"}
    /\ WriteEnv(s, UndoTo(s)) /\ Broken(s)
    /\ To(s, "undo")
    /\ UNCHANGED <<images, record, kept, staged, gc, consents>>

Undo(s) ==
    /\ At(s, "undo") /\ Compose(s)
    /\ Done(s)
    /\ UNCHANGED <<images, env, record, kept, staged, gc, accepted, raced>>

\* The restart fails too, or the program is killed where it is.
Abandon(s) ==
    /\ ~At(s, "idle")
    /\ Broken(s) /\ Done(s)
    /\ UNCHANGED <<images, env, record, kept, staged, gc, consents, raced>>

-----------------------------------------------------------------------------
(* A core update stages its files in every site, without the flock *)

\* A site without a reference gets the one of the image it has.
StageSite(s) ==
    /\ staged[s] = NoStage
    /\ IF env[s].ref # None THEN UNCHANGED <<tagged, adopted>>
       ELSE Prior(s) # None /\ Preserve(Prior(s)) /\ Adopt(s, Prior(s))
    /\ staged' = [staged EXCEPT ![s] = [from |-> env[s], seen |-> env[s], to |->
                     IF env[s].ref # None THEN env[s] ELSE [env[s] EXCEPT !.ref = Prior(s)]]]
    /\ UNCHANGED <<alias, built, sites, job, gc, accepted, raced>>

WriteOver(s, e) ==
    /\ env' = [env EXCEPT ![s] = e]
    /\ raced' = (raced \/ gc # None \/ env[s] # staged[s].seen)

\* That is the end of it, or what follows the .env may still fail.
WriteStaged(s) ==
    /\ staged[s] # NoStage /\ WriteOver(s, staged[s].to)
    /\ \/ staged' = [staged EXCEPT ![s] = NoStage]
       \/ staged' = [staged EXCEPT ![s].seen = staged[s].to]
    /\ UNCHANGED <<images, container, record, kept, job, gc, consents>>

\* What fails puts the .env back as it was read.
PutBack(s) ==
    /\ staged[s] # NoStage /\ WriteOver(s, staged[s].from)
    /\ staged' = [staged EXCEPT ![s] = NoStage]
    /\ UNCHANGED <<images, container, record, kept, job, gc, consents>>

\* It finds nothing to write, or is killed.
DropStaged(s) ==
    /\ staged[s] # NoStage
    /\ staged' = [staged EXCEPT ![s] = NoStage]
    /\ UNCHANGED <<images, sites, job, gc, consents, raced>>

-----------------------------------------------------------------------------
(* The rest of the site's life *)

Up(s) ==
    /\ At(s, "idle") /\ container[s] = None /\ Compose(s)
    /\ UNCHANGED <<images, env, record, kept, job, staged, gc, accepted, raced>>

Down(s) ==
    /\ At(s, "idle") /\ container[s] # None
    /\ container' = [container EXCEPT ![s] = None]
    /\ UNCHANGED <<images, env, record, kept, job, staged, gc, consents, raced>>

\* Fourteen days have passed.
Expire(s, i) ==
    /\ i \in kept[s]
    /\ kept' = [kept EXCEPT ![s] = @ \ {i}]
    /\ UNCHANGED <<images, env, container, record, job, staged, gc, consents, raced>>

-----------------------------------------------------------------------------
(* Deletion: the button and the daily job *)

\* Mutant: only sites that are up refer to an image.
RunningReferences ==
    {env[s].ref : s \in {x \in Site : container[x] # None}}
    \cup {record[s].ref : s \in Site} \cup UNION {kept[s] : s \in Site}
References ==
    {env[s].ref : s \in Site} \cup {record[s].ref : s \in Site} \cup UNION {kept[s] : s \in Site}

FloatingReferences == {env[s].series : s \in {x \in Site : env[x].ref = None}}

\* The daily job looks at all tags first, the button at one; here each tag is
\* looked at and removed by itself.  A floating tag goes by its series.
ChooseUnused(tag) ==
    /\ gc = None
    /\ tag \in tagged \ References \/ tag \in Series \ FloatingReferences
    /\ gc' = tag
    /\ UNCHANGED <<images, sites, job, staged, consents, raced>>

\* A job between the preparation of its image and the .env that names it, a
\* core update in the same place, or a rollback that may have to go back to an
\* image nothing names any more.
Unnamed == \E s \in Site :
    \/ staged[s] # NoStage
    \/ job[s].step \in {"prepare", "record", "history", "backup", "write"}
    \/ job[s].step \in {"up", "check", "ready"} /\ job[s].prior = None

InUse(i) == \E s \in Site : container[s] = i

\* Docker does not remove the last tag of an image that a container runs.
DeleteImmutable(i) ==
    /\ gc = i /\ i \in tagged
    /\ InUse(i) => alias[SeriesOf[i]] = i
    /\ tagged' = tagged \ {i}
    /\ raced' = (raced \/ Unnamed)
    /\ gc' = None
    /\ UNCHANGED <<alias, built, sites, job, staged, consents>>

DeleteAlias(p) ==
    /\ gc = p /\ alias[p] # None
    /\ InUse(alias[p]) => alias[p] \in tagged
    /\ alias' = [alias EXCEPT ![p] = None]
    /\ raced' = (raced \/ Unnamed)
    /\ gc' = None
    /\ UNCHANGED <<tagged, built, sites, job, staged, consents>>

CannotDelete ==
    /\ gc # None
    /\ gc' = None
    /\ UNCHANGED <<images, sites, job, staged, consents, raced>>

-----------------------------------------------------------------------------
Next ==
    \/ \E p \in Series, i \in Image : Refresh(p, i) \/ PrepareNew(p, i)
    \/ \E s \in Site :
          \/ \E p \in Series, consent \in Image \cup {None} : BeginSwitch(s, p, consent)
          \/ \E i \in Image : PrepareTarget(s, i) \/ Expire(s, i)
          \/ Retain(s) \/ Remember(s) \/ Backup(s) \/ SelectTarget(s) \/ BeginRollback(s)
          \/ Recreate(s) \/ Healthy(s) \/ SiteReady(s)
          \/ FailEarly(s) \/ FailStarted(s) \/ Undo(s) \/ Abandon(s)
          \/ StageSite(s) \/ WriteStaged(s) \/ PutBack(s) \/ DropStaged(s)
          \/ Up(s) \/ Down(s)
    \/ \E tag \in Image \cup Series : ChooseUnused(tag)
    \/ CannotDelete
    \/ \E i \in Image : DeleteImmutable(i)
    \/ \E p \in Series : DeleteAlias(p)

Spec == Init /\ [][Next]_vars

-----------------------------------------------------------------------------
(* Properties *)

\* The image a site selects, Up or Down, and the image it can be rolled back
\* to are there, however long deletions, refreshes and switches go on, unless
\* a deletion overlapped a switch or a core update while these had an image that
\* no file names, or a core update wrote over a selection it had not read.
SelectedIsKept ==
    ~raced => \A s \in Site :
        /\ Selected(env[s]) # None
        /\ record[s] # NoRecord => record[s].ref \in tagged

\* A switch that failed after it had started PHP ends on the very image that ran
\* before, also when the floating tag that image was started from has moved or
\* gone in the meantime, unless a core update wrote over the .env.
UndoBringsBack ==
    [][\A s \in Site : Undo(s) /\ job[s].prior # None /\ env[s] = UndoTo(s)
                        => container'[s] = job[s].ran]_vars

\* A legacy image named in a site's .env is one that a person accepted for the site
\* by its identity, though the floating tag he saw may have moved while the switch
\* was prepared.  Exempt are images that the site has had from the floating tag of
\* its series while its .env named none (adopted): a core update and the undo of a
\* switch name those in the .env though nobody was asked, also one that a refresh
\* has built since the site was last Up.  No other way leads to such an image: a
\* switch and a rollback ask for it, and an image accepted for one site is not
\* accepted for another.
LegacyIsAccepted ==
    \A s \in Site : env[s].ref # None /\ SeriesOf[env[s].ref] \in Legacy
                    => env[s].ref \in accepted[s] \cup adopted[s]
=============================================================================
