# SpawnWP: specifications and proofs

TLA+ models of the concurrent core of SpawnWP: the cockpit that creates, changes
and destroys WordPress sites on one host, for a browser, for signed API clients
and for automation modules; the administrator's authentication; the module manager;
PHP images, memory admission and snapshots. TLC checks the models on small instances;
TLAPS proves the safety properties that matter most for every value of the constants.

    tlc -workers 2 -config MCProvision.cfg MCProvision      # one run
    tlapm Provision_proof.tla                               # one proof module

## 1. Inventory

The cockpit (`runtime/app.py`) is one uvicorn process with one event loop, a
thread pool for `def` handlers and one worker thread. Everything that keeps
state, and how it is reached:

| part | state | operations | talks to |
| --- | --- | --- | --- |
| project lock (`operation_lock.py`, middleware in `app.py`) | `flock` on `/run/lock/spawnwp-projects.lock`, descriptor in a context variable | `acquire`, `release`, `child_options` | every locked route, the worker, the scripts |
| streamed commands (`stream_command`) | child process, stdout pipe, wait task, RAM reservation | start, forward, end, disconnect | browser, `capacity.py` |
| sites | `/srv/<name>`, containers, `.env`, nginx blocks | `new-project.sh`, `destroy-project.sh`, `site-expiry.sh`, `make` targets | all of the above |
| provisioning API (`provision.py`) | tables `provision_requests`, `provision_sites` | create, status, magic link, revoke | `machine_auth.py`, the scripts |
| automation (`automation.py`) | tables `grants`, `operations`, `owned_projects`; worker thread | request/approve/revoke grant, submit/approve/cancel operation, `run_one` | `module_api.py`, `ingest` connections, the scripts |
| signed requests (`machine_auth.py`) | tables `connections`, `nonces` | `authorize` | provisioning, automation |
| local modules (`module_api.py`) | credential files, `connections` | `ensure`, `revoke` | automation |
| RAM admission (`capacity.py`) | reservations in memory, container limits, policy | reserve for start, create, resize; release; set policy | streamed commands, creations, PHP settings |
| PHP settings and groups (`app.py`) | `.env` of a site | `set_php_ini`, `set_group`, lifetime | `capacity.py`, `php-ini-apply.sh`; no project lock |
| PHP images (`runtime_images.py`, `runtime_migration.py`, `php-switch-progress.py`, `backup-runtime.py`, `rollback-runtime.py`) | docker tags, `.env`, `runtime-rollback.json`, `runtime-history.json` | prepare, refresh, switch, roll back, delete, stage | docker, the site's flock |
| snapshots (`snapshot.sh`, `restore.sh`, `app.py`) | `backups/db`, `backups/files`, `labels.json` | take, rotate, restore, name, delete | project lock for the first three |
| deploy ingest (`ingest.py`) | pairings, jobs, chunk files | pair, create job, upload chunk, finalize, revoke | deploy plugin, blueprints |
| administrator authentication (`auth.py`) | bootstrap, admins, passkeys, recovery codes, challenges, sessions, rate limits | activation, reset, passkeys, fallback login, sessions, step-up | middleware |
| updater (`updater/spawnwp`) | `VERSION`, `current` link, `state.json`, backups | update, rollback | systemd, module manager |
| module manager (`module_manager.py`), licences (`module_licensing.py`) | release directories, `current` link, `install.json`, certificate; operations recorded by `app.py` | install, upload, update, enable, disable, uninstall; activate, transfer | `module_api.py`, hooks of the module, licensing service |
| deploy plugin (`plugins/spawnwp-deploy`) | WordPress options, staged packages | push, receive, apply, roll back | ingest |

What is hard to test:

* **Interleaving.** A browser may close between any two steps of a streamed
  command; unlocked calls (status, magic link, revocations, approvals, PHP settings,
  groups, image and snapshot deletion) run while a creation or a switch holds the lock;
  handlers suspend at `await request.body()`; a handler of `auth.py` is several
  transactions, and a module command is a process of its own that nothing serializes.
* **Crash and restart.** systemd restarts the cockpit with its whole control
  group: scripts die half way, reservations vanish, table rows stay.
* **Two stores.** Tables and directories, two databases, or link, status file and
  credential, that no transaction spans: rows for sites that are gone, sites without
  rows, a connection revoked before its grants, a status file that is not true.
* **Names that move.** Floating image tags, project names, second-resolution snapshot
  names, inode numbers: what was looked up is not what is used later.
* **Time.** Idempotent retries after a timeout, approvals that run out, deadlines
  that move between approval and execution.

What makes each part correct: one site operation at a time (lock); RAM booked as
long as a command lives (streams); no site destroyed but one's own, quota, final
results, no key undecided (provisioning); nothing executed twice, nothing harmful
without a fresh approval, nothing on a site of the same name, quota, no blocked
queue (automation); a signed request accepted once, a pairing code good for one key
(connections); nothing installed that is incomplete or broken, every finalized job
decided (ingest); one administrator, every second factor and ceremony used once, nothing
protected without a recent proof in that session (authentication); a link only to a
complete release, a status file that is true, no active premium module without a licence
(modules); the images a site needs, an undo that brings back what ran, no legacy image
nobody accepted (images); container limits within the budget (capacity); no lost uploads,
no lost names (snapshots).

## 2. Modules

| module | models | main correspondence |
| --- | --- | --- |
| `SiteMutex` | what the lock promises: operations begin and end one at a time | abstract, no code |
| `OperationLock` | `operation_lock.py`, the middleware, `stream_command` | `held[r]` is the set of processes with the descriptor open; `Disconnect` is the generator's `finally`; `Reap` the wait task |
| `Provision` | `provision.py` with `new-project.sh`, `destroy-project.sh`, `site-expiry.sh` as it meets them | `req`, `row` are the two tables; `dir` is absent, partial, or what `is_project` accepts; `pc` follows `_execute_reserved` |
| `MCProvision` | the bodies TLC uses: one names its project, one does not | |
| `Automation` | `automation.py`, `module_api.revoke` | `op`, `grants`, `owned` are tables; `inode` is what `fingerprint` reads; `PickNext`, `Execute`, `Bookkeep` are the two transactions of `run_one` and what lies between |
| `MCAutomation` | the actions TLC's administrator may allow, and symmetry | |
| `Connections` | pairing, `machine_auth.authorize`, nonces, revocations, new keys of local modules | `row` and `nonces` are tables; `handled[r]` is where `authorize` is; `LoopFree` says that a handler on the event loop does not give way between its last check and its write |
| `Ingest` | jobs, chunks, `_finalize`, `delete_blueprint`, `_janitor` of `ingest.py` | `job` is a table, `staging`, `files`, `draft`, `manifest` are directories and files; `pc[j]` is the thread that runs `_finalize` |
| `Auth` | `auth.py`, the authentication part of the middleware, `require_recent` | tables as functions; `request[r].step` is what a handler has read or done between its transactions; a refusal rolls back |
| `ModuleManager` | commands of `module_manager.py`, `_start_module_operation` and licence handlers of `app.py` | `op[o].todo` is the list of steps a command has still to take, rollback included; hooks are external |
| `RuntimeImages` | `runtime_images.py`, `php-switch-progress.py`, `backup-runtime.py`, `rollback-runtime.py`, `runtime_migration.py` | `alias` and `tagged` are docker tags, `env`, `record`, `kept` files, `job[s]` what holds the site's flock |
| `Capacity` | `capacity.py` and everything in `app.py` and the scripts that starts containers or rewrites their limit | `booked` is `_reservations`, `looking` its lock, `php` and `rest` limits of running containers |
| `Snapshots` | `snapshot.sh`, `restore.sh`, names and deletion in `app.py` | `dump`, `tar` are files, absent, partial or whole; `draft` is `labels.json.tmp` |
| `MC...` | constants, symmetry, and for four models the states that are not followed further (below) | |
| `ModuleManager_proof` | theorems about `ModuleManager`, and about `Connections` | |
| `OperationLock_proof` | theorems about `OperationLock`, and about `Capacity` | |
| `Provision_proof`, `Ingest_proof`, `Auth_proof`, `Snapshots_proof`, `Automation_proof`, `RuntimeImages_proof` | theorems | |

History variables never guard an action, with two exceptions that are bounds:
`restarts < MaxRestarts`, and `used` when inode numbers are assumed fresh. They are of two
kinds. Some remember what happened (`maker`, `rights`, `consent`, `runs`, `used`, `taken`,
`intact`, `uses`, `finished`, `proof`, `accepted`, `gap`). Others say that a case occurred
which nothing in the code excludes and for which a property does not claim anything
(`clash`, `disturbed`, `raced`, `exempt`, `excused`, `overlapped`, `adopted`); every such case
is named where the property is stated, and in "Known disagreements" when a document
promises otherwise. Several of them cut away the very overlap a hazard of `PROJECT.json` names:
`raced` a deletion under a switch, `exempt` growth nobody booked, `clash` two threads at one
blueprint, `overlapped` two writers of the names, `excused` a deletion under a restore,
`disturbed` a command started beside another or beside a transfer. There the code does not keep
the property. The models have these steps all the same, so that the property shows that nothing
else breaks it, and says nothing in favour of the overlap itself.

Steps are as fine as the code makes them observable: one transaction, one file
system change somebody else can see, one await. Operations that hold a lock from
beginning to end and that no property looks inside are single steps with the free lock
as guard. A refusal that changes nothing (409 for a taken lock, a full queue) is not an
action.

## 3. Runs

| run | instance | shows |
| --- | --- | --- |
| `OperationLock.cfg` | 2 requests, 1 script, pipe of 2 lines, up to 3 lines of output | mutual exclusion, reservations, refinement of `SiteMutex`, the lease comes back unless the command stalls |
| `MCProvision.cfg` | 1 connection, 2 keys, 2 bodies, 2 names, quota 1, 1 restart | compensation, quota of rows, final results, every reserved key decided |
| `MCProvision_FailureRemovesSite.cfg` | the same | violated, see below |
| `MCAutomationQuota.cfg` | 1 grant, 2 names, 2 reusable inodes, 2 creations, quota 1, 1 restart, fair worker | nothing twice, quota, no operation waits for ever |
| `MCAutomationApproval.cfg` | 1 site, 2 operations, 2 ticks, approvals good for the tick they are given in, 2 inodes, 1 restart | approvals, revocation, identity of the site |
| `Connections.cfg` | 1 client, 1 local module, 1 message, 2 deliveries, 2 pairings, skew 1, nonces kept for 2, 5 ticks | a request is accepted once, a code pairs once |
| `Ingest.cfg` | 2 connections, 2 jobs of one blueprint, 2 chunks, 1 deleting thread, 1 restart | what is installed is usable and intact, jobs are decided |
| `MCAuth.cfg` | 2 requests, 2 cookies, 2 ceremonies, 2 bootstrap codes, 1 passkey, 1 recovery code, 3 ticks | one administrator, factors and ceremonies once, protected operations proven |
| `MCModuleManager.cfg` | 2 operations, a plain release, one that is premium and has a scope, one that is refused | only complete releases linked, true status file, licence |
| `MCRuntimeImages.cfg` | 1 site, a current and a legacy series, 3 images | images kept, undo, legacy images named only when accepted or had from a floating tag |
| `MCCapacity.cfg` | 2 sites, 2 operations, 2 sizes, a budget that holds a small and a large site but not two large ones | limits within the budget |
| `MCSnapshots.cfg` | 2 snapshots of which 1 is kept, 1 upload, 2 requests | restored uploads, whole names |

Why the bounds are enough to be interesting: two requests and a script meet every
pair of lock takers; three lines over a pipe of two make a stall possible; two keys
over a quota of one let a row be forgotten and counted anew; one connection is
enough because its rows are keyed and counted per connection; two directory
identities let a name be destroyed and made again; two queued operations let one block the
other; two ticks let an approval be given, be good, and run out; five ticks with a skew of
one let a nonce of a request from the future run out before and after the request does; two
jobs of one blueprint let their threads meet at every pair of file operations; two requests,
two codes and two ceremonies let each check of `auth.py` be overtaken by the change it
guards against; three ticks with sessions idle for one let a session go stale before and
after its step-up; two commands and two compatible releases let an update, its rollback and a
second command meet at every step; three images give a floating tag somewhere to move; a budget
that holds two sites, but not at their largest, makes every booking matter. One restart, where restarts
are counted, can fall between any two steps; `ModuleManager`, `Capacity` and `Snapshots`
restart without bound, `Auth` may end a request and `RuntimeImages` a job at every step. The
proofs do not depend on any of these numbers.

What the constraints, the view and the symmetry leave out:

* Symmetry is over interchangeable model values only and never used with liveness.
* `MCAuth` does not follow requests in the last tick, which is there for sessions to run out.
* `MCModuleManager` follows, once `disturbed`, only what `CurrentWasComplete` can tell apart:
  the two other properties say nothing then. The view drops the credential, the
  integration and the record of an operation in those states; none of them decides a later step
  on which the link depends.
* `MCRuntimeImages` does not follow a core update under way while a deletion has chosen a tag,
  and once `raced` no further deletions and core updates: `SelectedIsKept` says nothing then, and
  the other two properties speak of the `.env` and of what jobs do. Its view joins `accepted` and
  `adopted`, which no property tells apart, and leaves the history of images out once `raced`.
* `MCSnapshots` stops where two requests have written names at once: `LabelsWhole` says
  nothing then, and names have no part in `MediaPresent`.

### Known disagreements

`MCProvision_FailureRemovesSite.cfg` is expected to be violated (`findings` in
`PROJECT.json` quotes both sides): the clean-up script cannot take the lock its own request
holds, so no failed site is ever removed by it.

The models show these too, and the properties leave them out by name:

* `provision.py:106` against `docs/provisioning-api.md:278`: a status call during a creation
  forgets its row, so that sites outnumber the quota. `RowsWithinQuota` bounds rows.
* `provision.py:141` against `docs/provisioning-api.md:291`: a restart leaves a key in
  progress for ever. `RequestSettles` is about requests that no restart interrupted.
* `app.py:240` against `operation_lock.py:26`: a browser that leaves a talkative command makes it
  block on its pipe with the lock held. `LeaseReleased` leaves the stalled command out.
* `ingest.py:644` against `docs/importing-a-site.md:76-77`: two connections that finalize one
  blueprint id at a time, or one that finalizes while the blueprint is deleted, leave a manifest
  without archive (`clash`).
* `ingest.py:645-654` against the comment at `ingest.py:656` ("a failed ingest must never leave a
  manifest behind"): when the removal of older archives or the row's update fails after the manifest
  has its final name (`Fail` after `InstallManifest`), the job is failed and its blueprint installed.
  What is installed is usable and intact all the same, and the properties are about that.
* `module_manager.py:422` against `docs/modules.md:29-30`: an update that adds the first scopes
  and fails leaves the credential it ensured (`disturbed`); a failed enable does the same.
* `runtime_migration.py:58-61` and `php-switch-progress.py:232` with `:267` against
  `docs/operations.md:96` ("SpawnWP permits PHP 7.4 only after explicit acceptance for the exact
  cached image"): a site whose `.env` names no image, as sites had before references existed,
  runs what the floating tag of its series names. A core update writes that image into its
  `.env`, and so does the undo of a switch; nobody is asked. For a site that is Down it may be an
  image that a refresh has built since the site was last Up. (`docs/runtime-migration.md:26-27`
  announces that a migration "pins the images already selected by each site".) TLC shows it when
  `LegacyIsAccepted` is stated with `accepted` alone: three states lead to a core update that
  names the image the site ran from the beginning, and if that image counts as accepted, four
  (`Refresh`, `StageSite`, `WriteStaged`) to one that names a newer image. The property names these
  images, and no others, as exempt (`adopted`).
* `php-ini-apply.sh:5-6`: PHP settings of a site that is Down start its PHP container.

### Fairness

Only what the process itself drives is fair: the event loop goes on with handlers
and streams, children run, the wait task is called, threads finish (weak fairness of
each, since once enabled these steps stay enabled until taken, or another of the
same actor is taken). Browsers, clients, administrators, timers, systemd and the
clock owe nothing. `QueueDrains` further assumes that the worker finds the lock free
at its polls, because operations of the administrator are single steps there, and
says nothing of an administrator who goes on approving operations for ever (an
operation approved again keeps its place by `created_at`). `Auth`, `ModuleManager`,
`RuntimeImages`, `Capacity` and `Snapshots` have no liveness property: a request or a command
that is given up is a normal outcome there.

### Assumptions that matter

* `ReuseInodes`. Automation recognises a site by device and inode number. With
  `ReuseInodes = TRUE` `TouchesGivenSite` does not hold: a new directory may get the number
  an old grant names. The approval run assumes fresh numbers; the quota run does not.
* An expired `SPAWNWP_EXPIRES` is destroyed by the timer at or after its time, never
  before.
* `AcceptedOnce` speaks of acceptances in the window of a request, under the key the
  connection has at that moment. Outside of that the code accepts twice: a request
  verified in its last second and slow to write its nonce, after a janitor run in
  between; and a request whose row was read before a revocation deleted the nonces.
  The code's values (600 s and 300 s) satisfy `NonceTTL >= 2 * Skew` with nothing to spare.
* `InstalledIsUsable` leaves out blueprints whose files two threads changed at a time
  (`clash`), for which it does not hold.
* `JobDecided` assumes that a thread can write its verdict: a database that stays
  locked through both attempts leaves the job finalizing, as a restart does.
* A staging directory is not swept while a thread works on its archive, which it has
  just written there.
* A command started with the lock's descriptor does not pass it on to something that
  outlives it.
* Snapshots have fresh names: no two are begun within one second.
* Foreign keys are enforced (`auth.py` switches them on), so that a reset ends the sessions of
  the administrator it removes and a sign-in it overtook finds nobody to sign in.
* `RunningWithinBudget` leaves out containers that grew without a booking (`exempt`): a `.env`
  written behind a booking (`set_group`, or a switch, which also writes back the limit it has
  read), a switch that recreates a container with the limit of its `.env`, a resize that timed out, a booking that only the policy "advisory" let pass. It
  speaks of limits, not of memory in use.
* `LegacyIsAccepted` leaves out images a site had from a floating tag while its `.env` named none
  (`adopted`). `accepted` is empty at first: acceptance is assumed of no image.
* `MediaPresent` leaves out a restored snapshot whose archive was cut short, which lost or
  gained media between dump and archive, or which was deleted while it was restored (`excused`).

## 4. Proofs

All proofs hold for every value of the constants that satisfies the named
assumptions (`OutputAssumption`, `LifetimeAssumption`, `ActorAssumption`, `ConstantAssumption`,
`AbsenceAssumption`, `AbsentAssumption`, `SizeAssumption`); one theorem has a further hypothesis, named
below.

`OperationLock_proof`: `TypeCorrect`; then `IInv`, by induction, which adds to the type
what mutual exclusion silently relies on: only one holder has descriptors open at all;
a request's phase tells exactly whether the cockpit's copy is open, a running child
exactly whether the child's is; a child exists only in the phases that stream or
are closed; and a booked reservation stays until the command was waited for.
`WorkIsExclusive` and `ChildKeepsReservation` follow from it, and `ImplementsMutex` maps
each step to a step of `SiteMutex` or a stutter. `WorkExclusive` alone is not
inductive: a state where nobody works but two descriptors are open is one step from
two working.

`OperationLock_proof`, last part: `RunningWithinBudget` of `Capacity` bounds a sum over sites,
so the proof begins with sums over finite sets: that `Total` adds up at all (`AddsExists`,
`TotalAdds`), that changing one summand changes the sum by the difference (`TotalMoves`), and
that larger summands have a larger sum (`TotalGrows`). They are proved by taking a least
subset that fails (`Least`, `ByPicking`), since the library's induction takes an operator
and cannot be used. The bound is not inductive: a state within the budget may have a
command waiting that starts too much. `CapacityInv` adds what each operation may still start
(`Due`) to what runs; this is never more than it has booked (`Covered`), and the sum is within
the budget. Between its look at the containers and its booking an operation holds the
lock of `capacity.py`, so that nobody gives a booking back: what others start meanwhile was
booked, and what it has seen together with all bookings is still an upper bound when it
asks whether its own fits (`Looked`). A booking that is granted then is exactly the new
`Due`. `HasLock` says why its own site has not changed: who starts or stops the other
containers of a site has the project lock. The theorem needs sites, sizes and operations to
be finite sets.

`Provision_proof`: `TypeCorrect`; `IInv` says that the lock's holder is exactly the actor
that is not idle, that the program counter fixes what the project directory may be and
who made it, and that before the script runs the name is free. From it:
`CleansOwnSite` (compensation meets only the request's own site), `ImplementsMutex`,
`ResultsAreFinal` (a complete row is never reserved again, and the handler that could
write it is the only one past its reservation), and `QuotaHolds` (a counting
argument: `Reserve` adds one row to fewer than `Quota`, everything else keeps or
removes rows).

`ModuleManager_proof`, last part: `AcceptedOnce` of `Connections` is inductive only with the nonce that protects each
taken request (`TakenInv`): it exists and is no older than `Skew` before the time stamp as
long as the request could be taken again under the current key. The janitor spares it by
`NonceTTL >= 2 * Skew`; revocations and new keys remove it, but then the key is one that
no earlier request was signed with (`KeyInv`). `PairedOnce` rests on one pairing at a time
having passed its checks, on a row without a key (`PairingInv`).

`Ingest_proof`: `InstallsIntact` follows a job from the digest to draft and manifest
(`Vouched`). `InstallsUsable` adds `Owned`: a blueprint that has not clashed is changed by at
most one thread (`Alone`), and what this thread has put in place is there for its next
steps (`Prepared`), so that the manifest it installs, and the files it prunes, are its own.

`Auth_proof`: `IInv` is the type, `Linked` (rows refer to what there is), and one part per
property. `Enrolled`: while somebody is enrolled and the code in force is unused, no request
and no ceremony is on its way under this code, which is why `setup_finish` may leave the
question whether somebody is enrolled to the code's use. `Spent`: the step of every password
used is at most `last_totp_step`, every recovery code used is gone. `Taken`: a ceremony
taken is gone, unfinished, and taken by one request. `Proven`: a session's `recent_at`, and what
a request copied of it, is no newer than the last proof given in that session, because
`reauth_finish` compares the ceremony's token with the session's.

`Snapshots_proof`: `MediaArePresent` follows the media of a whole dump to its archive
(`Covered`), unless there was a `gap`: from the moment the dump is whole (`Dumped`), through
rotation and deletion, to a restore that has loaded the dump (`Loaded`). `LabelsAreWhole`
rests on the one handler that has the draft open (`Single`).

`Automation_proof`: `IInv` starts from what the worker relies on. `Working`: the operation it
holds is the row that runs. `Made`: what it has created is there, made for the grant, until it
is booked, since everybody else changes sites only while the worker has no lock. From
these `RowKept` describes what can become of a row of `operations` in any step, in one place for all
the handlers, and each further part is read off it. `Started`: a row that was started
waits in no queue, so that `RunsOnce` holds across crashes and failed bookkeeping.
`Consented`: an approved row carries the time and the deadline its administrator saw; with
`Begun` (an operation that shortens a deadline began on that deadline) this gives the action
property `HarmApproved`. `GrantWithinQuota` counts two sets at a time: the present sites
made for a grant and its unfinished creations; a site enters the first only as a creation leaves the
second (`MadeOnlyFromCreates`, `CreatesDoNotWait`), and `Submit` adds to the second only below
the quota. `TouchesOnlyGiven` has the hypothesis `ReuseInodes = FALSE`: whoever names the
identity of a present directory, in a grant or in `owned_projects`, was given that directory
(`Known`), which an identity given out again would break, as the assumptions above say.

`RuntimeImages_proof`: `LegacyIsAccepted` alone says nothing of what may be written
next; `Sound` extends it, that is "accepted or adopted", to everything that may become a site's
`.env`: the record of a rollback, all that a staged core update may write, what a job found and
what it will write; and to the container of a site, which becomes the record of its next switch.
`UndoBringsBack` rests on `Same` (what a switch retains is what it found running).
`SelectedIsKept` needs `Held`: while nothing has raced, no file names what a deletion has chosen,
which it looks up in one step and removes in another, and whatever a job or a core
update may still write back has its tag, be it under the site's record only.

`ModuleManager_proof`: a command is the list of steps it still has to take, and the lists are
concatenations that depend on the release, the status and the failure. The proofs see of a
list only the set of its steps and that it is ordered by `Rank` (`Pop`, `Join`); a lemma
per command (`InstallProgram`, `ApplyProgram`, `RollbackProgram`, ...) says which sets it
builds, and `Shape` which sets a command can be left with. `IInv` adds two parts.
`Kept` holds whatever happens: the link, the release a command replaces, and the release whose
`module.json` it has written were unpacked once, and no step takes an unpacked release away; this is
`CurrentWasComplete`. `Sound` holds while nothing undetermined has happened (`disturbed`):
then one command at a time is at work, none during a licence transfer, and for each phase of a
command it says what the module's state and the steps left amount to together
(`Placed`, `Applied`, `Undone`, `Enabled`, `Disabled`, `Removed`): either the file, the
credential and the integration agree already, or the step that will make them agree is still
in the list. With no command left this is `FileIsTrue` and `ActiveIsLicensed`. Neither is inductive
alone: in the middle of an update the file names the release the link has left.

Every invariant and every action property of the passing runs is proved. Only model-checked is
liveness (`LeaseReleased`, `RequestSettles`, `QueueDrains`, `JobDecided`), which is outside
the prover.

## 5. Not modelled

`PROJECT.json` lists every part with its status. Left out for good: blueprint parsing,
must-use plugins, API client, telemetry, website and release tooling, port allocation (no
state that survives a call, or nothing to do with sites), and the deploy plugin, a program of
its own inside WordPress. Inside the modelled parts: contents of responses, labels, the
audit log, nginx blocks, disk limits, rate limits, and validation of request bodies, all of
which only ever refuse a request; service images (MariaDB, nginx), template files a core
update stages and its migration-required marker; a container left paused by a killed backup;
removal of a module's data, the catalogue's cache and certificate refresh; the update period of a
certificate (`module_licensing.py:157`), which only ever refuses a release, as `Fail` does at every
step; a module enabled again after a crash between the two commits of its revocation
(`module_api.py:179` and `:188`), which finds its grants active; core updates
(`updater/spawnwp`), of which only the staging of a site's `.env` is in `RuntimeImages`.

Hazards that were met and are in no model: a request cancelled between the booking of RAM and the
start of its command (`app.py:247`); a database locked while the worker starts
(`automation.py:522`); a directory without compose file left by a killed creation
(`new-project.sh:106`); jobs left finalizing or uploading (`ingest.py:424`); two credentials
inserted at a time (`module_api.py:125`); a rate-limit row rolled back with its refusal
(`auth.py:188`).

## 6. Plan

1. Proofs: abstract specifications of what `Provision` promises a client of one key, and of
   what `Ingest` promises a connection, as `SiteMutex` is one of the lock.
2. `Updater`: staged activation, crash at every step, rollback against an abstract two-version
   specification.
3. `Capacity` with lifetimes of sites, so that a group that undoes one is seen.
4. `DeployReceiver`.
