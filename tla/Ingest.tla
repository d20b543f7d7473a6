------------------------------- MODULE Ingest -------------------------------
(***************************************************************************)
(* Blueprint ingest: signed clients upload an archive in chunks, and a     *)
(* worker thread installs it as a content blueprint.                       *)
(*                                                                         *)
(* A job is a row of the table jobs (job) and a staging directory          *)
(* (staging).  An installed blueprint is a manifest, the only file the     *)
(* catalog reads (manifest), and the payload archive it names with the     *)
(* sidecar that records its table prefix (files).  Handlers run to their   *)
(* end on the event loop once their request is authorized; the finalizing  *)
(* threads (pc) and the threads that serve deletions (deleting) run beside *)
(* them and each other, one file system operation at a time.  The cockpit  *)
(* may restart between any two steps.                                      *)
(***************************************************************************)
EXTENDS Naturals, FiniteSets

CONSTANTS
    Connection,   \* paired clients with the scope "ingest"
    Job,          \* job ids, each used once
    Blueprint,    \* blueprint ids
    Deleter,      \* threads serving DELETE /api/blueprints/<id>
    ChunkCount,   \* chunks of every archive
    NoJob,        \* no row with this id yet
    Forgotten,    \* the row was deleted by the janitor
    NoDir,        \* the staging directory does not exist
    NoManifest,   \* the manifest, or its .tmp, does not exist
    NoBlueprint,  \* the deleter serves no request
    MaxRestarts   \* bound: cockpit restarts in a behaviour

ASSUME ConstantAssumption ==
    /\ ChunkCount \in Nat \ {0}
    /\ NoBlueprint \notin Blueprint
    /\ MaxRestarts \in Nat

Chunk == 0 .. ChunkCount - 1
JobRow == [conn : Connection, bp : Blueprint, database : BOOLEAN,
           state : {"uploading", "finalizing", "complete", "failed"},
           received : 0 .. ChunkCount]
Manifest == [payload : Job, database : BOOLEAN]
Archive(j) == <<j, "payload">>
Sidecar(j) == <<j, "prefix">>

ASSUME AbsenceAssumption ==
    /\ NoJob \notin JobRow /\ Forgotten \notin JobRow
    /\ NoManifest \notin Manifest
    /\ NoDir \notin [Chunk -> {"missing", "partial", "whole"}]

VARIABLES
    job,       \* table jobs
    staging,   \* .staging/<job>/chunks
    files,     \* <payloads>/<blueprint>: archives and sidecars, by job
    draft,     \* <custom>/<blueprint>.json.tmp
    manifest,  \* <custom>/<blueprint>.json
    pc,        \* where the finalizing thread of a job is
    deleting,  \* blueprint whose manifest a deleter has unlinked
    intact,    \* history: jobs whose archive was assembled from whole chunks
    clash,     \* history: two threads were changing a blueprint's files
    restarts   \* history: cockpit restarts so far

vars == <<job, staging, files, draft, manifest, pc, deleting, intact, clash, restarts>>

\* Where a thread stands between its file system operations; "idle" is before
\* and after its life.
Changing == {"moved", "sealed", "drafted", "installed"}
PC == {"idle", "start", "assembled", "pruned"} \cup Changing

TypeOK ==
    /\ job \in [Job -> JobRow \cup {NoJob, Forgotten}]
    /\ staging \in [Job -> [Chunk -> {"missing", "partial", "whole"}] \cup {NoDir}]
    /\ files \in [Blueprint -> SUBSET (Job \X {"payload", "prefix"})]
    /\ draft \in [Blueprint -> Manifest \cup {NoManifest}]
    /\ manifest \in [Blueprint -> Manifest \cup {NoManifest}]
    /\ pc \in [Job -> PC]
    /\ deleting \in [Deleter -> Blueprint \cup {NoBlueprint}]
    /\ intact \subseteq Job
    /\ clash \in [Blueprint -> BOOLEAN]
    /\ restarts \in 0 .. MaxRestarts

Init ==
    /\ job = [j \in Job |-> NoJob]
    /\ staging = [j \in Job |-> NoDir]
    /\ files = [b \in Blueprint |-> {}]
    /\ draft = [b \in Blueprint |-> NoManifest]
    /\ manifest = [b \in Blueprint |-> NoManifest]
    /\ pc = [j \in Job |-> "idle"]
    /\ deleting = [d \in Deleter |-> NoBlueprint]
    /\ intact = {}
    /\ clash = [b \in Blueprint |-> FALSE]
    /\ restarts = 0

-----------------------------------------------------------------------------
(* Table rows and directories *)

Known(j) == job[j] \notin {NoJob, Forgotten}
InState(j, s) == Known(j) /\ job[j].state = s
Unfinished(c) ==
    {j \in Job : Known(j) /\ job[j].conn = c /\ job[j].state \in {"uploading", "finalizing"}}

EmptyStaging == [i \in Chunk |-> "missing"]
\* upload_chunk makes the directory again when the janitor has removed it.
ChunksOf(j) == IF staging[j] = NoDir THEN EmptyStaging ELSE staging[j]
\* Mutant: chunks are counted by calls, so that one sent twice counts twice.
CountedCalls(j, chunks) == job[j].received + 1
\* "received" is the number of directory entries, whatever they contain.
Counted(j, chunks) == Cardinality({i \in Chunk : chunks[i] # "missing"})

Whole(j) == staging[j] # NoDir /\ \A i \in Chunk : staging[j][i] = "whole"
\* Mutant: an archive is accepted when all chunk files are there.
AllThere(j) == staging[j] # NoDir /\ \A i \in Chunk : staging[j][i] # "missing"
\* Size and digest of what the chunks make up are as announced.
Matches(j) == Whole(j)

\* Mutant: sidecars are stale files too.
OwnArchive(j) == {Archive(j)}
\* The archive of the job and the sidecar that belongs to it.
OwnFiles(j) == {Archive(j), Sidecar(j)}
ManifestOf(j) == [payload |-> j, database |-> job[j].database]
\* A blueprint's directory is made with its first file and removed as a whole.
HasDirectory(b) == files[b] # {}

Installers(b) == {j \in Job : pc[j] \in Changing /\ job[j].bp = b}
Deleters(b) == {d \in Deleter : deleting[d] = b}
NoteClash(b) ==
    clash' = [clash EXCEPT ![b] = @ \/ Installers(b) # {} \/ Deleters(b) # {}]

-----------------------------------------------------------------------------
(* Requests of the client *)

\* The catalog is consulted here and never again; one job per connection.
CreateJob(j, c, b, replace, database) ==
    /\ job[j] = NoJob
    /\ manifest[b] = NoManifest \/ replace
    /\ Unfinished(c) = {}
    /\ job' = [job EXCEPT ![j] = [conn |-> c, bp |-> b, database |-> database,
                                  state |-> "uploading", received |-> 0]]
    /\ staging' = [staging EXCEPT ![j] = EmptyStaging]
    /\ UNCHANGED <<files, draft, manifest, pc, deleting, intact, clash, restarts>>

UploadChunk(j, i) ==
    LET chunks == [ChunksOf(j) EXCEPT ![i] = "whole"] IN
    /\ InState(j, "uploading")
    /\ staging' = [staging EXCEPT ![j] = chunks]
    /\ job' = [job EXCEPT ![j].received = Counted(j, chunks)]
    /\ UNCHANGED <<files, draft, manifest, pc, deleting, intact, clash, restarts>>

\* The disk is full or the cockpit dies while the chunk is written: the file is
\* there, the row is as it was.
TearChunk(j, i) ==
    /\ InState(j, "uploading")
    /\ staging' = [staging EXCEPT ![j] = [ChunksOf(j) EXCEPT ![i] = "partial"]]
    /\ UNCHANGED <<job, files, draft, manifest, pc, deleting, intact, clash, restarts>>

FinalizeJob(j) ==
    /\ InState(j, "uploading")
    /\ job[j].received = ChunkCount
    /\ job' = [job EXCEPT ![j].state = "finalizing"]
    /\ pc' = [pc EXCEPT ![j] = "start"]
    /\ UNCHANGED <<staging, files, draft, manifest, deleting, intact, clash, restarts>>

-----------------------------------------------------------------------------
(* The finalizing thread *)

\* The archive is put together, compared with its announced digest and
\* inspected; nothing outside the staging directory has changed yet.
Assemble(j) ==
    /\ pc[j] = "start"
    /\ Matches(j)
    /\ pc' = [pc EXCEPT ![j] = "assembled"]
    /\ intact' = IF Whole(j) THEN intact \cup {j} ELSE intact
    /\ UNCHANGED <<job, staging, files, draft, manifest, deleting, clash, restarts>>

MoveArchive(j) ==
    LET b == job[j].bp IN
    /\ pc[j] = "assembled"
    /\ files' = [files EXCEPT ![b] = @ \cup {Archive(j)}]
    /\ pc' = [pc EXCEPT ![j] = "moved"]
    /\ NoteClash(b)
    /\ UNCHANGED <<job, staging, draft, manifest, deleting, intact, restarts>>

\* A capture without a database has no sidecar.
WriteSidecar(j) ==
    LET b == job[j].bp IN
    /\ pc[j] = "moved"
    /\ job[j].database => HasDirectory(b)
    /\ files' = [files EXCEPT ![b] = IF job[j].database THEN @ \cup {Sidecar(j)} ELSE @]
    /\ pc' = [pc EXCEPT ![j] = "sealed"]
    /\ UNCHANGED <<job, staging, draft, manifest, deleting, intact, clash, restarts>>

\* The draft's name does not contain the job: two jobs share it.
WriteDraft(j) ==
    /\ pc[j] = "sealed"
    /\ draft' = [draft EXCEPT ![job[j].bp] = ManifestOf(j)]
    /\ pc' = [pc EXCEPT ![j] = "drafted"]
    /\ UNCHANGED <<job, staging, files, manifest, deleting, intact, clash, restarts>>

InstallManifest(j) ==
    LET b == job[j].bp IN
    /\ pc[j] = "drafted"
    /\ draft[b] # NoManifest
    /\ manifest' = [manifest EXCEPT ![b] = draft[b]]
    /\ draft' = [draft EXCEPT ![b] = NoManifest]
    /\ pc' = [pc EXCEPT ![j] = "installed"]
    /\ UNCHANGED <<job, staging, files, deleting, intact, clash, restarts>>

Prune(j) ==
    LET b == job[j].bp IN
    /\ pc[j] = "installed"
    /\ files' = [files EXCEPT ![b] = @ \cap OwnFiles(j)]
    /\ pc' = [pc EXCEPT ![j] = "pruned"]
    /\ UNCHANGED <<job, staging, draft, manifest, deleting, intact, clash, restarts>>

\* How a thread ends: its row is decided and its staging directory removed.
End(j, state) ==
    /\ job' = [job EXCEPT ![j].state = state]
    /\ staging' = [staging EXCEPT ![j] = NoDir]
    /\ pc' = [pc EXCEPT ![j] = "idle"]
    /\ UNCHANGED <<files, draft, manifest, deleting, intact, clash, restarts>>

Complete(j) == pc[j] = "pruned" /\ End(j, "complete")

\* Mutant: only the errors the thread raises itself are caught.
FailOnMismatch(j) == pc[j] = "start" /\ staging[j] # NoDir /\ End(j, "failed")

\* Any step may raise: a missing chunk, a digest or an archive that is refused,
\* a draft another thread renamed, a full disk, a locked table.
Fail(j) == pc[j] # "idle" /\ End(j, "failed")

FinalizeStep(j) ==
    \/ Assemble(j) \/ MoveArchive(j) \/ WriteSidecar(j) \/ WriteDraft(j)
    \/ InstallManifest(j) \/ Prune(j) \/ Complete(j) \/ Fail(j)

-----------------------------------------------------------------------------
(* Deletion from the cockpit, the janitor, restarts *)

UnlinkManifest(d, b) ==
    /\ deleting[d] = NoBlueprint
    /\ manifest[b] # NoManifest
    /\ manifest' = [manifest EXCEPT ![b] = NoManifest]
    /\ deleting' = [deleting EXCEPT ![d] = b]
    /\ NoteClash(b)
    /\ UNCHANGED <<job, staging, files, draft, pc, intact, restarts>>

RemoveFiles(d) ==
    /\ deleting[d] # NoBlueprint
    /\ files' = [files EXCEPT ![deleting[d]] = {}]
    /\ deleting' = [deleting EXCEPT ![d] = NoBlueprint]
    /\ UNCHANGED <<job, staging, draft, manifest, pc, intact, clash, restarts>>

\* A day after the last entry was made in it, a staging directory goes: chunks
\* lie one level deeper and do not count, the assembled archive does.
SweepStaging(j) ==
    /\ staging[j] # NoDir
    /\ pc[j] \in {"idle", "start"}
    /\ staging' = [staging EXCEPT ![j] = NoDir]
    /\ UNCHANGED <<job, files, draft, manifest, pc, deleting, intact, clash, restarts>>

ForgetJob(j) ==
    /\ InState(j, "complete") \/ InState(j, "failed")
    /\ job' = [job EXCEPT ![j] = Forgotten]
    /\ UNCHANGED <<staging, files, draft, manifest, pc, deleting, intact, clash, restarts>>

\* Threads are gone; rows, drafts, manifests and files stay as they are.
Restart ==
    /\ restarts < MaxRestarts
    /\ restarts' = restarts + 1
    /\ pc' = [j \in Job |-> "idle"]
    /\ deleting' = [d \in Deleter |-> NoBlueprint]
    /\ UNCHANGED <<job, staging, files, draft, manifest, intact, clash>>

Next ==
    \/ \E j \in Job :
        \/ \E c \in Connection, b \in Blueprint, replace, database \in BOOLEAN :
                CreateJob(j, c, b, replace, database)
        \/ \E i \in Chunk : UploadChunk(j, i) \/ TearChunk(j, i)
        \/ FinalizeJob(j)
        \/ FinalizeStep(j)
        \/ SweepStaging(j)
        \/ ForgetJob(j)
    \/ \E d \in Deleter : RemoveFiles(d) \/ \E b \in Blueprint : UnlinkManifest(d, b)
    \/ Restart

\* Threads of the process go on; clients, administrators and time owe nothing.
Fairness ==
    /\ \A j \in Job : WF_vars(FinalizeStep(j))
    /\ \A d \in Deleter : WF_vars(RemoveFiles(d))

Spec == Init /\ [][Next]_vars /\ Fairness

-----------------------------------------------------------------------------
(* Properties *)

\* The archive and, for a captured database, the sidecar a manifest needs.
Usable(b) ==
    \/ manifest[b] = NoManifest
    \/ /\ Archive(manifest[b].payload) \in files[b]
       /\ manifest[b].database => Sidecar(manifest[b].payload) \in files[b]

\* An installed blueprint has its archive and its sidecar, wherever a finalizing
\* thread was interrupted or failed, through replacements and deletions, as long
\* as no two threads changed the same blueprint at a time.
InstalledIsUsable == \A b \in Blueprint : clash[b] \/ Usable(b)

\* What is installed was assembled from completely written chunks, although the
\* count that admits a job to finalizing includes torn files.
InstalledIsIntact ==
    \A b \in Blueprint : manifest[b] # NoManifest => manifest[b].payload \in intact

Decided(j) == job[j] = Forgotten \/ InState(j, "complete") \/ InState(j, "failed")

\* A finalizing thread decides its job, in whatever step it fails, unless the
\* cockpit restarts under it.
JobDecided ==
    \A j \in Job, n \in 0 .. MaxRestarts :
        (pc[j] # "idle" /\ restarts = n) ~> (Decided(j) \/ restarts # n)
=============================================================================
