---------------------------- MODULE Ingest_proof ----------------------------
(***************************************************************************)
(* Proofs about Ingest, for every set of connections, jobs, blueprints and *)
(* deleting threads, every number of chunks and any number of restarts.    *)
(*                                                                         *)
(* That the installed archive is intact follows a job along its steps: the *)
(* digest is compared once, and what it vouches for reaches the draft and  *)
(* the manifest only afterwards.  That an installed blueprint is usable    *)
(* rests on ownership: while a blueprint has not clashed, at most one      *)
(* thread is changing its files (Alone), and what that thread has put in   *)
(* place stays there until it is done (Prepared).                          *)
(***************************************************************************)
EXTENDS Ingest, FiniteSetTheorems, TLAPS

\* A thread works for a job whose row says so.
Employed == \A j \in Job : pc[j] # "idle" => InState(j, "finalizing")

\* Beyond the digest, everything was assembled from whole chunks.
Vouched ==
    /\ \A j \in Job : pc[j] \notin {"idle", "start"} => j \in intact
    /\ \A b \in Blueprint : draft[b] # NoManifest => draft[b].payload \in intact
    /\ InstalledIsIntact

\* Nobody shares a blueprint that has not clashed.
Alone ==
    \A b \in Blueprint : ~clash[b] =>
        /\ \A j, k \in Installers(b) : j = k
        /\ \A d, e \in Deleters(b) : d = e
        /\ Installers(b) = {} \/ Deleters(b) = {}

\* What a thread has put in place for its next steps.
Prepared ==
    /\ \A j \in Job : pc[j] \in Changing /\ ~clash[job[j].bp] =>
        LET b == job[j].bp IN
        /\ Archive(j) \in files[b]
        /\ pc[j] # "moved" /\ job[j].database => Sidecar(j) \in files[b]
        /\ pc[j] = "drafted" => draft[b] = ManifestOf(j)
        /\ pc[j] = "installed" => manifest[b] = ManifestOf(j)
    /\ \A d \in Deleter : deleting[d] # NoBlueprint /\ ~clash[deleting[d]] =>
        manifest[deleting[d]] = NoManifest

Owned == Alone /\ Prepared /\ InstalledIsUsable

IInv == TypeOK /\ Employed /\ Vouched /\ Owned

-----------------------------------------------------------------------------
(* Helpers *)

\* A directory listing counts no more chunks than the archive has.
LEMMA CountedBounded ==
    ASSUME NEW j, NEW chunks PROVE Counted(j, chunks) \in 0 .. ChunkCount
<1>1. IsFiniteSet(Chunk) /\ Cardinality(Chunk) = ChunkCount
  BY ConstantAssumption, FS_Interval DEF Chunk
<1>2. {i \in Chunk : chunks[i] # "missing"} \in SUBSET Chunk
  OBVIOUS
<1>3. /\ IsFiniteSet({i \in Chunk : chunks[i] # "missing"})
      /\ Counted(j, chunks) <= ChunkCount
  BY <1>1, <1>2, FS_Subset DEF Counted
<1>4. Counted(j, chunks) \in Nat
  BY <1>3, FS_CardinalityType DEF Counted
<1> QED BY <1>3, <1>4, ConstantAssumption

\* A row that is there is a row of the table.
LEMMA KnownRow ==
    ASSUME TypeOK, NEW j \in Job, Known(j) PROVE job[j] \in JobRow
BY DEF TypeOK, Known

\* The staging directory as a handler finds or makes it.
LEMMA ChunksType ==
    ASSUME TypeOK, NEW j \in Job
    PROVE  ChunksOf(j) \in [Chunk -> {"missing", "partial", "whole"}]
BY DEF TypeOK, ChunksOf, EmptyStaging

-----------------------------------------------------------------------------
(* Types, and the threads' rows *)

LEMMA InitTyped == Init => TypeOK /\ Employed
BY ConstantAssumption DEF Init, TypeOK, Employed, PC

LEMMA NextTyped ==
    ASSUME TypeOK, Employed, [Next]_vars PROVE TypeOK' /\ Employed'
<1> USE DEF TypeOK, Employed, InState, Known
<1>1. ASSUME NEW j \in Job, NEW c \in Connection, NEW b \in Blueprint,
             NEW replace \in BOOLEAN, NEW database \in BOOLEAN,
             CreateJob(j, c, b, replace, database)
      PROVE  TypeOK' /\ Employed'
  <2>1. /\ [conn |-> c, bp |-> b, database |-> database,
            state |-> "uploading", received |-> 0] \in JobRow
        /\ EmptyStaging \in [Chunk -> {"missing", "partial", "whole"}]
    BY ConstantAssumption DEF JobRow, EmptyStaging
  <2> QED BY <1>1, <2>1 DEF CreateJob
<1>2. ASSUME NEW j \in Job, NEW i \in Chunk, UploadChunk(j, i)
      PROVE  TypeOK' /\ Employed'
  <2> DEFINE chunks == [ChunksOf(j) EXCEPT ![i] = "whole"]
  <2>1. chunks \in [Chunk -> {"missing", "partial", "whole"}]
    BY ChunksType
  <2>2. [job[j] EXCEPT !.received = Counted(j, chunks)] \in JobRow
    BY <1>2, KnownRow, CountedBounded DEF UploadChunk, JobRow
  <2>3. /\ staging' = [staging EXCEPT ![j] = chunks]
        /\ job' = [job EXCEPT ![j] = [job[j] EXCEPT !.received = Counted(j, chunks)]]
        /\ pc[j] = "idle"
        /\ UNCHANGED <<files, draft, manifest, pc, deleting, intact, clash, restarts>>
    BY <1>2 DEF UploadChunk
  <2> HIDE DEF chunks
  <2> QED BY <2>1, <2>2, <2>3
<1>3. ASSUME NEW j \in Job, NEW i \in Chunk, TearChunk(j, i)
      PROVE  TypeOK' /\ Employed'
  <2>1. [ChunksOf(j) EXCEPT ![i] = "partial"] \in [Chunk -> {"missing", "partial", "whole"}]
    BY ChunksType
  <2> QED BY <1>3, <2>1 DEF TearChunk
<1>4. ASSUME NEW j \in Job, FinalizeJob(j) PROVE TypeOK' /\ Employed'
  <2>1. [job[j] EXCEPT !.state = "finalizing"] \in JobRow
    BY <1>4, KnownRow DEF FinalizeJob, JobRow
  <2>2. job' = [job EXCEPT ![j] = [job[j] EXCEPT !.state = "finalizing"]]
    BY <1>4 DEF FinalizeJob
  <2>3. job'[j].state = "finalizing" /\ job'[j] \notin {NoJob, Forgotten}
    BY <2>1, <2>2, AbsenceAssumption DEF JobRow
  <2> QED BY <1>4, <2>1, <2>2, <2>3 DEF FinalizeJob, PC
<1>5. ASSUME NEW j \in Job, FinalizeStep(j) PROVE TypeOK' /\ Employed'
  <2>1. CASE Assemble(j) BY <2>1 DEF Assemble, PC, Whole
  <2>2. job[j] \in JobRow /\ ManifestOf(j) \in Manifest
    BY <1>5, KnownRow DEF FinalizeStep, Assemble, MoveArchive, WriteSidecar, WriteDraft,
       InstallManifest, Prune, Complete, Fail, JobRow, Manifest, ManifestOf
  <2>3. CASE MoveArchive(j)
    BY <2>2, <2>3 DEF MoveArchive, PC, Changing, NoteClash, JobRow, Archive
  <2>4. CASE WriteSidecar(j)
    BY <2>2, <2>4 DEF WriteSidecar, PC, Changing, JobRow, Sidecar
  <2>5. CASE WriteDraft(j)
    BY <2>2, <2>5 DEF WriteDraft, PC, Changing, JobRow
  <2>6. CASE InstallManifest(j)
    BY <2>2, <2>6 DEF InstallManifest, PC, Changing, JobRow
  <2>7. CASE Prune(j) BY <2>2, <2>7 DEF Prune, PC, JobRow
  <2>8. ASSUME NEW s \in {"complete", "failed"}, End(j, s) PROVE TypeOK' /\ Employed'
    <3>1. [job[j] EXCEPT !.state = s] \in JobRow
      BY <2>2 DEF JobRow
    <3>2. job' = [job EXCEPT ![j] = [job[j] EXCEPT !.state = s]]
      BY <2>8 DEF End
    <3> QED BY <2>8, <3>1, <3>2 DEF End, PC
  <2> QED BY <1>5, <2>1, <2>3, <2>4, <2>5, <2>6, <2>7, <2>8 DEF FinalizeStep, Complete, Fail
<1>6. ASSUME NEW j \in Job, SweepStaging(j) PROVE TypeOK' /\ Employed'
  BY <1>6 DEF SweepStaging
<1>7. ASSUME NEW j \in Job, ForgetJob(j) PROVE TypeOK' /\ Employed'
  BY <1>7 DEF ForgetJob
<1>8. ASSUME NEW d \in Deleter, RemoveFiles(d) PROVE TypeOK' /\ Employed'
  BY <1>8 DEF RemoveFiles
<1>9. ASSUME NEW d \in Deleter, NEW b \in Blueprint, UnlinkManifest(d, b)
      PROVE  TypeOK' /\ Employed'
  BY <1>9 DEF UnlinkManifest, NoteClash
<1>10. CASE Restart
  BY <1>10, ConstantAssumption DEF Restart, PC
<1>11. CASE UNCHANGED vars
  BY <1>11 DEF vars
<1> QED
  BY <1>1, <1>2, <1>3, <1>4, <1>5, <1>6, <1>7, <1>8, <1>9, <1>10, <1>11 DEF Next

\* Every variable keeps its type: in particular, no sequence of uploads, torn
\* writes and sweeps makes "received" exceed the announced number of chunks.
THEOREM TypeCorrect == Spec => []TypeOK
<1>1. TypeOK /\ Employed /\ [Next]_vars => TypeOK' /\ Employed'
  BY NextTyped
<1> QED BY <1>1, InitTyped, PTL DEF Spec

-----------------------------------------------------------------------------
(* What is installed is intact *)

LEMMA InitVouched == Init => Vouched
BY DEF Init, Vouched, InstalledIsIntact

LEMMA NextVouched ==
    ASSUME TypeOK, Employed, Vouched, [Next]_vars PROVE Vouched'
<1> USE DEF TypeOK, Vouched, InstalledIsIntact
<1>1. ASSUME NEW j \in Job, FinalizeStep(j) PROVE Vouched'
  <2>1. CASE Assemble(j) BY <2>1 DEF Assemble, Matches
  <2>2. CASE MoveArchive(j) BY <2>2 DEF MoveArchive
  <2>3. CASE WriteSidecar(j) BY <2>3 DEF WriteSidecar
  <2>4. CASE WriteDraft(j)
    <3>1. draft' = [draft EXCEPT ![job[j].bp] = ManifestOf(j)] /\ j \in intact
      BY <2>4 DEF WriteDraft
    <3>2. ManifestOf(j).payload = j
      BY DEF ManifestOf
    <3> QED BY <2>4, <3>1, <3>2 DEF WriteDraft
  <2>5. CASE InstallManifest(j) BY <2>5 DEF InstallManifest
  <2>6. CASE Prune(j) BY <2>6 DEF Prune
  <2>7. CASE Complete(j) \/ Fail(j) BY <2>7 DEF Complete, Fail, End
  <2> QED BY <1>1, <2>1, <2>2, <2>3, <2>4, <2>5, <2>6, <2>7 DEF FinalizeStep
<1>2. ASSUME NEW d \in Deleter, NEW b \in Blueprint, UnlinkManifest(d, b) PROVE Vouched'
  BY <1>2 DEF UnlinkManifest
<1>3. CASE Restart BY <1>3 DEF Restart
<1>4. CASE UNCHANGED vars BY <1>4 DEF vars
<1> QED
  BY <1>1, <1>2, <1>3, <1>4 DEF Next, CreateJob, UploadChunk, TearChunk, FinalizeJob,
     SweepStaging, ForgetJob, RemoveFiles

\* The archive of an installed blueprint was assembled from chunks that were all
\* completely written: torn files pass the count but never the digest.
THEOREM InstallsIntact == Spec => []InstalledIsIntact
<1>1. Init => TypeOK /\ Employed /\ Vouched
  BY InitTyped, InitVouched
<1>2. TypeOK /\ Employed /\ Vouched /\ [Next]_vars => (TypeOK /\ Employed /\ Vouched)'
  BY NextTyped, NextVouched
<1>3. Vouched => InstalledIsIntact
  BY DEF Vouched
<1> QED BY <1>1, <1>2, <1>3, PTL DEF Spec

-----------------------------------------------------------------------------
(* What is installed is usable *)

LEMMA InitOwned == Init => Owned
BY ConstantAssumption DEF Init, Owned, Alone, Prepared, InstalledIsUsable, Usable, Installers, Deleters, Changing

\* A step that only ends threads, or works away from a blueprint's files, owns
\* what was owned.
LEMMA Elsewhere ==
    ASSUME Owned, TypeOK, TypeOK',
           UNCHANGED <<files, draft, manifest, clash>>,
           \A j \in Job : pc'[j] \in Changing =>
               pc[j] = pc'[j] /\ job'[j].bp = job[j].bp /\ job'[j].database = job[j].database,
           \A d \in Deleter : deleting'[d] # NoBlueprint => deleting[d] = deleting'[d]
    PROVE  Owned'
<1>1. \A b \in Blueprint : (Installers(b))' \subseteq Installers(b)
  BY DEF Installers
<1>2. \A b \in Blueprint : (Deleters(b))' \subseteq Deleters(b)
  BY ConstantAssumption DEF Deleters
<1>3. Alone'
  BY <1>1, <1>2 DEF Owned, Alone
<1>4. \A j \in Job : pc'[j] \in Changing => (ManifestOf(j))' = ManifestOf(j)
  BY DEF ManifestOf
<1>5. Prepared'
  BY <1>4 DEF Owned, Prepared
<1>6. InstalledIsUsable'
  BY DEF Owned, InstalledIsUsable, Usable
<1> QED BY <1>3, <1>5, <1>6 DEF Owned

\* Other threads of a blueprint that has not clashed are elsewhere.
LEMMA NobodyElse ==
    ASSUME Owned, TypeOK, NEW j \in Job, pc[j] \in Changing, ~clash[job[j].bp],
           job[j].bp \in Blueprint
    PROVE  /\ \A k \in Job : pc[k] \in Changing /\ job[k].bp = job[j].bp => k = j
           /\ \A d \in Deleter : deleting[d] # job[j].bp
BY DEF Owned, Alone, Installers, Deleters

\* Every step of a finalizing thread.
LEMMA StepOwned ==
    ASSUME TypeOK, TypeOK', Employed, Owned, NEW j \in Job, FinalizeStep(j)
    PROVE  Owned'
<1>1. PICK b \in Blueprint : b = job[j].bp
  BY KnownRow DEF Employed, InState, FinalizeStep, Assemble, MoveArchive, WriteSidecar,
     WriteDraft, InstallManifest, Prune, Complete, Fail, JobRow
<1>2. CASE Assemble(j)
  BY <1>2, Elsewhere DEF Assemble, TypeOK, Changing
<1>3. CASE Complete(j) \/ Fail(j)
  <2>1. \A k \in Job : pc'[k] \in Changing => k # j /\ pc[k] = pc'[k] /\ job'[k] = job[k]
    BY <1>3 DEF Complete, Fail, End, TypeOK, Changing
  <2> QED BY <1>3, <2>1, Elsewhere DEF Complete, Fail, End
<1>4. CASE MoveArchive(j)
  <2>1. /\ files' = [files EXCEPT ![b] = @ \cup {Archive(j)}]
        /\ pc' = [pc EXCEPT ![j] = "moved"] /\ pc[j] = "assembled"
        /\ NoteClash(b)
        /\ UNCHANGED <<job, draft, manifest, deleting>>
    BY <1>1, <1>4 DEF MoveArchive
  <2>2. \A c \in Blueprint : clash[c] => clash'[c]
    BY <1>1, <2>1 DEF NoteClash, TypeOK
  <2>3. ~clash'[b] => Installers(b) = {} /\ Deleters(b) = {}
    BY <1>1, <2>1 DEF NoteClash, TypeOK
  <2>4. /\ (Installers(b))' = Installers(b) \cup {j}
        /\ \A c \in Blueprint : c # b => (Installers(c))' = Installers(c)
        /\ \A c \in Blueprint : (Deleters(c))' = Deleters(c)
    BY <1>1, <2>1 DEF Installers, Deleters, TypeOK, Changing
  <2>5. Alone'
    BY <1>1, <2>2, <2>3, <2>4 DEF Owned, Alone
  <2>6. \A c \in Blueprint : files[c] \subseteq files'[c] /\ Archive(j) \in files'[b]
    BY <1>1, <2>1 DEF TypeOK
  <2>7. \A k \in Job : (ManifestOf(k))' = ManifestOf(k)
    BY <2>1 DEF ManifestOf
  <2>8. ASSUME NEW k \in Job, pc'[k] \in Changing, ~clash'[job[k].bp], k # j
        PROVE  pc'[k] = pc[k] /\ job[k].bp \in Blueprint /\ ~clash[job[k].bp]
    <3>1. pc'[k] = pc[k] /\ pc[k] # "idle"
      BY <2>1, <2>8 DEF TypeOK, Changing
    <3>2. job[k] \in JobRow
      BY <3>1, KnownRow DEF Employed, InState
    <3> QED BY <2>2, <2>8, <3>1, <3>2 DEF JobRow
  <2>9. Prepared'
    BY <1>1, <2>1, <2>2, <2>6, <2>7, <2>8, ConstantAssumption DEF Owned, Prepared, TypeOK
  <2>10. InstalledIsUsable'
    BY <2>1, <2>2, <2>6 DEF Owned, InstalledIsUsable, Usable
  <2> QED BY <2>5, <2>9, <2>10 DEF Owned
<1>5. ASSUME WriteSidecar(j) \/ WriteDraft(j) \/ InstallManifest(j) \/ Prune(j)
      PROVE  Owned'
  <2>1. /\ pc[j] \in Changing /\ pc[j] # "idle"
        /\ UNCHANGED <<job, deleting, clash>>
        /\ \A k \in Job : k # j => pc'[k] = pc[k]
        /\ \A c \in Blueprint : c # b =>
              files'[c] = files[c] /\ draft'[c] = draft[c] /\ manifest'[c] = manifest[c]
    BY <1>1, <1>5 DEF WriteSidecar, WriteDraft, InstallManifest, Prune, TypeOK, Changing
  <2>2. \A c \in Blueprint :
            (Installers(c))' \subseteq Installers(c) /\ (Deleters(c))' = Deleters(c)
    BY <2>1 DEF Installers, Deleters
  <2>3. Alone'
    BY <2>1, <2>2 DEF Owned, Alone
  <2>4. ~clash[b] =>
          /\ \A k \in Job : pc[k] \in Changing /\ job[k].bp = b => k = j
          /\ \A d \in Deleter : deleting[d] # b
    BY <1>1, <2>1, NobodyElse
  <2>5. \A k \in Job : (ManifestOf(k))' = ManifestOf(k)
    BY <2>1 DEF ManifestOf
  <2>6. \A k \in Job : pc[k] # "idle" => job[k].bp \in Blueprint
    BY KnownRow DEF Employed, InState, JobRow
  <2>7. ASSUME ~clash[b]
        PROVE  /\ Archive(j) \in files'[b]
               /\ pc'[j] \in {"sealed", "drafted", "installed"} /\ job[j].database =>
                      Sidecar(j) \in files'[b]
               /\ pc'[j] = "drafted" => draft'[b] = ManifestOf(j)
               /\ pc'[j] = "installed" => manifest'[b] = ManifestOf(j)
               /\ clash[b] \/ (Usable(b))'
               /\ pc'[j] # "moved"
    <3>1. /\ Archive(j) \in files[b]
          /\ pc[j] # "moved" /\ job[j].database => Sidecar(j) \in files[b]
          /\ pc[j] = "drafted" => draft[b] = ManifestOf(j)
          /\ pc[j] = "installed" => manifest[b] = ManifestOf(j)
          /\ Usable(b)
      BY <1>1, <2>1, <2>7 DEF Owned, Prepared, InstalledIsUsable
    <3>2. ManifestOf(j).payload = j /\ ManifestOf(j).database = job[j].database
      BY DEF ManifestOf
    <3>3. CASE WriteSidecar(j)
      BY <1>1, <3>1, <3>3 DEF WriteSidecar, TypeOK, Usable
    <3>4. CASE WriteDraft(j)
      BY <1>1, <3>1, <3>4 DEF WriteDraft, TypeOK, Usable
    <3>5. CASE InstallManifest(j)
      BY <1>1, <3>1, <3>2, <3>5 DEF InstallManifest, TypeOK, Usable
    <3>6. CASE Prune(j)
      BY <1>1, <3>1, <3>2, <3>6 DEF Prune, TypeOK, Usable, OwnFiles
    <3> QED BY <1>5, <3>3, <3>4, <3>5, <3>6
  <2>8. Prepared'
    <3>1. ASSUME NEW k \in Job, pc'[k] \in Changing, ~clash'[job'[k].bp], k # j
          PROVE  pc[k] = pc'[k] /\ job'[k] = job[k] /\ job[k].bp \in Blueprint
                 /\ job[k].bp # b /\ ~clash[job[k].bp]
      BY <2>1, <2>4, <2>6, <3>1 DEF Changing
    <3>2. ASSUME NEW k \in Job, pc'[k] \in Changing, ~clash'[job'[k].bp]
          PROVE  /\ Archive(k) \in files'[job'[k].bp]
                 /\ pc'[k] # "moved" /\ job'[k].database => Sidecar(k) \in files'[job'[k].bp]
                 /\ pc'[k] = "drafted" => draft'[job'[k].bp] = (ManifestOf(k))'
                 /\ pc'[k] = "installed" => manifest'[job'[k].bp] = (ManifestOf(k))'
      <4>1. CASE k = j
        BY <1>1, <2>1, <2>5, <2>7, <3>2, <4>1 DEF Changing
      <4>2. CASE k # j
        BY <2>1, <2>5, <3>1, <3>2, <4>2 DEF Owned, Prepared
      <4> QED BY <4>1, <4>2
    <3>3. ASSUME NEW d \in Deleter, deleting'[d] # NoBlueprint, ~clash'[deleting'[d]]
          PROVE  manifest'[deleting'[d]] = NoManifest
      BY <2>1, <2>4, <3>3 DEF Owned, Prepared, TypeOK
    <3> QED BY <3>2, <3>3 DEF Prepared
  <2>9. InstalledIsUsable'
    BY <2>1, <2>7 DEF Owned, InstalledIsUsable, Usable
  <2> QED BY <2>3, <2>8, <2>9 DEF Owned
<1> QED BY <1>2, <1>3, <1>4, <1>5 DEF FinalizeStep

\* A deletion begins: it is alone, or the blueprint is marked.
LEMMA UnlinkOwned ==
    ASSUME TypeOK, TypeOK', Employed, Owned, NEW d \in Deleter, NEW b \in Blueprint,
           UnlinkManifest(d, b)
    PROVE  Owned'
<1>1. /\ manifest' = [manifest EXCEPT ![b] = NoManifest]
      /\ deleting' = [deleting EXCEPT ![d] = b]
      /\ deleting[d] = NoBlueprint
      /\ NoteClash(b)
      /\ UNCHANGED <<job, files, draft, pc>>
  BY DEF UnlinkManifest
<1>2. /\ \A c \in Blueprint : clash[c] => clash'[c]
      /\ ~clash'[b] => Installers(b) = {} /\ Deleters(b) = {}
  BY <1>1 DEF NoteClash, TypeOK
<1>3. /\ \A c \in Blueprint : (Installers(c))' = Installers(c)
      /\ \A c \in Blueprint : c # b => (Deleters(c))' = Deleters(c)
      /\ (Deleters(b))' = Deleters(b) \cup {d}
  BY <1>1, ConstantAssumption DEF Installers, Deleters, TypeOK
<1>4. Alone'
  BY <1>2, <1>3 DEF Owned, Alone
<1>5. ASSUME NEW k \in Job, pc[k] \in Changing, ~clash'[job[k].bp]
      PROVE  job[k].bp \in Blueprint /\ job[k].bp # b /\ ~clash[job[k].bp]
  <2>1. job[k].bp \in Blueprint
    BY <1>5, KnownRow DEF Employed, InState, JobRow, Changing
  <2>2. job[k].bp # b
    BY <1>2, <1>5 DEF Installers
  <2> QED BY <1>2, <1>5, <2>1, <2>2
<1>6. \A k \in Job : (ManifestOf(k))' = ManifestOf(k)
  BY <1>1 DEF ManifestOf
<1>7. Prepared'
  BY <1>1, <1>2, <1>5, <1>6 DEF Owned, Prepared, TypeOK
<1>8. InstalledIsUsable'
  BY <1>1, <1>2 DEF Owned, InstalledIsUsable, Usable, TypeOK
<1> QED BY <1>4, <1>7, <1>8 DEF Owned

\* A deletion ends: nothing names the files it removes.
LEMMA RemoveOwned ==
    ASSUME TypeOK, TypeOK', Employed, Owned, NEW d \in Deleter, RemoveFiles(d)
    PROVE  Owned'
<1>1. PICK b \in Blueprint : b = deleting[d]
  BY DEF RemoveFiles, TypeOK
<1>2. /\ files' = [files EXCEPT ![b] = {}]
      /\ deleting' = [deleting EXCEPT ![d] = NoBlueprint]
      /\ UNCHANGED <<job, draft, manifest, pc, clash>>
  BY <1>1 DEF RemoveFiles
<1>3. \A c \in Blueprint : (Installers(c))' = Installers(c)
                           /\ (Deleters(c))' \subseteq Deleters(c)
  BY <1>2, ConstantAssumption DEF Installers, Deleters, TypeOK
<1>4. Alone'
  BY <1>2, <1>3 DEF Owned, Alone
<1>5. ~clash[b] => Installers(b) = {} /\ manifest[b] = NoManifest
  BY <1>1, ConstantAssumption DEF Owned, Alone, Prepared, Deleters
<1>6. ASSUME NEW k \in Job, pc[k] \in Changing, ~clash[job[k].bp]
      PROVE  job[k].bp \in Blueprint /\ job[k].bp # b
  <2>1. job[k].bp \in Blueprint
    BY <1>6, KnownRow DEF Employed, InState, JobRow, Changing
  <2> QED BY <1>5, <1>6, <2>1 DEF Installers
<1>7. \A k \in Job : (ManifestOf(k))' = ManifestOf(k)
  BY <1>2 DEF ManifestOf
<1>8. Prepared'
  BY <1>2, <1>6, <1>7, ConstantAssumption DEF Owned, Prepared, TypeOK
<1>9. InstalledIsUsable'
  BY <1>2, <1>5 DEF Owned, InstalledIsUsable, Usable, TypeOK
<1> QED BY <1>4, <1>8, <1>9 DEF Owned

LEMMA NextOwned ==
    ASSUME TypeOK, TypeOK', Employed, Owned, [Next]_vars PROVE Owned'
<1>1. ASSUME NEW j \in Job,
             \/ \E c \in Connection, b \in Blueprint, replace, database \in BOOLEAN :
                    CreateJob(j, c, b, replace, database)
             \/ \E i \in Chunk : UploadChunk(j, i) \/ TearChunk(j, i)
             \/ FinalizeJob(j) \/ SweepStaging(j) \/ ForgetJob(j)
      PROVE  Owned'
  <2>1. /\ UNCHANGED <<files, draft, manifest, clash, deleting>>
        /\ \/ pc[j] \notin Changing /\ pc'[j] \notin Changing
           \/ UNCHANGED <<job, pc>>
        /\ \A k \in Job : k # j => pc'[k] = pc[k] /\ job'[k] = job[k]
    BY <1>1, AbsenceAssumption DEF CreateJob, UploadChunk, TearChunk, FinalizeJob,
       SweepStaging, ForgetJob, TypeOK, Employed, InState, Known, Changing
  <2> QED BY <2>1, Elsewhere
<1>2. ASSUME NEW j \in Job, FinalizeStep(j) PROVE Owned'
  BY <1>2, StepOwned
<1>3. ASSUME NEW d \in Deleter, RemoveFiles(d) PROVE Owned'
  BY <1>3, RemoveOwned
<1>4. ASSUME NEW d \in Deleter, NEW b \in Blueprint, UnlinkManifest(d, b) PROVE Owned'
  BY <1>4, UnlinkOwned
<1>5. CASE Restart
  <2>1. /\ UNCHANGED <<files, draft, manifest, clash>>
        /\ \A j \in Job : pc'[j] \notin Changing
        /\ \A d \in Deleter : deleting'[d] = NoBlueprint
    BY <1>5 DEF Restart, Changing
  <2> QED BY <2>1, Elsewhere
<1>6. CASE UNCHANGED vars
  BY <1>6, Elsewhere DEF vars
<1> QED BY <1>1, <1>2, <1>3, <1>4, <1>5, <1>6 DEF Next

\* An installed blueprint always has the archive and the sidecar its manifest
\* needs: through failures and restarts at every step, replacements, deletions
\* and sweeps, while its files are changed by one thread at a time.
THEOREM InstallsUsable == Spec => []InstalledIsUsable
<1>1. Init => IInv
  BY InitTyped, InitVouched, InitOwned DEF IInv
<1>2. IInv /\ [Next]_vars => IInv'
  BY NextTyped, NextVouched, NextOwned DEF IInv
<1>3. IInv => InstalledIsUsable
  BY DEF IInv, Owned
<1> QED BY <1>1, <1>2, <1>3, PTL DEF Spec
=============================================================================
