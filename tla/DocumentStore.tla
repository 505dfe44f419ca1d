--------------------------- MODULE DocumentStore ---------------------------
(***************************************************************************)
(* The life of a document: upload request, background ingestion task and   *)
(* delete request, and the four stores they write one call at a time.      *)
(*                                                                         *)
(*   row, job, count   PostgreSQL, as committed (documents, ingestion_jobs)*)
(*   object            S3: is the uploaded file there                      *)
(*   points            Qdrant: the chunks of a document that search returns*)
(*                                                                         *)
(* Every action is the code between two awaits that another coroutine can  *)
(* observe.  PostgreSQL runs at READ COMMITTED: a flushed UPDATE holds the *)
(* row lock until its transaction ends, a second UPDATE of the row waits   *)
(* for it and then overwrites it, and nothing re-reads the row first.      *)
(***************************************************************************)
EXTENDS Naturals

CONSTANTS
    Docs,       \* document ids
    SeedDocs,   \* the demo documents seeds/seed.py creates ready and re-indexes
    Users,      \* people with a verified token
    TenantOf,   \* the tenant claim of each user's token
    Admins,     \* users whose token carries the admin role
    Requests,   \* concurrent DELETE requests
    MaxChunks,  \* bound: chunks one document is split into
    Faults,     \* which environment faults may happen in this instance
    NoDoc, NoUser

FaultKinds == {"storage", "vectors", "database", "restart"}

ASSUME StoreAssumption ==
    /\ SeedDocs \subseteq Docs
    /\ Admins \subseteq Users
    /\ MaxChunks \in Nat \ {0}
    /\ Faults \subseteq FaultKinds
    /\ NoDoc \notin Docs
    /\ NoUser \notin Users
    /\ SeedDocs # {} => Users # {}

VARIABLES
    row,     \* documents.status, "none" before the INSERT commits
    job,     \* ingestion_jobs.status of the document's only job
    count,   \* documents.chunk_count
    owner,   \* documents.owner_id; its tenant is the tenant of the document
    object,  \* is the file in S3
    points,  \* chunk numbers present in the vector collection
    stage,   \* where the upload request, and then its background task, is
    size,    \* chunks the running task has produced (a local of run_ingestion)
    del      \* the DELETE requests: the document and the next await

database == <<row, job, count, owner>>
vars == <<row, job, count, owner, object, points, stage, size, del>>

Chunks == 1 .. MaxChunks
DocumentStatus == {"pending", "processing", "ready", "failed", "deleted"}
JobStatus == {"queued", "extracting", "chunking", "embedding", "completed", "failed"}
RunningJob == {"queued", "extracting", "chunking", "embedding"}

(* "lost": the process or the database failed and no code will run for this *)
(* document again; nothing in the program looks for such documents.         *)
TaskStages == {"queued", "marking", "extracting", "fetching", "chunking", "embedding",
               "upserting", "cleaning", "finishing", "failing", "invalidating"}
Stages == TaskStages \cup {"absent", "inserting", "rejected", "done", "lost"}

DeleteSteps == {"idle", "locking", "locked", "purged", "dropped"}

TypeOK ==
    /\ row \in [Docs -> DocumentStatus \cup {"none"}]
    /\ job \in [Docs -> JobStatus \cup {"none"}]
    /\ count \in [Docs -> 0 .. MaxChunks]
    /\ owner \in [Docs -> Users \cup {NoUser}]
    /\ object \in [Docs -> BOOLEAN]
    /\ points \in [Docs -> SUBSET Chunks]
    /\ stage \in [Docs -> Stages]
    /\ size \in [Docs -> 0 .. MaxChunks]
    /\ del \in [Requests -> [doc : Docs \cup {NoDoc}, step : DeleteSteps]]

(* The seed has run once: its documents are ready and indexed, with no S3   *)
(* object behind them (their source_uri names a bucket that does not exist).*)
(* The one it creates FAILED has no content, so nothing ever indexes it: for*)
(* the stores it is an upload that failed, and SeedDocs does not contain it.*)
Init ==
    /\ row = [d \in Docs |-> IF d \in SeedDocs THEN "ready" ELSE "none"]
    /\ job = [d \in Docs |-> IF d \in SeedDocs THEN "completed" ELSE "none"]
    /\ count = [d \in Docs |-> IF d \in SeedDocs THEN MaxChunks ELSE 0]
    /\ owner \in [Docs -> Users \cup {NoUser}]
    /\ \A d \in Docs : owner[d] = NoUser <=> d \notin SeedDocs
    /\ object = [d \in Docs |-> FALSE]
    /\ points = [d \in Docs |-> IF d \in SeedDocs THEN Chunks ELSE {}]
    /\ stage = [d \in Docs |-> IF d \in SeedDocs THEN "done" ELSE "absent"]
    /\ size = [d \in Docs |-> 0]
    /\ del = [r \in Requests |-> [doc |-> NoDoc, step |-> "idle"]]

----------------------------------------------------------------------------
(* Helpers *)

(* A DELETE request holds the row lock from its flush to its commit.        *)
RowLocked(d) ==
    \E r \in Requests : del[r].doc = d /\ del[r].step \in {"locked", "purged", "dropped"}

GoTo(d, next) == stage' = [stage EXCEPT ![d] = next]

(* The statement was committed; its reply may still be lost, and then the   *)
(* code that follows the commit never runs.                                 *)
Committed(d, next) ==
    \/ GoTo(d, next)
    \/ "database" \in Faults /\ GoTo(d, "lost")

(* Inside run_ingestion the same exception is caught by ingest_document,    *)
(* which may still have a working session to record the failure with.       *)
CommittedInTask(d, next) ==
    \/ Committed(d, next)
    \/ "database" \in Faults /\ GoTo(d, "failing")

(* An outcome of a call that writes `new` over `old` and then fails: the    *)
(* caller sees an exception whether or not the write happened.              *)
FailedWrite(kind, old, new) == IF kind \in Faults THEN {old, new} ELSE {}

----------------------------------------------------------------------------
(* Upload request (documents.py upload_document) *)

(* The object is written before any row exists, under a key that is derived *)
(* from the verified tenant.                                                *)
StoreObject(u, d) ==
    /\ stage[d] = "absent"
    /\ \/ /\ object' = [object EXCEPT ![d] = TRUE]
          /\ owner' = [owner EXCEPT ![d] = u]
          /\ GoTo(d, "inserting")
       \/ /\ \E left \in FailedWrite("storage", FALSE, TRUE) :
                object' = [object EXCEPT ![d] = left]
          /\ GoTo(d, "rejected")
          /\ UNCHANGED owner
    /\ UNCHANGED <<row, job, count, points, size, del>>

(* Document, job and audit row in one transaction; the task is scheduled    *)
(* only after the commit and the refresh have returned.                     *)
InsertRow(d) ==
    /\ stage[d] = "inserting"
    /\ row' = [row EXCEPT ![d] = "pending"]
    /\ job' = [job EXCEPT ![d] = "queued"]
    /\ Committed(d, "queued")
    /\ UNCHANGED <<count, owner, object, points, size, del>>

InsertFails(d) ==
    /\ stage[d] = "inserting"
    /\ "database" \in Faults
    /\ GoTo(d, "rejected")
    /\ UNCHANGED <<database, object, points, size, del>>

----------------------------------------------------------------------------
(* Background task (ingestion/pipeline.py, documents.py _run_ingestion_task) *)

(* Variant: an early return that forgets the job of a deleted document.     *)
StartTaskForgettingJob(d) ==
    /\ stage[d] = "queued"
    /\ GoTo(d, IF row[d] = "deleted" THEN "invalidating" ELSE "marking")
    /\ UNCHANGED <<database, object, points, size, del>>

(* get_document: a row already deleted ends the job, nothing else does.     *)
StartTask(d) ==
    /\ stage[d] = "queued"
    /\ IF row[d] = "deleted"
       THEN job' = [job EXCEPT ![d] = "failed"] /\ Committed(d, "invalidating")
       ELSE job' = job /\ GoTo(d, "marking")
    /\ UNCHANGED <<row, count, owner, object, points, size, del>>

(* The status is written by primary key, whatever it is by now.             *)
MarkProcessing(d) ==
    /\ stage[d] = "marking"
    /\ ~RowLocked(d)
    /\ row' = [row EXCEPT ![d] = "processing"]
    /\ Committed(d, "extracting")
    /\ UNCHANGED <<job, count, owner, object, points, size, del>>

BeginExtracting(d) ==
    /\ stage[d] = "extracting"
    /\ job' = [job EXCEPT ![d] = "extracting"]
    /\ CommittedInTask(d, "fetching")
    /\ UNCHANGED <<row, count, owner, object, points, size, del>>

(* Fetch the file and extract it.  A missing object, an unreadable file, an *)
(* empty extraction and a model or transcription failure all raise.         *)
FetchAndExtract(d) ==
    /\ stage[d] = "fetching"
    /\ \/ object[d] /\ GoTo(d, "chunking")
       \/ GoTo(d, "failing")
    /\ UNCHANGED <<database, object, points, size, del>>

BeginChunking(d) ==
    /\ stage[d] = "chunking"
    /\ job' = [job EXCEPT ![d] = "chunking"]
    /\ \E n \in 0 .. MaxChunks :
          /\ size' = [size EXCEPT ![d] = n]
          /\ CommittedInTask(d, IF n = 0 THEN "failing" ELSE "embedding")
    /\ UNCHANGED <<row, count, owner, object, points, del>>

(* Variant: the status update before the embedding calls is forgotten.      *)
EmbedWithoutStatus(d) ==
    /\ stage[d] = "embedding"
    /\ Committed(d, "upserting") \/ GoTo(d, "failing")
    /\ UNCHANGED <<database, object, points, size, del>>

(* Embedding has no effect on any store; any batch may fail.                *)
Embed(d) ==
    /\ stage[d] = "embedding"
    /\ job' = [job EXCEPT ![d] = "embedding"]
    /\ Committed(d, "upserting") \/ GoTo(d, "failing")
    /\ UNCHANGED <<row, count, owner, object, points, size, del>>

(* Variants: chunks numbered from zero; an upsert error that is not raised. *)
UpsertFromZero(d) ==
    /\ stage[d] = "upserting"
    /\ points' = [points EXCEPT ![d] = @ \cup 0 .. size[d] - 1]
    /\ GoTo(d, "finishing")
    /\ UNCHANGED <<database, object, size, del>>

UpsertIgnoringErrors(d) ==
    /\ stage[d] = "upserting"
    /\ \E landed \in SUBSET (1 .. size[d]) :
          points' = [points EXCEPT ![d] = @ \cup landed]
    /\ GoTo(d, "finishing")
    /\ UNCHANGED <<database, object, size, del>>

(* Nothing re-reads the row before the chunks become searchable.            *)
Upsert(d) ==
    /\ stage[d] = "upserting"
    /\ \/ /\ points' = [points EXCEPT ![d] = @ \cup 1 .. size[d]]
          /\ GoTo(d, "finishing")
       \/ /\ "vectors" \in Faults
          /\ \E landed \in SUBSET (1 .. size[d]) :
                points' = [points EXCEPT ![d] = @ \cup landed]
          /\ GoTo(d, "cleaning")
    /\ UNCHANGED <<database, object, size, del>>

(* The clean-up after a failed upsert is itself a call that may fail.       *)
CleanUp(d) ==
    /\ stage[d] = "cleaning"
    /\ \E left \in {{}} \cup FailedWrite("vectors", points[d], {}) :
          points' = [points EXCEPT ![d] = left]
    /\ GoTo(d, "failing")
    /\ UNCHANGED <<database, object, size, del>>

(* Variants: a success that leaves a deleted row alone but keeps the chunks;*)
(* a success that commits the document and forgets the job.                 *)
FinishUnlessDeleted(d) ==
    /\ stage[d] = "finishing"
    /\ ~RowLocked(d)
    /\ row' = [row EXCEPT ![d] = IF @ = "deleted" THEN @ ELSE "ready"]
    /\ count' = [count EXCEPT ![d] = size[d]]
    /\ job' = [job EXCEPT ![d] = "completed"]
    /\ GoTo(d, "invalidating")
    /\ UNCHANGED <<owner, object, points, size, del>>

FinishForgettingJob(d) ==
    /\ stage[d] = "finishing"
    /\ ~RowLocked(d)
    /\ row' = [row EXCEPT ![d] = "ready"]
    /\ count' = [count EXCEPT ![d] = size[d]]
    /\ GoTo(d, "invalidating")
    /\ UNCHANGED <<job, owner, object, points, size, del>>

(* Document ready, job completed, usage and audit: one transaction.         *)
Finish(d) ==
    /\ stage[d] = "finishing"
    /\ ~RowLocked(d)
    /\ row' = [row EXCEPT ![d] = "ready"]
    /\ count' = [count EXCEPT ![d] = size[d]]
    /\ job' = [job EXCEPT ![d] = "completed"]
    /\ Committed(d, "invalidating")
    /\ UNCHANGED <<owner, object, points, size, del>>

Fail(d) ==
    /\ stage[d] = "failing"
    /\ ~RowLocked(d)
    /\ row' = [row EXCEPT ![d] = "failed"]
    /\ job' = [job EXCEPT ![d] = "failed"]
    /\ Committed(d, "invalidating")
    /\ UNCHANGED <<count, owner, object, points, size, del>>

(* cache.invalidate_tenant, whose errors are swallowed.                     *)
InvalidateAfterTask(d) ==
    /\ stage[d] = "invalidating"
    /\ GoTo(d, "done")
    /\ UNCHANGED <<database, object, points, size, del>>

(* A statement fails and is not applied.  Inside run_ingestion the handler  *)
(* may still manage to record the failure; anywhere else, or when the       *)
(* session itself is broken, the wrapper logs and forgets the document.     *)
DatabaseFails(d) ==
    /\ "database" \in Faults
    /\ \/ /\ stage[d] \in {"queued", "marking", "extracting", "chunking", "embedding",
                           "finishing", "failing"}
          /\ GoTo(d, "lost")
       \/ /\ stage[d] \in {"extracting", "chunking", "embedding"}
          /\ GoTo(d, "failing")
    /\ UNCHANGED <<database, object, points, size, del>>

----------------------------------------------------------------------------
(* Delete request (documents.py delete_document, soft_delete_document) *)

(* A document that is not visible to the caller is refused with no change:  *)
(* the audit row is rolled back.                                            *)
Visible(u, d) ==
    /\ row[d] \notin {"none", "deleted"}
    /\ TenantOf[owner[d]] = TenantOf[u]

MayDelete(u, d) == Visible(u, d) /\ (owner[d] = u \/ u \in Admins)

RequestDelete(r, u, d) ==
    /\ del[r].step = "idle"
    /\ MayDelete(u, d)
    /\ del' = [del EXCEPT ![r] = [doc |-> d, step |-> "locking"]]
    /\ UNCHANGED <<database, object, points, stage, size>>

NextStep(r, next) == del' = [del EXCEPT ![r].step = next]
GiveUp(r) == del' = [del EXCEPT ![r] = [doc |-> NoDoc, step |-> "idle"]]

(* Variant: a shared lock taken with the read and upgraded by the UPDATE.   *)
LockRowAfterSharedRead(r) ==
    /\ del[r].step = "locking"
    /\ ~RowLocked(del[r].doc)
    /\ \A q \in Requests \ {r} : del[q] # del[r]
    /\ NextStep(r, "locked")
    /\ UNCHANGED <<database, object, points, stage, size>>

(* flush: the UPDATE takes the row lock; the status read before is not      *)
(* checked again, so a second delete of the same row goes through as well.  *)
LockRow(r) ==
    /\ del[r].step = "locking"
    /\ ~RowLocked(del[r].doc)
    /\ NextStep(r, "locked")
    /\ UNCHANGED <<database, object, points, stage, size>>

(* Variants: a purge error that is logged and ignored, and a purge that is  *)
(* gathered with the S3 delete instead of preceding it.                     *)
PurgeIgnoringErrors(r) ==
    /\ del[r].step = "locked"
    /\ \E left \in {{}} \cup FailedWrite("vectors", points[del[r].doc], {}) :
          points' = [points EXCEPT ![del[r].doc] = left]
    /\ NextStep(r, "purged")
    /\ UNCHANGED <<database, object, stage, size>>

PurgeGatheredWithDrop(r) ==
    /\ del[r].step = "locked"
    /\ object' = [object EXCEPT ![del[r].doc] = FALSE]
    /\ \/ /\ points' = [points EXCEPT ![del[r].doc] = {}]
          /\ NextStep(r, "purged")
       \/ /\ "vectors" \in Faults
          /\ UNCHANGED points
          /\ GiveUp(r)
    /\ UNCHANGED <<database, stage, size>>

(* A failure here propagates: the transaction rolls back, but the points    *)
(* may be gone already.                                                     *)
PurgeVectors(r) ==
    /\ del[r].step = "locked"
    /\ LET d == del[r].doc
       IN \/ /\ points' = [points EXCEPT ![d] = {}]
             /\ NextStep(r, "purged")
          \/ /\ \E left \in FailedWrite("vectors", points[d], {}) :
                   points' = [points EXCEPT ![d] = left]
             /\ GiveUp(r)
    /\ UNCHANGED <<database, object, stage, size>>

(* gather(..., return_exceptions=True): a failed S3 delete is ignored.      *)
DropObject(r) ==
    /\ del[r].step = "purged"
    /\ LET d == del[r].doc
       IN \E left \in {FALSE} \cup FailedWrite("storage", object[d], FALSE) :
             object' = [object EXCEPT ![d] = left]
    /\ NextStep(r, "dropped")
    /\ UNCHANGED <<database, points, stage, size>>

CommitDelete(r) ==
    /\ del[r].step = "dropped"
    /\ row' = [row EXCEPT ![del[r].doc] = "deleted"]
    /\ GiveUp(r)
    /\ UNCHANGED <<job, count, owner, object, points, stage, size>>

(* The flush or the commit fails: get_session rolls the row back.           *)
DeleteFails(r) ==
    /\ "database" \in Faults
    /\ del[r].step \in {"locking", "dropped"}
    /\ GiveUp(r)
    /\ UNCHANGED <<database, object, points, stage, size>>

----------------------------------------------------------------------------
(* Replacement of the ECS task: the API, Qdrant and Redis containers go     *)
(* together and keep nothing, PostgreSQL and S3 stay.  Before it serves,    *)
(* the new task runs the seed, which indexes the seed documents again - all *)
(* of them whatever their row says, or a part of them if the seed fails.    *)
Reindexed(done) ==
    [d \in Docs |-> IF d \in done THEN 1 .. count[d] ELSE {}]

Restart ==
    /\ "restart" \in Faults
    /\ \E done \in SUBSET SeedDocs : points' = Reindexed(done)
    /\ stage' = [d \in Docs |->
                    CASE stage[d] = "inserting" -> "rejected"
                      [] stage[d] \in TaskStages -> "lost"
                      [] OTHER -> stage[d]]
    /\ del' = [r \in Requests |-> [doc |-> NoDoc, step |-> "idle"]]
    /\ UNCHANGED <<database, object, size>>

----------------------------------------------------------------------------
UploadStep(d) == InsertRow(d) \/ InsertFails(d)

(* The steps of a task that never wait, and those that wait for a row lock. *)
TaskStep(d) ==
    \/ StartTask(d) \/ BeginExtracting(d) \/ FetchAndExtract(d)
    \/ BeginChunking(d) \/ Embed(d) \/ Upsert(d) \/ CleanUp(d)
    \/ InvalidateAfterTask(d)
LockedTaskStep(d) == MarkProcessing(d) \/ Finish(d) \/ Fail(d)

DeleteStep(r) == PurgeVectors(r) \/ DropObject(r) \/ CommitDelete(r)

Next ==
    \/ \E d \in Docs, u \in Users : StoreObject(u, d)
    \/ \E d \in Docs : UploadStep(d) \/ TaskStep(d) \/ LockedTaskStep(d) \/ DatabaseFails(d)
    \/ \E r \in Requests, u \in Users, d \in Docs : RequestDelete(r, u, d)
    \/ \E r \in Requests : LockRow(r) \/ DeleteStep(r) \/ DeleteFails(r)
    \/ Restart

Spec == Init /\ [][Next]_vars

(* Coroutines that can run do run, and PostgreSQL grants a contended row    *)
(* lock in the order of the queue, so a waiting statement is not overtaken  *)
(* for ever.  Users owe the program nothing.                                *)
Fairness ==
    /\ \A d \in Docs : /\ WF_vars(UploadStep(d)) /\ WF_vars(TaskStep(d))
                       /\ SF_vars(LockedTaskStep(d))
    /\ \A r \in Requests : WF_vars(DeleteStep(r)) /\ SF_vars(LockRow(r))

FairSpec == Spec /\ Fairness

----------------------------------------------------------------------------
(* Properties *)

(* The two rows the client sees end together, although a delete may commit  *)
(* between any two commits of the task: a completed job has a document that *)
(* is ready or was deleted since, a failed job one that failed or was       *)
(* deleted, and no document is ready or failed without its job saying so.   *)
(* The risk is the separate commits of set_job_status and the overwrite of  *)
(* documents.status by primary key.                                         *)
JobMirrorsDocument ==
    \A d \in Docs :
        /\ job[d] = "completed" => row[d] \in {"ready", "deleted"}
        /\ job[d] = "failed" => row[d] \in {"failed", "deleted"}
        /\ row[d] = "ready" => job[d] = "completed"
        /\ row[d] = "failed" => job[d] = "failed"

(* What the place of the task says of the job, and what the job says of the *)
(* document: the inductive strengthening of JobMirrorsDocument.             *)
JobAt ==
    [st \in Stages |->
        CASE st \in {"absent", "inserting", "rejected"}     -> {"none"}
          [] st \in {"queued", "marking", "extracting"}     -> {"queued"}
          [] st \in {"fetching", "chunking"}                -> {"extracting"}
          [] st = "embedding"                               -> {"chunking"}
          [] st \in {"upserting", "cleaning", "finishing"}  -> {"embedding"}
          [] st = "failing"                                 -> RunningJob
          [] st \in {"invalidating", "done"}                -> {"completed", "failed"}
          [] OTHER                                          -> JobStatus]

Paired(status, progress) ==
    \/ status = "none"       /\ progress = "none"
    \/ status = "pending"    /\ progress = "queued"
    \/ status = "processing" /\ progress \in RunningJob
    \/ status = "ready"      /\ progress = "completed"
    \/ status = "failed"     /\ progress = "failed"
    \/ status = "deleted"    /\ progress # "none"

StatusesInStep ==
    /\ \A d \in Docs :
          /\ job[d] \in JobAt[stage[d]]
          /\ Paired(row[d], job[d])
          /\ stage[d] = "extracting" => row[d] \in {"processing", "deleted"}
    /\ \A r \in Requests : del[r].step # "idle" => del[r].doc \in Docs /\ row[del[r].doc] # "none"

(* "A document is not deleted while its chunks remain searchable"           *)
(* (documents.py delete_document), whenever documents are deleted and       *)
(* whatever fails: the chunks of a deleted document are only there while its*)
(* task still runs, or when a failure has cut the task off.  It holds       *)
(* because the task then overwrites the deleted status.  (A restart may     *)
(* index a deleted seed document again.)                                    *)
DeletedIsPurgedAtRest ==
    \A d \in Docs \ SeedDocs :
        row[d] = "deleted" /\ stage[d] \notin TaskStages \cup {"lost"} => points[d] = {}

(* Every accepted upload reaches an end the client can see, unless its task *)
(* is lost with the process or with the database: no task waits for ever on *)
(* the row lock of delete requests, however often they retry, and no failed *)
(* call but those leaves a job behind.                                      *)
JobEnds ==
    \A d \in Docs :
        job[d] = "queued" ~> job[d] \in {"completed", "failed"} \/ stage[d] = "lost"

(* Every delete request is answered, whatever fails: two deletes of one     *)
(* document and the task that ingests it do not block each other for ever.  *)
DeleteEnds ==
    \A r \in Requests : del[r].step # "idle" ~> del[r].step = "idle"

(* What the client may observe of a document: DocumentContract.             *)
Contract == INSTANCE DocumentContract
ImplementsContract == Contract!Spec
=============================================================================
