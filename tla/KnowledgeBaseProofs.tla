------------------------ MODULE KnowledgeBaseProofs ------------------------
(***************************************************************************)
(* Theorems about DocumentStore, and about KnowledgeBase, which extends    *)
(* it, for any documents, users, questions, requests, deletes, chunks and  *)
(* faults.  Those about the composition use what has been proved of its    *)
(* parts: of the document store because every step of the composition is   *)
(* one of its steps, of the cache because every step but a restart is one  *)
(* of its steps.                                                           *)
(***************************************************************************)
EXTENDS KnowledgeBase, DocumentHistory, TLAPS

----------------------------------------------------------------------------
(* The document store                                                       *)

(* Every parameter of the actions has its type; used by every step proof.   *)
USE DEF database

(* The types are preserved by every step of the system.                     *)
THEOREM TypeCorrect == Spec => []TypeOK
<1> USE StoreAssumption DEF DocumentStatus, JobStatus, Stages, TaskStages, DeleteSteps, Chunks
<1>1. Init => TypeOK
  BY SMTT(30) DEF Init, TypeOK
<1>2. TypeOK /\ [Next]_vars => TypeOK'
  <2> SUFFICES ASSUME TypeOK, [Next]_vars PROVE TypeOK'
    OBVIOUS
  <2> USE DEF TypeOK, GoTo, Committed, CommittedInTask, FailedWrite, NextStep, GiveUp
  <2>1. ASSUME NEW d \in Docs, NEW u \in Users, StoreObject(u, d) PROVE TypeOK'
    <3>1. object' \in [Docs -> BOOLEAN]
      BY <2>1, Zenon DEF StoreObject
    <3>2. \E next \in {"inserting", "rejected"} : stage' = [stage EXCEPT ![d] = next]
      BY <2>1, Zenon DEF StoreObject
    <3>3. owner' = owner \/ owner' = [owner EXCEPT ![d] = u]
      BY <2>1, Zenon DEF StoreObject
    <3>4. UNCHANGED <<row, job, count, points, size, del>>
      BY <2>1, Zenon DEF StoreObject
    <3> QED
      BY <3>1, <3>2, <3>3, <3>4
  <2>2. ASSUME NEW d \in Docs, UploadStep(d) PROVE TypeOK'
    BY <2>2 DEF UploadStep, InsertRow, InsertFails
  <2>3. ASSUME NEW d \in Docs, TaskStep(d) PROVE TypeOK'
    <3>1. CASE StartTask(d)
      BY <3>1 DEF StartTask
    <3>2. CASE BeginExtracting(d)
      BY <3>2 DEF BeginExtracting
    <3>3. CASE FetchAndExtract(d)
      BY <3>3 DEF FetchAndExtract
    <3>4. CASE BeginChunking(d)
      BY <3>4 DEF BeginChunking
    <3>5. CASE Embed(d)
      BY <3>5 DEF Embed
    <3>6. CASE Upsert(d)
      <4>1. points' \in [Docs -> SUBSET Chunks]
        <5>1. 1 .. size[d] \subseteq Chunks
          OBVIOUS
        <5>2. PICK new \in SUBSET (1 .. size[d]) : points' = [points EXCEPT ![d] = @ \cup new]
          BY <3>6, Zenon DEF Upsert
        <5> QED
          BY <5>1, <5>2
      <4> QED
        BY <3>6, <4>1 DEF Upsert
    <3>7. CASE CleanUp(d)
      BY <3>7 DEF CleanUp
    <3>8. CASE InvalidateAfterTask(d)
      BY <3>8 DEF InvalidateAfterTask
    <3> QED
      BY <2>3, <3>1, <3>2, <3>3, <3>4, <3>5, <3>6, <3>7, <3>8 DEF TaskStep
  <2>4. ASSUME NEW d \in Docs, LockedTaskStep(d) PROVE TypeOK'
    BY <2>4 DEF LockedTaskStep, MarkProcessing, Finish, Fail
  <2>5. ASSUME NEW d \in Docs, DatabaseFails(d) PROVE TypeOK'
    BY <2>5 DEF DatabaseFails
  <2>6. ASSUME NEW r \in Requests, NEW u \in Users, NEW d \in Docs, RequestDelete(r, u, d)
        PROVE  TypeOK'
    BY <2>6 DEF RequestDelete
  <2>7. ASSUME NEW r \in Requests, LockRow(r) \/ DeleteFails(r) PROVE TypeOK'
    BY <2>7 DEF LockRow, DeleteFails
  <2>8. ASSUME NEW r \in Requests, DeleteStep(r) PROVE TypeOK'
    <3>1. CASE PurgeVectors(r)
      <4> DEFINE d == del[r].doc
      <4>1. PICK left \in {points[d], {}} : points' = [points EXCEPT ![d] = left]
        BY <3>1 DEF PurgeVectors
      <4>2. points' \in [Docs -> SUBSET Chunks]
        BY <4>1
      <4>3. NextStep(r, "purged") \/ GiveUp(r)
        BY <3>1, Zenon DEF PurgeVectors
      <4>4. del' \in [Requests -> [doc : Docs \cup {NoDoc}, step : DeleteSteps]]
        <5>1. CASE NextStep(r, "purged")
          BY <5>1
        <5>2. CASE GiveUp(r)
          BY <5>2
        <5> QED
          BY <4>3, <5>1, <5>2
      <4>5. UNCHANGED <<row, job, count, owner, object, stage, size>>
        BY <3>1, Zenon DEF PurgeVectors
      <4> QED
        BY <4>2, <4>4, <4>5
    <3>2. CASE DropObject(r)
      <4>1. object' \in [Docs -> BOOLEAN]
        BY <3>2, Zenon DEF DropObject
      <4> QED
        BY <3>2, <4>1 DEF DropObject
    <3>3. CASE CommitDelete(r)
      BY <3>3 DEF CommitDelete
    <3> QED
      BY <2>8, <3>1, <3>2, <3>3 DEF DeleteStep
  <2>9. CASE Restart
    BY <2>9 DEF Restart, Reindexed
  <2>10. CASE UNCHANGED vars
    BY <2>10 DEF vars
  <2> QED
    BY <2>1, <2>2, <2>3, <2>4, <2>5, <2>6, <2>7, <2>8, <2>9, <2>10 DEF Next
<1> QED
  BY <1>1, <1>2, PTL DEF Spec

----------------------------------------------------------------------------
(* The two rows of a document, seen by a client that polls them             *)

(* JobAt as a set of implications, the form the step proofs use.            *)
LEMMA JobAtStage ==
    ASSUME NEW st \in Stages
    PROVE  /\ st \in {"absent", "inserting", "rejected"} => JobAt[st] = {"none"}
           /\ st \in {"queued", "marking", "extracting"} => JobAt[st] = {"queued"}
           /\ st \in {"fetching", "chunking"} => JobAt[st] = {"extracting"}
           /\ st = "embedding" => JobAt[st] = {"chunking"}
           /\ st \in {"upserting", "cleaning", "finishing"} => JobAt[st] = {"embedding"}
           /\ st = "failing" => JobAt[st] = RunningJob
           /\ st \in {"invalidating", "done"} => JobAt[st] = {"completed", "failed"}
           /\ st = "lost" => JobAt[st] = JobStatus
BY SMTT(30) DEF JobAt, Stages, TaskStages

(* StatusesInStep, one document at a time.                                  *)
InStep(d) ==
    /\ job[d] \in JobAt[stage[d]]
    /\ Paired(row[d], job[d])
    /\ stage[d] = "extracting" => row[d] \in {"processing", "deleted"}

(* A step of the upload or of the task of document d keeps its two rows in  *)
(* step, whatever deletes did to the document row before.                   *)
LEMMA TaskKeepsInStep ==
    ASSUME TypeOK, NEW d \in Docs, InStep(d),
           UploadStep(d) \/ TaskStep(d) \/ LockedTaskStep(d) \/ DatabaseFails(d)
    PROVE  InStep(d)'
<1> USE JobAtStage DEF InStep, Paired, TypeOK, GoTo, Committed, CommittedInTask,
                       Stages, TaskStages, RunningJob, JobStatus
<1>1. CASE UploadStep(d)
  BY <1>1 DEF UploadStep, InsertRow, InsertFails
<1>2. CASE StartTask(d)
  BY <1>2 DEF StartTask
<1>3. CASE BeginExtracting(d)
  BY <1>3 DEF BeginExtracting
<1>4. CASE FetchAndExtract(d)
  BY <1>4 DEF FetchAndExtract
<1>5. CASE BeginChunking(d)
  <2>1. PICK next \in {"failing", "embedding", "lost"} : stage' = [stage EXCEPT ![d] = next]
    BY <1>5 DEF BeginChunking
  <2> QED
    BY <1>5, <2>1 DEF BeginChunking
<1>6. CASE Embed(d)
  BY <1>6 DEF Embed
<1>7. CASE Upsert(d) \/ CleanUp(d) \/ InvalidateAfterTask(d)
  BY <1>7 DEF Upsert, CleanUp, InvalidateAfterTask
<1>8. CASE LockedTaskStep(d)
  BY <1>8 DEF LockedTaskStep, MarkProcessing, Finish, Fail
<1>9. CASE DatabaseFails(d)
  BY <1>9 DEF DatabaseFails
<1> QED
  BY <1>1, <1>2, <1>3, <1>4, <1>5, <1>6, <1>7, <1>8, <1>9 DEF TaskStep

(* A step about document d changes nothing of another document.             *)
LEMMA TaskIsLocal ==
    ASSUME TypeOK, NEW d \in Docs, NEW e \in Docs \ {d},
           (\E u \in Users : StoreObject(u, d))
             \/ UploadStep(d) \/ TaskStep(d) \/ LockedTaskStep(d) \/ DatabaseFails(d)
    PROVE  /\ row'[e] = row[e] /\ job'[e] = job[e] /\ stage'[e] = stage[e]
           /\ points'[e] = points[e] /\ object'[e] = object[e] /\ size'[e] = size[e]
<1> USE DEF TypeOK, GoTo, Committed, CommittedInTask
<1>1. CASE \E u \in Users : StoreObject(u, d)
  BY <1>1 DEF StoreObject
<1>2. CASE UploadStep(d)
  BY <1>2 DEF UploadStep, InsertRow, InsertFails
<1>3. CASE TaskStep(d)
  BY <1>3 DEF TaskStep, StartTask, BeginExtracting, FetchAndExtract, BeginChunking, Embed,
              Upsert, CleanUp, InvalidateAfterTask
<1>4. CASE LockedTaskStep(d)
  BY <1>4 DEF LockedTaskStep, MarkProcessing, Finish, Fail
<1>5. CASE DatabaseFails(d)
  BY <1>5 DEF DatabaseFails
<1> QED
  BY <1>1, <1>2, <1>3, <1>4, <1>5

(* Neither does a step of a delete request, except for the one status it    *)
(* writes.                                                                  *)
LEMMA DeleteIsLocal ==
    ASSUME TypeOK, NEW r \in Requests, NEW e \in Docs,
           (\E u \in Users, d \in Docs : RequestDelete(r, u, d))
             \/ LockRow(r) \/ DeleteStep(r) \/ DeleteFails(r)
    PROVE  /\ job'[e] = job[e] /\ stage'[e] = stage[e]
           /\ \/ row'[e] = row[e]
              \/ del[r].step = "dropped" /\ del[r].doc = e /\ row'[e] = "deleted"
BY DEF TypeOK, RequestDelete, LockRow, DeleteStep, DeleteFails, PurgeVectors, DropObject,
       CommitDelete, GiveUp

(* The strengthened invariant of the two statuses.                          *)
THEOREM StatusesStayInStep == Spec => []StatusesInStep
<1>1. Init => StatusesInStep
  <2> SUFFICES ASSUME Init PROVE StatusesInStep
    OBVIOUS
  <2>1. JobAt["done"] = {"completed", "failed"} /\ JobAt["absent"] = {"none"}
    BY JobAtStage DEF Stages
  <2>2. \A r \in Requests : del[r].step = "idle"
    BY DEF Init
  <2>3. \A d \in Docs :
            \/ row[d] = "ready" /\ job[d] = "completed" /\ stage[d] = "done"
            \/ row[d] = "none" /\ job[d] = "none" /\ stage[d] = "absent"
    BY DEF Init
  <2> QED
    BY <2>1, <2>2, <2>3 DEF StatusesInStep, Paired
<1>2. TypeOK /\ TypeOK' /\ StatusesInStep /\ [Next]_vars => StatusesInStep'
  <2> SUFFICES ASSUME TypeOK, TypeOK', StatusesInStep, [Next]_vars
               PROVE  StatusesInStep'
    OBVIOUS
  <2> DEFINE Active(r) == del[r].step # "idle" => del[r].doc \in Docs /\ row[del[r].doc] # "none"
  <2>1. /\ \A d \in Docs : InStep(d)
        /\ \A r \in Requests : Active(r)
    BY DEF StatusesInStep, InStep
  <2>2. SUFFICES (\A d \in Docs : InStep(d)') /\ (\A r \in Requests : Active(r)')
    BY DEF StatusesInStep, InStep
  <2>3. ASSUME NEW d \in Docs, NEW u \in Users, StoreObject(u, d)
        PROVE  (\A e \in Docs : InStep(e)') /\ (\A r \in Requests : Active(r)')
    <3>1. UNCHANGED <<row, job, del>> /\ stage[d] = "absent"
      BY <2>3, Zenon DEF StoreObject
    <3>2. \E next \in {"inserting", "rejected"} : stage' = [stage EXCEPT ![d] = next]
      BY <2>3, Zenon DEF StoreObject, GoTo
    <3>3. JobAt["absent"] = {"none"} /\ JobAt["inserting"] = {"none"} /\ JobAt["rejected"] = {"none"}
      BY JobAtStage DEF Stages
    <3> QED
      BY <2>1, <3>1, <3>2, <3>3 DEF InStep, TypeOK
  <2>4. ASSUME NEW d \in Docs,
               UploadStep(d) \/ TaskStep(d) \/ LockedTaskStep(d) \/ DatabaseFails(d)
        PROVE  (\A e \in Docs : InStep(e)') /\ (\A r \in Requests : Active(r)')
    <3>1. \A e \in Docs : InStep(e)'
      <4>1. InStep(d)'
        BY <2>1, <2>4, TaskKeepsInStep
      <4>2. ASSUME NEW e \in Docs \ {d} PROVE InStep(e)'
        BY <2>1, <2>4, TaskIsLocal DEF InStep
      <4> QED
        BY <4>1, <4>2
    <3>2. UNCHANGED del
      BY <2>4 DEF UploadStep, TaskStep, LockedTaskStep, DatabaseFails, InsertRow, InsertFails,
                  StartTask, BeginExtracting, FetchAndExtract, BeginChunking, Embed, Upsert,
                  CleanUp, InvalidateAfterTask, MarkProcessing, Finish, Fail
    <3>3. \A e \in Docs : row[e] # "none" => row'[e] # "none"
      <4>1. row[d] # "none" => row'[d] # "none"
        BY <2>4 DEF TypeOK, UploadStep, TaskStep, LockedTaskStep, DatabaseFails, InsertRow,
                  InsertFails, StartTask, BeginExtracting, FetchAndExtract, BeginChunking,
                  Embed, Upsert, CleanUp, InvalidateAfterTask, MarkProcessing, Finish, Fail,
                  database
      <4> QED
        BY <2>4, <4>1, TaskIsLocal
    <3> QED
      BY <2>1, <3>1, <3>2, <3>3
  <2>5. ASSUME NEW r \in Requests,
               (\E u \in Users, d \in Docs : RequestDelete(r, u, d))
                 \/ LockRow(r) \/ DeleteStep(r) \/ DeleteFails(r)
        PROVE  (\A e \in Docs : InStep(e)') /\ (\A q \in Requests : Active(q)')
    <3>1. \A e \in Docs : InStep(e)'
      <4> SUFFICES ASSUME NEW e \in Docs PROVE InStep(e)'
        OBVIOUS
      <4>1. CASE row'[e] = row[e]
        BY <2>1, <2>5, <4>1, DeleteIsLocal DEF InStep
      <4>2. CASE del[r].step = "dropped" /\ del[r].doc = e /\ row'[e] = "deleted"
        <5>1. job[e] # "none"
          BY <2>1, <4>2 DEF InStep, Paired, RunningJob
        <5> QED
          BY <2>1, <2>5, <4>2, <5>1, DeleteIsLocal DEF InStep, Paired
      <4> QED
        BY <2>5, <4>1, <4>2, DeleteIsLocal
    <3>2. ASSUME NEW q \in Requests PROVE Active(q)'
      <4>1. \/ del'[q].step = "idle" \/ del'[q] = del[q]
            \/ del'[q].doc = del[q].doc /\ del[q].step # "idle"
            \/ del'[q].doc \in Docs /\ row'[del'[q].doc] # "none"
        <5>1. CASE \E u \in Users, d \in Docs : RequestDelete(r, u, d)
          BY <5>1 DEF TypeOK, RequestDelete, MayDelete, Visible
        <5>2. CASE LockRow(r) \/ DeleteFails(r) \/ DropObject(r) \/ CommitDelete(r)
          <6>1. /\ GiveUp(r) \/ NextStep(r, "locked") \/ NextStep(r, "dropped")
                /\ del[r].step # "idle"
            BY <5>2, Zenon DEF LockRow, DeleteFails, DropObject, CommitDelete
          <6> QED
            BY <6>1 DEF TypeOK, GiveUp, NextStep
        <5>3. CASE PurgeVectors(r)
          <6>1. (NextStep(r, "purged") \/ GiveUp(r)) /\ del[r].step = "locked"
            BY <5>3, Zenon DEF PurgeVectors
          <6> QED
            BY <6>1 DEF TypeOK, GiveUp, NextStep
        <5> QED
          BY <2>5, <5>1, <5>2, <5>3 DEF DeleteStep
      <4>2. \A e \in Docs : row[e] # "none" => row'[e] # "none"
        BY <2>5, DeleteIsLocal
      <4> QED
        BY <2>1, <4>1, <4>2
    <3> QED
      BY <3>1, <3>2
  <2>6. CASE Restart
    <3>1. UNCHANGED <<row, job>> /\ \A r \in Requests : del'[r].step = "idle"
      BY <2>6 DEF Restart, database
    <3>2. ASSUME NEW e \in Docs PROVE InStep(e)'
      <4>1. \/ stage'[e] = stage[e]
            \/ stage[e] = "inserting" /\ stage'[e] = "rejected"
            \/ stage[e] \in TaskStages /\ stage'[e] = "lost"
        BY <2>6 DEF Restart, TaskStages
      <4>2. job[e] \in JobAt[stage'[e]]
        BY <2>1, <4>1, JobAtStage DEF InStep, TypeOK, Stages, TaskStages, RunningJob, JobStatus
      <4> QED
        BY <2>1, <3>1, <4>1, <4>2 DEF InStep
    <3> QED
      BY <3>1, <3>2
  <2>7. CASE UNCHANGED vars
    BY <2>1, <2>7 DEF vars, InStep
  <2> QED
    BY <2>3, <2>4, <2>5, <2>6, <2>7 DEF Next
<1> QED
  BY <1>1, <1>2, TypeCorrect, PTL DEF Spec

(* A completed job has a document that is ready or was deleted since, a     *)
(* failed one a document that failed or was deleted, and never the reverse. *)
THEOREM JobsMirrorDocuments == Spec => []JobMirrorsDocument
<1>1. StatusesInStep => JobMirrorsDocument
  BY DEF StatusesInStep, Paired, JobMirrorsDocument, RunningJob
<1> QED
  BY <1>1, StatusesStayInStep, PTL

(* DocumentStore implements DocumentContract: for the client that polls,    *)
(* every step of the program is one of the contract's steps or invisible.   *)
THEOREM StoreImplementsContract == Spec => ImplementsContract
<1>1. Init => Contract!Init
  BY StoreAssumption DEF Init, Contract!Init
<1>2. TypeOK /\ StatusesInStep /\ [Next]_vars => [Contract!Next]_(Contract!contractVars)
  <2> SUFFICES ASSUME TypeOK, StatusesInStep, [Next]_vars
               PROVE  [Contract!Next]_(Contract!contractVars)
    OBVIOUS
  <2> DEFINE Same == UNCHANGED <<row, job>>
  <2>1. ASSUME NEW d \in Docs PROVE InStep(d)
    BY DEF StatusesInStep, InStep
  <2>2. Same => [Contract!Next]_(Contract!contractVars)
    BY DEF Contract!contractVars
  <2>3. ASSUME NEW d \in Docs,
               \/ Contract!Register(d) \/ Contract!Begin(d) \/ Contract!Progress(d)
               \/ Contract!Succeed(d) \/ Contract!Break(d) \/ Contract!NothingToDo(d)
               \/ Contract!Delete(d)
        PROVE  [Contract!Next]_(Contract!contractVars)
    BY <2>3 DEF Contract!Next
  <2>4. ASSUME NEW d \in Docs, UploadStep(d) PROVE Same \/ Contract!Register(d)
    <3>1. stage[d] = "inserting" => row[d] = "none" /\ job[d] = "none"
      BY <2>1, JobAtStage DEF InStep, Paired, TypeOK, Stages, RunningJob
    <3> QED
      BY <2>4, <3>1 DEF UploadStep, InsertRow, InsertFails, Contract!Register, Contract!Becomes
  <2>5. ASSUME NEW d \in Docs, TaskStep(d)
        PROVE  Same \/ Contract!Progress(d) \/ Contract!NothingToDo(d)
    <3>1. /\ stage[d] \in {"queued", "extracting"} => job[d] = "queued"
          /\ stage[d] = "chunking" => job[d] = "extracting"
          /\ stage[d] = "embedding" => job[d] = "chunking"
      BY <2>1, JobAtStage DEF InStep, TypeOK, Stages, TaskStages
    <3>2. row = [row EXCEPT ![d] = row[d]]
      BY DEF TypeOK
    <3>3. CASE StartTask(d)
      BY <3>1, <3>2, <3>3 DEF StartTask, Contract!NothingToDo, Contract!Becomes
    <3>4. CASE BeginExtracting(d) \/ BeginChunking(d) \/ Embed(d)
      BY <3>1, <3>2, <3>4 DEF BeginExtracting, BeginChunking, Embed, Contract!Progress, Contract!Becomes
    <3>5. CASE FetchAndExtract(d) \/ Upsert(d) \/ CleanUp(d) \/ InvalidateAfterTask(d)
      BY <3>5 DEF FetchAndExtract, Upsert, CleanUp, InvalidateAfterTask
    <3> QED
      BY <2>5, <3>3, <3>4, <3>5 DEF TaskStep
  <2>6. ASSUME NEW d \in Docs, LockedTaskStep(d)
        PROVE  Contract!Begin(d) \/ Contract!Succeed(d) \/ Contract!Break(d)
    <3>1. /\ stage[d] = "marking" => job[d] = "queued"
          /\ stage[d] = "finishing" => job[d] = "embedding"
          /\ stage[d] = "failing" => job[d] \in RunningJob
      BY <2>1, JobAtStage DEF InStep, TypeOK, Stages, TaskStages
    <3>2. MarkProcessing(d) => job = [job EXCEPT ![d] = "queued"]
      BY <3>1 DEF TypeOK, MarkProcessing
    <3> QED
      BY <2>6, <3>1, <3>2 DEF LockedTaskStep, MarkProcessing, Finish, Fail, Contract!Begin,
                  Contract!Succeed, Contract!Break, Contract!Becomes, RunningJob
  <2>7. ASSUME NEW r \in Requests, DeleteStep(r)
        PROVE  Same \/ \E d \in Docs : Contract!Delete(d)
    <3>1. CASE CommitDelete(r)
      <4>1. del[r].doc \in Docs /\ row[del[r].doc] # "none"
        BY <3>1 DEF StatusesInStep, CommitDelete
      <4>2. job = [job EXCEPT ![del[r].doc] = job[del[r].doc]]
        BY DEF TypeOK
      <4> QED
        BY <3>1, <4>1, <4>2 DEF CommitDelete, Contract!Delete, Contract!Becomes
    <3> QED
      BY <2>7, <3>1 DEF DeleteStep, PurgeVectors, DropObject
  <2>8. CASE \E d \in Docs, u \in Users : StoreObject(u, d)
    BY <2>2, <2>8 DEF StoreObject
  <2>9. CASE \E d \in Docs : DatabaseFails(d)
    BY <2>2, <2>9 DEF DatabaseFails
  <2>10. CASE \E r \in Requests : (\E u \in Users, d \in Docs : RequestDelete(r, u, d))
                                  \/ LockRow(r) \/ DeleteFails(r)
    BY <2>2, <2>10 DEF RequestDelete, LockRow, DeleteFails
  <2>11. CASE Restart \/ UNCHANGED vars
    BY <2>2, <2>11 DEF Restart, vars
  <2> QED
    BY <2>2, <2>3, <2>4, <2>5, <2>6, <2>7, <2>8, <2>9, <2>10, <2>11 DEF Next
<1> QED
  BY <1>1, <1>2, TypeCorrect, StatusesStayInStep, PTL DEF Spec, ImplementsContract, Contract!Spec

----------------------------------------------------------------------------
(* What search returns, of every document that nothing has disturbed        *)

(* No step of an upload or of a task disturbs its own document, and outside *)
(* the window a task leaves the stores alone.                               *)
LEMMA TaskKeepsQuiet ==
    ASSUME TypeOK, NEW d \in Docs, QuietDoc(d),
           UploadStep(d) \/ TaskStep(d) \/ LockedTaskStep(d) \/ DatabaseFails(d)
    PROVE  /\ QuietDoc(d)'
           /\ stage[d] # "done"
           /\ stage[d] \notin Window => points' = points
           /\ row'[d] = "deleted" => row[d] = "deleted"
           /\ UNCHANGED del
<1> USE DEF QuietDoc, TypeOK, GoTo, Committed, CommittedInTask, Window, TaskStages
<1>1. CASE UploadStep(d)
  BY <1>1 DEF UploadStep, InsertRow, InsertFails
<1>2. CASE StartTask(d)
  BY <1>2 DEF StartTask
<1>3. CASE BeginExtracting(d) \/ FetchAndExtract(d) \/ Embed(d)
  BY <1>3 DEF BeginExtracting, FetchAndExtract, Embed
<1>4. CASE BeginChunking(d)
  BY <1>4 DEF BeginChunking
<1>5. CASE Upsert(d)
  <2>1. \/ stage'[d] = "cleaning"
        \/ stage'[d] = "finishing" /\ points'[d] = points[d] \cup 1 .. size[d]
    BY <1>5 DEF Upsert
  <2> QED
    BY <1>5, <2>1 DEF Upsert
<1>6. CASE CleanUp(d) \/ InvalidateAfterTask(d)
  BY <1>6 DEF CleanUp, InvalidateAfterTask
<1>7. CASE LockedTaskStep(d)
  BY <1>7 DEF LockedTaskStep, MarkProcessing, Finish, Fail
<1>8. CASE DatabaseFails(d)
  BY <1>8 DEF DatabaseFails
<1> QED
  BY <1>1, <1>2, <1>3, <1>4, <1>5, <1>6, <1>7, <1>8 DEF TaskStep

(* A delete request touches the stores of its own document only, and only   *)
(* while it holds the row.                                                  *)
LEMMA DeleteTouches ==
    ASSUME TypeOK, NEW r \in Requests, NEW e \in Docs,
           LockRow(r) \/ DeleteStep(r) \/ DeleteFails(r)
    PROVE  /\ UNCHANGED <<stage, size>>
           /\ points'[e] = points[e] \/ (points'[e] = {} /\ del[r].doc = e)
           /\ row'[e] = row[e] \/ (row'[e] = "deleted" /\ del[r].doc = e)
           /\ object'[e] = object[e] \/ del[r].doc = e
           /\ \/ del[r].step \in {"locked", "purged", "dropped"}
              \/ UNCHANGED <<row, points, object>>
           /\ del[r].step # "idle"
<1> USE DEF TypeOK
<1>1. CASE LockRow(r) \/ DeleteFails(r) \/ CommitDelete(r)
  BY <1>1 DEF LockRow, DeleteFails, CommitDelete
<1>2. CASE PurgeVectors(r)
  <2>1. /\ \E left \in {points[del[r].doc], {}} : points' = [points EXCEPT ![del[r].doc] = left]
        /\ UNCHANGED <<row, object, stage, size>>
        /\ del[r].step = "locked"
    BY <1>2 DEF PurgeVectors, FailedWrite
  <2> QED
    BY <2>1
<1>3. CASE DropObject(r)
  <2>1. /\ \E left : object' = [object EXCEPT ![del[r].doc] = left]
        /\ UNCHANGED <<row, points, stage, size>>
        /\ del[r].step = "purged"
    BY <1>3, Zenon DEF DropObject
  <2> QED
    BY <2>1
<1> QED
  BY <1>1, <1>2, <1>3 DEF DeleteStep

PurgedBy(r) == del[r].step \in {"purged", "dropped"} => points[del[r].doc] = {}

(* A delete request that goes on keeps its document; it has purged it once  *)
(* it is past the purge.                                                    *)
LEMMA PurgeStays ==
    ASSUME TypeOK, StatusesInStep, NEW r \in Requests, NEW q \in Requests,
           LockRow(r) \/ DeleteStep(r) \/ DeleteFails(r)
    PROVE  /\ del'[q].step # "idle" => del'[q].doc = del[q].doc /\ del[q].step # "idle"
           /\ PurgedBy(q) => PurgedBy(q)'
<1> USE DEF TypeOK, PurgedBy, NextStep, GiveUp
<1>0. del[q].step # "idle" => del[q].doc \in Docs
  BY DEF StatusesInStep
<1>1. CASE LockRow(r)
  BY <1>1 DEF LockRow
<1>2. CASE DeleteFails(r) \/ CommitDelete(r)
  BY <1>2 DEF DeleteFails, CommitDelete
<1>3. CASE PurgeVectors(r)
  <2>1. /\ \/ points' = [points EXCEPT ![del[r].doc] = {}] /\ NextStep(r, "purged")
           \/ /\ \E left \in {points[del[r].doc], {}} : points' = [points EXCEPT ![del[r].doc] = left]
              /\ GiveUp(r)
        /\ del[r].step = "locked"
    BY <1>3 DEF PurgeVectors, FailedWrite
  <2>2. del'[r].step \in {"purged", "idle"} /\ \A p \in Requests \ {r} : del'[p] = del[p]
    BY <2>1
  <2>3. del'[r].step = "purged" => del'[r].doc = del[r].doc /\ points' = [points EXCEPT ![del[r].doc] = {}]
    BY <2>1
  <2>4. \A d \in Docs : points'[d] = points[d] \/ points'[d] = {}
    BY <2>1
  <2> QED
    BY <1>0, <2>1, <2>2, <2>3, <2>4
<1>4. CASE DropObject(r)
  <2>1. NextStep(r, "dropped") /\ del[r].step = "purged" /\ UNCHANGED points
    BY <1>4, Zenon DEF DropObject
  <2> QED
    BY <2>1
<1> QED
  BY <1>1, <1>2, <1>3, <1>4 DEF DeleteStep

(* The history only watches.                                                *)
LEMMA HistoryOnlyWatches == HSpec => Spec /\ []TypeOK /\ []StatusesInStep
<1>1. HInit => Init
  BY DEF HInit
<1>2. [HNext]_historyVars => [Next]_vars
  BY DEF HNext, historyVars
<1> QED
  BY <1>1, <1>2, TypeCorrect, StatusesStayInStep, PTL DEF HSpec, Spec

(* A delete that holds a row in the window is on record.                    *)
LEMMA OnRecord ==
    ASSUME HNext, StatusesInStep', NEW r \in Requests,
           del'[r].step \in {"locked", "purged", "dropped"}, del'[r].doc \notin disturbed'
    PROVE  stage'[del'[r].doc] \notin Window
<1>1. del'[r].doc \in Docs
  BY DEF StatusesInStep
<1> QED
  BY <1>1 DEF HNext, Meets, RowLocked

(* Of a document that nothing has disturbed the stores hold what its stage  *)
(* says, and a delete that is past the purge has left nothing of it.        *)
LEMMA QuietHolds == HSpec => []Quiet
<1>1. HInit => Quiet
  <2> SUFFICES ASSUME HInit PROVE Quiet
    OBVIOUS
  <2>1. \A d \in SeedDocs : stage[d] = "done"
    BY StoreAssumption DEF HInit, Init
  <2>2. ASSUME NEW d \in Docs PROVE QuietDoc(d)
    BY DEF HInit, Init, QuietDoc
  <2>3. ASSUME NEW r \in Requests PROVE QuietDelete(r)
    BY DEF HInit, Init, QuietDelete
  <2> QED
    BY <2>1, <2>2, <2>3 DEF Quiet
<1>2. /\ TypeOK /\ StatusesInStep /\ StatusesInStep' /\ Quiet
      /\ [HNext]_historyVars
      => Quiet'
  <2> SUFFICES ASSUME TypeOK, StatusesInStep, StatusesInStep', Quiet, HNext PROVE Quiet'
    <3>1. CASE UNCHANGED historyVars
      BY <3>1 DEF historyVars, vars, Quiet, QuietDoc, QuietDelete, Window
    <3> QED
      BY <3>1
  <2> DEFINE Settled == \A d \in SeedDocs : stage[d] = "done"
             Docs1 == \A d \in Docs \ disturbed' : QuietDoc(d)'
             Purges == \A r \in Requests : del'[r].doc \notin disturbed' => PurgedBy(r)'
  <2>1. /\ disturbed \subseteq disturbed'
        /\ Settled
        /\ \A d \in Docs \ disturbed' : QuietDoc(d)
        /\ \A r \in Requests : del[r].doc \notin disturbed' => QuietDelete(r) /\ PurgedBy(r)
    BY DEF HNext, Quiet, QuietDelete, PurgedBy
  <2>2. SUFFICES Settled' /\ Docs1 /\ Purges
    BY OnRecord DEF Quiet, QuietDelete, PurgedBy
  <2>3. ASSUME NEW d \in Docs, NEW u \in Users, StoreObject(u, d)
        PROVE  Settled' /\ Docs1 /\ Purges
    <3>1. UNCHANGED <<row, points, size, del>> /\ stage[d] = "absent"
      BY <2>3, Zenon DEF StoreObject
    <3>2. \E next \in {"inserting", "rejected"} : stage' = [stage EXCEPT ![d] = next]
      BY <2>3, Zenon DEF StoreObject, GoTo
    <3>3. \A e \in Docs \ {d} : QuietDoc(e) => QuietDoc(e)'
      BY <2>3, <3>1, TaskIsLocal DEF QuietDoc, Window
    <3>4. QuietDoc(d) => QuietDoc(d)'
      BY <3>1, <3>2 DEF QuietDoc, TypeOK, Window, TaskStages
    <3>5. Settled'
      BY <2>1, <3>1, <3>2, StoreAssumption DEF TypeOK
    <3>6. Purges
      BY <2>1, <3>1 DEF PurgedBy
    <3> QED
      BY <2>1, <3>3, <3>4, <3>5, <3>6
  <2>4. ASSUME NEW d \in Docs,
               UploadStep(d) \/ TaskStep(d) \/ LockedTaskStep(d) \/ DatabaseFails(d)
        PROVE  Settled' /\ Docs1 /\ Purges
    <3>1. ASSUME NEW e \in Docs \ disturbed' PROVE QuietDoc(e)'
      <4>1. CASE e = d
        BY <2>1, <2>4, <4>1, TaskKeepsQuiet
      <4>2. CASE e # d
        BY <2>1, <2>4, <4>2, TaskIsLocal DEF QuietDoc, Window
      <4> QED
        BY <4>1, <4>2
    <3>2. UNCHANGED del /\ stage[d] # "done"
      BY <2>4 DEF UploadStep, TaskStep, LockedTaskStep, DatabaseFails, InsertRow, InsertFails,
                  StartTask, BeginExtracting, FetchAndExtract, BeginChunking, Embed, Upsert,
                  CleanUp, InvalidateAfterTask, MarkProcessing, Finish, Fail
    <3>3. Settled'
      BY <2>1, <2>4, <3>2, TaskIsLocal, StoreAssumption
    <3>4. ASSUME NEW r \in Requests, del'[r].doc \notin disturbed',
                 del'[r].step \in {"purged", "dropped"}
          PROVE  points'[del'[r].doc] = {}
      <4>1. /\ del'[r] = del[r]
            /\ del[r].doc \in Docs \ disturbed'
            /\ points[del[r].doc] = {}
            /\ stage[del[r].doc] \notin Window
        BY <2>1, <3>2, <3>4 DEF StatusesInStep, QuietDelete
      <4>2. CASE del[r].doc = d
        BY <2>1, <2>4, <4>1, <4>2, TaskKeepsQuiet
      <4>3. CASE del[r].doc # d
        BY <2>4, <4>1, <4>3, TaskIsLocal
      <4> QED
        BY <4>2, <4>3
    <3>5. Purges
      BY <3>4 DEF PurgedBy
    <3> QED
      BY <3>1, <3>3, <3>5
  <2>5. ASSUME NEW r \in Requests, NEW u \in Users, NEW d \in Docs, RequestDelete(r, u, d)
        PROVE  Settled' /\ Docs1 /\ Purges
    <3>1. UNCHANGED <<row, object, points, stage, size>>
      BY <2>5 DEF RequestDelete
    <3>2. del' = [del EXCEPT ![r] = [doc |-> d, step |-> "locking"]]
      BY <2>5 DEF RequestDelete
    <3>3. Docs1
      BY <2>1, <3>1 DEF QuietDoc, Window
    <3>4. Purges
      BY <2>1, <3>1, <3>2 DEF PurgedBy, TypeOK
    <3> QED
      BY <2>1, <3>1, <3>3, <3>4
  <2>6. ASSUME NEW r \in Requests, LockRow(r) \/ DeleteStep(r) \/ DeleteFails(r)
        PROVE  Settled' /\ Docs1 /\ Purges
    <3>1. Purges
      <4> SUFFICES ASSUME NEW q \in Requests, del'[q].doc \notin disturbed' PROVE PurgedBy(q)'
        OBVIOUS
      <4>1. CASE del'[q].step = "idle"
        BY <4>1 DEF PurgedBy
      <4>2. CASE del'[q].step # "idle"
        BY <2>1, <2>6, <4>2, PurgeStays
      <4> QED
        BY <4>1, <4>2
    <3>2. ASSUME NEW e \in Docs \ disturbed' PROVE QuietDoc(e)'
      <4>1. CASE UNCHANGED <<row, points, object>>
        BY <2>1, <2>6, <4>1, DeleteTouches DEF QuietDoc, Window
      <4>2. CASE del[r].doc # e
        BY <2>1, <2>6, <4>2, DeleteTouches DEF QuietDoc, Window
      <4>3. CASE del[r].doc = e /\ ~UNCHANGED <<row, points, object>>
        <5>1. stage[e] \notin Window
          BY <2>1, <2>6, <4>3, DeleteTouches DEF QuietDelete
        <5>2. UNCHANGED <<stage, size>> /\ (points'[e] = points[e] \/ points'[e] = {})
          BY <2>6, DeleteTouches
        <5> QED
          BY <2>1, <5>1, <5>2 DEF QuietDoc, Window, TaskStages
      <4> QED
        BY <4>1, <4>2, <4>3
    <3>3. Settled'
      BY <2>1, <2>6, DeleteTouches, StoreAssumption
    <3> QED
      BY <3>1, <3>2, <3>3
  <2>7. CASE Restart
    <3>1. /\ UNCHANGED <<row, object, size>>
          /\ \A r \in Requests : del'[r].step = "idle"
          /\ \A e \in Docs \ SeedDocs : points'[e] = {}
      BY <2>7 DEF Restart, Reindexed
    <3>2. ASSUME NEW e \in Docs
          PROVE  \/ stage'[e] = stage[e] /\ stage[e] \in {"absent", "rejected", "done", "lost"}
                 \/ stage[e] = "inserting" /\ stage'[e] = "rejected"
                 \/ stage'[e] = "lost" /\ stage[e] \in TaskStages
      BY <2>7 DEF Restart, TypeOK, Stages, TaskStages
    <3>3. Settled'
      BY <2>1, <3>2, StoreAssumption DEF TaskStages
    <3>4. ASSUME NEW e \in Docs PROVE QuietDoc(e)'
      BY <2>1, <3>1, <3>2, <3>3 DEF QuietDoc, Window, TaskStages
    <3> QED
      BY <3>1, <3>3, <3>4 DEF PurgedBy
  <2> QED
    BY <2>3, <2>4, <2>5, <2>6, <2>7 DEF HNext, Next
<1> QED
  BY <1>1, <1>2, HistoryOnlyWatches, PTL DEF HSpec

(* A document turns ready only with all its chunks indexed and its file in  *)
(* S3, for any deletes and faults, unless a delete met its task.            *)
THEOREM ReadyIsIndexed == HSpec => ReadyOnlyWhenIndexed
<1> DEFINE TurnsReadyIndexed ==
      \A d \in Docs \ disturbed : row[d] # "ready" /\ row'[d] = "ready" =>
          count'[d] > 0 /\ points'[d] = 1 .. count'[d] /\ object'[d]
<1>1. TypeOK /\ Quiet /\ [HNext]_historyVars => [TurnsReadyIndexed]_historyVars
  <2> SUFFICES ASSUME TypeOK, Quiet, Next,
                      NEW d \in Docs \ disturbed, row[d] # "ready", row'[d] = "ready"
               PROVE  count'[d] > 0 /\ points'[d] = 1 .. count'[d] /\ object'[d]
    BY DEF HNext, historyVars
  <2>1. QuietDoc(d)
    BY DEF Quiet
  <2>2. ASSUME NEW r \in Requests, LockRow(r) \/ DeleteStep(r) \/ DeleteFails(r) PROVE FALSE
    BY <2>2, DeleteTouches
  <2>3. ASSUME NEW e \in Docs,
               (\E u \in Users : StoreObject(u, e))
                 \/ UploadStep(e) \/ TaskStep(e) \/ LockedTaskStep(e) \/ DatabaseFails(e)
        PROVE  e = d /\ Finish(d)
    <3>1. e = d
      BY <2>3, TaskIsLocal
    <3>2. Finish(d) \/ row'[d] # "ready"
      BY <2>3, <3>1 DEF TypeOK, StoreObject, UploadStep, TaskStep, LockedTaskStep, DatabaseFails,
            InsertRow, InsertFails, StartTask, BeginExtracting, FetchAndExtract, BeginChunking,
            Embed, Upsert, CleanUp, InvalidateAfterTask, MarkProcessing, Fail
    <3> QED
      BY <3>1, <3>2
  <2>4. Finish(d)
    <3>1. ~Restart
      BY DEF Restart
    <3>2. ~\E r \in Requests, u \in Users, e \in Docs : RequestDelete(r, u, e)
      BY DEF RequestDelete
    <3> QED
      BY <2>2, <2>3, <3>1, <3>2 DEF Next
  <2> QED
    BY <2>1, <2>4 DEF Finish, QuietDoc, TypeOK
<1> QED
  BY <1>1, HistoryOnlyWatches, QuietHolds, PTL DEF HSpec, ReadyOnlyWhenIndexed

(* "A document is not deleted while its chunks remain searchable" is broken *)
(* by a delete that met the task and by a restart that indexes a deleted    *)
(* seed document again, and by nothing else.                                *)
THEOREM DeletedIsNotSearchable == HSpec => []DeletedNotSearchable
<1> DEFINE Searched(d) == row[d] = "deleted" => points[d] = {}
<1>1. HInit => DeletedNotSearchable
  BY DEF HInit, Init, DeletedNotSearchable
<1>2. TypeOK /\ Quiet /\ DeletedNotSearchable /\ [HNext]_historyVars => DeletedNotSearchable'
  <2> SUFFICES ASSUME TypeOK, Quiet, DeletedNotSearchable, HNext,
                      NEW e \in Docs \ disturbed'
               PROVE  Searched(e)'
    <3>1. CASE UNCHANGED historyVars
      BY <3>1 DEF historyVars, vars, DeletedNotSearchable
    <3> QED
      BY <3>1 DEF DeletedNotSearchable
  <2>1. /\ Searched(e) /\ QuietDoc(e)
        /\ \A r \in Requests : del[r].doc = e => QuietDelete(r)
    BY DEF HNext, DeletedNotSearchable, Quiet
  <2>2. ASSUME NEW d \in Docs, NEW u \in Users, StoreObject(u, d) PROVE Searched(e)'
    BY <2>1, <2>2 DEF StoreObject
  <2>3. ASSUME NEW d \in Docs,
               UploadStep(d) \/ TaskStep(d) \/ LockedTaskStep(d) \/ DatabaseFails(d)
        PROVE  Searched(e)'
    <3>1. CASE d = e
      BY <2>1, <2>3, <3>1, TaskKeepsQuiet DEF QuietDoc
    <3>2. CASE d # e
      BY <2>1, <2>3, <3>2, TaskIsLocal
    <3> QED
      BY <3>1, <3>2
  <2>4. ASSUME NEW r \in Requests, LockRow(r) \/ DeleteStep(r) \/ DeleteFails(r)
        PROVE  Searched(e)'
    <3>1. CASE row'[e] = row[e]
      BY <2>1, <2>4, <3>1, DeleteTouches
    <3>2. CASE row'[e] # row[e]
      <4>1. CommitDelete(r) /\ del[r].doc = e
        BY <2>4, <3>2 DEF TypeOK, LockRow, DeleteStep, DeleteFails, PurgeVectors, DropObject, CommitDelete
      <4> QED
        BY <2>1, <4>1 DEF CommitDelete, QuietDelete
    <3> QED
      BY <3>1, <3>2
  <2>5. CASE Restart
    <3>1. row'[e] = row[e] /\ (e \notin SeedDocs => points'[e] = {})
      BY <2>5 DEF Restart, Reindexed
    <3>2. row[e] = "deleted" => e \notin SeedDocs
      BY <2>5 DEF HNext, Reseeded
    <3> QED
      BY <3>1, <3>2
  <2>6. CASE \E r \in Requests, u \in Users, d \in Docs : RequestDelete(r, u, d)
    BY <2>1, <2>6 DEF RequestDelete
  <2> QED
    BY <2>2, <2>3, <2>4, <2>5, <2>6 DEF HNext, Next
<1> QED
  BY <1>1, <1>2, HistoryOnlyWatches, QuietHolds, PTL DEF HSpec

(* What search returns can be downloaded: no ready document has chunks      *)
(* without its file, whatever call of a delete, of a task or of the database*)
(* fails and whatever a restart re-indexes, unless a delete met its task.   *)
THEOREM SearchableKeepsFile == HSpec => []SearchableHasFile
<1> DEFINE Filed(d) == row[d] = "ready" /\ points[d] # {} => object[d]
<1>1. HInit => SearchableHasFile
  BY DEF HInit, Init, SearchableHasFile
<1>2. TypeOK /\ StatusesInStep /\ Quiet /\ SearchableHasFile /\ [HNext]_historyVars
        => SearchableHasFile'
  <2> SUFFICES ASSUME TypeOK, StatusesInStep, Quiet, SearchableHasFile, HNext,
                      NEW e \in Docs \ (SeedDocs \cup disturbed')
               PROVE  Filed(e)'
    <3>1. CASE UNCHANGED historyVars
      BY <3>1 DEF historyVars, vars, SearchableHasFile
    <3> QED
      BY <3>1 DEF SearchableHasFile
  <2>1. /\ Filed(e) /\ QuietDoc(e) /\ InStep(e)
        /\ \A r \in Requests : del[r].doc = e => QuietDelete(r)
    BY DEF HNext, Quiet, SearchableHasFile, StatusesInStep, InStep
  <2>2. ASSUME NEW d \in Docs, NEW u \in Users, StoreObject(u, d) PROVE Filed(e)'
    <3>1. CASE d = e
      <4>1. row'[e] = row[e] /\ stage[e] = "absent"
        BY <2>2, <3>1 DEF StoreObject
      <4>2. row[e] # "ready"
        BY <2>1, <4>1, JobAtStage DEF InStep, Paired, Stages
      <4> QED
        BY <4>1, <4>2
    <3>2. CASE d # e
      BY <2>1, <2>2, <3>2, TaskIsLocal
    <3> QED
      BY <3>1, <3>2
  <2>3. ASSUME NEW d \in Docs,
               UploadStep(d) \/ TaskStep(d) \/ LockedTaskStep(d) \/ DatabaseFails(d)
        PROVE  Filed(e)'
    <3>1. CASE d = e
      <4>1. CASE Finish(e)
        BY <2>1, <4>1 DEF Finish, QuietDoc
      <4>2. CASE ~Finish(e)
        <5>1. \/ row'[e] # "ready"
              \/ row'[e] = row[e] /\ UNCHANGED <<points, object>>
              \/ row'[e] = row[e] /\ stage[e] \in {"upserting", "cleaning"}
          BY <2>3, <3>1, <4>2 DEF TypeOK, UploadStep, TaskStep, LockedTaskStep, DatabaseFails, InsertRow,
              InsertFails, StartTask, BeginExtracting, FetchAndExtract, BeginChunking, Embed,
              Upsert, CleanUp, InvalidateAfterTask, MarkProcessing, Fail
        <5>2. stage[e] \in {"upserting", "cleaning"} => row[e] # "ready"
          BY <2>1, JobAtStage DEF InStep, Paired, TypeOK, Stages, TaskStages
        <5> QED
          BY <2>1, <5>1, <5>2
      <4> QED
        BY <4>1, <4>2
    <3>2. CASE d # e
      BY <2>1, <2>3, <3>2, TaskIsLocal
    <3> QED
      BY <3>1, <3>2
  <2>4. ASSUME NEW r \in Requests, LockRow(r) \/ DeleteStep(r) \/ DeleteFails(r)
        PROVE  Filed(e)'
    <3>1. CASE object'[e] = object[e]
      BY <2>1, <2>4, <3>1, DeleteTouches
    <3>2. CASE object'[e] # object[e]
      <4>1. DropObject(r)
        BY <2>4, <3>2 DEF LockRow, DeleteStep, DeleteFails, PurgeVectors, CommitDelete
      <4>2. del[r].step = "purged" /\ del[r].doc = e /\ UNCHANGED points
        BY <2>4, <3>2, <4>1, DeleteTouches DEF DropObject
      <4> QED
        BY <2>1, <4>2 DEF QuietDelete
    <3> QED
      BY <3>1, <3>2
  <2>5. CASE Restart
    BY <2>5 DEF Restart, Reindexed
  <2>6. CASE \E r \in Requests, u \in Users, d \in Docs : RequestDelete(r, u, d)
    BY <2>1, <2>6 DEF RequestDelete
  <2> QED
    BY <2>2, <2>3, <2>4, <2>5, <2>6 DEF HNext, Next
<1> QED
  BY <1>1, <1>2, HistoryOnlyWatches, QuietHolds, PTL DEF HSpec

----------------------------------------------------------------------------
(* What remains true when documents are deleted while they are ingesting    *)

BeforeUpsert == {"absent", "inserting", "queued", "marking", "extracting", "fetching", "chunking",
                 "embedding", "upserting"}
Ended == {"rejected", "invalidating", "done"}

(* Nothing is indexed before the upsert, a deleted document at rest has no  *)
(* chunks left, and neither has one that a delete has purged at rest: the   *)
(* task cannot reach its end while a delete holds the row.                  *)
PurgedDoc(d) ==
    /\ stage[d] \in BeforeUpsert => points[d] = {}
    /\ stage[d] \in Ended /\ row[d] = "deleted" => points[d] = {}
    /\ \A r \in Requests :
          /\ del[r].doc = d /\ del[r].step \in {"purged", "dropped"} /\ stage[d] \in Ended
          => points[d] = {}

(* No step of an upload or of a task disturbs its own document.             *)
LEMMA TaskKeepsPurged ==
    ASSUME TypeOK, NEW d \in Docs, PurgedDoc(d),
           UploadStep(d) \/ TaskStep(d) \/ LockedTaskStep(d) \/ DatabaseFails(d)
    PROVE  PurgedDoc(d)'
<1> USE DEF PurgedDoc, BeforeUpsert, Ended, TypeOK, GoTo, Committed, CommittedInTask
<1>1. CASE UploadStep(d)
  BY <1>1 DEF UploadStep, InsertRow, InsertFails
<1>2. CASE StartTask(d)
  BY <1>2 DEF StartTask
<1>3. CASE BeginExtracting(d) \/ FetchAndExtract(d) \/ Embed(d)
  BY <1>3 DEF BeginExtracting, FetchAndExtract, Embed
<1>4. CASE BeginChunking(d)
  BY <1>4 DEF BeginChunking
<1>5. CASE Upsert(d)
  <2>1. stage'[d] \in {"cleaning", "finishing"}
    BY <1>5 DEF Upsert
  <2> QED
    BY <2>1
<1>6. CASE CleanUp(d) \/ InvalidateAfterTask(d)
  BY <1>6 DEF CleanUp, InvalidateAfterTask
<1>7. CASE MarkProcessing(d)
  BY <1>7 DEF MarkProcessing
<1>8. CASE Finish(d) \/ Fail(d)
  <2>1. ~RowLocked(d) /\ row'[d] # "deleted" /\ UNCHANGED del /\ stage'[d] \in {"invalidating", "lost"}
    BY <1>8 DEF Finish, Fail
  <2> QED
    BY <2>1 DEF RowLocked
<1>9. CASE DatabaseFails(d)
  BY <1>9 DEF DatabaseFails
<1> QED
  BY <1>1, <1>2, <1>3, <1>4, <1>5, <1>6, <1>7, <1>8, <1>9 DEF TaskStep, LockedTaskStep

(* Whatever is deleted when and whatever fails, a deleted document that was *)
(* uploaded is searchable only while its task runs or after a failure has   *)
(* cut the task off.                                                        *)
THEOREM DeletedIsPurgedInTheEnd == Spec => []DeletedIsPurgedAtRest
<1> DEFINE Purged == \A d \in Docs \ SeedDocs : PurgedDoc(d)
<1>1. Init => Purged
  <2> SUFFICES ASSUME Init, NEW d \in Docs \ SeedDocs PROVE PurgedDoc(d)
    OBVIOUS
  <2>1. \A r \in Requests : del[r].step = "idle"
    BY DEF Init
  <2> QED
    BY <2>1 DEF Init, PurgedDoc
<1>2. TypeOK /\ TypeOK' /\ StatusesInStep /\ Purged /\ [Next]_vars => Purged'
  <2> SUFFICES ASSUME TypeOK, TypeOK', StatusesInStep, Purged, [Next]_vars,
                      NEW e \in Docs \ SeedDocs
               PROVE  PurgedDoc(e)'
    OBVIOUS
  <2>1. PurgedDoc(e)
    OBVIOUS
  <2>2. ASSUME NEW d \in Docs, NEW u \in Users, StoreObject(u, d) PROVE PurgedDoc(e)'
    <3>1. UNCHANGED <<row, points, del>> /\ stage[d] = "absent"
      BY <2>2, Zenon DEF StoreObject
    <3>2. \E next \in {"inserting", "rejected"} : stage' = [stage EXCEPT ![d] = next]
      BY <2>2, Zenon DEF StoreObject, GoTo
    <3> QED
      BY <2>1, <3>1, <3>2 DEF PurgedDoc, BeforeUpsert, Ended, TypeOK
  <2>3. ASSUME NEW d \in Docs,
               UploadStep(d) \/ TaskStep(d) \/ LockedTaskStep(d) \/ DatabaseFails(d)
        PROVE  PurgedDoc(e)'
    <3>1. CASE d = e
      BY <2>1, <2>3, <3>1, TaskKeepsPurged
    <3>2. CASE d # e
      <4>1. UNCHANGED del
        BY <2>3 DEF UploadStep, TaskStep, LockedTaskStep, DatabaseFails, InsertRow, InsertFails,
                  StartTask, BeginExtracting, FetchAndExtract, BeginChunking, Embed, Upsert,
                  CleanUp, InvalidateAfterTask, MarkProcessing, Finish, Fail
      <4> QED
        BY <2>1, <2>3, <3>2, <4>1, TaskIsLocal DEF PurgedDoc
    <3> QED
      BY <3>1, <3>2
  <2>4. ASSUME NEW r \in Requests, NEW u \in Users, NEW d \in Docs, RequestDelete(r, u, d)
        PROVE  PurgedDoc(e)'
    BY <2>1, <2>4 DEF RequestDelete, PurgedDoc, TypeOK
  <2>5. ASSUME NEW r \in Requests, LockRow(r) \/ DeleteStep(r) \/ DeleteFails(r)
        PROVE  PurgedDoc(e)'
    <3>1. UNCHANGED stage /\ (points'[e] = points[e] \/ points'[e] = {})
      BY <2>5, DeleteTouches
    <3>2. CASE points'[e] = {}
      BY <3>2 DEF PurgedDoc
    <3>3. CASE points'[e] = points[e]
      <4>1. ASSUME row'[e] # row[e]
            PROVE  del[r].doc = e /\ del[r].step = "dropped"
        BY <2>5, <4>1, DeleteIsLocal
      <4>2. ASSUME NEW q \in Requests, del'[q].doc = e, del'[q].step \in {"purged", "dropped"},
                   stage[e] \in Ended, points[e] # {}
            PROVE  del[q].doc = e /\ del[q].step \in {"purged", "dropped"}
        <5>1. CASE PurgeVectors(r)
          <6>1. \/ points' = [points EXCEPT ![del[r].doc] = {}] /\ NextStep(r, "purged")
                \/ GiveUp(r)
            BY <5>1, Zenon DEF PurgeVectors
          <6>2. points' = [points EXCEPT ![del[r].doc] = {}] => del[r].doc # e
            BY <3>3, <4>2 DEF TypeOK
          <6> QED
            BY <4>2, <6>1, <6>2 DEF NextStep, GiveUp, TypeOK
        <5>2. CASE DropObject(r)
          <6>1. NextStep(r, "dropped") /\ del[r].step = "purged"
            BY <5>2, Zenon DEF DropObject
          <6> QED
            BY <4>2, <6>1 DEF NextStep, TypeOK
        <5>3. CASE LockRow(r) \/ CommitDelete(r) \/ DeleteFails(r)
          BY <4>2, <5>3 DEF LockRow, CommitDelete, DeleteFails, NextStep, GiveUp, TypeOK
        <5> QED
          BY <2>5, <5>1, <5>2, <5>3 DEF DeleteStep
      <4> QED
        BY <2>1, <3>1, <3>3, <4>1, <4>2 DEF PurgedDoc
    <3> QED
      BY <3>1, <3>2, <3>3
  <2>6. CASE Restart
    <3>1. \A q \in Requests : del'[q].step = "idle"
      BY <2>6 DEF Restart
    <3>2. points'[e] = {}
      BY <2>6 DEF Restart, Reindexed
    <3> QED
      BY <3>1, <3>2 DEF PurgedDoc
  <2>7. CASE UNCHANGED vars
    BY <2>1, <2>7 DEF vars, PurgedDoc
  <2> QED
    BY <2>2, <2>3, <2>4, <2>5, <2>6, <2>7 DEF Next
<1>3. TypeOK /\ StatusesInStep /\ Purged => DeletedIsPurgedAtRest
  <2> SUFFICES ASSUME TypeOK, StatusesInStep, Purged, NEW d \in Docs \ SeedDocs,
                      row[d] = "deleted", stage[d] \notin TaskStages \cup {"lost"}
               PROVE  points[d] = {}
    BY DEF DeletedIsPurgedAtRest
  <2>1. stage[d] \in Ended \cup BeforeUpsert
    BY DEF TypeOK, Stages, TaskStages, Ended, BeforeUpsert
  <2> QED
    BY <2>1 DEF PurgedDoc
<1> HIDE DEF Purged
<1> QED
  BY <1>1, <1>2, <1>3, TypeCorrect, StatusesStayInStep, PTL DEF Spec

----------------------------------------------------------------------------
(* Its composition with the cache and questions                             *)

CacheProofs == INSTANCE AnswerCacheProofs
    WITH NoAnswer <- NoCitations, Readers <- Asks, Invalidators <- Requests \cup Docs

----------------------------------------------------------------------------

(* What the composition does to the documents, the document store does.     *)
LEMMA StoreSteps == [KbNext]_kbVars => [Next]_vars
<1> SUFFICES ASSUME [KbNext]_kbVars PROVE Next \/ UNCHANGED vars
  OBVIOUS
<1>1. CASE DocumentsOnly
  BY <1>1, Zenon DEF DocumentsOnly, Next, DeleteStep
<1>2. ASSUME NEW d \in Docs, TaskInvalidates(d) PROVE Next \/ UNCHANGED vars
  BY <1>2, Zenon DEF TaskInvalidates, Next, TaskStep
<1>3. ASSUME NEW r \in Requests, DeleteInvalidates(r) \/ EndDelete(r) PROVE Next \/ UNCHANGED vars
  BY <1>3, Zenon DEF DeleteInvalidates, EndDelete, Next, DeleteStep
<1>4. ASSUME NEW a \in Asks, AskStep(a) \/ \E q \in Questions : AskQuestion(a, q) PROVE UNCHANGED vars
  BY <1>4, Zenon DEF AskStep, AskQuestion, ReadCache, AfterLookup, Search, Chat, StoreCited
<1>5. CASE Expire \/ UNCHANGED kbVars
  BY <1>5, Zenon DEF Expire, kbVars
<1>6. CASE KbRestart
  BY <1>6, Zenon DEF KbRestart, Next
<1> QED
  BY <1>1, <1>2, <1>3, <1>4, <1>5, <1>6 DEF KbNext

(* Every theorem about the document store holds of the documents of the     *)
(* composition: questions and the cache do not interfere with them.         *)
THEOREM StoreIsUndisturbed == KbSpec => Spec
<1>1. KbInit => Init
  BY DEF KbInit
<1> QED
  BY <1>1, StoreSteps, PTL DEF KbSpec, Spec

(* The assumptions of AnswerCache, for the answers of the composition.      *)
LEMMA CacheAssumptionHolds == CacheProofs!CacheAssumption
BY KnowledgeBaseAssumption DEF CacheProofs!CacheAssumption, Answers, NoCitations

(* The two instances of AnswerCache are the same actions and types.         *)
LEMMA SameSteps ==
    /\ \A q \in Questions, a \in Answers :
          Cache!StoreAnswer(q, a) => CacheProofs!StoreAnswer(q, a)
    /\ \A a \in Asks, q \in Questions : Cache!BeginLookup(a, q) => CacheProofs!BeginLookup(a, q)
    /\ \A a \in Asks : /\ Cache!ReadEntry(a) => CacheProofs!ReadEntry(a)
                       /\ Cache!EndLookup(a) => CacheProofs!EndLookup(a)
    /\ \A i \in Requests \cup Docs :
          /\ Cache!InvalidationStep(i) => CacheProofs!InvalidationStep(i)
          /\ Cache!EndInvalidation(i) => CacheProofs!EndInvalidation(i)
    /\ \A q \in Questions : Cache!ExpireEntry(q) => CacheProofs!ExpireEntry(q)
    /\ Cache!ExpireIndex => CacheProofs!ExpireIndex
<1>1. ASSUME NEW q \in Questions, NEW a \in Answers, Cache!StoreAnswer(q, a)
      PROVE  CacheProofs!StoreAnswer(q, a)
  <2>1. Cache!Pushed(index, q) = CacheProofs!Pushed(index, q)
    BY DEF Cache!Pushed, CacheProofs!Pushed, Cache!Without, CacheProofs!Without
  <2>2. Cache!ShownToReaders(a) = CacheProofs!ShownToReaders(a)
    BY DEF Cache!ShownToReaders, CacheProofs!ShownToReaders
  <2> QED
    BY <1>1, <2>1, <2>2, Zenon DEF Cache!StoreAnswer, CacheProofs!StoreAnswer
<1>2. Cache!Findable = CacheProofs!Findable /\ Cache!NoLookup = CacheProofs!NoLookup
  BY DEF Cache!Findable, CacheProofs!Findable, Cache!known, CacheProofs!known, Cache!Listed,
         CacheProofs!Listed, Cache!NoLookup, CacheProofs!NoLookup
<1>3. ASSUME NEW a \in Asks
      PROVE  /\ \A q \in Questions : Cache!BeginLookup(a, q) => CacheProofs!BeginLookup(a, q)
             /\ Cache!ReadEntry(a) => CacheProofs!ReadEntry(a)
             /\ Cache!EndLookup(a) => CacheProofs!EndLookup(a)
  BY <1>2, Zenon DEF Cache!BeginLookup, CacheProofs!BeginLookup, Cache!ReadEntry, CacheProofs!ReadEntry,
         Cache!EndLookup, CacheProofs!EndLookup, Cache!redis, CacheProofs!redis
<1>4. ASSUME NEW i \in Requests \cup Docs
      PROVE  /\ Cache!InvalidationStep(i) => CacheProofs!InvalidationStep(i)
             /\ Cache!EndInvalidation(i) => CacheProofs!EndInvalidation(i)
  BY Zenon DEF Cache!InvalidationStep, CacheProofs!InvalidationStep, Cache!ListEntries,
         CacheProofs!ListEntries, Cache!DropEntries, CacheProofs!DropEntries, Cache!DropIndex,
         CacheProofs!DropIndex, Cache!InvalidationFails, CacheProofs!InvalidationFails,
         Cache!EndInvalidation, CacheProofs!EndInvalidation, Cache!NoInvalidation,
         CacheProofs!NoInvalidation, Cache!Listed, CacheProofs!Listed, Cache!redis, CacheProofs!redis
<1>5. /\ \A q \in Questions : Cache!ExpireEntry(q) => CacheProofs!ExpireEntry(q)
      /\ Cache!ExpireIndex => CacheProofs!ExpireIndex
  BY <1>2, Zenon DEF Cache!ExpireEntry, CacheProofs!ExpireEntry, Cache!ExpireIndex, CacheProofs!ExpireIndex
<1> QED
  BY <1>1, <1>3, <1>4, <1>5

(* What can be found is the same in both.                                   *)
LEMMA SameFindable ==
    Cache!Findable = CacheProofs!Findable /\ Cache!Findable' = CacheProofs!Findable'
BY DEF Cache!Findable, CacheProofs!Findable, Cache!known, CacheProofs!known, Cache!Listed,
       CacheProofs!Listed

(* What the steps of a question may rely on.                                *)
AskInv ==
    /\ ask \in [Asks -> [step : AskSteps, question : Questions \cup {NoQuestion}, docs : SUBSET Docs]]
    /\ \A a \in Asks : /\ ask[a].step # "idle" => ask[a].question \in Questions
                       /\ ask[a].step = "store" => ask[a].docs \in Answers

(* A question that is answered keeps its text, and cites documents only.    *)
LEMMA AskStepKeeps == TypeOK /\ AskInv /\ [KbNext]_kbVars => AskInv'
<1> USE DEF AskSteps, NoAsk, Answered, Continue, Waiting
<1> SUFFICES ASSUME TypeOK, AskInv, [KbNext]_kbVars PROVE AskInv'
  OBVIOUS
<1>1. CASE UNCHANGED ask
  BY <1>1 DEF AskInv
<1>2. ASSUME NEW a \in Asks, Answered(a) PROVE AskInv'
  BY <1>2 DEF AskInv
<1>3. ASSUME NEW a \in Asks, NEW q \in Questions, AskQuestion(a, q) PROVE AskInv'
  BY <1>3 DEF AskInv, AskQuestion
<1>4. ASSUME NEW a \in Asks, ask[a].step # "idle", NEW found \in SUBSET Docs,
             NEW step \in {"search", "chat"}, Continue(a, step, found)
      PROVE  AskInv'
  BY <1>4 DEF AskInv
<1>5. ASSUME NEW a \in Asks, ask[a].step # "idle", NEW cited \in Answers, Continue(a, "store", cited)
      PROVE  AskInv'
  BY <1>5 DEF AskInv, Answers
<1>6. ASSUME NEW a \in Asks, AskStep(a) PROVE AskInv'
  <2>1. CASE ReadCache(a)
    BY <1>1, <2>1 DEF ReadCache
  <2>2. CASE AfterLookup(a)
    BY <1>2, <1>4, <2>2 DEF AfterLookup
  <2>3. CASE Search(a)
    BY <1>2, <1>4, <2>3 DEF Search, Searchable
  <2>4. CASE Chat(a)
    <3>1. (SUBSET ask[a].docs) \ {NoCitations} \subseteq Answers
      <4>1. ask[a].docs \subseteq Docs
        BY DEF AskInv
      <4> QED
        BY <4>1 DEF Answers
    <3> QED
      BY <1>2, <1>5, <2>4, <3>1 DEF Chat
  <2>5. CASE StoreCited(a)
    BY <1>2, <2>5 DEF StoreCited
  <2> QED
    BY <1>6, <2>1, <2>2, <2>3, <2>4, <2>5 DEF AskStep
<1>7. CASE KbRestart
  BY <1>7 DEF AskInv, KbRestart
<1>8. CASE DocumentsOnly \/ Expire \/ UNCHANGED kbVars
  BY <1>1, <1>8 DEF DocumentsOnly, Expire, kbVars
<1>9. ASSUME NEW d \in Docs, TaskInvalidates(d) PROVE AskInv'
  BY <1>1, <1>9 DEF TaskInvalidates
<1>10. ASSUME NEW r \in Requests, DeleteInvalidates(r) \/ EndDelete(r) PROVE AskInv'
  BY <1>1, <1>10 DEF DeleteInvalidates, EndDelete
<1> QED
  BY <1>3, <1>6, <1>7, <1>8, <1>9, <1>10 DEF KbNext

(* A step of the composition is a step of the cache, or a restart.          *)
LEMMA CacheSteps ==
    ASSUME AskInv, KbNext, ~KbRestart
    PROVE  [CacheProofs!Next]_(CacheProofs!cacheVars)
<1> USE DEF CacheProofs!Next
<1>1. CASE UNCHANGED cacheVars
  BY <1>1 DEF cacheVars, CacheProofs!cacheVars
<1>2. CASE DocumentsOnly
  BY <1>1, <1>2 DEF DocumentsOnly
<1>3. ASSUME NEW i \in Requests \cup Docs, Cache!InvalidationStep(i) \/ Cache!EndInvalidation(i)
      PROVE  CacheProofs!Next
  BY <1>3, SameSteps
<1>4. ASSUME NEW d \in Docs, TaskInvalidates(d) PROVE CacheProofs!Next
  BY <1>3, <1>4 DEF TaskInvalidates
<1>5. ASSUME NEW r \in Requests, DeleteInvalidates(r) \/ EndDelete(r) PROVE CacheProofs!Next
  BY <1>3, <1>5 DEF DeleteInvalidates, EndDelete
<1>6. ASSUME NEW a \in Asks, AskStep(a) PROVE [CacheProofs!Next]_(CacheProofs!cacheVars)
  <2>1. CASE ReadCache(a) \/ AfterLookup(a)
    BY <2>1, SameSteps DEF ReadCache, AfterLookup
  <2>2. CASE Search(a) \/ Chat(a)
    BY <1>1, <2>2 DEF Search, Chat
  <2>3. CASE StoreCited(a)
    <3>1. ask[a].question \in Questions /\ ask[a].docs \in Answers
      BY <2>3 DEF StoreCited, Waiting, AskInv
    <3>2. UNCHANGED cacheVars \/ CacheProofs!StoreAnswer(ask[a].question, ask[a].docs)
      BY <2>3, <3>1, SameSteps DEF StoreCited
    <3> QED
      BY <1>1, <3>1, <3>2
  <2> QED
    BY <1>6, <2>1, <2>2, <2>3 DEF AskStep
<1>7. ASSUME NEW a \in Asks, NEW q \in Questions, AskQuestion(a, q) PROVE CacheProofs!Next
  BY <1>7, SameSteps DEF AskQuestion
<1>8. CASE Expire
  BY <1>8, SameSteps DEF Expire
<1> QED
  BY <1>2, <1>4, <1>5, <1>6, <1>7, <1>8 DEF KbNext

(* Types and what they rest on, in every reachable state.                   *)
KbInv == TypeOK /\ AskInv /\ CacheProofs!TypeInv

(* The invariant that the theorems below use.                               *)
LEMMA KbInvHolds == KbSpec => []KbInv
<1>1. KbInit => AskInv /\ CacheProofs!TypeInv
  <2> SUFFICES ASSUME KbInit PROVE AskInv /\ CacheProofs!TypeInv
    OBVIOUS
  <2>1. AskInv
    BY DEF KbInit, AskInv, NoAsk, AskSteps
  <2>2. CacheProofs!TypeInv
    BY CacheAssumptionHolds
       DEF KbInit, Cache!Init, Cache!NoLookup, Cache!NoInvalidation, CacheProofs!TypeInv,
           CacheProofs!TypeOK, CacheProofs!Lookup, CacheProofs!InvalSteps, CacheProofs!NoDuplicates,
           CacheProofs!CacheAssumption
  <2> QED
    BY <2>1, <2>2
<1>2. TypeOK /\ AskInv /\ CacheProofs!TypeInv /\ [KbNext]_kbVars => AskInv' /\ CacheProofs!TypeInv'
  <2> SUFFICES ASSUME TypeOK, AskInv, CacheProofs!TypeInv, [KbNext]_kbVars PROVE CacheProofs!TypeInv'
    BY AskStepKeeps
  <2>1. CASE KbRestart
    BY <2>1, CacheAssumptionHolds
       DEF KbRestart, Cache!NoLookup, Cache!NoInvalidation, CacheProofs!TypeInv,
           CacheProofs!TypeOK, CacheProofs!Lookup, CacheProofs!InvalSteps, CacheProofs!NoDuplicates,
           CacheProofs!CacheAssumption
  <2>2. CASE KbNext /\ ~KbRestart
    BY <2>2, CacheSteps, CacheProofs!TypeStep, CacheAssumptionHolds
  <2>3. CASE UNCHANGED kbVars
    <3>1. UNCHANGED CacheProofs!cacheVars
      BY <2>3 DEF kbVars, cacheVars, CacheProofs!cacheVars
    <3> QED
      BY <3>1, CacheProofs!TypeStep, CacheAssumptionHolds
  <2> QED
    BY <2>1, <2>2, <2>3
<1> QED
  BY <1>1, <1>2, StoreIsUndisturbed, TypeCorrect, PTL DEF KbSpec, KbInv

(* The types of the composition.                                            *)
THEOREM KbTypeCorrect == KbSpec => []KbTypeOK
<1>1. KbInv => KbTypeOK
  BY DEF KbInv, KbTypeOK, AskInv, CacheProofs!TypeInv, CacheProofs!TypeOK, Cache!TypeOK,
         CacheProofs!Lookup, Cache!Lookup, CacheProofs!InvalSteps, Cache!InvalSteps,
         CacheProofs!NoDuplicates, Cache!NoDuplicates
<1> QED
  BY <1>1, KbInvHolds, PTL

----------------------------------------------------------------------------
(* A document that has gone stays away                                      *)

(* A step of the document store does not bring a retired document back.     *)
LEMMA RetiredStays ==
    ASSUME TypeOK, StatusesInStep, [Next]_vars, NEW d \in Docs \ SeedDocs, Retired(d), points[d] = {}
    PROVE  Retired(d)' /\ points'[d] = {}
<1> USE DEF Retired, TypeOK
<1>1. stage[d] \in Stages \ TaskStages /\ row[d] = "deleted"
  OBVIOUS
<1>2. stage[d] \notin {"absent", "inserting", "rejected"}
  BY <1>1 DEF StatusesInStep, JobAt, Paired, Stages
<1>3. ASSUME NEW c \in Docs,
             \/ \E u \in Users : StoreObject(u, c)
             \/ UploadStep(c) \/ TaskStep(c) \/ LockedTaskStep(c) \/ DatabaseFails(c)
      PROVE  Retired(d)' /\ points'[d] = {}
  <2>1. c # d
    BY <1>1, <1>2, <1>3
       DEF StoreObject, UploadStep, InsertRow, InsertFails, TaskStep, StartTask, BeginExtracting,
           FetchAndExtract, BeginChunking, Embed, Upsert, CleanUp, InvalidateAfterTask,
           LockedTaskStep, MarkProcessing, Finish, Fail, DatabaseFails, TaskStages
  <2>2. row'[d] = row[d] /\ stage'[d] = stage[d] /\ points'[d] = points[d]
    <3>1. CASE TaskStep(c) \/ LockedTaskStep(c)
      BY <2>1, <3>1, TaskIsLocal
    <3>2. CASE UploadStep(c) \/ DatabaseFails(c) \/ \E u \in Users : StoreObject(u, c)
      BY <2>1, <3>2 DEF UploadStep, InsertRow, InsertFails, DatabaseFails, StoreObject, GoTo, Committed,
                        database
    <3> QED
      BY <1>3, <3>1, <3>2
  <2> QED
    BY <2>2
<1>4. ASSUME NEW r \in Requests, \/ \E u \in Users, c \in Docs : RequestDelete(r, u, c)
                                 \/ LockRow(r) \/ DeleteStep(r) \/ DeleteFails(r)
      PROVE  Retired(d)' /\ points'[d] = {}
  <2>1. stage' = stage
    BY <1>4 DEF RequestDelete, LockRow, DeleteStep, PurgeVectors, DropObject, CommitDelete, DeleteFails
  <2>2. row'[d] = "deleted"
    BY <1>4 DEF RequestDelete, LockRow, DeleteStep, PurgeVectors, DropObject, CommitDelete, DeleteFails,
                database
  <2>3. points'[d] = {}
    BY <1>4 DEF RequestDelete, LockRow, DeleteStep, PurgeVectors, DropObject, CommitDelete, DeleteFails,
                FailedWrite
  <2> QED
    BY <2>1, <2>2, <2>3
<1>5. CASE Restart
  BY <1>1, <1>2, <1>5 DEF Restart, Reindexed, database, TaskStages, Stages
<1>6. CASE UNCHANGED vars
  BY <1>6 DEF vars
<1> QED
  BY <1>3, <1>4, <1>5, <1>6 DEF Next

(* What can still be found, and what requests in progress know, is cited    *)
(* nowhere: no step of the cache shows it, and no answer cites it.          *)
Forgotten(d) == ~Cited(d) /\ \A a \in Asks : d \notin ask[a].docs /\ d \notin UNION reader[a].seen

(* A document without points is not found by a question, so it is not cited *)
(* again: only what was found is cited, and only what is cited is stored.   *)
LEMMA ForgottenStays ==
    ASSUME KbInv, KbNext, NEW d \in Docs, points[d] = {}, Forgotten(d)
    PROVE  Forgotten(d)'
<1>1. CASE KbRestart
  <2>1. Cache!Findable' = {}
    BY <1>1 DEF KbRestart, Cache!Findable, Cache!known
  <2> QED
    BY <1>1, <2>1 DEF KbRestart, Forgotten, Cited, Cache!NoLookup, NoAsk
<1>2. ASSUME NEW S \in SUBSET Answers, \A answer \in S : d \notin answer,
             Cache!Findable' \subseteq Cache!Findable \cup S,
             \A a \in Asks : reader'[a].seen \subseteq reader[a].seen \cup Cache!Findable \cup S,
             \A a \in Asks : d \notin ask'[a].docs
      PROVE  Forgotten(d)'
  BY <1>2 DEF Forgotten, Cited
<1>3. ASSUME UNCHANGED cacheVars, \A a \in Asks : d \notin ask'[a].docs PROVE Forgotten(d)'
  BY <1>2, <1>3 DEF cacheVars, Cache!Findable, Cache!known, Cache!Listed
<1>4. ASSUME \/ CacheProofs!ExpireIndex \/ \E q \in Questions : CacheProofs!ExpireEntry(q)
             \/ \E a \in Asks : \/ CacheProofs!ReadEntry(a) \/ CacheProofs!EndLookup(a)
                                \/ \E q \in Questions : CacheProofs!BeginLookup(a, q)
             \/ \E i \in Requests \cup Docs :
                   CacheProofs!InvalidationStep(i) \/ CacheProofs!EndInvalidation(i),
             \A a \in Asks : d \notin ask'[a].docs
      PROVE  Forgotten(d)'
  <2>1. /\ CacheProofs!Findable' \subseteq CacheProofs!Findable
        /\ \A a \in Asks : reader'[a].seen \subseteq reader[a].seen \cup CacheProofs!Findable
    BY <1>4, CacheProofs!OthersForget, CacheAssumptionHolds DEF KbInv
  <2> QED
    BY <1>2, <1>4, <2>1, SameFindable
<1>5. CASE DocumentsOnly
  BY <1>3, <1>5 DEF DocumentsOnly, Forgotten
<1>6. ASSUME NEW e \in Docs, TaskInvalidates(e) PROVE Forgotten(d)'
  BY <1>4, <1>6, SameSteps DEF TaskInvalidates, Forgotten
<1>7. ASSUME NEW r \in Requests, DeleteInvalidates(r) \/ EndDelete(r) PROVE Forgotten(d)'
  BY <1>4, <1>7, SameSteps DEF DeleteInvalidates, EndDelete, Forgotten
<1>8. CASE Expire
  BY <1>4, <1>8, SameSteps DEF Expire, Forgotten
<1>9. ASSUME NEW a \in Asks, NEW q \in Questions, AskQuestion(a, q) PROVE Forgotten(d)'
  <2>1. \A b \in Asks : ask'[b].docs = ask[b].docs
    BY <1>9 DEF AskQuestion, KbInv, AskInv
  <2> QED
    BY <1>4, <1>9, <2>1, SameSteps DEF AskQuestion, Forgotten
<1>10. ASSUME NEW a \in Asks, AskStep(a) PROVE Forgotten(d)'
  <2>1. ASSUME NEW step, NEW docs, d \notin docs, Answered(a) \/ Continue(a, step, docs)
        PROVE  \A b \in Asks : d \notin ask'[b].docs
    BY <2>1 DEF Answered, NoAsk, Continue, Forgotten, KbInv, AskInv
  <2>2. CASE ReadCache(a)
    BY <1>4, <2>2, SameSteps DEF ReadCache, Forgotten
  <2>3. CASE AfterLookup(a)
    BY <1>4, <2>1, <2>3, SameSteps DEF AfterLookup
  <2>4. CASE Search(a)
    BY <1>3, <2>1, <2>4 DEF Search, Searchable
  <2>5. CASE Chat(a)
    BY <1>3, <2>1, <2>5 DEF Chat, Forgotten
  <2>6. CASE StoreCited(a)
    <3> DEFINE q == ask[a].question
               cited == ask[a].docs
    <3>1. \A b \in Asks : d \notin ask'[b].docs
      BY <2>1, <2>6 DEF StoreCited, Forgotten
    <3>2. CASE UNCHANGED cacheVars
      BY <1>3, <3>1, <3>2
    <3>3. CASE Cache!StoreAnswer(q, cited)
      <4>1. q \in Questions /\ cited \in Answers /\ d \notin cited
        BY <2>6 DEF StoreCited, Waiting, KbInv, AskInv, Forgotten
      <4>2. CacheProofs!StoreAnswer(q, cited)
        BY <3>3, <4>1, SameSteps
      <4>3. /\ CacheProofs!Findable' \subseteq CacheProofs!Findable \cup {cited}
            /\ \A b \in Asks : reader'[b].seen \subseteq reader[b].seen \cup {cited}
        BY <4>1, <4>2, CacheProofs!StoreShows, CacheAssumptionHolds DEF KbInv
      <4> QED
        BY <1>2, <3>1, <4>1, <4>3, SameFindable
    <3> QED
      BY <2>6, <3>2, <3>3 DEF StoreCited
  <2> QED
    BY <1>10, <2>2, <2>3, <2>4, <2>5, <2>6 DEF AskStep
<1> QED
  BY <1>1, <1>5, <1>6, <1>7, <1>8, <1>9, <1>10 DEF KbNext

(* Once the points of a deleted document, the answers that cite it and the  *)
(* questions that found it have gone, no interleaving of uploads, deletes,  *)
(* questions, failures and restarts makes an answer cite it again.          *)
THEOREM GoneStaysGone == KbSpec => GoneForGood
<1>1. KbInv /\ StatusesInStep /\ [KbNext]_kbVars =>
          [\A d \in Docs \ SeedDocs : Gone(d) => Gone(d)']_kbVars
  <2> SUFFICES ASSUME KbInv, StatusesInStep, KbNext, NEW d \in Docs \ SeedDocs, Gone(d) PROVE Gone(d)'
    OBVIOUS
  <2>1. Retired(d)' /\ points'[d] = {}
    BY RetiredStays, StoreSteps DEF Gone, KbInv
  <2>2. Forgotten(d)'
    BY ForgottenStays DEF Gone, Forgotten
  <2> QED
    BY <2>1, <2>2 DEF Gone, Forgotten
<1> QED
  BY <1>1, KbInvHolds, StoreIsUndisturbed, StatusesStayInStep, PTL DEF KbSpec, GoneForGood
============================================================================
