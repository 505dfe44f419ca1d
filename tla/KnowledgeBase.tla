--------------------------- MODULE KnowledgeBase ---------------------------
(***************************************************************************)
(* Documents, answers and the answer cache of one tenant: DocumentStore and*)
(* AnswerCache composed with the requests that ask questions               *)
(* (services/rag/pipeline.py answer_question).                             *)
(*                                                                         *)
(* An answer is the set of documents it cites.  A question is looked up in *)
(* the cache, then searched in the points of the documents, and an answer  *)
(* with citations is stored, while deletes and tasks of the documents purge*)
(* points and invalidate the cache.                                        *)
(***************************************************************************)
EXTENDS DocumentStore, Sequences

CONSTANTS
    Asks,          \* concurrent chat requests
    Questions, Similarity, NoQuestion, MaxCandidates, RedisFails

VARIABLES
    index, entry, reader, inval, latest,  \* the cache, see AnswerCache
    ask  \* the chat requests: next await, question, documents found, then cited

NoCitations == {}
Answers == (SUBSET Docs) \ {NoCitations}

Cache == INSTANCE AnswerCache
    WITH NoAnswer <- NoCitations, Readers <- Asks, Invalidators <- Requests \cup Docs

ASSUME KnowledgeBaseAssumption ==
    /\ \A u, v \in Users : TenantOf[u] = TenantOf[v]
    /\ Requests \cap Docs = {}
    /\ MaxCandidates \in Nat \ {0}
    /\ Similarity \in [Questions \X Questions -> Nat]
    /\ NoQuestion \notin Questions
    /\ RedisFails \in BOOLEAN

cacheVars == <<index, entry, reader, inval, latest>>
kbVars == <<vars, cacheVars, ask>>

AskSteps == {"idle", "lookup", "search", "chat", "store"}
NoAsk == [step |-> "idle", question |-> NoQuestion, docs |-> {}]

KbTypeOK ==
    /\ TypeOK
    /\ Cache!TypeOK
    /\ ask \in [Asks -> [step : AskSteps, question : Questions \cup {NoQuestion}, docs : SUBSET Docs]]

KbInit ==
    /\ Init
    /\ Cache!Init
    /\ ask = [a \in Asks |-> NoAsk]

----------------------------------------------------------------------------
(* answer_question *)

Waiting(a, step) == ask[a].step = step
Answered(a) == ask' = [ask EXCEPT ![a] = NoAsk]
Continue(a, step, docs) == ask' = [ask EXCEPT ![a].step = step, ![a].docs = docs]

AskQuestion(a, q) ==
    /\ Waiting(a, "idle")
    /\ Cache!BeginLookup(a, q)
    /\ ask' = [ask EXCEPT ![a].step = "lookup", ![a].question = q]
    /\ UNCHANGED vars

ReadCache(a) == Cache!ReadEntry(a) /\ UNCHANGED <<vars, ask>>

(* A hit is the answer; without one the vectors are searched.               *)
AfterLookup(a) ==
    /\ Waiting(a, "lookup")
    /\ Cache!EndLookup(a)
    /\ IF reader[a].best # NoCitations THEN Answered(a) ELSE Continue(a, "search", {})
    /\ UNCHANGED vars

Searchable == {d \in Docs : points[d] # {}}

(* vector.search and the relevance threshold; with no hits the answer is    *)
(* NO_CONTEXT_ANSWER.  The call may raise.                                  *)
Search(a) ==
    /\ Waiting(a, "search")
    /\ \/ \E found \in (SUBSET Searchable) \ {{}} : Continue(a, "chat", found)
       \/ Answered(a)
    /\ UNCHANGED <<vars, cacheVars>>

(* Variant: the model's own source numbers are taken for documents.         *)
ChatInventing(a) ==
    /\ Waiting(a, "chat")
    /\ \/ \E cited \in Answers : Continue(a, "store", cited)
       \/ Answered(a)
    /\ UNCHANGED <<vars, cacheVars>>

(* Rerank, context and chat, then validate_citations: what is cited was     *)
(* found.  Without a citation, or when a call raises or the output guardrail*)
(* withholds the answer, nothing is stored.                                 *)
Chat(a) ==
    /\ Waiting(a, "chat")
    /\ \/ \E cited \in (SUBSET ask[a].docs) \ {NoCitations} : Continue(a, "store", cited)
       \/ Answered(a)
    /\ UNCHANGED <<vars, cacheVars>>

(* After the usage row, which may fail; a failed store is ignored.          *)
StoreCited(a) ==
    /\ Waiting(a, "store")
    /\ \/ Cache!StoreAnswer(ask[a].question, ask[a].docs)
       \/ ("database" \in Faults \/ RedisFails) /\ UNCHANGED cacheVars
    /\ Answered(a)
    /\ UNCHANGED vars

AskStep(a) == ReadCache(a) \/ AfterLookup(a) \/ Search(a) \/ Chat(a) \/ StoreCited(a)

----------------------------------------------------------------------------
(* Documents that change invalidate the cache *)

(* Everything of DocumentStore that does not touch the cache.               *)
DocumentsOnly ==
    /\ \/ \E d \in Docs, u \in Users : StoreObject(u, d)
       \/ \E d \in Docs : UploadStep(d) \/ LockedTaskStep(d) \/ DatabaseFails(d)
       \/ \E d \in Docs : stage[d] # "invalidating" /\ TaskStep(d)
       \/ \E r \in Requests, u \in Users, d \in Docs : RequestDelete(r, u, d)
       \/ \E r \in Requests : LockRow(r) \/ PurgeVectors(r) \/ DropObject(r)
       \/ \E r \in Requests : del[r].step = "locking" /\ DeleteFails(r)
    /\ UNCHANGED <<cacheVars, ask>>

(* The last thing a task does (_run_ingestion_task).                        *)
TaskInvalidates(d) ==
    /\ stage[d] = "invalidating"
    /\ \/ Cache!InvalidationStep(d) /\ UNCHANGED vars
       \/ Cache!EndInvalidation(d) /\ InvalidateAfterTask(d)
    /\ UNCHANGED ask

(* gather: the object is dropped while the cache is invalidated, after the  *)
(* vectors have been purged and before the row is committed.                *)
DeleteInvalidates(r) ==
    /\ del[r].step \in {"purged", "dropped"}
    /\ Cache!InvalidationStep(r)
    /\ UNCHANGED <<vars, ask>>

(* session.commit awaits the gather.                                        *)
EndDelete(r) ==
    /\ Cache!EndInvalidation(r)
    /\ CommitDelete(r) \/ (del[r].step = "dropped" /\ DeleteFails(r))
    /\ UNCHANGED ask

Expire ==
    /\ Cache!ExpireIndex \/ \E q \in Questions : Cache!ExpireEntry(q)
    /\ UNCHANGED <<vars, ask>>

(* Redis goes with the task that holds it, and so do the chat requests.     *)
KbRestart ==
    /\ Restart
    /\ index' = <<>>
    /\ entry' = [q \in Questions |-> NoCitations]
    /\ reader' = [a \in Asks |-> Cache!NoLookup]
    /\ inval' = [i \in Requests \cup Docs |-> Cache!NoInvalidation]
    /\ ask' = [a \in Asks |-> NoAsk]
    /\ UNCHANGED latest

KbNext ==
    \/ DocumentsOnly
    \/ \E d \in Docs : TaskInvalidates(d)
    \/ \E r \in Requests : DeleteInvalidates(r) \/ EndDelete(r)
    \/ \E a \in Asks : AskStep(a) \/ \E q \in Questions : AskQuestion(a, q)
    \/ Expire
    \/ KbRestart

KbSpec == KbInit /\ [][KbNext]_kbVars

(* Requests that have been accepted go on, and Redis drops an entry when its*)
(* time is up: no lookup extends it, and a question is only stored again    *)
(* after a lookup has missed its answer.                                    *)
KbFairness ==
    /\ \A a \in Asks : WF_kbVars(AskStep(a))
    /\ \A q \in Questions : WF_kbVars(Cache!ExpireEntry(q) /\ UNCHANGED <<vars, ask>>)

KbFairSpec == KbSpec /\ KbFairness

----------------------------------------------------------------------------
(* Properties *)

Cited(d) == \E answer \in Cache!Findable : d \in answer

(* Deleted, and no task will write its points again.                        *)
Retired(d) == row[d] = "deleted" /\ stage[d] \notin TaskStages

(* "Drop this tenant's cache - called when documents change" (cache.py):    *)
(* once a delete has committed, the cache holds no answer that cites it.    *)
DeletedIsNotCited ==
    \A d \in Docs : row[d] = "deleted" => ~Cited(d)

(* What the code does give: an answer that cites a deleted document is      *)
(* either stored by a question that was being answered during the delete,   *)
(* or it is never there.  Once the points, the answers and the questions    *)
(* that saw it have gone, nothing brings the document back - no entry left  *)
(* behind by an invalidation, no retried store, no restart.                 *)
Gone(d) ==
    /\ Retired(d)
    /\ points[d] = {}
    /\ ~Cited(d)
    /\ \A a \in Asks : d \notin ask[a].docs \cup UNION reader[a].seen

GoneForGood == [][\A d \in Docs \ SeedDocs : Gone(d) => Gone(d)']_kbVars

(* And it does go: the answers that cite a deleted document have all        *)
(* expired at some time, for ever.                                          *)
DeletedIsForgotten ==
    \A d \in Docs \ SeedDocs : [](Retired(d) /\ points[d] = {} => <>[]~Cited(d))
=============================================================================
