# Enterprise Knowledge-Based Automation: formal models

TLA+ models of the backend under `src/backend/app`, of the browser session in
`src/frontend`, and of the cost guard and the scripts it races, model-checked with
TLC and, where a result should hold for every size of the system, proved with
TLAPS.

The platform answers questions of the employees of several companies (tenants)
from the documents they upload. A FastAPI process serves the requests;
PostgreSQL keeps documents, users, usage and the audit trail, S3 the uploaded
files, Qdrant the chunks that search returns, Redis cached answers and
rate-limit counters, and Cognito the identities. Almost every operation writes
several of these stores, one call after another, with no transaction that spans
them. That is where this project looks.

## Inventory

| Component | State | Operations | What is hard | What makes it correct |
|---|---|---|---|---|
| Document store (`api/v1/documents.py`, `services/ingestion/pipeline.py`, `services/vector.py`, `services/storage.py`) | document and job rows, S3 objects, Qdrant points | upload, background ingestion, delete, re-seeding at start-up | upload, task and deletes interleave; each store fails on its own; the task lives in the process and dies with it | a document is ready only when all of it is indexed; a deleted one is not searchable; document and job end together; every job ends |
| User administration (`api/v1/admin.py`, `api/v1/platform.py`, `services/onboarding.py`, `services/identity.py`, `api/v1/auth.py`) | users rows, Cognito identities, live tokens | invite, role change, deactivation, sign-in, token expiry | counts of other rows under READ COMMITTED; directory calls no rollback reaches; tokens that outlive the role they carry | a company keeps an administrator; the directory mirrors the rows |
| Answer cache (`services/rag/cache.py`) | Redis list of question digests, one entry per digest | lookup, store, invalidate | three non-atomic Redis calls per invalidation, racing stores and lookups; expiry; errors are swallowed | a hit was in the cache while the lookup ran; a forgotten answer comes back by a new store only |
| Question answering (`services/rag/pipeline.py`, `services/rag/*.py`, `api/v1/chat.py`) | the request's hits and answer | lookup, search, rerank, chat, validate citations, store | documents are deleted while an answer is being made | an answer cites only what search returned; cached answers do not outlive their documents |
| Cost and rate limits (`core/ratelimit.py`, `api/deps.py`, `repositories.daily_spend`) | Redis counters, `request_usage` rows | consume, check ceiling, record usage | check-then-act across model calls and midnight; a counter without expiry | limits are exceeded by a bounded amount; nobody is locked out for ever |
| Agents (`services/agents/*`, `api/v1/agents.py`) | graph state of one request | plan, retrieve, analyse, synthesise, cite, time out | a timeout discards the cost spent so far | what is recorded counts towards the ceiling |
| Model provider (`services/ai/provider.py`, `registry.py`, `transcribe.py`) | deployment settings, transcription jobs | chat, embed, describe an image, transcribe | fallback after an error, refusal or throttling; counts of a remote service taken on trust; a job that never ends | the vector beside a chunk is its own; every file ends indexed or failed |
| Extractors and chunker (`services/ingestion/extractors.py`, `chunker.py`) | none | extract, split, pack with overlap | windows, sentences, blocks, empty pages and sheets | no character is lost; a chunk names its page |
| Grounding checks (`services/rag/rerank.py`, `prompts.py`, `guardrails.py`) | none | fuse and rank, build context, validate citations, guard the output, confidence | the context is built twice; checks apply in an order | a citation names what the model was shown; nothing unsafe leaves |
| Companies and suspension (`api/v1/platform.py`, `api/deps.py`) | tenants rows | create, rename, suspend | requests in flight while a company is suspended | a suspended company's workspace is closed to new requests |
| Audit trail (`repositories.record_audit`) | audit rows | record | rows written in a transaction that the refusal rolls back | |
| Cost guard (`infra/terraform/modules/cost-guard`), `scripts/deploy.sh`, `destroy.sh` | ECS, load balancer and RDS resources, the Terraform state, snapshots | classify, look, stop, delete, retry, deploy, destroy | a shutdown that races a deployment, a destruction or its own repetition; partial failure; AWS starts stopped instances | only owned resources are touched, only when armed; what bills past its limit stops; rows are in a snapshot before the instance goes |
| Frontend session (`frontend/src/lib/api.ts`, `components/shell.tsx`) | tokens in the tab's storage, one shared renewal | call, renew, retry, load, sign in, sign out | a renewal or a late 401 that races a sign-out; an answer lost after the API ran the call | no call runs twice; no call waits for ever; who leaves is out |

The components interact through the stores: the ingestion task and the delete
request write the points that search reads and invalidate the cache that
answers are stored in; directory roles become the tokens every request is
authorised by; everything a question costs is charged to the row the next
question's ceiling is read from. `PROJECT.json` names, for every part, its
source files and whether it is modelled, and lists the hazards with the line
where each bites and the properties that watch it.

## Modules

| Module | Models | State and actions |
|---|---|---|
| `DocumentContract` | what a client that polls a document may observe | `row` and `job` status; one action per visible change |
| `DocumentStore` | upload, background task, delete, replacement of the ECS task | `row`, `job`, `count`, `owner` are PostgreSQL as committed; `object` is S3, `points` Qdrant; `stage` and `del` say which await the task and each delete request are at |
| `DocumentHistory` | `DocumentStore` and what it does not remember | `disturbed`: the documents a delete has met during their ingestion, or a restart has indexed again after their deletion; it watches every step and disables none |
| `UserAdmin` | role, status and existence of the people of one company | `role`, `active` are the committed users rows; `dirRole`, `enabled` Cognito; `tokens` the unexpired ID tokens; `req` the requests |
| `UserAdminHistory` | `UserAdmin` and what it does not remember | `raced`: two requests were about to take away two administrators at once; it watches and disables nothing |
| `UserAdminMirror` | `UserAdmin` and what it does not remember | `undone`: of whom a request was cut short between its first directory call and its commit; it watches and disables nothing |
| `UserAdminProofs` | theorems about `UserAdmin`, `UserAdminHistory` and `UserAdminMirror` | |
| `RecentAnswers` | what a cache of answers promises | `known`: what a lookup would find; `latest`: what was stored last |
| `AnswerCache` | `lookup`, `store` and `invalidate_tenant` | `index` and `entry` are the Redis keys; `reader` and `inval` the loops in progress; `latest` and the field `seen` are histories that no action reads |
| `AnswerCacheProofs` | theorems about `AnswerCache` | |
| `KnowledgeBase` | `answer_question`, composed with `DocumentStore` (EXTENDS) and `AnswerCache` (INSTANCE) | adds `ask`, the chat requests |
| `KnowledgeBaseProofs` | theorems about `DocumentStore`, `DocumentHistory` and `KnowledgeBase` | |
| `UsageLimits` | rate limiter, daily ceiling, model calls of questions, workflows and uploads, their charge | `hits` and `expires` are the Redis counters; `asked` and `indexed` the `request_usage` rows summed by user and day; `call` the requests, with the day and cost their row will have |
| `UsageLimitsProofs` | theorems about `UsageLimits` | |
| `CostGuard` | the Lambda, `deploy.sh` and `destroy.sh` over one stack and look-alikes of it | `live`, `age`: AWS; `state`: the Terraform state file; `inv`: the invocations; `script`: the script that runs; `unsaved`: rows no snapshot holds |
| `CostGuardProofs` | theorems about `CostGuard` | |
| `Chunking` | extractors and chunker as operators | text is a sequence of characters that know where they come from |
| `ChunkingProofs` | theorems about `Chunking`, and the lemmas on folds, sorting and sequences they need | |
| `Grounding` | rerank, context, citation checks, output guardrail, confidence as operators | |
| `Provenance` | one file from upload to index and one question or workflow from embedding to checked answer, over `Chunking` and `Grounding` | `work` and `job`: the ingestion task and its transcription; `index`: Qdrant with payloads; `ask`: the request and what its model was shown |
| `ProvenanceProofs` | theorems about `Provenance` | |
| `FrontendSession` | one browser tab against the API and the directory | `stored`: session storage; `page`: `me` and `loading`; `call`: requests; `renewal`: `inFlightRefresh`; `gone` is a history no step reads |
| `FrontendSessionProofs` | theorems about `FrontendSession` | |
| `MC*` | instances for TLC | |

**Grain.** An action is the code between two awaits that another coroutine can
observe, or one command to a store. A call that raises may have taken effect:
wherever the code makes a call to another service, the action has the outcomes
"done", "refused" and, when the reply can be lost, "done but reported as
failed". What the code does after an exception (the `except` blocks, the
rollback of `get_session`, `return_exceptions=True`) is part of the action or
the action that follows.

**PostgreSQL** runs at READ COMMITTED, as `db/session.py` leaves it. A flushed
UPDATE holds the row until the transaction ends; a second UPDATE of the row
waits and then overwrites by primary key. `RowLocked` and `Locked` are derived
from where the requests are. Committed values only are state: what a transaction
has flushed is its own until it commits.

**Restart.** The ECS task holds API, Qdrant and Redis containers without
volumes, so replacing it empties `points`, the cache and every coroutine, and
keeps PostgreSQL and S3. The start command runs the seed, which re-indexes the
demo documents (all, or some of them if it fails). No other document is
re-indexed.

**Composition.** `KnowledgeBase` takes the actions of `DocumentStore` as they
are, and those of `AnswerCache` with an answer being the set of documents it
cites, a lookup for every chat request, and an invalidation for every delete
request and every task. `InvalidateAfterTask` and `CommitDelete`, which stand
for the whole invalidation in `DocumentStore`, wait here for the three commands
of `AnswerCache` to end. `DocumentsOnly` is everything else of `DocumentStore`.

Definitions whose comment starts with *Variant* are not part of any
specification. Each is a plausible wrong version of the definition that follows
it, and `PROJECT.json` ("mutants") says which property finds it.

## What is checked

| Run | Instance | Shows |
|---|---|---|
| `DocumentHistory` | 1 uploaded and 1 demo document, 2 deletes at any time by 3 users, 2 chunks, every fault | of a document that no delete has met during its ingestion and no restart has brought back: it turns ready only when fully indexed with its file stored, its chunks have their file, and once deleted it is not searchable, whatever fails and whatever happens to the other documents |
| `DocumentStoreLive` | 1 document, 2 deletes at any time, 2 chunks, every fault, fairness | every queued job ends or is lost with the process or the database, every delete is answered, document and job end together, a deleted document is searchable only while its task runs or after a failure has cut it off; the store implements `DocumentContract` |
| `UserAdminMirror` | 2 people, 2 requests, failing directory and database | the row lock keeps directory and table in step for everybody of whom no request was cut short after its first directory call |
| `UserAdminFaults` | 2 people whose ids differ from their subjects, 2 requests, failing directory and database | requests that overlap leave an active administrator unless two of them take away two administrators at once |
| `AnswerCache` | 3 questions, 2 answers, a list of 2, 1 lookup, 1 invalidation, Redis errors | a hit was in the cache during the lookup; the cache implements `RecentAnswers` |
| `KnowledgeBase` | 1 uploaded and 1 demo document, 1 question at a time, 1 delete, Redis, database and process failing, fairness | a deleted document that is gone from index, cache and running questions stays away, and every answer that cites it goes |
| `UsageLimits` | 1 user, a workflow beside a question or an upload, 2 days, limits of 1 and 2, failing commits, Redis errors on the upload counter, restarts, fairness | what questions and workflows add to a day stays within the ceiling and what is in progress; every other counter starts again |
| `CostGuard` | service, load balancer and database of the stack, three look-alikes that lack one ownership signal each, 1 invocation at a time, 1 retry, 1 AWS error, 1 script, fairness | look-alikes keep running, an unarmed guard changes nothing, no rows are lost to a destruction, a failed shutdown is retried, what bills past its limit stops |
| `Provenance` | 1 upload (pages, sheets, image or recording), 1 indexed file, 1 file of another company, 1 question or workflow, 3 provider settings, 2 failed calls (a partial upsert and its clean-up among them), fairness | every character is in a chunk of its page, which is too long by its overlap at most; every citation names what the model was shown; nothing flagged, foreign or unsafe passes; every file ends |
| `FrontendSession` | 1 person, 2 calls at a time, every fault, fairness | no call is run twice, no call waits for ever, who leaves begins no further renewal and is out after one token life |
| `UserAdminRace`, `KnowledgeBaseStale` | the smallest that show it | the code does not do what a doc or comment says, see below |

**Bounds and why they are enough.** One uploaded document and one of the demo
documents suffice because no step of a task or delete reads another document, and
the restart treats the two kinds differently; two deletes because a third waits for the same row lock in the same state; two
chunks so that an upsert can land in part. Two people and two requests are the
least with which one administrator can remove the other while being removed.
`UserAdminFaults` does not go on from states in which `raced` is true
(`MCNotRaced`): `raced` is never reset, and the property says nothing of them; nor does
`UserAdminMirror` from states in which everybody is `undone` (`MCNotAllUndone`). The
cache needs one question more than its list holds, so that an entry is trimmed,
and two similar questions, so that a lookup chooses. The composed model has one
question and one list place: what several questions do to each other is
`AnswerCache`'s, and what is new in the composition is the order of purge,
invalidation, commit, search and store. Symmetry is used in safety runs and over
interchangeable values only. In `UsageLimits` one user has both requests, since
counters and spend are each user's own; two days are needed for a request that
begins before midnight and is charged after it (`MaxDay`), and every model call
costs one (`Prices`, with a ceiling of one), so that the first charge closes the
day and the bound of seven is six above it. `MaxIndexed` stops uploads from
adding to a day without end, which nothing in the code does. Otherwise nothing is
unbounded: requests return to idle and may be made again without limit.

`CostGuard` has one resource of each kind, because the shutdown treats each by its
kind; the look-alikes carry the ownership question. One invocation at a time is
what the run explores (the proofs have any number), one retry and one error are
the least with which a failure is repeated and met again. `Provenance` takes the
sizes down together (chunks of eight characters with an overlap of four, two
results, one similarity below the threshold and one above, sentences of one to
eighteen characters), so that every branch of the
chunker is reached: a sentence longer than a chunk, an overlap that joins two
chunks, an unreadable page, an empty page or sheet. One file is ingested while one
request searches; what several requests do to each other is in the other modules.
In `FrontendSession` one person signs in, out and in again without limit; a second
person adds a million states and no new kind of step, since what the tab does
never depends on who signs in; two calls are the least that share a renewal.

**Fairness.** Weak fairness of the steps of a coroutine: the event loop runs what
can run, and every call has a time limit or returns. Strong fairness of a step
that waits for a row lock: PostgreSQL queues waiters, so one is not overtaken for
ever. Weak fairness of the expiry of a cache entry: Redis drops it when its time
is up, and nothing extends it, since only a missed lookup leads to a store. Weak
fairness of the end of a rate-limit minute, for the same reason: EXPIRE is sent
once, by the request that counted to one.
Users are owed nothing and owe nothing: no action that begins a request is fair.
`CostGuard`: EventBridge invokes every hour, an invocation takes its next step or
is ended by its time limit, AWS completes a transition it has begun; nobody must
run a script, and AWS need not start a stopped instance. `Provenance`: the process
runs the tasks it has begun; Transcribe owes nothing (its polls are bounded), and
nobody must ask. `FrontendSession`: the network answers or fails, the directory
answers, a token ends after its hour; the answers of a call and of a renewal are
taken under strong fairness, because they are only taken when no continuation is
due, and the event loop takes queued events in turn. Nobody must call, sign in,
sign out or reload.
`JobEnds` and `DeleteEnds` are checked with every fault; `JobEnds` excepts a task that
is lost with the process or the database, which nothing takes up again (below).

## What is proved

TLAPS proves the following for every value of the constants under the named
assumptions of the modules.

| Module | Theorem | Says | Assumes |
|---|---|---|---|
| `KnowledgeBaseProofs` | `TypeCorrect` | types of the store | |
| | `StatusesStayInStep` | `StatusesInStep` | |
| | `JobsMirrorDocuments` | `JobMirrorsDocument` | |
| | `StoreImplementsContract` | `DocumentStore` implements `DocumentContract` | |
| | `ReadyIsIndexed` | `ReadyOnlyWhenIndexed` | |
| | `DeletedIsNotSearchable` | `DeletedNotSearchable` | |
| | `SearchableKeepsFile` | `SearchableHasFile` | |
| | `DeletedIsPurgedInTheEnd` | `DeletedIsPurgedAtRest` | |
| `UserAdminProofs` | `TypeCorrect` | types | |
| | `DirectoryFollows` | `DirectoryMirrorsRow` | |
| | `AdminStays` | `LostOnlyInARace` | |
| `AnswerCacheProofs` | `TypeCorrect` | types, with a list within its bound and free of repetitions | |
| | `HitsStayCurrent` | `HitsAreCurrent` | |
| | `CacheOnlyForgets` | `AnswerCache` implements `RecentAnswers` | |
| | `StoreIsUndisturbed` | `KnowledgeBase` implements `DocumentStore` | |
| | `KbTypeCorrect` | types of the composition (`KbTypeOK`) | |
| | `GoneStaysGone` | `GoneForGood` | |
| `UsageLimitsProofs` | `TypeCorrect` | types | |
| | `AskedStaysBounded` | `AskedIsBounded` | |
| `CostGuardProofs` | `TypeCorrect` | types | |
| | `ForeignStaysUntouched` | `ForeignUntouched` | |
| | `DryRunStays` | `DryRunKeepsStack` | |
| | `RowsAreKept` | `DestroyKeepsRows` | |
| | `ErrorsStayRetried` | `ErrorsAreRetried` | |
| `ChunkingProofs` | `FileChunks` | the chunks of a file: each is text of one part and names its place, together they hold all that the file says, none exceeds its size by more than the overlap | |
| `ProvenanceProofs` | `ProvenanceTypes` | types | |
| | `NothingIsLost` | `EveryCharacterIndexed` | |
| | `PlacesAreTold` | `ChunksKnowTheirPlace` | of Cohere, in the model: never more vectors than texts |
| | `NoChunkIsTooLong` | `ChunksFit` | |
| | `OnlyAllowedIsShown` | `ShownIsAllowed` | |
| | `MarkersHaveCitations` | `MarkersResolve` | |
| | `CitationsAreOfTheShown` | `CitationsWereShown` | |
| | `UnsafeStaysIn` | `NothingUnsafeLeaves` | |
| `FrontendSessionProofs` | `TypeCorrect` | types, and no call awaits a renewal that is not under way | |
| | `ServedOnceAtMost` | `ServedOnce` | |
| | `WhoLeftDoesNotRenew` | `LeaversDoNotRenew` | |

No theorem assumes that nothing fails, or that users wait for each other.
`DeletedIsPurgedInTheEnd` says what is so once a task has come to its end; a task that a
failure has cut off may leave chunks, and a restart may bring back a demo document
(below). `ReadyIsIndexed`, `DeletedIsNotSearchable`, `SearchableKeepsFile`,
`DirectoryFollows` and `AdminStays` are about specifications with a history variable:
nothing is excluded, every interleaving and every failure is taken, and the variable
records which documents, which people or which company have been through what breaks
the promise. What the theorems add to the list of such races
under *Where code and documents disagree* is that there are no others, and that a
race over one document does no harm to the next.

**The arguments.**
`JobMirrorsDocument` is not inductive, because the task overwrites a status it
has read long before. `StatusesInStep` adds the table `JobAt` (what the place of
the task says of the job) and `Paired` (which pairs of statuses there are); with
it every commit of the task knows both rows, whatever was deleted meanwhile, and
the same table gives the refinement, since it tells which visible change a commit
is. `Quiet` says, of every document that is not `disturbed`, what the collection and
S3 hold at each stage of its task and of a delete, and that no delete has a hand on
it while the task stands between its look at the row and its last write; from it
`ReadyOnlyWhenIndexed` is a fact of one step. `HistoryOnlyWatches` brings what is
proved of `Spec` over to `HSpec`.
`MirrorInv` (in the proofs module) says where the directory is while a request
holds the row of somebody who is not `undone`; two requests never hold the same one, so a step of one cannot
disturb what the other relies on. `AdminInv` says that as long as there was no race, whoever is about to take
away an administrator (`TakesAdmin`) leaves another active one. That other one can
only be taken away by a request about somebody else, which would be the race, and a
row that is held keeps its person's requests from overwriting each other (`LockInv`);
what two stages of one request have counted and found is still so when it commits.
For the cache,
`SeenInv` says that what a lookup has found, and what it would still find at the
places it has not read, was findable since it began; the refinement rests on
`PushedIsFirst`: a store lists its own digest, no other that was not listed, and
overwrites the entry it lists. The composition reuses what is proved of its
parts: every step is a step of `DocumentStore` (`StoreSteps`), and every step but
a restart is one of `AnswerCache` (`CacheSteps`). `GoneForGood` then needs two
facts, that no task revives a retired document (`RetiredStays`, by
`StatusesInStep`) and that nothing shows an answer that cites it
(`ForgottenStays`, by `StoreShows` and `OthersForget` of the cache).
`AskedIsBounded` counts debts: `Bounded` adds to what a day is charged the most
that the requests past the ceiling may still be charged to it (`MayCharge`). A
request joins them only while less than the ceiling is charged, a commit moves a
debt to the rows, and every other step leaves debts as they are or drops some.
`FutureIsFree` says that nothing is charged to a day to come, which the ceiling
does not read and a request that outlives midnight is charged to.
For the cost guard each property has its own strengthening: `ForeignInv` says that
nothing foreign is among what an invocation will act on; `DryRunInv` that what a
script has made and not yet recorded exists, so that recording it under an unarmed
guard keeps the stack whole; `RowsInv` that from the snapshot on every older row is
in it or no instance is left; `TriesFit` that attempts are counted up to the limit
of their trigger. `SessionInv` adds to `ServedOnce` where in its
life a call has been served (`ServedAt`): not while it is refused or waits for a
renewal, which is why it may be sent again. `LeaveInv` says that the tab holds no
refresh token of who has left that would still be granted: revoked or not, it is
cleared when the sign-out ends, and a renewal leaves the stored one alone. `PurgedDoc` says what is left of a
document that is deleted at any time: nothing is indexed before the upsert, and a
task cannot reach its end while a delete holds the row, so the purge and the end of
the task are never out of order. `Honest` says that a request has no reply before it
is done and that, when its answer is checked, the model was shown exactly what the
context is built from the second time.

The named assumptions of the modules (`StoreAssumption`,
`KindAssumption`, `SessionAssumption` and the like) say what values the constants
may have, no more.
`StatusesInStep` and `Quiet` are strengthenings that no run of their own checks.

*What the chunker computes.* `FileChunks` is about all files, of any number of pages,
rows and characters. Its measure is the *ink* of a text, the characters that are not
blank: cutting a sentence into windows, joining with blanks, stripping, flushing a
buffer and carrying its tail over to the next chunk each have a lemma that says what
happens to the ink, and a chunk that is packed has the ink of its segments. Beside it
runs the length (`Fit`, `Held`): a piece fits a chunk however it was split or cut, and a
chunk begins with an overlap that does not grow, so that the excess of one chunk is not
passed on to the next. The folds
of the chunker are recursions of the community modules over a finite set of indices.
`FoldExists` shows that such a recursion has a solution, `FoldRuns` that it is the
run of the loop from the first element to the last, and a property of the loop is
then carried along the run by `InductionOnNat`. Both inductions are over a set (the
numbers at which the property holds), since the provers have no use for the library's
rules about operators.

*From a file to the index.* `WorkInv` says, by the place of the task (`Task`), what
it holds: chunks that are those of the file, vectors that are the first ones in order
as long as no batch came back short, and nothing indexed that is not a chunk of the file
with its own vector (`Landed`): nothing before the upsert, all of the file when the task
is done, any part of it when the upsert failed and the clean-up failed too. A short
batch is never made up for, so equal totals after the last one mean that every batch
was complete: the check of totals at `pipeline.py:142` is enough, although it comes
after all of them. This rests on the embedding service never returning more vectors
than it was given texts (`CohereEmbeds`). No line checks that (`provider.py:405`
looks at the kind of the answer and at the length of a vector): a batch that is too
long could make up for one that is too short, and the chunks between them would have
each other's vectors. `EveryCharacterIndexed` and `ChunksKnowTheirPlace` follow by
`FileChunks`.

*From the index to the answer.* `RequestInv` says of each request that its hits are of
points it was allowed to see (`Sound`) and that its shape fits its place (`Grounded`). A
hit carries its payload, so it stays sound when its point is removed. The sort and the
reranking are shown to return some of their arguments, each once, and no more than
`TopK`; `ShownIsAllowed` is then a fact about what survives the thresholds. For
`MarkersResolve` the numbers a citation can name are the positions of the context,
which is built twice from the same hits.

TLC checked `WorkInv`, `AskInv` and `RequestInv` as invariants on all 199,519 states of the
instance of the run `Provenance` before they were proved.

**Only model-checked.** Liveness (`JobEnds`, `DeleteEnds`, `DeletedIsForgotten`,
`WindowReopens`, `PastLimitStops`, `FilesEnd`, `CallsEnd`, `WhoLeavesIsOut`) and
everything with ENABLED is beyond the proof system. Every invariant and action property
of a passing run is also proved.

## Where code and documents disagree

- A delete that overlaps the ingestion of the document leaves a deleted document
  searchable (`pipeline.py:168` against `documents.py:198`, "A document is not
  deleted while its chunks remain searchable"). It is so only while the task runs,
  because the task then overwrites the deletion with `ready` - the document is back
  (`DeletedIsPurgedAtRest` states what remains).
- Two administrators who demote each other at once leave none
  (`UserAdminRace`; `admin.py:278`).
- An invited administrator may change its own role or status: the check compares
  the directory's subject with the row's id (`onboarding.py:130` against
  `admin.py:264`), which agree for seeded people only. `SameId` is who they are; no
  property can be stated that the code keeps for the others.
- A person who is deactivated keeps working until the ID token expires.
  `identity.py:371` says "Disable, then revoke live tokens - otherwise a disabled
  user keeps working until their current token expires", but the call revokes refresh
  tokens, and the API verifies an ID token by its signature (`Lapse` in
  `FrontendSession` is what ends it there, and the expiry of `tokens` in `UserAdmin`).
- A question that is answered during a delete leaves a cached answer that cites
  the deleted document (`KnowledgeBaseStale`; `rag/pipeline.py:251`).

`UserAdminRace` and `KnowledgeBaseStale` are runs that show the second and the last
of these. The first is what `disturbed` records: `DocumentHistory` reaches it, and its
properties hold of the other documents.

The models reach the following too; no run checks them, and the hazards in
`PROJECT.json` name the lines.

*Documents, people, cost.* Demo documents that were deleted are searchable
again after a restart, because `seeds/seed.py:496` indexes all of them without
reading their status, which is the other thing that `disturbed` records. A workflow that is cut short is recorded with no cost,
whatever its model calls have cost (`CutShort`), so `AskedIsBounded` is about what
is recorded. A Redis error on EXPIRE leaves a counter that never starts again
(`RedisFails`). A commit that fails after the purge
and the S3 delete leaves a ready row without chunks and file. A failed upsert
whose clean-up also fails leaves searchable chunks of a failed document
(`pipeline.py:172`; in `DocumentHistory`, and in `Provenance` by `CleanUp`). An
upload whose insert fails leaves an object that no row names. A job whose process
or database session dies is never ended by anything. A directory call that fails
half way leaves table and directory apart, and an invitation that fails after the
account was created can never be repeated for that address. A demoted or
deactivated person's token keeps its role until it expires.

*Cost guard.* A session-limit check that cannot read the state reports nothing to
do and drops the error (`handler.py:381`; `handler.py:430` and the test at
`test_handler.py:254` raise it for the other triggers). A destruction snapshots the
database while the service still writes to it, so rows written meanwhile are lost
(`destroy.sh:150`; `RUNBOOK.md:1421` says that nothing is). A resource created by an
apply that dies before it records it is refused by the guard for ever, since its
ownership asks for the state (`handler.py:189`). A deployment starts a database the
guard has stopped (`deploy.sh:154`; `infra/terraform/README.md:121` says that it
cannot). Two invocations that overlap stop the instance twice, and the second
reports a failure.

*Answers.* An invented marker written as `[S05]` is counted and not removed
(`guardrails.py:88`). A workflow reports the model of its last call only, so a
fallback while analysing is silent. A withheld answer keeps a confidence above zero
in a chat and has none in a workflow. The confidence takes hits into account that
were trimmed from the context, and a workflow lists retrieved chunks that no model
saw. A second sweep of a workflow is dropped without a word when the embedding
service returns fewer vectors than texts (ingestion compares the totals,
`pipeline.py:142`). Vectors of different embedding models mix when
`EMBED_PROVIDER` changes. A transcription job that outlives its polls is left
running. A chunk may exceed its size by the overlap and two characters. A PDF page
that cannot be read is left out in silence (`extractors.py:101`), and so are the
values of a row beyond the header (`extractors.py:170`).

*Browser session.* An upload that is refused with 401 is not sent again although
its renewal succeeded, and the renewed session is cleared (`api.ts:236`; the
comment at `api.ts:234` calls a 401 with a usable refresh token an expiry, not a
sign-out). A renewal that is answered after a sign-out stores a token again
(`api.ts:151`; `shell.tsx:195` says that a sign-out must never leave the user signed
in): without a refresh token it lasts one token life, which is what
`WhoLeavesIsOut` states. A late 401, renewal or sign-out of an old session clears or
overwrites the session of the person who signed in meanwhile, and a call that is
sent again goes out in that person's name. A renewal that fails for a passing reason
signs the user out.

## Not modelled

- Companies and suspension: single-row operations, each one transaction. The
  suspension check (`deps.py:79`) reads the row once, and the code promises nothing
  of requests already past it; the gates of administration (`deps.py:49`) do not
  look at it at all.
- The audit trail: rows in the transaction of the request. That a refusal rolls
  its own audit row back is a fact of one code path.
- The conversation rows of `chat.py`, written in the transaction of the charge. The
  rate limit of the sign-in endpoints is the same counter by account name.
- The demo document that the seed inserts as failed (`seed.py:251`): `Init` has the
  ready ones. It has no chunks and no task, and a delete treats it like any failed row.
- In development, the stand-in directory (`identity.py:435`, `461`), which sends a new
  refresh token with every renewal; `FrontendSession` follows Cognito, which sends none
  (`identity.py:267`).
- What pypdf, python-docx, openpyxl and csv make of a file, what a model writes and
  what a transcription says are inputs of `Provenance`. The input guardrails are
  patterns on text; their verdict on a chunk is a flag there.
- Listing and reading endpoints change nothing. Their tenant filter is the
  tenant of the token, which the models take from `TenantOf` or leave out by
  modelling one company: every key, path and filter carries the tenant.
- Two API tasks at once (a rolling deployment): the service runs one task.
- In the browser: the debugging sign-in with a pasted token, first-password
  challenges and resets, several tabs (each has a storage of its own), a request
  that reaches the API after the tab has given up on it.
- Image build and scan, blue-green release and rollback, migrations, logging,
  metrics and pages have no concurrent state of their own; the container layout
  is used in `Restart`.

## Plan

In order; each module gets its properties, runs and theorems before the next.

1. Done: `DocumentStore` with `DocumentContract`; `UserAdmin`; `AnswerCache` with
   `RecentAnswers`; `KnowledgeBase`; `UsageLimits`; `CostGuard`; `Provenance` with
   `Chunking` and `Grounding`; `FrontendSession`.
2. The conversation rows of `chat.py`, written in the transaction of the charge.
3. `Tenants`: suspension with requests in flight, composed with `UserAdmin`.
4. Abstract specifications: a spending account that `UsageLimits` implements up to the
   requests in flight; a session that `FrontendSession` implements.
