----------------------------- MODULE Provenance -----------------------------
(* From a file to a citation: the background task extracts, chunks, scans,    *)
(* embeds and indexes files (services/ingestion/pipeline.py) with the help of  *)
(* Transcribe and the models (services/ai), and requests search the index,     *)
(* show the best chunks to a chat model and check what it writes               *)
(* (services/rag/pipeline.py, services/agents).  Statuses, deletes and the      *)
(* answer cache are those of DocumentStore, KnowledgeBase and AnswerCache.     *)
EXTENDS Chunking, Grounding

CONSTANTS
    Files,           \* uploaded files
    TenantOf,        \* the tenant of each of them
    Texts,           \* what may be in each of them, or what a model says is in it
    Indexed,         \* files that were indexed before
    Asks,            \* questions
    AskTenant,       \* the tenant that asks
    Scopes,          \* the sets of files the selected documents and departments stand for
    Scores,          \* similarities in percent
    Threshold,       \* RELEVANCE_THRESHOLD in percent
    Budget,          \* characters of context for "chat" and for "agent"
    HeaderChars,     \* the line above the text of a source
    BatchSize,       \* EMBED_BATCH_SIZE
    MaxPolls,        \* _MAX_WAIT_SECONDS / _POLL_SECONDS
    Configurations,  \* the settings a deployment may have
    TextOnly,        \* models that take no images
    Writings,        \* sets of markers the model may write
    MaxFaults        \* bound: calls of other services that fail

ASSUME ProvenanceAssumption ==
    /\ IsFiniteSet(Files) /\ Indexed \subseteq Files
    /\ \A f \in Files : Texts[f] \subseteq File
    /\ Scores \subseteq 0..100 /\ Threshold \in 0..100
    /\ BatchSize \in Nat \ {0} /\ MaxPolls \in Nat \ {0} /\ MaxFaults \in Nat
    /\ HeaderChars \in Nat
    /\ \A c \in Configurations : /\ c.llm \in {"bedrock", "groq", "local"}
                                 /\ c.embed \in {"bedrock", "cohere", "local"}
    /\ \A markers \in Writings : IsFiniteSet(markers)

VARIABLES
    content,   \* what is in each file
    settings,  \* the models configured
    work,      \* the background task of each file
    job,       \* its Transcribe job
    index,     \* the chunks of each file in Qdrant
    ask,       \* the requests
    faults     \* failed calls so far

vars == <<content, settings, work, job, index, ask, faults>>
deployment == <<content, settings>>
ingestion == <<work, job, index>>

----------------------------------------------------------------------------
(* Models                                                                   *)

\* resolve
Resolve(role) == settings[role]

\* An offline deployment uses the deterministic stand-in for every model.
Local == settings.llm = "local"

\* BedrockProvider.chat tries the fallback model once if it is another one.
BedrockChats ==
    LET primary == Resolve("primary") fallback == Resolve("fallback") IN
    {[model |-> primary, faults |-> 0]} \cup
    IF fallback # primary
    THEN {[model |-> fallback, faults |-> 1], [model |-> "none", faults |-> 2]}
    ELSE {[model |-> "none", faults |-> 1]}

\* GroqChatBackend.chat has no fallback.
GroqChats == {[model |-> Resolve("primary"), faults |-> 0], [model |-> "none", faults |-> 1]}

LocalChats == {[model |-> "stub", faults |-> 0]}

\* The routing facade.
ChatOutcomes == CASE settings.llm = "bedrock" -> BedrockChats
                  [] settings.llm = "groq"    -> GroqChats
                  [] settings.llm = "local"   -> LocalChats

\* Titan embeds text by text: all of n texts, or an error.
BedrockEmbeds(n) == {[vectors |-> n, faults |-> 0], [vectors |-> 0, faults |-> 1]}

\* Cohere embeds them in one call; what it returns is measured, not counted. Assumed of the service
\* and checked by no line: it never returns more vectors than it was given texts. Batches too long
\* could make up for batches too short and pass the comparison in Upsert.
CohereEmbeds(n) == {[vectors |-> n, faults |-> 0]} \cup {[vectors |-> k, faults |-> 1] : k \in 0..(n - 1)}

LocalEmbeds(n) == {[vectors |-> n, faults |-> 0]}

EmbedOutcomes(n) == CASE settings.embed = "bedrock" -> BedrockEmbeds(n)
                      [] settings.embed = "cohere"  -> CohereEmbeds(n)
                      [] settings.embed = "local"   -> LocalEmbeds(n)

Suffered(n) == faults + n <= MaxFaults /\ faults' = faults + n

----------------------------------------------------------------------------
(* The background task                                                      *)

\* turn counts the polls of Transcribe, then the batches embedded.
NoWork == [at |-> "queued", turn |-> 0, chunks |-> <<>>, vectors |-> <<>>]

Works(f, at, turn, chunks, vectors) ==
    work' = [work EXCEPT ![f] = [at |-> at, turn |-> turn, chunks |-> chunks,
                                 vectors |-> vectors]]

Contained == UNION {Texts[f] : f \in Files}
ChunksOf == [file \in Contained |-> ChunkBlocks(Extracted(file))]
Chunks(f) == ChunksOf[content[f]]

\* No block and no chunk is an error; both are reached without an await.
Blocks(f) == IF Chunks(f) = <<>> THEN Works(f, "failed", 0, <<>>, <<>>)
             ELSE Works(f, "chunk", 0, <<>>, <<>>)

\* The file is read from storage and parsed.
Extract(f) ==
    /\ work[f].at = "queued" /\ content[f].modality = "text"
    /\ \/ Blocks(f) /\ UNCHANGED faults
       \/ Suffered(1) /\ Works(f, "failed", 0, <<>>, <<>>)
    /\ UNCHANGED <<deployment, job, index, ask>>

\* describe_image refuses to send an image to a model that takes none.
DescribeImage(f) ==
    /\ work[f].at = "queued" /\ content[f].modality = "image"
    /\ \/ (Local \/ Resolve("vision") \notin TextOnly) /\ Blocks(f) /\ UNCHANGED faults
       \/ ~Local /\ Resolve("vision") \in TextOnly /\ Works(f, "failed", 0, <<>>, <<>>) /\ UNCHANGED faults
       \/ Suffered(1) /\ Works(f, "failed", 0, <<>>, <<>>)
    /\ UNCHANGED <<deployment, job, index, ask>>

\* transcribe_media up to its loop; offline it returns a placeholder.
StartTranscription(f) ==
    /\ work[f].at = "queued" /\ content[f].modality = "media"
    /\ \/ Local /\ Blocks(f) /\ UNCHANGED <<job, faults>>
       \/ /\ ~Local /\ Works(f, "poll", 0, <<>>, <<>>)
          /\ job' = [job EXCEPT ![f] = "IN_PROGRESS"]
          /\ UNCHANGED faults
       \/ Suffered(1) /\ Works(f, "failed", 0, <<>>, <<>>) /\ UNCHANGED job
    /\ UNCHANGED <<deployment, index, ask>>

\* Amazon Transcribe, in its own time or never.
JobStops(f) ==
    /\ job[f] = "IN_PROGRESS"
    /\ \E status \in {"COMPLETED", "FAILED"} : job' = [job EXCEPT ![f] = status]
    /\ UNCHANGED <<deployment, work, index, ask, faults>>

\* Variant: the loop waits until the job has stopped.
PollUntilStopped(f) ==
    /\ work[f].at = "poll"
    /\ \/ job[f] = "COMPLETED" /\ Blocks(f)
       \/ job[f] = "FAILED" /\ Works(f, "failed", 0, <<>>, <<>>)
    /\ UNCHANGED <<deployment, job, index, ask, faults>>

\* transcribe_media, one turn of its loop: what the last poll finds still counts.
Poll(f) ==
    /\ work[f].at = "poll"
    /\ \/ job[f] = "COMPLETED" /\ Blocks(f) /\ UNCHANGED faults
       \/ job[f] = "FAILED" /\ Works(f, "failed", 0, <<>>, <<>>) /\ UNCHANGED faults
       \/ /\ job[f] = "IN_PROGRESS"
          /\ IF work[f].turn + 1 < MaxPolls THEN Works(f, "poll", work[f].turn + 1, <<>>, <<>>)
             ELSE Works(f, "failed", 0, <<>>, <<>>)
          /\ UNCHANGED faults
       \/ Suffered(1) /\ Works(f, "failed", 0, <<>>, <<>>)
    /\ UNCHANGED <<deployment, job, index, ask>>

\* The scanner looks at each chunk by itself.
Chunk(f) ==
    /\ work[f].at = "chunk"
    /\ \E flagged \in SUBSET DOMAIN Chunks(f) :
         Works(f, "embed", 0,
               [k \in DOMAIN Chunks(f) |-> [text |-> Chunks(f)[k].text, page |-> Chunks(f)[k].page,
                  section |-> Chunks(f)[k].section, suspicious |-> k \in flagged]], <<>>)
    /\ UNCHANGED <<deployment, job, index, ask, faults>>

\* One batch; a vector is told by the number of the chunk it belongs to.
EmbedBatch(f) ==
    LET w == work[f]
        first == w.turn * BatchSize
        size == Min({BatchSize, Len(w.chunks) - first}) IN
    /\ w.at = "embed" /\ first < Len(w.chunks)
    /\ \E o \in EmbedOutcomes(size) :
         /\ Suffered(o.faults)
         /\ IF o.vectors = 0 THEN Works(f, "failed", 0, <<>>, <<>>)
            ELSE Works(f, "embed", w.turn + 1, w.chunks,
                       w.vectors \o [k \in 1..o.vectors |-> first + k])
    /\ UNCHANGED <<deployment, job, index, ask>>

Point(chunk, vector) == [text |-> chunk.text, page |-> chunk.page, section |-> chunk.section,
                         suspicious |-> chunk.suspicious, vector |-> vector]

\* Variant: chunks and vectors are paired as far as both go.
UpsertUncounted(f) ==
    LET w == work[f] IN
    /\ w.at = "embed" /\ w.turn * BatchSize >= Len(w.chunks)
    /\ index' = [index EXCEPT ![f] = [k \in DOMAIN w.vectors |-> Point(w.chunks[k], w.vectors[k])]]
    /\ Works(f, "done", 0, <<>>, <<>>)
    /\ UNCHANGED <<deployment, job, ask, faults>>

\* The counts are compared over all batches, then the points are written. A call that fails may have
\* written any of them.
Upsert(f) ==
    LET w == work[f]
        Landed(kept) == [k \in kept |-> Point(w.chunks[k], w.vectors[k])] IN
    /\ w.at = "embed" /\ w.turn * BatchSize >= Len(w.chunks)
    /\ \/ /\ Len(w.vectors) # Len(w.chunks)
          /\ Works(f, "failed", 0, <<>>, <<>>)
          /\ UNCHANGED <<index, faults>>
       \/ /\ Len(w.vectors) = Len(w.chunks)
          /\ index' = [index EXCEPT ![f] = Landed(DOMAIN w.chunks)]
          /\ Works(f, "done", 0, <<>>, <<>>)
          /\ UNCHANGED faults
       \/ /\ Len(w.vectors) = Len(w.chunks) /\ Suffered(1)
          /\ \E kept \in SUBSET DOMAIN w.chunks : index' = [index EXCEPT ![f] = Landed(kept)]
          /\ Works(f, "clean", 0, <<>>, <<>>)
    /\ UNCHANGED <<deployment, job, ask>>

\* What landed is removed by a call that may fail as well, with or without effect; the task fails in
\* either case.
CleanUp(f) ==
    /\ work[f].at = "clean" /\ Works(f, "failed", 0, <<>>, <<>>)
    /\ \/ index' = [index EXCEPT ![f] = <<>>] /\ (UNCHANGED faults \/ Suffered(1))
       \/ UNCHANGED index /\ Suffered(1)
    /\ UNCHANGED <<deployment, job, ask>>

Ingest(f) == \/ Extract(f) \/ DescribeImage(f) \/ StartTranscription(f) \/ Poll(f)
             \/ Chunk(f) \/ EmbedBatch(f) \/ Upsert(f) \/ CleanUp(f)

----------------------------------------------------------------------------
(* A request. Hits carry their payload; shown is what the model saw when it    *)
(* wrote the answer.                                                        *)

NoReply == [how |-> "none", markers |-> {}, content |-> "clean", citations |-> {},
            confidence |-> 0, model |-> "none", cached |-> FALSE]

NoAsk == [at |-> "idle", kind |-> "none", scope |-> {}, sweeps |-> 0, hits |-> <<>>,
          shown |-> <<>>, markers |-> {}, content |-> "clean", model |-> "none",
          reply |-> NoReply]

Moves(r, new) == ask' = [ask EXCEPT ![r] = new]

\* Without an answer: an error of a chat, or the labelled partial result of a workflow.
Degraded(r) == [NoAsk EXCEPT !.at = "done", !.kind = ask[r].kind,
                             !.reply.how = IF ask[r].kind = "chat" THEN "error" ELSE "partial"]

NoContext(r) == [NoAsk EXCEPT !.at = "done", !.kind = ask[r].kind, !.reply.how = "no context"]

Ask(r) ==
    /\ ask[r].at = "idle"
    /\ \E kind \in {"chat", "agent"}, scope \in Scopes :
         \E queries \in IF kind = "chat" THEN {1} ELSE {1, 2} :
           Moves(r, [NoAsk EXCEPT !.at = "embed", !.kind = kind, !.scope = scope,
                                  !.sweeps = queries])
    /\ UNCHANGED <<deployment, ingestion, faults>>

\* One search per vector that came back.
EmbedQuestion(r) ==
    /\ ask[r].at = "embed"
    /\ \E o \in EmbedOutcomes(ask[r].sweeps) :
         /\ Suffered(o.faults)
         /\ Moves(r, IF o.vectors = 0 THEN Degraded(r)
                     ELSE [ask[r] EXCEPT !.at = "search", !.sweeps = o.vectors])
    /\ UNCHANGED <<deployment, ingestion>>

Points == UNION {{<<f, k>> : k \in DOMAIN index[f]} : f \in Files}

\* Variant: flagged chunks are searched like the others.
VisibleUnscanned(r) == {p \in Points : TenantOf[p[1]] = AskTenant[r] /\ p[1] \in ask[r].scope}

\* _tenant_filter
Visible(r) == {p \in Points : /\ TenantOf[p[1]] = AskTenant[r] /\ p[1] \in ask[r].scope
                              /\ ~index[p[1]][p[2]].suspicious}

\* The payload comes with the hit: the point may be gone from the index before the hit is shown.
Hit(p, score) == [chunk |-> p, tenant |-> TenantOf[p[1]], score |-> score,
                  suspicious |-> index[p[1]][p[2]].suspicious,
                  size |-> HeaderChars + Len(index[p[1]][p[2]].text)]

HitsOf(order, score) == [i \in DOMAIN order |-> Hit(order[i], score[i])]

\* Similarities, best first.
Falling(n) == {score \in [1..n -> Scores] : \A i \in 2..n : score[i - 1] >= score[i]}

\* The best hits of one sweep, equals in any order.
Found(r, limit) ==
    LET best == Min({limit, Cardinality(Visible(r))}) IN
    {HitsOf(order, score) : order \in Injection(1..best, Visible(r)), score \in Falling(best)}

\* What the sweeps before have found already is left out.
Collected(hits, more) ==
    hits \o Concatenated([i \in DOMAIN more |->
                When(\A j \in DOMAIN hits : hits[j].chunk # more[i].chunk, more[i])])

Limit(kind) == IF kind = "chat" THEN 2 * TopK ELSE TopK

Relevant(hits) ==
    Concatenated([i \in DOMAIN hits |-> When(hits[i].score >= Threshold, hits[i])])

\* One search; after the last one the threshold and the reranking follow without an await.
Search(r) ==
    /\ ask[r].at = "search"
    /\ \/ /\ UNCHANGED faults
          /\ \E more \in Found(r, Limit(ask[r].kind)) :
               LET all == Collected(ask[r].hits, more)
                   hits == Relevant(all) IN
               \/ /\ ask[r].sweeps > 1
                  /\ Moves(r, [ask[r] EXCEPT !.sweeps = @ - 1, !.hits = all])
               \/ /\ ask[r].sweeps = 1 /\ hits = <<>>
                  /\ Moves(r, NoContext(r))
               \/ /\ ask[r].sweeps = 1 /\ hits # <<>>
                  /\ \E lex \in LexicalScores(hits) :
                       Moves(r, [ask[r] EXCEPT !.at = IF ask[r].kind = "chat" THEN "write"
                                                      ELSE "analyze",
                                               !.sweeps = 0, !.hits = Rerank(hits, lex)])
       \/ Suffered(1) /\ Moves(r, Degraded(r))
    /\ UNCHANGED <<deployment, ingestion>>

\* analyze_node reads the same sources; what it writes goes into the next prompt only.
Analyze(r) ==
    /\ ask[r].at = "analyze"
    /\ \E o \in ChatOutcomes :
         /\ Suffered(o.faults)
         /\ Moves(r, IF o.model = "none" THEN Degraded(r) ELSE [ask[r] EXCEPT !.at = "write"])
    /\ UNCHANGED <<deployment, ingestion>>

Context(r) == Shown(ask[r].hits, Budget[ask[r].kind])

\* A model writes what it likes; the stand-in quotes up to three lines with the number above them.
Written(r) ==
    IF Local THEN {{[number |-> n, padded |-> FALSE] : n \in quoted} :
                      quoted \in {q \in SUBSET DOMAIN Context(r) : Cardinality(q) <= 3}}
    ELSE Writings

\* The model sees the sources that fit.
Write(r) ==
    /\ ask[r].at = "write"
    /\ \E o \in ChatOutcomes :
         /\ Suffered(o.faults)
         /\ \/ o.model = "none" /\ Moves(r, Degraded(r))
            \/ /\ o.model # "none"
               /\ \E markers \in Written(r), text \in Contents :
                    Moves(r, [ask[r] EXCEPT !.at = "cite", !.shown = Context(r),
                                !.markers = markers, !.content = text, !.model = o.model])
    /\ UNCHANGED <<deployment, ingestion>>

\* Variant: a withheld answer keeps its citations.
CitedThoughWithheld(r, answer, citations) == citations

Cited(r, answer, citations) == IF answer.content = "withheld" THEN {} ELSE citations

\* Variant: the second time the budget is not looked at.
CitedContextIgnoringBudget(r) == ask[r].hits

\* The context the citations are checked against.
CitedContext(r) == Context(r)

\* The end of answer_question, and cite_node, which builds the context again. A withheld answer of a
\* workflow has no confidence.
Cite(r) ==
    LET a == ask[r]
        context == CitedContext(r)
        invented == Cardinality(Invented(a.markers, context))
        answer == Guarded(Cleaned(a.markers, context), a.content)
        citations == Cited(r, answer, Citations(a.markers, context, AskTenant[r]))
        confidence == Confidence(a.hits, citations, invented) IN
    /\ a.at = "cite"
    /\ Moves(r, [NoAsk EXCEPT
         !.at = "done", !.kind = a.kind, !.scope = a.scope, !.shown = a.shown,
         !.reply = [how |-> "answer", markers |-> answer.markers, content |-> answer.content,
                    citations |-> citations, model |-> a.model,
                    confidence |-> IF a.kind = "agent" /\ answer.content = "withheld" THEN 0
                                   ELSE confidence,
                    cached |-> a.kind = "chat" /\ citations # {}]])
    /\ UNCHANGED <<deployment, ingestion, faults>>

\* run_workflow waits 120 seconds.
TimeOut(r) ==
    /\ ask[r].kind = "agent" /\ ask[r].at \notin {"idle", "done"}
    /\ Moves(r, Degraded(r))
    /\ UNCHANGED <<deployment, ingestion, faults>>

Answer(r) == EmbedQuestion(r) \/ Search(r) \/ Analyze(r) \/ Write(r) \/ Cite(r)

----------------------------------------------------------------------------
Plain(chunks) == [k \in DOMAIN chunks |-> Point([text |-> chunks[k].text, page |-> chunks[k].page,
                                                 section |-> chunks[k].section,
                                                 suspicious |-> FALSE], k)]

Init ==
    /\ content \in {c \in [Files -> Contained] : \A f \in Files : c[f] \in Texts[f]}
    /\ settings \in Configurations
    /\ work = [f \in Files |-> IF f \in Indexed THEN [NoWork EXCEPT !.at = "done"] ELSE NoWork]
    /\ job = [f \in Files |-> "none"]
    /\ index = [f \in Files |-> IF f \in Indexed THEN Plain(Chunks(f)) ELSE <<>>]
    /\ ask = [r \in Asks |-> NoAsk]
    /\ faults = 0

Next == \/ \E f \in Files : Ingest(f) \/ JobStops(f)
        \/ \E r \in Asks : Ask(r) \/ Answer(r) \/ TimeOut(r)

Spec == Init /\ [][Next]_vars

\* The process runs the tasks it has begun; Transcribe owes nothing.
FairSpec == Spec /\ \A f \in Files : WF_vars(Ingest(f))

----------------------------------------------------------------------------
TypeOK ==
    /\ \A f \in Files : content[f] \in Texts[f]
    /\ settings \in Configurations
    /\ \A f \in Files :
         /\ work[f].at \in {"queued", "poll", "chunk", "embed", "clean", "done", "failed"}
         /\ work[f].turn \in Nat
         /\ work[f].at = "poll" => work[f].turn < MaxPolls /\ job[f] # "none"
         /\ Len(work[f].vectors) <= Len(work[f].chunks)
         /\ index[f] # <<>> => work[f].at \in {"clean", "done", "failed"}
    /\ \A r \in Asks :
         /\ ask[r].at \in {"idle", "embed", "search", "analyze", "write", "cite", "done"}
         /\ Len(ask[r].hits) <= TopK
         /\ ask[r].reply.confidence \in 0..100
    /\ faults \in 0..MaxFaults

\* Every character that a file says is in a chunk of it, whole or over the edges of pages,
\* paragraphs, sentences and windows.
EveryCharacterIndexed ==
    \A f \in Files : work[f].at = "done" =>
        \A i \in DOMAIN content[f].parts : content[f].parts[i].readable =>
            \A p \in DOMAIN content[f].parts[i].text : \A s \in DOMAIN content[f].parts[i].text[p] :
                Said(content[f], i, p, s) =>
                    Range(Sentences(content[f], i, p)[s]) \subseteq
                        UNION {Range(index[f][k].text) : k \in DOMAIN index[f]}

\* Also of what a failed upsert left: a chunk has the vector of its own text, and the page or sheet it names is the one every character
\* of it is on, also behind pages and sheets that gave nothing.
ChunksKnowTheirPlace ==
    \A f \in Files : \A k \in DOMAIN index[f] :
        /\ index[f][k].vector = k
        /\ \A c \in Range(index[f][k].text) \ {Blank} :
             /\ content[f].kind = "pdf" => index[f][k].page = c[1]
             /\ content[f].kind = "sheets" => index[f][k].section = content[f].parts[c[1]].title

\* The overlap that begins a chunk is all by which it may exceed the size that is configured, at
\* whatever place a segment was split, cut or carried over.
ChunksFit == \A f \in Files : \A k \in DOMAIN index[f] : Len(index[f][k].text) <= Longest

\* What a model is shown is of the tenant that asks, was not flagged, passed the threshold, and comes
\* from the documents selected.
ShownIsAllowed ==
    \A r \in Asks : \A i \in DOMAIN ask[r].shown :
        LET hit == ask[r].shown[i] IN
        /\ TenantOf[hit.chunk[1]] = AskTenant[r]
        /\ ~hit.suspicious
        /\ hit.score >= Threshold
        /\ hit.chunk[1] \in ask[r].scope

\* A citation names the chunk the model saw under that number when it wrote the answer.
CitationsWereShown ==
    \A r \in Asks : \A c \in ask[r].reply.citations :
        /\ c.number \in DOMAIN ask[r].shown
        /\ ask[r].shown[c.number].chunk = c.chunk

\* No marker of the prompt's form stays in an answer without its citation.
MarkersResolve ==
    \A r \in Asks : \A m \in ask[r].reply.markers :
        ~m.padded => \E c \in ask[r].reply.citations : c.number = m.number

\* An answer that leaks the prompt or a credential, or carries markup, never leaves as it is; what is
\* withheld takes its citations with it and is not cached.
NothingUnsafeLeaves ==
    \A r \in Asks : LET reply == ask[r].reply IN
        /\ reply.content \in {"clean", "withheld"}
        /\ reply.content = "withheld" => reply.citations = {} /\ ~reply.cached

\* Every file that is taken up is indexed or fails, also when Transcribe never ends its job.
FilesEnd == \A f \in Files : work[f].at = "queued" ~> work[f].at \in {"done", "failed"}
=============================================================================
