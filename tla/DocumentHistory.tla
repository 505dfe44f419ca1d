-------------------------- MODULE DocumentHistory --------------------------
(***************************************************************************)
(* DocumentStore with a history variable: which documents a delete has met *)
(* in the window between the task's one look at the row and its last write *)
(* of it, or a restart has indexed again after their deletion.  Nothing in *)
(* the program keeps a user from deleting at such a moment, and nothing    *)
(* remembers that one did.  The properties say that the promises about the *)
(* stores can be broken in these two ways only: of every other document    *)
(* they hold, whatever fails and whatever happens to the rest.             *)
(***************************************************************************)
EXTENDS DocumentStore

VARIABLE disturbed

historyVars == <<vars, disturbed>>

(* ingest_document reads the row before the first of these stages and writes*)
(* READY or FAILED with the last.                                           *)
Window == TaskStages \ {"queued", "invalidating"}

(* A delete holds the row, and purges or has purged, in that window.        *)
Meets(d) == RowLocked(d) /\ stage[d] \in Window

(* index_seed_documents does not read the status of what it indexes.        *)
Reseeded == {d \in SeedDocs : Restart /\ row[d] = "deleted"}

HInit == Init /\ disturbed = {}

HNext ==
    /\ Next
    /\ disturbed' = disturbed \cup {d \in Docs : Meets(d)'} \cup Reseeded

HSpec == HInit /\ [][HNext]_historyVars

----------------------------------------------------------------------------
(* Properties *)

(* A document turns ready only when every chunk the row counts is in the    *)
(* vector store and the file it was made from is still in S3 - whatever     *)
(* fails or restarts on the way, and whoever asks for its deletion, unless  *)
(* a delete met the very task.  The risks are the partial upsert with a     *)
(* clean-up that fails as well (pipeline.py:172) and a delete that has      *)
(* purged and then rolls back (documents.py:206).                           *)
ReadyOnlyWhenIndexed ==
    [][\A d \in Docs \ disturbed : row[d] # "ready" /\ row'[d] = "ready" =>
            count'[d] > 0 /\ points'[d] = 1 .. count'[d] /\ object'[d]]_historyVars

(* "A document is not deleted while its chunks remain searchable"           *)
(* (documents.py delete_document): once a delete has committed, search      *)
(* returns none of its chunks, unless a delete met its task or a restart    *)
(* has indexed it again.                                                    *)
DeletedNotSearchable ==
    \A d \in Docs \ disturbed : row[d] = "deleted" => points[d] = {}

(* The file behind a chunk that search returns can be downloaded: whatever  *)
(* call of a delete fails, it has not taken the file of a document whose    *)
(* chunks are still there (documents.py delete_document purges first).  The *)
(* seed documents never had a file.                                         *)
SearchableHasFile ==
    \A d \in Docs \ (SeedDocs \cup disturbed) : row[d] = "ready" /\ points[d] # {} => object[d]

(* Why they hold: what the stores hold of a document at every stage, as     *)
(* long as nothing disturbs it, and of one that a delete has purged.        *)
QuietDoc(d) ==
    /\ row[d] = "deleted" => stage[d] \notin Window
    /\ stage[d] \in {"absent", "inserting", "queued", "marking", "extracting", "fetching",
                     "chunking", "embedding", "upserting"} => points[d] = {}
    /\ stage[d] \in {"chunking", "embedding", "upserting", "finishing"} => object[d]
    /\ stage[d] \in {"embedding", "upserting", "finishing"} => size[d] > 0
    /\ stage[d] = "finishing" => points[d] = 1 .. size[d]

QuietDelete(r) ==
    /\ del[r].step \in {"locked", "purged", "dropped"} => stage[del[r].doc] \notin Window
    /\ del[r].step \in {"purged", "dropped"} => points[del[r].doc] = {}

Quiet ==
    /\ \A d \in SeedDocs : stage[d] = "done"
    /\ \A d \in Docs \ disturbed : QuietDoc(d)
    /\ \A r \in Requests : del[r].doc \notin disturbed => QuietDelete(r)
=============================================================================
