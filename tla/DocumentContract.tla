-------------------------- MODULE DocumentContract --------------------------
(***************************************************************************)
(* What a client that polls GET /documents/{id} and .../status may observe:*)
(* the document's status and its job's status, and nothing of the stores   *)
(* behind them.  The job only moves forward, the two statuses end together,*)
(* and a job that has ended never changes again.  DocumentStore implements *)
(* this contract.  It does not promise that a deleted document stays       *)
(* deleted while its job is still running, because the program does not.   *)
(***************************************************************************)
CONSTANT Docs

VARIABLES row, job

contractVars == <<row, job>>

Init ==
    /\ row \in [Docs -> {"none", "ready"}]
    /\ job = [d \in Docs |-> IF row[d] = "ready" THEN "completed" ELSE "none"]

Becomes(d, status, progress) ==
    /\ row' = [row EXCEPT ![d] = status]
    /\ job' = [job EXCEPT ![d] = progress]

Register(d) == row[d] = "none" /\ job[d] = "none" /\ Becomes(d, "pending", "queued")

Begin(d) == job[d] = "queued" /\ Becomes(d, "processing", "queued")

Progress(d) ==
    \/ job[d] = "queued"     /\ Becomes(d, row[d], "extracting")
    \/ job[d] = "extracting" /\ Becomes(d, row[d], "chunking")
    \/ job[d] = "chunking"   /\ Becomes(d, row[d], "embedding")

Succeed(d) == job[d] = "embedding" /\ Becomes(d, "ready", "completed")

Break(d) ==
    /\ job[d] \in {"queued", "extracting", "chunking", "embedding"}
    /\ Becomes(d, "failed", "failed")

(* The document was deleted before its task looked at it. *)
NothingToDo(d) == job[d] = "queued" /\ row[d] = "deleted" /\ Becomes(d, "deleted", "failed")

Delete(d) == row[d] # "none" /\ Becomes(d, "deleted", job[d])

Next ==
    \E d \in Docs : \/ Register(d) \/ Begin(d) \/ Progress(d) \/ Succeed(d)
                    \/ Break(d) \/ NothingToDo(d) \/ Delete(d)

Spec == Init /\ [][Next]_contractVars
=============================================================================
