---------------------------- MODULE AnswerCache ----------------------------
(***************************************************************************)
(* The semantic cache of one tenant (services/rag/cache.py): a Redis list  *)
(* of question digests, newest first, and one Redis key per digest with    *)
(* the answer.  Every key carries the tenant, so tenants share nothing.    *)
(*                                                                         *)
(* A store is one MULTI/EXEC transaction.  A lookup reads the list and then*)
(* one entry at a time, an invalidation is three commands, and other       *)
(* requests run between any two of them.  Redis errors are swallowed.      *)
(***************************************************************************)
EXTENDS Naturals, Sequences

CONSTANTS
    Questions,     \* digests of question texts
    Answers,       \* what is cached: answers that passed the guardrails
    NoQuestion, NoAnswer,
    Similarity,    \* cosine of two questions, in steps; 0 is below the threshold
    MaxCandidates, \* _MAX_CANDIDATES
    Readers,       \* concurrent lookups
    Invalidators,  \* concurrent invalidations
    RedisFails     \* may a command raise?

ASSUME CacheAssumption ==
    /\ MaxCandidates \in Nat \ {0}
    /\ Similarity \in [Questions \X Questions -> Nat]
    /\ NoQuestion \notin Questions
    /\ NoAnswer \notin Answers
    /\ RedisFails \in BOOLEAN

VARIABLES
    index,  \* the list of digests
    entry,  \* the entries; an entry may be there without being listed
    reader, \* lookups in progress
    inval,  \* invalidations in progress
    latest  \* history, read by no action: the answer last stored for a question

redis == <<index, entry>>
cacheVars == <<index, entry, reader, inval, latest>>

Listed == {index[i] : i \in DOMAIN index}

(* What a lookup that starts now can find.                                  *)
known == [q \in Questions |-> IF q \in Listed THEN entry[q] ELSE NoAnswer]

Findable == {known[q] : q \in Questions} \ {NoAnswer}

(* A lookup: the question, the digests still to be read, and the best answer*)
(* so far with its similarity.  `seen` is a history variable that no action *)
(* reads: what could be found at some moment since the lookup began.        *)
Lookup ==
    [question : Questions \cup {NoQuestion}, left : Seq(Questions),
     best : Answers \cup {NoAnswer}, score : Nat, seen : SUBSET Answers]
NoLookup == [question |-> NoQuestion, left |-> <<>>, best |-> NoAnswer, score |-> 0, seen |-> {}]

InvalSteps == {"idle", "entries", "index", "done"}
NoInvalidation == [step |-> "idle", listed |-> {}]

NoDuplicates(s) == \A i, j \in DOMAIN s : s[i] = s[j] => i = j

TypeOK ==
    /\ index \in Seq(Questions)
    /\ Len(index) <= MaxCandidates
    /\ NoDuplicates(index)
    /\ entry \in [Questions -> Answers \cup {NoAnswer}]
    /\ reader \in [Readers -> Lookup]
    /\ inval \in [Invalidators -> [step : InvalSteps, listed : SUBSET Questions]]
    /\ latest \in [Questions -> Answers \cup {NoAnswer}]

Init ==
    /\ index = <<>>
    /\ entry = [q \in Questions |-> NoAnswer]
    /\ reader = [r \in Readers |-> NoLookup]
    /\ inval = [i \in Invalidators |-> NoInvalidation]
    /\ latest = entry

----------------------------------------------------------------------------
(* store *)

(* LREM: the list holds a digest at most once (NoDuplicates).               *)
Without(s, q) ==
    IF \E i \in DOMAIN s : s[i] = q
    THEN LET i == CHOOSE i \in DOMAIN s : s[i] = q
         IN  SubSeq(s, 1, i - 1) \o SubSeq(s, i + 1, Len(s))
    ELSE s

(* Variant: the old occurrence stays in the list.                           *)
PushedAgain(s, q) ==
    LET t == <<q>> \o s
    IN  SubSeq(t, 1, IF Len(t) < MaxCandidates THEN Len(t) ELSE MaxCandidates)

(* LREM, LPUSH and LTRIM.                                                   *)
Pushed(s, q) ==
    LET t == <<q>> \o Without(s, q)
    IN  SubSeq(t, 1, IF Len(t) < MaxCandidates THEN Len(t) ELSE MaxCandidates)

(* The history of the lookups in progress.                                  *)
ShownToReaders(a) ==
    [r \in Readers |-> IF reader[r].question = NoQuestion THEN reader[r]
                       ELSE [reader[r] EXCEPT !.seen = @ \cup {a}]]

(* Variant: SET NX, which keeps an entry that is still there.               *)
StoreIfAbsent(q, a) ==
    LET kept == IF entry[q] = NoAnswer THEN a ELSE entry[q]
    IN  /\ entry' = [entry EXCEPT ![q] = kept]
        /\ index' = Pushed(index, q)
        /\ reader' = ShownToReaders(a)
        /\ latest' = [latest EXCEPT ![q] = a]
        /\ UNCHANGED inval

(* A store that raises has either happened or not.                          *)
StoreAnswer(q, a) ==
    /\ entry' = [entry EXCEPT ![q] = a]
    /\ index' = Pushed(index, q)
    /\ reader' = ShownToReaders(a)
    /\ latest' = [latest EXCEPT ![q] = a]
    /\ UNCHANGED inval

(* SETEX and EXPIRE: an entry lives semantic_cache_ttl_seconds, and the     *)
(* list as long as the entry that was stored last.                          *)
ExpireEntry(q) ==
    /\ entry[q] # NoAnswer
    /\ entry' = [entry EXCEPT ![q] = NoAnswer]
    /\ UNCHANGED <<index, reader, inval, latest>>

ExpireIndex ==
    /\ index # <<>>
    /\ Findable = {}
    /\ index' = <<>>
    /\ UNCHANGED <<entry, reader, inval, latest>>

----------------------------------------------------------------------------
(* lookup *)

(* Variant: the entry of the question itself is tried first.                *)
BeginWithOwnEntry(r, q) ==
    /\ reader[r] = NoLookup
    /\ reader' = [reader EXCEPT ![r] = [NoLookup EXCEPT !.question = q, !.left = <<q>> \o index,
                                                        !.seen = Findable]]
    /\ UNCHANGED <<redis, inval, latest>>

(* LRANGE: the newest MaxCandidates, which is all there are.                *)
BeginLookup(r, q) ==
    /\ reader[r] = NoLookup
    /\ reader' = [reader EXCEPT ![r] = [NoLookup EXCEPT !.question = q, !.left = index,
                                                        !.seen = Findable]]
    /\ UNCHANGED <<redis, inval, latest>>

(* GET: an entry that has gone, or whose GET raises, is passed over.        *)
ReadEntry(r) ==
    /\ reader[r].left # <<>>
    /\ LET q == Head(reader[r].left)
           similarity == Similarity[<<reader[r].question, q>>]
           better == entry[q] # NoAnswer /\ similarity > reader[r].score
           next == [reader[r] EXCEPT !.left = Tail(@)]
       IN  \/ reader' = [reader EXCEPT ![r] =
                            IF better THEN [next EXCEPT !.best = entry[q], !.score = similarity]
                            ELSE next]
           \/ RedisFails /\ reader' = [reader EXCEPT ![r] = next]
    /\ UNCHANGED <<redis, inval, latest>>

(* The answer is returned; LRANGE may have failed instead.                  *)
EndLookup(r) ==
    /\ reader[r].question # NoQuestion
    /\ reader[r].left = <<>>
    /\ reader' = [reader EXCEPT ![r] = NoLookup]
    /\ UNCHANGED <<redis, inval, latest>>

----------------------------------------------------------------------------
(* invalidate_tenant *)

ListEntries(i) ==
    /\ inval[i].step = "idle"
    /\ inval' = [inval EXCEPT ![i] = [step |-> "entries", listed |-> Listed]]
    /\ UNCHANGED <<redis, reader, latest>>

DropEntries(i) ==
    /\ inval[i].step = "entries"
    /\ entry' = [q \in Questions |-> IF q \in inval[i].listed THEN NoAnswer ELSE entry[q]]
    /\ inval' = [inval EXCEPT ![i].step = "index"]
    /\ UNCHANGED <<index, reader, latest>>

DropIndex(i) ==
    /\ inval[i].step = "index"
    /\ index' = <<>>
    /\ inval' = [inval EXCEPT ![i].step = "done"]
    /\ UNCHANGED <<entry, reader, latest>>

(* A command raises; one whose reply was lost has taken effect before.      *)
InvalidationFails(i) ==
    /\ RedisFails
    /\ inval[i].step \in {"idle", "entries", "index"}
    /\ inval' = [inval EXCEPT ![i] = [step |-> "done", listed |-> {}]]
    /\ UNCHANGED <<redis, reader, latest>>

InvalidationStep(i) ==
    ListEntries(i) \/ DropEntries(i) \/ DropIndex(i) \/ InvalidationFails(i)

(* The caller goes on.                                                      *)
EndInvalidation(i) ==
    /\ inval[i].step = "done"
    /\ inval' = [inval EXCEPT ![i] = NoInvalidation]
    /\ UNCHANGED <<redis, reader, latest>>

----------------------------------------------------------------------------
Next ==
    \/ \E q \in Questions : ExpireEntry(q) \/ \E a \in Answers : StoreAnswer(q, a)
    \/ ExpireIndex
    \/ \E r \in Readers : ReadEntry(r) \/ EndLookup(r) \/ \E q \in Questions : BeginLookup(r, q)
    \/ \E i \in Invalidators : InvalidationStep(i) \/ EndInvalidation(i)

Spec == Init /\ [][Next]_cacheVars

----------------------------------------------------------------------------
(* Properties *)

(* "A cache hit" is an answer that the cache knew while the lookup ran: one *)
(* that was dropped before it began is not found in an entry left behind by *)
(* an invalidation that ran between a store's commands and its own.         *)
HitsAreCurrent ==
    \A r \in Readers : reader[r].best \in reader[r].seen \cup {NoAnswer}

(* "Drop this tenant's cache - called when documents change": an answer that*)
(* lookups no longer find stays forgotten until it is stored again, whatever*)
(* stores, expiries, invalidations and Redis errors interleave.             *)
Cache == INSTANCE RecentAnswers
ImplementsRecentAnswers == Cache!Spec
=============================================================================
