--------------------------- MODULE RecentAnswers ---------------------------
(***************************************************************************)
(* What a cache of answers promises.  It may forget any answer at any time,*)
(* but what it knows of a question is the answer stored last, and what it  *)
(* has forgotten stays forgotten until it is stored again: questions about *)
(* documents that have changed are not answered from before (cache.py,     *)
(* "Drop this tenant's cache - called when documents change").             *)
(***************************************************************************)
CONSTANTS Questions, Answers, NoAnswer

VARIABLES known, latest

Init ==
    /\ known = [q \in Questions |-> NoAnswer]
    /\ latest = known

(* Nothing but known answers is known in the next state, apart from S.      *)
OnlyForgets(S) ==
    /\ known' \in [Questions -> Answers \cup {NoAnswer}]
    /\ \A q \in Questions \ S : known'[q] \in {known[q], NoAnswer}

Store(q, a) ==
    /\ OnlyForgets({q})
    /\ known'[q] = a
    /\ latest' = [latest EXCEPT ![q] = a]

Forget == OnlyForgets({}) /\ UNCHANGED latest

Next == Forget \/ \E q \in Questions, a \in Answers : Store(q, a)

Spec == Init /\ [][Next]_<<known, latest>>
=============================================================================
