--------------------------- MODULE MCAnswerCache ---------------------------
(* Instances of AnswerCache for TLC: two questions close to each other and  *)
(* a third that is close to neither.                                        *)
EXTENDS AnswerCache, TLC

CONSTANTS q1, q2, q3

MCQuestions == {q1, q2, q3}
MCSimilarity ==
    [p \in MCQuestions \X MCQuestions |->
        IF p[1] = p[2] THEN 2 ELSE IF q3 \in {p[1], p[2]} THEN 0 ELSE 1]

MCSymmetry == Permutations(Answers) \cup Permutations(Readers) \cup Permutations(Invalidators)
=============================================================================
