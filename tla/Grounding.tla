----------------------------- MODULE Grounding -----------------------------
(* What stands between the search hits and the answer: reranking, the         *)
(* numbered sources shown to the model, and the checks of what it wrote       *)
(* (services/rag/rerank.py, prompts.py, guardrails.py).                        *)
(*                                                                          *)
(* A hit has the identity of its chunk, the size of the entry it makes in the  *)
(* prompt, its tenant and a score in percent.  An answer is the set of         *)
(* citation markers in it and what else the guardrail would see.               *)
EXTENDS Integers, SequencesExt

CONSTANTS TopK,      \* RETRIEVAL_TOP_K
          Lexical    \* normalised lexical scores in percent, 0 and 100 among them

ASSUME GroundingAssumption == TopK \in Nat \ {0} /\ Lexical \subseteq 0..100

----------------------------------------------------------------------------
(* rerank: 65 percent similarity, 35 percent lexical score, ties in the old     *)
(* order                                                                    *)

\* _normalize spreads the scores from 0 to 100 unless they are all the same.
LexicalScores(hits) ==
    {lex \in [DOMAIN hits -> Lexical] :
        (\A i \in DOMAIN hits : lex[i] = 0) \/ {0, 100} \subseteq {lex[i] : i \in DOMAIN hits}}

Fused(hits, lex, i) == 65 * Max({0, Min({100, hits[i].score})}) + 35 * lex[i]

Reranked(hits, lex) ==
    LET Before(i, j) == \/ Fused(hits, lex, i) > Fused(hits, lex, j)
                        \/ Fused(hits, lex, i) = Fused(hits, lex, j) /\ i < j
        Rank(i) == Cardinality({j \in DOMAIN hits : Before(j, i)}) + 1
        order == [k \in DOMAIN hits |-> CHOOSE i \in DOMAIN hits : Rank(i) = k]
    IN [k \in DOMAIN hits |-> hits[order[k]]]

\* Variant: all of them are kept.
RerankAll(hits, lex) == Reranked(hits, lex)

Rerank(hits, lex) == SubSeq(Reranked(hits, lex), 1, Min({TopK, Len(hits)}))

----------------------------------------------------------------------------
(* build_context: entries in order until one does not fit; the first is always   *)
(* shown. The number of a source is its place.                               *)

Spent(hits, n) == FoldLeft(LAMBDA sum, h : sum + h.size, 0, SubSeq(hits, 1, n))

Shown(hits, budget) ==
    LET Fits(n) == n = 1 \/ (Spent(hits, n - 1) < budget /\ Spent(hits, n) <= budget)
        full == {n \in 0..Len(hits) : \A m \in 1..n : Fits(m)}
    IN SubSeq(hits, 1, Max(full))

----------------------------------------------------------------------------
(* Markers as the model writes them: [S1], or [S01], which is read as 1 but      *)
(* not found when [S1] is removed                                            *)

Numbers(markers) == {m.number : m \in markers}
Invented(markers, shown) == {n \in Numbers(markers) : n \notin DOMAIN shown}

\* Variant: invented markers are counted and left standing.
CleanedOfNothing(markers, shown) == markers

Cleaned(markers, shown) ==
    {m \in markers : m.padded \/ m.number \notin Invented(markers, shown)}

\* validate_citations
Citations(markers, shown, tenant) ==
    {[number |-> n, chunk |-> shown[n].chunk] :
        n \in {k \in Numbers(markers) \cap DOMAIN shown : shown[k].tenant = tenant}}

----------------------------------------------------------------------------
(* apply_output_guardrail: leaks of the prompt and credentials withhold the      *)
(* answer, markup is cut out of it                                           *)

Blocking == {"leak", "secret"}
Contents == Blocking \cup {"clean", "markup"}

Guarded(markers, content) ==
    IF content \in Blocking THEN [markers |-> {}, content |-> "withheld"]
    ELSE [markers |-> markers, content |-> "clean"]

Coverage(citations) == Min({100, 50 * Cardinality(citations)})

\* compute_confidence, in percent: the best three hits, coverage by citations, a fifth less for
\* each invented marker.
Confidence(hits, citations, invented) ==
    LET top == Min({3, Len(hits)})
        retrieval == FoldLeft(LAMBDA sum, h : sum + h.score, 0, SubSeq(hits, 1, top)) \div top
        earned == (60 * retrieval + 40 * Coverage(citations)) \div 100
    IN IF hits = <<>> THEN 0 ELSE Max({0, Min({100, earned - 20 * invented})})
=============================================================================
