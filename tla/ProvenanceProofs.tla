-------------------------- MODULE ProvenanceProofs --------------------------
(* Theorems about Provenance, for any files, questions, models, budgets and     *)
(* failures: what is in the index is the file, what a model is shown is allowed,  *)
(* and what leaves after the checks is what it was shown. WorkInv describes the  *)
(* tasks, Honest and Grounded the requests; the citations rest on the order of   *)
(* the steps of a request only, the other properties also on what chunking,      *)
(* reranking and the checks of an answer compute.                            *)
EXTENDS Provenance, ChunkingProofs

----------------------------------------------------------------------------
(* Ranks, the context and confidence                                        *)

\* The smaller of two.
LEMMA MinOfTwo ==
    ASSUME NEW a \in Int, NEW b \in Int
    PROVE  Min({a, b}) \in {a, b} /\ Min({a, b}) <= a /\ Min({a, b}) <= b
<1>1. \E m \in {a, b} : \A j \in {a, b} : m <= j
  OBVIOUS
<1> QED
  BY <1>1 DEF Min

\* The greater of two.
LEMMA MaxOfTwo ==
    ASSUME NEW a \in Int, NEW b \in Int
    PROVE  Max({a, b}) \in {a, b} /\ Max({a, b}) >= a /\ Max({a, b}) >= b
<1>1. \E m \in {a, b} : \A j \in {a, b} : m >= j
  OBVIOUS
<1> QED
  BY <1>1 DEF Max

\* A number cut to 0..100.
LEMMA Percent ==
    ASSUME NEW x \in Int
    PROVE  Max({0, Min({100, x})}) \in 0..100 /\ Max({0, Min({100, x})}) \in Int
<1>1. Min({100, x}) \in Int /\ Min({100, x}) <= 100
  <2>1. Min({100, x}) \in {100, x} /\ Min({100, x}) <= 100
    BY MinOfTwo
  <2> QED
    BY <2>1
<1>2. /\ Max({0, Min({100, x})}) \in {0, Min({100, x})}
      /\ Max({0, Min({100, x})}) >= 0
  <2>1. ASSUME NEW a \in Int PROVE Max({0, a}) \in {0, a} /\ Max({0, a}) >= 0
    BY MaxOfTwo
  <2> QED
    BY <1>1, <2>1
<1> DEFINE low == Min({100, x})
           p == Max({0, low})
<1>3. p \in {0, low} /\ p >= 0 /\ low \in Int /\ low <= 100
  BY <1>1, <1>2
<1> HIDE DEF p, low
<1>4. p \in 0..100 /\ p \in Int
  BY <1>3
<1> QED
  BY <1>4 DEF p, low

\* There are no more elements kept than looked at.
LEMMA KeptLength ==
    ASSUME NEW T, NEW n \in Nat, NEW wanted, NEW x \in [1..n -> T]
    PROVE  Len(Kept(n, wanted, x)) <= n
<1> DEFINE kept == [i \in 1..n |-> When(i \in wanted, x[i])]
<1>1. ASSUME NEW i \in 1..n PROVE When(i \in wanted, x[i]) \in Seq(T) /\ Len(When(i \in wanted, x[i])) <= 1
  <2>1. x[i] \in T
    OBVIOUS
  <2> QED
    BY <2>1 DEF When
<1>2. kept \in [1..n -> Seq(T)] /\ \A i \in 1..n : Len(kept[i]) <= 1
  BY <1>1
<1> HIDE DEF kept
<1>3. kept \in Seq(Seq(T)) /\ DOMAIN kept = 1..n /\ Len(kept) = n
  BY <1>2, SeqOfFunction
<1>4. PICK run \in [0..Len(kept) -> Seq(T)] :
             /\ run[0] = <<>>
             /\ \A i \in 1..Len(kept) : run[i] = run[i - 1] \o kept[i]
             /\ Concatenated(kept) = run[Len(kept)]
  BY <1>3, ConcatenatedRuns
<1> DEFINE P == {i \in 0..n : Len(run[i]) <= i}
<1>5. 0 \in P
  BY <1>4
<1>6. ASSUME NEW i \in 1..n, i - 1 \in P PROVE i \in P
  <2>1. i - 1 \in 0..n /\ i \in 0..n /\ i \in Int
    OBVIOUS
  <2>2. run[i - 1] \in Seq(T) /\ kept[i] \in Seq(T)
    <3>1. run[i - 1] \in Seq(T)
      BY <1>3, <1>4, <2>1
    <3>2. kept[i] \in Seq(T)
      BY <1>2
    <3> QED
      BY <3>1, <3>2
  <2>3. Len(run[i - 1] \o kept[i]) = Len(run[i - 1]) + Len(kept[i])
    BY <2>2
  <2>4. run[i] = run[i - 1] \o kept[i]
    BY <1>3, <1>4
  <2>5. Len(run[i - 1]) <= i - 1 /\ Len(kept[i]) <= 1 /\ Len(run[i - 1]) \in Nat /\ Len(kept[i]) \in Nat
    BY <1>2, <1>6, <2>2
  <2>6. Len(run[i]) <= i
    <3> DEFINE a == Len(run[i - 1])
               b == Len(kept[i])
    <3>1. Len(run[i]) = a + b /\ a <= i - 1 /\ b <= 1 /\ a \in Nat /\ b \in Nat
      BY <2>3, <2>4, <2>5
    <3> HIDE DEF a, b
    <3> QED
      BY <2>1, <3>1
  <2> QED
    BY <2>1, <2>6
<1> HIDE DEF P
<1>7. n \in P
  <2>1. n \in 0..n
    OBVIOUS
  <2> QED
    BY <1>5, <1>6, <2>1, IndexInduction
<1> QED
  BY <1>3, <1>4, <1>7 DEF P, kept, Kept

----------------------------------------------------------------------------
\* Reranking keeps hits and adds none: the ranks are a permutation.
\* A strict total order of the first n numbers, and the rank it gives to one of them.
Ordered(n, before) ==
    /\ \A i, j \in 1..n : i # j => <<i, j>> \in before \/ <<j, i>> \in before
    /\ \A i, j, k \in 1..n : <<i, j>> \in before /\ <<j, k>> \in before => <<i, k>> \in before
    /\ \A i \in 1..n : <<i, i>> \notin before
RankIn(n, before, i) == Cardinality({j \in 1..n : <<j, i>> \in before}) + 1

\* Every rank is given to somebody: the sets of those before are all different and grow one by one.
LEMMA RankedOnce ==
    ASSUME NEW n \in Nat, NEW before, Ordered(n, before), NEW k \in 1..n
    PROVE  \E i \in 1..n : RankIn(n, before, i) = k
<1> DEFINE Below(i) == {j \in 1..n : <<j, i>> \in before}
           rank == [i \in 1..n |-> Cardinality(Below(i)) + 1]
<1>1. IsFiniteSet(1..n) /\ Cardinality(1..n) = n
  BY FS_Interval
<1>2. ASSUME NEW i \in 1..n
      PROVE  IsFiniteSet(Below(i)) /\ Cardinality(Below(i)) \in Nat /\ Cardinality(Below(i)) < n
  <2>1. Below(i) \in SUBSET (1..n) /\ Below(i) # 1..n
    BY DEF Ordered
  <2> HIDE DEF Below
  <2>2. IsFiniteSet(Below(i)) /\ Cardinality(Below(i)) <= n /\ Cardinality(Below(i)) # n
    BY <1>1, <2>1, FS_Subset
  <2>3. Cardinality(Below(i)) \in Nat
    BY <2>2, FS_CardinalityType
  <2> QED
    BY <2>2, <2>3
<1>3. ASSUME NEW i \in 1..n, NEW j \in 1..n, <<i, j>> \in before
      PROVE  Cardinality(Below(i)) # Cardinality(Below(j))
  <2>1. Below(i) \in SUBSET Below(j) /\ i \in Below(j) /\ i \notin Below(i)
    BY <1>3 DEF Ordered
  <2>2. IsFiniteSet(Below(j))
    BY <1>2
  <2> HIDE DEF Below
  <2> QED
    BY <2>1, <2>2, FS_Subset
<1> HIDE DEF Below
<1>4. rank \in [1..n -> 1..n]
  <2>1. ASSUME NEW i \in 1..n PROVE Cardinality(Below(i)) + 1 \in 1..n
    BY <1>2
  <2> QED
    BY <2>1
<1>5. \A i, j \in 1..n : rank[i] = rank[j] => i = j
  <2> SUFFICES ASSUME NEW i \in 1..n, NEW j \in 1..n, rank[i] = rank[j], i # j PROVE FALSE
    OBVIOUS
  <2>1. Cardinality(Below(i)) = Cardinality(Below(j))
    BY <1>2
  <2> QED
    BY <1>3, <2>1 DEF Ordered
<1> HIDE DEF rank
<1>6. rank \in Injection(1..n, 1..n)
  BY <1>4, <1>5 DEF Injection, IsInjective
<1>7. rank \in Surjection(1..n, 1..n)
  BY <1>1, <1>6, FS_Injection
<1>8. PICK i \in 1..n : rank[i] = k
  BY <1>7 DEF Surjection
<1> QED
  BY <1>8 DEF rank, Below, RankIn

\* Lexical scores are numbers.
LEMMA LexicalIsInt == Lexical \subseteq Int
BY GroundingAssumption

\* Reranking permutes hits and keeps the best: it invents none, and leaves at most TopK.
LEMMA RerankKeeps ==
    ASSUME NEW T, NEW hits \in Seq(T), \A i \in DOMAIN hits : hits[i].score \in Int,
           NEW lex \in [DOMAIN hits -> Lexical]
    PROVE  /\ Rerank(hits, lex) \in Seq(T)
           /\ Len(Rerank(hits, lex)) <= TopK
           /\ \A i \in DOMAIN Rerank(hits, lex) : Rerank(hits, lex)[i] \in Range(hits)
<1> DEFINE n == Len(hits)
           Before(i, j) == \/ Fused(hits, lex, i) > Fused(hits, lex, j)
                           \/ Fused(hits, lex, i) = Fused(hits, lex, j) /\ i < j
           before == {pair \in (1..n) \X (1..n) : Before(pair[1], pair[2])}
           Rank(i) == Cardinality({j \in DOMAIN hits : Before(j, i)}) + 1
           order == [k \in DOMAIN hits |-> CHOOSE i \in DOMAIN hits : Rank(i) = k]
           last == Min({TopK, n})
<1>1. n \in Nat /\ DOMAIN hits = 1..n /\ hits \in [1..n -> T]
  OBVIOUS
<1> HIDE DEF n
<1>2. ASSUME NEW i \in 1..n PROVE Fused(hits, lex, i) \in Int
  <2>1. hits[i].score \in Int /\ lex[i] \in Int
    <3>1. i \in DOMAIN hits
      BY <1>1
    <3>2. lex[i] \in Lexical
      BY <3>1
    <3>3. hits[i].score \in Int
      BY <3>1
    <3>4. lex[i] \in Int
      BY <3>2, LexicalIsInt
    <3> QED
      BY <3>3, <3>4
  <2>2. Max({0, Min({100, hits[i].score})}) \in Int
    <3>1. ASSUME NEW x \in Int PROVE Max({0, Min({100, x})}) \in Int
      BY Percent
    <3> QED
      BY <2>1, <3>1
  <2> QED
    BY <2>1, <2>2 DEF Fused
<1>3. ASSUME NEW k \in 1..n PROVE \E i \in 1..n : Rank(i) = k
  <2>1. /\ \A i, j \in 1..n : i # j => Before(i, j) \/ Before(j, i)
        /\ \A i \in 1..n : ~Before(i, i)
    BY <1>1, <1>2
  <2>2. \A i, j, m \in 1..n : Before(i, j) /\ Before(j, m) => Before(i, m)
    BY <1>1, <1>2
  <2> HIDE DEF Before
  <2>3. Ordered(n, before)
    <3>1. \A i, j \in 1..n : <<i, j>> \in before <=> Before(i, j)
      OBVIOUS
    <3> HIDE DEF before
    <3>2. \A i, j \in 1..n : i # j => <<i, j>> \in before \/ <<j, i>> \in before
      BY <2>1, <3>1
    <3>3. \A i, j, m \in 1..n : <<i, j>> \in before /\ <<j, m>> \in before => <<i, m>> \in before
      BY <2>2, <3>1
    <3>4. \A i \in 1..n : <<i, i>> \notin before
      BY <2>1, <3>1
    <3> QED
      BY <3>2, <3>3, <3>4 DEF Ordered
  <2>4. ASSUME NEW i \in 1..n PROVE {j \in DOMAIN hits : Before(j, i)} = {j \in 1..n : <<j, i>> \in before}
    BY <1>1
  <2> HIDE DEF before
  <2>5. PICK i \in 1..n : RankIn(n, before, i) = k
    BY <1>1, <2>3, RankedOnce
  <2> QED
    BY <2>4, <2>5 DEF RankIn
<1> HIDE DEF Rank
<1>4. \A k \in 1..n : order[k] \in 1..n
  BY <1>1, <1>3
<1>5. Reranked(hits, lex) = [k \in DOMAIN hits |-> hits[order[k]]]
  BY DEF Reranked, Rank
<1> HIDE DEF order
<1>6. Reranked(hits, lex) \in [1..n -> T] /\ \A k \in 1..n : Reranked(hits, lex)[k] \in Range(hits)
  BY <1>1, <1>4, <1>5 DEF Range
<1>7. Reranked(hits, lex) \in Seq(T) /\ Len(Reranked(hits, lex)) = n /\ DOMAIN Reranked(hits, lex) = 1..n
  BY <1>1, <1>6, SeqOfFunction
<1>8. last \in Nat /\ last <= TopK /\ last <= n
  <2>1. TopK \in Nat /\ TopK \in Int /\ n \in Int
    BY <1>1, GroundingAssumption
  <2>2. last \in {TopK, n} /\ last <= TopK /\ last <= n
    BY <2>1, MinOfTwo
  <2> QED
    BY <1>1, <2>1, <2>2
<1> HIDE DEF last
<1>9. Rerank(hits, lex) = SubSeq(Reranked(hits, lex), 1, last)
  BY DEF Rerank, last, n
<1>10. /\ SubSeq(Reranked(hits, lex), 1, last) \in Seq(T)
       /\ Range(SubSeq(Reranked(hits, lex), 1, last)) = {Reranked(hits, lex)[i] : i \in 1..last}
  <2>1. 1 \in Nat \ {0}
    OBVIOUS
  <2> QED
    BY <1>7, <1>8, <2>1, SubSeqElements
<1>11. Len(SubSeq(Reranked(hits, lex), 1, last)) = last
  BY <1>7, <1>8
<1>12. \A i \in 1..last : Reranked(hits, lex)[i] \in Range(hits)
  BY <1>1, <1>6, <1>8
<1>13. \A x \in Range(Rerank(hits, lex)) : x \in Range(hits)
  BY <1>9, <1>10, <1>12
<1>14. \A i \in DOMAIN Rerank(hits, lex) : Rerank(hits, lex)[i] \in Range(hits)
  BY <1>13 DEF Range
<1> QED
  BY <1>8, <1>9, <1>10, <1>11, <1>14

\* What is shown is the beginning of the hits.
LEMMA ShownIsPrefix ==
    ASSUME NEW T, NEW hits \in Seq(T), NEW budget
    PROVE  /\ Shown(hits, budget) \in Seq(T)
           /\ \A i \in DOMAIN Shown(hits, budget) : Shown(hits, budget)[i] \in Range(hits)
<1> DEFINE Fits(n) == n = 1 \/ (Spent(hits, n - 1) < budget /\ Spent(hits, n) <= budget)
           full == {n \in 0..Len(hits) : \A m \in 1..n : Fits(m)}
<1>1. Len(hits) \in Nat /\ DOMAIN hits = 1..Len(hits)
  OBVIOUS
<1>2. 0 \in full /\ full \in SUBSET (0..Len(hits))
  <2> HIDE DEF Fits
  <2> QED
    BY <1>1
<1>3. Shown(hits, budget) = SubSeq(hits, 1, Max(full))
  BY DEF Shown
<1> HIDE DEF full
<1>4. Max(full) \in full
  <2> DEFINE rest == full \ {0}
             top == Max(rest)
  <2>1. rest \in SUBSET (1..Len(hits))
    BY <1>1, <1>2
  <2>2. CASE rest = {}
    <3>1. full \in SUBSET Int /\ 0 \in full /\ \A n \in full : n <= 0
      BY <1>2, <2>2
    <3>2. Max(full) = 0
      BY <3>1, MaxIs
    <3> QED
      BY <1>2, <3>2
  <2>3. CASE rest # {}
    <3> HIDE DEF rest
    <3>1. top \in rest /\ \A i \in rest : i <= top
      BY <1>1, <2>1, <2>3, MaxOfIndices
    <3> HIDE DEF top
    <3>2. top \in full /\ top \in Nat
      BY <2>1, <3>1 DEF rest
    <3>3. \A n \in full : n <= top
      BY <3>1, <3>2 DEF rest
    <3>4. full \in SUBSET Int
      BY <1>1, <1>2
    <3>5. Max(full) = top
      BY <3>2, <3>3, <3>4, MaxIs
    <3> QED
      BY <3>2, <3>5
  <2> QED
    BY <2>2, <2>3
<1> DEFINE last == Max(full)
<1>5. last \in Nat /\ last <= Len(hits)
  <2>1. last \in 0..Len(hits)
    BY <1>2, <1>4
  <2> HIDE DEF last
  <2> QED
    BY <1>1, <2>1
<1> HIDE DEF last
<1>6. SubSeq(hits, 1, last) \in Seq(T) /\ Range(SubSeq(hits, 1, last)) = {hits[i] : i \in 1..last}
  <2>1. 1 \in Nat \ {0}
    OBVIOUS
  <2> QED
    BY <1>5, <2>1, SubSeqElements
<1>7. \A i \in 1..last : hits[i] \in Range(hits)
  BY <1>1, <1>5 DEF Range
<1>8. \A x \in Range(Shown(hits, budget)) : x \in Range(hits)
  BY <1>3, <1>6, <1>7 DEF last
<1>9. \A i \in DOMAIN Shown(hits, budget) : Shown(hits, budget)[i] \in Range(hits)
  BY <1>8 DEF Range
<1> QED
  BY <1>3, <1>6, <1>9 DEF last

ScoreSum(s) == FoldLeft(LAMBDA sum, h : sum + h.score, 0, s)

\* The sum of scores is a run over them.
LEMMA ScoreSumRuns ==
    ASSUME NEW T, NEW s \in Seq(T), \A i \in DOMAIN s : s[i].score \in Int
    PROVE  \E run \in [0..Len(s) -> Int] :
             /\ run[0] = 0
             /\ \A i \in 1..Len(s) : run[i] = run[i - 1] + s[i].score
             /\ ScoreSum(s) = run[Len(s)]
<1> DEFINE T0 == Int
           n == Len(s)
           D == SUBSET (1..n)
           Step(v, i) == v + s[i].score
           H == [i \in 1..n |-> [v \in T0 |-> Step(v, i)]]
           iter == CHOOSE g : g = [t \in D |-> IF t = {} THEN 0
                                              ELSE Step(g[t \ {Max(t)}], Max(t))]
<1>1. ScoreSum(s) = iter[1..n]
  <2>1. DOMAIN s = 1..n
    OBVIOUS
  <2> QED
    BY <2>1, Zenon DEF ScoreSum, FoldLeft, MapThenFoldSet
<1>2. n \in Nat
  OBVIOUS
<1>3. 0 \in T0
  OBVIOUS
<1>4. \A i \in 1..n : \A v \in T0 : Step(v, i) \in T0
  <2> SUFFICES ASSUME NEW i \in 1..n, NEW v \in T0 PROVE Step(v, i) \in T0
    OBVIOUS
  <2>1. s[i].score \in Int
    OBVIOUS
  <2> QED
    BY <2>1
<1> HIDE DEF T0, n, Step
<1>5. \A i \in 1..n : \A v \in T0 : H[i][v] = Step(v, i)
  OBVIOUS
<1>h. H \in [1..n -> [T0 -> T0]]
  BY <1>4
<1> HIDE DEF H
<1>6. iter = [t \in D |-> IF t = {} THEN 0 ELSE Step(iter[t \ {Max(t)}], Max(t))]
  <2>1. PICK g : Solves(g, T0, 0, H, n)
    BY <1>2, <1>3, <1>h, FoldExists
  <2>2. g = [t \in D |-> IF t = {} THEN 0 ELSE Step(g[t \ {Max(t)}], Max(t))]
    BY <1>5, <2>1 DEF Solves
  <2> QED
    BY <2>2, Zenon
<1> HIDE DEF iter
<1>7. Computes(iter, T0, 0, H, n)
  <2>1. 1..0 = {} /\ {} \in D
    OBVIOUS
  <2>2. iter[1..0] = 0
    BY <1>6, <2>1
  <2>3. ASSUME NEW i \in 1..n PROVE iter[1..i] = Step(iter[1..(i - 1)], i)
    <3>1. 1..i \in D /\ 1..i # {} /\ Max(1..i) = i /\ (1..i) \ {i} = 1..(i - 1)
      BY <1>2, FirstIndices
    <3> QED
      BY <1>6, <3>1
  <2> QED
    BY <1>5, <2>2, <2>3 DEF Computes
<1>8. PICK run : Runs(run, T0, 0, H, n) /\ iter[1..n] = run[n]
  BY <1>2, <1>3, <1>h, <1>7, FoldRuns
<1>9. ASSUME NEW i \in 1..n PROVE run[i] = Step(run[i - 1], i)
  BY <1>2, <1>5, <1>8, FirstIndices DEF Runs
<1> QED
  BY <1>1, <1>8, <1>9 DEF T0, n, Step, Runs

\* A confidence is a percentage.
LEMMA ConfidenceIsPercent ==
    ASSUME NEW T, NEW hits \in Seq(T), \A i \in DOMAIN hits : hits[i].score \in Int,
           NEW citations, IsFiniteSet(citations), NEW invented \in Nat
    PROVE  Confidence(hits, citations, invented) \in 0..100
<1> DEFINE top == Min({3, Len(hits)})
           best == SubSeq(hits, 1, top)
           retrieval == ScoreSum(best) \div top
           earned == (60 * retrieval + 40 * Coverage(citations)) \div 100
<1>1. Confidence(hits, citations, invented) =
        IF hits = <<>> THEN 0 ELSE Max({0, Min({100, earned - 20 * invented})})
  BY DEF Confidence, ScoreSum
<1>2. CASE hits = <<>>
  BY <1>1, <1>2
<1>3. CASE hits # <<>>
  <2>1. Len(hits) \in Nat /\ Len(hits) # 0 /\ DOMAIN hits = 1..Len(hits) /\ Len(hits) \in Int /\ 3 \in Int
    BY <1>3
  <2>2. top \in {3, Len(hits)} /\ top <= Len(hits)
    BY <2>1, MinOfTwo
  <2>3. top \in Nat \ {0} /\ top <= Len(hits)
    BY <2>1, <2>2
  <2> HIDE DEF top
  <2>4. best \in Seq(T) /\ Range(best) = {hits[i] : i \in 1..top}
    <3>1. 1 \in Nat \ {0} /\ top \in Nat
      BY <2>3
    <3> QED
      BY <2>3, <3>1, SubSeqElements
  <2>5. \A i \in DOMAIN best : best[i].score \in Int
    <3> SUFFICES ASSUME NEW i \in DOMAIN best PROVE best[i].score \in Int
      OBVIOUS
    <3>1. PICK j \in 1..top : best[i] = hits[j]
      BY <2>4 DEF Range
    <3>2. j \in DOMAIN hits
      BY <2>1, <2>3
    <3> QED
      BY <3>1, <3>2
  <2> HIDE DEF best
  <2>6. ScoreSum(best) \in Int
    <3>1. PICK run \in [0..Len(best) -> Int] : ScoreSum(best) = run[Len(best)]
      BY <2>4, <2>5, ScoreSumRuns
    <3>2. Len(best) \in 0..Len(best)
      BY <2>4
    <3> QED
      BY <3>1, <3>2
  <2>7. Coverage(citations) \in Int
    <3>1. Cardinality(citations) \in Nat
      BY FS_CardinalityType
    <3>2. 50 * Cardinality(citations) \in Int /\ 100 \in Int
      BY <3>1
    <3>3. Min({100, 50 * Cardinality(citations)}) \in {100, 50 * Cardinality(citations)}
      BY <3>2, MinOfTwo
    <3> QED
      BY <3>2, <3>3 DEF Coverage
  <2>8. retrieval \in Int
    <3> DEFINE sum == ScoreSum(best)
    <3>1. sum \in Int
      BY <2>6
    <3> HIDE DEF sum
    <3>2. sum \div top \in Int
      BY <2>3, <3>1
    <3> QED
      BY <3>2 DEF sum
  <2> HIDE DEF retrieval
  <2>9. earned \in Int
    <3> DEFINE coverage == Coverage(citations)
    <3>1. coverage \in Int
      BY <2>7
    <3> HIDE DEF coverage
    <3>2. (60 * retrieval + 40 * coverage) \div 100 \in Int
      BY <2>8, <3>1
    <3> QED
      BY <3>2 DEF coverage
  <2> HIDE DEF earned
  <2>10. earned - 20 * invented \in Int
    BY <2>9
  <2> QED
    BY <1>1, <1>3, <2>10, Percent
<1> QED
  BY <1>2, <1>3

\* The threshold drops hits and adds none.
LEMMA RelevantKeeps ==
    ASSUME NEW T, NEW hits \in Seq(T)
    PROVE  /\ Relevant(hits) \in Seq(T)
           /\ \A x \in Range(Relevant(hits)) : x \in Range(hits) /\ x.score >= Threshold
<1> DEFINE n == Len(hits)
           wanted == {i \in 1..n : hits[i].score >= Threshold}
<1>1. n \in Nat /\ DOMAIN hits = 1..n /\ hits \in [1..n -> T]
  OBVIOUS
<1> HIDE DEF n
<1>2. \A i \in 1..n : When(i \in wanted, hits[i]) = When(hits[i].score >= Threshold, hits[i])
  BY DEF When
<1>3. \A i \in 1..n : i \in wanted <=> hits[i].score >= Threshold
  OBVIOUS
<1> HIDE DEF wanted
<1>4. Relevant(hits) = Kept(n, wanted, hits)
  BY <1>1, <1>2 DEF Relevant, Kept
<1>5. /\ Kept(n, wanted, hits) \in Seq(T)
      /\ \A y : y \in Range(Kept(n, wanted, hits)) <=> \E i \in 1..n : i \in wanted /\ y = hits[i]
  BY <1>1, KeptElements
<1>6. ASSUME NEW y \in Range(Relevant(hits)) PROVE y \in Range(hits) /\ y.score >= Threshold
  <2>1. PICK i \in 1..n : i \in wanted /\ y = hits[i]
    BY <1>4, <1>5
  <2> QED
    BY <1>1, <1>3, <2>1 DEF Range
<1> QED
  BY <1>4, <1>5, <1>6

\* A sweep adds hits of its own, at most all of them.
LEMMA CollectedKeeps ==
    ASSUME NEW T, NEW hits \in Seq(T), NEW more \in Seq(T)
    PROVE  /\ Collected(hits, more) \in Seq(T)
           /\ hits = <<>> => Len(Collected(hits, more)) <= Len(more)
<1> DEFINE n == Len(more)
           wanted == {i \in 1..n : \A j \in DOMAIN hits : hits[j].chunk # more[i].chunk}
           added == Kept(n, wanted, more)
<1>1. n \in Nat /\ DOMAIN more = 1..n /\ more \in [1..n -> T]
  OBVIOUS
<1> HIDE DEF n
<1>2. \A i \in 1..n : When(i \in wanted, more[i]) =
                        When(\A j \in DOMAIN hits : hits[j].chunk # more[i].chunk, more[i])
  BY DEF When
<1> HIDE DEF wanted
<1>3. Collected(hits, more) = hits \o added
  BY <1>1, <1>2 DEF Collected, Kept
<1>4. added \in Seq(T) /\ Len(added) <= n
  BY <1>1, KeptElements, KeptLength
<1> HIDE DEF added
<1>5. hits \o added \in Seq(T) /\ Len(hits \o added) = Len(hits) + Len(added)
  BY <1>4
<1>6. hits = <<>> => Len(hits \o added) <= n
  <2>1. Len(added) \in Nat
    BY <1>4
  <2> QED
    BY <1>1, <1>4, <1>5, <2>1
<1> QED
  BY <1>3, <1>5, <1>6 DEF n

----------------------------------------------------------------------------
(* The background task                                                      *)

Chunked(chunks, file) ==
    LET from == ChunksOf[file] IN
    /\ DOMAIN chunks = DOMAIN from /\ Len(chunks) = Len(from)
    /\ \A k \in DOMAIN from : /\ chunks[k].text = from[k].text
                              /\ chunks[k].page = from[k].page
                              /\ chunks[k].section = from[k].section
                              /\ chunks[k].suspicious \in BOOLEAN

\* Some of the points of a file, each with the vector of its chunk.
Landed(points, file) ==
    LET from == ChunksOf[file] IN
    /\ DOMAIN points \subseteq DOMAIN from
    /\ \A k \in DOMAIN points : /\ points[k].text = from[k].text
                                /\ points[k].page = from[k].page
                                /\ points[k].section = from[k].section
                                /\ points[k].suspicious \in BOOLEAN
                                /\ points[k].vector = k

Stages == {"queued", "poll", "chunk", "embed", "clean", "done", "failed"}

\* A task, its job and the points of its file: none before the upsert, all when it is done, any of
\* them when it has failed.
Task(file, w, status, points) ==
    /\ w \in [at : Stages, turn : Nat, chunks : {w.chunks}, vectors : {w.vectors}]
    /\ w.at = "poll" => w.turn < MaxPolls /\ status # "none"
    /\ w.at # "embed" => w.chunks = <<>> /\ w.vectors = <<>>
    /\ w.at = "embed" =>
         /\ Chunked(w.chunks, file)
         /\ w.vectors \in Seq(Nat)
         /\ Len(w.vectors) <= w.turn * BatchSize /\ Len(w.vectors) <= Len(w.chunks)
         /\ Len(w.vectors) \in {w.turn * BatchSize, Len(w.chunks)} =>
              \A k \in DOMAIN w.vectors : w.vectors[k] = k
    /\ Landed(points, file)
    /\ w.at \notin {"clean", "done", "failed"} => points = <<>>
    /\ w.at = "done" => DOMAIN points = DOMAIN ChunksOf[file]

WorkInv ==
    /\ content \in [Files -> Contained] /\ \A f \in Files : content[f] \in Texts[f]
    /\ settings \in Configurations
    /\ faults \in 0..MaxFaults
    /\ work = [f \in Files |-> work[f]] /\ job = [f \in Files |-> job[f]]
    /\ index = [f \in Files |-> index[f]]
    /\ \A f \in Files : Task(content[f], work[f], job[f], index[f])

\* The chunks of what a file may contain.
LEMMA ChunksAre ==
    ASSUME NEW file \in Contained
    PROVE  /\ file \in File /\ ChunksOf[file] = ChunkBlocks(Extracted(file))
           /\ Len(ChunksOf[file]) \in Nat /\ DOMAIN ChunksOf[file] = 1..Len(ChunksOf[file])
<1>1. file \in File
  BY ProvenanceAssumption DEF Contained
<1>2. ChunksOf[file] = ChunkBlocks(Extracted(file))
  BY DEF ChunksOf
<1> QED
  BY <1>1, <1>2, FileChunks

\* An embedding call returns at most a vector for each text, and fails at most once.
LEMMA EmbedOutcome ==
    ASSUME settings \in Configurations, NEW n \in Nat, NEW o \in EmbedOutcomes(n)
    PROVE  o.vectors \in 0..n /\ o.faults \in {0, 1}
<1>1. settings.embed \in {"bedrock", "cohere", "local"}
  BY ProvenanceAssumption
<1>2. \A e \in BedrockEmbeds(n) \cup CohereEmbeds(n) \cup LocalEmbeds(n) :
        e.vectors \in 0..n /\ e.faults \in {0, 1}
  BY DEF BedrockEmbeds, CohereEmbeds, LocalEmbeds
<1>3. EmbedOutcomes(n) \subseteq BedrockEmbeds(n) \cup CohereEmbeds(n) \cup LocalEmbeds(n)
  BY <1>1 DEF EmbedOutcomes
<1> QED
  BY <1>2, <1>3

\* A chat call fails twice at most, with the model and with its fallback.
LEMMA ChatOutcome ==
    ASSUME settings \in Configurations, NEW o \in ChatOutcomes
    PROVE  o.faults \in {0, 1, 2}
<1>1. settings.llm \in {"bedrock", "groq", "local"}
  BY ProvenanceAssumption
<1>2. \A e \in BedrockChats \cup GroqChats \cup LocalChats : e.faults \in {0, 1, 2}
  BY DEF BedrockChats, GroqChats, LocalChats
<1>3. ChatOutcomes \subseteq BedrockChats \cup GroqChats \cup LocalChats
  BY <1>1 DEF ChatOutcomes
<1> QED
  BY <1>2, <1>3

\* Failures are counted up to their bound.
LEMMA FaultsCounted ==
    ASSUME faults \in 0..MaxFaults, NEW n \in {0, 1, 2}, Suffered(n)
    PROVE  faults' \in 0..MaxFaults
BY ProvenanceAssumption DEF Suffered

\* A step of one task concerns that task.
LEMMA TaskMoves ==
    ASSUME WorkInv, NEW f \in Files, NEW w, NEW status, NEW points, UNCHANGED deployment,
           work' = [work EXCEPT ![f] = w], job' = [job EXCEPT ![f] = status],
           index' = [index EXCEPT ![f] = points], faults' \in 0..MaxFaults,
           Task(content[f], w, status, points)
    PROVE  WorkInv'
<1>1. content' = content /\ settings' = settings
  BY DEF deployment
<1>2. work' = [g \in Files |-> work'[g]] /\ job' = [g \in Files |-> job'[g]]
      /\ index' = [g \in Files |-> index'[g]]
  BY DEF WorkInv
<1>3. ASSUME NEW g \in Files PROVE Task(content'[g], work'[g], job'[g], index'[g])
  <2>1. CASE g = f
    <3>1. work'[g] = w /\ job'[g] = status /\ index'[g] = points
      BY <2>1 DEF WorkInv
    <3> QED
      BY <1>1, <2>1, <3>1
  <2>2. CASE g # f
    <3>1. work'[g] = work[g] /\ job'[g] = job[g] /\ index'[g] = index[g]
      BY <2>2 DEF WorkInv
    <3> QED
      BY <1>1, <3>1 DEF WorkInv
  <2> QED
    BY <2>1, <2>2
<1> QED
  BY <1>1, <1>2, <1>3 DEF WorkInv

\* No points are some of the points.
LEMMA NothingLanded ==
    ASSUME NEW file
    PROVE  Landed(<<>>, file)
BY DEF Landed

\* A task that is given up, or has chunks to make, holds nothing.
LEMMA TaskHoldsNothing ==
    ASSUME NEW file, NEW status, NEW at \in {"queued", "chunk", "failed"}
    PROVE  Task(file, [at |-> at, turn |-> 0, chunks |-> <<>>, vectors |-> <<>>], status, <<>>)
BY NothingLanded DEF Task, Stages

\* A task that has read its file, or gives up.
LEMMA TaskEnds ==
    ASSUME WorkInv, NEW f \in Files, work[f].at \notin {"clean", "done", "failed"}, NEW status,
           UNCHANGED deployment,
           job' = [job EXCEPT ![f] = status], UNCHANGED index, faults' \in 0..MaxFaults,
           Blocks(f) \/ Works(f, "failed", 0, <<>>, <<>>)
    PROVE  WorkInv'
<1>1. PICK at \in {"chunk", "failed"} :
             work' = [work EXCEPT ![f] = [at |-> at, turn |-> 0, chunks |-> <<>>, vectors |-> <<>>]]
  BY DEF Blocks, Works
<1>2. index[f] = <<>>
  BY DEF WorkInv, Task
<1>3. index' = [index EXCEPT ![f] = <<>>]
  BY <1>2 DEF WorkInv
<1>4. Task(content[f], [at |-> at, turn |-> 0, chunks |-> <<>>, vectors |-> <<>>], status, <<>>)
  BY TaskHoldsNothing
<1> QED
  BY <1>1, <1>3, <1>4, TaskMoves

\* Reading a file, or describing an image.
LEMMA StartKeeps ==
    ASSUME WorkInv, NEW f \in Files, Extract(f) \/ DescribeImage(f)
    PROVE  WorkInv'
<1>1. work[f].at = "queued" /\ UNCHANGED deployment /\ UNCHANGED job /\ UNCHANGED index
      /\ (Blocks(f) \/ Works(f, "failed", 0, <<>>, <<>>)) /\ (UNCHANGED faults \/ Suffered(1))
  BY Zenon DEF Extract, DescribeImage
<1>2. job' = [job EXCEPT ![f] = job[f]]
  BY <1>1 DEF WorkInv
<1>3. faults' \in 0..MaxFaults
  <2>1. CASE UNCHANGED faults
    BY <2>1 DEF WorkInv
  <2>2. CASE Suffered(1)
    BY <2>2, FaultsCounted DEF WorkInv
  <2> QED
    BY <1>1, <2>1, <2>2
<1> QED
  BY <1>1, <1>2, <1>3, TaskEnds

\* One failure more or none.
LEMMA FaultsStay ==
    ASSUME WorkInv, UNCHANGED faults \/ Suffered(1) \/ Suffered(0)
    PROVE  faults' \in 0..MaxFaults
<1>1. CASE UNCHANGED faults
  BY <1>1 DEF WorkInv
<1>2. CASE Suffered(1) \/ Suffered(0)
  BY <1>2, FaultsCounted DEF WorkInv
<1> QED
  BY <1>1, <1>2

\* Starting a transcription, and every turn of its loop.
LEMMA TranscriptionKeeps ==
    ASSUME WorkInv, NEW f \in Files, StartTranscription(f) \/ Poll(f)
    PROVE  WorkInv'
<1>1. work[f].at \in {"queued", "poll"} /\ UNCHANGED deployment /\ UNCHANGED index
  BY Zenon DEF StartTranscription, Poll
<1>2. faults' \in 0..MaxFaults
  <2>1. UNCHANGED faults \/ Suffered(1)
    BY Zenon DEF StartTranscription, Poll
  <2> QED
    BY <2>1, FaultsStay
<1>3. index' = [index EXCEPT ![f] = <<>>]
  BY <1>1 DEF WorkInv, Task
<1>4. ASSUME NEW status \in {job[f], "IN_PROGRESS"}, job' = [job EXCEPT ![f] = status],
             Blocks(f) \/ Works(f, "failed", 0, <<>>, <<>>)
      PROVE  WorkInv'
  BY <1>1, <1>2, <1>4, TaskEnds
<1>5. ASSUME NEW turn \in Nat, turn < MaxPolls, NEW status, status # "none",
             job' = [job EXCEPT ![f] = status], Works(f, "poll", turn, <<>>, <<>>)
      PROVE  WorkInv'
  <2>1. Task(content[f], [at |-> "poll", turn |-> turn, chunks |-> <<>>, vectors |-> <<>>], status, <<>>)
    BY <1>5, NothingLanded DEF Task, Stages
  <2> QED
    BY <1>1, <1>2, <1>3, <1>5, <2>1, TaskMoves DEF Works
<1>6. job = [job EXCEPT ![f] = job[f]]
  BY DEF WorkInv
<1>7. \/ /\ UNCHANGED job
         /\ Blocks(f) \/ Works(f, "failed", 0, <<>>, <<>>)
      \/ job' = [job EXCEPT ![f] = "IN_PROGRESS"] /\ Works(f, "poll", 0, <<>>, <<>>)
      \/ /\ UNCHANGED job /\ job[f] = "IN_PROGRESS" /\ work[f].turn + 1 < MaxPolls
         /\ Works(f, "poll", work[f].turn + 1, <<>>, <<>>)
  BY Zenon DEF StartTranscription, Poll
<1>8. work[f].turn + 1 \in Nat /\ 0 \in Nat /\ 0 < MaxPolls
  BY ProvenanceAssumption DEF WorkInv, Task
<1>9. CASE UNCHANGED job /\ (Blocks(f) \/ Works(f, "failed", 0, <<>>, <<>>))
  BY <1>4, <1>6, <1>9
<1>10. CASE job' = [job EXCEPT ![f] = "IN_PROGRESS"] /\ Works(f, "poll", 0, <<>>, <<>>)
  BY <1>5, <1>8, <1>10
<1>11. CASE /\ UNCHANGED job /\ job[f] = "IN_PROGRESS" /\ work[f].turn + 1 < MaxPolls
            /\ Works(f, "poll", work[f].turn + 1, <<>>, <<>>)
  BY <1>5, <1>6, <1>8, <1>11
<1> QED
  BY <1>7, <1>9, <1>10, <1>11

\* Transcribe ends a job.
LEMMA JobKeeps ==
    ASSUME WorkInv, NEW f \in Files, JobStops(f)
    PROVE  WorkInv'
<1>1. PICK status \in {"COMPLETED", "FAILED"} : job' = [job EXCEPT ![f] = status]
  BY DEF JobStops
<1>2. UNCHANGED deployment /\ UNCHANGED work /\ UNCHANGED index /\ UNCHANGED faults
  BY DEF JobStops
<1>3. work' = [work EXCEPT ![f] = work[f]] /\ index' = [index EXCEPT ![f] = index[f]]
      /\ faults' \in 0..MaxFaults
  BY <1>2 DEF WorkInv
<1>4. Task(content[f], work[f], status, index[f])
  BY DEF WorkInv, Task
<1> QED
  BY <1>1, <1>2, <1>3, <1>4, TaskMoves

\* Splitting and scanning: the chunks of the task are those of the file.
LEMMA ChunkKeeps ==
    ASSUME WorkInv, NEW f \in Files, Chunk(f)
    PROVE  WorkInv'
<1> DEFINE from == Chunks(f)
           Scanned(flagged) == [k \in DOMAIN from |->
             [text |-> from[k].text, page |-> from[k].page, section |-> from[k].section,
              suspicious |-> k \in flagged]]
<1>1. PICK flagged \in SUBSET DOMAIN from : Works(f, "embed", 0, Scanned(flagged), <<>>)
  BY Zenon DEF Chunk
<1>2. /\ work[f].at = "chunk" /\ UNCHANGED deployment /\ UNCHANGED job /\ UNCHANGED index
      /\ UNCHANGED faults
  BY Zenon DEF Chunk
<1>3. content[f] \in Contained /\ from = ChunksOf[content[f]]
  BY DEF WorkInv, Chunks
<1>4. Len(from) \in Nat /\ DOMAIN from = 1..Len(from)
  BY <1>3, ChunksAre
<1>5. Chunked(Scanned(flagged), content[f]) /\ Len(Scanned(flagged)) = Len(from)
  <2> HIDE DEF from
  <2>1. DOMAIN Scanned(flagged) = DOMAIN from /\ Len(Scanned(flagged)) = Len(from)
    BY <1>4
  <2>2. \A k \in DOMAIN from : /\ Scanned(flagged)[k].text = from[k].text
                               /\ Scanned(flagged)[k].page = from[k].page
                               /\ Scanned(flagged)[k].section = from[k].section
    OBVIOUS
  <2>3. \A k \in DOMAIN from : Scanned(flagged)[k].suspicious \in BOOLEAN
    <3> SUFFICES ASSUME NEW k \in DOMAIN from PROVE Scanned(flagged)[k].suspicious \in BOOLEAN
      OBVIOUS
    <3> DEFINE chunk == [text |-> from[k].text, page |-> from[k].page, section |-> from[k].section,
                         suspicious |-> k \in flagged]
    <3>1. Scanned(flagged)[k] = chunk
      BY Zenon
    <3>2. chunk.suspicious = (k \in flagged)
      BY Zenon
    <3>3. (k \in flagged) \in BOOLEAN
      OBVIOUS
    <3> HIDE DEF chunk, Scanned
    <3>4. chunk.suspicious \in BOOLEAN
      BY <3>2, <3>3, Zenon
    <3> QED
      BY <3>1, <3>4, Zenon
  <2> HIDE DEF Scanned
  <2> QED
    BY <1>3, <2>1, <2>2, <2>3 DEF Chunked
<1> DEFINE chunks == Scanned(flagged)
<1> HIDE DEF Scanned, from
<1>6. Task(content[f], [at |-> "embed", turn |-> 0, chunks |-> chunks, vectors |-> <<>>], job[f], <<>>)
  <2>1. 0 * BatchSize = 0 /\ Len(chunks) \in Nat
    BY <1>4, <1>5, ProvenanceAssumption
  <2> HIDE DEF chunks
  <2> QED
    BY <1>5, <2>1, NothingLanded DEF Task, Stages, chunks
<1>7. index' = [index EXCEPT ![f] = <<>>] /\ job' = [job EXCEPT ![f] = job[f]] /\ faults' \in 0..MaxFaults
  BY <1>2 DEF WorkInv, Task
<1> QED
  BY <1>1, <1>2, <1>6, <1>7, TaskMoves DEF Works

\* The vectors of one more batch: no more than chunks were sent, and all of them only if none is missing.
InOrder(v) == \A k \in DOMAIN v : v[k] = k
Batch(first, count) == [k \in 1..count |-> first + k]

\* A batch adds at most what is missing, and as long as none is missing every vector is in its
\* place.
LEMMA BatchAdds ==
    ASSUME NEW v \in Seq(Nat), NEW turn \in Nat, NEW n \in Nat, NEW count \in Nat,
           NEW first, first = turn * BatchSize, first < n,
           Len(v) <= first,
           Len(v) = first => InOrder(v),
           count <= Min({BatchSize, n - first}),
           NEW all, all = v \o Batch(first, count)
    PROVE  /\ all \in Seq(Nat)
           /\ Len(all) <= (turn + 1) * BatchSize /\ Len(all) <= n
           /\ Len(all) \in {(turn + 1) * BatchSize, n} => InOrder(all)
<1> DEFINE more == Batch(first, count)
<1>1. first \in Nat /\ BatchSize \in Nat \ {0} /\ (turn + 1) * BatchSize = first + BatchSize
  BY ProvenanceAssumption
<1>2. count <= BatchSize /\ count <= n - first
  <2> DEFINE size == Min({BatchSize, n - first})
  <2>1. BatchSize \in Int /\ n - first \in Int
    BY <1>1
  <2>2. size \in {BatchSize, n - first} /\ size <= BatchSize /\ size <= n - first
    BY <2>1, MinOfTwo
  <2>3. count <= size
    OBVIOUS
  <2> HIDE DEF size
  <2> QED
    BY <2>1, <2>2, <2>3
<1>3. more \in [1..count -> Nat]
  BY <1>1 DEF Batch
<1>4. \A k \in 1..count : more[k] = first + k
  BY DEF Batch
<1> HIDE DEF more
<1>5. more \in Seq(Nat) /\ Len(more) = count
  BY <1>3, SeqOfFunction
<1>6. all \in Seq(Nat) /\ Len(all) = Len(v) + count /\ Len(v) \in Nat
      /\ \A k \in 1..(Len(v) + count) : all[k] = IF k <= Len(v) THEN v[k] ELSE more[k - Len(v)]
  <2>1. all = v \o more
    BY DEF more
  <2>2. /\ v \o more \in Seq(Nat) /\ Len(v \o more) = Len(v) + Len(more)
        /\ \A k \in 1..(Len(v) + Len(more)) : (v \o more)[k] = IF k <= Len(v) THEN v[k] ELSE more[k - Len(v)]
    BY <1>5, ConcatProperties
  <2>3. Len(v) \in Nat
    OBVIOUS
  <2> QED
    BY <1>5, <2>1, <2>2, <2>3
<1>7. DOMAIN all = 1..(Len(v) + count) /\ DOMAIN v = 1..Len(v)
  BY <1>6
<1> DEFINE m == Len(v)
<1> HIDE DEF m
<1>8. Len(all) <= first + BatchSize /\ Len(all) <= n
  <2>1. m \in Nat /\ m <= first /\ Len(all) = m + count
    BY <1>6 DEF m
  <2> QED
    BY <1>1, <1>2, <2>1
<1>9. ASSUME Len(all) \in {first + BatchSize, n}, NEW k \in DOMAIN all PROVE all[k] = k
  <2>1. m \in Nat /\ m <= first /\ Len(all) = m + count
    BY <1>6 DEF m
  <2>2. m = first
    BY <1>1, <1>2, <1>9, <2>1
  <2>3. CASE k <= m
    BY <1>6, <1>7, <2>1, <2>2, <2>3 DEF m, InOrder
  <2>4. CASE ~(k <= m)
    <3>1. k \in 1..(m + count) /\ k - m \in 1..count
      BY <1>7, <2>1, <2>4 DEF m
    <3>2. all[k] = more[k - m] /\ more[k - m] = first + (k - m)
      BY <1>4, <1>6, <2>4, <3>1 DEF m
    <3> QED
      BY <1>1, <2>1, <2>2, <3>1, <3>2
  <2> QED
    BY <2>3, <2>4
<1> QED
  BY <1>1, <1>6, <1>8, <1>9 DEF InOrder

\* Embedding one batch: if the vectors are as many as the chunks in the end, no batch was short.
LEMMA EmbedKeeps ==
    ASSUME WorkInv, NEW f \in Files, EmbedBatch(f)
    PROVE  WorkInv'
<1> DEFINE w == work[f]
           n == Len(w.chunks)
           first == w.turn * BatchSize
           size == Min({BatchSize, n - first})
           More(o) == w.vectors \o [k \in 1..o.vectors |-> first + k]
<1>1. /\ w.at = "embed" /\ first < n /\ UNCHANGED deployment /\ UNCHANGED job /\ UNCHANGED index
  BY Zenon DEF EmbedBatch
<1>2. PICK o \in EmbedOutcomes(size) :
        /\ Suffered(o.faults)
        /\ IF o.vectors = 0 THEN Works(f, "failed", 0, <<>>, <<>>)
           ELSE Works(f, "embed", w.turn + 1, w.chunks, More(o))
  BY Zenon DEF EmbedBatch
<1>3. /\ Task(content[f], w, job[f], index[f]) /\ content[f] \in Contained /\ index[f] = <<>>
      /\ settings \in Configurations
  BY <1>1 DEF WorkInv, Task
<1> HIDE DEF w, n, first, size, More
<1>4. /\ w.turn \in Nat /\ w.turn + 1 \in Nat /\ Chunked(w.chunks, content[f]) /\ w.vectors \in Seq(Nat)
      /\ Len(w.vectors) <= first /\ Len(w.vectors) <= n
      /\ Len(w.vectors) \in {first, n} => \A k \in DOMAIN w.vectors : w.vectors[k] = k
  BY <1>1, <1>3 DEF Task, first, n
<1>5. n \in Nat /\ first \in Nat /\ BatchSize \in Nat
  <2>1. n \in Nat
    BY <1>3, <1>4, ChunksAre DEF Chunked, n
  <2> QED
    BY <1>4, <2>1, ProvenanceAssumption DEF first
<1>6. size \in Nat
  <2>1. BatchSize \in Int /\ n - first \in Int
    BY <1>5
  <2>2. size \in {BatchSize, n - first}
    BY <2>1, MinOfTwo DEF size
  <2> QED
    BY <1>1, <1>5, <2>2
<1>7. o.vectors \in 0..size /\ o.faults \in {0, 1, 2}
  BY <1>3, <1>6, EmbedOutcome
<1>8. faults' \in 0..MaxFaults
  BY <1>2, <1>7, FaultsCounted DEF WorkInv
<1>9. index' = [index EXCEPT ![f] = <<>>] /\ job' = [job EXCEPT ![f] = job[f]]
  BY <1>1, <1>3 DEF WorkInv
<1>10. CASE o.vectors = 0
  <2>1. Works(f, "failed", 0, <<>>, <<>>)
    BY <1>2, <1>10
  <2>2. Task(content[f], [at |-> "failed", turn |-> 0, chunks |-> <<>>, vectors |-> <<>>], job[f], <<>>)
    BY TaskHoldsNothing
  <2> QED
    BY <1>1, <1>8, <1>9, <2>1, <2>2, TaskMoves DEF Works
<1>11. CASE o.vectors # 0
  <2> DEFINE all == More(o)
             b == [at |-> "embed", turn |-> w.turn + 1, chunks |-> w.chunks, vectors |-> all]
  <2>1. work' = [work EXCEPT ![f] = b]
    BY <1>2, <1>11 DEF Works
  <2>2. /\ all \in Seq(Nat)
        /\ Len(all) <= (w.turn + 1) * BatchSize /\ Len(all) <= n
        /\ Len(all) \in {(w.turn + 1) * BatchSize, n} => \A k \in DOMAIN all : all[k] = k
    <3>1. first = w.turn * BatchSize
      BY DEF first
    <3>2. o.vectors \in Nat /\ o.vectors <= Min({BatchSize, n - first})
      BY <1>6, <1>7 DEF size
    <3>3. Len(w.vectors) = first => InOrder(w.vectors)
      BY <1>4 DEF InOrder
    <3>4. all = w.vectors \o Batch(first, o.vectors)
      BY DEF More, Batch
    <3> DEFINE count == o.vectors
               v == w.vectors
               turn == w.turn
    <3>5. /\ v \in Seq(Nat) /\ turn \in Nat /\ n \in Nat /\ count \in Nat /\ first = turn * BatchSize
          /\ first < n /\ Len(v) <= first /\ count <= Min({BatchSize, n - first})
          /\ all = v \o Batch(first, count)
      BY <1>1, <1>4, <1>5, <3>1, <3>2, <3>4
    <3>6. Len(v) = first => InOrder(v)
      BY <3>3
    <3> HIDE DEF count, v, turn, all
    <3>7. /\ all \in Seq(Nat)
          /\ Len(all) <= (turn + 1) * BatchSize /\ Len(all) <= n
          /\ Len(all) \in {(turn + 1) * BatchSize, n} => InOrder(all)
      BY <3>5, <3>6, BatchAdds
    <3> QED
      BY <3>7 DEF turn, InOrder
  <2> HIDE DEF all
  <2>3. Task(content[f], b, job[f], <<>>)
    BY <1>4, <2>2, NothingLanded DEF Task, Stages, n
  <2> HIDE DEF b
  <2> QED
    BY <1>1, <1>8, <1>9, <2>1, <2>3, TaskMoves
<1> QED
  BY <1>10, <1>11

\* Some of the points that a complete set of vectors makes: each vector is the one of its chunk.
LEMMA PointsLand ==
    ASSUME WorkInv, NEW f \in Files, work[f].at = "embed",
           Len(work[f].vectors) = Len(work[f].chunks), NEW kept \in SUBSET DOMAIN work[f].chunks,
           NEW points, points = [k \in kept |-> Point(work[f].chunks[k], work[f].vectors[k])]
    PROVE  Landed(points, content[f]) /\ DOMAIN work[f].chunks = DOMAIN ChunksOf[content[f]]
<1> DEFINE from == ChunksOf[content[f]]
           chunks == work[f].chunks
           vectors == work[f].vectors
<1>1. /\ Chunked(chunks, content[f]) /\ vectors \in Seq(Nat) /\ content[f] \in Contained
      /\ \A k \in DOMAIN vectors : vectors[k] = k
  BY DEF WorkInv, Task
<1>2. /\ DOMAIN chunks = DOMAIN from /\ Len(chunks) = Len(from)
      /\ \A k \in DOMAIN from : /\ chunks[k].text = from[k].text
                                /\ chunks[k].page = from[k].page
                                /\ chunks[k].section = from[k].section
                                /\ chunks[k].suspicious \in BOOLEAN
  BY <1>1 DEF Chunked
<1>3. Len(from) \in Nat /\ DOMAIN from = 1..Len(from)
  BY <1>1, ChunksAre
<1>4. \A k \in DOMAIN from : vectors[k] = k
  <2>1. Len(vectors) = Len(from) /\ DOMAIN vectors = 1..Len(vectors) /\ \A k \in DOMAIN vectors : vectors[k] = k
    BY <1>1, <1>2
  <2> HIDE DEF from, vectors
  <2> QED
    BY <1>3, <2>1
<1>5. points = [k \in kept |-> Point(chunks[k], vectors[k])] /\ kept \subseteq DOMAIN chunks
  OBVIOUS
<1> HIDE DEF from, chunks, vectors
<1>6. DOMAIN points = kept /\ kept \subseteq DOMAIN from
  BY <1>2, <1>5
<1>7. \A k \in kept : /\ points[k].text = from[k].text
                      /\ points[k].page = from[k].page
                      /\ points[k].section = from[k].section
                      /\ points[k].suspicious \in BOOLEAN
                      /\ points[k].vector = k
  BY <1>2, <1>4, <1>5, <1>6 DEF Point
<1>8. Landed(points, content[f])
  BY <1>6, <1>7 DEF Landed, from
<1> QED
  BY <1>2, <1>8 DEF chunks, from

\* Only a complete set of vectors is written, all of it or, if the call fails, some.
LEMMA UpsertKeeps ==
    ASSUME WorkInv, NEW f \in Files, Upsert(f)
    PROVE  WorkInv'
<1> DEFINE w == work[f]
           Some(kept) == [k \in kept |-> Point(w.chunks[k], w.vectors[k])]
           Ended(at) == [at |-> at, turn |-> 0, chunks |-> <<>>, vectors |-> <<>>]
<1>1. /\ w.at = "embed" /\ UNCHANGED deployment /\ UNCHANGED job
      /\ UNCHANGED faults \/ Suffered(1)
      /\ \/ Works(f, "failed", 0, <<>>, <<>>) /\ UNCHANGED index
         \/ /\ Len(w.vectors) = Len(w.chunks)
            /\ index' = [index EXCEPT ![f] = Some(DOMAIN w.chunks)]
            /\ Works(f, "done", 0, <<>>, <<>>)
         \/ /\ Len(w.vectors) = Len(w.chunks)
            /\ \E kept \in SUBSET DOMAIN w.chunks : index' = [index EXCEPT ![f] = Some(kept)]
            /\ Works(f, "clean", 0, <<>>, <<>>)
  BY Zenon DEF Upsert
<1>2. faults' \in 0..MaxFaults /\ job' = [job EXCEPT ![f] = job[f]]
  BY <1>1, FaultsStay DEF WorkInv
<1>3. CASE Works(f, "failed", 0, <<>>, <<>>) /\ UNCHANGED index
  BY <1>1, <1>2, <1>3, TaskEnds
<1>4. ASSUME Len(w.vectors) = Len(w.chunks), NEW kept \in SUBSET DOMAIN w.chunks,
             index' = [index EXCEPT ![f] = Some(kept)],
             NEW at \in {"clean", "done"}, at = "done" => kept = DOMAIN w.chunks,
             Works(f, at, 0, <<>>, <<>>)
      PROVE  WorkInv'
  <2> DEFINE points == Some(kept)
  <2>1. Landed(points, content[f]) /\ DOMAIN w.chunks = DOMAIN ChunksOf[content[f]]
    BY <1>1, <1>4, PointsLand
  <2>2. DOMAIN points = kept
    OBVIOUS
  <2>3. index' = [index EXCEPT ![f] = points] /\ work' = [work EXCEPT ![f] = Ended(at)]
    BY <1>4 DEF Works
  <2> HIDE DEF points, w
  <2>4. Task(content[f], Ended(at), job[f], points)
    BY <1>4, <2>1, <2>2 DEF Task, Stages
  <2> HIDE DEF Ended
  <2> QED
    BY <1>1, <1>2, <2>3, <2>4, TaskMoves
<1> HIDE DEF Some, Ended, w
<1> QED
  BY <1>1, <1>3, <1>4

\* Cleaning up takes the points away or leaves them.
LEMMA CleanUpKeeps ==
    ASSUME WorkInv, NEW f \in Files, CleanUp(f)
    PROVE  WorkInv'
<1> DEFINE failed == [at |-> "failed", turn |-> 0, chunks |-> <<>>, vectors |-> <<>>]
<1>1. /\ work[f].at = "clean" /\ UNCHANGED deployment /\ UNCHANGED job
      /\ UNCHANGED faults \/ Suffered(1)
      /\ work' = [work EXCEPT ![f] = failed]
      /\ index' = [index EXCEPT ![f] = <<>>] \/ UNCHANGED index
  BY Zenon DEF CleanUp, Works
<1>2. PICK points \in {<<>>, index[f]} : index' = [index EXCEPT ![f] = points]
  BY <1>1 DEF WorkInv
<1>3. faults' \in 0..MaxFaults /\ job' = [job EXCEPT ![f] = job[f]]
  BY <1>1, FaultsStay DEF WorkInv
<1>4. Landed(points, content[f])
  BY NothingLanded DEF WorkInv, Task
<1>5. Task(content[f], failed, job[f], points)
  BY <1>4 DEF Task, Stages
<1> QED
  BY <1>1, <1>2, <1>3, <1>5, TaskMoves

----------------------------------------------------------------------------
\* A request leaves files and tasks alone, and counts its failures.
LEMMA RequestLeaves ==
    ASSUME WorkInv, UNCHANGED <<deployment, ingestion>>, faults' \in 0..MaxFaults
    PROVE  WorkInv'
BY DEF WorkInv, deployment, ingestion

\* Every step of a request.
LEMMA RequestKeeps ==
    ASSUME WorkInv, NEW r \in Asks, Ask(r) \/ Answer(r) \/ TimeOut(r),
           ask[r].at = "embed" => ask[r].sweeps \in Nat
    PROVE  WorkInv'
<1>1. UNCHANGED <<deployment, ingestion>>
  BY Zenon DEF Ask, Answer, TimeOut, EmbedQuestion, Search, Analyze, Write, Cite
<1>2. \/ UNCHANGED faults \/ Suffered(1)
      \/ \E o \in ChatOutcomes : Suffered(o.faults)
      \/ ask[r].at = "embed" /\ \E o \in EmbedOutcomes(ask[r].sweeps) : Suffered(o.faults)
  BY Zenon DEF Ask, Answer, TimeOut, EmbedQuestion, Search, Analyze, Write, Cite
<1>3. settings \in Configurations /\ faults \in 0..MaxFaults
  BY DEF WorkInv
<1>4. faults' \in 0..MaxFaults
  <2>1. CASE UNCHANGED faults \/ Suffered(1)
    BY <2>1, FaultsStay
  <2>2. CASE \E o \in ChatOutcomes : Suffered(o.faults)
    BY <1>3, <2>2, ChatOutcome, FaultsCounted
  <2>3. CASE ask[r].at = "embed" /\ \E o \in EmbedOutcomes(ask[r].sweeps) : Suffered(o.faults)
    <3>1. PICK o \in EmbedOutcomes(ask[r].sweeps) : Suffered(o.faults)
      BY <2>3
    <3>2. ask[r].sweeps \in Nat
      BY <2>3
    <3>3. o.faults \in {0, 1, 2}
      BY <1>3, <3>2, EmbedOutcome
    <3> QED
      BY <1>3, <3>1, <3>3, FaultsCounted
  <2> QED
    BY <1>2, <2>1, <2>2, <2>3
<1> QED
  BY <1>1, <1>4, RequestLeaves

\* Every step of a task.
LEMMA IngestKeeps ==
    ASSUME WorkInv, NEW f \in Files, Ingest(f) \/ JobStops(f)
    PROVE  WorkInv'
BY StartKeeps, TranscriptionKeeps, ChunkKeeps, EmbedKeeps, UpsertKeeps, CleanUpKeeps, JobKeeps DEF Ingest

\* Files that were indexed before.
LEMMA InitWork == Init => WorkInv
<1> SUFFICES ASSUME Init PROVE WorkInv
  OBVIOUS
<1>1. content \in [Files -> Contained] /\ \A f \in Files : content[f] \in Texts[f]
  BY DEF Init
<1>2. ASSUME NEW f \in Files PROVE Task(content[f], work[f], job[f], index[f])
  <2>1. CASE f \notin Indexed
    <3>1. work[f] = NoWork /\ index[f] = <<>>
      BY <2>1 DEF Init
    <3> QED
      BY <3>1, TaskHoldsNothing DEF NoWork
  <2>2. CASE f \in Indexed
    <3> DEFINE from == Chunks(f)
    <3>1. work[f] = [NoWork EXCEPT !.at = "done"] /\ index[f] = Plain(from)
      BY <2>2 DEF Init
    <3>2. from = ChunksOf[content[f]] /\ content[f] \in Contained
      BY <1>1 DEF Chunks
    <3>3. Len(from) \in Nat /\ DOMAIN from = 1..Len(from)
      BY <3>2, ChunksAre
    <3> HIDE DEF from
    <3>4. DOMAIN Plain(from) = DOMAIN from /\ Len(Plain(from)) = Len(from)
      BY <3>3 DEF Plain
    <3>5. \A k \in DOMAIN from : /\ Plain(from)[k].text = from[k].text
                                 /\ Plain(from)[k].page = from[k].page
                                 /\ Plain(from)[k].section = from[k].section
                                 /\ Plain(from)[k].suspicious \in BOOLEAN
                                 /\ Plain(from)[k].vector = k
      BY DEF Plain, Point
    <3>6. Landed(Plain(from), content[f]) /\ DOMAIN Plain(from) = DOMAIN ChunksOf[content[f]]
      BY <3>2, <3>4, <3>5 DEF Landed
    <3>7. work[f] = [at |-> "done", turn |-> 0, chunks |-> <<>>, vectors |-> <<>>]
      BY <3>1 DEF NoWork
    <3> QED
      BY <3>1, <3>6, <3>7 DEF Task, Stages
  <2> QED
    BY <2>1, <2>2
<1>3. settings \in Configurations /\ faults \in 0..MaxFaults
  BY ProvenanceAssumption DEF Init
<1>4. work = [f \in Files |-> work[f]] /\ job = [f \in Files |-> job[f]] /\ index = [f \in Files |-> index[f]]
  BY DEF Init
<1> QED
  BY <1>1, <1>2, <1>3, <1>4 DEF WorkInv

----------------------------------------------------------------------------
\* What is in the index is of the file, in its place, each chunk with its own vector.
LEMMA IndexHolds ==
    ASSUME WorkInv, NEW f \in Files
    PROVE  /\ Placed(index[f], content[f]) /\ Fitting(index[f])
           /\ \A k \in DOMAIN index[f] : index[f][k].vector = k
<1> DEFINE file == content[f]
           points == index[f]
           from == ChunksOf[file]
<1>1. Landed(points, file) /\ file \in Contained
  BY DEF WorkInv, Task
<1>2. file \in File /\ from = ChunkBlocks(Extracted(file))
  BY <1>1, ChunksAre
<1>3. /\ DOMAIN points \subseteq DOMAIN from
      /\ \A k \in DOMAIN points : /\ points[k].text = from[k].text
                                  /\ points[k].page = from[k].page
                                  /\ points[k].section = from[k].section
                                  /\ points[k].vector = k
  BY <1>1 DEF Landed
<1> HIDE DEF file, from, points
<1>4. Placed(from, file) /\ Fitting(from)
  BY <1>2, FileChunks
<1>5. Placed(points, file)
  BY <1>3, <1>4 DEF Placed
<1>6. Fitting(points)
  BY <1>3, <1>4 DEF Fitting
<1> QED
  BY <1>3, <1>5, <1>6 DEF file, points

\* When the task is done it is all of the file.
LEMMA IndexIsAll ==
    ASSUME WorkInv, NEW f \in Files, work[f].at = "done"
    PROVE  Covered(index[f], content[f])
<1> DEFINE file == content[f]
           points == index[f]
           from == ChunksOf[file]
<1>1. Landed(points, file) /\ DOMAIN points = DOMAIN from /\ file \in Contained
  BY DEF WorkInv, Task
<1>2. file \in File /\ from = ChunkBlocks(Extracted(file))
  BY <1>1, ChunksAre
<1>3. DOMAIN points = DOMAIN from /\ \A k \in DOMAIN points : points[k].text = from[k].text
  BY <1>1 DEF Landed
<1> HIDE DEF file, from, points
<1>4. Covered(from, file)
  BY <1>2, FileChunks
<1>5. {Range(from[k].text) : k \in DOMAIN from} = {Range(points[k].text) : k \in DOMAIN points}
  BY <1>3
<1>6. Covered(points, file)
  BY <1>4, <1>5 DEF Covered
<1> QED
  BY <1>6 DEF file, points

\* No character is lost on the way into the index.
LEMMA IndexedIsWhole == WorkInv => EveryCharacterIndexed
BY IndexIsAll DEF EveryCharacterIndexed, Covered

\* A chunk names the page or sheet of all its characters.
LEMMA IndexedInPlace == WorkInv => ChunksKnowTheirPlace
<1> SUFFICES ASSUME WorkInv, NEW f \in Files, NEW k \in DOMAIN index[f]
             PROVE  /\ index[f][k].vector = k
                    /\ \A c \in Range(index[f][k].text) \ {Blank} :
                         /\ content[f].kind = "pdf" => index[f][k].page = c[1]
                         /\ content[f].kind = "sheets" => index[f][k].section = content[f].parts[c[1]].title
  BY DEF ChunksKnowTheirPlace
<1>2. index[f][k].vector = k
  BY IndexHolds
<1>3. PICK i \in DOMAIN content[f].parts : /\ index[f][k].text \in Seq(Place(i))
                                           /\ index[f][k].page = PageOf(content[f], i)
                                           /\ index[f][k].section = SectionOf(content[f], i)
  BY IndexHolds DEF Placed
<1>4. ASSUME NEW c \in Range(index[f][k].text) \ {Blank} PROVE c[1] = i
  <2>1. c \in Place(i)
    BY <1>3 DEF Range
  <2> QED
    BY <2>1, PlaceIsTold
<1>5. content[f].kind = "pdf" => PageOf(content[f], i) = i
  BY DEF PageOf
<1>6. content[f].kind = "sheets" => SectionOf(content[f], i) = content[f].parts[i].title
  BY DEF SectionOf
<1> QED
  BY <1>2, <1>3, <1>4, <1>5, <1>6

\* No chunk in the index exceeds its size by more than the overlap.
LEMMA IndexedFits == WorkInv => ChunksFit
<1> SUFFICES ASSUME WorkInv, NEW f \in Files, NEW k \in DOMAIN index[f]
             PROVE  Len(index[f][k].text) <= Longest
  BY DEF ChunksFit
<1> QED
  BY IndexHolds DEF Fitting

----------------------------------------------------------------------------
\* The hits that a request may have: of files of its tenant that were selected, not flagged, with a
\* score in percent, whatever is in the index by now.
Sound(r) ==
    {h \in [chunk : {f \in Files : TenantOf[f] = AskTenant[r] /\ f \in ask[r].scope} \X Nat,
            tenant : {AskTenant[r]}, score : Scores, suspicious : BOOLEAN, size : Nat] :
       ~h.suspicious}

\* A point that a request may see makes a hit that it may have.
LEMMA VisibleIsSound ==
    ASSUME WorkInv, NEW r, NEW p \in Visible(r), NEW score \in Scores
    PROVE  Hit(p, score) \in Sound(r)
<1>1. PICK f \in Files : \E k \in DOMAIN index[f] : p = <<f, k>>
  <2>1. p \in Points
    BY DEF Visible
  <2> QED
    BY <2>1 DEF Points
<1>2. PICK k \in DOMAIN index[f] : p = <<f, k>>
  BY <1>1
<1>3. p[1] = f /\ p[2] = k
  BY <1>2
<1>4. TenantOf[f] = AskTenant[r] /\ f \in ask[r].scope /\ ~index[f][k].suspicious
  BY <1>3 DEF Visible
<1>5. Landed(index[f], content[f]) /\ content[f] \in Contained
  BY DEF WorkInv, Task
<1>6. k \in Nat
  BY <1>5, ChunksAre DEF Landed
<1>7. index[f][k].suspicious \in BOOLEAN
  BY <1>5 DEF Landed
<1>8. Len(index[f][k].text) \in Nat
  <2>1. PICK i \in DOMAIN content[f].parts : index[f][k].text \in Seq(Place(i))
    BY IndexHolds DEF Placed
  <2> QED
    BY <2>1
<1> DEFINE h == Hit(p, score)
<1>9. h = [chunk |-> <<f, k>>, tenant |-> TenantOf[f], score |-> score,
           suspicious |-> index[f][k].suspicious, size |-> HeaderChars + Len(index[f][k].text)]
  BY <1>2, <1>3 DEF Hit
<1>10. HeaderChars + Len(index[f][k].text) \in Nat
  BY <1>8, ProvenanceAssumption
<1> HIDE DEF h
<1>11. h \in Sound(r)
  BY <1>4, <1>6, <1>7, <1>9, <1>10 DEF Sound
<1> QED
  BY <1>11 DEF h

\* A sweep finds what the request may see, at most as much as it asked for.
LEMMA FoundIsSound ==
    ASSUME WorkInv, NEW r, IsFiniteSet(Visible(r)), NEW limit \in Nat, NEW more \in Found(r, limit)
    PROVE  more \in Seq(Sound(r)) /\ Len(more) <= limit
<1> DEFINE best == Min({limit, Cardinality(Visible(r))})
<1>1. best \in Nat /\ best <= limit
  <2>1. Cardinality(Visible(r)) \in Nat
    BY FS_CardinalityType
  <2>2. limit \in Int /\ Cardinality(Visible(r)) \in Int
    BY <2>1
  <2>3. best \in {limit, Cardinality(Visible(r))} /\ best <= limit
    BY <2>2, MinOfTwo
  <2> QED
    BY <2>1, <2>3
<1> DEFINE Orders == Injection(1..best, Visible(r))
           Scorings == Falling(best)
<1>a. Found(r, limit) = {HitsOf(order, score) : order \in Orders, score \in Scorings}
  BY DEF Found
<1> HIDE DEF Orders, Scorings
<1>b. PICK order \in Orders : \E score \in Scorings : more = HitsOf(order, score)
  BY <1>a
<1>c. PICK score \in Scorings : more = HitsOf(order, score)
  BY <1>b
<1>2. /\ order \in Injection(1..best, Visible(r)) /\ score \in Falling(best)
      /\ more = HitsOf(order, score)
  BY <1>c DEF Orders, Scorings
<1> HIDE DEF best
<1>3. order \in [1..best -> Visible(r)]
  BY <1>2 DEF Injection
<1>4. \A i \in 1..best : order[i] \in Visible(r) /\ score[i] \in Scores
  BY <1>2, <1>3 DEF Falling
<1>5. more \in [1..best -> Sound(r)]
  <2>1. \A i \in 1..best : Hit(order[i], score[i]) \in Sound(r)
    BY <1>4, VisibleIsSound
  <2> QED
    BY <1>2, <1>3, <2>1 DEF HitsOf
<1>6. more \in Seq(Sound(r)) /\ Len(more) = best
  BY <1>1, <1>5, SeqOfFunction
<1> QED
  BY <1>1, <1>6
----------------------------------------------------------------------------
(* What a request promises, whatever it is shown                            *)

\* A request is a record with these fields.
Shaped(a) == a \in [at : {a.at}, kind : {a.kind}, scope : {a.scope}, sweeps : {a.sweeps},
                    hits : {a.hits}, shown : {a.shown}, markers : {a.markers},
                    content : {a.content}, model : {a.model}, reply : {a.reply}]

\* What one request has promised so far, whatever it is shown and answers.
Promised(a) ==
    /\ \A c \in a.reply.citations : /\ c.number \in DOMAIN a.shown
                                    /\ a.shown[c.number].chunk = c.chunk
    /\ a.reply.content \in {"clean", "withheld"}
    /\ a.reply.content = "withheld" => a.reply.citations = {} /\ ~a.reply.cached

\* Why it keeps its promises: there is no reply before the request is done, and when the answer is
\* checked the model has seen exactly what the context is built from once more.
Honest(a) ==
    /\ Shaped(a)
    /\ Promised(a)
    /\ a.at # "done" => a.reply = NoReply
    /\ a.at = "cite" => a.shown = Shown(a.hits, Budget[a.kind])

AskInv == /\ DOMAIN ask = Asks
          /\ ask = [r \in Asks |-> ask[r]]
          /\ \A r \in Asks : Honest(ask[r])

----------------------------------------------------------------------------
\* A request that has not begun.
LEMMA NoAskHonest == Honest(NoAsk)
BY DEF Honest, Shaped, Promised, NoAsk, NoReply

\* A request that ends without an answer promises nothing.
LEMMA EndsHonest ==
    ASSUME NEW r
    PROVE  Honest(Degraded(r)) /\ Honest(NoContext(r))
BY DEF Honest, Shaped, Promised, Degraded, NoContext, NoAsk, NoReply

\* A step that takes a request on, and neither ends it nor checks its answer.
LEMMA GoesOnHonest ==
    ASSUME NEW a, Honest(a), a.at # "done",
           NEW at, at \notin {"done", "cite"}, NEW sweeps, NEW hits
    PROVE  /\ Honest([a EXCEPT !.at = at, !.sweeps = sweeps, !.hits = hits])
           /\ Honest([a EXCEPT !.at = at])
BY DEF Honest, Shaped, Promised, NoReply

\* A step of one request concerns that request.
LEMMA MoveKeeps ==
    ASSUME AskInv, NEW r \in Asks, NEW a, Honest(a), Moves(r, a)
    PROVE  AskInv'
BY DEF AskInv, Moves

----------------------------------------------------------------------------
\* Search shows nothing to a model.
LEMMA SearchKeeps ==
    ASSUME AskInv, NEW r \in Asks, Search(r)
    PROVE  AskInv'
<1>1. Honest(ask[r]) /\ ask[r].at = "search" /\ Shaped(ask[r])
  BY DEF AskInv, Honest, Search
<1>2. ASSUME NEW sweeps, NEW hits, Moves(r, [ask[r] EXCEPT !.sweeps = sweeps, !.hits = hits])
      PROVE  AskInv'
  <2>1. [ask[r] EXCEPT !.sweeps = sweeps, !.hits = hits]
          = [ask[r] EXCEPT !.at = "search", !.sweeps = sweeps, !.hits = hits]
    BY <1>1 DEF Shaped
  <2> QED
    BY <1>1, <1>2, <2>1, GoesOnHonest, MoveKeeps
<1>3. ASSUME NEW at \in {"write", "analyze"}, NEW sweeps, NEW hits,
             Moves(r, [ask[r] EXCEPT !.at = at, !.sweeps = sweeps, !.hits = hits])
      PROVE  AskInv'
  <2>1. Honest([ask[r] EXCEPT !.at = at, !.sweeps = sweeps, !.hits = hits])
    BY <1>1, GoesOnHonest
  <2> QED
    BY <1>3, <2>1, MoveKeeps
<1>4. ASSUME Moves(r, NoContext(r)) \/ Moves(r, Degraded(r)) PROVE AskInv'
  BY <1>4, EndsHonest, MoveKeeps
<1>5. \/ \E sweeps, hits : Moves(r, [ask[r] EXCEPT !.sweeps = sweeps, !.hits = hits])
      \/ Moves(r, NoContext(r)) \/ Moves(r, Degraded(r))
      \/ \E at \in {"write", "analyze"} : \E sweeps, hits :
           Moves(r, [ask[r] EXCEPT !.at = at, !.sweeps = sweeps, !.hits = hits])
  BY Zenon DEF Search
<1> QED
  BY <1>2, <1>3, <1>4, <1>5

\* Writing: the model is shown the context.
LEMMA WriteKeeps ==
    ASSUME AskInv, NEW r \in Asks, Write(r)
    PROVE  AskInv'
<1>1. Honest(ask[r]) /\ ask[r].at = "write"
  BY DEF AskInv, Write
<1>2. ASSUME NEW markers, NEW text, NEW model,
             Moves(r, [ask[r] EXCEPT !.at = "cite", !.shown = Context(r), !.markers = markers,
                                     !.content = text, !.model = model])
      PROVE  AskInv'
  <2> DEFINE b == [ask[r] EXCEPT !.at = "cite", !.shown = Context(r), !.markers = markers,
                                 !.content = text, !.model = model]
  <2>1. /\ Shaped(b) /\ b.at = "cite" /\ b.shown = Context(r)
        /\ b.hits = ask[r].hits /\ b.kind = ask[r].kind /\ b.reply = NoReply
    BY <1>1 DEF Honest, Shaped
  <2> HIDE DEF b
  <2>2. Promised(b)
    BY <2>1 DEF Promised, NoReply
  <2>3. Honest(b)
    BY <2>1, <2>2 DEF Honest, Context
  <2> USE DEF b
  <2> QED
    BY <1>2, <2>3, MoveKeeps
<1>3. \/ Moves(r, Degraded(r))
      \/ \E markers, text, model :
           Moves(r, [ask[r] EXCEPT !.at = "cite", !.shown = Context(r), !.markers = markers,
                                   !.content = text, !.model = model])
  BY Zenon DEF Write
<1> QED
  BY <1>2, <1>3, EndsHonest, MoveKeeps

\* The check of an answer: a citation is a place in the context, and the context is what was shown.
LEMMA CiteKeeps ==
    ASSUME AskInv, NEW r \in Asks, Cite(r)
    PROVE  AskInv'
<1> DEFINE a == ask[r]
           context == CitedContext(r)
           answer == Guarded(Cleaned(a.markers, context), a.content)
           citations == Cited(r, answer, Citations(a.markers, context, AskTenant[r]))
<1>1. Honest(a) /\ a.at = "cite"
  BY DEF AskInv, Cite
<1>2. a.shown = context
  BY <1>1 DEF Honest, CitedContext, Context
<1>3. answer.content \in {"clean", "withheld"}
  BY DEF Guarded
<1>4. answer.content = "withheld" => citations = {}
  BY DEF Cited
<1>5. ASSUME NEW c \in citations PROVE c.number \in DOMAIN a.shown /\ a.shown[c.number].chunk = c.chunk
  <2>1. c \in Citations(a.markers, context, AskTenant[r])
    BY DEF Cited
  <2> QED
    BY <1>2, <2>1 DEF Citations
<1>6. ASSUME NEW confidence,
             Moves(r, [NoAsk EXCEPT
               !.at = "done", !.kind = a.kind, !.scope = a.scope, !.shown = a.shown,
               !.reply = [how |-> "answer", markers |-> answer.markers, content |-> answer.content,
                          citations |-> citations, model |-> a.model, confidence |-> confidence,
                          cached |-> a.kind = "chat" /\ citations # {}]])
      PROVE  AskInv'
  <2> HIDE DEF citations, answer
  <2> DEFINE b == [NoAsk EXCEPT
               !.at = "done", !.kind = a.kind, !.scope = a.scope, !.shown = a.shown,
               !.reply = [how |-> "answer", markers |-> answer.markers, content |-> answer.content,
                          citations |-> citations, model |-> a.model, confidence |-> confidence,
                          cached |-> a.kind = "chat" /\ citations # {}]]
  <2>1. Shaped(b) /\ b.at = "done" /\ b.shown = a.shown /\ b.reply.content = answer.content
        /\ b.reply.citations = citations
    BY DEF Shaped, NoAsk
  <2>2. b.reply.cached => citations # {}
    BY DEF NoAsk
  <2> HIDE DEF b
  <2>3. Honest(b)
    BY <1>3, <1>4, <1>5, <2>1, <2>2 DEF Honest, Promised
  <2> USE DEF b
  <2> QED
    BY <1>6, <2>3, MoveKeeps
<1>7. \E confidence :
        Moves(r, [NoAsk EXCEPT
          !.at = "done", !.kind = a.kind, !.scope = a.scope, !.shown = a.shown,
          !.reply = [how |-> "answer", markers |-> answer.markers, content |-> answer.content,
                     citations |-> citations, model |-> a.model, confidence |-> confidence,
                     cached |-> a.kind = "chat" /\ citations # {}]])
  BY Zenon DEF Cite
<1> QED
  BY <1>6, <1>7

\* Every step of the system.
LEMMA AskSteps == AskInv /\ [Next]_vars => AskInv'
<1> SUFFICES ASSUME AskInv, [Next]_vars PROVE AskInv'
  OBVIOUS
<1>1. ASSUME UNCHANGED ask PROVE AskInv'
  BY <1>1 DEF AskInv
<1>2. ASSUME NEW f \in Files, Ingest(f) \/ JobStops(f) PROVE AskInv'
  BY <1>1, <1>2 DEF Ingest, Extract, DescribeImage, StartTranscription, Poll, Chunk, EmbedBatch,
                    Upsert, CleanUp, JobStops
<1>3. ASSUME NEW r \in Asks, Ask(r) PROVE AskInv'
  <2>1. PICK kind, scope, queries :
          Moves(r, [NoAsk EXCEPT !.at = "embed", !.kind = kind, !.scope = scope, !.sweeps = queries])
    BY <1>3, Zenon DEF Ask
  <2>2. Honest([NoAsk EXCEPT !.at = "embed", !.kind = kind, !.scope = scope, !.sweeps = queries])
    BY DEF Honest, Shaped, Promised, NoAsk, NoReply
  <2> QED
    BY <2>1, <2>2, MoveKeeps
<1>4. ASSUME NEW r \in Asks, EmbedQuestion(r) PROVE AskInv'
  <2>1. Honest(ask[r]) /\ ask[r].at = "embed"
    BY <1>4 DEF AskInv, EmbedQuestion
  <2>2. \/ Moves(r, Degraded(r))
        \/ \E sweeps : Moves(r, [ask[r] EXCEPT !.at = "search", !.sweeps = sweeps])
    BY <1>4, Zenon DEF EmbedQuestion
  <2>3. ASSUME NEW sweeps PROVE Honest([ask[r] EXCEPT !.at = "search", !.sweeps = sweeps])
    BY <2>1 DEF Honest, Shaped, Promised, NoReply
  <2> QED
    BY <2>2, <2>3, EndsHonest, MoveKeeps
<1>5. ASSUME NEW r \in Asks, Analyze(r) PROVE AskInv'
  <2>1. Honest(ask[r]) /\ ask[r].at = "analyze"
    BY <1>5 DEF AskInv, Analyze
  <2>2. Moves(r, Degraded(r)) \/ Moves(r, [ask[r] EXCEPT !.at = "write"])
    BY <1>5, Zenon DEF Analyze
  <2> QED
    BY <2>1, <2>2, GoesOnHonest, EndsHonest, MoveKeeps
<1>6. ASSUME NEW r \in Asks, TimeOut(r) PROVE AskInv'
  BY <1>6, EndsHonest, MoveKeeps DEF TimeOut
<1>7. CASE UNCHANGED vars
  BY <1>1, <1>7 DEF vars
<1> QED
  BY <1>2, <1>3, <1>4, <1>5, <1>6, <1>7, SearchKeeps, WriteKeeps, CiteKeeps DEF Next, Answer

\* The promise holds always.
LEMMA AskHolds == Spec => []AskInv
<1>1. Init => AskInv
  BY NoAskHonest DEF Init, AskInv
<1> QED
  BY <1>1, AskSteps, PTL DEF Spec
----------------------------------------------------------------------------
(* What a request is shown                                                  *)

Grounded(a, sound) ==
    /\ a.at \in {"idle", "embed", "search", "analyze", "write", "cite", "done"}
    /\ a.hits \in Seq(sound) /\ a.shown \in Seq(sound)
    /\ Len(a.hits) <= TopK
    /\ \A i \in DOMAIN a.shown : a.shown[i].score >= Threshold
    /\ a.at \in {"analyze", "write", "cite"} => \A i \in DOMAIN a.hits : a.hits[i].score >= Threshold
    /\ a.at \in {"embed", "search"} => /\ a.sweeps \in {1, 2}
                                       /\ a.sweeps = 2 => a.hits = <<>> /\ a.kind # "chat"
    /\ a.at = "embed" => a.hits = <<>>
    /\ a.at = "cite" => IsFiniteSet(a.markers)
    /\ a.reply.confidence \in 0..100
    /\ \A m \in a.reply.markers : ~m.padded => \E c \in a.reply.citations : c.number = m.number

RequestInv == \A r \in Asks : Grounded(ask[r], Sound(r))

\* More hits that are allowed do no harm.
LEMMA GroundedGrows ==
    ASSUME NEW a, NEW sound, NEW more, sound \subseteq more, Grounded(a, sound)
    PROVE  Grounded(a, more)
<1>1. \A s \in Seq(sound) : s \in Seq(more)
  OBVIOUS
<1>2. a.hits \in Seq(more) /\ a.shown \in Seq(more)
  BY <1>1 DEF Grounded
<1> QED
  BY <1>2 DEF Grounded

\* Without sources nothing is claimed of them.
LEMMA NothingGrounded ==
    ASSUME NEW a, a.at \in {"idle", "embed", "done"}, a.hits = <<>>, a.shown = <<>>,
           a.reply.confidence = 0, a.reply.markers = {},
           a.at = "embed" => a.sweeps \in {1, 2} /\ (a.sweeps = 2 => a.kind # "chat")
    PROVE  Grounded(a, {})
<1>1. a.hits \in Seq({}) /\ a.shown \in Seq({}) /\ Len(a.hits) <= TopK
  BY GroundingAssumption
<1> QED
  BY <1>1 DEF Grounded

\* A request that is idle, ends without sources or is cut short.
LEMMA EndsGrounded ==
    ASSUME NEW r
    PROVE  Grounded(NoAsk, {}) /\ Grounded(Degraded(r), {}) /\ Grounded(NoContext(r), {})
<1>1. Grounded(NoAsk, {})
  <2>1. /\ NoAsk.at = "idle" /\ NoAsk.hits = <<>> /\ NoAsk.shown = <<>>
        /\ NoAsk.reply.confidence = 0 /\ NoAsk.reply.markers = {}
    BY DEF NoAsk, NoReply
  <2> QED
    BY <2>1, NothingGrounded
<1>2. Grounded(Degraded(r), {})
  <2>1. /\ Degraded(r).at = "done" /\ Degraded(r).hits = <<>> /\ Degraded(r).shown = <<>>
        /\ Degraded(r).reply.confidence = 0 /\ Degraded(r).reply.markers = {}
    BY DEF NoAsk, NoReply, Degraded
  <2> QED
    BY <2>1, NothingGrounded
<1>3. Grounded(NoContext(r), {})
  <2>1. /\ NoContext(r).at = "done" /\ NoContext(r).hits = <<>> /\ NoContext(r).shown = <<>>
        /\ NoContext(r).reply.confidence = 0 /\ NoContext(r).reply.markers = {}
    BY DEF NoAsk, NoReply, NoContext
  <2> QED
    BY <2>1, NothingGrounded
<1> QED
  BY <1>1, <1>2, <1>3

\* What a request may be shown depends on its own selection.
LEMMA SoundStays ==
    ASSUME NEW r, ask'[r].scope = ask[r].scope
    PROVE  Sound(r)' = Sound(r)
BY DEF Sound

\* A step of one request that keeps its documents, and one that lets go of what was found.
LEMMA MoveGrounds ==
    ASSUME AskInv, RequestInv, NEW r \in Asks, UNCHANGED ingestion, NEW a, Moves(r, a),
           \/ a.scope = ask[r].scope /\ Grounded(a, Sound(r))
           \/ Grounded(a, {})
    PROVE  RequestInv'
<1>1. ASSUME NEW q \in Asks, q # r PROVE Grounded(ask'[q], Sound(q)')
  <2>1. ask'[q] = ask[q]
    BY <1>1 DEF AskInv, Moves
  <2>2. Sound(q)' = Sound(q)
    BY <2>1, SoundStays
  <2> QED
    BY <2>1, <2>2 DEF RequestInv
<1>2. Grounded(ask'[r], Sound(r)')
  <2>1. ask'[r] = a
    BY DEF AskInv, Moves
  <2>2. CASE a.scope = ask[r].scope /\ Grounded(a, Sound(r))
    <3>1. Sound(r)' = Sound(r)
      BY <2>1, <2>2, SoundStays
    <3> QED
      BY <2>1, <2>2, <3>1
  <2>3. CASE Grounded(a, {})
    <3>1. Grounded(a, Sound(r)')
      BY <2>3, GroundedGrows
    <3> QED
      BY <2>1, <3>1
  <2> QED
    BY <2>2, <2>3
<1> QED
  BY <1>1, <1>2 DEF RequestInv

----------------------------------------------------------------------------
\* There are finitely many points, so that they can be counted.
LEMMA VisibleIsFinite ==
    ASSUME WorkInv, NEW r
    PROVE  IsFiniteSet(Visible(r))
<1> DEFINE Of(f) == {<<f, k>> : k \in DOMAIN index[f]}
           family == {Of(f) : f \in Files}
           each == [f \in Files |-> Of(f)]
<1>1. ASSUME NEW f \in Files PROVE IsFiniteSet(Of(f))
  <2>1. PICK n \in Nat : DOMAIN index[f] \subseteq 1..n
    <3>1. Landed(index[f], content[f]) /\ content[f] \in Contained
      BY DEF WorkInv, Task
    <3> QED
      BY <3>1, ChunksAre DEF Landed
  <2>2. IsFiniteSet(1..n) /\ IsFiniteSet({f})
    <3>1. 1 \in Int /\ n \in Int
      OBVIOUS
    <3>2. IsFiniteSet(1..n)
      BY <3>1, FS_Interval
    <3>3. IsFiniteSet({f})
      BY FS_Singleton
    <3> QED
      BY <3>2, <3>3
  <2>3. IsFiniteSet({f} \X (1..n))
    BY <2>2, FS_Product
  <2>4. Of(f) \in SUBSET ({f} \X (1..n))
    BY <2>1
  <2> QED
    BY <2>3, <2>4, FS_Subset
<1> HIDE DEF Of
<1>2. each \in Surjection(Files, family)
  BY DEF Surjection
<1>3. IsFiniteSet(family)
  BY <1>2, FS_Surjection, ProvenanceAssumption
<1>4. \A T \in family : IsFiniteSet(T)
  BY <1>1
<1> HIDE DEF family
<1>5. IsFiniteSet(UNION family)
  BY <1>3, <1>4, FS_UNION
<1>6. Points = UNION family
  BY DEF Points, family, Of
<1>7. Visible(r) \in SUBSET Points
  BY DEF Visible
<1> QED
  BY <1>5, <1>6, <1>7, FS_Subset

\* Every hit has a score in percent and is of the tenant that asks.
LEMMA SoundHits ==
    ASSUME NEW r, NEW h \in Sound(r)
    PROVE  h.score \in Int /\ h.tenant = AskTenant[r]
<1>1. h.score \in Scores /\ h.tenant = AskTenant[r]
  BY DEF Sound
<1>2. \A score \in Scores : score \in Int
  BY ProvenanceAssumption
<1> QED
  BY <1>1, <1>2, Zenon

\* A request as both invariants describe it.
LEMMA GroundedAsk ==
    ASSUME AskInv, RequestInv, NEW r \in Asks
    PROVE  Shaped(ask[r]) /\ Grounded(ask[r], Sound(r)) /\ (ask[r].at # "done" => ask[r].reply = NoReply)
BY DEF AskInv, RequestInv, Honest

\* A request begins with no hits; a second sweep is a workflow's.
LEMMA AskGrounds ==
    ASSUME AskInv, RequestInv, NEW r \in Asks, Ask(r)
    PROVE  RequestInv'
<1>1. PICK kind \in {"chat", "agent"} : \E scope \in Scopes :
             \E queries \in IF kind = "chat" THEN {1} ELSE {1, 2} :
               Moves(r, [NoAsk EXCEPT !.at = "embed", !.kind = kind, !.scope = scope, !.sweeps = queries])
  BY Zenon DEF Ask
<1>2. PICK scope \in Scopes : \E queries \in IF kind = "chat" THEN {1} ELSE {1, 2} :
               Moves(r, [NoAsk EXCEPT !.at = "embed", !.kind = kind, !.scope = scope, !.sweeps = queries])
  BY <1>1
<1>3. PICK queries \in IF kind = "chat" THEN {1} ELSE {1, 2} :
               Moves(r, [NoAsk EXCEPT !.at = "embed", !.kind = kind, !.scope = scope, !.sweeps = queries])
  BY <1>2
<1> DEFINE b == [NoAsk EXCEPT !.at = "embed", !.kind = kind, !.scope = scope, !.sweeps = queries]
<1>4. /\ b.at = "embed" /\ b.hits = <<>> /\ b.shown = <<>> /\ b.reply.confidence = 0
      /\ b.reply.markers = {} /\ b.sweeps = queries /\ b.kind = kind
  BY DEF NoAsk, NoReply
<1>5. queries \in {1, 2} /\ (queries = 2 => kind # "chat")
  OBVIOUS
<1>6. UNCHANGED ingestion
  BY Zenon DEF Ask
<1>7. Moves(r, b)
  BY <1>3
<1> HIDE DEF b
<1>8. Grounded(b, {})
  BY <1>4, <1>5, NothingGrounded
<1> QED
  BY <1>6, <1>7, <1>8, MoveGrounds

\* Embedding leaves at most as many sweeps as there were queries.
LEMMA EmbedGrounds ==
    ASSUME AskInv, WorkInv, RequestInv, NEW r \in Asks, EmbedQuestion(r)
    PROVE  RequestInv'
<1> DEFINE a == ask[r]
<1>1. a.at = "embed" /\ UNCHANGED ingestion
  BY Zenon DEF EmbedQuestion
<1>2. PICK o \in EmbedOutcomes(a.sweeps) :
        Moves(r, IF o.vectors = 0 THEN Degraded(r) ELSE [a EXCEPT !.at = "search", !.sweeps = o.vectors])
  BY Zenon DEF EmbedQuestion
<1>3. Shaped(a) /\ Grounded(a, Sound(r))
  BY GroundedAsk
<1> HIDE DEF a
<1>4. a.sweeps \in {1, 2} /\ a.sweeps \in Nat /\ (a.sweeps = 2 => a.hits = <<>> /\ a.kind # "chat")
  BY <1>1, <1>3 DEF Grounded
<1>5. o.vectors \in 0..a.sweeps
  BY <1>4, EmbedOutcome DEF WorkInv
<1>6. CASE o.vectors = 0
  <2>1. Moves(r, Degraded(r))
    BY <1>2, <1>6
  <2> QED
    BY <1>1, <2>1, EndsGrounded, MoveGrounds
<1>7. CASE o.vectors # 0
  <2> DEFINE n == o.vectors
             b == [a EXCEPT !.at = "search", !.sweeps = n]
  <2>1. n \in {1, 2} /\ (n = 2 => a.sweeps = 2)
    BY <1>4, <1>5, <1>7
  <2>2. Moves(r, b)
    BY <1>2, <1>7
  <2> HIDE DEF n
  <2>3. /\ b.at = "search" /\ b.sweeps = n /\ b.hits = a.hits /\ b.shown = a.shown
        /\ b.kind = a.kind /\ b.reply = a.reply /\ b.scope = a.scope
    BY <1>3 DEF Shaped
  <2> HIDE DEF b
  <2>4. Grounded(b, Sound(r))
    BY <1>3, <1>4, <2>1, <2>3 DEF Grounded
  <2>5. b.scope = ask[r].scope
    BY <2>3 DEF a
  <2> QED
    BY <1>1, <2>2, <2>4, <2>5, MoveGrounds
<1> QED
  BY <1>6, <1>7

\* A sweep of a workflow that is not the last finds TopK at most; after the last one the threshold
\* and the reranking leave TopK at most, all of them above the threshold.
LEMMA SearchGrounds ==
    ASSUME AskInv, WorkInv, RequestInv, NEW r \in Asks, Search(r)
    PROVE  RequestInv'
<1> DEFINE a == ask[r]
           all(more) == Collected(a.hits, more)
           Best(more) == Relevant(all(more))
           After(at, hits) == [a EXCEPT !.at = at, !.sweeps = 0, !.hits = hits]
           sound == Sound(r)
<1>1. a.at = "search" /\ UNCHANGED ingestion
  BY Zenon DEF Search
<1>2. \/ \E more \in Found(r, Limit(a.kind)) :
           \/ a.sweeps > 1 /\ Moves(r, [a EXCEPT !.sweeps = @ - 1, !.hits = all(more)])
           \/ Moves(r, NoContext(r))
           \/ \E lex \in LexicalScores(Best(more)) :
                Moves(r, After(IF a.kind = "chat" THEN "write" ELSE "analyze", Rerank(Best(more), lex)))
      \/ Moves(r, Degraded(r))
  BY Zenon DEF Search
<1>3. Shaped(a) /\ Grounded(a, sound) /\ IsFiniteSet(Visible(r))
  BY GroundedAsk, VisibleIsFinite
<1> HIDE DEF a
<1>4. Limit(a.kind) \in Nat /\ TopK \in Nat
  BY GroundingAssumption DEF Limit
<1>5. CASE Moves(r, NoContext(r)) \/ Moves(r, Degraded(r))
  BY <1>1, <1>5, EndsGrounded, MoveGrounds
<1>6. ASSUME NEW more \in Found(r, Limit(a.kind))
      PROVE  /\ more \in Seq(sound) /\ Len(more) <= Limit(a.kind) /\ all(more) \in Seq(sound)
             /\ a.hits = <<>> => Len(all(more)) <= Len(more)
             /\ Len(more) \in Nat /\ Len(all(more)) \in Nat
  <2>1. more \in Seq(sound) /\ Len(more) <= Limit(a.kind)
    BY <1>3, <1>4, FoundIsSound
  <2>2. a.hits \in Seq(sound)
    BY <1>3 DEF Grounded
  <2>3. all(more) \in Seq(sound) /\ (a.hits = <<>> => Len(all(more)) <= Len(more))
    BY <2>1, <2>2, CollectedKeeps
  <2> HIDE DEF all
  <2> QED
    BY <2>1, <2>3
<1> HIDE DEF all
<1>7. ASSUME NEW more \in Found(r, Limit(a.kind)), a.sweeps > 1,
             Moves(r, [a EXCEPT !.sweeps = @ - 1, !.hits = all(more)])
      PROVE  RequestInv'
  <2> DEFINE b == [a EXCEPT !.sweeps = @ - 1, !.hits = all(more)]
  <2>1. a.sweeps = 2 /\ a.hits = <<>> /\ a.kind # "chat"
    BY <1>1, <1>3, <1>7 DEF Grounded
  <2>2. all(more) \in Seq(sound) /\ Len(all(more)) <= TopK
    BY <1>4, <1>6, <2>1 DEF Limit
  <2>3. /\ b.at = "search" /\ b.sweeps = 1 /\ b.hits = all(more) /\ b.shown = a.shown
        /\ b.reply = a.reply /\ b.scope = a.scope
    BY <1>1, <1>3, <2>1 DEF Shaped
  <2>4. Moves(r, b)
    BY <1>7
  <2> HIDE DEF b, sound
  <2>5. Grounded(b, sound)
    BY <1>3, <2>2, <2>3 DEF Grounded
  <2>6. b.scope = ask[r].scope /\ Grounded(b, Sound(r))
    BY <2>3, <2>5 DEF a, sound
  <2> QED
    BY <1>1, <2>4, <2>6, MoveGrounds
<1>8. ASSUME NEW more \in Found(r, Limit(a.kind)), NEW lex \in LexicalScores(Best(more)),
             NEW at \in {"write", "analyze"}, Moves(r, After(at, Rerank(Best(more), lex)))
      PROVE  RequestInv'
  <2> DEFINE hits == Best(more)
             ranked == Rerank(hits, lex)
             b == After(at, ranked)
  <2>1. hits \in Seq(sound) /\ \A x \in Range(hits) : x.score >= Threshold
    BY <1>6, RelevantKeeps
  <2>2. lex \in [DOMAIN hits -> Lexical]
    BY DEF LexicalScores
  <2> HIDE DEF hits, sound
  <2>3. \A i \in DOMAIN hits : hits[i].score \in Int
    <3>1. \A i \in DOMAIN hits : hits[i] \in sound
      BY <2>1
    <3> QED
      BY <3>1, SoundHits DEF sound
  <2>4. /\ ranked \in Seq(sound) /\ Len(ranked) <= TopK
        /\ \A i \in DOMAIN ranked : ranked[i] \in Range(hits)
    BY <2>1, <2>2, <2>3, RerankKeeps
  <2> HIDE DEF ranked
  <2>5. \A i \in DOMAIN ranked : ranked[i].score >= Threshold
    BY <2>1, <2>4
  <2>6. /\ b.at = at /\ b.sweeps = 0 /\ b.hits = ranked /\ b.shown = a.shown
        /\ b.reply = a.reply /\ b.scope = a.scope
    BY <1>3 DEF Shaped
  <2>7. Moves(r, b)
    BY <1>8 DEF ranked, hits
  <2> HIDE DEF b
  <2>8. Grounded(b, sound)
    BY <1>3, <2>4, <2>5, <2>6 DEF Grounded
  <2>9. b.scope = ask[r].scope /\ Grounded(b, Sound(r))
    BY <2>6, <2>8 DEF a, sound
  <2> QED
    BY <1>1, <2>7, <2>9, MoveGrounds
<1> HIDE DEF Best, After
<1> QED
  BY <1>2, <1>5, <1>7, <1>8

\* Analyzing.
LEMMA AnalyzeGrounds ==
    ASSUME AskInv, RequestInv, NEW r \in Asks, Analyze(r)
    PROVE  RequestInv'
<1> DEFINE a == ask[r]
           b == [a EXCEPT !.at = "write"]
<1>1. a.at = "analyze" /\ UNCHANGED ingestion /\ (Moves(r, Degraded(r)) \/ Moves(r, b))
  BY Zenon DEF Analyze
<1>2. Shaped(a) /\ Grounded(a, Sound(r))
  BY GroundedAsk
<1> HIDE DEF a
<1>3. /\ b.at = "write" /\ b.hits = a.hits /\ b.shown = a.shown /\ b.reply = a.reply
      /\ b.scope = a.scope
  BY <1>2 DEF Shaped
<1> HIDE DEF b
<1>4. Grounded(b, Sound(r))
  BY <1>1, <1>2, <1>3 DEF Grounded
<1>5. b.scope = ask[r].scope
  BY <1>3 DEF a
<1> QED
  BY <1>1, <1>4, <1>5, EndsGrounded, MoveGrounds

\* The time limit of a workflow.
LEMMA TimeOutGrounds ==
    ASSUME AskInv, RequestInv, NEW r \in Asks, TimeOut(r)
    PROVE  RequestInv'
<1>1. Moves(r, Degraded(r)) /\ UNCHANGED ingestion
  BY Zenon DEF TimeOut
<1> QED
  BY <1>1, EndsGrounded, MoveGrounds

\* Writing: the sources shown are the first of the hits.
LEMMA WriteGrounds ==
    ASSUME AskInv, WorkInv, RequestInv, NEW r \in Asks, Write(r)
    PROVE  RequestInv'
<1> DEFINE a == ask[r]
           sound == Sound(r)
           After(markers, text, model) ==
             [a EXCEPT !.at = "cite", !.shown = Context(r), !.markers = markers,
                       !.content = text, !.model = model]
<1>1. a.at = "write" /\ UNCHANGED ingestion
  BY Zenon DEF Write
<1>2. \/ Moves(r, Degraded(r))
      \/ \E markers \in Written(r) : \E text, model : Moves(r, After(markers, text, model))
  BY Zenon DEF Write
<1>3. Shaped(a) /\ Grounded(a, sound) /\ a.reply = NoReply
  BY <1>1, GroundedAsk
<1> HIDE DEF sound
<1>4. Context(r) \in Seq(sound) /\ \A i \in DOMAIN Context(r) : Context(r)[i].score >= Threshold
  <2>1. a.hits \in Seq(sound) /\ \A i \in DOMAIN a.hits : a.hits[i].score >= Threshold
    BY <1>1, <1>3 DEF Grounded
  <2>2. Context(r) = Shown(a.hits, Budget[a.kind])
    BY DEF Context
  <2> DEFINE hits == a.hits
             budget == Budget[a.kind]
  <2> HIDE DEF a, hits, budget
  <2>3. hits \in Seq(sound) /\ (\A i \in DOMAIN hits : hits[i].score >= Threshold)
        /\ Context(r) = Shown(hits, budget)
    BY <2>1, <2>2 DEF hits, budget
  <2>4. Context(r) \in Seq(sound) /\ \A i \in DOMAIN Context(r) : Context(r)[i] \in Range(hits)
    BY <2>3, ShownIsPrefix
  <2>5. \A x \in Range(hits) : x.score >= Threshold
    BY <2>3 DEF Range
  <2> QED
    BY <2>4, <2>5
<1>5. ASSUME NEW markers \in Written(r) PROVE IsFiniteSet(markers)
  <2>1. CASE ~Local
    BY <2>1, ProvenanceAssumption DEF Written
  <2>2. CASE Local
    <3>1. PICK quoted \in SUBSET DOMAIN Context(r) :
            markers = {[number |-> n, padded |-> FALSE] : n \in quoted}
      BY <2>2 DEF Written
    <3>2. DOMAIN Context(r) = 1..Len(Context(r)) /\ Len(Context(r)) \in Int /\ 1 \in Int
      BY <1>4
    <3>3. IsFiniteSet(DOMAIN Context(r))
      BY <3>2, FS_Interval
    <3>4. IsFiniteSet(quoted)
      BY <3>1, <3>3, FS_Subset
    <3> DEFINE f == [n \in quoted |-> [number |-> n, padded |-> FALSE]]
    <3>5. f \in Surjection(quoted, markers)
      BY <3>1 DEF Surjection
    <3> HIDE DEF f
    <3> QED
      BY <3>4, <3>5, FS_Surjection
  <2> QED
    BY <2>1, <2>2
<1> HIDE DEF a
<1>6. ASSUME NEW markers \in Written(r), NEW text, NEW model, Moves(r, After(markers, text, model))
      PROVE  RequestInv'
  <2> DEFINE b == After(markers, text, model)
  <2>1. /\ b.at = "cite" /\ b.hits = a.hits /\ b.shown = Context(r) /\ b.reply = a.reply
        /\ b.scope = a.scope /\ b.markers = markers
    BY <1>3 DEF Shaped
  <2>2. Moves(r, b)
    BY <1>6
  <2> HIDE DEF b
  <2>3. Grounded(b, sound)
    BY <1>1, <1>3, <1>4, <1>5, <2>1 DEF Grounded
  <2>4. b.scope = ask[r].scope /\ Grounded(b, Sound(r))
    BY <2>1, <2>3 DEF a, sound
  <2> QED
    BY <1>1, <2>2, <2>4, MoveGrounds
<1> HIDE DEF After
<1> QED
  BY <1>1, <1>2, <1>6, EndsGrounded, MoveGrounds

\* Finitely many markers make finitely many citations.
LEMMA CitedIsFinite ==
    ASSUME NEW markers, IsFiniteSet(markers), NEW shown, NEW tenant
    PROVE  /\ IsFiniteSet(Citations(markers, shown, tenant))
           /\ Cardinality(Invented(markers, shown)) \in Nat
<1> DEFINE number == [m \in markers |-> m.number]
<1>1. number \in Surjection(markers, Numbers(markers))
  BY DEF Numbers, Surjection
<1> HIDE DEF number
<1>2. IsFiniteSet(Numbers(markers))
  BY <1>1, FS_Surjection
<1> DEFINE cited == {k \in Numbers(markers) \cap DOMAIN shown : shown[k].tenant = tenant}
           citation == [n \in cited |-> [number |-> n, chunk |-> shown[n].chunk]]
<1>3. IsFiniteSet(cited)
  BY <1>2, FS_Subset
<1>4. IsFiniteSet(Citations(markers, shown, tenant))
  <2> DEFINE all == Citations(markers, shown, tenant)
  <2>1. all = {[number |-> n, chunk |-> shown[n].chunk] : n \in cited}
    BY DEF Citations
  <2> HIDE DEF cited, all
  <2>2. citation \in Surjection(cited, all)
    BY <2>1 DEF Surjection
  <2> HIDE DEF citation
  <2>3. IsFiniteSet(all)
    BY <1>3, <2>2, FS_Surjection
  <2> QED
    BY <2>3 DEF all
<1>5. IsFiniteSet(Invented(markers, shown))
  BY <1>2, FS_Subset DEF Invented
<1> QED
  BY <1>4, <1>5, FS_CardinalityType

\* Checking the answer: a marker that is left is not invented, so it names a source, which is of
\* the tenant that asks, so it becomes a citation; an answer that is withheld has neither.
LEMMA CiteGrounds ==
    ASSUME AskInv, RequestInv, NEW r \in Asks, Cite(r)
    PROVE  RequestInv'
<1> DEFINE a == ask[r]
           sound == Sound(r)
           context == CitedContext(r)
           invented == Cardinality(Invented(a.markers, context))
           answer == Guarded(Cleaned(a.markers, context), a.content)
           found == Citations(a.markers, context, AskTenant[r])
           citations == Cited(r, answer, found)
           confidence == Confidence(a.hits, citations, invented)
           b == [NoAsk EXCEPT
                   !.at = "done", !.kind = a.kind, !.scope = a.scope, !.shown = a.shown,
                   !.reply = [how |-> "answer", markers |-> answer.markers, content |-> answer.content,
                              citations |-> citations, model |-> a.model,
                              confidence |-> IF a.kind = "agent" /\ answer.content = "withheld" THEN 0
                                             ELSE confidence,
                              cached |-> a.kind = "chat" /\ citations # {}]]
<1>1. a.at = "cite" /\ UNCHANGED ingestion /\ Moves(r, b)
  BY Zenon DEF Cite
<1>2. Grounded(a, sound)
  BY GroundedAsk
<1>3. a.shown = context
  BY <1>1 DEF AskInv, Honest, CitedContext, Context
<1> HIDE DEF a, context, sound
<1>4. /\ IsFiniteSet(a.markers) /\ a.hits \in Seq(sound) /\ a.shown \in Seq(sound)
      /\ \A i \in DOMAIN a.shown : a.shown[i].score >= Threshold
  BY <1>1, <1>2 DEF Grounded
<1>5. \A h \in sound : h.score \in Int /\ h.tenant = AskTenant[r]
  BY SoundHits DEF sound
<1>6. \A i \in DOMAIN context : context[i].tenant = AskTenant[r]
  <2>1. context \in Seq(sound)
    BY <1>3, <1>4
  <2>2. \A i \in DOMAIN context : context[i] \in sound
    BY <2>1
  <2> QED
    BY <1>5, <2>2
<1>7. citations = IF answer.content = "withheld" THEN {} ELSE found
  BY DEF Cited
<1> HIDE DEF answer, found, citations, invented
<1>8. ASSUME NEW m \in answer.markers, ~m.padded PROVE \E c \in citations : c.number = m.number
  <2>1. answer.content = "clean" /\ answer.markers = Cleaned(a.markers, context)
    BY DEF answer, Guarded
  <2>2. m \in a.markers /\ m.number \notin Invented(a.markers, context)
    BY <1>8, <2>1 DEF Cleaned
  <2> DEFINE n == m.number
  <2>3. n \in Numbers(a.markers) /\ n \in DOMAIN context
    BY <2>2 DEF Numbers, Invented
  <2> HIDE DEF n
  <2>4. [number |-> n, chunk |-> context[n].chunk] \in citations
    BY <1>6, <1>7, <2>1, <2>3 DEF found, Citations
  <2> QED
    BY <2>4 DEF n
<1>9. IsFiniteSet(citations) /\ invented \in Nat
  <2>1. IsFiniteSet(found) /\ invented \in Nat
    BY <1>4, CitedIsFinite DEF found, invented
  <2> QED
    BY <1>7, <2>1, FS_EmptySet
<1>10. confidence \in 0..100
  <2>1. \A i \in DOMAIN a.hits : a.hits[i].score \in Int
    <3>1. \A i \in DOMAIN a.hits : a.hits[i] \in sound
      BY <1>4
    <3> QED
      BY <1>5, <3>1
  <2> QED
    BY <1>4, <1>9, <2>1, ConfidenceIsPercent
<1> HIDE DEF confidence
<1>11. /\ b.at = "done" /\ b.hits = <<>> /\ b.shown = a.shown /\ b.scope = a.scope
       /\ b.reply.markers = answer.markers /\ b.reply.citations = citations
       /\ b.reply.confidence \in {0, confidence}
  BY DEF NoAsk
<1> HIDE DEF b
<1>12. b.hits \in Seq(sound) /\ Len(b.hits) <= TopK
  BY <1>11, GroundingAssumption
<1>13. b.reply.confidence \in 0..100
  <2>1. 0 \in 0..100
    OBVIOUS
  <2> QED
    BY <1>10, <1>11, <2>1, Zenon
<1>14. Grounded(b, sound)
  BY <1>4, <1>8, <1>11, <1>12, <1>13 DEF Grounded
<1>15. b.scope = ask[r].scope /\ Grounded(b, Sound(r))
  BY <1>11, <1>14 DEF a, sound
<1> QED
  BY <1>1, <1>15, MoveGrounds

----------------------------------------------------------------------------
\* A step of a task, while requests are under way: the hits they have keep their payloads.
LEMMA IngestGrounds ==
    ASSUME RequestInv, NEW f \in Files, Ingest(f) \/ JobStops(f)
    PROVE  RequestInv'
<1>1. UNCHANGED ask
  BY Zenon DEF Ingest, JobStops, Extract, DescribeImage, StartTranscription, Poll, Chunk, EmbedBatch,
               Upsert, CleanUp
<1>2. ASSUME NEW r \in Asks PROVE Grounded(ask'[r], Sound(r)')
  <2>1. Sound(r)' = Sound(r)
    BY <1>1, SoundStays
  <2> QED
    BY <1>1, <2>1 DEF RequestInv
<1> QED
  BY <1>2 DEF RequestInv

\* The beginning.
LEMMA InitProvenance == Init => WorkInv /\ AskInv /\ RequestInv
<1>1. Init => AskInv
  BY NoAskHonest DEF Init, AskInv
<1>2. ASSUME Init PROVE RequestInv
  <2>1. ASSUME NEW r \in Asks PROVE Grounded(ask[r], Sound(r))
    <3>1. ask[r] = NoAsk
      BY <1>2 DEF Init
    <3>2. Grounded(ask[r], {})
      BY <3>1, EndsGrounded
    <3> QED
      BY <3>2, GroundedGrows
  <2> QED
    BY <2>1 DEF RequestInv
<1> QED
  BY <1>1, <1>2, InitWork

\* Every step of the system keeps the three invariants together: a request that embeds has one text
\* or two.
LEMMA ProvenanceSteps ==
    WorkInv /\ AskInv /\ RequestInv /\ [Next]_vars => WorkInv' /\ AskInv' /\ RequestInv'
<1> SUFFICES ASSUME WorkInv, AskInv, RequestInv, [Next]_vars
             PROVE  WorkInv' /\ RequestInv'
  BY AskSteps
<1>1. ASSUME NEW f \in Files, Ingest(f) \/ JobStops(f) PROVE WorkInv' /\ RequestInv'
  BY <1>1, IngestKeeps, IngestGrounds
<1>2. ASSUME NEW r \in Asks, Ask(r) \/ Answer(r) \/ TimeOut(r) PROVE WorkInv' /\ RequestInv'
  <2>1. ask[r].at = "embed" => ask[r].sweeps \in Nat
    BY DEF RequestInv, Grounded
  <2>2. WorkInv'
    BY <1>2, <2>1, RequestKeeps
  <2>3. RequestInv'
    BY <1>2, AskGrounds, EmbedGrounds, SearchGrounds, AnalyzeGrounds, WriteGrounds, CiteGrounds,
       TimeOutGrounds DEF Answer
  <2> QED
    BY <2>2, <2>3
<1>3. CASE UNCHANGED vars
  <2>1. WorkInv'
    BY <1>3 DEF WorkInv, vars
  <2>2. ASSUME NEW r \in Asks PROVE Grounded(ask'[r], Sound(r)')
    <3>1. ask' = ask
      BY <1>3 DEF vars
    <3>2. Sound(r)' = Sound(r)
      BY <3>1, SoundStays
    <3> QED
      BY <3>1, <3>2 DEF RequestInv
  <2> QED
    BY <2>1, <2>2 DEF RequestInv
<1> QED
  BY <1>1, <1>2, <1>3 DEF Next

\* They hold always.
LEMMA ProvenanceHolds == Spec => [](WorkInv /\ AskInv /\ RequestInv)
BY InitProvenance, ProvenanceSteps, PTL DEF Spec

\* Types are part of what the invariants say.
LEMMA TypesFollow == WorkInv /\ RequestInv => TypeOK
<1> SUFFICES ASSUME WorkInv, RequestInv PROVE TypeOK
  OBVIOUS
<1>1. ASSUME NEW f \in Files
      PROVE  /\ work[f].at \in {"queued", "poll", "chunk", "embed", "clean", "done", "failed"}
             /\ work[f].turn \in Nat
             /\ work[f].at = "poll" => work[f].turn < MaxPolls /\ job[f] # "none"
             /\ Len(work[f].vectors) <= Len(work[f].chunks)
             /\ index[f] # <<>> => work[f].at \in {"clean", "done", "failed"}
  <2>1. Task(content[f], work[f], job[f], index[f])
    BY DEF WorkInv
  <2>2. Len(work[f].vectors) <= Len(work[f].chunks)
    <3>1. CASE work[f].at = "embed"
      BY <2>1, <3>1 DEF Task
    <3>2. CASE work[f].at # "embed"
      <4>1. work[f].vectors = <<>> /\ work[f].chunks = <<>>
        BY <2>1, <3>2 DEF Task
      <4> QED
        BY <4>1
    <3> QED
      BY <3>1, <3>2
  <2> QED
    BY <2>1, <2>2 DEF Task, Stages
<1>2. ASSUME NEW r \in Asks
      PROVE  /\ ask[r].at \in {"idle", "embed", "search", "analyze", "write", "cite", "done"}
             /\ Len(ask[r].hits) <= TopK
             /\ ask[r].reply.confidence \in 0..100
  BY DEF RequestInv, Grounded
<1> QED
  BY <1>1, <1>2 DEF WorkInv, TypeOK

\* A hit is of a point the request was allowed to see when it was found.
LEMMA ShownFollows == RequestInv => ShownIsAllowed
<1> SUFFICES ASSUME RequestInv, NEW r \in Asks, NEW i \in DOMAIN ask[r].shown,
                    NEW hit, hit = ask[r].shown[i]
             PROVE  /\ TenantOf[hit.chunk[1]] = AskTenant[r]
                    /\ ~hit.suspicious
                    /\ hit.score >= Threshold
                    /\ hit.chunk[1] \in ask[r].scope
  BY DEF ShownIsAllowed
<1>1. ask[r].shown \in Seq(Sound(r)) /\ hit.score >= Threshold
  BY DEF RequestInv, Grounded
<1>2. hit \in Sound(r)
  BY <1>1
<1> QED
  BY <1>1, <1>2 DEF Sound

\* The markers of a reply are part of what the invariants say.
LEMMA MarkersFollow == RequestInv => MarkersResolve
BY DEF RequestInv, Grounded, MarkersResolve
----------------------------------------------------------------------------
(* The theorems                                                             *)

\* Types: a task polls within its limit and a job of its own, has no more vectors than chunks and
\* has points in the index only after its upsert; a request keeps TopK hits at most, and its confidence is
\* a percentage, whatever the models return and however many markers they invent.
THEOREM ProvenanceTypes == Spec => []TypeOK
BY ProvenanceHolds, TypesFollow, PTL

\* Every character that an indexed file says is in a chunk of it, for any file, chunk size, overlap
\* and batch size and with any calls failing (_split_long, chunk_blocks, run_ingestion).
THEOREM NothingIsLost == Spec => []EveryCharacterIndexed
BY ProvenanceHolds, IndexedIsWhole, PTL

\* A chunk in the index has the vector of its own text and names the page or sheet every character
\* of it is on, also in what a failed upsert left there, and also when an embedding service returned
\* fewer vectors than texts (run_ingestion, extract_pdf). That none returns more is assumed.
THEOREM PlacesAreTold == Spec => []ChunksKnowTheirPlace
BY ProvenanceHolds, IndexedInPlace, PTL

\* No chunk in the index exceeds the configured size by more than the overlap and the blank line
\* behind it, for any file, chunk size and overlap: neither cutting, splitting nor carrying over
\* adds to it (_split_long, chunk_blocks).
THEOREM NoChunkIsTooLong == Spec => []ChunksFit
BY ProvenanceHolds, IndexedFits, PTL

\* Whatever is indexed meanwhile and in whatever order hits tie, a model is only shown sources of
\* the tenant that asks, from the documents selected, not flagged, above the threshold
\* (_tenant_filter).
THEOREM OnlyAllowedIsShown == Spec => []ShownIsAllowed
BY ProvenanceHolds, ShownFollows, PTL

\* A marker left in an answer has its citation, whatever the model wrote (validate_citations).
THEOREM MarkersHaveCitations == Spec => []MarkersResolve
BY ProvenanceHolds, MarkersFollow, PTL

\* A citation names the chunk the model saw under that number: what the second context is built from
\* cannot have changed since the first, whatever is indexed, fails or times out meanwhile.
THEOREM CitationsAreOfTheShown == Spec => []CitationsWereShown
<1>1. AskInv => CitationsWereShown
  BY DEF AskInv, Honest, Promised, CitationsWereShown
<1> QED
  BY <1>1, AskHolds, PTL

\* No order of steps lets an answer out that the output guardrail blocks, with its text or with its
\* citations, into the reply or into the cache.
THEOREM UnsafeStaysIn == Spec => []NothingUnsafeLeaves
<1>1. AskInv => NothingUnsafeLeaves
  BY DEF AskInv, Honest, Promised, NothingUnsafeLeaves
<1> QED
  BY <1>1, AskHolds, PTL
=============================================================================
