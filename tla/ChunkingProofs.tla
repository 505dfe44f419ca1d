-------------------------- MODULE ChunkingProofs --------------------------
(* Theorems about Chunking, for any file, chunk size and overlap. A text is    *)
(* what it says, its ink, and blanks; each step of extraction and chunking is   *)
(* shown to keep the ink. Sequences are folded with FoldLeft, which is          *)
(* recursive: the recursion is shown to have a solution and to be a run over     *)
(* the elements in their order (FoldExists, FoldRuns), and what a run keeps      *)
(* follows by induction on its length.                                        *)
EXTENDS Chunking, TLAPS, WellFoundedInduction, FiniteSetTheorems, SequenceTheorems

----------------------------------------------------------------------------
(* Induction, and what a fold computes                                      *)

\* Induction, for a set P: a least number outside of it is not 0, and its predecessor is in P.
LEMMA InductionOnNat ==
    ASSUME NEW P, 0 \in P, \A n \in Nat : n \in P => n + 1 \in P
    PROVE  Nat \subseteq P
<1> DEFINE T == Nat \ P
           R == {pair \in Nat \X Nat : pair[1] < pair[2]}
<1> SUFFICES ASSUME T # {} PROVE FALSE
  OBVIOUS
<1>1. OpToRel(<, Nat) = R
  BY Zenon DEF OpToRel
<1>2. IsWellFoundedOn(R, Nat)
  BY <1>1, NatLessThanWellFounded, Zenon
<1>3. PICK n \in T : \A m \in T : <<m, n>> \notin R
  <2> HIDE DEF R
  <2> QED
    BY <1>2, WFMin
<1>4. n # 0 /\ n - 1 \in Nat /\ <<n - 1, n>> \in R
  BY <1>3
<1> QED
  BY <1>3, <1>4

\* The greatest element is the greatest element.
LEMMA MaxIs ==
    ASSUME NEW S \in SUBSET Int, NEW m \in S, \A n \in S : n <= m
    PROVE  Max(S) = m
<1>1. \E x \in S : \A y \in S : x >= y
  OBVIOUS
<1>2. Max(S) \in S /\ \A y \in S : Max(S) >= y
  BY <1>1 DEF Max
<1>3. Max(S) \in Int /\ m \in Int /\ Max(S) >= m /\ Max(S) <= m
  BY <1>2
<1> QED
  BY <1>3

\* What the recursion of a fold looks up: the greatest index, and the indices before it.
LEMMA MaxOfIndices ==
    ASSUME NEW n \in Nat, NEW t \in SUBSET (1..n), t # {}
    PROVE  Max(t) \in t /\ \A i \in t : i <= Max(t)
<1> DEFINE Q(m) == \A u \in SUBSET (1..m) : u # {} => Max(u) \in u /\ \A i \in u : i <= Max(u)
           P == {m \in Nat : Q(m)}
<1>1. 0 \in P
  <2>1. 1..0 = {}
    OBVIOUS
  <2> QED
    BY <2>1
<1>2. ASSUME NEW m \in Nat, m \in P PROVE m + 1 \in P
  <2> SUFFICES ASSUME NEW u \in SUBSET (1..(m + 1)), u # {}
               PROVE  Max(u) \in u /\ \A i \in u : i <= Max(u)
    OBVIOUS
  <2>1. CASE m + 1 \in u
    <3>1. Max(u) = m + 1
      BY <2>1, MaxIs
    <3> QED
      BY <2>1, <3>1
  <2>2. CASE m + 1 \notin u
    <3>1. u \in SUBSET (1..m)
      BY <2>2
    <3> QED
      BY <1>2, <3>1
  <2> QED
    BY <2>1, <2>2
<1> HIDE DEF P, Q
<1>3. n \in P
  BY <1>1, <1>2, InductionOnNat
<1>4. Q(n)
  BY <1>3 DEF P
<1> QED
  BY <1>4 DEF Q

\* The first i indices without the last of them are the first i - 1.
LEMMA FirstIndices ==
    ASSUME NEW n \in Nat, NEW i \in 1..n
    PROVE  /\ 1..i \in SUBSET (1..n) /\ 1..i # {} /\ Max(1..i) = i
           /\ (1..i) \ {i} = 1..(i - 1) /\ i - 1 \in 0..n
<1> DEFINE t == 1..i
<1>1. t \in SUBSET (1..n) /\ i \in t /\ t \in SUBSET Int /\ (\A j \in t : j <= i)
  OBVIOUS
<1>2. t \ {i} = 1..(i - 1) /\ i - 1 \in 0..n
  OBVIOUS
<1> HIDE DEF t
<1>3. Max(t) = i
  BY <1>1, MaxIs
<1>4. t # {}
  BY <1>1
<1> QED
  BY <1>1, <1>2, <1>3, <1>4 DEF t

\* A fold is defined by a function on the sets of indices, and evaluated over the elements in their
\* order it is a run; both stay within T when each step H[i] does.
Solves(g, T, base, H, n) ==
    /\ g \in [SUBSET (1..n) -> T]
    /\ \A t \in SUBSET (1..n) :
         /\ t = {} => g[t] = base
         /\ t # {} => Max(t) \in 1..n /\ g[t \ {Max(t)}] \in T /\ g[t] = H[Max(t)][g[t \ {Max(t)}]]

Computes(iter, T, base, H, n) ==
    /\ iter[1..0] = base
    /\ \A i \in 1..n : iter[1..(i - 1)] \in T => iter[1..i] = H[i][iter[1..(i - 1)]]

Runs(run, T, base, H, n) ==
    /\ run \in [0..n -> T] /\ run[0] = base
    /\ \A i \in 1..n : run[i] = H[i][run[i - 1]]

\* The recursion of a fold has a solution: a least set of indices without one would get it from the
\* set without its greatest index.
LEMMA FoldExists ==
    ASSUME NEW T, NEW base \in T, NEW n \in Nat, NEW H \in [1..n -> [T -> T]]
    PROVE  \E g : Solves(g, T, base, H, n)
<1> DEFINE Fits(g, m) == \A t \in SUBSET (1..m) :
             /\ t = {} => g[t] = base
             /\ t # {} => g[t] = H[Max(t)][g[t \ {Max(t)}]]
           Q(m) == m <= n => \E g \in [SUBSET (1..m) -> T] : Fits(g, m)
           P == {m \in Nat : Q(m)}
<1>1. 0 \in P
  <2>1. Fits([t \in SUBSET (1..0) |-> base], 0)
    <3>1. 1..0 = {}
      OBVIOUS
    <3> QED
      BY <3>1
  <2>2. [t \in SUBSET (1..0) |-> base] \in [SUBSET (1..0) -> T]
    OBVIOUS
  <2> HIDE DEF Fits
  <2> QED
    BY <2>1, <2>2
<1>2. ASSUME NEW m \in Nat, m \in P PROVE m + 1 \in P
  <2> SUFFICES Q(m + 1)
    <3> HIDE DEF Q
    <3> QED
      OBVIOUS
  <2> SUFFICES ASSUME m + 1 <= n
               PROVE  \E g \in [SUBSET (1..(m + 1)) -> T] : Fits(g, m + 1)
    OBVIOUS
  <2>1. PICK g \in [SUBSET (1..m) -> T] : Fits(g, m)
    <3> HIDE DEF Fits
    <3>1. m <= n
      OBVIOUS
    <3> QED
      BY <1>2, <3>1
  <2> DEFINE h == [t \in SUBSET (1..(m + 1)) |->
                     IF m + 1 \in t THEN H[m + 1][g[t \ {m + 1}]] ELSE g[t]]
  <2>2. ASSUME NEW t \in SUBSET (1..(m + 1))
        PROVE  /\ t = {} => h[t] = base
               /\ t # {} => h[t] = H[Max(t)][h[t \ {Max(t)}]]
               /\ h[t] \in T
    <3>1. CASE m + 1 \in t
      <4>1. Max(t) = m + 1
        BY <3>1, MaxIs
      <4>2. t \ {m + 1} \in SUBSET (1..m) /\ t \ {m + 1} \in SUBSET (1..(m + 1))
        OBVIOUS
      <4>3. h[t \ {m + 1}] = g[t \ {m + 1}] /\ h[t] = H[m + 1][g[t \ {m + 1}]]
        BY <3>1, <4>2
      <4>4. g[t \ {m + 1}] \in T /\ m + 1 \in 1..n
        BY <2>1, <4>2
      <4> QED
        BY <3>1, <4>1, <4>3, <4>4
    <3>2. CASE m + 1 \notin t
      <4>1. t \in SUBSET (1..m)
        BY <3>2
      <4>2. \A u \in SUBSET t : h[u] = g[u]
        BY <3>2
      <4> QED
        BY <2>1, <4>1, <4>2
    <3> QED
      BY <3>1, <3>2
  <2>3. h \in [SUBSET (1..(m + 1)) -> T]
    BY <2>2
  <2> HIDE DEF h
  <2>4. Fits(h, m + 1)
    BY <2>2
  <2> QED
    BY <2>3, <2>4
<1> HIDE DEF P
<1>3. n \in P
  BY <1>1, <1>2, InductionOnNat
<1> HIDE DEF Fits
<1>4. n \in P /\ n <= n => \E g \in [SUBSET (1..n) -> T] : Fits(g, n)
  BY Zenon DEF P
<1>5. PICK g \in [SUBSET (1..n) -> T] : Fits(g, n)
  <2>1. n <= n
    OBVIOUS
  <2> QED
    BY <1>3, <1>4, <2>1
<1>6. ASSUME NEW t \in SUBSET (1..n), t # {} PROVE Max(t) \in 1..n /\ g[t \ {Max(t)}] \in T
  BY <1>6, MaxOfIndices
<1> QED
  BY <1>5, <1>6 DEF Solves, Fits

\* Evaluated over the elements in their order, it is a run of n steps within T.
LEMMA FoldRuns ==
    ASSUME NEW T, NEW base \in T, NEW n \in Nat, NEW H \in [1..n -> [T -> T]],
           NEW iter, Computes(iter, T, base, H, n)
    PROVE  \E run : Runs(run, T, base, H, n) /\ iter[1..n] = run[n]
<1> DEFINE run == [i \in 0..n |-> iter[1..i]]
           Q(i) == i <= n => run[i] \in T
           P == {i \in Nat : Q(i)}
<1>1. run[0] = base
  BY DEF Computes
<1>2. ASSUME NEW i \in 1..n, run[i - 1] \in T PROVE run[i] = H[i][run[i - 1]]
  <2>1. i \in 0..n /\ i - 1 \in 0..n
    OBVIOUS
  <2>2. run[i] = iter[1..i] /\ run[i - 1] = iter[1..(i - 1)]
    BY <2>1
  <2> QED
    BY <1>2, <2>2 DEF Computes
<1>3. run = [i \in 0..n |-> run[i]] /\ run[n] = iter[1..n]
  OBVIOUS
<1> HIDE DEF run
<1>4. Nat \subseteq P
  <2>1. 0 \in P
    BY <1>1
  <2>2. ASSUME NEW i \in Nat, i \in P PROVE i + 1 \in P
    <3> SUFFICES ASSUME i + 1 <= n PROVE run[i + 1] \in T
      OBVIOUS
    <3>1. run[i] \in T /\ i + 1 \in 1..n /\ (i + 1) - 1 = i
      BY <2>2
    <3>2. run[i + 1] = H[i + 1][run[i]]
      BY <1>2, <3>1
    <3> QED
      BY <3>1, <3>2
  <2> HIDE DEF P
  <2> QED
    BY <2>1, <2>2, InductionOnNat
<1>5. \A i \in 0..n : run[i] \in T
  BY <1>4
<1>6. run \in [0..n -> T]
  BY <1>3, <1>5
<1>7. ASSUME NEW i \in 1..n PROVE run[i] = H[i][run[i - 1]]
  BY <1>2, <1>5, FirstIndices
<1> QED
  BY <1>1, <1>3, <1>6, <1>7 DEF Runs

\* The elements of a concatenation of two.
LEMMA RangeOfConcat ==
    ASSUME NEW S, NEW s \in Seq(S), NEW t \in Seq(S)
    PROVE  Range(s \o t) = Range(s) \cup Range(t)
<1>1. s \o t \in Seq(S) /\ Len(s \o t) = Len(s) + Len(t)
      /\ \A i \in 1..(Len(s) + Len(t)) : (s \o t)[i] = IF i <= Len(s) THEN s[i] ELSE t[i - Len(s)]
  BY ConcatProperties
<1>2. DOMAIN s = 1..Len(s) /\ DOMAIN t = 1..Len(t) /\ DOMAIN (s \o t) = 1..(Len(s) + Len(t))
      /\ Len(s) \in Nat /\ Len(t) \in Nat
  BY <1>1
<1>3. ASSUME NEW x \in Range(s) PROVE x \in Range(s \o t)
  <2>1. PICK i \in DOMAIN s : x = s[i]
    BY DEF Range
  <2>2. i \in DOMAIN (s \o t) /\ (s \o t)[i] = x
    BY <1>1, <1>2, <2>1
  <2> QED
    BY <2>2 DEF Range
<1>4. ASSUME NEW x \in Range(t) PROVE x \in Range(s \o t)
  <2>1. PICK i \in DOMAIN t : x = t[i]
    BY DEF Range
  <2>2. Len(s) + i \in DOMAIN (s \o t) /\ (s \o t)[Len(s) + i] = x
    BY <1>1, <1>2, <2>1
  <2> QED
    BY <2>2 DEF Range
<1>5. ASSUME NEW x \in Range(s \o t) PROVE x \in Range(s) \cup Range(t)
  <2>1. PICK i \in DOMAIN (s \o t) : x = (s \o t)[i]
    BY DEF Range
  <2>2. \/ i \in DOMAIN s /\ x = s[i]
        \/ i - Len(s) \in DOMAIN t /\ x = t[i - Len(s)]
    BY <1>1, <1>2, <2>1
  <2> QED
    BY <2>2 DEF Range
<1> QED
  BY <1>3, <1>4, <1>5

\* Concatenated is a run of concatenations.
LEMMA ConcatenatedRuns ==
    ASSUME NEW S, NEW seqs \in Seq(Seq(S))
    PROVE  \E run \in [0..Len(seqs) -> Seq(S)] :
             /\ run[0] = <<>>
             /\ \A i \in 1..Len(seqs) : run[i] = run[i - 1] \o seqs[i]
             /\ Concatenated(seqs) = run[Len(seqs)]
<1> DEFINE T == Seq(S)
           n == Len(seqs)
           D == SUBSET (1..n)
           Step(v, i) == v \o seqs[i]
           H == [i \in 1..n |-> [v \in T |-> Step(v, i)]]
           iter == CHOOSE g : g = [t \in D |-> IF t = {} THEN <<>>
                                              ELSE Step(g[t \ {Max(t)}], Max(t))]
<1>1. Concatenated(seqs) = iter[1..n]
  <2>1. DOMAIN seqs = 1..n
    OBVIOUS
  <2> QED
    BY <2>1, Zenon DEF Concatenated, FoldLeft, MapThenFoldSet
<1>2. n \in Nat
  OBVIOUS
<1>3. <<>> \in T
  OBVIOUS
<1>4. \A i \in 1..n : \A v \in T : Step(v, i) \in T
  OBVIOUS
<1> HIDE DEF T, n, Step
<1>5. \A i \in 1..n : \A v \in T : H[i][v] = Step(v, i)
  OBVIOUS
<1>h. H \in [1..n -> [T -> T]]
  BY <1>4
<1> HIDE DEF H
<1>6. iter = [t \in D |-> IF t = {} THEN <<>> ELSE Step(iter[t \ {Max(t)}], Max(t))]
  <2>1. PICK g : Solves(g, T, <<>>, H, n)
    BY <1>2, <1>3, <1>h, FoldExists
  <2>2. g = [t \in D |-> IF t = {} THEN <<>> ELSE Step(g[t \ {Max(t)}], Max(t))]
    BY <1>5, <2>1 DEF Solves
  <2> QED
    BY <2>2, Zenon
<1> HIDE DEF iter
<1>7. Computes(iter, T, <<>>, H, n)
  <2>1. 1..0 = {} /\ {} \in D
    OBVIOUS
  <2>2. iter[1..0] = <<>>
    BY <1>6, <2>1
  <2>3. ASSUME NEW i \in 1..n PROVE iter[1..i] = Step(iter[1..(i - 1)], i)
    <3>1. 1..i \in D /\ 1..i # {} /\ Max(1..i) = i /\ (1..i) \ {i} = 1..(i - 1)
      BY <1>2, FirstIndices
    <3> QED
      BY <1>6, <3>1
  <2> QED
    BY <1>5, <2>2, <2>3 DEF Computes
<1>8. PICK run : Runs(run, T, <<>>, H, n) /\ iter[1..n] = run[n]
  BY <1>2, <1>3, <1>h, <1>7, FoldRuns
<1>9. ASSUME NEW i \in 1..n PROVE run[i] = Step(run[i - 1], i)
  BY <1>2, <1>5, <1>8, FirstIndices DEF Runs
<1> QED
  BY <1>1, <1>8, <1>9 DEF T, n, Step, Runs

\* Induction up to n.
LEMMA IndexInduction ==
    ASSUME NEW n \in Nat, NEW P, 0 \in P, \A i \in 1..n : i - 1 \in P => i \in P
    PROVE  \A i \in 0..n : i \in P
<1> DEFINE T == {i \in Nat : i <= n => i \in P}
<1>1. 0 \in T
  OBVIOUS
<1>2. ASSUME NEW i \in Nat, i \in T PROVE i + 1 \in T
  <2>1. i + 1 <= n => i + 1 \in 1..n /\ (i + 1) - 1 = i /\ i \in P
    BY <1>2
  <2> QED
    BY <2>1
<1>3. Nat \subseteq T
  <2> HIDE DEF T
  <2> QED
    BY <1>1, <1>2, InductionOnNat
<1> QED
  BY <1>3

\* The elements of a concatenation.
LEMMA ConcatenatedElements ==
    ASSUME NEW S, NEW seqs \in Seq(Seq(S))
    PROVE  /\ Concatenated(seqs) \in Seq(S)
           /\ \A x : x \in Range(Concatenated(seqs)) <=> \E i \in DOMAIN seqs : x \in Range(seqs[i])
<1>1. PICK run \in [0..Len(seqs) -> Seq(S)] :
             /\ run[0] = <<>>
             /\ \A i \in 1..Len(seqs) : run[i] = run[i - 1] \o seqs[i]
             /\ Concatenated(seqs) = run[Len(seqs)]
  BY ConcatenatedRuns
<1>2. Len(seqs) \in Nat /\ DOMAIN seqs = 1..Len(seqs)
  OBVIOUS
<1> DEFINE Parts(i) == UNION {Range(seqs[j]) : j \in 1..i}
           P == {i \in 0..Len(seqs) : Range(run[i]) = Parts(i)}
<1>3. 0 \in P
  BY <1>1, <1>2 DEF Range
<1>4. ASSUME NEW i \in 1..Len(seqs), i - 1 \in P PROVE i \in P
  <2>0. i - 1 \in 0..Len(seqs)
    BY <1>2
  <2>1. run[i - 1] \in Seq(S) /\ seqs[i] \in Seq(S)
    <3>1. run[i - 1] \in Seq(S)
      BY <2>0
    <3>2. seqs[i] \in Seq(S)
      OBVIOUS
    <3> QED
      BY <3>1, <3>2
  <2>2. Range(run[i]) = Range(run[i - 1]) \cup Range(seqs[i])
    <3>1. run[i] = run[i - 1] \o seqs[i]
      BY <1>1
    <3> QED
      BY <2>1, <3>1, RangeOfConcat
  <2>3. 1..i = (1..(i - 1)) \cup {i}
    BY <1>2
  <2>4. Parts(i) = Parts(i - 1) \cup Range(seqs[i])
    BY <2>3
  <2> HIDE DEF Parts
  <2>5. Range(run[i - 1]) = Parts(i - 1)
    BY <1>4
  <2>6. i \in 0..Len(seqs)
    BY <1>2
  <2> QED
    BY <2>2, <2>4, <2>5, <2>6
<1> HIDE DEF P
<1>5. Len(seqs) \in P
  <2>1. Len(seqs) \in 0..Len(seqs)
    BY <1>2
  <2> QED
    BY <1>2, <1>3, <1>4, <2>1, IndexInduction
<1>6. Range(Concatenated(seqs)) = Parts(Len(seqs)) /\ Concatenated(seqs) \in Seq(S)
  BY <1>1, <1>2, <1>5 DEF P
<1> QED
  BY <1>2, <1>6

----------------------------------------------------------------------------
\* A set of indices has a least one, since it has a greatest counted from the end.
LEMMA MinOfIndices ==
    ASSUME NEW n \in Nat, NEW t \in SUBSET (1..n), t # {}
    PROVE  Min(t) \in t /\ \A i \in t : Min(t) <= i
<1> DEFINE u == {n + 1 - i : i \in t}
<1>1. u \in SUBSET (1..n) /\ u # {}
  <2>1. ASSUME NEW i \in t PROVE n + 1 - i \in 1..n
    <3>1. i \in 1..n
      OBVIOUS
    <3> QED
      BY <3>1
  <2>2. u # {}
    OBVIOUS
  <2>3. \A j \in u : j \in 1..n
    BY <2>1, Zenon
  <2> QED
    BY <2>2, <2>3
<1>2. Max(u) \in u /\ \A i \in u : i <= Max(u)
  BY <1>1, MaxOfIndices
<1>3. PICK m \in t : Max(u) = n + 1 - m
  BY <1>2
<1>4. ASSUME NEW i \in t PROVE m <= i
  <2>1. n + 1 - i \in u /\ i \in Int /\ m \in Int
    OBVIOUS
  <2> HIDE DEF u
  <2>2. n + 1 - i <= n + 1 - m
    BY <1>2, <1>3, <2>1
  <2> QED
    BY <2>2
<1>5. \E x \in t : \A y \in t : x =< y
  BY <1>4
<1> QED
  BY <1>5, Zenon DEF Min

\* The characters of a text, without its blanks.
Ink(text) == Range(text) \ {Blank}

\* What a piece of a sequence consists of.
LEMMA SubSeqElements ==
    ASSUME NEW S, NEW s \in Seq(S), NEW m \in Nat \ {0}, NEW n \in Nat, n <= Len(s)
    PROVE  /\ SubSeq(s, m, n) \in Seq(S)
           /\ Range(SubSeq(s, m, n)) = {s[i] : i \in m..n}
<1>1. \A i \in m..n : s[i] \in S
  OBVIOUS
<1>2. /\ SubSeq(s, m, n) \in Seq(S)
      /\ Len(SubSeq(s, m, n)) = IF m <= n THEN n - m + 1 ELSE 0
      /\ \A i \in 1..(n - m + 1) : SubSeq(s, m, n)[i] = s[m + i - 1]
  BY <1>1, SubSeqProperties
<1> DEFINE t == SubSeq(s, m, n)
<1>3. DOMAIN t = 1..(n - m + 1)
  BY <1>2
<1>4. ASSUME NEW x \in Range(t) PROVE x \in {s[i] : i \in m..n}
  <2>1. PICK j \in DOMAIN t : x = t[j]
    BY DEF Range
  <2>2. x = s[m + j - 1] /\ m + j - 1 \in m..n
    BY <1>2, <1>3, <2>1
  <2> QED
    BY <2>2
<1>5. ASSUME NEW i \in m..n PROVE s[i] \in Range(t)
  <2>1. i - m + 1 \in 1..(n - m + 1)
    OBVIOUS
  <2>2. t[i - m + 1] = s[m + (i - m + 1) - 1] /\ m + (i - m + 1) - 1 = i
    BY <1>2, <2>1
  <2> QED
    BY <1>3, <2>1, <2>2 DEF Range
<1> QED
  BY <1>2, <1>4, <1>5

\* Stripping a text takes blanks only.
LEMMA StripKeepsInk ==
    ASSUME NEW S, NEW text \in Seq(S)
    PROVE  Strip(text) \in Seq(S) /\ Ink(Strip(text)) = Ink(text)
<1> DEFINE ink == {i \in DOMAIN text : text[i] # Blank}
<1>1. Len(text) \in Nat /\ DOMAIN text = 1..Len(text) /\ ink \in SUBSET (1..Len(text))
  OBVIOUS
<1>2. Ink(text) = {text[i] : i \in ink}
  BY DEF Ink, Range
<1>3. CASE ink = {}
  <2>1. Strip(text) = <<>>
    BY <1>3 DEF Strip
  <2>2. Ink(<<>>) = {} /\ Ink(text) = {}
    BY <1>2, <1>3 DEF Ink, Range
  <2> QED
    BY <2>1, <2>2
<1>4. CASE ink # {}
  <2> HIDE DEF ink
  <2>1. Min(ink) \in ink /\ (\A i \in ink : Min(ink) <= i) /\ Max(ink) \in ink /\ \A i \in ink : i <= Max(ink)
    BY <1>1, <1>4, MinOfIndices, MaxOfIndices
  <2>2. Strip(text) = SubSeq(text, Min(ink), Max(ink))
    BY <1>4 DEF Strip, ink
  <2>3. Min(ink) \in Nat \ {0} /\ Max(ink) \in Nat /\ Max(ink) <= Len(text)
    <3>1. Min(ink) \in 1..Len(text) /\ Max(ink) \in 1..Len(text)
      BY <1>1, <2>1
    <3> QED
      BY <1>1, <3>1
  <2>4. Strip(text) \in Seq(S) /\ Range(Strip(text)) = {text[i] : i \in Min(ink)..Max(ink)}
    BY <2>2, <2>3, SubSeqElements
  <2>5. \A i \in ink : i \in Min(ink)..Max(ink)
    BY <1>1, <2>1, <2>3
  <2>6. \A i \in Min(ink)..Max(ink) : text[i] = Blank \/ i \in ink
    BY <1>1, <2>3 DEF ink
  <2>7. \A i \in ink : text[i] # Blank
    BY DEF ink
  <2> QED
    BY <1>2, <2>4, <2>5, <2>6, <2>7 DEF Ink
<1> QED
  BY <1>3, <1>4

\* Blanks are a text without ink.
LEMMA BlanksAreBlank ==
    ASSUME NEW S, Blank \in S, NEW n \in Nat
    PROVE  Blanks(n) \in Seq(S) /\ Ink(Blanks(n)) = {}
<1>1. Blanks(n) \in [1..n -> S]
  BY DEF Blanks
<1>2. Blanks(n) \in Seq(S)
  BY <1>1
<1> QED
  BY <1>2 DEF Blanks, Ink, Range

\* A joint loses nothing of the two texts and adds blanks only.
LEMMA JoinedText ==
    ASSUME NEW S, Blank \in S, NEW n \in Nat, NEW buffer \in Seq(S), NEW text \in Seq(S)
    PROVE  Joined(buffer, n, text) \in Seq(S) /\ Ink(Joined(buffer, n, text)) = Ink(buffer) \cup Ink(text)
<1>1. CASE buffer = <<>>
  BY <1>1 DEF Joined, Ink, Range
<1>2. CASE buffer # <<>>
  <2>1. Blanks(n) \in Seq(S) /\ Ink(Blanks(n)) = {}
    BY BlanksAreBlank
  <2>2. buffer \o Blanks(n) \in Seq(S) /\ (buffer \o Blanks(n)) \o text \in Seq(S)
    BY <2>1, ConcatProperties
  <2>3. Range((buffer \o Blanks(n)) \o text) = (Range(buffer) \cup Range(Blanks(n))) \cup Range(text)
    <3>1. Range(buffer \o Blanks(n)) = Range(buffer) \cup Range(Blanks(n))
      BY <2>1, RangeOfConcat
    <3>2. ASSUME NEW s \in Seq(S) PROVE Range(s \o text) = Range(s) \cup Range(text)
      BY RangeOfConcat
    <3>3. Range((buffer \o Blanks(n)) \o text) = Range(buffer \o Blanks(n)) \cup Range(text)
      BY <2>2, <3>2
    <3> QED
      BY <3>1, <3>3
  <2>4. Joined(buffer, n, text) = Strip((buffer \o Blanks(n)) \o text)
    BY <1>2 DEF Joined
  <2>5. Strip((buffer \o Blanks(n)) \o text) \in Seq(S)
        /\ Ink(Strip((buffer \o Blanks(n)) \o text)) = Ink((buffer \o Blanks(n)) \o text)
    BY <2>2, StripKeepsInk
  <2> QED
    BY <2>1, <2>3, <2>4, <2>5 DEF Ink
<1> QED
  BY <1>1, <1>2

----------------------------------------------------------------------------
\* Between is a run of joints.
LEMMA BetweenRuns ==
    ASSUME NEW S, Blank \in S, NEW texts \in Seq(Seq(S)), NEW m \in Nat
    PROVE  \E run \in [0..Len(texts) -> Seq(S)] :
             /\ run[0] = <<>>
             /\ \A i \in 1..Len(texts) : run[i] = IF texts[i] = <<>> THEN run[i - 1] ELSE Joined(run[i - 1], m, texts[i])
             /\ Between(texts, m) = run[Len(texts)]
<1> DEFINE T == Seq(S)
           n == Len(texts)
           D == SUBSET (1..n)
           Step(v, i) == IF texts[i] = <<>> THEN v ELSE Joined(v, m, texts[i])
           H == [i \in 1..n |-> [v \in T |-> Step(v, i)]]
           iter == CHOOSE g : g = [t \in D |-> IF t = {} THEN <<>>
                                              ELSE Step(g[t \ {Max(t)}], Max(t))]
<1>1. Between(texts, m) = iter[1..n]
  <2>1. DOMAIN texts = 1..n
    OBVIOUS
  <2> QED
    BY <2>1, Zenon DEF Between, FoldLeft, MapThenFoldSet
<1>2. n \in Nat
  OBVIOUS
<1>3. <<>> \in T
  OBVIOUS
<1>4. \A i \in 1..n : \A v \in T : Step(v, i) \in T
  BY JoinedText
<1> HIDE DEF T, n, Step
<1>5. \A i \in 1..n : \A v \in T : H[i][v] = Step(v, i)
  OBVIOUS
<1>h. H \in [1..n -> [T -> T]]
  BY <1>4
<1> HIDE DEF H
<1>6. iter = [t \in D |-> IF t = {} THEN <<>> ELSE Step(iter[t \ {Max(t)}], Max(t))]
  <2>1. PICK g : Solves(g, T, <<>>, H, n)
    BY <1>2, <1>3, <1>h, FoldExists
  <2>2. g = [t \in D |-> IF t = {} THEN <<>> ELSE Step(g[t \ {Max(t)}], Max(t))]
    BY <1>5, <2>1 DEF Solves
  <2> QED
    BY <2>2, Zenon
<1> HIDE DEF iter
<1>7. Computes(iter, T, <<>>, H, n)
  <2>1. 1..0 = {} /\ {} \in D
    OBVIOUS
  <2>2. iter[1..0] = <<>>
    BY <1>6, <2>1
  <2>3. ASSUME NEW i \in 1..n PROVE iter[1..i] = Step(iter[1..(i - 1)], i)
    <3>1. 1..i \in D /\ 1..i # {} /\ Max(1..i) = i /\ (1..i) \ {i} = 1..(i - 1)
      BY <1>2, FirstIndices
    <3> QED
      BY <1>6, <3>1
  <2> QED
    BY <1>5, <2>2, <2>3 DEF Computes
<1>8. PICK run : Runs(run, T, <<>>, H, n) /\ iter[1..n] = run[n]
  BY <1>2, <1>3, <1>h, <1>7, FoldRuns
<1>9. ASSUME NEW i \in 1..n PROVE run[i] = Step(run[i - 1], i)
  BY <1>2, <1>5, <1>8, FirstIndices DEF Runs
<1> QED
  BY <1>1, <1>8, <1>9 DEF T, n, Step, Runs

\* Texts put behind each other lose none of their characters and gain no other.
LEMMA BetweenText ==
    ASSUME NEW S, Blank \in S, NEW texts \in Seq(Seq(S)), NEW m \in Nat
    PROVE  /\ Between(texts, m) \in Seq(S)
           /\ Ink(Between(texts, m)) = UNION {Ink(texts[i]) : i \in DOMAIN texts}
<1>1. PICK run \in [0..Len(texts) -> Seq(S)] :
             /\ run[0] = <<>>
             /\ \A i \in 1..Len(texts) : run[i] = IF texts[i] = <<>> THEN run[i - 1]
                                                  ELSE Joined(run[i - 1], m, texts[i])
             /\ Between(texts, m) = run[Len(texts)]
  BY BetweenRuns
<1>2. Len(texts) \in Nat /\ DOMAIN texts = 1..Len(texts)
  OBVIOUS
<1> DEFINE Parts(i) == UNION {Ink(texts[j]) : j \in 1..i}
           P == {i \in 0..Len(texts) : Ink(run[i]) = Parts(i)}
<1>3. 0 \in P
  BY <1>1, <1>2 DEF Ink, Range
<1>4. ASSUME NEW i \in 1..Len(texts), i - 1 \in P PROVE i \in P
  <2>0. i - 1 \in 0..Len(texts) /\ i \in 0..Len(texts)
    BY <1>2
  <2>1. run[i - 1] \in Seq(S) /\ texts[i] \in Seq(S)
    <3>1. run[i - 1] \in Seq(S)
      BY <2>0
    <3>2. texts[i] \in Seq(S)
      OBVIOUS
    <3> QED
      BY <3>1, <3>2
  <2>2. Ink(run[i]) = Ink(run[i - 1]) \cup Ink(texts[i])
    <3>1. CASE texts[i] = <<>>
      <4>1. Ink(texts[i]) = {}
        BY <3>1 DEF Ink, Range
      <4> QED
        BY <1>1, <3>1, <4>1
    <3>2. CASE texts[i] # <<>>
      <4>1. run[i] = Joined(run[i - 1], m, texts[i])
        BY <1>1, <3>2
      <4> QED
        BY <2>1, <4>1, JoinedText
    <3> QED
      BY <3>1, <3>2
  <2>3. 1..i = (1..(i - 1)) \cup {i}
    BY <1>2
  <2>4. Parts(i) = Parts(i - 1) \cup Ink(texts[i])
    BY <2>3
  <2> HIDE DEF Parts
  <2>5. Ink(run[i - 1]) = Parts(i - 1)
    BY <1>4
  <2> QED
    BY <2>0, <2>2, <2>4, <2>5
<1> HIDE DEF P
<1>5. Len(texts) \in P
  <2>1. Len(texts) \in 0..Len(texts)
    BY <1>2
  <2> QED
    BY <1>2, <1>3, <1>4, <2>1, IndexInduction
<1> QED
  BY <1>1, <1>2, <1>5 DEF P

\* The characters of several texts.
AllInk(texts) == UNION {Ink(texts[i]) : i \in DOMAIN texts}

\* The characters of texts put behind other texts.
LEMMA AllInkOfConcat ==
    ASSUME NEW S, NEW a \in Seq(Seq(S)), NEW b \in Seq(Seq(S))
    PROVE  a \o b \in Seq(Seq(S)) /\ AllInk(a \o b) = AllInk(a) \cup AllInk(b)
<1>1. Range(a \o b) = Range(a) \cup Range(b)
  BY RangeOfConcat
<1>2. \A t : AllInk(t) = UNION {Ink(x) : x \in Range(t)}
  BY DEF AllInk, Range
<1>3. a \o b \in Seq(Seq(S))
  OBVIOUS
<1>4. AllInk(a \o b) = UNION {Ink(x) : x \in Range(a) \cup Range(b)}
  BY <1>1, <1>2
<1>5. AllInk(a) = UNION {Ink(x) : x \in Range(a)} /\ AllInk(b) = UNION {Ink(x) : x \in Range(b)}
  BY <1>2
<1> QED
  BY <1>3, <1>4, <1>5

\* The characters of one text.
LEMMA AllInkOfOne ==
    ASSUME NEW S, NEW x \in Seq(S)
    PROVE  <<x>> \in Seq(Seq(S)) /\ AllInk(<<x>>) = Ink(x)
BY DEF AllInk

\* There are none in no text.
LEMMA InkOfNothing == Ink(<<>>) = {} /\ AllInk(<<>>) = {}
BY DEF Ink, AllInk, Range

\* Appending is concatenating with one.
LEMMA AppendOfOne ==
    ASSUME NEW T, NEW s \in Seq(T), NEW x \in T
    PROVE  Append(s, x) = s \o <<x>>
OBVIOUS

\* Multiplying keeps the order.
LEMMA Multiples ==
    ASSUME NEW a \in Nat, NEW b \in Nat, NEW c \in Nat, a <= b
    PROVE  a * c <= b * c
OBVIOUS

\* Division with its remainder.
LEMMA Quotient ==
    ASSUME NEW a \in Nat, NEW c \in Nat \ {0}
    PROVE  a \div c \in Nat /\ (a \div c) * c <= a /\ a < (a \div c) * c + c
OBVIOUS

\* The windows of a sentence leave out none of it: the window of the i-th character is the one its
\* place divided by the size tells.
LEMMA WindowsText ==
    ASSUME NEW S, NEW sentence \in Seq(S)
    PROVE  Windows(sentence) \in Seq(Seq(S)) /\ AllInk(Windows(sentence)) = Ink(sentence)
<1> DEFINE n == Len(sentence)
           count == (n + ChunkChars - 1) \div ChunkChars
           First(k) == (k - 1) * ChunkChars + 1
           End(k) == Min({k * ChunkChars, n})
<1>0. ChunkChars \in Nat \ {0} /\ n \in Nat /\ DOMAIN sentence = 1..n
  BY ChunkAssumption
<1>1. count \in Nat /\ count * ChunkChars <= n + ChunkChars - 1 /\ n + ChunkChars - 1 < count * ChunkChars + ChunkChars
  <2>1. n + ChunkChars - 1 \in Nat
    BY <1>0
  <2> QED
    BY <1>0, <2>1, Quotient
<1> HIDE DEF count
<1>2. ASSUME NEW k \in 1..count
      PROVE  First(k) \in Nat \ {0} /\ End(k) \in Nat /\ End(k) <= n /\ End(k) <= k * ChunkChars
             /\ (End(k) = n \/ End(k) = k * ChunkChars)
  <2>1. k \in Nat /\ k - 1 \in Nat /\ (k - 1) * ChunkChars \in Nat /\ k * ChunkChars \in Nat
    BY <1>0, <1>1
  <2>2. \E m \in {k * ChunkChars, n} : \A j \in {k * ChunkChars, n} : m <= j
    BY <1>0, <2>1
  <2>3. End(k) \in {k * ChunkChars, n} /\ \A j \in {k * ChunkChars, n} : End(k) <= j
    BY <2>2 DEF Min
  <2> QED
    BY <1>0, <2>1, <2>3
<1>3. ASSUME NEW k \in 1..count
      PROVE  /\ SubSeq(sentence, First(k), End(k)) \in Seq(S)
             /\ Range(SubSeq(sentence, First(k), End(k))) = {sentence[i] : i \in First(k)..End(k)}
  <2> HIDE DEF First, End
  <2> QED
    BY <1>2, SubSeqElements
<1>4. Windows(sentence) = [k \in 1..count |-> SubSeq(sentence, First(k), End(k))]
  BY DEF Windows, count
<1>5. Windows(sentence) \in [1..count -> Seq(S)]
  BY <1>3, <1>4
<1>6. Windows(sentence) \in Seq(Seq(S))
  BY <1>1, <1>5
<1>7. \A k \in 1..count : Ink(Windows(sentence)[k]) \subseteq Ink(sentence)
  <2> SUFFICES ASSUME NEW k \in 1..count PROVE Ink(Windows(sentence)[k]) \subseteq Ink(sentence)
    OBVIOUS
  <2>1. Range(Windows(sentence)[k]) = {sentence[i] : i \in First(k)..End(k)}
    BY <1>3, <1>4
  <2>2. First(k)..End(k) \subseteq DOMAIN sentence
    <3> HIDE DEF First, End, n
    <3> QED
      BY <1>0, <1>2
  <2>3. {sentence[i] : i \in First(k)..End(k)} \subseteq Range(sentence)
    <3> HIDE DEF First, End
    <3> QED
      BY <2>2 DEF Range
  <2> HIDE DEF First, End
  <2> QED
    BY <2>1, <2>3 DEF Ink
<1>8. ASSUME NEW i \in DOMAIN sentence
      PROVE  \E k \in 1..count : sentence[i] \in Range(Windows(sentence)[k])
  <2> DEFINE q == (i - 1) \div ChunkChars
             k == q + 1
  <2>1. q \in Nat /\ q * ChunkChars <= i - 1 /\ i - 1 < q * ChunkChars + ChunkChars
    <3>1. i - 1 \in Nat
      BY <1>0
    <3> QED
      BY <1>0, <3>1, Quotient
  <2>2. i \in Nat /\ 1 <= i /\ i <= n
    BY <1>0
  <2> HIDE DEF q
  <2>3. k <= count
    <3> SUFFICES ASSUME count <= q PROVE FALSE
      BY <1>1, <2>1
    <3>1. count * ChunkChars <= q * ChunkChars
      BY <1>0, <1>1, <2>1, Multiples
    <3>2. count * ChunkChars \in Nat /\ q * ChunkChars \in Nat
      BY <1>0, <1>1, <2>1
    <3> HIDE DEF n
    <3> QED
      BY <1>0, <1>1, <2>1, <2>2, <3>1, <3>2
  <2>4. k \in 1..count
    BY <1>1, <2>1, <2>3
  <2>5. k * ChunkChars = q * ChunkChars + ChunkChars /\ First(k) = q * ChunkChars + 1
        /\ q * ChunkChars \in Nat
    BY <1>0, <2>1
  <2>6. First(k) <= i /\ i <= End(k) /\ First(k) \in Nat /\ End(k) \in Nat
    <3>1. First(k) \in Nat /\ End(k) \in Nat /\ (End(k) = n \/ End(k) = k * ChunkChars)
      BY <1>2, <2>4
    <3> HIDE DEF First, End, n, k
    <3> QED
      BY <1>0, <2>1, <2>2, <2>5, <3>1
  <2>7. i \in First(k)..End(k)
    <3> HIDE DEF First, End, k
    <3> QED
      BY <2>2, <2>6
  <2>8. Range(Windows(sentence)[k]) = {sentence[j] : j \in First(k)..End(k)}
    <3> HIDE DEF First, End, k
    <3> QED
      BY <1>3, <1>4, <2>4
  <2> HIDE DEF First, End, k
  <2> QED
    BY <2>4, <2>7, <2>8
<1>9. DOMAIN Windows(sentence) = 1..count
  BY <1>4
<1>10. AllInk(Windows(sentence)) \subseteq Ink(sentence)
  BY <1>7, <1>9 DEF AllInk
<1>11. Ink(sentence) \subseteq AllInk(Windows(sentence))
  <2> SUFFICES ASSUME NEW x \in Ink(sentence) PROVE x \in AllInk(Windows(sentence))
    OBVIOUS
  <2>1. PICK i \in DOMAIN sentence : x = sentence[i]
    BY DEF Ink, Range
  <2>2. PICK k \in 1..count : x \in Range(Windows(sentence)[k])
    BY <1>8, <2>1
  <2>3. x \in Ink(Windows(sentence)[k])
    BY <2>2 DEF Ink
  <2> QED
    BY <1>9, <2>3 DEF AllInk
<1> QED
  BY <1>6, <1>10, <1>11

\* The characters that an accumulator of the chunker holds.
AccInk(acc) == AllInk(acc.done) \cup Ink(acc.buffer)

\* Flushing keeps what an accumulator holds.
LEMMA FlushedText ==
    ASSUME NEW S, NEW acc \in [done : Seq(Seq(S)), buffer : Seq(S)]
    PROVE  Flushed(acc) \in Seq(Seq(S)) /\ AllInk(Flushed(acc)) = AccInk(acc)
<1>0. acc.done \in Seq(Seq(S)) /\ acc.buffer \in Seq(S)
  OBVIOUS
<1>1. CASE acc.buffer = <<>>
  BY <1>0, <1>1, InkOfNothing DEF Flushed, AccInk
<1>2. CASE acc.buffer # <<>>
  <2>1. Flushed(acc) = acc.done \o <<acc.buffer>>
    BY <1>0, <1>2, AppendOfOne DEF Flushed
  <2>2. <<acc.buffer>> \in Seq(Seq(S)) /\ AllInk(<<acc.buffer>>) = Ink(acc.buffer)
    BY <1>0, AllInkOfOne
  <2>3. ASSUME NEW one \in Seq(Seq(S))
        PROVE  /\ acc.done \o one \in Seq(Seq(S))
               /\ AllInk(acc.done \o one) = AllInk(acc.done) \cup AllInk(one)
    BY <1>0, AllInkOfConcat
  <2> QED
    BY <2>1, <2>2, <2>3 DEF AccInk
<1> QED
  BY <1>1, <1>2

\* A sentence that is split off is held with the others, in the buffer, as a piece or in windows.
LEMMA SplitStepText ==
    ASSUME NEW S, Blank \in S, NEW acc \in [done : Seq(Seq(S)), buffer : Seq(S)],
           NEW sentence \in Seq(S)
    PROVE  /\ SplitStep(acc, sentence) \in [done : Seq(Seq(S)), buffer : Seq(S)]
           /\ AccInk(SplitStep(acc, sentence)) = AccInk(acc) \cup Ink(sentence)
<1> DEFINE candidate == Joined(acc.buffer, 1, sentence)
<1>0. acc.done \in Seq(Seq(S)) /\ acc.buffer \in Seq(S)
  OBVIOUS
<1>1. candidate \in Seq(S) /\ Ink(candidate) = Ink(acc.buffer) \cup Ink(sentence)
  BY <1>0, JoinedText
<1>2. Flushed(acc) \in Seq(Seq(S)) /\ AllInk(Flushed(acc)) = AccInk(acc)
  BY FlushedText
<1> HIDE DEF candidate
<1>3. CASE Len(candidate) <= ChunkChars
  <2>1. SplitStep(acc, sentence) = [acc EXCEPT !.buffer = candidate]
    BY <1>3 DEF SplitStep, candidate
  <2>2. SplitStep(acc, sentence) = [done |-> acc.done, buffer |-> candidate]
    BY <2>1
  <2> QED
    BY <1>0, <1>1, <2>2 DEF AccInk
<1>4. CASE ~(Len(candidate) <= ChunkChars) /\ Len(sentence) <= ChunkChars
  <2>1. SplitStep(acc, sentence) = [done |-> Flushed(acc), buffer |-> sentence]
    BY <1>4 DEF SplitStep, candidate
  <2> QED
    BY <1>2, <2>1 DEF AccInk
<1>5. CASE ~(Len(candidate) <= ChunkChars) /\ ~(Len(sentence) <= ChunkChars)
  <2>1. SplitStep(acc, sentence) = [done |-> Flushed(acc) \o Windows(sentence), buffer |-> <<>>]
    BY <1>5 DEF SplitStep, candidate
  <2>2. Windows(sentence) \in Seq(Seq(S)) /\ AllInk(Windows(sentence)) = Ink(sentence)
    BY WindowsText
  <2>3. /\ Flushed(acc) \o Windows(sentence) \in Seq(Seq(S))
        /\ AllInk(Flushed(acc) \o Windows(sentence)) = AccInk(acc) \cup Ink(sentence)
    <3>1. /\ Flushed(acc) \o Windows(sentence) \in Seq(Seq(S))
          /\ AllInk(Flushed(acc) \o Windows(sentence)) = AllInk(Flushed(acc)) \cup AllInk(Windows(sentence))
      BY <1>2, <2>2, AllInkOfConcat
    <3> QED
      BY <1>2, <2>2, <3>1
  <2>4. <<>> \in Seq(S)
    OBVIOUS
  <2> QED
    BY <2>1, <2>3, <2>4, InkOfNothing DEF AccInk
<1> QED
  BY <1>3, <1>4, <1>5

\* The overlap is of the chunk before.
LEMMA OverlapText ==
    ASSUME NEW S, NEW buffer \in Seq(S)
    PROVE  Overlap(buffer) \in Seq(S) /\ Ink(Overlap(buffer)) \subseteq Ink(buffer)
<1> DEFINE first == Max({1, Len(buffer) - OverlapChars + 1})
<1>1. Len(buffer) \in Nat /\ OverlapChars \in Nat /\ DOMAIN buffer = 1..Len(buffer)
  BY ChunkAssumption
<1>2. first \in Nat \ {0}
  <2>1. \E m \in {1, Len(buffer) - OverlapChars + 1} :
          \A j \in {1, Len(buffer) - OverlapChars + 1} : m >= j
    BY <1>1
  <2>2. first \in {1, Len(buffer) - OverlapChars + 1} /\ first >= 1
    BY <2>1 DEF Max
  <2> QED
    BY <1>1, <2>2
<1> HIDE DEF first
<1>3. /\ SubSeq(buffer, first, Len(buffer)) \in Seq(S)
      /\ Range(SubSeq(buffer, first, Len(buffer))) = {buffer[i] : i \in first..Len(buffer)}
  <2>1. Len(buffer) <= Len(buffer)
    BY <1>1
  <2> QED
    BY <1>1, <1>2, <2>1, SubSeqElements
<1>4. first..Len(buffer) \subseteq DOMAIN buffer
  BY <1>1, <1>2
<1>5. Range(SubSeq(buffer, first, Len(buffer))) \subseteq Range(buffer)
  BY <1>3, <1>4 DEF Range
<1> QED
  BY <1>3, <1>5 DEF Overlap, first, Ink

\* A segment that is packed is held with the others, and the overlap repeats what is held.
LEMMA PackStepText ==
    ASSUME NEW S, Blank \in S, NEW acc \in [done : Seq(Seq(S)), buffer : Seq(S)],
           NEW segment \in Seq(S)
    PROVE  /\ PackStep(acc, segment) \in [done : Seq(Seq(S)), buffer : Seq(S)]
           /\ AccInk(PackStep(acc, segment)) = AccInk(acc) \cup Ink(segment)
<1> DEFINE candidate == Joined(acc.buffer, 2, segment)
<1>0. acc.done \in Seq(Seq(S)) /\ acc.buffer \in Seq(S)
  OBVIOUS
<1>1. candidate \in Seq(S) /\ Ink(candidate) = Ink(acc.buffer) \cup Ink(segment)
  BY <1>0, JoinedText
<1> HIDE DEF candidate
<1>2. CASE Len(candidate) <= ChunkChars
  <2>1. PackStep(acc, segment) = [acc EXCEPT !.buffer = candidate]
    BY <1>2 DEF PackStep, candidate
  <2>2. PackStep(acc, segment) = [done |-> acc.done, buffer |-> candidate]
    BY <2>1
  <2> QED
    BY <1>0, <1>1, <2>2 DEF AccInk
<1>3. CASE ~(Len(candidate) <= ChunkChars) /\ acc.buffer = <<>>
  <2>1. PackStep(acc, segment) = [acc EXCEPT !.buffer = segment]
    BY <1>3 DEF PackStep, candidate
  <2>2. PackStep(acc, segment) = [done |-> acc.done, buffer |-> segment]
    BY <2>1
  <2>3. Ink(acc.buffer) = {}
    BY <1>3, InkOfNothing
  <2> QED
    BY <1>0, <2>2, <2>3 DEF AccInk
<1>4. CASE ~(Len(candidate) <= ChunkChars) /\ acc.buffer # <<>>
  <2>1. PackStep(acc, segment) = [done |-> Append(acc.done, acc.buffer),
                                  buffer |-> Joined(Overlap(acc.buffer), 2, segment)]
    BY <1>4 DEF PackStep, candidate
  <2>2. Flushed(acc) = Append(acc.done, acc.buffer)
    BY <1>4 DEF Flushed
  <2>3. Append(acc.done, acc.buffer) \in Seq(Seq(S)) /\ AllInk(Append(acc.done, acc.buffer)) = AccInk(acc)
    BY <2>2, FlushedText
  <2>4. Overlap(acc.buffer) \in Seq(S) /\ Ink(Overlap(acc.buffer)) \subseteq Ink(acc.buffer)
    BY <1>0, OverlapText
  <2>5. /\ Joined(Overlap(acc.buffer), 2, segment) \in Seq(S)
        /\ Ink(Joined(Overlap(acc.buffer), 2, segment)) = Ink(Overlap(acc.buffer)) \cup Ink(segment)
    BY <2>4, JoinedText
  <2> QED
    BY <2>1, <2>3, <2>4, <2>5 DEF AccInk
<1> QED
  BY <1>2, <1>3, <1>4

\* The fold of _split_long is a run over the sentences.
LEMMA SplitRuns ==
    ASSUME NEW S, Blank \in S, NEW sentences \in Seq(Seq(S))
    PROVE  \E run \in [0..Len(sentences) -> [done : Seq(Seq(S)), buffer : Seq(S)]] :
             /\ run[0] = [done |-> <<>>, buffer |-> <<>>]
             /\ \A i \in 1..Len(sentences) : run[i] = SplitStep(run[i - 1], sentences[i])
             /\ FoldLeft(SplitStep, [done |-> <<>>, buffer |-> <<>>], sentences) = run[Len(sentences)]
<1> DEFINE T == [done : Seq(Seq(S)), buffer : Seq(S)]
           n == Len(sentences)
           D == SUBSET (1..n)
           Step(v, i) == SplitStep(v, sentences[i])
           H == [i \in 1..n |-> [v \in T |-> Step(v, i)]]
           iter == CHOOSE g : g = [t \in D |-> IF t = {} THEN [done |-> <<>>, buffer |-> <<>>]
                                              ELSE Step(g[t \ {Max(t)}], Max(t))]
<1>1. FoldLeft(SplitStep, [done |-> <<>>, buffer |-> <<>>], sentences) = iter[1..n]
  <2>1. DOMAIN sentences = 1..n
    OBVIOUS
  <2> QED
    BY <2>1, Zenon DEF FoldLeft, MapThenFoldSet
<1>2. n \in Nat
  OBVIOUS
<1>3. [done |-> <<>>, buffer |-> <<>>] \in T
  OBVIOUS
<1>4. \A i \in 1..n : \A v \in T : Step(v, i) \in T
  BY SplitStepText
<1> HIDE DEF T, n, Step
<1>5. \A i \in 1..n : \A v \in T : H[i][v] = Step(v, i)
  OBVIOUS
<1>h. H \in [1..n -> [T -> T]]
  BY <1>4
<1> HIDE DEF H
<1>6. iter = [t \in D |-> IF t = {} THEN [done |-> <<>>, buffer |-> <<>>] ELSE Step(iter[t \ {Max(t)}], Max(t))]
  <2>1. PICK g : Solves(g, T, [done |-> <<>>, buffer |-> <<>>], H, n)
    BY <1>2, <1>3, <1>h, FoldExists
  <2>2. g = [t \in D |-> IF t = {} THEN [done |-> <<>>, buffer |-> <<>>] ELSE Step(g[t \ {Max(t)}], Max(t))]
    BY <1>5, <2>1 DEF Solves
  <2> QED
    BY <2>2, Zenon
<1> HIDE DEF iter
<1>7. Computes(iter, T, [done |-> <<>>, buffer |-> <<>>], H, n)
  <2>1. 1..0 = {} /\ {} \in D
    OBVIOUS
  <2>2. iter[1..0] = [done |-> <<>>, buffer |-> <<>>]
    BY <1>6, <2>1
  <2>3. ASSUME NEW i \in 1..n PROVE iter[1..i] = Step(iter[1..(i - 1)], i)
    <3>1. 1..i \in D /\ 1..i # {} /\ Max(1..i) = i /\ (1..i) \ {i} = 1..(i - 1)
      BY <1>2, FirstIndices
    <3> QED
      BY <1>6, <3>1
  <2> QED
    BY <1>5, <2>2, <2>3 DEF Computes
<1>8. PICK run : Runs(run, T, [done |-> <<>>, buffer |-> <<>>], H, n) /\ iter[1..n] = run[n]
  <2> DEFINE base == [done |-> <<>>, buffer |-> <<>>]
  <2>1. base \in T /\ Computes(iter, T, base, H, n)
    BY <1>3, <1>7
  <2> HIDE DEF base
  <2>2. \E run : Runs(run, T, base, H, n) /\ iter[1..n] = run[n]
    BY <1>2, <1>h, <2>1, FoldRuns
  <2> QED
    BY <2>2 DEF base
<1>9. ASSUME NEW i \in 1..n PROVE run[i] = Step(run[i - 1], i)
  BY <1>2, <1>5, <1>8, FirstIndices DEF Runs
<1> QED
  BY <1>1, <1>8, <1>9 DEF T, n, Step, Runs

\* Splitting loses no character and adds none.
LEMMA SplitText ==
    ASSUME NEW S, Blank \in S, NEW sentences \in Seq(Seq(S))
    PROVE  /\ FoldLeft(SplitStep, [done |-> <<>>, buffer |-> <<>>], sentences) \in [done : Seq(Seq(S)), buffer : Seq(S)]
           /\ AccInk(FoldLeft(SplitStep, [done |-> <<>>, buffer |-> <<>>], sentences)) = AllInk(sentences)
<1>1. PICK run \in [0..Len(sentences) -> [done : Seq(Seq(S)), buffer : Seq(S)]] :
             /\ run[0] = [done |-> <<>>, buffer |-> <<>>]
             /\ \A i \in 1..Len(sentences) : run[i] = SplitStep(run[i - 1], sentences[i])
             /\ FoldLeft(SplitStep, [done |-> <<>>, buffer |-> <<>>], sentences) = run[Len(sentences)]
  BY SplitRuns
<1>2. Len(sentences) \in Nat /\ DOMAIN sentences = 1..Len(sentences)
  OBVIOUS
<1> DEFINE Parts(i) == UNION {Ink(sentences[j]) : j \in 1..i}
           P == {i \in 0..Len(sentences) : AccInk(run[i]) = Parts(i)}
<1>3. 0 \in P
  BY <1>1, <1>2, InkOfNothing DEF AccInk
<1>4. ASSUME NEW i \in 1..Len(sentences), i - 1 \in P PROVE i \in P
  <2>0. i - 1 \in 0..Len(sentences) /\ i \in 0..Len(sentences)
    BY <1>2
  <2>1. run[i - 1] \in [done : Seq(Seq(S)), buffer : Seq(S)]
    BY <2>0
  <2>2. sentences[i] \in Seq(S)
    OBVIOUS
  <2>3. run[i] = SplitStep(run[i - 1], sentences[i])
    BY <1>1
  <2>4. AccInk(run[i]) = AccInk(run[i - 1]) \cup Ink(sentences[i])
    BY <2>1, <2>2, <2>3, SplitStepText
  <2>5. 1..i = (1..(i - 1)) \cup {i}
    BY <1>2
  <2>6. Parts(i) = Parts(i - 1) \cup Ink(sentences[i])
    BY <2>5
  <2> HIDE DEF Parts
  <2>7. AccInk(run[i - 1]) = Parts(i - 1)
    BY <1>4
  <2> QED
    BY <2>0, <2>4, <2>6, <2>7
<1> HIDE DEF P
<1>5. Len(sentences) \in 0..Len(sentences)
  BY <1>2
<1>6. Len(sentences) \in P
  BY <1>2, <1>3, <1>4, <1>5, IndexInduction
<1> QED
  BY <1>1, <1>2, <1>5, <1>6 DEF P, AllInk

\* The fold of chunk_blocks is a run over the segments.
LEMMA PackRuns ==
    ASSUME NEW S, Blank \in S, NEW segments \in Seq(Seq(S))
    PROVE  \E run \in [0..Len(segments) -> [done : Seq(Seq(S)), buffer : Seq(S)]] :
             /\ run[0] = [done |-> <<>>, buffer |-> <<>>]
             /\ \A i \in 1..Len(segments) : run[i] = PackStep(run[i - 1], segments[i])
             /\ FoldLeft(PackStep, [done |-> <<>>, buffer |-> <<>>], segments) = run[Len(segments)]
<1> DEFINE T == [done : Seq(Seq(S)), buffer : Seq(S)]
           n == Len(segments)
           D == SUBSET (1..n)
           Step(v, i) == PackStep(v, segments[i])
           H == [i \in 1..n |-> [v \in T |-> Step(v, i)]]
           iter == CHOOSE g : g = [t \in D |-> IF t = {} THEN [done |-> <<>>, buffer |-> <<>>]
                                              ELSE Step(g[t \ {Max(t)}], Max(t))]
<1>1. FoldLeft(PackStep, [done |-> <<>>, buffer |-> <<>>], segments) = iter[1..n]
  <2>1. DOMAIN segments = 1..n
    OBVIOUS
  <2> QED
    BY <2>1, Zenon DEF FoldLeft, MapThenFoldSet
<1>2. n \in Nat
  OBVIOUS
<1>3. [done |-> <<>>, buffer |-> <<>>] \in T
  OBVIOUS
<1>4. \A i \in 1..n : \A v \in T : Step(v, i) \in T
  BY PackStepText
<1> HIDE DEF T, n, Step
<1>5. \A i \in 1..n : \A v \in T : H[i][v] = Step(v, i)
  OBVIOUS
<1>h. H \in [1..n -> [T -> T]]
  BY <1>4
<1> HIDE DEF H
<1>6. iter = [t \in D |-> IF t = {} THEN [done |-> <<>>, buffer |-> <<>>] ELSE Step(iter[t \ {Max(t)}], Max(t))]
  <2>1. PICK g : Solves(g, T, [done |-> <<>>, buffer |-> <<>>], H, n)
    BY <1>2, <1>3, <1>h, FoldExists
  <2>2. g = [t \in D |-> IF t = {} THEN [done |-> <<>>, buffer |-> <<>>] ELSE Step(g[t \ {Max(t)}], Max(t))]
    BY <1>5, <2>1 DEF Solves
  <2> QED
    BY <2>2, Zenon
<1> HIDE DEF iter
<1>7. Computes(iter, T, [done |-> <<>>, buffer |-> <<>>], H, n)
  <2>1. 1..0 = {} /\ {} \in D
    OBVIOUS
  <2>2. iter[1..0] = [done |-> <<>>, buffer |-> <<>>]
    BY <1>6, <2>1
  <2>3. ASSUME NEW i \in 1..n PROVE iter[1..i] = Step(iter[1..(i - 1)], i)
    <3>1. 1..i \in D /\ 1..i # {} /\ Max(1..i) = i /\ (1..i) \ {i} = 1..(i - 1)
      BY <1>2, FirstIndices
    <3> QED
      BY <1>6, <3>1
  <2> QED
    BY <1>5, <2>2, <2>3 DEF Computes
<1>8. PICK run : Runs(run, T, [done |-> <<>>, buffer |-> <<>>], H, n) /\ iter[1..n] = run[n]
  <2> DEFINE base == [done |-> <<>>, buffer |-> <<>>]
  <2>1. base \in T /\ Computes(iter, T, base, H, n)
    BY <1>3, <1>7
  <2> HIDE DEF base
  <2>2. \E run : Runs(run, T, base, H, n) /\ iter[1..n] = run[n]
    BY <1>2, <1>h, <2>1, FoldRuns
  <2> QED
    BY <2>2 DEF base
<1>9. ASSUME NEW i \in 1..n PROVE run[i] = Step(run[i - 1], i)
  BY <1>2, <1>5, <1>8, FirstIndices DEF Runs
<1> QED
  BY <1>1, <1>8, <1>9 DEF T, n, Step, Runs

\* Packing loses no character and adds none.
LEMMA PackText ==
    ASSUME NEW S, Blank \in S, NEW segments \in Seq(Seq(S))
    PROVE  /\ FoldLeft(PackStep, [done |-> <<>>, buffer |-> <<>>], segments) \in [done : Seq(Seq(S)), buffer : Seq(S)]
           /\ AccInk(FoldLeft(PackStep, [done |-> <<>>, buffer |-> <<>>], segments)) = AllInk(segments)
<1>1. PICK run \in [0..Len(segments) -> [done : Seq(Seq(S)), buffer : Seq(S)]] :
             /\ run[0] = [done |-> <<>>, buffer |-> <<>>]
             /\ \A i \in 1..Len(segments) : run[i] = PackStep(run[i - 1], segments[i])
             /\ FoldLeft(PackStep, [done |-> <<>>, buffer |-> <<>>], segments) = run[Len(segments)]
  BY PackRuns
<1>2. Len(segments) \in Nat /\ DOMAIN segments = 1..Len(segments)
  OBVIOUS
<1> DEFINE Parts(i) == UNION {Ink(segments[j]) : j \in 1..i}
           P == {i \in 0..Len(segments) : AccInk(run[i]) = Parts(i)}
<1>3. 0 \in P
  BY <1>1, <1>2, InkOfNothing DEF AccInk
<1>4. ASSUME NEW i \in 1..Len(segments), i - 1 \in P PROVE i \in P
  <2>0. i - 1 \in 0..Len(segments) /\ i \in 0..Len(segments)
    BY <1>2
  <2>1. run[i - 1] \in [done : Seq(Seq(S)), buffer : Seq(S)]
    BY <2>0
  <2>2. segments[i] \in Seq(S)
    OBVIOUS
  <2>3. run[i] = PackStep(run[i - 1], segments[i])
    BY <1>1
  <2>4. AccInk(run[i]) = AccInk(run[i - 1]) \cup Ink(segments[i])
    BY <2>1, <2>2, <2>3, PackStepText
  <2>5. 1..i = (1..(i - 1)) \cup {i}
    BY <1>2
  <2>6. Parts(i) = Parts(i - 1) \cup Ink(segments[i])
    BY <2>5
  <2> HIDE DEF Parts
  <2>7. AccInk(run[i - 1]) = Parts(i - 1)
    BY <1>4
  <2> QED
    BY <2>0, <2>4, <2>6, <2>7
<1> HIDE DEF P
<1>5. Len(segments) \in 0..Len(segments)
  BY <1>2
<1>6. Len(segments) \in P
  BY <1>2, <1>3, <1>4, <1>5, IndexInduction
<1> QED
  BY <1>1, <1>2, <1>5, <1>6 DEF P, AllInk

\* The characters of several texts do not depend on their order.
LEMMA AllInkIs == ASSUME NEW texts PROVE AllInk(texts) = UNION {Ink(x) : x \in Range(texts)}
BY DEF AllInk, Range

\* The segments of a paragraph are its characters.
LEMMA SegmentsText ==
    ASSUME NEW S, Blank \in S, NEW paragraph \in Seq(Seq(S))
    PROVE  Segments(paragraph) \in Seq(Seq(S)) /\ AllInk(Segments(paragraph)) = AllInk(paragraph)
<1> DEFINE whole == Between(paragraph, 1)
           end == FoldLeft(SplitStep, [done |-> <<>>, buffer |-> <<>>], paragraph)
<1>1. whole \in Seq(S) /\ Ink(whole) = AllInk(paragraph)
  BY BetweenText DEF AllInk
<1>2. end \in [done : Seq(Seq(S)), buffer : Seq(S)] /\ AccInk(end) = AllInk(paragraph)
  BY SplitText
<1>3. Segments(paragraph) = IF Len(whole) <= ChunkChars THEN <<whole>> ELSE Flushed(end)
  BY DEF Segments, SplitLong
<1> HIDE DEF whole, end
<1>4. <<whole>> \in Seq(Seq(S)) /\ AllInk(<<whole>>) = AllInk(paragraph)
  BY <1>1, AllInkOfOne
<1>5. Flushed(end) \in Seq(Seq(S)) /\ AllInk(Flushed(end)) = AllInk(paragraph)
  BY <1>2, FlushedText
<1> QED
  BY <1>3, <1>4, <1>5

\* The chunks of a block are its characters.
LEMMA PackedText ==
    ASSUME NEW S, Blank \in S, NEW block, block.paragraphs \in Seq(Seq(Seq(S)))
    PROVE  /\ Packed(block) \in Seq(Seq(S))
           /\ AllInk(Packed(block)) =
                UNION {AllInk(block.paragraphs[p]) : p \in DOMAIN block.paragraphs}
<1> DEFINE paragraphs == block.paragraphs
           segs == [p \in DOMAIN paragraphs |-> Segments(paragraphs[p])]
           segments == Concatenated(segs)
           end == FoldLeft(PackStep, [done |-> <<>>, buffer |-> <<>>], segments)
           stripped == [end EXCEPT !.buffer = Strip(@)]
<1>1. ASSUME NEW p \in DOMAIN paragraphs
      PROVE  Segments(paragraphs[p]) \in Seq(Seq(S)) /\ AllInk(Segments(paragraphs[p])) = AllInk(paragraphs[p])
  <2>1. paragraphs[p] \in Seq(Seq(S))
    OBVIOUS
  <2> QED
    BY <2>1, SegmentsText
<1>2. segs \in Seq(Seq(Seq(S))) /\ DOMAIN segs = DOMAIN paragraphs
  <2>1. DOMAIN paragraphs = 1..Len(paragraphs) /\ Len(paragraphs) \in Nat
    OBVIOUS
  <2>2. segs \in [1..Len(paragraphs) -> Seq(Seq(S))]
    BY <1>1, <2>1
  <2> HIDE DEF segs
  <2>3. segs \in Seq(Seq(Seq(S)))
    <3> DEFINE T == Seq(Seq(S))
               n == Len(paragraphs)
    <3>1. segs \in [1..n -> T] /\ n \in Nat
      BY <2>1, <2>2
    <3> HIDE DEF T, n
    <3>2. segs \in Seq(T)
      BY <3>1
    <3> QED
      BY <3>2 DEF T
  <2>4. DOMAIN segs = 1..Len(paragraphs)
    BY <2>2
  <2> QED
    BY <2>1, <2>3, <2>4
<1>3. segments \in Seq(Seq(S)) /\ \A x : x \in Range(segments) <=> \E p \in DOMAIN segs : x \in Range(segs[p])
  <2> HIDE DEF segs
  <2> QED
    BY <1>2, ConcatenatedElements
<1>4. AllInk(segments) = UNION {AllInk(paragraphs[p]) : p \in DOMAIN paragraphs}
  <2>1. AllInk(segments) = UNION {Ink(x) : x \in Range(segments)}
    BY AllInkIs
  <2>2. \A p \in DOMAIN paragraphs : AllInk(paragraphs[p]) = UNION {Ink(x) : x \in Range(segs[p])}
    BY <1>1, AllInkIs
  <2> HIDE DEF segs, segments, paragraphs
  <2>3. ASSUME NEW c PROVE c \in AllInk(segments) <=> c \in UNION {AllInk(paragraphs[p]) : p \in DOMAIN paragraphs}
    <3>1. c \in AllInk(segments) <=> \E x \in Range(segments) : c \in Ink(x)
      BY <2>1
    <3>2. c \in AllInk(segments) <=> \E p \in DOMAIN paragraphs : \E x \in Range(segs[p]) : c \in Ink(x)
      BY <1>2, <1>3, <3>1
    <3> QED
      BY <2>2, <3>2
  <2> QED
    BY <2>3
<1>5. end \in [done : Seq(Seq(S)), buffer : Seq(S)] /\ AccInk(end) = AllInk(segments)
  <2> HIDE DEF segments
  <2> QED
    BY <1>3, PackText
<1>6. Packed(block) = Flushed(stripped)
  BY DEF Packed
<1> HIDE DEF end
<1> HIDE DEF segments
<1>7. stripped = [done |-> end.done, buffer |-> Strip(end.buffer)] /\ end.buffer \in Seq(S) /\ end.done \in Seq(Seq(S))
  <2>1. ASSUME NEW D, NEW B, end \in [done : D, buffer : B]
        PROVE  stripped = [done |-> end.done, buffer |-> Strip(end.buffer)] /\ end.buffer \in B /\ end.done \in D
    BY <2>1
  <2> HIDE DEF stripped
  <2> QED
    BY <1>5, <2>1
<1>8. Strip(end.buffer) \in Seq(S) /\ Ink(Strip(end.buffer)) = Ink(end.buffer)
  BY <1>7, StripKeepsInk
<1>9. stripped \in [done : Seq(Seq(S)), buffer : Seq(S)] /\ AccInk(stripped) = AccInk(end)
  BY <1>7, <1>8 DEF AccInk
<1> HIDE DEF stripped
<1>10. Flushed(stripped) \in Seq(Seq(S)) /\ AllInk(Flushed(stripped)) = AccInk(stripped)
  BY <1>9, FlushedText
<1> QED
  BY <1>4, <1>5, <1>6, <1>9, <1>10

\* The elements of x that are wanted.
Kept(n, wanted, x) == Concatenated([i \in 1..n |-> When(i \in wanted, x[i])])

\* What is kept is what is wanted.
LEMMA KeptElements ==
    ASSUME NEW T, NEW n \in Nat, NEW wanted, NEW x \in [1..n -> T]
    PROVE  /\ Kept(n, wanted, x) \in Seq(T)
           /\ \A y : y \in Range(Kept(n, wanted, x)) <=> \E i \in 1..n : i \in wanted /\ y = x[i]
<1> DEFINE kept == [i \in 1..n |-> When(i \in wanted, x[i])]
<1>1. ASSUME NEW i \in 1..n
      PROVE  When(i \in wanted, x[i]) \in Seq(T) /\ \A y : y \in Range(When(i \in wanted, x[i])) <=> i \in wanted /\ y = x[i]
  <2>1. x[i] \in T
    OBVIOUS
  <2>2. CASE i \in wanted
    BY <2>1, <2>2 DEF When, Range
  <2>3. CASE i \notin wanted
    BY <2>3 DEF When, Range
  <2> QED
    BY <2>2, <2>3
<1>2. kept \in [1..n -> Seq(T)] /\ \A i \in 1..n : kept[i] = When(i \in wanted, x[i])
  BY <1>1
<1> HIDE DEF kept
<1>3. kept \in Seq(Seq(T)) /\ DOMAIN kept = 1..n
  BY <1>2
<1>4. /\ Concatenated(kept) \in Seq(T)
      /\ \A y : y \in Range(Concatenated(kept)) <=> \E i \in DOMAIN kept : y \in Range(kept[i])
  BY <1>3, ConcatenatedElements
<1>5. \A y : y \in Range(Concatenated(kept)) <=> \E i \in 1..n : i \in wanted /\ y = x[i]
  <2>1. ASSUME NEW y, NEW i \in 1..n PROVE y \in Range(kept[i]) <=> i \in wanted /\ y = x[i]
    BY <1>1, <1>2
  <2> QED
    BY <1>3, <1>4, <2>1
<1> QED
  BY <1>4, <1>5 DEF kept, Kept
----------------------------------------------------------------------------
(* A file and its text                                                      *)

\* The characters of a part of a file, and blanks.
Place(i) == {Blank} \cup ({i} \X Nat \X Nat \X Nat)

\* The sentences of a part as texts.
TextOf(file, i) == [p \in DOMAIN file.parts[i].text |-> Sentences(file, i, p)]

\* A character tells the part it is of.
LEMMA PlaceIsTold ==
    ASSUME NEW i, NEW c \in Place(i), c # Blank
    PROVE  c[1] = i
BY DEF Place

\* A function on the first n numbers is a sequence.
LEMMA SeqOfFunction ==
    ASSUME NEW T, NEW n \in Nat, NEW s \in [1..n -> T]
    PROVE  s \in Seq(T) /\ Len(s) = n /\ DOMAIN s = 1..n
OBVIOUS

\* What a part of a file has.
LEMMA FileHas ==
    ASSUME NEW file \in File, NEW i \in DOMAIN file.parts
    PROVE  /\ Len(file.parts) \in Nat /\ DOMAIN file.parts = 1..Len(file.parts) /\ i \in Nat \ {0}
           /\ file.parts[i].title \in STRING
           /\ file.parts[i].readable \in BOOLEAN
           /\ file.parts[i].text \in Seq(Seq(Nat))
<1> DEFINE Part == [title : STRING, text : Seq(Seq(Nat)), readable : BOOLEAN]
<1>1. file.parts \in Seq(Part)
  BY DEF File
<1> HIDE DEF Part
<1>2. Len(file.parts) \in Nat /\ DOMAIN file.parts = 1..Len(file.parts) /\ file.parts[i] \in Part
  BY <1>1
<1> QED
  BY <1>2 DEF Part

\* The characters of a sentence are of its part, and none is a blank.
LEMMA CharactersText ==
    ASSUME NEW i \in Nat, NEW p \in Nat, NEW s \in Nat, NEW n \in Nat
    PROVE  /\ Characters(i, p, s, n) \in Seq(Place(i))
           /\ Range(Characters(i, p, s, n)) = Ink(Characters(i, p, s, n))
<1>1. \A k \in 1..n : <<i, p, s, k>> \in Place(i) /\ <<i, p, s, k>> # Blank
  BY DEF Place, Blank
<1>2. Characters(i, p, s, n) \in [1..n -> Place(i)]
  BY <1>1 DEF Characters
<1>3. Characters(i, p, s, n) \in Seq(Place(i))
  BY <1>2, SeqOfFunction
<1>4. Blank \notin Range(Characters(i, p, s, n))
  BY <1>1 DEF Characters, Range
<1> QED
  BY <1>3, <1>4 DEF Ink

\* The text of a part, sentence by sentence.
LEMMA TextOfPart ==
    ASSUME NEW file \in File, NEW i \in DOMAIN file.parts
    PROVE  /\ TextOf(file, i) \in Seq(Seq(Seq(Place(i))))
           /\ DOMAIN TextOf(file, i) = DOMAIN file.parts[i].text
           /\ \A p \in DOMAIN file.parts[i].text :
                /\ TextOf(file, i)[p] = Sentences(file, i, p)
                /\ Sentences(file, i, p) \in Seq(Seq(Place(i)))
                /\ DOMAIN Sentences(file, i, p) = DOMAIN file.parts[i].text[p]
                /\ \A s \in DOMAIN file.parts[i].text[p] :
                     Range(Sentences(file, i, p)[s]) = Ink(Sentences(file, i, p)[s])
<1> DEFINE text == file.parts[i].text
           T == Seq(Place(i))
<1>1. text \in Seq(Seq(Nat)) /\ i \in Nat
  BY FileHas
<1> HIDE DEF text
<1>2. Len(text) \in Nat /\ DOMAIN text = 1..Len(text)
  BY <1>1
<1>3. ASSUME NEW p \in DOMAIN text
      PROVE  /\ Sentences(file, i, p) \in Seq(T)
             /\ DOMAIN Sentences(file, i, p) = DOMAIN text[p]
             /\ \A s \in DOMAIN text[p] :
                  Range(Sentences(file, i, p)[s]) = Ink(Sentences(file, i, p)[s])
  <2>1. text[p] \in Seq(Nat) /\ p \in Nat
    BY <1>1, <1>2
  <2>2. Len(text[p]) \in Nat /\ DOMAIN text[p] = 1..Len(text[p])
    BY <2>1
  <2>3. Sentences(file, i, p) = [s \in 1..Len(text[p]) |-> Characters(i, p, s, text[p][s])]
    BY <2>2 DEF Sentences, text
  <2>4. ASSUME NEW s \in 1..Len(text[p])
        PROVE  /\ Characters(i, p, s, text[p][s]) \in T
               /\ Range(Characters(i, p, s, text[p][s])) = Ink(Characters(i, p, s, text[p][s]))
    <3>1. text[p][s] \in Nat /\ s \in Nat
      BY <2>1, <2>2
    <3> QED
      BY <1>1, <2>1, <3>1, CharactersText
  <2>5. Sentences(file, i, p) \in [1..Len(text[p]) -> T]
    BY <2>3, <2>4
  <2> HIDE DEF T
  <2>6. Sentences(file, i, p) \in Seq(T) /\ DOMAIN Sentences(file, i, p) = 1..Len(text[p])
    BY <2>2, <2>5, SeqOfFunction
  <2> QED
    BY <2>2, <2>3, <2>4, <2>6
<1> HIDE DEF T
<1>4. TextOf(file, i) = [p \in 1..Len(text) |-> Sentences(file, i, p)]
  BY <1>2 DEF TextOf, text
<1>5. TextOf(file, i) \in [1..Len(text) -> Seq(T)]
  BY <1>2, <1>3, <1>4
<1>6. TextOf(file, i) \in Seq(Seq(T)) /\ DOMAIN TextOf(file, i) = 1..Len(text)
  BY <1>2, <1>5, SeqOfFunction
<1> QED
  BY <1>2, <1>3, <1>4, <1>6 DEF T, text

\* A cell that has a column is in the text of its sheet.
LEMMA SerializedText ==
    ASSUME NEW S, Blank \in S, NEW sheet \in Seq(Seq(Seq(S))), sheet # <<>>
    PROVE  /\ Serialized(sheet) \in Seq(S)
           /\ \A r \in DOMAIN sheet : \A c \in DOMAIN sheet[r] :
                r > 1 /\ c \in DOMAIN sheet[1] => Ink(sheet[r][c]) \subseteq Ink(Serialized(sheet))
<1> DEFINE Width(r) == Min({Len(sheet[1]), Len(sheet[r])})
           Pair(r, c) == IF sheet[r][c] = <<>> THEN <<>> ELSE Joined(sheet[1][c], 2, sheet[r][c])
           Pairs(r) == [c \in 1..Width(r) |-> Pair(r, c)]
           Line(r) == Between(Pairs(r), 3)
           Lines == [r \in 1..(Len(sheet) - 1) |-> Line(r + 1)]
           lines == Between(Lines, 1)
           names == Between(sheet[1], 3)
<1>1. Len(sheet) \in Nat \ {0} /\ DOMAIN sheet = 1..Len(sheet) /\ 1 \in DOMAIN sheet /\ Len(sheet) - 1 \in Nat
  <2> DEFINE T == Seq(Seq(S))
  <2>1. sheet \in Seq(T)
    OBVIOUS
  <2> HIDE DEF T
  <2> QED
    BY <2>1
<1>2. ASSUME NEW r \in DOMAIN sheet
      PROVE  /\ sheet[r] \in Seq(Seq(S)) /\ Len(sheet[r]) \in Nat /\ DOMAIN sheet[r] = 1..Len(sheet[r])
             /\ \A c \in DOMAIN sheet[r] : sheet[r][c] \in Seq(S)
  <2>1. sheet[r] \in Seq(Seq(S))
    OBVIOUS
  <2> DEFINE T == Seq(S)
  <2> HIDE DEF T
  <2>2. ASSUME NEW t \in Seq(T) PROVE Len(t) \in Nat /\ DOMAIN t = 1..Len(t) /\ \A c \in DOMAIN t : t[c] \in T
    OBVIOUS
  <2> QED
    BY <2>1, <2>2 DEF T
<1>3. ASSUME NEW r \in DOMAIN sheet
      PROVE  /\ Width(r) \in Nat /\ Width(r) <= Len(sheet[1]) /\ Width(r) <= Len(sheet[r])
             /\ \A c \in DOMAIN sheet[r] : c \in DOMAIN sheet[1] => c \in 1..Width(r)
  <2>1. Len(sheet[1]) \in Nat /\ Len(sheet[r]) \in Nat
    BY <1>1, <1>2
  <2>2. \E m \in {Len(sheet[1]), Len(sheet[r])} : \A j \in {Len(sheet[1]), Len(sheet[r])} : m <= j
    BY <2>1
  <2>3. Width(r) \in {Len(sheet[1]), Len(sheet[r])} /\ \A j \in {Len(sheet[1]), Len(sheet[r])} : Width(r) <= j
    BY <2>2 DEF Min
  <2> HIDE DEF Width
  <2>4. DOMAIN sheet[1] = 1..Len(sheet[1]) /\ DOMAIN sheet[r] = 1..Len(sheet[r])
    BY <1>1, <1>2
  <2>5. Width(r) \in Nat /\ Width(r) <= Len(sheet[1]) /\ Width(r) <= Len(sheet[r])
    BY <2>1, <2>3
  <2>6. ASSUME NEW c \in DOMAIN sheet[r], c \in DOMAIN sheet[1] PROVE c \in 1..Width(r)
    BY <2>1, <2>3, <2>4, <2>6
  <2> QED
    BY <2>5, <2>6
<1> HIDE DEF Width
<1>4. ASSUME NEW r \in DOMAIN sheet, NEW c \in 1..Width(r)
      PROVE  Pair(r, c) \in Seq(S) /\ Ink(sheet[r][c]) \subseteq Ink(Pair(r, c))
  <2>1. c \in DOMAIN sheet[1] /\ c \in DOMAIN sheet[r]
    <3>1. Len(sheet[1]) \in Nat /\ Len(sheet[r]) \in Nat /\ Width(r) \in Nat
      BY <1>1, <1>2, <1>3
    <3>2. Width(r) <= Len(sheet[1]) /\ Width(r) <= Len(sheet[r])
      BY <1>3
    <3>3. c \in 1..Len(sheet[1]) /\ c \in 1..Len(sheet[r])
      BY <3>1, <3>2
    <3> QED
      BY <1>1, <1>2, <3>3
  <2>2. sheet[1][c] \in Seq(S) /\ sheet[r][c] \in Seq(S)
    BY <1>1, <1>2, <2>1
  <2>3. CASE sheet[r][c] = <<>>
    BY <2>3, InkOfNothing
  <2>4. CASE sheet[r][c] # <<>>
    <3>1. /\ Joined(sheet[1][c], 2, sheet[r][c]) \in Seq(S)
          /\ Ink(Joined(sheet[1][c], 2, sheet[r][c])) = Ink(sheet[1][c]) \cup Ink(sheet[r][c])
      <4>1. ASSUME NEW name \in Seq(S), NEW value \in Seq(S)
            PROVE  /\ Joined(name, 2, value) \in Seq(S)
                   /\ Ink(Joined(name, 2, value)) = Ink(name) \cup Ink(value)
        BY JoinedText
      <4> QED
        BY <2>2, <4>1
    <3> QED
      BY <2>4, <3>1
  <2> QED
    BY <2>3, <2>4
<1> HIDE DEF Pair
<1>5. ASSUME NEW r \in DOMAIN sheet
      PROVE  /\ Line(r) \in Seq(S)
             /\ \A c \in 1..Width(r) : Ink(sheet[r][c]) \subseteq Ink(Line(r))
  <2>1. Pairs(r) \in [1..Width(r) -> Seq(S)] /\ Width(r) \in Nat
    BY <1>3, <1>4
  <2>2. \A c \in 1..Width(r) : Pairs(r)[c] = Pair(r, c)
    OBVIOUS
  <2> HIDE DEF Pairs
  <2>3. Pairs(r) \in Seq(Seq(S)) /\ DOMAIN Pairs(r) = 1..Width(r)
    <3> DEFINE T == Seq(S)
    <3> HIDE DEF T
    <3>1. Pairs(r) \in [1..Width(r) -> T]
      BY <2>1 DEF T
    <3>2. Pairs(r) \in Seq(T) /\ DOMAIN Pairs(r) = 1..Width(r)
      BY <2>1, <3>1, SeqOfFunction
    <3> QED
      BY <3>2 DEF T
  <2>4. Line(r) \in Seq(S) /\ Ink(Line(r)) = UNION {Ink(Pairs(r)[c]) : c \in DOMAIN Pairs(r)}
    BY <2>3, BetweenText
  <2> HIDE DEF Line
  <2>5. ASSUME NEW c \in 1..Width(r) PROVE Ink(sheet[r][c]) \subseteq Ink(Line(r))
    <3>1. Ink(sheet[r][c]) \subseteq Ink(Pairs(r)[c])
      BY <1>4, <2>2
    <3> QED
      BY <2>3, <2>4, <3>1
  <2> QED
    BY <2>4, <2>5
<1> HIDE DEF Line
<1>6. Lines \in [1..(Len(sheet) - 1) -> Seq(S)] /\ \A r \in 1..(Len(sheet) - 1) : Lines[r] = Line(r + 1)
  <2>1. \A r \in 1..(Len(sheet) - 1) : r + 1 \in DOMAIN sheet
    BY <1>1
  <2> QED
    BY <1>5, <2>1
<1> HIDE DEF Lines
<1>7. Lines \in Seq(Seq(S)) /\ DOMAIN Lines = 1..(Len(sheet) - 1)
  <2> DEFINE T == Seq(S)
  <2> HIDE DEF T
  <2>1. Lines \in [1..(Len(sheet) - 1) -> T]
    BY <1>6 DEF T
  <2>2. Lines \in Seq(T) /\ DOMAIN Lines = 1..(Len(sheet) - 1)
    BY <1>1, <2>1, SeqOfFunction
  <2> QED
    BY <2>2 DEF T
<1>8. lines \in Seq(S) /\ Ink(lines) = UNION {Ink(Lines[r]) : r \in DOMAIN Lines}
  BY <1>7, BetweenText
<1>9. names \in Seq(S)
  <2>1. sheet[1] \in Seq(Seq(S))
    BY <1>1, <1>2
  <2> QED
    BY <2>1, BetweenText
<1>10. Serialized(sheet) = IF lines = <<>> THEN names ELSE lines
  BY DEF Serialized, Lines, Line, Pairs, Pair, Width
<1> HIDE DEF lines, names
<1>11. ASSUME NEW r \in DOMAIN sheet, NEW c \in DOMAIN sheet[r], r > 1, c \in DOMAIN sheet[1]
       PROVE  Ink(sheet[r][c]) \subseteq Ink(Serialized(sheet))
  <2>1. c \in 1..Width(r)
    BY <1>3, <1>11
  <2>2. Ink(sheet[r][c]) \subseteq Ink(Line(r))
    BY <1>5, <2>1
  <2>3. r - 1 \in DOMAIN Lines /\ Lines[r - 1] = Line(r)
    <3>1. r \in 1..Len(sheet) /\ r > 1
      BY <1>1, <1>11
    <3>2. r - 1 \in 1..(Len(sheet) - 1) /\ (r - 1) + 1 = r
      BY <1>1, <3>1
    <3> QED
      BY <1>6, <1>7, <3>2
  <2>4. Ink(Line(r)) \subseteq Ink(lines)
    BY <1>8, <2>3
  <2>5. lines = <<>> => Ink(lines) = {}
    BY InkOfNothing
  <2> QED
    BY <1>10, <2>2, <2>4, <2>5
<1> QED
  BY <1>8, <1>9, <1>10, <1>11
----------------------------------------------------------------------------
(* The size of a chunk                                                      *)

\* The texts of at most m characters.
Fit(S, m) == {t \in Seq(S) : Len(t) <= m}

\* A piece of a sequence has the length of its interval.
LEMMA SubSeqLength ==
    ASSUME NEW S, NEW s \in Seq(S), NEW m \in Nat \ {0}, NEW n \in Nat, n <= Len(s)
    PROVE  Len(SubSeq(s, m, n)) = IF m <= n THEN n - m + 1 ELSE 0
<1>1. \A i \in m..n : s[i] \in S
  OBVIOUS
<1> QED
  BY <1>1, SubSeqProperties

\* Stripping makes nothing longer.
LEMMA StripFits ==
    ASSUME NEW S, NEW text \in Seq(S)
    PROVE  Len(Strip(text)) <= Len(text)
<1> DEFINE ink == {i \in DOMAIN text : text[i] # Blank}
<1>1. Len(text) \in Nat /\ ink \in SUBSET (1..Len(text))
  OBVIOUS
<1>2. CASE ink = {}
  BY <1>1, <1>2 DEF Strip
<1>3. CASE ink # {}
  <2>1. Strip(text) = SubSeq(text, Min(ink), Max(ink))
    BY <1>3 DEF Strip
  <2> HIDE DEF ink
  <2>2. Min(ink) \in ink /\ Max(ink) \in ink
    BY <1>1, <1>3, MinOfIndices, MaxOfIndices
  <2>3. Min(ink) \in 1..Len(text) /\ Max(ink) \in 1..Len(text)
    BY <1>1, <2>2
  <2>4. Len(Strip(text)) = IF Min(ink) <= Max(ink) THEN Max(ink) - Min(ink) + 1 ELSE 0
    BY <1>1, <2>1, <2>3, SubSeqLength
  <2> QED
    BY <1>1, <2>3, <2>4
<1> QED
  BY <1>2, <1>3

\* A joint is no longer than the texts and the blanks between them.
LEMMA JoinedFits ==
    ASSUME NEW S, Blank \in S, NEW n \in Nat, NEW buffer \in Seq(S), NEW text \in Seq(S)
    PROVE  Len(Joined(buffer, n, text)) <= Len(buffer) + n + Len(text)
<1>0. Len(buffer) \in Nat /\ Len(text) \in Nat
  OBVIOUS
<1>1. CASE buffer = <<>>
  BY <1>0, <1>1 DEF Joined
<1>2. CASE buffer # <<>>
  <2>1. Blanks(n) \in Seq(S) /\ Len(Blanks(n)) = n
    <3>1. Blanks(n) \in [1..n -> S]
      BY DEF Blanks
    <3> QED
      BY <3>1, SeqOfFunction
  <2>2. buffer \o Blanks(n) \in Seq(S) /\ Len(buffer \o Blanks(n)) = Len(buffer) + n
    BY <2>1, ConcatProperties
  <2>3. ASSUME NEW s \in Seq(S)
        PROVE  s \o text \in Seq(S) /\ Len(s \o text) = Len(s) + Len(text)
    BY ConcatProperties
  <2>4. /\ (buffer \o Blanks(n)) \o text \in Seq(S)
        /\ Len((buffer \o Blanks(n)) \o text) = Len(buffer) + n + Len(text)
    BY <2>2, <2>3
  <2>5. Joined(buffer, n, text) = Strip((buffer \o Blanks(n)) \o text)
    BY <1>2 DEF Joined
  <2>6. Len(Joined(buffer, n, text)) <= Len((buffer \o Blanks(n)) \o text)
    BY <2>4, <2>5, StripFits
  <2> QED
    BY <1>2, <2>4, <2>6
<1> QED
  BY <1>1, <1>2

\* A window is no longer than a chunk.
LEMMA WindowsFit ==
    ASSUME NEW S, NEW sentence \in Seq(S)
    PROVE  Windows(sentence) \in Seq(Fit(S, ChunkChars))
<1> DEFINE n == Len(sentence)
           count == (n + ChunkChars - 1) \div ChunkChars
           First(k) == (k - 1) * ChunkChars + 1
           End(k) == Min({k * ChunkChars, n})
           Window(k) == SubSeq(sentence, First(k), End(k))
<1>0. ChunkChars \in Nat \ {0} /\ n \in Nat
  BY ChunkAssumption
<1>1. count \in Nat
  <2>1. n + ChunkChars - 1 \in Nat
    BY <1>0
  <2> QED
    BY <1>0, <2>1, Quotient
<1> HIDE DEF count
<1>2. ASSUME NEW k \in 1..count
      PROVE  Window(k) \in Fit(S, ChunkChars)
  <2>1. k \in Nat /\ (k - 1) * ChunkChars \in Nat /\ k * ChunkChars \in Nat
        /\ k * ChunkChars = (k - 1) * ChunkChars + ChunkChars
    BY <1>0, <1>1
  <2>2. \E m \in {k * ChunkChars, n} : \A j \in {k * ChunkChars, n} : m <= j
    BY <1>0, <2>1
  <2>3. End(k) \in {k * ChunkChars, n} /\ \A j \in {k * ChunkChars, n} : End(k) <= j
    BY <2>2 DEF Min
  <2>4. First(k) \in Nat \ {0} /\ End(k) \in Nat /\ End(k) <= n /\ End(k) - First(k) + 1 <= ChunkChars
    BY <1>0, <2>1, <2>3
  <2> HIDE DEF First, End
  <2>5. Window(k) \in Seq(S)
    BY <2>4, SubSeqElements
  <2>6. Len(Window(k)) = IF First(k) <= End(k) THEN End(k) - First(k) + 1 ELSE 0
    BY <2>4, SubSeqLength
  <2> HIDE DEF Window
  <2> QED
    BY <1>0, <2>4, <2>5, <2>6 DEF Fit
<1>3. Windows(sentence) = [k \in 1..count |-> Window(k)]
  BY DEF Windows, count
<1> HIDE DEF Window
<1>4. Windows(sentence) \in [1..count -> Fit(S, ChunkChars)]
  BY <1>2, <1>3
<1> QED
  BY <1>1, <1>4, SeqOfFunction

\* What is held and what is in the buffer are no longer than m.
Held(S, m) == [done : Seq(Fit(S, m)), buffer : Fit(S, m)]

\* So is what is flushed.
LEMMA FlushedFits ==
    ASSUME NEW S, NEW m, NEW acc \in Held(S, m)
    PROVE  Flushed(acc) \in Seq(Fit(S, m))
<1> DEFINE T == Fit(S, m)
<1>1. acc.done \in Seq(T) /\ acc.buffer \in T
  BY DEF Held
<1> HIDE DEF T
<1>2. Append(acc.done, acc.buffer) \in Seq(T)
  BY <1>1
<1> QED
  BY <1>1, <1>2 DEF Flushed, T

\* A sentence is split off into pieces that fit.
LEMMA SplitStepFits ==
    ASSUME NEW S, Blank \in S, NEW acc \in Held(S, ChunkChars), NEW sentence \in Seq(S)
    PROVE  SplitStep(acc, sentence) \in Held(S, ChunkChars)
<1> DEFINE candidate == Joined(acc.buffer, 1, sentence)
           T == Fit(S, ChunkChars)
<1>1. acc.done \in Seq(T) /\ acc.buffer \in T /\ acc.buffer \in Seq(S)
  BY DEF Held, Fit
<1>2. candidate \in Seq(S)
  BY <1>1, JoinedText
<1>3. Flushed(acc) \in Seq(T) /\ Windows(sentence) \in Seq(T)
  BY FlushedFits, WindowsFit
<1>4. <<>> \in T
  BY ChunkAssumption DEF Fit
<1>5. (Len(candidate) <= ChunkChars => candidate \in T) /\ (Len(sentence) <= ChunkChars => sentence \in T)
  BY <1>2 DEF Fit
<1>6. Held(S, ChunkChars) = [done : Seq(T), buffer : T]
  BY DEF Held
<1> HIDE DEF candidate, T
<1>7. CASE Len(candidate) <= ChunkChars
  <2>1. SplitStep(acc, sentence) = [acc EXCEPT !.buffer = candidate]
    BY <1>7 DEF SplitStep, candidate
  <2> QED
    BY <1>1, <1>5, <1>6, <1>7, <2>1
<1>8. CASE ~(Len(candidate) <= ChunkChars) /\ Len(sentence) <= ChunkChars
  <2>1. SplitStep(acc, sentence) = [done |-> Flushed(acc), buffer |-> sentence]
    BY <1>8 DEF SplitStep, candidate
  <2> QED
    BY <1>3, <1>5, <1>6, <1>8, <2>1
<1>9. CASE ~(Len(candidate) <= ChunkChars) /\ ~(Len(sentence) <= ChunkChars)
  <2>1. SplitStep(acc, sentence) = [done |-> Flushed(acc) \o Windows(sentence), buffer |-> <<>>]
    BY <1>9 DEF SplitStep, candidate
  <2>2. Flushed(acc) \o Windows(sentence) \in Seq(T)
    BY <1>3, ConcatProperties
  <2> QED
    BY <1>4, <1>6, <2>1, <2>2
<1> QED
  BY <1>7, <1>8, <1>9

\* The segments of a paragraph fit.
LEMMA SegmentsFit ==
    ASSUME NEW S, Blank \in S, NEW paragraph \in Seq(Seq(S))
    PROVE  Segments(paragraph) \in Seq(Fit(S, ChunkChars))
<1> DEFINE n == Len(paragraph)
           T == Fit(S, ChunkChars)
<1>1. PICK run \in [0..n -> [done : Seq(Seq(S)), buffer : Seq(S)]] :
             /\ run[0] = [done |-> <<>>, buffer |-> <<>>]
             /\ \A i \in 1..n : run[i] = SplitStep(run[i - 1], paragraph[i])
             /\ FoldLeft(SplitStep, [done |-> <<>>, buffer |-> <<>>], paragraph) = run[n]
  BY SplitRuns
<1>2. n \in Nat /\ \A i \in 1..n : paragraph[i] \in Seq(S)
  OBVIOUS
<1> DEFINE P == {i \in 0..n : run[i] \in Held(S, ChunkChars)}
<1> HIDE DEF n
<1>3. 0 \in P
  <2>1. <<>> \in T
    BY ChunkAssumption DEF Fit
  <2> HIDE DEF T
  <2>2. <<>> \in Seq(T)
    OBVIOUS
  <2>3. run[0] \in Held(S, ChunkChars)
    <3>1. Held(S, ChunkChars) = [done : Seq(T), buffer : T]
      BY DEF Held, T
    <3> QED
      BY <1>1, <2>1, <2>2, <3>1
  <2> QED
    BY <1>2, <2>3
<1>4. ASSUME NEW i \in 1..n, i - 1 \in P PROVE i \in P
  <2>1. i - 1 \in 0..n /\ i \in 0..n /\ run[i - 1] \in Held(S, ChunkChars)
    BY <1>2, <1>4
  <2>2. run[i] = SplitStep(run[i - 1], paragraph[i]) /\ paragraph[i] \in Seq(S)
    BY <1>1, <1>2
  <2>3. SplitStep(run[i - 1], paragraph[i]) \in Held(S, ChunkChars)
    BY <2>1, <2>2, SplitStepFits
  <2> QED
    BY <2>1, <2>2, <2>3
<1> HIDE DEF P
<1>5. n \in P
  <2>1. n \in 0..n
    BY <1>2
  <2> QED
    BY <1>2, <1>3, <1>4, <2>1, IndexInduction
<1>6. SplitLong(paragraph) \in Seq(T)
  BY <1>1, <1>5, FlushedFits DEF SplitLong, P
<1>7. Between(paragraph, 1) \in Seq(S)
  BY BetweenText
<1>8. ASSUME NEW t \in T PROVE <<t>> \in Seq(T)
  <2> HIDE DEF T
  <2> QED
    OBVIOUS
<1> QED
  BY <1>6, <1>7, <1>8 DEF Segments, Fit

\* The overlap is no longer than configured.
LEMMA OverlapFits ==
    ASSUME NEW S, NEW buffer \in Seq(S)
    PROVE  Len(Overlap(buffer)) <= OverlapChars /\ (OverlapChars = 0 => Overlap(buffer) = <<>>)
<1> DEFINE first == Max({1, Len(buffer) - OverlapChars + 1})
<1>1. Len(buffer) \in Nat /\ OverlapChars \in Nat
  BY ChunkAssumption
<1>2. first \in Nat \ {0} /\ Len(buffer) - first + 1 <= OverlapChars
  <2>1. \E m \in {1, Len(buffer) - OverlapChars + 1} :
          \A j \in {1, Len(buffer) - OverlapChars + 1} : m >= j
    BY <1>1
  <2>2. /\ first \in {1, Len(buffer) - OverlapChars + 1}
        /\ first >= 1 /\ first >= Len(buffer) - OverlapChars + 1
    BY <2>1 DEF Max
  <2> QED
    BY <1>1, <2>2
<1> HIDE DEF first
<1>3. Overlap(buffer) = SubSeq(buffer, first, Len(buffer))
  BY DEF Overlap, first
<1>4. Len(Overlap(buffer)) = IF first <= Len(buffer) THEN Len(buffer) - first + 1 ELSE 0
  BY <1>1, <1>2, <1>3, SubSeqLength
<1>5. Overlap(buffer) \in Seq(S)
  BY OverlapText
<1>6. Len(Overlap(buffer)) <= OverlapChars
  BY <1>1, <1>2, <1>4
<1>7. OverlapChars = 0 => Len(Overlap(buffer)) = 0
  BY <1>1, <1>2, <1>4
<1> QED
  BY <1>5, <1>6, <1>7

\* A segment is packed into a chunk that fits.
LEMMA PackStepFits ==
    ASSUME NEW S, Blank \in S, NEW acc \in Held(S, Longest), NEW segment \in Fit(S, ChunkChars)
    PROVE  PackStep(acc, segment) \in Held(S, Longest)
<1> DEFINE candidate == Joined(acc.buffer, 2, segment)
           next == Joined(Overlap(acc.buffer), 2, segment)
           T == Fit(S, Longest)
<1>0. ChunkChars \in Nat /\ OverlapChars \in Nat /\ Longest \in Nat /\ ChunkChars <= Longest
      /\ (OverlapChars # 0 => Longest = OverlapChars + 2 + ChunkChars)
  BY ChunkAssumption DEF Longest
<1>1. acc.done \in Seq(T) /\ acc.buffer \in T /\ acc.buffer \in Seq(S)
  BY DEF Held, Fit
<1>2. segment \in Seq(S) /\ Len(segment) \in Nat /\ Len(segment) <= ChunkChars
  BY DEF Fit
<1>3. segment \in T
  BY <1>0, <1>2 DEF Fit
<1>4. candidate \in Seq(S) /\ (Len(candidate) <= ChunkChars => candidate \in T)
  <2>1. candidate \in Seq(S)
    BY <1>1, <1>2, JoinedText
  <2>2. Len(candidate) \in Nat
    BY <2>1
  <2> QED
    BY <1>0, <2>1, <2>2 DEF Fit
<1>5. next \in T
  <2>1. Overlap(acc.buffer) \in Seq(S)
    BY <1>1, OverlapText
  <2>2. Len(Overlap(acc.buffer)) <= OverlapChars /\ (OverlapChars = 0 => Overlap(acc.buffer) = <<>>)
    BY <1>1, OverlapFits
  <2>3. next \in Seq(S)
    BY <1>2, <2>1, JoinedText
  <2>4. Len(next) <= Len(Overlap(acc.buffer)) + 2 + Len(segment)
    <3>1. ASSUME NEW n \in Nat, n = 2
          PROVE  Len(Joined(Overlap(acc.buffer), n, segment)) <=
                   Len(Overlap(acc.buffer)) + n + Len(segment)
      BY <1>2, <2>1, JoinedFits
    <3> QED
      BY <3>1
  <2>5. Len(next) \in Nat /\ Len(Overlap(acc.buffer)) \in Nat
    BY <2>1, <2>3
  <2>6. Overlap(acc.buffer) = <<>> => next = segment
    BY DEF Joined
  <2> HIDE DEF next
  <2>7. Len(next) <= Longest
    BY <1>0, <1>2, <2>2, <2>4, <2>5, <2>6
  <2> QED
    BY <2>3, <2>7 DEF Fit
<1>6. Held(S, Longest) = [done : Seq(T), buffer : T]
  BY DEF Held
<1> HIDE DEF candidate, next, T
<1>7. CASE Len(candidate) <= ChunkChars
  <2>1. PackStep(acc, segment) = [acc EXCEPT !.buffer = candidate]
    BY <1>7 DEF PackStep, candidate
  <2> QED
    BY <1>1, <1>4, <1>6, <1>7, <2>1
<1>8. CASE ~(Len(candidate) <= ChunkChars) /\ acc.buffer = <<>>
  <2>1. PackStep(acc, segment) = [acc EXCEPT !.buffer = segment]
    BY <1>8 DEF PackStep, candidate
  <2> QED
    BY <1>1, <1>3, <1>6, <2>1
<1>9. CASE ~(Len(candidate) <= ChunkChars) /\ acc.buffer # <<>>
  <2>1. PackStep(acc, segment) = [done |-> Append(acc.done, acc.buffer), buffer |-> next]
    BY <1>9 DEF PackStep, candidate, next
  <2>2. Append(acc.done, acc.buffer) \in Seq(T)
    BY <1>1
  <2> QED
    BY <1>5, <1>6, <2>1, <2>2
<1> QED
  BY <1>7, <1>8, <1>9

\* What is packed fits.
LEMMA PackFits ==
    ASSUME NEW S, Blank \in S, NEW segments \in Seq(Fit(S, ChunkChars))
    PROVE  FoldLeft(PackStep, [done |-> <<>>, buffer |-> <<>>], segments) \in Held(S, Longest)
<1> DEFINE n == Len(segments)
           T == Fit(S, Longest)
           U == Fit(S, ChunkChars)
<1>0. segments \in Seq(Seq(S)) /\ n \in Nat /\ \A i \in 1..n : segments[i] \in U
  <2>1. n \in Nat /\ DOMAIN segments = 1..n /\ segments \in [1..n -> U]
    <3> HIDE DEF U
    <3>1. segments \in Seq(U)
      BY DEF U
    <3> QED
      BY <3>1
  <2>2. U \subseteq Seq(S)
    BY DEF Fit
  <2> HIDE DEF U, n
  <2>3. segments \in [1..n -> Seq(S)]
    BY <2>1, <2>2
  <2> QED
    BY <2>1, <2>3, SeqOfFunction
<1>1. PICK run \in [0..n -> [done : Seq(Seq(S)), buffer : Seq(S)]] :
             /\ run[0] = [done |-> <<>>, buffer |-> <<>>]
             /\ \A i \in 1..n : run[i] = PackStep(run[i - 1], segments[i])
             /\ FoldLeft(PackStep, [done |-> <<>>, buffer |-> <<>>], segments) = run[n]
  BY <1>0, PackRuns
<1> DEFINE P == {i \in 0..n : run[i] \in Held(S, Longest)}
<1> HIDE DEF n
<1>3. 0 \in P
  <2>1. <<>> \in T
    BY ChunkAssumption DEF Fit, Longest
  <2> HIDE DEF T
  <2>2. <<>> \in Seq(T)
    OBVIOUS
  <2> QED
    BY <1>0, <1>1, <2>1, <2>2 DEF Held, T
<1>4. ASSUME NEW i \in 1..n, i - 1 \in P PROVE i \in P
  <2>1. i - 1 \in 0..n /\ i \in 0..n /\ run[i - 1] \in Held(S, Longest)
    BY <1>0, <1>4
  <2>2. run[i] = PackStep(run[i - 1], segments[i]) /\ segments[i] \in U
    BY <1>0, <1>1
  <2>3. PackStep(run[i - 1], segments[i]) \in Held(S, Longest)
    BY <2>1, <2>2, PackStepFits
  <2> QED
    BY <2>1, <2>2, <2>3
<1> HIDE DEF P
<1>5. n \in P
  <2>1. n \in 0..n
    BY <1>0
  <2> QED
    BY <1>0, <1>3, <1>4, <2>1, IndexInduction
<1> QED
  BY <1>1, <1>5 DEF P

\* The chunks of a block fit.
LEMMA PackedFits ==
    ASSUME NEW S, Blank \in S, NEW block, block.paragraphs \in Seq(Seq(Seq(S)))
    PROVE  Packed(block) \in Seq(Fit(S, Longest))
<1> DEFINE paragraphs == block.paragraphs
           segs == [p \in DOMAIN paragraphs |-> Segments(paragraphs[p])]
           segments == Concatenated(segs)
           end == FoldLeft(PackStep, [done |-> <<>>, buffer |-> <<>>], segments)
           stripped == [end EXCEPT !.buffer = Strip(@)]
           T == Fit(S, Longest)
           U == Fit(S, ChunkChars)
<1>1. segments \in Seq(U)
  <2>1. DOMAIN paragraphs = 1..Len(paragraphs) /\ Len(paragraphs) \in Nat
        /\ \A p \in 1..Len(paragraphs) : paragraphs[p] \in Seq(Seq(S))
    <3> DEFINE W == Seq(Seq(S))
    <3>1. paragraphs \in Seq(W)
      OBVIOUS
    <3> HIDE DEF W, paragraphs
    <3> QED
      BY <3>1 DEF W
  <2>2. segs \in [1..Len(paragraphs) -> Seq(U)]
    BY <2>1, SegmentsFit
  <2> HIDE DEF segs, U
  <2>3. segs \in Seq(Seq(U))
    BY <2>1, <2>2, SeqOfFunction
  <2> QED
    BY <2>3, ConcatenatedElements
<1>2. end \in Held(S, Longest)
  <2> HIDE DEF segments
  <2> QED
    BY <1>1, PackFits
<1>3. Packed(block) = Flushed(stripped)
  BY DEF Packed
<1> HIDE DEF segments
<1>4. stripped = [done |-> end.done, buffer |-> Strip(end.buffer)] /\ end.buffer \in T /\ end.done \in Seq(T)
  <2> HIDE DEF end
  <2> QED
    BY <1>2 DEF Held
<1> HIDE DEF end, stripped
<1>5. Strip(end.buffer) \in T
  <2>1. end.buffer \in Seq(S) /\ Len(end.buffer) <= Longest /\ Len(end.buffer) \in Nat
    BY <1>4 DEF Fit
  <2>2. Strip(end.buffer) \in Seq(S) /\ Len(Strip(end.buffer)) <= Len(end.buffer)
    BY <2>1, StripKeepsInk, StripFits
  <2>3. Len(Strip(end.buffer)) \in Nat /\ Longest \in Nat
    BY <2>2, ChunkAssumption DEF Longest
  <2> QED
    BY <2>1, <2>2, <2>3 DEF Fit
<1>6. stripped \in Held(S, Longest)
  BY <1>4, <1>5 DEF Held
<1> QED
  BY <1>3, <1>6, FlushedFits
----------------------------------------------------------------------------
(* The chunks of a file                                                     *)

\* The paragraphs of a part are its own, and hold all of what it says.
LEMMA ParagraphsText ==
    ASSUME NEW file \in File, NEW i \in DOMAIN file.parts
    PROVE  /\ Paragraphs(file, i) \in Seq(Seq(Seq(Place(i))))
           /\ file.parts[i].readable =>
                \A p \in DOMAIN file.parts[i].text : \A s \in DOMAIN file.parts[i].text[p] :
                  Said(file, i, p, s) =>
                    \E q \in DOMAIN Paragraphs(file, i) :
                      Range(Sentences(file, i, p)[s]) \subseteq AllInk(Paragraphs(file, i)[q])
<1> DEFINE text == TextOf(file, i)
           own == file.parts[i].text
           S == Place(i)
           one == <<Serialized(text)>>
<1>0. Blank \in S
  BY DEF Place
<1>1. /\ text \in Seq(Seq(Seq(S))) /\ DOMAIN text = DOMAIN own
      /\ \A p \in DOMAIN own :
           /\ text[p] = Sentences(file, i, p)
           /\ Sentences(file, i, p) \in Seq(Seq(S))
           /\ DOMAIN Sentences(file, i, p) = DOMAIN own[p]
           /\ \A s \in DOMAIN own[p] : Range(Sentences(file, i, p)[s]) = Ink(Sentences(file, i, p)[s])
  BY TextOfPart
<1>2. Paragraphs(file, i) = IF ~file.parts[i].readable \/ text = <<>> THEN <<>>
                            ELSE IF file.kind = "sheets" THEN <<one>> ELSE text
  BY DEF Paragraphs, TextOf
<1>3. own \in Seq(Seq(Nat)) /\ file.parts[i].readable \in BOOLEAN
  BY FileHas
<1> HIDE DEF S, text, own
<1>4. text # <<>> =>
        /\ Serialized(text) \in Seq(S)
        /\ \A r \in DOMAIN text : \A c \in DOMAIN text[r] :
             r > 1 /\ c \in DOMAIN text[1] => Ink(text[r][c]) \subseteq Ink(Serialized(text))
  BY <1>0, <1>1, SerializedText
<1>5. text # <<>> => one \in Seq(Seq(S)) /\ AllInk(one) = Ink(Serialized(text)) /\ <<one>> \in Seq(Seq(Seq(S)))
  <2> SUFFICES ASSUME text # <<>>
               PROVE one \in Seq(Seq(S)) /\ AllInk(one) = Ink(Serialized(text)) /\ <<one>> \in Seq(Seq(Seq(S)))
    OBVIOUS
  <2>1. one \in Seq(Seq(S)) /\ AllInk(one) = Ink(Serialized(text))
    BY <1>4, AllInkOfOne
  <2> HIDE DEF one
  <2>2. <<one>> \in Seq(Seq(Seq(S)))
    <3> DEFINE T == Seq(Seq(S))
    <3>1. one \in T
      BY <2>1
    <3> HIDE DEF T
    <3>2. <<one>> \in Seq(T)
      BY <3>1
    <3> QED
      BY <3>2 DEF T
  <2> QED
    BY <2>1, <2>2
<1>6. Paragraphs(file, i) \in Seq(Seq(Seq(S)))
  <2> DEFINE U == Seq(Seq(Seq(S)))
  <2>1. <<>> \in U /\ text \in U /\ (text # <<>> => <<one>> \in U)
    BY <1>1, <1>5
  <2> HIDE DEF U, one
  <2> QED
    BY <1>2, <2>1 DEF U
<1>7. ASSUME file.parts[i].readable, NEW p \in DOMAIN own, NEW s \in DOMAIN own[p], Said(file, i, p, s)
      PROVE  \E q \in DOMAIN Paragraphs(file, i) :
               Range(Sentences(file, i, p)[s]) \subseteq AllInk(Paragraphs(file, i)[q])
  <2>1. text # <<>> /\ p \in DOMAIN text /\ s \in DOMAIN text[p]
        /\ Range(Sentences(file, i, p)[s]) = Ink(text[p][s])
    BY <1>1
  <2>2. CASE file.kind = "sheets"
    <3>1. Paragraphs(file, i) = <<one>>
      BY <1>2, <1>7, <2>1, <2>2
    <3>2. p > 1 /\ s \in DOMAIN own[1]
      BY <1>7, <2>2 DEF Said, own
    <3>3. s \in DOMAIN text[1]
      <4>1. 1 \in DOMAIN own
        <5>1. DOMAIN own = 1..Len(own) /\ Len(own) \in Nat
          <6> DEFINE T == Seq(Nat)
          <6> HIDE DEF T
          <6>1. own \in Seq(T)
            BY <1>3 DEF T
          <6> QED
            BY <6>1
        <5> QED
          BY <3>2, <5>1
      <4> QED
        BY <1>1, <3>2, <4>1
    <3>4. Ink(text[p][s]) \subseteq AllInk(one)
      BY <1>4, <1>5, <2>1, <3>2, <3>3
    <3> HIDE DEF one
    <3>5. 1 \in DOMAIN <<one>> /\ <<one>>[1] = one
      OBVIOUS
    <3> QED
      BY <2>1, <3>1, <3>4, <3>5
  <2>3. CASE file.kind # "sheets"
    <3>1. Paragraphs(file, i) = text
      BY <1>2, <1>7, <2>1, <2>3
    <3>2. Ink(text[p][s]) \subseteq AllInk(text[p])
      BY <2>1 DEF AllInk
    <3> QED
      BY <2>1, <3>1, <3>2
  <2> QED
    BY <2>2, <2>3
<1> QED
  BY <1>6, <1>7 DEF own, S

----------------------------------------------------------------------------
BlockOf(file, i) == [paragraphs |-> Paragraphs(file, i), page |-> PageOf(file, i),
                     section |-> SectionOf(file, i)]
BlocksOf(file) == {BlockOf(file, i) : i \in DOMAIN file.parts}

\* There is a block for every part that is not empty, and no other.
LEMMA ExtractedBlocks ==
    ASSUME NEW file \in File
    PROVE  /\ Extracted(file) \in Seq(BlocksOf(file))
           /\ \A y : y \in Range(Extracted(file)) <=>
                \E i \in DOMAIN file.parts : Paragraphs(file, i) # <<>> /\ y = BlockOf(file, i)
<1> DEFINE n == Len(file.parts)
           wanted == {i \in 1..n : Paragraphs(file, i) # <<>>}
           x == [i \in 1..n |-> BlockOf(file, i)]
<1>1. n \in Nat /\ DOMAIN file.parts = 1..n
  <2> DEFINE Part == [title : STRING, text : Seq(Seq(Nat)), readable : BOOLEAN]
  <2>1. file.parts \in Seq(Part)
    BY DEF File
  <2> HIDE DEF Part
  <2> QED
    BY <2>1
<1> HIDE DEF n
<1>2. x \in [1..n -> BlocksOf(file)]
  BY <1>1 DEF BlocksOf
<1>3. Extracted(file) = Kept(n, wanted, x)
  <2>1. \A i \in 1..n : When(i \in wanted, x[i]) = When(Paragraphs(file, i) # <<>>, BlockOf(file, i))
    BY DEF When
  <2> HIDE DEF wanted, x
  <2> QED
    BY <1>1, <2>1 DEF Extracted, BlockOf, Kept
<1>4. \A i \in 1..n : (i \in wanted <=> Paragraphs(file, i) # <<>>) /\ x[i] = BlockOf(file, i)
  OBVIOUS
<1> HIDE DEF wanted, x
<1>5. /\ Kept(n, wanted, x) \in Seq(BlocksOf(file))
      /\ \A y : y \in Range(Kept(n, wanted, x)) <=> \E i \in 1..n : i \in wanted /\ y = x[i]
  <2> DEFINE T == BlocksOf(file)
  <2>1. n \in Nat /\ x \in [1..n -> T]
    BY <1>1, <1>2
  <2> HIDE DEF T
  <2>2. ASSUME NEW z \in [1..n -> T]
        PROVE  /\ Kept(n, wanted, z) \in Seq(T)
               /\ \A y : y \in Range(Kept(n, wanted, z)) <=> \E i \in 1..n : i \in wanted /\ y = z[i]
    BY <2>1, KeptElements
  <2>3. /\ Kept(n, wanted, x) \in Seq(T)
        /\ \A y : y \in Range(Kept(n, wanted, x)) <=> \E i \in 1..n : i \in wanted /\ y = x[i]
    BY <2>1, <2>2
  <2> QED
    BY <2>3 DEF T
<1>6. Extracted(file) \in Seq(BlocksOf(file))
  BY <1>3, <1>5
<1>7. \A y : y \in Range(Extracted(file)) <=> \E i \in 1..n : i \in wanted /\ y = x[i]
  BY <1>3, <1>5
<1> QED
  BY <1>1, <1>4, <1>6, <1>7

ChunkOf(b, k) == [text |-> Packed(b)[k], page |-> b.page, section |-> b.section]

\* The chunks of a stream of blocks are those of each of its blocks.
LEMMA ChunkBlocksElements ==
    ASSUME NEW B, \A b \in B : Len(Packed(b)) \in Nat /\ DOMAIN Packed(b) = 1..Len(Packed(b)),
           NEW blocks \in Seq(B)
    PROVE  /\ Len(ChunkBlocks(blocks)) \in Nat
           /\ DOMAIN ChunkBlocks(blocks) = 1..Len(ChunkBlocks(blocks))
           /\ \A y : y \in Range(ChunkBlocks(blocks)) <=>
                \E b \in Range(blocks) : \E k \in DOMAIN Packed(b) : y = ChunkOf(b, k)
<1> DEFINE T == UNION {{ChunkOf(b, k) : k \in DOMAIN Packed(b)} : b \in B}
           n == Len(blocks)
           Of(b) == [k \in DOMAIN Packed(b) |-> ChunkOf(b, k)]
           all == [i \in 1..n |-> Of(blocks[i])]
<1>1. n \in Nat /\ DOMAIN blocks = 1..n /\ \A i \in 1..n : blocks[i] \in B
  OBVIOUS
<1>2. ASSUME NEW b \in B
      PROVE  Of(b) \in Seq(T) /\ \A y : y \in Range(Of(b)) <=> \E k \in DOMAIN Packed(b) : y = ChunkOf(b, k)
  <2>1. \A k \in DOMAIN Packed(b) : ChunkOf(b, k) \in T
    OBVIOUS
  <2> HIDE DEF T
  <2>2. Of(b) \in [1..Len(Packed(b)) -> T] /\ Len(Packed(b)) \in Nat
    BY <2>1
  <2>3. Of(b) \in Seq(T)
    <3> HIDE DEF Of
    <3> QED
      BY <2>2, SeqOfFunction
  <2>4. \A y : y \in Range(Of(b)) <=> \E k \in DOMAIN Packed(b) : y = ChunkOf(b, k)
    BY DEF Range
  <2> QED
    BY <2>3, <2>4
<1>3. ChunkBlocks(blocks) = Concatenated(all)
  BY <1>1 DEF ChunkBlocks, ChunkOf
<1> HIDE DEF T, Of
<1>4. all \in [1..n -> Seq(T)] /\ \A i \in 1..n : all[i] = Of(blocks[i])
  BY <1>1, <1>2
<1> HIDE DEF all
<1>5. all \in Seq(Seq(T)) /\ DOMAIN all = 1..n
  BY <1>1, <1>4, SeqOfFunction
<1>6. /\ Concatenated(all) \in Seq(T)
      /\ \A y : y \in Range(Concatenated(all)) <=> \E i \in DOMAIN all : y \in Range(all[i])
  BY <1>5, ConcatenatedElements
<1>7. Len(ChunkBlocks(blocks)) \in Nat /\ DOMAIN ChunkBlocks(blocks) = 1..Len(ChunkBlocks(blocks))
  BY <1>3, <1>6
<1>8. ASSUME NEW y
      PROVE  y \in Range(ChunkBlocks(blocks)) <=> \E b \in Range(blocks) : \E k \in DOMAIN Packed(b) : y = ChunkOf(b, k)
  <2>1. y \in Range(ChunkBlocks(blocks)) <=> \E i \in 1..n : y \in Range(Of(blocks[i]))
    BY <1>3, <1>4, <1>5, <1>6
  <2>2. \A i \in 1..n : y \in Range(Of(blocks[i])) <=>
                          \E k \in DOMAIN Packed(blocks[i]) : y = ChunkOf(blocks[i], k)
    BY <1>1, <1>2
  <2>3. Range(blocks) = {blocks[i] : i \in 1..n}
    BY <1>1 DEF Range
  <2> QED
    BY <2>1, <2>2, <2>3
<1> QED
  BY <1>7, <1>8

----------------------------------------------------------------------------
\* A chunk is the text of one part and names its place.
Placed(chunks, file) ==
    \A k \in DOMAIN chunks : \E i \in DOMAIN file.parts :
        /\ chunks[k].text \in Seq(Place(i))
        /\ chunks[k].page = PageOf(file, i)
        /\ chunks[k].section = SectionOf(file, i)

\* Together they hold every character that the file says.
Covered(chunks, file) ==
    \A i \in DOMAIN file.parts : file.parts[i].readable =>
        \A p \in DOMAIN file.parts[i].text : \A s \in DOMAIN file.parts[i].text[p] :
            Said(file, i, p, s) =>
                Range(Sentences(file, i, p)[s]) \subseteq UNION {Range(chunks[k].text) : k \in DOMAIN chunks}

\* What the chunks of a file are: each is the text of one part and names its place, and together they
\* hold every character that the file says.
\* None of them is longer than it may be.
Fitting(chunks) == \A k \in DOMAIN chunks : Len(chunks[k].text) <= Longest

\* The chunks of a file, for any file, size and overlap: each is text of one part and names the
\* place of that part, together they hold every character the file says, and none is longer than a
\* chunk and its overlap (extractors.py, chunker.py).
THEOREM FileChunks ==
    ASSUME NEW file \in File, NEW chunks, chunks = ChunkBlocks(Extracted(file))
    PROVE  /\ Len(chunks) \in Nat /\ DOMAIN chunks = 1..Len(chunks)
           /\ Placed(chunks, file) /\ Covered(chunks, file) /\ Fitting(chunks)
<1>1. ASSUME NEW i \in DOMAIN file.parts
      PROVE  /\ Packed(BlockOf(file, i)) \in Seq(Seq(Place(i)))
             /\ Packed(BlockOf(file, i)) \in Seq(Fit(Place(i), Longest))
             /\ AllInk(Packed(BlockOf(file, i))) =
                  UNION {AllInk(Paragraphs(file, i)[p]) : p \in DOMAIN Paragraphs(file, i)}
  <2> DEFINE b == BlockOf(file, i)
             S == Place(i)
  <2>1. b.paragraphs = Paragraphs(file, i) /\ Paragraphs(file, i) \in Seq(Seq(Seq(S)))
    BY ParagraphsText DEF BlockOf
  <2>2. Blank \in S
    BY DEF Place
  <2> HIDE DEF b, S
  <2>3. /\ Packed(b) \in Seq(Seq(S))
        /\ AllInk(Packed(b)) = UNION {AllInk(b.paragraphs[p]) : p \in DOMAIN b.paragraphs}
    BY <2>1, <2>2, PackedText
  <2>4. Packed(b) \in Seq(Fit(S, Longest))
    BY <2>1, <2>2, PackedFits
  <2> QED
    BY <2>1, <2>3, <2>4 DEF b, S
<1>2. ASSUME NEW b \in BlocksOf(file)
      PROVE  Len(Packed(b)) \in Nat /\ DOMAIN Packed(b) = 1..Len(Packed(b))
  <2>1. PICK i \in DOMAIN file.parts : b = BlockOf(file, i)
    BY DEF BlocksOf
  <2> DEFINE T == Seq(Place(i))
  <2>2. Packed(b) \in Seq(T)
    BY <1>1, <2>1
  <2> HIDE DEF T
  <2> QED
    BY <2>2
<1>3. /\ Extracted(file) \in Seq(BlocksOf(file))
      /\ \A y : y \in Range(Extracted(file)) <=>
           \E i \in DOMAIN file.parts : Paragraphs(file, i) # <<>> /\ y = BlockOf(file, i)
  BY ExtractedBlocks
<1>4. /\ Len(chunks) \in Nat /\ DOMAIN chunks = 1..Len(chunks)
      /\ \A y : y \in Range(chunks) <=>
           \E b \in Range(Extracted(file)) : \E k \in DOMAIN Packed(b) : y = ChunkOf(b, k)
  BY <1>2, <1>3, ChunkBlocksElements
<1>5. ASSUME NEW k \in DOMAIN chunks
      PROVE  \E i \in DOMAIN file.parts : /\ chunks[k].text \in Seq(Place(i))
                                          /\ chunks[k].page = PageOf(file, i)
                                          /\ chunks[k].section = SectionOf(file, i)
                                          /\ Len(chunks[k].text) <= Longest
  <2>1. chunks[k] \in Range(chunks)
    BY DEF Range
  <2>a. PICK b \in Range(Extracted(file)) : \E j \in DOMAIN Packed(b) : chunks[k] = ChunkOf(b, j)
    BY <1>4, <2>1
  <2>2. PICK j \in DOMAIN Packed(b) : chunks[k] = ChunkOf(b, j)
    BY <2>a
  <2>3. PICK i \in DOMAIN file.parts : b = BlockOf(file, i)
    BY <1>3
  <2> DEFINE T == Seq(Place(i))
             U == Fit(Place(i), Longest)
  <2>4. Packed(b) \in Seq(T) /\ Packed(b) \in Seq(U)
    BY <1>1, <2>3
  <2> HIDE DEF T, U
  <2>5. Packed(b)[j] \in T /\ Packed(b)[j] \in U
    BY <2>4
  <2>6. chunks[k].text = Packed(b)[j] /\ chunks[k].page = b.page /\ chunks[k].section = b.section
    BY <2>2 DEF ChunkOf
  <2>7. b.page = PageOf(file, i) /\ b.section = SectionOf(file, i)
    BY <2>3 DEF BlockOf
  <2> QED
    BY <2>5, <2>6, <2>7 DEF T, U, Fit
<1>6. ASSUME NEW i \in DOMAIN file.parts, file.parts[i].readable,
             NEW p \in DOMAIN file.parts[i].text, NEW s \in DOMAIN file.parts[i].text[p],
             Said(file, i, p, s), NEW c \in Range(Sentences(file, i, p)[s])
      PROVE  \E k \in DOMAIN chunks : c \in Range(chunks[k].text)
  <2>1. PICK q \in DOMAIN Paragraphs(file, i) : c \in AllInk(Paragraphs(file, i)[q])
    BY <1>6, ParagraphsText
  <2> DEFINE b == BlockOf(file, i)
  <2>2. Paragraphs(file, i) # <<>>
    BY <2>1
  <2>3. b \in Range(Extracted(file))
    BY <1>3, <2>2
  <2>4. c \in AllInk(Packed(b))
    BY <1>1, <2>1
  <2> HIDE DEF b
  <2>5. PICK j \in DOMAIN Packed(b) : c \in Ink(Packed(b)[j])
    BY <2>4 DEF AllInk
  <2>6. ChunkOf(b, j) \in Range(chunks)
    BY <1>4, <2>3
  <2>7. PICK k \in DOMAIN chunks : chunks[k] = ChunkOf(b, j)
    BY <2>6 DEF Range
  <2>8. chunks[k].text = Packed(b)[j]
    BY <2>7 DEF ChunkOf
  <2> QED
    BY <2>5, <2>8 DEF Ink
<1>7. Covered(chunks, file)
  BY <1>6 DEF Covered
<1>8. Placed(chunks, file)
  BY <1>5 DEF Placed
<1>9. Fitting(chunks)
  BY <1>5 DEF Fitting
<1> QED
  BY <1>4, <1>7, <1>8, <1>9
=============================================================================
