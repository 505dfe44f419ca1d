------------------------- MODULE AnswerCacheProofs -------------------------
(***************************************************************************)
(* Theorems about AnswerCache for any questions, answers, similarity,      *)
(* length of the list, lookups and invalidations, with or without Redis    *)
(* errors.                                                                 *)
(***************************************************************************)
EXTENDS AnswerCache, TLAPS

Members(s) == {s[i] : i \in DOMAIN s}

(* LREM takes the digest out of a list without repetitions, and nothing else.*)
LEMMA WithoutRemoves ==
    ASSUME NEW S, NEW s \in Seq(S), NoDuplicates(s), NEW q
    PROVE  /\ Without(s, q) \in Seq(S)
           /\ NoDuplicates(Without(s, q))
           /\ Members(Without(s, q)) = Members(s) \ {q}
<1>1. CASE \E i \in DOMAIN s : s[i] = q
  <2> DEFINE k == CHOOSE i \in DOMAIN s : s[i] = q
             left == SubSeq(s, 1, k - 1)
             right == SubSeq(s, k + 1, Len(s))
  <2>1. k \in 1 .. Len(s) /\ s[k] = q
    BY <1>1
  <2>2. Without(s, q) = left \o right
    BY <1>1 DEF Without
  <2> HIDE DEF k
  <2>3. /\ left \in Seq(S) /\ Len(left) = k - 1
        /\ \A i \in 1 .. k - 1 : left[i] = s[i]
    BY <2>1
  <2>4. /\ right \in Seq(S) /\ Len(right) = Len(s) - k
        /\ \A i \in 1 .. Len(s) - k : right[i] = s[i + k]
    BY <2>1
  <2> HIDE DEF left, right
  <2> DEFINE rest == left \o right
  <2>5. /\ rest \in Seq(S)
        /\ Len(rest) = Len(s) - 1 /\ DOMAIN rest = 1 .. Len(s) - 1
        /\ \A i \in 1 .. Len(s) - 1 : rest[i] = IF i < k THEN s[i] ELSE s[i + 1]
    <3>1. rest \in Seq(S) /\ Len(rest) = Len(s) - 1
      BY <2>1, <2>3, <2>4
    <3>2. \A i \in 1 .. k - 1 : rest[i] = left[i]
      BY <2>1, <2>3, <2>4
    <3>3. \A i \in k .. Len(s) - 1 : rest[i] = right[i - (k - 1)]
      BY <2>1, <2>3, <2>4
    <3>4. \A i \in 1 .. k - 1 : rest[i] = s[i]
      BY <2>3, <3>2
    <3>5. \A i \in k .. Len(s) - 1 : rest[i] = s[i + 1]
      <4> SUFFICES ASSUME NEW i \in k .. Len(s) - 1 PROVE rest[i] = s[i + 1]
        OBVIOUS
      <4>1. i - (k - 1) \in 1 .. Len(s) - k /\ (i - (k - 1)) + k = i + 1
        BY <2>1
      <4> QED
        BY <2>4, <3>3, <4>1
    <3> HIDE DEF rest
    <3> QED
      BY <2>1, <3>1, <3>4, <3>5
  <2> HIDE DEF rest
  <2>0. DOMAIN s = 1 .. Len(s)
    OBVIOUS
  <2>6. NoDuplicates(rest)
    <3> SUFFICES ASSUME NEW i \in 1 .. Len(s) - 1, NEW j \in 1 .. Len(s) - 1, rest[i] = rest[j]
                 PROVE  i = j
      BY <2>5 DEF NoDuplicates
    <3> DEFINE from(l) == IF l < k THEN l ELSE l + 1
    <3>1. /\ from(i) \in 1 .. Len(s) /\ rest[i] = s[from(i)]
          /\ from(j) \in 1 .. Len(s) /\ rest[j] = s[from(j)]
      BY <2>1, <2>5
    <3>2. from(i) = from(j)
      BY <2>0, <3>1 DEF NoDuplicates
    <3> QED
      BY <2>1, <3>2
  <2>7. ASSUME NEW x \in Members(s) \ {q} PROVE x \in Members(rest)
    <3>1. PICK i \in 1 .. Len(s) : s[i] = x /\ i # k
      BY <2>0, <2>1, <2>7 DEF Members
    <3>2. CASE i < k
      <4>1. i \in 1 .. Len(s) - 1 /\ rest[i] = x
        BY <2>1, <2>5, <3>1, <3>2
      <4> QED
        BY <2>5, <4>1 DEF Members
    <3>3. CASE i > k
      <4>1. i - 1 \in 1 .. Len(s) - 1 /\ rest[i - 1] = x
        BY <2>1, <2>5, <3>1, <3>3
      <4> QED
        BY <2>5, <4>1 DEF Members
    <3> QED
      BY <2>1, <3>1, <3>2, <3>3
  <2>8. ASSUME NEW x \in Members(rest) PROVE x \in Members(s) \ {q}
    <3>1. PICK i \in 1 .. Len(s) - 1 : x = IF i < k THEN s[i] ELSE s[i + 1]
      BY <2>5, <2>8 DEF Members
    <3>2. \A j \in 1 .. Len(s) : j # k => s[j] # q
      BY <2>0, <2>1 DEF NoDuplicates
    <3>3. PICK j \in 1 .. Len(s) : x = s[j] /\ j # k
      BY <2>1, <3>1
    <3> QED
      BY <2>0, <3>2, <3>3 DEF Members
  <2> QED
    BY <2>2, <2>5, <2>6, <2>7, <2>8 DEF rest
<1>2. CASE \A i \in DOMAIN s : s[i] # q
  BY <1>2 DEF Without, Members
<1> QED
  BY <1>1, <1>2

(* A store puts the digest first, lists no other that was not listed, and   *)
(* keeps the list short and free of repetitions.                            *)
LEMMA PushedIsFirst ==
    ASSUME NEW S, NEW s \in Seq(S), NoDuplicates(s), NEW q \in S
    PROVE  /\ Pushed(s, q) \in Seq(S)
           /\ NoDuplicates(Pushed(s, q))
           /\ Len(Pushed(s, q)) <= MaxCandidates
           /\ q \in Members(Pushed(s, q))
           /\ Members(Pushed(s, q)) \subseteq Members(s) \cup {q}
<1> DEFINE w == Without(s, q)
           t == <<q>> \o w
           n == IF Len(t) < MaxCandidates THEN Len(t) ELSE MaxCandidates
<1>1. w \in Seq(S) /\ NoDuplicates(w) /\ Members(w) = Members(s) \ {q}
  BY WithoutRemoves
<1> HIDE DEF w
<1>2. /\ t \in Seq(S) /\ Len(t) = Len(w) + 1 /\ t[1] = q
      /\ \A i \in 2 .. Len(t) : t[i] = w[i - 1] /\ i - 1 \in 1 .. Len(w)
  BY <1>1
<1>3. Pushed(s, q) = SubSeq(t, 1, n)
  BY DEF Pushed, w
<1> HIDE DEF t
<1>4. n \in 1 .. Len(t) /\ n <= MaxCandidates
  BY <1>1, <1>2, CacheAssumption
<1>5. \A i \in 2 .. Len(t) : t[i] \in Members(s) \ {q}
  <2> SUFFICES ASSUME NEW i \in 2 .. Len(t) PROVE t[i] \in Members(s) \ {q}
    OBVIOUS
  <2>1. w[i - 1] \in Members(w)
    BY <1>1, <1>2 DEF Members
  <2> QED
    BY <1>1, <1>2, <2>1
<1>6. NoDuplicates(t)
  <2>1. \A i, j \in 2 .. Len(t) : t[i] = t[j] => i = j
    BY <1>1, <1>2 DEF NoDuplicates
  <2>2. \A i \in 1 .. Len(t) : i = 1 \/ i \in 2 .. Len(t)
    BY <1>2
  <2> QED
    BY <1>2, <1>5, <2>1, <2>2 DEF NoDuplicates
<1> HIDE DEF n
<1>7. /\ SubSeq(t, 1, n) \in Seq(S) /\ Len(SubSeq(t, 1, n)) = n
      /\ \A i \in 1 .. n : SubSeq(t, 1, n)[i] = t[i]
  BY <1>2, <1>4
<1>8. NoDuplicates(SubSeq(t, 1, n))
  BY <1>2, <1>4, <1>6, <1>7 DEF NoDuplicates
<1>9. q \in Members(SubSeq(t, 1, n))
  <2>1. 1 \in DOMAIN SubSeq(t, 1, n) /\ SubSeq(t, 1, n)[1] = q
    BY <1>2, <1>4, <1>7
  <2> QED
    BY <2>1 DEF Members
<1>10. Members(SubSeq(t, 1, n)) \subseteq Members(s) \cup {q}
  <2>1. \A i \in 1 .. n : i = 1 \/ i \in 2 .. Len(t)
    BY <1>2, <1>4
  <2> QED
    BY <1>2, <1>5, <1>7, <2>1 DEF Members
<1> QED
  BY <1>3, <1>4, <1>7, <1>8, <1>9, <1>10

----------------------------------------------------------------------------
(* Types                                                                    *)

(* A lookup that has digests to read has a question.                        *)
TypeInv == TypeOK /\ \A r \in Readers : reader[r].left # <<>> => reader[r].question \in Questions

(* The types are preserved, and only a lookup in progress has digests left. *)
LEMMA TypeStep == TypeInv /\ [Next]_cacheVars => TypeInv'
<1> USE CacheAssumption DEF TypeInv, TypeOK, Lookup, NoLookup, InvalSteps, NoInvalidation
<1> SUFFICES ASSUME TypeInv, [Next]_cacheVars PROVE TypeInv'
  OBVIOUS
<1>1. ASSUME NEW q \in Questions, NEW a \in Answers, StoreAnswer(q, a) PROVE TypeInv'
  <2>1. index' \in Seq(Questions) /\ Len(index') <= MaxCandidates /\ NoDuplicates(index')
    BY <1>1, PushedIsFirst DEF StoreAnswer
  <2>2. ASSUME NEW r \in Readers
        PROVE  /\ reader'[r] \in Lookup
               /\ reader'[r].left = reader[r].left /\ reader'[r].question = reader[r].question
    <3>1. reader'[r] = reader[r] \/ reader'[r] = [reader[r] EXCEPT !.seen = @ \cup {a}]
      BY <1>1, Zenon DEF StoreAnswer, ShownToReaders
    <3>2. reader[r] \in Lookup
      OBVIOUS
    <3>3. [reader[r] EXCEPT !.seen = @ \cup {a}] \in Lookup
      BY <3>2
    <3> QED
      BY <3>1, <3>2, <3>3
  <2>3. reader' \in [Readers -> Lookup]
    <3>1. reader' = [r \in Readers |-> reader'[r]]
      BY <1>1 DEF StoreAnswer, ShownToReaders
    <3> QED
      BY <2>2, <3>1
  <2> QED
    BY <1>1, <2>1, <2>2, <2>3 DEF StoreAnswer
<1>2. ASSUME NEW q \in Questions, ExpireEntry(q) PROVE TypeInv'
  BY <1>2 DEF ExpireEntry
<1>3. CASE ExpireIndex
  BY <1>3 DEF ExpireIndex, NoDuplicates
<1>4. ASSUME NEW r \in Readers, NEW q \in Questions, BeginLookup(r, q) PROVE TypeInv'
  <2>1. Findable \in SUBSET Answers
    BY DEF Findable, known
  <2> QED
    BY <1>4, <2>1 DEF BeginLookup, redis
<1>5. ASSUME NEW r \in Readers, ReadEntry(r) PROVE TypeInv'
  <2>1. Head(reader[r].left) \in Questions /\ Tail(reader[r].left) \in Seq(Questions)
    BY <1>5 DEF ReadEntry
  <2>2. Similarity[<<reader[r].question, Head(reader[r].left)>>] \in Nat
    <3>1. reader[r].question \in Questions
      BY <1>5 DEF ReadEntry
    <3> QED
      BY <2>1, <3>1
  <2> DEFINE q == Head(reader[r].left)
             next == [reader[r] EXCEPT !.left = Tail(@)]
             taken == [next EXCEPT !.best = entry[q], !.score = Similarity[<<reader[r].question, q>>]]
  <2>3. PICK new \in Lookup : reader' = [reader EXCEPT ![r] = new] /\ new.question = reader[r].question
    <3>1. reader' = [reader EXCEPT ![r] = next] \/ reader' = [reader EXCEPT ![r] = taken]
      BY <1>5, Zenon DEF ReadEntry
    <3>2. reader[r] \in Lookup
      OBVIOUS
    <3>3. next \in Lookup /\ next.question = reader[r].question
      BY <2>1, <3>2
    <3>4. taken \in Lookup /\ taken.question = reader[r].question
      BY <2>1, <2>2, <3>3
    <3> QED
      BY <3>1, <3>3, <3>4, Zenon
  <2> QED
    BY <1>5, <2>3 DEF ReadEntry, redis
<1>6. ASSUME NEW r \in Readers, EndLookup(r) PROVE TypeInv'
  BY <1>6 DEF EndLookup, redis
<1>7. ASSUME NEW i \in Invalidators, InvalidationStep(i) \/ EndInvalidation(i) PROVE TypeInv'
  <2>1. CASE ListEntries(i)
    BY <2>1 DEF ListEntries, redis, Listed
  <2>2. CASE DropEntries(i)
    BY <2>2 DEF DropEntries
  <2>3. CASE DropIndex(i)
    <3>1. index' \in Seq(Questions) /\ Len(index') <= MaxCandidates /\ NoDuplicates(index)'
      BY <2>3 DEF DropIndex, NoDuplicates
    <3>2. inval' \in [Invalidators -> [step : InvalSteps, listed : SUBSET Questions]]
      BY <2>3 DEF DropIndex
    <3>3. UNCHANGED <<entry, reader, latest>>
      BY <2>3 DEF DropIndex
    <3> QED
      BY <3>1, <3>2, <3>3
  <2>4. CASE InvalidationFails(i) \/ EndInvalidation(i)
    <3>1. inval' \in [Invalidators -> [step : InvalSteps, listed : SUBSET Questions]]
      BY <2>4 DEF InvalidationFails, EndInvalidation
    <3> QED
      BY <2>4, <3>1 DEF InvalidationFails, EndInvalidation, redis
  <2> QED
    BY <1>7, <2>1, <2>2, <2>3, <2>4 DEF InvalidationStep
<1>8. CASE UNCHANGED cacheVars
  BY <1>8 DEF cacheVars
<1> QED
  BY <1>1, <1>2, <1>3, <1>4, <1>5, <1>6, <1>7, <1>8 DEF Next

(* The invariant that the theorems below use.                               *)
LEMMA TypesKept == Spec => []TypeInv
<1>1. Init => TypeInv
  BY CacheAssumption DEF TypeInv, TypeOK, Lookup, NoLookup, NoInvalidation, InvalSteps, Init, NoDuplicates
<1> QED
  BY <1>1, TypeStep, PTL DEF Spec

(* The types are preserved by every step.                                   *)
THEOREM TypeCorrect == Spec => []TypeOK
BY TypesKept, PTL DEF TypeInv

----------------------------------------------------------------------------
(* A hit is an answer that could be found while the lookup ran              *)

(* What a lookup has found, and what it will find where it still has to     *)
(* look, was findable at some moment since it began.  An entry left behind  *)
(* by an invalidation is not in this set, unless it was listed when the     *)
(* lookup began or was stored since.                                        *)
SeenInv ==
    \A r \in Readers :
        /\ reader[r].best \in reader[r].seen \cup {NoAnswer}
        /\ \A i \in DOMAIN reader[r].left :
              entry[reader[r].left[i]] \in reader[r].seen \cup {NoAnswer}

(* Whatever stores, expiries, invalidations and errors interleave with a    *)
(* lookup, the answer it returns was in the cache at some moment since it   *)
(* began.                                                                   *)
THEOREM HitsStayCurrent == Spec => []HitsAreCurrent
<1> USE DEF TypeInv, TypeOK, SeenInv, NoLookup
<1>1. Init => SeenInv
  BY DEF Init
<1>2. TypeInv /\ SeenInv /\ [Next]_cacheVars => SeenInv'
  <2> SUFFICES ASSUME TypeInv, SeenInv, [Next]_cacheVars PROVE SeenInv'
    OBVIOUS
  <2>0. ASSUME NEW r \in Readers, NEW i \in DOMAIN reader[r].left
        PROVE  reader[r].left[i] \in Questions
    BY DEF Lookup
  <2>1. ASSUME NEW q \in Questions, NEW a \in Answers, StoreAnswer(q, a) PROVE SeenInv'
    <3> SUFFICES ASSUME NEW r \in Readers
                 PROVE  /\ reader'[r].best \in reader'[r].seen \cup {NoAnswer}
                        /\ \A i \in DOMAIN reader'[r].left :
                              entry'[reader'[r].left[i]] \in reader'[r].seen \cup {NoAnswer}
      OBVIOUS
    <3>1. CASE reader[r].question = NoQuestion
      <4>1. reader'[r] = reader[r] /\ reader[r].left = <<>>
        BY <2>1, <3>1, CacheAssumption DEF StoreAnswer, ShownToReaders
      <4> QED
        BY <4>1
    <3>2. CASE reader[r].question # NoQuestion
      <4>1. reader'[r] = [reader[r] EXCEPT !.seen = @ \cup {a}]
        BY <2>1, <3>2 DEF StoreAnswer, ShownToReaders
      <4>2. /\ reader'[r].best = reader[r].best /\ reader'[r].left = reader[r].left
            /\ reader'[r].seen = reader[r].seen \cup {a}
        BY <4>1 DEF Lookup
      <4>3. \A p \in Questions : entry'[p] = entry[p] \/ entry'[p] = a
        BY <2>1 DEF StoreAnswer
      <4> QED
        BY <2>0, <4>2, <4>3
    <3> QED
      BY <3>1, <3>2
  <2>2. ASSUME reader' = reader, \A p \in Questions : entry'[p] \in {entry[p], NoAnswer} PROVE SeenInv'
    BY <2>0, <2>2
  <2>3. ASSUME NEW r \in Readers, NEW q \in Questions, BeginLookup(r, q) PROVE SeenInv'
    <3> DEFINE new == [NoLookup EXCEPT !.question = q, !.left = index, !.seen = Findable]
    <3>1. reader' = [reader EXCEPT ![r] = new] /\ UNCHANGED entry
      BY <2>3 DEF BeginLookup, redis
    <3>2. /\ new.best = NoAnswer /\ new.left = index /\ new.seen = Findable
      OBVIOUS
    <3>3. \A i \in DOMAIN index : entry[index[i]] \in Findable \cup {NoAnswer}
      <4> SUFFICES ASSUME NEW i \in DOMAIN index PROVE entry[index[i]] \in Findable \cup {NoAnswer}
        OBVIOUS
      <4>1. index[i] \in Questions /\ index[i] \in Listed
        BY DEF Listed
      <4>2. known[index[i]] = entry[index[i]]
        BY <4>1 DEF known
      <4> QED
        BY <4>1, <4>2 DEF Findable
    <3> HIDE DEF new
    <3> QED
      BY <3>1, <3>2, <3>3
  <2>4. ASSUME NEW r \in Readers, ReadEntry(r) PROVE SeenInv'
    <3> DEFINE q == Head(reader[r].left)
               next == [reader[r] EXCEPT !.left = Tail(@)]
               taken == [next EXCEPT !.best = entry[q], !.score = Similarity[<<reader[r].question, q>>]]
    <3>1. UNCHANGED entry /\ (reader' = [reader EXCEPT ![r] = next] \/ reader' = [reader EXCEPT ![r] = taken])
      BY <2>4, Zenon DEF ReadEntry, redis
    <3>2. reader[r] \in Lookup /\ reader[r].left \in Seq(Questions) /\ reader[r].left # <<>>
      BY <2>4 DEF ReadEntry, Lookup
    <3>3. /\ q = reader[r].left[1] /\ 1 \in DOMAIN reader[r].left
          /\ \A i \in DOMAIN Tail(reader[r].left) :
                i + 1 \in DOMAIN reader[r].left /\ Tail(reader[r].left)[i] = reader[r].left[i + 1]
      BY <3>2
    <3>4. /\ next.best = reader[r].best /\ next.seen = reader[r].seen
          /\ next.left = Tail(reader[r].left)
          /\ taken.best = entry[q] /\ taken.seen = reader[r].seen
          /\ taken.left = Tail(reader[r].left)
      BY <3>2 DEF Lookup
    <3>5. \A i \in DOMAIN Tail(reader[r].left) :
              entry[Tail(reader[r].left)[i]] \in reader[r].seen \cup {NoAnswer}
      BY <3>3
    <3>6. entry[q] \in reader[r].seen \cup {NoAnswer}
      BY <3>3
    <3> HIDE DEF next, taken, q
    <3> QED
      BY <3>1, <3>4, <3>5, <3>6
  <2>5. ASSUME NEW r \in Readers, EndLookup(r) PROVE SeenInv'
    BY <2>5 DEF EndLookup, redis
  <2>6. ASSUME NEW i \in Invalidators, InvalidationStep(i) \/ EndInvalidation(i)
        PROVE  reader' = reader /\ \A p \in Questions : entry'[p] \in {entry[p], NoAnswer}
    BY <2>6 DEF InvalidationStep, ListEntries, DropEntries, DropIndex, InvalidationFails,
                EndInvalidation, redis
  <2>7. ASSUME NEW q \in Questions, ExpireEntry(q)
        PROVE  reader' = reader /\ \A p \in Questions : entry'[p] \in {entry[p], NoAnswer}
    BY <2>7 DEF ExpireEntry
  <2> HIDE DEF SeenInv
  <2> QED
    BY <2>1, <2>2, <2>3, <2>4, <2>5, <2>6, <2>7 DEF Next, ExpireIndex, cacheVars
<1>3. SeenInv => HitsAreCurrent
  BY DEF HitsAreCurrent
<1> QED
  BY <1>1, <1>2, <1>3, TypesKept, PTL DEF Spec

----------------------------------------------------------------------------
(* What the cache knows is what was stored last, or nothing                 *)

(* A store shows its own answer, to later lookups and to those in progress. *)
LEMMA StoreShows ==
    ASSUME TypeInv, NEW q \in Questions, NEW a \in Answers, StoreAnswer(q, a)
    PROVE  /\ q \in Listed' /\ Listed' \subseteq Listed \cup {q}
           /\ Findable' \subseteq Findable \cup {a}
           /\ \A r \in Readers : reader'[r].seen \subseteq reader[r].seen \cup {a}
<1> USE DEF TypeInv, TypeOK
<1>1. q \in Listed' /\ Listed' \subseteq Listed \cup {q}
  <2>1. index \in Seq(Questions) /\ NoDuplicates(index) /\ index' = Pushed(index, q)
    BY DEF StoreAnswer
  <2>2. Listed = Members(index) /\ Listed' = Members(index')
    BY DEF Listed, Members
  <2> QED
    BY <2>1, <2>2, PushedIsFirst
<1>2. Findable' \subseteq Findable \cup {a}
  <2>1. entry' = [entry EXCEPT ![q] = a]
    BY DEF StoreAnswer
  <2>2. ASSUME NEW p \in Questions PROVE known'[p] \in {known[p], a, NoAnswer}
    BY <1>1, <2>1 DEF known
  <2> QED
    BY <2>2 DEF Findable
<1>3. ASSUME NEW r \in Readers PROVE reader'[r].seen \subseteq reader[r].seen \cup {a}
  <2>1. reader'[r] = reader[r] \/ reader'[r] = [reader[r] EXCEPT !.seen = @ \cup {a}]
    BY Zenon DEF StoreAnswer, ShownToReaders
  <2> QED
    BY <2>1 DEF Lookup
<1> QED
  BY <1>1, <1>2, <1>3

(* Every other step shows nothing that could not be found before.           *)
LEMMA OthersForget ==
    ASSUME TypeInv,
           \/ ExpireIndex \/ \E q \in Questions : ExpireEntry(q)
           \/ \E r \in Readers : ReadEntry(r) \/ EndLookup(r) \/ \E q \in Questions : BeginLookup(r, q)
           \/ \E i \in Invalidators : InvalidationStep(i) \/ EndInvalidation(i)
    PROVE  /\ Findable' \subseteq Findable
           /\ \A r \in Readers : reader'[r].seen \subseteq reader[r].seen \cup Findable
<1> USE DEF TypeInv, TypeOK
<1>1. ASSUME Listed' \subseteq Listed, \A q \in Questions : entry'[q] \in {entry[q], NoAnswer}
      PROVE  Findable' \subseteq Findable
  <2>1. \A q \in Questions : known'[q] \in {known[q], NoAnswer}
    BY <1>1 DEF known
  <2> QED
    BY <2>1 DEF Findable
<1>2. CASE \/ ExpireIndex \/ \E q \in Questions : ExpireEntry(q)
           \/ \E i \in Invalidators : InvalidationStep(i) \/ EndInvalidation(i)
  <2>1. reader' = reader /\ \A q \in Questions : entry'[q] \in {entry[q], NoAnswer}
    BY <1>2 DEF ExpireIndex, ExpireEntry, InvalidationStep, ListEntries, DropEntries, DropIndex,
                InvalidationFails, EndInvalidation, redis
  <2>2. index' = index \/ index' = <<>>
    BY <1>2 DEF ExpireIndex, ExpireEntry, InvalidationStep, ListEntries, DropEntries, DropIndex,
                InvalidationFails, EndInvalidation, redis
  <2>3. Listed' \subseteq Listed
    BY <2>2 DEF Listed
  <2> QED
    BY <1>1, <2>1, <2>3
<1>3. CASE \E r \in Readers : ReadEntry(r) \/ EndLookup(r) \/ \E q \in Questions : BeginLookup(r, q)
  <2>1. Findable' \subseteq Findable
    BY <1>1, <1>3 DEF ReadEntry, EndLookup, BeginLookup, redis, Listed
  <2>2. ASSUME NEW r \in Readers, ReadEntry(r)
        PROVE  \A s \in Readers : reader'[s].seen = reader[s].seen
    <3> DEFINE q == Head(reader[r].left)
               next == [reader[r] EXCEPT !.left = Tail(@)]
               taken == [next EXCEPT !.best = entry[q], !.score = Similarity[<<reader[r].question, q>>]]
    <3>1. reader' = [reader EXCEPT ![r] = next] \/ reader' = [reader EXCEPT ![r] = taken]
      BY <2>2, Zenon DEF ReadEntry
    <3>2. next.seen = reader[r].seen /\ taken.seen = reader[r].seen
      BY DEF Lookup
    <3> HIDE DEF next, taken
    <3> QED
      BY <3>1, <3>2
  <2>3. ASSUME NEW r \in Readers, EndLookup(r) \/ \E q \in Questions : BeginLookup(r, q)
        PROVE  \A s \in Readers : reader'[s].seen \in {reader[s].seen, {}, Findable}
    <3>1. PICK new : reader' = [reader EXCEPT ![r] = new] /\ new.seen \in {{}, Findable}
      <4>1. CASE EndLookup(r)
        <5>1. reader' = [reader EXCEPT ![r] = NoLookup]
          BY <4>1 DEF EndLookup
        <5>2. NoLookup.seen = {}
          BY DEF NoLookup
        <5> QED
          BY <5>1, <5>2
      <4>2. ASSUME NEW q \in Questions, BeginLookup(r, q)
            PROVE  \E new : reader' = [reader EXCEPT ![r] = new] /\ new.seen = Findable
        <5> DEFINE new == [NoLookup EXCEPT !.question = q, !.left = index, !.seen = Findable]
        <5>1. reader' = [reader EXCEPT ![r] = new]
          BY <4>2, Zenon DEF BeginLookup
        <5>2. new.seen = Findable
          BY DEF NoLookup
        <5> HIDE DEF new
        <5> QED
          BY <5>1, <5>2
      <4> QED
        BY <2>3, <4>1, <4>2
    <3> QED
      BY <3>1
  <2> QED
    BY <1>3, <2>1, <2>2, <2>3
<1> QED
  BY <1>2, <1>3

(* A step that lists nothing new and sets no entry only forgets.            *)
LEMMA Forgetting ==
    ASSUME TypeOK, TypeOK', Listed' \subseteq Listed,
           \A q \in Questions : entry'[q] \in {entry[q], NoAnswer}, UNCHANGED latest
    PROVE  Cache!Forget
BY DEF TypeOK, known, Cache!Forget, Cache!OnlyForgets

(* Whatever stores, expiries, invalidations and errors interleave, the      *)
(* cache is one that may forget at any time and otherwise knows what was    *)
(* stored last; an answer that is forgotten comes back by a store only.     *)
THEOREM CacheOnlyForgets == Spec => ImplementsRecentAnswers
<1>1. Init => Cache!Init
  BY DEF Init, Cache!Init, known, Listed
<1>2. TypeInv /\ TypeOK' /\ [Next]_cacheVars => [Cache!Next]_<<known, latest>>
  <2> SUFFICES ASSUME TypeInv, TypeOK', [Next]_cacheVars
               PROVE  Cache!Next \/ UNCHANGED <<known, latest>>
    OBVIOUS
  <2>0. TypeOK
    BY DEF TypeInv
  <2>1. ASSUME NEW q \in Questions, NEW a \in Answers, StoreAnswer(q, a) PROVE Cache!Store(q, a)
    <3>1. q \in Listed' /\ Listed' \subseteq Listed \cup {q}
      BY <2>1, StoreShows
    <3>2. entry' = [entry EXCEPT ![q] = a] /\ latest' = [latest EXCEPT ![q] = a]
      BY <2>1 DEF StoreAnswer
    <3>3. known'[q] = a
      BY <2>0, <3>1, <3>2 DEF known, TypeOK
    <3>4. \A p \in Questions \ {q} : known'[p] \in {known[p], NoAnswer}
      BY <2>0, <3>1, <3>2 DEF known, TypeOK
    <3>5. known' \in [Questions -> Answers \cup {NoAnswer}]
      BY DEF known, TypeOK
    <3> QED
      BY <3>2, <3>3, <3>4, <3>5 DEF Cache!Store, Cache!OnlyForgets
  <2>2. ASSUME NEW q \in Questions, ExpireEntry(q) PROVE Cache!Forget
    BY <2>0, <2>2, Forgetting DEF ExpireEntry, Listed, TypeOK
  <2>3. CASE ExpireIndex
    <3>1. Listed' \subseteq Listed
      BY <2>3 DEF ExpireIndex, Listed
    <3>2. UNCHANGED <<entry, latest>>
      BY <2>3 DEF ExpireIndex
    <3>3. \A q \in Questions : entry'[q] \in {entry[q], NoAnswer}
      BY <3>2
    <3>4. Cache!Forget
      BY <2>0, <3>1, <3>2, <3>3, Forgetting
    <3> QED
      BY <3>4 DEF Cache!Next
  <2>4. ASSUME NEW r \in Readers, ReadEntry(r) \/ EndLookup(r) \/ \E q \in Questions : BeginLookup(r, q)
        PROVE  UNCHANGED <<known, latest>>
    BY <2>4 DEF ReadEntry, EndLookup, BeginLookup, redis, known, Listed
  <2>5. ASSUME NEW i \in Invalidators, InvalidationStep(i) \/ EndInvalidation(i) PROVE Cache!Forget
    <3>1. Listed' \subseteq Listed
      BY <2>5 DEF InvalidationStep, ListEntries, DropEntries, DropIndex, InvalidationFails,
                  EndInvalidation, redis, Listed
    <3>2. UNCHANGED latest /\ \A q \in Questions : entry'[q] \in {entry[q], NoAnswer}
      BY <2>0, <2>5 DEF InvalidationStep, ListEntries, DropEntries, DropIndex, InvalidationFails,
                  EndInvalidation, redis, TypeOK
    <3> QED
      BY <2>0, <3>1, <3>2, Forgetting
  <2>6. CASE UNCHANGED cacheVars
    BY <2>6 DEF cacheVars, known, Listed
  <2> QED
    BY <2>1, <2>2, <2>3, <2>4, <2>5, <2>6 DEF Next, Cache!Next
<1> QED
  BY <1>1, <1>2, TypesKept, TypeCorrect, PTL DEF Spec, Cache!Spec, ImplementsRecentAnswers
=============================================================================
