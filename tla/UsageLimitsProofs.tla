------------------------- MODULE UsageLimitsProofs -------------------------
(***************************************************************************)
(* Theorems about UsageLimits for any users, kinds and number of requests, *)
(* limits, prices and days, with every failure.                            *)
(***************************************************************************)
EXTENDS UsageLimits, FiniteSetTheorems, TLAPS

Asking == {"embed", "analyze", "generate"}

(* What the rows rest on: a request has a user and a bucket to count in, it *)
(* began on this day or an earlier one, and its cost is that of the model   *)
(* calls it has made.                                                       *)
Sound(r, day) ==
    /\ r.step # "idle" => r.user \in Users
    /\ r.step \in {"count", "expire"} => r.left # <<>>
    /\ r.day <= day
    /\ r.step \in Steps \ {"analyze", "generate", "commit"} => r.cost = 0
    /\ r.step = "analyze" => r.cost <= MaxPrice
    /\ r.step = "generate" => r.cost <= 2 * MaxPrice
    /\ r.cost <= MaxCost
    /\ r.kind = "upload" => r.step \notin {"check", "analyze", "generate"}

CallsSound == \A c \in Calls : Sound(call[c], today)

UsageInv == TypeOK /\ CallsSound

(* A request that has passed the ceiling and may still be charged to day d. *)
Owes(r, day, u, d) ==
    /\ r.user = u /\ r.kind # "upload"
    /\ \/ r.step = "commit" /\ r.day = d
       \/ r.step \in Asking /\ day <= d

MayCharge(u, d) == {c \in Calls : Owes(call[c], today, u, d)}

(* What is charged, and what may still be, stays below the bound; nothing   *)
(* is charged to a day to come.                                             *)
Bounded ==
    \A u \in Users, d \in Days :
        asked[u, d] + MaxCost * Cardinality(MayCharge(u, d)) < Ceiling + MaxCost * Cardinality(Calls)

FutureIsFree == \A u \in Users, d \in Days : today < d => asked[u, d] = 0

SpendInv == Bounded /\ FutureIsFree

----------------------------------------------------------------------------
(* Types *)

(* Every request counts in some bucket first.                               *)
LEMMA GatesType ==
    \A k \in DOMAIN Gates : Gates[k] \in Seq(Buckets) /\ Gates[k] # <<>>
<1>1. <<"api">> \in Seq(Buckets) /\ <<"server">> \in Seq(Buckets) /\ <<"api", "upload">> \in Seq(Buckets)
  BY DEF Buckets
<1>2. <<"api">> # <<>> /\ <<"server">> # <<>> /\ <<"api", "upload">> # <<>>
  OBVIOUS
<1>3. DOMAIN Gates = {"chat", "agent", "upload"}
  BY DEF Gates
<1>4. Gates["chat"] = <<"api">> /\ Gates["agent"] = <<"server">> /\ Gates["upload"] = <<"api", "upload">>
  BY DEF Gates
<1> QED
  BY <1>1, <1>2, <1>3, <1>4

(* A step of one request leaves the others as they are.                     *)
LEMMA OneCall ==
    ASSUME UsageInv, NEW c \in Calls, NEW r, r \in Call, Sound(r, today),
           call' = [call EXCEPT ![c] = r], UNCHANGED today
    PROVE  call' \in [Calls -> Call] /\ CallsSound'
BY DEF UsageInv, TypeOK, CallsSound

(* The parts of a request that is under way.                                *)
LEMMA CallParts ==
    ASSUME UsageInv, NEW c \in Calls
    PROVE  /\ call[c].step \in Steps /\ call[c].kind \in DOMAIN Gates
           /\ call[c].left \in Seq(Buckets) /\ call[c].day \in Days /\ call[c].cost \in Nat
           /\ call[c].user \in Users \cup {NoUser}
           /\ call[c] \in Call /\ Sound(call[c], today) /\ today \in Days
BY DEF UsageInv, TypeOK, CallsSound, Call

(* The ways a request goes on.                                              *)
LEMMA EndedSound ==
    ASSUME UsageInv, NEW c \in Calls, Ended(c), UNCHANGED today
    PROVE  call' \in [Calls -> Call] /\ CallsSound'
<1>1. NoCall \in Call
  BY UsageAssumption DEF NoCall, Call, Steps, Days, Gates
<1>2. Sound(NoCall, today)
  BY UsageAssumption, CallParts DEF Sound, NoCall, MaxCost, Days
<1> QED
  BY <1>1, <1>2, OneCall DEF Ended

LEMMA GoToSound ==
    ASSUME UsageInv, NEW c \in Calls, NEW s \in Steps, GoTo(c, s), UNCHANGED today,
           call[c].step # "idle", call[c].cost = 0, call[c].kind = "upload" => s # "check",
           s \in {"expire", "check", "embed"}, s = "expire" => call[c].step = "count"
    PROVE  call' \in [Calls -> Call] /\ CallsSound'
<1> DEFINE r == [call[c] EXCEPT !.step = s]
<1>1. call' = [call EXCEPT ![c] = r]
  BY DEF GoTo
<1>2. r \in Call
  BY CallParts DEF Call
<1>3. Sound(r, today)
  BY CallParts DEF Sound, Call, Steps
<1> QED
  BY <1>1, <1>2, <1>3, OneCall

LEMMA PassedSound ==
    ASSUME UsageInv, NEW c \in Calls, Passed(c), UNCHANGED today, call[c].step \in {"count", "expire"}
    PROVE  call' \in [Calls -> Call] /\ CallsSound'
<1> DEFINE r == [call[c] EXCEPT !.left = Tail(call[c].left),
                                !.step = IF Tail(call[c].left) = <<>> THEN "begin" ELSE "count"]
<1>1. call' = [call EXCEPT ![c] = r]
  BY DEF Passed
<1>2. Tail(call[c].left) \in Seq(Buckets)
  BY CallParts DEF Sound
<1>3. r \in Call
  BY <1>2, CallParts DEF Call, Steps
<1>4. Sound(r, today)
  BY CallParts DEF Sound, Call, Steps
<1> QED
  BY <1>1, <1>3, <1>4, OneCall

LEMMA PaySound ==
    ASSUME UsageInv, NEW c \in Calls, NEW p \in Prices, NEW s \in {"analyze", "generate"}, Pay(c, p, s),
           UNCHANGED today, call[c].kind # "upload", call[c].step \in {"embed", "analyze"},
           s = "analyze" => call[c].step = "embed"
    PROVE  call' \in [Calls -> Call] /\ CallsSound'
<1> DEFINE r == [call[c] EXCEPT !.cost = @ + p, !.step = s]
<1>1. call' = [call EXCEPT ![c] = r]
  BY DEF Pay
<1>2. p \in Nat /\ p <= MaxPrice /\ MaxPrice \in Nat
  BY UsageAssumption
<1>3. call[c].cost + p \in Nat
  BY <1>2, CallParts
<1>4. r \in Call
  BY <1>3, CallParts DEF Call, Steps
<1>5. Sound(r, today)
  BY <1>2, CallParts DEF Sound, Call, Steps, MaxCost
<1> QED
  BY <1>1, <1>4, <1>5, OneCall

LEMMA RecordSound ==
    ASSUME UsageInv, NEW c \in Calls, NEW cost \in 0 .. MaxCost, Record(c, cost), UNCHANGED today,
           call[c].step # "idle"
    PROVE  call' \in [Calls -> Call] /\ CallsSound'
<1> DEFINE r == [call[c] EXCEPT !.cost = cost, !.day = today, !.step = "commit"]
<1>1. call' = [call EXCEPT ![c] = r]
  BY DEF Record
<1>2. cost \in Nat /\ cost <= MaxCost
  BY UsageAssumption DEF MaxCost
<1>3. r \in Call
  BY <1>2, CallParts DEF Call, Steps
<1>4. Sound(r, today)
  BY <1>2, CallParts DEF Sound, Call, Steps, Days
<1> QED
  BY <1>1, <1>3, <1>4, OneCall

LEMMA CutShortSound ==
    ASSUME UsageInv, NEW c \in Calls, CutShort(c), UNCHANGED today, call[c].step # "idle"
    PROVE  call' \in [Calls -> Call] /\ CallsSound'
<1>1. 0 \in 0 .. MaxCost
  BY UsageAssumption DEF MaxCost
<1> QED
  BY <1>1, RecordSound, EndedSound DEF CutShort

(* A counter goes up by one or stays.                                       *)
LEMMA IncrementedType ==
    ASSUME UsageInv, NEW c \in Calls, call[c].step \in {"count", "expire"}
    PROVE  Key(c) \in Keys /\ Incremented(Key(c)) \in Nat
<1>1. call[c].left # <<>> /\ call[c].left \in Seq(Buckets) /\ call[c].user \in Users
  BY CallParts DEF Sound
<1>2. Head(call[c].left) \in Buckets
  BY <1>1
<1> QED
  BY <1>1, <1>2 DEF Key, Keys, Incremented, UsageInv, TypeOK

(* Who is where, in every reachable state.                                  *)
LEMMA UsageInvHolds == Spec => []UsageInv
<1>1. Init => UsageInv
  <2>1. NoCall \in Call /\ (Init => Sound(NoCall, today)) /\ 0 \in Days
    BY UsageAssumption DEF NoCall, Call, Steps, Days, Gates, Init, Sound, MaxCost
  <2> QED
    BY <2>1 DEF Init, UsageInv, TypeOK, CallsSound
<1>2. UsageInv /\ [Next]_vars => UsageInv'
  <2> SUFFICES ASSUME UsageInv, [Next]_vars PROVE UsageInv'
    OBVIOUS
  <2> USE DEF redis, rows
  <2>0. UNCHANGED <<redis, rows, today>> /\ call' \in [Calls -> Call] /\ CallsSound' => UsageInv'
    BY DEF UsageInv, TypeOK
  <2>1. ASSUME NEW c \in Calls, NEW u \in Users, NEW k \in Kinds[c], Arrive(c, u, k) PROVE UsageInv'
    <3> DEFINE r == [step |-> "count", user |-> u, kind |-> k, left |-> Gates[k], day |-> today, cost |-> 0]
    <3>1. k \in DOMAIN Gates /\ Gates[k] \in Seq(Buckets) /\ Gates[k] # <<>>
      BY UsageAssumption, GatesType
    <3>2. today \in Days /\ today \in Nat /\ 0 \in Nat /\ MaxPrice \in Nat
      BY UsageAssumption DEF UsageInv, TypeOK, Days
    <3>3. r \in Call
      BY <3>1, <3>2 DEF Call, Steps
    <3>4. Sound(r, today)
      BY <3>1, <3>2 DEF Steps, Sound, MaxCost
    <3>5. call' = [call EXCEPT ![c] = r] /\ UNCHANGED <<redis, rows, today>>
      BY <2>1 DEF Arrive
    <3> QED
      BY <2>0, <3>3, <3>4, <3>5, OneCall
  <2>2. ASSUME NEW c \in Calls, Count(c) PROVE UsageInv'
    <3>1. call[c].step = "count" /\ Key(c) \in Keys /\ Incremented(Key(c)) \in Nat /\ UNCHANGED <<expires, rows, today>>
      BY <2>2, IncrementedType DEF Count
    <3>2. hits' \in [Keys -> Nat]
      BY <2>2, <3>1 DEF Count, UsageInv, TypeOK
    <3>3. GoTo(c, "expire") \/ Passed(c) \/ Ended(c)
      BY <2>2 DEF Count
    <3>4. "expire" \in Steps /\ call[c].cost = 0
      BY <3>1, CallParts DEF Steps, Sound
    <3>5. call' \in [Calls -> Call] /\ CallsSound'
      BY <3>1, <3>3, <3>4, GoToSound, PassedSound, EndedSound
    <3> QED
      BY <3>1, <3>2, <3>5 DEF UsageInv, TypeOK
  <2>3. ASSUME NEW c \in Calls, SetExpiry(c) PROVE UsageInv'
    <3>1. call[c].step = "expire" /\ Key(c) \in Keys /\ UNCHANGED <<hits, rows, today>>
      BY <2>3, IncrementedType DEF SetExpiry
    <3>2. expires' \in [Keys -> BOOLEAN]
      BY <2>3, <3>1 DEF SetExpiry, UsageInv, TypeOK
    <3>3. Passed(c) \/ Ended(c)
      BY <2>3 DEF SetExpiry
    <3>4. call' \in [Calls -> Call] /\ CallsSound'
      BY <3>1, <3>3, PassedSound, EndedSound
    <3> QED
      BY <3>1, <3>2, <3>4 DEF UsageInv, TypeOK
  <2>4. ASSUME NEW k \in Keys, CloseWindow(k) PROVE UsageInv'
    BY <2>4 DEF CloseWindow, UsageInv, TypeOK, CallsSound, Sound
  <2>5. ASSUME NEW c \in Calls, Begin(c) PROVE UsageInv'
    <3> DEFINE r == [call[c] EXCEPT !.day = today, !.step = IF call[c].kind = "upload" THEN "embed" ELSE "check"]
    <3>1. r \in Call
      BY CallParts DEF Call, Steps
    <3>2. call[c].step = "begin" => Sound(r, today)
      BY CallParts DEF Sound, Call, Steps, Days
    <3>3. call' = [call EXCEPT ![c] = r] \/ Ended(c)
      BY <2>5 DEF Begin
    <3>4. call[c].step = "begin" /\ UNCHANGED <<redis, rows, today>>
      BY <2>5 DEF Begin
    <3> QED
      BY <2>0, <3>1, <3>2, <3>3, <3>4, OneCall, EndedSound
  <2>6. ASSUME NEW c \in Calls, CheckCeiling(c) PROVE UsageInv'
    <3>1. "embed" \in Steps /\ (call[c].step = "check" => call[c].cost = 0)
      BY CallParts DEF Steps, Sound
    <3> QED
      BY <2>0, <2>6, <3>1, GoToSound, EndedSound DEF CheckCeiling
  <2>7. \A p \in Prices : p \in Nat /\ p <= MaxPrice /\ MaxPrice \in Nat
    BY UsageAssumption
  <2>8. ASSUME NEW c \in Calls, Embed(c) PROVE UsageInv'
    <3>1. call[c].step = "embed" /\ UNCHANGED <<redis, rows, today>>
      BY <2>8 DEF Embed
    <3>2. \A p \in Prices : p \in 0 .. MaxCost
      BY <2>7 DEF MaxCost
    <3>3. \/ \E p \in Prices : Record(c, p)
          \/ call[c].kind # "upload" /\ \E p \in Prices : Pay(c, p, "generate") \/ Pay(c, p, "analyze")
          \/ CutShort(c)
      BY <2>8 DEF Embed
    <3> QED
      BY <2>0, <3>1, <3>2, <3>3, RecordSound, PaySound, CutShortSound
  <2>9. ASSUME NEW c \in Calls, Analyze(c) PROVE UsageInv'
    <3>1. call[c].step = "analyze" => call[c].kind # "upload"
      BY CallParts DEF Sound
    <3> QED
      BY <2>0, <2>9, <3>1, PaySound, CutShortSound DEF Analyze
  <2>10. ASSUME NEW c \in Calls, Generate(c) PROVE UsageInv'
    <3>1. call[c].step = "generate"
      BY <2>10 DEF Generate
    <3>2. \A p \in Prices : call[c].cost + p \in 0 .. MaxCost
      BY <2>7, <3>1, CallParts DEF Sound, MaxCost
    <3> QED
      BY <2>0, <2>10, <3>1, <3>2, RecordSound, CutShortSound DEF Generate
  <2>11. ASSUME NEW c \in Calls, Commit(c) PROVE UsageInv'
    <3>1. call[c].step = "commit" /\ UNCHANGED <<redis, today>> /\ call[c].cost \in Nat
      BY <2>11, CallParts DEF Commit
    <3>2. asked' \in [Users \X Days -> Nat] /\ indexed' \in [Users \X Days -> Nat]
      BY <2>11, <3>1 DEF Commit, Charge, UsageInv, TypeOK
    <3>3. call' \in [Calls -> Call] /\ CallsSound'
      BY <2>11, <3>1, EndedSound DEF Commit
    <3> QED
      BY <3>1, <3>2, <3>3 DEF UsageInv, TypeOK
  <2>12. CASE NewDay
    <3>1. today' \in Days /\ today <= today' /\ today \in Days /\ today' \in Nat
      BY <2>12, UsageAssumption DEF NewDay, UsageInv, TypeOK, Days
    <3>2. CallsSound'
      BY <2>12, <3>1, CallParts DEF NewDay, CallsSound, Sound, Days
    <3> QED
      BY <2>12, <3>1, <3>2 DEF NewDay, UsageInv, TypeOK
  <2>13. CASE Restart
    <3>1. NoCall \in Call
      BY UsageAssumption DEF NoCall, Call, Steps, Days, Gates
    <3>2. Sound(NoCall, today)
      BY UsageAssumption DEF Sound, NoCall, MaxCost, Days, UsageInv, TypeOK
    <3> QED
      BY <2>13, <3>1, <3>2 DEF Restart, UsageInv, TypeOK, CallsSound
  <2>14. CASE UNCHANGED vars
    BY <2>14 DEF vars, UsageInv, TypeOK, CallsSound, Sound
  <2> QED
    BY <2>1, <2>2, <2>3, <2>4, <2>5, <2>6, <2>8, <2>9, <2>10, <2>11, <2>12, <2>13, <2>14 DEF Next, CallStep
<1> QED
  BY <1>1, <1>2, PTL DEF Spec

(* The variables keep their types.                                          *)
THEOREM TypeCorrect == Spec => []TypeOK
BY UsageInvHolds, PTL DEF UsageInv

----------------------------------------------------------------------------
(* The ceiling *)

(* Fewer requests owe less.                                                 *)
LEMMA OweLess ==
    ASSUME NEW S, NEW T, S \subseteq T, T \subseteq Calls
    PROVE  /\ Cardinality(S) \in Nat /\ Cardinality(T) \in Nat
           /\ MaxCost * Cardinality(S) \in Nat /\ MaxCost * Cardinality(T) \in Nat
           /\ MaxCost * Cardinality(S) <= MaxCost * Cardinality(T)
<1>1. IsFiniteSet(T) /\ IsFiniteSet(S)
  BY UsageAssumption, FS_Subset
<1>2. Cardinality(S) \in Nat /\ Cardinality(T) \in Nat /\ Cardinality(S) <= Cardinality(T)
  BY <1>1, FS_Subset, FS_CardinalityType
<1>3. MaxCost \in Nat
  BY UsageAssumption DEF MaxCost
<1>4. ASSUME NEW a \in Nat, NEW b \in Nat, NEW m \in Nat, a <= b
      PROVE  m * a \in Nat /\ m * b \in Nat /\ m * a <= m * b
  <2>1. b - a \in Nat /\ m * (b - a) \in Nat
    BY <1>4
  <2>2. m * b = m * a + m * (b - a)
    BY <1>4
  <2> QED
    BY <2>1, <2>2, <1>4
<1> QED
  BY <1>2, <1>3, <1>4

(* The numbers that are added and compared.                                 *)
LEMMA SpendTypes ==
    ASSUME UsageInv, NEW u \in Users, NEW d \in Days
    PROVE  asked[u, d] \in Nat /\ indexed[u, d] \in Nat
BY DEF UsageInv, TypeOK

LEMMA BoundTypes ==
    ASSUME UsageInv
    PROVE  /\ today \in Days /\ Days \subseteq Nat
           /\ Ceiling \in Nat /\ 0 < Ceiling
           /\ MaxCost * Cardinality(Calls) \in Nat /\ Ceiling + MaxCost * Cardinality(Calls) \in Nat
<1>1. today \in Days /\ Days \subseteq Nat /\ Ceiling \in Nat /\ 0 < Ceiling
  BY UsageAssumption DEF UsageInv, TypeOK, Days
<1>2. MaxCost * Cardinality(Calls) \in Nat
  BY OweLess
<1> QED
  BY <1>1, <1>2

(* Where nothing is charged and no request passes the ceiling.              *)
LEMMA NoMoreIsOwed ==
    ASSUME UsageInv, SpendInv, UNCHANGED asked, today' \in Days, today <= today',
           \A u \in Users, d \in Days : MayCharge(u, d)' \subseteq MayCharge(u, d)
    PROVE  SpendInv'
<1>1. ASSUME NEW u \in Users, NEW d \in Days
      PROVE  asked'[u, d] + MaxCost * Cardinality(MayCharge(u, d)') < Ceiling + MaxCost * Cardinality(Calls)
  <2>1. asked[u, d] + MaxCost * Cardinality(MayCharge(u, d)) < Ceiling + MaxCost * Cardinality(Calls)
    BY DEF SpendInv, Bounded
  <2>2. MayCharge(u, d) \subseteq Calls /\ MayCharge(u, d)' \subseteq MayCharge(u, d)
    BY DEF MayCharge
  <2>3. /\ MaxCost * Cardinality(MayCharge(u, d)') \in Nat
        /\ MaxCost * Cardinality(MayCharge(u, d)) \in Nat
        /\ MaxCost * Cardinality(MayCharge(u, d)') <= MaxCost * Cardinality(MayCharge(u, d))
    BY <2>2, OweLess
  <2>4. MaxCost * Cardinality(Calls) \in Nat /\ Ceiling \in Nat
    BY OweLess, UsageAssumption
  <2>5. asked[u, d] \in Nat /\ asked' = asked
    BY DEF UsageInv, TypeOK
  <2>6. \A a, x, y, z \in Nat : a + x < z /\ y <= x => a + y < z
    OBVIOUS
  <2>7. Ceiling + MaxCost * Cardinality(Calls) \in Nat
    BY <2>4
  <2> QED
    BY ONLY <2>1, <2>3, <2>5, <2>6, <2>7
<1>2. \A u \in Users, d \in Days : today' < d => today < d
  BY UsageAssumption DEF UsageInv, TypeOK, Days
<1> QED
  BY <1>1, <1>2 DEF SpendInv, Bounded, FutureIsFree

(* A step of one request, that owes nothing new.                            *)
LEMMA NobodyOwesMore ==
    ASSUME UsageInv, SpendInv, UNCHANGED <<asked, today>>, NEW c \in Calls, NEW r,
           call' = [call EXCEPT ![c] = r],
           \A u \in Users, d \in Days : Owes(r, today, u, d) => Owes(call[c], today, u, d)
    PROVE  SpendInv'
<1>1. \A u \in Users, d \in Days : MayCharge(u, d)' \subseteq MayCharge(u, d)
  BY DEF MayCharge, UsageInv, TypeOK
<1>2. today' \in Days /\ today <= today'
  BY UsageAssumption DEF UsageInv, TypeOK, Days
<1> QED
  BY <1>1, <1>2, NoMoreIsOwed

(* A request that ends, or has not reached the ceiling, owes nothing.       *)
LEMMA BeforeCeiling ==
    ASSUME UsageInv, SpendInv, UNCHANGED <<asked, today>>, NEW c \in Calls,
           NEW s \in {"expire", "check"}, Ended(c) \/ Passed(c) \/ GoTo(c, s)
    PROVE  SpendInv'
<1>1. CASE Ended(c)
  <2>1. \A u, d : ~Owes(NoCall, today, u, d)
    BY DEF Owes, NoCall, Asking
  <2> QED
    BY <1>1, <2>1, NobodyOwesMore DEF Ended
<1>2. CASE Passed(c)
  <2> DEFINE r == [call[c] EXCEPT !.left = Tail(call[c].left),
                                  !.step = IF Tail(call[c].left) = <<>> THEN "begin" ELSE "count"]
  <2>1. call' = [call EXCEPT ![c] = r]
    BY <1>2 DEF Passed
  <2>2. \A u, d : ~Owes(r, today, u, d)
    BY CallParts DEF Owes, Asking, Call
  <2> QED
    BY <2>1, <2>2, NobodyOwesMore
<1>3. CASE GoTo(c, s)
  <2> DEFINE r == [call[c] EXCEPT !.step = s]
  <2>1. call' = [call EXCEPT ![c] = r]
    BY <1>3 DEF GoTo
  <2>2. \A u, d : ~Owes(r, today, u, d)
    BY CallParts DEF Owes, Asking, Call
  <2> QED
    BY <2>1, <2>2, NobodyOwesMore
<1> QED
  BY <1>1, <1>2, <1>3

(* A request that asks the models will be charged to this day or later.     *)
LEMMA AfterCeiling ==
    ASSUME UsageInv, SpendInv, UNCHANGED <<asked, today>>, NEW c \in Calls, call[c].step \in Asking,
           NEW cost, NEW p, NEW s \in Asking, Record(c, cost) \/ Pay(c, p, s)
    PROVE  SpendInv'
<1>0. \A d \in Days : today <= today /\ today \in Days
  BY UsageAssumption DEF UsageInv, TypeOK, Days
<1>1. CASE Record(c, cost)
  <2> DEFINE r == [call[c] EXCEPT !.cost = cost, !.day = today, !.step = "commit"]
  <2>1. call' = [call EXCEPT ![c] = r]
    BY <1>1 DEF Record
  <2>2. \A u \in Users, d \in Days : Owes(r, today, u, d) => Owes(call[c], today, u, d)
    BY <1>0, CallParts DEF Owes, Asking, Call
  <2> QED
    BY <2>1, <2>2, NobodyOwesMore
<1>2. CASE Pay(c, p, s)
  <2> DEFINE r == [call[c] EXCEPT !.cost = @ + p, !.step = s]
  <2>1. call' = [call EXCEPT ![c] = r]
    BY <1>2 DEF Pay
  <2>2. \A u \in Users, d \in Days : Owes(r, today, u, d) => Owes(call[c], today, u, d)
    BY CallParts DEF Owes, Asking, Call
  <2> QED
    BY <2>1, <2>2, NobodyOwesMore
<1> QED
  BY <1>1, <1>2

(* A request passes the ceiling only while less than the ceiling is charged.*)
LEMMA AtCeiling ==
    ASSUME UsageInv, SpendInv, UNCHANGED <<asked, today>>, NEW c \in Calls, GoTo(c, "embed"),
           DailySpend(call[c].user, call[c].day) < Ceiling, call[c].step = "check"
    PROVE  SpendInv'
<1> DEFINE r == [call[c] EXCEPT !.step = "embed"]
<1>1. call' = [call EXCEPT ![c] = r]
  BY DEF GoTo
<1>2. call[c].user \in Users /\ call[c].day \in Days /\ call[c].day <= today /\ today \in Days
  BY CallParts DEF Sound
<1>3. asked[call[c].user, today] < Ceiling
  <2> DEFINE then == <<call[c].user, call[c].day>>
             now == <<call[c].user, today>>
  <2>1. /\ asked[then] \in Nat /\ indexed[then] \in Nat
        /\ asked[now] \in Nat /\ indexed[now] \in Nat
    BY <1>2, SpendTypes
  <2>2. call[c].day < today \/ call[c].day = today
    BY <1>2, BoundTypes
  <2>3. \/ asked[then] + indexed[then] + (asked[now] + indexed[now]) < Ceiling
        \/ then = now /\ asked[now] + indexed[now] + 0 < Ceiling
    BY <2>2 DEF DailySpend
  <2>4. \A a, i, b, j \in Nat : a + i + (b + j) < Ceiling \/ b + j + 0 < Ceiling => b < Ceiling
    BY BoundTypes
  <2>5. asked[now] < Ceiling
    BY ONLY <2>1, <2>3, <2>4
  <2> QED
    BY <2>5
<1>4. ASSUME NEW u \in Users, NEW d \in Days
      PROVE  asked'[u, d] + MaxCost * Cardinality(MayCharge(u, d)') < Ceiling + MaxCost * Cardinality(Calls)
  <2>1. CASE Owes(r, today, u, d)
    <3>1. u = call[c].user /\ today <= d
      BY <2>1, <1>2, CallParts DEF Owes, Call, Asking
    <3>2. asked[u, d] < Ceiling
      <4>1. CASE d = today
        BY <4>1, <3>1, <1>3
      <4>2. CASE d # today
        <5>1. today < d
          BY <4>2, <3>1, <1>2, UsageAssumption DEF Days
        <5> QED
          BY <5>1, BoundTypes DEF SpendInv, FutureIsFree
      <4> QED
        BY <4>1, <4>2
    <3>3. MayCharge(u, d)' \subseteq Calls
      BY DEF MayCharge
    <3>4. /\ MaxCost * Cardinality(MayCharge(u, d)') \in Nat /\ MaxCost * Cardinality(Calls) \in Nat
          /\ MaxCost * Cardinality(MayCharge(u, d)') <= MaxCost * Cardinality(Calls)
      BY <3>3, OweLess
    <3>5. asked[u, d] \in Nat /\ asked' = asked /\ Ceiling \in Nat
      BY SpendTypes, BoundTypes
    <3>6. \A a, x, y, z \in Nat : a < z /\ y <= x => a + y < z + x
      OBVIOUS
    <3> QED
      BY ONLY <3>2, <3>4, <3>5, <3>6
  <2>2. CASE ~Owes(r, today, u, d)
    <3>1. MayCharge(u, d)' \subseteq MayCharge(u, d) /\ MayCharge(u, d) \subseteq Calls
      BY <1>1, <2>2 DEF MayCharge, UsageInv, TypeOK
    <3>2. /\ MaxCost * Cardinality(MayCharge(u, d)') \in Nat /\ MaxCost * Cardinality(MayCharge(u, d)) \in Nat
          /\ MaxCost * Cardinality(MayCharge(u, d)') <= MaxCost * Cardinality(MayCharge(u, d))
          /\ MaxCost * Cardinality(Calls) \in Nat
      BY <3>1, OweLess
    <3>3. asked[u, d] + MaxCost * Cardinality(MayCharge(u, d)) < Ceiling + MaxCost * Cardinality(Calls)
      BY DEF SpendInv, Bounded
    <3>4. asked[u, d] \in Nat /\ asked' = asked /\ Ceiling + MaxCost * Cardinality(Calls) \in Nat
      BY SpendTypes, BoundTypes
    <3>5. \A a, x, y, z \in Nat : a + x < z /\ y <= x => a + y < z
      OBVIOUS
    <3> QED
      BY ONLY <3>2, <3>3, <3>4, <3>5
  <2> QED
    BY <2>1, <2>2
<1>5. FutureIsFree'
  BY DEF SpendInv, FutureIsFree
<1> QED
  BY <1>4, <1>5 DEF SpendInv, Bounded

(* What a request owed is charged, or not.                                  *)
LEMMA AtCommit ==
    ASSUME UsageInv, SpendInv, NEW c \in Calls, Commit(c)
    PROVE  SpendInv'
<1> DEFINE ud == <<call[c].user, call[c].day>>
<1>1. /\ call[c].user \in Users /\ call[c].day \in Days /\ call[c].day <= today
      /\ call[c].cost \in Nat /\ call[c].cost <= MaxCost /\ call[c].step = "commit"
      /\ today' = today
  BY CallParts DEF Sound, Commit
<1>2. call' = [call EXCEPT ![c] = NoCall]
  BY DEF Commit, Ended
<1>3. CASE asked' = asked
  BY <1>1, <1>2, <1>3, BeforeCeiling DEF Commit
<1>4. CASE asked' = [asked EXCEPT ![ud] = @ + call[c].cost] /\ call[c].kind # "upload"
  <2>1. ASSUME NEW u \in Users, NEW d \in Days
        PROVE  asked'[u, d] + MaxCost * Cardinality(MayCharge(u, d)') < Ceiling + MaxCost * Cardinality(Calls)
    <3>1. asked[u, d] + MaxCost * Cardinality(MayCharge(u, d)) < Ceiling + MaxCost * Cardinality(Calls)
      BY DEF SpendInv, Bounded
    <3>2. asked[u, d] \in Nat /\ MayCharge(u, d) \subseteq Calls
      BY SpendTypes DEF MayCharge
    <3>3. \A d2 \in Days : ~Owes(NoCall, today', u, d2)
      BY DEF Owes, NoCall, Asking
    <3>4. MayCharge(u, d)' = MayCharge(u, d) \ {c}
      BY <1>1, <1>2, <3>3 DEF MayCharge, UsageInv, TypeOK
    <3>5. CASE <<u, d>> = ud
      <4>1. c \in MayCharge(u, d)
        BY <1>1, <1>4, <3>5 DEF MayCharge, Owes
      <4>2. Cardinality(MayCharge(u, d)') = Cardinality(MayCharge(u, d)) - 1 /\ Cardinality(MayCharge(u, d)) \in Nat
        <5>1. IsFiniteSet(MayCharge(u, d))
          BY <3>2, UsageAssumption, FS_Subset
        <5> QED
          BY <3>4, <4>1, <5>1, FS_RemoveElement, FS_CardinalityType
      <4>3. MaxCost \in Nat
        BY UsageAssumption DEF MaxCost
      <4>4. \A m, k \in Nat : m * (k - 1) = m * k - m
        OBVIOUS
      <4>5. MaxCost * Cardinality(MayCharge(u, d)') = MaxCost * Cardinality(MayCharge(u, d)) - MaxCost
        BY <4>2, <4>3, <4>4
      <4>6. MaxCost * Cardinality(MayCharge(u, d)) \in Nat
        BY <3>2, OweLess
      <4>7. asked'[u, d] = asked[u, d] + call[c].cost
        BY <1>4, <3>5 DEF UsageInv, TypeOK
      <4>8. \A a, p, m, x, z \in Nat : a + x < z /\ p <= m => a + p + (x - m) < z
        OBVIOUS
      <4>9. Ceiling + MaxCost * Cardinality(Calls) \in Nat
        BY BoundTypes
      <4> QED
        BY ONLY <1>1, <3>1, <3>2, <4>3, <4>5, <4>6, <4>7, <4>8, <4>9
    <3>6. CASE <<u, d>> # ud
      <4>1. asked'[u, d] = asked[u, d]
        BY <1>4, <3>6 DEF UsageInv, TypeOK
      <4>2. MayCharge(u, d)' \subseteq MayCharge(u, d)
        BY <3>4
      <4>3. /\ MaxCost * Cardinality(MayCharge(u, d)') \in Nat /\ MaxCost * Cardinality(MayCharge(u, d)) \in Nat
            /\ MaxCost * Cardinality(MayCharge(u, d)') <= MaxCost * Cardinality(MayCharge(u, d))
        BY <3>2, <4>2, OweLess
      <4>4. \A a, x, y, z \in Nat : a + x < z /\ y <= x => a + y < z
        OBVIOUS
      <4>5. Ceiling + MaxCost * Cardinality(Calls) \in Nat
        BY BoundTypes
      <4> QED
        BY ONLY <3>1, <3>2, <4>1, <4>3, <4>4, <4>5
    <3> QED
      BY <3>5, <3>6
  <2>2. FutureIsFree'
    <3>1. ASSUME NEW u \in Users, NEW d \in Days, today < d PROVE asked'[u, d] = 0
      <4>1. <<u, d>> # ud
        BY <1>1, <3>1, BoundTypes
      <4>2. asked'[u, d] = asked[u, d]
        BY <1>4, <4>1 DEF UsageInv, TypeOK
      <4> QED
        BY <3>1, <4>2 DEF SpendInv, FutureIsFree
    <3> QED
      BY <1>1, <3>1 DEF FutureIsFree
  <2> QED
    BY <2>1, <2>2 DEF SpendInv, Bounded
<1> QED
  BY <1>3, <1>4 DEF Commit, Charge, rows

LEMMA SpendInvHolds == Spec => []SpendInv
<1>1. Init /\ UsageInv => SpendInv
  <2> SUFFICES ASSUME Init, UsageInv PROVE SpendInv
    OBVIOUS
  <2>1. ASSUME NEW u \in Users, NEW d \in Days
        PROVE  asked[u, d] + MaxCost * Cardinality(MayCharge(u, d)) < Ceiling + MaxCost * Cardinality(Calls)
    <3>1. asked[u, d] = 0
      BY DEF Init
    <3>2. MayCharge(u, d) \subseteq Calls
      BY DEF MayCharge
    <3>3. /\ MaxCost * Cardinality(MayCharge(u, d)) \in Nat
          /\ MaxCost * Cardinality(MayCharge(u, d)) <= MaxCost * Cardinality(Calls)
      BY <3>2, OweLess
    <3>4. \A x, y, z \in Nat : x <= y /\ 0 < z => 0 + x < z + y
      OBVIOUS
    <3> QED
      BY <3>1, <3>3, <3>4, BoundTypes
  <2>2. FutureIsFree
    BY DEF Init, FutureIsFree
  <2> QED
    BY <2>1, <2>2 DEF SpendInv, Bounded
<1>2. UsageInv /\ SpendInv /\ [Next]_vars => SpendInv'
  <2> SUFFICES ASSUME UsageInv, SpendInv, [Next]_vars PROVE SpendInv'
    OBVIOUS
  <2> USE DEF rows
  <2>1. ASSUME NEW c \in Calls, NEW u \in Users, NEW k \in Kinds[c], Arrive(c, u, k) PROVE SpendInv'
    <3> DEFINE r == [step |-> "count", user |-> u, kind |-> k, left |-> Gates[k], day |-> today, cost |-> 0]
    <3>1. \A v, d : ~Owes(r, today, v, d)
      BY DEF Owes, Asking
    <3> QED
      BY <2>1, <3>1, NobodyOwesMore DEF Arrive
  <2>2. ASSUME NEW c \in Calls, Count(c) PROVE SpendInv'
    <3>1. (GoTo(c, "expire") \/ Passed(c) \/ Ended(c)) /\ UNCHANGED <<asked, today>>
      BY <2>2 DEF Count
    <3> QED
      BY <3>1, BeforeCeiling
  <2>3. ASSUME NEW c \in Calls, SetExpiry(c) PROVE SpendInv'
    <3>1. (Passed(c) \/ Ended(c)) /\ UNCHANGED <<asked, today>>
      BY <2>3 DEF SetExpiry
    <3> QED
      BY <3>1, BeforeCeiling
  <2>4. ASSUME NEW k \in Keys, CloseWindow(k) PROVE SpendInv'
    BY <2>4 DEF CloseWindow, SpendInv, Bounded, FutureIsFree, MayCharge
  <2>5. ASSUME NEW c \in Calls, Begin(c) PROVE SpendInv'
    <3> DEFINE r == [call[c] EXCEPT !.day = today, !.step = IF call[c].kind = "upload" THEN "embed" ELSE "check"]
    <3>1. (call' = [call EXCEPT ![c] = r] \/ Ended(c)) /\ UNCHANGED <<asked, today>>
      BY <2>5 DEF Begin
    <3>2. \A u, d : ~Owes(r, today, u, d)
      BY CallParts DEF Owes, Asking, Call
    <3> QED
      BY <3>1, <3>2, NobodyOwesMore, BeforeCeiling
  <2>6. ASSUME NEW c \in Calls, CheckCeiling(c) PROVE SpendInv'
    BY <2>6, AtCeiling, BeforeCeiling DEF CheckCeiling
  <2>7. ASSUME NEW c \in Calls, CutShort(c), UNCHANGED <<asked, today>>, call[c].step \in Asking PROVE SpendInv'
    BY <2>7, AfterCeiling, BeforeCeiling DEF CutShort
  <2>8. ASSUME NEW c \in Calls, Embed(c) \/ Analyze(c) \/ Generate(c) PROVE SpendInv'
    <3>1. call[c].step \in Asking /\ UNCHANGED <<asked, today>>
      BY <2>8 DEF Embed, Analyze, Generate, Asking
    <3>2. \/ \E cost : Record(c, cost)
          \/ \E p : Pay(c, p, "generate") \/ Pay(c, p, "analyze")
          \/ CutShort(c)
      BY <2>8 DEF Embed, Analyze, Generate
    <3>3. "generate" \in Asking /\ "analyze" \in Asking
      BY DEF Asking
    <3> QED
      BY <2>7, <3>1, <3>2, <3>3, AfterCeiling
  <2>9. ASSUME NEW c \in Calls, Commit(c) PROVE SpendInv'
    BY <2>9, AtCommit
  <2>10. CASE NewDay
    <3>1. today' \in Days /\ today <= today' /\ today' \in Nat /\ today \in Nat /\ UNCHANGED <<asked, call>>
      BY <2>10, UsageAssumption DEF NewDay, UsageInv, TypeOK, Days
    <3>2. ASSUME NEW u \in Users, NEW d \in Days, NEW x \in Calls, Owes(call[x], today', u, d)
          PROVE  Owes(call[x], today, u, d)
      BY <3>1, <3>2, BoundTypes DEF Owes
    <3> QED
      BY <3>1, <3>2, NoMoreIsOwed DEF MayCharge
  <2>11. CASE Restart
    <3>1. \A u, d : ~Owes(NoCall, today, u, d)
      BY DEF Owes, NoCall, Asking
    <3>2. today' = today /\ asked' = asked /\ today \in Days /\ today <= today
      BY <2>11, BoundTypes DEF Restart
    <3>3. \A u \in Users, d \in Days : MayCharge(u, d)' \subseteq MayCharge(u, d)
      BY <2>11, <3>1, <3>2 DEF Restart, MayCharge
    <3> QED
      BY <3>2, <3>3, NoMoreIsOwed
  <2>12. CASE UNCHANGED vars
    BY <2>12 DEF vars, SpendInv, Bounded, FutureIsFree, MayCharge
  <2> QED
    BY <2>1, <2>2, <2>3, <2>4, <2>5, <2>6, <2>8, <2>9, <2>10, <2>11, <2>12 DEF Next, CallStep
<1> QED
  BY <1>1, <1>2, UsageInvHolds, PTL DEF Spec

(* "Daily AI spend: $0.50 / user" (handbook): requests that overlap all pass*)
(* the ceiling, and midnight may fall between the check and the charge; what*)
(* they add to a day still exceeds the ceiling by no more than the requests *)
(* in progress at a time can cost.                                          *)
THEOREM AskedStaysBounded == Spec => []AskedIsBounded
<1>1. UsageInv /\ SpendInv => AskedIsBounded
  <2> SUFFICES ASSUME UsageInv, SpendInv, NEW u \in Users, NEW d \in Days
               PROVE  asked[u, d] < Ceiling + MaxCost * Cardinality(Calls)
    BY DEF AskedIsBounded
  <2>1. asked[u, d] + MaxCost * Cardinality(MayCharge(u, d)) < Ceiling + MaxCost * Cardinality(Calls)
    BY DEF SpendInv, Bounded
  <2>2. asked[u, d] \in Nat /\ MaxCost * Cardinality(MayCharge(u, d)) \in Nat
    <3>1. MayCharge(u, d) \subseteq Calls
      BY DEF MayCharge
    <3> QED
      BY <3>1, OweLess, SpendTypes
  <2>3. \A a, x, z \in Nat : a + x < z => a < z
    OBVIOUS
  <2> QED
    BY <2>1, <2>2, <2>3, BoundTypes
<1> QED
  BY <1>1, UsageInvHolds, SpendInvHolds, PTL
=============================================================================
