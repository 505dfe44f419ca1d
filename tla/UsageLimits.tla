---------------------------- MODULE UsageLimits ----------------------------
(***************************************************************************)
(* What limits the use of the platform by one user: the rate limiter       *)
(* (core/ratelimit.py), and the daily ceiling that chat.py and agents.py   *)
(* read from request_usage before the model calls and that the row written *)
(* after them counts towards.  Uploads are rate limited and charged, and   *)
(* read no ceiling.                                                        *)
(*                                                                         *)
(* An action is what happens between two awaits.  A call that raises loses *)
(* what it has cost so far, except a workflow: run_workflow answers with a *)
(* partial result, whose cost is the initial one.                          *)
(***************************************************************************)
EXTENDS Naturals, FiniteSets, Sequences

CONSTANTS
    Users,
    Calls,       \* requests in progress at a time, of all users
    Kinds,       \* what each of them may be: a set of kinds
    RateLimit,   \* per bucket and minute
    Ceiling,     \* daily_cost_ceiling_usd, in steps of cost
    Prices,      \* what one model call can cost
    MaxPrice,
    MaxDay,      \* bound: days
    MaxIndexed,  \* bound: no upload begins on a day once uploads cost this much
    RedisFails,  \* buckets whose commands may fail
    DatabaseFails,
    NoUser

(* The buckets that deps.py counts a request in, in this order.             *)
Gates == [chat |-> <<"api">>, agent |-> <<"server">>, upload |-> <<"api", "upload">>]
Buckets == {"api", "server", "upload"}
Keys == Users \X Buckets
Days == 0 .. MaxDay

ASSUME UsageAssumption ==
    /\ IsFiniteSet(Calls)
    /\ Kinds \in [Calls -> SUBSET DOMAIN Gates]
    /\ RateLimit \in [Buckets -> Nat \ {0}]
    /\ Ceiling \in Nat \ {0}
    /\ MaxPrice \in Nat
    /\ Prices \subseteq 0 .. MaxPrice
    /\ MaxDay \in Nat
    /\ MaxIndexed \in Nat
    /\ RedisFails \subseteq Buckets
    /\ DatabaseFails \in BOOLEAN
    /\ NoUser \notin Users

VARIABLES
    hits,     \* Redis: the counter of each key; past the limit all values are one
    expires,  \* Redis: has the key a time to live?
    asked,    \* request_usage of answers and workflows: cost per user and day
    indexed,  \* request_usage of ingestions
    today,
    call      \* the requests: next await, user, kind, buckets left, day, cost

redis == <<hits, expires>>
rows == <<asked, indexed>>
vars == <<redis, rows, today, call>>

Steps == {"idle", "count", "expire", "begin", "check", "embed", "analyze", "generate", "commit"}

(* `day` is the day the transaction began, and then that of the usage row;  *)
(* `cost` is what the row will say.                                         *)
Call == [step : Steps, user : Users \cup {NoUser}, kind : DOMAIN Gates, left : Seq(Buckets),
         day : Days, cost : Nat]
NoCall == [step |-> "idle", user |-> NoUser, kind |-> "chat", left |-> <<>>,
           day |-> 0, cost |-> 0]

TypeOK ==
    /\ hits \in [Keys -> Nat]
    /\ expires \in [Keys -> BOOLEAN]
    /\ asked \in [Users \X Days -> Nat]
    /\ indexed \in [Users \X Days -> Nat]
    /\ today \in Days
    /\ call \in [Calls -> Call]

Init ==
    /\ hits = [k \in Keys |-> 0]
    /\ expires = [k \in Keys |-> FALSE]
    /\ asked = [ud \in Users \X Days |-> 0]
    /\ indexed = asked
    /\ today = 0
    /\ call = [c \in Calls |-> NoCall]

GoTo(c, step) == call' = [call EXCEPT ![c].step = step]
Ended(c) == call' = [call EXCEPT ![c] = NoCall]

----------------------------------------------------------------------------
(* The rate limiter *)

Arrive(c, u, k) ==
    /\ call[c].step = "idle"
    /\ k = "upload" => indexed[u, today] < MaxIndexed
    /\ call' = [call EXCEPT ![c] = [step |-> "count", user |-> u, kind |-> k, left |-> Gates[k],
                                    day |-> today, cost |-> 0]]
    /\ UNCHANGED <<redis, rows, today>>

Key(c) == <<call[c].user, Head(call[c].left)>>

(* The next bucket, or the route.                                           *)
Passed(c) ==
    LET left == Tail(call[c].left)
    IN  call' = [call EXCEPT ![c].left = left, ![c].step = IF left = <<>> THEN "begin" ELSE "count"]

Incremented(k) == IF hits[k] > RateLimit[k[2]] THEN hits[k] ELSE hits[k] + 1

(* Variant: the time to live is set by the request that reaches the limit.  *)
CountLazily(c) ==
    /\ call[c].step = "count"
    /\ hits' = [hits EXCEPT ![Key(c)] = Incremented(Key(c))]
    /\ \/ hits'[Key(c)] = RateLimit[Key(c)[2]] /\ hits'[Key(c)] # 1 /\ GoTo(c, "expire")
       \/ hits'[Key(c)] < RateLimit[Key(c)[2]] /\ Passed(c)
       \/ hits'[Key(c)] > RateLimit[Key(c)[2]] /\ Ended(c)
    /\ UNCHANGED <<expires, rows, today>>

(* INCR and TTL in one transaction.  One that raises may have counted.      *)
Count(c) ==
    /\ call[c].step = "count"
    /\ \/ /\ hits' = [hits EXCEPT ![Key(c)] = Incremented(Key(c))]
          /\ \/ hits'[Key(c)] = 1 /\ GoTo(c, "expire")
             \/ hits'[Key(c)] \in 2 .. RateLimit[Key(c)[2]] /\ Passed(c)
             \/ hits'[Key(c)] > RateLimit[Key(c)[2]] /\ Ended(c)
       \/ /\ Key(c)[2] \in RedisFails
          /\ hits' \in {hits, [hits EXCEPT ![Key(c)] = Incremented(Key(c))]}
          /\ Ended(c)
    /\ UNCHANGED <<expires, rows, today>>

(* EXPIRE, by the request that counted to one.                              *)
SetExpiry(c) ==
    /\ call[c].step = "expire"
    /\ \/ expires' = [expires EXCEPT ![Key(c)] = TRUE] /\ Passed(c)
       \/ /\ Key(c)[2] \in RedisFails
          /\ expires' \in {expires, [expires EXCEPT ![Key(c)] = TRUE]}
          /\ Ended(c)
    /\ UNCHANGED <<hits, rows, today>>

(* The minute is over.                                                      *)
CloseWindow(k) ==
    /\ expires[k]
    /\ hits' = [hits EXCEPT ![k] = 0]
    /\ expires' = [expires EXCEPT ![k] = FALSE]
    /\ UNCHANGED <<rows, today, call>>

----------------------------------------------------------------------------
(* The ceiling *)

(* The company's status is read, which begins the transaction.  A suspended *)
(* company, or a statement that fails, ends the request.                    *)
Begin(c) ==
    /\ call[c].step = "begin"
    /\ \/ call' = [call EXCEPT ![c].day = today,
                               ![c].step = IF call[c].kind = "upload" THEN "embed" ELSE "check"]
       \/ Ended(c)
    /\ UNCHANGED <<redis, rows, today>>

(* daily_spend: committed rows since the midnight before the transaction    *)
(* began.  No request sees two midnights (NewDay).                          *)
DailySpend(u, since) ==
    LET on(d) == asked[u, d] + indexed[u, d]
    IN  on(since) + IF since < today THEN on(today) ELSE 0

(* Variant: the ceiling is for chat only.                                   *)
CheckChatOnly(c) ==
    /\ call[c].step = "check"
    /\ \/ /\ call[c].kind = "chat" => DailySpend(call[c].user, call[c].day) < Ceiling
          /\ GoTo(c, "embed")
       \/ Ended(c)
    /\ UNCHANGED <<redis, rows, today>>

(* Over the ceiling, or with a question that is refused, the request ends.  *)
CheckCeiling(c) ==
    /\ call[c].step = "check"
    /\ \/ DailySpend(call[c].user, call[c].day) < Ceiling /\ GoTo(c, "embed")
       \/ Ended(c)
    /\ UNCHANGED <<redis, rows, today>>

----------------------------------------------------------------------------
(* The model calls *)

Pay(c, price, step) == call' = [call EXCEPT ![c].cost = @ + price, ![c].step = step]

(* record_usage flushes the row; created_at is the clock's.                 *)
Record(c, cost) == call' = [call EXCEPT ![c].cost = cost, ![c].day = today, ![c].step = "commit"]

(* Variant: what the step that failed would have cost is taken back.        *)
CutShortRefunded(c) ==
    IF call[c].kind = "agent" THEN Record(c, call[c].cost - MaxPrice) ELSE Ended(c)

(* An exception ends the request, and the task of an upload.  In a workflow *)
(* it, or the timeout, makes a partial result of the initial state.         *)
CutShort(c) == IF call[c].kind = "agent" THEN Record(c, 0) ELSE Ended(c)

(* The question is embedded, then the cache (chat only) and the vectors are *)
(* searched.  On a hit of the one, or with no hit of the other, no model is *)
(* asked.  An upload has its chunks embedded.                               *)
Embed(c) ==
    /\ call[c].step = "embed"
    /\ \/ \E p \in Prices : Record(c, p)
       \/ call[c].kind = "chat" /\ \E p \in Prices : Pay(c, p, "generate")
       \/ call[c].kind = "agent" /\ \E p \in Prices : Pay(c, p, "analyze")
       \/ CutShort(c)
    /\ UNCHANGED <<redis, rows, today>>

Analyze(c) ==
    /\ call[c].step = "analyze"
    /\ CutShort(c) \/ \E p \in Prices : Pay(c, p, "generate")
    /\ UNCHANGED <<redis, rows, today>>

(* The answer of chat, or the node synthesize; nothing is paid after it.    *)
Generate(c) ==
    /\ call[c].step = "generate"
    /\ CutShort(c) \/ \E p \in Prices : Record(c, call[c].cost + p)
    /\ UNCHANGED <<redis, rows, today>>

----------------------------------------------------------------------------
(* The charge *)

Charge(c) ==
    LET ud == <<call[c].user, call[c].day>>
    IN  IF call[c].kind = "upload"
        THEN indexed' = [indexed EXCEPT ![ud] = @ + call[c].cost] /\ UNCHANGED asked
        ELSE asked' = [asked EXCEPT ![ud] = @ + call[c].cost] /\ UNCHANGED indexed

(* A commit that fails may have charged; a flush that fails, and anything   *)
(* that raises between flush and commit, rolls the row back.                *)
Commit(c) ==
    /\ call[c].step = "commit"
    /\ Charge(c) \/ (DatabaseFails /\ UNCHANGED rows)
    /\ Ended(c)
    /\ UNCHANGED <<redis, today>>

----------------------------------------------------------------------------
(* A request lasts less than a day: every await in it has a time limit.     *)
NewDay ==
    /\ today < MaxDay
    /\ \A c \in Calls : call[c].step # "idle" => call[c].day = today
    /\ today' = today + 1
    /\ UNCHANGED <<redis, rows, call>>

(* Redis is a container of the task that is replaced.                       *)
Restart ==
    /\ hits' = [k \in Keys |-> 0]
    /\ expires' = [k \in Keys |-> FALSE]
    /\ call' = [c \in Calls |-> NoCall]
    /\ UNCHANGED <<rows, today>>

CallStep(c) ==
    \/ Count(c) \/ SetExpiry(c) \/ Begin(c) \/ CheckCeiling(c)
    \/ Embed(c) \/ Analyze(c) \/ Generate(c) \/ Commit(c)

Next ==
    \/ \E c \in Calls : CallStep(c) \/ \E u \in Users, k \in Kinds[c] : Arrive(c, u, k)
    \/ \E k \in Keys : CloseWindow(k)
    \/ NewDay
    \/ Restart

Spec == Init /\ [][Next]_vars

(* The event loop runs what can run, and Redis drops a key in time.         *)
Fairness ==
    /\ \A c \in Calls : WF_vars(CallStep(c))
    /\ \A k \in Keys : WF_vars(CloseWindow(k))

FairSpec == Spec /\ Fairness

----------------------------------------------------------------------------
(* Properties *)

(* The most that a question or workflow is charged: three model calls.      *)
MaxCost == 3 * MaxPrice

(* "Daily AI spend: $0.50 / user" (handbook): requests that overlap all pass*)
(* the ceiling before any of them is charged, and midnight may fall between *)
(* the check and the charge.  Still, what questions and workflows add to a  *)
(* day exceeds the ceiling by no more than what is in flight at once.       *)
AskedIsBounded ==
    \A u \in Users, d \in Days : asked[u, d] < Ceiling + MaxCost * Cardinality(Calls)

(* "Fixed-window counter" with Retry-After (ratelimit.py): a counter starts *)
(* again, so nobody is refused for ever - whoever counted first, and        *)
(* although the task may restart between INCR and EXPIRE - as long as no    *)
(* command on it fails, and whatever fails on the other counters.           *)
WindowReopens == \A k \in Keys : k[2] \notin RedisFails => (hits[k] > 0 ~> hits[k] = 0)
=============================================================================
