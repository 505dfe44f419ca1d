----------------------------- MODULE CostGuard -----------------------------
(* The kill switch of the ephemeral AWS environment                         *)
(* (infra/terraform/modules/cost-guard/lambda/handler.py) next to the        *)
(* scripts that build and remove that environment (scripts/deploy.sh,        *)
(* scripts/destroy.sh) and to what AWS does by itself: an invocation reads    *)
(* the Terraform state, takes an inventory, and then acts on what it saw,     *)
(* one call after another, while the other two change what is there.         *)
EXTENDS Naturals

CONSTANTS
    Resources,     \* ECS services, load balancers and RDS instances of the account
    Kind,          \* the kind of each of them
    Managed,       \* those the dev stack describes
    Database,      \* the instance the scripts snapshot and restore
    NameOwned,     \* those whose every name has the project prefix
    Tagged,        \* those that carry the three ephemeral tags
    Mentioned,     \* those whose ARN the state's text names though it does not manage them
    Invocations,   \* invocations of the Lambda that may overlap
    SessionLimit,  \* MAX_SESSION_HOURS
    MaxRetries,    \* how often Lambda repeats an asynchronous invocation that failed
    MaxErrors,     \* bound: calls of the Lambda that fail for no reason of ours
    MaxScripts     \* bound: scripts an operator starts

Kinds == {"ecs-service", "load-balancer", "db-instance"}

ASSUME KindAssumption == Kind \in [Resources -> Kinds]
ASSUME ManagedAssumption == /\ Managed \subseteq NameOwned \cap Tagged \cap Resources
                            /\ Mentioned \subseteq Resources
                            /\ Database \in Managed
                            /\ Kind[Database] = "db-instance"
ASSUME BoundsAssumption == SessionLimit \in Nat /\ MaxRetries \in Nat /\ MaxErrors \in Nat
                           /\ MaxScripts \in Nat

VARIABLES
    live,      \* status of each resource as AWS reports it
    age,       \* full hours since it was created, up to SessionLimit
    state,     \* resources in the stack's Terraform state file
    setting,   \* the Lambda's DRY_RUN variable
    inv,       \* invocations in progress
    script,    \* the script in progress
    unsaved,   \* rows of the database no snapshot holds: none, or from when they are
    errors,    \* errors so far
    scripts    \* scripts started so far

vars == <<live, age, state, setting, inv, script, unsaved, errors, scripts>>
cloud == <<live, age, state, unsaved>>

----------------------------------------------------------------------------
(* What AWS reports. A service wants tasks (which start or run), has a       *)
(* desired count of zero while tasks still run, or has none.                 *)
Services == {"serving", "draining", "idle"}
Instances == {"creating", "available", "backing-up", "stopping", "stopped", "starting"}
Statuses == {"absent", "active"} \cup Services \cup Instances

Running == [k \in Kinds |-> CASE k = "ecs-service"   -> "serving"
                              [] k = "load-balancer" -> "active"
                              [] k = "db-instance"   -> "available"]
Fresh == [k \in Kinds |-> IF k = "db-instance" THEN "creating" ELSE Running[k]]

Exists(r) == live[r] # "absent"

\* describe: a service bills while it wants or runs a task, an instance in any status but these, a
\* load balancer always. "deleting" is not told from "absent": nothing is done about either.
DbNotBillable == {"stopped", "stopping"}
Billable(r) == live[r] \notin ({"absent", "idle"} \cup DbNotBillable)

----------------------------------------------------------------------------
(* The Lambda                                                               *)

\* Config.from_env: anything but an explicit "false" is a dry run; "unset" is one such value.
Settings == {"false", "unset"}

\* Variant: a dry run only when the variable asks for it.
DryRunWhenAsked == setting = "true"

DryRun == setting # "false"

Events == {"sns-trigger-topic", "sns-other-topic", "session-limit", "manual", "unrecognised"}

Classify(e) == CASE e = "sns-trigger-topic"              -> "budget"
                 [] e \in {"session-limit", "manual"}     -> e
                 [] OTHER                                -> "none"

\* SNS and EventBridge invoke asynchronously, an operator waits for the answer.
Retries(trigger) == IF trigger = "manual" THEN 0 ELSE MaxRetries

Idle == [at |-> "idle", trigger |-> "none", text |-> {}, todo |-> {}, failed |-> FALSE, tries |-> 0]
\* The invocation c goes on at another place of the code.
Goes(c, at, text, todo, failed) ==
    [at |-> at, trigger |-> c.trigger, text |-> text, todo |-> todo, failed |-> failed,
     tries |-> c.tries]

Begun(trigger, tries) == [at |-> "read", trigger |-> trigger, text |-> {}, todo |-> {},
                          failed |-> FALSE, tries |-> tries]

\* handler, and the part of run before the inventory: events that classify to nothing change nothing.
Invoke(i, e) ==
    /\ inv[i].at = "idle"
    /\ Classify(e) # "none"
    /\ inv' = [inv EXCEPT ![i] = Begun(Classify(e), 0)]
    /\ UNCHANGED <<cloud, setting, script, errors, scripts>>

Retry(i) ==
    /\ inv[i].at = "retry"
    /\ inv' = [inv EXCEPT ![i] = Begun(@.trigger, @.tries + 1)]
    /\ UNCHANGED <<cloud, setting, script, errors, scripts>>

\* Variant: the invocation is repeated whenever it fails.
RaisedAlways(c) == Goes(c, "retry", {}, {}, TRUE)

\* The invocation raises: Lambda repeats it, or drops the event after the last attempt.
Raised(c) == IF c.tries < Retries(c.trigger) THEN Goes(c, "retry", {}, {}, TRUE) ELSE Idle

\* shut_down makes no call for a service that was described at zero tasks, though a deployment may
\* have raised it since.
SeenAtZero(r) == live[r] = "draining"

\* Variant: the guard knows services and load balancers only.
DecidedWithoutDatabase(c, owned, failed) ==
    LET billable == {r \in owned : Billable(r) /\ Kind[r] # "db-instance"} IN
    IF c.trigger = "session-limit" /\ \A r \in billable : age[r] < SessionLimit
    THEN Idle
    ELSE Goes(c, "act", {}, {r \in billable : ~SeenAtZero(r)}, failed)

\* run from the inventory on. A session-limit check that finds nothing billable or nothing old enough
\* returns, whatever went wrong in the inventory.
Decided(c, owned, failed) ==
    LET billable == {r \in owned : Billable(r)} IN
    IF c.trigger = "session-limit" /\ \A r \in billable : age[r] < SessionLimit
    THEN Idle
    ELSE Goes(c, "act", {}, {r \in billable : ~SeenAtZero(r)}, failed)

Fault == errors < MaxErrors /\ errors' = errors + 1

\* read_state: an environment never deployed has no file, which is an empty state.
ReadState(i) ==
    /\ inv[i].at = "read"
    /\ \/ /\ inv' = [inv EXCEPT ![i] = Goes(@, "look", state \cup Mentioned, {}, FALSE)]
          /\ UNCHANGED errors
       \/ /\ Fault
          /\ inv' = [inv EXCEPT ![i] = Decided(@, {}, TRUE)]
    /\ UNCHANGED <<cloud, setting, script, scripts>>

\* Variant: presence in the Terraform state is not asked for.
OwnedByName(r, text) == r \in NameOwned /\ r \in Tagged

\* discover filters by the tags; ownership_problems checks name, tags and state.
Discovered == {r \in Resources : Exists(r) /\ r \in Tagged}
Owned(r, text) == r \in NameOwned /\ r \in Tagged /\ r \in text

\* The rest of take_inventory: describe may fail for some of what was discovered, which are then
\* missing from the inventory; an error of discover is not caught. One step here: the code describes
\* one resource after the other, so it may see two of them at different moments. What it may act on is
\* decided for each resource alone, and AWS answers every call of ShutDown by what is so then.
TakeInventory(i) ==
    /\ inv[i].at = "look"
    /\ \/ /\ inv' = [inv EXCEPT ![i] = Decided(@, {r \in Discovered : Owned(r, @.text)}, FALSE)]
          /\ UNCHANGED errors
       \/ /\ Fault
          /\ \E bad \in {r \in Discovered : Owned(r, inv[i].text)} :
               inv' = [inv EXCEPT ![i] =
                         Decided(@, {r \in Discovered : Owned(r, @.text)} \ {bad}, TRUE)]
       \/ Fault /\ inv' = [inv EXCEPT ![i] = Raised(@)]
    /\ UNCHANGED <<cloud, setting, script, scripts>>

ShutdownOrder == [k \in Kinds |-> CASE k = "ecs-service"   -> 0
                                    [] k = "load-balancer" -> 1
                                    [] k = "db-instance"   -> 2]

\* AWS refuses to scale a service that is gone and to stop an instance that is not available;
\* deleting a load balancer twice is no error, nor is scaling to zero twice.
Refused(r) == \/ Kind[r] = "ecs-service" /\ ~Exists(r)
              \/ Kind[r] = "db-instance" /\ live[r] # "available"

Stopped(r) == CASE Kind[r] = "ecs-service"   -> IF live[r] = "serving" THEN "draining" ELSE live[r]
                [] Kind[r] = "load-balancer" -> "absent"
                [] Kind[r] = "db-instance"   -> "stopping"

\* shut_down, one resource of its list: a failure is noted and the next resource follows.
ShutDown(i, r) ==
    /\ inv[i].at = "act"
    /\ r \in inv[i].todo
    /\ \A q \in inv[i].todo : ShutdownOrder[Kind[r]] <= ShutdownOrder[Kind[q]]
    /\ \/ /\ DryRun
          /\ inv' = [inv EXCEPT ![i] = Goes(@, "act", {}, @.todo \ {r}, @.failed)]
          /\ UNCHANGED <<live, errors>>
       \/ /\ ~DryRun /\ ~Refused(r)
          /\ live' = [live EXCEPT ![r] = Stopped(r)]
          /\ inv' = [inv EXCEPT ![i] = Goes(@, "act", {}, @.todo \ {r}, @.failed)]
          /\ UNCHANGED errors
       \/ /\ ~DryRun
          /\ \/ Refused(r) /\ UNCHANGED errors
             \/ Fault
          /\ inv' = [inv EXCEPT ![i] = Goes(@, "act", {}, @.todo \ {r}, TRUE)]
          /\ UNCHANGED live
    /\ UNCHANGED <<age, state, unsaved, setting, script, scripts>>

\* Variant: what failed is reported and not raised.
FinishQuietly(i) ==
    /\ inv[i].at = "act"
    /\ inv[i].todo = {}
    /\ inv' = [inv EXCEPT ![i] = Idle]
    /\ UNCHANGED <<cloud, setting, script, errors, scripts>>

\* The end of run: report, which may fail, and raise if anything failed.
Finish(i) ==
    /\ inv[i].at = "act"
    /\ inv[i].todo = {}
    /\ \/ /\ inv' = [inv EXCEPT ![i] = IF @.failed THEN Raised(@) ELSE Idle]
          /\ UNCHANGED errors
       \/ Fault /\ inv' = [inv EXCEPT ![i] = Raised(@)]
    /\ UNCHANGED <<cloud, setting, script, scripts>>

\* The time limit of the function, or the end of its container.
TimeOut(i) ==
    /\ inv[i].at \in {"read", "look", "act"}
    /\ Fault
    /\ inv' = [inv EXCEPT ![i] = Raised(@)]
    /\ UNCHANGED <<cloud, setting, script, scripts>>

Guard(i) == \/ Retry(i) \/ ReadState(i) \/ TakeInventory(i) \/ Finish(i)
            \/ \E r \in Resources : ShutDown(i, r)

----------------------------------------------------------------------------
(* deploy.sh and destroy.sh                                                 *)

NoScript == [at |-> "none", todo |-> {}, made |-> {}]

\* terraform plan: what the state lacks, or names although it is gone.
Planned == {r \in Managed : r \notin state \/ ~Exists(r)}

Apply == [at |-> "deploy-apply", todo |-> Planned, made |-> {}]

\* deploy.sh up to the plan: a stopped instance is started, one that changes is waited for, and one
\* that stops ends the script.
Deploy ==
    /\ script.at = "none" /\ scripts < MaxScripts
    /\ scripts' = scripts + 1
    /\ \/ /\ live[Database] \in {"absent", "available"}
          /\ script' = Apply
          /\ UNCHANGED live
       \/ /\ live[Database] = "stopped"
          /\ live' = [live EXCEPT ![Database] = "starting"]
          /\ script' = [NoScript EXCEPT !.at = "deploy-wait"]
       \/ /\ live[Database] \in {"creating", "backing-up", "starting"}
          /\ script' = [NoScript EXCEPT !.at = "deploy-wait"]
          /\ UNCHANGED live
    /\ UNCHANGED <<age, state, unsaved, setting, inv, errors>>

DeployGoesOn ==
    /\ script.at = "deploy-wait"
    /\ live[Database] = "available"
    /\ script' = Apply
    /\ UNCHANGED <<cloud, setting, inv, errors, scripts>>

\* terraform apply creates what the plan says is missing, if the name is free. A new instance is
\* restored from the newest snapshot.
Create(r) ==
    /\ script.at = "deploy-apply"
    /\ r \in script.todo
    /\ ~Exists(r)
    /\ live' = [live EXCEPT ![r] = Fresh[Kind[r]]]
    /\ age' = [age EXCEPT ![r] = 0]
    /\ unsaved' = IF r = Database THEN "none" ELSE unsaved
    /\ script' = [script EXCEPT !.todo = @ \ {r}, !.made = @ \cup {r}]
    /\ UNCHANGED <<state, setting, inv, errors, scripts>>

\* The resource reaches the state file after it was created.
Record(r) ==
    /\ script.at = "deploy-apply"
    /\ r \in script.made
    /\ state' = state \cup {r}
    /\ script' = [script EXCEPT !.made = @ \ {r}]
    /\ UNCHANGED <<live, age, unsaved, setting, inv, errors, scripts>>

\* destroy.sh up to the snapshot. The destroy plan is made first; an instance that is stopped is
\* started, one that changes ends the script.
Destroy ==
    /\ script.at = "none" /\ scripts < MaxScripts
    /\ scripts' = scripts + 1
    /\ \/ /\ live[Database] = "absent"
          /\ script' = [at |-> "destroy-apply", todo |-> state, made |-> {}]
          /\ UNCHANGED <<live, unsaved>>
       \/ /\ live[Database] = "available"
          /\ live' = [live EXCEPT ![Database] = "backing-up"]
          /\ unsaved' = "none"
          /\ script' = [at |-> "destroy-snapshot", todo |-> state, made |-> {}]
       \/ /\ live[Database] = "stopped"
          /\ live' = [live EXCEPT ![Database] = "starting"]
          /\ script' = [at |-> "destroy-wait", todo |-> state, made |-> {}]
          /\ UNCHANGED unsaved
    /\ UNCHANGED <<age, state, setting, inv, errors>>

\* Variant: an instance that had to be started is destroyed without a snapshot.
SnapshotSkipped ==
    /\ script.at = "destroy-wait"
    /\ live[Database] = "available"
    /\ script' = [script EXCEPT !.at = "destroy-apply"]
    /\ UNCHANGED <<cloud, setting, inv, errors, scripts>>

Snapshot ==
    /\ script.at = "destroy-wait"
    /\ live[Database] = "available"
    /\ live' = [live EXCEPT ![Database] = "backing-up"]
    /\ unsaved' = "none"
    /\ script' = [script EXCEPT !.at = "destroy-snapshot"]
    /\ UNCHANGED <<age, state, setting, inv, errors, scripts>>

SnapshotDone ==
    /\ script.at = "destroy-snapshot"
    /\ live[Database] # "backing-up"
    /\ script' = [script EXCEPT !.at = "destroy-apply"]
    /\ UNCHANGED <<cloud, setting, inv, errors, scripts>>

\* terraform apply of the destroy plan. The ARN of a load balancer dies with it: a call that names it
\* will find nothing, whatever is built later.
Remove(r) ==
    /\ script.at = "destroy-apply"
    /\ r \in script.todo
    /\ live' = [live EXCEPT ![r] = "absent"]
    /\ age' = [age EXCEPT ![r] = 0]
    /\ state' = state \ {r}
    /\ script' = [script EXCEPT !.todo = @ \ {r}]
    /\ inv' = IF Kind[r] = "load-balancer"
              THEN [i \in Invocations |->
                       Goes(inv[i], inv[i].at, inv[i].text, inv[i].todo \ {r}, inv[i].failed)]
              ELSE inv
    /\ UNCHANGED <<unsaved, setting, errors, scripts>>

\* The script is done, or dies: a wait that times out, a call that AWS refuses, an apply that fails
\* before a resource it has created is recorded.
EndScript ==
    /\ script.at # "none"
    /\ script' = NoScript
    /\ UNCHANGED <<cloud, setting, inv, errors, scripts>>

----------------------------------------------------------------------------
(* AWS and the application                                                  *)

Changing == {"draining", "stopping", "creating", "backing-up", "starting"}
Settled(status) == CASE status = "draining" -> "idle"
                     [] status = "stopping" -> "stopped"
                     [] OTHER               -> "available"

Settle(r) ==
    /\ live[r] \in Changing
    /\ live' = [live EXCEPT ![r] = Settled(@)]
    /\ UNCHANGED <<age, state, unsaved, setting, inv, script, errors, scripts>>

\* AWS starts a stopped instance after seven days.
Restart(r) ==
    /\ live[r] = "stopped"
    /\ live' = [live EXCEPT ![r] = "starting"]
    /\ UNCHANGED <<age, state, unsaved, setting, inv, script, errors, scripts>>

\* The application writes to the database. What it writes while destroy.sh runs is told from the rest.
Write(r) ==
    /\ Kind[r] = "ecs-service" /\ r \in Managed
    /\ live[r] \in {"serving", "draining"}
    /\ live[Database] \in {"available", "backing-up"}
    /\ unsaved' = IF script.at \in {"destroy-snapshot", "destroy-apply"} /\ unsaved # "before"
                  THEN "during" ELSE "before"
    /\ UNCHANGED <<live, age, state, setting, inv, script, errors, scripts>>

Tick ==
    /\ age' = [r \in Resources |-> IF Exists(r) /\ age[r] < SessionLimit THEN age[r] + 1 ELSE age[r]]
    /\ age' # age
    /\ UNCHANGED <<live, state, unsaved, setting, inv, script, errors, scripts>>

----------------------------------------------------------------------------
Init ==
    /\ \/ live = [r \in Resources |-> IF r \in Managed THEN "absent" ELSE Running[Kind[r]]] /\ state = {}
       \/ live = [r \in Resources |-> Running[Kind[r]]] /\ state = Managed
    /\ age = [r \in Resources |-> IF r \in Managed THEN 0 ELSE SessionLimit]
    /\ setting \in Settings
    /\ inv = [i \in Invocations |-> Idle]
    /\ script = NoScript
    /\ unsaved = "none"
    /\ errors = 0
    /\ scripts = 0

HourlyCheck(i) == Invoke(i, "session-limit")

Next ==
    \/ \E i \in Invocations : (\E e \in Events : Invoke(i, e)) \/ Guard(i) \/ TimeOut(i)
    \/ Deploy \/ DeployGoesOn \/ Destroy \/ Snapshot \/ SnapshotDone \/ EndScript
    \/ \E r \in Managed : Create(r) \/ Record(r) \/ Remove(r) \/ Write(r)
    \/ \E r \in Resources : Settle(r) \/ Restart(r)
    \/ Tick

Spec == Init /\ [][Next]_vars

\* EventBridge invokes every hour, an invocation ends within its time limit, and AWS completes what
\* it has begun. Nobody has to run a script.
FairSpec ==
    /\ Spec
    /\ WF_vars(\E i \in Invocations : HourlyCheck(i))
    /\ \A i \in Invocations : WF_vars(Guard(i))
    /\ \A r \in Managed : WF_vars(Settle(r))

----------------------------------------------------------------------------
Call == [at : {"idle", "read", "look", "act", "retry"},
         trigger : {"none", "budget", "session-limit", "manual"},
         text : SUBSET Resources, todo : SUBSET Resources, failed : BOOLEAN, tries : 0..MaxRetries]

Script == [at : {"none", "deploy-wait", "deploy-apply", "destroy-wait", "destroy-snapshot",
                 "destroy-apply"},
           todo : SUBSET Managed, made : SUBSET Managed]

TypeOK ==
    /\ live \in [Resources -> Statuses]
    /\ age \in [Resources -> 0..SessionLimit]
    /\ state \subseteq Managed
    /\ setting \in Settings
    /\ inv \in [Invocations -> Call]
    /\ script \in Script
    /\ unsaved \in {"none", "during", "before"}
    /\ errors \in 0..MaxErrors
    /\ scripts \in 0..MaxScripts

Foreign == Resources \ (NameOwned \cap Tagged \cap (Managed \cup Mentioned))

\* A resource that fails any of the three ownership signals keeps running, whatever the guard, the
\* scripts and their races do.
ForeignUntouched == \A r \in Foreign : live[r] = Running[Kind[r]]

\* Unless the variable is exactly "false" no service is scaled down, no instance stopped and no load
\* balancer that the state names deleted.
DryRunKeepsStack ==
    setting # "false" => \A r \in Managed :
        /\ live[r] \notin {"draining", "idle", "stopping", "stopped", "starting"}
        /\ r \in state => Exists(r)

\* destroy.sh removes the instance only when a snapshot holds every row written before the snapshot
\* began, though the guard may stop the instance at any moment in between.
DestroyKeepsRows == [][Exists(Database) /\ ~Exists(Database)' => unsaved # "before"]_vars

\* An invocation that has begun to act and failed in part is given up only after the last attempt.
ErrorsAreRetried ==
    [][\A i \in Invocations :
         inv[i].failed /\ inv[i].at = "act" /\ inv'[i].at = "idle"
            => inv[i].tries = Retries(inv[i].trigger)]_vars

\* What bills past the session limit stops billing, or leaves the state: also an instance that AWS has
\* started again, and what a deployment built behind the back of an earlier shutdown.
PastLimitStops ==
    \A r \in Managed :
        setting = "false" /\ r \in state /\ Billable(r) /\ age[r] = SessionLimit
            ~> ~Billable(r) \/ r \notin state
=============================================================================
