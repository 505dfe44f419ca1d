-------------------------- MODULE CostGuardProofs --------------------------
(* Theorems about CostGuard: whatever overlaps, for any number of resources  *)
(* and invocations.                                                          *)
EXTENDS CostGuard, TLAPS

USE KindAssumption, ManagedAssumption, BoundsAssumption

----------------------------------------------------------------------------
(* Types, and how often an invocation has been repeated.                    *)

TriesFit == \A i \in Invocations : /\ inv[i].tries <= Retries(inv[i].trigger)
                                   /\ inv[i].at = "retry" => inv[i].tries < Retries(inv[i].trigger)

TypeInv == TypeOK /\ TriesFit

\* What the handler's helpers return is an invocation again.
LEMMA GoesFits ==
    ASSUME NEW c \in Call, NEW at \in {"idle", "read", "look", "act", "retry"},
           NEW text \in SUBSET Resources, NEW todo \in SUBSET Resources, NEW failed \in BOOLEAN
    PROVE  /\ Goes(c, at, text, todo, failed) \in Call
           /\ Goes(c, at, text, todo, failed).at = at
           /\ Goes(c, at, text, todo, failed).text = text
           /\ Goes(c, at, text, todo, failed).todo = todo
           /\ Goes(c, at, text, todo, failed).failed = failed
           /\ Goes(c, at, text, todo, failed).tries = c.tries
           /\ Goes(c, at, text, todo, failed).trigger = c.trigger
BY DEF Goes, Call

LEMMA IdleFits == /\ Idle \in Call
                  /\ Idle.at = "idle" /\ Idle.text = {} /\ Idle.todo = {} /\ ~Idle.failed
                  /\ Idle.tries = 0 /\ 0 <= Retries(Idle.trigger)
BY DEF Idle, Call, Retries

LEMMA RaisedFits ==
    ASSUME NEW c \in Call, c.tries <= Retries(c.trigger)
    PROVE  /\ Raised(c) \in Call
           /\ Raised(c).tries <= Retries(Raised(c).trigger)
           /\ Raised(c).at = "retry" => Raised(c).tries < Retries(Raised(c).trigger)
           /\ Raised(c).at \in {"idle", "retry"}
           /\ Raised(c).at = "idle" => c.tries = Retries(c.trigger)
           /\ Raised(c).text = {} /\ Raised(c).todo = {}
<1>1. CASE c.tries < Retries(c.trigger)
  <2>1. Raised(c) = Goes(c, "retry", {}, {}, TRUE)
    BY <1>1 DEF Raised
  <2>2. {} \in SUBSET Resources /\ TRUE \in BOOLEAN
        /\ "retry" \in {"idle", "read", "look", "act", "retry"}
    OBVIOUS
  <2> DEFINE d == Goes(c, "retry", {}, {}, TRUE)
  <2>3. d \in Call /\ d.at = "retry" /\ d.text = {} /\ d.todo = {} /\ d.tries = c.tries
        /\ d.trigger = c.trigger
    BY <2>2 DEF Goes, Call
  <2> HIDE DEF d
  <2>4. Raised(c) = d
    BY <2>1 DEF d
  <2> QED
    BY <1>1, <2>3, <2>4
<1>2. CASE ~(c.tries < Retries(c.trigger))
  <2>1. c.tries \in Nat /\ Retries(c.trigger) \in Nat
    BY DEF Call, Retries
  <2> QED
    BY <1>2, <2>1, IdleFits DEF Raised
<1> QED
  BY <1>1, <1>2

LEMMA DecidedFits ==
    ASSUME NEW c \in Call, NEW owned \in SUBSET Resources, NEW failed \in BOOLEAN,
           c.tries <= Retries(c.trigger)
    PROVE  /\ Decided(c, owned, failed) \in Call
           /\ Decided(c, owned, failed).tries <= Retries(Decided(c, owned, failed).trigger)
           /\ Decided(c, owned, failed).at \in {"idle", "act"}
           /\ Decided(c, owned, failed).todo \subseteq owned
           /\ Decided(c, owned, failed).text = {}
<1> DEFINE billable == {r \in owned : Billable(r)}
           todo == {r \in billable : ~SeenAtZero(r)}
<1>1. todo \in SUBSET Resources /\ todo \subseteq owned
  OBVIOUS
<1>2. CASE c.trigger = "session-limit" /\ \A r \in billable : age[r] < SessionLimit
  BY <1>2, IdleFits DEF Decided
<1>3. CASE ~(c.trigger = "session-limit" /\ \A r \in billable : age[r] < SessionLimit)
  <2>1. Decided(c, owned, failed) = Goes(c, "act", {}, todo, failed)
    BY <1>3 DEF Decided
  <2> HIDE DEF todo
  <2> QED
    BY <1>1, <2>1, GoesFits
<1> QED
  BY <1>2, <1>3

\* An invocation that stays within its type is one of all that do.
LEMMA OneFits ==
    ASSUME TypeInv, NEW i \in Invocations, NEW c \in Call, c.tries <= Retries(c.trigger),
           c.at = "retry" => c.tries < Retries(c.trigger), inv' = [inv EXCEPT ![i] = c]
    PROVE  inv' \in [Invocations -> Call] /\ TriesFit'
BY DEF TypeInv, TypeOK, TriesFit

LEMMA InitTypes == Init => TypeInv
<1> SUFFICES ASSUME Init PROVE TypeInv
  OBVIOUS
<1>1. Running \in [Kinds -> Statuses]
  BY DEF Running, Kinds, Statuses, Services, Instances
<1>2. live \in [Resources -> Statuses]
  BY <1>1 DEF Init, Statuses
<1>3. age \in [Resources -> 0..SessionLimit]
  BY DEF Init
<1>4. script \in Script
  BY DEF Init, Script, NoScript
<1> QED
  BY <1>2, <1>3, <1>4, IdleFits DEF Init, TypeInv, TypeOK, TriesFit
LEMMA StepTypes == TypeInv /\ [Next]_vars => TypeInv'
<1> SUFFICES ASSUME TypeInv, [Next]_vars PROVE TypeInv'
  OBVIOUS
<1> USE DEF TypeInv
<1>a. \A i \in Invocations : inv[i] \in Call /\ inv[i].tries <= Retries(inv[i].trigger)
  BY DEF TypeOK, TriesFit
<1>c. Fault => errors' \in 0..MaxErrors
  BY DEF Fault, TypeOK
<1>1. ASSUME NEW i \in Invocations, NEW e \in Events, Invoke(i, e) PROVE TypeInv'
  <2>1. Begun(Classify(e), 0) \in Call
    BY <1>1 DEF Invoke, Begun, Classify, Call, Events
  <2>2. Begun(Classify(e), 0).tries = 0 /\ Begun(Classify(e), 0).at = "read"
        /\ 0 <= Retries(Begun(Classify(e), 0).trigger)
    BY DEF Begun, Retries
  <2>3. inv' = [inv EXCEPT ![i] = Begun(Classify(e), 0)]
    BY <1>1 DEF Invoke
  <2>4. inv' \in [Invocations -> Call] /\ TriesFit'
    BY <2>1, <2>2, <2>3, OneFits
  <2> QED
    BY <1>1, <2>4 DEF Invoke, cloud, TypeOK
<1>2. ASSUME NEW i \in Invocations, Retry(i) PROVE TypeInv'
  <2> DEFINE c == Begun(inv[i].trigger, inv[i].tries + 1)
  <2>1. c.tries = inv[i].tries + 1 /\ c.at = "read" /\ c.trigger = inv[i].trigger
    BY DEF Begun
  <2>2. inv[i].tries < Retries(inv[i].trigger) /\ inv[i].tries \in Nat
    BY <1>a, <1>2 DEF Retry, TriesFit, Call
  <2>3. c \in Call /\ c.tries <= Retries(c.trigger)
    BY <1>a, <2>1, <2>2 DEF Begun, Call, Retries
  <2>4. inv' = [inv EXCEPT ![i] = c]
    BY <1>2 DEF Retry
  <2> HIDE DEF c
  <2>5. inv' \in [Invocations -> Call] /\ TriesFit'
    BY <2>1, <2>3, <2>4, OneFits
  <2> QED
    BY <1>2, <2>5 DEF Retry, cloud, TypeOK
<1>3. ASSUME NEW i \in Invocations, ReadState(i) PROVE TypeInv'
  <2>1. inv' \in [Invocations -> Call] /\ TriesFit'
    <3>1. CASE inv' = [inv EXCEPT ![i] = Goes(@, "look", state \cup Mentioned, {}, FALSE)]
      <4> DEFINE c == Goes(inv[i], "look", state \cup Mentioned, {}, FALSE)
      <4>1. state \cup Mentioned \in SUBSET Resources /\ {} \in SUBSET Resources
        BY DEF TypeOK
      <4>2. c \in Call /\ c.at = "look" /\ c.tries <= Retries(c.trigger)
        BY <1>a, <4>1 DEF Goes, Call
      <4>3. inv' = [inv EXCEPT ![i] = c]
        BY <3>1
      <4> HIDE DEF c
      <4> QED
        BY <4>2, <4>3, OneFits
    <3>2. CASE inv' = [inv EXCEPT ![i] = Decided(@, {}, TRUE)]
      <4>1. {} \in SUBSET Resources
        OBVIOUS
      <4> QED
        BY <1>a, <3>2, <4>1, DecidedFits, OneFits
    <3> QED
      BY <1>3, <3>1, <3>2 DEF ReadState
  <2> QED
    BY <1>3, <1>c, <2>1 DEF ReadState, cloud, TypeOK
<1>4. ASSUME NEW i \in Invocations, TakeInventory(i) PROVE TypeInv'
  <2> DEFINE owned == {r \in Discovered : Owned(r, inv[i].text)}
  <2>1. owned \in SUBSET Resources /\ \A bad : owned \ {bad} \in SUBSET Resources
    BY DEF Discovered
  <2>2. \/ inv' = [inv EXCEPT ![i] = Decided(inv[i], owned, FALSE)]
        \/ \E bad : inv' = [inv EXCEPT ![i] = Decided(inv[i], owned \ {bad}, TRUE)]
        \/ inv' = [inv EXCEPT ![i] = Raised(inv[i])]
    BY <1>4 DEF TakeInventory
  <2> HIDE DEF owned
  <2>3. inv' \in [Invocations -> Call] /\ TriesFit'
    BY <1>a, <2>1, <2>2, DecidedFits, RaisedFits, OneFits
  <2> QED
    BY <1>4, <1>c, <2>3 DEF TakeInventory, cloud, TypeOK
<1>5. ASSUME NEW i \in Invocations, NEW r \in Resources, ShutDown(i, r) PROVE TypeInv'
  <2> DEFINE c(failed) == Goes(inv[i], "act", {}, inv[i].todo \ {r}, failed)
  <2>1. \A failed \in BOOLEAN : c(failed) \in Call /\ c(failed).at = "act"
                               /\ c(failed).tries <= Retries(c(failed).trigger)
    <3>1. inv[i].todo \ {r} \in SUBSET Resources /\ {} \in SUBSET Resources
      BY <1>a DEF Call
    <3> QED
      BY <1>a, <3>1, GoesFits
  <2>2. \E failed \in BOOLEAN : inv' = [inv EXCEPT ![i] = c(failed)]
    BY <1>a, <1>5 DEF ShutDown, Call
  <2> HIDE DEF c
  <2>3. inv' \in [Invocations -> Call] /\ TriesFit'
    BY <2>1, <2>2, OneFits
  <2>4. live' \in [Resources -> Statuses]
    BY <1>5 DEF ShutDown, Stopped, TypeOK, Statuses, Services, Instances, Kinds
  <2> QED
    BY <1>5, <1>c, <2>3, <2>4 DEF ShutDown, TypeOK
<1>6. ASSUME NEW i \in Invocations, Finish(i) PROVE TypeInv'
  <2>1. inv' \in [Invocations -> Call] /\ TriesFit'
    BY <1>a, <1>6, RaisedFits, IdleFits, OneFits DEF Finish
  <2> QED
    BY <1>6, <1>c, <2>1 DEF Finish, cloud, TypeOK
<1>7. ASSUME NEW i \in Invocations, TimeOut(i) PROVE TypeInv'
  <2>1. inv' \in [Invocations -> Call] /\ TriesFit'
    BY <1>a, <1>7, RaisedFits, OneFits DEF TimeOut
  <2> QED
    BY <1>7, <1>c, <2>1 DEF TimeOut, cloud, TypeOK
<1>b. Planned \in SUBSET Managed /\ {} \in SUBSET Managed /\ state \in SUBSET Managed
  BY DEF Planned, TypeOK
<1>8. CASE Deploy \/ DeployGoesOn
  <2>1. script' \in Script
    BY <1>8, <1>b DEF Deploy, DeployGoesOn, Apply, NoScript, Script
  <2> QED
    BY <1>8, <2>1 DEF Deploy, DeployGoesOn, TypeOK, TriesFit, cloud, Statuses, Instances
<1>9. CASE Destroy \/ Snapshot \/ SnapshotDone \/ EndScript
  <2>1. script' \in Script
    BY <1>9, <1>b DEF Destroy, Snapshot, SnapshotDone, EndScript, NoScript, Script, TypeOK
  <2> QED
    BY <1>9, <2>1 DEF Destroy, Snapshot, SnapshotDone, EndScript, TypeOK, TriesFit, cloud,
                      Statuses, Instances
<1>10. ASSUME NEW r \in Managed, Create(r) \/ Record(r) \/ Write(r) PROVE TypeInv'
  <2>1. script' \in Script
    <3>1. script \in Script
      BY DEF TypeOK
    <3>2. CASE Create(r)
      BY <3>1, <3>2 DEF Create, Script
    <3>3. CASE Record(r)
      BY <3>1, <3>3 DEF Record, Script
    <3>4. CASE Write(r)
      BY <3>1, <3>4 DEF Write
    <3> QED
      BY <1>10, <3>2, <3>3, <3>4
  <2>2. Fresh \in [Kinds -> Statuses]
    BY DEF Fresh, Running, Kinds, Statuses, Services, Instances
  <2> QED
    BY <1>10, <2>1, <2>2 DEF Create, Record, Write, TypeOK, TriesFit
<1>11. ASSUME NEW r \in Managed, Remove(r) PROVE TypeInv'
  <2>1. script' \in Script
    BY <1>11 DEF Remove, Script, TypeOK
  <2>2. inv' \in [Invocations -> Call] /\ TriesFit'
    <3>1. CASE inv' = inv
      BY <3>1 DEF TypeOK, TriesFit
    <3>2. CASE inv' = [i \in Invocations |-> Goes(inv[i], inv[i].at, inv[i].text,
                                                 inv[i].todo \ {r}, inv[i].failed)]
      <4>1. ASSUME NEW i \in Invocations
            PROVE  inv'[i] \in Call /\ inv'[i].at = inv[i].at /\ inv'[i].tries = inv[i].tries
                   /\ inv'[i].trigger = inv[i].trigger
        <5>1. inv[i].at \in {"idle", "read", "look", "act", "retry"}
              /\ inv[i].text \in SUBSET Resources /\ inv[i].todo \ {r} \in SUBSET Resources
              /\ inv[i].failed \in BOOLEAN
          BY <1>a DEF Call
        <5> QED
          BY <1>a, <3>2, <5>1, GoesFits
      <4> QED
        BY <3>2, <4>1 DEF TriesFit
    <3> QED
      BY <1>11, <3>1, <3>2 DEF Remove
  <2>3. /\ live' \in [Resources -> Statuses] /\ age' \in [Resources -> 0..SessionLimit]
        /\ state' \subseteq Managed /\ UNCHANGED <<unsaved, setting, errors, scripts>>
    BY <1>11 DEF Remove, TypeOK, Statuses
  <2> QED
    BY <2>1, <2>2, <2>3 DEF TypeOK
<1>12. ASSUME NEW r \in Resources, Settle(r) \/ Restart(r) PROVE TypeInv'
  <2>1. Settled(live[r]) \in Statuses /\ "starting" \in Statuses
    BY DEF Settled, Statuses, Services, Instances
  <2> QED
    BY <1>12, <2>1 DEF Settle, Restart, TypeOK, TriesFit
<1>13. CASE Tick
  <2>1. age' \in [Resources -> 0..SessionLimit]
    BY <1>13 DEF Tick, TypeOK
  <2> QED
    BY <1>13, <2>1 DEF Tick, TypeOK, TriesFit
<1>14. CASE UNCHANGED vars
  BY <1>14 DEF vars, TypeOK, TriesFit
<1> QED
  BY <1>1, <1>2, <1>3, <1>4, <1>5, <1>6, <1>7, <1>8, <1>9, <1>10, <1>11, <1>12, <1>13, <1>14
  DEF Next, Guard

\* Every variable keeps its type.
THEOREM TypeCorrect == Spec => []TypeOK
<1>1. TypeInv => TypeOK
  BY DEF TypeInv
<1> QED
  BY <1>1, InitTypes, StepTypes, PTL DEF Spec

----------------------------------------------------------------------------
(* Look-alikes. What an invocation reads or means to stop is never foreign.  *)

ForeignInv ==
    /\ ForeignUntouched
    /\ \A i \in Invocations : /\ inv[i].text \subseteq Managed \cup Mentioned
                             /\ inv[i].todo \cap Foreign = {}

LEMMA ForeignSteps == TypeInv /\ ForeignInv /\ [Next]_vars => ForeignInv'
<1> SUFFICES ASSUME TypeInv, ForeignInv, [Next]_vars PROVE ForeignInv'
  OBVIOUS
<1> USE DEF ForeignInv
<1>a. \A i \in Invocations : inv[i] \in Call /\ inv[i].tries <= Retries(inv[i].trigger)
  BY DEF TypeInv, TypeOK, TriesFit
<1>b. Managed \cap Foreign = {} /\ Foreign \in SUBSET Resources
  BY DEF Foreign
<1>c. inv \in [Invocations -> Call] /\ live \in [Resources -> Statuses]
  BY DEF TypeInv, TypeOK
<1>d. \A r \in Foreign : live[r] \in {"serving", "active", "available"}
  BY <1>b DEF ForeignUntouched, Running, Kinds
<1>e. ASSUME NEW i \in Invocations, NEW c \in Call, inv' = [inv EXCEPT ![i] = c],
             c.text \subseteq Managed \cup Mentioned, c.todo \cap Foreign = {}
      PROVE  \A j \in Invocations : /\ inv'[j].text \subseteq Managed \cup Mentioned
                                  /\ inv'[j].todo \cap Foreign = {}
  BY <1>c, <1>e
<1>f. live' = live => ForeignUntouched'
  BY DEF ForeignUntouched
<1>h. ASSUME NEW r, r \notin Foreign, \E status : live' = [live EXCEPT ![r] = status]
      PROVE  ForeignUntouched'
  BY <1>b, <1>c, <1>h DEF ForeignUntouched
<1>g. ASSUME NEW r \in Managed, \E status : live' = [live EXCEPT ![r] = status] PROVE ForeignUntouched'
  BY <1>b, <1>g, <1>h
<1>1. ASSUME NEW i \in Invocations, NEW e \in Events, Invoke(i, e) PROVE ForeignInv'
  <2>1. inv' = [inv EXCEPT ![i] = Begun(Classify(e), 0)] /\ live' = live
    BY <1>1 DEF Invoke, cloud
  <2>2. Begun(Classify(e), 0).text = {} /\ Begun(Classify(e), 0).todo = {}
    BY DEF Begun
  <2> QED
    BY <1>c, <1>f, <2>1, <2>2
<1>2. ASSUME NEW i \in Invocations, Retry(i) PROVE ForeignInv'
  <2>1. inv' = [inv EXCEPT ![i] = Begun(inv[i].trigger, inv[i].tries + 1)] /\ live' = live
    BY <1>2 DEF Retry, cloud
  <2>2. Begun(inv[i].trigger, inv[i].tries + 1).text = {}
        /\ Begun(inv[i].trigger, inv[i].tries + 1).todo = {}
    BY DEF Begun
  <2> QED
    BY <1>c, <1>f, <2>1, <2>2
<1>3. ASSUME NEW i \in Invocations, ReadState(i) PROVE ForeignInv'
  <2>1. CASE inv' = [inv EXCEPT ![i] = Goes(@, "look", state \cup Mentioned, {}, FALSE)]
    <3> DEFINE c == Goes(inv[i], "look", state \cup Mentioned, {}, FALSE)
    <3>1. c.text = state \cup Mentioned /\ c.todo = {}
      BY DEF Goes
    <3>2. inv' = [inv EXCEPT ![i] = c] /\ state \subseteq Managed
      BY <2>1 DEF TypeInv, TypeOK
    <3> HIDE DEF c
    <3>3. \A j \in Invocations : /\ inv'[j].text \subseteq Managed \cup Mentioned
                               /\ inv'[j].todo \cap Foreign = {}
      BY <1>c, <3>1, <3>2
    <3> QED
      BY <1>3, <1>f, <3>3 DEF ReadState, cloud
  <2>2. CASE inv' = [inv EXCEPT ![i] = Decided(@, {}, TRUE)]
    <3>1. Decided(inv[i], {}, TRUE).todo \subseteq {} /\ Decided(inv[i], {}, TRUE).text = {}
      BY <1>a, DecidedFits
    <3>2. \A j \in Invocations : /\ inv'[j].text \subseteq Managed \cup Mentioned
                               /\ inv'[j].todo \cap Foreign = {}
      BY <1>c, <2>2, <3>1
    <3> QED
      BY <1>3, <1>f, <3>2 DEF ReadState, cloud
  <2> QED
    BY <1>3, <2>1, <2>2 DEF ReadState
<1>4. ASSUME NEW i \in Invocations, TakeInventory(i) PROVE ForeignInv'
  <2> DEFINE owned == {r \in Discovered : Owned(r, inv[i].text)}
  <2>1. /\ owned \in SUBSET Resources /\ owned \cap Foreign = {}
        /\ \A bad : owned \ {bad} \in SUBSET Resources
    BY DEF Discovered, Owned, Foreign
  <2>2. \/ inv' = [inv EXCEPT ![i] = Decided(inv[i], owned, FALSE)]
        \/ \E bad : inv' = [inv EXCEPT ![i] = Decided(inv[i], owned \ {bad}, TRUE)]
        \/ inv' = [inv EXCEPT ![i] = Raised(inv[i])]
    BY <1>4 DEF TakeInventory
  <2> HIDE DEF owned
  <2>3. \E c : inv' = [inv EXCEPT ![i] = c] /\ c.text = {} /\ c.todo \cap Foreign = {}
    <3>1. CASE inv' = [inv EXCEPT ![i] = Decided(inv[i], owned, FALSE)]
      <4>1. Decided(inv[i], owned, FALSE).todo \subseteq owned
            /\ Decided(inv[i], owned, FALSE).text = {}
        BY <1>a, <2>1, DecidedFits
      <4> QED
        BY <2>1, <3>1, <4>1
    <3>2. CASE \E bad : inv' = [inv EXCEPT ![i] = Decided(inv[i], owned \ {bad}, TRUE)]
      <4>1. PICK bad : inv' = [inv EXCEPT ![i] = Decided(inv[i], owned \ {bad}, TRUE)]
        BY <3>2
      <4>2. Decided(inv[i], owned \ {bad}, TRUE).todo \subseteq owned \ {bad}
            /\ Decided(inv[i], owned \ {bad}, TRUE).text = {}
        BY <1>a, <2>1, DecidedFits
      <4>3. Decided(inv[i], owned \ {bad}, TRUE).todo \cap Foreign = {}
        BY <2>1, <4>2
      <4> QED
        BY <4>1, <4>2, <4>3
    <3>3. CASE inv' = [inv EXCEPT ![i] = Raised(inv[i])]
      <4>1. Raised(inv[i]).text = {} /\ Raised(inv[i]).todo = {}
        BY <1>a, RaisedFits
      <4> QED
        BY <3>3, <4>1
    <3> QED
      BY <2>2, <3>1, <3>2, <3>3
  <2>4. \A j \in Invocations : /\ inv'[j].text \subseteq Managed \cup Mentioned
                             /\ inv'[j].todo \cap Foreign = {}
    BY <1>c, <2>3
  <2> QED
    BY <1>4, <1>f, <2>4 DEF TakeInventory, cloud
<1>5. ASSUME NEW i \in Invocations, NEW r \in Resources, ShutDown(i, r) PROVE ForeignInv'
  <2>1. r \in inv[i].todo /\ r \notin Foreign
    BY <1>5 DEF ShutDown
  <2>2. \E failed : inv' = [inv EXCEPT ![i] = Goes(@, "act", {}, inv[i].todo \ {r}, failed)]
    BY <1>5 DEF ShutDown
  <2>3. \A failed : Goes(inv[i], "act", {}, inv[i].todo \ {r}, failed).text = {}
          /\ Goes(inv[i], "act", {}, inv[i].todo \ {r}, failed).todo = inv[i].todo \ {r}
    BY DEF Goes
  <2>4. \A j \in Invocations : /\ inv'[j].text \subseteq Managed \cup Mentioned
                             /\ inv'[j].todo \cap Foreign = {}
    BY <1>c, <2>2, <2>3
  <2>5. live' = live \/ \E status : live' = [live EXCEPT ![r] = status]
    BY <1>5 DEF ShutDown
  <2> QED
    BY <1>f, <1>h, <2>1, <2>4, <2>5
<1>6. ASSUME NEW i \in Invocations, Finish(i) \/ TimeOut(i) PROVE ForeignInv'
  <2>1. \E c : inv' = [inv EXCEPT ![i] = c] /\ c.text = {} /\ c.todo = {}
    BY <1>6, <1>a, RaisedFits, IdleFits DEF Finish, TimeOut
  <2>2. \A j \in Invocations : /\ inv'[j].text \subseteq Managed \cup Mentioned
                             /\ inv'[j].todo \cap Foreign = {}
    BY <1>c, <2>1
  <2> QED
    BY <1>6, <1>f, <2>2 DEF Finish, TimeOut, cloud
<1>7. CASE Deploy \/ DeployGoesOn \/ Destroy \/ Snapshot \/ SnapshotDone \/ EndScript
  <2>1. live' = live \/ \E status : live' = [live EXCEPT ![Database] = status]
    BY <1>7 DEF Deploy, DeployGoesOn, Destroy, Snapshot, SnapshotDone, EndScript, cloud
  <2>2. inv' = inv
    BY <1>7 DEF Deploy, DeployGoesOn, Destroy, Snapshot, SnapshotDone, EndScript
  <2> QED
    BY <1>f, <1>g, <2>1, <2>2
<1>8. ASSUME NEW r \in Managed, Create(r) \/ Record(r) \/ Write(r) PROVE ForeignInv'
  <2>1. inv' = inv /\ (live' = live \/ \E status : live' = [live EXCEPT ![r] = status])
    BY <1>8 DEF Create, Record, Write
  <2> QED
    BY <1>f, <1>g, <2>1
<1>9. ASSUME NEW r \in Managed, Remove(r) PROVE ForeignInv'
  <2>1. \E status : live' = [live EXCEPT ![r] = status]
    BY <1>9 DEF Remove
  <2>2. \A j \in Invocations : inv'[j].text = inv[j].text /\ inv'[j].todo \subseteq inv[j].todo
    BY <1>9 DEF Remove, Goes
  <2> QED
    BY <1>g, <2>1, <2>2
<1>10. ASSUME NEW r \in Resources, Settle(r) \/ Restart(r) PROVE ForeignInv'
  <2>1. r \notin Foreign
    BY <1>10, <1>d DEF Settle, Restart, Changing
  <2>2. inv' = inv /\ \E status : live' = [live EXCEPT ![r] = status]
    BY <1>10 DEF Settle, Restart
  <2> QED
    BY <1>h, <2>1, <2>2
<1>11. CASE Tick \/ UNCHANGED vars
  BY <1>11, <1>f DEF Tick, vars
<1> QED
  BY <1>1, <1>2, <1>3, <1>4, <1>5, <1>6, <1>7, <1>8, <1>9, <1>10, <1>11 DEF Next, Guard

\* ForeignUntouched: the guard never stops what fails one of the three ownership signals.
THEOREM ForeignStaysUntouched == Spec => []ForeignUntouched
<1>1. Init => ForeignInv
  BY IdleFits DEF Init, ForeignInv, ForeignUntouched, Foreign
<1>2. ForeignInv => ForeignUntouched
  BY DEF ForeignInv
<1> QED
  BY <1>1, <1>2, InitTypes, StepTypes, ForeignSteps, PTL DEF Spec

----------------------------------------------------------------------------
(* A dry run. What the script has made and not yet recorded exists, too.     *)

DryRunInv == /\ DryRunKeepsStack
             /\ setting # "false" => \A r \in script.made : Exists(r)
             /\ script.at # "deploy-apply" => script.made = {}

LEMMA DryRunSteps == TypeInv /\ DryRunInv /\ [Next]_vars => DryRunInv'
<1> SUFFICES ASSUME TypeInv, DryRunInv, [Next]_vars PROVE DryRunInv'
  OBVIOUS
<1> USE DEF DryRunInv, DryRunKeepsStack
<1>a. /\ live \in [Resources -> Statuses] /\ state \subseteq Managed /\ script \in Script
      /\ script.made \subseteq Managed /\ script.todo \subseteq Managed
  BY DEF TypeInv, TypeOK, Script
<1>b. UNCHANGED <<live, state, setting, script>> => DryRunInv'
  BY DEF Exists
<1>1. ASSUME NEW i \in Invocations, NEW e \in Events, Invoke(i, e) PROVE DryRunInv'
  BY <1>1, <1>b DEF Invoke, cloud
<1>2. ASSUME NEW i \in Invocations, Retry(i) \/ ReadState(i) \/ TakeInventory(i) \/ Finish(i) \/ TimeOut(i)
      PROVE  DryRunInv'
  BY <1>2, <1>b DEF Retry, ReadState, TakeInventory, Finish, TimeOut, cloud
<1>3. ASSUME NEW i \in Invocations, NEW r \in Resources, ShutDown(i, r) PROVE DryRunInv'
  <2>1. CASE setting # "false"
    BY <1>3, <1>b, <2>1 DEF ShutDown, DryRun
  <2>2. CASE setting = "false"
    BY <1>3, <2>2 DEF ShutDown
  <2> QED
    BY <2>1, <2>2
<1>4. CASE Deploy \/ DeployGoesOn
  <2>1. script'.made = {}
    BY <1>4 DEF Deploy, DeployGoesOn, Apply, NoScript
  <2>2. setting # "false" => live' = live
    BY <1>4 DEF Deploy, DeployGoesOn, cloud
  <2> QED
    BY <1>4, <2>1, <2>2 DEF Deploy, DeployGoesOn, Exists, cloud
<1>5. CASE Destroy \/ Snapshot
  <2>1. script'.made = {}
    BY <1>5, <1>a DEF Destroy, Snapshot, Script
  <2>2. setting # "false" => live' = live \/ live' = [live EXCEPT ![Database] = "backing-up"]
    BY <1>5 DEF Destroy, Snapshot
  <2> QED
    BY <1>5, <1>a, <2>1, <2>2 DEF Destroy, Snapshot, Exists
<1>6. CASE SnapshotDone \/ EndScript
  <2>1. script'.made = {}
    BY <1>6, <1>a DEF SnapshotDone, EndScript, NoScript, Script
  <2> QED
    BY <1>6, <2>1 DEF SnapshotDone, EndScript, Exists, cloud
<1>7. ASSUME NEW r \in Managed, Create(r) PROVE DryRunInv'
  <2>1. Fresh[Kind[r]] \in {"serving", "active", "creating"}
    BY DEF Fresh, Running, Kinds
  <2>2. live' = [live EXCEPT ![r] = Fresh[Kind[r]]] /\ state' = state /\ setting' = setting
    BY <1>7 DEF Create
  <2>3. script'.at = script.at /\ script'.made = script.made \cup {r} /\ script.at = "deploy-apply"
    BY <1>7, <1>a DEF Create, Script
  <2>4. \A q \in Managed : Exists(q) => Exists(q)'
    BY <1>a, <2>1, <2>2 DEF Exists
  <2>5. Exists(r)'
    BY <1>a, <2>1, <2>2 DEF Exists
  <2>6. setting # "false" => DryRunKeepsStack'
    BY <1>a, <2>1, <2>2, <2>4
  <2>7. setting # "false" => \A q \in script'.made : Exists(q)'
    BY <1>a, <2>3, <2>4, <2>5
  <2> QED
    BY <2>2, <2>3, <2>6, <2>7
<1>8. ASSUME NEW r \in Managed, Record(r) PROVE DryRunInv'
  <2>1. script'.at = script.at /\ script'.made = script.made \ {r}
    BY <1>8, <1>a DEF Record, Script
  <2> QED
    BY <1>8, <2>1 DEF Record, Exists
<1>9. ASSUME NEW r \in Managed, Write(r) PROVE DryRunInv'
  BY <1>9, <1>b DEF Write
<1>10. ASSUME NEW r \in Managed, Remove(r) PROVE DryRunInv'
  <2>1. script'.at = script.at /\ script'.made = script.made /\ script.made = {}
    BY <1>10, <1>a DEF Remove, Script
  <2>2. live' = [live EXCEPT ![r] = "absent"] /\ state' = state \ {r} /\ setting' = setting
    BY <1>10 DEF Remove
  <2> QED
    BY <1>a, <2>1, <2>2 DEF Exists
<1>11. ASSUME NEW r \in Resources, Settle(r) \/ Restart(r) PROVE DryRunInv'
  <2>1. \E status \in {"idle", "stopped", "available", "starting"} :
          /\ live' = [live EXCEPT ![r] = status]
          /\ status # "available" => live[r] \in {"draining", "stopping", "stopped"}
    BY <1>11 DEF Settle, Restart, Settled
  <2>3. setting # "false" /\ r \in Managed => live[r] \notin {"draining", "stopping", "stopped"}
    OBVIOUS
  <2>2. state' = state /\ setting' = setting /\ script' = script
    BY <1>11 DEF Settle, Restart
  <2> QED
    BY <1>a, <2>1, <2>2 DEF Exists
<1>12. CASE Tick \/ UNCHANGED vars
  BY <1>12, <1>b DEF Tick, vars
<1> QED
  BY <1>1, <1>2, <1>3, <1>4, <1>5, <1>6, <1>7, <1>8, <1>9, <1>10, <1>11, <1>12 DEF Next, Guard

\* DryRunKeepsStack: unless armed, the guard changes nothing of the stack.
THEOREM DryRunStays == Spec => []DryRunKeepsStack
<1>1. Init => DryRunInv
  <2> SUFFICES ASSUME Init PROVE DryRunInv
    OBVIOUS
  <2>1. \A r \in Managed : live[r] \in {"absent", "serving", "active", "available"}
                         /\ (r \in state => live[r] # "absent")
    BY DEF Init, Running, Kinds
  <2> QED
    BY <2>1 DEF Init, DryRunInv, DryRunKeepsStack, NoScript, Exists
<1>2. DryRunInv => DryRunKeepsStack
  BY DEF DryRunInv
<1> QED
  BY <1>1, <1>2, InitTypes, StepTypes, DryRunSteps, PTL DEF Spec

----------------------------------------------------------------------------
(* The rows of the database, and errors.                                    *)

\* From the snapshot on, all rows of before are in it, or there is no instance left.
RowsInv == script.at \in {"destroy-snapshot", "destroy-apply"}
              => unsaved # "before" \/ ~Exists(Database)

LEMMA RowsSteps == TypeInv /\ RowsInv /\ [Next]_vars => RowsInv'
<1> SUFFICES ASSUME TypeInv, RowsInv, [Next]_vars PROVE RowsInv'
  OBVIOUS
<1> USE DEF RowsInv, Exists
<1>a. live \in [Resources -> Statuses] /\ script \in Script /\ Database \in Resources
  BY DEF TypeInv, TypeOK
<1>b. UNCHANGED <<live, script, unsaved>> => RowsInv'
  OBVIOUS
<1>1. ASSUME NEW i \in Invocations, NEW e \in Events, Invoke(i, e) PROVE RowsInv'
  BY <1>1, <1>b DEF Invoke, cloud
<1>2. ASSUME NEW i \in Invocations, Retry(i) \/ ReadState(i) \/ TakeInventory(i) \/ Finish(i) \/ TimeOut(i)
      PROVE  RowsInv'
  BY <1>2, <1>b DEF Retry, ReadState, TakeInventory, Finish, TimeOut, cloud
<1>3. ASSUME NEW i \in Invocations, NEW r \in Resources, ShutDown(i, r) PROVE RowsInv'
  <2>1. UNCHANGED <<script, unsaved>>
        /\ (live' = live \/ (live' = [live EXCEPT ![r] = Stopped(r)] /\ ~Refused(r)))
    BY <1>3 DEF ShutDown
  <2>2. r = Database => Refused(r) \/ live[r] # "absent"
    BY DEF Refused
  <2> QED
    BY <1>a, <2>1, <2>2
<1>4. CASE Deploy \/ DeployGoesOn \/ Destroy \/ EndScript
  BY <1>4, <1>a DEF Deploy, DeployGoesOn, Destroy, EndScript, Apply, NoScript
<1>5. CASE Snapshot \/ SnapshotDone
  BY <1>5, <1>a DEF Snapshot, SnapshotDone, cloud, Script
<1>6. ASSUME NEW r \in Managed, Create(r) \/ Record(r) PROVE RowsInv'
  <2>1. script'.at = "deploy-apply"
    BY <1>6, <1>a DEF Create, Record, Script
  <2> QED
    BY <2>1
<1>7. ASSUME NEW r \in Managed, Write(r) PROVE RowsInv'
  BY <1>7 DEF Write
<1>8. ASSUME NEW r \in Managed, Remove(r) PROVE RowsInv'
  <2>1. script'.at = script.at /\ unsaved' = unsaved /\ live' = [live EXCEPT ![r] = "absent"]
    BY <1>8, <1>a DEF Remove, Script
  <2> QED
    BY <1>a, <2>1
<1>9. ASSUME NEW r \in Resources, Settle(r) \/ Restart(r) PROVE RowsInv'
  <2>1. UNCHANGED <<script, unsaved>> /\ live[r] # "absent"
        /\ \E status : live' = [live EXCEPT ![r] = status]
    BY <1>9 DEF Settle, Restart, Changing
  <2> QED
    BY <1>a, <2>1
<1>10. CASE Tick \/ UNCHANGED vars
  BY <1>10, <1>b DEF Tick, vars
<1> QED
  BY <1>1, <1>2, <1>3, <1>4, <1>5, <1>6, <1>7, <1>8, <1>9, <1>10 DEF Next, Guard

\* Only the destroy plan removes the instance.
LEMMA RemovedByScript ==
    ASSUME TypeInv, [Next]_vars, Exists(Database), ~Exists(Database)'
    PROVE  script.at = "destroy-apply" /\ unsaved' = unsaved
<1> USE DEF Exists
<1>a. live \in [Resources -> Statuses] /\ Database \in Resources
  BY DEF TypeInv, TypeOK
<1>1. ASSUME NEW i \in Invocations, NEW e \in Events, Invoke(i, e) PROVE FALSE
  BY <1>1 DEF Invoke, cloud
<1>2. ASSUME NEW i \in Invocations, Retry(i) \/ ReadState(i) \/ TakeInventory(i) \/ Finish(i) \/ TimeOut(i)
      PROVE  FALSE
  BY <1>2 DEF Retry, ReadState, TakeInventory, Finish, TimeOut, cloud
<1>3. ASSUME NEW i \in Invocations, NEW r \in Resources, ShutDown(i, r) PROVE FALSE
  <2>1. live' = live \/ live' = [live EXCEPT ![r] = Stopped(r)]
    BY <1>3 DEF ShutDown
  <2>2. Stopped(Database) = "stopping"
    BY DEF Stopped
  <2> QED
    BY <1>a, <2>1, <2>2
<1>4. CASE Deploy \/ DeployGoesOn \/ Destroy \/ Snapshot \/ SnapshotDone \/ EndScript
  BY <1>4, <1>a DEF Deploy, DeployGoesOn, Destroy, Snapshot, SnapshotDone, EndScript, cloud
<1>5. ASSUME NEW r \in Managed, Create(r) \/ Record(r) \/ Write(r) PROVE FALSE
  <2>1. Fresh[Kind[r]] # "absent"
    BY DEF Fresh, Running, Kinds
  <2> QED
    BY <1>5, <1>a, <2>1 DEF Create, Record, Write
<1>6. ASSUME NEW r \in Managed, Remove(r) PROVE script.at = "destroy-apply" /\ unsaved' = unsaved
  BY <1>6 DEF Remove
<1>7. ASSUME NEW r \in Resources, Settle(r) \/ Restart(r) PROVE FALSE
  BY <1>7, <1>a DEF Settle, Restart, Settled
<1>8. CASE Tick \/ UNCHANGED vars
  BY <1>8 DEF Tick, vars
<1> QED
  BY <1>1, <1>2, <1>3, <1>4, <1>5, <1>6, <1>7, <1>8 DEF Next, Guard

\* DestroyKeepsRows: what was in the database before the snapshot is in the snapshot.
THEOREM RowsAreKept == Spec => DestroyKeepsRows
<1>1. Init => RowsInv
  BY DEF Init, RowsInv, NoScript
<1>2. TypeInv /\ RowsInv /\ [Next]_vars
        => [Exists(Database) /\ ~Exists(Database)' => unsaved # "before"]_vars
  BY RemovedByScript DEF RowsInv
<1> QED
  BY <1>1, <1>2, InitTypes, StepTypes, RowsSteps, PTL DEF Spec, DestroyKeepsRows

\* ErrorsAreRetried: an invocation that failed in part ends with its last attempt only.
THEOREM ErrorsStayRetried == Spec => ErrorsAreRetried
<1> DEFINE Given(i) == inv[i].failed /\ inv[i].at = "act" /\ inv'[i].at = "idle"
                         => inv[i].tries = Retries(inv[i].trigger)
<1>1. TypeInv /\ [Next]_vars => \A i \in Invocations : Given(i)
  <2> SUFFICES ASSUME TypeInv, [Next]_vars, NEW i \in Invocations,
                      inv[i].failed, inv[i].at = "act", inv'[i].at = "idle"
               PROVE  inv[i].tries = Retries(inv[i].trigger)
    OBVIOUS
  <2>a. inv \in [Invocations -> Call] /\ inv[i] \in Call /\ inv[i].tries <= Retries(inv[i].trigger)
    BY DEF TypeInv, TypeOK, TriesFit
  <2>b. ASSUME NEW j \in Invocations, j # i, \E c : inv' = [inv EXCEPT ![j] = c] PROVE FALSE
    BY <2>a, <2>b
  <2>1. ASSUME NEW j \in Invocations, NEW e \in Events, Invoke(j, e) PROVE FALSE
    <3>1. inv[j].at = "idle" /\ \E c : inv' = [inv EXCEPT ![j] = c]
      BY <2>1 DEF Invoke
    <3> QED
      BY <2>b, <3>1
  <2>2. ASSUME NEW j \in Invocations, Retry(j) \/ ReadState(j) \/ TakeInventory(j) PROVE FALSE
    <3>1. inv[j].at # "act" /\ \E c : inv' = [inv EXCEPT ![j] = c]
      BY <2>2 DEF Retry, ReadState, TakeInventory
    <3> QED
      BY <2>b, <3>1
  <2>3. ASSUME NEW j \in Invocations, NEW r \in Resources, ShutDown(j, r) PROVE FALSE
    <3>1. \E failed : inv' = [inv EXCEPT ![j] = Goes(inv[j], "act", {}, inv[j].todo \ {r}, failed)]
      BY <2>3 DEF ShutDown
    <3>2. \A failed : Goes(inv[j], "act", {}, inv[j].todo \ {r}, failed).at = "act"
      BY DEF Goes
    <3> QED
      BY <2>a, <2>b, <3>1, <3>2
  <2>4. ASSUME NEW j \in Invocations, Finish(j) \/ TimeOut(j)
        PROVE  inv[i].tries = Retries(inv[i].trigger)
    <3>1. \E c : inv' = [inv EXCEPT ![j] = c]
      BY <2>4 DEF Finish, TimeOut
    <3>2. j = i
      BY <2>b, <3>1
    <3>3. inv' = [inv EXCEPT ![i] = Raised(inv[i])]
      BY <2>4, <3>2 DEF Finish, TimeOut
    <3>4. Raised(inv[i]).at = "idle"
      BY <2>a, <3>3
    <3> QED
      BY <2>a, <3>4, RaisedFits
  <2>5. ASSUME NEW r \in Managed, Remove(r) PROVE FALSE
    <3>1. inv'[i].at = inv[i].at
      BY <2>5 DEF Remove, Goes
    <3> QED
      BY <3>1
  <2>6. ASSUME inv' = inv PROVE FALSE
    BY <2>6
  <2> QED
    BY <2>1, <2>2, <2>3, <2>4, <2>5, <2>6
    DEF Next, Guard, Deploy, DeployGoesOn, Destroy, Snapshot, SnapshotDone, EndScript, Create, Record,
        Write, Settle, Restart, Tick, vars
<1>2. TypeInv /\ [Next]_vars => [\A i \in Invocations : Given(i)]_vars
  BY <1>1
<1> QED
  BY <1>2, InitTypes, StepTypes, PTL DEF Spec, ErrorsAreRetried
=============================================================================
