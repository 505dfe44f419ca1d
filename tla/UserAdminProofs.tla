-------------------------- MODULE UserAdminProofs --------------------------
(***************************************************************************)
(* Theorems about UserAdmin for any number of people and requests.         *)
(***************************************************************************)
EXTENDS UserAdminHistory, UserAdminMirror, TLAPS

USE DEF rows, directory

(* What each step of a request may rely on: the person it is about, and a   *)
(* change that is still to be made.                                         *)
WellFormed(r) ==
    /\ req[r].step # "idle" => req[r].user \in Users
    /\ req[r].step \in {"role", "insert", "identity"} => req[r].role # "keep"
    /\ req[r].step \in {"count", "flush"} => req[r].role # "keep" \/ req[r].active # "keep"
    /\ req[r].step = "status" => req[r].active # "keep"
    /\ req[r].step \in {"insert", "identity"} => req[r].active = "on"

TypeInv == TypeOK /\ \A r \in Requests : WellFormed(r)

(* The types are preserved, with what the steps of a request rely on.       *)
LEMMA TypesKept == Spec => []TypeInv
<1> USE UserAssumption DEF TypeInv, WellFormed, TypeOK, Roles, Request, Steps, LockedSteps, Idle, GiveUp, GoTo
<1>1. Init => TypeInv
  BY DEF Init
<1>2. TypeInv /\ [Next]_vars => TypeInv'
  <2> SUFFICES ASSUME TypeInv, [Next]_vars PROVE TypeInv'
    OBVIOUS
  <2>1. ASSUME NEW u \in Users, SignIn(u) PROVE TypeInv'
    BY <2>1 DEF SignIn
  <2>2. ASSUME NEW t \in tokens, Expire(t) PROVE TypeInv'
    BY <2>2 DEF Expire
  <2>3. ASSUME NEW r \in Requests, NEW a \in Users, NEW u \in Users,
               NEW newRole \in Roles \cup {"keep"}, NEW status \in {"keep", "on", "off"},
               StartUpdate(r, a, u, newRole, status)
        PROVE  TypeInv'
    <3>1. Difference(u, newRole, status) \in [role : Roles \cup {"keep"}, active : {"keep", "on", "off"}]
      BY DEF Difference
    <3> QED
      BY <2>3, <3>1 DEF StartUpdate
  <2>4. ASSUME NEW r \in Requests, NEW a \in Users \cup {NoUser}, NEW u \in Users, NEW newRole \in Roles,
               StartInvite(r, a, u, newRole)
        PROVE  TypeInv'
    BY <2>4 DEF StartInvite
  <2>5. ASSUME NEW r \in Requests, RequestStep(r) PROVE TypeInv'
    <3>1. CASE CountAdmins(r) \/ Flush(r) \/ InsertUser(r)
      BY <3>1 DEF CountAdmins, Flush, InsertUser
    <3>2. CASE SetRole(r)
      <4>1. dirRole' \in [Users -> Roles \cup {"none"}]
        <5>1. req[r].role \in Roles
          BY <3>2 DEF SetRole
        <5>2. dirRole' = dirRole \/ dirRole' = [dirRole EXCEPT ![req[r].user] = req[r].role]
          BY <3>2, Zenon DEF SetRole
        <5> QED
          BY <5>1, <5>2
      <4>2. (GoTo(r, "status") /\ req[r].active # "keep") \/ GoTo(r, "commit") \/ GiveUp(r)
        BY <3>2 DEF SetRole
      <4> QED
        BY <3>2, <4>1, <4>2 DEF SetRole
    <3>3. CASE SetEnabled(r)
      <4>1. enabled' \in [Users -> BOOLEAN]
        BY <3>3, Zenon DEF SetEnabled
      <4>2. GoTo(r, "commit") \/ GiveUp(r)
        BY <3>3, Zenon DEF SetEnabled
      <4>3. UNCHANGED <<role, active, dirRole, tokens>> /\ req[r].step = "status"
        BY <3>3, Zenon DEF SetEnabled
      <4> QED
        BY <4>1, <4>2, <4>3
    <3>4. CASE CreateIdentity(r)
      <4>1. /\ dirRole' = dirRole \/ dirRole' = [dirRole EXCEPT ![req[r].user] = req[r].role]
            /\ enabled' = enabled \/ enabled' = [enabled EXCEPT ![req[r].user] = TRUE]
        BY <3>4, Zenon DEF CreateIdentity
      <4>2. GoTo(r, "commit") \/ GiveUp(r)
        BY <3>4, Zenon DEF CreateIdentity
      <4>3. UNCHANGED <<role, active, tokens>> /\ req[r].step = "identity" /\ req[r].role \in Roles
        BY <3>4 DEF CreateIdentity
      <4>4. dirRole' \in [Users -> Roles \cup {"none"}]
        BY <4>1, <4>3
      <4>5. enabled' \in [Users -> BOOLEAN]
        BY <4>1, Zenon
      <4> QED
        BY <4>2, <4>3, <4>4, <4>5
    <3>5. CASE Commit(r)
      BY <3>5 DEF Commit
    <3> QED
      BY <2>5, <3>1, <3>2, <3>3, <3>4, <3>5 DEF RequestStep
  <2>6. ASSUME NEW r \in Requests, RollBack(r) PROVE TypeInv'
    BY <2>6 DEF RollBack
  <2>7. CASE UNCHANGED vars
    BY <2>7 DEF vars
  <2> HIDE DEF TypeInv, Roles
  <2> QED
    BY <2>1, <2>2, <2>3, <2>4, <2>5, <2>6, <2>7 DEF Next
<1> QED
  BY <1>1, <1>2, PTL DEF Spec

(* The types are preserved by every step.                                   *)
THEOREM TypeCorrect == Spec => []TypeOK
BY TypesKept, PTL DEF TypeInv


----------------------------------------------------------------------------
(* The directory follows the table of whoever no request was cut short for  *)

Holds(r) == req[r].step \in LockedSteps

(* Where the directory is when a request holds the row of u, while none has *)
(* been cut short for u: at the row, at the row with the new role, or at    *)
(* what the request is about to commit.                                     *)
InStep(r) ==
    LET u == req[r].user
        newRole == IF req[r].role = "keep" THEN role[u] ELSE req[r].role
    IN  /\ req[r].step = "role" => dirRole[u] = role[u] /\ enabled[u] = active[u]
        /\ req[r].step = "status" => dirRole[u] = newRole /\ enabled[u] = active[u]
        /\ req[r].step = "commit" =>
              /\ dirRole[u] = newRole
              /\ req[r].active = "keep" => enabled[u] = active[u]
              /\ req[r].active = "on" => enabled[u] = TRUE
              /\ req[r].active = "off" => enabled[u] = FALSE

Mirroring(r) ==
    /\ req[r].step \in {"count", "flush", "role", "status"} => role[req[r].user] # "none"
    /\ req[r].step = "identity" => role[req[r].user] = "none"
    /\ req[r].user \notin undone => InStep(r)

MirrorInv ==
    /\ \A r, q \in Requests : r # q /\ Holds(r) /\ Holds(q) => req[r].user # req[q].user
    /\ DirectoryMirrorsRow
    /\ \A r \in Requests : Mirroring(r)

(* A step of a request writes the row and the directory of its own person   *)
(* only, and of other requests nothing.                                     *)
LEMMA RequestIsLocal ==
    ASSUME TypeInv, NEW r \in Requests, RequestStep(r) \/ RollBack(r)
    PROVE  /\ \A u \in Users \ {req[r].user} :
                /\ role'[u] = role[u] /\ active'[u] = active[u]
                /\ dirRole'[u] = dirRole[u] /\ enabled'[u] = enabled[u]
           /\ \A q \in Requests \ {r} : req'[q] = req[q]
<1> USE DEF TypeInv, TypeOK, GoTo, GiveUp
<1>1. CASE CountAdmins(r) \/ Flush(r) \/ InsertUser(r)
  BY <1>1 DEF CountAdmins, Flush, InsertUser
<1>2. CASE SetRole(r)
  <2>1. dirRole' = dirRole \/ dirRole' = [dirRole EXCEPT ![req[r].user] = req[r].role]
    BY <1>2, Zenon DEF SetRole
  <2> QED
    BY <1>2, <2>1 DEF SetRole
<1>3. CASE SetEnabled(r)
  <2>1. \E v : enabled' = enabled \/ enabled' = [enabled EXCEPT ![req[r].user] = v]
    BY <1>3, Zenon DEF SetEnabled
  <2>2. UNCHANGED <<role, active, dirRole>>
    BY <1>3, Zenon DEF SetEnabled
  <2>3. \E next : req' = [req EXCEPT ![r] = next] \/ req' = [req EXCEPT ![r].step = next]
    BY <1>3, Zenon DEF SetEnabled
  <2> QED
    BY <2>1, <2>2, <2>3
<1>4. CASE CreateIdentity(r)
  <2>1. /\ dirRole' = dirRole \/ dirRole' = [dirRole EXCEPT ![req[r].user] = req[r].role]
        /\ enabled' = enabled \/ enabled' = [enabled EXCEPT ![req[r].user] = TRUE]
        /\ UNCHANGED <<role, active>>
    BY <1>4, Zenon DEF CreateIdentity
  <2>2. GoTo(r, "commit") \/ GiveUp(r)
    BY <1>4, Zenon DEF CreateIdentity
  <2> QED
    BY <2>1, <2>2
<1>5. CASE Commit(r)
  BY <1>5 DEF Commit
<1>6. CASE RollBack(r)
  BY <1>6 DEF RollBack
<1> QED
  BY <1>1, <1>2, <1>3, <1>4, <1>5, <1>6 DEF RequestStep

(* A request that gives up after its first directory call without a commit  *)
(* is remembered.                                                           *)
Remembered(r) ==
    /\ undone \subseteq undone'
    /\ CutShort(r) => req[r].user \in undone'

(* What a request does to the row and the directory of its own person, and  *)
(* where it goes.                                                           *)
LEMMA RequestFollowsRow ==
    ASSUME TypeInv, NEW r \in Requests, RequestStep(r) \/ RollBack(r), Mirroring(r),
           DirectoryMirrorsRow, Remembered(r)
    PROVE  /\ Mirroring(r)'
           /\ ~Holds(r) /\ Holds(r)' => ~Locked(req[r].user) /\ req'[r].user = req[r].user
           /\ Holds(r) /\ Holds(r)' => req'[r].user = req[r].user
           /\ Holds(r) /\ ~Holds(r)' =>
                 LET u == req[r].user
                 IN  role'[u] # "none" /\ u \notin undone' =>
                        dirRole'[u] = role'[u] /\ enabled'[u] = active'[u]
           /\ ~Holds(r) => UNCHANGED <<role, active, dirRole, enabled>>
           /\ Holds(r) => req[r].user \in Users
<1> USE DEF TypeInv, TypeOK, GoTo, GiveUp, Mirroring, InStep, Holds, LockedSteps, WellFormed,
            Request, Idle, Remembered
<1>1. CASE CountAdmins(r)
  BY <1>1 DEF CountAdmins
<1>2. CASE Flush(r)
  BY <1>2 DEF Flush, DirectoryMirrorsRow
<1>3. CASE InsertUser(r)
  BY <1>3 DEF InsertUser
<1>4. CASE req[r].step \in LockedSteps /\ req'[r] = Idle /\ UNCHANGED <<role, active>> /\ ~Commit(r)
  BY <1>4 DEF CutShort
<1>5. CASE SetRole(r) /\ req'[r] # Idle
  BY <1>5 DEF SetRole
<1>6. CASE SetEnabled(r) /\ req'[r] # Idle
  <2> DEFINE u == req[r].user
  <2>1. /\ req[r].step = "status"
        /\ enabled' = [enabled EXCEPT ![u] = (req[r].active = "on")]
        /\ GoTo(r, "commit")
        /\ UNCHANGED <<role, active, dirRole>>
    BY <1>6 DEF SetEnabled
  <2>2. u \in Users /\ req'[r] = [req[r] EXCEPT !.step = "commit"]
    BY <2>1
  <2>3. /\ req[r].active = "on" => enabled'[u] = TRUE
        /\ req[r].active = "off" => enabled'[u] = FALSE
        /\ req[r].active # "keep"
    <3>1. enabled'[u] = (req[r].active = "on")
      BY <2>1, <2>2, Zenon
    <3> QED
      BY <2>1, <3>1
  <2> QED
    BY <2>1, <2>2, <2>3
<1>7. CASE CreateIdentity(r) /\ req'[r] # Idle
  BY <1>7 DEF CreateIdentity
<1>8. CASE Commit(r)
  BY <1>8 DEF Commit
<1>9. CASE (SetRole(r) \/ SetEnabled(r) \/ CreateIdentity(r)) /\ req'[r] = Idle /\ ~Commit(r)
  <2>1. UNCHANGED <<role, active>> /\ req[r].step \in LockedSteps
    BY <1>9, Zenon DEF SetRole, SetEnabled, CreateIdentity, LockedSteps
  <2> QED
    BY <1>4, <1>9, <2>1
<1>10. CASE RollBack(r) /\ ~Commit(r)
  <2>1. UNCHANGED <<role, active, dirRole, enabled>> /\ req'[r] = Idle
    BY <1>10 DEF RollBack
  <2>2. CASE ~Holds(r)
    BY <2>1, <2>2
  <2> QED
    BY <1>4, <1>10, <2>1, <2>2
<1> QED
  BY <1>1, <1>2, <1>3, <1>5, <1>6, <1>7, <1>8, <1>9, <1>10 DEF RequestStep

(* However many requests are concurrent and whatever fails in between, the  *)
(* directory stays in step with the users table for everybody no request was*)
(* cut short for: the row lock taken before the first directory call        *)
(* serialises the requests for one person.                                  *)
THEOREM DirectoryFollows == MSpec => []DirectoryMirrorsRow
<1>1. MInit => MirrorInv
  <2> SUFFICES ASSUME MInit PROVE MirrorInv
    OBVIOUS
  <2>1. \A r \in Requests : req[r].step = "idle"
    BY DEF MInit, Init, Idle
  <2>2. DirectoryMirrorsRow
    BY DEF MInit, Init, DirectoryMirrorsRow
  <2>3. \A r \in Requests : ~Holds(r) /\ Mirroring(r)
    BY <2>1 DEF Holds, LockedSteps, Mirroring, InStep
  <2> QED
    BY <2>2, <2>3 DEF MirrorInv
<1>2. TypeInv /\ TypeInv' /\ MirrorInv /\ [MNext]_mirrorVars => MirrorInv'
  <2> SUFFICES ASSUME TypeInv, TypeInv', MirrorInv, [MNext]_mirrorVars PROVE MirrorInv'
    OBVIOUS
  <2>0. undone \subseteq undone' /\ \A r \in Requests : Remembered(r)
    <3>1. CASE MNext
      BY <3>1 DEF MNext, Remembered
    <3>2. CASE UNCHANGED mirrorVars
      BY <3>2 DEF mirrorVars, vars, Remembered, CutShort, Idle
    <3> QED
      BY <3>1, <3>2
  <2>1. ASSUME UNCHANGED <<role, active, dirRole, enabled, req>> PROVE MirrorInv'
    <3>1. \A u \in Users : Locked(u)' <=> Locked(u)
      BY <2>1 DEF Locked
    <3>2. DirectoryMirrorsRow'
      BY <2>0, <2>1, <3>1 DEF MirrorInv, DirectoryMirrorsRow
    <3>3. \A r \in Requests : Mirroring(r)'
      BY <2>0, <2>1 DEF MirrorInv, Mirroring, InStep
    <3> QED
      BY <2>1, <3>2, <3>3 DEF MirrorInv, Holds
  <2>2. ASSUME NEW r \in Requests, ~Holds(r), ~Holds(r)', Mirroring(r)',
               UNCHANGED <<role, active, dirRole, enabled>>,
               \A q \in Requests \ {r} : req'[q] = req[q]
        PROVE  MirrorInv'
    <3>1. \A q \in Requests : Holds(q)' => Holds(q) /\ req'[q] = req[q]
      BY <2>2 DEF Holds
    <3>2. \A u \in Users : Locked(u) => Locked(u)'
      BY <2>2 DEF Locked, Holds
    <3>3. DirectoryMirrorsRow'
      BY <2>0, <2>2, <3>2 DEF MirrorInv, DirectoryMirrorsRow
    <3>4. \A q \in Requests : Mirroring(q)'
      BY <2>0, <2>2 DEF MirrorInv, Mirroring, InStep
    <3> QED
      BY <3>1, <3>3, <3>4 DEF MirrorInv
  <2>3. ASSUME NEW r \in Requests, RequestStep(r) \/ RollBack(r) PROVE MirrorInv'
    <3> DEFINE u == req[r].user
    <3>1. \A q \in Requests \ {r} : req'[q] = req[q]
      BY <2>3, RequestIsLocal
    <3>2. Mirroring(r)'
      BY <2>0, <2>3, RequestFollowsRow DEF MirrorInv
    <3>3. CASE ~Holds(r) /\ ~Holds(r)'
      BY <2>0, <2>2, <2>3, <3>1, <3>2, <3>3, RequestFollowsRow DEF MirrorInv
    <3>4. CASE ~Holds(r) /\ Holds(r)'
      <4>1. ~Locked(u) /\ req'[r].user = u /\ UNCHANGED <<role, active, dirRole, enabled>>
        BY <2>0, <2>3, <3>4, RequestFollowsRow DEF MirrorInv
      <4>2. \A q, p \in Requests : q # p /\ Holds(q)' /\ Holds(p)' => req'[q].user # req'[p].user
        <5>1. \A q \in Requests \ {r} : Holds(q)' => Holds(q) /\ req'[q].user = req[q].user /\ req[q].user # u
          BY <3>1, <4>1 DEF Holds, Locked
        <5> QED
          BY <4>1, <5>1 DEF MirrorInv
      <4>3. \A w \in Users : Locked(w) => Locked(w)'
        BY <3>1, <3>4, <4>1 DEF Locked, Holds
      <4>4. DirectoryMirrorsRow'
        BY <2>0, <4>1, <4>3 DEF MirrorInv, DirectoryMirrorsRow
      <4>5. \A q \in Requests : Mirroring(q)'
        BY <2>0, <3>1, <3>2, <4>1 DEF MirrorInv, Mirroring, InStep
      <4> QED
        BY <4>2, <4>4, <4>5 DEF MirrorInv
    <3>5. CASE Holds(r)
      <4>1. \A q \in Requests \ {r} : Holds(q) => req[q].user # u
        BY <3>5 DEF MirrorInv
      <4>2. \A w \in Users \ {u} : /\ role'[w] = role[w] /\ active'[w] = active[w]
                                   /\ dirRole'[w] = dirRole[w] /\ enabled'[w] = enabled[w]
        BY <2>3, RequestIsLocal
      <4>3. ASSUME NEW q \in Requests \ {r} PROVE Mirroring(q)'
        <5>1. req'[q] = req[q] /\ Mirroring(q) /\ (req[q].step # "idle" => req[q].user \in Users)
          BY <3>1 DEF MirrorInv, TypeInv, WellFormed
        <5>2. CASE Holds(q)
          BY <2>0, <4>1, <4>2, <5>1, <5>2 DEF Mirroring, InStep, Holds, LockedSteps
        <5>3. CASE ~Holds(q)
          <6>1. \A w \in Users : role[w] # "none" => role'[w] # "none"
            BY <2>3, <4>2
            DEF RequestStep, CountAdmins, Flush, SetRole, SetEnabled, InsertUser, CreateIdentity,
                Commit, RollBack, TypeInv, TypeOK, Request, Roles
          <6> QED
            BY <2>0, <5>1, <5>3, <6>1 DEF Mirroring, InStep, Holds, LockedSteps
        <5> QED
          BY <5>2, <5>3
      <4>4. Holds(r)' => req'[r].user = u
        BY <2>0, <2>3, <3>5, RequestFollowsRow DEF MirrorInv
      <4>5. \A q, p \in Requests : q # p /\ Holds(q)' /\ Holds(p)' => req'[q].user # req'[p].user
        BY <3>1, <4>1, <4>4 DEF MirrorInv, Holds
      <4>6. ASSUME NEW w \in Users \ undone', role'[w] # "none", ~Locked(w)'
            PROVE  dirRole'[w] = role'[w] /\ enabled'[w] = active'[w]
        <5>1. CASE w = u
          <6>1. ~Holds(r)'
            BY <4>4, <4>6, <5>1 DEF Locked, Holds
          <6> QED
            BY <2>0, <2>3, <3>5, <4>6, <5>1, <6>1, RequestFollowsRow DEF MirrorInv
        <5>2. CASE w # u
          <6>1. ~Locked(w)
            BY <3>1, <4>6, <5>2 DEF Locked
          <6> QED
            BY <2>0, <4>2, <4>6, <5>2, <6>1 DEF MirrorInv, DirectoryMirrorsRow
        <5> QED
          BY <5>1, <5>2
      <4>7. DirectoryMirrorsRow'
        BY <2>0, <4>6 DEF DirectoryMirrorsRow
      <4> QED
        BY <3>2, <4>3, <4>5, <4>7 DEF MirrorInv
    <3> QED
      BY <3>3, <3>4, <3>5
  <2>4. ASSUME NEW r \in Requests, NEW a \in Users, NEW u \in Users,
               NEW newRole \in Roles \cup {"keep"}, NEW status \in {"keep", "on", "off"},
               StartUpdate(r, a, u, newRole, status)
        PROVE  MirrorInv'
    <3>1. /\ req[r] = Idle
          /\ req'[r].user = u /\ req'[r].step \in {"count", "flush"} /\ role[u] # "none"
          /\ UNCHANGED <<role, active, dirRole, enabled>>
          /\ \A q \in Requests \ {r} : req'[q] = req[q]
      BY <2>4 DEF StartUpdate, TypeInv, TypeOK
    <3>2. ~Holds(r) /\ ~Holds(r)'
      BY <3>1 DEF Holds, LockedSteps, Idle
    <3>3. Mirroring(r)'
      BY <2>0, <3>1 DEF Mirroring, InStep
    <3> QED
      BY <2>2, <3>1, <3>2, <3>3
  <2>5. ASSUME NEW r \in Requests, NEW a \in Users \cup {NoUser}, NEW u \in Users, NEW newRole \in Roles,
               StartInvite(r, a, u, newRole)
        PROVE  MirrorInv'
    <3>1. /\ req[r] = Idle
          /\ req'[r].step = "insert"
          /\ UNCHANGED <<role, active, dirRole, enabled>>
          /\ \A q \in Requests \ {r} : req'[q] = req[q]
      BY <2>5 DEF StartInvite, TypeInv, TypeOK
    <3>2. ~Holds(r) /\ ~Holds(r)'
      BY <3>1 DEF Holds, LockedSteps, Idle
    <3>3. Mirroring(r)'
      BY <2>0, <3>1 DEF Mirroring, InStep
    <3> QED
      BY <2>2, <3>1, <3>2, <3>3
  <2>6. CASE \/ \E u \in Users : SignIn(u)
             \/ \E t \in tokens : Expire(t)
             \/ UNCHANGED mirrorVars
    BY <2>1, <2>6 DEF SignIn, Expire, mirrorVars, vars
  <2> QED
    BY <2>3, <2>4, <2>5, <2>6 DEF MNext, Next
<1>3. MirrorInv => DirectoryMirrorsRow
  BY DEF MirrorInv
<1>4. MInit => Init
  BY DEF MInit
<1>5. [MNext]_mirrorVars => [Next]_vars
  BY DEF MNext, mirrorVars
<1>6. MSpec => Spec
  BY <1>4, <1>5, PTL DEF MSpec, Spec
<1> QED
  BY <1>1, <1>2, <1>3, <1>6, TypesKept, PTL DEF MSpec

----------------------------------------------------------------------------
(* The last administrator is lost in a race only                            *)

(* The row lock of an UPDATE and the unique index of an INSERT: no two      *)
(* requests write one person, and an invitation that gets as far as the     *)
(* directory is for a new one.                                              *)
LockInv ==
    /\ \A r, q \in Requests : r # q /\ Holds(r) /\ Holds(q) => req[r].user # req[q].user
    /\ \A r \in Requests : req[r].step = "identity" => role[req[r].user] = "none"

(* Where a request goes.  Only its commit writes the table.                 *)
LEMMA RequestMoves ==
    ASSUME TypeInv, NEW r \in Requests, RequestStep(r)
    PROVE  /\ UNCHANGED <<role, active>> \/ Commit(r)
           /\ \/ req'[r] = Idle
              \/ /\ req'[r].user = req[r].user
                 /\ req'[r].role = req[r].role
                 /\ req'[r].active = req[r].active
                 /\ \/ req[r].step = "count" /\ req'[r].step = "flush" /\ OtherAdmin(r)
                    \/ req[r].step = "flush" /\ req'[r].step \in {"role", "status"} /\ ~Locked(req[r].user)
                    \/ req[r].step \in {"role", "status"} /\ req'[r].step \in {"status", "commit"}
                    \/ /\ req[r].step = "insert" /\ req'[r].step = "identity"
                       /\ ~Locked(req[r].user) /\ role[req[r].user] = "none"
                    \/ req[r].step = "identity" /\ req'[r].step = "commit"
<1> USE DEF TypeInv, TypeOK, GoTo, GiveUp, Request
<1>1. CASE CountAdmins(r)
  BY <1>1 DEF CountAdmins
<1>2. CASE Flush(r)
  BY <1>2 DEF Flush
<1>3. CASE SetRole(r)
  <2>1. /\ req[r].step = "role" /\ UNCHANGED <<role, active>>
        /\ (\E next \in {"status", "commit"} : GoTo(r, next)) \/ GiveUp(r)
    BY <1>3, Zenon DEF SetRole
  <2> QED
    BY <2>1
<1>4. CASE SetEnabled(r)
  <2>1. /\ req[r].step = "status" /\ UNCHANGED <<role, active>>
        /\ GoTo(r, "commit") \/ GiveUp(r)
    BY <1>4, Zenon DEF SetEnabled
  <2> QED
    BY <2>1
<1>5. CASE InsertUser(r)
  BY <1>5 DEF InsertUser
<1>6. CASE CreateIdentity(r)
  <2>1. /\ req[r].step = "identity" /\ UNCHANGED <<role, active>>
        /\ GoTo(r, "commit") \/ GiveUp(r)
    BY <1>6, Zenon DEF CreateIdentity
  <2> QED
    BY <2>1
<1>7. CASE Commit(r)
  BY <1>7 DEF Commit
<1> QED
  BY <1>1, <1>2, <1>3, <1>4, <1>5, <1>6, <1>7 DEF RequestStep

(* What a commit makes of the table.                                        *)
LEMMA CommitWrites ==
    ASSUME TypeInv, NEW r \in Requests, NEW u \in Users, u = req[r].user, Commit(r)
    PROVE  /\ req[r].step = "commit" /\ req'[r] = Idle
           /\ \A v \in Users \ {u} : ActiveAdmin(v)' <=> ActiveAdmin(v)
           /\ ActiveAdmin(u) /\ ~RemovesAdmin(u, req[r]) => ActiveAdmin(u)'
           /\ \A v \in Users \ {u} : role'[v] = role[v]
<1>1. /\ req[r].step = "commit" /\ u \in Users
      /\ role' = [role EXCEPT ![u] = IF req[r].role = "keep" THEN @ ELSE req[r].role]
      /\ active' = [active EXCEPT ![u] = IF req[r].active = "keep" THEN @ ELSE req[r].active = "on"]
      /\ req'[r] = Idle
  BY DEF Commit, GiveUp, TypeInv, TypeOK, WellFormed
<1>2. ASSUME NEW v \in Users \ {u} PROVE role'[v] = role[v] /\ (ActiveAdmin(v)' <=> ActiveAdmin(v))
  <2>1. role'[v] = role[v]
    BY <1>1 DEF TypeInv, TypeOK
  <2>2. active'[v] = active[v]
    BY <1>1, Zenon DEF TypeInv, TypeOK
  <2> QED
    BY <2>1, <2>2 DEF ActiveAdmin
<1>3. ASSUME ActiveAdmin(u), ~RemovesAdmin(u, req[r]) PROVE ActiveAdmin(u)'
  <2>1. /\ role[u] = "admin" /\ active[u] /\ req[r].role # "user"
        /\ (req[r].active = "off" => req[r].role \notin {"keep", "admin"})
    BY <1>3 DEF ActiveAdmin, RemovesAdmin
  <2>2. req[r].role \in {"user", "admin", "keep"} /\ req[r].active \in {"keep", "on", "off"}
    BY DEF TypeInv, TypeOK, Request, Roles
  <2>3. role'[u] = "admin"
    BY <1>1, <2>1, <2>2 DEF TypeInv, TypeOK
  <2>4. active'[u] = (IF req[r].active = "keep" THEN active[u] ELSE req[r].active = "on")
    BY <1>1, Zenon DEF TypeInv, TypeOK
  <2>5. active'[u]
    <3>1. req[r].active # "off"
      BY <2>1, <2>2
    <3>2. CASE req[r].active = "keep"
      BY <2>1, <2>4, <3>2, Zenon
    <3>3. CASE req[r].active = "on"
      BY <2>4, <3>3
    <3> QED
      BY <2>2, <3>1, <3>2, <3>3
  <2> QED
    BY <2>3, <2>5, Zenon DEF ActiveAdmin
<1> QED
  BY <1>1, <1>2, <1>3

(* The locks do what they are for, whatever fails.                          *)
LEMMA LocksHold == Spec => []LockInv
<1>1. Init => LockInv
  BY DEF Init, Idle, LockInv, Holds, LockedSteps
<1>2. TypeInv /\ LockInv /\ [Next]_vars => LockInv'
  <2> SUFFICES ASSUME TypeInv, LockInv, [Next]_vars PROVE LockInv'
    OBVIOUS
  <2> USE DEF Holds, LockedSteps
  <2>1. ASSUME NEW r \in Requests, UNCHANGED role, \A q \in Requests \ {r} : req'[q] = req[q],
               ~Holds(r)'
        PROVE  LockInv'
    BY <2>1 DEF LockInv
  <2>2. ASSUME NEW r \in Requests, RequestStep(r) PROVE LockInv'
    <3> DEFINE u == req[r].user
    <3>0. /\ Commit(r) => u \in Users /\ req[r].step = "commit" /\ req'[r] = Idle
          /\ Commit(r) => \A v \in Users \ {u} : role'[v] = role[v]
      BY CommitWrites DEF Commit, TypeInv, WellFormed
    <3>1. \A q \in Requests \ {r} : req'[q] = req[q]
      BY <2>2, RequestIsLocal
    <3>2. CASE Holds(r)' /\ Holds(r)
      <4>1. UNCHANGED role /\ req'[r].user = u /\ req'[r].step # "identity"
        BY <2>2, <3>2, RequestMoves, <3>0 DEF Idle
      <4> QED
        BY <3>1, <3>2, <4>1 DEF LockInv
    <3>3. CASE Holds(r)' /\ ~Holds(r)
      <4>1. /\ UNCHANGED role /\ req'[r].user = u /\ ~Locked(u)
            /\ req'[r].step = "identity" => role[u] = "none"
        BY <2>2, <3>3, RequestMoves, <3>0 DEF Idle
      <4>2. \A q \in Requests \ {r} : Holds(q)' => req'[q].user # u
        BY <3>1, <4>1 DEF Locked
      <4> QED
        BY <3>1, <4>1, <4>2 DEF LockInv
    <3>4. CASE ~Holds(r)' /\ UNCHANGED role
      BY <2>1, <3>1, <3>4
    <3>5. CASE Commit(r)
      <4>1. ASSUME NEW q \in Requests, req'[q].step = "identity" PROVE role'[req'[q].user] = "none"
        <5>1. q # r /\ req'[q] = req[q]
          BY <3>1, <3>5, <4>1, <3>0 DEF Idle
        <5>2. req[q].user \in Users \ {u}
          BY <3>5, <4>1, <5>1, <3>0 DEF LockInv, TypeInv, WellFormed
        <5> QED
          BY <3>5, <4>1, <5>1, <5>2, <3>0 DEF LockInv
      <4>2. ~Holds(r)'
        BY <3>5, <3>0 DEF Idle
      <4> QED
        BY <3>1, <4>1, <4>2 DEF LockInv
    <3> QED
      BY <2>2, <3>2, <3>3, <3>4, <3>5, RequestMoves
  <2>3. ASSUME NEW r \in Requests, NEW a \in Users, NEW u \in Users,
               NEW newRole \in Roles \cup {"keep"}, NEW status \in {"keep", "on", "off"},
               StartUpdate(r, a, u, newRole, status)
        PROVE  LockInv'
    <3>1. /\ req'[r].step \in {"count", "flush"} /\ UNCHANGED role
          /\ \A q \in Requests \ {r} : req'[q] = req[q]
      BY <2>3 DEF StartUpdate, TypeInv, TypeOK
    <3> QED
      BY <2>1, <3>1
  <2>4. ASSUME NEW r \in Requests, NEW a \in Users \cup {NoUser}, NEW u \in Users, NEW newRole \in Roles,
               StartInvite(r, a, u, newRole)
        PROVE  LockInv'
    <3>1. /\ req'[r].step = "insert" /\ UNCHANGED role
          /\ \A q \in Requests \ {r} : req'[q] = req[q]
      BY <2>4 DEF StartInvite, TypeInv, TypeOK
    <3> QED
      BY <2>1, <3>1
  <2>5. ASSUME NEW r \in Requests, RollBack(r) PROVE LockInv'
    <3>1. /\ req'[r].step = "idle" /\ UNCHANGED role
          /\ \A q \in Requests \ {r} : req'[q] = req[q]
      BY <2>5 DEF RollBack, GiveUp, Idle, TypeInv, TypeOK
    <3> QED
      BY <2>1, <3>1
  <2>6. CASE \/ \E u \in Users : SignIn(u)
             \/ \E t \in tokens : Expire(t)
             \/ UNCHANGED vars
    BY <2>6 DEF SignIn, Expire, vars, LockInv
  <2> QED
    BY <2>2, <2>3, <2>4, <2>5, <2>6 DEF Next
<1> QED
  BY <1>1, <1>2, TypesKept, PTL DEF Spec

(* For any number of people and of overlapping requests, and whatever fails *)
(* in between: as long as no two requests were about to take away two       *)
(* administrators at once, the count each of them made is still right when  *)
(* its change commits, and the company keeps one.  (UserAdminRace shows that*)
(* it can lose the last one in such a race.)                                *)
THEOREM AdminStays == HSpec => []LostOnlyInARace
<1>1. HInit => AdminInv
  <2> SUFFICES ASSUME HInit PROVE AdminInv
    OBVIOUS
  <2>1. AlwaysAnActiveAdmin
    <3>1. PICK u \in Users : role[u] = "admin"
      BY DEF HInit, Init
    <3>2. active[u]
      BY <3>1 DEF HInit, Init
    <3> QED
      BY <3>1, <3>2 DEF AlwaysAnActiveAdmin, ActiveAdmin
  <2>2. \A r \in Requests : ~TakesAdmin(r)
    BY DEF HInit, Init, Idle, TakesAdmin
  <2> QED
    BY <2>1, <2>2 DEF AdminInv, Race
<1>2. TypeInv /\ LockInv /\ AdminInv /\ [HNext]_historyVars => AdminInv'
  <2> SUFFICES ASSUME TypeInv, LockInv, AdminInv, HNext PROVE AdminInv'
    <3>1. CASE UNCHANGED historyVars
      BY <3>1 DEF historyVars, vars, AdminInv, Race, AlwaysAnActiveAdmin, ActiveAdmin, TakesAdmin,
                  RemovesAdmin, OtherAdmin
    <3> QED
      BY <3>1
  <2> DEFINE Kept == AlwaysAnActiveAdmin' /\ \A q \in Requests : TakesAdmin(q)' => OtherAdmin(q)'
  <2>1. SUFFICES ASSUME ~raced' PROVE Kept
    BY DEF HNext, AdminInv
  <2>2. /\ ~Race /\ AlwaysAnActiveAdmin
        /\ \A q \in Requests : TakesAdmin(q) => OtherAdmin(q)
    BY <2>1 DEF HNext, AdminInv
  <2>3. ASSUME UNCHANGED <<role, active>>, NEW r \in Requests,
               \A q \in Requests \ {r} : req'[q] = req[q],
               TakesAdmin(r)' => OtherAdmin(r)'
        PROVE  Kept
    <3>1. AlwaysAnActiveAdmin'
      BY <2>2, <2>3 DEF AlwaysAnActiveAdmin, ActiveAdmin
    <3>2. ASSUME NEW q \in Requests \ {r} PROVE TakesAdmin(q)' => OtherAdmin(q)'
      BY <2>2, <2>3 DEF TakesAdmin, RemovesAdmin, OtherAdmin, ActiveAdmin
    <3> QED
      BY <2>3, <3>1, <3>2
  <2>4. ASSUME UNCHANGED <<role, active, req>> PROVE Kept
    BY <2>2, <2>4 DEF AlwaysAnActiveAdmin, ActiveAdmin, TakesAdmin, RemovesAdmin, OtherAdmin
  <2>5. ASSUME NEW r \in Requests, NEW a \in Users, NEW u \in Users,
               NEW newRole \in Roles \cup {"keep"}, NEW status \in {"keep", "on", "off"},
               StartUpdate(r, a, u, newRole, status)
        PROVE  Kept
    <3> DEFINE c == Difference(u, newRole, status)
    <3>1. /\ req'[r].step = (IF RemovesAdmin(u, c) THEN "count" ELSE "flush")
          /\ req'[r].user = u /\ req'[r].role = c.role /\ req'[r].active = c.active
          /\ UNCHANGED <<role, active>>
          /\ \A q \in Requests \ {r} : req'[q] = req[q]
      BY <2>5 DEF StartUpdate, TypeInv, TypeOK
    <3>2. ~TakesAdmin(r)'
      BY <3>1 DEF TakesAdmin, RemovesAdmin
    <3> QED
      BY <2>3, <3>1, <3>2
  <2>6. ASSUME NEW r \in Requests, NEW a \in Users \cup {NoUser}, NEW u \in Users, NEW newRole \in Roles,
               StartInvite(r, a, u, newRole)
        PROVE  Kept
    <3>1. /\ req'[r].step = "insert" /\ UNCHANGED <<role, active>>
          /\ \A q \in Requests \ {r} : req'[q] = req[q]
      BY <2>6 DEF StartInvite, TypeInv, TypeOK
    <3> QED
      BY <2>3, <3>1 DEF TakesAdmin
  <2>7. ASSUME NEW r \in Requests, RollBack(r) PROVE Kept
    <3>1. /\ req'[r].step = "idle" /\ UNCHANGED <<role, active>>
          /\ \A q \in Requests \ {r} : req'[q] = req[q]
      BY <2>7 DEF RollBack, GiveUp, Idle, TypeInv, TypeOK
    <3> QED
      BY <2>3, <3>1 DEF TakesAdmin
  <2>8. ASSUME NEW r \in Requests, RequestStep(r), UNCHANGED <<role, active>> PROVE Kept
    <3>1. \A q \in Requests \ {r} : req'[q] = req[q]
      BY <2>8, RequestIsLocal
    <3>2. ASSUME TakesAdmin(r)' PROVE OtherAdmin(r)'
      <4>1. /\ req'[r].user = req[r].user /\ req'[r].role = req[r].role /\ req'[r].active = req[r].active
            /\ \/ req[r].step = "count" /\ OtherAdmin(r)
               \/ req[r].step \in {"flush", "role", "status"}
               \/ req[r].step = "identity"
        BY <2>8, <3>2, RequestMoves DEF TakesAdmin, Idle
      <4>2. ActiveAdmin(req[r].user) /\ RemovesAdmin(req[r].user, req[r])
        BY <2>8, <3>2, <4>1 DEF TakesAdmin, ActiveAdmin, RemovesAdmin
      <4>3. req[r].step # "identity"
        BY <4>2 DEF LockInv, ActiveAdmin
      <4>4. OtherAdmin(r)
        BY <2>2, <4>1, <4>2, <4>3 DEF TakesAdmin
      <4> QED
        BY <2>8, <4>1, <4>4 DEF OtherAdmin, ActiveAdmin
    <3> QED
      BY <2>3, <2>8, <3>1, <3>2
  <2>9. ASSUME NEW r \in Requests, Commit(r) PROVE Kept
    <3>0. PICK u \in Users : u = req[r].user
      BY <2>9 DEF Commit, TypeInv, WellFormed
    <3>1. /\ req[r].step = "commit" /\ req'[r] = Idle
          /\ \A v \in Users \ {u} : ActiveAdmin(v)' <=> ActiveAdmin(v)
          /\ ActiveAdmin(u) /\ ~RemovesAdmin(u, req[r]) => ActiveAdmin(u)'
          /\ \A v \in Users \ {u} : role'[v] = role[v]
      BY <2>9, <3>0, CommitWrites
    <3>2. \A q \in Requests \ {r} : req'[q] = req[q]
      BY <2>9, RequestIsLocal DEF RequestStep
    <3>3. AlwaysAnActiveAdmin'
      <4>1. PICK v \in Users : ActiveAdmin(v) /\ (v = u => ~RemovesAdmin(u, req[r]))
        BY <3>0, <2>2, <3>1 DEF AlwaysAnActiveAdmin, TakesAdmin, OtherAdmin
      <4>2. ActiveAdmin(v)'
        BY <3>1, <4>1, Zenon
      <4> QED
        BY <4>2 DEF AlwaysAnActiveAdmin
    <3>4. ASSUME NEW q \in Requests, TakesAdmin(q)' PROVE OtherAdmin(q)'
      <4>1. q # r /\ req'[q] = req[q]
        BY <3>1, <3>2, <3>4 DEF TakesAdmin, Idle
      <4>2. CASE req[q].user = u
        (* The others are not touched by this commit. *)
        <5>1. \E v \in Users \ {u} : ActiveAdmin(v)
          <6>1. CASE TakesAdmin(q)
            BY <3>0, <2>2, <4>2, <6>1 DEF OtherAdmin
          <6>2. CASE ~TakesAdmin(q) /\ TakesAdmin(r)
            BY <3>0, <2>2, <6>2 DEF OtherAdmin
          <6>3. CASE ~TakesAdmin(q) /\ ~TakesAdmin(r) /\ ~ActiveAdmin(u)
            <7>1. PICK w \in Users : ActiveAdmin(w)
              BY <2>2 DEF AlwaysAnActiveAdmin
            <7>2. w # u
              BY <6>3, <7>1
            <7> QED
              BY <7>1, <7>2
          <6>4. CASE ~TakesAdmin(q) /\ ~TakesAdmin(r) /\ ActiveAdmin(u)
            <7>1. RemovesAdmin(u, req[q])' /\ req[q].step \in {"flush", "role", "status", "commit"}
              BY <3>4, <4>1, <4>2 DEF TakesAdmin
            <7>2. RemovesAdmin(u, req[q])
              BY <4>1, <6>4, <7>1 DEF RemovesAdmin, ActiveAdmin
            <7> QED
              BY <3>0, <4>2, <6>4, <7>1, <7>2 DEF TakesAdmin
          <6> QED
            BY <6>1, <6>2, <6>3, <6>4
        <5> QED
          BY <3>1, <4>1, <4>2, <5>1 DEF OtherAdmin
      <4>3. CASE req[q].user # u
        <5>1. req[q].user \in Users
          BY <3>4, <4>1 DEF TakesAdmin, TypeInv, WellFormed
        <5>2. TakesAdmin(q)
          BY <3>1, <3>4, <4>1, <4>3, <5>1 DEF TakesAdmin, RemovesAdmin
        <5>3. PICK v \in Users \ {req[q].user} : ActiveAdmin(v)
          BY <2>2, <5>2 DEF OtherAdmin
        <5>4. ~TakesAdmin(r)
          BY <3>0, <2>2, <4>3, <5>2 DEF Race
        <5>5. ActiveAdmin(v)'
          <6>1. ActiveAdmin(u) => ~RemovesAdmin(u, req[r])
            BY <3>0, <3>1, <5>4 DEF TakesAdmin
          <6> QED
            BY <3>1, <5>3, <6>1, Zenon
        <5> QED
          BY <4>1, <5>3, <5>5 DEF OtherAdmin
      <4> QED
        BY <4>2, <4>3
    <3> QED
      BY <3>3, <3>4
  <2>10. CASE (\E u \in Users : SignIn(u)) \/ \E t \in tokens : Expire(t)
    BY <2>4, <2>10 DEF SignIn, Expire
  <2> QED
    BY <2>5, <2>6, <2>7, <2>8, <2>9, <2>10, RequestMoves DEF HNext, Next
<1>3. AdminInv => LostOnlyInARace
  BY DEF AdminInv, LostOnlyInARace
<1>4. HInit => Init
  BY DEF HInit
<1>5. [HNext]_historyVars => [Next]_vars
  BY DEF HNext, historyVars
<1>6. HSpec => Spec
  BY <1>4, <1>5, PTL DEF HSpec, Spec
<1> QED
  BY <1>1, <1>2, <1>3, <1>6, TypesKept, LocksHold, PTL DEF HSpec
=============================================================================
