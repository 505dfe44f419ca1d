----------------------------- MODULE UserAdmin -----------------------------
(***************************************************************************)
(* The people of one company: who administers it, according to the users   *)
(* table and according to the identity directory (Cognito), under invite,  *)
(* role-change and deactivation requests that interleave.                  *)
(*                                                                         *)
(* A request is one transaction that get_session commits at the very end.  *)
(* It takes the row lock with its flush, then calls the directory, which   *)
(* no rollback reaches.  Requests for people of another company, and those *)
(* without an admin token, are refused with no change and do not appear;   *)
(* neither do departments, which touch neither table nor directory roles.  *)
(***************************************************************************)
CONSTANTS
    Users,     \* people, one e-mail address each
    SameId,    \* people whose users.id equals their token's subject (seeded accounts)
    Requests,  \* concurrent requests
    Faults,    \* what may fail: a directory call, the database or the process
    NoUser

ASSUME UserAssumption ==
    /\ SameId \subseteq Users
    /\ Faults \subseteq {"directory", "database"}
    /\ NoUser \notin Users

Roles == {"user", "admin"}

VARIABLES
    role,    \* users.role, "none" without a committed row
    active,  \* users.is_active
    dirRole, \* the role attribute in the directory, "none" without an identity
    enabled, \* is the directory account enabled
    tokens,  \* unexpired ID tokens: whom they name and the role they carry
    req      \* the requests

rows == <<role, active>>
directory == <<dirRole, enabled>>
vars == <<role, active, dirRole, enabled, tokens, req>>

(* The steps of a request; from "role" on it holds the lock on its row.     *)
LockedSteps == {"role", "status", "identity", "commit"}
Steps == {"idle", "count", "flush", "insert"} \cup LockedSteps

(* A change of a request: "keep" leaves the column alone.                   *)
Request ==
    [step : Steps, actor : Users \cup {NoUser}, user : Users \cup {NoUser},
     role : Roles \cup {"keep"}, active : {"keep", "on", "off"}]
Idle == [step |-> "idle", actor |-> NoUser, user |-> NoUser, role |-> "keep", active |-> "keep"]

TypeOK ==
    /\ role \in [Users -> Roles \cup {"none"}]
    /\ active \in [Users -> BOOLEAN]
    /\ dirRole \in [Users -> Roles \cup {"none"}]
    /\ enabled \in [Users -> BOOLEAN]
    /\ tokens \subseteq [user : Users, role : Roles]
    /\ req \in [Requests -> Request]

ActiveAdmin(u) == role[u] = "admin" /\ active[u]

(* A company with its first administrator, and a directory in step with it. *)
Init ==
    /\ role \in [Users -> Roles \cup {"none"}]
    /\ active = [u \in Users |-> role[u] # "none"]
    /\ \E u \in Users : role[u] = "admin"
    /\ dirRole = role
    /\ enabled = active
    /\ tokens = {}
    /\ req = [r \in Requests |-> Idle]

Locked(u) == \E r \in Requests : req[r].user = u /\ req[r].step \in LockedSteps

GoTo(r, next) == req' = [req EXCEPT ![r].step = next]
GiveUp(r) == req' = [req EXCEPT ![r] = Idle]

HoldsAdminToken(u) == [user |-> u, role |-> "admin"] \in tokens

----------------------------------------------------------------------------
(* Signing in (auth.py login, new-password and refresh): the token carries  *)
(* the directory's role, and verify_token accepts it until it expires.      *)
SignIn(u) ==
    /\ dirRole[u] # "none" /\ enabled[u]
    /\ tokens' = tokens \cup {[user |-> u, role |-> dirRole[u]]}
    /\ UNCHANGED <<rows, directory, req>>

Expire(t) ==
    /\ tokens' = tokens \ {t}
    /\ UNCHANGED <<rows, directory, req>>

----------------------------------------------------------------------------
(* PATCH /admin/users/{id} (admin.py update_user) *)

(* assert_not_self compares the id in the path, users.id, with the subject  *)
(* of the caller's token.                                                   *)
IsSelf(actor, u) == actor = u /\ u \in SameId

(* What of the payload differs from the row the request has read.           *)
Difference(u, newRole, status) ==
    [role   |-> IF newRole = role[u] THEN "keep" ELSE newRole,
     active |-> IF status = (IF active[u] THEN "on" ELSE "off") THEN "keep" ELSE status]

(* Demoting an admin, or deactivating one who is and stays admin.           *)
RemovesAdmin(u, c) ==
    \/ c.role = "user"
    \/ c.active = "off" /\ (IF c.role = "keep" THEN role[u] ELSE c.role) = "admin"

StartUpdate(r, a, u, newRole, status) ==
    LET c == Difference(u, newRole, status)
    IN  /\ req[r] = Idle
        /\ HoldsAdminToken(a)
        /\ role[u] # "none"
        /\ c.role # "keep" \/ c.active # "keep"
        /\ ~IsSelf(a, u)
        /\ req' = [req EXCEPT ![r] =
                      [step |-> IF RemovesAdmin(u, c) THEN "count" ELSE "flush",
                       actor |-> a, user |-> u, role |-> c.role, active |-> c.active]]
        /\ UNCHANGED <<rows, directory, tokens>>

(* Variant: the person about to lose the role is counted too.               *)
AnyAdmin(r) == \E v \in Users : ActiveAdmin(v)

(* assert_not_last_admin over the rows committed when count_active_admins   *)
(* runs; nothing is locked.  (A promotion that comes with a deactivation has*)
(* its UPDATE flushed by the count; not holding the row that early, as here,*)
(* only lets more requests in between.)                                     *)
OtherAdmin(r) == \E v \in Users \ {req[r].user} : ActiveAdmin(v)

CountAdmins(r) ==
    /\ req[r].step = "count"
    /\ IF OtherAdmin(r) THEN GoTo(r, "flush") ELSE GiveUp(r)
    /\ UNCHANGED <<rows, directory, tokens>>

(* Variant: the directory is called without holding the row.                *)
FlushWithoutLock(r) ==
    /\ req[r].step = "flush"
    /\ GoTo(r, IF req[r].role # "keep" THEN "role" ELSE "status")
    /\ UNCHANGED <<rows, directory, tokens>>

(* The UPDATE takes the row lock, or waits for it.                          *)
Flush(r) ==
    /\ req[r].step = "flush"
    /\ ~Locked(req[r].user)
    /\ GoTo(r, IF req[r].role # "keep" THEN "role" ELSE "status")
    /\ UNCHANGED <<rows, directory, tokens>>

(* A directory call that raises may have taken effect; the transaction      *)
(* rolls back either way.                                                   *)
SetRole(r) ==
    /\ req[r].step = "role"
    /\ LET new == [dirRole EXCEPT ![req[r].user] = req[r].role]
       IN \/ dirRole' = new /\ GoTo(r, IF req[r].active # "keep" THEN "status" ELSE "commit")
          \/ "directory" \in Faults /\ dirRole' \in {dirRole, new} /\ GiveUp(r)
    /\ UNCHANGED <<rows, enabled, tokens>>

(* Disabling also signs the account out everywhere, which ends its refresh  *)
(* tokens; the ID tokens this API verifies by signature stay valid.         *)
SetEnabled(r) ==
    /\ req[r].step = "status"
    /\ LET new == [enabled EXCEPT ![req[r].user] = (req[r].active = "on")]
       IN \/ enabled' = new /\ GoTo(r, "commit")
          \/ "directory" \in Faults /\ enabled' \in {enabled, new} /\ GiveUp(r)
    /\ UNCHANGED <<rows, dirRole, tokens>>

----------------------------------------------------------------------------
(* POST /admin/users and POST /platform/tenants/{id}/admins: an admin of    *)
(* the company invites either role, the platform operator an admin.         *)
StartInvite(r, a, u, newRole) ==
    /\ req[r] = Idle
    /\ IF a = NoUser THEN newRole = "admin" ELSE HoldsAdminToken(a)
    /\ role[u] = "none"
    /\ req' = [req EXCEPT ![r] = [step |-> "insert", actor |-> a, user |-> u,
                                  role |-> newRole, active |-> "on"]]
    /\ UNCHANGED <<rows, directory, tokens>>

(* The unique index on (tenant_id, email) makes a second INSERT wait for    *)
(* the first and then fail.                                                 *)
InsertUser(r) ==
    /\ req[r].step = "insert"
    /\ ~Locked(req[r].user)
    /\ IF role[req[r].user] = "none" THEN GoTo(r, "identity") ELSE GiveUp(r)
    /\ UNCHANGED <<rows, directory, tokens>>

(* admin_create_user refuses an address that already has an identity.       *)
CreateIdentity(r) ==
    /\ req[r].step = "identity"
    /\ LET u == req[r].user
           created == [dirRole EXCEPT ![u] = req[r].role]
           on == [enabled EXCEPT ![u] = TRUE]
       IN \/ dirRole[u] # "none" /\ GiveUp(r) /\ UNCHANGED directory
          \/ dirRole[u] = "none" /\ dirRole' = created /\ enabled' = on /\ GoTo(r, "commit")
          \/ /\ "directory" \in Faults
             /\ dirRole[u] = "none"
             /\ UNCHANGED directory \/ (dirRole' = created /\ enabled' = on)
             /\ GiveUp(r)
    /\ UNCHANGED <<rows, tokens>>

----------------------------------------------------------------------------
(* Variant: the columns the request leaves alone are written as well.       *)
CommitAllColumns(r) ==
    /\ req[r].step = "commit"
    /\ role' = [role EXCEPT ![req[r].user] = req[r].role]
    /\ active' = [active EXCEPT ![req[r].user] = (req[r].active = "on")]
    /\ GiveUp(r)
    /\ UNCHANGED <<directory, tokens>>

(* The audit row and the commit; only the changed columns are written.      *)
Commit(r) ==
    /\ req[r].step = "commit"
    /\ LET u == req[r].user
       IN /\ role' = [role EXCEPT ![u] = IF req[r].role = "keep" THEN @ ELSE req[r].role]
          /\ active' = [active EXCEPT ![u] = IF req[r].active = "keep" THEN @
                                             ELSE req[r].active = "on"]
    /\ GiveUp(r)
    /\ UNCHANGED <<directory, tokens>>

(* PostgreSQL refuses a statement or the commit, or the process ends: the   *)
(* transaction rolls back wherever the request is.                          *)
RollBack(r) ==
    /\ "database" \in Faults
    /\ req[r].step # "idle"
    /\ GiveUp(r)
    /\ UNCHANGED <<rows, directory, tokens>>

RequestStep(r) ==
    \/ CountAdmins(r) \/ Flush(r) \/ SetRole(r) \/ SetEnabled(r)
    \/ InsertUser(r) \/ CreateIdentity(r) \/ Commit(r)

Next ==
    \/ \E u \in Users : SignIn(u)
    \/ \E t \in tokens : Expire(t)
    \/ \E r \in Requests, a, u \in Users, newRole \in Roles \cup {"keep"},
          status \in {"keep", "on", "off"} : StartUpdate(r, a, u, newRole, status)
    \/ \E r \in Requests, a \in Users \cup {NoUser}, u \in Users, newRole \in Roles :
          StartInvite(r, a, u, newRole)
    \/ \E r \in Requests : RequestStep(r) \/ RollBack(r)

Spec == Init /\ [][Next]_vars

----------------------------------------------------------------------------
(* Properties *)

(* "A company can never be left with no active administrator" (PROJECT.md). *)
AlwaysAnActiveAdmin == \E u \in Users : ActiveAdmin(u)
=============================================================================
