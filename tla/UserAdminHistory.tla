------------------------- MODULE UserAdminHistory --------------------------
(***************************************************************************)
(* UserAdmin with a history variable: have two requests been about to take *)
(* away the role or the account of two different active administrators at  *)
(* the same time?  Nothing in the program prevents it: count_active_admins *)
(* locks no row, and the row lock of the flush is that of one person.  The *)
(* property says that this is the only way to lose the last administrator. *)
(***************************************************************************)
EXTENDS UserAdmin

VARIABLE raced

historyVars == <<vars, raced>>

(* Past the count, or let through without one, and not yet committed: the   *)
(* commit would leave the company one active administrator fewer.           *)
TakesAdmin(r) ==
    /\ req[r].step \in {"flush", "role", "status", "commit"}
    /\ ActiveAdmin(req[r].user)
    /\ RemovesAdmin(req[r].user, req[r])

Race ==
    \E r, q \in Requests :
        TakesAdmin(r) /\ TakesAdmin(q) /\ req[r].user # req[q].user

HInit == Init /\ raced = FALSE

HNext ==
    /\ Next
    /\ raced' = (raced \/ Race')

HSpec == HInit /\ [][HNext]_historyVars

----------------------------------------------------------------------------
(* Properties *)

(* "A company can never be left with no active administrator" (PROJECT.md), *)
(* however many requests overlap and whatever fails, as long as no two of   *)
(* them were about to take away two administrators at once: not by changes  *)
(* of one person that overwrite each other, not by an uncounted deactivation*)
(* of somebody who is promoted meanwhile (admin.py:275-299), not by half a  *)
(* request that rolls back after its directory calls.                       *)
LostOnlyInARace == ~raced => AlwaysAnActiveAdmin

(* Why: who takes away an administrator leaves another, who cannot be taken *)
(* away by anybody else as long as there is no race.                        *)
AdminInv ==
    /\ Race => raced
    /\ ~raced =>
          /\ AlwaysAnActiveAdmin
          /\ \A r \in Requests : TakesAdmin(r) => OtherAdmin(r)
=============================================================================
