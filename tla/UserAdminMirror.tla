-------------------------- MODULE UserAdminMirror --------------------------
(***************************************************************************)
(* UserAdmin with a history variable: of which people has a request ended  *)
(* between its first directory call and its commit?  No rollback reaches   *)
(* the directory, and nothing in the program repairs or remembers what such*)
(* a request leaves there.  The property says that this is the only way for*)
(* table and directory to part.                                            *)
(***************************************************************************)
EXTENDS UserAdmin

VARIABLE undone

mirrorVars == <<vars, undone>>

(* A directory call that fails, a refused statement or commit, or the end of*)
(* the process; an invitation that ends like this leaves no row to compare. *)
CutShort(r) ==
    /\ req[r].step \in {"role", "status", "commit"}
    /\ req'[r] = Idle
    /\ ~Commit(r)

MInit == Init /\ undone = {}

MNext ==
    /\ Next
    /\ undone' = undone \cup {req[r].user : r \in {q \in Requests : CutShort(q)}}

MSpec == MInit /\ [][MNext]_mirrorVars

----------------------------------------------------------------------------
(* Properties *)

(* "Mirror the change into the directory" (update_user): when no request    *)
(* holds the row of a person, the directory agrees with it, however many    *)
(* requests for that person overlap and whatever fails for others, unless a *)
(* request for that very person was cut short after it had begun to call    *)
(* the directory.                                                           *)
DirectoryMirrorsRow ==
    \A u \in Users \ undone : role[u] # "none" /\ ~Locked(u) =>
        dirRole[u] = role[u] /\ enabled[u] = active[u]
=============================================================================
