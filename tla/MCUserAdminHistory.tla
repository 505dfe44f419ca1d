------------------------ MODULE MCUserAdminHistory -------------------------
(* Instances of UserAdminHistory for TLC: people of one kind and requests   *)
(* are interchangeable.                                                     *)
EXTENDS UserAdminHistory, TLC

MCSymmetry == Permutations(Users) \cup Permutations(Requests)

\* After a race the property says nothing, and a race is never forgotten.
MCNotRaced == ~raced
=============================================================================
