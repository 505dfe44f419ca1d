---------------------------- MODULE MCUserAdmin ----------------------------
(* Instances of UserAdmin for TLC: requests are interchangeable, and so are *)
(* people of the same kind.                                                 *)
EXTENDS UserAdmin, TLC

MCSymmetry == Permutations(Users) \cup Permutations(Requests)
=============================================================================
