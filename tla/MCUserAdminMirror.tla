------------------------- MODULE MCUserAdminMirror -------------------------
(* Instances of UserAdminMirror for TLC: people of one kind and requests    *)
(* are interchangeable.                                                     *)
EXTENDS UserAdminMirror, TLC

MCSymmetry == Permutations(Users) \cup Permutations(Requests)

\* Whoever has been cut short stays so: with everybody cut short, the property
\* says nothing any more.
MCNotAllUndone == undone # Users
=============================================================================
