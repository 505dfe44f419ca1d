------------------------- MODULE MCDocumentHistory -------------------------
(* Instances of DocumentHistory for TLC: an owner, an admin of the same     *)
(* tenant and an admin of another one, an uploaded and a seed document.     *)
EXTENDS DocumentHistory, TLC

CONSTANTS owner1, adminA, adminB

MCUsers == {owner1, adminA, adminB}
MCTenantOf == (owner1 :> "tenantA") @@ (adminA :> "tenantA") @@ (adminB :> "tenantB")
MCAdmins == {adminA, adminB}

\* Delete requests are interchangeable; the two documents are not.
MCSymmetry == Permutations(Requests)
=============================================================================
