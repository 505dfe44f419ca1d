-------------------------- MODULE MCDocumentStore --------------------------
(* Instances of DocumentStore for TLC: one owner and one admin of the same  *)
(* tenant, and an admin of another tenant who may delete nothing.           *)
EXTENDS DocumentStore, TLC

CONSTANTS owner1, adminA, adminB

MCUsers == {owner1, adminA, adminB}
MCTenantOf == (owner1 :> "tenantA") @@ (adminA :> "tenantA") @@ (adminB :> "tenantB")
MCAdmins == {adminA, adminB}
=============================================================================
