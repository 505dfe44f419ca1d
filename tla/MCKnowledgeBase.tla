-------------------------- MODULE MCKnowledgeBase --------------------------
(* Instances of KnowledgeBase for TLC: one company, one of the documents is *)
(* a seed document that is always searchable.                               *)
EXTENDS KnowledgeBase

CONSTANTS d1, s1, alice, q1

MCTenantOf == [u \in Users |-> "acme"]
MCSimilarity == [p \in Questions \X Questions |-> IF p[1] = p[2] THEN 2 ELSE 1]
=============================================================================
