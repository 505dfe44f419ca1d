--------------------------- MODULE MCUsageLimits ---------------------------
(* One user with two requests at a time; two requests fit into a minute of  *)
(* the API, one of workflows and one of uploads.                            *)
EXTENDS UsageLimits

CONSTANTS c1, c2

MCCalls == {c1, c2}
MCKinds == [c \in MCCalls |-> IF c = c1 THEN {"agent"} ELSE {"chat", "upload"}]
MCRateLimit == [b \in Buckets |-> IF b = "api" THEN 2 ELSE 1]
=============================================================================
