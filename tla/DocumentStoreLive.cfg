\* Every fault may happen.  Liveness under the scheduling of the program: no symmetry.
SPECIFICATION FairSpec
CONSTANTS
    owner1 = owner1
    adminA = adminA
    adminB = adminB
    NoDoc = NoDoc
    NoUser = NoUser
    Users <- MCUsers
    TenantOf <- MCTenantOf
    Admins <- MCAdmins
    Docs = {d1}
    SeedDocs = {}
    Requests = {r1, r2}
    MaxChunks = 2
    Faults = {"storage", "vectors", "database", "restart"}
INVARIANTS DeletedIsPurgedAtRest JobMirrorsDocument
PROPERTIES JobEnds DeleteEnds ImplementsContract
\* The users may stop asking for anything once every document is settled.
CHECK_DEADLOCK FALSE
