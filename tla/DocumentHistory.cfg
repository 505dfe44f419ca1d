\* Deletes at any moment of the task; every fault may happen.
SPECIFICATION HSpec
CONSTANTS
    owner1 = owner1
    adminA = adminA
    adminB = adminB
    NoDoc = NoDoc
    NoUser = NoUser
    Users <- MCUsers
    TenantOf <- MCTenantOf
    Admins <- MCAdmins
    Docs = {d1, s1}
    SeedDocs = {s1}
    Requests = {r1, r2}
    MaxChunks = 2
    Faults = {"storage", "vectors", "database", "restart"}
SYMMETRY MCSymmetry
INVARIANTS TypeOK DeletedNotSearchable SearchableHasFile
PROPERTIES ReadyOnlyWhenIndexed
\* The users may stop asking for anything once every document is settled.
CHECK_DEADLOCK FALSE
