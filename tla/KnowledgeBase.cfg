\* One uploaded and one seed document, one question at a time, one delete; Redis, the database and
\* the process fail.
SPECIFICATION KbFairSpec
CONSTANTS
    d1 = d1
    s1 = s1
    alice = alice
    q1 = q1
    NoDoc = NoDoc
    NoUser = NoUser
    NoQuestion = NoQuestion
    Users = {alice}
    TenantOf <- MCTenantOf
    Admins = {}
    Docs = {d1, s1}
    SeedDocs = {s1}
    Requests = {r1}
    MaxChunks = 1
    Faults = {"database", "restart"}
    Asks = {a1}
    Questions = {q1}
    Similarity <- MCSimilarity
    MaxCandidates = 1
    RedisFails = TRUE
PROPERTIES GoneForGood DeletedIsForgotten
