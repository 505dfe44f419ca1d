\* Nothing fails and the one document is settled: a question that is being answered during its
\* delete stores its answer after the invalidation.
SPECIFICATION KbSpec
CONSTANTS
    d1 = d1
    s1 = s1
    alice = alice
    q1 = q1
    NoDoc = NoDoc
    NoUser = NoUser
    NoQuestion = NoQuestion
    Users = {alice}
    TenantOf <- MCTenantOf
    Admins = {}
    Docs = {s1}
    SeedDocs = {s1}
    Requests = {r1}
    MaxChunks = 1
    Faults = {}
    Asks = {a1}
    Questions = {q1}
    Similarity <- MCSimilarity
    MaxCandidates = 1
    RedisFails = FALSE
INVARIANTS DeletedIsNotCited
