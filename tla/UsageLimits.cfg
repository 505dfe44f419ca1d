SPECIFICATION FairSpec
CONSTANTS
    Users = {u1}
    c1 = c1
    c2 = c2
    Calls <- MCCalls
    Kinds <- MCKinds
    RateLimit <- MCRateLimit
    Ceiling = 1
    Prices = {1}
    MaxPrice = 1
    MaxDay = 1
    MaxIndexed = 1
    RedisFails = {"upload"}
    DatabaseFails = TRUE
    NoUser = NoUser
INVARIANTS TypeOK AskedIsBounded
PROPERTIES WindowReopens
