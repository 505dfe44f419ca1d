\* One invocation at a time, one script, one error of AWS; a stack that is up, or none.
SPECIFICATION FairSpec
CONSTANTS
    svc = svc
    alb = alb
    db = db
    otherName = otherName
    otherTags = otherTags
    otherState = otherState
    Resources = {svc, alb, db, otherName, otherTags, otherState}
    Kind <- MCKind
    Managed = {svc, alb, db}
    Database = db
    NameOwned = {svc, alb, db, otherTags, otherState}
    Tagged = {svc, alb, db, otherName, otherState}
    Mentioned = {otherName, otherTags}
    Invocations = {i1}
    SessionLimit = 1
    MaxRetries = 1
    MaxErrors = 1
    MaxScripts = 1
INVARIANTS TypeOK ForeignUntouched DryRunKeepsStack
PROPERTIES DestroyKeepsRows ErrorsAreRetried PastLimitStops
