\* One person who signs in again and again, two calls at once; everything may fail.
SPECIFICATION FairSpec
CONSTANTS
    Nobody = Nobody
    Loading = Loading
    People = {p1}
    Calls = {c1, c2}
    Faults = {"network", "keys", "directory"}
INVARIANTS TypeOK ServedOnce
PROPERTIES LeaversDoNotRenew CallsEnd WhoLeavesIsOut
