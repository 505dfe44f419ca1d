\* Two requests at a time, nothing fails.
SPECIFICATION Spec
CONSTANTS
    NoUser = NoUser
    Users = {u1, u2}
    SameId = {}
    Requests = {r1, r2}
    Faults = {}
INVARIANTS AlwaysAnActiveAdmin
