\* Two requests at a time; the directory, the database and the process may fail.
SPECIFICATION HSpec
CONSTANTS
    NoUser = NoUser
    Users = {u1, u2}
    SameId = {}
    Requests = {r1, r2}
    Faults = {"directory", "database"}
SYMMETRY MCSymmetry
INVARIANTS LostOnlyInARace
\* Directory calls that fail half way can disable every account in the
\* directory; nobody can sign in then, and the company stops.
CHECK_DEADLOCK FALSE
CONSTRAINT MCNotRaced
