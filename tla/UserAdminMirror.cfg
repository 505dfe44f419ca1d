\* Two requests at a time; the directory, the database and the process may fail.
SPECIFICATION MSpec
CONSTANTS
    NoUser = NoUser
    Users = {u1, u2}
    SameId = {u1, u2}
    Requests = {r1, r2}
    Faults = {"directory", "database"}
SYMMETRY MCSymmetry
INVARIANTS TypeOK DirectoryMirrorsRow
\* Two requests at a time can leave everybody deactivated (see UserAdminRace);
\* nobody can sign in then, and the company stops.
CHECK_DEADLOCK FALSE
CONSTRAINT MCNotAllUndone
