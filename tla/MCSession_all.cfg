CONSTANTS
    Users = {u1, u2}
    Requests = {r1, r2}
    MaxLogins = 2
    MaxVersion = 2
    Faults = {"db", "net"}
    Nil = Nil
SYMMETRY Symmetry
SPECIFICATION Spec
INVARIANTS
    TypeOK
    AskedInSession
    OwnListShown
PROPERTY SessionEndsForCause
CHECK_DEADLOCK FALSE
