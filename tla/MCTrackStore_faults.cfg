CONSTANTS
    Requests = {r1, r2, r3}
    Users = {u1, u2}
    Admins = {u2}
    Faults = {"crash", "io", "db", "lost"}
    Nil = Nil
SYMMETRY RequestSymmetry
SPECIFICATION Spec
INVARIANTS
    TypeOK
    NoStrayFiles
    UploadsStay
    DeletedStaysGone
PROPERTY
    StreamServesWholeFile
CHECK_DEADLOCK FALSE
