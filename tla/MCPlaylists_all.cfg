CONSTANTS
    Requests = {r1, r2, r3}
    Users = {u1, u2}
    Admins = {u2}
    Tracks = {a, b, c}
    PlaylistIds = {p1}
    Faults = {"crash", "db", "lost"}
    Nil = Nil
SYMMETRY Symmetry
SPECIFICATION Spec
INVARIANTS
    TypeOK
    EntriesExist
    OnlyOwnersWrite
    AddedStays
    AppendOrder
CHECK_DEADLOCK FALSE
