CONSTANTS
    Requests = {r1, r2, r3}
    Users = {u1, u2}
    Admins = {u2}
    Tracks = {a, b, c}
    PlaylistIds = {p1}
    Faults = {}
    Nil = Nil
SYMMETRY Symmetry
SPECIFICATION Spec
INVARIANT PositionsDiffer
CHECK_DEADLOCK FALSE
