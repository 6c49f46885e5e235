CONSTANTS
    Requests = {r1, r2, r3}
    Users = {u1, u2}
    Admins = {u2}
    Faults = {"lost"}
    Nil = Nil
SYMMETRY RequestSymmetry
SPECIFICATION Spec
INVARIANT RowsHaveAudio
CHECK_DEADLOCK FALSE
