CONSTANTS
    Requests = {r1, r2, r3}
    Users = {u1, u2}
    Admins = {u2}
    Faults = {"io"}
    Nil = Nil
SYMMETRY RequestSymmetry
SPECIFICATION Spec
INVARIANT DeleteRemovesFiles
CHECK_DEADLOCK FALSE
