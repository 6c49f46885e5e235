CONSTANTS
    Users = {u1, u2}
    Requests = {r1, r2}
    MaxLogins = 2
    MaxVersion = 2
    Faults = {}
    Nil = Nil
SYMMETRY Symmetry
SPECIFICATION Spec
INVARIANT YourPlaylists
CHECK_DEADLOCK FALSE
