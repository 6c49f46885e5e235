CONSTANTS
    Requests = {r1, r2, r3}
    Users = {u1}
    Admins = {}
    Faults = {"crash", "io", "db"}
    Nil = Nil
SPECIFICATION FairSpec
INVARIANT RowsHaveAudio
PROPERTY RemovedEventuallyFreed
CHECK_DEADLOCK FALSE
