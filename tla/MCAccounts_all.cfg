CONSTANTS
    Instances = {i1}
    Requests = {r1, r2, r3, r4}
    Names = {admin, ann, bob}
    Passwords = {p, q}
    Unhashable = {}
    AdminName = admin
    Configs <- GoodConfigs
    Migrations = 1
    Faults = {"lost"}
    Nil = Nil
SYMMETRY Symmetry
SPECIFICATION Spec
INVARIANTS
    TypeOK
    RegisteredAsAsked
    ValidLoginAccepted
CHECK_DEADLOCK FALSE
