CONSTANTS
    Instances = {i1, i2}
    Requests = {r1}
    Names = {admin, ann}
    Passwords = {p, q}
    Unhashable = {}
    AdminName = admin
    Configs <- GoodConfigs
    Migrations = 2
    Faults = {"crash"}
    Nil = Nil
SPECIFICATION Spec
INVARIANT CurrentIsNoOp
CHECK_DEADLOCK FALSE
