CONSTANTS
    Instances = {i1, i2}
    Requests = {r1}
    Names = {admin, ann}
    Passwords = {p, q}
    Unhashable = {q}
    AdminName = admin
    Configs <- AnyConfigs
    Migrations = 2
    Faults = {"crash", "db", "lost", "io"}
    Nil = Nil
SPECIFICATION FairSpec
INVARIANTS
    AdminExists
    MigratedFirst
PROPERTY EventuallyServing
CHECK_DEADLOCK FALSE
