CONSTANTS
    Toggles = {m1, m2}
    Tracks = {a, b}
    Faults = {"db", "net", "fetch"}
    Nil = Nil
SYMMETRY Symmetry
SPECIFICATION Spec
INVARIANTS
    TypeOK
    FavoritesExist
    CacheAgrees
    LastToggleWins
CHECK_DEADLOCK FALSE
