CONSTANTS
    a = a
    b = b
    v = v
    Tracks = {a, b, v}
    Videos = {v}
    Artist <- MCArtist
    Queues <- MCQueues
    Volumes = {0, 8, 10}
    MaxClicks = 4
    Nil = Nil
SPECIFICATION FairSpec
INVARIANTS
    TypeOK
    IndexInQueue
    PlaysWhatIsShown
    ButtonAgrees
PROPERTIES
    ComesToRest
    PlaysOn
CHECK_DEADLOCK FALSE
