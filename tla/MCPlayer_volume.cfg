CONSTANTS
    a = a
    b = b
    v = v
    Tracks = {a, b, v}
    Videos = {v}
    Artist <- MCArtist
    Queues <- MCQueues
    Volumes = {0, 8, 10}
    MaxClicks = 3
    Nil = Nil
SPECIFICATION Spec
INVARIANT VolumeKept
CHECK_DEADLOCK FALSE
