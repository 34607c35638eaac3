CONSTANTS
    None = None
    spawner = spawner
    logger = logger
    other = other
    Self = spawner
    Logger = logger
    Others = {other}
    MaxReady = 2
    MaxLost = 1
SPECIFICATION FairSpec
INVARIANTS
    ListSound
    KillAllThorough
PROPERTIES
    DeadForgotten
    KillAllEndsSpawner
CHECK_DEADLOCK FALSE
