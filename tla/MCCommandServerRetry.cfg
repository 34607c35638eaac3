CONSTANTS
    None = None
    w1 = w1
    w2 = w2
    c1 = c1
    c2 = c2
    c3 = c3
    b1 = b1
    r1 = r1
    r2 = r2
    Workers = {w1}
    Commands = {c1, c2}
    Broadcasts = {b1}
    Responders = {r1}
    MaxRetries = 2
SPECIFICATION FairSpec
INVARIANTS
    WaitsBacked
    OutcomesEarned
PROPERTIES
    DispatchedResolves
    CommandsArePooled
CHECK_DEADLOCK FALSE
