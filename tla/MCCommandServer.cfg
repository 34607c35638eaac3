CONSTANTS
    None = None
    w1 = w1
    w2 = w2
    c1 = c1
    c2 = c2
    c3 = c3
    b1 = b1
    r1 = r1
    r2 = r2
    Workers = {w1, w2}
    Commands = {c1, c2, c3}
    Broadcasts = {}
    Responders = {r1, r2}
    MaxRetries = 1
SPECIFICATION Spec
SYMMETRY CommandSymmetry
INVARIANTS
    PoolSound
CHECK_DEADLOCK FALSE
