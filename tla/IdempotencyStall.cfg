SPECIFICATION Spec
CONSTANTS
    r1 = r1
    r2 = r2
    Requests = {r1, r2}
    d1 = d1
    Digests = {d1}
    None = None
    CLAIM_LEASE = 1
    ACTIVE_WINDOW = 2
    MAX_CLOCK = 4
SYMMETRY Symmetry
CHECK_DEADLOCK FALSE
INVARIANT
    AtMostOneEffect
