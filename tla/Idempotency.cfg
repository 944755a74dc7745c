SPECIFICATION Spec
CONSTANTS
    r1 = r1
    r2 = r2
    r3 = r3
    Requests = {r1, r2, r3}
    d1 = d1
    d2 = d2
    Digests = {d1, d2}
    None = None
    CLAIM_LEASE = 1
    ACTIVE_WINDOW = 2
    MAX_CLOCK = 4
SYMMETRY Symmetry
CHECK_DEADLOCK FALSE
INVARIANTS
    FencedEffects
    OutcomesTruthful
    ReplaysTruthful
    OnceUnlessStalled
PROPERTIES
    SupersededSealed
    TerminalUnlessStalled
