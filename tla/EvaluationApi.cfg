SPECIFICATION FairSpec
CONSTANTS
    A = A
    B = B
    Evaluations = {e1, e2}
    Processes = {A, B}
    Workers <- OneEach
    Bundles = {b1}
    Envelopes = {v1}
    None = None
    MAX_FAULTS = 1
PROPERTY
    ImplementsApi
CHECK_DEADLOCK FALSE
