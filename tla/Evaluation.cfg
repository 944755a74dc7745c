SPECIFICATION Spec
CONSTANTS
    A = A
    B = B
    Evaluations = {e1, e2}
    Processes = {A, B}
    Workers <- TwoAndOne
    Bundles = {b1, b2}
    Envelopes = {v1, v2}
    None = None
    MAX_FAULTS = 1
SYMMETRY Symmetry
INVARIANTS
    RowsCoherent
    ResultsFenced
    AuditAccounts
    WithdrawalBlocks
CHECK_DEADLOCK FALSE
