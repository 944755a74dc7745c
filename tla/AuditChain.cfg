SPECIFICATION Spec
CONSTANTS
    Writers = {w1, w2}
    Verifiers = {v1}
    Contents = {c1, c2}
    None = None
    MAX_EVENTS = 5
SYMMETRY Symmetry
INVARIANTS
    ChainIntact
    NoFalseAlarm
    DamageDetected
