SPECIFICATION Spec
CONSTANTS
    Puts = {p1}
    Finals = {f1, f2}
    Bodies = {b1}
    None = None
    Damaged = Damaged
    MAX_WRITE_ATTEMPTS = 3
INVARIANT
    FailureNeverAccepted
