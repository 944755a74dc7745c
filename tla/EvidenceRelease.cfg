SPECIFICATION Spec
CONSTANTS
    Puts = {p1, p2}
    Finals = {}
    Bodies = {b1}
    None = None
    Damaged = Damaged
    MAX_WRITE_ATTEMPTS = 3
PROPERTY
    ReleasedResumes
