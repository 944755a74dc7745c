SPECIFICATION Spec
CONSTANTS
    Puts = {p1, p2}
    Finals = {f1, f2}
    Bodies = {b1, b2}
    None = None
    Damaged = Damaged
    MAX_WRITE_ATTEMPTS = 2
SYMMETRY Symmetry
INVARIANTS
    RowsAgree
    FenceHolds
    ContentBehindMetadata
    DecisionsWitnessed
    AnswersTruthful
    CustodyTrail
PROPERTY
    StoredForever
