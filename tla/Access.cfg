SPECIFICATION Spec
CONSTANTS
    r1 = r1
    r2 = r2
    r3 = r3
    r4 = r4
    r5 = r5
    j1 = j1
    j2 = j2
    j3 = j3
    Requests = {r1, r2, r3, r4, r5}
    Jobs = {j1, j2, j3}
    Browsers = {"b1", "b2"}
    Principals = {"p1", "p2"}
    Provisioner = "provisioner"
    None = None
    Signed = "b1"
    EarlierLogin = EarlierLogin
    EarlierSession = EarlierSession
    Scenarios <- MCScenarios
    Stores = {"sign_in", "api_write"}
    Profile <- MCProfile
    MAX_KEYS = 2
    TRANSACTION_SECONDS = 1
    TRANSACTIONS = 2
    IDLE = 1
    ABSOLUTE = 2
    SESSIONS = 2
INVARIANTS
    SessionsAccounted
    AuthorityHolds
    RatesHold
CHECK_DEADLOCK FALSE
