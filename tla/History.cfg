SPECIFICATION EnrichmentSpec
CONSTANTS
    Digests = {"d1", "d2", "d3"}
    Approved = {"d1", "d2"}
    Governed = {"d1", "d2"}
    r1 = r1
    r2 = r2
    r3 = r3
    Requests = {r1, r2, r3}
    Scenarios <- MCScenarios
    None = None
    MAX_FAULTS = 2
    Evaluations = {"e1"}
    Unfinished = "e2"
    PinOf <- MCPinOf
    Runners = {"task", "recovery"}
    Recovery = "recovery"
    MAX_DAMAGE = 1
    Callers = {r1, r2, r3}
    Policy <- MCPolicy
    IndicatorsOf <- MCIndicatorsOf
    Addresses = {1, 2, 3}
    Permitted = {1, 2}
    Answers = {{}, {2}, {1, 2}, {1, 3}}
    Replies <- MCReplies
    Delays = {0, 2}
    OVERALL_DEADLINE = 4
    MAX_ATTEMPTS = 2
    BACKOFF_INITIAL = 1
    BACKOFF_MAX = 2
    MAX_REDIRECT_HOPS = 1
INVARIANTS
    ActivationHistory
    KnowledgeIsExact
    HistoryAccounted
    ReplayTruthful
    EgressGuarded
    AdvisoryTruthful
PROPERTY
    ReplaysComplete
    EnrichmentEnds
CHECK_DEADLOCK FALSE
