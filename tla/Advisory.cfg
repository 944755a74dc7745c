SPECIFICATION ExtractionSpec
CONSTANTS
    Indicators <- MCIndicators
    Negatives <- MCNegatives
    Overrides <- MCOverrides
    Rules <- MCRules
    ActionPolicy <- MCActionPolicy
    Taxonomy = {"A", "B", "TAX-01"}
    SuppressionCategories = {"DENIAL", "EDUCATION", "CONTEXT"}
    Inputs <- MCInputs
    Responses <- MCResponses
    Messages <- MCMessages
    HostRun = 1
INVARIANTS
    StagesAgree
    IndependenceIsMatching
    AiOnlyAdds
    ClearIsFinal
    SpansTraceable
    OnlyLiveWordsCount
    LiveRequestsCount
CHECK_DEADLOCK FALSE
