SPECIFICATION FairWatchedSpec
CONSTANTS
    s1 = s1
    groq = groq
    gemini = gemini
    Provider = {groq, gemini}
    Nobody = Nobody
    CountedQuota = {gemini}
    TransportRetries = 1
    Stage = {s1, s2}
    SelfRetrying = {s1}
    Deployments <- Mixed
INVARIANTS TypeOK RequestsBounded OneRecovery SlotHasAnOwner NobodyAskedNobodyFree
PROPERTIES EveryStageEnds SlotComesBack
CHECK_DEADLOCK FALSE
