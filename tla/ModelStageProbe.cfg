SPECIFICATION Spec
CONSTANTS
    s1 = s1
    groq = groq
    gemini = gemini
    Provider = {groq, gemini}
    Nobody = Nobody
    CountedQuota = {gemini}
    TransportRetries = 1
    Stage = {s1, s2, s3, s4}
    SelfRetrying = {}
    Deployments <- Pair
CHECK_DEADLOCK FALSE
SYMMETRY Symmetry
INVARIANT OneProbe
