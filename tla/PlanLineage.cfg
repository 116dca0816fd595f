SPECIFICATION Spec
CONSTANTS
    Job = {j1, j2}
    Feedback = {f1, f2}
    Request = {q1}
    Stamp = {s1}
    Fork = {b1}
    Main = Main
    Nothing = Nothing
    StageSaves = TRUE
SYMMETRY Symmetry
INVARIANTS TypeOK VersionMatchesHead BranchIsAChain
PROPERTIES NoFeedbackLost LocksRespected DriftHasTwoCauses LineageAppendOnly SerialSpec
