SPECIFICATION Spec
CONSTANTS
    Job = {j1, j2}
    Feedback = {f1}
    Request = {q1}
    Stamp = {}
    Fork = {b1}
    Main = Main
    Nothing = Nothing
    StageSaves = FALSE
SYMMETRY Symmetry
INVARIANT ContentIsRecorded
