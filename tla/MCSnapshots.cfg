SPECIFICATION Spec
CONSTANTS
    Media = {m1}
    Handler = {h1, h2}
    Limit = 1
    MaxTime = 2
INVARIANTS TypeOK MediaPresent LabelsWhole
CHECK_DEADLOCK FALSE
SYMMETRY Symmetry
CONSTRAINT OneWriter
