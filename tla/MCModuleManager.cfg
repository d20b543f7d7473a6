SPECIFICATION Spec
CONSTANTS
    Op = {o1, o2}
    Version = {v1, v2, v3}
    Compatible = {v1, v2}
    Scoped = {v2}
    Premium = {v2}
    Activates = {v1, v2}
    Deactivates = {v1, v2}
    None = None
INVARIANTS TypeOK CurrentWasComplete FileIsTrue ActiveIsLicensed
CHECK_DEADLOCK FALSE
SYMMETRY Symmetry
CONSTRAINT Followed
VIEW Seen
