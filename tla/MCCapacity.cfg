SPECIFICATION CapacitySpec
CONSTANTS
    Site = {s1, s2}
    Op = {o1, o2}
    Budget = 7
    Size = {1, 2}
    Rest = 2
    None = None
INVARIANTS CapacityTypeOK RunningWithinBudget
CHECK_DEADLOCK FALSE
SYMMETRY Symmetry
