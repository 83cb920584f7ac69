SPECIFICATION Spec
CONSTANTS
    Layouts <- MCLayouts
    ThreadCounts = {1, 2, 3}
    MaxPrologues = 2
INVARIANTS
    ThreadsFindTheirInputs
CHECK_DEADLOCK FALSE
