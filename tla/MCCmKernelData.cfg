SPECIFICATION Spec
SYMMETRY MCSymmetry
CONSTANTS
    Kernels = {"k", "g"}
    Grouped = {"g"}
    Tasks = {1, 2, 3}
    Spaces = {"s"}
    Serves <- MCServes
    Units = {1, 2, 3}
    ThreadIds <- MCThreadIds
    u = u
    v = v
    Values = {u, v}
    Counts = {2, 3}
    Depth = 1
    MaxSets = 3
    Careful = TRUE
INVARIANTS
    RunsAsEnqueued
    DataReferences
