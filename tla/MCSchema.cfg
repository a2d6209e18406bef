CONSTANTS
    MaxPool = 2
    MaxChanges = 4
    Tasks = {c1, c2}
    Colls = {p, q}
    Fields = {"a"}
    FtsNames = {"x"}
    RowIds = {1}
    Threshold = 0
    ITasks = {c1, c2}
    MaxDdl = 3
SYMMETRY Symmetry
SPECIFICATION MCSpec
INVARIANTS   NoDanglingFk
CHECK_DEADLOCK FALSE
