CONSTANTS
    Colls = {p}
    Fields = {"a"}
    FtsNames = {"x"}
    RowIds = {1}
    Threshold = 0
    ITasks = {c1, c2}
    MaxDdl = 1
    MaxPool = 1
    MaxChanges = 4
    Tasks = {c1, c2}
SYMMETRY Symmetry
SPECIFICATION MCSpec
INVARIANT EntryRefetched
CHECK_DEADLOCK FALSE
