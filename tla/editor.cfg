CONSTANTS
    Ops = {o1, o2}
    MaxEdits = 2
    MaxSaves = 2
    MaxMoves = 2
SPECIFICATION Spec
INVARIANTS HistoryShowsCanvas  DraftGuardsWork
PROPERTIES ConflictIsReal OverwriteIsKnown
CHECK_DEADLOCK FALSE
