CONSTANTS
    Views = 3
    MaxIds = 9
    MaxEdits = 3
    MaxMarks = 3
SPECIFICATION Spec
INVARIANTS TypeOK IdsAreUnique CanvasIdIsRight NestingIsShallow
PROPERTY OnlyDeletingLoses
CHECK_DEADLOCK FALSE
