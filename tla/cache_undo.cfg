SPECIFICATION Spec
CONSTANTS
    c1 = c1
    NULL = NULL
    Column <- MCColumn
    Value <- MCValue
    Required <- MCRequired
    Careful = FALSE
    MaxInit = 2
    MaxRows = 3
    MaxEdited = 1
PROPERTY UndoInsertRemovesCurrent
