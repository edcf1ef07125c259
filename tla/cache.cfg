SPECIFICATION Spec
CONSTANTS
    c1 = c1
    NULL = NULL
    Column <- MCColumn
    Value <- MCValue
    Required <- MCRequired
    Careful = TRUE
    MaxInit = 2
    MaxRows = 3
    MaxEdited = 1
INVARIANTS
    TypeOK
    CursorInRange
    DeletedRowsMarked
    InsertedRowsAreTail
    UpdatedRowsHaveEdits
    NavigationSkipsDeleted
    RowNumberResynced
VIEW MCView
