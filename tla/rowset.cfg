SPECIFICATION Spec
CONSTANTS
    id = id
    NULL = NULL
    Id = id
    Column <- MCColumn
    Required <- MCColumn
    Value <- MCValue
    MaxInit = 2
    MaxRows = 3
    MaxInserts = 1
    MaxWaiting = 1
    MaxEdited = 1
INVARIANTS
    TypeOK
    BookmarkFindsRow
    RelativeCountsLeftRows
    FlagsAgree
PROPERTIES
    AcceptedInsertIsCurrent
    DeleteRowsHitsBookmark
VIEW MCView
