SPECIFICATION Spec
CONSTANTS
    k = k
    v = v
    x = x
    y = y
    NULL = NULL
    Column <- MCColumn
    Value <- MCValue
    Required <- MCRequired
    Key <- MCKey
    AutoColumns <- MCKey
    Writable <- MCValue
    MaxInit = 1
    MaxId = 2
    MaxPending = 1
    MaxOthers = 1
INVARIANTS
    TypeOK
    CacheMirrorsDb
    InsertedOnce
    OnlyInsertsWait
PROPERTIES
    CallsLookAtomic
    NoLostUpdate
VIEW MCView
