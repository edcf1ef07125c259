SPECIFICATION Spec
CONSTANTS
    k = k
    v = v
    x = x
    y = y
    NULL = NULL
    Column <- MCColumn
    Value <- MCValue
    Required <- MCRequired
    Key <- MCKey
    AutoColumns <- MCKey
    Writable <- MCValue
    MaxInit = 1
    MaxId = 3
    MaxPending = 2
    MaxOthers = 0
INVARIANT InsertedOnce
VIEW MCView
