SPECIFICATION Spec
CONSTANTS
    k = k
    v = v
    x = x
    y = y
    NULL = NULL
    Column <- MCColumn
    Value <- MCValue
    Required <- MCRequired
    Key <- MCKey
    AutoColumns <- MCKey
    Writable <- MCNullOnly
    MaxInit = 1
    MaxId = 1
    MaxPending = 1
    MaxOthers = 0
INVARIANT CacheMirrorsDb
VIEW MCView
