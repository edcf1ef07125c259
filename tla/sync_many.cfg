SPECIFICATION Spec
CONSTANTS
    k = k
    v = v
    x = x
    y = y
    NULL = NULL
    Column <- MCKeyOnly
    Value <- MCValue
    Required <- MCRequired
    Key <- MCKey
    AutoColumns <- MCKey
    Writable <- MCValue
    MaxInit = 1
    MaxId = 2
    MaxPending = 2
    MaxOthers = 0
INVARIANT CursorUsable
PROPERTIES
    CallsLookAtomic
    AcceptTerminates
VIEW MCView
