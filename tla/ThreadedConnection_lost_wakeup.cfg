\* One connection, one query: the notification can come before the worker waits.
SPECIFICATION FairSpec
CONSTANTS
    c1 = c1
    Conn = {c1}
    Capacity = 1
    UIntMod = 3
    MaxAccepted = 1
    CloseInCallback = FALSE
PROPERTIES
    EveryQueryExecuted
