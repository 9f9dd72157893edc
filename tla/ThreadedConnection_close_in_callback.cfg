\* The same system as in ThreadedConnection_live, except that a callback may
\* close a connection.
SPECIFICATION FairSpec
CONSTANTS
    c1 = c1
    Conn = {c1}
    Capacity = 2
    UIntMod = 4
    MaxAccepted = 3
    CloseInCallback = TRUE
PROPERTIES
    CloseReturns
CHECK_DEADLOCK FALSE
