\* One connection with a longer life: three queries, two of them in m_Queue.
\* Scripts close connections outside of callbacks.
SPECIFICATION FairSpec
CONSTANTS
    c1 = c1
    Conn = {c1}
    Capacity = 2
    UIntMod = 4
    MaxAccepted = 3
    CloseInCallback = FALSE
PROPERTIES
    CloseReturns
    WokenWorkerAnswers
    CloseDrains
