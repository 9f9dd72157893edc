\* Two connections whose m_Queue holds one query: queries are refused while it
\* is full.  Scripts may close connections from callbacks as well: safety does
\* not depend on it.
SPECIFICATION Spec
CONSTANTS
    c1 = c1
    c2 = c2
    Conn = {c1, c2}
    Capacity = 1
    UIntMod = 3
    MaxAccepted = 2
    CloseInCallback = TRUE
CONSTRAINT AcceptedTogether
SYMMETRY ConnSymmetry
INVARIANTS
    TypeOK
    UnprocessedIsExact
    AllOrNothing
    ErrorsNotCrossed
PROPERTIES
    DeliverySpec
    DestroyedUntouched
CHECK_DEADLOCK FALSE
