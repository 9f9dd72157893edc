\* The smallest instance in which orm_setkey moves the variables.
SPECIFICATION Spec
CONSTANTS
    o1 = o1
    userId = userId
    name = name
    alice = alice
    loadedCallback = loadedCallback
    None = None
    Orm = {o1}
    Column = {userId, name}
    Numeric = {userId}
    AutoColumn = userId
    Unique = {userId}
    Text = {alice}
    Callback = {loadedCallback}
    MaxNumber = 1
    MaxQueries = 1
PROPERTIES
    OldKeyKept
CHECK_DEADLOCK FALSE
