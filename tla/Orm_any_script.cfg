\* Any script: natives, assignments and unloading in any order.  The server may
\* crash (undefined behaviour), and then it stops.
SPECIFICATION Spec
CONSTANTS
    o1 = o1
    userId = userId
    name = name
    alice = alice
    loadedCallback = loadedCallback
    None = None
    Orm = {o1}
    Column = {userId, name}
    Numeric = {userId}
    AutoColumn = userId
    Unique = {userId}
    Text = {alice}
    Callback = {loadedCallback}
    MaxNumber = 1
    MaxQueries = 1
INVARIANTS
    TypeOK
    ColumnsDistinct
    ErrnoOfOwnQuery
PROPERTIES
    KeyHandover
    LoadsWhatItSelected
CHECK_DEADLOCK FALSE
