\* Four sessions of two players in one slot.  Players stay until they have
\* been registered.
SPECIFICATION LoginSpec
CONSTANTS
    o1 = o1
    o2 = o2
    o3 = o3
    o4 = o4
    userId = userId
    username = username
    kills = kills
    alice = alice
    bob = bob
    None = None
    Orm = {o1, o2, o3, o4}
    Column = {userId, username, kills}
    Numeric = {userId, kills}
    AutoColumn = userId
    NameColumn = username
    KillsColumn = kills
    Unique = {userId, username}
    Text = {alice, bob}
    Callback <- LoginCallback
    MaxNumber = 2
    MaxQueries = 1
    MaxSessions = 4
    LeaveEarly = FALSE
INVARIANTS
    LoginTypeOK
    LoggedInHasRow
    RightDialog
    ReadsOwnWrites
PROPERTIES
    RowsKeepTheirUser
    DialogComes
CHECK_DEADLOCK FALSE
